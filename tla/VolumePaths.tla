---------------------------- MODULE VolumePaths ----------------------------
(***************************************************************************)
(* Volume paths (pathUtils.ts).  A path is the non-empty sequence of the   *)
(* names between its slashes; nothing in the code looks inside a name, so  *)
(* a name is an opaque value.  "p is below d" is the startsWith(d + "/")   *)
(* test of the code: on whole segments, a proper prefix.                   *)
(***************************************************************************)
EXTENDS Naturals, Sequences

CONSTANT Names      \* what may stand between two slashes

Paths == Seq(Names) \ {<<>>}

\* True if `descendant` lives strictly below `ancestor`/.
IsStrictDescendant(descendant, ancestor) ==
  /\ Len(ancestor) < Len(descendant)
  /\ SubSeq(descendant, 1, Len(ancestor)) = ancestor

IsSelfOrDescendant(descendant, ancestor) ==
  descendant = ancestor \/ IsStrictDescendant(descendant, ancestor)

\* The directories a path lies in, from the outermost to its parent.
AncestorPaths(path) == {SubSeq(path, 1, i) : i \in 1 .. Len(path) - 1}

PathChain(path) == AncestorPaths(path) \cup {path}

\* The path `path` has once its ancestor-or-self `from` is called `to`.
RewritePrefix(path, from, to) == to \o SubSeq(path, Len(from) + 1, Len(path))

-----------------------------------------------------------------------------
(* Maps keyed by path: Map.set, for one entry and for several, Map.delete *)

Put(map, key, value) ==
  [k \in DOMAIN map \cup {key} |-> IF k = key THEN value ELSE map[k]]

PutAll(map, entries) ==
  [k \in DOMAIN map \cup DOMAIN entries |->
     IF k \in DOMAIN entries THEN entries[k] ELSE map[k]]

Without(map, keys) == [k \in DOMAIN map \ keys |-> map[k]]

=============================================================================
