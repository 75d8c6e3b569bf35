------------------------------ MODULE FileTree ------------------------------
(***************************************************************************)
(* What the FILES verbs promise of a volume's files (fileEvents.ts 29-55,  *)
(* file-events v0.5, section 6), without counts, implicit directories or   *)
(* metadata: a tree is a map from paths to written contents in which no    *)
(* file lies below another.  A later event takes the place of whatever is  *)
(* in its way.                                                             *)
(***************************************************************************)
EXTENDS VolumePaths

CONSTANTS
  Places,       \* the paths a tree may use
  Contents      \* identities of written contents

VARIABLE tree

Subtree(path) == {p \in DOMAIN tree : IsSelfOrDescendant(p, path)}

\* The tree without the files at `paths`.
Cleared(paths) == Without(tree, paths)

Init == tree = <<>>

\* New content at a path, in place of a file above it and of all below it.
Write(path, content) ==
  /\ \A p \in DOMAIN tree : tree[p] # content
  /\ tree' = Put(Cleared(AncestorPaths(path) \cup Subtree(path)), path, content)

\* A directory at a path, in place of a file at or above it.  One that is
\* there is pinned: the files in it stay.
MakeDir(path) == tree' = Cleared(AncestorPaths(path) \cup {path})

Remove(path) == tree' = Cleared(Subtree(path))

\* The file at `from`, or every file below it, gets `to` for the `from` in its
\* path, in place of a file above `to` and of all else at or below it.  A
\* directory does not move into itself.
Move(from, to) ==
  LET moving == Subtree(from)
      target(p) == RewritePrefix(p, from, to)
      moved == [q \in {target(p) : p \in moving} |->
                  tree[CHOOSE p \in moving : target(p) = q]]
  IN  /\ from # to
      /\ from \in DOMAIN tree \/ ~IsStrictDescendant(to, from)
      /\ tree' = PutAll(Cleared(moving \cup AncestorPaths(to) \cup Subtree(to)), moved)

Next ==
  \E path \in Places :
    \/ \E content \in Contents : Write(path, content)
    \/ MakeDir(path)
    \/ Remove(path)
    \/ \E to \in Places : Move(path, to)

Spec == Init /\ [][Next]_tree
=============================================================================
