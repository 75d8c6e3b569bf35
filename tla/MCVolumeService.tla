-------------------------- MODULE MCVolumeService --------------------------
EXTENDS References, TLC

CONSTANTS a, b, v, w

\* A name is one of the letters and the numbers of the copies it is: <<a, 1, 2>>
\* is "a copy copy 2".
A == <<a>>
B == <<b>>
ACopy == <<a, 1>>
AllNames == Seq({a, b} \cup Nat)

\* A directory with one entry and a neighbour to move it to.
FewPaths == {<<A>>, <<A, B>>, <<B>>}

\* An empty volume, and two files of an older program that had no keys.
Legacy(hash, path, ref, ts) ==
  [hash |-> hash, by |-> "older", verb |-> "CREATE_FILE", ref |-> ref, ts |-> ts, lineage |-> {},
   event |-> [kind |-> "CREATE_FILE", path |-> path,
              blob |-> Seal(VolumeKey(v), hash), wrapped |-> NoKey]]
SmallLogs == {<<>>, <<Legacy(9, <<A>>, OwnContent, 3), Legacy(8, <<B>>, 9, 3)>>}

\* One file, one asked for twice, and two in both orders.
FewLists == {<< <<A>>, <<A>> >>, << <<B>>, <<A>> >>, << <<A>>, <<A, B>> >>}

\* Bundles of the other volume: two files, the first from a clock far ahead,
\* one of which is called as the copy of the other would be.
ForeignItem(path, t, n) ==
  [name |-> path, createdAt |-> t, id |-> VolumeIdFromPublicKey(w),
   blob |-> Seal(FileKey(n), n), key |-> WrapFileKeyForVolume(w, FileKey(n))]
SealedItem(path, t, n) ==
  LET capsule == CreateRecipientKeyCapsule(FileKey(n), OwnId, Seal(FileKey(n), n))
  IN  [name |-> path, createdAt |-> t, id |-> capsule.r,
       blob |-> Seal(FileKey(n), n), key |-> capsule.w]
SmallBundles ==
  {[protocol |-> "source", id |-> VolumeIdFromPublicKey(w),
    items |-> <<ForeignItem(<<A>>, 5, 6), ForeignItem(<<ACopy>>, 0, 7)>>],
   [protocol |-> "recipient", id |-> OwnId,
    items |-> <<SealedItem(<<ACopy>>, 0, 6), SealedItem(<<B>>, 5, 7)>>]}

\* A copy's name is that of the file with a number put behind.
Numbered(name, n) == Append(name, n)
=============================================================================
