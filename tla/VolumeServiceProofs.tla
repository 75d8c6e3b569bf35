------------------------- MODULE VolumeServiceProofs -------------------------
(***************************************************************************)
(* Proofs about the calls of the file service.                             *)
(***************************************************************************)
EXTENDS References, ReplayOrderProofs, FileMaterializerProofs

-----------------------------------------------------------------------------
(* Replaying one event after the other *)

\* vol[n] is the volume after the first n entries, for n up to N.
Replays(fs, entries, N, vol) ==
  /\ vol[0] = fs
  /\ \A n \in 1 .. N : vol[n] = Apply(vol[n - 1], entries[n].hash, entries[n].event)

\* The equation MaterializeFrom chooses a solution of: a fold goes from the
\* greatest place of a set of places down.
Solves(fs, entries, S, vols) ==
  vols = [s \in SUBSET S |->
            IF s = {} THEN fs
            ELSE Apply(vols[s \ {Max(s)}], entries[Max(s)].hash, entries[Max(s)].event)]

LEMMA FoldIsSolution ==
  ASSUME NEW fs, NEW entries
  PROVE  MaterializeFrom(fs, entries)
           = (CHOOSE vols : Solves(fs, entries, DOMAIN entries, vols))[DOMAIN entries]
BY DEF MaterializeFrom, FoldLeft, MapThenFoldSet, Solves

LEMMA ReplaysExist ==
  ASSUME NEW fs, NEW entries, NEW N \in Nat
  PROVE  \E vols : Solves(fs, entries, 1 .. N, vols)
<1> DEFINE T == {M \in Nat : \E vols : Solves(fs, entries, 1 .. M, vols)}
<1>1. 0 \in T
  <2> DEFINE g == [s \in SUBSET (1 .. 0) |-> fs]
  <2>1. \A s \in SUBSET (1 .. 0) : s = {}
    OBVIOUS
  <2>2. Solves(fs, entries, 1 .. 0, g)
    BY <2>1 DEF Solves
  <2> QED
    BY <2>2
<1>2. ASSUME NEW M \in T PROVE M + 1 \in T
  <2>1. M \in Nat
    OBVIOUS
  <2>2. PICK vols : Solves(fs, entries, 1 .. M, vols)
    OBVIOUS
  <2> DEFINE on(s, v) == IF s = {} THEN fs
                         ELSE Apply(v[s \ {Max(s)}], entries[Max(s)].hash, entries[Max(s)].event)
             last == entries[M + 1]
             g == [s \in SUBSET (1 .. M + 1) |->
                     IF M + 1 \in s THEN Apply(vols[s \ {M + 1}], last.hash, last.event)
                     ELSE vols[s]]
  <2>3. ASSUME NEW s \in SUBSET (1 .. M) PROVE vols[s] = on(s, vols) /\ g[s] = vols[s]
    <3>1. M + 1 \notin s /\ s \in SUBSET (1 .. M + 1)
      BY <2>1
    <3> QED
      BY <2>2, <3>1 DEF Solves
  <2>4. ASSUME NEW s \in SUBSET (1 .. M + 1) PROVE g[s] = on(s, g)
    <3>1. CASE M + 1 \in s
      <4>1. Max(s) = M + 1
        <5>1. \A x \in s : M + 1 >= x /\ (x >= M + 1 => x = M + 1)
          BY <2>1
        <5> QED
          BY <3>1, <5>1 DEF Max
      <4>2. s \ {M + 1} \in SUBSET (1 .. M)
        BY <2>1
      <4>3. g[s \ {M + 1}] = vols[s \ {M + 1}]
        BY <2>3, <4>2
      <4>4. g[s] = Apply(vols[s \ {M + 1}], last.hash, last.event)
        BY <3>1
      <4> HIDE DEF g
      <4> QED
        BY <3>1, <4>1, <4>3, <4>4
    <3>2. CASE s = {}
      BY <2>3, <3>2
    <3>3. CASE M + 1 \notin s /\ s # {}
      <4>1. s \in SUBSET (1 .. M)
        BY <2>1, <3>3
      <4>2. g[s] = on(s, vols)
        BY <2>3, <4>1
      <4>3. g[s \ {Max(s)}] = vols[s \ {Max(s)}]
        BY <2>3, <4>1
      <4> HIDE DEF g
      <4> QED
        BY <3>3, <4>2, <4>3
    <3> QED
      BY <3>1, <3>2, <3>3
  <2>5. Solves(fs, entries, 1 .. M + 1, g)
    <3> DEFINE h == [s \in SUBSET (1 .. M + 1) |-> on(s, g)]
    <3>1. \A s \in SUBSET (1 .. M + 1) : g[s] = h[s]
      BY <2>4
    <3>2. g = [s \in SUBSET (1 .. M + 1) |-> g[s]] /\ h = [s \in SUBSET (1 .. M + 1) |-> h[s]]
      OBVIOUS
    <3>3. h = [s \in SUBSET (1 .. M + 1) |->
                 IF s = {} THEN fs
                 ELSE Apply(g[s \ {Max(s)}], entries[Max(s)].hash, entries[Max(s)].event)]
      OBVIOUS
    <3> HIDE DEF g, h
    <3>4. g = h
      BY <3>1, <3>2
    <3> QED
      BY <3>3, <3>4 DEF Solves
  <2> QED
    BY <2>1, <2>5
<1>3. T = Nat
  BY <1>1, <1>2, NatsByStep
<1> QED
  BY <1>3

LEMMA ReplaySteps ==
  ASSUME NEW fs, NEW entries, Len(entries) \in Nat, DOMAIN entries = 1 .. Len(entries)
  PROVE  \E vol : /\ Replays(fs, entries, Len(entries), vol)
                  /\ MaterializeFrom(fs, entries) = vol[Len(entries)]
<1> DEFINE N == Len(entries)
           vols == CHOOSE g : Solves(fs, entries, 1 .. N, g)
           vol == [n \in 0 .. N |-> vols[1 .. n]]
<1>1. Solves(fs, entries, 1 .. N, vols)
  BY ReplaysExist
<1>2. MaterializeFrom(fs, entries) = vols[1 .. N]
  BY FoldIsSolution
<1> HIDE DEF vols
<1>3. vol[0] = fs
  <2>1. 1 .. 0 = {} /\ 0 \in 0 .. N /\ {} \in SUBSET (1 .. N)
    OBVIOUS
  <2>2. vols[{}] = fs
    BY <1>1, <2>1 DEF Solves
  <2> QED
    BY <2>1, <2>2
<1>4. ASSUME NEW n \in 1 .. N
      PROVE  vol[n] = Apply(vol[n - 1], entries[n].hash, entries[n].event)
  <2> DEFINE s == 1 .. n
  <2>1. n \in 0 .. N /\ n - 1 \in 0 .. N /\ s \in SUBSET (1 .. N) /\ s # {} /\ n \in s
        /\ s \ {n} = 1 .. n - 1
    <3>1. n \in Nat /\ N \in Nat /\ 1 <= n /\ n <= N
      OBVIOUS
    <3>2. s \in SUBSET (1 .. N) /\ n \in s
      BY <3>1
    <3>3. \A x : x \in s \ {n} <=> x \in 1 .. n - 1
      BY <3>1
    <3>4. s \ {n} = 1 .. n - 1
      BY <3>3
    <3>5. n \in 0 .. N /\ n - 1 \in 0 .. N
      BY <3>1
    <3> HIDE DEF s
    <3> QED
      BY <3>2, <3>4, <3>5
  <2>2. Max(s) = n
    <3>1. \A x \in s : n >= x /\ (x >= n => x = n)
      OBVIOUS
    <3> HIDE DEF s
    <3> QED
      BY <2>1, <3>1 DEF Max
  <2> HIDE DEF s
  <2>3. vols[s] = Apply(vols[s \ {n}], entries[n].hash, entries[n].event)
    BY <1>1, <2>1, <2>2 DEF Solves
  <2>4. vol[n] = vols[s] /\ vol[n - 1] = vols[s \ {n}]
    BY <2>1 DEF s
  <2> HIDE DEF vol
  <2> QED
    BY <2>3, <2>4
<1>5. vol[N] = vols[1 .. N]
  OBVIOUS
<1> HIDE DEF vol
<1> QED
  BY <1>2, <1>3, <1>4, <1>5 DEF Replays

\* Replays of logs with the same front agree on it.
LEMMA ReplaysAgree ==
  ASSUME NEW fs, NEW s, NEW t, NEW N \in Nat, \A n \in 1 .. N : s[n] = t[n],
         NEW f, Replays(fs, s, N, f), NEW g, Replays(fs, t, N, g)
  PROVE  \A n \in 0 .. N : f[n] = g[n]
<1> DEFINE S == {n \in Nat : n <= N => f[n] = g[n]}
<1>1. 0 \in S
  BY DEF Replays
<1>2. ASSUME NEW n \in S PROVE n + 1 \in S
  <2>1. CASE n + 1 <= N
    <3>1. n \in Nat /\ n <= N /\ n + 1 \in 1 .. N /\ (n + 1) - 1 = n
      BY <2>1
    <3>2. f[n] = g[n] /\ s[n + 1] = t[n + 1]
      BY <3>1
    <3>3. /\ f[n + 1] = Apply(f[n], s[n + 1].hash, s[n + 1].event)
          /\ g[n + 1] = Apply(g[n], t[n + 1].hash, t[n + 1].event)
      BY <3>1 DEF Replays
    <3> QED
      BY <3>1, <3>2, <3>3
  <2> QED
    BY <2>1
<1>3. S = Nat
  BY <1>1, <1>2, NatsByStep
<1> QED
  BY <1>3

LEMMA ReplayNothing == \A fs : MaterializeFrom(fs, <<>>) = fs
<1> SUFFICES ASSUME NEW fs PROVE MaterializeFrom(fs, <<>>) = fs
  OBVIOUS
<1>1. Len(<<>>) = 0 /\ DOMAIN <<>> = 1 .. Len(<<>>)
  OBVIOUS
<1>2. PICK vol : Replays(fs, <<>>, Len(<<>>), vol) /\ MaterializeFrom(fs, <<>>) = vol[Len(<<>>)]
  BY <1>1, ReplaySteps
<1> QED
  BY <1>1, <1>2 DEF Replays

\* The last event is applied last.
LEMMA ReplayLast ==
  ASSUME NEW fs, NEW E, NEW s \in Seq(E), NEW e
  PROVE  MaterializeFrom(fs, Append(s, e)) = Apply(MaterializeFrom(fs, s), e.hash, e.event)
<1> DEFINE N == Len(s)
           t == Append(s, e)
<1>1. /\ N \in Nat /\ Len(t) = N + 1 /\ DOMAIN s = 1 .. N /\ DOMAIN t = 1 .. N + 1
      /\ t[N + 1] = e
      /\ \A n \in 1 .. N : s[n] = t[n]
  OBVIOUS
<1> HIDE DEF t
<1>2. PICK f : Replays(fs, s, N, f) /\ MaterializeFrom(fs, s) = f[N]
  BY <1>1, ReplaySteps
<1>3. PICK g : Replays(fs, t, N + 1, g) /\ MaterializeFrom(fs, t) = g[N + 1]
  BY <1>1, ReplaySteps
<1>4. Replays(fs, t, N, g) /\ g[N + 1] = Apply(g[N], e.hash, e.event)
  <2>1. N + 1 \in 1 .. N + 1 /\ (N + 1) - 1 = N /\ \A n \in 1 .. N : n \in 1 .. N + 1
    BY <1>1
  <2> QED
    BY <1>1, <1>3, <2>1 DEF Replays
<1>5. f[N] = g[N]
  <2>1. N \in 0 .. N
    BY <1>1
  <2> HIDE DEF N
  <2>2. \A n \in 0 .. N : f[n] = g[n]
    BY <1>1, <1>2, <1>4, ReplaysAgree
  <2> QED
    BY <2>1, <2>2
<1> QED
  BY <1>2, <1>3, <1>4, <1>5 DEF t


\* The first n + 1 of a sequence are the first n and the next.
LEMMA FrontGrows ==
  ASSUME NEW E, NEW s \in Seq(E)
  PROVE  /\ SubSeq(s, 1, 0) = <<>> /\ SubSeq(s, 1, Len(s)) = s
         /\ \A n \in 0 .. Len(s) : SubSeq(s, 1, n) \in Seq(E) /\ Len(SubSeq(s, 1, n)) = n
         /\ \A n \in Nat : n < Len(s) =>
              /\ s[n + 1] \in E
              /\ SubSeq(s, 1, n + 1) = Append(SubSeq(s, 1, n), s[n + 1])
<1>1. Len(s) \in Nat /\ \A i \in 1 .. Len(s) : s[i] \in E
  OBVIOUS
<1>2. SubSeq(s, 1, 0) = <<>> /\ SubSeq(s, 1, Len(s)) = s
  OBVIOUS
<1>3. ASSUME NEW n \in 0 .. Len(s)
      PROVE  SubSeq(s, 1, n) \in Seq(E) /\ Len(SubSeq(s, 1, n)) = n
  OBVIOUS
<1>4. ASSUME NEW n \in Nat, n < Len(s)
      PROVE  SubSeq(s, 1, n + 1) = Append(SubSeq(s, 1, n), s[n + 1])
  OBVIOUS
<1> QED
  BY <1>1, <1>2, <1>3, <1>4

\* A replay goes on where that of the front has come to.
LEMMA ReplayThenReplay ==
  ASSUME NEW fs, NEW E, NEW s \in Seq(E), NEW t \in Seq(E)
  PROVE  MaterializeFrom(fs, s \o t) = MaterializeFrom(MaterializeFrom(fs, s), t)
<1> DEFINE S == {n \in Nat : n <= Len(t) =>
                   MaterializeFrom(fs, s \o SubSeq(t, 1, n))
                     = MaterializeFrom(MaterializeFrom(fs, s), SubSeq(t, 1, n))}
<1>1. 0 \in S
  <2>1. SubSeq(t, 1, 0) = <<>> /\ s \o <<>> = s
    OBVIOUS
  <2> QED
    BY <2>1, ReplayNothing
<1>2. ASSUME NEW n \in S PROVE n + 1 \in S
  <2>1. CASE n + 1 <= Len(t)
    <3> DEFINE u == SubSeq(t, 1, n)
               e == t[n + 1]
    <3>1. n \in Nat /\ n <= Len(t) /\ n < Len(t) /\ n \in 0 .. Len(t)
      BY <2>1
    <3>2. SubSeq(t, 1, n + 1) = Append(u, e) /\ u \in Seq(E) /\ e \in E
      BY <3>1, FrontGrows
    <3>3. MaterializeFrom(fs, s \o u) = MaterializeFrom(MaterializeFrom(fs, s), u)
      BY <3>1
    <3> HIDE DEF u, e
    <3>4. s \o Append(u, e) = Append(s \o u, e) /\ s \o u \in Seq(E)
      BY <3>2
    <3> DEFINE w == s \o u
               vol == MaterializeFrom(fs, s)
    <3>5. w \in Seq(E) /\ s \o Append(u, e) = Append(w, e)
      BY <3>4
    <3> HIDE DEF w, vol
    <3>6. MaterializeFrom(fs, Append(w, e)) = Apply(MaterializeFrom(fs, w), e.hash, e.event)
      BY <3>5, ReplayLast
    <3>7. MaterializeFrom(vol, Append(u, e)) = Apply(MaterializeFrom(vol, u), e.hash, e.event)
      BY <3>2, ReplayLast
    <3>8. MaterializeFrom(fs, w) = MaterializeFrom(vol, u)
      BY <3>3 DEF w, vol
    <3>9. MaterializeFrom(fs, s \o Append(u, e)) = MaterializeFrom(vol, Append(u, e))
      BY <3>5, <3>6, <3>7, <3>8
    <3>10. MaterializeFrom(fs, s \o SubSeq(t, 1, n + 1))
             = MaterializeFrom(MaterializeFrom(fs, s), SubSeq(t, 1, n + 1))
      BY <3>2, <3>9, Zenon DEF vol
    <3> QED
      BY <3>1, <3>10
  <2> QED
    BY <2>1
<1> HIDE DEF S
<1>3. S = Nat
  BY <1>1, <1>2, NatsByStep DEF S
<1>4. Len(t) \in Nat /\ SubSeq(t, 1, Len(t)) = t
  BY FrontGrows
<1>5. Len(t) \in S
  BY <1>3, <1>4
<1>6. MaterializeFrom(fs, s \o SubSeq(t, 1, Len(t)))
        = MaterializeFrom(MaterializeFrom(fs, s), SubSeq(t, 1, Len(t)))
  BY <1>4, <1>5 DEF S
<1> QED
  BY <1>4, <1>6

-----------------------------------------------------------------------------
(* What a volume refers to *)

\* The events a volume names as origins of files and as heads of entries; it
\* has the origins of but so many files.
Refers(vol, H) ==
  /\ IsVolumeRecord(vol)
  /\ IsFiniteSet(DOMAIN vol.fileOrigins)
  /\ \A p \in DOMAIN vol.fileOrigins : vol.fileOrigins[p] \in H
  /\ \A p \in DOMAIN vol.entryHeads : vol.entryHeads[p] \in H

LEMMA RefersMore ==
  ASSUME NEW vol, NEW H, Refers(vol, H), NEW G, H \subseteq G
  PROVE  Refers(vol, G)
BY DEF Refers

\* Removing keeps the origins of what stays.
LEMMA RemovalRefers ==
  ASSUME NEW vol, NEW H, Refers(vol, H), NEW path
  PROVE  /\ \A paths : Refers(RemoveFiles(vol, paths), H)
         /\ Refers(RemoveDir(vol, path), H)
         /\ Refers(RemoveDirIfPresent(vol, path), H)
<1>1. ASSUME NEW files, NEW gone, NEW dirs
      PROVE  Refers([vol EXCEPT !.files = files, !.fileOrigins = Without(vol.fileOrigins, gone),
                                !.dirs = dirs], H)
  <2> DEFINE v == [vol EXCEPT !.files = files, !.fileOrigins = Without(vol.fileOrigins, gone),
                              !.dirs = dirs]
  <2>1. /\ IsVolumeRecord(v) /\ v.fileOrigins = Without(vol.fileOrigins, gone)
        /\ v.entryHeads = vol.entryHeads
    BY DEF Refers, IsVolumeRecord
  <2> HIDE DEF v
  <2>2. DOMAIN v.fileOrigins \in SUBSET DOMAIN vol.fileOrigins
    BY <2>1 DEF Without
  <2>3. IsFiniteSet(DOMAIN v.fileOrigins)
    BY <2>2, FS_Subset DEF Refers
  <2>4. Refers(v, H)
    BY <2>1, <2>3 DEF Refers, Without
  <2> QED
    BY <2>4 DEF v
<1>2. \A paths : Refers(RemoveFiles(vol, paths), H)
  BY <1>1 DEF RemoveFiles
<1>3. Refers(RemoveDir(vol, path), H)
  BY <1>1 DEF RemoveDir
<1> QED
  BY <1>2, <1>3 DEF RemoveDirIfPresent

LEMMA SetHeadsRefers ==
  ASSUME NEW vol, NEW H, Refers(vol, H), NEW paths, NEW id \in H
  PROVE  Refers(SetHeads(vol, paths, id), H)
<1> DEFINE v == SetHeads(vol, paths, id)
<1>1. /\ IsVolumeRecord(v) /\ v.fileOrigins = vol.fileOrigins
      /\ v.entryHeads = PutAll(vol.entryHeads, [p \in paths |-> id])
  BY DEF Refers, IsVolumeRecord, SetHeads
<1> HIDE DEF v
<1>2. ASSUME NEW p \in DOMAIN v.entryHeads PROVE v.entryHeads[p] \in H
  BY <1>1 DEF Refers, PutAll
<1>3. Refers(v, H)
  BY <1>1, <1>2 DEF Refers
<1> QED
  BY <1>3 DEF v

LEMMA MoveRefers ==
  ASSUME NEW vol, NEW H, Refers(vol, H), NEW from, NEW to
  PROVE  Refers(MoveFile(vol, from, to), H) /\ Refers(MoveDir(vol, from, to), H)
<1>1. ASSUME NEW files, NEW origins, NEW dirs, IsFiniteSet(DOMAIN origins),
             \A p \in DOMAIN origins : origins[p] \in H
      PROVE  Refers([vol EXCEPT !.files = files, !.fileOrigins = origins, !.dirs = dirs], H)
  <2> DEFINE v == [vol EXCEPT !.files = files, !.fileOrigins = origins, !.dirs = dirs]
  <2>1. IsVolumeRecord(v) /\ v.fileOrigins = origins /\ v.entryHeads = vol.entryHeads
    BY DEF Refers, IsVolumeRecord
  <2> HIDE DEF v
  <2>2. Refers(v, H)
    BY <1>1, <2>1 DEF Refers
  <2> QED
    BY <2>2 DEF v
<1>2. Refers(MoveFile(vol, from, to), H)
  <2> DEFINE old == vol.fileOrigins
             unmoved == Without(old, {from})
             origins == IF from \in DOMAIN old THEN Put(unmoved, to, old[from]) ELSE unmoved
  <2>1. \A p \in DOMAIN origins : origins[p] \in H
    BY DEF Refers, Put, Without
  <2>2. DOMAIN origins \in SUBSET (DOMAIN old \cup {to})
    BY DEF Put, Without
  <2>3. IsFiniteSet(DOMAIN origins)
    <3>1. IsFiniteSet(DOMAIN old \cup {to})
      BY FS_AddElement DEF Refers
    <3> HIDE DEF origins
    <3> QED
      BY <2>2, <3>1, FS_Subset
  <2> HIDE DEF origins
  <2> QED
    BY <1>1, <2>1, <2>3 DEF MoveFile, origins
<1>3. Refers(MoveDir(vol, from, to), H)
  <2> DEFINE files == {p \in DOMAIN vol.files : IsSelfOrDescendant(p, from)}
             target(p) == RewritePrefix(vol.files[p].path, from, to)
             source(q) == CHOOSE p \in files : target(p) = q
             owned == {q \in {target(p) : p \in files} : source(q) \in DOMAIN vol.fileOrigins}
             origins == PutAll(Without(vol.fileOrigins, files),
                               [q \in owned |-> vol.fileOrigins[source(q)]])
  <2>1. \A q \in owned : vol.fileOrigins[source(q)] \in H
    BY DEF Refers
  <2>2. IsFiniteSet(owned)
    <3> DEFINE S == DOMAIN vol.fileOrigins
               f == [p \in S |-> target(p)]
               T == {f[p] : p \in S}
    <3>1. \A q \in owned : q = target(source(q)) /\ source(q) \in S
      OBVIOUS
    <3>2. owned \in SUBSET T
      <4> HIDE DEF source, target
      <4> QED
        BY <3>1
    <3>3. f \in Surjection(S, T) /\ IsFiniteSet(S)
      BY DEF Surjection, Refers
    <3> HIDE DEF f, T, S, owned
    <3> QED
      BY <3>2, <3>3, FS_Surjection, FS_Subset
  <2> HIDE DEF source
  <2>3. \A p \in DOMAIN origins : origins[p] \in H
    BY <2>1 DEF Refers, PutAll, Without
  <2>4. IsFiniteSet(DOMAIN origins)
    <3>1. DOMAIN origins \in SUBSET (DOMAIN vol.fileOrigins \cup owned)
      BY DEF PutAll, Without
    <3>2. IsFiniteSet(DOMAIN vol.fileOrigins \cup owned)
      <4> HIDE DEF owned
      <4> QED
        BY <2>2, FS_Union DEF Refers
    <3> HIDE DEF origins, owned
    <3> QED
      BY <3>1, <3>2, FS_Subset
  <2> HIDE DEF origins
  <2>5. PICK fs, dirs : MoveDir(vol, from, to)
                          = [vol EXCEPT !.files = fs, !.fileOrigins = origins, !.dirs = dirs]
    BY DEF MoveDir, origins, source
  <2>6. Refers([vol EXCEPT !.files = fs, !.fileOrigins = origins, !.dirs = dirs], H)
    BY <1>1, <2>3, <2>4
  <2> QED
    BY <2>5, <2>6
<1> QED
  BY <1>2, <1>3

LEMMA ApplyRefers ==
  ASSUME NEW vol, NEW H, Refers(vol, H), NEW id \in H, NEW event
  PROVE  Refers(Apply(vol, id, event), H)
<1>1. \A v, path : Refers(v, H) => /\ \A paths : Refers(RemoveFiles(v, paths), H)
                                   /\ Refers(RemoveDir(v, path), H)
                                   /\ Refers(RemoveDirIfPresent(v, path), H)
  BY RemovalRefers
<1>2. \A v, paths : Refers(v, H) => Refers(SetHeads(v, paths, id), H)
  BY SetHeadsRefers
<1>3. ASSUME NEW path, NEW blob PROVE Refers(ApplyCreateFile(vol, id, path, blob), H)
  <2> DEFINE cleared == RemoveDirIfPresent(RemoveFiles(vol, AncestorPaths(path)), path)
  <2>1. Refers(cleared, H)
    BY <1>1
  <2> HIDE DEF cleared
  <2> DEFINE files == Put(cleared.files, path, [path |-> path, blob |-> blob])
             origins == Put(cleared.fileOrigins, path, id)
             dirs == IF path \in DOMAIN cleared.files THEN cleared.dirs
                     ELSE CountInAncestors(cleared.dirs, path, 1)
             written == [cleared EXCEPT !.files = files, !.fileOrigins = origins, !.dirs = dirs]
  <2>2. /\ IsVolumeRecord(written) /\ written.fileOrigins = origins
        /\ written.entryHeads = cleared.entryHeads
    BY <2>1 DEF Refers, IsVolumeRecord
  <2>3. /\ \A p \in DOMAIN origins : origins[p] \in H
        /\ IsFiniteSet(DOMAIN origins)
    BY <2>1, FS_AddElement DEF Refers, Put
  <2>4. ApplyCreateFile(vol, id, path, blob) = SetHeads(written, {path}, id)
    BY DEF ApplyCreateFile, cleared
  <2> HIDE DEF written, origins
  <2>5. Refers(written, H)
    BY <2>1, <2>2, <2>3 DEF Refers
  <2> QED
    BY <1>2, <2>4, <2>5
<1>4. ASSUME NEW path PROVE Refers(ApplyMkdir(vol, id, path), H)
  <2> DEFINE cleared == RemoveDirIfPresent(RemoveFiles(vol, PathChain(path)), path)
             dirs == [d \in DOMAIN cleared.dirs \cup PathChain(path) |->
                        IF d = path THEN [explicit |-> TRUE, fileCount |-> 0]
                        ELSE IF d \in DOMAIN cleared.dirs THEN cleared.dirs[d]
                        ELSE [explicit |-> FALSE, fileCount |-> 0]]
             built == [cleared EXCEPT !.dirs = dirs]
  <2>1. Refers(cleared, H)
    BY <1>1
  <2>2. ApplyMkdir(vol, id, path) = SetHeads(built, {path}, id)
    BY DEF ApplyMkdir
  <2> HIDE DEF cleared, dirs
  <2>3. /\ IsVolumeRecord(built) /\ built.fileOrigins = cleared.fileOrigins
        /\ built.entryHeads = cleared.entryHeads
    BY <2>1 DEF Refers, IsVolumeRecord
  <2> HIDE DEF built
  <2>4. Refers(built, H)
    BY <2>1, <2>3 DEF Refers
  <2> QED
    BY <1>2, <2>2, <2>4
<1>5. ASSUME NEW path PROVE Refers(ApplyDelete(vol, id, path), H)
  BY <1>1, <1>2 DEF ApplyDelete
<1>6. ASSUME NEW from, NEW to PROVE Refers(ApplyRename(vol, id, from, to), H)
  <2> DEFINE freed == RemoveFiles(vol, AncestorPaths(to) \ (IF from \in DOMAIN vol.files THEN {from} ELSE {}))
             cleared == RemoveDirIfPresent(RemoveFiles(freed, {to}), to)
             moved == IF from \in DOMAIN vol.files THEN MoveFile(cleared, from, to)
                      ELSE MoveDir(cleared, from, to)
  <2>1. Refers(cleared, H)
    BY <1>1
  <2>2. ApplyRename(vol, id, from, to) \in {vol, SetHeads(moved, {from, to}, id)}
    BY DEF ApplyRename
  <2> HIDE DEF cleared
  <2>3. Refers(moved, H)
    BY <2>1, MoveRefers
  <2> HIDE DEF moved
  <2> QED
    BY <1>2, <2>2, <2>3
<1> QED
  BY <1>3, <1>4, <1>5, <1>6 DEF Apply

LEMMA EmptyRefers == Refers(EmptyVolume, {})
<1>1. /\ IsVolumeRecord(EmptyVolume)
      /\ EmptyVolume.fileOrigins = <<>> /\ EmptyVolume.entryHeads = <<>>
  BY DEF EmptyVolume, IsVolumeRecord
<1>2. DOMAIN <<>> = {} /\ IsFiniteSet({})
  BY FS_EmptySet
<1> QED
  BY <1>1, <1>2 DEF Refers

\* A snapshot brings its counts, and nothing else, up to date.
LEMMA ResumeRefers ==
  ASSUME NEW vol, NEW H, Refers(vol, H)
  PROVE  Refers(ResumeFrom(vol), H)
<1> DEFINE dirs == BuildDirInfoFromSnapshot(vol)
           v == [vol EXCEPT !.dirs = dirs]
<1> HIDE DEF dirs
<1>1. /\ IsVolumeRecord(v) /\ v.fileOrigins = vol.fileOrigins /\ v.entryHeads = vol.entryHeads
  BY DEF Refers, IsVolumeRecord
<1>2. ResumeFrom(vol) = v
  BY DEF ResumeFrom, dirs
<1> HIDE DEF v
<1> QED
  BY <1>1, <1>2 DEF Refers

\* A replay names the events of its log, and what the volume it began with named.
LEMMA ReplayRefers ==
  ASSUME NEW E, NEW s \in Seq(E), NEW vol, NEW H, Refers(vol, H), HashesOf(s) \subseteq H
  PROVE  Refers(MaterializeFrom(vol, s), H)
<1> DEFINE S == {n \in Nat : n <= Len(s) => Refers(MaterializeFrom(vol, SubSeq(s, 1, n)), H)}
<1>1. 0 \in S
  BY FrontGrows, ReplayNothing
<1>2. ASSUME NEW n \in S PROVE n + 1 \in S
  <2>1. CASE n + 1 <= Len(s)
    <3> DEFINE u == SubSeq(s, 1, n)
               e == s[n + 1]
    <3>1. n \in Nat /\ n <= Len(s) /\ n < Len(s) /\ n \in 0 .. Len(s) /\ n + 1 \in DOMAIN s
      BY <2>1
    <3>2. SubSeq(s, 1, n + 1) = Append(u, e) /\ u \in Seq(E)
      BY <3>1, FrontGrows
    <3>3. Refers(MaterializeFrom(vol, u), H)
      BY <3>1
    <3>4. e.hash \in H
      BY <3>1 DEF HashesOf
    <3> HIDE DEF u, e
    <3>5. MaterializeFrom(vol, Append(u, e)) = Apply(MaterializeFrom(vol, u), e.hash, e.event)
      BY <3>2, ReplayLast
    <3>6. Refers(Apply(MaterializeFrom(vol, u), e.hash, e.event), H)
      BY <3>3, <3>4, ApplyRefers
    <3>7. Refers(MaterializeFrom(vol, SubSeq(s, 1, n + 1)), H)
      BY <3>2, <3>5, <3>6, Zenon
    <3> QED
      BY <3>1, <3>7
  <2> QED
    BY <2>1
<1> HIDE DEF S
<1>3. S = Nat
  BY <1>1, <1>2, NatsByStep DEF S
<1>4. Len(s) \in S /\ SubSeq(s, 1, Len(s)) = s
  BY <1>3, FrontGrows
<1>5. Refers(MaterializeFrom(vol, SubSeq(s, 1, Len(s))), H)
  BY <1>4 DEF S
<1> QED
  BY <1>4, <1>5

-----------------------------------------------------------------------------
(* The log in the storage *)

\* What is true of an entry by itself.
Plain(e) ==
  /\ e.hash \in Nat /\ e.ts \in Nat
  /\ e.verb \in FileVerbs /\ e.verb = e.event.kind

\* The storage has no event twice, every event after its parent, and in the
\* order of the whole log every event after those it supersedes.
StoredLog(log) ==
  /\ LogOf(ToSet(log), log)
  /\ Channel(ToSet(log))
  /\ Arrived(log)
  /\ \A e \in ToSet(log) : Plain(e)
  /\ \A e \in ToSet(log) : \A h \in e.lineage : Before(OrderFileKeys(log), h, e.hash)

\* What an event supersedes is its parent or comes before it in some view.
BehindParent(log, e) ==
  \A h \in e.lineage :
    \E q : /\ ViewOf(ToSet(log), q)
           /\ \E i, m \in 1 .. Len(q) : i <= m /\ q[i].hash = h /\ q[m].hash = ParentOf(e)

LEMMA PlainIsFile ==
  ASSUME NEW e, Plain(e)
  PROVE  /\ IsFileEventEntry(e) /\ e.ts # NoTime /\ e.hash # NoRef
         /\ ExtractTimestamp(e, 0) = e.ts /\ ExtractTimestamp(e, 0) \in Nat
BY MarksNotNumbers DEF Plain, IsFileEventEntry, ExtractTimestamp

\* Its order is a view with all of it.
LEMMA StoredIsView ==
  ASSUME NEW log, StoredLog(log)
  PROVE  /\ ViewOf(ToSet(log), OrderFileKeys(log))
         /\ ToSet(OrderFileKeys(log)) = ToSet(log)
         /\ OrderEventLogEntries(log) = OrderFileKeys(log)
<1>1. /\ LogOf(ToSet(log), log) /\ Channel(ToSet(log)) /\ Arrived(log)
      /\ \A e \in ToSet(log) : e.ts # NoTime
  BY PlainIsFile DEF StoredLog
<1>2. Canonical(ToSet(log), OrderFileKeys(log))
  BY <1>1, OrderIsCanonical
<1>3. ToSet(OrderFileKeys(log)) = ToSet(log) /\ Closed(ToSet(log))
  BY <1>1, <1>2, ArrivedIsOrdered
<1>4. OrderEventLogEntries(log) = OrderFileKeys(log)
  BY <1>1, <1>3, OrdersAreOne
<1> QED
  BY <1>2, <1>3, <1>4 DEF ViewOf

\* Of a part of the log that has the parents of its events, too.
LEMMA PartIsView ==
  ASSUME NEW log, StoredLog(log), NEW part, LogOf(ToSet(log), part), Closed(ToSet(part))
  PROVE  /\ ViewOf(ToSet(log), OrderFileKeys(part))
         /\ ToSet(OrderFileKeys(part)) = ToSet(part)
         /\ OrderEventLogEntries(part) = OrderFileKeys(part)
<1>1. /\ LogOf(ToSet(log), log) /\ Channel(ToSet(log)) /\ Arrived(log)
      /\ \A e \in ToSet(log) : e.ts # NoTime
      /\ ToSet(part) \in SUBSET ToSet(log)
  BY PlainIsFile, LogIsSeq DEF StoredLog
<1>2. Canonical(ToSet(part), OrderFileKeys(part))
  BY <1>1, OrderIsCanonical
<1>3. ToSet(OrderFileKeys(part)) = ToSet(part)
  BY <1>1, <1>2, ArrivedIsOrdered
<1>4. OrderEventLogEntries(part) = OrderFileKeys(part)
  BY <1>1, OrdersAreOne
<1> QED
  BY <1>1, <1>2, <1>3, <1>4 DEF ViewOf

\* An event with a new hash whose parent is there may be written.
LEMMA StoredGrows ==
  ASSUME NEW log, StoredLog(log), NEW e, Plain(e), e.hash \notin HashesOf(log),
         ParentOf(e) # NoRef => ParentOf(e) \in HashesOf(log),
         BehindParent(log, e)
  PROVE  /\ StoredLog(Append(log, e))
         /\ ToSet(Append(log, e)) = ToSet(log) \cup {e}
<1> DEFINE E == ToSet(log) \cup {e}
           more == Append(log, e)
<1>1. /\ LogOf(ToSet(log), log) /\ LogOf(E, log) /\ Channel(ToSet(log)) /\ Arrived(log)
      /\ HashesOf(log) = {f.hash : f \in ToSet(log)}
  BY LogOfMore, HashesAreOf DEF StoredLog
<1>2. e \notin ToSet(log)
  BY <1>1
<1>3. LogOf(E, more) /\ ToSet(more) = E
  BY <1>1, <1>2, LogOfAppend
<1>4. Channel(E)
  <2>1. \A f \in ToSet(log) : f.hash # e.hash
    BY <1>1
  <2> QED
    BY <1>1, <2>1, PlainIsFile DEF Channel, Plain
<1>5. Arrived(more)
  BY <1>1, ArrivedAfter
<1> HIDE DEF more
<1>6. \A f \in E : Plain(f)
  BY DEF StoredLog
<1> DEFINE order == OrderFileKeys(more)
<1>7. ViewOf(E, order) /\ ToSet(order) = E
  <2>1. Canonical(E, order)
    BY <1>3, <1>4, OrderIsCanonical
  <2>2. ToSet(order) = E /\ Closed(E)
    BY <1>3, <1>4, <1>5, <2>1, ArrivedIsOrdered
  <2> QED
    BY <2>1, <2>2 DEF ViewOf
<1>8. HashesOf(order) = {f.hash : f \in E}
  BY <1>7, HashesAreOf DEF ViewOf, Canonical
<1> HIDE DEF order
<1>9. ASSUME NEW f \in ToSet(log), NEW h \in f.lineage
      PROVE  Before(order, h, f.hash)
  <2> DEFINE old == OrderFileKeys(log)
  <2>1. ViewOf(ToSet(log), old) /\ ToSet(old) = ToSet(log) /\ Before(old, h, f.hash)
    BY StoredIsView DEF StoredLog
  <2> HIDE DEF old
  <2>2. h \in HashesOf(old) /\ HashesOf(old) = {g.hash : g \in ToSet(log)}
    BY <2>1, HashesAreOf DEF Before, HashesOf, ViewOf, Canonical
  <2>3. ViewOf(E, old)
    BY <2>1, ViewOfMore
  <2>4. h \in HashesOf(order) /\ f.hash \in HashesOf(order)
    BY <1>8, <2>2
  <2> QED
    BY <1>4, <1>7, <2>1, <2>3, <2>4, AgreeOnBefore
<1>10. ASSUME NEW h \in e.lineage
       PROVE  Before(order, h, e.hash)
  <2>1. PICK q : /\ ViewOf(ToSet(log), q)
                 /\ \E i, m \in 1 .. Len(q) : i <= m /\ q[i].hash = h /\ q[m].hash = ParentOf(e)
    BY DEF BehindParent
  <2>2. PICK i \in 1 .. Len(q), m \in 1 .. Len(q) :
          i <= m /\ q[i].hash = h /\ q[m].hash = ParentOf(e)
    BY <2>1
  <2>3. ViewOf(E, q)
    BY <2>1, ViewOfMore
  <2>4. q[i] \in E
    <3>1. LogOf(ToSet(q), q) /\ ToSet(q) \subseteq E
      BY <2>3 DEF ViewOf, Canonical
    <3>2. q[i] \in ToSet(q)
      BY <3>1, LogIsSeq
    <3> QED
      BY <3>1, <3>2
  <2>5. Before(order, q[i].hash, e.hash)
    BY <1>4, <1>7, <2>2, <2>3, <2>4, FollowsItsView
  <2> QED
    BY <2>2, <2>5
<1> QED
  BY <1>3, <1>4, <1>5, <1>6, <1>9, <1>10 DEF StoredLog, order, more

\* What an event written on a view supersedes is in the view.
LEMMA LineageIsKnown ==
  ASSUME NEW fs, NEW H, Refers(fs, H)
  PROVE  /\ \A path : LineageAtPath(fs, path) \subseteq H
         /\ \A event, ctx : ctx.fs = fs => LineageOf(event, ctx) \subseteq H
<1>1. \A path : LineageAtPath(fs, path) \subseteq H
  BY DEF LineageAtPath, Refers
<1> QED
  BY <1>1 DEF LineageOf

\* Everything in the view an event is written on is its parent or before it.
LEMMA AllBehindHead ==
  ASSUME NEW E, Channel(E), \A f \in E : Plain(f), NEW q, ViewOf(E, q),
         NEW e, Plain(e), e.ref = FirstRef(e.verb, q)
  PROVE  /\ ParentOf(e) # NoRef => ParentOf(e) \in HashesOf(q)
         /\ \A h \in HashesOf(q) : \E i, m \in 1 .. Len(q) :
              i <= m /\ q[i].hash = h /\ q[m].hash = ParentOf(e)
<1>1. LogOf(ToSet(q), q) /\ ToSet(q) \subseteq E /\ Channel(ToSet(q))
  BY ChannelOfLess DEF ViewOf, Canonical
<1>2. HashesOf(q) = {f.hash : f \in ToSet(q)}
  BY <1>1, HashesAreOf
<1>3. IsFileEventEntry(e) /\ \A f \in ToSet(q) : IsFileEventEntry(f)
  BY <1>1, PlainIsFile
<1>4. /\ ParentOf(e) # NoRef => \E f \in ToSet(q) : f.hash = ParentOf(e) /\ IsFileEventEntry(f)
      /\ \A f \in ToSet(q) : \E i, m \in 1 .. Len(q) :
           i <= m /\ q[i] = f /\ q[m].hash = ParentOf(e)
  BY <1>1, <1>3, HeadIsLast
<1>5. ASSUME NEW h \in HashesOf(q)
      PROVE  \E i, m \in 1 .. Len(q) : i <= m /\ q[i].hash = h /\ q[m].hash = ParentOf(e)
  <2>1. PICK f \in ToSet(q) : f.hash = h
    BY <1>2
  <2> QED
    BY <1>4, <2>1
<1> QED
  BY <1>2, <1>4, <1>5

\* An event written on a view.
LEMMA WrittenIsStored ==
  ASSUME NEW log, StoredLog(log), NEW q, ViewOf(ToSet(log), q),
         NEW e, Plain(e), e.hash \notin HashesOf(log),
         e.ref = FirstRef(e.verb, q), e.lineage \subseteq HashesOf(q)
  PROVE  /\ StoredLog(Append(log, e))
         /\ ToSet(Append(log, e)) = ToSet(log) \cup {e}
<1>1. /\ ParentOf(e) # NoRef => ParentOf(e) \in HashesOf(q)
      /\ \A h \in HashesOf(q) : \E i, m \in 1 .. Len(q) :
           i <= m /\ q[i].hash = h /\ q[m].hash = ParentOf(e)
  BY AllBehindHead DEF StoredLog
<1>2. HashesOf(q) \subseteq HashesOf(log)
  <2>1. LogOf(ToSet(q), q) /\ ToSet(q) \subseteq ToSet(log) /\ LogOf(ToSet(log), log)
    BY DEF ViewOf, Canonical, StoredLog
  <2> QED
    BY <2>1, HashesAreOf
<1>3. BehindParent(log, e)
  BY <1>1 DEF BehindParent
<1> QED
  BY <1>1, <1>2, <1>3, StoredGrows

-----------------------------------------------------------------------------
(* Contexts *)

\* A context has the canonical order of events that are in the storage, with
\* those they name, and a volume and keys that know of no others.
IsContext(log, ctx) ==
  /\ ViewOf(ToSet(log), ctx.entries)
  /\ \A e \in ToSet(ctx.entries) : e.lineage \subseteq HashesOf(ctx.entries)
  /\ Refers(ctx.fs, HashesOf(ctx.entries))
  /\ DOMAIN ctx.fs.fileOrigins \subseteq DOMAIN ctx.keys

\* The events of S name no others.
NamesItself(S) ==
  /\ Closed(S)
  /\ \A e \in S : e.lineage \subseteq {f.hash : f \in S}

LEMMA ContextNamesItself ==
  ASSUME NEW log, NEW ctx, IsContext(log, ctx)
  PROVE  /\ LogOf(ToSet(log), ctx.entries) /\ ToSet(ctx.entries) \subseteq ToSet(log)
         /\ HashesOf(ctx.entries) = {e.hash : e \in ToSet(ctx.entries)}
         /\ NamesItself(ToSet(ctx.entries))
<1>1. LogOf(ToSet(ctx.entries), ctx.entries) /\ ToSet(ctx.entries) \subseteq ToSet(log)
  BY DEF IsContext, ViewOf, Canonical
<1>2. HashesOf(ctx.entries) = {e.hash : e \in ToSet(ctx.entries)}
  BY <1>1, HashesAreOf
<1> QED
  BY <1>1, <1>2, LogOfMore DEF IsContext, ViewOf, NamesItself

\* So does the whole storage.
LEMMA StoredNamesItself ==
  ASSUME NEW log, StoredLog(log)
  PROVE  /\ NamesItself(ToSet(log))
         /\ HashesOf(log) = {e.hash : e \in ToSet(log)}
<1> DEFINE order == OrderFileKeys(log)
<1>1. ViewOf(ToSet(log), order) /\ ToSet(order) = ToSet(log)
  BY StoredIsView
<1>2. HashesOf(log) = {e.hash : e \in ToSet(log)}
  BY HashesAreOf DEF StoredLog
<1>3. HashesOf(order) = {e.hash : e \in ToSet(log)}
  BY <1>1, HashesAreOf DEF ViewOf, Canonical
<1>4. \A e \in ToSet(log) : \A h \in e.lineage : h \in HashesOf(order)
  BY DEF StoredLog, Before, HashesOf
<1> QED
  BY <1>1, <1>2, <1>3, <1>4 DEF NamesItself, ViewOf

\* A volume that knows of none but its entries has keys for all its files.
LEMMA ContextOfRefers ==
  ASSUME NEW log, NEW entries, ViewOf(ToSet(log), entries), NamesItself(ToSet(entries)),
         NEW fs, Refers(fs, HashesOf(entries))
  PROVE  /\ IsContext(log, ContextOf(entries, fs))
         /\ ContextOf(entries, fs).entries = entries
         /\ ContextOf(entries, fs).fs = fs
<1> DEFINE keys == LiveEncryptedKeys(entries, fs)
           ctx == [entries |-> entries, fs |-> fs, keys |-> keys]
<1>1. DOMAIN keys = DOMAIN fs.fileOrigins
  BY DEF LiveEncryptedKeys, Refers
<1> HIDE DEF keys
<1>2. HashesOf(entries) = {e.hash : e \in ToSet(entries)}
  BY HashesAreOf DEF ViewOf, Canonical
<1>3. ctx.entries = entries /\ ctx.fs = fs /\ ctx.keys = keys
  OBVIOUS
<1>4. ContextOf(entries, fs) = ctx
  BY DEF ContextOf, keys
<1> HIDE DEF ctx
<1>5. IsContext(log, ctx)
  BY <1>1, <1>2, <1>3 DEF IsContext, NamesItself
<1> QED
  BY <1>3, <1>4, <1>5

\* The volume of a view, done from nothing.
LEMMA MaterializeRefers ==
  ASSUME NEW E, NEW s \in Seq(E), NEW H, HashesOf(s) \subseteq H
  PROVE  Refers(Materialize(s), H)
<1>1. Refers(EmptyVolume, H)
  BY EmptyRefers, RefersMore
<1> QED
  BY <1>1, ReplayRefers DEF Materialize

LEMMA InitialIsContext ==
  ASSUME NEW log, StoredLog(log)
  PROVE  IsContext(log, InitialContext) /\ InitialContext.entries = <<>>
<1>1. ToSet(<<>>) = {} /\ LogOf({}, <<>>)
  BY NothingIsLog
<1>2. ViewOf(ToSet(log), <<>>)
  <2>1. Canonical({}, <<>>)
    BY <1>1 DEF Canonical, Free
  <2> QED
    BY <1>1, <2>1 DEF ViewOf, Closed
<1>3. NamesItself(ToSet(<<>>))
  BY <1>1 DEF NamesItself, Closed
<1>4. Refers(EmptyVolume, HashesOf(<<>>))
  BY EmptyRefers, RefersMore
<1> QED
  BY <1>2, <1>3, <1>4, ContextOfRefers DEF InitialContext

\* What is kept and the tail make the whole.
LEMMA FrontAndTail ==
  ASSUME NEW E, NEW s \in Seq(E), NEW n \in 0 .. Len(s)
  PROVE  /\ SubSeq(s, 1, n) \in Seq(E) /\ SubSeq(s, n + 1, Len(s)) \in Seq(E)
         /\ SubSeq(s, 1, n) \o SubSeq(s, n + 1, Len(s)) = s
         /\ HashesOf(SubSeq(s, 1, n)) \subseteq HashesOf(s)
         /\ HashesOf(SubSeq(s, n + 1, Len(s))) \subseteq HashesOf(s)
<1> DEFINE front == SubSeq(s, 1, n)
           tail == SubSeq(s, n + 1, Len(s))
<1>1. /\ front \in Seq(E) /\ Len(front) = n /\ \A i \in 1 .. n : front[i] = s[i]
      /\ tail \in Seq(E) /\ Len(tail) = Len(s) - n
      /\ \A i \in 1 .. Len(s) - n : tail[i] = s[i + n]
      /\ Len(s) \in Nat /\ n \in Nat /\ n <= Len(s)
  OBVIOUS
<1> HIDE DEF front, tail
<1>2. front \o tail = s
  <2> DEFINE whole == front \o tail
  <2>1. whole \in Seq(E) /\ Len(whole) = Len(s)
    BY <1>1
  <2>2. ASSUME NEW i \in 1 .. Len(s) PROVE whole[i] = s[i]
    <3>1. CASE i <= n
      BY <1>1, <3>1
    <3>2. CASE i > n
      <4>1. i - n \in 1 .. Len(s) - n /\ (i - n) + n = i
        BY <1>1, <3>2
      <4>2. tail[i - n] = s[i]
        BY <1>1, <4>1
      <4>3. whole[i] = tail[i - n]
        BY <1>1, <3>2
      <4> QED
        BY <4>2, <4>3
    <3> QED
      BY <1>1, <3>1, <3>2
  <2> HIDE DEF whole
  <2>3. whole = s
    BY <2>1, <2>2
  <2> QED
    BY <2>3 DEF whole
<1>3. HashesOf(front) \subseteq HashesOf(s)
  <2>1. ASSUME NEW i \in DOMAIN front PROVE front[i].hash \in HashesOf(s)
    <3>1. i \in 1 .. n /\ i \in DOMAIN s
      BY <1>1
    <3> QED
      BY <1>1, <3>1 DEF HashesOf
  <2> QED
    BY <2>1 DEF HashesOf
<1>4. HashesOf(tail) \subseteq HashesOf(s)
  <2>1. ASSUME NEW i \in DOMAIN tail PROVE tail[i].hash \in HashesOf(s)
    <3>1. i \in 1 .. Len(s) - n /\ i + n \in DOMAIN s
      BY <1>1
    <3> QED
      BY <1>1, <3>1 DEF HashesOf
  <2> QED
    BY <2>1 DEF HashesOf
<1> QED
  BY <1>1, <1>2, <1>3, <1>4 DEF front, tail

\* Every part of the storage that names itself has a view.
LEMMA CanonicalIsView ==
  ASSUME NEW log, StoredLog(log), NEW S \in SUBSET ToSet(log), NamesItself(S),
         NEW order, Canonical(S, order)
  PROVE  ViewOf(ToSet(log), order) /\ ToSet(order) = S
<1>1. ToSet(order) = S
  BY ArrivedIsOrdered DEF StoredLog
<1> QED
  BY <1>1 DEF ViewOf, NamesItself

\* The projection has what it had and what it was given, in canonical order.
Ingested(log, ctx, more) ==
  /\ IsContext(log, Ingest(ctx, more))
  /\ ToSet(Ingest(ctx, more).entries) = ToSet(ctx.entries) \cup ToSet(more)

LEMMA IngestIsContext ==
  ASSUME NEW log, StoredLog(log), NEW ctx, IsContext(log, ctx),
         NEW more, LogOf(ToSet(log), more),
         NamesItself(ToSet(ctx.entries) \cup ToSet(more))
  PROVE  Ingested(log, ctx, more)
<1> DEFINE E == ToSet(log)
           S == ToSet(ctx.entries) \cup ToSet(more)
           r == Reorder(ctx.entries, more)
           keys == r.keys
           at == r.insertAt
           H == HashesOf(keys)
<1>1. LogOf(E, ctx.entries) /\ Channel(E) /\ S \in SUBSET E
  BY ContextNamesItself, LogIsSeq DEF StoredLog
<1>2. Canonical(S, keys) /\ at \in 0 .. Len(keys)
  BY <1>1, ReorderIsCanonical, ReorderKeepsFront
<1>3. ViewOf(E, keys) /\ ToSet(keys) = S
  BY <1>1, <1>2, CanonicalIsView
<1> DEFINE kept == SubSeq(keys, 1, at)
           tail == SubSeq(keys, at + 1, Len(keys))
           base == IF kept = ctx.entries THEN ctx.fs ELSE Materialize(kept)
           front == IF kept = <<>> THEN EmptyVolume ELSE ResumeFrom(base)
           fs == MaterializeFrom(front, tail)
<1>4. keys \in Seq(E)
  BY <1>3, LogOfMore, LogIsSeq DEF ViewOf, Canonical
<1>5. /\ kept \in Seq(E) /\ tail \in Seq(E) /\ kept \o tail = keys
      /\ HashesOf(kept) \subseteq H /\ HashesOf(tail) \subseteq H
  BY <1>2, <1>4, FrontAndTail
<1>6. Ingest(ctx, more) = ContextOf(kept \o tail, fs)
  BY DEF Ingest, ReduceContext
<1> HIDE DEF r, keys, at, H, kept, tail
<1>7. Refers(base, H)
  <2>1. Refers(ctx.fs, HashesOf(ctx.entries))
    BY DEF IsContext
  <2>2. kept = ctx.entries => Refers(ctx.fs, H)
    BY <1>5, <2>1, RefersMore
  <2>3. Refers(Materialize(kept), H)
    BY <1>5, MaterializeRefers
  <2> QED
    BY <2>2, <2>3
<1> HIDE DEF base
<1>8. Refers(front, H)
  <2>1. Refers(EmptyVolume, H)
    BY EmptyRefers, RefersMore
  <2> QED
    BY <1>7, <2>1, ResumeRefers
<1> HIDE DEF front
<1>9. Refers(fs, H)
  BY <1>5, <1>8, ReplayRefers
<1> HIDE DEF fs
<1>10. IsContext(log, ContextOf(keys, fs)) /\ ContextOf(keys, fs).entries = keys
  BY <1>3, <1>9, ContextOfRefers DEF H
<1> QED
  BY <1>3, <1>5, <1>6, <1>10 DEF Ingested

\* All of a log that has its parents is a view of it, in both orders.
LEMMA ViewIsOrdered ==
  ASSUME NEW log, StoredLog(log), NEW q, ViewOf(ToSet(log), q)
  PROVE  OrderFileKeys(q) = q /\ OrderEventLogEntries(q) = q
<1> DEFINE E == ToSet(log)
<1>1. LogOf(E, q) /\ Closed(ToSet(q)) /\ Channel(E) /\ ToSet(q) \subseteq E
  BY LogOfMore DEF ViewOf, Canonical, StoredLog
<1>2. Canonical(ToSet(q), OrderFileKeys(q))
  BY <1>1, OrderIsCanonical
<1>3. OrderFileKeys(q) = q
  BY <1>1, <1>2, CanonicalIsUnique, ChannelOfLess DEF ViewOf
<1>4. OrderEventLogEntries(q) = OrderFileKeys(q)
  BY <1>1, OrdersAreOne, PlainIsFile DEF StoredLog
<1> QED
  BY <1>3, <1>4

\* Two views with the same events are one.
LEMMA SameSetSameView ==
  ASSUME NEW log, StoredLog(log), NEW p, ViewOf(ToSet(log), p),
         NEW q, ViewOf(ToSet(log), q), ToSet(p) = ToSet(q)
  PROVE  p = q
<1>1. Channel(ToSet(p))
  BY ChannelOfLess DEF ViewOf, StoredLog
<1> QED
  BY <1>1, CanonicalIsUnique DEF ViewOf

\* The volume of a view, given a context of the storage.
LEMMA RematerializeRefers ==
  ASSUME NEW log, NEW base, IsContext(log, base),
         NEW entries \in Seq(ToSet(log)), HashesOf(base.entries) \subseteq HashesOf(entries)
  PROVE  Refers(Rematerialize(base, entries), HashesOf(entries))
<1> DEFINE H == HashesOf(entries)
           tail == SubSeq(entries, Len(base.entries) + 1, Len(entries))
<1>1. Refers(base.fs, H)
  BY RefersMore DEF IsContext
<1>2. Refers(Materialize(entries), H)
  BY MaterializeRefers
<1>3. HasOrderedPrefix(base.entries, entries) =>
        Len(base.entries) \in 0 .. Len(entries)
  <2>1. base.entries \in Seq(ToSet(log))
    BY ContextNamesItself, LogIsSeq
  <2> QED
    BY <2>1 DEF HasOrderedPrefix, IsPrefix
<1>4. HasOrderedPrefix(base.entries, entries) =>
        Refers(MaterializeIncremental(base.fs, tail), H)
  <2> SUFFICES ASSUME HasOrderedPrefix(base.entries, entries)
               PROVE  Refers(MaterializeIncremental(base.fs, tail), H)
    OBVIOUS
  <2>1. tail \in Seq(ToSet(log)) /\ HashesOf(tail) \subseteq H
    BY <1>3, FrontAndTail
  <2> HIDE DEF tail, H
  <2>2. Refers(ResumeFrom(base.fs), H)
    BY <1>1, ResumeRefers
  <2> QED
    BY <2>1, <2>2, ReplayRefers DEF MaterializeIncremental
<1> QED
  BY <1>1, <1>2, <1>4 DEF Rematerialize

\* A context of a storage is one of a larger storage.
LEMMA ContextOfMore ==
  ASSUME NEW log, NEW more, ToSet(log) \subseteq ToSet(more), NEW ctx, IsContext(log, ctx)
  PROVE  IsContext(more, ctx)
BY ViewOfMore DEF IsContext

\* A new event, written on a context.
WrittenOn(log, base, e) ==
  /\ Plain(e) /\ e.hash \notin HashesOf(log)
  /\ e.ref = FirstRef(e.verb, base.entries)
  /\ e.lineage \subseteq HashesOf(base.entries)

\* It may be stored, and comes last in the context.
Extended(log, base, e) ==
  /\ StoredLog(Append(log, e)) /\ ToSet(Append(log, e)) = ToSet(log) \cup {e}
  /\ IsContext(Append(log, e), ExtendContext(base, e))
  /\ ExtendContext(base, e).entries = Append(base.entries, e)
  /\ ExtendContext(base, e).fs = Rematerialize(base, Append(base.entries, e))
  /\ ToSet(Append(base.entries, e)) = ToSet(base.entries) \cup {e}
  /\ NamesItself(ToSet(base.entries) \cup {e})

LEMMA ExtendIsContext ==
  ASSUME NEW log, StoredLog(log), NEW base, IsContext(log, base), NEW e,
         WrittenOn(log, base, e)
  PROVE  Extended(log, base, e)
<1> DEFINE more == Append(log, e)
           entries == Append(base.entries, e)
           E == ToSet(log) \cup {e}
<1>0. /\ Plain(e) /\ e.hash \notin HashesOf(log)
      /\ e.ref = FirstRef(e.verb, base.entries) /\ e.lineage \subseteq HashesOf(base.entries)
  BY DEF WrittenOn
<1>1. StoredLog(more) /\ ToSet(more) = E
  BY <1>0, WrittenIsStored DEF IsContext
<1>2. /\ LogOf(ToSet(log), base.entries) /\ ToSet(base.entries) \subseteq ToSet(log)
      /\ HashesOf(base.entries) = {f.hash : f \in ToSet(base.entries)}
      /\ HashesOf(log) = {f.hash : f \in ToSet(log)}
      /\ NamesItself(ToSet(base.entries))
  BY ContextNamesItself, StoredNamesItself
<1> HIDE DEF more
<1>3. ViewOf(E, entries) /\ ToSet(entries) = ToSet(base.entries) \cup {e}
  <2>1. Channel(E) /\ ViewOf(E, base.entries) /\ e \notin ToSet(base.entries)
    <3>1. ViewOf(ToSet(log), base.entries) /\ ToSet(log) \subseteq E /\ Channel(ToSet(more))
      BY <1>1 DEF StoredLog, IsContext
    <3>2. ViewOf(E, base.entries)
      BY <3>1, ViewOfMore
    <3>3. e \notin ToSet(base.entries)
      BY <1>0, <1>2
    <3> QED
      BY <1>1, <3>1, <3>2, <3>3
  <2>2. \A f \in ToSet(base.entries) : IsFileEventEntry(f) /\ f.hash \in Nat
    BY <1>2, PlainIsFile DEF StoredLog, Plain
  <2> QED
    BY <1>0, <2>1, <2>2, PlainIsFile, WrittenLast
<1>4. OrderEventLogEntries(entries) = entries
  BY <1>1, <1>3, ViewIsOrdered
<1>5. NamesItself(ToSet(entries))
  BY <1>0, <1>2, <1>3 DEF NamesItself, ViewOf
<1> DEFINE fs == Rematerialize(base, entries)
           own == IF e.event.kind = "CREATE_FILE"
                  THEN Put(base.keys, e.event.path, e.event.wrapped) ELSE base.keys
           live == LiveEncryptedKeys(entries, fs)
           ctx == [entries |-> entries, fs |-> fs, keys |-> PutAll(own, live)]
<1>6. e.hash \notin HashesOf(base.entries)
  BY <1>0, <1>2
<1>7. ExtendContext(base, e) = ctx
  BY <1>4, <1>6 DEF ExtendContext
<1>8. HashesOf(entries) = {f.hash : f \in ToSet(entries)}
  BY <1>3, HashesAreOf DEF ViewOf, Canonical
<1>9. Refers(fs, HashesOf(entries))
  <2>1. entries \in Seq(ToSet(more))
    <3> HIDE DEF entries
    <3>1. LogOf(ToSet(entries), entries) /\ ToSet(entries) \subseteq E
      BY <1>3 DEF ViewOf, Canonical
    <3>2. LogOf(E, entries)
      BY <3>1, LogOfMore
    <3> QED
      BY <1>1, <3>2, LogIsSeq
  <2>2. IsContext(more, base)
    BY <1>1, ContextOfMore
  <2>3. HashesOf(base.entries) \subseteq HashesOf(entries)
    BY <1>2, <1>3, <1>8
  <2> HIDE DEF entries
  <2> QED
    BY <2>1, <2>2, <2>3, RematerializeRefers
<1> HIDE DEF fs, entries
<1>10. DOMAIN live = DOMAIN fs.fileOrigins
  BY <1>9 DEF LiveEncryptedKeys, Refers
<1> HIDE DEF live, own
<1>11. DOMAIN fs.fileOrigins \subseteq DOMAIN PutAll(own, live)
  BY <1>10 DEF PutAll
<1>12. ctx.entries = entries /\ ctx.fs = fs /\ ctx.keys = PutAll(own, live)
  OBVIOUS
<1> HIDE DEF ctx
<1>13. IsContext(more, ctx)
  BY <1>1, <1>3, <1>5, <1>8, <1>9, <1>11, <1>12 DEF IsContext, NamesItself
<1> QED
  BY <1>1, <1>3, <1>5, <1>7, <1>12, <1>13 DEF Extended, more, entries, fs

\* What a reader of the storage makes of it: all of it, in canonical order.
LEMMA LoadIsContext ==
  ASSUME NEW log, StoredLog(log)
  PROVE  LET ctx == LoadContext(InitialContext, log)
         IN  /\ IsContext(log, ctx) /\ ctx.entries = OrderFileKeys(log)
             /\ ctx.fs = Rematerialize(InitialContext, OrderFileKeys(log))
<1> DEFINE new == Unknown(<<>>, log)
           entries == LoadChannelEntries(<<>>, log)
           order == OrderFileKeys(log)
           fs == Rematerialize(InitialContext, entries)
<1>1. LogOf(ToSet(log), log) /\ Channel(ToSet(log))
  BY DEF StoredLog
<1>2. LogOf(ToSet(log), new) /\ ToSet(new) = ToSet(log) /\ <<>> \o new = new
  <2>1. HashesOf(<<>>) = {}
    BY DEF HashesOf
  <2>2. LogOf(ToSet(log), new) /\ ToSet(new) = ToSet(log)
    <3>1. /\ LogOf(ToSet(log), new)
          /\ ToSet(new) = {e \in ToSet(log) : e.hash \notin HashesOf(<<>>)}
      BY <1>1, UnknownIsLog
    <3> HIDE DEF new
    <3> QED
      BY <2>1, <3>1
  <2>3. new \in Seq(ToSet(log))
    BY <2>2, LogIsSeq
  <2> HIDE DEF new
  <2> QED
    BY <2>2, <2>3
<1>3. ViewOf(ToSet(log), order) /\ ToSet(order) = ToSet(log)
      /\ OrderEventLogEntries(log) = order
  BY StoredIsView
<1>4. OrderEventLogEntries(new) = order
  <2>1. Closed(ToSet(new))
    BY <1>2, <1>3 DEF ViewOf
  <2>2. /\ ViewOf(ToSet(log), OrderFileKeys(new)) /\ ToSet(OrderFileKeys(new)) = ToSet(new)
        /\ OrderEventLogEntries(new) = OrderFileKeys(new)
    BY <1>2, <2>1, PartIsView
  <2> QED
    BY <1>2, <1>3, <2>2, SameSetSameView
<1>5. new = <<>> => order = <<>>
  <2>1. ToSet(<<>>) = {} /\ \A s : s \in Seq({}) => s = <<>>
    BY NothingIsLog
  <2>2. order \in Seq(ToSet(order))
    BY <1>3, LogIsSeq DEF ViewOf, Canonical
  <2> QED
    BY <1>2, <1>3, <2>1, <2>2
<1> HIDE DEF new, order
<1>6. entries = order
  BY <1>2, <1>3, <1>4, <1>5 DEF LoadChannelEntries, new
<1> HIDE DEF entries
<1>7. InitialContext.entries = <<>> /\ IsContext(log, InitialContext)
  BY InitialIsContext
<1>8. LoadContext(InitialContext, log) = ContextOf(entries, fs)
  BY <1>7 DEF LoadContext, entries
<1>9. Refers(fs, HashesOf(entries))
  <2>1. entries \in Seq(ToSet(log)) /\ HashesOf(<<>>) = {}
    BY <1>3, <1>6, LogOfMore, LogIsSeq DEF ViewOf, Canonical, HashesOf
  <2> QED
    BY <1>7, <2>1, RematerializeRefers
<1> HIDE DEF fs
<1>10. NamesItself(ToSet(entries))
  BY <1>3, <1>6, StoredNamesItself
<1>11. /\ IsContext(log, ContextOf(entries, fs))
       /\ ContextOf(entries, fs).entries = entries /\ ContextOf(entries, fs).fs = fs
  BY <1>3, <1>6, <1>9, <1>10, ContextOfRefers
<1> QED
  BY <1>6, <1>8, <1>11 DEF order, fs

-----------------------------------------------------------------------------
(* What is picked from a sequence *)

\* A recursion up to a number has a solution.
Doable(X, x0, N, next) == x0 \in X /\ N \in Nat /\ next \in [1 .. N -> [X -> X]]

LEMMA Recursion ==
  ASSUME NEW X, NEW x0, NEW N, NEW next, Doable(X, x0, N, next)
  PROVE  \E f \in [0 .. N -> X] : f[0] = x0 /\ \A n \in 1 .. N : f[n] = next[n][f[n - 1]]
<1> DEFINE step == [n \in Nat |-> [x \in X |-> IF n \in 1 .. N THEN next[n][x] ELSE x]]
<1>1. x0 \in X /\ step \in [Nat -> [X -> X]]
  <2>1. \A n \in Nat, x \in X : (IF n \in 1 .. N THEN next[n][x] ELSE x) \in X
    BY DEF Doable
  <2>2. \A n \in Nat : [x \in X |-> IF n \in 1 .. N THEN next[n][x] ELSE x] \in [X -> X]
    BY <2>1
  <2>3. step \in [Nat -> [X -> X]]
    BY <2>2
  <2>4. x0 \in X
    BY DEF Doable
  <2> QED
    BY <2>3, <2>4
<1>2. PICK g \in [Nat -> X] : g[0] = x0 /\ \A n \in Nat : g[n + 1] = step[n + 1][g[n]]
  <2> HIDE DEF step
  <2> QED
    BY <1>1, Iterates
<1> DEFINE f == [n \in 0 .. N |-> g[n]]
<1>3. f \in [0 .. N -> X] /\ f[0] = x0
  BY <1>2 DEF Doable
<1>4. ASSUME NEW n \in 1 .. N PROVE f[n] = next[n][f[n - 1]]
  <2>1. /\ n - 1 \in Nat /\ (n - 1) + 1 = n /\ n \in Nat
        /\ f[n] = g[n] /\ f[n - 1] = g[n - 1]
    BY DEF Doable
  <2>2. g[n] = step[n][g[n - 1]] /\ g[n - 1] \in X
    <3> HIDE DEF f, step
    <3> QED
      BY <1>2, <2>1
  <2>3. step[n][g[n - 1]] = next[n][g[n - 1]]
    BY <2>1, <2>2
  <2> QED
    BY <2>1, <2>2, <2>3
<1> HIDE DEF f
<1> QED
  BY <1>3, <1>4

\* f[n] is what is picked of the first n.
Picks(seq, places, f) ==
  /\ f[0] = <<>>
  /\ \A n \in 1 .. Len(seq) :
       f[n] = IF n \in places THEN Append(f[n - 1], seq[n]) ELSE f[n - 1]

LEMMA PickedSteps ==
  ASSUME NEW E, NEW seq \in Seq(E), NEW places
  PROVE  \E f : Picks(seq, places, f) /\ Picked(seq, places) = f[Len(seq)]
<1> DEFINE N == Len(seq)
           X == Seq(E)
           x0 == <<>>
           one(n, s) == IF n \in places THEN Append(s, seq[n]) ELSE s
           next == [n \in 1 .. N |-> [s \in X |-> one(n, s)]]
           Solution(g) == g = [n \in 0 .. N |-> IF n = 0 THEN <<>> ELSE one(n, g[n - 1])]
           u == CHOOSE g : Solution(g)
<1>1. N \in Nat /\ x0 \in X /\ \A n \in 1 .. N, s \in X : one(n, s) \in X
  <2>1. N \in Nat /\ <<>> \in X /\ \A n \in 1 .. N : seq[n] \in E
    OBVIOUS
  <2>2. ASSUME NEW n \in 1 .. N, NEW s \in X PROVE Append(s, seq[n]) \in X
    BY <2>1, AppendProperties
  <2> QED
    BY <2>1, <2>2
<1>2. PICK f \in [0 .. N -> X] : f[0] = x0 /\ \A n \in 1 .. N : f[n] = next[n][f[n - 1]]
  <2> HIDE DEF N, X, x0, one
  <2>1. next \in [1 .. N -> [X -> X]]
    BY <1>1
  <2> HIDE DEF next
  <2>2. Doable(X, x0, N, next)
    BY <1>1, <2>1 DEF Doable
  <2> QED
    BY ONLY <2>2, Recursion
<1>3. Solution(f)
  <2> HIDE DEF N, X, one
  <2>1. ASSUME NEW n \in 0 .. N PROVE f[n] = IF n = 0 THEN <<>> ELSE one(n, f[n - 1])
    <3>1. CASE n = 0
      BY <1>2, <3>1
    <3>2. CASE n # 0
      <4>1. n \in 1 .. N /\ n - 1 \in 0 .. N
        BY <1>1, <3>2
      <4> QED
        BY <1>2, <3>2, <4>1
    <3> QED
      BY <3>1, <3>2
  <2> QED
    BY <2>1
<1>4. Solution(u)
  <2> HIDE DEF Solution
  <2> QED
    BY <1>3
<1>5. Picked(seq, places) = u[N]
  BY DEF Picked
<1> HIDE DEF u
<1>6. u[0] = <<>> /\ \A n \in 1 .. N : u[n] = one(n, u[n - 1])
  <2>1. u[0] = <<>>
    BY <1>1, <1>4
  <2>2. ASSUME NEW n \in 1 .. N PROVE u[n] = one(n, u[n - 1])
    <3>1. n \in 0 .. N /\ n # 0
      BY <1>1
    <3> QED
      BY <1>4, <3>1
  <2> QED
    BY <2>1, <2>2
<1> QED
  BY <1>5, <1>6 DEF Picks

\* No two of these places have the same.
Apart(seq, places) == \A i, j \in places : seq[i] = seq[j] => i = j

\* What is picked is in the sequence, at one of the places, and does not repeat
\* itself when the places do not.
PickedSoFar(E, seq, places, n, s) ==
  /\ s \in Seq(E)
  /\ \A j \in 1 .. Len(s) : \E i \in places \cap 1 .. n : s[j] = seq[i]
  /\ Apart(seq, places \cap 1 .. n) => IsInjective(s)

LEMMA PickedIsPart ==
  ASSUME NEW E, NEW seq \in Seq(E), NEW places
  PROVE  PickedSoFar(E, seq, places, Len(seq), Picked(seq, places))
<1>1. PICK f : Picks(seq, places, f) /\ Picked(seq, places) = f[Len(seq)]
  BY PickedSteps
<1> DEFINE N == Len(seq)
           S == {n \in Nat : n <= N => PickedSoFar(E, seq, places, n, f[n])}
<1>2. 0 \in S
  <2>1. <<>> \in Seq(E) /\ Len(<<>>) = 0 /\ IsInjective(<<>>)
    BY DEF IsInjective
  <2>2. PickedSoFar(E, seq, places, 0, <<>>)
    BY <2>1 DEF PickedSoFar
  <2> QED
    BY <1>1, <2>2 DEF Picks
<1>3. ASSUME NEW n \in S PROVE n + 1 \in S
  <2> SUFFICES ASSUME n + 1 <= N PROVE PickedSoFar(E, seq, places, n + 1, f[n + 1])
    OBVIOUS
  <2> DEFINE s == f[n]
             e == seq[n + 1]
  <2>1. /\ n \in Nat /\ n <= N /\ n + 1 \in 1 .. N /\ (n + 1) - 1 = n /\ N \in Nat
        /\ PickedSoFar(E, seq, places, n, s) /\ e \in E
    OBVIOUS
  <2>2. f[n + 1] = IF n + 1 \in places THEN Append(s, e) ELSE s
    BY <1>1, <2>1 DEF Picks
  <2> HIDE DEF s
  <2>3. /\ places \cap 1 .. n \subseteq places \cap 1 .. n + 1
        /\ Apart(seq, places \cap 1 .. n + 1) => Apart(seq, places \cap 1 .. n)
    <3>1. places \cap 1 .. n \subseteq places \cap 1 .. n + 1
      BY <2>1
    <3> QED
      BY <3>1 DEF Apart
  <2>4. PickedSoFar(E, seq, places, n + 1, s)
    BY <2>3, <2>1 DEF PickedSoFar
  <2>5. ASSUME n + 1 \in places PROVE PickedSoFar(E, seq, places, n + 1, Append(s, e))
    <3> DEFINE t == Append(s, e)
               K == Len(s)
    <3>1. s \in Seq(E)
      BY <2>1 DEF PickedSoFar
    <3>2. /\ t \in Seq(E) /\ Len(t) = K + 1 /\ t[K + 1] = e /\ K \in Nat
          /\ \A j \in 1 .. K : t[j] = s[j]
          /\ DOMAIN s = 1 .. K /\ DOMAIN t = 1 .. K + 1 /\ DOMAIN seq = 1 .. N
      BY <2>1, <3>1
    <3> HIDE DEF t, K
    <3>3. ASSUME NEW j \in 1 .. K + 1 PROVE \E i \in places \cap 1 .. n + 1 : t[j] = seq[i]
      <4>1. CASE j = K + 1
        <5>1. n + 1 \in places \cap 1 .. n + 1 /\ t[j] = seq[n + 1]
          BY <2>1, <2>5, <3>2, <4>1
        <5> QED
          BY <5>1
      <4>2. CASE j \in 1 .. K
        <5>1. PICK i \in places \cap 1 .. n : s[j] = seq[i]
          BY <2>1, <4>2 DEF PickedSoFar, K
        <5>2. i \in places \cap 1 .. n + 1
          BY <2>3
        <5> QED
          BY <3>2, <4>2, <5>1, <5>2
      <4> QED
        BY <3>2, <4>1, <4>2
    <3>4. ASSUME Apart(seq, places \cap 1 .. n + 1) PROVE IsInjective(t)
      <4>1. ASSUME NEW j \in 1 .. K PROVE s[j] # e
        <5>1. PICK i \in places \cap 1 .. n : s[j] = seq[i]
          BY <2>1 DEF PickedSoFar, K
        <5>2. /\ i \in places \cap 1 .. n + 1 /\ i # n + 1
              /\ n + 1 \in places \cap 1 .. n + 1
          BY <2>3, <2>1, <2>5
        <5> QED
          BY <3>4, <5>1, <5>2 DEF Apart
      <4>2. IsInjective(s)
        BY <2>3, <2>1, <3>4 DEF PickedSoFar
      <4>3. ASSUME NEW i \in 1 .. K + 1, NEW j \in 1 .. K + 1, t[i] = t[j] PROVE i = j
        <5>1. CASE i \in 1 .. K /\ j \in 1 .. K
          BY <3>2, <4>2, <4>3, <5>1 DEF IsInjective
        <5>2. CASE i = K + 1 /\ j = K + 1
          BY <5>2
        <5>3. CASE i = K + 1 /\ j \in 1 .. K
          BY <3>2, <4>1, <4>3, <5>3
        <5>4. CASE i \in 1 .. K /\ j = K + 1
          BY <3>2, <4>1, <4>3, <5>4
        <5> QED
          BY <3>2, <5>1, <5>2, <5>3, <5>4
      <4> QED
        BY <3>2, <4>3 DEF IsInjective
    <3> QED
      BY <3>2, <3>3, <3>4 DEF PickedSoFar, t
  <2> QED
    BY <2>2, <2>4, <2>5
<1> HIDE DEF S
<1>4. S = Nat
  BY <1>2, <1>3, NatsByStep DEF S
<1>5. N \in S /\ N \in Nat
  BY <1>4
<1>6. PickedSoFar(E, seq, places, N, f[N])
  BY <1>5 DEF S
<1> QED
  BY <1>1, <1>6

\* Of a log, it is a log.
LEMMA PickedIsLog ==
  ASSUME NEW E, NEW log, LogOf(E, log), NEW places
  PROVE  LogOf(E, Picked(log, places))
<1>1. log \in Seq(E) /\ IsInjective(log)
  BY DEF LogOf
<1>2. Apart(log, places \cap 1 .. Len(log))
  BY <1>1 DEF Apart, IsInjective
<1>3. PickedSoFar(E, log, places, Len(log), Picked(log, places))
  BY <1>1, PickedIsPart
<1> QED
  BY <1>1, <1>2, <1>3 DEF PickedSoFar, LogOf

-----------------------------------------------------------------------------
(* Calls *)

\* The projection after it has caught up: the whole storage.
LEMMA CatchUpIsContext ==
  ASSUME NEW log, StoredLog(log), NEW ctx, IsContext(log, ctx)
  PROVE  LET up == Ingest(ctx, Unknown(ctx.entries, log))
         IN  IsContext(log, up) /\ ToSet(up.entries) = ToSet(log)
<1> DEFINE more == Unknown(ctx.entries, log)
<1>1. /\ LogOf(ToSet(log), ctx.entries) /\ ToSet(ctx.entries) \subseteq ToSet(log)
      /\ HashesOf(ctx.entries) = {e.hash : e \in ToSet(ctx.entries)}
  BY ContextNamesItself
<1>2. LogOf(ToSet(log), log) /\ Channel(ToSet(log))
  BY DEF StoredLog
<1>3. /\ LogOf(ToSet(log), more)
      /\ ToSet(more) = {e \in ToSet(log) : e.hash \notin HashesOf(ctx.entries)}
  BY <1>2, UnknownIsLog
<1> HIDE DEF more
<1>4. ToSet(ctx.entries) \cup ToSet(more) = ToSet(log)
  BY <1>1, <1>2, <1>3 DEF Channel
<1>5. NamesItself(ToSet(ctx.entries) \cup ToSet(more))
  BY <1>4, StoredNamesItself, Zenon
<1>6. Ingested(log, ctx, more)
  BY <1>3, <1>5, IngestIsContext
<1> QED
  BY <1>4, <1>6, Zenon DEF Ingested, more

\* The projection after a commit: the same events as the tail, in the same order.
LEMMA CommitIsContext ==
  ASSUME NEW log, StoredLog(log), NEW base, IsContext(log, base), NEW e,
         WrittenOn(log, base, e),
         NEW ctx, IsContext(log, ctx), ctx.entries = base.entries
  PROVE  /\ IsContext(Append(log, e), Ingest(ctx, <<e>>))
         /\ Ingest(ctx, <<e>>).entries = Append(base.entries, e)
<1> DEFINE more == Append(log, e)
           up == Ingest(ctx, <<e>>)
           entries == Append(base.entries, e)
           tail == ExtendContext(base, e)
<1>1. Extended(log, base, e)
  BY ExtendIsContext
<1>2. /\ StoredLog(more) /\ ToSet(more) = ToSet(log) \cup {e}
      /\ IsContext(more, tail) /\ tail.entries = entries
      /\ ToSet(entries) = ToSet(base.entries) \cup {e}
      /\ NamesItself(ToSet(base.entries) \cup {e})
  BY <1>1 DEF Extended
<1> HIDE DEF more, entries, up, tail
<1>3. IsContext(more, ctx) /\ LogOf(ToSet(more), <<e>>) /\ ToSet(<<e>>) = {e}
  BY <1>2, ContextOfMore, LogOfOne
<1>4. NamesItself(ToSet(ctx.entries) \cup ToSet(<<e>>))
  BY <1>2, <1>3
<1>5. Ingested(more, ctx, <<e>>)
  BY <1>2, <1>3, <1>4, IngestIsContext
<1>6. IsContext(more, up) /\ ToSet(up.entries) = ToSet(entries)
  BY <1>2, <1>3, <1>5 DEF Ingested, up
<1>7. up.entries = entries
  BY <1>2, <1>6, SameSetSameView DEF IsContext
<1> QED
  BY <1>6, <1>7 DEF more, entries, up

\* What a call writes on the volume of a view.
LEMMA EntryIsWritten ==
  ASSUME NEW log, StoredLog(log), NEW ctx, ViewOf(ToSet(log), ctx.entries),
         Refers(ctx.fs, HashesOf(ctx.entries)), NEW event,
         event.kind \in FileVerbs, NEW now \in Nat,
         NEW hash \in Nat, hash \notin HashesOf(log), NEW by
  PROVE  LET e == EntryOn(ctx, event, EventTime(event.kind, now, ctx.entries), hash, by)
         IN  WrittenOn(log, ctx, e) /\ e.hash = hash /\ e.event = event /\ e.by = by
<1> DEFINE ts == EventTime(event.kind, now, ctx.entries)
           lineage == LineageOf(event, ctx)
           ref == FirstRef(event.kind, ctx.entries)
           e == EntryOn(ctx, event, ts, hash, by)
<1>1. ts \in Nat
  <2>1. LogOf(ToSet(log), ctx.entries)
    BY LogOfMore DEF ViewOf, Canonical
  <2>2. ctx.entries \in Seq(ToSet(log)) /\ \A f \in ToSet(log) : f.ts \in Nat
    BY <2>1, LogIsSeq DEF StoredLog, Plain
  <2> QED
    BY <2>2, EventTimeIsTime
<1>2. lineage \subseteq HashesOf(ctx.entries)
  BY LineageIsKnown
<1> HIDE DEF ts, lineage, ref
<1>3. e = [hash |-> hash, by |-> by, verb |-> event.kind, ref |-> ref, ts |-> ts,
           event |-> event, lineage |-> lineage]
  BY DEF EntryOn, lineage, ref
<1>4. /\ e.hash = hash /\ e.by = by /\ e.verb = event.kind /\ e.ref = ref /\ e.ts = ts
      /\ e.event = event /\ e.lineage = lineage
  BY <1>3
<1> HIDE DEF e
<1>5. WrittenOn(log, ctx, e)
  BY <1>1, <1>2, <1>4 DEF WrittenOn, Plain, ref
<1> QED
  BY <1>4, <1>5 DEF e, ts

-----------------------------------------------------------------------------
(* The invariant *)

\* Contexts know of all the events the service was told of, and the tail of
\* those the projection has.
SInv ==
  /\ StoredLog(stored)
  /\ IsContext(stored, projected)
  /\ replayTail # NoTail => /\ IsContext(stored, replayTail) /\ ~dirty
                            /\ replayTail.entries = projected.entries
  /\ dirty \in BOOLEAN
  /\ unannounced \subseteq HashesOf(stored)
  /\ ~dirty => \A e \in ToSet(stored) : e.hash \notin unannounced => e \in ToSet(projected.entries)

\* What a call is answered from.
LEMMA ServedIsContext ==
  ASSUME SInv
  PROVE  /\ IsContext(stored, CaughtUp) /\ IsContext(stored, Served)
         /\ Served.entries = CaughtUp.entries
         /\ dirty => ToSet(CaughtUp.entries) = ToSet(stored)
         /\ ~dirty => CaughtUp = projected
<1>1. StoredLog(stored) /\ IsContext(stored, projected)
  BY DEF SInv
<1>2. ~dirty => CaughtUp = projected
  BY DEF CaughtUp
<1>3. dirty => IsContext(stored, CaughtUp) /\ ToSet(CaughtUp.entries) = ToSet(stored)
  BY <1>1, CatchUpIsContext DEF CaughtUp
<1>4. IsContext(stored, CaughtUp)
  BY <1>1, <1>2, <1>3
<1>5. IsContext(stored, Served) /\ Served.entries = CaughtUp.entries
  BY <1>2, <1>4 DEF Served, SInv
<1> QED
  BY <1>2, <1>3, <1>4, <1>5

\* The first log: written before, event on event.
LEMMA FirstIsStored ==
  ASSUME NEW log \in FirstLogs
  PROVE  StoredLog(log)
<1>1. /\ log \in Seq(ToSet(log)) /\ IsInjective(log)
      /\ \A i \in DOMAIN log :
           /\ log[i].lineage = {} /\ log[i].hash \in Nat \ 1 .. MaxEvents /\ log[i].ts \in Nat
           /\ log[i].verb \in FileVerbs /\ log[i].verb = log[i].event.kind
           /\ \A j \in DOMAIN log : log[j].hash = log[i].hash => j = i
           /\ ParentOf(log[i]) # NoRef =>
                \E j \in DOMAIN log : j < i /\ log[j].hash = ParentOf(log[i])
  BY FirstLogsAreOlder
<1>2. LogOf(ToSet(log), log)
  BY <1>1 DEF LogOf
<1>3. DOMAIN log = 1 .. Len(log) /\ ToSet(log) = {log[i] : i \in 1 .. Len(log)} /\ Len(log) \in Nat
  BY <1>2, LogIsSeq
<1>4. \A i \in 1 .. Len(log) : Plain(log[i]) /\ log[i].lineage = {}
  BY <1>1, <1>3 DEF Plain
<1>5. Channel(ToSet(log))
  <2>1. \A i, j \in 1 .. Len(log) : log[i].hash = log[j].hash => i = j
    BY <1>1, <1>3
  <2>2. \A i \in 1 .. Len(log) : log[i].hash \in Nat /\ ExtractTimestamp(log[i], 0) \in Nat
    BY <1>4, PlainIsFile DEF Plain
  <2> QED
    BY <1>3, <2>1, <2>2 DEF Channel
<1>6. Arrived(log)
  <2>1. ASSUME NEW i \in 1 .. Len(log), ParentOf(log[i]) # NoRef
        PROVE  \E j \in 1 .. i - 1 : log[j].hash = ParentOf(log[i])
    <3>1. PICK j \in DOMAIN log : j < i /\ log[j].hash = ParentOf(log[i])
      BY <1>1, <1>3, <2>1
    <3>2. j \in 1 .. i - 1
      BY <1>3, <3>1
    <3> QED
      BY <3>1, <3>2
  <2> QED
    BY <2>1 DEF Arrived
<1> QED
  BY <1>2, <1>3, <1>4, <1>5, <1>6 DEF StoredLog

\* A process that opens the volume knows all there is in the storage.
LEMMA OpenKeepsInv ==
  ASSUME NEW log, StoredLog(log), NEW kept, IsContext(log, kept),
         stored' = log, projected' = Ingest(kept, Unknown(kept.entries, log)),
         replayTail' = NoTail, dirty' = FALSE, unannounced' = {}
  PROVE  SInv'
<1>1. IsContext(log, projected') /\ ToSet(projected'.entries) = ToSet(log)
  BY CatchUpIsContext
<1> QED
  BY <1>1 DEF SInv

LEMMA InitHolds == Init => SInv
<1> SUFFICES ASSUME Init PROVE SInv
  OBVIOUS
<1>1. StoredLog(stored)
  BY FirstIsStored DEF Init
<1>2. IsContext(stored, InitialContext) /\ InitialContext.entries = <<>>
  BY <1>1, InitialIsContext
<1>3. LogOf(ToSet(stored), stored) /\ ToSet(<<>>) = {} /\ NamesItself(ToSet(stored))
  BY <1>1, NothingIsLog, StoredNamesItself DEF StoredLog
<1>4. IsContext(stored, projected) /\ ToSet(projected.entries) = ToSet(stored)
  <2>1. projected = Ingest(InitialContext, stored)
    BY DEF Init
  <2>2. ToSet(InitialContext.entries) \cup ToSet(stored) = ToSet(stored)
    BY <1>2, <1>3
  <2>3. NamesItself(ToSet(InitialContext.entries) \cup ToSet(stored))
    BY <1>3, <2>2, Zenon
  <2>4. Ingested(stored, InitialContext, stored)
    BY <1>1, <1>2, <1>3, <2>3, IngestIsContext
  <2> QED
    BY <2>1, <2>2, <2>4 DEF Ingested
<1> QED
  BY <1>1, <1>4 DEF Init, SInv

\* Hashes of new events.
LEMMA FreshIsNew ==
  ASSUME NEW hash \in FreshHashes
  PROVE  hash \in Nat /\ hash \notin HashesOf(stored) /\ hash \in 1 .. MaxEvents
<1>1. hash \in (1 .. MaxEvents) \ HashesOf(stored)
  BY DEF FreshHashes
<1> QED
  BY <1>1, BoundsAreNat

\* A call takes the time and its events from what it is given.
LEMMA EventsAreFiles ==
  ASSUME NEW hash
  PROVE  /\ \A event \in LocalEvents(hash) : event.kind \in FileVerbs
         /\ \A event \in PeerEvents(hash) : event.kind \in FileVerbs
         /\ \A path : CreateFile(path, hash).kind \in FileVerbs
<1>1. \A path : CreateFile(path, hash).kind = "CREATE_FILE"
  BY DEF CreateFile
<1>2. \A path : DeletePath(path).kind = "DELETE" /\ Mkdir(path).kind = "MKDIR"
  BY DEF DeletePath, Mkdir
<1>3. \A from, to : Rename(from, to).kind = "RENAME"
  BY DEF Rename
<1>4. \A event \in PeerEvents(hash) : event.kind \in FileVerbs
  BY <1>1, <1>2, <1>3 DEF PeerEvents, FileVerbs
<1> QED
  BY <1>1, <1>2, <1>4 DEF LocalEvents, FileVerbs

\* What a mutator writes on what it is served.
LEMMA CallIsWritten ==
  ASSUME SInv, NEW event, event.kind \in FileVerbs, NEW now \in Nat, NEW hash \in FreshHashes
  PROVE  LET entry == EntryOfCall(Served, event, now, hash)
         IN  /\ WrittenOn(stored, Served, entry)
             /\ entry.hash = hash /\ entry.event = event /\ entry.by = "service"
<1> DEFINE base == Served
           on == EntryOn(base, event, EventTime(event.kind, now, base.entries), hash, "service")
<1>1. /\ StoredLog(stored) /\ ViewOf(ToSet(stored), base.entries)
      /\ Refers(base.fs, HashesOf(base.entries))
  BY ServedIsContext DEF SInv, IsContext
<1>2. hash \in Nat /\ hash \notin HashesOf(stored) /\ now \in Nat /\ event.kind \in FileVerbs
  BY FreshIsNew
<1> HIDE DEF base
<1>3. WrittenOn(stored, base, on) /\ on.hash = hash /\ on.event = event /\ on.by = "service"
  BY ONLY <1>1, <1>2, EntryIsWritten
<1> QED
  BY <1>3 DEF EntryOfCall, base

\* The tail and the projection have what a call wrote.
LEMMA WriteKeepsInv ==
  ASSUME SInv, NEW event, event.kind \in FileVerbs, NEW now \in Nat,
         NEW hash \in FreshHashes, Write(event, now, hash)
  PROVE  SInv'
<1> DEFINE base == Served
           entry == EntryOfCall(base, event, now, hash)
<1>1. /\ IsContext(stored, CaughtUp) /\ IsContext(stored, base)
      /\ base.entries = CaughtUp.entries
      /\ dirty => ToSet(CaughtUp.entries) = ToSet(stored)
      /\ ~dirty => CaughtUp = projected
  BY ServedIsContext
<1>2. /\ stored' = Append(stored, entry) /\ replayTail' = ExtendContext(base, entry)
      /\ projected' = Ingest(CaughtUp, <<entry>>) /\ dirty' = FALSE
      /\ unannounced' = unannounced
  BY DEF Write, CommitReplayEntry
<1>3. WrittenOn(stored, base, entry) /\ entry.hash = hash
  BY CallIsWritten
<1> HIDE DEF base, entry
<1>4. StoredLog(stored)
  BY DEF SInv
<1>5. Extended(stored, base, entry)
  BY <1>1, <1>3, <1>4, ExtendIsContext
<1>6. /\ IsContext(stored', projected')
      /\ projected'.entries = Append(base.entries, entry)
  BY <1>1, <1>2, <1>3, <1>4, CommitIsContext
<1>7. /\ StoredLog(stored') /\ ToSet(stored') = ToSet(stored) \cup {entry}
      /\ IsContext(stored', replayTail')
      /\ replayTail'.entries = projected'.entries
      /\ ToSet(projected'.entries) = ToSet(base.entries) \cup {entry}
  BY <1>2, <1>5, <1>6 DEF Extended
<1>8. unannounced' \subseteq HashesOf(stored')
  <2>1. /\ HashesOf(stored) = {e.hash : e \in ToSet(stored)}
        /\ HashesOf(stored') = {e.hash : e \in ToSet(stored')}
    BY <1>4, <1>7, StoredNamesItself
  <2> QED
    BY <1>2, <1>7, <2>1 DEF SInv
<1>9. \A e \in ToSet(stored') : e.hash \notin unannounced' => e \in ToSet(projected'.entries)
  BY <1>1, <1>2, <1>7 DEF SInv
<1> QED
  BY <1>2, <1>6, <1>7, <1>8, <1>9 DEF SInv

\* Nobody tells the service.
LEMMA UnannouncedKeepsInv ==
  ASSUME SInv, StoredLog(stored'), ToSet(stored) \subseteq ToSet(stored'), NEW H,
         \A e \in ToSet(stored') \ ToSet(stored) : e.hash \in H,
         H \subseteq HashesOf(stored'), unannounced' = unannounced \cup H,
         UNCHANGED <<projected, replayTail, dirty>>
  PROVE  SInv'
<1>1. /\ HashesOf(stored) = {e.hash : e \in ToSet(stored)}
      /\ HashesOf(stored') = {e.hash : e \in ToSet(stored')}
  BY StoredNamesItself DEF SInv
<1>2. unannounced' \subseteq HashesOf(stored')
  BY <1>1 DEF SInv
<1>3. IsContext(stored', projected')
  BY ContextOfMore DEF SInv
<1>4. replayTail' # NoTail => /\ IsContext(stored', replayTail') /\ ~dirty'
                              /\ replayTail'.entries = projected'.entries
  BY ContextOfMore DEF SInv
<1>5. ~dirty' => \A e \in ToSet(stored') :
                   e.hash \notin unannounced' => e \in ToSet(projected'.entries)
  BY DEF SInv
<1> QED
  BY <1>2, <1>3, <1>4, <1>5 DEF SInv

LEMMA EventUnannounced ==
  ASSUME SInv, NEW ctx, ViewOf(ToSet(stored), ctx.entries),
         Refers(ctx.fs, HashesOf(ctx.entries)), NEW event, event.kind \in FileVerbs,
         NEW now \in Nat, NEW hash \in FreshHashes,
         WriteUnannounced({ctx}, event, now, hash)
  PROVE  SInv'
<1> DEFINE entry == EntryOn(ctx, event, EventTime(event.kind, now, ctx.entries), hash, "other")
<1>1. /\ stored' = Append(stored, entry) /\ unannounced' = unannounced \cup {hash}
      /\ UNCHANGED <<projected, replayTail, dirty>>
  BY DEF WriteUnannounced
<1>2. StoredLog(stored)
  BY DEF SInv
<1>3. WrittenOn(stored, ctx, entry) /\ entry.hash = hash
  BY <1>2, FreshIsNew, EntryIsWritten
<1> HIDE DEF entry
<1>4. StoredLog(stored') /\ ToSet(stored') = ToSet(stored) \cup {entry}
  BY <1>1, <1>2, <1>3, WrittenIsStored DEF WrittenOn
<1>5. {hash} \subseteq HashesOf(stored')
  BY <1>3, <1>4, StoredNamesItself
<1> QED
  BY <1>1, <1>3, <1>4, <1>5, UnannouncedKeepsInv

\* The process that ends in a call leaves an event the next one finds.
LEMMA CutShortKeepsInv ==
  ASSUME SInv, NEW event, event.kind \in FileVerbs, NEW now \in Nat,
         NEW hash \in FreshHashes, WriteCutShort(event, now, hash)
  PROVE  SInv'
<1> DEFINE base == Served
           entry == EntryOfCall(base, event, now, hash)
           log == Append(stored, entry)
<1>1. IsContext(stored, base) /\ StoredLog(stored)
  BY ServedIsContext DEF SInv
<1>2. WrittenOn(stored, base, entry)
  BY CallIsWritten
<1>3. OpenAnew(log)
  BY DEF WriteCutShort
<1> HIDE DEF base, entry
<1>4. StoredLog(log) /\ ToSet(log) = ToSet(stored) \cup {entry}
  BY <1>1, <1>2, WrittenIsStored DEF WrittenOn, IsContext
<1> HIDE DEF log
<1>5. IsContext(log, projected) /\ IsContext(log, InitialContext)
  BY <1>4, ContextOfMore, InitialIsContext DEF SInv
<1> QED
  BY <1>3, <1>4, <1>5, OpenKeepsInv DEF OpenAnew

LEMMA RestartKeepsInv == SInv /\ Restart => SInv'
<1> SUFFICES ASSUME SInv, Restart PROVE SInv'
  OBVIOUS
<1>1. StoredLog(stored) /\ IsContext(stored, projected) /\ IsContext(stored, InitialContext)
  BY InitialIsContext DEF SInv
<1> QED
  BY <1>1, OpenKeepsInv DEF Restart, OpenAnew

LEMMA ReadKeepsInv == SInv /\ Read => SInv'
<1> SUFFICES ASSUME SInv, Read PROVE SInv'
  OBVIOUS
<1>1. /\ IsContext(stored, CaughtUp) /\ ToSet(CaughtUp.entries) = ToSet(stored)
  BY ServedIsContext DEF Read
<1>2. /\ dirty /\ dirty' = FALSE /\ projected' = CaughtUp
      /\ stored' = stored /\ replayTail' = replayTail /\ unannounced' = unannounced
  BY DEF Read
<1>3. replayTail' = NoTail
  BY <1>2 DEF SInv
<1> QED
  BY <1>1, <1>2, <1>3 DEF SInv

LEMMA StaleKeepsInv == SInv /\ MarkReplayStale => SInv'
BY DEF SInv, MarkReplayStale

\* Another device writes on any part of the storage it may have replayed.
LEMMA PeerKeepsInv ==
  ASSUME SInv, NEW log \in PeerLogs, NEW event, event.kind \in FileVerbs, NEW now \in Nat,
         NEW hash \in FreshHashes, PeerWrite(log, event, now, hash)
  PROVE  SInv'
<1> DEFINE order == OrderFileKeys(log)
           vol == MaterializeFrom(EmptyVolume, order)
           ctx == ReduceContext(<<>>, EmptyVolume, order)
<1>1. StoredLog(stored) /\ LogOf(ToSet(stored), stored)
  BY DEF SInv, StoredLog
<1>2. LogOf(ToSet(stored), log) /\ Closed(ToSet(log))
  <2>1. PICK places : log = Picked(stored, places)
    BY DEF PeerLogs
  <2>2. LogOf(ToSet(stored), log)
    BY <1>1, <2>1, PickedIsLog
  <2>3. HashesOf(log) = {e.hash : e \in ToSet(log)} /\ ToSet(log) = {log[i] : i \in 1 .. Len(log)}
        /\ DOMAIN log = 1 .. Len(log)
    BY <2>2, HashesAreOf, LogIsSeq
  <2>4. \A i \in DOMAIN log : ParentOf(log[i]) # NoRef => ParentOf(log[i]) \in HashesOf(log)
    BY DEF PeerLogs
  <2>5. Closed(ToSet(log))
    BY <2>3, <2>4 DEF Closed
  <2> QED
    BY <2>2, <2>5
<1>3. ViewOf(ToSet(stored), order)
  BY <1>1, <1>2, PartIsView
<1>4. order \in Seq(ToSet(stored)) /\ <<>> \o order = order
  <2>1. order \in Seq(ToSet(stored))
    BY <1>3, LogOfMore, LogIsSeq DEF ViewOf, Canonical
  <2> HIDE DEF order
  <2> QED
    BY <2>1
<1>5. ctx = ContextOf(order, vol)
  BY <1>4 DEF ReduceContext
<1> HIDE DEF order
<1>6. Refers(vol, HashesOf(order))
  BY <1>4, MaterializeRefers DEF Materialize
<1> HIDE DEF vol
<1>7. ctx.entries = order /\ ctx.fs = vol
  BY <1>5 DEF ContextOf
<1>8. WriteUnannounced({ctx}, event, now, hash)
  BY DEF PeerWrite, order
<1> HIDE DEF ctx
<1> QED
  BY <1>3, <1>6, <1>7, <1>8, EventUnannounced

\* The direct operations write on what the storage has.
LEMMA DirectKeepsInv ==
  ASSUME SInv, NEW event, event.kind \in FileVerbs, NEW now \in Nat, NEW hash \in FreshHashes,
         WriteUnannounced({LoadContext(InitialContext, stored)}, event, now, hash)
  PROVE  SInv'
<1>1. IsContext(stored, LoadContext(InitialContext, stored))
  BY LoadIsContext DEF SInv
<1> QED
  BY <1>1, EventUnannounced DEF IsContext

LEMMA NextKeepsInv == SInv /\ [Next]_vars => SInv'
<1> SUFFICES ASSUME SInv, [Next]_vars PROVE SInv'
  OBVIOUS
<1>1. ASSUME NEW now \in Times, NEW hash \in FreshHashes, NEW event \in LocalEvents(hash),
             Write(event, now, hash) \/ WriteCutShort(event, now, hash)
      PROVE  SInv'
  BY <1>1, TimesAreNumbers, EventsAreFiles, WriteKeepsInv, CutShortKeepsInv
<1>2. ASSUME NEW now \in Times, NEW hash \in FreshHashes, NEW path,
             StoreData(path, now, hash) \/ DeleteDirectly(path, now, hash)
      PROVE  SInv'
  <2>1. CreateFile(path, hash).kind \in FileVerbs
        /\ [kind |-> "DELETE", path |-> path].kind \in FileVerbs
    BY EventsAreFiles DEF FileVerbs
  <2> QED
    BY <1>2, <2>1, TimesAreNumbers, DirectKeepsInv DEF StoreData, DeleteDirectly
<1>3. ASSUME NEW now \in Times, NEW hash \in FreshHashes, NEW log \in PeerLogs,
             NEW event \in PeerEvents(hash), PeerWrite(log, event, now, hash)
      PROVE  SInv'
  BY <1>3, TimesAreNumbers, EventsAreFiles, PeerKeepsInv
<1>4. CASE UNCHANGED vars
  BY <1>4 DEF vars, SInv
<1> QED
  BY <1>1, <1>2, <1>3, <1>4, RestartKeepsInv, ReadKeepsInv, StaleKeepsInv DEF Next

-----------------------------------------------------------------------------
(* Events written one after the other *)

\* A writer's view has all of H no later than the parent of e.
AllBehind(log, H, e) ==
  \E q : /\ ViewOf(ToSet(log), q)
         /\ \A h \in H : \E i, m \in 1 .. Len(q) :
              i <= m /\ q[i].hash = h /\ q[m].hash = ParentOf(e)

\* Such an event may be stored; what is written on it has all of H behind it, too.
LEMMA NextOfChain ==
  ASSUME NEW log, StoredLog(log), NEW H, H \subseteq HashesOf(log), NEW e, Plain(e),
         e.hash \notin HashesOf(log), ParentOf(e) # NoRef => ParentOf(e) \in HashesOf(log),
         AllBehind(log, H, e), e.lineage \subseteq H
  PROVE  /\ StoredLog(Append(log, e)) /\ ToSet(Append(log, e)) = ToSet(log) \cup {e}
         /\ \A f : ParentOf(f) = e.hash => AllBehind(Append(log, e), H, f)
<1> DEFINE more == Append(log, e)
           E == ToSet(log) \cup {e}
           p == OrderFileKeys(more)
<1>1. PICK q : /\ ViewOf(ToSet(log), q)
               /\ \A h \in H : \E i, m \in 1 .. Len(q) :
                    i <= m /\ q[i].hash = h /\ q[m].hash = ParentOf(e)
  BY DEF AllBehind
<1>2. BehindParent(log, e)
  BY <1>1 DEF BehindParent
<1>3. StoredLog(more) /\ ToSet(more) = E
  BY <1>2, StoredGrows
<1> HIDE DEF more
<1>4. ViewOf(E, p) /\ ToSet(p) = E /\ Channel(E) /\ ViewOf(E, q)
  BY <1>1, <1>3, StoredIsView, ViewOfMore DEF StoredLog
<1> HIDE DEF p
<1>5. ASSUME NEW h \in H
      PROVE  \E i, m \in 1 .. Len(p) : i <= m /\ p[i].hash = h /\ p[m].hash = e.hash
  <2>1. PICK i \in 1 .. Len(q), m \in 1 .. Len(q) :
          i <= m /\ q[i].hash = h /\ q[m].hash = ParentOf(e)
    BY <1>1
  <2>2. q[i] \in ToSet(p) /\ e \in ToSet(p)
    <3>1. LogOf(ToSet(q), q) /\ ToSet(q) \subseteq E
      BY <1>4 DEF ViewOf, Canonical
    <3>2. q[i] \in ToSet(q)
      BY <3>1, LogIsSeq
    <3> QED
      BY <1>4, <3>1, <3>2
  <2>3. Before(p, q[i].hash, e.hash)
    BY <1>4, <2>1, <2>2, FollowsItsView
  <2>4. DOMAIN p = 1 .. Len(p) /\ Len(p) \in Nat
    BY <1>4, LogIsSeq DEF ViewOf, Canonical
  <2> QED
    BY <2>1, <2>3, <2>4 DEF Before
<1>6. ASSUME NEW f, ParentOf(f) = e.hash PROVE AllBehind(more, H, f)
  BY <1>3, <1>4, <1>5, <1>6 DEF AllBehind
<1> QED
  BY <1>3, <1>6 DEF more

\* What AppendCreateEvents makes: entries with times and new hashes.
Chain(log, hashes, chain) ==
  /\ Len(chain) \in Nat /\ chain \in Seq({chain[i] : i \in 1 .. Len(chain)})
  /\ \A i \in 1 .. Len(chain) :
       /\ Plain(chain[i]) /\ chain[i].hash = hashes[i] /\ hashes[i] \notin HashesOf(log)
       /\ chain[i].lineage \subseteq HashesOf(log)
       /\ \A j \in 1 .. Len(chain) : hashes[i] = hashes[j] => i = j
       /\ i # 1 => ParentOf(chain[i]) = hashes[i - 1]
  /\ 1 <= Len(chain) => chain[1].ref = FirstRef(chain[1].verb, OrderFileKeys(log))

\* The storage when the first n are written.
Chained(log, chain, n) ==
  LET more == log \o SubSeq(chain, 1, n)
  IN  /\ StoredLog(more)
      /\ ToSet(more) = ToSet(log) \cup {chain[i] : i \in 1 .. n}
      /\ n < Len(chain) => /\ AllBehind(more, HashesOf(log), chain[n + 1])
                           /\ ParentOf(chain[n + 1]) # NoRef =>
                                ParentOf(chain[n + 1]) \in HashesOf(more)

LEMMA ChainIsStored ==
  ASSUME NEW log, StoredLog(log), NEW hashes, NEW chain, Chain(log, hashes, chain)
  PROVE  \A n \in 0 .. Len(chain) : Chained(log, chain, n)
<1> DEFINE K == Len(chain)
           H == HashesOf(log)
           X == ToSet(log) \cup {chain[i] : i \in 1 .. K}
           S == {n \in Nat : n <= K => Chained(log, chain, n)}
<1>1. K \in Nat /\ chain \in Seq(X) /\ log \in Seq(X)
  <2>1. chain \in Seq({chain[i] : i \in 1 .. K}) /\ K \in Nat
    BY DEF Chain
  <2>2. log \in Seq(ToSet(log))
    BY LogIsSeq DEF StoredLog
  <2>3. \A A : A \subseteq X => Seq(A) \subseteq Seq(X)
    OBVIOUS
  <2> HIDE DEF K
  <2> QED
    BY <2>1, <2>2, <2>3
<1>2. /\ H = {e.hash : e \in ToSet(log)}
      /\ \A i \in 1 .. K :
           /\ Plain(chain[i]) /\ chain[i].hash = hashes[i] /\ hashes[i] \notin H
           /\ chain[i].lineage \subseteq H
           /\ \A j \in 1 .. K : hashes[i] = hashes[j] => i = j
           /\ i # 1 => ParentOf(chain[i]) = hashes[i - 1]
      /\ 1 <= K => chain[1].ref = FirstRef(chain[1].verb, OrderFileKeys(log))
  BY StoredNamesItself DEF Chain
<1>3. 0 \in S
  <2>1. log \o SubSeq(chain, 1, 0) = log /\ {chain[i] : i \in 1 .. 0} = {}
    <3>1. SubSeq(chain, 1, 0) = <<>>
      BY <1>1, FrontGrows
    <3>2. log \o <<>> = log
      BY <1>1
    <3>3. 1 .. 0 = {}
      OBVIOUS
    <3>4. {chain[i] : i \in 1 .. 0} = {}
      BY <3>3
    <3> QED
      BY <3>1, <3>2, <3>4, Zenon
  <2>2. ASSUME 0 < K
        PROVE  /\ AllBehind(log, H, chain[1])
               /\ ParentOf(chain[1]) # NoRef => ParentOf(chain[1]) \in H
    <3> DEFINE q == OrderFileKeys(log)
               e == chain[1]
    <3>1. 1 \in 1 .. K /\ 1 <= K
      BY <1>1, <2>2
    <3>2. Plain(e) /\ e.ref = FirstRef(e.verb, q)
      BY <1>2, <3>1
    <3>3. ViewOf(ToSet(log), q) /\ ToSet(q) = ToSet(log)
      BY StoredIsView
    <3>4. HashesOf(q) = H
      BY <1>2, <3>3, HashesAreOf DEF ViewOf, Canonical
    <3> HIDE DEF q, e, H
    <3>5. /\ ParentOf(e) # NoRef => ParentOf(e) \in HashesOf(q)
          /\ \A h \in HashesOf(q) : \E i, m \in 1 .. Len(q) :
               i <= m /\ q[i].hash = h /\ q[m].hash = ParentOf(e)
      BY <3>2, <3>3, AllBehindHead DEF StoredLog
    <3>6. AllBehind(log, H, e)
      BY <3>3, <3>4, <3>5 DEF AllBehind
    <3> QED
      BY <3>4, <3>5, <3>6 DEF e
  <2>3. Chained(log, chain, 0)
    <3> HIDE DEF H
    <3>1. 0 + 1 = 1
      OBVIOUS
    <3> QED
      BY <2>1, <2>2, <3>1 DEF Chained, H
  <2> QED
    BY <2>3
<1>4. ASSUME NEW n \in S PROVE n + 1 \in S
  <2> SUFFICES ASSUME n + 1 <= K PROVE Chained(log, chain, n + 1)
    OBVIOUS
  <2> DEFINE before == log \o SubSeq(chain, 1, n)
             e == chain[n + 1]
             after == log \o SubSeq(chain, 1, n + 1)
  <2>1. /\ n \in Nat /\ n <= K /\ n < K /\ n + 1 \in 1 .. K /\ (n + 1) - 1 = n
        /\ 1 .. n + 1 = 1 .. n \cup {n + 1} /\ 1 .. n \subseteq 1 .. K /\ n + 1 \notin 1 .. n
    BY <1>1
  <2>2. Chained(log, chain, n)
    BY <2>1
  <2> HIDE DEF S, H
  <2>3. /\ StoredLog(before) /\ ToSet(before) = ToSet(log) \cup {chain[i] : i \in 1 .. n}
        /\ AllBehind(before, H, e)
        /\ ParentOf(e) # NoRef => ParentOf(e) \in HashesOf(before)
    BY <2>1, <2>2 DEF Chained, H
  <2>4. after = Append(before, e)
    <3> DEFINE s == SubSeq(chain, 1, n)
    <3>1. SubSeq(chain, 1, n + 1) = Append(s, e) /\ s \in Seq(X) /\ e \in X
      <4> HIDE DEF X
      <4>1. n \in 0 .. Len(chain)
        BY <2>1
      <4> QED
        BY <1>1, <2>1, <4>1, FrontGrows
    <3> HIDE DEF s, X, e
    <3>2. log \o Append(s, e) = Append(log \o s, e)
      BY <1>1, <3>1
    <3> QED
      BY <3>1, <3>2, Zenon DEF s, e
  <2>5. /\ Plain(e) /\ e.hash = hashes[n + 1] /\ e.lineage \subseteq H
    BY <1>2, <2>1
  <2>6. HashesOf(before) = {f.hash : f \in ToSet(before)}
    BY <2>3, StoredNamesItself
  <2>7. e.hash \notin HashesOf(before) /\ H \subseteq HashesOf(before)
    <3>1. \A i \in 1 .. n : chain[i].hash # e.hash
      BY <1>2, <2>1
    <3> QED
      BY <1>2, <2>1, <2>3, <2>6, <3>1
  <2> HIDE DEF before, after, X
  <2>8. /\ StoredLog(after) /\ ToSet(after) = ToSet(before) \cup {e}
        /\ \A f : ParentOf(f) = e.hash => AllBehind(after, H, f)
    BY <2>3, <2>4, <2>5, <2>7, NextOfChain
  <2>9. ToSet(after) = ToSet(log) \cup {chain[i] : i \in 1 .. n + 1}
    BY <2>1, <2>3, <2>8
  <2>10. ASSUME n + 1 < K
         PROVE  /\ AllBehind(after, H, chain[n + 1 + 1])
                /\ ParentOf(chain[n + 1 + 1]) \in HashesOf(after)
    <3>1. n + 1 + 1 \in 1 .. K /\ n + 1 + 1 # 1 /\ (n + 1 + 1) - 1 = n + 1
      BY <1>1, <2>1, <2>10
    <3>2. ParentOf(chain[n + 1 + 1]) = e.hash
      BY <1>2, <2>5, <3>1
    <3>3. e.hash \in HashesOf(after)
      BY <2>8, StoredNamesItself
    <3> QED
      BY <2>8, <3>2, <3>3
  <2> QED
    BY <2>8, <2>9, <2>10 DEF Chained, after, H
<1> HIDE DEF S
<1>5. S = Nat
  BY <1>3, <1>4, NatsByStep DEF S
<1>6. ASSUME NEW n \in 0 .. K PROVE Chained(log, chain, n)
  <2>1. n \in Nat /\ n <= K /\ n \in S
    BY <1>1, <1>5
  <2> QED
    BY <2>1 DEF S
<1> QED
  BY <1>6

\* New hashes for so many events.
NewHashes(log, hashes, K) ==
  /\ K \in Nat /\ DOMAIN hashes = 1 .. K
  /\ \A i \in 1 .. K : /\ hashes[i] \in Nat /\ hashes[i] \notin HashesOf(log)
                       /\ \A j \in 1 .. K : hashes[i] = hashes[j] => i = j

\* The files that are created have times.
Timed(new, K) == DOMAIN new = 1 .. K /\ \A n \in 1 .. K : new[n].ts \in Nat

LEMMA CreatesAreChain ==
  ASSUME NEW log, StoredLog(log), NEW fs, Refers(fs, HashesOf(OrderFileKeys(log))),
         NEW hashes, NEW K, NewHashes(log, hashes, K), NEW new, Timed(new, K), NEW by
  PROVE  LET chain == AppendCreateEvents(OrderFileKeys(log), fs, new, hashes, by)
         IN  Chain(log, hashes, chain) /\ Len(chain) = K
<1> DEFINE q == OrderFileKeys(log)
           ref(n) == IF n = 1 THEN FirstRef("CREATE_FILE", q) ELSE hashes[n - 1]
           event(n) == [kind |-> "CREATE_FILE", path |-> new[n].path,
                        blob |-> new[n].blob, wrapped |-> new[n].wrapped]
           entry(n) == [hash |-> hashes[n], by |-> by, verb |-> "CREATE_FILE", ref |-> ref(n),
                        ts |-> new[n].ts, event |-> event(n),
                        lineage |-> LineageAtPath(fs, new[n].path)]
           chain == [n \in 1 .. K |-> entry(n)]
<1>1. AppendCreateEvents(q, fs, new, hashes, by) = chain
  BY DEF AppendCreateEvents, Timed
<1>2. K \in Nat /\ Len(chain) = K /\ \A i \in 1 .. K : chain[i] = entry(i)
  BY DEF NewHashes
<1>3. HashesOf(q) = HashesOf(log)
  <2>1. ViewOf(ToSet(log), q) /\ ToSet(q) = ToSet(log)
    BY StoredIsView
  <2>2. HashesOf(q) = {f.hash : f \in ToSet(q)}
    BY <2>1, HashesAreOf DEF ViewOf, Canonical
  <2> QED
    BY <2>1, <2>2, StoredNamesItself
<1>4. chain \in Seq({chain[i] : i \in 1 .. K})
  <2>1. chain \in [1 .. K -> {chain[i] : i \in 1 .. K}]
    OBVIOUS
  <2> HIDE DEF chain
  <2> QED
    BY <1>2, <2>1
<1> HIDE DEF chain, q
<1>5. ASSUME NEW i \in 1 .. K
      PROVE  /\ Plain(chain[i]) /\ chain[i].hash = hashes[i] /\ hashes[i] \notin HashesOf(log)
             /\ chain[i].lineage \subseteq HashesOf(log)
             /\ \A j \in 1 .. K : hashes[i] = hashes[j] => i = j
             /\ i # 1 => ParentOf(chain[i]) = hashes[i - 1]
  <2>1. /\ chain[i].hash = hashes[i] /\ chain[i].verb = "CREATE_FILE" /\ chain[i].ref = ref(i)
        /\ chain[i].ts = new[i].ts /\ chain[i].event.kind = "CREATE_FILE"
        /\ chain[i].lineage = LineageAtPath(fs, new[i].path)
    BY <1>2
  <2>2. /\ hashes[i] \in Nat /\ hashes[i] \notin HashesOf(log) /\ new[i].ts \in Nat
        /\ \A j \in 1 .. K : hashes[i] = hashes[j] => i = j
    BY DEF NewHashes, Timed
  <2>3. Plain(chain[i])
    BY <2>1, <2>2 DEF Plain, FileVerbs
  <2>4. chain[i].lineage \subseteq HashesOf(log)
    BY <1>3, <2>1, LineageIsKnown DEF q
  <2>5. ASSUME i # 1 PROVE ParentOf(chain[i]) = hashes[i - 1]
    <3>1. chain[i].ref = hashes[i - 1]
      BY <2>1, <2>5
    <3>2. hashes[i - 1] \in Nat
      <4>1. i - 1 \in 1 .. K
        BY <1>2, <2>5
      <4> QED
        BY <4>1 DEF NewHashes
    <3>3. chain[i].ref # OwnContent
      BY <3>1, <3>2, MarksNotNumbers
    <3> QED
      BY <2>1, <3>1, <3>3
         DEF ParentOf, IsPayloadDeclaredContentRef, ObservedLogHeadRef, IsFileEventEntry, FileVerbs
  <2> QED
    BY <2>1, <2>2, <2>3, <2>4, <2>5
<1>6. ASSUME 1 <= K PROVE chain[1].ref = FirstRef(chain[1].verb, q)
  <2>1. 1 \in 1 .. K
    BY <1>2, <1>6
  <2>2. chain[1].verb = "CREATE_FILE" /\ chain[1].ref = ref(1)
    BY <1>2, <2>1
  <2> QED
    BY <2>2
<1>7. Chain(log, hashes, chain)
  BY <1>2, <1>4, <1>5, <1>6 DEF Chain, q
<1> QED
  BY <1>1, <1>2, <1>7 DEF q

\* Written up to the n-th, with nobody told.
LEMMA ChainUnannounced ==
  ASSUME SInv, NEW hashes, NEW chain, Chain(stored, hashes, chain), NEW n \in 0 .. Len(chain),
         stored' = stored \o SubSeq(chain, 1, n),
         unannounced' = unannounced \cup {hashes[i] : i \in 1 .. n},
         UNCHANGED <<projected, replayTail, dirty>>
  PROVE  SInv'
<1> DEFINE H == {hashes[i] : i \in 1 .. n}
<1>1. StoredLog(stored') /\ ToSet(stored') = ToSet(stored) \cup {chain[i] : i \in 1 .. n}
  <2>1. Chained(stored, chain, n)
    BY ChainIsStored DEF SInv
  <2> QED
    BY <2>1 DEF Chained
<1>2. \A i \in 1 .. n : chain[i].hash = hashes[i]
  <2>1. Len(chain) \in Nat /\ \A i \in 1 .. Len(chain) : chain[i].hash = hashes[i]
    BY DEF Chain
  <2>2. 1 .. n \subseteq 1 .. Len(chain)
    BY <2>1
  <2> QED
    BY <2>1, <2>2
<1>3. \A e \in ToSet(stored') \ ToSet(stored) : e.hash \in H
  BY <1>1, <1>2
<1>4. H \subseteq HashesOf(stored')
  <2>1. HashesOf(stored') = {e.hash : e \in ToSet(stored')}
    BY <1>1, StoredNamesItself
  <2> QED
    BY <1>1, <1>2, <2>1
<1> HIDE DEF H
<1>5. unannounced' = unannounced \cup H /\ ToSet(stored) \subseteq ToSet(stored')
  BY <1>1 DEF H
<1> QED
  BY <1>1, <1>3, <1>4, <1>5, UnannouncedKeepsInv

\* All of it, with the service marked stale.
LEMMA ChainMarked ==
  ASSUME SInv, NEW hashes, NEW chain, Chain(stored, hashes, chain),
         stored' = stored \o chain, dirty' = TRUE, replayTail' = NoTail,
         UNCHANGED <<projected, unannounced>>
  PROVE  SInv'
<1> DEFINE K == Len(chain)
<1>1. K \in Nat /\ K \in 0 .. K /\ SubSeq(chain, 1, K) = chain
  BY FrontGrows DEF Chain
<1>2. Chained(stored, chain, K)
  BY <1>1, ChainIsStored DEF SInv
<1>3. StoredLog(stored') /\ ToSet(stored) \subseteq ToSet(stored')
  BY <1>1, <1>2 DEF Chained
<1>4. HashesOf(stored) \subseteq HashesOf(stored')
  <2>1. /\ HashesOf(stored) = {e.hash : e \in ToSet(stored)}
        /\ HashesOf(stored') = {e.hash : e \in ToSet(stored')}
    BY <1>3, StoredNamesItself DEF SInv
  <2> QED
    BY <1>3, <2>1
<1>5. IsContext(stored', projected')
  BY <1>3, ContextOfMore DEF SInv
<1> QED
  BY <1>3, <1>4, <1>5 DEF SInv

-----------------------------------------------------------------------------
(* Times of imports and exports *)

LEMMA LaterIsTime ==
  ASSUME NEW a \in Nat, NEW b \in Nat
  PROVE  Max({a, b}) \in Nat /\ a <= Max({a, b}) /\ b <= Max({a, b})
<1>1. {a, b} \in SUBSET (0 .. a + b) /\ {a, b} # {} /\ a + b \in Nat
  OBVIOUS
<1> QED
  BY <1>1, NatLast

\* The log as imports and exports read it.
LEMMA LoadIsOrder ==
  ASSUME SInv
  PROVE  /\ LoadEventLog = OrderFileKeys(stored)
         /\ LoadEventLog \in Seq(ToSet(stored))
         /\ \A e \in ToSet(stored) : Plain(e)
         /\ Refers(Materialize(LoadEventLog), HashesOf(LoadEventLog))
         /\ \A now \in Nat : TimeAfter(now, LoadEventLog) \in Nat \ {0}
<1>1. /\ StoredLog(stored) /\ LoadEventLog = OrderFileKeys(stored)
      /\ ViewOf(ToSet(stored), LoadEventLog)
  BY StoredIsView DEF SInv, LoadEventLog
<1>2. LoadEventLog \in Seq(ToSet(stored)) /\ \A e \in ToSet(stored) : Plain(e)
  BY <1>1, LogOfMore, LogIsSeq DEF ViewOf, Canonical, StoredLog
<1>3. ASSUME NEW now \in Nat PROVE TimeAfter(now, LoadEventLog) \in Nat \ {0}
  <2> DEFINE latest == LatestTime(LoadEventLog)
  <2>1. latest \in Nat
    BY <1>2, LatestIsTime DEF Plain
  <2> HIDE DEF latest
  <2>2. Max({now, latest + 1}) \in Nat /\ latest + 1 <= Max({now, latest + 1})
    BY <2>1, LaterIsTime
  <2>3. TimeAfter(now, LoadEventLog) = Max({now, latest + 1})
    BY DEF TimeAfter, latest
  <2> QED
    BY <2>1, <2>2, <2>3
<1> QED
  BY <1>1, <1>2, <1>3, MaterializeRefers

\* A file was created when the event its content comes from was written.
LEMMA StoredFilesTimes ==
  ASSUME NEW E, NEW entries \in Seq(E), \A e \in E : e.ts \in Nat, NEW fs
  PROVE  LET files == StoredFiles(entries, fs)
         IN  \A p \in DOMAIN files :
               files[p].createdAt \in Nat /\ files[p].createdAt <= LatestTime(entries)
<1> DEFINE files == StoredFiles(entries, fs)
           place(p) == CHOOSE i \in DOMAIN entries : entries[i].hash = fs.fileOrigins[p]
<1>1. /\ LatestTime(entries) \in Nat
      /\ \A i \in DOMAIN entries : entries[i].ts \in Nat /\ entries[i].ts <= LatestTime(entries)
  BY LatestIsTime
<1>2. ASSUME NEW p \in DOMAIN files
      PROVE  place(p) \in DOMAIN entries /\ files[p].createdAt = entries[place(p)].ts
  <2>1. fs.fileOrigins[p] \in HashesOf(entries)
    BY DEF StoredFiles
  <2>2. place(p) \in DOMAIN entries
    BY <2>1 DEF HashesOf
  <2> QED
    BY <2>2 DEF StoredFiles
<1> HIDE DEF files, place
<1>3. \A p \in DOMAIN files :
        files[p].createdAt \in Nat /\ files[p].createdAt <= LatestTime(entries)
  BY <1>1, <1>2
<1> QED
  BY <1>3 DEF files

\* The legacy files of an export are written anew at times of their own.
LEMMA UpgradedIsTimed ==
  ASSUME SInv, NEW paths \in PathLists, NEW now \in Nat, NEW hashes
  PROVE  LET entries == LoadEventLog
             files   == StoredFiles(entries, Materialize(entries))
             legacy  == ToUpgrade(DedupeOrderedFilenames(paths), files)
         IN  /\ Len(legacy) \in Nat
             /\ Timed(Upgraded(legacy, files, now, hashes), Len(legacy))
<1> DEFINE entries == LoadEventLog
           files == StoredFiles(entries, Materialize(entries))
           legacy == ToUpgrade(DedupeOrderedFilenames(paths), files)
           times == {now} \cup {files[p].createdAt + 1 : p \in DOMAIN files}
           latest == LatestTime(entries)
           new == Upgraded(legacy, files, now, hashes)
<1>1. legacy \in Seq(Paths)
  <2>1. paths \in Seq(Paths)
    BY PathListsArePaths
  <2>2. DedupeOrderedFilenames(paths) \in Seq(Paths)
    BY <2>1, PickedIsPart DEF DedupeOrderedFilenames, PickedSoFar
  <2> QED
    BY <2>2, PickedIsPart DEF ToUpgrade, PickedSoFar
<1>2. entries \in Seq(ToSet(stored)) /\ \A e \in ToSet(stored) : e.ts \in Nat
  BY LoadIsOrder DEF Plain
<1>3. latest \in Nat
  BY <1>2, LatestIsTime
<1>4. \A p \in DOMAIN files : files[p].createdAt \in Nat /\ files[p].createdAt <= latest
  BY <1>2, StoredFilesTimes
<1> HIDE DEF legacy, files, latest
<1>5. times \in SUBSET (0 .. now + latest + 1) /\ times # {} /\ now + latest + 1 \in Nat
  BY <1>3, <1>4
<1>6. Max(times) \in Nat
  <2> DEFINE N == now + latest + 1
  <2>1. N \in Nat /\ times \in SUBSET (0 .. N) /\ times # {}
    BY <1>5
  <2> HIDE DEF times, N
  <2>2. Max(times) \in times /\ times \subseteq 0 .. N
    BY <2>1, NatLast
  <2>3. Max(times) \in 0 .. N
    BY <2>2, Zenon
  <2> QED
    BY <2>1, <2>3
<1>7. Len(legacy) \in Nat /\ DOMAIN legacy = 1 .. Len(legacy)
  BY <1>1
<1>8. DOMAIN new = DOMAIN legacy /\ \A n \in DOMAIN legacy : new[n].ts = Max(times) + n - 1
  BY DEF Upgraded
<1> HIDE DEF new, times
<1>9. Timed(new, Len(legacy))
  BY <1>6, <1>7, <1>8 DEF Timed
<1> QED
  BY <1>7, <1>9 DEF new, legacy, files, times

\* When the items of a bundle are created.
LEMMA ImportTimes ==
  ASSUME NEW items, NEW n \in Nat, \A i \in 1 .. n : items[i].createdAt \in Nat,
         NEW earliest \in Nat \ {0}
  PROVE  ResolveImportedCreatedAt(items, earliest, n) \in Nat
<1> DEFINE X == Nat
           x0 == earliest - 1
           one(i, x) == Max({items[i].createdAt, x + 1})
           next == [i \in 1 .. n |-> [x \in X |-> one(i, x)]]
           Solution(g) == g = [i \in 0 .. n |-> IF i = 0 THEN x0 ELSE one(i, g[i - 1])]
           u == CHOOSE g : Solution(g)
           S == {k \in Nat : k <= n => u[k] \in X}
<1>1. x0 \in X /\ \A i \in 1 .. n, x \in X : one(i, x) \in X
  <2>1. ASSUME NEW i \in 1 .. n, NEW x \in Nat PROVE one(i, x) \in Nat
    <3>1. items[i].createdAt \in Nat /\ x + 1 \in Nat
      OBVIOUS
    <3> QED
      BY <3>1, LaterIsTime
  <2> QED
    BY <2>1
<1>2. PICK f \in [0 .. n -> X] : f[0] = x0 /\ \A i \in 1 .. n : f[i] = next[i][f[i - 1]]
  <2> HIDE DEF X, x0, one
  <2>1. next \in [1 .. n -> [X -> X]]
    BY <1>1
  <2> HIDE DEF next
  <2>2. Doable(X, x0, n, next)
    BY <1>1, <2>1 DEF Doable
  <2> QED
    BY ONLY <2>2, Recursion
<1> HIDE DEF one, x0
<1>3. Solution(f)
  <2>1. ASSUME NEW i \in 0 .. n PROVE f[i] = IF i = 0 THEN x0 ELSE one(i, f[i - 1])
    <3>1. CASE i = 0
      BY <1>2, <3>1
    <3>2. CASE i # 0
      <4>1. i \in 1 .. n /\ i - 1 \in 0 .. n
        BY <3>2
      <4>2. f[i - 1] \in X /\ f[i] = next[i][f[i - 1]]
        BY <1>2, <4>1
      <4>3. next[i][f[i - 1]] = one(i, f[i - 1])
        BY <4>1, <4>2
      <4> QED
        BY <3>2, <4>2, <4>3
    <3> QED
      BY <3>1, <3>2
  <2> QED
    BY <2>1
<1>4. Solution(u)
  <2> HIDE DEF Solution
  <2> QED
    BY <1>3
<1>5. ResolveImportedCreatedAt(items, earliest, n) = u[n]
  BY DEF ResolveImportedCreatedAt, x0, one
<1> HIDE DEF u
<1>6. u[0] = x0 /\ \A i \in 1 .. n : u[i] = one(i, u[i - 1])
  <2>1. u[0] = x0
    BY <1>4
  <2>2. ASSUME NEW i \in 1 .. n PROVE u[i] = one(i, u[i - 1])
    <3>1. i \in 0 .. n /\ i # 0
      OBVIOUS
    <3> QED
      BY <1>4, <3>1
  <2> QED
    BY <2>1, <2>2
<1>7. 0 \in S
  BY <1>1, <1>6
<1>8. ASSUME NEW k \in S PROVE k + 1 \in S
  <2> SUFFICES ASSUME k + 1 <= n PROVE u[k + 1] \in X
    OBVIOUS
  <2>1. k \in Nat /\ k + 1 \in 1 .. n /\ (k + 1) - 1 = k /\ u[k] \in X
    OBVIOUS
  <2> HIDE DEF X, S
  <2> QED
    BY <1>1, <1>6, <2>1
<1> HIDE DEF S
<1>9. S = Nat
  BY <1>7, <1>8, NatsByStep DEF S
<1>10. n \in S
  BY <1>9
<1> QED
  BY <1>5, <1>10 DEF S

-----------------------------------------------------------------------------
(* Imports and exports *)

\* The parts of a bundle: items with a name and a time.
IsItem(item) ==
  /\ item.name \in Paths /\ item.createdAt \in Nat
  /\ item = [name |-> item.name, createdAt |-> item.createdAt, id |-> item.id,
             blob |-> item.blob, key |-> item.key]

IsBundle(bundle) ==
  /\ Len(bundle.items) \in Nat /\ DOMAIN bundle.items = 1 .. Len(bundle.items)
  /\ \A n \in DOMAIN bundle.items : IsItem(bundle.items[n])

\* The lists of paths a bundle is made of are such.
LEMMA ListsArePaths ==
  ASSUME NEW files, NEW paths \in ExportableLists(files)
  PROVE  paths \in Seq(Paths) /\ \A n \in DOMAIN paths : paths[n] \in DOMAIN files
<1>1. PICK list \in PathLists : paths = DedupeOrderedFilenames(list)
  BY DEF ExportableLists
<1>2. list \in Seq(Paths)
  BY PathListsArePaths
<1>3. paths \in Seq(Paths)
  BY <1>1, <1>2, PickedIsPart DEF DedupeOrderedFilenames, PickedSoFar
<1> QED
  BY <1>3 DEF ExportableLists

\* A bundle of some files, whatever its ids and keys.
MadeOf(bundle, paths, files, ids, keys) ==
  bundle.items = [n \in DOMAIN paths |->
                    [name |-> paths[n], createdAt |-> files[paths[n]].createdAt,
                     id |-> ids[n], blob |-> files[paths[n]].blob, key |-> keys[n]]]

LEMMA OwnAreBundles ==
  ASSUME SInv
  PROVE  \A bundle \in OwnBundles : IsBundle(bundle)
<1> DEFINE entries == LoadEventLog
           files == StoredFiles(entries, Materialize(entries))
<1>1. \A p \in DOMAIN files : files[p].createdAt \in Nat
  <2>1. entries \in Seq(ToSet(stored)) /\ \A e \in ToSet(stored) : e.ts \in Nat
    BY LoadIsOrder DEF Plain
  <2> QED
    BY <2>1, StoredFilesTimes
<1> HIDE DEF files
<1>2. ASSUME NEW paths \in ExportableLists(files), NEW bundle, NEW ids, NEW keys,
             MadeOf(bundle, paths, files, ids, keys)
      PROVE  IsBundle(bundle)
  <2> DEFINE items == bundle.items
  <2>1. paths \in Seq(Paths) /\ \A n \in DOMAIN paths : paths[n] \in DOMAIN files
    BY ListsArePaths
  <2>2. DOMAIN paths = 1 .. Len(paths) /\ Len(paths) \in Nat /\ Len(items) = Len(paths)
        /\ DOMAIN items = DOMAIN paths
    BY <1>2, <2>1 DEF MadeOf
  <2>3. ASSUME NEW n \in DOMAIN paths PROVE IsItem(items[n])
    <3>1. paths[n] \in Paths /\ files[paths[n]].createdAt \in Nat
      BY <1>1, <2>1
    <3>2. items[n] = [name |-> paths[n], createdAt |-> files[paths[n]].createdAt,
                      id |-> ids[n], blob |-> files[paths[n]].blob, key |-> keys[n]]
      BY <1>2 DEF MadeOf
    <3> HIDE DEF items
    <3> QED
      BY <3>1, <3>2 DEF IsItem
  <2> QED
    BY <2>2, <2>3 DEF IsBundle
<1>3. ASSUME NEW paths \in ExportableLists(files) PROVE IsBundle(SourceBundle(paths, files))
  <2> DEFINE ids == [n \in DOMAIN paths |-> OwnId]
             keys == [n \in DOMAIN paths |-> files[paths[n]].wrapped]
  <2>1. MadeOf(SourceBundle(paths, files), paths, files, ids, keys)
    BY DEF SourceBundle, MadeOf
  <2> HIDE DEF ids, keys
  <2> QED
    BY <1>2, <2>1
<1>4. ASSUME NEW paths \in ExportableLists(files)
      PROVE  IsBundle(RecipientBundle(paths, files, OwnId))
  <2> DEFINE capsule(n) == CreateRecipientKeyCapsule(
                             UnwrapFileKeyForVolume(Volume, files[paths[n]].wrapped),
                             OwnId, files[paths[n]].blob)
             ids == [n \in DOMAIN paths |-> capsule(n).r]
             keys == [n \in DOMAIN paths |-> capsule(n).w]
  <2>1. MadeOf(RecipientBundle(paths, files, OwnId), paths, files, ids, keys)
    BY DEF RecipientBundle, MadeOf
  <2> HIDE DEF ids, keys
  <2> QED
    BY <1>2, <2>1
<1> QED
  BY <1>3, <1>4 DEF OwnBundles, files

\* What the parsers let in has the names and the times of what they were given.
LEMMA ParsedIsBundle ==
  ASSUME SInv, NEW given \in ForeignBundles \cup OwnBundles,
         ParseReferenceBundle(given) # Failed
  PROVE  IsBundle(ParseReferenceBundle(given))
<1> DEFINE items == [n \in DOMAIN given.items |-> ParseReferenceItem(given.items[n])]
           parsed == ParseReferenceBundle(given)
<1>1. IsBundle(given)
  <2>1. CASE given \in OwnBundles
    BY <2>1, OwnAreBundles
  <2>2. CASE given \in ForeignBundles
    <3>1. /\ given.items \in Seq(ToSet(given.items))
          /\ \A item \in ToSet(given.items) :
               item \in [name : Paths, createdAt : Nat, id : {item.id}, blob : {item.blob},
                         key : {item.key}]
      BY <2>2, ForeignBundlesAreBundles
    <3>2. /\ DOMAIN given.items = 1 .. Len(given.items) /\ Len(given.items) \in Nat
          /\ \A n \in DOMAIN given.items : given.items[n] \in ToSet(given.items)
      BY <3>1
    <3>3. ASSUME NEW item \in ToSet(given.items) PROVE IsItem(item)
      BY <3>1 DEF IsItem
    <3> QED
      BY <3>2, <3>3 DEF IsBundle
  <2> QED
    BY <2>1, <2>2
<1>2. /\ parsed = [given EXCEPT !.id = LowerCase(given.id), !.items = items]
      /\ \A n \in DOMAIN items : items[n] # Failed
  BY DEF ParseReferenceBundle
<1>3. parsed.items = items
  <2>1. CASE given \in OwnBundles
    BY <1>2, <2>1 DEF OwnBundles, SourceBundle, RecipientBundle
  <2>2. CASE given \in ForeignBundles
    <3>1. given \in [protocol : {"source", "recipient"}, id : {given.id}, items : {given.items}]
      BY <2>2, ForeignBundlesAreBundles
    <3> HIDE DEF items
    <3> QED
      BY <1>2, <3>1
  <2> QED
    BY <2>1, <2>2
<1> HIDE DEF parsed
<1>4. ASSUME NEW n \in DOMAIN given.items PROVE IsItem(items[n])
  <2> DEFINE item == given.items[n]
  <2>1. IsItem(item)
    BY <1>1 DEF IsBundle
  <2>2. items[n] = [item EXCEPT !.id = LowerCase(@)]
    BY <1>2 DEF ParseReferenceItem
  <2> HIDE DEF item, items
  <2>3. items[n] = [name |-> item.name, createdAt |-> item.createdAt, id |-> LowerCase(item.id),
                    blob |-> item.blob, key |-> item.key]
    BY <2>1, <2>2 DEF IsItem
  <2> QED
    BY <2>1, <2>3 DEF IsItem
<1>5. /\ DOMAIN items = DOMAIN given.items /\ Len(items) = Len(given.items)
      /\ Len(given.items) \in Nat /\ DOMAIN given.items = 1 .. Len(given.items)
  BY <1>1 DEF IsBundle
<1> HIDE DEF items
<1> QED
  BY <1>3, <1>4, <1>5 DEF IsBundle, parsed

\* The entries an import writes.
LEMMA ImportedIsChain ==
  ASSUME SInv, NEW bundle, IsBundle(bundle), NEW now \in Nat, NEW hashes,
         NewHashes(stored, hashes, Len(bundle.items))
  PROVE  /\ Chain(stored, hashes, ImportedEntries(bundle, now, hashes))
         /\ Len(ImportedEntries(bundle, now, hashes)) = Len(bundle.items)
<1> DEFINE entries == LoadEventLog
           fs == Materialize(entries)
           names == ImportedNames(bundle.items, DOMAIN StoredFiles(entries, fs))
           earliest == TimeAfter(now, entries)
           new == [n \in DOMAIN bundle.items |->
                     [path |-> names[n], blob |-> bundle.items[n].blob,
                      wrapped |-> WrapFileKeyForVolume(Volume, ItemKey(bundle, bundle.items[n])),
                      ts |-> ResolveImportedCreatedAt(bundle.items, earliest, n)]]
           K == Len(bundle.items)
           order == OrderFileKeys(stored)
<1>1. entries = order /\ Refers(fs, HashesOf(entries)) /\ earliest \in Nat \ {0}
  BY LoadIsOrder
<1>2. Timed(new, K)
  <2>1. DOMAIN new = 1 .. K /\ K \in Nat
    BY DEF IsBundle
  <2>2. ASSUME NEW n \in 1 .. K PROVE new[n].ts \in Nat
    <3>1. n \in Nat /\ \A i \in 1 .. n : i \in DOMAIN bundle.items
      BY <2>1 DEF IsBundle
    <3>2. \A i \in 1 .. n : bundle.items[i].createdAt \in Nat
      BY <3>1 DEF IsBundle, IsItem
    <3> HIDE DEF earliest
    <3>3. ResolveImportedCreatedAt(bundle.items, earliest, n) \in Nat
      BY <1>1, <3>1, <3>2, ImportTimes
    <3>4. new[n].ts = ResolveImportedCreatedAt(bundle.items, earliest, n)
      BY <2>1
    <3> QED
      BY <3>3, <3>4
  <2> HIDE DEF new
  <2> QED
    BY <2>1, <2>2 DEF Timed
<1>3. ImportedEntries(bundle, now, hashes) = AppendCreateEvents(entries, fs, new, hashes, "service")
  BY DEF ImportedEntries
<1> HIDE DEF new, fs, entries, K
<1>4. LET chain == AppendCreateEvents(order, fs, new, hashes, "service")
      IN  Chain(stored, hashes, chain) /\ Len(chain) = K
  <2>1. StoredLog(stored) /\ Refers(fs, HashesOf(order)) /\ NewHashes(stored, hashes, K)
    BY <1>1 DEF SInv, K
  <2> QED
    BY ONLY <1>2, <2>1, CreatesAreChain
<1> QED
  BY <1>1, <1>3, <1>4 DEF K

\* The new hashes of an exchange.
LEMMA ExchangeHashes ==
  ASSUME NEW k \in 1 .. Room,
         NEW hashes \in {h \in [1 .. k -> FreshHashes] : IsInjective(h)}
  PROVE  k \in Nat /\ Len(hashes) = k /\ DOMAIN hashes = 1 .. k /\ NewHashes(stored, hashes, k)
<1>1. k \in Nat /\ DOMAIN hashes = 1 .. k /\ Len(hashes) = k
  OBVIOUS
<1>2. \A i \in 1 .. k : hashes[i] \in FreshHashes
  OBVIOUS
<1>3. \A i, j \in 1 .. k : hashes[i] = hashes[j] => i = j
  BY <1>1 DEF IsInjective
<1> QED
  BY <1>1, <1>2, <1>3, FreshIsNew DEF NewHashes

\* The files an export gives keys of their own, and the entries it writes.
LegacyOf(list) ==
  ToUpgrade(DedupeOrderedFilenames(list), StoredFiles(LoadEventLog, Materialize(LoadEventLog)))

UpgradeEntries(list, now, hashes) ==
  LET files == StoredFiles(LoadEventLog, Materialize(LoadEventLog))
  IN  AppendCreateEvents(LoadEventLog, Materialize(LoadEventLog),
                         Upgraded(LegacyOf(list), files, now, hashes), hashes, "upgrade")

LEMMA UpgradeIsChain ==
  ASSUME SInv, NEW list \in PathLists, NEW now \in Nat, NEW k,
         NEW hashes, NewHashes(stored, hashes, k), Len(hashes) = k,
         NEW n \in DOMAIN hashes, UpgradeLegacyFilesForExport(list, now, hashes, n)
  PROVE  /\ stored' = stored \o SubSeq(UpgradeEntries(list, now, hashes), 1, n)
         /\ unannounced' = unannounced \cup {hashes[i] : i \in 1 .. n}
         /\ UNCHANGED <<projected, replayTail, dirty>>
         /\ Chain(stored, hashes, UpgradeEntries(list, now, hashes))
         /\ Len(UpgradeEntries(list, now, hashes)) = k /\ Len(LegacyOf(list)) = k
         /\ n \in 1 .. k /\ k \in Nat
<1> DEFINE entries == LoadEventLog
           fs == Materialize(entries)
           files == StoredFiles(entries, fs)
           legacy == LegacyOf(list)
           new == Upgraded(legacy, files, now, hashes)
           chain == AppendCreateEvents(entries, fs, new, hashes, "upgrade")
           order == OrderFileKeys(stored)
<1>1. /\ Len(legacy) = k
      /\ stored' = stored \o SubSeq(chain, 1, n)
      /\ unannounced' = unannounced \cup {hashes[i] : i \in 1 .. n}
      /\ UNCHANGED <<projected, replayTail, dirty>>
  BY DEF UpgradeLegacyFilesForExport, LegacyOf
<1>2. Timed(new, Len(legacy))
  BY UpgradedIsTimed DEF LegacyOf
<1>3. entries = order /\ Refers(fs, HashesOf(entries)) /\ StoredLog(stored)
  BY LoadIsOrder DEF SInv
<1>4. NewHashes(stored, hashes, Len(legacy))
  BY <1>1
<1>5. chain = UpgradeEntries(list, now, hashes)
  BY DEF UpgradeEntries
<1> HIDE DEF new, fs, entries, legacy
<1>6. Refers(fs, HashesOf(order))
  BY <1>3
<1>7. LET made == AppendCreateEvents(order, fs, new, hashes, "upgrade")
      IN  Chain(stored, hashes, made) /\ Len(made) = Len(legacy)
  BY ONLY <1>2, <1>3, <1>4, <1>6, CreatesAreChain
<1>8. Chain(stored, hashes, chain) /\ Len(chain) = k
  BY <1>1, <1>3, <1>7
<1>9. n \in 1 .. k /\ k \in Nat
  BY DEF NewHashes
<1> HIDE DEF chain
<1> QED
  BY <1>1, <1>5, <1>8, <1>9 DEF legacy

LEMMA ExchangeKeepsInv ==
  ASSUME SInv, NEW now \in Times, NEW k \in 1 .. Room,
         NEW hashes \in {h \in [1 .. k -> FreshHashes] : IsInjective(h)}, Exchange(now, hashes)
  PROVE  SInv'
<1>1. /\ now \in Nat /\ k \in Nat /\ Len(hashes) = k /\ DOMAIN hashes = 1 .. k
      /\ NewHashes(stored, hashes, k)
  BY ExchangeHashes, TimesAreNumbers
<1>2. ASSUME NEW list \in PathLists, NEW n \in DOMAIN hashes,
             UpgradeLegacyFilesForExport(list, now, hashes, n)
      PROVE  SInv'
  <2> DEFINE chain == UpgradeEntries(list, now, hashes)
  <2>1. /\ stored' = stored \o SubSeq(chain, 1, n)
        /\ unannounced' = unannounced \cup {hashes[i] : i \in 1 .. n}
        /\ UNCHANGED <<projected, replayTail, dirty>>
        /\ Chain(stored, hashes, chain) /\ n \in 1 .. Len(chain)
    BY <1>1, <1>2, UpgradeIsChain
  <2> HIDE DEF chain
  <2>2. n \in 0 .. Len(chain)
    BY <2>1 DEF Chain
  <2> QED
    BY <2>1, <2>2, ChainUnannounced
<1>3. ASSUME NEW given \in ForeignBundles \cup OwnBundles, NEW bundle,
             bundle = ParseReferenceBundle(given), bundle # Failed,
             Len(hashes) = Len(bundle.items)
      PROVE  /\ ImportReferences(bundle, now, hashes) => SInv'
             /\ \A n \in DOMAIN hashes : ImportFails(bundle, now, hashes, n) => SInv'
  <2> DEFINE chain == ImportedEntries(bundle, now, hashes)
  <2>1. IsBundle(bundle)
    BY <1>3, ParsedIsBundle
  <2>2. NewHashes(stored, hashes, Len(bundle.items))
    BY <1>1, <1>3
  <2>3. Chain(stored, hashes, chain) /\ Len(chain) = Len(bundle.items)
    BY <1>1, <2>1, <2>2, ImportedIsChain
  <2>4. ASSUME ImportReferences(bundle, now, hashes) PROVE SInv'
    <3>1. /\ stored' = stored \o chain /\ dirty' = TRUE /\ replayTail' = NoTail
          /\ UNCHANGED <<projected, unannounced>>
      BY <2>4 DEF ImportReferences
    <3> HIDE DEF chain
    <3> QED
      BY <2>3, <3>1, ChainMarked
  <2>5. ASSUME NEW n \in DOMAIN hashes, ImportFails(bundle, now, hashes, n) PROVE SInv'
    <3>1. /\ stored' = stored \o SubSeq(chain, 1, n)
          /\ unannounced' = unannounced \cup {hashes[i] : i \in 1 .. n}
          /\ UNCHANGED <<projected, replayTail, dirty>>
      BY <2>5 DEF ImportFails
    <3> HIDE DEF chain
    <3>2. n \in 0 .. Len(chain)
      BY <1>1, <1>3, <2>3
    <3> QED
      BY <2>3, <3>1, <3>2, ChainUnannounced
  <2> QED
    BY <2>4, <2>5
<1> QED
  BY <1>2, <1>3 DEF Exchange

-----------------------------------------------------------------------------
(* Theorems *)

LEMMA ReferencesKeepInv == SInv /\ [ReferencesNext]_vars => SInv'
<1> SUFFICES ASSUME SInv, [ReferencesNext]_vars PROVE SInv'
  OBVIOUS
<1>1. ASSUME [Next]_vars PROVE SInv'
  BY <1>1, NextKeepsInv
<1>2. ASSUME NEW now \in Times, NEW k \in 1 .. Room,
             NEW hashes \in {h \in [1 .. k -> FreshHashes] : IsInjective(h)}, Exchange(now, hashes)
      PROVE  SInv'
  BY <1>2, ExchangeKeepsInv
<1> QED
  BY <1>1, <1>2 DEF ReferencesNext

\* What the invariant says holds as long as the service runs, for all logs,
\* paths, clocks and bounds.
THEOREM ServiceInvariant == ReferencesSpec => []SInv
<1>1. Init => SInv
  BY InitHolds
<1>2. SInv /\ [ReferencesNext]_vars => SInv'
  BY ReferencesKeepInv
<1> QED
  BY <1>1, <1>2, PTL DEF ReferencesSpec

\* Contexts have events of the storage, each once, and a key for every file
\* whose content comes from one; the service never serves a tail when it has
\* marked itself stale.
THEOREM ServiceTypes == ReferencesSpec => []TypeOK
<1>1. SInv => TypeOK
  <2> SUFFICES ASSUME SInv PROVE TypeOK
    OBVIOUS
  <2>1. IsInjective(stored)
    BY DEF SInv, StoredLog, LogOf
  <2>2. ASSUME NEW ctx \in Contexts
        PROVE  /\ ToSet(ctx.entries) \subseteq ToSet(stored) /\ IsInjective(ctx.entries)
               /\ DOMAIN ctx.fs.fileOrigins \subseteq DOMAIN ctx.keys
    <3>1. IsContext(stored, ctx)
      BY DEF Contexts, SInv
    <3> QED
      BY <3>1, ContextNamesItself DEF IsContext, LogOf
  <2> QED
    BY <2>1, <2>2 DEF TypeOK, SInv
<1> QED
  BY <1>1, ServiceInvariant, PTL

\* An event that was written on a volume replays after those it superseded
\* there, in every context: what the service writes itself, what it is told of
\* and what it finds, whatever its clock and the other writers' were.
THEOREM SupersededFirst == ReferencesSpec => []SupersededReplaysFirst
<1>1. SInv => SupersededReplaysFirst
  <2> SUFFICES ASSUME SInv, NEW ctx \in Contexts, NEW e \in ToSet(ctx.entries),
                      NEW h \in e.lineage
               PROVE  Before(ctx.entries, h, e.hash)
    BY DEF SupersededReplaysFirst
  <2> DEFINE order == OrderFileKeys(stored)
  <2>1. IsContext(stored, ctx) /\ StoredLog(stored)
    BY DEF Contexts, SInv
  <2>2. /\ ViewOf(ToSet(stored), order) /\ ViewOf(ToSet(stored), ctx.entries)
        /\ Channel(ToSet(stored))
    BY <2>1, StoredIsView DEF IsContext, StoredLog
  <2>3. e \in ToSet(stored) /\ e.hash \in HashesOf(ctx.entries)
    BY <2>1, ContextNamesItself
  <2>4. h \in HashesOf(ctx.entries)
    BY <2>1 DEF IsContext
  <2>5. Before(order, h, e.hash)
    BY <2>1, <2>3 DEF StoredLog
  <2> HIDE DEF order
  <2> QED
    BY <2>2, <2>3, <2>4, <2>5, AgreeOnBefore
<1> QED
  BY <1>1, ServiceInvariant, PTL

=============================================================================
