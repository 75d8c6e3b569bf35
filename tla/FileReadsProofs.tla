--------------------------- MODULE FileReadsProofs ---------------------------
(***************************************************************************)
(* What a reader of a volume gets: that the volumes of the service's       *)
(* contexts are the replays of their logs, that files read as they were    *)
(* written, that bundles of files open to the same, and that exports and   *)
(* imports leave the files that are there.  The replays are sound, as in   *)
(* FileMaterializerProofs, when no live file is renamed onto a directory   *)
(* it is in.                                                               *)
(***************************************************************************)
EXTENDS VolumeServiceProofs

-----------------------------------------------------------------------------
(* What is assumed of names and marks *)

\* A copy has a name of its own, whatever its number.
CopiesAreNames ==
  \A name \in Names : \A n \in Nat \ {0} :
    /\ CopyName(name, n) \in Names \ {name}
    /\ \A m \in Nat \ {0} : CopyName(name, m) = CopyName(name, n) => m = n

\* What marks the absence of a key, a content or a result is no ciphertext.
MarksAreNoSeals ==
  \A key, content : Seal(key, content) \notin {NoKey, Failed, NoBlob}

\* A bundle or an item is no failure.
RecordsAreNoFailures ==
  /\ \A protocol, id, items :
       [protocol |-> protocol, id |-> id, items |-> items] # Failed
  /\ \A name, createdAt, id, blob, key :
       [name |-> name, createdAt |-> createdAt, id |-> id, blob |-> blob, key |-> key] # Failed

-----------------------------------------------------------------------------
(* Replays are sound *)

\* The event is about paths.
Readable(e) ==
  /\ e.event.path \in Paths
  /\ e.event.kind = "RENAME" => e.event.to \in Paths

\* A log of such events, each with a hash of its own.
Legible(s) ==
  /\ s \in Seq(ToSet(s))
  /\ \A i \in 1 .. Len(s) : Plain(s[i]) /\ Readable(s[i])
  /\ \A i, j \in 1 .. Len(s) : s[i].hash = s[j].hash => i = j

\* Renaming a live file onto a directory it is in.
OntoAncestor(vol, event) ==
  /\ event.kind = "RENAME"
  /\ event.path \in DOMAIN vol.files
  /\ IsStrictDescendant(event.path, event.to)

\* A log that never does it.
Clean(s) ==
  \A n \in 1 .. Len(s) : ~OntoAncestor(Materialize(SubSeq(s, 1, n - 1)), s[n].event)

\* The contents a log writes, each with the event that writes it.
WrittenIn(s) ==
  {<<s[i].hash, s[i].event.blob>> : i \in {i \in 1 .. Len(s) : s[i].event.kind = "CREATE_FILE"}}

\* One event of a log, on a sound volume.
LEMMA ApplyEntrySound ==
  ASSUME NEW vol, NEW written, Sound(vol, written), NEW e, Plain(e), Readable(e),
         \A w \in written : w[1] # e.hash, ~OntoAncestor(vol, e.event)
  PROVE  Sound(Apply(vol, e.hash, e.event),
               written \cup (IF e.event.kind = "CREATE_FILE" THEN {<<e.hash, e.event.blob>>}
                             ELSE {}))
<1> DEFINE path == e.event.path
           more == written \cup (IF e.event.kind = "CREATE_FILE" THEN {<<e.hash, e.event.blob>>}
                                 ELSE {})
<1> SUFFICES Sound(Apply(vol, e.hash, e.event), more)
  OBVIOUS
<1>1. path \in Paths /\ e.event.kind \in FileVerbs
  BY DEF Plain, Readable
<1>2. CASE e.event.kind = "CREATE_FILE"
  <2>1. Apply(vol, e.hash, e.event) = ApplyCreateFile(vol, e.hash, path, e.event.blob)
    BY <1>2 DEF Apply
  <2>2. more = written \cup {<<e.hash, e.event.blob>>}
    BY <1>2
  <2>3. Sound(ApplyCreateFile(vol, e.hash, path, e.event.blob),
              written \cup {<<e.hash, e.event.blob>>})
    <3> DEFINE id == e.hash
               blob == e.event.blob
    <3>1. \A w \in written : w[1] # id
      OBVIOUS
    <3> HIDE DEF id, blob, path, more
    <3> QED
      BY <1>1, <3>1, CreateFileSound DEF id, blob
  <2> HIDE DEF more
  <2> QED
    BY <2>1, <2>2, <2>3
<1>3. CASE e.event.kind = "MKDIR"
  <2>1. Apply(vol, e.hash, e.event) = ApplyMkdir(vol, e.hash, path)
    BY <1>3 DEF Apply
  <2>2. more = written
    BY <1>3
  <2> HIDE DEF more
  <2> QED
    BY <1>1, <2>1, <2>2, MkdirSound
<1>4. CASE e.event.kind = "DELETE"
  <2>1. Apply(vol, e.hash, e.event) = ApplyDelete(vol, e.hash, path)
    BY <1>4 DEF Apply
  <2>2. more = written
    BY <1>4
  <2> HIDE DEF more
  <2> QED
    BY <1>1, <2>1, <2>2, DeleteSound
<1>5. CASE e.event.kind = "RENAME"
  <2>1. Apply(vol, e.hash, e.event) = ApplyRename(vol, e.hash, path, e.event.to)
    BY <1>5 DEF Apply
  <2>2. more = written
    BY <1>5
  <2>3. e.event.to \in Paths /\ (path \in DOMAIN vol.files => ~IsStrictDescendant(path, e.event.to))
    BY <1>5 DEF Readable, OntoAncestor
  <2> HIDE DEF more
  <2> QED
    BY <1>1, <2>1, <2>2, <2>3, RenameSound
<1> QED
  BY <1>1, <1>2, <1>3, <1>4, <1>5 DEF FileVerbs

\* What a log writes, and whether it is clean, event by event.
LEMMA NothingIsLegible ==
  /\ Legible(<<>>) /\ Clean(<<>>) /\ WrittenIn(<<>>) = {}
<1>1. Len(<<>>) = 0 /\ <<>> \in Seq(ToSet(<<>>))
  BY NothingIsLog
<1> QED
  BY <1>1 DEF Legible, Clean, WrittenIn

LEMMA LegibleFront ==
  ASSUME NEW s, Legible(s), NEW n \in 0 .. Len(s)
  PROVE  /\ Legible(SubSeq(s, 1, n)) /\ Len(SubSeq(s, 1, n)) = n
         /\ Clean(s) => Clean(SubSeq(s, 1, n))
<1> DEFINE f == SubSeq(s, 1, n)
<1>1. s \in Seq(ToSet(s)) /\ Len(s) \in Nat /\ n \in Nat /\ n <= Len(s)
  BY DEF Legible
<1>2. Len(f) = n /\ DOMAIN f = 1 .. n /\ \A i \in 1 .. n : i \in 1 .. Len(s) /\ f[i] = s[i]
  BY <1>1
<1>3. f \in Seq(ToSet(f))
  <2>1. \A i \in 1 .. n : f[i] \in ToSet(f)
    BY <1>2 DEF ToSet
  <2>2. f = [i \in 1 .. n |-> f[i]]
    BY <1>1, <1>2
  <2> HIDE DEF f
  <2>3. f \in [1 .. n -> ToSet(f)]
    BY <2>1, <2>2
  <2> QED
    BY <1>1, <2>3
<1>4. \A m \in 1 .. n : SubSeq(f, 1, m - 1) = SubSeq(s, 1, m - 1)
  <2> SUFFICES ASSUME NEW m \in 1 .. n PROVE SubSeq(f, 1, m - 1) = SubSeq(s, 1, m - 1)
    OBVIOUS
  <2> DEFINE E == ToSet(s)
             p == SubSeq(f, 1, m - 1)
             q == SubSeq(s, 1, m - 1)
  <2> HIDE DEF E
  <2>1. m - 1 \in 0 .. n /\ m - 1 \in 0 .. Len(s)
    BY <1>1
  <2>2. f \in Seq(E) /\ s \in Seq(E)
    BY <1>1, FrontGrows DEF E
  <2> HIDE DEF f
  <2>3. p \in Seq(E) /\ Len(p) = m - 1 /\ \A i \in 1 .. m - 1 : p[i] = f[i]
    BY <1>2, <2>1, <2>2
  <2>4. q \in Seq(E) /\ Len(q) = m - 1 /\ \A i \in 1 .. m - 1 : q[i] = s[i]
    BY <2>1, <2>2
  <2> HIDE DEF p, q
  <2>5. \A i \in 1 .. m - 1 : p[i] = q[i]
    BY <1>2, <2>3, <2>4
  <2>6. p = q
    BY <2>3, <2>4, <2>5
  <2> QED
    BY <2>6 DEF p, q
<1>5. Legible(f)
  <2> HIDE DEF f
  <2> QED
    BY <1>2, <1>3 DEF Legible
<1>6. Clean(s) => Clean(f)
  <2> HIDE DEF f
  <2> QED
    BY <1>2, <1>4 DEF Clean
<1> QED
  BY <1>2, <1>5, <1>6

LEMMA WrittenGrows ==
  ASSUME NEW E, NEW s \in Seq(E), NEW e
  PROVE  WrittenIn(Append(s, e))
           = WrittenIn(s) \cup (IF e.event.kind = "CREATE_FILE" THEN {<<e.hash, e.event.blob>>}
                                ELSE {})
<1> DEFINE t == Append(s, e)
           n == Len(s) + 1
           pair(q, i) == <<q[i].hash, q[i].event.blob>>
<1>1. /\ Len(s) \in Nat /\ Len(t) = n /\ t[n] = e
      /\ \A i \in 1 .. Len(s) : t[i] = s[i] /\ i \in 1 .. n
  OBVIOUS
<1>2. 1 .. n = (1 .. Len(s)) \cup {n}
  BY <1>1
<1> HIDE DEF t, n
<1>3. \A w : w \in WrittenIn(t)
               <=> \E i \in 1 .. n : t[i].event.kind = "CREATE_FILE" /\ w = pair(t, i)
  BY <1>1 DEF WrittenIn
<1>4. \A w : w \in WrittenIn(s)
               <=> \E i \in 1 .. Len(s) : s[i].event.kind = "CREATE_FILE" /\ w = pair(s, i)
  BY DEF WrittenIn
<1>5. \A w : w \in WrittenIn(t)
               <=> w \in WrittenIn(s) \/ (e.event.kind = "CREATE_FILE" /\ w = <<e.hash, e.event.blob>>)
  <2> DEFINE is(q, i, w) == q[i].event.kind = "CREATE_FILE" /\ w = pair(q, i)
  <2>1. \A i \in 1 .. Len(s) : \A w : is(t, i, w) <=> is(s, i, w)
    BY <1>1
  <2>2. \A w : is(t, n, w) <=> e.event.kind = "CREATE_FILE" /\ w = <<e.hash, e.event.blob>>
    BY <1>1
  <2>3. \A w : (\E i \in 1 .. n : is(t, i, w)) <=> is(t, n, w) \/ \E i \in 1 .. Len(s) : is(t, i, w)
    BY ONLY <1>2
  <2>4. /\ \A w : w \in WrittenIn(t) <=> \E i \in 1 .. n : is(t, i, w)
        /\ \A w : w \in WrittenIn(s) <=> \E i \in 1 .. Len(s) : is(s, i, w)
    BY <1>3, <1>4
  <2> HIDE DEF is
  <2> QED
    BY <2>1, <2>2, <2>3, <2>4
<1> QED
  BY <1>5 DEF t

\* The replay of a clean log is sound for what the log writes.
LEMMA ReplaySound ==
  ASSUME NEW s, Legible(s), Clean(s)
  PROVE  Sound(Materialize(s), WrittenIn(s))
<1> DEFINE f(n) == SubSeq(s, 1, n)
           S == {n \in Nat : n <= Len(s) => Sound(Materialize(f(n)), WrittenIn(f(n)))}
           E == ToSet(s)
<1> HIDE DEF E
<1>0. s \in Seq(E) /\ Len(s) \in Nat
  BY DEF Legible, E
<1>1. 0 \in S
  <2>1. f(0) = <<>>
    BY <1>0, FrontGrows
  <2>2. Sound(Materialize(<<>>), WrittenIn(<<>>))
    BY EmptySound, ReplayNothing DEF Materialize
  <2> QED
    BY <2>1, <2>2
<1>2. ASSUME NEW n \in S PROVE n + 1 \in S
  <2>1. CASE n + 1 <= Len(s)
    <3> DEFINE e == s[n + 1]
               g == f(n)
               vol == Materialize(g)
               written == WrittenIn(g)
    <3>1. n \in Nat /\ n <= Len(s) /\ n < Len(s) /\ n + 1 \in 1 .. Len(s) /\ (n + 1) - 1 = n
          /\ n \in 0 .. Len(s)
      BY <1>0, <2>1
    <3>2. f(n + 1) = Append(g, e) /\ g \in Seq(E) /\ Len(g) = n
      BY <1>0, <3>1, FrontGrows
    <3>3. Sound(vol, written)
      BY <3>1
    <3>4. Plain(e) /\ Readable(e) /\ ~OntoAncestor(vol, e.event)
      BY <3>1 DEF Legible, Clean
    <3>5. \A w \in written : w[1] # e.hash
      <4>1. \A i \in 1 .. n : g[i] = s[i] /\ i \in 1 .. Len(s) /\ i # n + 1
        BY <1>0, <3>1
      <4>2. \A i \in 1 .. n : g[i].hash # e.hash
        BY <3>1, <4>1 DEF Legible
      <4>3. ASSUME NEW w \in written PROVE w[1] # e.hash
        <5>1. PICK i \in 1 .. n : w = <<g[i].hash, g[i].event.blob>>
          BY <3>2 DEF WrittenIn
        <5> HIDE DEF g, e, f
        <5>2. w[1] = g[i].hash
          BY <5>1
        <5> QED
          BY <4>2, <5>2
      <4> QED
        BY <4>3
    <3> DEFINE new == IF e.event.kind = "CREATE_FILE" THEN {<<e.hash, e.event.blob>>} ELSE {}
    <3>6. Materialize(Append(g, e)) = Apply(vol, e.hash, e.event)
      <4>1. g \in Seq(E)
        BY <3>2
      <4> HIDE DEF g, e, f
      <4> QED
        BY ONLY <4>1, ReplayLast DEF Materialize, vol
    <3>7. WrittenIn(Append(g, e)) = written \cup new
      BY <3>2, WrittenGrows
    <3> HIDE DEF g, e, vol, written
    <3>8. Sound(Apply(vol, e.hash, e.event), written \cup new)
      BY <3>3, <3>4, <3>5, ApplyEntrySound
    <3> HIDE DEF new, f
    <3>9. Sound(Materialize(f(n + 1)), WrittenIn(f(n + 1)))
      BY <3>2, <3>6, <3>7, <3>8
    <3> QED
      BY <3>1, <3>9
  <2> QED
    BY <2>1
<1> HIDE DEF S
<1>3. S = Nat
  BY <1>1, <1>2, NatsByStep DEF S
<1>4. Len(s) \in S /\ f(Len(s)) = s
  BY <1>0, <1>3, FrontGrows
<1> HIDE DEF f
<1>5. Sound(Materialize(f(Len(s))), WrittenIn(f(Len(s))))
  BY <1>0, <1>4 DEF S
<1> QED
  BY <1>4, <1>5

\* What is resumed from the replay of a clean log goes on as if it had not
\* been cut.
LEMMA ResumedReplay ==
  ASSUME NEW s, Legible(s), Clean(s), NEW n \in 0 .. Len(s)
  PROVE  LET front == SubSeq(s, 1, n)
             tail == SubSeq(s, n + 1, Len(s))
         IN  /\ ResumeFrom(Materialize(front)) = Materialize(front)
             /\ MaterializeFrom(Materialize(front), tail) = Materialize(s)
<1> DEFINE front == SubSeq(s, 1, n)
           tail == SubSeq(s, n + 1, Len(s))
           E == ToSet(s)
<1>1. Legible(front) /\ Clean(front)
  BY LegibleFront
<1>2. ResumeFrom(Materialize(front)) = Materialize(front)
  BY <1>1, ReplaySound, ResumeIsIdentity
<1>3. s \in Seq(E)
  BY DEF Legible
<1> HIDE DEF E
<1>4. front \in Seq(E) /\ tail \in Seq(E) /\ front \o tail = s
  BY <1>3, FrontAndTail
<1> HIDE DEF front, tail
<1>5. \A f \in Seq(E), t \in Seq(E) :
        MaterializeFrom(EmptyVolume, f \o t)
          = MaterializeFrom(MaterializeFrom(EmptyVolume, f), t)
  <2> TAKE f \in Seq(E), t \in Seq(E)
  <2> QED
    BY ONLY f \in Seq(E), t \in Seq(E), ReplayThenReplay
<1>6. Materialize(front \o tail) = MaterializeFrom(Materialize(front), tail)
  BY <1>4, <1>5 DEF Materialize
<1> QED
  BY <1>2, <1>4, <1>6 DEF front, tail

-----------------------------------------------------------------------------
(* The volumes of contexts *)

ReadableLog(log) == \A e \in ToSet(log) : Readable(e)

\* When its log is clean, the volume of a context is the replay of its log.
Replayed(ctx) == Clean(ctx.entries) => ctx.fs = Materialize(ctx.entries)

LEMMA ViewIsLegible ==
  ASSUME NEW log, StoredLog(log), ReadableLog(log), NEW q, ViewOf(ToSet(log), q)
  PROVE  Legible(q)
<1>1. LogOf(ToSet(log), q)
  BY LogOfMore DEF ViewOf, Canonical
<1>2. /\ q \in Seq(ToSet(q)) /\ \A i, j \in 1 .. Len(q) : q[i] = q[j] => i = j
      /\ \A i \in 1 .. Len(q) : q[i] \in ToSet(log)
  BY <1>1, LogIsSeq
<1>3. \A i, j \in 1 .. Len(q) : q[i].hash = q[j].hash => i = j
  BY <1>2 DEF StoredLog, Channel
<1> QED
  BY <1>2, <1>3 DEF Legible, ReadableLog, StoredLog

LEMMA InitialReplayed == Replayed(InitialContext)
<1>1. InitialContext.entries = <<>> /\ InitialContext.fs = EmptyVolume
  BY DEF InitialContext, ContextOf
<1> QED
  BY <1>1, ReplayNothing DEF Replayed, Materialize

\* What is kept in front of the first entry that moved is right, and so is all.
LEMMA IngestReplayed ==
  ASSUME NEW log, StoredLog(log), ReadableLog(log), NEW ctx, IsContext(log, ctx), Replayed(ctx),
         NEW more, LogOf(ToSet(log), more),
         NamesItself(ToSet(ctx.entries) \cup ToSet(more))
  PROVE  Replayed(Ingest(ctx, more))
<1> DEFINE r == Reorder(ctx.entries, more)
           keys == r.keys
           at == r.insertAt
           kept == SubSeq(keys, 1, at)
           tail == SubSeq(keys, at + 1, Len(keys))
           base == IF kept = ctx.entries THEN ctx.fs ELSE Materialize(kept)
           front == IF kept = <<>> THEN EmptyVolume ELSE ResumeFrom(base)
           fs == MaterializeFrom(front, tail)
           E == ToSet(log)
<1>1. LogOf(E, ctx.entries) /\ Channel(E)
  BY ContextNamesItself DEF StoredLog
<1>2. at \in 0 .. Len(keys)
  BY <1>1, ReorderKeepsFront
<1>3. Ingest(ctx, more) = ContextOf(kept \o tail, fs)
  BY DEF Ingest, ReduceContext
<1>4. IsContext(log, Ingest(ctx, more))
  BY IngestIsContext DEF Ingested
<1>5. keys \in Seq(E)
  <2> DEFINE S == ToSet(ctx.entries) \cup ToSet(more)
  <2>1. Canonical(S, keys)
    BY <1>1, ReorderIsCanonical
  <2>2. S \subseteq E
    BY <1>1, LogIsSeq
  <2> HIDE DEF S, r, keys
  <2> QED
    BY <2>1, <2>2, LogOfMore, LogIsSeq DEF Canonical
<1> HIDE DEF r, keys, at, E
<1>6. kept \o tail = keys
  BY <1>2, <1>5, FrontAndTail
<1> HIDE DEF fs, kept, tail
<1>7. Ingest(ctx, more).entries = keys /\ Ingest(ctx, more).fs = fs
  BY <1>3, <1>6 DEF ContextOf
<1>8. Legible(keys)
  BY <1>4, <1>7, ViewIsLegible DEF IsContext, E
<1> SUFFICES ASSUME Clean(keys) PROVE fs = Materialize(keys)
  BY <1>7 DEF Replayed
<1>9. Legible(kept) /\ Clean(kept)
  BY <1>2, <1>8, LegibleFront DEF kept
<1>10. base = Materialize(kept)
  BY <1>9 DEF Replayed, base
<1>11. ResumeFrom(Materialize(kept)) = Materialize(kept) /\ MaterializeFrom(Materialize(kept), tail) = Materialize(keys)
  BY <1>2, <1>8, ResumedReplay DEF kept, tail
<1>12. front = Materialize(kept)
  BY <1>10, <1>11, ReplayNothing DEF front, Materialize
<1> QED
  BY <1>11, <1>12 DEF fs

\* So is what goes on from a context, or is done again.
LEMMA RematerializeReplayed ==
  ASSUME NEW log, NEW base, IsContext(log, base), Replayed(base),
         NEW entries, Legible(entries), Clean(entries)
  PROVE  Rematerialize(base, entries) = Materialize(entries)
<1> DEFINE n == Len(base.entries)
           tail == SubSeq(entries, n + 1, Len(entries))
<1>1. CASE entries = base.entries
  BY <1>1 DEF Rematerialize, Replayed
<1>2. CASE entries # base.entries /\ HasOrderedPrefix(base.entries, entries)
  <2>1. base.entries \in Seq(ToSet(log)) /\ entries \in Seq(ToSet(entries))
    BY ContextNamesItself, LogIsSeq DEF Legible
  <2>2. n \in 0 .. Len(entries) /\ SubSeq(entries, 1, n) = base.entries
    <3>1. /\ n \in Nat /\ Len(entries) \in Nat /\ n <= Len(entries)
          /\ SubSeq(base.entries, 1, n) = SubSeq(entries, 1, n)
      BY <1>2, <2>1 DEF HasOrderedPrefix, IsPrefix
    <3>2. SubSeq(base.entries, 1, n) = base.entries
      BY <2>1, FrontGrows
    <3> QED
      BY <3>1, <3>2
  <2> HIDE DEF n
  <2>3. /\ Clean(base.entries)
        /\ ResumeFrom(Materialize(base.entries)) = Materialize(base.entries)
        /\ MaterializeFrom(Materialize(base.entries), tail) = Materialize(entries)
    <3>1. Clean(SubSeq(entries, 1, n))
      BY <2>2, LegibleFront
    <3>2. /\ ResumeFrom(Materialize(SubSeq(entries, 1, n))) = Materialize(SubSeq(entries, 1, n))
          /\ MaterializeFrom(Materialize(SubSeq(entries, 1, n)), tail) = Materialize(entries)
      BY <2>2, ResumedReplay
    <3> QED
      BY <2>2, <3>1, <3>2
  <2>4. base.fs = Materialize(base.entries)
    BY <2>3 DEF Replayed
  <2>5. Rematerialize(base, entries) = MaterializeFrom(ResumeFrom(base.fs), tail)
    BY <1>2 DEF Rematerialize, MaterializeIncremental, n
  <2> QED
    BY <2>3, <2>4, <2>5
<1>3. CASE entries # base.entries /\ ~HasOrderedPrefix(base.entries, entries)
  BY <1>3 DEF Rematerialize
<1> QED
  BY <1>1, <1>2, <1>3

\* The projection after it has caught up.
LEMMA CatchUpReplayed ==
  ASSUME NEW log, StoredLog(log), ReadableLog(log), NEW ctx, IsContext(log, ctx), Replayed(ctx)
  PROVE  Replayed(Ingest(ctx, Unknown(ctx.entries, log)))
<1> DEFINE more == Unknown(ctx.entries, log)
<1>1. /\ LogOf(ToSet(log), ctx.entries) /\ ToSet(ctx.entries) \subseteq ToSet(log)
      /\ HashesOf(ctx.entries) = {e.hash : e \in ToSet(ctx.entries)}
  BY ContextNamesItself
<1>2. LogOf(ToSet(log), log) /\ Channel(ToSet(log))
  BY DEF StoredLog
<1>3. /\ LogOf(ToSet(log), more)
      /\ ToSet(more) = {e \in ToSet(log) : e.hash \notin HashesOf(ctx.entries)}
  BY <1>2, UnknownIsLog
<1> HIDE DEF more
<1>4. ToSet(ctx.entries) \cup ToSet(more) = ToSet(log)
  BY <1>1, <1>2, <1>3 DEF Channel
<1>5. NamesItself(ToSet(ctx.entries) \cup ToSet(more))
  BY <1>4, StoredNamesItself, Zenon
<1>6. Replayed(Ingest(ctx, more))
  BY <1>3, <1>5, IngestReplayed
<1> QED
  BY <1>6 DEF more

\* The tail and the projection after a commit.
LEMMA CommitReplayed ==
  ASSUME NEW log, StoredLog(log), NEW base, IsContext(log, base), Replayed(base), NEW e,
         WrittenOn(log, base, e), ReadableLog(Append(log, e)),
         NEW ctx, IsContext(log, ctx), Replayed(ctx), ctx.entries = base.entries
  PROVE  Replayed(ExtendContext(base, e)) /\ Replayed(Ingest(ctx, <<e>>))
<1> DEFINE more == Append(log, e)
           entries == Append(base.entries, e)
           tail == ExtendContext(base, e)
<1>1. Extended(log, base, e)
  BY ExtendIsContext
<1>2. /\ StoredLog(more) /\ ToSet(more) = ToSet(log) \cup {e}
      /\ IsContext(more, tail) /\ tail.entries = entries
      /\ tail.fs = Rematerialize(base, entries)
      /\ NamesItself(ToSet(base.entries) \cup {e})
  BY <1>1 DEF Extended
<1> HIDE DEF more, entries, tail
<1>3. Replayed(tail)
  <2>1. Legible(entries)
    BY <1>2, ViewIsLegible DEF IsContext, more
  <2> QED
    BY <1>2, <2>1, RematerializeReplayed DEF Replayed
<1>4. IsContext(more, ctx) /\ LogOf(ToSet(more), <<e>>) /\ ToSet(<<e>>) = {e}
  BY <1>2, ContextOfMore, LogOfOne
<1>5. NamesItself(ToSet(ctx.entries) \cup ToSet(<<e>>))
  BY <1>2, <1>4
<1>6. Replayed(Ingest(ctx, <<e>>))
  BY <1>2, <1>4, <1>5, IngestReplayed DEF more
<1> QED
  BY <1>3, <1>6 DEF tail

-----------------------------------------------------------------------------
(* Calls *)

\* The storage can be read, and contexts are replays where their logs are clean.
CInv ==
  /\ SInv
  /\ ReadableLog(stored)
  /\ Replayed(projected)
  /\ replayTail # NoTail => Replayed(replayTail)

\* What a call is answered from.
LEMMA ServedReplayed ==
  ASSUME CInv
  PROVE  Replayed(CaughtUp) /\ Replayed(Served)
<1>1. Replayed(CaughtUp)
  BY CatchUpReplayed DEF CaughtUp, CInv, SInv
<1> QED
  BY <1>1 DEF Served, CInv

\* A process that opens the volume.
LEMMA OpenReplayed ==
  ASSUME CInv, NEW log, StoredLog(log), ReadableLog(log), ToSet(stored) \subseteq ToSet(log),
         OpenAnew(log)
  PROVE  Replayed(projected') /\ replayTail' = NoTail
<1>1. PICK kept \in {InitialContext, projected} :
        projected' = Ingest(kept, Unknown(kept.entries, log))
  BY DEF OpenAnew
<1>2. IsContext(log, kept) /\ Replayed(kept)
  BY <1>1, ContextOfMore, InitialIsContext, InitialReplayed DEF CInv, SInv
<1> QED
  BY <1>1, <1>2, CatchUpReplayed DEF OpenAnew

\* What a step has to leave: contexts that are replays.
LEMMA WriteReplayed ==
  ASSUME CInv, NEW event, event.kind \in FileVerbs, NEW now \in Nat,
         NEW hash \in FreshHashes, ReadableLog(stored'), Write(event, now, hash)
  PROVE  Replayed(projected') /\ Replayed(replayTail')
<1> DEFINE base == Served
           entry == EntryOfCall(base, event, now, hash)
<1>1. /\ IsContext(stored, CaughtUp) /\ IsContext(stored, base)
      /\ base.entries = CaughtUp.entries
      /\ Replayed(CaughtUp) /\ Replayed(base) /\ StoredLog(stored)
  BY ServedIsContext, ServedReplayed DEF CInv, SInv
<1>2. WrittenOn(stored, base, entry)
  BY CallIsWritten DEF CInv
<1>3. /\ stored' = Append(stored, entry) /\ replayTail' = ExtendContext(base, entry)
      /\ projected' = Ingest(CaughtUp, <<entry>>)
  BY DEF Write, CommitReplayEntry
<1> HIDE DEF base, entry
<1> QED
  BY <1>1, <1>2, <1>3, CommitReplayed

LEMMA CutShortReplayed ==
  ASSUME CInv, NEW event, event.kind \in FileVerbs, NEW now \in Nat,
         NEW hash \in FreshHashes, ReadableLog(stored'), WriteCutShort(event, now, hash)
  PROVE  Replayed(projected') /\ replayTail' = NoTail
<1> DEFINE base == Served
           entry == EntryOfCall(base, event, now, hash)
           log == Append(stored, entry)
<1>1. IsContext(stored, base) /\ StoredLog(stored) /\ WrittenOn(stored, base, entry)
  BY ServedIsContext, CallIsWritten DEF CInv, SInv
<1>2. OpenAnew(log)
  BY DEF WriteCutShort
<1> HIDE DEF base, entry
<1>3. StoredLog(log) /\ ToSet(log) = ToSet(stored) \cup {entry}
  BY <1>1, WrittenIsStored DEF WrittenOn, IsContext
<1> HIDE DEF log
<1>4. ReadableLog(log)
  BY <1>2 DEF OpenAnew
<1> QED
  BY <1>2, <1>3, <1>4, OpenReplayed

\* What is written is about paths.
AboutPaths(event) ==
  /\ event.path \in Paths
  /\ event.kind = "RENAME" => event.to \in Paths

LEMMA EventsAboutPaths ==
  ASSUME NEW hash
  PROVE  \A event \in LocalEvents(hash) : AboutPaths(event)
<1>1. \A path \in ServicePaths : AboutPaths(CreateFile(path, hash))
  BY ServicePathsArePaths DEF CreateFile, AboutPaths
<1>2. \A path \in ServicePaths : AboutPaths(DeletePath(path)) /\ AboutPaths(Mkdir(path))
  BY ServicePathsArePaths DEF DeletePath, Mkdir, AboutPaths
<1>3. \A from, to \in ServicePaths : AboutPaths(Rename(from, to))
  BY ServicePathsArePaths DEF Rename, AboutPaths
<1> QED
  BY <1>1, <1>2, <1>3 DEF LocalEvents, PeerEvents

LEMMA AppendAdds ==
  ASSUME NEW log, StoredLog(log), NEW e
  PROVE  ToSet(Append(log, e)) \subseteq ToSet(log) \cup {e}
<1> DEFINE E == ToSet(log)
           t == Append(log, e)
<1>1. log \in Seq(E) /\ Len(log) \in Nat /\ \A i \in 1 .. Len(log) : log[i] \in E
  BY LogIsSeq DEF StoredLog
<1> HIDE DEF E
<1>2. /\ DOMAIN t = 1 .. Len(log) + 1 /\ t[Len(log) + 1] = e
      /\ \A i \in 1 .. Len(log) : t[i] = log[i]
  BY <1>1
<1>3. \A i \in 1 .. Len(log) + 1 : i \in 1 .. Len(log) \/ i = Len(log) + 1
  BY <1>1
<1> HIDE DEF t
<1>4. ToSet(t) \subseteq E \cup {e}
  BY <1>1, <1>2, <1>3 DEF ToSet
<1> QED
  BY <1>4 DEF E, t

LEMMA ReadableAppend ==
  ASSUME NEW log, StoredLog(log), ReadableLog(log), NEW e, AboutPaths(e.event)
  PROVE  ReadableLog(Append(log, e))
BY AppendAdds DEF ReadableLog, Readable, AboutPaths

\* A step that is no exchange writes one event or none, one that a call can write.
LEMMA NextWrites ==
  ASSUME [Next]_vars
  PROVE  \/ stored' = stored
         \/ \E e, hash : /\ stored' = Append(stored, e) /\ e.event \in LocalEvents(hash)
                         /\ e.by \in {"service", "other"}
<1> DEFINE Written == \/ stored' = stored
                      \/ \E e, hash : /\ stored' = Append(stored, e)
                                      /\ e.event \in LocalEvents(hash)
                                      /\ e.by \in {"service", "other"}
<1> SUFFICES Written
  OBVIOUS
<1>1. ASSUME NEW ctx, NEW hash, NEW event \in LocalEvents(hash), NEW ts,
             NEW by \in {"service", "other"},
             stored' = Append(stored, EntryOn(ctx, event, ts, hash, by))
      PROVE  Written
  BY <1>1 DEF EntryOn
<1>2. ASSUME NEW now \in Times, NEW hash \in FreshHashes, NEW event \in LocalEvents(hash),
             Write(event, now, hash) \/ WriteCutShort(event, now, hash)
      PROVE  Written
  <2>1. stored' = Append(stored, EntryOfCall(Served, event, now, hash))
    BY <1>2 DEF Write, CommitReplayEntry, WriteCutShort, OpenAnew
  <2> QED
    BY <1>1, <2>1 DEF EntryOfCall
<1>3. ASSUME NEW contexts, NEW hash, NEW event \in LocalEvents(hash), NEW now,
             WriteUnannounced(contexts, event, now, hash)
      PROVE  Written
  BY <1>1, <1>3 DEF WriteUnannounced
<1>4. ASSUME NEW now \in Times, NEW hash \in FreshHashes, NEW path \in ServicePaths,
             StoreData(path, now, hash) \/ DeleteDirectly(path, now, hash)
      PROVE  Written
  <2>1. CreateFile(path, hash) \in LocalEvents(hash) /\ DeletePath(path) \in LocalEvents(hash)
    BY DEF LocalEvents, PeerEvents
  <2> QED
    BY <1>3, <1>4, <2>1 DEF StoreData, DeleteDirectly, DeletePath
<1>5. ASSUME NEW now \in Times, NEW hash \in FreshHashes, NEW log \in PeerLogs,
             NEW event \in PeerEvents(hash), PeerWrite(log, event, now, hash)
      PROVE  Written
  BY <1>3, <1>5 DEF PeerWrite, LocalEvents
<1>6. CASE Restart \/ Read \/ MarkReplayStale \/ UNCHANGED vars
  BY <1>6 DEF Restart, OpenAnew, Read, MarkReplayStale, vars
<1> QED
  BY <1>2, <1>4, <1>5, <1>6 DEF Next

LEMMA NextReadable == CInv /\ [Next]_vars => ReadableLog(stored')
<1> SUFFICES ASSUME CInv, [Next]_vars PROVE ReadableLog(stored')
  OBVIOUS
<1>1. CASE stored' = stored
  BY <1>1 DEF CInv
<1>2. ASSUME NEW e, NEW hash, stored' = Append(stored, e), e.event \in LocalEvents(hash)
      PROVE  ReadableLog(stored')
  BY <1>2, EventsAboutPaths, ReadableAppend DEF CInv, SInv
<1> QED
  BY <1>1, <1>2, NextWrites

LEMMA NextReplayed ==
  ASSUME CInv, [Next]_vars
  PROVE  /\ Replayed(projected')
         /\ replayTail' # NoTail => Replayed(replayTail')
<1>0. ReadableLog(stored')
  BY NextReadable
<1> DEFINE Kept == /\ Replayed(projected')
                   /\ replayTail' # NoTail => Replayed(replayTail')
<1> SUFFICES Kept
  OBVIOUS
<1>1. ASSUME NEW now \in Times, NEW hash \in FreshHashes, NEW event \in LocalEvents(hash),
             Write(event, now, hash) \/ WriteCutShort(event, now, hash)
      PROVE  Kept
  BY <1>0, <1>1, TimesAreNumbers, EventsAreFiles, WriteReplayed, CutShortReplayed
<1>2. CASE UNCHANGED <<projected, replayTail>>
  BY <1>2 DEF CInv
<1>3. ASSUME NEW now, NEW hash, NEW path, StoreData(path, now, hash) \/ DeleteDirectly(path, now, hash)
      PROVE  Kept
  BY <1>2, <1>3 DEF StoreData, DeleteDirectly, WriteUnannounced
<1>4. ASSUME NEW now, NEW hash, NEW log, NEW event, PeerWrite(log, event, now, hash)
      PROVE  Kept
  BY <1>2, <1>4 DEF PeerWrite, WriteUnannounced
<1>5. CASE Read
  BY <1>5, ServedReplayed DEF Read, CInv
<1>6. CASE MarkReplayStale
  BY <1>6 DEF MarkReplayStale, CInv
<1>7. CASE Restart
  BY <1>7, OpenReplayed DEF Restart, CInv, SInv
<1> QED
  BY <1>1, <1>2, <1>3, <1>4, <1>5, <1>6, <1>7 DEF Next, vars

-----------------------------------------------------------------------------
(* The names an import chooses *)

LEMMA CandidateIsPath ==
  ASSUME CopiesAreNames, NEW path \in Paths, NEW n \in Nat
  PROVE  /\ Candidate(path, n) \in Paths
         /\ \A m \in Nat : Candidate(path, m) = Candidate(path, n) => m = n
<1> DEFINE l == Len(path)
           name == path[l]
<1>1. path \in Seq(Names) /\ l \in Nat /\ l >= 1 /\ l \in 1 .. l /\ name \in Names
  BY PathIsSeq
<1>2. ASSUME NEW m \in Nat \ {0}
      PROVE  /\ Candidate(path, m) \in Paths /\ Candidate(path, m)[l] = CopyName(name, m)
  <2> DEFINE c == CopyName(name, m)
             q == [path EXCEPT ![l] = c]
  <2>1. c \in Names
    BY <1>1 DEF CopiesAreNames
  <2>2. Candidate(path, m) = q
    BY DEF Candidate
  <2> HIDE DEF c
  <2>3. q \in Seq(Names) /\ Len(q) = l /\ q[l] = c
    BY <1>1, <2>1
  <2> QED
    BY <1>1, <2>2, <2>3 DEF Paths, c
<1>3. Candidate(path, 0) = path
  BY DEF Candidate
<1>4. \A m \in Nat \ {0} : Candidate(path, m) # Candidate(path, 0)
  <2>1. \A m \in Nat \ {0} : CopyName(name, m) # name
    BY <1>1 DEF CopiesAreNames
  <2> QED
    BY <1>2, <1>3, <2>1
<1>5. \A m, k \in Nat \ {0} : Candidate(path, m) = Candidate(path, k) => m = k
  <2>1. \A m, k \in Nat \ {0} : CopyName(name, m) = CopyName(name, k) => m = k
    BY <1>1 DEF CopiesAreNames
  <2> HIDE DEF name
  <2> QED
    BY <1>2, <2>1
<1>6. Candidate(path, n) \in Paths
  BY <1>2, <1>3
<1>7. ASSUME NEW m \in Nat, Candidate(path, m) = Candidate(path, n) PROVE m = n
  BY <1>4, <1>5, <1>7
<1> QED
  BY <1>6, <1>7

\* Among one more candidates than paths are taken, one is free.
LEMMA ResolvedIsFree ==
  ASSUME CopiesAreNames, NEW path \in Paths, NEW taken, IsFiniteSet(taken)
  PROVE  ResolveImportedFilename(path, taken) \in Paths \ taken
<1> DEFINE N == Cardinality(taken)
           free == {n \in 0 .. N : Candidate(path, n) \notin taken}
<1>1. N \in Nat
  BY FS_CardinalityType
<1>2. free # {}
  <2> SUFFICES ASSUME free = {} PROVE FALSE
    OBVIOUS
  <2> DEFINE I == 0 .. N
             f == [n \in I |-> Candidate(path, n)]
  <2>1. f \in [I -> taken]
    OBVIOUS
  <2>2. IsFiniteSet(I) /\ Cardinality(I) = N + 1
    BY <1>1, FS_Interval
  <2>3. Cardinality(taken) < Cardinality(I)
    BY <1>1, <2>2
  <2>4. PICK m \in I, n \in I : m # n /\ f[m] = f[n]
    <3> HIDE DEF f, I
    <3>1. \E x, y \in I : x # y /\ f[x] = f[y]
      BY ONLY <2>1, <2>2, <2>3, IsFiniteSet(taken), FS_PigeonHole
    <3> QED
      BY <3>1
  <2> QED
    BY <1>1, <2>4, CandidateIsPath
<1>3. Min(free) \in free
  <2>1. free \in SUBSET Nat
    BY <1>1
  <2>2. PICK m \in free : \A n \in free : m <= n
    <3> HIDE DEF free
    <3> QED
      BY <1>2, <2>1, NatLeast
  <2> HIDE DEF free
  <2> QED
    BY <2>1, <2>2 DEF Min
<1> QED
  BY <1>1, <1>3, CandidateIsPath DEF ResolveImportedFilename

\* names[n] are the names of the first n items.
NamedInTurn(items, taken, names) ==
  /\ names[0] = <<>>
  /\ \A n \in 1 .. Len(items) :
       names[n] = Append(names[n - 1],
                         ResolveImportedFilename(items[n].name, taken \cup ToSet(names[n - 1])))

\* Paths that are free, each its own.
NamedSoFar(taken, n, s) ==
  /\ s \in Seq(Paths) /\ Len(s) = n
  /\ \A i \in 1 .. n : s[i] \notin taken
  /\ \A i, j \in 1 .. n : s[i] = s[j] => i = j

\* A sequence has but so many elements.
LEMMA SeqIsFinite ==
  ASSUME NEW E, NEW s \in Seq(E)
  PROVE  IsFiniteSet(ToSet(s))
<1> DEFINE I == 1 .. Len(s)
           f == [i \in I |-> s[i]]
<1>1. IsFiniteSet(I) /\ DOMAIN s = I
  BY FS_Interval
<1>2. f \in Surjection(I, ToSet(s))
  BY <1>1 DEF Surjection, ToSet
<1> HIDE DEF f, I
<1> QED
  BY <1>1, <1>2, FS_Surjection

LEMMA NamedSteps ==
  ASSUME CopiesAreNames, NEW items, Len(items) \in Nat,
         \A n \in 1 .. Len(items) : items[n].name \in Paths, NEW taken, IsFiniteSet(taken)
  PROVE  \E f : NamedInTurn(items, taken, f) /\ ImportedNames(items, taken) = f[Len(items)]
<1> DEFINE N == Len(items)
           X == Seq(Paths)
           x0 == <<>>
           one(n, s) == Append(s, ResolveImportedFilename(items[n].name, taken \cup ToSet(s)))
           next == [n \in 1 .. N |-> [s \in X |-> one(n, s)]]
           Solution(g) == g = [n \in 0 .. N |-> IF n = 0 THEN <<>> ELSE one(n, g[n - 1])]
           u == CHOOSE g : Solution(g)
<1>1. N \in Nat /\ x0 \in X /\ \A n \in 1 .. N, s \in X : one(n, s) \in X
  <2>1. N \in Nat /\ <<>> \in X
    OBVIOUS
  <2>2. ASSUME NEW n \in 1 .. N, NEW s \in X PROVE one(n, s) \in X
    <3> DEFINE all == taken \cup ToSet(s)
               name == ResolveImportedFilename(items[n].name, all)
    <3>1. IsFiniteSet(all)
      <4>1. IsFiniteSet(ToSet(s))
        BY SeqIsFinite
      <4> QED
        BY <4>1, FS_Union
    <3>2. items[n].name \in Paths
      OBVIOUS
    <3> HIDE DEF all
    <3>3. name \in Paths
      BY <3>1, <3>2, ResolvedIsFree
    <3> HIDE DEF name
    <3>4. Append(s, name) \in X
      BY <3>3, AppendProperties
    <3> QED
      BY <3>4 DEF name, all
  <2> QED
    BY <2>1, <2>2
<1>2. PICK f \in [0 .. N -> X] : f[0] = x0 /\ \A n \in 1 .. N : f[n] = next[n][f[n - 1]]
  <2> HIDE DEF N, X, x0, one
  <2>1. next \in [1 .. N -> [X -> X]]
    BY <1>1
  <2> HIDE DEF next
  <2>2. Doable(X, x0, N, next)
    BY <1>1, <2>1 DEF Doable
  <2> QED
    BY ONLY <2>2, Recursion
<1>3. Solution(f)
  <2> HIDE DEF N, X, one
  <2>1. ASSUME NEW n \in 0 .. N PROVE f[n] = IF n = 0 THEN <<>> ELSE one(n, f[n - 1])
    <3>1. CASE n = 0
      BY <1>2, <3>1
    <3>2. CASE n # 0
      <4>1. n \in 1 .. N /\ n - 1 \in 0 .. N
        BY <1>1, <3>2
      <4> QED
        BY <1>2, <3>2, <4>1
    <3> QED
      BY <3>1, <3>2
  <2> QED
    BY <2>1
<1>4. Solution(u)
  <2> HIDE DEF Solution
  <2> QED
    BY <1>3
<1>5. ImportedNames(items, taken) = u[N]
  BY DEF ImportedNames
<1> HIDE DEF u
<1>6. u[0] = <<>> /\ \A n \in 1 .. N : u[n] = one(n, u[n - 1])
  <2>1. u[0] = <<>>
    BY <1>1, <1>4
  <2>2. ASSUME NEW n \in 1 .. N PROVE u[n] = one(n, u[n - 1])
    <3>1. n \in 0 .. N /\ n # 0
      BY <1>1
    <3> QED
      BY <1>4, <3>1
  <2> QED
    BY <2>1, <2>2
<1> QED
  BY <1>5, <1>6 DEF NamedInTurn

LEMMA NamesAreFree ==
  ASSUME CopiesAreNames, NEW items, Len(items) \in Nat,
         \A n \in 1 .. Len(items) : items[n].name \in Paths, NEW taken, IsFiniteSet(taken)
  PROVE  NamedSoFar(taken, Len(items), ImportedNames(items, taken))
<1> DEFINE N == Len(items)
<1>1. PICK f : NamedInTurn(items, taken, f) /\ ImportedNames(items, taken) = f[N]
  BY NamedSteps
<1> DEFINE S == {n \in Nat : n <= N => NamedSoFar(taken, n, f[n])}
<1>2. 0 \in S
  <2>1. <<>> \in Seq(Paths) /\ Len(<<>>) = 0 /\ 1 .. 0 = {}
    OBVIOUS
  <2>2. NamedSoFar(taken, 0, <<>>)
    BY <2>1 DEF NamedSoFar
  <2>3. f[0] = <<>>
    BY <1>1 DEF NamedInTurn
  <2>4. NamedSoFar(taken, 0, f[0])
    BY <2>2, <2>3
  <2> QED
    BY <2>4
<1>3. ASSUME NEW n \in S PROVE n + 1 \in S
  <2> SUFFICES ASSUME n + 1 <= N PROVE NamedSoFar(taken, n + 1, f[n + 1])
    OBVIOUS
  <2> DEFINE s == f[n]
             all == taken \cup ToSet(s)
             name == ResolveImportedFilename(items[n + 1].name, all)
             t == Append(s, name)
  <2>1. /\ n \in Nat /\ n + 1 \in 1 .. N /\ (n + 1) - 1 = n /\ NamedSoFar(taken, n, s)
        /\ items[n + 1].name \in Paths
    OBVIOUS
  <2>2. f[n + 1] = t
    BY <1>1, <2>1 DEF NamedInTurn
  <2> HIDE DEF s
  <2>3. s \in Seq(Paths) /\ Len(s) = n
    BY <2>1 DEF NamedSoFar
  <2>4. IsFiniteSet(all)
    <3>1. IsFiniteSet(ToSet(s))
      BY <2>3, SeqIsFinite
    <3> QED
      BY <3>1, FS_Union
  <2> HIDE DEF all
  <2>5. name \in Paths \ all
    BY <2>1, <2>4, ResolvedIsFree
  <2> HIDE DEF name
  <2>6. /\ t \in Seq(Paths) /\ Len(t) = n + 1 /\ t[n + 1] = name
        /\ \A i \in 1 .. n : t[i] = s[i] /\ s[i] \in ToSet(s)
        /\ \A i \in 1 .. n + 1 : i \in 1 .. n \/ i = n + 1
    <3>1. \A i \in 1 .. n : s[i] \in ToSet(s)
      BY <2>3 DEF ToSet
    <3>2. /\ t \in Seq(Paths) /\ Len(t) = n + 1 /\ t[n + 1] = name
          /\ \A i \in 1 .. n : t[i] = s[i]
      BY <2>1, <2>3, <2>5
    <3> HIDE DEF t
    <3> QED
      BY <2>1, <3>1, <3>2
  <2> HIDE DEF t
  <2>7. name \notin taken /\ \A i \in 1 .. n : s[i] # name
    BY <2>5, <2>6 DEF all
  <2>8. /\ \A i \in 1 .. n + 1 : t[i] \notin taken
        /\ \A i, j \in 1 .. n + 1 : t[i] = t[j] => i = j
    BY <2>1, <2>6, <2>7 DEF NamedSoFar
  <2> QED
    BY <2>2, <2>6, <2>8 DEF NamedSoFar
<1> HIDE DEF S
<1>4. S = Nat
  BY <1>2, <1>3, NatsByStep DEF S
<1>5. N \in S /\ N \in Nat
  BY <1>4
<1>6. NamedSoFar(taken, N, f[N])
  BY <1>5 DEF S
<1> QED
  BY <1>1, <1>6

LEMMA ChainReadable ==
  ASSUME NEW log, StoredLog(log), ReadableLog(log), NEW hashes, NEW chain,
         Chain(log, hashes, chain), NEW n \in 0 .. Len(chain),
         \A i \in 1 .. n : AboutPaths(chain[i].event)
  PROVE  ReadableLog(log \o SubSeq(chain, 1, n))
<1>1. Chained(log, chain, n)
  BY ChainIsStored
<1> QED
  BY <1>1 DEF Chained, ReadableLog, Readable, AboutPaths

\* The i-th event of an export that gives files keys of their own.
LEMMA UpgradeEvents ==
  ASSUME NEW list, NEW now, NEW hashes, NEW i \in DOMAIN LegacyOf(list)
  PROVE  LET files == StoredFiles(LoadEventLog, Materialize(LoadEventLog))
             path  == LegacyOf(list)[i]
             anew  == EncryptFileForVolume(Volume,
                        DecryptFileForVolume(Volume, files[path].blob, NoKey), hashes[i])
         IN  UpgradeEntries(list, now, hashes)[i].event =
               [kind    |-> "CREATE_FILE", path |-> path, blob |-> anew.blob,
                wrapped |-> anew.wrapped]
BY DEF UpgradeEntries, AppendCreateEvents, Upgraded

LEMMA UpgradeReadable ==
  ASSUME CInv, NEW list \in PathLists, NEW now \in Nat, NEW k,
         NEW hashes, NewHashes(stored, hashes, k), Len(hashes) = k,
         NEW n \in DOMAIN hashes, UpgradeLegacyFilesForExport(list, now, hashes, n)
  PROVE  ReadableLog(stored')
<1> DEFINE files == StoredFiles(LoadEventLog, Materialize(LoadEventLog))
           legacy == LegacyOf(list)
           chain == UpgradeEntries(list, now, hashes)
<1>1. /\ stored' = stored \o SubSeq(chain, 1, n) /\ Chain(stored, hashes, chain)
      /\ Len(chain) = k /\ Len(legacy) = k /\ n \in 1 .. k /\ k \in Nat
  BY UpgradeIsChain DEF CInv
<1>2. legacy \in Seq(Paths)
  <2>1. DedupeOrderedFilenames(list) \in Seq(Paths)
    BY PathListsArePaths, PickedIsPart DEF DedupeOrderedFilenames, PickedSoFar
  <2> QED
    BY <2>1, PickedIsPart DEF LegacyOf, ToUpgrade, PickedSoFar
<1> HIDE DEF legacy, files
<1>3. ASSUME NEW i \in 1 .. n PROVE AboutPaths(chain[i].event)
  <2> DEFINE anew == EncryptFileForVolume(Volume,
                       DecryptFileForVolume(Volume, files[legacy[i]].blob, NoKey), hashes[i])
  <2>1. i \in DOMAIN legacy /\ legacy[i] \in Paths
    BY <1>1, <1>2
  <2>2. chain[i].event = [kind |-> "CREATE_FILE", path |-> legacy[i], blob |-> anew.blob,
                          wrapped |-> anew.wrapped]
    <3>1. i \in DOMAIN LegacyOf(list)
      BY <2>1 DEF legacy
    <3> QED
      BY ONLY <3>1, UpgradeEvents DEF legacy, files
  <2> HIDE DEF chain, anew
  <2> QED
    BY <2>1, <2>2 DEF AboutPaths
<1> HIDE DEF chain
<1> QED
  BY <1>1, <1>3, ChainReadable DEF CInv, SInv

\* The files of the storage are but so many.
LEMMA FilesAreFinite ==
  ASSUME SInv
  PROVE  IsFiniteSet(DOMAIN StoredFiles(LoadEventLog, Materialize(LoadEventLog)))
<1> DEFINE fs == Materialize(LoadEventLog)
<1>1. IsFiniteSet(DOMAIN fs.fileOrigins)
  BY LoadIsOrder DEF Refers
<1>2. DOMAIN StoredFiles(LoadEventLog, fs) \subseteq DOMAIN fs.fileOrigins
  BY DEF StoredFiles
<1> HIDE DEF fs
<1>3. IsFiniteSet(DOMAIN StoredFiles(LoadEventLog, fs))
  BY <1>1, <1>2, FS_Subset
<1> QED
  BY <1>3 DEF fs

\* The n-th event of an import.
LEMMA ImportedEvents ==
  ASSUME NEW bundle, NEW now, NEW hashes, NEW n \in DOMAIN bundle.items
  PROVE  LET files == StoredFiles(LoadEventLog, Materialize(LoadEventLog))
             names == ImportedNames(bundle.items, DOMAIN files)
         IN  ImportedEntries(bundle, now, hashes)[n].event =
               [kind    |-> "CREATE_FILE", path |-> names[n], blob |-> bundle.items[n].blob,
                wrapped |-> WrapFileKeyForVolume(Volume, ItemKey(bundle, bundle.items[n]))]
BY DEF ImportedEntries, AppendCreateEvents

\* What an import writes, all of it or a part, is about paths.
LEMMA ImportReadable ==
  ASSUME CopiesAreNames, CInv, NEW bundle, IsBundle(bundle), NEW now \in Nat, NEW hashes,
         NewHashes(stored, hashes, Len(bundle.items)), NEW n \in 0 .. Len(bundle.items)
  PROVE  ReadableLog(stored \o SubSeq(ImportedEntries(bundle, now, hashes), 1, n))
<1> DEFINE K == Len(bundle.items)
           taken == DOMAIN StoredFiles(LoadEventLog, Materialize(LoadEventLog))
           names == ImportedNames(bundle.items, taken)
           chain == ImportedEntries(bundle, now, hashes)
<1>1. /\ K \in Nat /\ DOMAIN bundle.items = 1 .. K
      /\ \A i \in 1 .. K : bundle.items[i].name \in Paths
  BY DEF IsBundle, IsItem
<1>2. IsFiniteSet(taken)
  BY FilesAreFinite DEF CInv
<1>3. Chain(stored, hashes, chain) /\ Len(chain) = K
  BY ImportedIsChain DEF CInv
<1>4. \A i \in 1 .. K : chain[i].event.kind = "CREATE_FILE" /\ chain[i].event.path = names[i]
  <2> SUFFICES ASSUME NEW i \in 1 .. K
               PROVE  chain[i].event.kind = "CREATE_FILE" /\ chain[i].event.path = names[i]
    OBVIOUS
  <2> DEFINE wrapped == WrapFileKeyForVolume(Volume, ItemKey(bundle, bundle.items[i]))
  <2>1. chain[i].event = [kind |-> "CREATE_FILE", path |-> names[i],
                          blob |-> bundle.items[i].blob, wrapped |-> wrapped]
    BY <1>1, ImportedEvents
  <2> HIDE DEF chain, names, wrapped
  <2> QED
    BY <2>1
<1> HIDE DEF chain, taken
<1>5. NamedSoFar(taken, K, names)
  BY <1>1, <1>2, NamesAreFree
<1> HIDE DEF names
<1>6. \A i \in 1 .. K : names[i] \in Paths
  BY <1>5 DEF NamedSoFar
<1>7. \A i \in 1 .. n : AboutPaths(chain[i].event)
  BY <1>1, <1>4, <1>6 DEF AboutPaths
<1>8. ReadableLog(stored \o SubSeq(chain, 1, n))
  BY <1>3, <1>7, ChainReadable DEF CInv, SInv
<1> QED
  BY <1>8 DEF chain

LEMMA ExchangeReadable ==
  ASSUME CopiesAreNames, CInv, NEW now \in Times, NEW k \in 1 .. Room,
         NEW hashes \in {h \in [1 .. k -> FreshHashes] : IsInjective(h)}, Exchange(now, hashes)
  PROVE  /\ ReadableLog(stored') /\ UNCHANGED projected
         /\ UNCHANGED replayTail \/ replayTail' = NoTail
<1>1. /\ now \in Nat /\ k \in Nat /\ Len(hashes) = k /\ DOMAIN hashes = 1 .. k
      /\ NewHashes(stored, hashes, k)
  BY ExchangeHashes, TimesAreNumbers
<1>2. ASSUME NEW list \in PathLists, NEW n \in DOMAIN hashes,
             UpgradeLegacyFilesForExport(list, now, hashes, n)
      PROVE  ReadableLog(stored') /\ UNCHANGED <<projected, replayTail>>
  BY <1>1, <1>2, UpgradeReadable DEF UpgradeLegacyFilesForExport
<1>3. ASSUME NEW given \in ForeignBundles \cup OwnBundles, NEW bundle,
             bundle = ParseReferenceBundle(given), bundle # Failed,
             Len(hashes) = Len(bundle.items)
      PROVE  /\ ImportReferences(bundle, now, hashes) =>
                  ReadableLog(stored') /\ UNCHANGED projected /\ replayTail' = NoTail
             /\ \A n \in DOMAIN hashes : ImportFails(bundle, now, hashes, n) =>
                  ReadableLog(stored') /\ UNCHANGED <<projected, replayTail>>
  <2> DEFINE chain == ImportedEntries(bundle, now, hashes)
  <2>1. IsBundle(bundle)
    BY <1>3, ParsedIsBundle DEF CInv
  <2>2. NewHashes(stored, hashes, Len(bundle.items))
    BY <1>1, <1>3
  <2>3. \A n \in 0 .. k : ReadableLog(stored \o SubSeq(chain, 1, n))
    <3> SUFFICES ASSUME NEW n \in 0 .. k PROVE ReadableLog(stored \o SubSeq(chain, 1, n))
      OBVIOUS
    <3>1. n \in 0 .. Len(bundle.items)
      BY <1>1, <1>3
    <3> QED
      BY <1>1, <2>1, <2>2, <3>1, ImportReadable
  <2>4. SubSeq(chain, 1, k) = chain
    <3>1. Chain(stored, hashes, chain) /\ Len(chain) = k
      BY <1>1, <1>3, <2>1, <2>2, ImportedIsChain DEF CInv
    <3> QED
      BY <3>1, FrontGrows DEF Chain
  <2>5. ASSUME ImportReferences(bundle, now, hashes)
        PROVE  ReadableLog(stored') /\ UNCHANGED projected /\ replayTail' = NoTail
    <3>1. stored' = stored \o chain /\ UNCHANGED projected /\ replayTail' = NoTail
      BY <2>5 DEF ImportReferences
    <3> HIDE DEF chain
    <3>2. k \in 0 .. k
      BY <1>1
    <3>3. ReadableLog(stored \o SubSeq(chain, 1, k))
      BY <2>3, <3>2
    <3> QED
      BY <2>4, <3>1, <3>3
  <2>6. ASSUME NEW n \in DOMAIN hashes, ImportFails(bundle, now, hashes, n)
        PROVE  ReadableLog(stored') /\ UNCHANGED <<projected, replayTail>>
    <3>1. stored' = stored \o SubSeq(chain, 1, n) /\ UNCHANGED <<projected, replayTail>>
      BY <2>6 DEF ImportFails
    <3>2. n \in 0 .. k
      BY <1>1
    <3> HIDE DEF chain
    <3> QED
      BY <2>3, <3>1, <3>2
  <2> QED
    BY <2>5, <2>6
<1> QED
  BY <1>2, <1>3 DEF Exchange

-----------------------------------------------------------------------------
(* Keys and texts *)

\* The key of a file that an event creates opens its content.
Fitting(event) ==
  event.kind = "CREATE_FILE" =>
    event.blob # NoBlob /\ Opens(KeyOfFile(Volume, event.wrapped), event.blob)

FittingLog(log) == \A e \in ToSet(log) : Fitting(e.event)

\* A context has for each file the key of the event its content comes from.
Keyed(ctx) ==
  \A p \in DOMAIN ctx.fs.fileOrigins :
    ctx.keys[p] = LiveEncryptedKeys(ctx.entries, ctx.fs)[p]

\* What is wrapped for the volume is a key of its own, and the volume gets it back.
LEMMA WrappedIsKey ==
  ASSUME MarksAreNoSeals, NEW key
  PROVE  LET wrapped == WrapFileKeyForVolume(Volume, key)
         IN  /\ wrapped # NoKey
             /\ UnwrapFileKeyForVolume(Volume, wrapped) = key
             /\ KeyOfFile(Volume, wrapped) = key
<1> DEFINE wrapped == WrapFileKeyForVolume(Volume, key)
<1>1. wrapped # NoKey /\ wrapped # Failed
  BY DEF MarksAreNoSeals, WrapFileKeyForVolume
<1>2. wrapped.key = VolumeKey(Volume) /\ wrapped.holds = key
  BY DEF WrapFileKeyForVolume, Seal
<1> HIDE DEF wrapped
<1>3. UnwrapFileKeyForVolume(Volume, wrapped) = key
  BY <1>1, <1>2 DEF UnwrapFileKeyForVolume, Unseal, Opens
<1> QED
  BY <1>1, <1>3 DEF KeyOfFile, wrapped

\* A file encrypted for the volume has a key that opens it.
LEMMA EncryptedFits ==
  ASSUME MarksAreNoSeals, NEW text, NEW n
  PROVE  LET new == EncryptFileForVolume(Volume, text, n)
         IN  new.blob # NoBlob /\ Opens(KeyOfFile(Volume, new.wrapped), new.blob)
<1> DEFINE blob == Seal(FileKey(n), text)
           wrapped == WrapFileKeyForVolume(Volume, FileKey(n))
           new == EncryptFileForVolume(Volume, text, n)
<1>1. new.blob = blob /\ new.wrapped = wrapped
  BY DEF EncryptFileForVolume
<1>2. blob # NoBlob /\ blob # Failed
  BY DEF MarksAreNoSeals
<1>3. blob.key = FileKey(n)
  BY DEF Seal
<1>4. KeyOfFile(Volume, wrapped) = FileKey(n)
  BY WrappedIsKey
<1> HIDE DEF blob, wrapped, new
<1> QED
  BY <1>1, <1>2, <1>3, <1>4 DEF Opens, new

LEMMA CallsFit ==
  ASSUME MarksAreNoSeals, NEW hash
  PROVE  \A event \in LocalEvents(hash) : Fitting(event)
<1>1. \A path : Fitting(CreateFile(path, hash))
  BY EncryptedFits DEF CreateFile, Fitting
<1>2. \A path : Fitting(DeletePath(path)) /\ Fitting(Mkdir(path))
  BY DEF DeletePath, Mkdir, Fitting
<1>3. \A from, to : Fitting(Rename(from, to))
  BY DEF Rename, Fitting
<1> QED
  BY <1>1, <1>2, <1>3 DEF LocalEvents, PeerEvents

\* The event a live file's content comes from, found by its hash.
Source(s, fs, p, i) ==
  /\ s[i].hash = fs.fileOrigins[p] /\ s[i].event.kind = "CREATE_FILE"
  /\ s[i].event.blob = fs.files[p].blob
  /\ LiveEncryptedKeys(s, fs)[p] = s[i].event.wrapped
  /\ \A e \in ToSet(s) : e.hash = fs.fileOrigins[p] => e = s[i]

LEMMA LiveSource ==
  ASSUME NEW s, Legible(s), NEW fs, Sound(fs, WrittenIn(s)), NEW p \in DOMAIN fs.fileOrigins
  PROVE  /\ p \in DOMAIN fs.files
         /\ \E i \in 1 .. Len(s) : Source(s, fs, p, i)
<1>1. p \in DOMAIN fs.files /\ <<fs.fileOrigins[p], fs.files[p].blob>> \in WrittenIn(s)
  BY DEF Sound, FilesSound
<1>2. PICK i \in 1 .. Len(s) : /\ s[i].event.kind = "CREATE_FILE"
                               /\ <<fs.fileOrigins[p], fs.files[p].blob>>
                                    = <<s[i].hash, s[i].event.blob>>
  BY <1>1 DEF WrittenIn
<1>3. s[i].hash = fs.fileOrigins[p] /\ s[i].event.blob = fs.files[p].blob
  BY <1>2
<1>4. DOMAIN s = 1 .. Len(s) /\ \A j \in DOMAIN s : s[j].hash = s[i].hash => j = i
  BY DEF Legible
<1>5. (CHOOSE j \in DOMAIN s : s[j].hash = fs.fileOrigins[p]) = i
  BY <1>3, <1>4
<1>6. fs.fileOrigins[p] \in HashesOf(s)
  BY <1>3, <1>4 DEF HashesOf
<1>7. LiveEncryptedKeys(s, fs)[p] = s[i].event.wrapped
  BY <1>5, <1>6 DEF LiveEncryptedKeys
<1>8. \A e \in ToSet(s) : e.hash = fs.fileOrigins[p] => e = s[i]
  BY <1>3, <1>4 DEF ToSet
<1> QED
  BY <1>1, <1>2, <1>3, <1>7, <1>8 DEF Source

\* A context that has what it takes to read its files: a sound volume, the
\* keys of its events, and events whose keys fit.
Decipherable(c) ==
  /\ Legible(c.entries) /\ FittingLog(c.entries)
  /\ Sound(c.fs, WrittenIn(c.entries))
  /\ Keyed(c) /\ DOMAIN c.fs.fileOrigins \subseteq DOMAIN c.keys

\* Each live file reads as it was written, by its path, by its block and from
\* its event.
ReadsAsWritten(c) ==
  \A p \in DOMAIN c.fs.fileOrigins :
    LET blob   == c.fs.files[p].blob
        origin == CHOOSE e \in ToSet(c.entries) : e.hash = c.fs.fileOrigins[p]
    IN  /\ GetFileByPath(c, p) = blob.holds
        /\ GetFile(c, blob) = {blob.holds}
        /\ c.keys[p] # NoKey => RetrieveData(origin.event) = blob.holds

LEMMA ReadsByPath ==
  ASSUME NEW c, Decipherable(c), NEW p \in DOMAIN c.fs.fileOrigins
  PROVE  LET blob == c.fs.files[p].blob
         IN  /\ p \in DOMAIN c.fs.files /\ blob # NoBlob
             /\ Opens(KeyOfFile(Volume, c.keys[p]), blob)
             /\ GetFileByPath(c, p) = blob.holds
<1> DEFINE s == c.entries
           blob == c.fs.files[p].blob
<1>1. p \in DOMAIN c.fs.files
  BY LiveSource DEF Decipherable
<1>2. PICK i \in 1 .. Len(s) : Source(s, c.fs, p, i)
  BY LiveSource DEF Decipherable
<1>3. s[i] \in ToSet(s)
  BY DEF Decipherable, Legible, ToSet
<1>4. s[i].event.kind = "CREATE_FILE" /\ s[i].event.blob = blob /\ c.keys[p] = s[i].event.wrapped
  BY <1>2 DEF Source, Keyed, Decipherable
<1>5. blob # NoBlob /\ Opens(KeyOfFile(Volume, c.keys[p]), blob)
  BY <1>3, <1>4 DEF FittingLog, Fitting, Decipherable
<1>6. GetFileByPath(c, p) = Unseal(blob, KeyOfFile(Volume, c.keys[p]))
  BY <1>1, <1>5 DEF Decipherable, GetFileByPath, DecryptFileForVolume
<1> HIDE DEF blob
<1>7. GetFileByPath(c, p) = blob.holds
  BY <1>5, <1>6 DEF Unseal
<1> QED
  BY <1>1, <1>5, <1>7 DEF blob

LEMMA ContextReads ==
  ASSUME NEW c, Decipherable(c)
  PROVE  ReadsAsWritten(c)
<1> SUFFICES ASSUME NEW p \in DOMAIN c.fs.fileOrigins
             PROVE  LET blob   == c.fs.files[p].blob
                        origin == CHOOSE e \in ToSet(c.entries) : e.hash = c.fs.fileOrigins[p]
                    IN  /\ GetFileByPath(c, p) = blob.holds
                        /\ GetFile(c, blob) = {blob.holds}
                        /\ c.keys[p] # NoKey => RetrieveData(origin.event) = blob.holds
  BY DEF ReadsAsWritten
<1> DEFINE s == c.entries
           blob == c.fs.files[p].blob
           origin == CHOOSE e \in ToSet(s) : e.hash = c.fs.fileOrigins[p]
<1>1. /\ p \in DOMAIN c.fs.files /\ GetFileByPath(c, p) = blob.holds
      /\ Opens(KeyOfFile(Volume, c.keys[p]), blob)
  BY ReadsByPath
<1>2. GetFile(c, blob) = {blob.holds}
  <2>1. ASSUME NEW q \in DOMAIN c.fs.files, c.fs.files[q].blob = blob
        PROVE  GetFileByPath(c, q) = blob.holds
    <3>1. q \in DOMAIN c.fs.fileOrigins
      BY DEF Sound, FilesSound, Decipherable
    <3> QED
      BY <2>1, <3>1, ReadsByPath
  <2> HIDE DEF blob
  <2> QED
    BY <1>1, <2>1 DEF GetFile, blob
<1>3. ASSUME c.keys[p] # NoKey PROVE RetrieveData(origin.event) = blob.holds
  <2>1. PICK i \in 1 .. Len(s) : Source(s, c.fs, p, i)
    BY LiveSource DEF Decipherable
  <2>2. s[i] \in ToSet(s)
    BY DEF Decipherable, Legible, ToSet
  <2>3. origin = s[i]
    BY <2>1, <2>2 DEF Source
  <2>4. s[i].event.blob = blob /\ s[i].event.wrapped = c.keys[p]
    BY <2>1 DEF Source, Keyed, Decipherable
  <2> HIDE DEF origin, blob
  <2>5. RetrieveData(origin.event) = Unseal(blob, KeyOfFile(Volume, c.keys[p]))
    BY <1>3, <2>3, <2>4 DEF RetrieveData, KeyOfFile
  <2> QED
    BY <1>1, <2>5 DEF Unseal
<1> QED
  BY <1>1, <1>2, <1>3

-----------------------------------------------------------------------------
(* Keys of contexts *)

LEMMA ReplayIsKeyed ==
  /\ \A entries, fs : Keyed(ContextOf(entries, fs))
  /\ \A ctx, more : Keyed(Ingest(ctx, more))
<1>1. ASSUME NEW entries, NEW fs PROVE Keyed(ContextOf(entries, fs))
  <2> DEFINE keys == LiveEncryptedKeys(entries, fs)
             ctx == ContextOf(entries, fs)
  <2>1. ctx.entries = entries /\ ctx.fs = fs /\ ctx.keys = keys
    BY DEF ContextOf
  <2> HIDE DEF ctx, keys
  <2>2. Keyed(ctx)
    BY <2>1 DEF Keyed, keys
  <2> QED
    BY <2>2 DEF ctx
<1>2. ASSUME NEW ctx, NEW more
      PROVE  \E entries, fs : Ingest(ctx, more) = ContextOf(entries, fs)
  BY DEF Ingest, ReduceContext
<1> QED
  BY <1>1, <1>2

\* A clean log that can be read makes such a context.
LEMMA ReplayReads ==
  ASSUME NEW s, Legible(s), Clean(s), FittingLog(s)
  PROVE  Decipherable(ContextOf(s, Materialize(s)))
<1> DEFINE fs == Materialize(s)
           keys == LiveEncryptedKeys(s, fs)
           ctx == ContextOf(s, fs)
<1>1. ctx.entries = s /\ ctx.fs = fs /\ ctx.keys = keys
  BY DEF ContextOf
<1>2. Keyed(ctx)
  BY ReplayIsKeyed
<1>3. Sound(fs, WrittenIn(s))
  BY ReplaySound
<1>4. Refers(fs, HashesOf(s))
  BY MaterializeRefers DEF Legible
<1>5. DOMAIN fs.fileOrigins \subseteq DOMAIN keys
  <2> HIDE DEF fs
  <2> QED
    BY <1>4 DEF LiveEncryptedKeys, Refers
<1> HIDE DEF fs, keys, ctx
<1>6. DOMAIN ctx.fs.fileOrigins \subseteq DOMAIN ctx.keys
  BY <1>1, <1>5
<1>7. Decipherable(ctx)
  BY <1>1, <1>2, <1>3, <1>6 DEF Decipherable
<1> QED
  BY <1>7 DEF ctx, fs

\* The keys of an extended context are those of its live files, and more.
LEMMA ExtendIsKeyed ==
  ASSUME NEW log, StoredLog(log), NEW base, IsContext(log, base), NEW e,
         WrittenOn(log, base, e)
  PROVE  Keyed(ExtendContext(base, e))
<1> DEFINE tail == ExtendContext(base, e)
           entries == Append(base.entries, e)
           fs == Rematerialize(base, entries)
           own == IF e.event.kind = "CREATE_FILE"
                  THEN Put(base.keys, e.event.path, e.event.wrapped) ELSE base.keys
           live == LiveEncryptedKeys(entries, fs)
<1>1. Extended(log, base, e)
  BY ExtendIsContext
<1>2. /\ StoredLog(Append(log, e)) /\ IsContext(Append(log, e), tail)
      /\ tail.entries = entries /\ tail.fs = fs
  BY <1>1 DEF Extended
<1>3. OrderEventLogEntries(entries) = entries
  <2>1. ViewOf(ToSet(Append(log, e)), entries)
    BY <1>2 DEF IsContext
  <2> HIDE DEF entries
  <2> QED
    BY <1>2, <2>1, ViewIsOrdered
<1>4. e.hash \notin HashesOf(base.entries)
  <2>1. ToSet(base.entries) \subseteq ToSet(log)
        /\ HashesOf(base.entries) = {f.hash : f \in ToSet(base.entries)}
    BY ContextNamesItself
  <2>2. HashesOf(log) = {f.hash : f \in ToSet(log)}
    BY StoredNamesItself
  <2> QED
    BY <2>1, <2>2 DEF WrittenOn
<1>5. tail = [entries |-> entries, fs |-> fs, keys |-> PutAll(own, live)]
  BY <1>3, <1>4 DEF ExtendContext
<1>6. tail.keys = PutAll(own, live)
  <2> DEFINE keys == PutAll(own, live)
  <2> HIDE DEF tail, entries, fs, keys
  <2>1. tail.keys = keys
    BY <1>5 DEF keys
  <2> QED
    BY <2>1 DEF keys
<1>7. \A p \in DOMAIN fs.fileOrigins : fs.fileOrigins[p] \in HashesOf(entries)
  BY <1>2 DEF IsContext, Refers
<1> HIDE DEF own, fs, entries, tail
<1>8. DOMAIN fs.fileOrigins \subseteq DOMAIN live
  BY <1>7 DEF LiveEncryptedKeys
<1> HIDE DEF live
<1>9. \A p \in DOMAIN fs.fileOrigins : tail.keys[p] = live[p]
  BY <1>6, <1>8 DEF PutAll
<1>10. Keyed(tail)
  BY <1>2, <1>9 DEF Keyed, live
<1> QED
  BY <1>10 DEF tail

\* A step keeps the keys of the contexts.
KeysFit == Keyed(projected) /\ (replayTail # NoTail => Keyed(replayTail))

LEMMA NextKeyed ==
  ASSUME CInv, KeysFit, [Next]_vars
  PROVE  /\ Keyed(projected')
         /\ replayTail' # NoTail => Keyed(replayTail')
<1> DEFINE Kept == /\ Keyed(projected')
                   /\ replayTail' # NoTail => Keyed(replayTail')
<1> SUFFICES Kept
  OBVIOUS
<1>1. Keyed(CaughtUp)
  BY ReplayIsKeyed DEF CaughtUp, KeysFit
<1>2. \A log : OpenAnew(log) => Kept
  BY ReplayIsKeyed DEF OpenAnew
<1>3. ASSUME NEW now \in Times, NEW hash \in FreshHashes, NEW event \in LocalEvents(hash),
             Write(event, now, hash)
      PROVE  Kept
  <2> DEFINE entry == EntryOfCall(Served, event, now, hash)
  <2>1. event.kind \in FileVerbs /\ now \in Nat
    BY EventsAreFiles, TimesAreNumbers
  <2>2. WrittenOn(stored, Served, entry)
    BY <2>1, CallIsWritten DEF CInv
  <2>3. replayTail' = ExtendContext(Served, entry) /\ projected' = Ingest(CaughtUp, <<entry>>)
    BY <1>3 DEF Write, CommitReplayEntry
  <2>4. StoredLog(stored) /\ IsContext(stored, Served)
    BY ServedIsContext DEF CInv, SInv
  <2> HIDE DEF entry
  <2>5. Keyed(ExtendContext(Served, entry))
    BY <2>2, <2>4, ExtendIsKeyed
  <2> QED
    BY <2>3, <2>5, ReplayIsKeyed
<1>4. CASE UNCHANGED <<projected, replayTail>>
  BY <1>4 DEF KeysFit
<1>5. ASSUME NEW now, NEW hash, NEW path, StoreData(path, now, hash) \/ DeleteDirectly(path, now, hash)
      PROVE  Kept
  BY <1>4, <1>5 DEF StoreData, DeleteDirectly, WriteUnannounced
<1>6. ASSUME NEW now, NEW hash, NEW log, NEW event, PeerWrite(log, event, now, hash)
      PROVE  Kept
  BY <1>4, <1>6 DEF PeerWrite, WriteUnannounced
<1>7. CASE Read
  BY <1>1, <1>7 DEF Read, KeysFit
<1>8. CASE MarkReplayStale
  BY <1>8 DEF MarkReplayStale, KeysFit
<1> HIDE DEF Kept
<1> QED
  BY <1>2, <1>3, <1>4, <1>5, <1>6, <1>7, <1>8 DEF Next, vars, Restart, WriteCutShort

-----------------------------------------------------------------------------
(* Keys of what is written *)

LEMMA NextFits ==
  MarksAreNoSeals /\ CInv /\ FittingLog(stored) /\ [Next]_vars => FittingLog(stored')
<1> SUFFICES ASSUME MarksAreNoSeals, CInv, FittingLog(stored), [Next]_vars
             PROVE  FittingLog(stored')
  OBVIOUS
<1>1. CASE stored' = stored
  BY <1>1
<1>2. ASSUME NEW e, NEW hash, stored' = Append(stored, e), e.event \in LocalEvents(hash)
      PROVE  FittingLog(stored')
  <2>1. Fitting(e.event)
    BY <1>2, CallsFit
  <2>2. ToSet(stored') \subseteq ToSet(stored) \cup {e}
    BY <1>2, AppendAdds DEF CInv, SInv
  <2> QED
    BY <2>1, <2>2 DEF FittingLog
<1> QED
  BY <1>1, <1>2, NextWrites

LEMMA ChainFits ==
  ASSUME NEW log, StoredLog(log), FittingLog(log), NEW hashes, NEW chain,
         Chain(log, hashes, chain), NEW n \in 0 .. Len(chain),
         \A i \in 1 .. n : Fitting(chain[i].event)
  PROVE  FittingLog(log \o SubSeq(chain, 1, n))
<1>1. Chained(log, chain, n)
  BY ChainIsStored
<1> QED
  BY <1>1 DEF Chained, FittingLog

\* A file that is written anew has a key of its own that fits.
LEMMA UpgradeFits ==
  ASSUME MarksAreNoSeals, CInv, FittingLog(stored), NEW list \in PathLists, NEW now \in Nat,
         NEW k, NEW hashes, NewHashes(stored, hashes, k), Len(hashes) = k,
         NEW n \in DOMAIN hashes, UpgradeLegacyFilesForExport(list, now, hashes, n)
  PROVE  FittingLog(stored')
<1> DEFINE files == StoredFiles(LoadEventLog, Materialize(LoadEventLog))
           legacy == LegacyOf(list)
           chain == UpgradeEntries(list, now, hashes)
<1>1. /\ stored' = stored \o SubSeq(chain, 1, n) /\ Chain(stored, hashes, chain)
      /\ Len(chain) = k /\ Len(legacy) = k /\ n \in 1 .. k /\ k \in Nat
  BY UpgradeIsChain DEF CInv
<1>2. DOMAIN legacy = 1 .. k
  <2>1. DedupeOrderedFilenames(list) \in Seq(Paths)
    BY PathListsArePaths, PickedIsPart DEF DedupeOrderedFilenames, PickedSoFar
  <2>2. legacy \in Seq(Paths)
    BY <2>1, PickedIsPart DEF LegacyOf, ToUpgrade, PickedSoFar
  <2> HIDE DEF legacy
  <2> QED
    BY <1>1, <2>2
<1> HIDE DEF legacy, files
<1>3. ASSUME NEW i \in 1 .. n PROVE Fitting(chain[i].event)
  <2> DEFINE text == DecryptFileForVolume(Volume, files[legacy[i]].blob, NoKey)
             anew == EncryptFileForVolume(Volume, text, hashes[i])
  <2>1. i \in DOMAIN legacy
    BY <1>1, <1>2
  <2>2. chain[i].event = [kind |-> "CREATE_FILE", path |-> legacy[i], blob |-> anew.blob,
                          wrapped |-> anew.wrapped]
    <3>1. i \in DOMAIN LegacyOf(list)
      BY <2>1 DEF legacy
    <3> QED
      BY ONLY <3>1, UpgradeEvents DEF legacy, files
  <2>3. anew.blob # NoBlob /\ Opens(KeyOfFile(Volume, anew.wrapped), anew.blob)
    BY EncryptedFits
  <2> HIDE DEF chain, anew
  <2>4. chain[i].event.blob = anew.blob /\ chain[i].event.wrapped = anew.wrapped
    BY <2>2
  <2> QED
    BY <2>3, <2>4 DEF Fitting
<1> HIDE DEF chain
<1> QED
  BY <1>1, <1>3, ChainFits DEF CInv, SInv

\* What a bundle says of the keys of its items: those that open, fit.
ItemsFit(bundle) ==
  \A item \in ToSet(bundle.items) :
    ItemKey(bundle, item) # Failed =>
      item.blob # NoBlob /\ Opens(ItemKey(bundle, item), item.blob)

\* The items that are written are those that open.
LEMMA OpenableOpen ==
  ASSUME NEW bundle, Len(bundle.items) \in Nat, DOMAIN bundle.items = 1 .. Len(bundle.items)
  PROVE  /\ Openable(bundle) \in 0 .. Len(bundle.items)
         /\ \A i \in 1 .. Openable(bundle) : ItemKey(bundle, bundle.items[i]) # Failed
<1> DEFINE K == Len(bundle.items)
           shut == {n \in 1 .. K : ItemKey(bundle, bundle.items[n]) = Failed}
<1>1. Openable(bundle) = IF shut = {} THEN K ELSE Min(shut) - 1
  BY DEF Openable
<1>2. CASE shut = {}
  <2>1. Openable(bundle) = K /\ \A i \in 1 .. K : ItemKey(bundle, bundle.items[i]) # Failed
    BY <1>1, <1>2
  <2> QED
    BY <2>1
<1>3. CASE shut # {}
  <2> DEFINE m == Min(shut)
  <2>1. m \in shut /\ \A n \in shut : m <= n
    <3>1. shut \in SUBSET Nat
      OBVIOUS
    <3> HIDE DEF shut
    <3>2. PICK k \in shut : \A n \in shut : k <= n
      BY <1>3, <3>1, NatLeast
    <3> QED
      BY <3>1, <3>2 DEF Min
  <2>2. m \in 1 .. K /\ Openable(bundle) = m - 1
    BY <1>1, <1>3, <2>1
  <2> HIDE DEF m, shut
  <2>3. \A i \in 1 .. m - 1 : i \in 1 .. K /\ i \notin shut
    BY <2>1, <2>2
  <2>4. Openable(bundle) \in 0 .. K
    BY <2>2
  <2> QED
    BY <2>2, <2>3, <2>4 DEF shut
<1> QED
  BY <1>2, <1>3

LEMMA ImportFits ==
  ASSUME MarksAreNoSeals, CInv, FittingLog(stored), NEW bundle, IsBundle(bundle),
         ItemsFit(bundle), NEW now \in Nat, NEW hashes,
         NewHashes(stored, hashes, Len(bundle.items)), NEW n \in 0 .. Openable(bundle)
  PROVE  FittingLog(stored \o SubSeq(ImportedEntries(bundle, now, hashes), 1, n))
<1> DEFINE K == Len(bundle.items)
           names == ImportedNames(bundle.items,
                                  DOMAIN StoredFiles(LoadEventLog, Materialize(LoadEventLog)))
           chain == ImportedEntries(bundle, now, hashes)
<1>1. K \in Nat /\ DOMAIN bundle.items = 1 .. K
  BY DEF IsBundle
<1>2. Chain(stored, hashes, chain) /\ Len(chain) = K
  BY ImportedIsChain DEF CInv
<1>3. ASSUME NEW i \in 1 .. n PROVE Fitting(chain[i].event)
  <2> DEFINE item == bundle.items[i]
             key == ItemKey(bundle, item)
             wrapped == WrapFileKeyForVolume(Volume, key)
  <2>1. i \in 1 .. Openable(bundle) /\ i \in 1 .. K
    BY <1>1, OpenableOpen
  <2>2. i \in DOMAIN bundle.items /\ key # Failed
    BY <1>1, <2>1, OpenableOpen
  <2>3. item \in ToSet(bundle.items)
    BY <2>2 DEF ToSet
  <2>4. item.blob # NoBlob /\ Opens(key, item.blob)
    BY <2>2, <2>3 DEF ItemsFit
  <2>5. chain[i].event = [kind |-> "CREATE_FILE", path |-> names[i],
                          blob |-> item.blob, wrapped |-> wrapped]
    BY <2>2, ImportedEvents
  <2>6. KeyOfFile(Volume, wrapped) = key
    BY WrappedIsKey
  <2> HIDE DEF chain, item, names, wrapped, key
  <2>7. chain[i].event.blob = item.blob /\ chain[i].event.wrapped = wrapped
    BY <2>5
  <2> QED
    BY <2>4, <2>6, <2>7 DEF Fitting
<1> HIDE DEF chain
<1>4. FittingLog(stored \o SubSeq(chain, 1, n))
  <2>1. n \in 0 .. K
    BY <1>1, OpenableOpen
  <2> QED
    BY <1>2, <1>3, <2>1, ChainFits DEF CInv, SInv
<1> QED
  BY <1>4 DEF chain

-----------------------------------------------------------------------------
(* Keys of the files in the storage *)

StorageFiles == StoredFiles(LoadEventLog, Materialize(LoadEventLog))

\* What a reader of the storage finds, when its log is clean.
StorageContext == ContextOf(LoadEventLog, Materialize(LoadEventLog))

LEMMA StorageReads ==
  ASSUME CInv, FittingLog(stored), Clean(OrderFileKeys(stored))
  PROVE  /\ Decipherable(StorageContext)
         /\ StorageContext.entries = LoadEventLog
         /\ StorageContext.fs = Materialize(LoadEventLog)
         /\ StorageContext.keys = LiveEncryptedKeys(LoadEventLog, Materialize(LoadEventLog))
<1>1. StoredLog(stored) /\ ReadableLog(stored) /\ LoadEventLog = OrderFileKeys(stored)
  BY LoadIsOrder DEF CInv, SInv
<1>2. ViewOf(ToSet(stored), LoadEventLog) /\ ToSet(LoadEventLog) = ToSet(stored)
  BY <1>1, StoredIsView
<1>3. Legible(LoadEventLog) /\ Clean(LoadEventLog) /\ FittingLog(LoadEventLog)
  BY <1>1, <1>2, ViewIsLegible DEF FittingLog
<1>4. Decipherable(StorageContext)
  BY <1>3, ReplayReads DEF StorageContext
<1> QED
  BY <1>4 DEF StorageContext, ContextOf

\* Each has the block and the key a reader finds.
LEMMA StorageFilesFit ==
  ASSUME CInv, FittingLog(stored), Clean(OrderFileKeys(stored)), NEW p \in DOMAIN StorageFiles
  PROVE  LET file == StorageFiles[p]
             key  == KeyOfFile(Volume, file.wrapped)
         IN  /\ p \in DOMAIN StorageContext.fs.fileOrigins
             /\ file.blob # NoBlob /\ Opens(key, file.blob)
             /\ GetFileByPath(StorageContext, p) = Unseal(file.blob, key)
<1> DEFINE s == LoadEventLog
           fs == Materialize(s)
           ctx == StorageContext
           file == StorageFiles[p]
           blob == ctx.fs.files[p].blob
           keys == LiveEncryptedKeys(s, fs)
<1>1. Decipherable(ctx) /\ ctx.entries = s /\ ctx.fs = fs /\ ctx.keys = keys
  BY StorageReads
<1>2. p \in DOMAIN fs.fileOrigins /\ fs.fileOrigins[p] \in HashesOf(s)
  BY DEF StorageFiles, StoredFiles
<1>3. file.blob = fs.files[p].blob
  BY DEF StorageFiles, StoredFiles
<1>4. file.wrapped = keys[p]
  BY <1>2 DEF StorageFiles, StoredFiles, LiveEncryptedKeys
<1> HIDE DEF s, fs, ctx, file, keys
<1>5. /\ blob # NoBlob /\ Opens(KeyOfFile(Volume, ctx.keys[p]), blob)
      /\ GetFileByPath(ctx, p) = blob.holds
  BY <1>1, <1>2, ReadsByPath
<1>6. blob = file.blob /\ ctx.keys[p] = file.wrapped
  BY <1>1, <1>3, <1>4
<1> HIDE DEF blob
<1>7. GetFileByPath(ctx, p) = Unseal(file.blob, KeyOfFile(Volume, file.wrapped))
  BY <1>5, <1>6 DEF Unseal
<1>8. p \in DOMAIN ctx.fs.fileOrigins
  BY <1>1, <1>2
<1> QED
  BY <1>5, <1>6, <1>7, <1>8 DEF ctx, file

-----------------------------------------------------------------------------
(* Keys of bundles *)

\* A bundle of items, as they are made.
WellMade(bundle) ==
  /\ bundle = [protocol |-> bundle.protocol, id |-> bundle.id, items |-> bundle.items]
  /\ \A n \in DOMAIN bundle.items :
       LET item == bundle.items[n]
       IN  item = [name |-> item.name, createdAt |-> item.createdAt, id |-> item.id,
                   blob |-> item.blob, key |-> item.key]

\* A bundle that is let in says what it was given, ids in lower case.
LetIn(given, parsed) ==
  /\ parsed.protocol = given.protocol /\ parsed.id = LowerCase(given.id)
  /\ DOMAIN parsed.items = DOMAIN given.items
  /\ \A n \in DOMAIN given.items : /\ parsed.items[n].blob = given.items[n].blob
                                   /\ parsed.items[n].key = given.items[n].key
                                   /\ given.items[n].key # NoKey

LEMMA ParsedIsLetIn ==
  ASSUME NEW given, WellMade(given), ParseReferenceBundle(given) # Failed
  PROVE  LetIn(given, ParseReferenceBundle(given))
<1> DEFINE items == [n \in DOMAIN given.items |-> ParseReferenceItem(given.items[n])]
           parsed == ParseReferenceBundle(given)
<1>1. /\ parsed = [given EXCEPT !.id = LowerCase(given.id), !.items = items]
      /\ \A n \in DOMAIN items : items[n] # Failed
  BY DEF ParseReferenceBundle
<1>2. ASSUME NEW n \in DOMAIN given.items
      PROVE  /\ items[n].blob = given.items[n].blob /\ items[n].key = given.items[n].key
             /\ given.items[n].key # NoKey
  <2> DEFINE item == given.items[n]
  <2>1. item.key # NoKey /\ items[n] = [item EXCEPT !.id = LowerCase(@)]
    BY <1>1 DEF ParseReferenceItem
  <2>2. item = [name |-> item.name, createdAt |-> item.createdAt, id |-> item.id,
                blob |-> item.blob, key |-> item.key]
    BY DEF WellMade
  <2> HIDE DEF item, items
  <2>3. items[n].blob = item.blob /\ items[n].key = item.key
    BY <2>1, <2>2
  <2> QED
    BY <2>1, <2>3 DEF item
<1>3. DOMAIN items = DOMAIN given.items
  OBVIOUS
<1> HIDE DEF items, parsed
<1>4. parsed.protocol = given.protocol /\ parsed.id = LowerCase(given.id) /\ parsed.items = items
  BY <1>1 DEF WellMade
<1> QED
  BY <1>2, <1>3, <1>4 DEF LetIn, parsed

\* A bundle hands over the blocks of some files, each with its key.
HandsOver(bundle, paths, files) ==
  /\ DOMAIN bundle.items = DOMAIN paths
  /\ \A n \in DOMAIN paths :
       /\ bundle.items[n].blob = files[paths[n]].blob
       /\ ItemKey(bundle, bundle.items[n]) = KeyOfFile(Volume, files[paths[n]].wrapped)

LEMMA SourceIsWellMade ==
  ASSUME NEW files, NEW paths
  PROVE  WellMade(SourceBundle(paths, files))
<1> DEFINE given == SourceBundle(paths, files)
<1>1. given = [protocol |-> given.protocol, id |-> given.id, items |-> given.items]
  BY DEF SourceBundle
<1>2. ASSUME NEW n \in DOMAIN given.items
      PROVE  LET item == given.items[n]
             IN  item = [name |-> item.name, createdAt |-> item.createdAt, id |-> item.id,
                         blob |-> item.blob, key |-> item.key]
  BY DEF SourceBundle
<1> QED
  BY <1>1, <1>2 DEF WellMade

LEMMA RecipientIsWellMade ==
  ASSUME NEW files, NEW paths, NEW id
  PROVE  WellMade(RecipientBundle(paths, files, id))
<1> DEFINE given == RecipientBundle(paths, files, id)
<1>1. given = [protocol |-> given.protocol, id |-> given.id, items |-> given.items]
  BY DEF RecipientBundle
<1>2. ASSUME NEW n \in DOMAIN given.items
      PROVE  LET item == given.items[n]
             IN  item = [name |-> item.name, createdAt |-> item.createdAt, id |-> item.id,
                         blob |-> item.blob, key |-> item.key]
  BY DEF RecipientBundle
<1> QED
  BY <1>1, <1>2 DEF WellMade

\* The volume itself opens a source bundle of its files.
LEMMA SourceHandsOver ==
  ASSUME NEW files, NEW paths,
         ParseReferenceBundle(SourceBundle(paths, files)) # Failed
  PROVE  HandsOver(ParseReferenceBundle(SourceBundle(paths, files)), paths, files)
<1> DEFINE given == SourceBundle(paths, files)
           parsed == ParseReferenceBundle(given)
<1>1. LetIn(given, parsed)
  BY SourceIsWellMade, ParsedIsLetIn
<1>2. /\ given.protocol = "source" /\ given.id = OwnId
      /\ DOMAIN given.items = DOMAIN paths
      /\ \A n \in DOMAIN paths : /\ given.items[n].blob = files[paths[n]].blob
                                 /\ given.items[n].key = files[paths[n]].wrapped
  BY DEF SourceBundle
<1>3. LowerCase(OwnId).volume = Volume
  BY DEF LowerCase, OwnId, VolumeIdFromPublicKey
<1> HIDE DEF given, parsed
<1>4. parsed.protocol = "source" /\ parsed.id.volume = Volume /\ DOMAIN parsed.items = DOMAIN paths
  BY <1>1, <1>2, <1>3 DEF LetIn
<1>5. ASSUME NEW n \in DOMAIN paths
      PROVE  /\ parsed.items[n].blob = files[paths[n]].blob
             /\ ItemKey(parsed, parsed.items[n]) = KeyOfFile(Volume, files[paths[n]].wrapped)
  <2>1. /\ parsed.items[n].blob = files[paths[n]].blob
        /\ parsed.items[n].key = files[paths[n]].wrapped /\ files[paths[n]].wrapped # NoKey
    BY <1>1, <1>2 DEF LetIn
  <2> QED
    BY <1>4, <2>1 DEF ItemKey, KeyOfFile
<1> QED
  BY <1>4, <1>5 DEF HandsOver, given, parsed

\* A volume's own id is in lower case.
LEMMA LowerIsLower ==
  ASSUME NEW volume
  PROVE  LET id == VolumeIdFromPublicKey(volume)
         IN  id.volume = volume /\ LowerCase(id) = id
<1> DEFINE id == VolumeIdFromPublicKey(volume)
<1>1. id = [volume |-> volume, capitals |-> FALSE]
  BY DEF VolumeIdFromPublicKey
<1> HIDE DEF id
<1>2. id.volume = volume
  BY <1>1
<1>3. [id EXCEPT !.capitals = FALSE] = [volume |-> volume, capitals |-> FALSE]
  <2>1. \A c : [[volume |-> volume, capitals |-> c] EXCEPT !.capitals = c]
                 = [volume |-> volume, capitals |-> c]
    OBVIOUS
  <2> QED
    BY ONLY <1>1, <2>1, Zenon
<1> QED
  BY <1>1, <1>2, <1>3 DEF LowerCase, id

\* The volume a recipient bundle is made for opens it: the capsules hold for
\* the id and the block they were made with.
LEMMA RecipientHandsOver ==
  ASSUME MarksAreNoSeals, NEW volume, NEW files, NEW paths,
         \A n \in DOMAIN paths : files[paths[n]].wrapped # NoKey,
         ParseReferenceBundle(RecipientBundle(paths, files, VolumeIdFromPublicKey(volume))) # Failed
  PROVE  HandsOver(ParseReferenceBundle(RecipientBundle(paths, files, VolumeIdFromPublicKey(volume))),
                   paths, files)
<1> DEFINE id == VolumeIdFromPublicKey(volume)
           given == RecipientBundle(paths, files, id)
           parsed == ParseReferenceBundle(given)
           secret(n) == CapsuleKey(volume, id, files[paths[n]].blob)
           key(n) == UnwrapFileKeyForVolume(Volume, files[paths[n]].wrapped)
           w(n) == Seal(secret(n), key(n))
<1>1. LetIn(given, parsed)
  BY RecipientIsWellMade, ParsedIsLetIn
<1>2. id.volume = volume /\ LowerCase(id) = id
  BY LowerIsLower
<1>3. /\ given.protocol = "recipient" /\ given.id = LowerCase(id)
      /\ DOMAIN given.items = DOMAIN paths
  BY DEF RecipientBundle
<1>4. ASSUME NEW n \in DOMAIN paths
      PROVE  given.items[n].blob = files[paths[n]].blob /\ given.items[n].key = w(n)
  BY <1>2 DEF RecipientBundle, CreateRecipientKeyCapsule
<1>5. \A n : w(n) # Failed /\ w(n).key = secret(n) /\ w(n).holds = key(n)
  BY DEF MarksAreNoSeals, Seal
<1> HIDE DEF given, parsed, w
<1>6. parsed.protocol = "recipient" /\ parsed.id = id /\ DOMAIN parsed.items = DOMAIN paths
  BY <1>1, <1>2, <1>3 DEF LetIn
<1>7. ASSUME NEW n \in DOMAIN paths
      PROVE  /\ parsed.items[n].blob = files[paths[n]].blob
             /\ ItemKey(parsed, parsed.items[n]) = KeyOfFile(Volume, files[paths[n]].wrapped)
  <2> DEFINE blob == files[paths[n]].blob
             item == parsed.items[n]
  <2>1. item.blob = blob /\ item.key = w(n)
    BY <1>1, <1>3, <1>4 DEF LetIn
  <2>2. ItemKey(parsed, item) = Unseal([w |-> item.key].w, CapsuleKey(volume, id, item.blob))
    <3> HIDE DEF id, item
    <3> QED
      BY <1>2, <1>6 DEF ItemKey, UnwrapRecipientKeyCapsule
  <2>3. [w |-> item.key].w = w(n)
    BY <2>1
  <2>4. ItemKey(parsed, item) = Unseal(w(n), secret(n))
    BY <2>1, <2>2, <2>3
  <2>5. Unseal(w(n), secret(n)) = key(n)
    BY <1>5 DEF Unseal, Opens
  <2>6. key(n) = KeyOfFile(Volume, files[paths[n]].wrapped)
    BY DEF KeyOfFile
  <2> QED
    BY <2>1, <2>4, <2>5, <2>6
<1>8. HandsOver(parsed, paths, files)
  BY <1>6, <1>7 DEF HandsOver
<1> QED
  BY <1>8 DEF parsed, given, id

\* A bundle that is imported has keys that fit: so says who made it, or the
\* storage it is made of.
LEMMA ImportedItemsFit ==
  ASSUME MarksAreNoSeals, CInv, FittingLog(stored), Clean(OrderFileKeys(stored)),
         NEW given \in ForeignBundles \cup OwnBundles, ParseReferenceBundle(given) # Failed
  PROVE  ItemsFit(ParseReferenceBundle(given))
<1> DEFINE parsed == ParseReferenceBundle(given)
<1>1. CASE given \in ForeignBundles
  BY <1>1, ForeignKeysFit DEF ItemsFit
<1>2. ASSUME NEW paths \in ExportableLists(StorageFiles),
             HandsOver(parsed, paths, StorageFiles)
      PROVE  ItemsFit(parsed)
  <2> SUFFICES ASSUME NEW item \in ToSet(parsed.items), ItemKey(parsed, item) # Failed
               PROVE  item.blob # NoBlob /\ Opens(ItemKey(parsed, item), item.blob)
    BY DEF ItemsFit
  <2>1. PICK n \in DOMAIN paths : item = parsed.items[n]
    BY <1>2 DEF HandsOver, ToSet
  <2>2. paths[n] \in DOMAIN StorageFiles
    BY DEF ExportableLists
  <2>3. /\ item.blob = StorageFiles[paths[n]].blob
        /\ ItemKey(parsed, item) = KeyOfFile(Volume, StorageFiles[paths[n]].wrapped)
    <3> HIDE DEF parsed
    <3> QED
      BY <1>2, <2>1 DEF HandsOver
  <2> HIDE DEF parsed
  <2> QED
    BY <2>2, <2>3, StorageFilesFit
<1>3. ASSUME NEW paths \in ExportableLists(StorageFiles)
      PROVE  /\ given = SourceBundle(paths, StorageFiles) => ItemsFit(parsed)
             /\ given = RecipientBundle(paths, StorageFiles, OwnId) => ItemsFit(parsed)
  <2>1. \A n \in DOMAIN paths : StorageFiles[paths[n]].wrapped # NoKey
    BY DEF ExportableLists
  <2>2. given = SourceBundle(paths, StorageFiles) => HandsOver(parsed, paths, StorageFiles)
    BY SourceHandsOver
  <2>3. given = RecipientBundle(paths, StorageFiles, OwnId)
          => HandsOver(parsed, paths, StorageFiles)
    BY <2>1, RecipientHandsOver DEF OwnId
  <2> HIDE DEF parsed
  <2> QED
    BY <1>2, <2>2, <2>3
<1>4. CASE given \in OwnBundles
  <2>1. \E paths \in ExportableLists(StorageFiles) :
          \/ given = SourceBundle(paths, StorageFiles)
          \/ given = RecipientBundle(paths, StorageFiles, OwnId)
    BY <1>4 DEF OwnBundles, StorageFiles
  <2> QED
    BY <1>3, <2>1
<1> QED
  BY <1>1, <1>4

LEMMA ExchangeFits ==
  ASSUME MarksAreNoSeals, CInv, FittingLog(stored), Clean(OrderFileKeys(stored)),
         NEW now \in Times, NEW k \in 1 .. Room,
         NEW hashes \in {h \in [1 .. k -> FreshHashes] : IsInjective(h)}, Exchange(now, hashes)
  PROVE  FittingLog(stored')
<1>1. /\ now \in Nat /\ k \in Nat /\ Len(hashes) = k /\ DOMAIN hashes = 1 .. k
      /\ NewHashes(stored, hashes, k)
  BY ExchangeHashes, TimesAreNumbers
<1>2. ASSUME NEW list \in PathLists, NEW n \in DOMAIN hashes,
             UpgradeLegacyFilesForExport(list, now, hashes, n)
      PROVE  FittingLog(stored')
  BY <1>1, <1>2, UpgradeFits
<1>3. ASSUME NEW given \in ForeignBundles \cup OwnBundles, NEW bundle,
             bundle = ParseReferenceBundle(given), bundle # Failed,
             Len(hashes) = Len(bundle.items)
      PROVE  /\ ImportReferences(bundle, now, hashes) => FittingLog(stored')
             /\ \A n \in DOMAIN hashes : ImportFails(bundle, now, hashes, n) => FittingLog(stored')
  <2> DEFINE chain == ImportedEntries(bundle, now, hashes)
  <2>1. IsBundle(bundle) /\ ItemsFit(bundle)
    BY <1>3, ParsedIsBundle, ImportedItemsFit DEF CInv
  <2>2. NewHashes(stored, hashes, Len(bundle.items))
    BY <1>1, <1>3
  <2>3. ASSUME NEW n \in 0 .. Openable(bundle) PROVE FittingLog(stored \o SubSeq(chain, 1, n))
    BY <1>1, <2>1, <2>2, ImportFits
  <2>4. SubSeq(chain, 1, k) = chain
    <3>1. Chain(stored, hashes, chain) /\ Len(chain) = k
      BY <1>1, <1>3, <2>1, <2>2, ImportedIsChain DEF CInv
    <3> QED
      BY <3>1, FrontGrows DEF Chain
  <2>5. Openable(bundle) \in Nat
    <3>1. Openable(bundle) \in 0 .. Len(bundle.items)
      BY <2>1, OpenableOpen DEF IsBundle
    <3> QED
      BY <3>1
  <2>6. ASSUME ImportReferences(bundle, now, hashes) PROVE FittingLog(stored')
    <3>1. stored' = stored \o chain /\ Openable(bundle) = k
      BY <1>3, <2>6 DEF ImportReferences
    <3> HIDE DEF chain
    <3>2. k \in 0 .. Openable(bundle)
      BY <1>1, <3>1
    <3>3. FittingLog(stored \o SubSeq(chain, 1, k))
      BY <2>3, <3>2
    <3> QED
      BY <2>4, <3>1, <3>3
  <2>7. ASSUME NEW n \in DOMAIN hashes, ImportFails(bundle, now, hashes, n)
        PROVE  FittingLog(stored')
    <3>1. stored' = stored \o SubSeq(chain, 1, n) /\ n \in 1 .. Openable(bundle)
      BY <2>7 DEF ImportFails
    <3>2. n \in 0 .. Openable(bundle)
      BY <2>5, <3>1
    <3> HIDE DEF chain
    <3> QED
      BY <2>3, <3>1, <3>2
  <2> QED
    BY <2>6, <2>7
<1> QED
  BY <1>2, <1>3 DEF Exchange

-----------------------------------------------------------------------------
(* Theorems: contexts are replays *)

LEMMA InitReplayed == Init => CInv
<1> SUFFICES ASSUME Init PROVE CInv
  OBVIOUS
<1>1. SInv /\ StoredLog(stored) /\ projected = Ingest(InitialContext, stored) /\ replayTail = NoTail
  BY InitHolds DEF Init, SInv
<1>2. ReadableLog(stored)
  <2>1. stored \in FirstLogs
    BY DEF Init
  <2>2. \A i \in DOMAIN stored : Readable(stored[i])
    BY <2>1, FirstFilesRead DEF Readable
  <2> QED
    BY <2>2 DEF ReadableLog, ToSet
<1>3. IsContext(stored, InitialContext) /\ InitialContext.entries = <<>>
  BY <1>1, InitialIsContext
<1>4. LogOf(ToSet(stored), stored) /\ ToSet(<<>>) = {} /\ NamesItself(ToSet(stored))
  BY <1>1, NothingIsLog, StoredNamesItself DEF StoredLog
<1>5. ToSet(InitialContext.entries) \cup ToSet(stored) = ToSet(stored)
  BY <1>3, <1>4
<1>6. NamesItself(ToSet(InitialContext.entries) \cup ToSet(stored))
  BY <1>4, <1>5, Zenon
<1>7. Replayed(Ingest(InitialContext, stored))
  BY <1>1, <1>2, <1>3, <1>4, <1>6, InitialReplayed, IngestReplayed
<1> QED
  BY <1>1, <1>2, <1>7 DEF CInv

LEMMA ReferencesKeepReplays == CopiesAreNames /\ CInv /\ [ReferencesNext]_vars => CInv'
<1> SUFFICES ASSUME CopiesAreNames, CInv, [ReferencesNext]_vars PROVE CInv'
  OBVIOUS
<1>1. SInv'
  BY ReferencesKeepInv DEF CInv
<1>2. ASSUME [Next]_vars PROVE CInv'
  <2>1. ReadableLog(stored') /\ Replayed(projected')
        /\ (replayTail' # NoTail => Replayed(replayTail'))
    BY <1>2, NextReadable, NextReplayed
  <2> QED
    BY <1>1, <2>1 DEF CInv, ReadableLog, Replayed
<1>3. ASSUME NEW now \in Times, NEW k \in 1 .. Room,
             NEW hashes \in {h \in [1 .. k -> FreshHashes] : IsInjective(h)}, Exchange(now, hashes)
      PROVE  CInv'
  <2>1. /\ ReadableLog(stored') /\ UNCHANGED projected
        /\ UNCHANGED replayTail \/ replayTail' = NoTail
    BY <1>3, ExchangeReadable
  <2> QED
    BY <1>1, <2>1 DEF CInv, ReadableLog, Replayed
<1> QED
  BY <1>2, <1>3 DEF ReferencesNext

\* However the service came to its contexts, by a snapshot, a catch-up, an
\* ingested event or a tail it extended, each has the volume a replay of its log
\* from the first event makes, as far as that log is clean; and all that is
\* written is about paths, the names an import chooses too.
THEOREM ReplaysInvariant ==
  ASSUME CopiesAreNames
  PROVE  ReferencesSpec => []CInv
<1>1. Init => CInv
  BY InitReplayed
<1>2. CInv /\ [ReferencesNext]_vars => CInv'
  BY ReferencesKeepReplays
<1> QED
  BY <1>1, <1>2, PTL DEF ReferencesSpec

\* What a view of all of a context shows.
LEMMA ThroughAll ==
  ASSUME NEW log, NEW ctx, IsContext(log, ctx)
  PROVE  ReplayContextThrough(ctx, Len(ctx.entries)).fs = Materialize(ctx.entries)
<1>1. ctx.entries \in Seq(ToSet(log))
  BY ContextNamesItself DEF LogOf
<1>2. SubSeq(ctx.entries, 1, Len(ctx.entries)) = ctx.entries
  BY <1>1, FrontGrows
<1> QED
  BY <1>2 DEF ReplayContextThrough, ContextOf

\* The caches of the service are not seen: as long as no context has a live
\* file that was renamed onto a directory it was in, every context is the replay
\* of its log.
THEOREM CachesAreReplays ==
  ASSUME CopiesAreNames
  PROVE  ReferencesSpec => []((\A ctx \in Contexts : Clean(ctx.entries)) => ContextsAreReplays)
<1>1. CInv => ((\A ctx \in Contexts : Clean(ctx.entries)) => ContextsAreReplays)
  <2> SUFFICES ASSUME CInv, \A ctx \in Contexts : Clean(ctx.entries), NEW ctx \in Contexts
               PROVE  ctx.fs = ReplayContextThrough(ctx, Len(ctx.entries)).fs
    BY DEF ContextsAreReplays
  <2>1. IsContext(stored, ctx) /\ Replayed(ctx)
    BY DEF Contexts, CInv, SInv
  <2> QED
    BY <2>1, ThroughAll DEF Replayed
<1> QED
  BY <1>1, ReplaysInvariant, PTL

\* What the service serves when it was told of everything is what a reader of
\* the storage finds, whatever the storage went through in between.
THEOREM ServedIsWhatIsStored ==
  ASSUME CopiesAreNames
  PROVE  ReferencesSpec => [](Clean(OrderFileKeys(stored)) => ServedIsStorage)
<1>1. CInv => (Clean(OrderFileKeys(stored)) => ServedIsStorage)
  <2> SUFFICES ASSUME CInv, Clean(OrderFileKeys(stored)), unannounced = {}
               PROVE  Served.fs = LoadContext(InitialContext, stored).fs
    BY DEF ServedIsStorage
  <2> DEFINE order == OrderFileKeys(stored)
  <2>1. StoredLog(stored) /\ ReadableLog(stored) /\ SInv
    BY DEF CInv, SInv
  <2>2. /\ ViewOf(ToSet(stored), order) /\ ToSet(order) = ToSet(stored)
    BY <2>1, StoredIsView
  <2>3. IsContext(stored, Served) /\ Replayed(Served) /\ Served.entries = CaughtUp.entries
    BY <2>1, ServedIsContext, ServedReplayed
  <2>4. ToSet(CaughtUp.entries) = ToSet(stored)
    <3>1. CASE dirty
      BY <2>1, <3>1, ServedIsContext
    <3>2. CASE ~dirty
      <4>1. CaughtUp = projected
        BY <2>1, <3>2, ServedIsContext
      <4>2. ToSet(stored) \subseteq ToSet(projected.entries)
        BY <2>1, <3>2 DEF SInv
      <4>3. ToSet(projected.entries) \subseteq ToSet(stored)
        BY <2>1, ContextNamesItself DEF SInv
      <4> QED
        BY <4>1, <4>2, <4>3
    <3> QED
      BY <3>1, <3>2
  <2> HIDE DEF order
  <2>5. Served.entries = order
    <3>1. ViewOf(ToSet(stored), Served.entries) /\ ToSet(Served.entries) = ToSet(order)
      BY <2>2, <2>3, <2>4 DEF IsContext
    <3> QED
      BY <2>1, <2>2, <3>1, SameSetSameView
  <2>6. Served.fs = Materialize(order)
    BY <2>3, <2>5 DEF Replayed, order
  <2>7. LoadContext(InitialContext, stored).fs = Rematerialize(InitialContext, order)
    BY <2>1, LoadIsContext DEF order
  <2>8. Rematerialize(InitialContext, order) = Materialize(order)
    <3>1. Legible(order) /\ Clean(order)
      BY <2>1, <2>2, ViewIsLegible DEF order
    <3>2. IsContext(stored, InitialContext)
      BY <2>1, InitialIsContext
    <3> QED
      BY <3>1, <3>2, InitialReplayed, RematerializeReplayed
  <2> QED
    BY <2>6, <2>7, <2>8
<1> QED
  BY <1>1, ReplaysInvariant, PTL

\* A write, and no other step, makes a new tail.
LEMMA NewTailIsWrite ==
  ASSUME CInv, [ReferencesNext]_vars, replayTail' # NoTail, replayTail' # replayTail
  PROVE  \E entry : /\ WrittenOn(stored, Served, entry) /\ stored' = Append(stored, entry)
                    /\ replayTail' = ExtendContext(Served, entry)
<1>1. ASSUME NEW now \in Times, NEW hash \in FreshHashes, NEW event \in LocalEvents(hash),
             Write(event, now, hash)
      PROVE  LET entry == EntryOfCall(Served, event, now, hash)
             IN  /\ WrittenOn(stored, Served, entry) /\ stored' = Append(stored, entry)
                 /\ replayTail' = ExtendContext(Served, entry)
  <2> DEFINE entry == EntryOfCall(Served, event, now, hash)
  <2>1. event.kind \in FileVerbs /\ now \in Nat
    BY EventsAreFiles, TimesAreNumbers
  <2>2. WrittenOn(stored, Served, entry)
    BY <2>1, CallIsWritten DEF CInv
  <2>3. stored' = Append(stored, entry) /\ replayTail' = ExtendContext(Served, entry)
    BY <1>1 DEF Write, CommitReplayEntry
  <2> QED
    BY <2>2, <2>3
<1>2. ASSUME [Next]_vars
      PROVE  \E now \in Times, hash \in FreshHashes : \E event \in LocalEvents(hash) :
               Write(event, now, hash)
  BY <1>2 DEF Next, vars, Read, MarkReplayStale, Restart, WriteCutShort, OpenAnew, StoreData,
              DeleteDirectly, PeerWrite, WriteUnannounced
<1>3. ASSUME NEW now, NEW hashes, Exchange(now, hashes) PROVE FALSE
  BY <1>3 DEF Exchange, UpgradeLegacyFilesForExport, ImportReferences, ImportFails
<1> QED
  BY <1>1, <1>2, <1>3 DEF ReferencesNext

\* A call that writes changes the volume its caller was served by its own event
\* and by nothing else, whatever it had to catch up with and whatever clocks
\* showed; as long as no live file is renamed onto a directory it is in.
THEOREM WritesActOnServed ==
  ASSUME CopiesAreNames
  PROVE  ReferencesSpec /\ []Clean(Served.entries) => WriteActsOnServed
<1> DEFINE Acts == replayTail' # NoTail /\ replayTail' # replayTail =>
                     LET entry == stored'[Len(stored')]
                     IN  replayTail'.fs = Apply(Served.fs, entry.hash, entry.event)
<1>1. CInv /\ CInv' /\ Clean(Served.entries) /\ Clean(Served.entries)' /\ [ReferencesNext]_vars
        => [Acts]_vars
  <2> SUFFICES ASSUME CInv, CInv', Clean(Served.entries), Clean(Served.entries)',
                      [ReferencesNext]_vars, replayTail' # NoTail, replayTail' # replayTail
               PROVE  LET entry == stored'[Len(stored')]
                      IN  replayTail'.fs = Apply(Served.fs, entry.hash, entry.event)
    OBVIOUS
  <2>1. PICK entry : /\ WrittenOn(stored, Served, entry) /\ stored' = Append(stored, entry)
                     /\ replayTail' = ExtendContext(Served, entry)
    BY NewTailIsWrite
  <2>2. StoredLog(stored) /\ IsContext(stored, Served) /\ Replayed(Served)
    BY ServedIsContext, ServedReplayed DEF CInv, SInv
  <2>3. replayTail'.entries = Append(Served.entries, entry)
    <3>1. Extended(stored, Served, entry)
      BY <2>1, <2>2, ExtendIsContext
    <3>2. ExtendContext(Served, entry).entries = Append(Served.entries, entry)
      BY <3>1 DEF Extended
    <3> QED
      BY ONLY <2>1, <3>2
  <2>4. Served.entries \in Seq(ToSet(stored)) /\ stored \in Seq(ToSet(stored))
    BY <2>2, ContextNamesItself DEF LogOf, StoredLog
  <2>5. stored'[Len(stored')] = entry
    BY <2>1, <2>4
  <2>6. Served.fs = Materialize(Served.entries)
    BY <2>2 DEF Replayed
  <2>7. replayTail'.fs = Materialize(replayTail'.entries)
    <3>1. Clean(replayTail'.entries)
      BY DEF Served, Clean
    <3> QED
      BY <3>1 DEF CInv, Replayed
  <2>8. Materialize(Append(Served.entries, entry))
          = Apply(Materialize(Served.entries), entry.hash, entry.event)
    BY <2>4, ReplayLast DEF Materialize
  <2> QED
    BY <2>3, <2>5, <2>6, <2>7, <2>8
<1> QED
  BY <1>1, ReplaysInvariant, PTL DEF ReferencesSpec, WriteActsOnServed

-----------------------------------------------------------------------------
(* Theorem: files read as they were written *)

\* The storage has files whose keys fit, and contexts have those keys.
FInv == CInv /\ FittingLog(stored) /\ KeysFit

\* No live file was renamed onto a directory it was in, neither in the storage
\* nor in a context.
AllClean == Clean(OrderFileKeys(stored)) /\ \A ctx \in Contexts : Clean(ctx.entries)

LEMMA InitFits == Init => FInv
<1> SUFFICES ASSUME Init PROVE FInv
  OBVIOUS
<1>1. CInv
  BY InitReplayed
<1>2. FittingLog(stored)
  <2>1. stored \in FirstLogs
    BY DEF Init
  <2>2. \A i \in DOMAIN stored : Fitting(stored[i].event)
    BY <2>1, FirstFilesRead DEF Fitting
  <2> QED
    BY <2>2 DEF FittingLog, ToSet
<1>3. KeysFit
  BY ReplayIsKeyed DEF Init, KeysFit
<1> QED
  BY <1>1, <1>2, <1>3 DEF FInv

LEMMA ReferencesKeepFit ==
  CopiesAreNames /\ MarksAreNoSeals /\ FInv /\ AllClean /\ [ReferencesNext]_vars => FInv'
<1> SUFFICES ASSUME CopiesAreNames, MarksAreNoSeals, FInv, AllClean, [ReferencesNext]_vars
             PROVE  FInv'
  OBVIOUS
<1>1. CInv'
  BY ReferencesKeepReplays DEF FInv
<1>2. ASSUME [Next]_vars PROVE FInv'
  <2>1. FittingLog(stored')
    BY <1>2, NextFits DEF FInv
  <2>2. /\ Keyed(projected')
        /\ replayTail' # NoTail => Keyed(replayTail')
    BY <1>2, NextKeyed DEF FInv
  <2> QED
    BY <1>1, <2>1, <2>2 DEF FInv, FittingLog, KeysFit, Keyed
<1>3. ASSUME NEW now \in Times, NEW k \in 1 .. Room,
             NEW hashes \in {h \in [1 .. k -> FreshHashes] : IsInjective(h)}, Exchange(now, hashes)
      PROVE  FInv'
  <2>1. FittingLog(stored')
    BY <1>3, ExchangeFits DEF FInv, AllClean
  <2>2. UNCHANGED projected /\ (UNCHANGED replayTail \/ replayTail' = NoTail)
    BY <1>3, ExchangeReadable DEF FInv
  <2> QED
    BY <1>1, <2>1, <2>2 DEF FInv, FittingLog, KeysFit, Keyed
<1> QED
  BY <1>2, <1>3 DEF ReferencesNext

\* A context, and what it shows of its past, reads as it was written.
LEMMA ContextAndPastRead ==
  ASSUME FInv, AllClean, NEW ctx \in Contexts,
         NEW c \in {ctx} \cup {ReplayContextThrough(ctx, n) : n \in 1 .. Len(ctx.entries) - 1}
  PROVE  ReadsAsWritten(c)
<1> DEFINE s == ctx.entries
<1>1. /\ IsContext(stored, ctx) /\ Replayed(ctx) /\ Keyed(ctx) /\ Clean(s)
      /\ StoredLog(stored) /\ ReadableLog(stored)
  BY DEF Contexts, FInv, CInv, SInv, KeysFit, AllClean
<1>2. Legible(s) /\ Len(s) \in Nat
  BY <1>1, ViewIsLegible DEF IsContext, Legible
<1>3. FittingLog(s)
  <2>1. ToSet(s) \subseteq ToSet(stored)
    BY <1>1, ContextNamesItself
  <2> QED
    BY <2>1 DEF FInv, FittingLog
<1>4. CASE c = ctx
  <2>1. Sound(ctx.fs, WrittenIn(s))
    BY <1>1, <1>2, ReplaySound DEF Replayed
  <2>2. Decipherable(ctx)
    BY <1>1, <1>2, <1>3, <2>1 DEF Decipherable, IsContext
  <2> QED
    BY <1>4, <2>2, ContextReads
<1>5. ASSUME NEW n \in 1 .. Len(s) - 1, c = ReplayContextThrough(ctx, n)
      PROVE  ReadsAsWritten(c)
  <2> DEFINE front == SubSeq(s, 1, n)
  <2>1. c = ContextOf(front, Materialize(front))
    BY <1>5 DEF ReplayContextThrough
  <2>2. n \in 0 .. Len(s) /\ n \in Nat
    BY <1>2
  <2>3. Legible(front) /\ Clean(front)
    BY <1>1, <1>2, <2>2, LegibleFront
  <2>4. FittingLog(front)
    <3>1. \A i \in 1 .. n : i \in 1 .. Len(s) /\ front[i] = s[i]
      BY <1>2, <2>2 DEF Legible
    <3>2. DOMAIN front = 1 .. n /\ DOMAIN s = 1 .. Len(s)
      BY <1>2, <2>2, LegibleFront DEF Legible
    <3> HIDE DEF front
    <3> QED
      BY <1>3, <3>1, <3>2 DEF FittingLog, ToSet
  <2> HIDE DEF front
  <2>5. Decipherable(c)
    BY <2>1, <2>3, <2>4, ReplayReads
  <2> QED
    BY <2>5, ContextReads
<1> QED
  BY <1>4, <1>5

\* As long as no live file is renamed onto a directory it is in, every file of
\* every context reads as it was written, by its path, by its block and from
\* its event, in views of the past too: whatever moved it, whatever was imported
\* or given a key, in whichever order the events came to be.
THEOREM FilesRead ==
  ASSUME CopiesAreNames, MarksAreNoSeals
  PROVE  ReferencesSpec /\ []AllClean => []FilesReadAsWritten
<1>1. Init => FInv
  BY InitFits
<1>2. FInv /\ AllClean /\ [ReferencesNext]_vars => FInv'
  BY ReferencesKeepFit
<1>3. FInv /\ AllClean => FilesReadAsWritten
  BY ContextAndPastRead DEF FilesReadAsWritten, ReadsAsWritten
<1> QED
  BY <1>1, <1>2, <1>3, PTL DEF ReferencesSpec

-----------------------------------------------------------------------------
(* Theorem: bundles are let in, and open *)

\* What is left of a list of paths names each of them once.
LEMMA DedupedAreDistinct ==
  ASSUME NEW list \in PathLists
  PROVE  DedupeOrderedFilenames(list) \in Seq(Paths) /\ IsInjective(DedupeOrderedFilenames(list))
<1> DEFINE paths == DedupeOrderedFilenames(list)
           places == {n \in DOMAIN list : \A i \in 1 .. n - 1 : list[i] # list[n]}
<1>1. list \in Seq(Paths) /\ Len(list) \in Nat /\ DOMAIN list = 1 .. Len(list)
  BY PathListsArePaths
<1>2. ASSUME NEW i \in places, NEW j \in places, list[i] = list[j] PROVE i = j
  <2>1. i \in Nat \ {0} /\ j \in Nat \ {0}
    BY <1>1
  <2>2. i < j => i \in 1 .. j - 1
    BY <2>1
  <2>3. j < i => j \in 1 .. i - 1
    BY <2>1
  <2> QED
    BY <1>2, <2>1, <2>2, <2>3
<1>3. PickedSoFar(Paths, list, places, Len(list), paths)
  BY <1>1, PickedIsPart DEF DedupeOrderedFilenames
<1> HIDE DEF places, paths
<1>4. paths \in Seq(Paths) /\ IsInjective(paths)
  BY <1>2, <1>3 DEF PickedSoFar, Apart
<1> QED
  BY <1>4 DEF paths

\* A list of files to export names each of them once.
LEMMA ListsAreDistinct ==
  ASSUME NEW files, NEW paths \in ExportableLists(files)
  PROVE  /\ Len(paths) \in Nat \ {0} /\ DOMAIN paths = 1 .. Len(paths)
         /\ \A i, j \in 1 .. Len(paths) : paths[i] = paths[j] => i = j
<1>1. PICK list \in PathLists : paths = DedupeOrderedFilenames(list) /\ paths # <<>>
  BY DEF ExportableLists
<1>2. paths \in Seq(Paths) /\ IsInjective(paths)
  BY <1>1, DedupedAreDistinct
<1> QED
  BY <1>1, <1>2 DEF IsInjective

\* A bundle of items of its own volume, no two of a name, is let in.
LEMMA ParserLetsIn ==
  ASSUME RecordsAreNoFailures, NEW given, WellMade(given), NEW K \in Nat \ {0},
         DOMAIN given.items = 1 .. K,
         \A n \in 1 .. K : /\ given.items[n].key # NoKey
                           /\ LowerCase(given.items[n].id) = LowerCase(given.id),
         \A i, j \in 1 .. K : given.items[i].name = given.items[j].name => i = j
  PROVE  ParseReferenceBundle(given) # Failed
<1> DEFINE items == [n \in DOMAIN given.items |-> ParseReferenceItem(given.items[n])]
           names == {given.items[n].name : n \in DOMAIN items}
           id == LowerCase(given.id)
           parsed == [given EXCEPT !.id = id, !.items = items]
<1>1. DOMAIN items = 1 .. K /\ Len(items) = K /\ items # <<>>
  <2>1. DOMAIN items = 1 .. K
    OBVIOUS
  <2>2. items \in Seq({items[n] : n \in 1 .. K}) /\ Len(items) = K
    <3>1. items \in [1 .. K -> {items[n] : n \in 1 .. K}]
      BY <2>1
    <3> HIDE DEF items
    <3> QED
      BY <3>1
  <2> HIDE DEF items
  <2> QED
    BY <2>1, <2>2
<1>2. Cardinality(names) = K
  <2> DEFINE f == [n \in 1 .. K |-> given.items[n].name]
  <2>1. names = {f[n] : n \in 1 .. K}
    BY <1>1
  <2>2. /\ f = [n \in 1 .. K |-> f[n]]
        /\ \A i, j \in 1 .. K : f[i] = f[j] => i = j
    OBVIOUS
  <2> HIDE DEF f, names
  <2>3. IsFiniteSet(1 .. K) /\ Cardinality(1 .. K) = K
    BY ONLY K \in Nat \ {0}, FS_Interval
  <2>4. f \in [1 .. K -> names]
    BY <2>1, <2>2
  <2>5. f \in Surjection(1 .. K, names)
    BY <2>1, <2>4 DEF Surjection
  <2>6. f \in Injection(1 .. K, names)
    BY <2>2, <2>4 DEF Injection, IsInjective
  <2> QED
    BY <2>3, <2>5, <2>6, FS_Surjection
<1>3. ASSUME NEW n \in 1 .. K PROVE items[n] # Failed /\ items[n].id = id
  <2> DEFINE item == given.items[n]
             out == [name |-> item.name, createdAt |-> item.createdAt,
                     id |-> LowerCase(item.id), blob |-> item.blob, key |-> item.key]
  <2>1. item = [name |-> item.name, createdAt |-> item.createdAt, id |-> item.id,
                blob |-> item.blob, key |-> item.key]
    BY DEF WellMade
  <2>2. items[n] = [item EXCEPT !.id = LowerCase(@)]
    BY DEF ParseReferenceItem
  <2>3. LowerCase(item.id) = id
    OBVIOUS
  <2> HIDE DEF item, items, id
  <2>4. items[n] = out
    BY <2>1, <2>2
  <2>5. out # Failed
    BY DEF RecordsAreNoFailures
  <2>6. out.id = id
    BY <2>3
  <2> HIDE DEF out
  <2> QED
    BY <2>4, <2>5, <2>6
<1>4. parsed # Failed
  <2> HIDE DEF id, items
  <2>1. parsed = [protocol |-> given.protocol, id |-> id, items |-> items]
    <3>1. parsed \in [protocol : {given.protocol}, id : {id}, items : {items}]
      BY DEF WellMade
    <3> HIDE DEF parsed
    <3> QED
      BY <3>1
  <2> HIDE DEF parsed
  <2> QED
    BY <2>1 DEF RecordsAreNoFailures
<1>5. ParseReferenceBundle(given)
        = IF /\ items # <<>>
             /\ Cardinality(names) = Len(items)
             /\ \A n \in DOMAIN items : items[n] # Failed /\ items[n].id = id
          THEN parsed ELSE Failed
  BY DEF ParseReferenceBundle
<1> HIDE DEF items, names, id, parsed
<1> QED
  BY <1>1, <1>2, <1>3, <1>4, <1>5

\* Both bundles of a list of files are let in.
LEMMA MadeAreLetIn ==
  ASSUME MarksAreNoSeals, RecordsAreNoFailures, NEW files, NEW volume,
         NEW paths \in ExportableLists(files)
  PROVE  /\ ParseReferenceBundle(SourceBundle(paths, files)) # Failed
         /\ ParseReferenceBundle(RecipientBundle(paths, files, VolumeIdFromPublicKey(volume)))
              # Failed
<1> DEFINE K == Len(paths)
<1>1. /\ K \in Nat \ {0} /\ DOMAIN paths = 1 .. K
      /\ \A i, j \in 1 .. K : paths[i] = paths[j] => i = j
  BY ListsAreDistinct
<1>2. \A n \in 1 .. K : files[paths[n]].wrapped # NoKey
  BY <1>1 DEF ExportableLists
<1> HIDE DEF K
<1>3. ParseReferenceBundle(SourceBundle(paths, files)) # Failed
  <2> DEFINE given == SourceBundle(paths, files)
  <2>1. WellMade(given)
    BY SourceIsWellMade
  <2>2. /\ given.id = OwnId /\ DOMAIN given.items = 1 .. K
        /\ \A n \in 1 .. K : /\ given.items[n].name = paths[n] /\ given.items[n].id = OwnId
                             /\ given.items[n].key = files[paths[n]].wrapped
    BY <1>1 DEF SourceBundle
  <2> HIDE DEF given
  <2>3. \A n \in 1 .. K : /\ given.items[n].key # NoKey
                          /\ LowerCase(given.items[n].id) = LowerCase(given.id)
    BY <1>2, <2>2
  <2>4. \A i, j \in 1 .. K : given.items[i].name = given.items[j].name => i = j
    BY <1>1, <2>2
  <2>5. ParseReferenceBundle(given) # Failed
    BY <1>1, <2>1, <2>2, <2>3, <2>4, ParserLetsIn
  <2> QED
    BY <2>5 DEF given
<1>4. ParseReferenceBundle(RecipientBundle(paths, files, VolumeIdFromPublicKey(volume))) # Failed
  <2> DEFINE id == VolumeIdFromPublicKey(volume)
             given == RecipientBundle(paths, files, id)
             w(n) == Seal(CapsuleKey(id.volume, id, files[paths[n]].blob),
                          UnwrapFileKeyForVolume(Volume, files[paths[n]].wrapped))
  <2>1. WellMade(given)
    BY RecipientIsWellMade
  <2>2. LowerCase(id) = id
    BY LowerIsLower
  <2>3. given.id = LowerCase(id) /\ DOMAIN given.items = 1 .. K
    BY <1>1 DEF RecipientBundle
  <2>4. ASSUME NEW n \in 1 .. K
        PROVE  /\ given.items[n].name = paths[n] /\ given.items[n].id = id
               /\ given.items[n].key = w(n)
    BY <1>1 DEF RecipientBundle, CreateRecipientKeyCapsule
  <2>5. \A n : w(n) # NoKey
    BY DEF MarksAreNoSeals
  <2> HIDE DEF given, id, w
  <2>6. \A n \in 1 .. K : /\ given.items[n].key # NoKey
                          /\ LowerCase(given.items[n].id) = LowerCase(given.id)
    BY <2>2, <2>3, <2>4, <2>5
  <2>7. \A i, j \in 1 .. K : given.items[i].name = given.items[j].name => i = j
    BY <1>1, <2>4
  <2>8. ParseReferenceBundle(given) # Failed
    BY <1>1, <2>1, <2>3, <2>6, <2>7, ParserLetsIn
  <2> QED
    BY <2>8 DEF given, id
<1> QED
  BY <1>3, <1>4

\* A reader of a clean log has its replay.
LEMMA LoadedIsReplay ==
  ASSUME NEW log, StoredLog(log), ReadableLog(log), Clean(OrderFileKeys(log))
  PROVE  /\ Legible(OrderFileKeys(log))
         /\ LoadContext(InitialContext, log)
              = ContextOf(OrderFileKeys(log), Materialize(OrderFileKeys(log)))
<1> DEFINE ctx == LoadContext(InitialContext, log)
           order == OrderFileKeys(log)
<1>1. ctx.entries = order /\ ctx.fs = Rematerialize(InitialContext, order)
  BY LoadIsContext
<1>2. Legible(order) /\ Rematerialize(InitialContext, order) = Materialize(order)
  <2>1. ViewOf(ToSet(log), order)
    BY StoredIsView
  <2>2. Legible(order)
    BY <2>1, ViewIsLegible
  <2>3. IsContext(log, InitialContext)
    BY InitialIsContext
  <2> QED
    BY <2>2, <2>3, InitialReplayed, RematerializeReplayed
<1>3. ctx = ContextOf(ctx.entries, ctx.fs)
  BY DEF LoadContext, ContextOf
<1> HIDE DEF ctx, order
<1>4. ctx = ContextOf(order, Materialize(order))
  BY <1>1, <1>2, <1>3
<1> QED
  BY <1>2, <1>4 DEF ctx, order

\* A reader of the storage finds what the imports and exports find.
LEMMA LoadedIsStorage ==
  ASSUME CInv, Clean(OrderFileKeys(stored))
  PROVE  LoadContext(InitialContext, stored) = StorageContext
<1>1. StoredLog(stored) /\ ReadableLog(stored) /\ LoadEventLog = OrderFileKeys(stored)
  BY LoadIsOrder DEF CInv, SInv
<1> QED
  BY <1>1, LoadedIsReplay DEF StorageContext

\* A bundle that hands over files of the storage opens to what a reader finds.
LEMMA HandedOverOpens ==
  ASSUME CInv, FittingLog(stored), Clean(OrderFileKeys(stored)),
         NEW paths \in ExportableLists(StorageFiles), NEW bundle,
         HandsOver(bundle, paths, StorageFiles), NEW n \in DOMAIN paths
  PROVE  Unseal(bundle.items[n].blob, ItemKey(bundle, bundle.items[n]))
           = Texts(stored)[paths[n]]
<1> DEFINE p == paths[n]
           file == StorageFiles[p]
           key == KeyOfFile(Volume, file.wrapped)
<1>1. bundle.items[n].blob = file.blob /\ ItemKey(bundle, bundle.items[n]) = key
  BY DEF HandsOver
<1>2. p \in DOMAIN StorageFiles
  BY DEF ExportableLists
<1>3. /\ p \in DOMAIN StorageContext.fs.fileOrigins
      /\ GetFileByPath(StorageContext, p) = Unseal(file.blob, key)
  BY <1>2, StorageFilesFit
<1> HIDE DEF file, key
<1>4. Texts(stored)[p] = GetFileByPath(StorageContext, p)
  BY <1>3, LoadedIsStorage DEF Texts
<1> QED
  BY <1>1, <1>3, <1>4

\* A reference to a file opens to the text a reader of the volume finds at its
\* path, for the volume itself and for the one a capsule is made for, and the
\* parser lets the bundle in; as long as no live file is renamed onto a
\* directory it is in.
THEOREM ReferencesOpen ==
  ASSUME CopiesAreNames, MarksAreNoSeals, RecordsAreNoFailures
  PROVE  ReferencesSpec /\ []AllClean => []BundlesOpen
<1>1. FInv /\ AllClean => BundlesOpen
  <2> SUFFICES ASSUME FInv, AllClean, NEW paths \in ExportableLists(StorageFiles),
                      NEW bundle \in {SourceBundle(paths, StorageFiles),
                                      RecipientBundle(paths, StorageFiles,
                                                      VolumeIdFromPublicKey(Neighbour))}
               PROVE  LET parsed == ParseReferenceBundle(bundle)
                      IN  /\ parsed # Failed
                          /\ \A n \in DOMAIN paths :
                               Unseal(parsed.items[n].blob, ItemKey(parsed, parsed.items[n]))
                                 = Texts(stored)[paths[n]]
    BY DEF BundlesOpen, StorageFiles
  <2> DEFINE parsed == ParseReferenceBundle(bundle)
  <2>1. parsed # Failed
    BY MadeAreLetIn
  <2>2. \A n \in DOMAIN paths : StorageFiles[paths[n]].wrapped # NoKey
    BY DEF ExportableLists
  <2>3. HandsOver(parsed, paths, StorageFiles)
    BY <2>1, <2>2, SourceHandsOver, RecipientHandsOver
  <2> HIDE DEF parsed
  <2>4. \A n \in DOMAIN paths :
          Unseal(parsed.items[n].blob, ItemKey(parsed, parsed.items[n])) = Texts(stored)[paths[n]]
    BY <2>3, HandedOverOpens DEF FInv, AllClean
  <2> QED
    BY <2>1, <2>4 DEF parsed
<1> QED
  BY <1>1, InitFits, ReferencesKeepFit, PTL DEF ReferencesSpec

-----------------------------------------------------------------------------
(* What is written one after the other comes last *)

\* A log of FILES events observes its last.
LEMMA HeadOfFiles ==
  ASSUME NEW q, Len(q) \in Nat \ {0}, DOMAIN q = 1 .. Len(q),
         \A i \in 1 .. Len(q) : Plain(q[i]), NEW verb \in FileVerbs
  PROVE  FirstRef(verb, q) = q[Len(q)].hash
<1> DEFINE N == Len(q)
           places == {i \in DOMAIN q : IsFileEventEntry(q[i])}
<1>1. places = 1 .. N /\ N \in places /\ places # {}
  BY PlainIsFile
<1>2. Max(places) = N
  <2>1. places \in SUBSET (0 .. N) /\ N \in Nat
    BY <1>1
  <2> HIDE DEF places
  <2>2. Max(places) \in places /\ \A i \in places : i <= Max(places)
    BY <1>1, <2>1, NatLast
  <2> QED
    BY <1>1, <2>2
<1>3. ObservedLogHeadFromOrdered(q) = q[N].hash
  BY <1>1, <1>2 DEF ObservedLogHeadFromOrdered
<1>4. q[N].hash # NoRef
  BY <1>1, PlainIsFile
<1> QED
  BY <1>3, <1>4 DEF FirstRef

\* An event that is written on all of a log comes after all of it.
LEMMA WrittenOnAll ==
  ASSUME NEW log, StoredLog(log), NEW e, Plain(e), e.hash \notin HashesOf(log),
         StoredLog(Append(log, e)), ToSet(Append(log, e)) = ToSet(log) \cup {e},
         e.ref = FirstRef(e.verb, OrderFileKeys(log))
  PROVE  OrderFileKeys(Append(log, e)) = Append(OrderFileKeys(log), e)
<1> DEFINE more == Append(log, e)
           E == ToSet(log) \cup {e}
           q == OrderFileKeys(log)
           p == OrderFileKeys(more)
<1>1. /\ ViewOf(ToSet(log), q) /\ ToSet(q) = ToSet(log)
      /\ HashesOf(log) = {f.hash : f \in ToSet(log)}
  BY StoredIsView, StoredNamesItself
<1>2. ViewOf(E, p) /\ ToSet(p) = E /\ Channel(E)
  BY StoredIsView DEF StoredLog
<1> HIDE DEF p, q, more
<1>3. ViewOf(E, q) /\ e \in E /\ e \notin ToSet(q)
  BY <1>1, ViewOfMore
<1>4. \A f \in ToSet(q) : IsFileEventEntry(f) /\ f.hash \in Nat
  BY <1>1, PlainIsFile DEF StoredLog, Plain
<1>5. ViewOf(E, Append(q, e)) /\ ToSet(Append(q, e)) = E
  <2>1. IsFileEventEntry(e) /\ e.ref = FirstRef(e.verb, q)
    BY PlainIsFile DEF q
  <2> QED
    BY <1>1, <1>2, <1>3, <1>4, <2>1, WrittenLast
<1>6. ToSet(more) = E /\ StoredLog(more)
  BY DEF more
<1>7. p = Append(q, e)
  <2> DEFINE t == Append(q, e)
  <2>1. /\ StoredLog(more) /\ ViewOf(ToSet(more), p) /\ ViewOf(ToSet(more), t)
        /\ ToSet(p) = ToSet(t)
    BY <1>2, <1>5, <1>6
  <2> HIDE DEF t
  <2>2. p = t
    BY ONLY <2>1, SameSetSameView
  <2> QED
    BY <2>2 DEF t
<1> QED
  BY <1>7 DEF p, q, more

\* So do the events of a chain.
LEMMA ChainComesLast ==
  ASSUME NEW log, StoredLog(log), NEW hashes, NEW chain, Chain(log, hashes, chain)
  PROVE  \A n \in 0 .. Len(chain) :
           OrderFileKeys(log \o SubSeq(chain, 1, n)) = OrderFileKeys(log) \o SubSeq(chain, 1, n)
<1> DEFINE K == Len(chain)
           q == OrderFileKeys(log)
           X == ToSet(log) \cup {chain[i] : i \in 1 .. K}
           f(n) == SubSeq(chain, 1, n)
           S == {n \in Nat : n <= K => OrderFileKeys(log \o f(n)) = q \o f(n)}
<1>1. /\ K \in Nat /\ chain \in Seq(X) /\ log \in Seq(X) /\ q \in Seq(X)
      /\ Len(q) \in Nat
  <2>1. chain \in Seq({chain[i] : i \in 1 .. K}) /\ K \in Nat
    BY DEF Chain
  <2>2. log \in Seq(ToSet(log)) /\ q \in Seq(ToSet(log))
    <3>1. ViewOf(ToSet(log), q)
      BY StoredIsView
    <3> QED
      BY <3>1, LogOfMore, LogIsSeq DEF StoredLog, ViewOf, Canonical
  <2>3. \A A : A \subseteq X => Seq(A) \subseteq Seq(X)
    OBVIOUS
  <2> HIDE DEF K, q
  <2> QED
    BY <2>1, <2>2, <2>3
<1> HIDE DEF q, X
<1>2. 0 \in S
  <2>1. f(0) = <<>>
    BY <1>1, FrontGrows
  <2>2. log \o <<>> = log /\ q \o <<>> = q
    BY <1>1
  <2> QED
    BY <2>1, <2>2 DEF q
<1>3. ASSUME NEW n \in S PROVE n + 1 \in S
  <2>1. CASE n + 1 <= K
    <3> DEFINE e == chain[n + 1]
               more == log \o f(n)
               order == q \o f(n)
    <3>1. n \in Nat /\ n \in 0 .. K /\ n < K /\ n + 1 \in 1 .. K /\ n + 1 \in 0 .. K
      BY <1>1, <2>1
    <3>2. f(n) \in Seq(X) /\ Len(f(n)) = n /\ f(n + 1) = Append(f(n), e) /\ e \in X
      BY <1>1, <3>1, FrontGrows
    <3>3. log \o f(n + 1) = Append(more, e) /\ q \o f(n + 1) = Append(order, e)
      <4>1. \A a, b \in Seq(X) : \A c \in X : a \o Append(b, c) = Append(a \o b, c)
        OBVIOUS
      <4> HIDE DEF f, e
      <4>2. /\ log \o Append(f(n), e) = Append(log \o f(n), e)
            /\ q \o Append(f(n), e) = Append(q \o f(n), e)
        BY ONLY <1>1, <3>2, <4>1
      <4> QED
        BY <3>2, <4>2
    <3>4. OrderFileKeys(more) = order
      BY <1>1, <3>1
    <3>5. Chained(log, chain, n) /\ Chained(log, chain, n + 1)
      BY <3>1, ChainIsStored
    <3>6. /\ StoredLog(more) /\ StoredLog(Append(more, e))
          /\ ToSet(more) = ToSet(log) \cup {chain[i] : i \in 1 .. n}
          /\ ToSet(Append(more, e)) = ToSet(log) \cup {chain[i] : i \in 1 .. n + 1}
      BY <3>3, <3>5 DEF Chained
    <3>7. ToSet(Append(more, e)) = ToSet(more) \cup {e}
      <4>1. 1 .. n + 1 = (1 .. n) \cup {n + 1}
        BY <3>1
      <4>2. {chain[i] : i \in 1 .. n + 1} = {chain[i] : i \in 1 .. n} \cup {chain[n + 1]}
        BY <4>1
      <4> QED
        BY <3>6, <4>2
    <3>8. Plain(e) /\ e.hash = hashes[n + 1] /\ e.hash \notin HashesOf(log)
          /\ (n + 1 # 1 => ParentOf(e) = hashes[n])
          /\ \A i \in 1 .. n : chain[i].hash # e.hash
      <4>1. Plain(e) /\ e.hash = hashes[n + 1] /\ e.hash \notin HashesOf(log)
        BY <3>1 DEF Chain
      <4>2. n + 1 # 1 => ParentOf(e) = hashes[(n + 1) - 1]
        BY <3>1 DEF Chain
      <4>3. \A i \in 1 .. n : i \in 1 .. K /\ i # n + 1
        BY <1>1, <3>1
      <4>4. \A i \in 1 .. n : chain[i].hash = hashes[i] /\ hashes[i] # hashes[n + 1]
        BY <3>1, <4>3 DEF Chain
      <4> QED
        BY <3>1, <4>1, <4>2, <4>4
    <3>9. e.hash \notin HashesOf(more)
      <4>1. HashesOf(more) = {g.hash : g \in ToSet(more)}
            /\ HashesOf(log) = {g.hash : g \in ToSet(log)}
        BY <3>6, StoredNamesItself
      <4> HIDE DEF more, e
      <4> QED
        BY <3>6, <3>8, <4>1
    <3>10. e.ref = FirstRef(e.verb, order)
      <4>1. CASE n = 0
        <5>1. order = q
          BY <1>1, <1>2, <4>1, FrontGrows
        <5>2. e = chain[1] /\ 1 <= K
          BY <3>1, <4>1
        <5> HIDE DEF e, order
        <5> QED
          BY <5>1, <5>2 DEF Chain, q
      <4>2. CASE n # 0
        <5> DEFINE N == Len(order)
        <5>1. N = Len(q) + n /\ order[N] = chain[n] /\ n \in 1 .. K /\ N \in Nat \ {0}
              /\ DOMAIN order = 1 .. N /\ \A i \in 1 .. N : order[i] \in ToSet(order)
          <6>1. order \in Seq(X) /\ Len(order) = Len(q) + n
            BY <1>1, <3>2
          <6>2. n \in 1 .. K
            BY <3>1, <4>2
          <6>3. order[N] = f(n)[n] /\ f(n)[n] = chain[n]
            <7>1. \A a, b \in Seq(X) : Len(b) # 0 => (a \o b)[Len(a) + Len(b)] = b[Len(b)]
              OBVIOUS
            <7>2. f(n)[n] = chain[n]
              BY <1>1, <6>2
            <7>3. f(n) \in Seq(X) /\ Len(f(n)) = n
              BY <3>2
            <7> HIDE DEF f
            <7> QED
              BY <1>1, <4>2, <6>1, <7>1, <7>2, <7>3
          <6> HIDE DEF order
          <6>4. N \in Nat \ {0} /\ DOMAIN order = 1 .. N
            BY <1>1, <3>1, <4>2, <6>1
          <6>5. \A i \in 1 .. N : order[i] \in ToSet(order)
            BY <6>4 DEF ToSet
          <6> HIDE DEF N
          <6>6. N = Len(q) + n
            BY <6>1 DEF N
          <6> QED
            BY ONLY <6>2, <6>3, <6>4, <6>5, <6>6
        <5> HIDE DEF order, more
        <5>2. \A i \in 1 .. N : Plain(order[i])
          <6>1. ToSet(order) = ToSet(more)
            BY <3>4, <3>6, StoredIsView
          <6> QED
            BY <3>6, <5>1, <6>1 DEF StoredLog
        <5>3. e.verb \in FileVerbs /\ chain[n].hash = hashes[n] /\ hashes[n] \in Nat
          BY <3>8, <5>1 DEF Plain, Chain
        <5>4. FirstRef(e.verb, order) = chain[n].hash
          <6> HIDE DEF N, e
          <6>1. N = Len(order)
            BY DEF N
          <6> QED
            BY <5>1, <5>2, <5>3, <6>1, HeadOfFiles
        <5>5. ParentOf(e) = hashes[n] /\ IsFileEventEntry(e)
          BY <3>1, <3>8, <4>2, PlainIsFile
        <5>6. e.ref = hashes[n]
          BY <5>3, <5>5, MarksNotNumbers DEF ParentOf, ObservedLogHeadRef
        <5> QED
          BY <5>3, <5>4, <5>6
      <4> QED
        BY <4>1, <4>2
    <3> HIDE DEF e, more, order, f
    <3>11. OrderFileKeys(Append(more, e)) = Append(order, e)
      BY <3>4, <3>6, <3>7, <3>8, <3>9, <3>10, WrittenOnAll
    <3>12. OrderFileKeys(log \o f(n + 1)) = q \o f(n + 1)
      BY <3>3, <3>11
    <3> QED
      BY <3>1, <3>12
  <2> QED
    BY <2>1
<1> HIDE DEF S
<1>4. S = Nat
  BY <1>2, <1>3, NatsByStep DEF S
<1>5. ASSUME NEW n \in 0 .. K PROVE OrderFileKeys(log \o f(n)) = q \o f(n)
  <2>1. n \in Nat /\ n <= K /\ n \in S
    BY <1>1, <1>4
  <2> QED
    BY <2>1 DEF S
<1> QED
  BY <1>5 DEF q

-----------------------------------------------------------------------------
(* Files that are created beside those that are there *)

\* No live file of the volume is below the path or above it.
Beside(vol, path) ==
  \A p \in DOMAIN vol.files : ~IsStrictDescendant(p, path) /\ ~IsStrictDescendant(path, p)

\* The new file is there, from the event that creates it, and the others are
\* as they were.
Joined(v, vol, id, path, blob) ==
  /\ DOMAIN v.files = DOMAIN vol.files \cup {path}
  /\ v.files[path] = [path |-> path, blob |-> blob] /\ v.fileOrigins[path] = id
  /\ \A p \in DOMAIN vol.files \ {path} :
       v.files[p] = vol.files[p] /\ v.fileOrigins[p] = vol.fileOrigins[p]

LEMMA CreateJoins ==
  ASSUME NEW vol, NEW written, Sound(vol, written), NEW path \in Paths, Beside(vol, path),
         NEW id, NEW blob
  PROVE  Joined(ApplyCreateFile(vol, id, path, blob), vol, id, path, blob)
<1> DEFINE F == DOMAIN vol.files
           cleared == ClearedFor(vol, AncestorPaths(path), path)
           dirs == IF path \in DOMAIN cleared.files THEN cleared.dirs
                   ELSE CountInAncestors(cleared.dirs, path, 1)
           placed == Placed(cleared, path, blob, id, dirs)
           meta == [path |-> path, blob |-> blob]
           v == SetHeads(placed, {path}, id)
<1>1. ApplyCreateFile(vol, id, path, blob) = v
  BY DEF ApplyCreateFile, Placed, ClearedFor
<1>2. /\ Sound(cleared, written)
      /\ DOMAIN cleared.files \subseteq F \ AncestorPaths(path)
      /\ F \ (AncestorPaths(path) \cup Under(path)) \subseteq DOMAIN cleared.files
      /\ \A p \in DOMAIN cleared.files : /\ cleared.files[p] = vol.files[p]
                                         /\ cleared.fileOrigins[p] = vol.fileOrigins[p]
  BY ClearedForSound
<1> HIDE DEF cleared
<1>3. F \ {path} \subseteq DOMAIN cleared.files
  <2>1. ASSUME NEW p \in F \ {path} PROVE p \notin AncestorPaths(path) \cup Under(path)
    BY AncestorIsAbove DEF Beside, Under, IsSelfOrDescendant
  <2> QED
    BY <1>2, <2>1
<1> HIDE DEF dirs
<1>4. /\ placed.files = Put(cleared.files, path, meta)
      /\ placed.fileOrigins = Put(cleared.fileOrigins, path, id)
      /\ IsVolumeRecord(placed)
  BY <1>2 DEF Sound, IsVolumeRecord, Placed
<1> HIDE DEF placed
<1>5. v.files = placed.files /\ v.fileOrigins = placed.fileOrigins
  BY <1>4 DEF SetHeads, IsVolumeRecord
<1> HIDE DEF v
<1>6. DOMAIN cleared.fileOrigins = DOMAIN cleared.files
  BY <1>2 DEF Sound, FilesSound
<1>7. /\ DOMAIN v.files = F \cup {path}
      /\ v.files[path] = meta /\ v.fileOrigins[path] = id
      /\ \A p \in F \ {path} :
           v.files[p] = vol.files[p] /\ v.fileOrigins[p] = vol.fileOrigins[p]
  BY <1>2, <1>3, <1>4, <1>5, <1>6 DEF Put
<1> QED
  BY <1>1, <1>7 DEF Joined

\* The events of a log from L + 1 on create files beside those of a volume, and
\* beside each other.
CreatesBeside(s, L, vol) ==
  \A i \in L + 1 .. Len(s) :
    /\ s[i].event.kind = "CREATE_FILE"
    /\ Beside(vol, s[i].event.path)
    /\ \A j \in L + 1 .. Len(s) :
         /\ s[i].event.path = s[j].event.path => i = j
         /\ ~IsStrictDescendant(s[i].event.path, s[j].event.path)

\* Those of them up to the n-th have done so.
JoinedUpTo(s, L, vol, n, v) ==
  LET paths == {s[i].event.path : i \in L + 1 .. n}
  IN  /\ DOMAIN v.files = DOMAIN vol.files \cup paths
      /\ \A i \in L + 1 .. n :
           /\ v.files[s[i].event.path].blob = s[i].event.blob
           /\ v.fileOrigins[s[i].event.path] = s[i].hash
      /\ \A p \in DOMAIN vol.files \ paths :
           v.files[p] = vol.files[p] /\ v.fileOrigins[p] = vol.fileOrigins[p]

LEMMA CreatesJoin ==
  ASSUME NEW s, Legible(s), Clean(s), NEW L \in 0 .. Len(s),
         CreatesBeside(s, L, Materialize(SubSeq(s, 1, L)))
  PROVE  JoinedUpTo(s, L, Materialize(SubSeq(s, 1, L)), Len(s), Materialize(s))
<1> DEFINE E == ToSet(s)
           f(n) == SubSeq(s, 1, n)
           vol == Materialize(f(L))
           path(i) == s[i].event.path
           at(n) == Materialize(f(n))
           S == {k \in Nat : L + k <= Len(s) => JoinedUpTo(s, L, vol, L + k, at(L + k))}
<1> HIDE DEF E
<1>0. s \in Seq(E) /\ Len(s) \in Nat /\ L \in Nat /\ L <= Len(s)
  BY DEF Legible, E
<1>1. 0 \in S
  <2>1. L + 0 = L /\ L + 1 .. L = {}
    BY <1>0
  <2> HIDE DEF vol, at, f
  <2>2. JoinedUpTo(s, L, at(L), L, at(L))
    BY <2>1 DEF JoinedUpTo
  <2>3. at(L) = vol
    BY DEF at, vol
  <2> QED
    BY <2>1, <2>2, <2>3
<1>2. ASSUME NEW k \in S PROVE k + 1 \in S
  <2>1. CASE L + (k + 1) <= Len(s)
    <3> DEFINE n == L + k
               e == s[n + 1]
               v == at(n)
    <3>1. /\ k \in Nat /\ n \in 0 .. Len(s) /\ n + 1 \in L + 1 .. Len(s) /\ n + 1 \in 1 .. Len(s)
          /\ L + (k + 1) = n + 1 /\ (n + 1) - 1 = n /\ n \in Nat /\ n < Len(s)
      BY <1>0, <2>1
    <3>2. JoinedUpTo(s, L, vol, n, v)
      BY <1>0, <3>1
    <3>3. f(n) \in Seq(E) /\ f(n + 1) = Append(f(n), e)
      BY <1>0, <3>1, FrontGrows
    <3> HIDE DEF n, vol
    <3>4. Sound(v, WrittenIn(f(n)))
      <4>1. Legible(f(n)) /\ Clean(f(n))
        BY <3>1, LegibleFront
      <4> HIDE DEF f
      <4> QED
        BY <4>1, ReplaySound
    <3>5. Plain(e) /\ e.event.kind = "CREATE_FILE" /\ path(n + 1) \in Paths
      BY <3>1 DEF Legible, Readable, CreatesBeside, vol
    <3>6. at(n + 1) = ApplyCreateFile(v, e.hash, path(n + 1), e.event.blob)
      <4>1. Materialize(Append(f(n), e)) = Apply(v, e.hash, e.event)
        <5> HIDE DEF f, e
        <5> QED
          BY <3>3, ReplayLast DEF Materialize
      <4>2. Apply(v, e.hash, e.event) = ApplyCreateFile(v, e.hash, path(n + 1), e.event.blob)
        <5> HIDE DEF v
        <5> QED
          BY <3>5 DEF Apply
      <4> HIDE DEF e, v, f, path
      <4> QED
        BY <3>3, <4>1, <4>2
    <3>7. /\ Beside(vol, path(n + 1))
          /\ \A i \in L + 1 .. n : /\ path(i) # path(n + 1)
                                   /\ ~IsStrictDescendant(path(i), path(n + 1))
                                   /\ ~IsStrictDescendant(path(n + 1), path(i))
      <4>1. \A i \in L + 1 .. n : i \in L + 1 .. Len(s) /\ i # n + 1
        BY <1>0, <3>1
      <4> QED
        BY <3>1, <4>1 DEF CreatesBeside, vol
    <3> HIDE DEF v, f
    <3>8. DOMAIN v.files = DOMAIN vol.files \cup {path(i) : i \in L + 1 .. n}
      BY <3>2 DEF JoinedUpTo
    <3>9. Beside(v, path(n + 1))
      BY <3>7, <3>8 DEF Beside
    <3>10. Joined(at(n + 1), v, e.hash, path(n + 1), e.event.blob)
      BY <3>4, <3>5, <3>6, <3>9, CreateJoins
    <3>11. L + 1 .. n + 1 = (L + 1 .. n) \cup {n + 1}
      BY <1>0, <3>1
    <3>12. {path(i) : i \in L + 1 .. n + 1} = {path(i) : i \in L + 1 .. n} \cup {path(n + 1)}
      BY <3>11
    <3>13. JoinedUpTo(s, L, vol, n + 1, at(n + 1))
      <4> DEFINE w == at(n + 1)
      <4>1. /\ DOMAIN w.files = DOMAIN v.files \cup {path(n + 1)}
            /\ w.files[path(n + 1)].blob = e.event.blob /\ w.fileOrigins[path(n + 1)] = e.hash
            /\ \A p \in DOMAIN v.files \ {path(n + 1)} :
                 w.files[p] = v.files[p] /\ w.fileOrigins[p] = v.fileOrigins[p]
        BY <3>10 DEF Joined
      <4>2. /\ \A i \in L + 1 .. n : /\ v.files[path(i)].blob = s[i].event.blob
                                     /\ v.fileOrigins[path(i)] = s[i].hash
            /\ \A p \in DOMAIN vol.files \ {path(i) : i \in L + 1 .. n} :
                 v.files[p] = vol.files[p] /\ v.fileOrigins[p] = vol.fileOrigins[p]
        BY <3>2 DEF JoinedUpTo
      <4> HIDE DEF w, path, at
      <4>3. ASSUME NEW i \in L + 1 .. n + 1
            PROVE  w.files[path(i)].blob = s[i].event.blob /\ w.fileOrigins[path(i)] = s[i].hash
        <5>1. CASE i = n + 1
          BY <4>1, <5>1
        <5>2. CASE i \in L + 1 .. n
          <6>1. path(i) \in DOMAIN v.files \ {path(n + 1)}
            BY <3>7, <3>8, <5>2
          <6> QED
            BY <4>1, <4>2, <5>2, <6>1
        <5> QED
          BY <3>11, <5>1, <5>2
      <4>4. ASSUME NEW p \in DOMAIN vol.files \ {path(i) : i \in L + 1 .. n + 1}
            PROVE  w.files[p] = vol.files[p] /\ w.fileOrigins[p] = vol.fileOrigins[p]
        <5>1. p \in DOMAIN v.files \ {path(n + 1)} /\ p \notin {path(i) : i \in L + 1 .. n}
          BY <3>8, <3>12
        <5> QED
          BY <4>1, <4>2, <5>1
      <4>5. DOMAIN w.files = DOMAIN vol.files \cup {path(i) : i \in L + 1 .. n + 1}
        BY <3>8, <3>12, <4>1
      <4> QED
        BY <4>3, <4>4, <4>5 DEF JoinedUpTo, path, w
    <3> QED
      BY <3>1, <3>13
  <2> QED
    BY <2>1
<1> HIDE DEF S
<1>3. S = Nat
  BY <1>1, <1>2, NatsByStep DEF S
<1> HIDE DEF f, vol, at
<1>4. Len(s) - L \in S /\ L + (Len(s) - L) = Len(s)
  BY <1>0, <1>3
<1>5. JoinedUpTo(s, L, vol, Len(s), at(Len(s)))
  BY <1>0, <1>4 DEF S
<1>6. f(Len(s)) = s
  BY <1>0, FrontGrows DEF f
<1> QED
  BY <1>5, <1>6 DEF at, vol, f

-----------------------------------------------------------------------------
(* The texts in the storage *)

\* A log that a reader can read.
ReadableStorage(log) ==
  StoredLog(log) /\ ReadableLog(log) /\ FittingLog(log) /\ Clean(OrderFileKeys(log))

\* A reader finds each live file's own text.
LEMMA StorageTexts ==
  ASSUME NEW log, ReadableStorage(log)
  PROVE  LET s  == OrderFileKeys(log)
             fs == Materialize(s)
         IN  /\ LoadContext(InitialContext, log) = ContextOf(s, fs)
             /\ Legible(s) /\ Clean(s) /\ Sound(fs, WrittenIn(s))
             /\ DOMAIN fs.fileOrigins = DOMAIN fs.files
             /\ Texts(log) = [p \in DOMAIN fs.files |-> fs.files[p].blob.holds]
<1> DEFINE s == OrderFileKeys(log)
           fs == Materialize(s)
           ctx == LoadContext(InitialContext, log)
<1>1. ctx = ContextOf(s, fs) /\ Legible(s) /\ Clean(s)
  BY LoadedIsReplay DEF ReadableStorage
<1>2. FittingLog(s)
  <2>1. ToSet(s) = ToSet(log)
    BY StoredIsView DEF ReadableStorage
  <2> QED
    BY <2>1 DEF FittingLog, ReadableStorage
<1>3. Sound(fs, WrittenIn(s))
  BY <1>1, ReplaySound
<1>4. DOMAIN fs.fileOrigins = DOMAIN fs.files
  BY <1>3 DEF Sound, FilesSound
<1>5. Decipherable(ctx) /\ ctx.fs = fs
  <2>1. Decipherable(ContextOf(s, fs))
    BY <1>1, <1>2, ReplayReads
  <2>2. ContextOf(s, fs).fs = fs
    BY DEF ContextOf
  <2> HIDE DEF s, fs, ctx
  <2> QED
    BY <1>1, <2>1, <2>2
<1>6. Texts(log) = [p \in DOMAIN ctx.fs.fileOrigins |-> GetFileByPath(ctx, p)]
  BY DEF Texts
<1> HIDE DEF ctx, fs, s
<1>7. \A p \in DOMAIN fs.files : GetFileByPath(ctx, p) = fs.files[p].blob.holds
  BY <1>4, <1>5, ReadsByPath
<1>8. Texts(log) = [p \in DOMAIN fs.files |-> fs.files[p].blob.holds]
  BY <1>4, <1>5, <1>6, <1>7
<1> QED
  BY <1>1, <1>3, <1>4, <1>8 DEF ctx, fs, s

\* What a chain of new files adds to the storage.
CreatesFiles(log, chain, n) ==
  \A i \in 1 .. n :
    /\ chain[i].event.kind = "CREATE_FILE"
    /\ Beside(Materialize(OrderFileKeys(log)), chain[i].event.path)
    /\ \A j \in 1 .. n :
         /\ chain[i].event.path = chain[j].event.path => i = j
         /\ ~IsStrictDescendant(chain[i].event.path, chain[j].event.path)

\* The first n of the new entries bring their texts and their keys, and leave
\* the other texts as they were.
Brought(texts, after, keys, new, n) ==
  LET paths == {new[i].event.path : i \in 1 .. n}
  IN  /\ DOMAIN after = DOMAIN texts \cup paths
      /\ \A i \in 1 .. n : /\ after[new[i].event.path] = new[i].event.blob.holds
                           /\ keys[new[i].event.path] = new[i].event.wrapped
      /\ \A p \in DOMAIN texts \ paths : after[p] = texts[p]

LEMMA NewFilesJoin ==
  ASSUME NEW log, ReadableStorage(log), NEW hashes, NEW chain, Chain(log, hashes, chain),
         NEW n \in 0 .. Len(chain), CreatesFiles(log, chain, n),
         ReadableStorage(log \o SubSeq(chain, 1, n))
  PROVE  LET more == log \o SubSeq(chain, 1, n)
         IN  Brought(Texts(log), Texts(more), LoadContext(InitialContext, more).keys, chain, n)
<1> DEFINE more == log \o SubSeq(chain, 1, n)
           q == OrderFileKeys(log)
           s == OrderFileKeys(more)
           L == Len(q)
           vol == Materialize(q)
           fs == Materialize(s)
           path(i) == chain[i].event.path
           paths == {path(i) : i \in 1 .. n}
<1>1. s = q \o SubSeq(chain, 1, n)
  BY ChainComesLast DEF ReadableStorage
<1>2. /\ Texts(log) = [p \in DOMAIN vol.files |-> vol.files[p].blob.holds]
      /\ Legible(q)
  BY StorageTexts
<1>3. /\ LoadContext(InitialContext, more) = ContextOf(s, fs)
      /\ Legible(s) /\ Clean(s) /\ Sound(fs, WrittenIn(s))
      /\ DOMAIN fs.fileOrigins = DOMAIN fs.files
      /\ Texts(more) = [p \in DOMAIN fs.files |-> fs.files[p].blob.holds]
  BY StorageTexts
<1>4. /\ L \in Nat /\ n \in Nat /\ Len(s) = L + n /\ SubSeq(s, 1, L) = q
      /\ \A i \in 1 .. n : s[L + i] = chain[i]
  <2> DEFINE X == ToSet(q) \cup {chain[i] : i \in 1 .. Len(chain)}
             t == SubSeq(chain, 1, n)
  <2>1. q \in Seq(ToSet(q)) /\ chain \in Seq({chain[i] : i \in 1 .. Len(chain)})
        /\ Len(chain) \in Nat
    BY <1>2 DEF Legible, Chain
  <2>2. \A A : A \subseteq X => Seq(A) \subseteq Seq(X)
    OBVIOUS
  <2> HIDE DEF q
  <2>3. q \in Seq(X) /\ chain \in Seq(X) /\ n \in Nat
    BY <2>1, <2>2
  <2> HIDE DEF X, s
  <2>4. t \in Seq(X) /\ Len(t) = n /\ \A i \in 1 .. n : t[i] = chain[i]
    BY <2>1, <2>3, FrontGrows
  <2> HIDE DEF t
  <2>5. \A a, b \in Seq(X) : /\ Len(a) \in Nat /\ Len(b) \in Nat
                             /\ a \o b \in Seq(X) /\ Len(a \o b) = Len(a) + Len(b)
                             /\ \A i \in 1 .. Len(b) : (a \o b)[Len(a) + i] = b[i]
                             /\ \A i \in 1 .. Len(a) : (a \o b)[i] = a[i]
    OBVIOUS
  <2>6. s \in Seq(X) /\ L \in Nat /\ Len(s) = L + n /\ \A i \in 1 .. L : s[i] = q[i]
    BY <1>1, <2>3, <2>4, <2>5 DEF t
  <2>7. \A i \in 1 .. n : s[L + i] = chain[i]
    BY <1>1, <2>3, <2>4, <2>5 DEF t
  <2>8. SubSeq(s, 1, L) = q
    <3>1. /\ SubSeq(s, 1, L) \in Seq(X) /\ Len(SubSeq(s, 1, L)) = L
          /\ \A i \in 1 .. L : SubSeq(s, 1, L)[i] = s[i]
      BY <2>3, <2>6, FrontGrows
    <3> QED
      BY <2>3, <2>6, <3>1
  <2> QED
    BY <2>3, <2>6, <2>7, <2>8
<1> HIDE DEF s, q, vol, fs, more, L
<1>5. L \in 0 .. Len(s) /\ vol = Materialize(SubSeq(s, 1, L))
  <2>1. L \in 0 .. Len(s)
    BY <1>4
  <2>2. vol = Materialize(SubSeq(s, 1, L))
    BY <1>4 DEF vol
  <2> QED
    BY <2>1, <2>2
<1>6. CreatesBeside(s, L, vol)
  <2>1. \A i \in L + 1 .. Len(s) : i - L \in 1 .. n /\ s[i] = chain[i - L]
    <3> SUFFICES ASSUME NEW i \in L + 1 .. Len(s)
                 PROVE  i - L \in 1 .. n /\ s[i] = chain[i - L]
      OBVIOUS
    <3>1. i - L \in 1 .. n /\ L + (i - L) = i
      BY <1>4
    <3> QED
      BY <1>4, <3>1
  <2>2. \A i, j \in L + 1 .. Len(s) : i - L = j - L => i = j
    BY <1>4
  <2> QED
    BY <2>1, <2>2 DEF CreatesBeside, CreatesFiles, vol, q
<1>7. JoinedUpTo(s, L, vol, Len(s), fs)
  BY <1>3, <1>5, <1>6, CreatesJoin DEF fs
<1>8. \A i \in 1 .. n : L + i \in L + 1 .. Len(s) /\ s[L + i] = chain[i]
  BY <1>4
<1>9. {s[i].event.path : i \in L + 1 .. Len(s)} = paths
  <2>1. \A i \in L + 1 .. Len(s) : i - L \in 1 .. n /\ s[i] = chain[i - L]
    <3> SUFFICES ASSUME NEW i \in L + 1 .. Len(s)
                 PROVE  i - L \in 1 .. n /\ s[i] = chain[i - L]
      OBVIOUS
    <3>1. i - L \in 1 .. n /\ L + (i - L) = i
      BY <1>4
    <3> QED
      BY <1>4, <3>1
  <2>2. \A p : p \in paths <=> \E i \in 1 .. n : p = path(i)
    OBVIOUS
  <2>3. \A p : (\E i \in L + 1 .. Len(s) : p = s[i].event.path) <=> \E i \in 1 .. n : p = path(i)
    <3> SUFFICES ASSUME NEW p
                 PROVE  (\E i \in L + 1 .. Len(s) : p = s[i].event.path)
                          <=> \E i \in 1 .. n : p = path(i)
      OBVIOUS
    <3>1. ASSUME NEW i \in L + 1 .. Len(s), p = s[i].event.path
          PROVE  \E j \in 1 .. n : p = path(j)
      BY <2>1, <3>1
    <3>2. ASSUME NEW i \in 1 .. n, p = path(i)
          PROVE  \E j \in L + 1 .. Len(s) : p = s[j].event.path
      BY <1>8, <3>2
    <3> QED
      BY <3>1, <3>2
  <2> HIDE DEF paths, path
  <2> QED
    BY <2>2, <2>3
<1>10. /\ DOMAIN fs.files = DOMAIN vol.files \cup paths
       /\ \A i \in 1 .. n : /\ fs.files[path(i)].blob = chain[i].event.blob
                            /\ fs.fileOrigins[path(i)] = chain[i].hash
       /\ \A p \in DOMAIN vol.files \ paths : fs.files[p] = vol.files[p]
  <2>1. /\ DOMAIN fs.files = DOMAIN vol.files \cup {s[i].event.path : i \in L + 1 .. Len(s)}
        /\ \A i \in L + 1 .. Len(s) : /\ fs.files[s[i].event.path].blob = s[i].event.blob
                                      /\ fs.fileOrigins[s[i].event.path] = s[i].hash
        /\ \A p \in DOMAIN vol.files \ {s[i].event.path : i \in L + 1 .. Len(s)} :
             fs.files[p] = vol.files[p]
    BY <1>7 DEF JoinedUpTo
  <2>2. \A i \in 1 .. n : /\ fs.files[path(i)].blob = chain[i].event.blob
                          /\ fs.fileOrigins[path(i)] = chain[i].hash
    BY <1>8, <2>1
  <2> HIDE DEF paths
  <2> QED
    BY <1>9, <2>1, <2>2
<1>11. ASSUME NEW i \in 1 .. n
       PROVE  LoadContext(InitialContext, more).keys[path(i)] = chain[i].event.wrapped
  <2>1. path(i) \in DOMAIN fs.fileOrigins
    BY <1>3, <1>10
  <2>2. PICK k \in 1 .. Len(s) : Source(s, fs, path(i), k)
    BY <1>3, <2>1, LiveSource
  <2>3. L + i \in 1 .. Len(s) /\ s[L + i] = chain[i] /\ DOMAIN s = 1 .. Len(s)
    BY <1>3, <1>4, <1>8 DEF Legible
  <2>4. s[L + i] \in ToSet(s) /\ s[L + i].hash = fs.fileOrigins[path(i)]
    BY <1>10, <2>3 DEF ToSet
  <2>5. s[k] = chain[i] /\ LiveEncryptedKeys(s, fs)[path(i)] = s[k].event.wrapped
    BY <2>2, <2>3, <2>4 DEF Source
  <2>6. LoadContext(InitialContext, more).keys = LiveEncryptedKeys(s, fs)
    BY <1>3 DEF ContextOf
  <2> QED
    BY <2>5, <2>6
<1> HIDE DEF paths
<1>12. /\ DOMAIN Texts(more) = DOMAIN Texts(log) \cup paths
       /\ \A i \in 1 .. n : Texts(more)[path(i)] = chain[i].event.blob.holds
       /\ \A p \in DOMAIN Texts(log) \ paths : Texts(more)[p] = Texts(log)[p]
  <2>1. \A i \in 1 .. n : path(i) \in DOMAIN fs.files
    BY <1>10 DEF paths
  <2> HIDE DEF path
  <2> QED
    BY <1>2, <1>3, <1>10, <2>1
<1> HIDE DEF more, path
<1> QED
  BY <1>11, <1>12 DEF Brought, paths, path, more

-----------------------------------------------------------------------------
(* Theorems: exports and imports leave the files *)

\* What a step writes.
NewEntries == SubSeq(stored', Len(stored) + 1, Len(stored'))

LEMMA WrittenBehind ==
  ASSUME NEW E, NEW s \in Seq(E), NEW t \in Seq(E)
  PROVE  SubSeq(s \o t, Len(s) + 1, Len(s \o t)) = t
<1> DEFINE m == s \o t
           L == Len(s)
           N == Len(t)
           r == SubSeq(m, L + 1, Len(m))
<1>1. /\ L \in Nat /\ N \in Nat /\ m \in Seq(E) /\ Len(m) = L + N
      /\ \A i \in 1 .. N : m[L + i] = t[i]
  OBVIOUS
<1> HIDE DEF m, L, N
<1>2. r \in Seq(E) /\ Len(r) = N /\ \A i \in 1 .. N : r[i] = m[L + i]
  <2>1. r = [i \in 1 .. N |-> m[L + i]]
    <3>1. /\ (Len(m) - (L + 1)) + 1 = N
          /\ \A i \in 1 .. N : (i + (L + 1)) - 1 = L + i
      BY <1>1
    <3> QED
      BY <1>1, <3>1
  <2>2. \A i \in 1 .. N : m[L + i] \in E
    BY <1>1
  <2> QED
    BY <1>1, <2>1, <2>2
<1> HIDE DEF r
<1>3. r = t
  <2>1. Len(t) = N
    BY DEF N
  <2>2. \A i \in 1 .. N : r[i] = t[i]
    BY <1>1, <1>2
  <2>3. r \in Seq(E) /\ t \in Seq(E) /\ Len(r) = Len(t) /\ \A i \in 1 .. Len(t) : r[i] = t[i]
    BY <1>2, <2>1, <2>2
  <2> QED
    BY ONLY <2>3
<1> QED
  BY <1>3 DEF r, m, L

\* A step that is no exchange writes one event or none, and upgrades nothing.
LEMMA CallsWriteOne ==
  ASSUME CInv, [Next]_vars
  PROVE  \/ NewEntries = <<>>
         \/ Len(NewEntries) = 1 /\ NewEntries[1].by # "upgrade"
<1> DEFINE S == ToSet(stored)
<1>1. stored \in Seq(S)
  BY LogIsSeq DEF CInv, SInv, StoredLog
<1>2. CASE stored' = stored
  BY <1>1, <1>2 DEF NewEntries
<1>3. ASSUME NEW e, stored' = Append(stored, e), e.by # "upgrade"
      PROVE  Len(NewEntries) = 1 /\ NewEntries[1].by # "upgrade"
  <2> DEFINE E == S \cup {e}
  <2> HIDE DEF S
  <2>1. stored \in Seq(E) /\ <<e>> \in Seq(E) /\ Append(stored, e) = stored \o <<e>>
    BY <1>1
  <2> HIDE DEF E
  <2>2. NewEntries = <<e>>
    BY <1>3, <2>1, WrittenBehind DEF NewEntries
  <2> QED
    BY <1>3, <2>2
<1> QED
  BY <1>2, <1>3, NextWrites

\* A step that adds some of the entries of a chain of new files to the storage.
AddsFiles(hashes, chain, n) ==
  /\ Chain(stored, hashes, chain) /\ n \in 1 .. Len(chain)
  /\ stored' = stored \o SubSeq(chain, 1, n)
  /\ \A i \in 1 .. n : chain[i].event.kind = "CREATE_FILE" /\ chain[i].event.path \in Paths
  /\ \A i, j \in 1 .. n : chain[i].event.path = chain[j].event.path => i = j

LEMMA AddedAreNew ==
  ASSUME CInv, NEW hashes, NEW chain, NEW n, AddsFiles(hashes, chain, n)
  PROVE  /\ NewEntries = SubSeq(chain, 1, n) /\ Len(NewEntries) = n /\ n \in Nat \ {0}
         /\ DOMAIN NewEntries = 1 .. n /\ \A i \in 1 .. n : NewEntries[i] = chain[i]
<1> DEFINE X == ToSet(stored) \cup {chain[i] : i \in 1 .. Len(chain)}
           t == SubSeq(chain, 1, n)
<1>1. /\ stored \in Seq(ToSet(stored)) /\ chain \in Seq({chain[i] : i \in 1 .. Len(chain)})
      /\ Len(chain) \in Nat
  BY LogIsSeq DEF CInv, SInv, StoredLog, AddsFiles, Chain
<1>2. \A A : A \subseteq X => Seq(A) \subseteq Seq(X)
  OBVIOUS
<1>3. stored \in Seq(X) /\ chain \in Seq(X) /\ n \in 1 .. Len(chain)
  BY <1>1, <1>2 DEF AddsFiles
<1> HIDE DEF X
<1>4. t \in Seq(X) /\ Len(t) = n /\ \A i \in 1 .. n : t[i] = chain[i]
  BY <1>1, <1>3, FrontGrows
<1> HIDE DEF t
<1>5. NewEntries = t
  <2>1. stored' = stored \o t
    BY DEF AddsFiles, t
  <2> QED
    BY <1>3, <1>4, <2>1, WrittenBehind DEF NewEntries
<1>6. n \in Nat \ {0} /\ DOMAIN t = 1 .. n
  BY <1>1, <1>3, <1>4
<1> QED
  BY <1>4, <1>5, <1>6 DEF t

\* The files that the storage lists are those of its replay.
LEMMA ListedAreLive ==
  ASSUME CInv, FittingLog(stored), Clean(OrderFileKeys(stored))
  PROVE  /\ ReadableStorage(stored) /\ LoadEventLog = OrderFileKeys(stored)
         /\ DOMAIN StorageFiles = DOMAIN Materialize(OrderFileKeys(stored)).files
         /\ DOMAIN StorageFiles = DOMAIN Texts(stored)
<1> DEFINE s == OrderFileKeys(stored)
           fs == Materialize(s)
<1>1. LoadEventLog = s /\ ReadableStorage(stored)
  BY LoadIsOrder DEF CInv, SInv, ReadableStorage
<1>2. /\ Sound(fs, WrittenIn(s)) /\ DOMAIN fs.fileOrigins = DOMAIN fs.files /\ Legible(s)
      /\ DOMAIN Texts(stored) = DOMAIN fs.files
  BY <1>1, StorageTexts
<1>3. ASSUME NEW p \in DOMAIN fs.files PROVE fs.fileOrigins[p] \in HashesOf(s)
  <2>1. <<fs.fileOrigins[p], fs.files[p].blob>> \in WrittenIn(s)
    BY <1>2 DEF Sound, FilesSound
  <2>2. PICK i \in 1 .. Len(s) : <<fs.fileOrigins[p], fs.files[p].blob>>
                                   = <<s[i].hash, s[i].event.blob>>
    BY <2>1 DEF WrittenIn
  <2>3. fs.fileOrigins[p] = s[i].hash /\ i \in DOMAIN s
    <3>1. i \in DOMAIN s
      BY <1>2 DEF Legible
    <3> HIDE DEF fs, s
    <3> QED
      BY <2>2, <3>1
  <2> HIDE DEF fs, s
  <2> QED
    BY <2>3 DEF HashesOf
<1> HIDE DEF fs, s
<1>4. DOMAIN StoredFiles(s, fs) = DOMAIN fs.files
  BY <1>2, <1>3 DEF StoredFiles
<1>5. StorageFiles = StoredFiles(s, fs)
  BY <1>1 DEF StorageFiles, fs
<1> QED
  BY <1>1, <1>2, <1>4, <1>5 DEF fs, s

\* The files an export gives keys of their own are files that have none.
LEMMA LegacyAreFiles ==
  ASSUME NEW list \in PathLists, NEW k \in Nat, Len(LegacyOf(list)) = k
  PROVE  LET legacy == LegacyOf(list)
         IN  /\ DOMAIN legacy = 1 .. k
             /\ \A i \in 1 .. k : /\ legacy[i] \in Paths /\ legacy[i] \in DOMAIN StorageFiles
                                  /\ StorageFiles[legacy[i]].wrapped = NoKey
             /\ \A i, j \in 1 .. k : legacy[i] = legacy[j] => i = j
<1> DEFINE paths == DedupeOrderedFilenames(list)
           legacy == LegacyOf(list)
           places == {n \in DOMAIN paths :
                        /\ \A i \in 1 .. n : paths[i] \in DOMAIN StorageFiles
                        /\ StorageFiles[paths[n]].wrapped = NoKey}
<1>1. legacy = Picked(paths, places)
  BY DEF LegacyOf, ToUpgrade, StorageFiles
<1>2. paths \in Seq(Paths) /\ \A i, j \in DOMAIN paths : paths[i] = paths[j] => i = j
  BY DedupedAreDistinct DEF IsInjective
<1> HIDE DEF paths, legacy
<1>3. PickedSoFar(Paths, paths, places, Len(paths), legacy)
  BY <1>1, <1>2, PickedIsPart
<1>4. \A i \in places : paths[i] \in DOMAIN StorageFiles /\ StorageFiles[paths[i]].wrapped = NoKey
  <2> SUFFICES ASSUME NEW i \in places
               PROVE  paths[i] \in DOMAIN StorageFiles /\ StorageFiles[paths[i]].wrapped = NoKey
    OBVIOUS
  <2>1. i \in 1 .. i
    BY <1>2
  <2> QED
    BY <2>1
<1>5. Apart(paths, places \cap 1 .. Len(paths))
  BY <1>2 DEF Apart
<1> HIDE DEF places
<1>6. /\ legacy \in Seq(Paths) /\ IsInjective(legacy)
      /\ \A j \in 1 .. Len(legacy) : \E i \in places : legacy[j] = paths[i]
  BY <1>3, <1>5 DEF PickedSoFar
<1>7. Len(legacy) = k
  BY DEF legacy
<1>8. DOMAIN legacy = 1 .. k /\ \A i \in 1 .. k : legacy[i] \in Paths
  BY <1>6, <1>7
<1>9. \A i \in 1 .. k : /\ legacy[i] \in DOMAIN StorageFiles
                        /\ StorageFiles[legacy[i]].wrapped = NoKey
  BY <1>4, <1>6, <1>7
<1>10. \A i, j \in 1 .. k : legacy[i] = legacy[j] => i = j
  BY <1>6, <1>8 DEF IsInjective
<1> QED
  BY <1>8, <1>9, <1>10 DEF legacy

\* An export writes the texts that are there, with keys.
LEMMA UpgradeAdds ==
  ASSUME MarksAreNoSeals, CInv, FittingLog(stored), Clean(OrderFileKeys(stored)),
         NEW list \in PathLists, NEW now \in Nat, NEW k,
         NEW hashes, NewHashes(stored, hashes, k), Len(hashes) = k,
         NEW n \in DOMAIN hashes, UpgradeLegacyFilesForExport(list, now, hashes, n)
  PROVE  LET chain == UpgradeEntries(list, now, hashes)
         IN  /\ AddsFiles(hashes, chain, n)
             /\ \A i \in 1 .. n :
                  /\ chain[i].event.path \in DOMAIN StorageFiles
                  /\ chain[i].event.wrapped # NoKey
                  /\ chain[i].event.blob.holds = Texts(stored)[chain[i].event.path]
<1> DEFINE legacy == LegacyOf(list)
           chain == UpgradeEntries(list, now, hashes)
<1>1. /\ stored' = stored \o SubSeq(chain, 1, n) /\ Chain(stored, hashes, chain)
      /\ Len(chain) = k /\ Len(legacy) = k /\ n \in 1 .. k /\ k \in Nat
  BY UpgradeIsChain DEF CInv
<1>2. /\ DOMAIN legacy = 1 .. k
      /\ \A i \in 1 .. k : /\ legacy[i] \in Paths /\ legacy[i] \in DOMAIN StorageFiles
                           /\ StorageFiles[legacy[i]].wrapped = NoKey
      /\ \A i, j \in 1 .. k : legacy[i] = legacy[j] => i = j
  BY <1>1, LegacyAreFiles
<1>3. ASSUME NEW i \in 1 .. n
      PROVE  /\ chain[i].event.kind = "CREATE_FILE" /\ chain[i].event.path = legacy[i]
             /\ chain[i].event.wrapped # NoKey
             /\ chain[i].event.blob.holds = Texts(stored)[legacy[i]]
  <2> DEFINE p == legacy[i]
             file == StorageFiles[p]
             text == DecryptFileForVolume(Volume, file.blob, NoKey)
             anew == EncryptFileForVolume(Volume, text, hashes[i])
  <2>1. i \in DOMAIN LegacyOf(list) /\ p \in DOMAIN StorageFiles /\ file.wrapped = NoKey
    BY <1>1, <1>2
  <2>2. chain[i].event = [kind |-> "CREATE_FILE", path |-> p, blob |-> anew.blob,
                          wrapped |-> anew.wrapped]
    BY ONLY <2>1, UpgradeEvents DEF StorageFiles
  <2>3. anew.wrapped # NoKey /\ anew.blob.holds = text
    BY WrappedIsKey DEF EncryptFileForVolume, Seal
  <2>4. GetFileByPath(StorageContext, p) = Unseal(file.blob, KeyOfFile(Volume, file.wrapped))
    BY <2>1, StorageFilesFit
  <2>5. p \in DOMAIN StorageContext.fs.fileOrigins
    BY <2>1, StorageFilesFit
  <2> HIDE DEF p, file, anew
  <2>6. text = GetFileByPath(StorageContext, p)
    BY <2>1, <2>4 DEF DecryptFileForVolume
  <2> HIDE DEF text
  <2>7. Texts(stored)[p] = text
    BY <2>5, <2>6, LoadedIsStorage DEF Texts
  <2> HIDE DEF chain
  <2> QED
    BY <2>2, <2>3, <2>7 DEF p
<1> HIDE DEF chain, legacy
<1>4. \A i \in 1 .. n : i \in 1 .. k
  BY <1>1
<1>5. AddsFiles(hashes, chain, n)
  <2>1. n \in 1 .. Len(chain)
    BY <1>1
  <2>2. \A i \in 1 .. n : chain[i].event.kind = "CREATE_FILE" /\ chain[i].event.path \in Paths
    BY <1>2, <1>3, <1>4
  <2>3. \A i, j \in 1 .. n : chain[i].event.path = chain[j].event.path => i = j
    BY <1>2, <1>3, <1>4
  <2> QED
    BY <1>1, <2>1, <2>2, <2>3 DEF AddsFiles
<1> QED
  BY <1>2, <1>3, <1>4, <1>5 DEF chain

\* What new files bring to the storage when they lie beside the others.
LEMMA AddedFilesJoin ==
  ASSUME CInv, ReadableStorage(stored), ReadableStorage(stored'),
         NEW hashes, NEW chain, NEW n, AddsFiles(hashes, chain, n), CreatesFiles(stored, chain, n)
  PROVE  Brought(Texts(stored), Texts(stored'), LoadContext(InitialContext, stored').keys, chain, n)
<1> DEFINE more == stored \o SubSeq(chain, 1, n)
<1>1. stored' = more
  BY DEF AddsFiles
<1>2. n \in 0 .. Len(chain)
  <2>1. n \in 1 .. Len(chain) /\ Len(chain) \in Nat
    BY DEF AddsFiles, Chain
  <2> QED
    BY <2>1
<1>3. ReadableStorage(more) /\ Chain(stored, hashes, chain)
  BY <1>1 DEF AddsFiles
<1>4. Brought(Texts(stored), Texts(more), LoadContext(InitialContext, more).keys, chain, n)
  BY ONLY ReadableStorage(stored), CreatesFiles(stored, chain, n), <1>2, <1>3, NewFilesJoin
<1> HIDE DEF more
<1> QED
  BY <1>1, <1>4

\* An export leaves every text as it was, and what it has written has keys.
LEMMA UpgradeLeavesTexts ==
  ASSUME MarksAreNoSeals, CInv, ReadableStorage(stored), ReadableStorage(stored'),
         NEW list \in PathLists, NEW now \in Nat, NEW k,
         NEW hashes, NewHashes(stored, hashes, k), Len(hashes) = k,
         NEW n \in DOMAIN hashes, UpgradeLegacyFilesForExport(list, now, hashes, n)
  PROVE  LET texts == Texts(stored)
             keys  == LoadContext(InitialContext, stored').keys
         IN  /\ Texts(stored') = texts
             /\ \A i \in DOMAIN NewEntries :
                  /\ keys[NewEntries[i].event.path] # NoKey
                  /\ texts[NewEntries[i].event.path] = NewEntries[i].event.blob.holds
<1> DEFINE chain == UpgradeEntries(list, now, hashes)
           q == OrderFileKeys(stored)
           vol == Materialize(q)
           texts == Texts(stored)
           after == Texts(stored')
           keys == LoadContext(InitialContext, stored').keys
           paths == {chain[i].event.path : i \in 1 .. n}
<1>1. /\ AddsFiles(hashes, chain, n)
      /\ \A i \in 1 .. n : /\ chain[i].event.path \in DOMAIN StorageFiles
                           /\ chain[i].event.wrapped # NoKey
                           /\ chain[i].event.blob.holds = texts[chain[i].event.path]
  BY UpgradeAdds DEF ReadableStorage
<1>2. DOMAIN StorageFiles = DOMAIN vol.files /\ DOMAIN texts = DOMAIN vol.files
  BY ListedAreLive DEF ReadableStorage
<1>3. Sound(vol, WrittenIn(q))
  BY StorageTexts
<1>4. \A p, r \in DOMAIN vol.files : ~IsStrictDescendant(p, r)
  BY <1>3 DEF Sound, FilesSound
<1> HIDE DEF chain, vol, texts, after, keys
<1>5. CreatesFiles(stored, chain, n)
  <2>1. \A i \in 1 .. n : chain[i].event.path \in DOMAIN vol.files
    BY <1>1, <1>2
  <2>2. \A i \in 1 .. n : Beside(vol, chain[i].event.path)
    BY <1>4, <2>1 DEF Beside
  <2> QED
    BY <1>1, <1>4, <2>1, <2>2 DEF CreatesFiles, AddsFiles, vol
<1>6. /\ DOMAIN after = DOMAIN texts \cup paths
      /\ \A i \in 1 .. n : /\ after[chain[i].event.path] = chain[i].event.blob.holds
                           /\ keys[chain[i].event.path] = chain[i].event.wrapped
      /\ \A p \in DOMAIN texts \ paths : after[p] = texts[p]
  <2>1. Brought(texts, after, keys, chain, n)
    BY <1>1, <1>5, AddedFilesJoin DEF texts, after, keys
  <2> QED
    BY <2>1 DEF Brought
<1>7. DOMAIN NewEntries = 1 .. n /\ \A i \in 1 .. n : NewEntries[i] = chain[i]
  BY <1>1, AddedAreNew
<1>8. \A i \in 1 .. n : after[chain[i].event.path] = texts[chain[i].event.path]
  BY <1>1, <1>6, <1>7
<1>9. after = texts
  <2>1. DOMAIN after = DOMAIN texts
    BY <1>1, <1>2, <1>6
  <2>2. \A p \in DOMAIN texts : after[p] = texts[p]
    BY <1>6, <1>8
  <2>3. after = [p \in DOMAIN after |-> after[p]] /\ texts = [p \in DOMAIN texts |-> texts[p]]
    BY DEF after, texts, Texts
  <2> QED
    BY <2>1, <2>2, <2>3
<1>10. \A i \in DOMAIN NewEntries : /\ keys[NewEntries[i].event.path] # NoKey
                                    /\ texts[NewEntries[i].event.path]
                                         = NewEntries[i].event.blob.holds
  BY <1>1, <1>6, <1>7
<1> QED
  BY <1>9, <1>10 DEF texts, after, keys

\* What an import writes is the service's.
LEMMA ImportedBy ==
  ASSUME NEW bundle, NEW now, NEW hashes, NEW n \in DOMAIN bundle.items
  PROVE  ImportedEntries(bundle, now, hashes)[n].by = "service"
BY DEF ImportedEntries, AppendCreateEvents

\* An import writes files under names that no file has.
LEMMA ImportAdds ==
  ASSUME CopiesAreNames, CInv, NEW bundle, IsBundle(bundle), NEW now \in Nat, NEW hashes,
         NewHashes(stored, hashes, Len(bundle.items)), NEW n \in 1 .. Len(bundle.items),
         stored' = stored \o SubSeq(ImportedEntries(bundle, now, hashes), 1, n)
  PROVE  LET chain == ImportedEntries(bundle, now, hashes)
         IN  /\ AddsFiles(hashes, chain, n)
             /\ \A i \in 1 .. n : /\ chain[i].event.path \notin DOMAIN StorageFiles
                                  /\ chain[i].by = "service"
<1> DEFINE K == Len(bundle.items)
           taken == DOMAIN StorageFiles
           names == ImportedNames(bundle.items, taken)
           chain == ImportedEntries(bundle, now, hashes)
<1>1. /\ K \in Nat /\ DOMAIN bundle.items = 1 .. K
      /\ \A i \in 1 .. K : bundle.items[i].name \in Paths
  BY DEF IsBundle, IsItem
<1>2. IsFiniteSet(taken)
  BY FilesAreFinite DEF CInv, StorageFiles
<1>3. Chain(stored, hashes, chain) /\ Len(chain) = K
  BY ImportedIsChain DEF CInv
<1>4. \A i \in 1 .. K : /\ chain[i].event.kind = "CREATE_FILE" /\ chain[i].event.path = names[i]
                        /\ chain[i].by = "service"
  <2> SUFFICES ASSUME NEW i \in 1 .. K
               PROVE  /\ chain[i].event.kind = "CREATE_FILE" /\ chain[i].event.path = names[i]
                      /\ chain[i].by = "service"
    OBVIOUS
  <2> DEFINE wrapped == WrapFileKeyForVolume(Volume, ItemKey(bundle, bundle.items[i]))
  <2>0. i \in DOMAIN bundle.items
    BY <1>1
  <2>1. chain[i].event = [kind |-> "CREATE_FILE", path |-> names[i],
                          blob |-> bundle.items[i].blob, wrapped |-> wrapped]
    BY ONLY <2>0, ImportedEvents DEF StorageFiles
  <2>2. chain[i].by = "service"
    BY ONLY <2>0, ImportedBy
  <2> HIDE DEF chain, names, wrapped
  <2>3. chain[i].event.kind = "CREATE_FILE" /\ chain[i].event.path = names[i]
    BY ONLY <2>1
  <2> QED
    BY ONLY <2>2, <2>3
<1>5. stored' = stored \o SubSeq(chain, 1, n)
  OBVIOUS
<1> HIDE DEF chain, taken
<1>6. NamedSoFar(taken, K, names)
  BY <1>1, <1>2, NamesAreFree
<1> HIDE DEF names
<1>7. /\ \A i \in 1 .. K : names[i] \in Paths /\ names[i] \notin taken
      /\ \A i, j \in 1 .. K : names[i] = names[j] => i = j
  BY <1>6 DEF NamedSoFar
<1>8. n \in 1 .. Len(chain) /\ \A i \in 1 .. n : i \in 1 .. K
  BY <1>1, <1>3
<1>9. AddsFiles(hashes, chain, n)
  <2>1. \A i \in 1 .. n : chain[i].event.kind = "CREATE_FILE" /\ chain[i].event.path \in Paths
    BY <1>4, <1>7, <1>8
  <2>2. \A i, j \in 1 .. n : chain[i].event.path = chain[j].event.path => i = j
    BY <1>4, <1>7, <1>8
  <2> QED
    BY <1>3, <1>5, <1>8, <2>1, <2>2 DEF AddsFiles
<1> QED
  BY <1>4, <1>7, <1>8, <1>9 DEF chain, taken

\* New files whose names are no directories, and lie in no file, old or new,
\* come beside the others.
LEMMA ApartIsBeside ==
  ASSUME CInv, ReadableStorage(stored), NEW hashes, NEW chain, NEW n,
         AddsFiles(hashes, chain, n),
         LET fs    == Materialize(OrderFileKeys(stored))
             paths == {chain[i].event.path : i \in 1 .. n}
         IN  /\ paths \cap DOMAIN fs.dirs = {}
             /\ \A p \in paths : AncestorPaths(p) \cap (DOMAIN fs.files \cup paths) = {}
  PROVE  CreatesFiles(stored, chain, n)
<1> DEFINE q == OrderFileKeys(stored)
           fs == Materialize(q)
           path(i) == chain[i].event.path
           paths == {path(i) : i \in 1 .. n}
<1>1. Fit(fs.dirs, DOMAIN fs.files)
  BY StorageTexts DEF Sound
<1>2. /\ DOMAIN fs.files \subseteq Paths
      /\ \A p \in DOMAIN fs.files : AncestorPaths(p) \subseteq DOMAIN fs.dirs
  BY <1>1 DEF Fit, Covered, IsFileSet
<1>3. \A i \in 1 .. n : path(i) \in Paths /\ path(i) \in paths
  BY DEF AddsFiles
<1>4. /\ paths \cap DOMAIN fs.dirs = {}
      /\ \A p \in paths : AncestorPaths(p) \cap (DOMAIN fs.files \cup paths) = {}
  OBVIOUS
<1> HIDE DEF paths, fs
<1>5. ASSUME NEW i \in 1 .. n PROVE Beside(fs, path(i))
  <2> SUFFICES ASSUME NEW p \in DOMAIN fs.files
               PROVE  ~IsStrictDescendant(p, path(i)) /\ ~IsStrictDescendant(path(i), p)
    BY DEF Beside
  <2>1. p \in Paths /\ path(i) \in Paths /\ path(i) \in paths
    BY <1>2, <1>3
  <2>2. path(i) \notin AncestorPaths(p)
    BY <1>2, <1>4, <2>1
  <2>3. p \notin AncestorPaths(path(i))
    BY <1>4, <2>1
  <2> HIDE DEF path
  <2> QED
    BY <2>1, <2>2, <2>3, AncestorIsAbove
<1>6. ASSUME NEW i \in 1 .. n, NEW j \in 1 .. n PROVE ~IsStrictDescendant(path(i), path(j))
  <2>1. path(i) \in Paths /\ path(j) \in Paths /\ path(i) \in paths /\ path(j) \in paths
    BY <1>3
  <2>2. path(j) \notin AncestorPaths(path(i))
    BY <1>4, <2>1
  <2> HIDE DEF path
  <2> QED
    BY <2>1, <2>2, AncestorIsAbove
<1> QED
  BY <1>5, <1>6 DEF CreatesFiles, AddsFiles, fs

\* What an exchange adds.
LEMMA ExchangeAdds ==
  ASSUME CopiesAreNames, CInv, NEW now \in Times, NEW k \in 1 .. Room,
         NEW hashes \in {h \in [1 .. k -> FreshHashes] : IsInjective(h)}, Exchange(now, hashes)
  PROVE  \/ \E list \in PathLists, n \in DOMAIN hashes :
              UpgradeLegacyFilesForExport(list, now, hashes, n)
         \/ \E chain, n : /\ AddsFiles(hashes, chain, n)
                          /\ \A i \in 1 .. n : /\ chain[i].event.path \notin DOMAIN StorageFiles
                                               /\ chain[i].by = "service"
<1> DEFINE Imports == \E chain, n : /\ AddsFiles(hashes, chain, n)
                                    /\ \A i \in 1 .. n :
                                         /\ chain[i].event.path \notin DOMAIN StorageFiles
                                         /\ chain[i].by = "service"
<1>1. /\ now \in Nat /\ k \in Nat /\ Len(hashes) = k /\ DOMAIN hashes = 1 .. k
      /\ NewHashes(stored, hashes, k) /\ k \in 1 .. k
  BY ExchangeHashes, TimesAreNumbers
<1>2. ASSUME NEW given \in ForeignBundles \cup OwnBundles, NEW bundle,
             bundle = ParseReferenceBundle(given), bundle # Failed,
             Len(hashes) = Len(bundle.items),
             \/ ImportReferences(bundle, now, hashes)
             \/ \E n \in DOMAIN hashes : ImportFails(bundle, now, hashes, n)
      PROVE  Imports
  <2> DEFINE chain == ImportedEntries(bundle, now, hashes)
  <2>1. IsBundle(bundle) /\ NewHashes(stored, hashes, Len(bundle.items))
    BY <1>1, <1>2, ParsedIsBundle DEF CInv
  <2>2. SubSeq(chain, 1, k) = chain
    <3>1. Chain(stored, hashes, chain) /\ Len(chain) = k
      BY <1>1, <1>2, <2>1, ImportedIsChain DEF CInv
    <3> QED
      BY <3>1, FrontGrows DEF Chain
  <2>3. PICK n \in 1 .. k : stored' = stored \o SubSeq(chain, 1, n)
    <3>1. ImportReferences(bundle, now, hashes) => stored' = stored \o chain
      BY DEF ImportReferences
    <3>2. \A n : ImportFails(bundle, now, hashes, n) => stored' = stored \o SubSeq(chain, 1, n)
      BY DEF ImportFails
    <3> HIDE DEF chain
    <3> QED
      BY <1>1, <1>2, <2>2, <3>1, <3>2
  <2>4. n \in 1 .. Len(bundle.items)
    BY <1>1, <1>2
  <2>5. /\ AddsFiles(hashes, chain, n)
        /\ \A i \in 1 .. n : /\ chain[i].event.path \notin DOMAIN StorageFiles
                             /\ chain[i].by = "service"
    BY <1>1, <2>1, <2>3, <2>4, ImportAdds
  <2> HIDE DEF chain
  <2> QED
    BY <2>5
<1> QED
  BY <1>2 DEF Exchange

LEMMA StorageIsReadable == FInv /\ AllClean => ReadableStorage(stored)
BY DEF FInv, CInv, SInv, AllClean, ReadableStorage

\* What a step says of an export, and of an import.
UpgradeKeeps ==
  NewEntries # <<>> /\ NewEntries[1].by = "upgrade" =>
    /\ Texts(stored') = Texts(stored)
    /\ LET keys == LoadContext(InitialContext, stored').keys
       IN  \A i \in DOMAIN NewEntries : keys[NewEntries[i].event.path] # NoKey

ImportKeeps ==
  LET paths == {NewEntries[i].event.path : i \in DOMAIN NewEntries}
      fs    == LoadContext(InitialContext, stored).fs
      texts == Texts(stored)
      after == Texts(stored')
  IN  /\ Len(NewEntries) > 1
      /\ paths \cap DOMAIN fs.dirs = {}
      /\ \A p \in paths : AncestorPaths(p) \cap (DOMAIN fs.files \cup paths) = {}
      => /\ \A p \in DOMAIN texts : p \in DOMAIN after /\ after[p] = texts[p]
         /\ \A i \in DOMAIN NewEntries :
              after[NewEntries[i].event.path] = NewEntries[i].event.blob.holds

LEMMA ImportLeavesFiles ==
  ASSUME CInv, ReadableStorage(stored), ReadableStorage(stored'),
         NEW hashes, NEW chain, NEW n, AddsFiles(hashes, chain, n),
         \A i \in 1 .. n : chain[i].event.path \notin DOMAIN StorageFiles
  PROVE  ImportKeeps
<1> DEFINE fs == Materialize(OrderFileKeys(stored))
           texts == Texts(stored)
           after == Texts(stored')
           keys == LoadContext(InitialContext, stored').keys
           paths == {chain[i].event.path : i \in 1 .. n}
<1>1. DOMAIN NewEntries = 1 .. n /\ \A i \in 1 .. n : NewEntries[i] = chain[i]
  BY AddedAreNew
<1>2. paths = {NewEntries[i].event.path : i \in DOMAIN NewEntries}
  BY <1>1
<1>3. LoadContext(InitialContext, stored).fs = fs
  BY StorageTexts DEF ContextOf
<1>4. DOMAIN StorageFiles = DOMAIN texts
  BY ListedAreLive DEF ReadableStorage
<1>5. ASSUME paths \cap DOMAIN fs.dirs = {},
             \A p \in paths : AncestorPaths(p) \cap (DOMAIN fs.files \cup paths) = {}
      PROVE  Brought(texts, after, keys, chain, n)
  <2>1. CreatesFiles(stored, chain, n)
    BY <1>5, ApartIsBeside
  <2> QED
    BY <2>1, AddedFilesJoin
<1> HIDE DEF fs, texts, after, keys
<1>6. ASSUME Brought(texts, after, keys, chain, n)
      PROVE  /\ \A p \in DOMAIN texts : p \in DOMAIN after /\ after[p] = texts[p]
             /\ \A i \in DOMAIN NewEntries :
                  after[NewEntries[i].event.path] = NewEntries[i].event.blob.holds
  <2>1. /\ DOMAIN after = DOMAIN texts \cup paths
        /\ \A i \in 1 .. n : after[chain[i].event.path] = chain[i].event.blob.holds
        /\ \A p \in DOMAIN texts \ paths : after[p] = texts[p]
    BY <1>6 DEF Brought
  <2>2. \A p \in DOMAIN texts : p \notin paths
    BY <1>4
  <2> HIDE DEF paths
  <2> QED
    BY <1>1, <2>1, <2>2
<1> HIDE DEF paths
<1> QED
  BY <1>2, <1>3, <1>5, <1>6 DEF ImportKeeps, texts, after

LEMMA StepsKeepFiles ==
  ASSUME CopiesAreNames, MarksAreNoSeals, FInv, ReadableStorage(stored),
         ReadableStorage(stored'), [ReferencesNext]_vars
  PROVE  UpgradeKeeps /\ ImportKeeps
<1>0. CInv
  BY DEF FInv
<1>1. ASSUME NewEntries = <<>> \/ (Len(NewEntries) = 1 /\ NewEntries[1].by # "upgrade")
      PROVE  UpgradeKeeps /\ ImportKeeps
  <2>1. ~(Len(NewEntries) > 1)
    <3> DEFINE m == Len(NewEntries)
    <3>1. m = 0 \/ m = 1
      BY <1>1
    <3> HIDE DEF m
    <3>2. ~(m > 1)
      BY ONLY <3>1
    <3> QED
      BY <3>2 DEF m
  <2>2. ImportKeeps
    BY <2>1 DEF ImportKeeps
  <2>3. UpgradeKeeps
    BY <1>1 DEF UpgradeKeeps
  <2> QED
    BY <2>2, <2>3
<1>2. ASSUME NEW now \in Times, NEW k \in 1 .. Room,
             NEW hashes \in {h \in [1 .. k -> FreshHashes] : IsInjective(h)},
             Exchange(now, hashes)
      PROVE  UpgradeKeeps /\ ImportKeeps
  <2>1. /\ now \in Nat /\ Len(hashes) = k /\ NewHashes(stored, hashes, k)
    BY ExchangeHashes, TimesAreNumbers
  <2>2. ASSUME NEW list \in PathLists, NEW n \in DOMAIN hashes,
               UpgradeLegacyFilesForExport(list, now, hashes, n)
        PROVE  UpgradeKeeps /\ ImportKeeps
    <3> DEFINE texts == Texts(stored)
               keys == LoadContext(InitialContext, stored').keys
    <3>1. /\ Texts(stored') = texts
          /\ \A i \in DOMAIN NewEntries : /\ keys[NewEntries[i].event.path] # NoKey
                                          /\ texts[NewEntries[i].event.path]
                                               = NewEntries[i].event.blob.holds
      BY <1>0, <2>1, <2>2, UpgradeLeavesTexts
    <3> HIDE DEF texts, keys
    <3> QED
      BY <3>1 DEF UpgradeKeeps, ImportKeeps, texts, keys
  <2>3. ASSUME NEW chain, NEW n, AddsFiles(hashes, chain, n),
               \A i \in 1 .. n : /\ chain[i].event.path \notin DOMAIN StorageFiles
                                 /\ chain[i].by = "service"
        PROVE  UpgradeKeeps /\ ImportKeeps
    <3>1. ImportKeeps
      BY <1>0, <2>3, ImportLeavesFiles
    <3>2. NewEntries[1] = chain[1] /\ 1 \in 1 .. n
      BY <1>0, <2>3, AddedAreNew
    <3>3. UpgradeKeeps
      BY <2>3, <3>2 DEF UpgradeKeeps
    <3> QED
      BY <3>1, <3>3
  <2> QED
    BY <1>0, <1>2, <2>2, <2>3, ExchangeAdds
<1> QED
  BY <1>0, <1>1, <1>2, CallsWriteOne DEF ReferencesNext

\* An export that gives files keys of their own leaves every text that a reader
\* of the storage finds as it was, and what it has written can be exported,
\* however much of it is written; as long as no live file is renamed onto a
\* directory it is in.
THEOREM UpgradesKeepContents ==
  ASSUME CopiesAreNames, MarksAreNoSeals
  PROVE  ReferencesSpec /\ []AllClean => UpgradeKeepsContents
<1>1. FInv /\ AllClean => ReadableStorage(stored)
  BY StorageIsReadable
<1>2. ReadableStorage(stored) /\ ReadableStorage(stored)' /\ FInv /\ [ReferencesNext]_vars
        => [UpgradeKeeps]_vars
  BY StepsKeepFiles
<1>3. UpgradeKeepsContents <=> [][UpgradeKeeps]_vars
  BY PTL DEF UpgradeKeepsContents, UpgradeKeeps, NewEntries
<1> QED
  BY <1>1, <1>2, <1>3, InitFits, ReferencesKeepFit, PTL DEF ReferencesSpec

\* An import brings its files with their texts, and leaves the others as they
\* were, when none of the names it chooses is a directory or lies in a file; as
\* long as no live file is renamed onto a directory it is in.
THEOREM ImportsKeepFiles ==
  ASSUME CopiesAreNames, MarksAreNoSeals
  PROVE  ReferencesSpec /\ []AllClean => ImportKeepsFiles
<1> DEFINE KeepsFiles ==
      LET new   == SubSeq(stored', Len(stored) + 1, Len(stored'))
          paths == {new[i].event.path : i \in DOMAIN new}
      IN  Len(new) > 1 /\ dirty' =>
            LET fs    == LoadContext(InitialContext, stored).fs
                texts == Texts(stored)
                after == Texts(stored')
            IN  /\ paths \cap DOMAIN fs.dirs = {}
                /\ \A p \in paths : AncestorPaths(p) \cap (DOMAIN fs.files \cup paths) = {}
                => /\ \A p \in DOMAIN texts : p \in DOMAIN after /\ after[p] = texts[p]
                   /\ \A i \in DOMAIN new :
                        after[new[i].event.path] = new[i].event.blob.holds
<1>1. FInv /\ AllClean => ReadableStorage(stored)
  BY StorageIsReadable
<1>2. ReadableStorage(stored) /\ ReadableStorage(stored)' /\ FInv /\ [ReferencesNext]_vars
        => [KeepsFiles]_vars
  <2>1. ImportKeeps => KeepsFiles
    BY DEF ImportKeeps, NewEntries
  <2> HIDE DEF KeepsFiles
  <2> QED
    BY <2>1, StepsKeepFiles
<1> QED
  BY <1>1, <1>2, InitFits, ReferencesKeepFit, PTL DEF ReferencesSpec, ImportKeepsFiles

=============================================================================
