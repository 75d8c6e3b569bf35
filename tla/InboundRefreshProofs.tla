------------------------ MODULE InboundRefreshProofs ------------------------
(***************************************************************************)
(* What handlers of notices and refreshes keep true, for any channel and   *)
(* any number of handlers side by side: the types, that a stale mark is    *)
(* found, and that a volume nothing interferes with is current.            *)
(***************************************************************************)
EXTENDS InboundRefresh, TLAPS

\* As long as nothing has run side by side, what the one handler or refresh
\* under way will show has all that is projected.
Alone ==
  ~overlapped =>
    /\ \A m, n \in Active : m = n
    /\ refreshing # Nothing => Active = {} /\ projected \subseteq refreshing
    /\ Active = {} /\ refreshing = Nothing => projected \subseteq view
    /\ \A n \in Active :
         /\ handler[n].at = "check" => projected \subseteq view
         /\ handler[n].at = "show" => projected \subseteq handler[n].replay

IInv == TypeOK /\ MarkIsFound /\ Alone

-----------------------------------------------------------------------------
(* One handler *)

HandlersOK ==
  /\ handler \in [Notices -> [at : Steps, replay : {Nothing} \cup Replays]]
  /\ \A n \in Notices : handler[n].at \in {"merge", "show"} <=> handler[n].replay # Nothing
  /\ \A b \in Blocks : handler[b].at \notin {"check", "apply"}

\* Handler `n` has come from one await to another, the others have not moved.
Moved(n, from, to, replay) ==
  /\ handler[n].at = from
  /\ handler'[n] = [at |-> to, replay |-> replay]
  /\ \A m \in Notices \ {n} : handler'[m] = handler[m]

\* The types of the handlers, and which of them are under way, after a step of
\* one that was under way. The storage does not change in it.
LEMMA GoesOn ==
  ASSUME TypeOK, NEW n \in Notices, NEW from \in Steps \ {"none", "done"},
         NEW to \in Steps \ {"none"}, NEW replay \in {Nothing} \cup Replays,
         Goes(n, from, to, replay), stored' = stored,
         to \in {"merge", "show"} <=> replay # Nothing,
         to \notin {"check", "apply"} \/ n \notin Blocks
  PROVE  /\ Moved(n, from, to, replay)
         /\ HandlersOK'
         /\ \A f \in Events : handler'[f].at # "none" => f \in stored'
         /\ n \in Active
         /\ Active' = IF to = "done" THEN Active \ {n} ELSE Active
<1>1. /\ handler \in [Notices -> [at : Steps, replay : {Nothing} \cup Replays]]
      /\ handler[n].at = from
      /\ handler' = [handler EXCEPT ![n] = [at |-> to, replay |-> replay]]
  BY DEF TypeOK, Goes
<1>2. /\ handler' \in [Notices -> [at : Steps, replay : {Nothing} \cup Replays]]
      /\ Moved(n, from, to, replay)
  BY <1>1 DEF Moved
<1>3. HandlersOK'
  <2>1. \A m \in Notices : handler'[m].at \in {"merge", "show"} <=> handler'[m].replay # Nothing
    BY <1>2 DEF TypeOK, Moved
  <2>2. \A b \in Blocks : handler'[b].at \notin {"check", "apply"}
    BY <1>2 DEF TypeOK, Notices, Moved
  <2> QED
    BY <1>2, <2>1, <2>2 DEF HandlersOK, Replays
<1>4. \A f \in Events : handler'[f].at # "none" => f \in stored'
  BY <1>1, <1>2 DEF TypeOK, Notices, Moved
<1>5. n \in Active /\ Active' = IF to = "done" THEN Active \ {n} ELSE Active
  BY <1>1, <1>2 DEF Active, Steps, Moved
<1> QED
  BY <1>2, <1>3, <1>4, <1>5

\* Who is about to find the mark is not moved by the step of another.
LEMMA MarkStaysFound ==
  ASSUME MarkIsFound, NEW n \in Notices, NEW from, NEW to, NEW replay,
         Moved(n, from, to, replay), from # "read"
  PROVE  dirty => \E m \in Notices : handler'[m].at = "read"
  BY DEF MarkIsFound, Moved

LEMMA NothingIsNoSet == ASSUME TypeOK, NEW replay \in Replays PROVE replay # Nothing
  BY NothingIsNoReplay DEF TypeOK, Replays

\* What is known of a handler that runs alone.
LEMMA RunsAlone ==
  ASSUME Alone, ~overlapped, NEW n \in Active
  PROVE  /\ Active = {n} /\ refreshing = Nothing
         /\ handler[n].at = "check" => projected \subseteq view
         /\ handler[n].at = "show" => projected \subseteq handler[n].replay
  BY DEF Alone

-----------------------------------------------------------------------------
(* One lemma per step of a handler *)

LEMMA CheckKeeps ==
  ASSUME IInv, NEW e \in Events, Check(e)
  PROVE  IInv'
<1> DEFINE to == IF InboundEventReadyToMaterialize(e) THEN "apply" ELSE "done"
<1>1. /\ TypeOK /\ MarkIsFound /\ Alone /\ e \in Notices
      /\ Goes(e, "check", to, Nothing)
      /\ UNCHANGED <<stored, blocks, projected, dirty, refreshing, view, overlapped>>
      /\ e \notin Blocks
  BY EventsAreNoBlocks DEF IInv, Check, arrived, service, Notices
<1>2. "check" \in Steps \ {"none", "done"} /\ to \in Steps \ {"none"} /\ to \in {"apply", "done"}
  BY DEF Steps
<1> HIDE DEF to
<1>3. Nothing \in {Nothing} \cup Replays /\ (to \in {"merge", "show"} <=> Nothing # Nothing)
  BY <1>2
<1>4. /\ Moved(e, "check", to, Nothing)
      /\ HandlersOK'
      /\ \A f \in Events : handler'[f].at # "none" => f \in stored'
      /\ e \in Active
      /\ Active' = IF to = "done" THEN Active \ {e} ELSE Active
  BY <1>1, <1>2, <1>3, GoesOn
<1>5. TypeOK'
  BY <1>1, <1>4 DEF TypeOK, HandlersOK, Replays, Notices
<1>6. MarkIsFound'
  BY <1>1, <1>4, MarkStaysFound DEF MarkIsFound, Notices
<1>7. ASSUME ~overlapped'
      PROVE  Alone'
  <2>1. Active = {e} /\ refreshing = Nothing /\ projected \subseteq view
    BY <1>1, <1>4, <1>7, RunsAlone DEF Moved
  <2> QED
    BY <1>1, <1>2, <1>4, <2>1 DEF Alone, Moved
<1> QED
  BY <1>5, <1>6, <1>7 DEF IInv, Alone

LEMMA ApplyInboundEventKeeps ==
  ASSUME IInv, NEW e \in Events, ApplyInboundEvent(e)
  PROVE  IInv'
<1>1. /\ TypeOK /\ MarkIsFound /\ Alone /\ e \in Notices
      /\ Goes(e, "apply", "take", Nothing)
      /\ UNCHANGED <<stored, blocks, dirty, refreshing, view, overlapped>>
      /\ projected' = projected \cup {e} /\ e \in stored
  BY DEF IInv, TypeOK, Goes, ApplyInboundEvent, arrived, service, Notices
<1>2. "apply" \in Steps \ {"none", "done"} /\ "take" \in Steps \ {"none"}
  BY DEF Steps
<1>3. Nothing \in {Nothing} \cup Replays /\ ("take" \in {"merge", "show"} <=> Nothing # Nothing)
  BY <1>1, NothingIsNoSet DEF TypeOK, Replays
<1>4. /\ Moved(e, "apply", "take", Nothing)
      /\ HandlersOK'
      /\ \A f \in Events : handler'[f].at # "none" => f \in stored'
      /\ e \in Active
      /\ Active' = IF "take" = "done" THEN Active \ {e} ELSE Active
  BY <1>1, <1>2, <1>3, GoesOn
<1>5. TypeOK'
  BY <1>1, <1>4 DEF TypeOK, HandlersOK, Replays, Notices
<1>6. MarkIsFound'
  BY <1>1, <1>4, MarkStaysFound DEF MarkIsFound, Notices
<1>7. ASSUME ~overlapped'
      PROVE  Alone'
  <2>1. Active = {e} /\ refreshing = Nothing
    BY <1>1, <1>4, <1>7, RunsAlone
  <2> QED
    BY <1>1, <1>4, <2>1 DEF Alone, Moved
<1> QED
  BY <1>5, <1>6, <1>7 DEF IInv, Alone

LEMMA ApplyFailsKeeps ==
  ASSUME IInv, NEW e \in Events, ApplyFails(e)
  PROVE  IInv'
<1>1. /\ TypeOK /\ MarkIsFound /\ Alone /\ e \in Notices
      /\ Goes(e, "apply", "mark", Nothing)
      /\ UNCHANGED <<stored, blocks, projected, dirty, refreshing, view, overlapped>>
  BY DEF IInv, ApplyFails, arrived, service, Notices
<1>2. "apply" \in Steps \ {"none", "done"} /\ "mark" \in Steps \ {"none"}
  BY DEF Steps
<1>3. Nothing \in {Nothing} \cup Replays /\ ("mark" \in {"merge", "show"} <=> Nothing # Nothing)
  BY <1>1, NothingIsNoSet DEF TypeOK, Replays
<1>4. /\ Moved(e, "apply", "mark", Nothing)
      /\ HandlersOK'
      /\ \A f \in Events : handler'[f].at # "none" => f \in stored'
      /\ e \in Active
      /\ Active' = IF "mark" = "done" THEN Active \ {e} ELSE Active
  BY <1>1, <1>2, <1>3, GoesOn
<1>5. TypeOK'
  BY <1>1, <1>4 DEF TypeOK, HandlersOK, Replays, Notices
<1>6. MarkIsFound'
  BY <1>1, <1>4, MarkStaysFound DEF MarkIsFound, Notices
<1>7. ASSUME ~overlapped'
      PROVE  Alone'
  <2>1. Active = {e} /\ refreshing = Nothing
    BY <1>1, <1>4, <1>7, RunsAlone
  <2> QED
    BY <1>1, <1>4, <2>1 DEF Alone, Moved
<1> QED
  BY <1>5, <1>6, <1>7 DEF IInv, Alone

LEMMA MarkReplayStaleKeeps ==
  ASSUME IInv, NEW n \in Notices, MarkReplayStale(n)
  PROVE  IInv'
<1>1. /\ TypeOK /\ MarkIsFound /\ Alone
      /\ Goes(n, "mark", "read", Nothing)
      /\ UNCHANGED <<stored, blocks, projected, refreshing, view, overlapped>>
      /\ dirty' = TRUE
  BY DEF IInv, MarkReplayStale, arrived, service
<1>2. "mark" \in Steps \ {"none", "done"} /\ "read" \in Steps \ {"none"}
  BY DEF Steps
<1>3. Nothing \in {Nothing} \cup Replays /\ ("read" \in {"merge", "show"} <=> Nothing # Nothing)
  BY <1>1, NothingIsNoSet DEF TypeOK, Replays
<1>4. /\ Moved(n, "mark", "read", Nothing)
      /\ HandlersOK'
      /\ \A f \in Events : handler'[f].at # "none" => f \in stored'
      /\ n \in Active
      /\ Active' = IF "read" = "done" THEN Active \ {n} ELSE Active
  BY <1>1, <1>2, <1>3, GoesOn
<1>5. TypeOK'
  BY <1>1, <1>4 DEF TypeOK, HandlersOK, Replays, Notices
<1>6. MarkIsFound'
  BY <1>4 DEF MarkIsFound, Moved
<1>7. ASSUME ~overlapped'
      PROVE  Alone'
  <2>1. Active = {n} /\ refreshing = Nothing
    BY <1>1, <1>4, <1>7, RunsAlone
  <2> QED
    BY <1>1, <1>4, <2>1 DEF Alone, Moved
<1> QED
  BY <1>5, <1>6, <1>7 DEF IInv, Alone

LEMMA ReadCleanKeeps ==
  ASSUME IInv, NEW n \in Notices, ReadClean(n)
  PROVE  IInv'
<1>1. /\ TypeOK /\ MarkIsFound /\ Alone
      /\ Goes(n, "read", "show", projected)
      /\ UNCHANGED <<stored, blocks, projected, dirty, refreshing, view, overlapped>>
      /\ ~dirty
  BY DEF IInv, ReadClean, arrived, service
<1>2. "read" \in Steps \ {"none", "done"} /\ "show" \in Steps \ {"none"}
  BY DEF Steps
<1>3. projected \in {Nothing} \cup Replays /\ ("show" \in {"merge", "show"} <=> projected # Nothing)
  BY <1>1, NothingIsNoSet DEF TypeOK, Replays
<1>4. /\ Moved(n, "read", "show", projected)
      /\ HandlersOK'
      /\ \A f \in Events : handler'[f].at # "none" => f \in stored'
      /\ n \in Active
      /\ Active' = IF "show" = "done" THEN Active \ {n} ELSE Active
  BY <1>1, <1>2, <1>3, GoesOn
<1>5. TypeOK'
  BY <1>1, <1>4 DEF TypeOK, HandlersOK, Replays, Notices
<1>6. MarkIsFound'
  BY <1>1 DEF MarkIsFound
<1>7. ASSUME ~overlapped'
      PROVE  Alone'
  <2>1. Active = {n} /\ refreshing = Nothing
    BY <1>1, <1>4, <1>7, RunsAlone
  <2> QED
    BY <1>1, <1>4, <2>1 DEF Alone, Moved
<1> QED
  BY <1>5, <1>6, <1>7 DEF IInv, Alone

LEMMA ReadDirtyKeeps ==
  ASSUME IInv, NEW n \in Notices, ReadDirty(n)
  PROVE  IInv'
<1>1. /\ TypeOK /\ MarkIsFound /\ Alone
      /\ Goes(n, "read", "list", Nothing)
      /\ UNCHANGED <<stored, blocks, projected, refreshing, view, overlapped>>
      /\ dirty' = FALSE
  BY DEF IInv, ReadDirty, arrived, service
<1>2. "read" \in Steps \ {"none", "done"} /\ "list" \in Steps \ {"none"}
  BY DEF Steps
<1>3. Nothing \in {Nothing} \cup Replays /\ ("list" \in {"merge", "show"} <=> Nothing # Nothing)
  BY <1>1, NothingIsNoSet DEF TypeOK, Replays
<1>4. /\ Moved(n, "read", "list", Nothing)
      /\ HandlersOK'
      /\ \A f \in Events : handler'[f].at # "none" => f \in stored'
      /\ n \in Active
      /\ Active' = IF "list" = "done" THEN Active \ {n} ELSE Active
  BY <1>1, <1>2, <1>3, GoesOn
<1>5. TypeOK'
  BY <1>1, <1>4 DEF TypeOK, HandlersOK, Replays, Notices
<1>6. MarkIsFound'
  BY <1>1 DEF MarkIsFound
<1>7. ASSUME ~overlapped'
      PROVE  Alone'
  <2>1. Active = {n} /\ refreshing = Nothing
    BY <1>1, <1>4, <1>7, RunsAlone
  <2> QED
    BY <1>1, <1>4, <2>1 DEF Alone, Moved
<1> QED
  BY <1>5, <1>6, <1>7 DEF IInv, Alone

LEMMA ListKeeps ==
  ASSUME IInv, NEW n \in Notices, List(n)
  PROVE  IInv'
<1>1. /\ TypeOK /\ MarkIsFound /\ Alone
      /\ Goes(n, "list", "merge", stored)
      /\ UNCHANGED <<stored, blocks, projected, dirty, refreshing, view, overlapped>>
  BY DEF IInv, List, arrived, service
<1>2. "list" \in Steps \ {"none", "done"} /\ "merge" \in Steps \ {"none"}
  BY DEF Steps
<1>3. stored \in {Nothing} \cup Replays /\ ("merge" \in {"merge", "show"} <=> stored # Nothing)
  BY <1>1, NothingIsNoSet DEF TypeOK, Replays
<1>4. /\ Moved(n, "list", "merge", stored)
      /\ HandlersOK'
      /\ \A f \in Events : handler'[f].at # "none" => f \in stored'
      /\ n \in Active
      /\ Active' = IF "merge" = "done" THEN Active \ {n} ELSE Active
  BY <1>1, <1>2, <1>3, GoesOn
<1>5. TypeOK'
  BY <1>1, <1>4 DEF TypeOK, HandlersOK, Replays, Notices
<1>6. MarkIsFound'
  BY <1>1, <1>4, MarkStaysFound DEF MarkIsFound, Notices
<1>7. ASSUME ~overlapped'
      PROVE  Alone'
  <2>1. Active = {n} /\ refreshing = Nothing
    BY <1>1, <1>4, <1>7, RunsAlone
  <2> QED
    BY <1>1, <1>4, <2>1 DEF Alone, Moved
<1> QED
  BY <1>5, <1>6, <1>7 DEF IInv, Alone

LEMMA MergeKeeps ==
  ASSUME IInv, NEW n \in Notices, Merge(n)
  PROVE  IInv'
<1>1. /\ TypeOK /\ MarkIsFound /\ Alone
      /\ Goes(n, "merge", "take", Nothing)
      /\ UNCHANGED <<stored, blocks, dirty, refreshing, view, overlapped>>
      /\ projected' = projected \cup handler[n].replay
      /\ handler[n].replay \in Replays
  BY DEF IInv, TypeOK, Goes, Merge, arrived, service
<1>2. "merge" \in Steps \ {"none", "done"} /\ "take" \in Steps \ {"none"}
  BY DEF Steps
<1>3. Nothing \in {Nothing} \cup Replays /\ ("take" \in {"merge", "show"} <=> Nothing # Nothing)
  BY <1>1, NothingIsNoSet DEF TypeOK, Replays
<1>4. /\ Moved(n, "merge", "take", Nothing)
      /\ HandlersOK'
      /\ \A f \in Events : handler'[f].at # "none" => f \in stored'
      /\ n \in Active
      /\ Active' = IF "take" = "done" THEN Active \ {n} ELSE Active
  BY <1>1, <1>2, <1>3, GoesOn
<1>5. TypeOK'
  BY <1>1, <1>4 DEF TypeOK, HandlersOK, Replays, Notices
<1>6. MarkIsFound'
  BY <1>1, <1>4, MarkStaysFound DEF MarkIsFound, Notices
<1>7. ASSUME ~overlapped'
      PROVE  Alone'
  <2>1. Active = {n} /\ refreshing = Nothing
    BY <1>1, <1>4, <1>7, RunsAlone
  <2> QED
    BY <1>1, <1>4, <2>1 DEF Alone, Moved
<1> QED
  BY <1>5, <1>6, <1>7 DEF IInv, Alone

LEMMA TakeStateKeeps ==
  ASSUME IInv, NEW n \in Notices, TakeState(n)
  PROVE  IInv'
<1>1. /\ TypeOK /\ MarkIsFound /\ Alone
      /\ Goes(n, "take", "show", projected)
      /\ UNCHANGED <<stored, blocks, projected, dirty, refreshing, view, overlapped>>
  BY DEF IInv, TakeState, arrived, service
<1>2. "take" \in Steps \ {"none", "done"} /\ "show" \in Steps \ {"none"}
  BY DEF Steps
<1>3. projected \in {Nothing} \cup Replays /\ ("show" \in {"merge", "show"} <=> projected # Nothing)
  BY <1>1, NothingIsNoSet DEF TypeOK, Replays
<1>4. /\ Moved(n, "take", "show", projected)
      /\ HandlersOK'
      /\ \A f \in Events : handler'[f].at # "none" => f \in stored'
      /\ n \in Active
      /\ Active' = IF "show" = "done" THEN Active \ {n} ELSE Active
  BY <1>1, <1>2, <1>3, GoesOn
<1>5. TypeOK'
  BY <1>1, <1>4 DEF TypeOK, HandlersOK, Replays, Notices
<1>6. MarkIsFound'
  BY <1>1, <1>4, MarkStaysFound DEF MarkIsFound, Notices
<1>7. ASSUME ~overlapped'
      PROVE  Alone'
  <2>1. Active = {n} /\ refreshing = Nothing
    BY <1>1, <1>4, <1>7, RunsAlone
  <2> QED
    BY <1>1, <1>4, <2>1 DEF Alone, Moved
<1> QED
  BY <1>5, <1>6, <1>7 DEF IInv, Alone

LEMMA ApplyMaterializedKeeps ==
  ASSUME IInv, NEW n \in Notices, ApplyMaterialized(n)
  PROVE  IInv'
<1>1. /\ TypeOK /\ MarkIsFound /\ Alone
      /\ Goes(n, "show", "done", Nothing)
      /\ UNCHANGED <<stored, blocks, projected, dirty, refreshing, overlapped>>
      /\ view' = handler[n].replay /\ handler[n].replay \in Replays
  BY DEF IInv, TypeOK, Goes, ApplyMaterialized, arrived, service
<1>2. "show" \in Steps \ {"none", "done"} /\ "done" \in Steps \ {"none"}
  BY DEF Steps
<1>3. Nothing \in {Nothing} \cup Replays /\ ("done" \in {"merge", "show"} <=> Nothing # Nothing)
  BY <1>1, NothingIsNoSet DEF TypeOK, Replays
<1>4. /\ Moved(n, "show", "done", Nothing)
      /\ HandlersOK'
      /\ \A f \in Events : handler'[f].at # "none" => f \in stored'
      /\ n \in Active
      /\ Active' = IF "done" = "done" THEN Active \ {n} ELSE Active
  BY <1>1, <1>2, <1>3, GoesOn
<1>5. TypeOK'
  BY <1>1, <1>4 DEF TypeOK, HandlersOK, Replays, Notices
<1>6. MarkIsFound'
  BY <1>1, <1>4, MarkStaysFound DEF MarkIsFound, Notices
<1>7. ASSUME ~overlapped'
      PROVE  Alone'
  <2>1. Active = {n} /\ refreshing = Nothing /\ projected \subseteq handler[n].replay
    BY <1>1, <1>4, <1>7, RunsAlone DEF Moved
  <2> QED
    BY <1>1, <1>4, <2>1 DEF Alone, Moved
<1> QED
  BY <1>5, <1>6, <1>7 DEF IInv, Alone

-----------------------------------------------------------------------------
(* Notices and refreshes *)

LEMMA ReceiveKeeps ==
  ASSUME IInv, NEW n \in Notices, NEW at \in {"check", "mark"},
         Goes(n, "none", at, Nothing), Overlaps, UNCHANGED <<service, refreshing, view>>,
         stored \subseteq stored', stored' \subseteq Events, blocks' \subseteq Blocks,
         n \in Events => n \in stored', at = "check" => n \notin Blocks
  PROVE  IInv'
<1>1. /\ TypeOK /\ MarkIsFound /\ Alone
      /\ UNCHANGED <<projected, dirty, refreshing, view>>
      /\ handler[n].at = "none" /\ n \notin Active
  BY DEF IInv, service, Goes, Active
<1>2. /\ handler' \in [Notices -> [at : Steps, replay : {Nothing} \cup Replays]]
      /\ Moved(n, "none", at, Nothing)
  BY <1>1 DEF TypeOK, Goes, Steps, Moved
<1>3. Active' = Active \cup {n}
  BY <1>2 DEF Active, Moved
<1>4. TypeOK'
  <2>1. handler' \in [Notices -> [at : Steps, replay : {Nothing} \cup Replays']]
    BY <1>2 DEF Replays
  <2>2. overlapped' \in BOOLEAN
    BY DEF Overlaps
  <2>3. \A m \in Notices : handler'[m].at \in {"merge", "show"} <=> handler'[m].replay # Nothing
    BY <1>1, <1>2 DEF TypeOK, Moved
  <2>4. \A f \in Events : handler'[f].at # "none" => f \in stored'
    BY <1>1, <1>2 DEF TypeOK, Notices, Moved
  <2>5. \A b \in Blocks : handler'[b].at \notin {"check", "apply"}
    BY <1>1, <1>2 DEF TypeOK, Notices, Moved
  <2>6. refreshing' \in {Nothing} \cup Replays' /\ projected' \in Replays' /\ view' \in Replays'
    BY <1>1 DEF TypeOK, Replays
  <2> QED
    BY <1>1, <2>1, <2>2, <2>3, <2>4, <2>5, <2>6 DEF TypeOK, Notices
<1>5. MarkIsFound'
  BY <1>1, <1>2, MarkStaysFound DEF MarkIsFound, Notices
<1>6. ASSUME ~overlapped'
      PROVE  Alone'
  <2>1. Active = {} /\ refreshing = Nothing /\ ~overlapped
    BY <1>6 DEF Overlaps
  <2>2. projected \subseteq view
    BY <1>1, <2>1 DEF Alone
  <2> QED
    BY <1>1, <1>2, <1>3, <2>1, <2>2 DEF Alone, Moved
<1> QED
  BY <1>4, <1>5, <1>6 DEF IInv, Alone

LEMMA RefreshKeeps ==
  ASSUME IInv, BeginRefresh \/ EndRefresh
  PROVE  IInv'
<1>1. /\ TypeOK /\ MarkIsFound /\ Alone
      /\ UNCHANGED <<stored, blocks, projected, dirty, handler>>
  BY DEF IInv, BeginRefresh, EndRefresh, arrived, service
<1>2. Active' = Active /\ MarkIsFound'
  BY <1>1 DEF Active, MarkIsFound, Notices
<1>3. CASE BeginRefresh
  <2>1. refreshing = Nothing /\ refreshing' = stored /\ view' = view
    BY <1>3 DEF BeginRefresh
  <2>2. TypeOK'
    BY <1>1, <1>3, <2>1 DEF TypeOK, Replays, Notices, BeginRefresh
  <2>3. stored # Nothing
    BY <1>1, NothingIsNoSet DEF Replays
  <2>4. Alone'
    BY <1>1, <1>2, <1>3, <2>1, <2>3 DEF Alone, TypeOK, Replays, BeginRefresh
  <2> QED
    BY <1>2, <2>2, <2>4 DEF IInv
<1>4. CASE EndRefresh
  <2>1. /\ refreshing # Nothing /\ refreshing' = Nothing
        /\ view' = refreshing /\ overlapped' = overlapped
    BY <1>4 DEF EndRefresh
  <2>2. TypeOK'
    BY <1>1, <2>1 DEF TypeOK, Replays, Notices
  <2>3. Alone'
    BY <1>1, <1>2, <2>1 DEF Alone
  <2> QED
    BY <1>2, <2>2, <2>3 DEF IInv
<1> QED
  BY <1>3, <1>4

-----------------------------------------------------------------------------
(* The invariant *)

LEMMA InitHasIInv == Init => IInv
<1> SUFFICES ASSUME Init PROVE IInv
  OBVIOUS
<1>1. Active = {}
  BY DEF Init, Active
<1>2. TypeOK
  BY DEF Init, TypeOK, Steps, Replays, Notices
<1> QED
  BY <1>1, <1>2 DEF Init, IInv, MarkIsFound, Alone

LEMMA NextKeepsIInv == IInv /\ [Next]_vars => IInv'
<1> SUFFICES ASSUME IInv, [Next]_vars PROVE IInv'
  OBVIOUS
<1>1. ASSUME NEW e \in Events, ReceiveEvent(e)
      PROVE  IInv'
  <2>1. /\ e \in Notices /\ e \notin Blocks
        /\ Goes(e, "none", "check", Nothing) /\ Overlaps /\ UNCHANGED <<service, refreshing, view>>
        /\ stored' = stored \cup {e} /\ blocks' = blocks
    BY <1>1, EventsAreNoBlocks DEF ReceiveEvent, Notices
  <2>2. /\ stored \subseteq stored' /\ stored' \subseteq Events
        /\ blocks' \subseteq Blocks /\ e \in stored'
    BY <2>1 DEF IInv, TypeOK
  <2> QED
    BY <2>1, <2>2, ReceiveKeeps
<1>2. ASSUME NEW b \in Blocks, ReceiveBlock(b)
      PROVE  IInv'
  <2>1. /\ b \in Notices /\ b \notin Events
        /\ Goes(b, "none", "mark", Nothing) /\ Overlaps /\ UNCHANGED <<service, refreshing, view>>
        /\ stored' = stored /\ blocks' = blocks \cup {b}
    BY <1>2, EventsAreNoBlocks DEF ReceiveBlock, Notices
  <2>2. stored \subseteq stored' /\ stored' \subseteq Events /\ blocks' \subseteq Blocks
    BY <2>1 DEF IInv, TypeOK
  <2> QED
    BY <2>1, <2>2, ReceiveKeeps
<1>3. ASSUME NEW n \in Notices, HandlerStep(n)
      PROVE  IInv'
  BY <1>3, CheckKeeps, ApplyInboundEventKeeps, ApplyFailsKeeps, MarkReplayStaleKeeps,
     ReadCleanKeeps, ReadDirtyKeeps, ListKeeps, MergeKeeps, TakeStateKeeps,
     ApplyMaterializedKeeps
  DEF HandlerStep
<1>4. CASE UNCHANGED vars
  BY <1>4 DEF vars, IInv, TypeOK, MarkIsFound, Alone, Active, Replays, Notices
<1> QED
  BY <1>1, <1>2, <1>3, <1>4, RefreshKeeps DEF Next

-----------------------------------------------------------------------------
(* What the runs check *)

\* Every step of the handlers in reloadVolumeFromDisk and of the refresh in
\* reactiveVolume keeps the inductive invariant: types, the stale mark's owner,
\* and what the view shows at each point of a handler that runs alone.
THEOREM InboundIsSound == Spec => []IInv
  BY InitHasIInv, NextKeepsIInv, PTL DEF Spec

\* The service and the view hold stored events only, and a handler has a replay
\* in hand exactly when it is about to merge or show it, for any channel.
THEOREM InboundTypeCorrect == Spec => []TypeOK
<1>1. IInv => TypeOK
  BY DEF IInv
<1> QED
  BY <1>1, InboundIsSound, PTL

\* A stale mark always has a handler that is about to find it, however many
\* handlers mark and clear it side by side (reloadVolumeFromDisk).
THEOREM MarksAreFound == Spec => []MarkIsFound
<1>1. IInv => MarkIsFound
  BY DEF IInv
<1> QED
  BY <1>1, InboundIsSound, PTL

\* Handlers and refreshes that never ran side by side leave the subscribers with
\* all that is projected, whatever arrived and in whatever order.
THEOREM LoneViewsAreCurrent == Spec => []ViewCurrentWhenAlone
<1>1. IInv => ViewCurrentWhenAlone
  BY DEF IInv, Alone, ViewCurrentWhenAlone
<1> QED
  BY <1>1, InboundIsSound, PTL

=============================================================================
