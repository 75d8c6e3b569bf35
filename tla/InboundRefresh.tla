--------------------------- MODULE InboundRefresh ---------------------------
(***************************************************************************)
(* What a program that owns the sync engine does when data of a peer       *)
(* arrives (syncInboundRefresh.ts) and what its open volume shows          *)
(* (reactiveVolume.ts).  Every event and every block arrives once, in any  *)
(* order; a notice starts a handler that nobody waits for, so that the     *)
(* handlers of several notices run side by side, each from one await to    *)
(* the next in one step.  A replay is the set of events in it: their order *)
(* is ReplayOrder's subject.  The program itself writes nothing and the    *)
(* storage does not fail: ReplayCache has the tail of own writes and the   *)
(* failures.                                                               *)
(***************************************************************************)
EXTENDS Naturals, Sequences, FiniteSets

CONSTANTS
  Events, Blocks,    \* what the peer's channel consists of
  BlockRefs,         \* event |-> its visible refs: events and blocks
  Nothing            \* a handler has no replay in hand

ASSUME RefsAreOfTheChannel == BlockRefs \in [Events -> Seq(Events \cup Blocks)]
ASSUME EventsAreNoBlocks == Events \cap Blocks = {}
ASSUME NothingIsNoReplay == \A replay \in SUBSET Events : replay # Nothing

VARIABLES
  stored, blocks,    \* events and blocks in the storage
  projected, dirty,  \* the file service: projection.state(), the dirty set
  handler,           \* notice |-> its handler: the step it is at, and the
                     \* replay it has in hand
  refreshing,        \* ReactiveVolume.refresh under way: its replay, or Nothing
  view,              \* what the volume's subscribers see
  overlapped         \* history: have two of these ever run side by side?

vars == <<stored, blocks, projected, dirty, handler, refreshing, view, overlapped>>

service == <<projected, dirty>>
arrived == <<stored, blocks>>

Notices == Events \cup Blocks

Active == {n \in Notices : handler[n].at \notin {"none", "done"}}

Init ==
  /\ stored = {}
  /\ blocks = {}
  /\ projected = {}
  /\ dirty = FALSE
  /\ handler = [n \in Notices |-> [at |-> "none", replay |-> Nothing]]
  /\ refreshing = Nothing
  /\ view = {}
  /\ overlapped = FALSE

\* The handler of `n` comes to its next await.
Goes(n, from, to, replay) ==
  /\ handler[n].at = from
  /\ handler' = [handler EXCEPT ![n] = [at |-> to, replay |-> replay]]

-----------------------------------------------------------------------------
(* Notices *)

Overlaps == overlapped' = (overlapped \/ Active # {} \/ refreshing # Nothing)

\* Mutant: the notice of an event runs ahead of its storage.
AnnounceEvent(e) ==
  /\ Goes(e, "none", "check", Nothing)
  /\ Overlaps
  /\ UNCHANGED <<arrived, service, refreshing, view>>

ReceiveEvent(e) ==
  /\ Goes(e, "none", "check", Nothing)
  /\ stored' = stored \cup {e}
  /\ Overlaps
  /\ UNCHANGED <<blocks, service, refreshing, view>>

ReceiveBlock(b) ==
  /\ Goes(b, "none", "mark", Nothing)
  /\ blocks' = blocks \cup {b}
  /\ Overlaps
  /\ UNCHANGED <<stored, service, refreshing, view>>

\* Mutant: the head is taken for a block like every other ref.
ReadyWithBlocksOnly(e) ==
  \A i \in DOMAIN BlockRefs[e] : BlockRefs[e][i] \in blocks

\* A sole ref is taken for a block; of several, the first for an event and all
\* the others for blocks, the superseded events among them too.
InboundEventReadyToMaterialize(e) ==
  LET refs == BlockRefs[e]
  IN  \/ refs = <<>>
      \/ Len(refs) = 1 /\ refs[1] \in blocks
      \/ /\ Len(refs) > 1
         /\ refs[1] \in stored
         /\ \A i \in 2 .. Len(refs) : refs[i] \in blocks

Check(e) ==
  /\ Goes(e, "check", IF InboundEventReadyToMaterialize(e) THEN "apply" ELSE "done", Nothing)
  /\ UNCHANGED <<arrived, service, refreshing, view, overlapped>>

\* applyInboundEvent: the event alone is merged.
ApplyInboundEvent(e) ==
  /\ Goes(e, "apply", "take", Nothing)
  /\ projected' = projected \cup {e}
  /\ UNCHANGED <<arrived, dirty, refreshing, view, overlapped>>

\* It cannot be read: the volume is reloaded.
ApplyFails(e) ==
  /\ Goes(e, "apply", "mark", Nothing)
  /\ UNCHANGED <<arrived, service, refreshing, view, overlapped>>

-----------------------------------------------------------------------------
(* reloadVolumeFromDisk *)

MarkReplayStale(n) ==
  /\ Goes(n, "mark", "read", Nothing)
  /\ dirty' = TRUE
  /\ UNCHANGED <<arrived, projected, refreshing, view, overlapped>>

\* getReplayContext: who finds the mark catches up, the others do not wait.
ReadClean(n) ==
  /\ ~dirty
  /\ Goes(n, "read", "show", projected)
  /\ UNCHANGED <<arrived, service, refreshing, view, overlapped>>

\* Mutant: who finds the mark leaves it.
ReadKeepingMark(n) ==
  /\ dirty
  /\ Goes(n, "read", "list", Nothing)
  /\ UNCHANGED <<arrived, service, refreshing, view, overlapped>>

\* Mutant: the mark is cleared and the catch-up left out.
ReadWithoutCatchUp(n) ==
  /\ dirty
  /\ Goes(n, "read", "take", Nothing)
  /\ dirty' = FALSE
  /\ UNCHANGED <<arrived, projected, refreshing, view, overlapped>>

ReadDirty(n) ==
  /\ dirty
  /\ Goes(n, "read", "list", Nothing)
  /\ dirty' = FALSE
  /\ UNCHANGED <<arrived, projected, refreshing, view, overlapped>>

List(n) ==
  /\ Goes(n, "list", "merge", stored)
  /\ UNCHANGED <<arrived, service, refreshing, view, overlapped>>

Merge(n) ==
  /\ Goes(n, "merge", "take", Nothing)
  /\ projected' = projected \cup handler[n].replay
  /\ UNCHANGED <<arrived, dirty, refreshing, view, overlapped>>

\* Mutant: the handler returns the context it was called with.
TakeShown(n) ==
  /\ Goes(n, "take", "show", view)
  /\ UNCHANGED <<arrived, service, refreshing, view, overlapped>>

\* projection.state() is read when what was merged has been stored.
TakeState(n) ==
  /\ Goes(n, "take", "show", projected)
  /\ UNCHANGED <<arrived, service, refreshing, view, overlapped>>

\* applyMaterialized, once the keys for the volume's name are derived.
ApplyMaterialized(n) ==
  /\ Goes(n, "show", "done", Nothing)
  /\ view' = handler[n].replay
  /\ UNCHANGED <<arrived, service, refreshing, overlapped>>

-----------------------------------------------------------------------------
(* ReactiveVolume.refresh: while one is under way, another returns at once. *)

BeginRefresh ==
  /\ refreshing = Nothing
  /\ refreshing' = stored
  /\ overlapped' = (overlapped \/ Active # {})
  /\ UNCHANGED <<arrived, service, handler, view>>

EndRefresh ==
  /\ refreshing # Nothing
  /\ view' = refreshing
  /\ refreshing' = Nothing
  /\ UNCHANGED <<arrived, service, handler, overlapped>>

-----------------------------------------------------------------------------

HandlerStep(n) ==
  \/ n \in Events /\ (Check(n) \/ ApplyInboundEvent(n) \/ ApplyFails(n))
  \/ MarkReplayStale(n) \/ ReadClean(n) \/ ReadDirty(n)
  \/ List(n) \/ Merge(n) \/ TakeState(n) \/ ApplyMaterialized(n)

Next ==
  \/ \E e \in Events : ReceiveEvent(e)
  \/ \E b \in Blocks : ReceiveBlock(b)
  \/ \E n \in Notices : HandlerStep(n)
  \/ BeginRefresh
  \/ EndRefresh

\* A handler that was started runs to its end; nothing has to arrive.
Fairness ==
  /\ \A n \in Notices : WF_vars(HandlerStep(n))
  /\ WF_vars(EndRefresh)

Spec == Init /\ [][Next]_vars /\ Fairness

-----------------------------------------------------------------------------
(* Properties *)

Steps == {"none", "check", "apply", "mark", "read", "list", "merge", "take", "show", "done"}

Replays == SUBSET stored

TypeOK ==
  /\ stored \subseteq Events
  /\ blocks \subseteq Blocks
  /\ projected \in Replays
  /\ view \in Replays
  /\ refreshing \in {Nothing} \cup Replays
  /\ dirty \in BOOLEAN /\ overlapped \in BOOLEAN
  /\ handler \in [Notices -> [at : Steps, replay : {Nothing} \cup Replays]]
  /\ \A n \in Notices : handler[n].at \in {"merge", "show"} <=> handler[n].replay # Nothing
  /\ \A e \in Events : handler[e].at # "none" => e \in stored
  /\ \A b \in Blocks : handler[b].at \notin {"check", "apply"}

\* A stale mark is never left behind: while it is set a handler is about to
\* find it, also when another one has just cleared the mark it had set itself.
MarkIsFound == dirty => \E n \in Notices : handler[n].at = "read"

\* Whatever is in the storage when the notice of an event marks the volume
\* stale is shown to the subscribers in the end, also if the handler of
\* another notice clears that mark first.
MarkedIsShown ==
  \A d \in Events :
    (d \in stored /\ \E e \in Events : handler[e].at = "mark") ~> (d \in view)

\* An event that arrives last of what it refers to and names nothing as
\* superseded, as one that creates a file at a new path, is projected.
PlainCreateIsProjected ==
  \A e \in Events :
    (/\ handler[e].at = "check"
     /\ BlockRefs[e] # <<>> /\ BlockRefs[e][Len(BlockRefs[e])] \in Blocks
     /\ \A i \in DOMAIN BlockRefs[e] : BlockRefs[e][i] \in stored \cup blocks
     /\ \A i \in 2 .. Len(BlockRefs[e]) : BlockRefs[e][i] \in Blocks)
      ~> (e \in projected)

\* As long as nothing has run side by side, the volume's subscribers see what
\* the file service has projected, or more, whenever nothing is under way.
ViewCurrentWhenAlone ==
  ~overlapped /\ Active = {} /\ refreshing = Nothing => projected \subseteq view

-----------------------------------------------------------------------------
(* What the documents ask and the code does not do *)

\* An inbound event gets into the file service if all its refs are there when
\* its notice is handled, whatever the event does.
NoticedEventIsProjected ==
  \A e \in Events :
    (/\ handler[e].at = "check"
     /\ \A i \in DOMAIN BlockRefs[e] : BlockRefs[e][i] \in stored \cup blocks)
      ~> (e \in projected)

\* With nothing under way the subscribers see all that is projected.
ViewCurrentAtRest ==
  Active = {} /\ refreshing = Nothing => projected \subseteq view

=============================================================================
