-------------------------- MODULE SupervisionProofs --------------------------
(***************************************************************************)
(* Proofs about Supervision, for any finite set of subscriptions, any        *)
(* configuration, and any number of tolerated stale aliases.               *)
(***************************************************************************)
EXTENDS Supervision, FiniteSetTheorems, TLAPS

USE SlotsAssumption, ConfigAssumption

(* A registered subscription is one whose stream was polled and not dropped. *)
OnlyPolled == \A i \in registered : consumer[i] = "polled"

(* A supervisor of an own connection exists only for a slot that was polled  *)
(* and, as long as it is registered, isolated; it carries that slot only.   *)
OwnConnections ==
  \A i \in Slots :
    /\ carried[i] \subseteq {i}
    /\ pc[i] # "off" => consumer[i] # "unpolled" /\ (i \in registered => i \in isolated)

(* A connection of its own carries its slot, and a stream that is gone has    *)
(* been published, or is about to be.                                      *)
LeaversAreWoken ==
  \A i \in Slots : pc[i] \in Connected =>
    /\ carried[i] = {i}
    /\ consumer[i] = "done" => i \in notified \/ WakeupOwed

(* A replay that is owed to a subscription on a connection of its own.      *)
ReplaysAreWoken ==
  \A i \in resync \cap isolated :
    pc[i] \in Connected => i \in notified \/ WakeupOwed

Woken == SharedIsWoken /\ ReplaysAreWoken

IInv == TypeOK /\ OnlyPolled /\ OwnConnections /\ Woken

LEMMA InitIInv == Init => IInv /\ NoOrphan
  <1> SUFFICES ASSUME Init PROVE IInv /\ NoOrphan
    OBVIOUS
  <1>1. TypeOK
    BY DEF Init, TypeOK, PCs, Scopes
  <1>2. OnlyPolled /\ OwnConnections /\ NoOrphan
    BY DEF Init, OnlyPolled, OwnConnections, NoOrphan, Scopes
  <1>3. Woken
    BY DEF Init, Woken, SharedIsWoken, ReplaysAreWoken, Connected, Scopes
  <1> QED
    BY <1>1, <1>2, <1>3 DEF IInv
-----------------------------------------------------------------------------
(***************************************************************************)
(* Types.                                                                  *)
(***************************************************************************)

LEMMA ConsumerTypes ==
  ASSUME TypeOK, NEW i \in Slots, ConsumerStep(i) \/ SlotFails(i) \/ EventDropped(i)
  PROVE  TypeOK'
  <1> USE DEF TypeOK, Scopes, Callers, consumers, entries, tasks, owed
  <1>1. CASE Register(i)
    BY <1>1 DEF Register
  <1>2. CASE Deregister(i)
    BY <1>2 DEF Deregister, Remove
  <1>3. CASE StreamEnds(i)
    BY <1>3 DEF StreamEnds
  <1>4. CASE RequestResync(i)
    BY <1>4 DEF RequestResync
  <1>5. CASE MoveAway(i)
    BY <1>5 DEF MoveAway, Isolate
  <1>6. CASE SlotFails(i)
    BY <1>6 DEF SlotFails, Isolate
  <1>7. CASE EventDropped(i)
    BY <1>7 DEF EventDropped
  <1> QED
    BY <1>1, <1>2, <1>3, <1>4, <1>5, <1>6, <1>7 DEF ConsumerStep

LEMMA StartTypes ==
  ASSUME TypeOK, StartMissing
  PROVE  pc' \in [Scopes -> PCs] /\ lost' \in BOOLEAN
  BY DEF TypeOK, StartMissing, PCs

LEMMA GotoTypes ==
  ASSUME TypeOK, NEW s \in Scopes, NEW place \in PCs, Goto(s, place)
  PROVE  pc' \in [Scopes -> PCs]
  BY DEF TypeOK, Goto

LEMMA TaskTypes ==
  ASSUME TypeOK, NEW s \in Scopes,
         Spawn(s) \/ TaskStep(s) \/ ServerStep(s) \/ EnsureAfterExit(s)
  PROVE  TypeOK'
  <1> USE DEF TypeOK, consumers, entries, owed
  <1>1. CASE Spawn(s)
    BY <1>1, GotoTypes DEF Spawn, PCs
  <1>2. CASE Begin(s)
    <2>1. pc' \in [Scopes -> PCs] /\ carried' \in [Scopes -> SUBSET Slots]
      BY <1>2 DEF Begin, Goto, PCs, Scopes
    <2> QED
      BY <1>2, <2>1 DEF Begin
  <1>3. CASE DelayOver(s) \/ DelayWoken(s)
    BY <1>3, GotoTypes DEF DelayOver, DelayWoken, PCs
  <1>4. CASE Prepare(s)
    <2>1. Live(s) \subseteq Slots
      BY DEF Live
    <2>2. pc' \in [Scopes -> PCs]
      BY <1>4 DEF Prepare, Goto, PCs
    <2>3. carried' \in [Scopes -> SUBSET Slots] /\ resync' \subseteq registered'
      BY <1>4, <2>1 DEF Prepare
    <2> QED
      BY <1>4, <2>2, <2>3 DEF Prepare
  <1>5. CASE s = Shared /\ (DebounceChanged \/ DebounceOver)
    BY <1>5, GotoTypes DEF DebounceChanged, DebounceOver, PCs
  <1>6. CASE Opens(s) \/ Change(s)
    BY <1>6, GotoTypes DEF Opens, Change, PCs
  <1>7. CASE Handled(s)
    BY <1>7, GotoTypes DEF Handled, PCs
  <1>8. CASE EndConnected(s)
    BY <1>8, GotoTypes DEF EndConnected, PCs
  <1>9. CASE EndSlots(s)
    BY <1>9, GotoTypes DEF EndSlots, Remove, PCs
  <1>10. CASE DropToken(s)
    <2>1. exits' \in [Scopes -> Nat] /\ carried' \in [Scopes -> SUBSET Slots]
      BY <1>10 DEF DropToken
    <2> QED
      BY <1>10, <2>1, GotoTypes DEF DropToken, PCs
  <1>11. CASE ItemArrives(s)
    BY <1>11, GotoTypes DEF ItemArrives, PCs
  <1>12. CASE ConnectionLost(s)
    BY <1>12, GotoTypes DEF ConnectionLost, PCs
  <1>13. CASE ConnectionEnds(s)
    BY <1>13, GotoTypes DEF ConnectionEnds, PCs
  <1>14. CASE BuildFails(s)
    BY <1>14, GotoTypes DEF BuildFails, Remove, PCs
  <1>15. CASE OpenFails(s)
    BY <1>15, GotoTypes DEF OpenFails, PCs
  <1>16. CASE EnsureAfterExit(s)
    <2>1. exits' \in [Scopes -> Nat]
      BY <1>16 DEF EnsureAfterExit
    <2> QED
      BY <1>16, <2>1, StartTypes DEF EnsureAfterExit
  <1> QED
    BY <1>1, <1>2, <1>3, <1>4, <1>5, <1>6, <1>7, <1>8, <1>9, <1>10, <1>11,
       <1>12, <1>13, <1>14, <1>15, <1>16 DEF TaskStep, ServerStep

LEMMA TypeStep == TypeOK /\ [Next]_vars => TypeOK'
  <1> SUFFICES ASSUME TypeOK, [Next]_vars PROVE TypeOK'
    OBVIOUS
  <1> USE DEF consumers, entries, tasks, owed
  <1>1. CASE \E i \in Slots : ConsumerStep(i) \/ SlotFails(i) \/ EventDropped(i)
    BY <1>1, ConsumerTypes
  <1>2. CASE \E c \in Callers : CallerStep(c)
    <2> PICK c \in Callers : Publish(c) \/ Ensure(c)
      BY <1>2 DEF CallerStep
    <2>1. CASE Publish(c)
      BY <2>1 DEF Publish, TypeOK
    <2>2. CASE Ensure(c)
      BY <2>2, StartTypes DEF Ensure, TypeOK
    <2> QED
      BY <2>1, <2>2
  <1>3. CASE \E s \in Scopes :
               Spawn(s) \/ TaskStep(s) \/ ServerStep(s) \/ EnsureAfterExit(s)
    BY <1>3, TaskTypes
  <1>4. CASE RuntimeDropped
    BY <1>4 DEF RuntimeDropped, TypeOK, PCs
  <1>5. CASE UNCHANGED vars
    BY <1>5 DEF vars, TypeOK
  <1> QED
    BY <1>1, <1>2, <1>3, <1>4, <1>5 DEF Next

(* The sets of slots and of tasks stay consistent: whatever was decided      *)
(* about a slot before its entry left the map never brings it back.         *)
THEOREM TypeCorrect == Spec => []TypeOK
  <1>1. Init => TypeOK
    BY InitIInv DEF IInv
  <1> QED
    BY <1>1, TypeStep, PTL DEF Spec
-----------------------------------------------------------------------------
(***************************************************************************)
(* No subscription is forgotten.                                           *)
(***************************************************************************)

(* After a check every registered slot has a live token.                   *)
LEMMA StartCovers ==
  ASSUME TypeOK, StartMissing, UNCHANGED entries
  PROVE  \A i \in registered' : pc'[ScopeOf(i)'] # "off"
  <1> SUFFICES ASSUME NEW i \in registered PROVE pc'[ScopeOf(i)] # "off"
    BY DEF entries, ScopeOf
  <1>1. CASE i \in isolated
    BY <1>1 DEF ScopeOf, StartMissing, Missing, Scopes, TypeOK
  <1>2. CASE i \notin isolated
    <2>1. Live(Shared) # {}
      BY <1>2 DEF Live
    <2> QED
      BY <1>2, <2>1 DEF ScopeOf, StartMissing, Missing, MissingShared, Scopes, TypeOK
  <1> QED
    BY <1>1, <1>2

(* A step that starts no new responsibility and ends no task keeps it.     *)
LEMMA OrphanFrame ==
  ASSUME NoOrphan, registered' \subseteq registered,
         \A i \in registered' : i \in isolated <=> i \in isolated',
         \A s \in Scopes : pc[s] # "off" => pc'[s] # "off",
         toEnsure \subseteq toEnsure', exits' = exits, lost' = lost, TypeOK
  PROVE  NoOrphan'
  <1>1. EnsureOwed => EnsureOwed'
    BY DEF EnsureOwed
  <1>2. \A i \in registered' : ScopeOf(i)' = ScopeOf(i) /\ ScopeOf(i) \in Scopes
    BY DEF ScopeOf, TypeOK, Scopes
  <1> QED
    BY <1>1, <1>2 DEF NoOrphan

LEMMA OrphanConsumerStep ==
  ASSUME TypeOK, NoOrphan, NEW i \in Slots,
         ConsumerStep(i) \/ SlotFails(i) \/ EventDropped(i)
  PROVE  NoOrphan'
  <1> USE DEF consumers, entries, tasks
  <1>1. CASE Register(i)
    BY <1>1 DEF Register, NoOrphan, EnsureOwed
  <1>2. CASE Deregister(i)
    BY <1>2, OrphanFrame DEF Deregister, Remove
  <1>3. CASE StreamEnds(i)
    BY <1>3, OrphanFrame DEF StreamEnds
  <1>4. CASE RequestResync(i)
    BY <1>4, OrphanFrame DEF RequestResync
  <1>5. CASE MoveAway(i) /\ i \in registered \ isolated
    BY <1>5 DEF MoveAway, Isolate, NoOrphan, EnsureOwed
  <1>6. CASE MoveAway(i) /\ i \notin registered \ isolated
    BY <1>6, OrphanFrame DEF MoveAway
  <1>7. CASE SlotFails(i)
    BY <1>7 DEF SlotFails, Isolate, NoOrphan, EnsureOwed
  <1>8. CASE EventDropped(i)
    BY <1>8, OrphanFrame DEF EventDropped, owed
  <1> QED
    BY <1>1, <1>2, <1>3, <1>4, <1>5, <1>6, <1>7, <1>8 DEF ConsumerStep

LEMMA OrphanTaskStep ==
  ASSUME TypeOK, NoOrphan, NEW s \in Scopes,
         Spawn(s) \/ TaskStep(s) \/ ServerStep(s) \/ EnsureAfterExit(s)
  PROVE  NoOrphan'
  <1>1. CASE EnsureAfterExit(s)
    BY <1>1, StartCovers DEF EnsureAfterExit, NoOrphan
  <1>2. CASE DropToken(s)
    BY <1>2 DEF DropToken, NoOrphan, EnsureOwed, TypeOK
  <1>3. CASE ~(DropToken(s) \/ EnsureAfterExit(s))
    <2>1. \/ pc' = pc \/ Goto(s, "starting") \/ Goto(s, "delay") \/ Goto(s, "prepare")
          \/ Goto(s, "debounce") \/ Goto(s, "opening") \/ Goto(s, "drive")
          \/ Goto(s, "dispatch") \/ Goto(s, "ending") \/ Goto(s, "removing")
          \/ Goto(s, "dropping")
      BY <1>3 DEF Spawn, TaskStep, ServerStep, Begin, DelayOver, DelayWoken, Prepare,
         DebounceChanged, DebounceOver, Opens, Change, Handled, EndConnected, EndSlots,
         ItemArrives, ConnectionLost, ConnectionEnds, BuildFails, OpenFails
    <2>2. \A x \in Scopes : pc[x] # "off" => pc'[x] # "off"
      BY <2>1 DEF Goto, TypeOK
    <2>3. /\ registered' \subseteq registered
          /\ \A i \in registered' : i \in isolated <=> i \in isolated'
      BY <1>3 DEF Spawn, TaskStep, ServerStep, Begin, DelayOver, DelayWoken, Prepare,
         DebounceChanged, DebounceOver, Opens, Change, Handled, EndConnected, EndSlots,
         ItemArrives, ConnectionLost, ConnectionEnds, BuildFails, OpenFails, entries, Remove
    <2>4. UNCHANGED <<toEnsure, exits, lost>>
      BY <1>3 DEF Spawn, TaskStep, ServerStep, Begin, DelayOver, DelayWoken, Prepare,
         DebounceChanged, DebounceOver, Opens, Change, Handled, EndConnected, EndSlots,
         ItemArrives, ConnectionLost, ConnectionEnds, BuildFails, OpenFails, owed
    <2> QED
      BY <2>2, <2>3, <2>4, OrphanFrame
  <1> QED
    BY <1>1, <1>2, <1>3

LEMMA OrphanStep == TypeOK /\ NoOrphan /\ [Next]_vars => NoOrphan'
  <1> SUFFICES ASSUME TypeOK, NoOrphan, [Next]_vars PROVE NoOrphan'
    OBVIOUS
  <1>1. CASE \E i \in Slots : ConsumerStep(i) \/ SlotFails(i) \/ EventDropped(i)
    BY <1>1, OrphanConsumerStep
  <1>2. CASE \E c \in Callers : CallerStep(c)
    <2> PICK c \in Callers : Publish(c) \/ Ensure(c)
      BY <1>2 DEF CallerStep
    <2>1. CASE Publish(c)
      BY <2>1, OrphanFrame DEF Publish, entries
    <2>2. CASE Ensure(c)
      BY <2>2, StartCovers DEF Ensure, NoOrphan
    <2> QED
      BY <2>1, <2>2
  <1>3. CASE \E s \in Scopes :
               Spawn(s) \/ TaskStep(s) \/ ServerStep(s) \/ EnsureAfterExit(s)
    BY <1>3, OrphanTaskStep
  <1>4. CASE RuntimeDropped
    BY <1>4 DEF RuntimeDropped, NoOrphan
  <1>5. CASE UNCHANGED vars
    BY <1>5, OrphanFrame DEF vars, entries, tasks, owed
  <1> QED
    BY <1>1, <1>2, <1>3, <1>4, <1>5 DEF Next

(* A registered subscription without a live supervisor has a check of        *)
(* ensure_supervisors still to come, in every interleaving of tasks that     *)
(* end with streams that register, leave, and move.                        *)
THEOREM NoneForgotten == Spec => []NoOrphan
  <1>1. Init => NoOrphan
    BY InitIInv
  <1> QED
    BY <1>1, TypeCorrect, OrphanStep, PTL DEF Spec
-----------------------------------------------------------------------------
(***************************************************************************)
(* No wake-up is lost.                                                     *)
(***************************************************************************)

LEMMA ConsumerHelpers ==
  ASSUME TypeOK, OnlyPolled, OwnConnections, NEW i \in Slots,
         ConsumerStep(i) \/ SlotFails(i) \/ EventDropped(i)
  PROVE  OnlyPolled' /\ OwnConnections'
  <1> USE DEF OnlyPolled, OwnConnections, TypeOK, consumers, entries, tasks, owed
  <1>1. CASE Register(i)
    BY <1>1 DEF Register
  <1>2. CASE Deregister(i)
    BY <1>2 DEF Deregister, Remove
  <1>3. CASE StreamEnds(i)
    BY <1>3 DEF StreamEnds
  <1>4. CASE RequestResync(i)
    BY <1>4 DEF RequestResync
  <1>5. CASE MoveAway(i)
    BY <1>5 DEF MoveAway, Isolate
  <1>6. CASE SlotFails(i)
    BY <1>6 DEF SlotFails, Isolate
  <1>7. CASE EventDropped(i)
    BY <1>7 DEF EventDropped
  <1> QED
    BY <1>1, <1>2, <1>3, <1>4, <1>5, <1>6, <1>7 DEF ConsumerStep

(* Tokens are taken for the shared connection and for isolated slots only. *)
LEMMA StartHelpers ==
  ASSUME TypeOK, OnlyPolled, OwnConnections, StartMissing,
         UNCHANGED <<consumer, registered, isolated, carried>>
  PROVE  OnlyPolled' /\ OwnConnections'
  <1>1. \A i \in Slots : pc'[i] # "off" => pc[i] # "off" \/ i \in isolated
    BY DEF StartMissing, Missing, MissingShared, Scopes
  <1> QED
    BY <1>1 DEF OnlyPolled, OwnConnections, TypeOK

LEMMA TaskHelpers ==
  ASSUME TypeOK, OnlyPolled, OwnConnections, NEW s \in Scopes,
         Spawn(s) \/ TaskStep(s) \/ ServerStep(s) \/ EnsureAfterExit(s)
  PROVE  OnlyPolled' /\ OwnConnections'
  <1>1. CASE EnsureAfterExit(s)
    BY <1>1, StartHelpers DEF EnsureAfterExit, consumers, entries
  <1>2. CASE ~EnsureAfterExit(s)
    <2>1. /\ consumer' = consumer
          /\ registered' \subseteq registered
          /\ \A i \in registered' : i \in isolated <=> i \in isolated'
      BY <1>2 DEF Spawn, TaskStep, ServerStep, Begin, DelayOver, DelayWoken, Prepare,
         DebounceChanged, DebounceOver, Opens, Change, Handled, EndConnected, EndSlots,
         DropToken, ItemArrives, ConnectionLost, ConnectionEnds, BuildFails, OpenFails,
         consumers, entries, Remove
    <2>2. pc[s] # "off" /\ \A x \in Scopes \ {s} : pc'[x] = pc[x]
      BY <1>2 DEF Spawn, TaskStep, ServerStep, Begin, DelayOver, DelayWoken, Prepare,
         DebounceChanged, DebounceOver, Opens, Change, Handled, EndConnected, EndSlots,
         DropToken, ItemArrives, ConnectionLost, ConnectionEnds, BuildFails, OpenFails,
         Goto, At, TypeOK
    <2>3. \/ carried' = carried
          \/ carried' = [carried EXCEPT ![s] = {s}]
          \/ carried' = [carried EXCEPT ![s] = Live(s)]
          \/ carried' = [carried EXCEPT ![s] = carried[s] \cap Live(s)]
          \/ carried' = [carried EXCEPT ![s] = {}]
      BY <1>2 DEF Spawn, TaskStep, ServerStep, Begin, DelayOver, DelayWoken, Prepare,
         DebounceChanged, DebounceOver, Opens, Change, Handled, EndConnected, EndSlots,
         DropToken, ItemArrives, ConnectionLost, ConnectionEnds, BuildFails, OpenFails
    <2>4. s # Shared => Live(s) \subseteq {s}
      BY DEF Live
    <2>5. \A i \in Slots : carried'[i] \subseteq {i}
      BY <2>3, <2>4 DEF OwnConnections, TypeOK, Scopes
    <2> QED
      BY <2>1, <2>2, <2>5 DEF OnlyPolled, OwnConnections, Scopes
  <1> QED
    BY <1>1, <1>2

LEMMA HelperStep ==
  ASSUME TypeOK, OnlyPolled, OwnConnections, [Next]_vars
  PROVE  OnlyPolled' /\ OwnConnections'
  <1>1. CASE \E i \in Slots : ConsumerStep(i) \/ SlotFails(i) \/ EventDropped(i)
    BY <1>1, ConsumerHelpers
  <1>2. CASE \E c \in Callers : CallerStep(c)
    <2> PICK c \in Callers : Publish(c) \/ Ensure(c)
      BY <1>2 DEF CallerStep
    <2>1. CASE Publish(c)
      BY <2>1 DEF Publish, consumers, entries, OnlyPolled, OwnConnections
    <2>2. CASE Ensure(c)
      BY <2>2, StartHelpers DEF Ensure, consumers, entries
    <2> QED
      BY <2>1, <2>2
  <1>3. CASE \E s \in Scopes :
               Spawn(s) \/ TaskStep(s) \/ ServerStep(s) \/ EnsureAfterExit(s)
    BY <1>3, TaskHelpers
  <1>4. CASE RuntimeDropped
    <2>1. \A i \in Slots : carried'[i] = {} /\ (pc'[i] # "off" => pc[i] # "off")
      BY <1>4 DEF RuntimeDropped, Scopes
    <2> QED
      BY <1>4, <2>1 DEF RuntimeDropped, consumers, entries, OnlyPolled, OwnConnections
  <1>5. CASE UNCHANGED vars
    BY <1>5 DEF vars, consumers, entries, tasks, OnlyPolled, OwnConnections
  <1> QED
    BY <1>1, <1>2, <1>3, <1>4, <1>5 DEF Next

LEMMA OwedWakeup == ASSUME WakeupOwed' PROVE Woken'
  BY DEF Woken, SharedIsWoken, ReplaysAreWoken

(* Nothing that a wake-up of the shared connection is about changes.       *)
LEMMA SharedFrame ==
  ASSUME SharedIsWoken,
         pc'[Shared] \in Connected => pc[Shared] \in Connected,
         Live(Shared)' = Live(Shared),
         Live(Shared) \cap resync' = Live(Shared) \cap resync,
         carried'[Shared] = carried[Shared],
         Shared \in notified => Shared \in notified',
         WakeupOwed => WakeupOwed',
         Live(Shared) \cap moving \subseteq moving'
  PROVE  SharedIsWoken'
  BY DEF SharedIsWoken, ReconnectNeeded

LEMMA OwnFrame ==
  ASSUME ReplaysAreWoken,
         resync' \cap isolated' \subseteq resync \cap isolated,
         \A i \in Slots : pc'[i] \in Connected => pc[i] \in Connected,
         \A i \in Slots : i \in notified => i \in notified' \/ pc'[i] \notin Connected,
         WakeupOwed => WakeupOwed', TypeOK
  PROVE  ReplaysAreWoken'
  BY DEF ReplaysAreWoken, TypeOK

LEMMA ConsumerWakes ==
  ASSUME IInv, NEW i \in Slots, ConsumerStep(i) \/ SlotFails(i) \/ EventDropped(i)
  PROVE  Woken'
  <1> USE DEF consumers, entries, tasks, owed, IInv
  <1> Woken /\ SharedIsWoken /\ ReplaysAreWoken /\ TypeOK
    BY DEF Woken
  <1>1. CASE Register(i) \/ Deregister(i) \/ StreamEnds(i) \/ SlotFails(i)
    BY <1>1, OwedWakeup
    DEF Register, Deregister, StreamEnds, SlotFails, Isolate, WakeupOwed
  <1>2. CASE RequestResync(i) /\ i \in isolated /\ i \in registered
    BY <1>2, OwedWakeup DEF RequestResync, WakeupOwed
  <1>3. CASE RequestResync(i) /\ i \in registered \ isolated
    <2>1. i \in Live(Shared)' /\ i \in resync' \cap moving'
      BY <1>3 DEF RequestResync, Live
    <2>2. SharedIsWoken'
      BY <2>1 DEF SharedIsWoken
    <2>3. ReplaysAreWoken'
      BY <1>3, OwnFrame DEF RequestResync, WakeupOwed
    <2> QED
      BY <2>2, <2>3 DEF Woken
  <1>4. CASE RequestResync(i) /\ i \notin registered
    <2>1. SharedIsWoken'
      BY <1>4, SharedFrame DEF RequestResync, WakeupOwed, Live
    <2>2. ReplaysAreWoken'
      BY <1>4, OwnFrame DEF RequestResync, WakeupOwed
    <2> QED
      BY <2>1, <2>2 DEF Woken
  <1>5. CASE MoveAway(i) /\ i \in registered \ isolated
    BY <1>5, OwedWakeup DEF MoveAway, Isolate, WakeupOwed
  <1>6. CASE MoveAway(i) /\ i \notin registered \ isolated
    <2>1. SharedIsWoken'
      BY <1>6, SharedFrame DEF MoveAway, WakeupOwed, Live
    <2>2. ReplaysAreWoken'
      BY <1>6, OwnFrame DEF MoveAway, WakeupOwed
    <2> QED
      BY <2>1, <2>2 DEF Woken
  <1>7. CASE EventDropped(i)
    <2>1. SharedIsWoken'
      BY <1>7, SharedFrame DEF EventDropped, WakeupOwed, Live
    <2>2. ReplaysAreWoken'
      BY <1>7, OwnFrame DEF EventDropped, WakeupOwed
    <2> QED
      BY <2>1, <2>2 DEF Woken
  <1> QED
    BY <1>1, <1>2, <1>3, <1>4, <1>5, <1>6, <1>7 DEF ConsumerStep

(* The task of s is outside its connection afterwards, and has at most ended *)
(* slots of its own.                                                       *)
LEMMA LeavingWakes ==
  ASSUME IInv, NEW s \in Scopes, pc'[s] \notin Connected,
         \A x \in Scopes \ {s} : pc'[x] = pc[x] /\ carried'[x] = carried[x],
         notified \ {s} \subseteq notified', toPublish' = toPublish, moving' = moving,
         isolated' \subseteq isolated, resync' \subseteq resync,
         s # Shared => /\ Live(Shared)' = Live(Shared)
                       /\ Live(Shared) \cap resync' = Live(Shared) \cap resync
  PROVE  Woken'
  <1> SharedIsWoken /\ ReplaysAreWoken /\ TypeOK
    BY DEF IInv, Woken
  <1>1. WakeupOwed' = WakeupOwed
    BY DEF WakeupOwed
  <1>2. SharedIsWoken'
    <2>1. CASE s = Shared
      BY <2>1 DEF SharedIsWoken
    <2>2. CASE s # Shared
      BY <1>1, <2>2, SharedFrame DEF Scopes
    <2> QED
      BY <2>1, <2>2
  <1>3. ReplaysAreWoken'
    BY <1>1, OwnFrame DEF Scopes
  <1> QED
    BY <1>2, <1>3 DEF Woken

(* What the supervisor of an own connection ends is not shared.            *)
LEMMA OwnEndings ==
  ASSUME IInv, NEW s \in Slots, At(s, "opening") \/ At(s, "removing"), Remove(carried[s])
  PROVE  /\ Live(Shared)' = Live(Shared)
         /\ Live(Shared) \cap resync' = Live(Shared) \cap resync
  <1>1. carried[s] \subseteq {s} /\ (s \in registered => s \in isolated)
    BY DEF IInv, OwnConnections, At
  <1> QED
    BY <1>1 DEF Remove, Live

LEMMA StartWakes ==
  ASSUME IInv, StartMissing,
         UNCHANGED <<registered, isolated, resync, carried, notified, toPublish, moving>>
  PROVE  Woken'
  <1> SharedIsWoken /\ ReplaysAreWoken /\ TypeOK
    BY DEF IInv, Woken
  <1>1. \A s \in Scopes : pc'[s] \in Connected => pc[s] \in Connected
    BY DEF StartMissing, Connected
  <1>2. SharedIsWoken'
    BY <1>1, SharedFrame DEF Scopes, Live, WakeupOwed
  <1>3. ReplaysAreWoken'
    BY <1>1, OwnFrame DEF Scopes, WakeupOwed
  <1> QED
    BY <1>2, <1>3 DEF Woken

(* A fresh snapshot fits.                                                  *)
LEMMA PrepareWakes ==
  ASSUME IInv, NEW s \in Scopes, Prepare(s)
  PROVE  Woken'
  <1> USE DEF consumers, owed
  <1> SharedIsWoken /\ ReplaysAreWoken /\ TypeOK /\ OwnConnections
    BY DEF IInv, Woken
  <1>1. Live(s) \cap resync' = {} /\ Live(s)' = Live(s) /\ resync' \subseteq resync
    BY DEF Prepare, Live
  <1>2. \A x \in Scopes \ {s} : pc'[x] = pc[x] /\ carried'[x] = carried[x]
    BY DEF Prepare, Goto, TypeOK
  <1>3. carried'[s] = Live(s)
    BY DEF Prepare, TypeOK
  <1>4. UNCHANGED <<notified, isolated, registered, toPublish, moving>>
    BY DEF Prepare
  <1>5. SharedIsWoken'
    <2>1. CASE s = Shared /\ Live(Shared) # {}
      <3>1. carried'[Shared] \ Live(Shared)' = {}
        BY <1>1, <1>3, <2>1
      <3>2. Cardinality(carried'[Shared] \ Live(Shared)') = 0
        BY <3>1, FS_EmptySet
      <3>3. ~ReconnectNeeded(Shared)'
        BY <1>1, <1>3, <2>1, <3>2 DEF ReconnectNeeded
      <3> QED
        BY <3>3 DEF SharedIsWoken
    <2>2. CASE s = Shared /\ Live(Shared) = {}
      <3>1. pc'[Shared] \notin Connected
        BY <2>2 DEF Prepare, Goto, TypeOK, Connected
      <3> QED
        BY <3>1 DEF SharedIsWoken
    <2>3. CASE s # Shared
      <3>1. s \in registered => s \in isolated
        BY <2>3 DEF Prepare, At, OwnConnections, Scopes
      <3>2. Live(Shared) \cap resync' = Live(Shared) \cap resync
        BY <2>3, <3>1 DEF Prepare, Live
      <3> QED
        BY <1>2, <1>4, <2>3, <3>2, SharedFrame DEF Scopes, Live, WakeupOwed
    <2> QED
      BY <2>1, <2>2, <2>3
  <1>6. ReplaysAreWoken'
    <2>1. s \in Slots => s \notin resync' \cap isolated'
      BY <1>1, <1>4 DEF Live, TypeOK
    <2>2. \A i \in resync' \cap isolated' :
            /\ i \in resync \cap isolated
            /\ pc'[i] = pc[i] /\ (i \in notified <=> i \in notified')
      BY <1>1, <1>2, <1>4, <2>1 DEF Scopes, TypeOK
    <2> QED
      BY <1>4, <2>2 DEF ReplaysAreWoken, WakeupOwed
  <1> QED
    BY <1>5, <1>6 DEF Woken

(* The task of s stays on its connection, and has seen no change.          *)
LEMMA StayingWakes ==
  ASSUME IInv, NEW s \in Scopes,
         (DebounceOver /\ s = Shared) \/ Opens(s) \/ ItemArrives(s) \/ Handled(s)
  PROVE  Woken'
  <1> USE DEF DebounceOver, Opens, ItemArrives, Handled, At, consumers, entries, owed
  <1> SharedIsWoken /\ ReplaysAreWoken /\ TypeOK
    BY DEF IInv, Woken
  <1>1. UNCHANGED <<registered, isolated, resync, carried, notified, toPublish, moving>>
    OBVIOUS
  <1>2. \A x \in Scopes : pc'[x] \in Connected => pc[x] \in Connected
    BY DEF Goto, TypeOK, Connected
  <1>3. SharedIsWoken'
    BY <1>1, <1>2, SharedFrame DEF Scopes, Live, WakeupOwed
  <1>4. ReplaysAreWoken'
    BY <1>1, <1>2, OwnFrame DEF Scopes, WakeupOwed
  <1> QED
    BY <1>3, <1>4 DEF Woken

(* A change that needs no new document was seen.                           *)
LEMMA ChangeWakes ==
  ASSUME IInv, NEW s \in Scopes, Change(s)
  PROVE  Woken'
  <1> USE DEF consumers, entries, owed
  <1> SharedIsWoken /\ ReplaysAreWoken /\ TypeOK
    BY DEF IInv, Woken
  <1>1. UNCHANGED <<registered, isolated, resync, carried, toPublish, moving>>
    BY DEF Change
  <1>2. notified' = notified \ {s}
    BY DEF Change
  <1>3. CASE ReconnectNeeded(s)
    <2>1. pc'[s] \notin Connected /\ \A x \in Scopes \ {s} : pc'[x] = pc[x]
      BY <1>3 DEF Change, Goto, TypeOK, Connected
    <2> QED
      BY <1>1, <1>2, <2>1, LeavingWakes DEF Live
  <1>4. CASE ~ReconnectNeeded(s)
    <2>1. pc' = pc
      BY <1>4 DEF Change
    <2>2. SharedIsWoken'
      <3>1. CASE s = Shared
        <4>1. ReconnectNeeded(Shared)' <=> ReconnectNeeded(Shared)
          BY <1>1 DEF ReconnectNeeded, Live
        <4> QED
          BY <1>4, <3>1, <4>1 DEF SharedIsWoken
      <3>2. CASE s # Shared
        BY <1>1, <1>2, <2>1, <3>2, SharedFrame DEF Scopes, Live, WakeupOwed
      <3> QED
        BY <3>1, <3>2
    <2>3. ReplaysAreWoken'
      <3>1. s \in Slots => s \notin resync \cap isolated
        BY <1>4 DEF ReconnectNeeded, Live, TypeOK
      <3> QED
        BY <1>1, <1>2, <2>1, <3>1 DEF ReplaysAreWoken, WakeupOwed, TypeOK
    <2> QED
      BY <2>2, <2>3 DEF Woken
  <1> QED
    BY <1>3, <1>4

LEMMA TaskWakes ==
  ASSUME IInv, NEW s \in Scopes,
         Spawn(s) \/ TaskStep(s) \/ ServerStep(s) \/ EnsureAfterExit(s)
  PROVE  Woken'
  <1> USE DEF consumers, entries, owed
  <1> TypeOK
    BY DEF IInv
  <1>1. CASE Prepare(s)
    BY <1>1, PrepareWakes
  <1>2. CASE (s = Shared /\ DebounceOver) \/ Opens(s) \/ ItemArrives(s) \/ Handled(s)
    BY <1>2, StayingWakes
  <1>3. CASE Change(s)
    BY <1>3, ChangeWakes
  <1>4. CASE EnsureAfterExit(s)
    BY <1>4, StartWakes DEF EnsureAfterExit
  <1>5. CASE \/ Spawn(s) \/ Begin(s) \/ DelayOver(s) \/ DelayWoken(s)
             \/ s = Shared /\ DebounceChanged
             \/ EndConnected(s) \/ DropToken(s) \/ ConnectionLost(s) \/ ConnectionEnds(s)
             \/ OpenFails(s)
    <2>1. pc'[s] \notin Connected /\ \A x \in Scopes \ {s} : pc'[x] = pc[x]
      BY <1>5 DEF Spawn, Begin, DelayOver, DelayWoken, DebounceChanged, EndConnected,
         DropToken, ConnectionLost, ConnectionEnds, OpenFails, Goto, At, TypeOK, Connected
    <2>2. \A x \in Scopes \ {s} : carried'[x] = carried[x]
      BY <1>5 DEF Spawn, Begin, DelayOver, DelayWoken, DebounceChanged, EndConnected,
         DropToken, ConnectionLost, ConnectionEnds, OpenFails, TypeOK
    <2>3. /\ UNCHANGED <<registered, isolated, resync, toPublish, moving>>
          /\ notified \ {s} \subseteq notified'
      BY <1>5 DEF Spawn, Begin, DelayOver, DelayWoken, DebounceChanged, EndConnected,
         DropToken, ConnectionLost, ConnectionEnds, OpenFails
    <2> QED
      BY <2>1, <2>2, <2>3, LeavingWakes DEF Live
  <1>6. CASE BuildFails(s) \/ EndSlots(s)
    <2>1. /\ pc'[s] \notin Connected /\ \A x \in Scopes \ {s} : pc'[x] = pc[x]
          /\ Remove(carried[s]) /\ (At(s, "opening") \/ At(s, "removing"))
          /\ UNCHANGED <<carried, notified, toPublish, moving>>
      BY <1>6 DEF BuildFails, EndSlots, Goto, TypeOK, Connected
    <2>2. isolated' \subseteq isolated /\ resync' \subseteq resync
      BY <2>1 DEF Remove
    <2>3. s # Shared => /\ Live(Shared)' = Live(Shared)
                        /\ Live(Shared) \cap resync' = Live(Shared) \cap resync
      BY <2>1, OwnEndings DEF Scopes
    <2> QED
      BY <2>1, <2>2, <2>3, LeavingWakes
  <1> QED
    BY <1>1, <1>2, <1>3, <1>4, <1>5, <1>6 DEF TaskStep, ServerStep

LEMMA PublishWakes ==
  ASSUME IInv, NEW c \in Callers, Publish(c)
  PROVE  Woken'
  <1>1. \A s \in Scopes : pc'[s] \in Connected => s \in notified'
    BY DEF Publish, Connected
  <1>2. resync' \subseteq Slots
    BY DEF Publish, entries, IInv, TypeOK
  <1> QED
    BY <1>1, <1>2 DEF Woken, SharedIsWoken, ReplaysAreWoken, Scopes

LEMMA WakeStep == IInv /\ [Next]_vars => Woken'
  <1> SUFFICES ASSUME IInv, [Next]_vars PROVE Woken'
    OBVIOUS
  <1>1. CASE \E i \in Slots : ConsumerStep(i) \/ SlotFails(i) \/ EventDropped(i)
    BY <1>1, ConsumerWakes
  <1>2. CASE \E c \in Callers : CallerStep(c)
    <2> PICK c \in Callers : Publish(c) \/ Ensure(c)
      BY <1>2 DEF CallerStep
    <2>1. CASE Publish(c)
      BY <2>1, PublishWakes
    <2>2. CASE Ensure(c)
      BY <2>2, StartWakes DEF Ensure, consumers, entries
    <2> QED
      BY <2>1, <2>2
  <1>3. CASE \E s \in Scopes :
               Spawn(s) \/ TaskStep(s) \/ ServerStep(s) \/ EnsureAfterExit(s)
    BY <1>3, TaskWakes
  <1>4. CASE RuntimeDropped
    <2>1. \A s \in Scopes : pc'[s] \notin Connected
      BY <1>4 DEF RuntimeDropped, Connected
    <2>2. resync' \subseteq Slots
      BY <1>4 DEF RuntimeDropped, entries, IInv, TypeOK
    <2> QED
      BY <2>1, <2>2 DEF Woken, SharedIsWoken, ReplaysAreWoken, Scopes
  <1>5. CASE UNCHANGED vars
    BY <1>5 DEF vars, consumers, entries, tasks, owed, IInv, Woken,
       SharedIsWoken, ReplaysAreWoken, ReconnectNeeded, Live, WakeupOwed
  <1> QED
    BY <1>1, <1>2, <1>3, <1>4, <1>5 DEF Next

-----------------------------------------------------------------------------
(***************************************************************************)
(* Slots that left the hub.                                                *)
(***************************************************************************)

(* Tasks that neither connect nor change what a connection carries.         *)
LEMMA LeaversFrame ==
  ASSUME LeaversAreWoken, TypeOK,
         \A i \in Slots : pc'[i] \in Connected =>
           /\ pc[i] \in Connected
           /\ carried'[i] = carried[i]
           /\ consumer'[i] = "done" => consumer[i] = "done"
           /\ i \in notified => i \in notified',
         WakeupOwed => WakeupOwed'
  PROVE  LeaversAreWoken'
  BY DEF LeaversAreWoken

LEMMA ConsumerLeavers ==
  ASSUME IInv, LeaversAreWoken, NEW i \in Slots,
         ConsumerStep(i) \/ SlotFails(i) \/ EventDropped(i)
  PROVE  LeaversAreWoken'
  <1> USE DEF consumers, entries, tasks, owed
  <1>1. UNCHANGED <<pc, carried, notified>>
    BY DEF ConsumerStep, Register, Deregister, StreamEnds, RequestResync, MoveAway,
       SlotFails, EventDropped
  <1>2. CASE Register(i) \/ Deregister(i) \/ StreamEnds(i)
    <2>1. WakeupOwed'
      BY <1>2 DEF Register, Deregister, StreamEnds, WakeupOwed
    <2> QED
      BY <1>1, <2>1 DEF LeaversAreWoken
  <1>3. CASE ~(Register(i) \/ Deregister(i) \/ StreamEnds(i))
    <2>1. consumer' = consumer /\ toPublish \subseteq toPublish'
      BY <1>3 DEF ConsumerStep, RequestResync, MoveAway, SlotFails, EventDropped, Isolate
    <2> QED
      BY <1>1, <2>1, LeaversFrame DEF WakeupOwed, IInv
  <1> QED
    BY <1>2, <1>3

LEMMA StartLeavers ==
  ASSUME IInv, LeaversAreWoken, StartMissing,
         UNCHANGED <<consumer, carried, notified, toPublish>>
  PROVE  LeaversAreWoken'
  <1>1. \A i \in Slots : pc'[i] \in Connected => pc[i] \in Connected
    BY DEF StartMissing, Connected, Scopes
  <1> QED
    BY <1>1, LeaversFrame DEF WakeupOwed, IInv

(* A connection starts from a snapshot that holds its slot, whose stream is  *)
(* then still held.                                                        *)
LEMMA PrepareLeavers ==
  ASSUME IInv, LeaversAreWoken, NEW s \in Scopes, Prepare(s)
  PROVE  LeaversAreWoken'
  <1> USE DEF consumers, owed
  <1>1. \A x \in Scopes \ {s} : pc'[x] = pc[x] /\ carried'[x] = carried[x]
    BY DEF Prepare, Goto, IInv, TypeOK
  <1>2. UNCHANGED <<consumer, registered, notified, toPublish>>
    BY DEF Prepare
  <1>3. CASE s = Shared
    BY <1>1, <1>2, <1>3 DEF LeaversAreWoken, WakeupOwed, Scopes
  <1>4. CASE s \in Slots /\ s \in registered
    <2>1. carried'[s] = {s} /\ consumer[s] = "polled"
      BY <1>4 DEF Prepare, Live, IInv, TypeOK, OnlyPolled
    <2> QED
      BY <1>1, <1>2, <1>4, <2>1 DEF LeaversAreWoken, WakeupOwed, Scopes
  <1>5. CASE s \in Slots /\ s \notin registered
    <2>1. pc'[s] \notin Connected
      BY <1>5 DEF Prepare, Live, Goto, IInv, TypeOK, Connected
    <2> QED
      BY <1>1, <1>2, <1>5, <2>1 DEF LeaversAreWoken, WakeupOwed, Scopes
  <1> QED
    BY <1>3, <1>4, <1>5 DEF Scopes

(* A change that is seen on a connection whose slot is gone stops it.       *)
LEMMA ChangeLeavers ==
  ASSUME IInv, LeaversAreWoken, NEW s \in Scopes, Change(s)
  PROVE  LeaversAreWoken'
  <1> USE DEF consumers, entries, owed
  <1>1. UNCHANGED <<consumer, registered, carried, toPublish>> /\ notified' = notified \ {s}
    BY DEF Change
  <1>2. \A x \in Scopes \ {s} : pc'[x] = pc[x]
    BY DEF Change, Goto, IInv, TypeOK
  <1>3. CASE pc'[s] \in Connected /\ s \in Slots
    <2>1. ~ReconnectNeeded(s) /\ pc' = pc
      BY <1>3 DEF Change, Goto, IInv, TypeOK, Connected
    <2>2. consumer[s] = "polled"
      BY <1>3, <2>1 DEF ReconnectNeeded, Live, IInv, OnlyPolled
    <2> QED
      BY <1>1, <2>1, <2>2 DEF LeaversAreWoken, WakeupOwed
  <1>4. CASE pc'[s] \notin Connected \/ s = Shared
    BY <1>1, <1>2, <1>4 DEF LeaversAreWoken, WakeupOwed, Scopes
  <1> QED
    BY <1>3, <1>4 DEF Scopes

LEMMA TaskLeavers ==
  ASSUME IInv, LeaversAreWoken, NEW s \in Scopes,
         Spawn(s) \/ TaskStep(s) \/ ServerStep(s) \/ EnsureAfterExit(s)
  PROVE  LeaversAreWoken'
  <1> USE DEF consumers, entries, owed
  <1>1. CASE Prepare(s)
    BY <1>1, PrepareLeavers
  <1>2. CASE (s = Shared /\ DebounceOver) \/ Opens(s) \/ ItemArrives(s) \/ Handled(s)
    <2>1. UNCHANGED <<consumer, carried, notified, toPublish>>
      BY <1>2 DEF DebounceOver, Opens, ItemArrives, Handled
    <2>2. \A i \in Slots : pc'[i] \in Connected => pc[i] \in Connected
      BY <1>2 DEF DebounceOver, Opens, ItemArrives, Handled, At, Goto, IInv, TypeOK, Connected,
         Scopes
    <2> QED
      BY <2>1, <2>2, LeaversFrame DEF WakeupOwed, IInv
  <1>3. CASE Change(s)
    BY <1>3, ChangeLeavers
  <1>4. CASE EnsureAfterExit(s)
    BY <1>4, StartLeavers DEF EnsureAfterExit
  <1>5. CASE \/ Spawn(s) \/ Begin(s) \/ DelayOver(s) \/ DelayWoken(s)
             \/ s = Shared /\ DebounceChanged
             \/ EndConnected(s) \/ DropToken(s) \/ ConnectionLost(s) \/ ConnectionEnds(s)
             \/ OpenFails(s) \/ BuildFails(s) \/ EndSlots(s)
    <2>1. pc'[s] \notin Connected /\ \A x \in Scopes \ {s} : pc'[x] = pc[x]
      BY <1>5 DEF Spawn, Begin, DelayOver, DelayWoken, DebounceChanged, EndConnected,
         DropToken, ConnectionLost, ConnectionEnds, OpenFails, BuildFails, EndSlots,
         Goto, At, IInv, TypeOK, Connected
    <2>2. \A x \in Scopes \ {s} : carried'[x] = carried[x]
      BY <1>5 DEF Spawn, Begin, DelayOver, DelayWoken, DebounceChanged, EndConnected,
         DropToken, ConnectionLost, ConnectionEnds, OpenFails, BuildFails, EndSlots,
         IInv, TypeOK
    <2>3. UNCHANGED <<consumer, toPublish>> /\ notified \ {s} \subseteq notified'
      BY <1>5 DEF Spawn, Begin, DelayOver, DelayWoken, DebounceChanged, EndConnected,
         DropToken, ConnectionLost, ConnectionEnds, OpenFails, BuildFails, EndSlots
    <2>4. \A i \in Slots : pc'[i] \in Connected => i \in Scopes \ {s}
      BY <2>1 DEF Scopes
    <2> QED
      BY <2>1, <2>2, <2>3, <2>4, LeaversFrame DEF WakeupOwed, IInv
  <1> QED
    BY <1>1, <1>2, <1>3, <1>4, <1>5 DEF TaskStep, ServerStep

LEMMA LeaversStep == IInv /\ LeaversAreWoken /\ [Next]_vars => LeaversAreWoken'
  <1> SUFFICES ASSUME IInv, LeaversAreWoken, [Next]_vars PROVE LeaversAreWoken'
    OBVIOUS
  <1>1. CASE \E i \in Slots : ConsumerStep(i) \/ SlotFails(i) \/ EventDropped(i)
    BY <1>1, ConsumerLeavers
  <1>2. CASE \E c \in Callers : CallerStep(c)
    <2> PICK c \in Callers : Publish(c) \/ Ensure(c)
      BY <1>2 DEF CallerStep
    <2>1. CASE Publish(c)
      <3>1. \A i \in Slots : pc'[i] \in Connected => i \in notified'
        BY <2>1 DEF Publish, Connected, Scopes
      <3> QED
        BY <2>1, <3>1 DEF Publish, LeaversAreWoken
    <2>2. CASE Ensure(c)
      BY <2>2, StartLeavers DEF Ensure, consumers
    <2> QED
      BY <2>1, <2>2
  <1>3. CASE \E s \in Scopes :
               Spawn(s) \/ TaskStep(s) \/ ServerStep(s) \/ EnsureAfterExit(s)
    BY <1>3, TaskLeavers
  <1>4. CASE RuntimeDropped
    <2>1. \A s \in Scopes : pc'[s] \notin Connected
      BY <1>4 DEF RuntimeDropped, Connected
    <2> QED
      BY <2>1 DEF LeaversAreWoken, Scopes
  <1>5. CASE UNCHANGED vars
    BY <1>5, LeaversFrame DEF vars, consumers, tasks, owed, IInv, WakeupOwed
  <1> QED
    BY <1>1, <1>2, <1>3, <1>4, <1>5 DEF Next

(* An own connection that must be rebuilt owes a replay, or its slot is gone. *)
LEMMA OwnWoken == IInv /\ LeaversAreWoken => OwnAreWoken
  <1> SUFFICES ASSUME IInv, LeaversAreWoken, NEW i \in Slots,
                      pc[i] \in Connected, ReconnectNeeded(i)
               PROVE  i \in notified \/ WakeupOwed \/ EndedByFormer(i)
    BY DEF OwnAreWoken
  <1>1. pc[i] # "off" /\ carried[i] = {i}
    BY DEF Connected, LeaversAreWoken
  <1>2. CASE i \in registered
    <2>1. Live(i) = {i} /\ i \in isolated
      BY <1>1, <1>2 DEF Live, IInv, OwnConnections
    <2>2. Cardinality(carried[i] \ Live(i)) = 0
      BY <1>1, <2>1, FS_EmptySet
    <2>3. i \in resync
      BY <1>1, <2>1, <2>2 DEF ReconnectNeeded
    <2> QED
      BY <2>1, <2>3 DEF IInv, Woken, ReplaysAreWoken
  <1>3. CASE i \notin registered
    BY <1>1, <1>3 DEF IInv, OwnConnections, TypeOK, LeaversAreWoken, EndedByFormer
  <1> QED
    BY <1>2, <1>3

(* Whatever the interleaving of registrations, departures, moves and tasks,  *)
(* a connection that must be rebuilt, because slots came or left or one is   *)
(* owed a replay, has a change to see or to come; except the own connection  *)
(* of a slot that was ended, by its former connection, under a held stream.  *)
THEOREM NoWakeupLost == Spec => []StaleConnectionIsWoken
  <1>1. Init => IInv /\ LeaversAreWoken
    BY InitIInv DEF Init, LeaversAreWoken, Connected, Scopes
  <1>2. IInv /\ LeaversAreWoken /\ [Next]_vars => (IInv /\ LeaversAreWoken)'
    BY TypeStep, HelperStep, WakeStep, LeaversStep DEF IInv
  <1>3. IInv /\ LeaversAreWoken => StaleConnectionIsWoken
    BY OwnWoken DEF IInv, Woken, StaleConnectionIsWoken
  <1> QED
    BY <1>1, <1>2, <1>3, PTL DEF Spec
=============================================================================
