----------------------------- MODULE Supervision -----------------------------
(***************************************************************************)
(* Which task drives which connection (client/src/client/subscription_hub  *)
(* .rs).  Subscriptions register, leave, and move onto connections of their *)
(* own; every connection has a supervisor task; tasks are started by        *)
(* whoever finds one missing and learn of changes through a watch channel.  *)
(* Each action is one critical section of the hub lock or one step of a     *)
(* task between two of its awaits.  What the connections carry is left to   *)
(* Delivery; delays elapse at any time.                                     *)
(***************************************************************************)
EXTENDS Integers, FiniteSets

CONSTANTS
  Slots,      (* subscriptions: SlotId, never reused                       *)
  Shared,     (* Scope::Shared; Scope::Isolated(i) is written i            *)
  Restarts,   (* subscription_stream_restart_delay is set                  *)
  Faults,     (* what may go wrong, of Faulty                              *)
  Slow,       (* subscriptions whose consumers may let their queue fill    *)
  MaxStale    (* MAX_STALE_ALIASES                                         *)

ASSUME SlotsAssumption == IsFiniteSet(Slots) /\ Shared \notin Slots
(* A request that cannot be built or opened, a payload that is refused or    *)
(* malformed, a runtime that is dropped.                                   *)
Faulty == {"build", "open", "slot", "runtime"}

ASSUME ConfigAssumption ==
  /\ Restarts \in BOOLEAN /\ Faults \subseteq Faulty
  /\ Slow \subseteq Slots /\ MaxStale \in Nat

Scopes == Slots \cup {Shared}

VARIABLES
  consumer,   (* the stream of a subscription: unpolled, polled, or done   *)
  registered, (* HubState.slots                                            *)
  isolated,   (* slots whose entry has `isolated` set                      *)
  resync,     (* slots whose entry has `resync` set                        *)
  lagged,     (* slots whose `lagging` flag is set                         *)
  moving,     (* consumers inside request_resync, about to isolate         *)
  pc,         (* where the supervisor of a scope is; "off": no live token  *)
  carried,    (* the slots of its snapshot: targets, and later `connected` *)
  frame,      (* `live` as dispatch on the shared connection last read it  *)
  notified,   (* supervisors whose watch receiver has an unseen change     *)
  toPublish,  (* callers that still owe a send on the watch channel        *)
  toEnsure,   (* callers that still owe a call of ensure_supervisors       *)
  exits,      (* ended tasks that still owe that call, per scope           *)
  lost        (* tasks died with their runtime and nobody looked since     *)

consumers == <<consumer, lagged, moving>>
entries   == <<registered, isolated, resync>>
tasks     == <<pc, carried, frame, notified>>
owed      == <<toPublish, toEnsure, exits, lost>>
vars      == <<consumers, entries, tasks, owed>>

(* A caller is the thread that polls the stream of slot i, written i, or    *)
(* the supervisor of the shared connection, written Shared.                 *)
Callers == Scopes

PCs == {"off", "spawning", "starting", "delay", "prepare", "debounce",
        "opening", "drive", "dispatch", "ending", "removing", "dropping"}

Init ==
  /\ consumer = [i \in Slots |-> "unpolled"]
  /\ registered = {} /\ isolated = {} /\ resync = {}
  /\ lagged = {} /\ moving = {}
  /\ pc = [s \in Scopes |-> "off"]
  /\ carried = [s \in Scopes |-> {}]
  /\ frame = {}
  /\ notified = {}
  /\ toPublish = {} /\ toEnsure = {}
  /\ exits = [s \in Scopes |-> 0]
  /\ lost = FALSE
-----------------------------------------------------------------------------
(* belongs_to and scope_ids.                                               *)
ScopeOf(i) == IF i \in isolated THEN i ELSE Shared
Live(s) == IF s = Shared THEN registered \ isolated ELSE registered \cap {s}

(* reconnect_needed: whether the document of s no longer fits; the first    *)
(* definition is a variant that overlooks subscriptions that joined.        *)
ReconnectForLeavers(s) ==
  \/ Live(s) = {}
  \/ Live(s) \cap resync # {}
  \/ Cardinality(carried[s] \ Live(s)) > MaxStale

ReconnectNeeded(s) ==
  \/ Live(s) = {}
  \/ Live(s) \cap resync # {}
  \/ ~(Live(s) \subseteq carried[s])
  \/ Cardinality(carried[s] \ Live(s)) > MaxStale

Goto(s, place) == pc' = [pc EXCEPT ![s] = place]

(* end_slots, and the removal in deregister.                               *)
Remove(ids) ==
  /\ registered' = registered \ ids
  /\ isolated' = isolated \ ids
  /\ resync' = resync \ ids

(* A caller that is still inside an operation does nothing else.           *)
Idle(c) == c \notin toPublish \cup toEnsure \cup moving

(* The sending half of publish_generation, outside the lock: every receiver *)
(* that exists sees a change.                                               *)
Publish(c) ==
  /\ c \in toPublish
  /\ toPublish' = toPublish \ {c}
  /\ notified' = notified \cup {s \in Scopes : pc[s] \notin {"off", "spawning"}}
  /\ UNCHANGED <<consumers, entries, pc, carried, frame, toEnsure, exits, lost>>

(* ensure_supervisors: takes the token of every connection that has slots   *)
(* and no live token.                                                      *)
MissingShared == IF pc[Shared] = "off" /\ Live(Shared) # {} THEN {Shared} ELSE {}

Missing == MissingShared \cup {i \in isolated : pc[i] = "off"}

StartMissing ==
  /\ pc' = [s \in Scopes |-> IF s \in Missing THEN "spawning" ELSE pc[s]]
  /\ lost' = FALSE

Ensure(c) ==
  /\ c \in toEnsure \ toPublish
  /\ toEnsure' = toEnsure \ {c}
  /\ StartMissing
  /\ UNCHANGED <<consumers, entries, carried, frame, notified, toPublish, exits>>

EnsureAfterExit(s) ==
  /\ exits[s] > 0
  /\ exits' = [exits EXCEPT ![s] = @ - 1]
  /\ StartMissing
  /\ UNCHANGED <<consumers, entries, carried, frame, notified, toPublish, toEnsure>>

(* The variant does not publish, relying on the supervisor that it starts.  *)
IsolateQuietly(c, i) ==
  /\ isolated' = isolated \cup {i}
  /\ toPublish' = toPublish
  /\ toEnsure' = toEnsure \cup {c}

(* isolate, for a slot that is registered and not isolated yet.            *)
Isolate(c, i) ==
  /\ isolated' = isolated \cup {i}
  /\ toPublish' = toPublish \cup {c}
  /\ toEnsure' = toEnsure \cup {c}
-----------------------------------------------------------------------------
(* Consumers.                                                              *)

(* The first poll registers the slot.                                      *)
Register(i) ==
  /\ consumer[i] = "unpolled"
  /\ consumer' = [consumer EXCEPT ![i] = "polled"]
  /\ registered' = registered \cup {i}
  /\ toPublish' = toPublish \cup {i}
  /\ toEnsure' = toEnsure \cup {i}
  /\ UNCHANGED <<isolated, resync, lagged, moving, tasks, exits, lost>>

(* The stream is dropped, whether or not the hub ended it before.          *)
Deregister(i) ==
  /\ consumer[i] = "polled" /\ Idle(i)
  /\ consumer' = [consumer EXCEPT ![i] = "done"]
  /\ Remove({i})
  /\ lagged' = lagged \ {i}
  /\ toPublish' = toPublish \cup {i}
  /\ UNCHANGED <<moving, tasks, toEnsure, exits, lost>>

(* A connection holds the senders of its targets while it is prepared and   *)
(* driven; the stream ends once nothing holds its sender.                   *)
Connected == {"debounce", "opening", "drive", "dispatch"}
Holds(s, i) == pc[s] \in Connected /\ i \in carried[s]

StreamEnds(i) ==
  /\ consumer[i] = "polled" /\ Idle(i)
  /\ i \notin registered
  /\ \A s \in Scopes : ~Holds(s, i)
  /\ consumer' = [consumer EXCEPT ![i] = "done"]
  /\ lagged' = lagged \ {i}
  /\ toPublish' = toPublish \cup {i}
  /\ UNCHANGED <<entries, moving, tasks, toEnsure, exits, lost>>

(* The consumer drained the queue of a slot that lost events.              *)
RequestResync(i) ==
  /\ consumer[i] = "polled" /\ Idle(i)
  /\ i \in lagged
  /\ lagged' = lagged \ {i}
  /\ IF i \notin registered
     THEN UNCHANGED <<resync, moving, toPublish>>
     ELSE /\ resync' = resync \cup {i}
          /\ moving' = IF i \in isolated THEN moving ELSE moving \cup {i}
          /\ toPublish' = IF i \in isolated THEN toPublish \cup {i} ELSE toPublish
  /\ UNCHANGED <<consumer, registered, isolated, tasks, toEnsure, exits, lost>>

(* The second half of request_resync.  The shared supervisor may have       *)
(* isolated or ended the slot meanwhile; the variant does not look again.   *)
MoveAwayUnchecked(i) ==
  /\ i \in moving
  /\ moving' = moving \ {i}
  /\ Isolate(i, i)
  /\ UNCHANGED <<consumer, lagged, registered, resync, tasks, exits, lost>>

MoveAway(i) ==
  /\ i \in moving
  /\ moving' = moving \ {i}
  /\ IF i \in registered \ isolated
     THEN Isolate(i, i)
     ELSE UNCHANGED <<isolated, toPublish, toEnsure>>
  /\ UNCHANGED <<consumer, lagged, registered, resync, tasks, exits, lost>>
-----------------------------------------------------------------------------
(* Supervisor tasks.                                                       *)

(* The shared supervisor, when it is not inside isolate.                   *)
At(s, place) == pc[s] = place /\ (s = Shared => Idle(Shared))

Spawn(s) ==
  /\ pc[s] = "spawning"
  /\ Goto(s, "starting")
  /\ notified' = notified \ {s}
  /\ UNCHANGED <<consumers, entries, carried, frame, owed>>

(* run_supervisor: an isolated one waits first, unless its slot is gone.   *)
Begin(s) ==
  /\ At(s, "starting")
  /\ \/ s = Shared /\ Goto(s, "prepare") /\ UNCHANGED carried
     \/ s \in registered /\ Goto(s, "delay") /\ carried' = [carried EXCEPT ![s] = {s}]
     \/ s \notin registered \cup {Shared} /\ Goto(s, "dropping") /\ UNCHANGED carried
  /\ UNCHANGED <<consumers, entries, frame, notified, owed>>

(* wait_before_reconnect: the delay passes, or a change ends it early.     *)
DelayOver(s) ==
  /\ At(s, "delay")
  /\ Goto(s, "prepare")
  /\ UNCHANGED <<consumers, entries, carried, frame, notified, owed>>

DelayWoken(s) ==
  /\ At(s, "delay") /\ s \in notified
  /\ notified' = notified \ {s}
  /\ IF Live(s) = {} \/ ~(Live(s) \subseteq carried[s])
     THEN Goto(s, "prepare") ELSE UNCHANGED pc
  /\ UNCHANGED <<consumers, entries, carried, frame, owed>>

(* prepare: the snapshot fulfils the resync requests; only the shared       *)
(* connection debounces, and not past MAX_SLOT_CHANGE_WAIT.                 *)
Prepare(s) ==
  /\ At(s, "prepare")
  /\ carried' = [carried EXCEPT ![s] = Live(s)]
  /\ resync' = resync \ Live(s)
  /\ \/ Live(s) = {} /\ Goto(s, "dropping")
     \/ Live(s) # {} /\ s = Shared /\ Goto(s, "debounce")
     \/ Live(s) # {} /\ Goto(s, "opening")
  /\ UNCHANGED <<consumers, registered, isolated, frame, notified, owed>>

DebounceChanged ==
  /\ At(Shared, "debounce") /\ Shared \in notified
  /\ notified' = notified \ {Shared}
  /\ Goto(Shared, "prepare")
  /\ UNCHANGED <<consumers, entries, carried, frame, owed>>

DebounceOver ==
  /\ At(Shared, "debounce")
  /\ Goto(Shared, "opening")
  /\ UNCHANGED <<consumers, entries, carried, frame, notified, owed>>

(* build_connection fails: every slot of the snapshot ends.                *)
BuildFails(s) ==
  /\ At(s, "opening") /\ "build" \in Faults
  /\ Remove(carried[s])
  /\ Goto(s, "dropping")
  /\ UNCHANGED <<consumers, carried, frame, notified, owed>>

(* open_stream fails: every target is told, on the shared connection as far  *)
(* as its queue has room, and the connection stops.                        *)
OpenFails(s) ==
  /\ At(s, "opening") /\ "open" \in Faults
  /\ Goto(s, "ending")
  /\ \E full \in SUBSET {i \in carried[s] \cap Slow : s = Shared /\ consumer[i] = "polled"} :
       lagged' = lagged \cup full
  /\ UNCHANGED <<consumer, moving, entries, carried, frame, notified, owed>>

Opens(s) ==
  /\ At(s, "opening")
  /\ Goto(s, "drive")
  /\ UNCHANGED <<consumers, entries, carried, frame, notified, owed>>

(* drive: a change arrives on the watch channel.                           *)
Change(s) ==
  /\ At(s, "drive") /\ s \in notified
  /\ notified' = notified \ {s}
  /\ IF ReconnectNeeded(s) THEN Goto(s, "prepare") ELSE UNCHANGED pc
  /\ UNCHANGED <<consumers, entries, carried, frame, owed>>

(* drive: an event or an error.  The loop looks at the watch channel first; *)
(* the variant lets whatever is ready win.  Which slots the item is for is   *)
(* read once, under the lock.                                              *)
ItemArrivesUnbiased(s) ==
  /\ At(s, "drive")
  /\ Goto(s, "dispatch")
  /\ frame' = IF s = Shared THEN carried[s] \cap Live(s) ELSE frame
  /\ UNCHANGED <<consumers, entries, carried, notified, owed>>

ItemArrives(s) ==
  /\ At(s, "drive") /\ s \notin notified
  /\ Goto(s, "dispatch")
  /\ frame' = IF s = Shared THEN carried[s] \cap Live(s) ELSE frame
  /\ UNCHANGED <<consumers, entries, carried, notified, owed>>

(* dispatch on the shared connection: the payload of a slot does not        *)
(* decode, or the server refuses it.                                       *)
SlotFails(i) ==
  /\ At(Shared, "dispatch") /\ "slot" \in Faults
  /\ i \in frame \cap (registered \ isolated)
  /\ Isolate(Shared, i)
  /\ UNCHANGED <<consumers, registered, resync, tasks, exits, lost>>

(* deliver on the shared connection: the queue is full.                    *)
EventDropped(i) ==
  /\ At(Shared, "dispatch")
  /\ i \in frame \cap Slow /\ consumer[i] = "polled"
  /\ lagged' = lagged \cup {i}
  /\ UNCHANGED <<consumer, moving, entries, tasks, owed>>

(* Dispatch::Handled, and the errors after which the client of the          *)
(* connection reconnects by itself.                                        *)
Handled(s) ==
  /\ At(s, "dispatch")
  /\ Goto(s, "drive")
  /\ frame' = IF s = Shared THEN {} ELSE frame
  /\ UNCHANGED <<consumers, entries, carried, notified, owed>>

(* Outcome::Reconnect after a malformed event, a refusal or an error.      *)
ConnectionLost(s) ==
  /\ At(s, "dispatch")
  /\ Goto(s, "delay")
  /\ frame' = IF s = Shared THEN {} ELSE frame
  /\ UNCHANGED <<consumers, entries, carried, notified, owed>>

(* drive: the SSE stream is over.                                          *)
ConnectionEnds(s) ==
  /\ At(s, "drive") /\ s \notin notified
  /\ Goto(s, IF Restarts THEN "delay" ELSE "ending")
  /\ UNCHANGED <<consumers, entries, carried, frame, notified, owed>>

(* end_connected reads the scope under one lock and removes under another. *)
EndConnected(s) ==
  /\ At(s, "ending")
  /\ carried' = [carried EXCEPT ![s] = @ \cap Live(s)]
  /\ Goto(s, "removing")
  /\ UNCHANGED <<consumers, entries, frame, notified, owed>>

EndSlots(s) ==
  /\ At(s, "removing")
  /\ Remove(carried[s])
  /\ Goto(s, "dropping")
  /\ UNCHANGED <<consumers, carried, frame, notified, owed>>

(* The task returns: the token goes first, then ensure_supervisors.  The    *)
(* variant forgets to check again.                                          *)
DropTokenOnly(s) ==
  /\ At(s, "dropping")
  /\ Goto(s, "off")
  /\ notified' = notified \ {s}
  /\ carried' = [carried EXCEPT ![s] = {}]
  /\ UNCHANGED <<consumers, entries, frame, owed>>

DropToken(s) ==
  /\ At(s, "dropping")
  /\ Goto(s, "off")
  /\ notified' = notified \ {s}
  /\ carried' = [carried EXCEPT ![s] = {}]
  /\ exits' = [exits EXCEPT ![s] = @ + 1]
  /\ UNCHANGED <<consumers, entries, frame, toPublish, toEnsure, lost>>

(* The runtime of the tasks shuts down, which drops every task at an await; *)
(* streams polled on another runtime live on.                              *)
Awaiting(s) ==
  \/ pc[s] \in {"starting", "delay", "debounce", "drive"}
  \/ pc[s] = "dispatch" /\ s # Shared

RuntimeDropped ==
  /\ "runtime" \in Faults
  /\ \A s \in Scopes :
       exits[s] = 0 /\ (Awaiting(s) \/ pc[s] \in {"off", "spawning"})
  /\ \E s \in Scopes : Awaiting(s)
  /\ Idle(Shared)
  /\ pc' = [s \in Scopes |-> IF pc[s] = "spawning" THEN "spawning" ELSE "off"]
  /\ carried' = [s \in Scopes |-> {}]
  /\ notified' = {}
  /\ lost' = TRUE
  /\ UNCHANGED <<consumers, entries, frame, toPublish, toEnsure, exits>>

ConsumerStep(i) ==
  Register(i) \/ Deregister(i) \/ StreamEnds(i) \/ RequestResync(i) \/ MoveAway(i)

CallerStep(c) == Publish(c) \/ Ensure(c)

(* What a supervisor does of itself, given time.                           *)
TaskStep(s) ==
  \/ Begin(s)
  \/ DelayOver(s) \/ DelayWoken(s)
  \/ Prepare(s)
  \/ s = Shared /\ (DebounceChanged \/ DebounceOver)
  \/ Opens(s) \/ Change(s) \/ Handled(s)
  \/ EndConnected(s) \/ EndSlots(s) \/ DropToken(s)

(* What the server and the configuration do to it.                         *)
ServerStep(s) ==
  \/ ItemArrives(s)
  \/ ConnectionLost(s) \/ ConnectionEnds(s)
  \/ BuildFails(s) \/ OpenFails(s)

Next ==
  \/ \E i \in Slots : ConsumerStep(i) \/ SlotFails(i) \/ EventDropped(i)
  \/ \E c \in Callers : CallerStep(c)
  \/ \E s \in Scopes : Spawn(s) \/ TaskStep(s) \/ ServerStep(s) \/ EnsureAfterExit(s)
  \/ RuntimeDropped

Spec == Init /\ [][Next]_vars

(* Threads run on, consumers keep polling, and delays pass.  Nothing makes a *)
(* consumer come or go, an event arrive or a connection fail.              *)
Fairness ==
  /\ \A i \in Slots : WF_vars(MoveAway(i)) /\ WF_vars(StreamEnds(i))
  /\ \A c \in Callers : WF_vars(CallerStep(c))
  /\ \A s \in Scopes :
       /\ WF_vars(Spawn(s)) /\ WF_vars(TaskStep(s))
       /\ WF_vars(EnsureAfterExit(s))

FairSpec == Spec /\ Fairness
-----------------------------------------------------------------------------
(* The variables have their types; a slot that is isolated or waits for a    *)
(* replay is registered, whatever was decided about it before it left.      *)
TypeOK ==
  /\ consumer \in [Slots -> {"unpolled", "polled", "done"}]
  /\ registered \subseteq Slots
  /\ isolated \subseteq registered
  /\ resync \subseteq registered
  /\ lagged \subseteq Slots
  /\ moving \subseteq Slots
  /\ pc \in [Scopes -> PCs]
  /\ carried \in [Scopes -> SUBSET Slots]
  /\ frame \subseteq Slots
  /\ notified \subseteq Scopes
  /\ toPublish \subseteq Callers
  /\ toEnsure \subseteq Callers
  /\ exits \in [Scopes -> Nat]
  /\ lost \in BOOLEAN

(* Somebody is about to call ensure_supervisors.                           *)
EnsureOwed == toEnsure # {} \/ \E s \in Scopes : exits[s] > 0

(* No subscription is forgotten between a supervisor that ends and the next  *)
(* one: without a live token on its connection, a check is still to come.   *)
NoOrphan ==
  ~lost => \A i \in registered : pc[ScopeOf(i)] # "off" \/ EnsureOwed

(* Somebody is about to wake every supervisor.                             *)
WakeupOwed == toPublish # {}

(* The shared connection: once its document no longer fits, it has a change  *)
(* to look at, or is about to get one.                                     *)
SharedIsWoken ==
  pc[Shared] \in Connected /\ ReconnectNeeded(Shared)
    => Shared \in notified \/ WakeupOwed \/ Live(Shared) \cap resync \cap moving # {}

(* The hub ended the subscription and its stream is still held.  A running   *)
(* connection of its own can find that only when the connection it moved     *)
(* from ended it (end_connected, or a request that could not be built):      *)
(* those end slots without publishing anything.                            *)
EndedByFormer(i) == i \notin registered /\ consumer[i] = "polled"

OwnAreWoken ==
  \A i \in Slots :
    pc[i] \in Connected /\ ReconnectNeeded(i)
      => i \in notified \/ WakeupOwed \/ EndedByFormer(i)

(* A connection, shared or own, whose document no longer fits its            *)
(* subscriptions, or that owes one of them a replay, has a change to look at *)
(* or is about to get one: no wake-up is lost between the state lock and the *)
(* watch channel.  One case is excepted and not promised: a subscription     *)
(* that moved and is then ended by its former connection leaves its own      *)
(* connection driven and unwoken until the stream is dropped.              *)
StaleConnectionIsWoken == SharedIsWoken /\ OwnAreWoken

(* Every registered subscription is on a driven connection at some point,    *)
(* unless it ends first or its tasks died with their runtime.              *)
Served ==
  \A i \in Slots :
    i \in registered ~>
      \/ i \notin registered \/ lost
      \/ pc[ScopeOf(i)] = "drive" /\ i \in carried[ScopeOf(i)]

(* A requested replay comes: a connection that never falls silent cannot     *)
(* postpone it.                                                            *)
ResyncHonoured == \A i \in Slots : i \in resync ~> i \notin resync \/ lost

(* The shared connection closes once no subscription is left on it.        *)
SharedConnectionCloses ==
  (pc[Shared] # "off" /\ Live(Shared) = {})
    ~> (pc[Shared] = "off" \/ Live(Shared) # {})

(* What the configuration promises when streams are not recreated: a         *)
(* subscription the hub has ended terminates its stream.                   *)
EndedStreamTerminates ==
  \A i \in Slots :
    (consumer[i] = "polled" /\ i \notin registered) ~> consumer[i] = "done"
=============================================================================
