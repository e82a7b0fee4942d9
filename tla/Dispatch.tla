------------------------------ MODULE Dispatch ------------------------------
(***************************************************************************)
(* What one frame does to the subscriptions of a connection (client/src     *)
(* /client/subscription_hub.rs): route splits it by alias, dispatch delivers *)
(* the parts, feeds the health of every subscription on the connection and   *)
(* moves those that fail onto connections of their own.  The shared          *)
(* connection and the own ones dispatch in parallel, part by part; consumers *)
(* read, fall behind, move away and leave meanwhile.                        *)
(* What one part does is one step here; Delivery takes a delivery apart and  *)
(* Supervision the tasks.  Instants are not told apart: Health has a clock.  *)
(***************************************************************************)
EXTENDS HealthTracker, Sequences, FiniteSets

CONSTANTS
  Slots,      (* subscriptions that are registered                         *)
  Shared,     (* Scope::Shared; Scope::Isolated(i) is written i            *)
  Capacity,   (* SLOT_CHANNEL_CAPACITY                                     *)
  MaxInputs   (* bound on frames, refusals, failures and silences          *)

ASSUME DispatchAssumption ==
  /\ IsFiniteSet(Slots) /\ Shared \notin Slots
  /\ Capacity \in Nat \ {0} /\ MaxInputs \in Nat

Scopes == Slots \cup {Shared}
Now == 0

(* What a frame says under an alias.  A null that is a valid payload and     *)
(* comes without errors is as good as any other payload.                   *)
Part == {"absent", "null", "good", "bad"}
Event == {"data", "error"}

(* What is left of a frame: slots whose payload decodes or does not, slots   *)
(* with errors of their own, and what the locals of dispatch say so far.    *)
Work ==
  [ busy : BOOLEAN, good : SUBSET Slots, bad : SUBSET Slots, refused : SUBSET Slots,
    failed : SUBSET Slots, hadPayloads : BOOLEAN, document : BOOLEAN, again : BOOLEAN ]

VARIABLES
  tracker,   (* per slot, its HealthTracker; Ended once it is deregistered  *)
  isolated,  (* slots whose entry has `isolated` set                       *)
  resync,    (* slots whose entry has `resync` set                         *)
  queue,     (* per slot, its channel                                      *)
  lagging,   (* slots whose `lagging` flag is set                          *)
  targets,   (* per connection, the slots of its aliases; none while closed *)
  work,      (* per connection, the frame it dispatches                    *)
  inputs,    (* counts them                                               *)
  told       (* history: slots sent an error, with no sign of life since    *)

entries == <<isolated, resync>>
streams == <<queue, lagging>>
vars    == <<tracker, entries, streams, targets, work, inputs, told>>

Idle == [ busy |-> FALSE, good |-> {}, bad |-> {}, refused |-> {}, failed |-> {},
          hadPayloads |-> FALSE, document |-> FALSE, again |-> FALSE ]

Init ==
  /\ tracker = [i \in Slots |-> NewTracker(Now)]
  /\ isolated = {} /\ resync = {}
  /\ queue = [i \in Slots |-> <<>>] /\ lagging = {}
  /\ targets = [s \in Scopes |-> {}]
  /\ work = [s \in Scopes |-> Idle]
  /\ inputs = 0 /\ told = {}
-----------------------------------------------------------------------------
(* The state of the hub.                                                   *)
Registered == {i \in Slots : tracker[i].status # "Ended"}

(* belongs_to, after a variant that forgets who moved away.                *)
BelongsByAlias(i, s) == i \in Registered /\ s \in {Shared, i}

Belongs(i, s) == i \in Registered /\ s = (IF i \in isolated THEN i ELSE Shared)

Live(s) == {i \in Slots : Belongs(i, s)}

(* What a connection may report to the health of a slot.                   *)
Apply(report, h) ==
  CASE report = "connected" -> Connected(h, Now)
    [] report = "activity"  -> TransportActivity(h, Now)
    [] report = "data"      -> DataUpdate(h, Now)
    [] report = "problem"   -> Problem(h, Now)
    [] report = "refusal"   -> Reject(h, Now)
    [] report = "lag"       -> Lagging(h, Now)
    [] report = "caught up" -> CaughtUp(h)

(* with_health: a report reaches the slots that are still on the connection. *)
WithHealth(trackers, s, ids, report) ==
  [i \in Slots |-> IF i \in ids /\ Belongs(i, s) THEN Apply(report, trackers[i])
                                                ELSE trackers[i]]

(* isolate, after a variant that does not look whether the slot is still    *)
(* there.                                                                  *)
MoveAwayUnchecked(ids) == isolated' = isolated \cup ids

MoveAway(ids) == isolated' = isolated \cup (ids \cap Registered)

(* deliver gives up when the queue of a slot on the shared connection is     *)
(* full, and waits on any other connection; the receiver of a slot that      *)
(* left is gone.                                                           *)
HasRoom(i) == i \in Registered /\ Len(queue[i]) < Capacity
Full(i) == i \in Registered /\ Len(queue[i]) = Capacity

CanDeliver(s, ids) == s = Shared \/ \A i \in ids : ~Full(i)

Deliver(ids, event) ==
  /\ queue' = [i \in Slots |-> IF i \in ids /\ HasRoom(i)
                               THEN Append(queue[i], event) ELSE queue[i]]
  /\ lagging' = lagging \cup {i \in ids : Full(i)}

(* The slots among ids for which an event is dropped and their health told.  *)
Falls(ids) == {i \in ids \ lagging : Full(i)}

(* The slots for which a refusal is news; the variant tells everyone.      *)
EveryoneRefused(s, ids) == {i \in ids : Belongs(i, s)}

FirstRefused(s, ids) == {i \in ids : Belongs(i, s) /\ FirstRefusal(tracker[i])}

(* reject, and the delivery of the error to those slots.                   *)
Refuse(s, ids) ==
  LET first == FirstRefused(s, ids)
  IN  /\ CanDeliver(s, first)
      /\ tracker' = WithHealth(WithHealth(tracker, s, ids, "refusal"), s, Falls(first), "lag")
      /\ Deliver(first, "error")
      /\ told' = told \cup first
-----------------------------------------------------------------------------
(* route.                                                                  *)

(* The frames that a connection may bring: what it says under each alias,    *)
(* which aliases have errors of their own, and whether there are others.     *)
Frames(s) ==
  [parts : [targets[s] -> Part], errors : SUBSET targets[s], document : BOOLEAN]

IsVoid(f) == f.errors = {} /\ ~f.document /\ \A i \in DOMAIN f.parts : f.parts[i] = "absent"

(* Data wins over errors, but a null with errors is no data.               *)
Payloads(f) ==
  {i \in DOMAIN f.parts :
     \/ f.parts[i] \in {"good", "bad"}
     \/ f.parts[i] = "null" /\ i \notin f.errors}

SlotErrors(f) == f.errors \ Payloads(f)

(* A frame is split; which slots it is for is read once.                   *)
Routed(s, f) ==
  [ busy        |-> TRUE,
    good        |-> {i \in Payloads(f) \cap Live(s) : f.parts[i] = "good"},
    bad         |-> {i \in Payloads(f) \cap Live(s) : f.parts[i] # "good"},
    refused     |-> SlotErrors(f) \cap Live(s),
    failed      |-> {},
    hadPayloads |-> Payloads(f) # {},
    document    |-> f.document,
    again       |-> FALSE ]
-----------------------------------------------------------------------------
(* A connection with nothing to dispatch.                                  *)
Listens(s) == targets[s] # {} /\ ~work[s].busy

Input == inputs < MaxInputs /\ inputs' = inputs + 1

(* Closes the connection; the supervisor opens the next one.               *)
Close(s) == targets' = [targets EXCEPT ![s] = {}]

(* prepare: the snapshot fulfils the resync requests.                      *)
Open(s) ==
  /\ targets[s] = {} /\ Live(s) # {}
  /\ targets' = [targets EXCEPT ![s] = Live(s)]
  /\ tracker' = WithHealth(tracker, s, resync, "caught up")
  /\ resync' = resync \ Live(s)
  /\ UNCHANGED <<isolated, streams, work, told, inputs>>

ServerAccepts(s) ==
  /\ Listens(s)
  /\ tracker' = WithHealth(tracker, s, targets[s], "connected")
  /\ UNCHANGED <<entries, streams, targets, work, told, inputs>>

Keepalive(s) ==
  /\ Listens(s)
  /\ tracker' = WithHealth(tracker, s, targets[s], "activity")
  /\ told' = told \ Live(s)
  /\ UNCHANGED <<entries, streams, targets, work, inputs>>

(* An HTTP status that refuses the request.                                *)
ServerRefuses(s) ==
  /\ Listens(s) /\ Input
  /\ Refuse(s, targets[s])
  /\ Close(s)
  /\ UNCHANGED <<entries, work>>

(* Another transport error, after which the connection is kept or replaced,  *)
(* or a frame that does not parse or is void, after which it is replaced.    *)
ConnectionFails(s) ==
  /\ Listens(s) /\ Input
  /\ tracker' = WithHealth(tracker, s, targets[s], "problem")
  /\ Close(s) \/ UNCHANGED targets
  /\ UNCHANGED <<entries, streams, work, told>>

(* The document does not fit any more, or the server ended the response.     *)
ConnectionEnds(s) ==
  /\ Listens(s)
  /\ Close(s)
  /\ UNCHANGED <<tracker, entries, streams, work, told, inputs>>

(* mark_stalled, which runs while a connection listens.                    *)
DeadlinePasses(s) ==
  /\ Listens(s) /\ Input
  /\ \E i \in Live(s) :
       /\ HasStallDeadline(tracker[i])
       /\ tracker' = [tracker EXCEPT ![i] = Stall(@, Now)]
  /\ UNCHANGED <<entries, streams, targets, work, told>>

FrameArrives(s) ==
  /\ Listens(s) /\ Input
  /\ \E f \in Frames(s) : ~IsVoid(f) /\ work' = [work EXCEPT ![s] = Routed(s, f)]
  /\ UNCHANGED <<tracker, entries, streams, targets, told>>
-----------------------------------------------------------------------------
(* The parts of a frame.                                                   *)

PayloadArrives(s, i) ==
  /\ i \in work[s].good
  /\ CanDeliver(s, {i})
  /\ Deliver({i}, "data")
  /\ tracker' = IF HasRoom(i) THEN WithHealth(tracker, s, {i}, "data")
                ELSE WithHealth(tracker, s, Falls({i}), "lag")
  /\ told' = IF HasRoom(i) /\ Belongs(i, s) THEN told \ {i} ELSE told
  /\ work' = [work EXCEPT ![s].good = @ \ {i}]
  /\ UNCHANGED <<entries, targets, inputs>>

(* A payload that does not decode.                                         *)
PayloadFails(s, i) ==
  /\ i \in work[s].bad
  /\ tracker' = WithHealth(tracker, s, {i}, "problem")
  /\ IF s = Shared THEN MoveAway({i}) ELSE UNCHANGED isolated
  /\ work' = [work EXCEPT ![s].bad = @ \ {i}, ![s].failed = @ \cup {i},
                          ![s].again = @ \/ s # Shared]
  /\ UNCHANGED <<resync, streams, targets, told, inputs>>

(* Errors of one slot, after all payloads.                                 *)
SlotRefused(s, i) ==
  /\ work[s].good \cup work[s].bad = {} /\ i \in work[s].refused
  /\ Refuse(s, {i})
  /\ IF s = Shared THEN MoveAway({i}) ELSE UNCHANGED isolated
  /\ work' = [work EXCEPT ![s].refused = @ \ {i}, ![s].failed = @ \cup {i},
                          ![s].again = @ \/ s # Shared]
  /\ UNCHANGED <<resync, targets, inputs>>

Done(s) == work[s].busy /\ work[s].good \cup work[s].bad \cup work[s].refused = {}

(* The frame was a sign of life for everyone on the connection whose part of *)
(* it did not fail.                                                        *)
SignOfLife(s) ==
  LET alive == targets[s] \ work[s].failed
  IN  /\ Done(s)
      /\ work[s].hadPayloads \/ ~work[s].document
      /\ tracker' = WithHealth(tracker, s, alive, "activity")
      /\ told' = told \ (alive \cap Live(s))
      /\ IF work[s].again THEN Close(s) ELSE UNCHANGED targets
      /\ work' = [work EXCEPT ![s] = Idle]
      /\ UNCHANGED <<entries, streams, inputs>>

(* Errors that belong to no slot, in a frame without payloads.             *)
DocumentRefused(s) ==
  /\ Done(s)
  /\ ~work[s].hadPayloads /\ work[s].document
  /\ Refuse(s, targets[s])
  /\ Close(s)
  /\ work' = [work EXCEPT ![s] = Idle]
  /\ UNCHANGED <<entries, inputs>>

Connection(s) ==
  \/ Open(s) \/ ServerAccepts(s) \/ Keepalive(s) \/ ServerRefuses(s)
  \/ ConnectionFails(s) \/ ConnectionEnds(s) \/ DeadlinePasses(s)

Dispatching(s) ==
  \/ FrameArrives(s)
  \/ \E i \in Slots : PayloadArrives(s, i) \/ PayloadFails(s, i) \/ SlotRefused(s, i)
  \/ SignOfLife(s) \/ DocumentRefused(s)
-----------------------------------------------------------------------------
(* Consumers.                                                              *)

(* poll_next; a slot that lost events moves away once its queue is drained.  *)
Take(i) ==
  /\ queue[i] # <<>>
  /\ queue' = [queue EXCEPT ![i] = Tail(@)]
  /\ IF queue'[i] = <<>> /\ i \in lagging
     THEN /\ lagging' = lagging \ {i}
          /\ resync' = resync \cup {i}
          /\ MoveAway({i})
     ELSE UNCHANGED <<lagging, entries>>
  /\ UNCHANGED <<tracker, targets, work, told, inputs>>

(* The stream is dropped, and its tracker with it.                         *)
Deregister(i) ==
  /\ i \in Registered
  /\ tracker' = [tracker EXCEPT ![i] = End(@, "Cancelled", Now)]
  /\ isolated' = isolated \ {i} /\ resync' = resync \ {i}
  /\ queue' = [queue EXCEPT ![i] = <<>>] /\ lagging' = lagging \ {i}
  /\ UNCHANGED <<targets, work, told, inputs>>

Next ==
  \/ \E s \in Scopes : Connection(s) \/ Dispatching(s)
  \/ \E i \in Slots : Take(i) \/ Deregister(i)

Spec == Init /\ [][Next]_vars
-----------------------------------------------------------------------------
(* The variables have their types, and no queue exceeds its capacity.      *)
TypeOK ==
  /\ tracker \in [Slots -> Tracker]
  /\ isolated \subseteq Registered
  /\ resync \subseteq isolated
  /\ queue \in [Slots -> Seq(Event)]
  /\ \A i \in Slots : Len(queue[i]) <= Capacity
  /\ lagging \subseteq Registered
  /\ targets \in [Scopes -> SUBSET Slots]
  /\ work \in [Scopes -> Work]
  /\ inputs \in Nat
  /\ told \subseteq Slots

(* A consumer is told of a refusal once: the next error comes only after a   *)
(* sign of life of its subscription, whichever connections it was refused on. *)
ToldOncePerRefusal ==
  [][\A i \in Slots : Len(queue'[i]) > Len(queue[i]) /\ queue'[i][Len(queue'[i])] = "error"
       => i \notin told]_vars

(* A refusal ends with traffic on the connection that carries the slot now,  *)
(* in a frame that does not refuse it again: neither the traffic of its       *)
(* former siblings nor the frame with the refusal counts.                  *)
RefusalEndsByOwnTraffic ==
  [][\A i \in Slots : tracker[i].status = "Rejected" /\ tracker'[i].status = "Recovered"
       => \E s \in Scopes :
            /\ s = (IF i \in isolated THEN i ELSE Shared) /\ i \in targets[s]
            /\ i \notin work[s].failed
            /\ Listens(s) \/ work'[s] # work[s]]_vars
=============================================================================
