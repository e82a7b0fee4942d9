----------------------------- MODULE TestClient -----------------------------
(***************************************************************************)
(* The in-memory client for tests (client/src/client/testing/mod.rs): one  *)
(* state behind a lock, simulated transactions that change it under the    *)
(* write lock and broadcast the difference, and the streams, each of which *)
(* is a copy of the state followed by the broadcasts it hears.             *)
(*                                                                         *)
(* The state is a table of collections; what is absent has the value Absent, *)
(* so an event is a key with its new value, and a consumer is the table it *)
(* rebuilds from its copy and its events.  Handles are clones that share all *)
(* of this.                                                                *)
(***************************************************************************)
EXTENDS Naturals, Sequences, FiniteSets, FiniteSetsExt, Functions, SequencesExt

CONSTANTS
  Keys,         (* the keys of each collection                              *)
  Initial,      (* the states a client is constructed with                  *)
  Source,       (* the account a channel starts from                        *)
  Destination,  (* the account it leads to                                  *)
  Values,       (* the values the entries of each collection may have        *)
  Subscribers,  (* the streams that may be open at a time                   *)
  Updaters,     (* the threads that call update_price_and_win_prob          *)
  TxIds,        (* the transactions a client submits to track               *)
  Foreign,      (* an id of an active transaction that no client submitted   *)
  Capacity,     (* of a broadcast channel: 1024 in the code                 *)
  MaxChanges    (* bound on the calls that may change the state             *)

Collections == {"accounts", "channels", "safes", "services", "service_types",
                "ticket_params", "registry_config", "balances"}

(* Accounts, channels, the balances and allowances (one collection here) and *)
(* service types may not become fewer.                                     *)
Guarded == {"accounts", "channels", "balances", "service_types"}

(* Of these there is exactly one, and it is never absent.                  *)
Single == {"ticket_params", "registry_config"}

ASSUME TestClientAssumption ==
  /\ DOMAIN Keys = Collections
  /\ \A c \in Collections : IsFiniteSet(Keys[c])
  /\ \A c \in Single : Cardinality(Keys[c]) = 1
  /\ Source \in [Keys["channels"] -> Keys["accounts"]]
  /\ Destination \in [Keys["channels"] -> Keys["accounts"]]
  /\ Foreign \notin TxIds /\ Capacity \in Nat \ {0} /\ MaxChanges \in Nat

Absent == [absent |-> TRUE]

(* An account is announced by its safe and its addresses, not by the rest; *)
(* one event is sent for each field of a service type that changes.        *)
ASSUME ValuesAssumption ==
  /\ DOMAIN Values = Collections
  /\ \A v \in Values["accounts"] : DOMAIN v = {"safe", "rest"}
  /\ \A v \in Values["service_types"] : v = [owner |-> v.owner, terms |-> v.terms]
  /\ \A v \in Values["ticket_params"] : DOMAIN v = {"price", "probability"}
  /\ \A c \in Collections : Absent \notin Values[c]

ValuesOf(c) == Values[c] \cup (IF c \in Single THEN {} ELSE {Absent})

Contents(c) == [Keys[c] -> ValuesOf(c)]
IsState(s)  == DOMAIN s = Collections /\ \A c \in Collections : s[c] \in Contents(c)

ASSUME InitialAssumption == \A s \in Initial : IsState(s)

-----------------------------------------------------------------------------
(* The difference of two states, as simulate_tx_execution broadcasts it.   *)

Present(s, c) == {k \in Keys[c] : s[c][k] # Absent}

(* The part of a value that a change of is broadcast.                      *)
Seen(c, v) == IF c = "accounts" /\ v # Absent THEN [safe |-> v.safe] ELSE v

Changed(c, old, new) == {k \in Keys[c] : Seen(c, old[c][k]) # Seen(c, new[c][k])}

(* A channel is broadcast with its two accounts, or not at all.            *)
HasEndpoints(s, k) == {Source[k], Destination[k]} \subseteq Present(s, "accounts")

(* New entries and changed ones.  One variant forgets those that changed, the *)
(* other does not compare the winning probability.                         *)
UpsertedNewOnly(c, old, new) == Present(new, c) \ Present(old, c)
UpsertedByPrice(c, old, new) ==
  {k \in Changed(c, old, new) \cap Present(new, c) :
     /\ c = "channels" => HasEndpoints(new, k)
     /\ c = "ticket_params" => old[c][k].price # new[c][k].price}
Upserted(c, old, new) ==
  {k \in Changed(c, old, new) \cap Present(new, c) :
     c = "channels" => HasEndpoints(new, k)}

(* Only the registry of services announces that an entry is gone.          *)
Deregistered(c, old, new) ==
  IF c = "services" THEN Changed(c, old, new) \ Present(new, c) ELSE {}

(* What is sent of an entry: one event for each field of a service type that *)
(* changed, one event for all else.                                        *)
Kinds(c, old, new) ==
  IF c = "service_types" /\ old # Absent THEN {f \in DOMAIN new : old[f] # new[f]}
  ELSE {"whole"}
Sent(c, old, new) ==
  UNION {{k} \X Kinds(c, old[c][k], new[c][k]) : k \in Upserted(c, old, new)}

Event(k, v) == [key |-> k, value |-> v]

(* Removals first; the order of entries is that of a map.                  *)
Events(c, old, new) ==
  LET removals == SetToSeq(Deregistered(c, old, new))
      sent     == SetToSeq(Sent(c, old, new))
  IN  [i \in DOMAIN removals |-> Event(removals[i], Absent)]
        \o [i \in DOMAIN sent |-> Event(sent[i][1], new[c][sent[i][1]])]

-----------------------------------------------------------------------------
VARIABLES
  state,    (* BlokliTestState, but for active_txs                           *)
  active,   (* active_txs                                                   *)
  subs,     (* the streams: what they follow and have not delivered yet      *)
  pending,  (* what an updater wrote and has not broadcast yet               *)
  fate,     (* history: what became of a submitted transaction               *)
  told,     (* history: what the trackers of a transaction were told         *)
  excuse,   (* history: why a stream may differ from the state at a key      *)
  changes   (* counts the calls that may change the state                    *)

vars == <<state, active, subs, pending, fate, told, excuse, changes>>

Streams == {"accounts", "channels", "graph", "safes", "services", "service_types",
            "ticket_params", "registry_config"}
Follows(stream) == IF stream = "graph" THEN "channels" ELSE stream

(* These streams activate their receiver before they release the read lock. *)
Locked == {"services", "service_types", "registry_config"}

(* A stream is opened once; another is another one of Subscribers.         *)
Idle     == [phase |-> "idle"]
Open(s)  == subs[s].phase \in {"snapshot", "live"}
About(s) == Follows(subs[s].stream)

None == "none"
NoExcuse == [k \in UNION {Keys[c] : c \in Collections} |-> None]

Init ==
  /\ state \in Initial
  /\ active = [t \in {} |-> None]
  /\ subs = [s \in Subscribers |-> Idle]
  /\ pending = [u \in Updaters |-> Absent]
  /\ fate = [t \in TxIds |-> None]
  /\ told = [t \in TxIds \cup {Foreign} |-> <<>>]
  /\ excuse = [s \in Subscribers |-> NoExcuse]
  /\ changes = 0

-----------------------------------------------------------------------------
(* Broadcasting.  A message stays in the channel until every live receiver *)
(* took it, so the slowest stream decides whether there is room; what does *)
(* not fit is logged and lost for all.  Without receivers nothing is kept. *)

Live(c) == {s \in Subscribers : subs[s].phase = "live" /\ About(s) = c}

Room(c) == Capacity - Max({0} \cup {Len(subs[s].inbox) : s \in Live(c)})

(* The variant has a channel without bound.                                *)
AcceptedUnbounded(c, events) == events
Accepted(c, events) == SubSeq(events, 1, Min({Len(events), Room(c)}))

Broadcast(events) ==  (* one sequence of events for each collection *)
  [s \in Subscribers |->
     IF subs[s].phase = "live"
     THEN [subs[s] EXCEPT !.inbox = @ \o Accepted(About(s), events[About(s)])]
     ELSE subs[s]]

KeysIn(events) == {events[i].key : i \in DOMAIN events}

(* History: why stream s will not show the change of k, if it will not.    *)
Cause(s, new, events, k) ==
  LET c == About(s)
  IN  IF subs[s].phase = "snapshot" THEN "before activation"
      ELSE IF k \in KeysIn(Accepted(c, events[c])) THEN None
      ELSE IF k \in KeysIn(events[c]) THEN "channel full"
      ELSE IF k \notin Present(new, c) THEN "removed"
      ELSE IF c = "channels" /\ ~HasEndpoints(new, k) THEN "endpoint missing"
      ELSE "not sent"

Explained(s, new, events) ==
  [k \in DOMAIN excuse[s] |->
     IF Open(s) /\ k \in Changed(About(s), state, new)
     THEN Cause(s, new, events, k) ELSE excuse[s][k]]

-----------------------------------------------------------------------------
(* Transactions.  The mutator is the user's: it may fail, in a way that    *)
(* stands for an internal transaction or in another, or return any state.  *)
(* Two bounds: it changes two entries at most, and of collections that matter *)
(* to an open stream.  Of active_txs it may drop an entry or put another one *)
(* in its place.                                                           *)

Relevant == {"balances"} \cup
  UNION {{About(s)} \cup (IF About(s) = "channels" THEN {"accounts"} ELSE {}) :
           s \in {r \in Subscribers : Open(r)}}

WithEntry(s, c) ==
  UNION {{[s EXCEPT ![c][k] = v] : v \in ValuesOf(c)} : k \in Keys[c]}

Mutations ==
  LET OneChanged(s) == UNION {WithEntry(s, c) : c \in Relevant}
  IN  UNION {OneChanged(s) : s \in OneChanged(state)}

ActiveMutations ==
  {active} \cup {Restrict(active, DOMAIN active \ {t}) : t \in DOMAIN active}
    \cup {[u \in (DOMAIN active \ {t}) \cup {Foreign} |->
             IF u = Foreign THEN active[t] ELSE active[u]] : t \in DOMAIN active}

Verdicts == {"ok", "internal error", "error"}

(* What the mutator returns: its verdict, the state and active_txs.  What it *)
(* leaves behind when it fails does not matter.                            *)
Mutated ==
  [verdict : Verdicts \ {"ok"}, state : {state}, active : {active}]
    \cup [verdict : {"ok"}, state : Mutations, active : ActiveMutations]

(* The variant does not count the active transactions.                     *)
ConsistentState(new) ==
  \A c \in Guarded :
    Cardinality(Present(new.state, c)) >= Cardinality(Present(state, c))
(* The consistency checks count; they do not compare keys.                 *)
Consistent(new) ==
  /\ \A c \in Guarded :
       Cardinality(Present(new.state, c)) >= Cardinality(Present(state, c))
  /\ Cardinality(DOMAIN new.active) >= Cardinality(DOMAIN active)

Succeeds(new) == new.verdict = "ok" /\ Consistent(new)

Apply(new) ==
  LET events == [c \in Collections |-> Events(c, state, new)]
  IN  /\ state' = new
      /\ subs' = Broadcast(events)
      /\ excuse' = [s \in Subscribers |-> Explained(s, new, events)]

(* simulate_tx_execution: all of it, or nothing.  The variant does not restore *)
(* the state when a consistency check fails.                               *)
ExecuteWithoutRestoring(new) ==
  IF new.verdict = "ok" THEN Apply(new.state) ELSE UNCHANGED <<state, subs, excuse>>
Execute(new) ==
  IF Succeeds(new) THEN Apply(new.state) ELSE UNCHANGED <<state, subs, excuse>>

Change == changes < MaxChanges /\ changes' = changes + 1

-----------------------------------------------------------------------------
(* submit_transaction, and submit_and_confirm_transaction, which sleeps    *)
(* first.  They differ in whether the caller learns of a failure.          *)
Submit ==
  /\ Change
  /\ \E new \in Mutated :
       /\ Execute(new)
       /\ active' = IF Succeeds(new) THEN new.active ELSE active
  /\ UNCHANGED <<pending, fate, told>>

(* The receipt a submission leaves.  An error of the mutator that stands for *)
(* an internal transaction leaves the outer one confirmed, if the handle was *)
(* built to simulate those.                                                *)
Outcome(internal, verdict, success) ==
  LET confirmed == success \/ (internal /\ verdict = "internal error")
  IN  [status |-> IF confirmed THEN "Confirmed" ELSE "Reverted",
       safe   |-> IF ~internal \/ ~confirmed           THEN "none"
                  ELSE IF verdict = "internal error" THEN "failed"
                  ELSE "succeeded"]

SubmitAndTrack(t) ==
  /\ Change
  /\ fate[t] = None
  /\ \E new \in Mutated, internal \in BOOLEAN :
       LET success == Succeeds(new)
           kept    == IF success THEN new.active ELSE active
       IN
       /\ Execute(new)
       /\ active' = [u \in DOMAIN kept \cup {t} |->
                       IF u = t THEN Outcome(internal, new.verdict, success) ELSE kept[u]]
       /\ fate' = [fate EXCEPT ![t] = IF success THEN "applied" ELSE "reverted"]
  /\ UNCHANGED <<pending, told>>

(* track_transaction, which sleeps first, and subscribe_track_transaction  *)
(* take the transaction away; another tracker finds no data.  The variant  *)
(* leaves it in place.                                                     *)
TrackInPlace(t) ==
  /\ t \in DOMAIN active
  /\ told' = [told EXCEPT ![t] = Append(@, active[t])]
  /\ UNCHANGED <<state, active, subs, pending, fate, excuse, changes>>
Track(t) ==
  /\ t \in DOMAIN active
  /\ active' = Restrict(active, DOMAIN active \ {t})
  /\ told' = [told EXCEPT ![t] = Append(@, active[t])]
  /\ UNCHANGED <<state, subs, pending, fate, excuse, changes>>

-----------------------------------------------------------------------------
(* Changes without a transaction.                                          *)

(* update_price_and_win_prob writes under the lock ...                     *)
WriteTicketParams(u) ==
  /\ Change
  /\ "ticket_params" \in Relevant
  /\ pending[u] = Absent
  /\ \E new \in Values["ticket_params"] :
       /\ state' = [state EXCEPT !["ticket_params"] = [k \in DOMAIN @ |-> new]]
       /\ pending' = [pending EXCEPT ![u] = new]
  /\ UNCHANGED <<active, subs, fate, told, excuse>>

(* ... and broadcasts what it wrote after it released the lock.            *)
BroadcastTicketParams(u) ==
  LET c == "ticket_params"
      events == [d \in Collections |->
                   IF d = c THEN SetToSeq({Event(k, pending[u]) : k \in Keys[c]}) ELSE <<>>]
      verdict(s, k) ==
        IF Cause(s, state, events, k) = None /\ state[c][k] # pending[u]
        THEN "overtaken" ELSE Cause(s, state, events, k)
  IN  /\ pending[u] # Absent
      /\ pending' = [pending EXCEPT ![u] = Absent]
      /\ subs' = Broadcast(events)
      /\ excuse' = [s \in Subscribers |-> [k \in DOMAIN excuse[s] |->
                      IF Open(s) /\ About(s) = c /\ k \in Keys[c]
                      THEN verdict(s, k) ELSE excuse[s][k]]]
      /\ UNCHANGED <<state, active, fate, told, changes>>

(* hidden_state_update broadcasts nothing.                                 *)
HiddenStateUpdate ==
  /\ Change
  /\ \E new \in Mutations :
       /\ state' = new
       /\ excuse' = [s \in Subscribers |-> [k \in DOMAIN excuse[s] |->
                      IF Open(s) /\ k \in Changed(About(s), state, new)
                      THEN "hidden" ELSE excuse[s][k]]]
  /\ UNCHANGED <<active, subs, pending, fate, told>>

-----------------------------------------------------------------------------
(* Streams.                                                                *)

Selections(stream) ==
  {Keys[Follows(stream)]} \cup
    (IF stream \in {"accounts", "channels", "services", "service_types"}
     THEN {{k} : k \in Keys[stream]} ELSE {})

(* The graph cannot show a channel without its accounts: an error stands for *)
(* it in the stream.                                                       *)
Shown(stream, k) == stream = "graph" => HasEndpoints(state, k)

(* The variant releases the lock before it activates the receiver.         *)
FirstPhaseUnlocked(stream) == "snapshot"
FirstPhase(stream) == IF stream \in Locked THEN "live" ELSE "snapshot"

(* The copy, under the read lock.  Some streams also activate their receiver *)
(* under it.  A bound: all streams follow the same collection, for those that *)
(* do not share nothing but the lock.                                      *)
Subscribe(s, stream, selection) ==
  LET c == Follows(stream) IN
  /\ subs[s] = Idle
  /\ \A r \in Subscribers : subs[r] # Idle => About(r) = c
  /\ subs' = [subs EXCEPT ![s] =
       [phase  |-> FirstPhase(stream), stream |-> stream,
        selection |-> selection, inbox |-> <<>>,
        view   |-> [k \in Keys[c] |-> IF k \in selection /\ Shown(stream, k)
                                     THEN state[c][k] ELSE Absent]]]
  /\ excuse' = [excuse EXCEPT ![s] = [k \in DOMAIN @ |->
       IF k \in Present(state, c) /\ ~Shown(stream, k) THEN "endpoint missing" ELSE None]]
  /\ UNCHANGED <<state, active, pending, fate, told, changes>>

(* activate_cloned: from here on the stream hears what is broadcast.       *)
Activate(s) ==
  /\ subs[s].phase = "snapshot"
  /\ subs' = [subs EXCEPT ![s].phase = "live"]
  /\ UNCHANGED <<state, active, pending, fate, told, excuse, changes>>

Show(sub, event) ==
  IF event.key \in sub.selection
  THEN [sub EXCEPT !.view[event.key] = event.value] ELSE sub

(* The consumer polls: its filter passes the event on or swallows it.      *)
Receive(s) ==
  /\ subs[s].phase = "live" /\ subs[s].inbox # <<>>
  /\ subs' = [subs EXCEPT ![s] =
       [Show(subs[s], Head(subs[s].inbox)) EXCEPT !.inbox = Tail(@)]]
  /\ UNCHANGED <<state, active, pending, fate, told, excuse, changes>>

Close(s) ==
  /\ Open(s)
  /\ subs' = [subs EXCEPT ![s] = [phase |-> "closed", stream |-> @.stream]]
  /\ excuse' = [excuse EXCEPT ![s] = NoExcuse]
  /\ UNCHANGED <<state, active, pending, fate, told, changes>>

Next ==
  \/ Submit
  \/ HiddenStateUpdate
  \/ \E t \in TxIds : SubmitAndTrack(t)
  \/ \E t \in TxIds \cup {Foreign} : Track(t)
  \/ \E u \in Updaters : WriteTicketParams(u) \/ BroadcastTicketParams(u)
  \/ \E s \in Subscribers :
       \/ \E stream \in Streams : \E selection \in Selections(stream) :
            Subscribe(s, stream, selection)
       \/ Activate(s) \/ Receive(s) \/ Close(s)

Spec == Init /\ [][Next]_vars

-----------------------------------------------------------------------------
(* What k will be once the stream delivered what it holds.                 *)
Replay(sub, k) ==
  LET about == {i \in DOMAIN sub.inbox : sub.inbox[i].key = k}
  IN  IF k \in sub.selection /\ about # {} THEN sub.inbox[Max(about)].value ELSE sub.view[k]

(* The keys at which stream s would then still differ from the state.      *)
Differs(s) ==
  {k \in subs[s].selection :
     Seen(About(s), Replay(subs[s], k)) # Seen(About(s), state[About(s)][k])}

DiffersOnlyFor(s, reasons) == \A k \in Differs(s) : excuse[s][k] \in reasons

Reasons == {"before activation", "channel full", "removed", "endpoint missing",
            "overtaken", "hidden", "not sent"}

(* The variables keep their types, and no broadcast channel holds more than *)
(* its capacity for any receiver (BlokliTestClient::new).                  *)
TypeOK ==
  /\ IsState(state)
  /\ \A t \in DOMAIN active :
       /\ t \in TxIds \cup {Foreign}
       /\ active[t] \in [status : {"Confirmed", "Reverted"},
                         safe : {"none", "succeeded", "failed"}]
  /\ \A s \in Subscribers : Open(s) =>
       /\ subs[s].phase \in {"snapshot", "live"} /\ subs[s].stream \in Streams
       /\ subs[s].view \in [Keys[About(s)] -> ValuesOf(About(s)) \cup {Absent}]
       /\ Len(subs[s].inbox) <= Capacity
       /\ subs[s].phase = "snapshot" => subs[s].inbox = <<>>
  /\ \A u \in Updaters : pending[u] \in Values["ticket_params"] \cup {Absent}
  /\ \A t \in TxIds : fate[t] \in {None, "applied", "reverted"}
  /\ \A s \in Subscribers : \A k \in DOMAIN excuse[s] : excuse[s][k] \in Reasons \cup {None}

(* A stream that activates its receiver under the read lock misses nothing *)
(* between its copy and its updates, in whatever order subscriptions,      *)
(* transactions and consumers run: it can differ from the registry only by *)
(* what overflowed, what was hidden, and a service type that was exchanged *)
(* for another (subscribe_services, subscribe_service_types,               *)
(* subscribe_service_registry_config).                                     *)
LockedStreamsMissNothing ==
  \A s \in Subscribers : Open(s) /\ subs[s].stream \in Locked =>
    DiffersOnlyFor(s, {"channel full", "hidden"}
      \cup (IF subs[s].stream = "service_types" THEN {"removed"} ELSE {}))

(* The other streams may also miss what changed between their copy and the *)
(* activation, but nothing else that simulate_tx_execution sends: the channel *)
(* streams lose channels whose accounts are not there, and no stream but that *)
(* of the services learns of removals.                                     *)
OtherStreamsMissOnlyTheGap ==
  \A s \in Subscribers : Open(s) /\ subs[s].stream \notin Locked \cup {"ticket_params"} =>
    DiffersOnlyFor(s, {"channel full", "hidden", "removed", "before activation"}
      \cup (IF About(s) = "channels" THEN {"endpoint missing"} ELSE {}))

(* While no call of update_price_and_win_prob is between its write and its *)
(* broadcast, a stream of ticket parameters shows the current ones, unless *)
(* the broadcast it heard last was overtaken by another write.             *)
TicketParamsSettle ==
  (\A u \in Updaters : pending[u] = Absent) =>
    \A s \in Subscribers : Open(s) /\ subs[s].stream = "ticket_params" =>
      DiffersOnlyFor(s, {"channel full", "hidden", "before activation", "overtaken"})

(* A transaction is told to one tracker at most, whichever of the two ways of *)
(* tracking compete for it, and what is told is true: it was confirmed, with *)
(* no failure inside, exactly if its changes were applied.                 *)
ToldOnceAndTruly ==
  \A t \in TxIds :
    /\ Len(told[t]) + (IF t \in DOMAIN active THEN 1 ELSE 0) <= 1
    /\ told[t] # <<>> =>
         (told[t][1].status = "Confirmed" /\ told[t][1].safe # "failed" <=> fate[t] = "applied")

Tellings == UNION {{t} \X DOMAIN told[t] : t \in TxIds \cup {Foreign}}

(* Mutators may exchange active transactions but not make them fewer: there *)
(* is one to track, or one was tracked, for every transaction submitted.   *)
NoTransactionLost ==
  Cardinality(DOMAIN active) + Cardinality(Tellings)
    >= Cardinality({t \in TxIds : fate[t] # None})

(* A transaction that is reported as reverted left no trace: the state is as *)
(* it was, and no stream heard of what the mutator had done before it failed *)
(* or a consistency check refused it (simulate_tx_execution).              *)
RevertLeavesNoTrace ==
  [][\A t \in TxIds : fate[t] = None /\ fate'[t] = "reverted" =>
       /\ state' = state /\ subs' = subs
       /\ DOMAIN active' = DOMAIN active \cup {t}]_vars
=============================================================================
