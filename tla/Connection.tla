----------------------------- MODULE Connection -----------------------------
(***************************************************************************)
(* One supervisor and time (client/src/client/subscription_hub.rs): what    *)
(* its connection asks for, how long it waits before the next one, and when *)
(* silence is noticed.  Which tasks exist is left to Supervision, what is    *)
(* delivered to Delivery, and the parts of a frame to Dispatch: a slot that  *)
(* moves to a connection of its own leaves this one.                       *)
(*                                                                         *)
(* Time passes in ticks, and only when no step of the supervisor is due.    *)
(***************************************************************************)
EXTENDS Documents

CONSTANTS
  Slots,          (* slots that may register, by id                          *)
  Specs,          (* the spec of each                                       *)
  Scopes,         (* scopes of the supervisor: of AllScopes                  *)
  Settings,       (* restart delay, or Null, and stream_reconnect_timeout    *)
  MinDelay,       (* MIN_RECONNECTION_DELAY                                 *)
  DefaultDelay,   (* DEFAULT_MALFORMED_EVENT_DELAY                          *)
  FirstDelay,     (* the first wait after an error of a resumable request   *)
  Debounce,       (* SLOT_CHANGE_DEBOUNCE                                   *)
  MaxDebounce,    (* MAX_SLOT_CHANGE_WAIT                                   *)
  StallThreshold, (* subscription_stall_threshold                           *)
  MaxStale,       (* MAX_STALE_ALIASES                                      *)
  MaxQuiet,       (* bound: the longest silence that is told apart           *)
  MaxInARow       (* bound: as many failures in a row are told apart         *)

(* A shared one, the one of a hub with a single subscription, and one to      *)
(* which a slot moved for a cause.                                         *)
AllScopes == {"Shared", "Dedicated", "Rejected", "Malformed", "Lagged"}
OwnScopes == {"Rejected", "Malformed", "Lagged"}

ASSUME ConnectionAssumption ==
  /\ Slots \subseteq Nat /\ IsFiniteSet(Slots) /\ Scopes \subseteq AllScopes
  /\ Settings \subseteq [restart : Nat \cup {Null}, timeout : Nat]
  /\ MinDelay \in Nat \ {0} /\ DefaultDelay \in Nat \ {0} /\ FirstDelay \in Nat \ {0}
  /\ Debounce \in Nat \ {0} /\ MaxDebounce \in Nat /\ StallThreshold \in Nat
  /\ MaxStale \in Nat /\ MaxQuiet \in Nat /\ StallThreshold <= MaxQuiet
  /\ MaxInARow \in Nat \ {0}

(* Only cynic writes documents: each that can be split is well-formed.        *)
ASSUME DocumentsAssumption ==
  \A i \in Slots : SplitDocument(Specs[i].document) # Null => WellFormed(Specs[i])

VARIABLES
  cfg,      (* its scope and setting                                       *)
  slots,    (* each slot: "new", "live" or "gone"                          *)
  changed,  (* the generation has a change that was not seen                *)
  resync,   (* the slot of a connection of its own asks for a replay       *)
  pc,       (* "idle", "prepare", "debounce", "drive" or "wait"; in drive,  *)
            (* "delivering" or "telling" while send waits for the consumer  *)
  snapshot, (* the slots of the snapshot, and then of the connection        *)
  timer,    (* what is left of the wait or of the debounce                   *)
  patience, (* what is left of MaxDebounce                                 *)
  delays,   (* malformed_event_delay and reconnect_delay                    *)
  health,   (* of each slot: what it shows, and how long it has been silent  *)
  past      (* history: why the last wait began and how long ago; whether a *)
            (* slot joined since; failures and malformed events in a row    *)

vars == <<cfg, slots, changed, resync, pc, snapshot, timer, patience, delays, health, past>>

LiveSlots == {i \in Slots : slots[i] = "live"}
Requests == [ids \in SUBSET Slots |-> BuildConnection([i \in ids |-> Specs[i]])]
Larger(a, b) == IF a < b THEN b ELSE a
Smaller(a, b) == IF a < b THEN a ELSE b

NoDelays == [malformed |-> Null, reconnect |-> Null]
NoPast == [cause |-> "none", since |-> 0, joined |-> FALSE, errors |-> 0, malformed |-> 0]

(* What a slot can show when it comes to a connection of the scope, and how   *)
(* long it was silent before: counted up to the threshold, at which it is     *)
(* told as soon as it is watched.                                          *)
Health(shows, quiet) == [shows |-> shows, quiet |-> quiet]
ShownBefore ==
  CASE cfg.scope = "Rejected" -> {"Rejected"}
    [] cfg.scope = "Malformed" -> {"Degraded", "Stalled", "Rejected"}
    [] cfg.scope = "Lagged" -> {"Fine", "Degraded", "Stalled", "Rejected"}
    [] OTHER -> {"Fine"}
Arrivals == {Health(shows, quiet) : shows \in ShownBefore, quiet \in 0 .. StallThreshold}

Init ==
  /\ cfg \in [scope : Scopes, setting : Settings]
  /\ slots = [i \in Slots |-> "new"]
  /\ changed = FALSE /\ resync = FALSE /\ pc = "idle" /\ snapshot = {}
  /\ timer = 0 /\ patience = 0
  /\ delays = NoDelays /\ past = NoPast
  /\ health = [i \in Slots |-> Health("Fine", 0)]

-----------------------------------------------------------------------------
(* How long to wait.                                                       *)
RejectedRetryDelay == Larger(cfg.setting.timeout, MinDelay)

FirstMalformedDelay ==
  Larger(IF cfg.setting.restart = Null THEN DefaultDelay ELSE cfg.setting.restart, MinDelay)

(* next_malformed_event_delay; the variant doubles without end.            *)
NextMalformedDelayUncapped(last) ==
  IF last = Null THEN FirstMalformedDelay ELSE 2 * last
NextMalformedDelay(last) ==
  IF last = Null THEN FirstMalformedDelay
  ELSE Smaller(2 * last, Larger(cfg.setting.timeout, FirstMalformedDelay))

(* After an error of a connection that resumes.                            *)
NextReconnectDelay(last) ==
  Smaller(RejectedRetryDelay, IF last = Null THEN FirstDelay ELSE 2 * last)

(* The statuses by which Blokli refuses a subscription; 0 is an error that    *)
(* has none.                                                               *)
IsRejection(status) == status \in 400 .. 499 /\ status \notin {408, 425, 429}
Errors == {0, 401, 408, 429, 503}

-----------------------------------------------------------------------------
(* Subscriptions.                                                          *)

(* A supervisor starts: one that a slot moved to waits as the connection that *)
(* it left would have.  What that one dropped may have been asked for.       *)
Start(live) ==
  LET delay == IF cfg.scope = "Rejected" THEN RejectedRetryDelay
               ELSE IF cfg.scope = "Malformed" THEN NextMalformedDelay(Null)
               ELSE 0
      cause == IF cfg.scope = "Rejected" THEN "rejected"
               ELSE IF cfg.scope = "Malformed" THEN "malformed"
               ELSE "none"
  IN  /\ pc' = IF cfg.scope \in {"Shared", "Dedicated"} THEN "prepare" ELSE "wait"
      /\ timer' = delay /\ patience' = MaxDebounce
      /\ snapshot' = live
      /\ resync' \in BOOLEAN
      /\ cfg.scope = "Lagged" => resync'
      /\ resync' => cfg.scope \in OwnScopes
      /\ delays' = [NoDelays EXCEPT !.malformed = Given(cfg.scope = "Malformed", delay)]
      /\ past' = [NoPast EXCEPT !.malformed = IF cfg.scope = "Malformed" THEN 1 ELSE 0,
                                !.cause = cause]

(* Ids are given in the order of registration.  Only a shared connection      *)
(* serves several subscriptions.                                           *)
Join(i) ==
  /\ slots[i] = "new" /\ \A j \in Slots : j < i => slots[j] # "new"
  /\ cfg.scope = "Shared" \/ \A j \in Slots : slots[j] = "new"
  /\ slots' = [slots EXCEPT ![i] = "live"]
  /\ \E arrival \in Arrivals : health' = [health EXCEPT ![i] = arrival]
  /\ IF pc = "idle"
     THEN Start({i}) /\ UNCHANGED changed
     ELSE /\ changed' = TRUE
          /\ past' = [past EXCEPT !.joined = TRUE]
          /\ UNCHANGED <<resync, pc, timer, patience, snapshot, delays>>
  /\ UNCHANGED cfg

Leave(i) ==
  /\ slots[i] = "live"
  /\ slots' = [slots EXCEPT ![i] = "gone"]
  /\ health' = [health EXCEPT ![i] = Health("Fine", 0)]
  /\ changed' = (pc # "idle") /\ resync' = FALSE
  /\ UNCHANGED <<cfg, pc, snapshot, timer, patience, delays, past>>

(* request_resync of a slot that has moved, for what the shared connection    *)
(* dropped; on the shared connection it is what moves the slot.              *)
RequestResync(i) ==
  /\ slots[i] = "live" /\ cfg.scope \in OwnScopes
  /\ changed' = TRUE /\ resync' = TRUE
  /\ UNCHANGED <<cfg, slots, pc, snapshot, timer, patience, delays, health, past>>

-----------------------------------------------------------------------------
(* The supervisor.                                                         *)

Stop ==
  /\ pc' = "idle" /\ changed' = FALSE /\ resync' = FALSE /\ snapshot' = {}
  /\ timer' = 0 /\ patience' = 0 /\ delays' = NoDelays /\ past' = NoPast

(* The snapshot takes the request for a replay along.  A document that cannot *)
(* be built ends every slot of the snapshot.                                *)
Connect(ids) ==
  IF Requests[ids] = Null
  THEN Stop /\ slots' = [i \in Slots |-> IF i \in ids THEN "gone" ELSE slots[i]]
  ELSE /\ pc' = "drive" /\ resync' = FALSE /\ snapshot' = ids /\ timer' = 0 /\ patience' = 0
       /\ past' = [past EXCEPT !.cause = "none", !.since = 0, !.joined = FALSE]
       /\ UNCHANGED <<slots, changed, delays>>

(* prepare: only the shared connection gathers, and not for ever.           *)
Prepare ==
  /\ pc = "prepare"
  /\ \/ LiveSlots = {} /\ Stop /\ UNCHANGED slots
     \/ /\ LiveSlots # {} /\ cfg.scope = "Shared" /\ patience > 0
        /\ pc' = "debounce" /\ snapshot' = LiveSlots /\ timer' = Debounce
        /\ UNCHANGED <<slots, changed, resync, patience, delays, past>>
     \/ /\ LiveSlots # {} /\ (cfg.scope # "Shared" \/ patience = 0)
        /\ Connect(LiveSlots)
  /\ UNCHANGED <<cfg, health>>

DebounceChanged ==
  /\ pc = "debounce" /\ changed
  /\ changed' = FALSE /\ pc' = "prepare" /\ snapshot' = {} /\ timer' = 0
  /\ UNCHANGED <<cfg, slots, resync, patience, delays, health, past>>

DebounceOver ==
  /\ pc = "debounce" /\ ~changed /\ timer = 0
  /\ Connect(snapshot)
  /\ UNCHANGED <<cfg, health>>

Rebuild ==
  /\ pc' = "prepare" /\ snapshot' = {} /\ timer' = 0 /\ patience' = MaxDebounce
  /\ UNCHANGED <<resync, delays, past>>

(* wait_before_reconnect: a change ends the wait if a subscription joined     *)
(* that the last connection did not cover, or none is left.  In the variant   *)
(* every change does.                                                      *)
WaitChangedAnyhow ==
  /\ pc = "wait" /\ changed
  /\ changed' = FALSE
  /\ Rebuild
  /\ UNCHANGED <<cfg, slots, health>>
WaitChanged ==
  /\ pc = "wait" /\ changed
  /\ changed' = FALSE
  /\ IF LiveSlots = {} \/ ~(LiveSlots \subseteq snapshot)
     THEN Rebuild
     ELSE UNCHANGED <<resync, pc, snapshot, timer, patience, delays, past>>
  /\ UNCHANGED <<cfg, slots, health>>

WaitOver ==
  /\ pc = "wait" /\ timer = 0
  /\ Rebuild
  /\ UNCHANGED <<cfg, slots, changed, health>>

-----------------------------------------------------------------------------
(* drive, in the order of its select: changes, then a stall, then an event.  *)

Change ==
  /\ pc = "drive" /\ changed
  /\ changed' = FALSE
  /\ IF \/ resync \/ LiveSlots = {} \/ ~(LiveSlots \subseteq snapshot)
        \/ Cardinality(snapshot \ LiveSlots) > MaxStale
     THEN Rebuild
     ELSE UNCHANGED <<resync, pc, snapshot, timer, patience, delays, past>>
  /\ UNCHANGED <<cfg, slots, health>>

(* The variant only watches subscriptions that are known to fail.          *)
StallDueInOutage(i) ==
  /\ slots[i] = "live" /\ health[i].shows = "Degraded"
  /\ health[i].quiet >= StallThreshold
StallDue(i) ==
  /\ slots[i] = "live" /\ health[i].shows \in {"Fine", "Degraded"}
  /\ health[i].quiet >= StallThreshold

MarkStalled ==
  /\ pc = "drive" /\ ~changed
  /\ \E i \in Slots : StallDue(i)
  /\ health' = [i \in Slots |-> IF StallDue(i) THEN [health[i] EXCEPT !.shows = "Stalled"]
                                ELSE health[i]]
  /\ UNCHANGED <<cfg, slots, changed, resync, pc, snapshot, timer, patience, delays, past>>

(* An event is next; the slots of the connection that are still registered.  *)
Event == pc = "drive" /\ ~changed /\ \A i \in Slots : ~StallDue(i)
Covered == snapshot \cap LiveSlots

(* What the slots of the connection show: their health as it was, for those   *)
(* that show one of `but`, and as given for the others.                     *)
AllShow(shows, but) ==
  health' = [i \in Slots |-> IF i \in Covered /\ health[i].shows \notin but
                             THEN [health[i] EXCEPT !.shows = shows] ELSE health[i]]
Alive(but) ==
  health' = [i \in Slots |-> IF i \notin Covered THEN health[i]
                             ELSE Health(IF health[i].shows \in but THEN health[i].shows
                                         ELSE "Fine", 0)]
Problem == AllShow("Degraded", {"Degraded", "Stalled", "Rejected"})

Wait(cause, delay) ==
  /\ pc' = "wait" /\ timer' = delay
  /\ past' = [past EXCEPT !.cause = cause, !.since = 0, !.joined = FALSE,
                          !.errors = IF cause = "error" THEN Smaller(@ + 1, MaxInARow) ELSE @,
                          !.malformed = IF cause = "malformed" THEN Smaller(@ + 1, MaxInARow)
                                        ELSE @]
  /\ UNCHANGED <<cfg, slots, changed, resync, snapshot, patience>>

Stay == UNCHANGED <<cfg, slots, changed, resync, pc, snapshot, timer, patience>>

(* A connection of one subscription waits in send until its consumer has room *)
(* for an event or is gone, and watches nothing meanwhile (deliver).         *)
Waits == cfg.scope # "Shared"
Open == {"drive", "delivering", "telling"}

(* A frame that was handled, or a keepalive, which decodes nothing: traffic   *)
(* ends the backoff after errors, and a payload that decodes the one after    *)
(* malformed events.                                                       *)
Heard(decoded) ==
  /\ Alive({})
  /\ delays' = [malformed |-> IF decoded THEN Null ELSE delays.malformed,
                reconnect |-> Null]
  /\ past' = [past EXCEPT !.errors = 0, !.malformed = IF decoded THEN 0 ELSE @]
Traffic(decoded) ==
  /\ Event /\ ~(decoded /\ Waits)
  /\ Heard(decoded) /\ Stay

(* The payload of the only slot comes, and is delivered before anything else.  *)
Deliver ==
  /\ Event /\ Waits
  /\ pc' = "delivering"
  /\ UNCHANGED <<cfg, slots, changed, resync, snapshot, timer, patience, delays, health, past>>
Delivered ==
  /\ pc = "delivering"
  /\ pc' = "drive" /\ Heard(TRUE)
  /\ UNCHANGED <<cfg, slots, changed, resync, snapshot, timer, patience>>

(* Blokli accepted the connection, which says nothing of the query.         *)
Connected ==
  /\ Event /\ Stay
  /\ Alive({"Rejected"})
  /\ UNCHANGED <<delays, past>>

(* A frame that is malformed, or the payload of the only slot.             *)
MalformedEvent ==
  LET delay == NextMalformedDelay(delays.malformed)
  IN  /\ Event /\ Problem
      /\ delays' = [delays EXCEPT !.malformed = delay]
      /\ Wait("malformed", delay)

(* Blokli refuses: by errors, or by its status.  A refusal that is new is told *)
(* before the wait begins.                                                 *)
Reject ==
  /\ AllShow("Rejected", {})
  /\ UNCHANGED delays
  /\ IF Waits /\ \E i \in Covered : health[i].shows # "Rejected"
     THEN /\ pc' = "telling"
          /\ UNCHANGED <<cfg, slots, changed, resync, snapshot, timer, patience, past>>
     ELSE Wait("rejected", RejectedRetryDelay)

Told ==
  /\ pc = "telling"
  /\ Wait("rejected", RejectedRetryDelay)
  /\ UNCHANGED <<delays, health>>

DocumentRejected == Event /\ Reject

(* After another error the client of the connection reconnects by itself,     *)
(* with a backoff of its own, unless a slot resumes.                        *)
Error(status) ==
  /\ Event
  /\ IF IsRejection(status) THEN Reject
     ELSE IF Requests[snapshot].resumable
     THEN LET delay == NextReconnectDelay(delays.reconnect)
          IN  /\ Problem /\ delays' = [delays EXCEPT !.reconnect = delay]
              /\ Wait("error", delay)
     ELSE Problem /\ Stay /\ UNCHANGED <<delays, past>>

(* The stream ends, and the slots of the connection with it if streams are    *)
(* not restarted.                                                          *)
StreamEnds ==
  /\ Event
  /\ IF cfg.setting.restart # Null
     THEN /\ Wait("end", Larger(cfg.setting.restart, MinDelay))
          /\ UNCHANGED <<delays, health>>
     ELSE /\ Stop
          /\ slots' = [i \in Slots |-> IF i \in Covered THEN "gone" ELSE slots[i]]
          /\ health' = [i \in Slots |-> IF i \in Covered THEN Health("Fine", 0) ELSE health[i]]
          /\ UNCHANGED cfg

-----------------------------------------------------------------------------
(* A tick, when the supervisor has nothing to do; a consumer may take as long *)
(* as it likes, and one that is gone ends the wait.  Silence is counted as    *)
(* far as it can matter.                                                   *)
LongestWait == Larger(RejectedRetryDelay, FirstMalformedDelay)
Longer(h) == [h EXCEPT !.quiet = Smaller(@ + 1, IF h.shows = "Fine" THEN MaxQuiet
                                                ELSE StallThreshold)]

Tick ==
  /\ \/ pc = "idle"
     \/ pc \in {"debounce", "wait"} /\ ~changed /\ timer > 0
     \/ Event
     \/ pc \in {"delivering", "telling"} /\ Covered # {}
  /\ timer' = IF timer > 0 THEN timer - 1 ELSE 0
  /\ patience' = IF patience > 0 THEN patience - 1 ELSE 0
  /\ health' = [i \in Slots |-> IF slots[i] = "live" THEN Longer(health[i]) ELSE health[i]]
  /\ past' = [past EXCEPT !.since = IF past.cause = "none" THEN 0 ELSE Smaller(@ + 1, LongestWait)]
  /\ UNCHANGED <<cfg, slots, changed, resync, pc, snapshot, delays>>

Next ==
  \/ \E i \in Slots : Join(i) \/ Leave(i) \/ RequestResync(i)
  \/ Prepare \/ DebounceChanged \/ DebounceOver \/ WaitChanged \/ WaitOver
  \/ Change \/ MarkStalled
  \/ \E decoded \in BOOLEAN : Traffic(decoded)
  \/ Deliver \/ Delivered \/ Connected \/ MalformedEvent \/ DocumentRejected \/ Told
  \/ \E status \in Errors : Error(status)
  \/ StreamEnds \/ Tick

Spec == Init /\ [][Next]_vars

-----------------------------------------------------------------------------
(* Types.  The supervisor of a connection that is open or waits has slots in *)
(* its snapshot, and a wait is never longer than the longest one.           *)
TypeOK ==
  /\ cfg \in [scope : Scopes, setting : Settings]
  /\ slots \in [Slots -> {"new", "live", "gone"}]
  /\ changed \in BOOLEAN /\ resync \in BOOLEAN
  /\ pc \in Open \cup {"idle", "prepare", "debounce", "wait"}
  /\ snapshot \subseteq Slots /\ (pc \in Open \cup {"wait"} => snapshot # {})
  /\ timer \in 0 .. Larger(Debounce, LongestWait)
  /\ patience \in 0 .. MaxDebounce
  /\ health \in [Slots -> [shows : {"Fine", "Degraded", "Stalled", "Rejected"},
                           quiet : 0 .. MaxQuiet]]

(* A connection carries every subscription as if it had one to itself: Blokli *)
(* accepts the combined document, and the answer under the alias of a slot is *)
(* the answer to the slot's own document with its own variables, delivered   *)
(* under the name its decoder expects (build_connection, rename_variables,   *)
(* matching_paren, and the target by which route puts the name back).        *)
CarriesEach ==
  [ids \in (SUBSET Slots) \ {{}} |->
     /\ Accepts(Requests[ids])
     /\ \A i \in ids : /\ AnswerTo(Requests[ids], i) = OwnAnswer(Specs[i])
                       /\ Requests[ids].targets[i] = OwnAnswer(Specs[i])[1].text]

DocumentsCombine == pc \in Open => CarriesEach[snapshot]

(* How long the next connection is owed to wait, by what happened since the   *)
(* supervisor started: after a refusal the longest wait; after errors or      *)
(* malformed events one that doubles with each in a row.                     *)
DoubledSince(first, n) == first * 2 ^ (n - 1)
OwedWait ==
  IF past.cause = "rejected" THEN RejectedRetryDelay
  ELSE IF past.cause = "error"
    THEN Smaller(RejectedRetryDelay, DoubledSince(FirstDelay, past.errors))
  ELSE IF past.cause = "malformed"
    THEN Smaller(Larger(cfg.setting.timeout, FirstMalformedDelay),
                 DoubledSince(FirstMalformedDelay, past.malformed))
  ELSE IF past.cause = "end" THEN Larger(cfg.setting.restart, MinDelay)
  ELSE 0

(* A server that refuses or fails is not asked again before the wait it is    *)
(* owed, whatever else happens meanwhile to the subscriptions or to the       *)
(* connection (keepalives, other failures, subscriptions that leave); only a  *)
(* subscription that joins is worth a connection at once                     *)
(* (wait_before_reconnect, next_malformed_event_delay, drive).              *)
RetriesArePaced ==
  [][pc \notin Open /\ pc' = "drive" => past.joined \/ past.since >= OwedWait]_vars

(* A subscription does not show that all is well for long while it hears      *)
(* nothing: the deadline is not watched during a wait or while a document is  *)
(* put together (stall_wakeup is only in drive), but those add up to a bound,  *)
(* to which each subscription that comes or goes adds one debounce at most.   *)
(* While a connection of one subscription has an event that its consumer does *)
(* not take, the deadline is not watched either (deliver), for as long as the *)
(* consumer likes: then nothing is promised.                                *)
SilenceIsTold ==
  LET gathering == MaxDebounce + Debounce
      churn == Cardinality(LiveSlots) - 1 + 2 * Cardinality({i \in Slots : slots[i] = "gone"})
      restart == IF cfg.setting.restart = Null THEN 0 ELSE Larger(cfg.setting.restart, MinDelay)
  IN  pc # "delivering" =>
        \A i \in LiveSlots :
          health[i].quiet > StallThreshold + restart + gathering * (1 + churn)
            => health[i].shows # "Fine"
=============================================================================
