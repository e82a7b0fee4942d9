------------------------------- MODULE Health -------------------------------
(***************************************************************************)
(* The life of one HealthTracker: the hub feeds it what happens to the      *)
(* connection, in any order, until the subscription ends and the tracker is *)
(* dropped.  Time is a clock that advances in unit steps up to MaxTime.     *)
(***************************************************************************)
EXTENDS HealthTracker

CONSTANT MaxTime   (* bound on the clock *)

ASSUME TimeAssumption == MaxTime \in Nat

VARIABLES
  tracker,    (* the HealthTracker and the SubscriptionHealth it shares    *)
  now,        (* Instant::now()                                            *)
  dropped,    (* the tracker was dropped                                   *)
  workingAt,  (* history: last sign of life while nothing was wrong        *)
  brokenAt,   (* history: when the latest outage became visible            *)
  aliveSince  (* history: traffic was seen since the last refusal          *)

vars == <<tracker, now, dropped, workingAt, brokenAt, aliveSince>>

Init ==
  /\ now = 0
  /\ tracker = NewTracker(0)
  /\ dropped = FALSE
  /\ workingAt = 0
  /\ brokenAt = 0
  /\ aliveSince = TRUE

(* Writes the tracker and the two instants the history keeps about it.     *)
Update(h) ==
  /\ tracker' = h
  /\ workingAt' = IF h.status \in Working THEN LastSign(h) ELSE workingAt
  /\ brokenAt' = IF tracker.status \in Fine /\ h.status \in Outage
                 THEN now ELSE brokenAt
  /\ UNCHANGED now

(* The hub reaches a tracker through its slot, which is gone once ended.   *)
Registered == tracker.status # "Ended"

ServerAccepts ==
  /\ Registered
  /\ Update(Connected(tracker, now))
  /\ UNCHANGED <<dropped, aliveSince>>

(* Frames come over a connection that the server accepted.                 *)
Accepted == Registered /\ tracker.connections > 0

TrafficArrives ==
  /\ Accepted
  /\ \/ Update(TransportActivity(tracker, now))
     \/ Update(DataUpdate(tracker, now))
  /\ aliveSince' = TRUE
  /\ UNCHANGED dropped

SomethingFails ==
  /\ Registered
  /\ Update(Problem(tracker, now))
  /\ UNCHANGED <<dropped, aliveSince>>

EventDropped ==
  /\ Accepted
  /\ Update(Lagging(tracker, now))
  /\ UNCHANGED <<dropped, aliveSince>>

ResyncStarts ==
  /\ Registered
  /\ Update(CaughtUp(tracker))
  /\ UNCHANGED <<dropped, aliveSince>>

ServerRefuses ==
  /\ Registered
  /\ Update(Reject(tracker, now))
  /\ aliveSince' = (aliveSince /\ ~FirstRefusal(tracker))
  /\ UNCHANGED dropped

DeadlinePasses ==
  /\ Registered
  /\ StallDue(tracker, now)
  /\ Update(Stall(tracker, now))
  /\ UNCHANGED <<dropped, aliveSince>>

SubscriptionEnds ==
  /\ Registered
  /\ \E reason \in {"Completed", "Failed"} : Update(End(tracker, reason, now))
  /\ UNCHANGED <<dropped, aliveSince>>

(* Drop for HealthTracker, also after the hub ended the subscription.      *)
TrackerDropped ==
  /\ ~dropped
  /\ dropped' = TRUE
  /\ Update(End(tracker, "Cancelled", now))
  /\ UNCHANGED aliveSince

Tick ==
  /\ ~dropped
  /\ now < MaxTime
  /\ now' = now + 1
  /\ UNCHANGED <<tracker, dropped, workingAt, brokenAt, aliveSince>>

Next ==
  \/ ServerAccepts
  \/ TrafficArrives
  \/ SomethingFails
  \/ EventDropped
  \/ ResyncStarts
  \/ ServerRefuses
  \/ DeadlinePasses
  \/ SubscriptionEnds
  \/ TrackerDropped
  \/ Tick

Spec == Init /\ [][Next]_vars
-----------------------------------------------------------------------------
(* Every field of the tracker has the type of its Rust counterpart.        *)
TypeOK ==
  /\ tracker \in Tracker
  /\ now \in Nat
  /\ dropped \in BOOLEAN
  /\ workingAt \in Nat
  /\ brokenAt \in Nat
  /\ aliveSince \in BOOLEAN

(* A consumer that lost events is never shown as working, whatever the      *)
(* connection does, until the replay starts (lagging, record_activity).     *)
LagIsVisible == tracker.lagging => tracker.status \notin Fine

(* `failures` counts the problems since the subscription last worked: zero  *)
(* while nothing is wrong, positive in an outage a problem started.         *)
FailuresCountTheOutage ==
  /\ tracker.status \in Fine => tracker.failures = 0
  /\ tracker.status \in {"Degraded", "Rejected"} => tracker.failures > 0

(* The outage that a recovery reports covers all the time the subscription  *)
(* was visibly broken, and no time before its last sign of life while it    *)
(* worked: outage_since never survives from an earlier outage.              *)
RecoveryReportsTheOutage ==
  [][tracker.status \in Outage /\ tracker'.status = "Recovered"
       => /\ tracker'.outage >= now - brokenAt
          /\ tracker'.outage <= now - workingAt]_vars

(* A refusal whose error is yielded is preceded by traffic since the last   *)
(* one that was: reconnecting to a server that accepts the connection and   *)
(* refuses the query again yields nothing more.                             *)
RefusalYieldedOncePerEpisode ==
  [][tracker.status # "Rejected" /\ tracker'.status = "Rejected"
       => aliveSince]_vars

(* The reason a subscription ended with is final: dropping the tracker      *)
(* later does not turn a completed or failed one into a cancelled one.      *)
EndedIsFinal == [][tracker.status = "Ended" => tracker' = tracker]_vars
=============================================================================
