--------------------------- MODULE HealthTracker ---------------------------
(***************************************************************************)
(* The health of one subscription (client/src/health.rs), as functions on  *)
(* a tracker record.  Each operator is one method of HealthTracker: it      *)
(* takes the tracker and the clock and returns the tracker afterwards.  The *)
(* hub calls these methods while it holds its state lock, so each one is    *)
(* one step.  What a problem was, and the log lines, are left out.          *)
(***************************************************************************)
EXTENDS Integers

CONSTANTS
  Never,           (* an instant that has not come: Option::None          *)
  StallThreshold,  (* subscription_stall_threshold                        *)
  MaxFailures,     (* u32::MAX, where the failure counter saturates       *)
  MaxConnections   (* u64::MAX, where the connection counter saturates    *)

ASSUME NeverAssumption == Never \notin Int
ASSUME CounterAssumption ==
  /\ StallThreshold \in Nat
  /\ MaxFailures \in Nat \ {0}
  /\ MaxConnections \in Nat \ {0}

(* SubscriptionStatus, without Untracked, which no tracker ever reports.   *)
Fine    == {"Connecting", "Healthy", "Recovered"}
Working == {"Healthy", "Recovered"}
Outage  == {"Degraded", "Stalled", "Rejected"}
Status  == Fine \cup Outage \cup {"Ended"}
EndReason == {"Completed", "Cancelled", "Failed"}

Instant == Nat \cup {Never}

(* SubscriptionHealth and the private fields of HealthTracker.  `outage` is *)
(* the payload of Recovered and `end` that of Ended.                        *)
Tracker ==
  [ status       : Status,
    statusSince  : Nat,
    lastActivity : Instant,
    lastUpdate   : Instant,
    failures     : 0 .. MaxFailures,
    connections  : 0 .. MaxConnections,
    outage       : Nat,
    end          : EndReason \cup {"none"},
    created      : Nat,
    outageSince  : Nat,
    lagging      : BOOLEAN ]

NewTracker(now) ==
  [ status |-> "Connecting", statusSince |-> now,
    lastActivity |-> Never, lastUpdate |-> Never,
    failures |-> 0, connections |-> 0, outage |-> 0, end |-> "none",
    created |-> now, outageSince |-> now, lagging |-> FALSE ]

SetStatus(h, status, now) == [h EXCEPT !.status = status, !.statusSince = now]

(* saturating_add, after a variant that would overflow.                    *)
UncheckedInc(n, max) == n + 1

SaturatingInc(n, max) == IF n < max THEN n + 1 ELSE max

SaturatingSince(now, since) == IF since <= now THEN now - since ELSE 0

(* last_transport_activity.unwrap_or(created)                              *)
LastSign(h) == IF h.lastActivity = Never THEN h.created ELSE h.lastActivity

(* record_activity: a working connection ends an outage, except a           *)
(* rejection that only saw the connection accepted, and except while the    *)
(* consumer still misses events.  The first definition is a variant that    *)
(* forgets the lag.                                                         *)
EndsOutageDespiteLag(h, endsRejection) ==
  \/ h.status \in {"Connecting", "Degraded", "Stalled"}
  \/ h.status = "Rejected" /\ endsRejection

EndsOutage(h, endsRejection) ==
  /\ ~h.lagging
  /\ \/ h.status \in {"Connecting", "Degraded", "Stalled"}
     \/ h.status = "Rejected" /\ endsRejection

(* The variant leaves the failure counter alone.                           *)
WorkingAgainKeepingFailures(h, now) ==
  IF h.status = "Connecting" THEN SetStatus(h, "Healthy", now)
  ELSE [SetStatus(h, "Recovered", now) EXCEPT
          !.outage = SaturatingSince(now, h.outageSince)]

WorkingAgain(h, now) ==
  IF h.status = "Connecting"
  THEN [SetStatus(h, "Healthy", now) EXCEPT !.failures = 0]
  ELSE [SetStatus(h, "Recovered", now) EXCEPT
          !.failures = 0,
          !.outage = SaturatingSince(now, h.outageSince)]

RecordActivity(h, endsRejection, now) ==
  LET seen == [h EXCEPT !.lastActivity = now]
  IN  IF EndsOutage(h, endsRejection) THEN WorkingAgain(seen, now) ELSE seen

TransportActivity(h, now) == RecordActivity(h, TRUE, now)

Connected(h, now) ==
  RecordActivity([h EXCEPT !.connections = SaturatingInc(@, MaxConnections)],
                 FALSE, now)

DataUpdate(h, now) == [TransportActivity(h, now) EXCEPT !.lastUpdate = now]

(* problem: a subscription that never connected has been out since it was   *)
(* created; any other outage starts now.                                    *)
Problem(h, now) ==
  LET failed == [h EXCEPT !.failures = SaturatingInc(@, MaxFailures)]
  IN  IF h.status \in Fine
      THEN [SetStatus(failed, "Degraded", now) EXCEPT
              !.outageSince = IF h.status = "Connecting" THEN h.created ELSE now]
      ELSE failed

Lagging(h, now) == Problem([h EXCEPT !.lagging = TRUE], now)

CaughtUp(h) == [h EXCEPT !.lagging = FALSE]

(* Whether reject starts a new rejection, whose error is then yielded.     *)
FirstRefusal(h) == h.status \notin {"Rejected", "Ended"}

(* The variant dates a refusal back to the outage before it.               *)
RejectWithinLastOutage(h, now) ==
  LET failed == [h EXCEPT !.failures = SaturatingInc(@, MaxFailures)]
  IN  IF FirstRefusal(h) THEN SetStatus(failed, "Rejected", now) ELSE failed

Reject(h, now) ==
  LET failed == [h EXCEPT !.failures = SaturatingInc(@, MaxFailures)]
  IN  IF FirstRefusal(h)
      THEN [SetStatus(failed, "Rejected", now) EXCEPT
              !.outageSince = IF h.status \in Working THEN now ELSE @]
      ELSE failed

(* stall_deadline, and whether it has passed (mark_stalled).               *)
HasStallDeadline(h) == h.status \notin {"Stalled", "Rejected", "Ended"}
StallDue(h, now) ==
  HasStallDeadline(h) /\ LastSign(h) + StallThreshold <= now

Stall(h, now) ==
  CASE h.status \in Fine ->
         [SetStatus(h, "Stalled", now) EXCEPT !.outageSince = LastSign(h)]
    [] h.status = "Degraded" -> SetStatus(h, "Stalled", now)
    [] OTHER -> h

End(h, reason, now) ==
  IF h.status = "Ended" THEN h
  ELSE [SetStatus(h, "Ended", now) EXCEPT !.end = reason]
=============================================================================
