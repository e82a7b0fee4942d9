---------------------------- MODULE HealthProofs ----------------------------
(***************************************************************************)
(* Proofs about Health, for every threshold, clock and counter width.      *)
(***************************************************************************)
EXTENDS Health, TLAPS

USE NeverAssumption, CounterAssumption

-----------------------------------------------------------------------------
(***************************************************************************)
(* What each method of the tracker returns.                                *)
(***************************************************************************)

LEMMA IncrementBounded ==
  ASSUME NEW max \in Nat \ {0}, NEW n \in 0 .. max
  PROVE  SaturatingInc(n, max) \in 1 .. max
  BY DEF SaturatingInc

LEMMA SetStatusFields ==
  ASSUME NEW h \in Tracker, NEW s \in Status, NEW t \in Nat
  PROVE  /\ SetStatus(h, s, t) \in Tracker
         /\ SetStatus(h, s, t).status = s
         /\ SetStatus(h, s, t).failures = h.failures
         /\ SetStatus(h, s, t).created = h.created
         /\ SetStatus(h, s, t).outageSince = h.outageSince
         /\ SetStatus(h, s, t).lastActivity = h.lastActivity
         /\ SetStatus(h, s, t).lagging = h.lagging
  BY DEF SetStatus, Tracker

LEMMA WorkingAgainFields ==
  ASSUME NEW h \in Tracker, NEW t \in Nat
  PROVE  LET n == WorkingAgain(h, t)
         IN  /\ n \in Tracker
             /\ n.status \in Working
             /\ h.status # "Connecting" =>
                  /\ n.status = "Recovered"
                  /\ n.outage = SaturatingSince(t, h.outageSince)
             /\ n.failures = 0
             /\ n.created = h.created
             /\ n.lastActivity = h.lastActivity
             /\ n.lagging = h.lagging
  <1> DEFINE healthy == SetStatus(h, "Healthy", t)
             recovered == SetStatus(h, "Recovered", t)
             out == SaturatingSince(t, h.outageSince)
  <1>1. out \in Nat
    BY DEF SaturatingSince, Tracker
  <1>2. CASE h.status = "Connecting"
    <2>1. WorkingAgain(h, t) = [healthy EXCEPT !.failures = 0]
      BY <1>2 DEF WorkingAgain
    <2>2. healthy \in Tracker /\ healthy.status = "Healthy"
          /\ healthy.created = h.created /\ healthy.lagging = h.lagging
          /\ healthy.lastActivity = h.lastActivity
      BY SetStatusFields DEF Fine, Status
    <2> QED
      BY <1>2, <2>1, <2>2 DEF Tracker, Working, Status, Fine
  <1>3. CASE h.status # "Connecting"
    <2>1. WorkingAgain(h, t) = [recovered EXCEPT !.failures = 0, !.outage = out]
      BY <1>3 DEF WorkingAgain
    <2>2. recovered \in Tracker /\ recovered.status = "Recovered"
          /\ recovered.created = h.created /\ recovered.lagging = h.lagging
          /\ recovered.lastActivity = h.lastActivity
      BY SetStatusFields DEF Fine, Status
    <2> DEFINE reset == [recovered EXCEPT !.failures = 0]
    <2> HIDE DEF out, recovered
    <2>3. /\ reset \in Tracker
          /\ reset.failures = 0
          /\ reset.status = recovered.status
          /\ reset.created = recovered.created
          /\ reset.lastActivity = recovered.lastActivity
          /\ reset.lagging = recovered.lagging
      BY <2>2 DEF Tracker
    <2>4. WorkingAgain(h, t) = [reset EXCEPT !.outage = out]
      BY <2>1
    <2> HIDE DEF reset
    <2>5. /\ WorkingAgain(h, t) \in Tracker
          /\ WorkingAgain(h, t).failures = reset.failures
          /\ WorkingAgain(h, t).outage = out
          /\ WorkingAgain(h, t).status = reset.status
          /\ WorkingAgain(h, t).created = reset.created
          /\ WorkingAgain(h, t).lastActivity = reset.lastActivity
          /\ WorkingAgain(h, t).lagging = reset.lagging
      BY <1>1, <2>3, <2>4 DEF Tracker
    <2> QED
      BY <1>3, <2>2, <2>3, <2>5 DEF out, Working
  <1> QED
    BY <1>2, <1>3

(* Activity is recorded whatever the status; it changes the status only     *)
(* where EndsOutage says so.                                                *)
LEMMA RecordActivityFields ==
  ASSUME NEW h \in Tracker, NEW e \in BOOLEAN, NEW t \in Nat
  PROVE  LET n == RecordActivity(h, e, t)
         IN  /\ n \in Tracker
             /\ n.created = h.created
             /\ n.lastActivity = t
             /\ n.lagging = h.lagging
             /\ EndsOutage(h, e) =>
                  /\ n.status \in Working
                  /\ n.failures = 0
                  /\ h.status # "Connecting" =>
                       /\ n.status = "Recovered"
                       /\ n.outage = SaturatingSince(t, h.outageSince)
             /\ ~EndsOutage(h, e) =>
                  /\ n.status = h.status
                  /\ n.failures = h.failures
                  /\ n.outageSince = h.outageSince
  <1> DEFINE seen == [h EXCEPT !.lastActivity = t]
  <1>1. /\ seen \in Tracker
        /\ seen.status = h.status
        /\ seen.created = h.created
        /\ seen.lastActivity = t
        /\ seen.lagging = h.lagging
        /\ seen.failures = h.failures
        /\ seen.outageSince = h.outageSince
    BY DEF Tracker, Instant
  <1>2. RecordActivity(h, e, t)
          = IF EndsOutage(h, e) THEN WorkingAgain(seen, t) ELSE seen
    BY DEF RecordActivity
  <1> HIDE DEF seen
  <1> QED
    BY <1>1, <1>2, WorkingAgainFields

LEMMA ConnectedIsActivity ==
  ASSUME NEW h \in Tracker, NEW t \in Nat
  PROVE  \E g \in Tracker :
           /\ Connected(h, t) = RecordActivity(g, FALSE, t)
           /\ g.status = h.status
           /\ g.created = h.created
           /\ g.lastActivity = h.lastActivity
           /\ g.lagging = h.lagging
           /\ g.failures = h.failures
           /\ g.outageSince = h.outageSince
  <1> DEFINE more == SaturatingInc(h.connections, MaxConnections)
             g == [h EXCEPT !.connections = more]
  <1>1. more \in 0 .. MaxConnections
    BY IncrementBounded DEF Tracker
  <1> HIDE DEF more
  <1>2. /\ g \in Tracker
        /\ g.status = h.status
        /\ g.created = h.created
        /\ g.lastActivity = h.lastActivity
        /\ g.lagging = h.lagging
        /\ g.failures = h.failures
        /\ g.outageSince = h.outageSince
    BY <1>1 DEF Tracker
  <1>3. Connected(h, t) = RecordActivity(g, FALSE, t)
    BY DEF Connected, more
  <1> QED
    BY <1>2, <1>3

LEMMA DataUpdateFields ==
  ASSUME NEW h \in Tracker, NEW t \in Nat
  PROVE  LET n == DataUpdate(h, t)
             m == TransportActivity(h, t)
         IN  /\ n \in Tracker
             /\ n.status = m.status
             /\ n.created = m.created
             /\ n.lastActivity = m.lastActivity
             /\ n.lagging = m.lagging
             /\ n.failures = m.failures
             /\ n.outage = m.outage
             /\ n.outageSince = m.outageSince
  <1> DEFINE m == TransportActivity(h, t)
  <1>1. m \in Tracker
    BY RecordActivityFields DEF TransportActivity
  <1>2. DataUpdate(h, t) = [m EXCEPT !.lastUpdate = t]
    BY DEF DataUpdate
  <1> HIDE DEF m
  <1> QED
    BY <1>1, <1>2 DEF Tracker, m, Instant

LEMMA ProblemFields ==
  ASSUME NEW h \in Tracker, NEW t \in Nat
  PROVE  LET n == Problem(h, t)
         IN  /\ n \in Tracker
             /\ n.status = IF h.status \in Fine THEN "Degraded" ELSE h.status
             /\ n.failures > 0
             /\ n.created = h.created
             /\ n.lastActivity = h.lastActivity
             /\ n.lagging = h.lagging
             /\ h.status = "Connecting" => n.outageSince = h.created
             /\ h.status \in Working => n.outageSince = t
             /\ h.status \notin Fine => n.outageSince = h.outageSince
  <1> DEFINE more == SaturatingInc(h.failures, MaxFailures)
             failed == [h EXCEPT !.failures = more]
             degraded == SetStatus(failed, "Degraded", t)
             since == IF h.status = "Connecting" THEN h.created ELSE t
  <1>1. more \in 1 .. MaxFailures
    BY IncrementBounded DEF Tracker
  <1>2. Problem(h, t) = IF h.status \in Fine
                        THEN [degraded EXCEPT !.outageSince = since]
                        ELSE failed
    BY DEF Problem
  <1>3. since \in Nat
    BY DEF Tracker
  <1> HIDE DEF more
  <1>4. /\ failed \in Tracker
        /\ failed.status = h.status
        /\ failed.failures > 0
        /\ failed.created = h.created
        /\ failed.lastActivity = h.lastActivity
        /\ failed.lagging = h.lagging
        /\ failed.outageSince = h.outageSince
    BY <1>1 DEF Tracker
  <1> HIDE DEF failed
  <1>5. /\ degraded \in Tracker
        /\ degraded.status = "Degraded"
        /\ degraded.failures > 0
        /\ degraded.created = h.created
        /\ degraded.lastActivity = h.lastActivity
        /\ degraded.lagging = h.lagging
    <2>1. "Degraded" \in Status
      BY DEF Status, Outage
    <2> QED
      BY <1>4, <2>1, SetStatusFields
  <1> HIDE DEF degraded, since
  <1>6. CASE h.status \in Fine
    <2>1. Problem(h, t) = [degraded EXCEPT !.outageSince = since]
      BY <1>2, <1>6
    <2>2. /\ Problem(h, t) \in Tracker
          /\ Problem(h, t).status = degraded.status
          /\ Problem(h, t).failures = degraded.failures
          /\ Problem(h, t).created = degraded.created
          /\ Problem(h, t).lastActivity = degraded.lastActivity
          /\ Problem(h, t).lagging = degraded.lagging
          /\ Problem(h, t).outageSince = since
      BY <1>3, <1>5, <2>1 DEF Tracker
    <2> QED
      BY <1>5, <1>6, <2>2 DEF since, Fine, Working
  <1>7. CASE h.status \notin Fine
    BY <1>2, <1>4, <1>7 DEF Fine, Working
  <1> QED
    BY <1>6, <1>7

LEMMA LaggingIsProblem ==
  ASSUME NEW h \in Tracker, NEW t \in Nat
  PROVE  \E g \in Tracker :
           /\ Lagging(h, t) = Problem(g, t)
           /\ g.status = h.status
           /\ g.created = h.created
           /\ g.lastActivity = h.lastActivity
           /\ g.failures = h.failures
           /\ g.outageSince = h.outageSince
  <1> DEFINE g == [h EXCEPT !.lagging = TRUE]
  <1>1. /\ g \in Tracker
        /\ g.status = h.status
        /\ g.created = h.created
        /\ g.lastActivity = h.lastActivity
        /\ g.failures = h.failures
        /\ g.outageSince = h.outageSince
    BY DEF Tracker
  <1>2. Lagging(h, t) = Problem(g, t)
    BY DEF Lagging
  <1> QED
    BY <1>1, <1>2

LEMMA CaughtUpFields ==
  ASSUME NEW h \in Tracker
  PROVE  LET n == CaughtUp(h)
         IN  /\ n \in Tracker
             /\ n.status = h.status
             /\ n.failures = h.failures
             /\ n.created = h.created
             /\ n.lastActivity = h.lastActivity
             /\ n.outageSince = h.outageSince
             /\ ~n.lagging
  BY DEF CaughtUp, Tracker

LEMMA RejectFields ==
  ASSUME NEW h \in Tracker, NEW t \in Nat, h.status # "Ended"
  PROVE  LET n == Reject(h, t)
         IN  /\ n \in Tracker
             /\ n.status = "Rejected"
             /\ n.failures > 0
             /\ n.created = h.created
             /\ n.lastActivity = h.lastActivity
             /\ n.lagging = h.lagging
             /\ n.outageSince = IF h.status \in Working THEN t ELSE h.outageSince
  <1> DEFINE more == SaturatingInc(h.failures, MaxFailures)
             failed == [h EXCEPT !.failures = more]
             rejected == SetStatus(failed, "Rejected", t)
             since == IF h.status \in Working THEN t ELSE h.outageSince
  <1>1. more \in 1 .. MaxFailures
    BY IncrementBounded DEF Tracker
  <1>2. since \in Nat
    BY DEF Tracker
  <1> HIDE DEF more
  <1>3. /\ failed \in Tracker
        /\ failed.status = h.status
        /\ failed.failures > 0
        /\ failed.created = h.created
        /\ failed.lastActivity = h.lastActivity
        /\ failed.lagging = h.lagging
        /\ failed.outageSince = h.outageSince
    BY <1>1 DEF Tracker
  <1> HIDE DEF failed
  <1>4. /\ rejected \in Tracker
        /\ rejected.status = "Rejected"
        /\ rejected.failures > 0
        /\ rejected.created = h.created
        /\ rejected.lastActivity = h.lastActivity
        /\ rejected.lagging = h.lagging
        /\ rejected.outageSince = h.outageSince
    <2>1. "Rejected" \in Status
      BY DEF Status, Outage
    <2> QED
      BY <1>3, <2>1, SetStatusFields
  <1>5. Reject(h, t) = IF FirstRefusal(h)
                       THEN [rejected EXCEPT !.outageSince = since]
                       ELSE failed
    BY <1>4 DEF Reject, failed, more
  <1> HIDE DEF rejected, since
  <1>6. CASE FirstRefusal(h)
    BY <1>2, <1>4, <1>5, <1>6 DEF Tracker, since
  <1>7. CASE ~FirstRefusal(h)
    BY <1>3, <1>5, <1>7 DEF FirstRefusal, Fine, Working, Outage, Status
  <1> QED
    BY <1>6, <1>7

LEMMA StallFields ==
  ASSUME NEW h \in Tracker, NEW t \in Nat, HasStallDeadline(h)
  PROVE  LET n == Stall(h, t)
         IN  /\ n \in Tracker
             /\ n.status = "Stalled"
             /\ n.created = h.created
             /\ n.lastActivity = h.lastActivity
             /\ n.lagging = h.lagging
             /\ n.outageSince = IF h.status \in Fine THEN LastSign(h) ELSE h.outageSince
  <1> DEFINE stalled == SetStatus(h, "Stalled", t)
             since == LastSign(h)
  <1>1. since \in Nat
    BY DEF LastSign, Tracker, Instant
  <1>2. /\ stalled \in Tracker
        /\ stalled.status = "Stalled"
        /\ stalled.created = h.created
        /\ stalled.lastActivity = h.lastActivity
        /\ stalled.lagging = h.lagging
        /\ stalled.outageSince = h.outageSince
    BY SetStatusFields DEF Fine, Status, Outage
  <1>3. /\ h.status \in Fine => Stall(h, t) = [stalled EXCEPT !.outageSince = since]
        /\ h.status \notin Fine => Stall(h, t) = stalled
    BY DEF Stall, HasStallDeadline, Tracker, Fine, Outage, Status
  <1> HIDE DEF stalled, since
  <1>4. CASE h.status \in Fine
    <2>1. /\ Stall(h, t) \in Tracker
          /\ Stall(h, t).status = stalled.status
          /\ Stall(h, t).created = stalled.created
          /\ Stall(h, t).lastActivity = stalled.lastActivity
          /\ Stall(h, t).lagging = stalled.lagging
          /\ Stall(h, t).outageSince = since
      BY <1>1, <1>2, <1>3, <1>4 DEF Tracker
    <2> QED
      BY <1>2, <1>4, <2>1 DEF since
  <1>5. CASE h.status \notin Fine
    BY <1>2, <1>3, <1>5
  <1> QED
    BY <1>4, <1>5

LEMMA EndFields ==
  ASSUME NEW h \in Tracker, NEW reason \in EndReason, NEW t \in Nat
  PROVE  LET n == End(h, reason, t)
         IN  /\ n \in Tracker
             /\ n.status = "Ended"
             /\ n.created = h.created
             /\ n.lastActivity = h.lastActivity
             /\ h.status = "Ended" => n = h
  BY DEF End, SetStatus, Tracker, Fine, Outage, Status, EndReason, Instant

LEMMA TrackerFields ==
  ASSUME NEW h \in Tracker
  PROVE  /\ h.status \in Status
         /\ h.failures \in Nat
         /\ h.created \in Nat
         /\ h.outageSince \in Nat
         /\ h.lastActivity \in Instant
         /\ h.lagging \in BOOLEAN
         /\ LastSign(h) \in Nat
  BY DEF Tracker, LastSign, Status, Instant

-----------------------------------------------------------------------------
(***************************************************************************)
(* The inductive invariant.                                                *)
(***************************************************************************)

(* What the outage bookkeeping relies on: before the first sign of life all *)
(* instants are the creation, while the subscription works the history      *)
(* follows its last sign of life, and in an outage outage_since lies        *)
(* between that and the moment the outage became visible.                   *)
OutageBookkeeping ==
  /\ tracker.created <= workingAt
  /\ workingAt <= now
  /\ brokenAt <= now
  /\ tracker.lastActivity # Never => tracker.lastActivity <= now
  /\ tracker.status = "Connecting" =>
       /\ tracker.lastActivity = Never
       /\ workingAt = tracker.created
       /\ tracker.outageSince = tracker.created
  /\ tracker.status \in Working => workingAt = LastSign(tracker)
  /\ tracker.status \in Outage =>
       workingAt <= tracker.outageSince /\ tracker.outageSince <= brokenAt

(* All of the invariant but the two Boolean variables.                     *)
RecordInv ==
  /\ tracker \in Tracker
  /\ now \in Nat
  /\ workingAt \in Nat
  /\ brokenAt \in Nat
  /\ LagIsVisible
  /\ FailuresCountTheOutage
  /\ OutageBookkeeping

FlagsOK == dropped \in BOOLEAN /\ aliveSince \in BOOLEAN

LEMMA InitEstablishes == Init => FlagsOK /\ RecordInv
  <1> USE DEF Init, NewTracker
  <1>1. Init => FlagsOK
    BY DEF FlagsOK
  <1>2. Init => tracker \in Tracker
    BY DEF Tracker, Fine, Working, Outage, Status, Instant
  <1>3. Init => OutageBookkeeping
    BY DEF OutageBookkeeping, LastSign
  <1>4. Init => LagIsVisible /\ FailuresCountTheOutage
    BY DEF LagIsVisible, FailuresCountTheOutage
  <1>5. Init => now \in Nat /\ workingAt \in Nat /\ brokenAt \in Nat
    OBVIOUS
  <1> QED
    BY <1>1, <1>2, <1>3, <1>4, <1>5 DEF RecordInv

(* No step writes anything but a truth value into the flags.               *)
LEMMA FlagsPreserved == FlagsOK /\ [Next]_vars => FlagsOK'
  BY DEF FlagsOK, Next, vars, ServerAccepts, TrafficArrives, SomethingFails,
         EventDropped, ResyncStarts, ServerRefuses, DeadlinePasses,
         SubscriptionEnds, TrackerDropped, Tick, FirstRefusal

(* Activity, whether or not it ends a rejection, keeps the invariant; g is  *)
(* the tracker with its connections counted.                                *)
LEMMA ActivityPreserves ==
  ASSUME RecordInv,
         NEW g \in Tracker, NEW e \in BOOLEAN, NEW n \in Tracker,
         g.status = tracker.status,
         g.created = tracker.created,
         g.lastActivity = tracker.lastActivity,
         g.lagging = tracker.lagging,
         g.failures = tracker.failures,
         g.outageSince = tracker.outageSince,
         n.status = RecordActivity(g, e, now).status,
         n.created = RecordActivity(g, e, now).created,
         n.lastActivity = RecordActivity(g, e, now).lastActivity,
         n.lagging = RecordActivity(g, e, now).lagging,
         n.failures = RecordActivity(g, e, now).failures,
         n.outageSince = RecordActivity(g, e, now).outageSince,
         Update(n)
  PROVE  RecordInv'
  <1>1. /\ tracker \in Tracker /\ now \in Nat
        /\ workingAt \in Nat /\ brokenAt \in Nat
    BY DEF RecordInv
  <1>2. /\ n.created = tracker.created
        /\ n.lastActivity = now
        /\ n.lagging = tracker.lagging
        /\ EndsOutage(g, e) => n.status \in Working /\ n.failures = 0
        /\ ~EndsOutage(g, e) =>
             /\ n.status = tracker.status
             /\ n.failures = tracker.failures
             /\ n.outageSince = tracker.outageSince
    BY <1>1, RecordActivityFields
  <1>3. EndsOutage(g, e) => ~tracker.lagging
    BY DEF EndsOutage
  <1>4. ~EndsOutage(g, e) => tracker.status # "Connecting"
    BY DEF EndsOutage, RecordInv, LagIsVisible, Fine, Working, Outage, Status, EndReason, Instant
  <1>5. LastSign(n) = now
    BY <1>1, <1>2 DEF LastSign
  <1>6. /\ tracker' = n /\ now' = now
        /\ workingAt' = IF n.status \in Working THEN LastSign(n) ELSE workingAt
        /\ brokenAt' = IF tracker.status \in Fine /\ n.status \in Outage
                       THEN now ELSE brokenAt
    BY DEF Update
  <1> QED
    BY <1>1, <1>2, <1>3, <1>4, <1>5, <1>6, TrackerFields
    DEF RecordInv, LagIsVisible, FailuresCountTheOutage, OutageBookkeeping, Fine, Working, Outage, Status, EndReason, Instant

LEMMA StepPreserves == RecordInv /\ [Next]_vars => RecordInv'
  <1> SUFFICES ASSUME RecordInv, [Next]_vars PROVE RecordInv'
    OBVIOUS
  <1> DEFINE n == tracker'
  <1>1. /\ tracker \in Tracker /\ now \in Nat
        /\ workingAt \in Nat /\ brokenAt \in Nat
    BY DEF RecordInv
  <1>2. ASSUME NEW h \in Tracker, Update(h), h.created = tracker.created,
               h.lastActivity = tracker.lastActivity,
               h.lagging => h.status \notin Fine,
               h.status \in Fine =>
                 /\ h.status = tracker.status
                 /\ h.failures = tracker.failures
                 /\ h.outageSince = tracker.outageSince,
               h.status \in {"Degraded", "Rejected"} => h.failures > 0,
               h.status \in Outage =>
                 \/ /\ tracker.status \in Fine
                    /\ h.outageSince \in {LastSign(tracker), now}
                 \/ /\ tracker.status = "Connecting"
                    /\ h.outageSince = tracker.created
                 \/ /\ tracker.status \in Outage
                    /\ h.outageSince = tracker.outageSince
        PROVE  RecordInv'
    <2>1. /\ tracker' = h /\ now' = now
          /\ workingAt' = IF h.status \in Working THEN LastSign(h) ELSE workingAt
          /\ brokenAt' = IF tracker.status \in Fine /\ h.status \in Outage
                         THEN now ELSE brokenAt
      BY <1>2 DEF Update
    <2>2. LastSign(h) = LastSign(tracker)
      BY <1>2 DEF LastSign
    <2> QED
      BY <1>1, <1>2, <2>1, <2>2, TrackerFields
      DEF RecordInv, LagIsVisible, FailuresCountTheOutage, OutageBookkeeping,
          Fine, Working, Outage, Status, Instant, LastSign
  <1>3. CASE ServerAccepts
    <2>1. Update(Connected(tracker, now))
      BY <1>3 DEF ServerAccepts
    <2>2. PICK g \in Tracker :
            /\ Connected(tracker, now) = RecordActivity(g, FALSE, now)
            /\ g.status = tracker.status
            /\ g.created = tracker.created
            /\ g.lastActivity = tracker.lastActivity
            /\ g.lagging = tracker.lagging
            /\ g.failures = tracker.failures
            /\ g.outageSince = tracker.outageSince
      BY <1>1, ConnectedIsActivity
    <2>3. RecordActivity(g, FALSE, now) \in Tracker
      BY <1>1, RecordActivityFields
    <2> QED
      BY <2>1, <2>2, <2>3, ActivityPreserves
  <1>4. CASE TrafficArrives
    <2>1. CASE Update(TransportActivity(tracker, now))
      BY <1>1, <2>1, ActivityPreserves, RecordActivityFields DEF TransportActivity
    <2>2. CASE Update(DataUpdate(tracker, now))
      BY <1>1, <2>2, ActivityPreserves, DataUpdateFields DEF TransportActivity
    <2> QED
      BY <1>4, <2>1, <2>2 DEF TrafficArrives
  <1>a. ASSUME NEW g \in Tracker, Update(Problem(g, now)),
               g.status = tracker.status,
               g.created = tracker.created,
               g.lastActivity = tracker.lastActivity,
               g.outageSince = tracker.outageSince
        PROVE  RecordInv'
    <2> DEFINE h == Problem(g, now)
    <2>1. /\ h \in Tracker
          /\ h.status = IF tracker.status \in Fine THEN "Degraded"
                        ELSE tracker.status
          /\ h.failures > 0
          /\ h.created = tracker.created
          /\ h.lastActivity = tracker.lastActivity
          /\ tracker.status = "Connecting" => h.outageSince = tracker.created
          /\ tracker.status \in Working => h.outageSince = now
          /\ tracker.status \notin Fine => h.outageSince = tracker.outageSince
      BY <1>1, <1>a, ProblemFields
    <2> HIDE DEF h
    <2>2. h.status \notin Fine
      BY <2>1 DEF Fine
    <2>3. tracker.status \in Fine => tracker.status \in Working \cup {"Connecting"}
      BY DEF Fine, Working
    <2>4. tracker.status \notin Fine => h.status = tracker.status
      BY <2>1
    <2>5. Update(h)
      BY <1>a DEF h
    <2> QED
      BY <1>2, <2>1, <2>2, <2>3, <2>4, <2>5
  <1>5. CASE SomethingFails
    BY <1>1, <1>5, <1>a DEF SomethingFails
  <1>6. CASE EventDropped
    <2>1. PICK g \in Tracker :
            /\ Lagging(tracker, now) = Problem(g, now)
            /\ g.status = tracker.status
            /\ g.created = tracker.created
            /\ g.lastActivity = tracker.lastActivity
            /\ g.failures = tracker.failures
            /\ g.outageSince = tracker.outageSince
      BY <1>1, LaggingIsProblem
    <2>2. Update(Problem(g, now))
      BY <1>6, <2>1 DEF EventDropped
    <2> QED
      BY <1>a, <2>1, <2>2
  <1>7. CASE ResyncStarts
    <2>1. Update(CaughtUp(tracker))
      BY <1>7 DEF ResyncStarts
    <2> QED
      BY <1>1, <1>2, <2>1, CaughtUpFields, TrackerFields
      DEF Fine, Outage, Status, RecordInv, FailuresCountTheOutage
  <1>8. CASE ServerRefuses
    <2>1. Update(Reject(tracker, now)) /\ tracker.status # "Ended"
      BY <1>8 DEF ServerRefuses, Registered
    <2> DEFINE h == Reject(tracker, now)
    <2>2. /\ h \in Tracker /\ h.status = "Rejected" /\ h.failures > 0
          /\ h.created = tracker.created /\ h.lastActivity = tracker.lastActivity
          /\ h.outageSince = IF tracker.status \in Working THEN now ELSE tracker.outageSince
      BY <1>1, <2>1, RejectFields
    <2> HIDE DEF h
    <2>3. Update(h)
      BY <2>1 DEF h
    <2>4. h.status \notin Fine /\ h.status \in Outage
      BY <2>2 DEF Fine, Working, Outage
    <2>5. \/ /\ tracker.status \in Fine
             /\ h.outageSince \in {LastSign(tracker), now}
          \/ /\ tracker.status = "Connecting"
             /\ h.outageSince = tracker.created
          \/ /\ tracker.status \in Outage
             /\ h.outageSince = tracker.outageSince
      BY <1>1, <2>1, <2>2, TrackerFields
      DEF Fine, Working, Outage, Status, RecordInv, OutageBookkeeping
    <2> QED
      BY <1>2, <2>2, <2>3, <2>4, <2>5
  <1>9. CASE DeadlinePasses
    <2>1. Update(Stall(tracker, now)) /\ HasStallDeadline(tracker)
      BY <1>9 DEF DeadlinePasses, StallDue
    <2> QED
      BY <1>1, <1>2, <2>1, StallFields, TrackerFields
      DEF Fine, Working, Outage, Status, HasStallDeadline
  <1>10. ASSUME NEW reason \in EndReason, Update(End(tracker, reason, now))
         PROVE  RecordInv'
    BY <1>1, <1>2, <1>10, EndFields, TrackerFields DEF Fine, Outage
  <1>11. CASE SubscriptionEnds
    BY <1>10, <1>11 DEF SubscriptionEnds, EndReason
  <1>12. CASE TrackerDropped
    BY <1>10, <1>12 DEF TrackerDropped, EndReason
  <1>13. CASE Tick
    BY <1>13, TrackerFields
    DEF Tick, RecordInv, LagIsVisible, FailuresCountTheOutage,
        OutageBookkeeping, LastSign, Instant
  <1>14. CASE UNCHANGED vars
    BY <1>14 DEF vars, RecordInv, LagIsVisible, FailuresCountTheOutage,
                 OutageBookkeeping, LastSign
  <1> QED
    BY <1>3, <1>4, <1>5, <1>6, <1>7, <1>8, <1>9, <1>11, <1>12, <1>13, <1>14
    DEF Next

LEMMA InvariantHolds == Spec => [](FlagsOK /\ RecordInv)
  BY InitEstablishes, FlagsPreserved, StepPreserves, PTL DEF Spec

(* Until traffic is seen again, a refused subscription stays refused.      *)
RefusedUntilAlive == ~aliveSince => tracker.status \in {"Rejected", "Ended"}

(* What one step can do to an ended, a refused and a broken subscription.  *)
StepEffects ==
  /\ tracker.status = "Ended" => tracker' = tracker
  /\ tracker.status \in Outage /\ tracker'.status = "Recovered" =>
       tracker'.outage = SaturatingSince(now, tracker.outageSince)
  /\ aliveSince' \/ (~aliveSince /\ tracker.status # "Rejected")
       \/ tracker'.status \in {"Rejected", "Ended"}

LEMMA EffectsOfStep ==
  ASSUME FlagsOK, RecordInv, RefusedUntilAlive, [Next]_vars
  PROVE  StepEffects
  <1>1. tracker \in Tracker /\ now \in Nat /\ FlagsOK
    BY DEF RecordInv
  <1>2. ASSUME NEW g \in Tracker, NEW e \in BOOLEAN, g.status = tracker.status,
               g.outageSince = tracker.outageSince,
               tracker.status # "Ended",
               tracker'.status = RecordActivity(g, e, now).status,
               tracker'.outage = RecordActivity(g, e, now).outage,
               aliveSince' = TRUE \/ (aliveSince' = aliveSince /\ e = FALSE)
        PROVE  StepEffects
    <2> DEFINE n == RecordActivity(g, e, now)
    <2>1. /\ EndsOutage(g, e) /\ g.status # "Connecting" =>
                n.outage = SaturatingSince(now, g.outageSince)
          /\ ~EndsOutage(g, e) => n.status = g.status
      BY <1>1, <1>2, RecordActivityFields
    <2>2. e = FALSE /\ g.status = "Rejected" => ~EndsOutage(g, e)
      BY DEF EndsOutage
    <2> HIDE DEF n
    <2>3. tracker'.status = n.status /\ tracker'.outage = n.outage
      BY <1>2 DEF n
    <2> QED
      BY <1>1, <1>2, <2>1, <2>2, <2>3
      DEF StepEffects, Outage, RefusedUntilAlive, FlagsOK
  <1>3. CASE ServerAccepts
    <2>1. PICK g \in Tracker :
            /\ Connected(tracker, now) = RecordActivity(g, FALSE, now)
            /\ g.status = tracker.status
            /\ g.outageSince = tracker.outageSince
      BY <1>1, ConnectedIsActivity
    <2> QED
      BY <1>2, <1>3, <2>1 DEF ServerAccepts, Update, Registered
  <1>4. CASE TrafficArrives
    <2>1. CASE Update(TransportActivity(tracker, now))
      BY <1>1, <1>2, <1>4, <2>1
      DEF TrafficArrives, TransportActivity, Update, Accepted, Registered
    <2>2. CASE Update(DataUpdate(tracker, now))
      BY <1>1, <1>2, <1>4, <2>2, DataUpdateFields
      DEF TrafficArrives, TransportActivity, Update, Accepted, Registered
    <2> QED
      BY <1>4, <2>1, <2>2 DEF TrafficArrives
  <1>5. ASSUME NEW h \in Tracker, tracker' = h, aliveSince' = aliveSince,
               tracker.status # "Ended",
               \/ h.status = tracker.status
               \/ /\ tracker.status # "Rejected"
                  /\ h.status \in {"Degraded", "Stalled"}
        PROVE  StepEffects
    BY <1>1, <1>5 DEF StepEffects, RefusedUntilAlive, Outage, FlagsOK
  <1>6. ASSUME NEW g \in Tracker, Update(Problem(g, now)),
               g.status = tracker.status, aliveSince' = aliveSince,
               tracker.status # "Ended"
        PROVE  StepEffects
    <2> DEFINE h == Problem(g, now)
    <2>1. /\ h \in Tracker
          /\ h.status = IF tracker.status \in Fine THEN "Degraded"
                        ELSE tracker.status
      BY <1>1, <1>6, ProblemFields
    <2>2. tracker' = h
      BY <1>6 DEF Update
    <2> HIDE DEF h
    <2> QED
      BY <1>5, <1>6, <2>1, <2>2 DEF Fine
  <1>7. CASE SomethingFails
    BY <1>1, <1>6, <1>7 DEF SomethingFails, Registered
  <1>8. CASE EventDropped
    <2>1. PICK g \in Tracker : /\ Lagging(tracker, now) = Problem(g, now)
                               /\ g.status = tracker.status
      BY <1>1, LaggingIsProblem
    <2> QED
      BY <1>6, <1>8, <2>1 DEF EventDropped, Accepted, Registered
  <1>9. CASE ResyncStarts
    BY <1>1, <1>5, <1>9, CaughtUpFields DEF ResyncStarts, Update, Registered
  <1>10. CASE ServerRefuses
    <2>1. /\ tracker' = Reject(tracker, now)
          /\ tracker.status # "Ended"
      BY <1>10 DEF ServerRefuses, Update, Registered
    <2>2. tracker'.status = "Rejected"
      BY <1>1, <2>1, RejectFields
    <2> QED
      BY <2>1, <2>2 DEF StepEffects
  <1>11. CASE DeadlinePasses
    <2>1. /\ tracker' = Stall(tracker, now)
          /\ HasStallDeadline(tracker)
          /\ aliveSince' = aliveSince
      BY <1>11 DEF DeadlinePasses, StallDue, Update
    <2>2. tracker' \in Tracker /\ tracker'.status = "Stalled"
      BY <1>1, <2>1, StallFields
    <2> QED
      BY <1>5, <2>1, <2>2 DEF HasStallDeadline
  <1>12. ASSUME NEW reason \in EndReason, Update(End(tracker, reason, now))
         PROVE  StepEffects
    <2>1. /\ tracker'.status = "Ended"
          /\ tracker.status = "Ended" => tracker' = tracker
      BY <1>1, <1>12, EndFields DEF Update
    <2> QED
      BY <2>1 DEF StepEffects
  <1>13. CASE SubscriptionEnds
    BY <1>12, <1>13 DEF SubscriptionEnds, EndReason
  <1>14. CASE TrackerDropped
    BY <1>12, <1>14 DEF TrackerDropped, EndReason
  <1>15. CASE Tick \/ UNCHANGED vars
    BY <1>1, <1>15 DEF Tick, vars, StepEffects, RefusedUntilAlive, FlagsOK, Outage
  <1> QED
    BY <1>3, <1>4, <1>7, <1>8, <1>9, <1>10, <1>11, <1>13, <1>14, <1>15 DEF Next

LEMMA RefusalPersists ==
  FlagsOK /\ RecordInv /\ RefusedUntilAlive /\ [Next]_vars => RefusedUntilAlive'
  <1> SUFFICES ASSUME FlagsOK, RecordInv, RefusedUntilAlive, [Next]_vars
               PROVE  RefusedUntilAlive'
    OBVIOUS
  <1>1. StepEffects
    BY EffectsOfStep
  <1> QED
    BY <1>1 DEF StepEffects, RefusedUntilAlive

LEMMA FullInvariant == Spec => [](FlagsOK /\ RecordInv /\ RefusedUntilAlive)
  <1>1. Init => RefusedUntilAlive
    BY DEF Init, RefusedUntilAlive
  <1> QED
    BY <1>1, InvariantHolds, RefusalPersists, PTL DEF Spec

-----------------------------------------------------------------------------
(***************************************************************************)
(* What follows for every behaviour.                                       *)
(***************************************************************************)

(* Every field keeps the type of its Rust counterpart; in particular the    *)
(* counters saturate instead of overflowing.                                *)
THEOREM TypeCorrect == Spec => []TypeOK
  <1>1. FlagsOK /\ RecordInv => TypeOK
    BY DEF FlagsOK, RecordInv, TypeOK
  <1> QED
    BY <1>1, InvariantHolds, PTL

(* A consumer that lost events is never shown as working (health.rs,        *)
(* lagging and record_activity).                                            *)
THEOREM LagStaysVisible == Spec => []LagIsVisible
  <1>1. RecordInv => LagIsVisible
    BY DEF RecordInv
  <1> QED
    BY <1>1, InvariantHolds, PTL

(* The failure counter is zero exactly while nothing is wrong, as the       *)
(* documentation of SubscriptionHealth::failures says.                      *)
THEOREM FailuresCounted == Spec => []FailuresCountTheOutage
  <1>1. RecordInv => FailuresCountTheOutage
    BY DEF RecordInv
  <1> QED
    BY <1>1, InvariantHolds, PTL

(* The outage a recovery reports starts no earlier than the last sign of    *)
(* life before it and no later than the moment it became visible, although  *)
(* outage_since is kept across problems, stalls and rejections.             *)
THEOREM RecoveriesAreHonest == Spec => RecoveryReportsTheOutage
  <1>1. FlagsOK /\ RecordInv /\ RefusedUntilAlive /\ [Next]_vars
          => (tracker.status \in Outage /\ tracker'.status = "Recovered"
                => /\ tracker'.outage >= now - brokenAt
                   /\ tracker'.outage <= now - workingAt)
    <2> SUFFICES ASSUME FlagsOK, RecordInv, RefusedUntilAlive, [Next]_vars,
                        tracker.status \in Outage, tracker'.status = "Recovered"
                 PROVE  /\ tracker'.outage >= now - brokenAt
                        /\ tracker'.outage <= now - workingAt
      OBVIOUS
    <2>1. tracker'.outage = SaturatingSince(now, tracker.outageSince)
      BY EffectsOfStep DEF StepEffects
    <2>2. /\ workingAt <= tracker.outageSince
          /\ tracker.outageSince <= brokenAt
          /\ brokenAt <= now
          /\ now \in Nat /\ workingAt \in Nat /\ brokenAt \in Nat
          /\ tracker.outageSince \in Nat
      BY TrackerFields DEF RecordInv, OutageBookkeeping
    <2> QED
      BY <2>1, <2>2 DEF SaturatingSince
  <1> QED
    BY <1>1, FullInvariant, PTL DEF Spec, RecoveryReportsTheOutage

(* Between two refusals that yield their error the connection carried       *)
(* traffic: connected() alone does not end a rejection.                     *)
THEOREM RefusalsYieldedOnce == Spec => RefusalYieldedOncePerEpisode
  <1>1. FlagsOK /\ RecordInv /\ RefusedUntilAlive /\ [Next]_vars
          => (tracker.status # "Rejected" /\ tracker'.status = "Rejected"
                => aliveSince)
    BY EffectsOfStep DEF StepEffects, RefusedUntilAlive
  <1> QED
    BY <1>1, FullInvariant, PTL DEF Spec, RefusalYieldedOncePerEpisode

(* Once ended, the tracker is never written again, not even by Drop.       *)
THEOREM EndIsFinal == Spec => EndedIsFinal
  <1>1. FlagsOK /\ RecordInv /\ RefusedUntilAlive /\ [Next]_vars
          => (tracker.status = "Ended" => tracker' = tracker)
    BY EffectsOfStep DEF StepEffects
  <1> QED
    BY <1>1, FullInvariant, PTL DEF Spec, EndedIsFinal
=============================================================================
