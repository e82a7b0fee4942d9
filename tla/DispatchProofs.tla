--------------------------- MODULE DispatchProofs ---------------------------
(***************************************************************************)
(* Proofs about Dispatch, for any finite set of subscriptions, any capacity  *)
(* and any number of frames, refusals, failures and silences.              *)
(***************************************************************************)
EXTENDS Dispatch, TLAPS

USE NeverAssumption, CounterAssumption, DispatchAssumption

Report == {"connected", "activity", "data", "problem", "refusal", "lag", "caught up"}

(* Reports that are no sign of life.                                       *)
Quiet == Report \ {"activity", "data"}

Stays(i, trackers) == trackers[i].status = "Ended" <=> tracker[i].status = "Ended"

-----------------------------------------------------------------------------
(***************************************************************************)
(* What reports do to the trackers.                                        *)
(***************************************************************************)

(* A tracker with another field set: still a tracker, of the same status.    *)
Same(n, h) == n \in Tracker /\ n.status = h.status

LEMMA FieldSet ==
  ASSUME NEW h \in Tracker
  PROVE  /\ \A s \in Status : SetStatus(h, s, 0) \in Tracker /\ SetStatus(h, s, 0).status = s
         /\ \A n \in 0 .. MaxFailures    : Same([h EXCEPT !.failures = n], h)
         /\ \A n \in 0 .. MaxConnections : Same([h EXCEPT !.connections = n], h)
         /\ \A n \in Nat : /\ Same([h EXCEPT !.outage = n], h)
                           /\ Same([h EXCEPT !.outageSince = n], h)
                           /\ Same([h EXCEPT !.lastActivity = n], h)
                           /\ Same([h EXCEPT !.lastUpdate = n], h)
         /\ \A b \in BOOLEAN : Same([h EXCEPT !.lagging = b], h)
  BY DEF SetStatus, Tracker, Same, Instant

LEMMA Counted ==
  ASSUME NEW h \in Tracker
  PROVE  /\ SaturatingInc(h.failures, MaxFailures) \in 0 .. MaxFailures
         /\ SaturatingInc(h.connections, MaxConnections) \in 0 .. MaxConnections
         /\ SaturatingSince(0, h.outageSince) \in Nat /\ LastSign(h) \in Nat
         /\ h.created \in Nat /\ h.outageSince \in Nat /\ h.status \in Status
  BY DEF Tracker, SaturatingInc, SaturatingSince, LastSign, Instant

LEMMA ProblemKeeps ==
  ASSUME NEW h \in Tracker
  PROVE  /\ Problem(h, 0) \in Tracker
         /\ Problem(h, 0).status = IF h.status \in Fine THEN "Degraded" ELSE h.status
  <1> DEFINE failed == [h EXCEPT !.failures = SaturatingInc(@, MaxFailures)]
             degraded == SetStatus(failed, "Degraded", 0)
  <1>1. Same(failed, h)
    BY FieldSet, Counted
  <1>2. Problem(h, 0) = IF h.status \in Fine
                        THEN [degraded EXCEPT
                                !.outageSince = IF h.status = "Connecting" THEN h.created ELSE 0]
                        ELSE failed
    BY DEF Problem
  <1> HIDE DEF failed
  <1>3. degraded \in Tracker /\ degraded.status = "Degraded"
    BY <1>1, FieldSet DEF Same, Status, Outage
  <1> DEFINE since == IF h.status = "Connecting" THEN h.created ELSE 0
             dated == [degraded EXCEPT !.outageSince = since]
  <1> HIDE DEF degraded
  <1>4. since \in Nat
    BY Counted
  <1>5. Problem(h, 0) = IF h.status \in Fine THEN dated ELSE failed
    BY <1>2 DEF degraded
  <1> HIDE DEF since
  <1>6. Same(dated, degraded)
    BY <1>3, <1>4, FieldSet
  <1> QED
    BY <1>1, <1>3, <1>5, <1>6 DEF Same

LEMMA ActivityKeeps ==
  ASSUME NEW h \in Tracker, NEW e \in BOOLEAN
  PROVE  /\ RecordActivity(h, e, 0) \in Tracker
         /\ RecordActivity(h, e, 0).status =
              IF ~EndsOutage(h, e) THEN h.status
              ELSE IF h.status = "Connecting" THEN "Healthy" ELSE "Recovered"
  <1> DEFINE seen == [h EXCEPT !.lastActivity = 0]
             healthy == SetStatus(seen, "Healthy", 0)
             recovered == SetStatus(seen, "Recovered", 0)
             failures(g) == [g EXCEPT !.failures = 0]
  <1>1. Same(seen, h)
    BY FieldSet
  <1> HIDE DEF seen
  <1>2. /\ healthy \in Tracker /\ healthy.status = "Healthy"
        /\ recovered \in Tracker /\ recovered.status = "Recovered"
    BY <1>1, FieldSet DEF Same, Status, Fine
  <1> HIDE DEF healthy, recovered
  <1>3. Same(failures(healthy), healthy) /\ Same(failures(recovered), recovered)
    BY <1>2, FieldSet
  <1>4. RecordActivity(h, e, 0) =
          IF ~EndsOutage(h, e) THEN seen
          ELSE IF h.status = "Connecting" THEN failures(healthy)
          ELSE [failures(recovered) EXCEPT !.outage = SaturatingSince(0, seen.outageSince)]
    BY <1>1 DEF RecordActivity, WorkingAgain, seen, healthy, recovered, Same
  <1> HIDE DEF failures
  <1>5. SaturatingSince(0, seen.outageSince) \in Nat
    BY <1>1, Counted DEF Same
  <1>6. Same([failures(recovered) EXCEPT !.outage = SaturatingSince(0, seen.outageSince)],
             failures(recovered))
    BY <1>3, <1>5, FieldSet DEF Same
  <1> QED
    BY <1>1, <1>2, <1>3, <1>4, <1>6 DEF Same

LEMMA RejectKeeps ==
  ASSUME NEW h \in Tracker, h.status # "Ended"
  PROVE  Reject(h, 0) \in Tracker /\ Reject(h, 0).status = "Rejected"
  <1> DEFINE failed == [h EXCEPT !.failures = SaturatingInc(@, MaxFailures)]
             rejected == SetStatus(failed, "Rejected", 0)
  <1>1. Same(failed, h)
    BY FieldSet, Counted
  <1>2. Reject(h, 0) = IF FirstRefusal(h)
                       THEN [rejected EXCEPT
                               !.outageSince = IF h.status \in Working THEN 0 ELSE @]
                       ELSE failed
    BY DEF Reject
  <1> HIDE DEF failed
  <1>3. rejected \in Tracker /\ rejected.status = "Rejected"
    BY <1>1, FieldSet DEF Same, Status, Outage
  <1> DEFINE since == IF h.status \in Working THEN 0 ELSE rejected.outageSince
             dated == [rejected EXCEPT !.outageSince = since]
  <1>4. Reject(h, 0) = IF FirstRefusal(h) THEN dated ELSE failed
    BY <1>2
  <1> HIDE DEF rejected
  <1>5. since \in Nat
    BY <1>3, Counted
  <1> HIDE DEF since
  <1>6. Same(dated, rejected)
    BY <1>3, <1>5, FieldSet
  <1> QED
    BY <1>1, <1>3, <1>4, <1>6 DEF Same, FirstRefusal

LEMMA StallKeeps ==
  ASSUME NEW h \in Tracker, HasStallDeadline(h)
  PROVE  Stall(h, 0) \in Tracker /\ Stall(h, 0).status = "Stalled"
  <1> DEFINE stalled == SetStatus(h, "Stalled", 0)
  <1>1. stalled \in Tracker /\ stalled.status = "Stalled"
    BY FieldSet DEF Status, Outage
  <1> DEFINE dated == [stalled EXCEPT !.outageSince = LastSign(h)]
  <1>2. /\ h.status \in Fine => Stall(h, 0) = dated
        /\ h.status \notin Fine => Stall(h, 0) = stalled
    BY Counted DEF Stall, HasStallDeadline, Status, Fine, Outage
  <1> HIDE DEF stalled
  <1>3. Same(dated, stalled)
    BY <1>1, FieldSet, Counted
  <1> QED
    BY <1>1, <1>2, <1>3 DEF Same

LEMMA EndKeeps ==
  ASSUME NEW h \in Tracker, NEW reason \in EndReason
  PROVE  End(h, reason, 0) \in Tracker /\ End(h, reason, 0).status = "Ended"
  BY DEF End, SetStatus, Tracker, Fine, Outage, Status, EndReason, Instant

LEMMA ApplyFields ==
  ASSUME NEW h \in Tracker, h.status # "Ended", NEW r \in Report
  PROVE  /\ Apply(r, h) \in Tracker
         /\ Apply(r, h).status # "Ended"
         /\ r \in Quiet /\ h.status = "Rejected" => Apply(r, h).status = "Rejected"
         /\ r = "refusal" => Apply(r, h).status = "Rejected"
  <1>1. CASE r = "connected"
    <2> DEFINE g == [h EXCEPT !.connections = SaturatingInc(@, MaxConnections)]
    <2>1. Same(g, h)
      BY FieldSet, Counted
    <2>2. Apply(r, h) = RecordActivity(g, FALSE, 0)
      BY <1>1 DEF Apply, Connected, Now
    <2> HIDE DEF g
    <2>3. ~(h.status = "Rejected" /\ EndsOutage(g, FALSE))
      BY <2>1 DEF EndsOutage, Same
    <2> QED
      BY <1>1, <2>1, <2>2, <2>3, ActivityKeeps DEF Same
  <1>2. CASE r \in {"activity", "data"}
    <2> DEFINE n == RecordActivity(h, TRUE, 0)
    <2>1. n \in Tracker /\ n.status # "Ended"
      BY ActivityKeeps
    <2>2. Apply(r, h) \in {n, [n EXCEPT !.lastUpdate = 0]}
      BY <1>2 DEF Apply, TransportActivity, DataUpdate, Now
    <2> HIDE DEF n
    <2>3. Same([n EXCEPT !.lastUpdate = 0], n)
      BY <2>1, FieldSet
    <2> QED
      BY <1>2, <2>1, <2>2, <2>3 DEF Quiet, Same
  <1>3. \A g \in Tracker : g.status # "Ended" =>
          /\ Problem(g, 0) \in Tracker
          /\ Problem(g, 0).status # "Ended"
          /\ g.status = "Rejected" => Problem(g, 0).status = "Rejected"
    BY ProblemKeeps DEF Fine
  <1>4. CASE r = "problem"
    <2>1. Apply(r, h) = Problem(h, 0)
      BY <1>4 DEF Apply, Now
    <2> QED
      BY <1>3, <1>4, <2>1
  <1>5. CASE r = "refusal"
    <2>1. Apply(r, h) = Reject(h, 0)
      BY <1>5 DEF Apply, Now
    <2> QED
      BY <1>5, <2>1, RejectKeeps
  <1>6. CASE r = "lag"
    <2> DEFINE g == [h EXCEPT !.lagging = TRUE]
    <2>1. Same(g, h)
      BY FieldSet
    <2>2. Apply(r, h) = Problem(g, 0)
      BY <1>6 DEF Apply, Lagging, Now
    <2> HIDE DEF g
    <2> QED
      BY <1>3, <1>6, <2>1, <2>2 DEF Same
  <1>7. CASE r = "caught up"
    <2>1. Apply(r, h) = [h EXCEPT !.lagging = FALSE]
      BY <1>7 DEF Apply, CaughtUp
    <2> QED
      BY <1>7, <2>1, FieldSet DEF Same
  <1> QED
    BY <1>1, <1>2, <1>4, <1>5, <1>6, <1>7 DEF Report

LEMMA WithHealthFields ==
  ASSUME NEW trackers \in [Slots -> Tracker], \A i \in Slots : Stays(i, trackers),
         NEW s, NEW ids, NEW r \in Report
  PROVE  LET n == WithHealth(trackers, s, ids, r)
         IN  /\ n \in [Slots -> Tracker]
             /\ \A i \in Slots :
                  /\ Stays(i, n)
                  /\ ~(i \in ids /\ Belongs(i, s)) => n[i] = trackers[i]
                  /\ r \in Quiet /\ trackers[i].status = "Rejected" => n[i].status = "Rejected"
                  /\ r = "refusal" /\ i \in ids /\ Belongs(i, s) => n[i].status = "Rejected"
  <1> DEFINE n == WithHealth(trackers, s, ids, r)
             reached(i) == i \in ids /\ Belongs(i, s)
  <1>1. ASSUME NEW i \in Slots
        PROVE  /\ reached(i) => n[i] = Apply(r, trackers[i])
               /\ ~reached(i) => n[i] = trackers[i]
    BY DEF WithHealth
  <1>2. ASSUME NEW i \in Slots, reached(i)
        PROVE  trackers[i] \in Tracker /\ trackers[i].status # "Ended"
    BY <1>2 DEF Belongs, Registered, Stays
  <1>3. ASSUME NEW i \in Slots, reached(i)
        PROVE  /\ n[i] \in Tracker
               /\ n[i].status # "Ended"
               /\ r \in Quiet /\ trackers[i].status = "Rejected" => n[i].status = "Rejected"
               /\ r = "refusal" => n[i].status = "Rejected"
    BY <1>1, <1>2, <1>3, ApplyFields
  <1>4. ASSUME NEW i \in Slots
        PROVE  n[i] \in Tracker
    BY <1>1, <1>3
  <1>5. n = [i \in Slots |-> n[i]]
    BY DEF WithHealth
  <1> HIDE DEF n
  <1>6. n \in [Slots -> Tracker]
    BY <1>4, <1>5
  <1>7. ASSUME NEW i \in Slots
        PROVE  /\ Stays(i, n)
               /\ ~reached(i) => n[i] = trackers[i]
               /\ r \in Quiet /\ trackers[i].status = "Rejected" => n[i].status = "Rejected"
               /\ r = "refusal" /\ reached(i) => n[i].status = "Rejected"
    <2>1. CASE reached(i)
      BY <1>2, <1>3, <2>1 DEF Stays
    <2>2. CASE ~reached(i)
      BY <1>1, <2>2 DEF Stays
    <2> QED
      BY <2>1, <2>2
  <1> QED
    BY <1>6, <1>7 DEF n

(* The case that nothing was reported before.                              *)
LEMMA ReportFields ==
  ASSUME tracker \in [Slots -> Tracker], NEW s, NEW ids, NEW r \in Report
  PROVE  LET n == WithHealth(tracker, s, ids, r)
         IN  /\ n \in [Slots -> Tracker]
             /\ \A i \in Slots :
                  /\ Stays(i, n)
                  /\ ~(i \in ids /\ Belongs(i, s)) => n[i] = tracker[i]
                  /\ r \in Quiet /\ tracker[i].status = "Rejected" => n[i].status = "Rejected"
                  /\ r = "refusal" /\ i \in ids /\ Belongs(i, s) => n[i].status = "Rejected"
  BY WithHealthFields DEF Stays

LEMMA RefuseFields ==
  ASSUME tracker \in [Slots -> Tracker], NEW s, NEW ids, Refuse(s, ids)
  PROVE  /\ tracker' \in [Slots -> Tracker]
         /\ \A i \in Slots :
              /\ Stays(i, tracker')
              /\ tracker[i].status = "Rejected" => tracker'[i].status = "Rejected"
              /\ i \in FirstRefused(s, ids) => tracker'[i].status = "Rejected"
  <1> DEFINE m == WithHealth(tracker, s, ids, "refusal")
             first == FirstRefused(s, ids)
  <1>1. "refusal" \in Quiet /\ "lag" \in Quiet /\ Quiet \subseteq Report
    BY DEF Quiet, Report
  <1>2. /\ m \in [Slots -> Tracker]
        /\ \A i \in Slots :
             /\ Stays(i, m)
             /\ tracker[i].status = "Rejected" => m[i].status = "Rejected"
             /\ i \in ids /\ Belongs(i, s) => m[i].status = "Rejected"
    BY <1>1, ReportFields
  <1>3. tracker' = WithHealth(m, s, Falls(first), "lag")
    BY DEF Refuse
  <1>4. \A i \in Slots : i \in first => i \in ids /\ Belongs(i, s)
    BY DEF FirstRefused
  <1> HIDE DEF m, first
  <1>5. /\ tracker' \in [Slots -> Tracker]
        /\ \A i \in Slots :
             /\ Stays(i, tracker')
             /\ m[i].status = "Rejected" => tracker'[i].status = "Rejected"
    BY <1>1, <1>2, <1>3, WithHealthFields
  <1> QED
    BY <1>2, <1>4, <1>5 DEF first
-----------------------------------------------------------------------------
(***************************************************************************)
(* The trackers and who was told.                                          *)
(***************************************************************************)

(* Whoever was told of a refusal, and has shown no sign of life since, is    *)
(* still rejected, or gone.                                                *)
ToldIsRefused ==
  told \subseteq {i \in Slots : tracker[i].status \in {"Rejected", "Ended"}}

TrackersTyped == tracker \in [Slots -> Tracker]

(* Nobody comes or goes.                                                   *)
Kept == \A i \in Slots : Stays(i, tracker')

(* A step that tells nobody and reports no sign of life.                   *)
LEMMA QuietReport ==
  ASSUME TrackersTyped, ToldIsRefused, NEW s, NEW ids, NEW r \in Quiet,
         tracker' = WithHealth(tracker, s, ids, r), told' \subseteq told
  PROVE  TrackersTyped' /\ ToldIsRefused' /\ Kept
  <1>1. r \in Report
    BY DEF Quiet
  <1>2. /\ tracker' \in [Slots -> Tracker]
        /\ \A i \in Slots :
             /\ Stays(i, tracker')
             /\ tracker[i].status = "Rejected" => tracker'[i].status = "Rejected"
    BY <1>1, ReportFields DEF TrackersTyped
  <1> QED
    BY <1>2 DEF TrackersTyped, ToldIsRefused, Stays, Kept

(* A sign of life of those that are no longer counted as told.             *)
LEMMA LoudReport ==
  ASSUME TrackersTyped, ToldIsRefused, NEW s, NEW ids, NEW r \in Report,
         tracker' = WithHealth(tracker, s, ids, r), told' \subseteq told,
         \A i \in Slots : i \in ids /\ Belongs(i, s) => i \notin told'
  PROVE  TrackersTyped' /\ ToldIsRefused' /\ Kept
  <1>1. /\ tracker' \in [Slots -> Tracker]
        /\ \A i \in Slots : Stays(i, tracker')
        /\ \A i \in Slots : i \in told' => tracker'[i] = tracker[i]
    BY ReportFields DEF TrackersTyped
  <1> QED
    BY <1>1 DEF TrackersTyped, ToldIsRefused, Kept

LEMMA RefusalReport ==
  ASSUME TrackersTyped, ToldIsRefused, NEW s, NEW ids, Refuse(s, ids)
  PROVE  TrackersTyped' /\ ToldIsRefused' /\ Kept
  <1>1. told' = told \cup FirstRefused(s, ids) /\ FirstRefused(s, ids) \subseteq Slots
    BY DEF Refuse, FirstRefused, Belongs, Registered
  <1> QED
    BY <1>1, RefuseFields DEF TrackersTyped, ToldIsRefused, Stays, Kept

LEMMA UnchangedTrackers ==
  ASSUME TrackersTyped, ToldIsRefused, UNCHANGED <<tracker, told>>
  PROVE  TrackersTyped' /\ ToldIsRefused' /\ Kept
  BY DEF TrackersTyped, ToldIsRefused, Kept, Stays

LEMMA TaskTrackers ==
  ASSUME TrackersTyped, ToldIsRefused, NEW s \in Scopes, Connection(s) \/ Dispatching(s)
  PROVE  TrackersTyped' /\ ToldIsRefused' /\ Kept
  <1> USE DEF entries, streams
  <1> Quiet = {"connected", "problem", "refusal", "lag", "caught up"} /\ Quiet \subseteq Report
      /\ "activity" \in Report /\ "data" \in Report
    BY DEF Quiet, Report
  <1>1. CASE Connection(s)
    <2>1. CASE Open(s)
      BY <2>1, QuietReport DEF Open
    <2>2. CASE ServerAccepts(s)
      BY <2>2, QuietReport DEF ServerAccepts
    <2>3. CASE Keepalive(s)
      <3>1. \A i \in Slots : i \in targets[s] /\ Belongs(i, s) => i \notin told'
        BY <2>3 DEF Keepalive, Live
      <3> QED
        BY <2>3, <3>1, LoudReport DEF Keepalive
    <2>4. CASE ServerRefuses(s)
      BY <2>4, RefusalReport DEF ServerRefuses
    <2>5. CASE ConnectionFails(s)
      BY <2>5, QuietReport DEF ConnectionFails
    <2>6. CASE ConnectionEnds(s)
      BY <2>6, UnchangedTrackers DEF ConnectionEnds
    <2>7. CASE DeadlinePasses(s)
      <3>1. PICK i \in Live(s) : /\ HasStallDeadline(tracker[i])
                                 /\ tracker' = [tracker EXCEPT ![i] = Stall(@, Now)]
        BY <2>7 DEF DeadlinePasses
      <3>2. i \in Slots
        BY DEF Live
      <3>3. Stall(tracker[i], Now) \in Tracker
        BY <3>1, <3>2, StallKeeps DEF TrackersTyped, Now
      <3>4. i \notin told
        BY <3>1 DEF ToldIsRefused, HasStallDeadline
      <3> HIDE DEF Now
      <3>5. \A j \in Slots : j # i => tracker'[j] = tracker[j]
        BY <3>1 DEF TrackersTyped
      <3>6. TrackersTyped'
        BY <3>1, <3>2, <3>3 DEF TrackersTyped
      <3>7. tracker[i].status # "Ended" /\ tracker'[i].status # "Ended"
        <4>1. tracker'[i] = Stall(tracker[i], Now)
          BY <3>1, <3>2 DEF TrackersTyped
        <4> QED
          BY <3>1, <3>2, <4>1, StallKeeps DEF HasStallDeadline, TrackersTyped, Now
      <3>8. Kept
        BY <3>5, <3>7 DEF Kept, Stays
      <3> QED
        BY <2>7, <3>4, <3>5, <3>6, <3>8 DEF DeadlinePasses, ToldIsRefused
    <2> QED
      BY <1>1, <2>1, <2>2, <2>3, <2>4, <2>5, <2>6, <2>7 DEF Connection
  <1>2. CASE Dispatching(s)
    <2>1. CASE FrameArrives(s)
      BY <2>1, UnchangedTrackers DEF FrameArrives
    <2>2. ASSUME NEW i \in Slots, PayloadArrives(s, i)
          PROVE  TrackersTyped' /\ ToldIsRefused' /\ Kept
      <3>1. CASE HasRoom(i)
        <4>1. tracker' = WithHealth(tracker, s, {i}, "data")
          BY <2>2, <3>1 DEF PayloadArrives
        <4>2. told' \subseteq told /\ \A j \in Slots : j \in {i} /\ Belongs(j, s) => j \notin told'
          BY <2>2, <3>1 DEF PayloadArrives
        <4> QED
          BY <4>1, <4>2, LoudReport
      <3>2. CASE ~HasRoom(i)
        <4>1. tracker' = WithHealth(tracker, s, Falls({i}), "lag") /\ told' = told
          BY <2>2, <3>2 DEF PayloadArrives
        <4> QED
          BY <4>1, QuietReport
      <3> QED
        BY <3>1, <3>2
    <2>3. ASSUME NEW i \in Slots, PayloadFails(s, i)
          PROVE  TrackersTyped' /\ ToldIsRefused' /\ Kept
      BY <2>3, QuietReport DEF PayloadFails
    <2>4. ASSUME NEW i \in Slots, SlotRefused(s, i)
          PROVE  TrackersTyped' /\ ToldIsRefused' /\ Kept
      BY <2>4, RefusalReport DEF SlotRefused
    <2>5. CASE SignOfLife(s)
      <3> DEFINE alive == targets[s] \ work[s].failed
      <3>1. /\ tracker' = WithHealth(tracker, s, alive, "activity")
            /\ told' = told \ (alive \cap Live(s))
        BY <2>5 DEF SignOfLife
      <3>2. \A i \in Slots : i \in alive /\ Belongs(i, s) => i \notin told'
        BY <3>1 DEF Live
      <3> HIDE DEF alive
      <3> QED
        BY <3>1, <3>2, LoudReport
    <2>6. CASE DocumentRefused(s)
      BY <2>6, RefusalReport DEF DocumentRefused
    <2> QED
      BY <1>2, <2>1, <2>2, <2>3, <2>4, <2>5, <2>6 DEF Dispatching
  <1> QED
    BY <1>1, <1>2

LEMMA ConsumerTrackers ==
  ASSUME TrackersTyped, ToldIsRefused, NEW i \in Slots, Take(i) \/ Deregister(i)
  PROVE  /\ TrackersTyped' /\ ToldIsRefused'
         /\ Deregister(i) => Registered' = Registered \ {i}
  <1>1. CASE Take(i)
    <2>1. UNCHANGED <<tracker, told>>
      BY <1>1 DEF Take
    <2>2. ~Deregister(i)
      BY <2>1, EndKeeps DEF Deregister, Registered, TrackersTyped, EndReason, Now
    <2> QED
      BY <2>1, <2>2, UnchangedTrackers
  <1>2. CASE Deregister(i)
    <2>1. tracker' = [tracker EXCEPT ![i] = End(@, "Cancelled", Now)] /\ told' = told
      BY <1>2 DEF Deregister
    <2>2. End(tracker[i], "Cancelled", Now) \in Tracker
          /\ End(tracker[i], "Cancelled", Now).status = "Ended"
      <3>1. tracker[i] \in Tracker /\ "Cancelled" \in EndReason
        BY DEF TrackersTyped, EndReason
      <3> QED
        BY <3>1, EndKeeps DEF Now
    <2> HIDE DEF Now
    <2>3. tracker'[i].status = "Ended" /\ \A j \in Slots : j # i => tracker'[j] = tracker[j]
      BY <2>1, <2>2 DEF TrackersTyped
    <2> QED
      BY <2>1, <2>2, <2>3 DEF TrackersTyped, ToldIsRefused, Registered
  <1> QED
    BY <1>1, <1>2
-----------------------------------------------------------------------------
(***************************************************************************)
(* The queues, and the marks of the entries.                               *)
(***************************************************************************)

QueuesTyped ==
  /\ queue \in [Slots -> Seq(Event)]
  /\ \A i \in Slots : Len(queue[i]) <= Capacity

(* Isolated and lagging slots are registered, and a replay is owed to slots  *)
(* that moved only.                                                        *)
Placed ==
  /\ isolated \subseteq Registered
  /\ resync \subseteq isolated
  /\ lagging \subseteq Registered

(* A delivery lengthens only the queues it is for, by its event.           *)
LEMMA DeliverFields ==
  ASSUME QueuesTyped, NEW ids, NEW event \in Event, Deliver(ids, event)
  PROVE  /\ QueuesTyped'
         /\ lagging' \subseteq lagging \cup Registered
         /\ \A i \in Slots : Len(queue'[i]) > Len(queue[i])
               => i \in ids /\ queue'[i][Len(queue'[i])] = event
  <1>1. ASSUME NEW i \in Slots
        PROVE  /\ queue'[i] \in Seq(Event)
               /\ Len(queue'[i]) <= Capacity
               /\ Len(queue'[i]) > Len(queue[i])
                    => i \in ids /\ queue'[i][Len(queue'[i])] = event
    <2>1. queue[i] \in Seq(Event) /\ Len(queue[i]) <= Capacity
      BY DEF QueuesTyped
    <2>2. CASE i \in ids /\ HasRoom(i)
      <3>1. queue'[i] = Append(queue[i], event) /\ Len(queue[i]) < Capacity
        BY <2>2 DEF Deliver, HasRoom
      <3> QED
        BY <2>1, <2>2, <3>1
    <2>3. CASE ~(i \in ids /\ HasRoom(i))
      <3>1. queue'[i] = queue[i]
        BY <2>3 DEF Deliver
      <3> QED
        BY <2>1, <3>1
    <2> QED
      BY <2>2, <2>3
  <1>2. queue' = [i \in Slots |-> queue'[i]]
    BY DEF Deliver
  <1>3. lagging' \subseteq lagging \cup Registered
    BY DEF Deliver, Full
  <1> QED
    BY <1>1, <1>2, <1>3 DEF QueuesTyped

(* What a step of a task does to the queues, and who is told.              *)
LEMMA TaskQueues ==
  ASSUME QueuesTyped, NEW s \in Scopes, Connection(s) \/ Dispatching(s)
  PROVE  /\ QueuesTyped'
         /\ lagging' \subseteq lagging \cup Registered
         /\ \A i \in Slots :
              Len(queue'[i]) > Len(queue[i]) /\ queue'[i][Len(queue'[i])] = "error"
                => FirstRefusal(tracker[i])
  <1> USE DEF streams, Event
  <1>1. ASSUME UNCHANGED <<queue, lagging>>
        PROVE  /\ QueuesTyped'
               /\ lagging' \subseteq lagging
               /\ \A i \in Slots : ~(Len(queue'[i]) > Len(queue[i]))
    BY <1>1 DEF QueuesTyped
  <1>2. ASSUME NEW ids, Refuse(s, ids)
        PROVE  /\ QueuesTyped'
               /\ lagging' \subseteq lagging \cup Registered
               /\ \A i \in Slots : Len(queue'[i]) > Len(queue[i]) => FirstRefusal(tracker[i])
    BY <1>2, DeliverFields DEF Refuse, FirstRefused
  <1>3. CASE Connection(s)
    <2>1. CASE UNCHANGED streams
      BY <1>1, <2>1
    <2>2. CASE ServerRefuses(s)
      BY <1>2, <2>2 DEF ServerRefuses
    <2> QED
      BY <1>3, <2>1, <2>2 DEF Connection, Open, ServerAccepts, Keepalive, ConnectionFails,
                              ConnectionEnds, DeadlinePasses
  <1>4. CASE Dispatching(s)
    <2>1. CASE UNCHANGED streams
      BY <1>1, <2>1
    <2>2. ASSUME NEW i \in Slots, PayloadArrives(s, i)
          PROVE  /\ QueuesTyped'
                 /\ lagging' \subseteq lagging \cup Registered
                 /\ \A j \in Slots : ~(Len(queue'[j]) > Len(queue[j])
                                         /\ queue'[j][Len(queue'[j])] = "error")
      BY <2>2, DeliverFields DEF PayloadArrives
    <2>3. ASSUME NEW ids, Refuse(s, ids)
          PROVE  /\ QueuesTyped'
                 /\ lagging' \subseteq lagging \cup Registered
                 /\ \A i \in Slots : Len(queue'[i]) > Len(queue[i]) => FirstRefusal(tracker[i])
      BY <1>2, <2>3
    <2>4. \/ UNCHANGED streams
          \/ \E i \in Slots : PayloadArrives(s, i)
          \/ \E ids : Refuse(s, ids)
      BY <1>4 DEF Dispatching, FrameArrives, PayloadFails, SlotRefused, SignOfLife, DocumentRefused
    <2> QED
      BY <2>1, <2>2, <2>3, <2>4
  <1> QED
    BY <1>3, <1>4

LEMMA ConsumerQueues ==
  ASSUME QueuesTyped, NEW i \in Slots, Take(i) \/ Deregister(i)
  PROVE  QueuesTyped' /\ \A j \in Slots : ~(Len(queue'[j]) > Len(queue[j]))
  <1>1. queue[i] \in Seq(Event) /\ Len(queue[i]) <= Capacity /\ Len(queue[i]) \in Nat
    BY DEF QueuesTyped
  <1>2. PICK rest \in Seq(Event) :
          queue' = [queue EXCEPT ![i] = rest] /\ Len(rest) <= Len(queue[i])
    <2>1. CASE Take(i)
      <3>1. queue[i] # <<>> /\ queue' = [queue EXCEPT ![i] = Tail(queue[i])]
        BY <2>1 DEF Take
      <3>2. Tail(queue[i]) \in Seq(Event) /\ Len(Tail(queue[i])) <= Len(queue[i])
        BY <1>1, <3>1
      <3> QED
        BY <3>1, <3>2
    <2>2. CASE Deregister(i)
      <3>1. queue' = [queue EXCEPT ![i] = <<>>]
        BY <2>2 DEF Deregister
      <3>2. <<>> \in Seq(Event) /\ Len(<<>>) <= Len(queue[i])
        BY <1>1
      <3> QED
        BY <3>1, <3>2
    <2> QED
      BY <2>1, <2>2
  <1>3. ASSUME NEW j \in Slots
        PROVE  /\ queue'[j] \in Seq(Event) /\ Len(queue'[j]) <= Len(queue[j])
               /\ Len(queue[j]) <= Capacity /\ Len(queue[j]) \in Nat
    BY <1>1, <1>2 DEF QueuesTyped
  <1>4. queue' \in [Slots -> Seq(Event)]
    BY <1>2 DEF QueuesTyped
  <1>5. ASSUME NEW j \in Slots
        PROVE  Len(queue'[j]) <= Capacity /\ ~(Len(queue'[j]) > Len(queue[j]))
    <2>1. Len(queue'[j]) \in Nat /\ Len(queue[j]) \in Nat /\ Capacity \in Nat
      BY <1>3
    <2> QED
      BY <1>3, <2>1
  <1> QED
    BY <1>4, <1>5 DEF QueuesTyped

LEMMA TaskPlaces ==
  ASSUME Placed, Kept, QueuesTyped, NEW s \in Scopes, Connection(s) \/ Dispatching(s)
  PROVE  Placed'
  <1> USE DEF entries, streams
  <1>1. Registered' = Registered
    BY DEF Kept, Stays, Registered
  <1>2. lagging' \subseteq Registered'
    BY <1>1, TaskQueues DEF Placed
  <1>3. \/ UNCHANGED isolated
        \/ \E ids : isolated' = isolated \cup (ids \cap Registered)
    BY DEF Connection, Open, ServerAccepts, Keepalive, ServerRefuses, ConnectionFails,
           ConnectionEnds, DeadlinePasses, Dispatching, FrameArrives, PayloadArrives,
           PayloadFails, SlotRefused, SignOfLife, DocumentRefused, MoveAway
  <1>4. resync' \subseteq resync
    BY DEF Connection, Open, ServerAccepts, Keepalive, ServerRefuses, ConnectionFails,
           ConnectionEnds, DeadlinePasses, Dispatching, FrameArrives, PayloadArrives,
           PayloadFails, SlotRefused, SignOfLife, DocumentRefused
  <1> QED
    BY <1>1, <1>2, <1>3, <1>4 DEF Placed

LEMMA ConsumerPlaces ==
  ASSUME Placed, TrackersTyped, ToldIsRefused, NEW i \in Slots, Take(i) \/ Deregister(i)
  PROVE  Placed'
  <1>1. CASE Take(i)
    <2>1. Registered' = Registered
      BY <1>1 DEF Take, Registered
    <2> QED
      BY <1>1, <2>1 DEF Take, MoveAway, entries, Placed
  <1>2. CASE Deregister(i)
    <2>1. Registered' = Registered \ {i}
      BY <1>2, ConsumerTrackers
    <2> QED
      BY <1>2, <2>1 DEF Deregister, Placed
  <1> QED
    BY <1>1, <1>2
-----------------------------------------------------------------------------
(***************************************************************************)
(* The connections and their work.                                         *)
(***************************************************************************)

ConnectionsTyped ==
  /\ targets \in [Scopes -> SUBSET Slots]
  /\ work \in [Scopes -> Work]
  /\ inputs \in Nat

LEMMA RoutedType ==
  ASSUME NEW s, NEW f, f.document \in BOOLEAN
  PROVE  Routed(s, f) \in Work
  <1>1. Live(s) \subseteq Slots
    BY DEF Live
  <1>2. /\ {i \in Payloads(f) \cap Live(s) : f.parts[i] = "good"} \in SUBSET Slots
        /\ {i \in Payloads(f) \cap Live(s) : f.parts[i] # "good"} \in SUBSET Slots
        /\ SlotErrors(f) \cap Live(s) \in SUBSET Slots
    BY <1>1
  <1> QED
    BY <1>2 DEF Routed, Work

LEMMA TaskConnections ==
  ASSUME ConnectionsTyped, NEW s \in Scopes, Connection(s) \/ Dispatching(s)
  PROVE  ConnectionsTyped'
  <1> USE DEF Input
  <1>1. inputs' \in Nat
    <2>1. inputs' = inputs \/ inputs' = inputs + 1
      BY DEF Connection, Open, ServerAccepts, Keepalive, ServerRefuses,
             ConnectionFails, ConnectionEnds, DeadlinePasses, Dispatching, FrameArrives,
             PayloadArrives, PayloadFails, SlotRefused, SignOfLife, DocumentRefused
    <2> QED
      BY <2>1 DEF ConnectionsTyped
  <1>2. \/ UNCHANGED targets \/ Close(s)
        \/ targets' = [targets EXCEPT ![s] = Live(s)]
    BY DEF Connection, Open, ServerAccepts, Keepalive, ServerRefuses,
           ConnectionFails, ConnectionEnds, DeadlinePasses, Dispatching, FrameArrives,
           PayloadArrives, PayloadFails, SlotRefused, SignOfLife, DocumentRefused
  <1>3. targets' \in [Scopes -> SUBSET Slots]
    <2>1. Live(s) \in SUBSET Slots
      BY DEF Live
    <2> QED
      BY <1>2, <2>1 DEF ConnectionsTyped, Close
  <1>4. work[s] \in Work
    BY DEF ConnectionsTyped
  <1>5. \/ UNCHANGED work
        \/ \E w \in Work : work' = [work EXCEPT ![s] = w]
    <2>1. CASE Connection(s)
      BY <2>1 DEF Connection, Open, ServerAccepts, Keepalive, ServerRefuses,
                  ConnectionFails, ConnectionEnds, DeadlinePasses
    <2>2. CASE FrameArrives(s)
      <3>1. PICK f \in Frames(s) : work' = [work EXCEPT ![s] = Routed(s, f)]
        BY <2>2 DEF FrameArrives
      <3>2. f.document \in BOOLEAN
        BY DEF Frames
      <3>3. Routed(s, f) \in Work
        BY <3>2, RoutedType
      <3> QED
        BY <3>1, <3>3
    <2>3. ASSUME NEW i \in Slots, PayloadArrives(s, i)
          PROVE  \E w \in Work : work' = [work EXCEPT ![s] = w]
      <3> DEFINE w == [work[s] EXCEPT !.good = @ \ {i}]
      <3>1. work[s].good \ {i} \in SUBSET Slots
        BY <1>4 DEF Work
      <3>2. w \in Work
        BY <1>4, <3>1 DEF Work
      <3>3. work' = [work EXCEPT ![s] = w]
        BY <2>3 DEF PayloadArrives, ConnectionsTyped
      <3> QED
        BY <3>2, <3>3
    <2>4. ASSUME NEW i \in Slots, PayloadFails(s, i)
          PROVE  \E w \in Work : work' = [work EXCEPT ![s] = w]
      <3> DEFINE w == [work[s] EXCEPT !.bad = @ \ {i}, !.failed = @ \cup {i},
                                      !.again = @ \/ s # Shared]
      <3>1. /\ work[s].bad \ {i} \in SUBSET Slots
            /\ work[s].failed \cup {i} \in SUBSET Slots
            /\ (work[s].again \/ s # Shared) \in BOOLEAN
        BY <1>4 DEF Work
      <3>2. w \in Work
        BY <1>4, <3>1 DEF Work
      <3>3. work' = [work EXCEPT ![s] = w]
        BY <2>4 DEF PayloadFails, ConnectionsTyped
      <3> QED
        BY <3>2, <3>3
    <2>5. ASSUME NEW i \in Slots, SlotRefused(s, i)
          PROVE  \E w \in Work : work' = [work EXCEPT ![s] = w]
      <3> DEFINE w == [work[s] EXCEPT !.refused = @ \ {i}, !.failed = @ \cup {i},
                                      !.again = @ \/ s # Shared]
      <3>1. /\ work[s].refused \ {i} \in SUBSET Slots
            /\ work[s].failed \cup {i} \in SUBSET Slots
            /\ (work[s].again \/ s # Shared) \in BOOLEAN
        BY <1>4 DEF Work
      <3>2. w \in Work
        BY <1>4, <3>1 DEF Work
      <3>3. work' = [work EXCEPT ![s] = w]
        BY <2>5 DEF SlotRefused, ConnectionsTyped
      <3> QED
        BY <3>2, <3>3
    <2>6. CASE SignOfLife(s) \/ DocumentRefused(s)
      <3>1. Idle \in Work
        BY DEF Idle, Work
      <3> QED
        BY <2>6, <3>1 DEF SignOfLife, DocumentRefused
    <2> QED
      BY <2>1, <2>2, <2>3, <2>4, <2>5, <2>6 DEF Dispatching
  <1>6. work' \in [Scopes -> Work]
    BY <1>5 DEF ConnectionsTyped
  <1> QED
    BY <1>1, <1>3, <1>6 DEF ConnectionsTyped
-----------------------------------------------------------------------------
(***************************************************************************)
(* The inductive invariant, and what follows from it.                      *)
(***************************************************************************)

IInv == TrackersTyped /\ QueuesTyped /\ Placed /\ ConnectionsTyped /\ ToldIsRefused

LEMMA InitIInv == Init => IInv
  <1> SUFFICES ASSUME Init PROVE IInv
    OBVIOUS
  <1>1. NewTracker(Now) \in Tracker /\ NewTracker(Now).status # "Ended"
    BY DEF NewTracker, Now, Tracker, Fine, Outage, Status, Instant
  <1>2. TrackersTyped /\ ToldIsRefused
    BY <1>1 DEF Init, TrackersTyped, ToldIsRefused
  <1>3. QueuesTyped /\ Placed
    BY DEF Init, QueuesTyped, Placed
  <1>4. Idle \in Work
    BY DEF Idle, Work
  <1>5. ConnectionsTyped
    BY <1>4 DEF Init, ConnectionsTyped
  <1> QED
    BY <1>2, <1>3, <1>5 DEF IInv

LEMMA Preserved == IInv /\ [Next]_vars => IInv'
  <1> SUFFICES ASSUME IInv, [Next]_vars PROVE IInv'
    OBVIOUS
  <1> USE DEF IInv
  <1>1. ASSUME NEW s \in Scopes, Connection(s) \/ Dispatching(s)
        PROVE  IInv'
    <2>1. TrackersTyped' /\ ToldIsRefused' /\ Kept
      BY <1>1, TaskTrackers
    <2>2. QueuesTyped'
      BY <1>1, TaskQueues
    <2>3. Placed'
      BY <1>1, <2>1, TaskPlaces
    <2>4. ConnectionsTyped'
      BY <1>1, TaskConnections
    <2> QED
      BY <2>1, <2>2, <2>3, <2>4
  <1>2. ASSUME NEW i \in Slots, Take(i) \/ Deregister(i)
        PROVE  IInv'
    <2>1. TrackersTyped' /\ ToldIsRefused'
      BY <1>2, ConsumerTrackers
    <2>2. QueuesTyped'
      BY <1>2, ConsumerQueues
    <2>3. Placed'
      BY <1>2, ConsumerPlaces
    <2>4. ConnectionsTyped'
      BY <1>2 DEF Take, Deregister, ConnectionsTyped
    <2> QED
      BY <2>1, <2>2, <2>3, <2>4
  <1>3. CASE UNCHANGED vars
    BY <1>3 DEF vars, entries, streams, TrackersTyped, QueuesTyped, Placed, Registered,
                ConnectionsTyped, ToldIsRefused
  <1> QED
    BY <1>1, <1>2, <1>3 DEF Next

LEMMA Invariance == Spec => []IInv
  BY InitIInv, Preserved, PTL DEF Spec

(* The variables keep their types, no queue exceeds SLOT_CHANNEL_CAPACITY,   *)
(* and only registered slots are isolated, lagging or owed a replay.        *)
THEOREM TypeCorrect == Spec => []TypeOK
  <1>1. IInv => TypeOK
    BY DEF IInv, TrackersTyped, QueuesTyped, Placed, ConnectionsTyped, ToldIsRefused, TypeOK
  <1> QED
    BY <1>1, Invariance, PTL

(* A consumer is sent the error of a refusal only if its subscription showed  *)
(* a sign of life since it was last sent one (reject, dispatch), however     *)
(* frames, moves and refusals on several connections interleave.           *)
THEOREM RefusalsToldOnce == Spec => ToldOncePerRefusal
  <1> DEFINE Once == \A i \in Slots :
               Len(queue'[i]) > Len(queue[i]) /\ queue'[i][Len(queue'[i])] = "error"
                 => i \notin told
  <1>1. IInv /\ [Next]_vars => [Once]_vars
    <2> SUFFICES ASSUME IInv, Next PROVE Once
      OBVIOUS
    <2>1. ASSUME NEW s \in Scopes, Connection(s) \/ Dispatching(s)
          PROVE  Once
      BY <2>1, TaskQueues DEF IInv, ToldIsRefused, FirstRefusal
    <2>2. ASSUME NEW i \in Slots, Take(i) \/ Deregister(i)
          PROVE  Once
      BY <2>2, ConsumerQueues DEF IInv
    <2> QED
      BY <2>1, <2>2 DEF Next
  <1> QED
    BY <1>1, Invariance, PTL DEF Spec, ToldOncePerRefusal
-----------------------------------------------------------------------------
(***************************************************************************)
(* What a frame in progress says.                                          *)
(***************************************************************************)

(* A connection works only on slots of its document, what is left to deliver *)
(* has not failed, and nothing is left of a frame that is done.            *)
InOrder(w, slots) ==
  /\ w.good \cup w.bad \cup w.refused \subseteq slots
  /\ w.good \cap (w.bad \cup w.failed) = {}
  /\ ~w.busy => w.good \cup w.bad \cup w.refused \cup w.failed = {}

WorkInOrder == \A s \in Scopes : InOrder(work[s], targets[s])

LEMMA IdleInOrder ==
  ASSUME NEW slots
  PROVE  InOrder(Idle, slots)
  BY DEF InOrder, Idle

LEMMA WorkStep == ConnectionsTyped /\ WorkInOrder /\ [Next]_vars => WorkInOrder'
  <1> SUFFICES ASSUME ConnectionsTyped, WorkInOrder, [Next]_vars PROVE WorkInOrder'
    OBVIOUS
  <1>1. ASSUME NEW s \in Scopes,
               InOrder(work'[s], targets'[s]),
               \A r \in Scopes : r # s => work'[r] = work[r] /\ targets'[r] = targets[r]
        PROVE  WorkInOrder'
    BY <1>1 DEF WorkInOrder, InOrder
  <1>2. ASSUME NEW s \in Scopes
        PROVE  InOrder(work[s], targets[s]) /\ work[s] \in Work
    BY DEF WorkInOrder, ConnectionsTyped
  <1>3. ASSUME NEW s \in Scopes, Connection(s)
        PROVE  WorkInOrder'
    <2>1. UNCHANGED work
      BY <1>3 DEF Connection, Open, ServerAccepts, Keepalive, ServerRefuses,
                  ConnectionFails, ConnectionEnds, DeadlinePasses
    <2>2. /\ \A r \in Scopes : r # s => targets'[r] = targets[r]
          /\ targets'[s] = targets[s] \/ targets[s] = {} \/ ~work[s].busy
      BY <1>3 DEF Connection, Open, ServerAccepts, Keepalive, ServerRefuses, Close,
                  ConnectionFails, ConnectionEnds, DeadlinePasses, Listens, ConnectionsTyped
    <2>3. InOrder(work'[s], targets'[s])
      BY <1>2, <2>1, <2>2 DEF InOrder
    <2> QED
      BY <1>1, <2>1, <2>2, <2>3
  <1>4. ASSUME NEW s \in Scopes, Dispatching(s)
        PROVE  WorkInOrder'
    <2>1. CASE FrameArrives(s)
      <3>1. PICK f \in Frames(s) : work' = [work EXCEPT ![s] = Routed(s, f)]
        BY <2>1 DEF FrameArrives
      <3>2. UNCHANGED targets /\ work'[s] = Routed(s, f)
        BY <2>1, <3>1 DEF FrameArrives, ConnectionsTyped
      <3>3. DOMAIN f.parts = targets[s] /\ f.errors \subseteq targets[s]
        BY DEF Frames
      <3>4. Payloads(f) \subseteq targets[s] /\ SlotErrors(f) \subseteq targets[s]
        BY <3>3 DEF Payloads, SlotErrors
      <3>5. InOrder(Routed(s, f), targets[s])
        BY <3>4 DEF InOrder, Routed
      <3>6. \A r \in Scopes : r # s => work'[r] = work[r]
        BY <3>1 DEF ConnectionsTyped
      <3> QED
        BY <1>1, <3>2, <3>5, <3>6
    <2>2. ASSUME NEW i \in Slots, PayloadArrives(s, i)
          PROVE  WorkInOrder'
      <3>1. /\ UNCHANGED targets
            /\ \A r \in Scopes : r # s => work'[r] = work[r]
            /\ work'[s] = [work[s] EXCEPT !.good = @ \ {i}]
            /\ i \in work[s].good
        BY <2>2 DEF PayloadArrives, ConnectionsTyped
      <3>2. InOrder(work'[s], targets'[s])
        BY <1>2, <3>1 DEF InOrder, Work
      <3> QED
        BY <1>1, <3>1, <3>2
    <2>3. ASSUME NEW i \in Slots, PayloadFails(s, i)
          PROVE  WorkInOrder'
      <3>1. /\ UNCHANGED targets
            /\ \A r \in Scopes : r # s => work'[r] = work[r]
            /\ work'[s] = [work[s] EXCEPT !.bad = @ \ {i}, !.failed = @ \cup {i},
                                         !.again = @ \/ s # Shared]
            /\ i \in work[s].bad
        BY <2>3 DEF PayloadFails, ConnectionsTyped
      <3>2. InOrder(work'[s], targets'[s])
        BY <1>2, <3>1 DEF InOrder, Work
      <3> QED
        BY <1>1, <3>1, <3>2
    <2>4. ASSUME NEW i \in Slots, SlotRefused(s, i)
          PROVE  WorkInOrder'
      <3>1. /\ UNCHANGED targets
            /\ \A r \in Scopes : r # s => work'[r] = work[r]
            /\ work'[s] = [work[s] EXCEPT !.refused = @ \ {i}, !.failed = @ \cup {i},
                                         !.again = @ \/ s # Shared]
            /\ i \in work[s].refused /\ work[s].good = {}
        BY <2>4 DEF SlotRefused, ConnectionsTyped
      <3>2. InOrder(work'[s], targets'[s])
        BY <1>2, <3>1 DEF InOrder, Work
      <3> QED
        BY <1>1, <3>1, <3>2
    <2>5. CASE SignOfLife(s) \/ DocumentRefused(s)
      <3>1. /\ work'[s] = Idle
            /\ \A r \in Scopes : r # s => work'[r] = work[r] /\ targets'[r] = targets[r]
        BY <2>5 DEF SignOfLife, DocumentRefused, Close, ConnectionsTyped
      <3> QED
        BY <1>1, <3>1, IdleInOrder
    <2> QED
      BY <1>4, <2>1, <2>2, <2>3, <2>4, <2>5 DEF Dispatching
  <1>5. CASE UNCHANGED <<work, targets>>
    BY <1>5 DEF WorkInOrder
  <1> QED
    BY <1>3, <1>4, <1>5 DEF Next, Take, Deregister, vars

LEMMA WorkInvariance == Spec => []WorkInOrder
  <1>1. Init => WorkInOrder
    BY IdleInOrder DEF Init, WorkInOrder
  <1>2. IInv => ConnectionsTyped
    BY DEF IInv
  <1> QED
    BY <1>1, <1>2, Invariance, WorkStep, PTL DEF Spec

(* The connection that carries the slot now is dispatching something that    *)
(* does not refuse it.                                                     *)
OwnTraffic(i) ==
  \E s \in Scopes :
    /\ s = (IF i \in isolated THEN i ELSE Shared) /\ i \in targets[s]
    /\ i \notin work[s].failed
    /\ Listens(s) \/ work'[s] # work[s]

LEMMA RecoveryOnConnection ==
  ASSUME IInv, WorkInOrder, NEW s \in Scopes, Connection(s), NEW i \in Slots,
         tracker[i].status = "Rejected", tracker'[i].status = "Recovered"
  PROVE  OwnTraffic(i)
  <1> USE DEF IInv
  <1> Quiet = {"connected", "problem", "refusal", "lag", "caught up"} /\ Quiet \subseteq Report
    BY DEF Quiet, Report
  <1>1. ASSUME NEW ids, NEW r \in Quiet, tracker' = WithHealth(tracker, s, ids, r)
        PROVE  FALSE
    BY <1>1, ReportFields DEF TrackersTyped
  <1>2. ~Open(s) /\ ~ServerAccepts(s) /\ ~ConnectionFails(s)
    BY <1>1 DEF Open, ServerAccepts, ConnectionFails
  <1>3. ~ServerRefuses(s)
    BY RefuseFields DEF ServerRefuses, TrackersTyped
  <1>4. ~ConnectionEnds(s)
    BY DEF ConnectionEnds
  <1>5. ~DeadlinePasses(s)
    <2> SUFFICES ASSUME DeadlinePasses(s) PROVE FALSE
      OBVIOUS
    <2>1. PICK j \in Live(s) : /\ HasStallDeadline(tracker[j])
                               /\ tracker' = [tracker EXCEPT ![j] = Stall(@, Now)]
      BY DEF DeadlinePasses
    <2>2. j # i
      BY <2>1 DEF HasStallDeadline
    <2> QED
      BY <2>1, <2>2 DEF TrackersTyped
  <1>6. CASE Keepalive(s)
    <2>1. i \in targets[s] /\ Belongs(i, s)
      <3>1. "activity" \in Report
        BY DEF Report
      <3>2. ~(i \in targets[s] /\ Belongs(i, s)) => tracker'[i] = tracker[i]
        BY <1>6, <3>1, ReportFields DEF Keepalive, TrackersTyped
      <3> QED
        BY <3>2
    <2>2. Listens(s) /\ work[s].failed = {}
      BY <1>6 DEF Keepalive, Listens, WorkInOrder, InOrder
    <2> QED
      BY <2>1, <2>2 DEF OwnTraffic, Belongs
  <1> QED
    BY <1>2, <1>3, <1>4, <1>5, <1>6 DEF Connection

LEMMA RecoveryByFrame ==
  ASSUME IInv, WorkInOrder, NEW s \in Scopes, Dispatching(s), NEW i \in Slots,
         tracker[i].status = "Rejected", tracker'[i].status = "Recovered"
  PROVE  OwnTraffic(i)
  <1> USE DEF IInv
  <1>1. "activity" \in Report /\ "data" \in Report /\ "lag" \in Quiet /\ "problem" \in Quiet
        /\ Quiet \subseteq Report
    BY DEF Quiet, Report
  <1>2. ASSUME NEW ids, NEW r \in Quiet, tracker' = WithHealth(tracker, s, ids, r)
        PROVE  FALSE
    BY <1>1, <1>2, ReportFields DEF TrackersTyped
  <1>3. ASSUME NEW ids, NEW r \in Report, tracker' = WithHealth(tracker, s, ids, r)
        PROVE  i \in ids /\ Belongs(i, s)
    BY <1>3, ReportFields DEF TrackersTyped
  <1>4. ~FrameArrives(s)
    BY DEF FrameArrives
  <1>5. \A j \in Slots : ~PayloadFails(s, j)
    BY <1>1, <1>2 DEF PayloadFails
  <1>6. (\A j \in Slots : ~SlotRefused(s, j)) /\ ~DocumentRefused(s)
    BY RefuseFields DEF SlotRefused, DocumentRefused, TrackersTyped
  <1>7. ASSUME NEW j \in Slots, PayloadArrives(s, j)
        PROVE  OwnTraffic(i)
    <2>1. HasRoom(j)
      BY <1>1, <1>2, <1>7 DEF PayloadArrives
    <2>2. i \in {j} /\ Belongs(i, s)
      BY <1>1, <1>3, <1>7, <2>1 DEF PayloadArrives
    <2>3. i \in work[s].good /\ i \in targets[s] /\ i \notin work[s].failed
      BY <1>7, <2>2 DEF PayloadArrives, WorkInOrder, InOrder
    <2>4. i \notin work'[s].good
      BY <1>7, <2>2 DEF PayloadArrives, ConnectionsTyped, Work
    <2> QED
      BY <2>2, <2>3, <2>4 DEF OwnTraffic, Belongs
  <1>8. CASE SignOfLife(s)
    <2>1. i \in targets[s] \ work[s].failed /\ Belongs(i, s)
      BY <1>1, <1>3, <1>8 DEF SignOfLife
    <2>2. work[s].busy /\ work'[s] = Idle
      BY <1>8 DEF SignOfLife, Done, ConnectionsTyped
    <2>3. work'[s] # work[s]
      BY <2>2 DEF Idle
    <2> QED
      BY <2>1, <2>3 DEF OwnTraffic, Belongs
  <1> QED
    BY <1>4, <1>5, <1>6, <1>7, <1>8 DEF Dispatching

(* A rejected subscription recovers only by traffic of the connection that    *)
(* carries it now, in a frame that does not refuse it again (with_health,     *)
(* belongs_to, the `failed` set of dispatch).                              *)
THEOREM RefusalsEndByOwnTraffic == Spec => RefusalEndsByOwnTraffic
  <1> DEFINE Own == \A i \in Slots :
               tracker[i].status = "Rejected" /\ tracker'[i].status = "Recovered"
                 => OwnTraffic(i)
  <1>1. IInv /\ WorkInOrder /\ [Next]_vars => [Own]_vars
    <2> SUFFICES ASSUME IInv, WorkInOrder, Next PROVE Own
      OBVIOUS
    <2>1. ASSUME NEW s \in Scopes, Connection(s) \/ Dispatching(s)
          PROVE  Own
      BY <2>1, RecoveryOnConnection, RecoveryByFrame
    <2>2. ASSUME NEW i \in Slots, Take(i)
          PROVE  Own
      BY <2>2 DEF Take
    <2>3. ASSUME NEW i \in Slots, Deregister(i)
          PROVE  Own
      <3>1. tracker' = [tracker EXCEPT ![i] = End(@, "Cancelled", Now)]
        BY <2>3 DEF Deregister
      <3>2. End(tracker[i], "Cancelled", Now).status = "Ended"
        <4>1. tracker[i] \in Tracker /\ "Cancelled" \in EndReason
          BY DEF IInv, TrackersTyped, EndReason
        <4> QED
          BY <4>1, EndKeeps DEF Now
      <3> HIDE DEF Now
      <3> QED
        BY <3>1, <3>2 DEF IInv, TrackersTyped
    <2> QED
      BY <2>1, <2>2, <2>3 DEF Next
  <1>2. Own => \A i \in Slots :
          tracker[i].status = "Rejected" /\ tracker'[i].status = "Recovered"
            => \E s \in Scopes :
                 /\ s = (IF i \in isolated THEN i ELSE Shared) /\ i \in targets[s]
                 /\ i \notin work[s].failed
                 /\ Listens(s) \/ work'[s] # work[s]
    BY DEF OwnTraffic
  <1> QED
    BY <1>1, <1>2, Invariance, WorkInvariance, PTL DEF Spec, RefusalEndsByOwnTraffic
=============================================================================
