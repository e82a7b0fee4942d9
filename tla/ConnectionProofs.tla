-------------------------- MODULE ConnectionProofs --------------------------
(***************************************************************************)
(* Proofs about Connection, for any finite set of subscriptions with any    *)
(* documents, and any delays, debounce and stall threshold.                *)
(***************************************************************************)
EXTENDS Connection, FiniteSetTheorems, TLAPS, SequenceTheorems

(* The subscriptions that left or were ended, and those that ever came.      *)
Gone == {i \in Slots : slots[i] = "gone"}
Seen == {i \in Slots : slots[i] # "new"}

-----------------------------------------------------------------------------
(***************************************************************************)
(* The inductive invariants.                                               *)
(***************************************************************************)

Delay == Nat \cup {Null}
Healths == [shows : {"Fine", "Degraded", "Stalled", "Rejected"}, quiet : 0 .. MaxQuiet]
Causes == {"rejected", "error", "malformed", "end"}
Pasts == [cause : Causes \cup {"none"}, since : Nat, joined : BOOLEAN, errors : Nat, malformed : Nat]

Typed ==
  /\ cfg \in [scope : Scopes, setting : Settings]
  /\ slots \in [Slots -> {"new", "live", "gone"}]
  /\ changed \in BOOLEAN /\ resync \in BOOLEAN
  /\ pc \in Open \cup {"idle", "prepare", "debounce", "wait"}
  /\ snapshot \subseteq Slots
  /\ timer \in Nat /\ timer <= Larger(Debounce, LongestWait)
  /\ patience \in 0 .. MaxDebounce
  /\ delays \in [malformed : Delay, reconnect : Delay]
  /\ health \in [Slots -> Healths]
  /\ past \in Pasts

(* Which subscriptions a document was, or is to be, made for.  As long as no  *)
(* change is pending, all that live are in the snapshot.                    *)
Covering ==
  /\ pc = "idle" => LiveSlots = {} /\ ~changed
  /\ pc \in Open \cup {"wait"} => snapshot # {}
  /\ pc = "debounce" /\ ~changed => snapshot = LiveSlots /\ snapshot # {}
  /\ pc \in Open \cup {"debounce", "wait"} /\ ~changed => LiveSlots \subseteq snapshot
  /\ snapshot \subseteq Seen

(* A connection that is not shared waits for its consumer and gathers nothing, *)
(* and only ever serves one subscription.                                  *)
Alone ==
  /\ pc \in {"delivering", "telling"} => Waits
  /\ Waits => /\ pc # "debounce"
              /\ \A i, j \in Seen : i = j
              /\ pc # "idle" => Seen # {}

(* The malformed payloads and the errors in a row that the history counts    *)
(* have each doubled the delay that the code keeps.                         *)
LongestMalformedDelay == Larger(cfg.setting.timeout, FirstMalformedDelay)
Backoff ==
  /\ past.errors = 0 <=> delays.reconnect = Null
  /\ past.errors <= MaxInARow
  /\ past.errors > 0 =>
       Smaller(RejectedRetryDelay, DoubledSince(FirstDelay, past.errors)) <= delays.reconnect
  /\ past.malformed = 0 <=> delays.malformed = Null
  /\ past.malformed <= MaxInARow
  /\ past.malformed > 0 =>
       /\ Smaller(LongestMalformedDelay, DoubledSince(FirstMalformedDelay, past.malformed))
            <= delays.malformed
       /\ delays.malformed <= LongestMalformedDelay

(* What is left of a wait makes up for what is owed; only a subscription that *)
(* joins, or the last one that leaves, cuts it short.                       *)
Pacing ==
  /\ pc \in Open => past.cause = "none"
  /\ pc = "wait" => past.since + timer >= OwedWait
  /\ pc \in {"prepare", "debounce"} =>
       past.joined \/ past.since >= OwedWait \/ LiveSlots = {}
  /\ pc = "wait" /\ ~past.joined => LiveSlots \subseteq snapshot
  /\ past.cause = "error" => past.errors > 0
  /\ past.cause = "malformed" => past.malformed > 0
  /\ past.cause = "end" => cfg.setting.restart # Null

(* How many times subscriptions came or left after the first one, but for a   *)
(* change that the supervisor has not seen yet.                             *)
Churn == Cardinality(LiveSlots) - 1 + 2 * Cardinality(Gone)
Regathered == Churn - IF changed THEN 1 ELSE 0

Gathering == MaxDebounce + Debounce
Restart == IF cfg.setting.restart = Null THEN 0 ELSE Larger(cfg.setting.restart, MinDelay)
Budget == StallThreshold + Restart + Gathering * Regathered

(* How long a subscription that shows that all is well can have been silent:  *)
(* less than the threshold when a wait begins, then what has passed of the    *)
(* wait and of the debounces.                                              *)
QuietOk(i) ==
  LET quiet == health[i].quiet
  IN  /\ pc = "drive" => quiet <= Budget + Gathering
      /\ pc = "wait" =>
           IF i \in snapshot THEN quiet + timer <= StallThreshold + Restart
           ELSE quiet <= StallThreshold
      /\ pc \in {"prepare", "debounce"} =>
           \/ quiet + patience <= Budget + MaxDebounce
           \/ /\ patience = 0
              /\ quiet + (IF pc = "debounce" THEN timer ELSE 0) <= Budget + Gathering

(* A change that is pending is one since the first subscription came.        *)
Changes ==
  /\ changed => Gone # {} \/ Cardinality(Seen) >= 2
  /\ pc # "idle" => Seen # {}
  /\ pc = "debounce" => timer <= Debounce

Silence == \A i \in LiveSlots : health[i].shows = "Fine" => QuietOk(i)

(* A connection of one subscription gathers nothing: it is silent for the     *)
(* threshold and one wait at most, but for the time that its consumer takes.  *)
OwnSilence ==
  \A i \in LiveSlots : health[i].shows = "Fine" =>
    /\ pc # "telling"
    /\ pc # "delivering" =>
         health[i].quiet + (IF pc = "wait" THEN timer ELSE 0) <= StallThreshold + Restart

-----------------------------------------------------------------------------
(***************************************************************************)
(* The delays.                                                             *)
(***************************************************************************)

(* The subsets of 1 .. n+1 are those of 1 .. n, without n+1 and with it.     *)
LEMMA PowerDoubles ==
  ASSUME NEW n \in Nat
  PROVE  2^n \in Nat \ {0} /\ 2^(n+1) = 2 * 2^n
<1> DEFINE S == 1 .. n
           A == SUBSET S
           B == {T \cup {n+1} : T \in A}
           F == [T \in A |-> T \cup {n+1}]
<1>1. IsFiniteSet(S) /\ Cardinality(S) = n
  BY FS_Interval
<1>2. IsFiniteSet(1 .. n+1) /\ Cardinality(1 .. n+1) = n + 1
  BY FS_Interval
<1>3. IsFiniteSet(A) /\ Cardinality(A) = 2^n
  BY <1>1, FS_SUBSET
<1>4. Cardinality(SUBSET (1 .. n+1)) = 2^(n+1)
  BY <1>2, FS_SUBSET
<1>5. F \in Bijection(A, B)
  <2>1. F \in [A -> B]  OBVIOUS
  <2>2. ASSUME NEW T \in A, NEW U \in A, F[T] = F[U]  PROVE T = U
    <3>1. T \cup {n+1} = U \cup {n+1}  BY <2>2
    <3>2. n+1 \notin S  OBVIOUS
    <3>3. n+1 \notin T /\ n+1 \notin U  BY <3>2
    <3> QED BY <3>1, <3>3
  <2>3. \A b \in B : \E T \in A : F[T] = b  OBVIOUS
  <2> QED BY <2>1, <2>2, <2>3 DEF Bijection, Injection, Surjection, IsInjective
<1>6. IsFiniteSet(B) /\ Cardinality(B) = 2^n
  BY <1>3, <1>5, FS_Bijection DEF ExistsBijection
<1>7. A \cap B = {}
  <2>1. n+1 \notin S  OBVIOUS
  <2> QED BY <2>1
<1>8. SUBSET (1 .. n+1) = A \cup B
  <2>1. 1 .. n+1 = S \cup {n+1}  OBVIOUS
  <2>2. ASSUME NEW U \in SUBSET (S \cup {n+1}), U \notin A  PROVE U \in B
    <3>1. n+1 \in U  BY <2>2
    <3>2. U = (U \cap S) \cup {n+1}  BY <3>1
    <3> QED BY <3>2
  <2>3. A \cup B \subseteq SUBSET (S \cup {n+1})  OBVIOUS
  <2> QED BY <2>1, <2>2, <2>3
<1>9. 2^(n+1) = 2^n + 2^n - Cardinality({})
  <2> HIDE DEF A, B
  <2>1. Cardinality(A \cup B) = Cardinality(A) + Cardinality(B) - Cardinality(A \cap B)
    BY <1>3, <1>6, FS_Union
  <2> QED BY <2>1, <1>3, <1>4, <1>6, <1>7, <1>8
<1>10. 2^n \in Nat /\ 2^n # 0
  <2>1. 2^n \in Nat  BY <1>3, FS_CardinalityType
  <2>2. {} \in A  OBVIOUS
  <2> QED BY <1>3, <2>1, <2>2, FS_EmptySet
<1> QED BY <1>9, <1>10, FS_EmptySet

(* Every wait the supervisor chooses is at least as long as the shortest one  *)
(* and at most as long as the longest one.                                  *)
LEMMA Delays ==
  ASSUME cfg \in [scope : Scopes, setting : Settings]
  PROVE  /\ RejectedRetryDelay \in Nat /\ RejectedRetryDelay <= LongestWait
         /\ FirstMalformedDelay \in Nat \ {0}
         /\ LongestMalformedDelay \in Nat /\ LongestWait \in Nat
         /\ FirstMalformedDelay <= LongestMalformedDelay
         /\ LongestMalformedDelay <= LongestWait
         /\ cfg.setting.restart # Null =>
              Larger(cfg.setting.restart, MinDelay) = FirstMalformedDelay
         /\ Larger(Debounce, LongestWait) \in Nat
         /\ Debounce <= Larger(Debounce, LongestWait)
         /\ LongestWait <= Larger(Debounce, LongestWait)
<1>1. /\ cfg.setting.timeout \in Nat /\ cfg.setting.restart \in Nat \cup {Null}
      /\ MinDelay \in Nat \ {0} /\ DefaultDelay \in Nat \ {0} /\ Debounce \in Nat
  BY ConnectionAssumption
<1>2. /\ RejectedRetryDelay \in Nat /\ FirstMalformedDelay \in Nat \ {0}
      /\ LongestMalformedDelay \in Nat
      /\ FirstMalformedDelay <= LongestMalformedDelay
      /\ cfg.setting.restart # Null =>
              Larger(cfg.setting.restart, MinDelay) = FirstMalformedDelay
  BY <1>1 DEF RejectedRetryDelay, FirstMalformedDelay, LongestMalformedDelay, Larger
<1>3. LongestMalformedDelay <= LongestWait /\ LongestWait \in Nat
  BY <1>1, <1>2 DEF RejectedRetryDelay, LongestWait, LongestMalformedDelay, Larger
<1>4. RejectedRetryDelay <= LongestWait
  BY <1>2 DEF LongestWait, Larger
<1> QED BY <1>1, <1>2, <1>3, <1>4 DEF Larger

(* Each doubling is a wait again.                                           *)
LEMMA NextDelays ==
  ASSUME cfg \in [scope : Scopes, setting : Settings], NEW last \in Delay
  PROVE  /\ NextReconnectDelay(last) \in Nat
         /\ NextReconnectDelay(last) <= RejectedRetryDelay
         /\ NextReconnectDelay(last) <= LongestWait
         /\ NextMalformedDelay(last) \in Nat
         /\ NextMalformedDelay(last) <= LongestMalformedDelay
         /\ NextMalformedDelay(last) <= LongestWait
<1>1. (last = Null \/ 2 * last \in Nat) /\ FirstDelay \in Nat
  BY ConnectionAssumption DEF Delay
<1> QED BY <1>1, Delays DEF NextReconnectDelay, NextMalformedDelay, LongestMalformedDelay, Smaller

-----------------------------------------------------------------------------
(***************************************************************************)
(* Types.                                                                  *)
(***************************************************************************)

LEMMA TypedInit == Init => Typed
<1> SUFFICES ASSUME Init  PROVE Typed
  OBVIOUS
<1>1. cfg \in [scope : Scopes, setting : Settings]
  BY DEF Init
<1>2. delays \in [malformed : Delay, reconnect : Delay] /\ past \in Pasts
  BY DEF Init, NoDelays, NoPast, Delay, Pasts
<1>3. health \in [Slots -> Healths]
  BY ConnectionAssumption DEF Init, Health, Healths
<1>4. slots \in [Slots -> {"new", "live", "gone"}]
  BY DEF Init
<1>5. 0 <= Larger(Debounce, LongestWait)
  BY <1>1, Delays
<1>6. 0 \in 0 .. MaxDebounce
  BY ConnectionAssumption
<1> QED BY <1>1, <1>2, <1>3, <1>4, <1>5, <1>6 DEF Init, Typed

(* What the parts that several actions have in common do to the types.       *)
LEMMA WaitTyped ==
  ASSUME Typed, NEW cause \in Causes, NEW delay \in Nat,
         delay <= LongestWait, Wait(cause, delay)
  PROVE  /\ timer' \in Nat /\ timer' <= Larger(Debounce, LongestWait)
         /\ past' \in Pasts
         /\ pc' = "wait"
         /\ UNCHANGED <<cfg, slots, changed, resync, snapshot, patience>>
<1>1. past' \in Pasts
  <2>1. past \in Pasts /\ MaxInARow \in Nat
    BY ConnectionAssumption DEF Typed
  <2>2. \A n \in Nat : Smaller(n + 1, MaxInARow) \in Nat
    BY <2>1 DEF Smaller
  <2> QED BY <2>1, <2>2 DEF Wait, Pasts
<1>2. LongestWait <= Larger(Debounce, LongestWait) /\ Larger(Debounce, LongestWait) \in Nat
      /\ LongestWait \in Nat
  BY Delays DEF Typed
<1> QED BY <1>1, <1>2 DEF Wait

LEMMA ShowTyped ==
  ASSUME Typed, NEW shows \in {"Fine", "Degraded", "Stalled", "Rejected"}, NEW but,
         AllShow(shows, but) \/ Alive(but)
  PROVE  health' \in [Slots -> Healths]
BY ConnectionAssumption DEF Typed, AllShow, Alive, Health, Healths

LEMMA ProblemTyped ==
  ASSUME Typed, Problem
  PROVE  health' \in [Slots -> Healths]
BY ShowTyped DEF Problem

(* The delays depend on the settings alone.                                 *)
LEMMA SameDelays ==
  ASSUME UNCHANGED cfg
  PROVE  /\ RejectedRetryDelay' = RejectedRetryDelay
         /\ FirstMalformedDelay' = FirstMalformedDelay
         /\ LongestMalformedDelay' = LongestMalformedDelay
         /\ LongestWait' = LongestWait
         /\ Larger(Debounce, LongestWait)' = Larger(Debounce, LongestWait)
         /\ Restart' = Restart
BY DEF RejectedRetryDelay, FirstMalformedDelay, LongestMalformedDelay, LongestWait, Larger, Restart

(* The supervisor stops, rebuilds, or connects for the slots of a snapshot.   *)
LEMMA StopTyped ==
  ASSUME Typed, Stop, UNCHANGED cfg
  PROVE  /\ changed' \in BOOLEAN /\ resync' \in BOOLEAN /\ pc' = "idle" /\ snapshot' = {}
         /\ timer' = 0 /\ timer' <= Larger(Debounce, LongestWait)
         /\ patience' \in 0 .. MaxDebounce
         /\ delays' \in [malformed : Delay, reconnect : Delay] /\ past' \in Pasts
<1>1. delays' \in [malformed : Delay, reconnect : Delay] /\ past' \in Pasts
  BY DEF Stop, NoDelays, NoPast, Delay, Pasts
<1>2. 0 \in 0 .. MaxDebounce
  BY ConnectionAssumption
<1>3. 0 <= Larger(Debounce, LongestWait)
  BY Delays DEF Typed
<1> QED BY <1>1, <1>2, <1>3 DEF Stop

LEMMA ConnectTyped ==
  ASSUME Typed, NEW ids \in SUBSET Slots, Connect(ids), UNCHANGED <<cfg, health>>
  PROVE  Typed'
<1>1. CASE Requests[ids] = Null
  <2>1. Stop /\ slots' = [i \in Slots |-> IF i \in ids THEN "gone" ELSE slots[i]]
    BY <1>1 DEF Connect
  <2>2. slots' \in [Slots -> {"new", "live", "gone"}]
    BY <2>1 DEF Typed
  <2>3. timer' \in Nat /\ snapshot' \subseteq Slots
    BY <2>1 DEF Stop
  <2> QED BY <2>1, <2>2, <2>3, StopTyped, SameDelays DEF Typed
<1>2. CASE Requests[ids] # Null
  <2>1. past' \in Pasts
    <3>1. past \in Pasts
      BY DEF Typed
    <3>2. past' = [past EXCEPT !.cause = "none", !.since = 0, !.joined = FALSE]
      BY <1>2 DEF Connect
    <3> QED BY <3>1, <3>2 DEF Pasts
  <2>2. 0 <= Larger(Debounce, LongestWait) /\ 0 \in 0 .. MaxDebounce
    BY Delays, ConnectionAssumption DEF Typed
  <2>3. /\ pc' = "drive" /\ snapshot' = ids /\ timer' = 0 /\ patience' = 0
        /\ UNCHANGED <<slots, changed, delays>>
    BY <1>2 DEF Connect
  <2>4. resync' \in BOOLEAN
    BY <1>2 DEF Connect
  <2> QED BY <2>1, <2>2, <2>3, <2>4, SameDelays DEF Typed, Open
<1> QED BY <1>1, <1>2

LEMMA RebuildTyped ==
  ASSUME Typed, Rebuild, changed' \in BOOLEAN, UNCHANGED <<cfg, slots, health>>
  PROVE  Typed'
<1>1. 0 <= Larger(Debounce, LongestWait) /\ MaxDebounce \in 0 .. MaxDebounce
  BY Delays, ConnectionAssumption DEF Typed
<1> QED BY <1>1, SameDelays DEF Rebuild, Typed

(* A supervisor starts with a connection, or with the wait that the one before *)
(* it owed.                                                                *)
LEMMA StartAs ==
  ASSUME cfg \in [scope : Scopes, setting : Settings], NEW live, Start(live)
  PROVE  /\ past' \in Pasts /\ ~past'.joined /\ past'.since = 0 /\ past'.errors = 0
         /\ delays' \in [malformed : Delay, reconnect : Delay] /\ delays'.reconnect = Null
         /\ timer' \in Nat /\ timer' <= LongestWait
         /\ pc' \in {"prepare", "wait"} /\ snapshot' = live /\ patience' = MaxDebounce
         /\ resync' \in BOOLEAN
         /\ pc' = "prepare" => past'.cause = "none" /\ timer' = 0
         /\ past'.cause = "none" => past'.malformed = 0 /\ delays'.malformed = Null
         /\ past'.cause = "rejected" =>
              /\ timer' = RejectedRetryDelay
              /\ past'.malformed = 0 /\ delays'.malformed = Null
         /\ past'.cause = "malformed" =>
              /\ timer' = FirstMalformedDelay
              /\ past'.malformed = 1 /\ delays'.malformed = FirstMalformedDelay
         /\ past'.cause \in {"none", "rejected", "malformed"}
<1>1. NextMalformedDelay(Null) = FirstMalformedDelay
  BY DEF NextMalformedDelay
<1>2. FirstMalformedDelay \in Nat /\ FirstMalformedDelay <= LongestWait
      /\ RejectedRetryDelay \in Nat /\ RejectedRetryDelay <= LongestWait /\ 0 <= LongestWait
  BY Delays
<1>3. CASE cfg.scope = "Rejected"
  BY <1>2, <1>3 DEF Start, NoDelays, NoPast, Given, Delay, Pasts, Causes
<1>4. CASE cfg.scope = "Malformed"
  BY <1>1, <1>2, <1>4 DEF Start, NoDelays, NoPast, Given, Delay, Pasts, Causes
<1>5. CASE cfg.scope \notin {"Rejected", "Malformed"}
  BY <1>2, <1>5 DEF Start, NoDelays, NoPast, Given, Delay, Pasts, Causes
<1> QED BY <1>3, <1>4, <1>5

(* Subscriptions come, with a silence up to the threshold, and leave.        *)
LEMMA ArrivalsAre ==
  \A h \in Arrivals :
    /\ h.shows \in {"Fine", "Degraded", "Stalled", "Rejected"}
    /\ h.quiet \in 0 .. StallThreshold /\ h.quiet \in 0 .. MaxQuiet
    /\ h = [shows |-> h.shows, quiet |-> h.quiet]
<1>1. ShownBefore \subseteq {"Fine", "Degraded", "Stalled", "Rejected"}
  BY Zenon DEF ShownBefore
<1>2. \A n \in 0 .. StallThreshold : n \in 0 .. MaxQuiet
  BY ConnectionAssumption
<1> QED BY <1>1, <1>2 DEF Arrivals, Health

LEMMA JoinTyped ==
  ASSUME Typed, NEW i \in Slots, Join(i)
  PROVE  Typed'
<1>1. Arrivals \subseteq Healths
  BY ArrivalsAre DEF Healths
<1>2. health' \in [Slots -> Healths] /\ slots' \in [Slots -> {"new", "live", "gone"}]
  BY <1>1 DEF Join, Typed
<1>3. CASE pc = "idle"
  <2>1. Start({i}) /\ UNCHANGED changed
    BY <1>3 DEF Join
  <2>2. past' \in Pasts /\ delays' \in [malformed : Delay, reconnect : Delay]
        /\ timer' \in Nat /\ timer' <= LongestWait
        /\ pc' \in {"prepare", "wait"} /\ snapshot' = {i} /\ patience' = MaxDebounce
        /\ resync' \in BOOLEAN
    BY <2>1, StartAs DEF Typed
  <2>3. MaxDebounce \in 0 .. MaxDebounce
    BY ConnectionAssumption
  <2>4. timer' <= Larger(Debounce, LongestWait)
    BY <2>2, Delays DEF Typed
  <2> QED BY <1>2, <2>1, <2>2, <2>3, <2>4, SameDelays DEF Join, Typed
<1>4. CASE pc # "idle"
  <2>1. past' \in Pasts
    BY <1>4 DEF Join, Typed, Pasts
  <2> QED BY <1>2, <1>4, <2>1, SameDelays DEF Join, Typed
<1> QED BY <1>3, <1>4

LEMMA LeaveTyped ==
  ASSUME Typed, NEW i \in Slots, Leave(i)
  PROVE  Typed'
<1>1. Health("Fine", 0) \in Healths
  BY ConnectionAssumption DEF Health, Healths
<1>2. health' \in [Slots -> Healths] /\ slots' \in [Slots -> {"new", "live", "gone"}]
  BY <1>1 DEF Leave, Typed
<1> QED BY <1>2, SameDelays DEF Leave, Typed

LEMMA StreamEndsTyped ==
  ASSUME Typed, StreamEnds
  PROVE  Typed'
<1>1. CASE cfg.setting.restart # Null
  <2> DEFINE delay == Larger(cfg.setting.restart, MinDelay)
  <2>1. delay \in Nat /\ delay <= LongestWait
    BY <1>1, Delays DEF Typed
  <2>2. Wait("end", delay) /\ UNCHANGED <<delays, health>>
    BY <1>1 DEF StreamEnds
  <2> HIDE DEF delay
  <2>3. /\ timer' \in Nat /\ timer' <= Larger(Debounce, LongestWait) /\ past' \in Pasts
        /\ pc' = "wait" /\ UNCHANGED <<cfg, slots, changed, resync, snapshot, patience>>
    BY <2>1, <2>2, WaitTyped DEF Causes
  <2> QED BY <2>2, <2>3, SameDelays DEF Typed
<1>2. CASE cfg.setting.restart = Null
  <2>1. /\ Stop
        /\ slots' = [i \in Slots |-> IF i \in Covered THEN "gone" ELSE slots[i]]
        /\ health' = [i \in Slots |-> IF i \in Covered THEN Health("Fine", 0) ELSE health[i]]
        /\ UNCHANGED cfg
    BY <1>2 DEF StreamEnds
  <2>2. Health("Fine", 0) \in Healths
    BY ConnectionAssumption DEF Health, Healths
  <2>3. health' \in [Slots -> Healths] /\ slots' \in [Slots -> {"new", "live", "gone"}]
    BY <2>1, <2>2 DEF Typed
  <2>4. timer' \in Nat /\ snapshot' \subseteq Slots
    BY <2>1 DEF Stop
  <2> QED BY <2>1, <2>3, <2>4, StopTyped, SameDelays DEF Typed
<1> QED BY <1>1, <1>2

LEMMA TickTyped ==
  ASSUME Typed, Tick
  PROVE  Typed'
<1>1. timer' \in Nat /\ timer' <= timer /\ patience' \in 0 .. MaxDebounce
  BY ConnectionAssumption DEF Typed, Tick
<1>2. past' \in Pasts
  <2>1. past \in Pasts /\ LongestWait \in Nat
    BY Delays DEF Typed
  <2>2. IF past.cause = "none" THEN past'.since = 0
        ELSE past'.since = Smaller(past.since + 1, LongestWait)
    BY <2>1 DEF Tick, Pasts
  <2>3. \A n \in Nat : Smaller(n + 1, LongestWait) \in Nat
    BY <2>1 DEF Smaller
  <2>4. past'.since \in Nat
    BY <2>1, <2>2, <2>3 DEF Pasts
  <2>5. past' = [past EXCEPT !.since = past'.since]
    BY <2>1 DEF Tick, Pasts
  <2> QED BY <2>1, <2>4, <2>5 DEF Pasts
<1>3. \A h \in Healths : Longer(h) \in Healths
  BY ConnectionAssumption DEF Healths, Longer, Smaller
<1>4. health' \in [Slots -> Healths]
  BY <1>3 DEF Typed, Tick
<1>5. timer' <= Larger(Debounce, LongestWait)
  BY <1>1, Delays DEF Typed
<1> QED BY <1>1, <1>2, <1>4, <1>5, SameDelays DEF Typed, Tick

(* Failures: the connection waits, or its client reconnects by itself.        *)
LEMMA FailureTyped ==
  ASSUME Typed, NEW cause \in Causes, NEW delay \in Nat, delay <= LongestWait,
         Wait(cause, delay), health' \in [Slots -> Healths],
         delays' \in [malformed : Delay, reconnect : Delay]
  PROVE  Typed'
<1>1. /\ timer' \in Nat /\ timer' <= Larger(Debounce, LongestWait) /\ past' \in Pasts
      /\ pc' = "wait" /\ UNCHANGED <<cfg, slots, changed, resync, snapshot, patience>>
  BY WaitTyped
<1> QED BY <1>1, SameDelays DEF Typed

LEMMA RejectTyped ==
  ASSUME Typed, Reject
  PROVE  Typed'
<1>1. RejectedRetryDelay \in Nat /\ RejectedRetryDelay <= LongestWait
  BY Delays DEF Typed
<1>2. health' \in [Slots -> Healths]
  BY ShowTyped DEF Reject
<1>3. delays' \in [malformed : Delay, reconnect : Delay]
  BY DEF Reject, Typed
<1>4. CASE Wait("rejected", RejectedRetryDelay)
  BY <1>1, <1>2, <1>3, <1>4, FailureTyped DEF Causes
<1>5. CASE /\ pc' = "telling"
           /\ UNCHANGED <<cfg, slots, changed, resync, snapshot, timer, patience, past>>
  BY <1>2, <1>3, <1>5, SameDelays DEF Typed, Open
<1> QED BY <1>4, <1>5 DEF Reject

LEMMA ToldTyped ==
  ASSUME Typed, Told
  PROVE  Typed'
<1>1. RejectedRetryDelay \in Nat /\ RejectedRetryDelay <= LongestWait
  BY Delays DEF Typed
<1> QED BY <1>1, FailureTyped DEF Told, Typed, Causes

(* A frame that was handled.                                               *)
LEMMA HeardTyped ==
  ASSUME Typed, NEW decoded \in BOOLEAN, Heard(decoded)
  PROVE  /\ health' \in [Slots -> Healths] /\ past' \in Pasts
         /\ delays' \in [malformed : Delay, reconnect : Delay]
<1>1. health' \in [Slots -> Healths]
  BY ShowTyped DEF Heard
<1>2. delays' \in [malformed : Delay, reconnect : Delay]
  BY DEF Heard, Typed, Delay
<1>3. past' \in Pasts
  <2>1. past \in Pasts
    BY DEF Typed
  <2>2. past' = [past EXCEPT !.errors = 0, !.malformed = IF decoded THEN 0 ELSE @]
    BY DEF Heard
  <2> QED BY <2>1, <2>2 DEF Pasts
<1> QED BY <1>1, <1>2, <1>3

LEMMA MalformedEventTyped ==
  ASSUME Typed, MalformedEvent
  PROVE  Typed'
<1> DEFINE delay == NextMalformedDelay(delays.malformed)
<1>1. delays.malformed \in Delay
  BY DEF Typed
<1>2. delay \in Nat /\ delay <= LongestWait
  BY <1>1, NextDelays DEF Typed
<1>3. /\ Problem /\ Wait("malformed", delay)
      /\ delays' = [delays EXCEPT !.malformed = delay]
  BY DEF MalformedEvent
<1> HIDE DEF delay
<1>4. delays' \in [malformed : Delay, reconnect : Delay]
  BY <1>2, <1>3 DEF Typed, Delay
<1> QED BY <1>2, <1>3, <1>4, ProblemTyped, FailureTyped DEF Causes

LEMMA ErrorTyped ==
  ASSUME Typed, NEW status, Error(status)
  PROVE  Typed'
<1>1. CASE IsRejection(status)
  BY <1>1, RejectTyped DEF Error
<1>2. CASE ~IsRejection(status) /\ Requests[snapshot].resumable
  <2> DEFINE delay == NextReconnectDelay(delays.reconnect)
  <2>1. delays.reconnect \in Delay
    BY DEF Typed
  <2>2. delay \in Nat /\ delay <= LongestWait
    BY <2>1, NextDelays DEF Typed
  <2>3. /\ Problem /\ Wait("error", delay)
        /\ delays' = [delays EXCEPT !.reconnect = delay]
    BY <1>2 DEF Error
  <2> HIDE DEF delay
  <2>4. delays' \in [malformed : Delay, reconnect : Delay]
    BY <2>2, <2>3 DEF Typed, Delay
  <2> QED BY <2>2, <2>3, <2>4, ProblemTyped, FailureTyped DEF Causes
<1>3. CASE ~IsRejection(status) /\ ~Requests[snapshot].resumable
  BY <1>3, ProblemTyped, SameDelays DEF Error, Stay, Typed
<1> QED BY <1>1, <1>2, <1>3

LEMMA TypedNext == Typed /\ [Next]_vars => Typed'
<1> SUFFICES ASSUME Typed, [Next]_vars  PROVE Typed'
  OBVIOUS
<1>1. ASSUME NEW i \in Slots, Join(i) \/ Leave(i) \/ RequestResync(i)  PROVE Typed'
  <2>1. CASE RequestResync(i)
    BY <2>1, SameDelays DEF RequestResync, Typed
  <2> QED BY <1>1, <2>1, JoinTyped, LeaveTyped
<1>2. CASE Prepare
  <2>1. LiveSlots \subseteq Slots
    BY DEF LiveSlots
  <2>2. CASE Stop /\ UNCHANGED slots
    <3>1. timer' \in Nat /\ snapshot' \subseteq Slots
      BY <2>2 DEF Stop
    <3> QED BY <1>2, <2>2, <3>1, StopTyped, SameDelays DEF Prepare, Typed
  <2>3. CASE pc' = "debounce" /\ snapshot' = LiveSlots /\ timer' = Debounce
             /\ UNCHANGED <<slots, changed, resync, patience, delays, past>>
    BY <1>2, <2>1, <2>3, Delays, SameDelays, ConnectionAssumption DEF Prepare, Typed
  <2>4. CASE Connect(LiveSlots)
    BY <1>2, <2>1, <2>4, ConnectTyped DEF Prepare
  <2> QED BY <1>2, <2>2, <2>3, <2>4 DEF Prepare
<1>3. CASE DebounceChanged
  <2>1. 0 <= Larger(Debounce, LongestWait)
    BY Delays DEF Typed
  <2> QED BY <1>3, <2>1, SameDelays DEF DebounceChanged, Typed
<1>4. CASE DebounceOver
  BY <1>4, ConnectTyped DEF DebounceOver, Typed
<1>5. CASE WaitChanged
  BY <1>5, RebuildTyped, SameDelays DEF WaitChanged, Typed
<1>6. CASE WaitOver
  BY <1>6, RebuildTyped DEF WaitOver, Typed
<1>7. CASE Change
  BY <1>7, RebuildTyped, SameDelays DEF Change, Typed
<1>8. CASE MarkStalled
  <2>1. health' \in [Slots -> Healths]
    BY <1>8 DEF MarkStalled, Typed, Healths
  <2> QED BY <1>8, <2>1, SameDelays DEF MarkStalled, Typed
<1>9. ASSUME NEW decoded \in BOOLEAN, Traffic(decoded)  PROVE Typed'
  BY <1>9, HeardTyped, SameDelays DEF Traffic, Stay, Typed
<1>10. CASE Connected
  <2>1. health' \in [Slots -> Healths]
    BY <1>10, ShowTyped DEF Connected
  <2> QED BY <1>10, <2>1, SameDelays DEF Connected, Stay, Typed
<1>11. CASE MalformedEvent
  BY <1>11, MalformedEventTyped
<1>12. CASE DocumentRejected
  BY <1>12, RejectTyped DEF DocumentRejected
<1>13. ASSUME NEW status \in Errors, Error(status)  PROVE Typed'
  BY <1>13, ErrorTyped
<1>14. CASE StreamEnds
  BY <1>14, StreamEndsTyped
<1>15. CASE Tick
  BY <1>15, TickTyped
<1>16. CASE UNCHANGED vars
  BY <1>16, SameDelays DEF vars, Typed
<1>17. CASE Deliver
  BY <1>17, SameDelays DEF Deliver, Typed, Open
<1>18. CASE Delivered
  BY <1>18, HeardTyped, SameDelays DEF Delivered, Typed, Open
<1>19. CASE Told
  BY <1>19, ToldTyped
<1> QED BY <1>1, <1>2, <1>3, <1>4, <1>5, <1>6, <1>7, <1>8, <1>9, <1>10, <1>11, <1>12, <1>13,
           <1>14, <1>15, <1>16, <1>17, <1>18, <1>19 DEF Next

-----------------------------------------------------------------------------
(***************************************************************************)
(* The subscriptions of a connection.                                      *)
(***************************************************************************)

LEMMA CoveringInit == Init => Covering
<1> SUFFICES ASSUME Init  PROVE Covering
  OBVIOUS
<1>1. slots = [i \in Slots |-> "new"] /\ pc = "idle" /\ snapshot = {}
  BY DEF Init
<1>2. ~changed
  BY DEF Init
<1> QED BY <1>1, <1>2 DEF Covering, LiveSlots, Seen, Open

(* Without a change that is pending, a connection that ends ends them all.    *)
LEMMA ConnectCovering ==
  ASSUME Typed, Covering, NEW ids \in SUBSET Slots, ids # {}, LiveSlots \subseteq ids,
         ids \subseteq Seen, Connect(ids)
  PROVE  Covering'
<1>1. CASE Requests[ids] = Null
  <2>1. Stop /\ slots' = [i \in Slots |-> IF i \in ids THEN "gone" ELSE slots[i]]
    BY <1>1 DEF Connect
  <2>2. pc' = "idle" /\ snapshot' = {}
    BY <2>1 DEF Stop
  <2>3. ~changed'
    BY <2>1 DEF Stop
  <2> QED BY <2>1, <2>2, <2>3 DEF Covering, LiveSlots, Seen, Open
<1>2. CASE Requests[ids] # Null
  BY <1>2 DEF Connect, Covering, LiveSlots, Seen, Open
<1> QED BY <1>1, <1>2

LEMMA RebuildCovering ==
  ASSUME Covering, Rebuild, UNCHANGED slots
  PROVE  Covering'
BY DEF Rebuild, Covering, LiveSlots, Seen, Open

LEMMA SameCovering ==
  ASSUME Covering, UNCHANGED <<slots, changed, snapshot, pc>>
  PROVE  Covering'
BY DEF Covering, LiveSlots, Seen

(* A connection that is open waits, or waits in send, or goes on.             *)
LEMMA OpenCovering ==
  ASSUME Covering, pc \in Open, pc' \in Open \cup {"wait"}, UNCHANGED <<slots, changed, snapshot>>
  PROVE  Covering'
BY DEF Covering, LiveSlots, Seen, Open

LEMMA WaitCovering ==
  ASSUME Covering, pc \in Open, NEW cause, NEW delay, Wait(cause, delay)
  PROVE  Covering'
BY OpenCovering DEF Wait, Open

LEMMA RejectCovering ==
  ASSUME Covering, Event, Reject
  PROVE  Covering'
<1>1. CASE Wait("rejected", RejectedRetryDelay)
  BY <1>1, WaitCovering DEF Event, Open
<1>2. CASE pc' = "telling" /\ UNCHANGED <<slots, changed, snapshot>>
  BY <1>2, OpenCovering DEF Event, Open
<1> QED BY <1>1, <1>2 DEF Reject

LEMMA JoinCovering ==
  ASSUME Typed, Covering, NEW i \in Slots, Join(i)
  PROVE  Covering'
<1>1. /\ LiveSlots' = LiveSlots \cup {i} /\ Seen' = Seen \cup {i}
  BY DEF Join, Typed, LiveSlots, Seen
<1>2. CASE pc = "idle"
  <2>1. Start({i}) /\ UNCHANGED changed
    BY <1>2 DEF Join
  <2>2. pc' \in {"prepare", "wait"} /\ snapshot' = {i}
    BY <2>1, StartAs DEF Typed
  <2> QED BY <1>1, <1>2, <2>1, <2>2 DEF Covering, Open
<1>3. CASE pc # "idle"
  BY <1>1, <1>3 DEF Join, Covering
<1> QED BY <1>2, <1>3

LEMMA LeaveCovering ==
  ASSUME Typed, Covering, NEW i \in Slots, Leave(i)
  PROVE  Covering'
<1>1. LiveSlots' = LiveSlots \ {i} /\ Seen' = Seen /\ i \in LiveSlots
  BY DEF Leave, Typed, LiveSlots, Seen
<1>2. pc # "idle" /\ changed'
  BY <1>1 DEF Leave, Covering
<1> QED BY <1>1, <1>2 DEF Leave, Covering

LEMMA CoveringNext == Typed /\ Covering /\ [Next]_vars => Covering'
<1> SUFFICES ASSUME Typed, Covering, [Next]_vars  PROVE Covering'
  OBVIOUS
<1>1. ASSUME NEW i \in Slots, Join(i) \/ Leave(i) \/ RequestResync(i)  PROVE Covering'
  <2>1. CASE RequestResync(i)
    <3>1. pc # "idle"
      BY <2>1 DEF RequestResync, Covering, LiveSlots
    <3> QED BY <2>1, <3>1 DEF RequestResync, Covering, LiveSlots, Seen
  <2> QED BY <1>1, <2>1, JoinCovering, LeaveCovering
<1>2. CASE Prepare
  <2>1. LiveSlots \in SUBSET Slots /\ LiveSlots \subseteq Seen
    BY DEF LiveSlots, Seen
  <2>2. CASE LiveSlots = {} /\ Stop /\ UNCHANGED slots
    <3>1. pc' = "idle" /\ snapshot' = {}
      BY <2>2 DEF Stop
    <3>2. ~changed'
      BY <2>2 DEF Stop
    <3> QED BY <2>2, <3>1, <3>2 DEF Covering, LiveSlots, Open
  <2>3. CASE LiveSlots # {} /\ pc' = "debounce" /\ snapshot' = LiveSlots
             /\ UNCHANGED <<slots, changed>>
    BY <2>1, <2>3 DEF Covering, LiveSlots, Seen, Open
  <2>4. CASE LiveSlots # {} /\ Connect(LiveSlots)
    BY <2>1, <2>4, ConnectCovering
  <2> QED BY <1>2, <2>2, <2>3, <2>4 DEF Prepare
<1>3. CASE DebounceChanged
  BY <1>3 DEF DebounceChanged, Covering, LiveSlots, Seen, Open
<1>4. CASE DebounceOver
  <2>1. snapshot = LiveSlots /\ snapshot # {} /\ snapshot \in SUBSET Slots
        /\ snapshot \subseteq Seen
    BY <1>4 DEF DebounceOver, Covering, Typed
  <2> QED BY <1>4, <2>1, ConnectCovering DEF DebounceOver
<1>5. CASE WaitChanged
  <2>1. CASE LiveSlots = {} \/ ~(LiveSlots \subseteq snapshot)
    BY <1>5, <2>1, RebuildCovering DEF WaitChanged
  <2>2. CASE LiveSlots \subseteq snapshot /\ UNCHANGED <<pc, snapshot>>
    BY <1>5, <2>2 DEF WaitChanged, Covering, LiveSlots, Seen
  <2> QED BY <1>5, <2>1, <2>2 DEF WaitChanged
<1>6. CASE WaitOver
  BY <1>6, RebuildCovering DEF WaitOver
<1>7. CASE Change
  <2>1. CASE Rebuild
    BY <1>7, <2>1, RebuildCovering DEF Change
  <2>2. CASE LiveSlots \subseteq snapshot /\ UNCHANGED <<pc, snapshot>>
    BY <1>7, <2>2 DEF Change, Covering, LiveSlots, Seen
  <2> QED BY <1>7, <2>1, <2>2 DEF Change
<1>8. CASE MarkStalled
  BY <1>8, SameCovering DEF MarkStalled
<1>9. ASSUME NEW decoded \in BOOLEAN, Traffic(decoded)  PROVE Covering'
  BY <1>9, SameCovering DEF Traffic, Stay
<1>10. CASE Connected
  BY <1>10, SameCovering DEF Connected, Stay
<1>11. CASE MalformedEvent
  BY <1>11, WaitCovering DEF MalformedEvent, Event, Open
<1>12. CASE DocumentRejected
  BY <1>12, RejectCovering DEF DocumentRejected
<1>13. ASSUME NEW status \in Errors, Error(status)  PROVE Covering'
  <2>1. CASE Reject
    BY <1>13, <2>1, RejectCovering DEF Error
  <2>2. CASE Wait("error", NextReconnectDelay(delays.reconnect))
    BY <1>13, <2>2, WaitCovering DEF Error, Event, Open
  <2>3. CASE Stay
    BY <2>3, SameCovering DEF Stay
  <2> QED BY <1>13, <2>1, <2>2, <2>3 DEF Error
<1>14. CASE StreamEnds
  <2>1. CASE cfg.setting.restart # Null
    BY <1>14, <2>1, WaitCovering DEF StreamEnds, Event, Open
  <2>2. CASE cfg.setting.restart = Null
    <3>1. /\ Event /\ Stop
          /\ slots' = [i \in Slots |-> IF i \in Covered THEN "gone" ELSE slots[i]]
      BY <1>14, <2>2 DEF StreamEnds
    <3>2. LiveSlots \subseteq Covered
      BY <3>1 DEF Event, Covering, Covered, Open
    <3> QED BY <3>1, <3>2 DEF Stop, Covering, LiveSlots, Open
  <2> QED BY <2>1, <2>2
<1>15. CASE Tick
  BY <1>15, SameCovering DEF Tick
<1>16. CASE UNCHANGED vars
  BY <1>16, SameCovering DEF vars
<1>17. CASE Deliver
  BY <1>17, OpenCovering DEF Deliver, Event, Open
<1>18. CASE Delivered
  BY <1>18, OpenCovering DEF Delivered, Open
<1>19. CASE Told
  BY <1>19, WaitCovering DEF Told, Open
<1> QED BY <1>1, <1>2, <1>3, <1>4, <1>5, <1>6, <1>7, <1>8, <1>9, <1>10, <1>11, <1>12, <1>13,
           <1>14, <1>15, <1>16, <1>17, <1>18, <1>19 DEF Next

(* The subscriptions stay who they are unless one comes; who is ended was here. *)
LEMMA SameAlone ==
  ASSUME Alone, UNCHANGED cfg, Seen' = Seen,
         pc' \in {"debounce", "delivering", "telling"} => pc' = pc,
         pc' # "idle" => pc # "idle"
  PROVE  Alone'
BY DEF Alone, Waits

LEMMA EndedAlone ==
  ASSUME Covering, Alone, NEW ids \in SUBSET Seen, Stop, UNCHANGED cfg,
         slots' = [i \in Slots |-> IF i \in ids THEN "gone" ELSE slots[i]]
  PROVE  Alone'
<1>1. Seen' = Seen
  BY DEF Seen
<1> QED BY <1>1, SameAlone DEF Stop

LEMMA ConnectAlone ==
  ASSUME Covering, Alone, pc # "idle", NEW ids \in SUBSET Seen, Connect(ids), UNCHANGED cfg
  PROVE  Alone'
<1>1. CASE Requests[ids] = Null
  BY <1>1, EndedAlone DEF Connect
<1>2. CASE Requests[ids] # Null
  <2>1. Seen' = Seen
    BY <1>2 DEF Connect, Seen
  <2> QED BY <1>2, <2>1, SameAlone DEF Connect
<1> QED BY <1>1, <1>2

LEMMA RejectAlone ==
  ASSUME Alone, Event, Reject
  PROVE  Alone'
<1>1. CASE Wait("rejected", RejectedRetryDelay)
  BY <1>1, SameAlone DEF Wait, Event, Seen
<1>2. CASE Waits /\ pc' = "telling" /\ UNCHANGED <<cfg, slots>>
  BY <1>2 DEF Event, Alone, Waits, Seen
<1> QED BY <1>1, <1>2 DEF Reject

LEMMA AloneNext == Typed /\ Covering /\ Alone /\ [Next]_vars => Alone'
<1> SUFFICES ASSUME Typed, Covering, Alone, [Next]_vars  PROVE Alone'
  OBVIOUS
<1>1. ASSUME NEW i \in Slots, Join(i)  PROVE Alone'
  <2>1. /\ Seen' = Seen \cup {i} /\ UNCHANGED cfg
        /\ cfg.scope # "Shared" => Seen = {}
    BY <1>1 DEF Join, Typed, Seen
  <2>2. pc' \in {"prepare", "wait"} \/ pc' = pc
    BY <1>1, StartAs DEF Join, Typed
  <2> QED BY <2>1, <2>2 DEF Alone, Waits
<1>2. ASSUME NEW i \in Slots, Leave(i) \/ RequestResync(i)  PROVE Alone'
  <2>1. Seen' = Seen /\ UNCHANGED <<cfg, pc>>
    BY <1>2 DEF Leave, RequestResync, Seen, Typed
  <2> QED BY <2>1, SameAlone
<1>3. CASE Prepare
  <2>1. LiveSlots \in SUBSET Seen
    BY DEF LiveSlots, Seen
  <2>2. CASE Stop /\ UNCHANGED slots
    BY <1>3, <2>2, SameAlone DEF Prepare, Stop, Seen
  <2>3. CASE cfg.scope = "Shared" /\ pc' = "debounce"
    BY <1>3, <2>3 DEF Prepare, Alone, Waits
  <2>4. CASE Connect(LiveSlots)
    BY <1>3, <2>1, <2>4, ConnectAlone DEF Prepare
  <2> QED BY <1>3, <2>2, <2>3, <2>4 DEF Prepare
<1>4. CASE DebounceOver
  <2>1. snapshot \in SUBSET Seen
    BY DEF Covering
  <2> QED BY <1>4, <2>1, ConnectAlone DEF DebounceOver
<1>5. CASE DebounceChanged \/ WaitChanged \/ WaitOver \/ Change \/ MarkStalled \/ Connected
           \/ Tick \/ UNCHANGED vars
  <2>1. Seen' = Seen /\ UNCHANGED cfg /\ (pc' = pc \/ pc' = "prepare")
        /\ (pc' # "idle" => pc # "idle")
    BY <1>5 DEF DebounceChanged, WaitChanged, WaitOver, Change, MarkStalled, Connected, Tick,
                Stay, Rebuild, vars, Seen
  <2> QED BY <2>1, SameAlone
<1>6. ASSUME NEW decoded \in BOOLEAN, Traffic(decoded)  PROVE Alone'
  BY <1>6, SameAlone DEF Traffic, Stay, Seen
<1>7. CASE MalformedEvent
  BY <1>7, SameAlone DEF MalformedEvent, Wait, Event, Seen
<1>8. CASE DocumentRejected
  BY <1>8, RejectAlone DEF DocumentRejected
<1>9. ASSUME NEW status \in Errors, Error(status)  PROVE Alone'
  <2>1. CASE Reject
    BY <1>9, <2>1, RejectAlone DEF Error
  <2>2. CASE Wait("error", NextReconnectDelay(delays.reconnect)) \/ Stay
    BY <1>9, <2>2, SameAlone DEF Error, Wait, Stay, Event, Seen
  <2> QED BY <1>9, <2>1, <2>2 DEF Error
<1>10. CASE StreamEnds
  <2>1. CASE cfg.setting.restart # Null
    BY <1>10, <2>1, SameAlone DEF StreamEnds, Wait, Event, Seen
  <2>2. CASE cfg.setting.restart = Null
    <3>1. Covered \in SUBSET Seen
      BY DEF Covered, LiveSlots, Seen
    <3> QED BY <1>10, <2>2, <3>1, EndedAlone DEF StreamEnds
  <2> QED BY <2>1, <2>2
<1>11. CASE Deliver
  BY <1>11 DEF Deliver, Event, Alone, Waits, Seen
<1>12. CASE Delivered \/ Told
  BY <1>12, SameAlone DEF Delivered, Told, Wait, Seen
<1> QED BY <1>1, <1>2, <1>3, <1>4, <1>5, <1>6, <1>7, <1>8, <1>9, <1>10, <1>11, <1>12 DEF Next

(* Types and the subscriptions of a connection, together.                    *)
Covers == Typed /\ Covering /\ Alone

LEMMA CoversInit == Init => Covers
<1>1. Init => Alone
  BY DEF Init, Alone, Seen
<1> QED BY <1>1, TypedInit, CoveringInit DEF Covers

LEMMA CoversNext == Covers /\ [Next]_vars => Covers'
BY TypedNext, CoveringNext, AloneNext DEF Covers

(* What waits for its consumer has one subscription, which its document covers. *)
LEMMA CoversAlone ==
  ASSUME Covers, Waits, pc \in Open \cup {"wait"}
  PROVE  LiveSlots \subseteq snapshot
<1>1. LiveSlots \subseteq Seen /\ snapshot \subseteq Seen /\ snapshot # {}
  BY DEF Covers, Covering, LiveSlots, Seen
<1>2. \A i, j \in Seen : i = j
  BY DEF Covers, Alone
<1> QED BY <1>1, <1>2

(* The state keeps its types, and a supervisor that is connected or waits has  *)
(* a subscription it connected for (supervise, prepare, drive).              *)
THEOREM TypeCorrect == Spec => []TypeOK
<1>1. Covers => TypeOK
  <2> SUFFICES ASSUME Covers  PROVE TypeOK
    OBVIOUS
  <2>1. timer \in 0 .. Larger(Debounce, LongestWait)
    BY Delays DEF Covers, Typed
  <2> QED BY <2>1 DEF Covers, Typed, Covering, Healths, TypeOK
<1> QED BY <1>1, CoversInit, CoversNext, PTL DEF Spec

-----------------------------------------------------------------------------
(***************************************************************************)
(* Retries are paced.                                                      *)
(***************************************************************************)

LEMMA Doubling ==
  ASSUME NEW first \in Nat, NEW n \in Nat \ {0}
  PROVE  /\ DoubledSince(first, 1) = first
         /\ DoubledSince(first, n) \in Nat
         /\ DoubledSince(first, n + 1) = 2 * DoubledSince(first, n)
<1> DEFINE p == 2 ^ (n - 1)
<1>1. n - 1 \in Nat /\ (n - 1) + 1 = n /\ (n + 1) - 1 = n
  OBVIOUS
<1>2. p \in Nat /\ 2 ^ n = 2 * p
  BY <1>1, PowerDoubles
<1>3. 2 ^ 0 = 1
  OBVIOUS
<1>4. DoubledSince(first, 1) = first
  BY <1>3 DEF DoubledSince
<1>5. DoubledSince(first, n) = first * p
  BY DEF DoubledSince
<1>6. DoubledSince(first, n + 1) = first * (2 * p)
  BY <1>1, <1>2 DEF DoubledSince
<1> HIDE DEF p
<1>7. first * p \in Nat /\ first * (2 * p) = 2 * (first * p)
  BY <1>2
<1> QED BY <1>4, <1>5, <1>6, <1>7

(* The one step that counts a failure: the delay it leaves is at least what    *)
(* the failures in a row are owed.                                          *)
LEMMA ReconnectDelayGrows ==
  ASSUME Typed, Backoff,
         delays'.reconnect = NextReconnectDelay(delays.reconnect),
         past'.errors = Smaller(past.errors + 1, MaxInARow),
         UNCHANGED cfg
  PROVE  /\ delays'.reconnect \in Nat /\ past'.errors \in Nat \ {0}
         /\ past'.errors <= MaxInARow
         /\ Smaller(RejectedRetryDelay, DoubledSince(FirstDelay, past'.errors))
              <= delays'.reconnect
<1> DEFINE last == delays.reconnect
           n == past.errors
<1>1. /\ last \in Delay /\ n \in Nat /\ RejectedRetryDelay \in Nat
      /\ FirstDelay \in Nat /\ MaxInARow \in Nat \ {0} /\ n <= MaxInARow
  BY Delays, ConnectionAssumption DEF Typed, Pasts, Backoff
<1>2. past'.errors \in {n, n + 1} \ {0} /\ past'.errors <= MaxInARow
  BY <1>1 DEF Smaller
<1>3. delays'.reconnect = Smaller(RejectedRetryDelay, IF last = Null THEN FirstDelay ELSE 2 * last)
  BY DEF NextReconnectDelay
<1>4. CASE n = 0
  <2>1. last = Null /\ past'.errors = 1
    BY <1>2, <1>4 DEF Backoff
  <2>2. DoubledSince(FirstDelay, 1) = FirstDelay
    BY <1>1, Doubling
  <2>3. delays'.reconnect = Smaller(RejectedRetryDelay, FirstDelay)
    BY <1>3, <2>1
  <2> QED BY <1>1, <1>2, <2>1, <2>2, <2>3 DEF Smaller
<1>5. CASE n # 0
  <2> DEFINE owed == DoubledSince(FirstDelay, n)
  <2>1. n \in Nat \ {0} /\ last \in Nat /\ Smaller(RejectedRetryDelay, owed) <= last
    BY <1>1, <1>5 DEF Backoff, Delay
  <2>2. owed \in Nat /\ DoubledSince(FirstDelay, n + 1) = 2 * owed
    BY <1>1, <2>1, Doubling
  <2>3. last # Null
    BY <2>1, SelectionAssumption
  <2> HIDE DEF owed, last, n
  <2>4. /\ Smaller(RejectedRetryDelay, owed) <= delays'.reconnect
        /\ Smaller(RejectedRetryDelay, 2 * owed) <= delays'.reconnect
        /\ delays'.reconnect \in Nat
    BY <1>1, <1>3, <2>1, <2>2, <2>3 DEF Smaller
  <2> QED BY <1>1, <1>2, <2>1, <2>2, <2>4 DEF owed
<1> QED BY <1>4, <1>5

LEMMA MalformedDelayGrows ==
  ASSUME Typed, Backoff,
         delays'.malformed = NextMalformedDelay(delays.malformed),
         past'.malformed = Smaller(past.malformed + 1, MaxInARow),
         UNCHANGED cfg
  PROVE  /\ delays'.malformed \in Nat /\ past'.malformed \in Nat \ {0}
         /\ past'.malformed <= MaxInARow /\ delays'.malformed <= LongestMalformedDelay
         /\ Smaller(LongestMalformedDelay, DoubledSince(FirstMalformedDelay, past'.malformed))
              <= delays'.malformed
<1> DEFINE last == delays.malformed
           n == past.malformed
<1>1. /\ last \in Delay /\ n \in Nat /\ LongestMalformedDelay \in Nat
      /\ FirstMalformedDelay \in Nat /\ MaxInARow \in Nat \ {0} /\ n <= MaxInARow
      /\ FirstMalformedDelay <= LongestMalformedDelay
  BY Delays, ConnectionAssumption DEF Typed, Pasts, Backoff
<1>2. past'.malformed \in {n, n + 1} \ {0} /\ past'.malformed <= MaxInARow
  BY <1>1 DEF Smaller
<1>3. delays'.malformed = IF last = Null THEN FirstMalformedDelay
                          ELSE Smaller(2 * last, LongestMalformedDelay)
  BY DEF NextMalformedDelay, LongestMalformedDelay
<1>4. CASE n = 0
  <2>1. last = Null /\ past'.malformed = 1
    BY <1>2, <1>4 DEF Backoff
  <2>2. DoubledSince(FirstMalformedDelay, 1) = FirstMalformedDelay
    BY <1>1, Doubling
  <2>3. delays'.malformed = FirstMalformedDelay
    BY <1>3, <2>1
  <2> QED BY <1>1, <1>2, <2>1, <2>2, <2>3 DEF Smaller
<1>5. CASE n # 0
  <2> DEFINE owed == DoubledSince(FirstMalformedDelay, n)
  <2>1. /\ n \in Nat \ {0} /\ last \in Nat /\ last <= LongestMalformedDelay
        /\ Smaller(LongestMalformedDelay, owed) <= last
    BY <1>1, <1>5 DEF Backoff, Delay
  <2>2. owed \in Nat /\ DoubledSince(FirstMalformedDelay, n + 1) = 2 * owed
    BY <1>1, <2>1, Doubling
  <2>3. last # Null
    BY <2>1, SelectionAssumption
  <2> HIDE DEF owed, last, n
  <2>4. /\ Smaller(LongestMalformedDelay, owed) <= delays'.malformed
        /\ Smaller(LongestMalformedDelay, 2 * owed) <= delays'.malformed
        /\ delays'.malformed \in Nat /\ delays'.malformed <= LongestMalformedDelay
    BY <1>1, <1>3, <2>1, <2>2, <2>3 DEF Smaller
  <2> QED BY <1>1, <1>2, <2>1, <2>2, <2>4 DEF owed
<1> QED BY <1>4, <1>5

(* What a wait does to the history.                                        *)
LEMMA WaitPast ==
  ASSUME Typed, NEW cause \in Causes, NEW delay, Wait(cause, delay)
  PROVE  /\ pc' = "wait" /\ timer' = delay
         /\ past'.cause = cause /\ past'.since = 0 /\ ~past'.joined
         /\ past'.errors = IF cause = "error" THEN Smaller(past.errors + 1, MaxInARow)
                           ELSE past.errors
         /\ past'.malformed = IF cause = "malformed" THEN Smaller(past.malformed + 1, MaxInARow)
                              ELSE past.malformed
         /\ UNCHANGED <<cfg, slots, changed, snapshot, patience>>
<1>1. past \in Pasts
  BY DEF Typed
<1>2. past' = [past EXCEPT !.cause = cause, !.since = 0, !.joined = FALSE,
                          !.errors = IF cause = "error" THEN Smaller(past.errors + 1, MaxInARow)
                                     ELSE past.errors,
                          !.malformed = IF cause = "malformed"
                                        THEN Smaller(past.malformed + 1, MaxInARow)
                                        ELSE past.malformed]
  BY DEF Wait
<1>3. pc' = "wait" /\ timer' = delay /\ UNCHANGED <<cfg, slots, changed, snapshot, patience>>
  BY DEF Wait
<1> QED BY <1>1, <1>2, <1>3 DEF Pasts

(* Nothing that the backoff is about changes.                               *)
LEMMA SameBackoff ==
  ASSUME Backoff, delays' = delays, past'.errors = past.errors,
         past'.malformed = past.malformed, UNCHANGED cfg
  PROVE  Backoff'
BY DEF Backoff, RejectedRetryDelay, FirstMalformedDelay, LongestMalformedDelay, Larger, Smaller,
       DoubledSince

(* Whoever starts again has no delay behind it.                             *)
LEMMA FreshBackoff ==
  ASSUME delays' = NoDelays, past' = NoPast
  PROVE  Backoff'
BY ConnectionAssumption DEF Backoff, NoDelays, NoPast

LEMMA ConnectBackoff ==
  ASSUME Typed, Backoff, NEW ids, Connect(ids), UNCHANGED cfg
  PROVE  Backoff'
<1>1. CASE Requests[ids] = Null
  BY <1>1, FreshBackoff DEF Connect, Stop
<1>2. CASE Requests[ids] # Null
  <2>1. past \in Pasts
    BY DEF Typed
  <2>2. past' = [past EXCEPT !.cause = "none", !.since = 0, !.joined = FALSE]
        /\ UNCHANGED delays
    BY <1>2 DEF Connect
  <2> QED BY <2>1, <2>2, SameBackoff DEF Pasts
<1> QED BY <1>1, <1>2

LEMMA StartBackoff ==
  ASSUME Typed, NEW live, Start(live), UNCHANGED cfg
  PROVE  Backoff'
<1>1. MaxInARow \in Nat \ {0} /\ FirstMalformedDelay \in Nat \ {0}
      /\ FirstMalformedDelay <= LongestMalformedDelay /\ LongestMalformedDelay \in Nat
  BY Delays, ConnectionAssumption DEF Typed
<1>2. past'.errors = 0 /\ delays'.reconnect = Null
  BY StartAs DEF Typed
<1>3. CASE past'.malformed = 0 /\ delays'.malformed = Null
  BY <1>1, <1>2, <1>3 DEF Backoff
<1>4. CASE past'.malformed = 1 /\ delays'.malformed = FirstMalformedDelay
  <2>1. DoubledSince(FirstMalformedDelay, 1) = FirstMalformedDelay
    BY <1>1, Doubling
  <2>2. DoubledSince(FirstMalformedDelay', past'.malformed) = FirstMalformedDelay
    BY <1>4, <2>1, SameDelays
  <2>3. Smaller(LongestMalformedDelay', DoubledSince(FirstMalformedDelay', past'.malformed))
          <= delays'.malformed
    BY <1>1, <1>4, <2>2, SameDelays DEF Smaller
  <2>4. delays'.malformed # Null
    BY <1>1, <1>4, SelectionAssumption
  <2> QED BY <1>1, <1>2, <1>4, <2>3, <2>4, SameDelays DEF Backoff
<1> QED BY <1>3, <1>4, StartAs DEF Typed

LEMMA WaitBackoff ==
  ASSUME Typed, Backoff, NEW cause \in Causes, NEW delay, Wait(cause, delay),
         cause = "error" => delay = NextReconnectDelay(delays.reconnect)
                            /\ delays' = [delays EXCEPT !.reconnect = delay],
         cause = "malformed" => delay = NextMalformedDelay(delays.malformed)
                                /\ delays' = [delays EXCEPT !.malformed = delay],
         cause \in {"rejected", "end"} => UNCHANGED delays
  PROVE  Backoff'
<1>1. /\ delays \in [malformed : Delay, reconnect : Delay]
      /\ past \in Pasts
  BY DEF Typed
<1>2. CASE cause \in {"rejected", "end"}
  BY <1>2, WaitPast, SameBackoff
<1>3. CASE cause = "error"
  <2>1. /\ delays'.reconnect = NextReconnectDelay(delays.reconnect)
        /\ delays'.malformed = delays.malformed
        /\ past'.errors = Smaller(past.errors + 1, MaxInARow)
        /\ past'.malformed = past.malformed
        /\ UNCHANGED cfg
    BY <1>1, <1>3, WaitPast
  <2>2. /\ delays'.reconnect \in Nat /\ past'.errors \in Nat \ {0}
        /\ past'.errors <= MaxInARow
        /\ Smaller(RejectedRetryDelay, DoubledSince(FirstDelay, past'.errors))
             <= delays'.reconnect
    BY <2>1, ReconnectDelayGrows
  <2>3. Smaller(RejectedRetryDelay', DoubledSince(FirstDelay, past'.errors)) <= delays'.reconnect
    BY <2>1, <2>2, SameDelays
  <2>4. past.malformed > 0 =>
          /\ Smaller(LongestMalformedDelay', DoubledSince(FirstMalformedDelay', past'.malformed))
               <= delays'.malformed
          /\ delays'.malformed <= LongestMalformedDelay'
    BY <2>1, SameDelays DEF Backoff
  <2>5. delays'.reconnect # Null
    BY <2>2, SelectionAssumption
  <2> QED BY <2>1, <2>2, <2>3, <2>4, <2>5 DEF Backoff
<1>4. CASE cause = "malformed"
  <2>1. /\ delays'.malformed = NextMalformedDelay(delays.malformed)
        /\ delays'.reconnect = delays.reconnect
        /\ past'.malformed = Smaller(past.malformed + 1, MaxInARow)
        /\ past'.errors = past.errors
        /\ UNCHANGED cfg
    BY <1>1, <1>4, WaitPast
  <2>2. /\ delays'.malformed \in Nat /\ past'.malformed \in Nat \ {0}
        /\ past'.malformed <= MaxInARow /\ delays'.malformed <= LongestMalformedDelay
        /\ Smaller(LongestMalformedDelay, DoubledSince(FirstMalformedDelay, past'.malformed))
             <= delays'.malformed
    BY <2>1, MalformedDelayGrows
  <2>3. /\ Smaller(LongestMalformedDelay', DoubledSince(FirstMalformedDelay', past'.malformed))
             <= delays'.malformed
        /\ delays'.malformed <= LongestMalformedDelay'
    BY <2>1, <2>2, SameDelays
  <2>4. past.errors > 0 =>
          Smaller(RejectedRetryDelay', DoubledSince(FirstDelay, past'.errors)) <= delays'.reconnect
    BY <2>1, SameDelays DEF Backoff
  <2>5. delays'.malformed # Null
    BY <2>2, SelectionAssumption
  <2> QED BY <2>1, <2>2, <2>3, <2>4, <2>5 DEF Backoff
<1> QED BY <1>2, <1>3, <1>4 DEF Causes

LEMMA HeardBackoff ==
  ASSUME Typed, Backoff, NEW decoded \in BOOLEAN, Heard(decoded), UNCHANGED cfg
  PROVE  Backoff'
<1>1. past \in Pasts /\ delays \in [malformed : Delay, reconnect : Delay] /\ MaxInARow \in Nat
  BY ConnectionAssumption DEF Typed
<1>2. /\ delays' = [malformed |-> IF decoded THEN Null ELSE delays.malformed, reconnect |-> Null]
      /\ past' = [past EXCEPT !.errors = 0, !.malformed = IF decoded THEN 0 ELSE past.malformed]
      /\ UNCHANGED cfg
  BY DEF Heard
<1>3. /\ past'.errors = 0 /\ delays'.reconnect = Null
      /\ past'.malformed = (IF decoded THEN 0 ELSE past.malformed)
      /\ delays'.malformed = (IF decoded THEN Null ELSE delays.malformed)
  BY <1>1, <1>2 DEF Pasts
<1>4. CASE decoded
  BY <1>1, <1>3, <1>4 DEF Backoff
<1>5. CASE ~decoded
  BY <1>1, <1>2, <1>3, <1>5, SameDelays DEF Backoff
<1> QED BY <1>4, <1>5

LEMMA BackoffNext == Typed /\ Backoff /\ [Next]_vars => Backoff'
<1> SUFFICES ASSUME Typed, Backoff, [Next]_vars  PROVE Backoff'
  OBVIOUS
<1>0. past \in Pasts
  BY DEF Typed
<1>1. ASSUME NEW i \in Slots, Join(i)  PROVE Backoff'
  <2>1. CASE pc = "idle"
    BY <1>1, <2>1, StartBackoff DEF Join
  <2>2. CASE pc # "idle"
    BY <1>0, <1>1, <2>2, SameBackoff DEF Join, Pasts
  <2> QED BY <2>1, <2>2
<1>2. CASE Prepare
  <2>1. CASE Stop
    BY <2>1, FreshBackoff DEF Stop
  <2>2. CASE UNCHANGED <<delays, past>>
    BY <1>2, <2>2, SameBackoff DEF Prepare
  <2>3. CASE Connect(LiveSlots)
    BY <1>2, <2>3, ConnectBackoff DEF Prepare
  <2> QED BY <1>2, <2>1, <2>2, <2>3 DEF Prepare
<1>3. CASE DebounceOver
  BY <1>3, ConnectBackoff DEF DebounceOver
<1>4. CASE UNCHANGED <<cfg, delays, past>>
  BY <1>4, SameBackoff
<1>5. ASSUME NEW i \in Slots, Leave(i) \/ RequestResync(i)  PROVE Backoff'
  BY <1>5, <1>4 DEF Leave, RequestResync
<1>6. CASE DebounceChanged \/ WaitChanged \/ WaitOver \/ Change \/ MarkStalled \/ Connected
           \/ Deliver \/ UNCHANGED vars
  BY <1>6, <1>4 DEF DebounceChanged, WaitChanged, WaitOver, Change, MarkStalled, Connected, Stay,
                    Rebuild, Deliver, vars
<1>7. ASSUME NEW decoded \in BOOLEAN, Traffic(decoded)  PROVE Backoff'
  BY <1>7, HeardBackoff DEF Traffic, Stay
<1>8. CASE MalformedEvent
  BY <1>8, WaitBackoff DEF MalformedEvent, Causes
<1>9. CASE Reject \/ Told
  <2>1. CASE Wait("rejected", RejectedRetryDelay) /\ UNCHANGED delays
    BY <2>1, WaitBackoff DEF Causes
  <2>2. CASE UNCHANGED <<cfg, delays, past>>
    BY <1>4, <2>2
  <2> QED BY <1>9, <2>1, <2>2 DEF Reject, Told
<1>10. CASE DocumentRejected
  BY <1>9, <1>10 DEF DocumentRejected
<1>11. ASSUME NEW status \in Errors, Error(status)  PROVE Backoff'
  <2>1. CASE Stay /\ UNCHANGED <<delays, past>>
    BY <1>4, <2>1 DEF Stay
  <2>2. CASE LET delay == NextReconnectDelay(delays.reconnect)
             IN  delays' = [delays EXCEPT !.reconnect = delay] /\ Wait("error", delay)
    BY <2>2, WaitBackoff DEF Causes
  <2> QED BY <1>9, <1>11, <2>1, <2>2 DEF Error
<1>12. CASE StreamEnds
  <2>1. CASE cfg.setting.restart # Null
    BY <1>12, <2>1, WaitBackoff DEF StreamEnds, Causes
  <2>2. CASE cfg.setting.restart = Null
    BY <1>12, <2>2, FreshBackoff DEF StreamEnds, Stop
  <2> QED BY <2>1, <2>2
<1>13. CASE Tick
  <2>1. /\ past' = [past EXCEPT !.since = IF past.cause = "none" THEN 0
                                          ELSE Smaller(past.since + 1, LongestWait)]
        /\ UNCHANGED <<cfg, delays>>
    BY <1>13 DEF Tick
  <2> QED BY <1>0, <2>1, SameBackoff DEF Pasts
<1>14. CASE Delivered
  BY <1>14, HeardBackoff DEF Delivered
<1> QED BY <1>1, <1>2, <1>3, <1>5, <1>6, <1>7, <1>8, <1>9, <1>10, <1>11, <1>12, <1>13, <1>14
        DEF Next

(* How long a connection is owed to wait is within the waits.                *)
LEMMA OwedType ==
  ASSUME Typed, Pacing
  PROVE  OwedWait \in Nat /\ OwedWait <= LongestWait
<1> DEFINE errors == DoubledSince(FirstDelay, past.errors)
           malformed == DoubledSince(FirstMalformedDelay, past.malformed)
<1>1. /\ past \in Pasts /\ FirstDelay \in Nat
      /\ RejectedRetryDelay \in Nat /\ RejectedRetryDelay <= LongestWait
      /\ FirstMalformedDelay \in Nat /\ FirstMalformedDelay <= LongestMalformedDelay
      /\ LongestMalformedDelay \in Nat /\ LongestMalformedDelay <= LongestWait
      /\ LongestWait \in Nat
      /\ LongestMalformedDelay = Larger(cfg.setting.timeout, FirstMalformedDelay)
      /\ cfg.setting.restart # Null =>
           Larger(cfg.setting.restart, MinDelay) = FirstMalformedDelay
  BY Delays, ConnectionAssumption DEF Typed, LongestMalformedDelay
<1>2. ASSUME past.cause = "error"  PROVE errors \in Nat
  <2>1. past.errors \in Nat \ {0}
    BY <1>1, <1>2 DEF Pacing, Pasts
  <2> QED BY <1>1, <2>1, Doubling
<1>3. ASSUME past.cause = "malformed"  PROVE malformed \in Nat
  <2>1. past.malformed \in Nat \ {0}
    BY <1>1, <1>3 DEF Pacing, Pasts
  <2> QED BY <1>1, <2>1, Doubling
<1> HIDE DEF errors, malformed
<1>4. OwedWait = IF past.cause = "rejected" THEN RejectedRetryDelay
                 ELSE IF past.cause = "error" THEN Smaller(RejectedRetryDelay, errors)
                 ELSE IF past.cause = "malformed" THEN Smaller(LongestMalformedDelay, malformed)
                 ELSE IF past.cause = "end" THEN FirstMalformedDelay ELSE 0
  <2>1. past.cause = "end" => Larger(cfg.setting.restart, MinDelay) = FirstMalformedDelay
    BY <1>1 DEF Pacing
  <2> QED BY <2>1, Zenon DEF OwedWait, LongestMalformedDelay, errors, malformed
<1> QED BY <1>1, <1>2, <1>3, <1>4 DEF Smaller

(* It depends on why the last wait began alone.                             *)
LEMMA SameOwed ==
  ASSUME UNCHANGED cfg, past'.cause = past.cause, past'.errors = past.errors,
         past'.malformed = past.malformed
  PROVE  OwedWait' = OwedWait
BY DEF OwedWait, RejectedRetryDelay, FirstMalformedDelay, Larger, Smaller, DoubledSince

Paced == Covers /\ Backoff /\ Pacing

LEMMA PacingInit == Init => Backoff /\ Pacing
<1> SUFFICES ASSUME Init  PROVE Backoff /\ Pacing
  OBVIOUS
<1> QED BY ConnectionAssumption DEF Init, NoDelays, NoPast, Backoff, Pacing

LEMMA FreshPacing ==
  ASSUME pc' = "idle", past' = NoPast
  PROVE  Pacing'
BY DEF Pacing, NoPast, Open

LEMMA ConnectPacing ==
  ASSUME Typed, NEW ids, Connect(ids), UNCHANGED cfg
  PROVE  Pacing'
<1>1. CASE Requests[ids] = Null
  BY <1>1, FreshPacing DEF Connect, Stop
<1>2. CASE Requests[ids] # Null
  <2>1. past \in Pasts
    BY DEF Typed
  <2>2. past' = [past EXCEPT !.cause = "none", !.since = 0, !.joined = FALSE] /\ pc' = "drive"
    BY <1>2 DEF Connect
  <2>3. past'.cause = "none"
    BY <2>1, <2>2 DEF Pasts
  <2> QED BY <2>2, <2>3 DEF Pacing, Open
<1> QED BY <1>1, <1>2

(* A connection that is open, and a supervisor that has not moved.           *)
LEMMA DrivePacing ==
  ASSUME pc' \in Open, past'.cause = "none"
  PROVE  Pacing'
BY DEF Pacing, Open

LEMMA SamePacing ==
  ASSUME Typed, Pacing, UNCHANGED <<cfg, pc, snapshot, timer>>,
         past' = past \/ past' = [past EXCEPT !.joined = TRUE],
         LiveSlots' \subseteq LiveSlots \/ past' = [past EXCEPT !.joined = TRUE]
  PROVE  Pacing'
<1>1. /\ past'.cause = past.cause /\ past'.since = past.since
      /\ past'.errors = past.errors /\ past'.malformed = past.malformed
      /\ past.joined => past'.joined
      /\ past'.joined \/ LiveSlots' \subseteq LiveSlots
  BY DEF Typed, Pasts
<1>2. OwedWait' = OwedWait
  BY <1>1, SameOwed
<1> QED BY <1>1, <1>2 DEF Pacing

(* Once the wait it owed is over, or was worth cutting short, a supervisor     *)
(* gathers its document.                                                   *)
LEMMA RebuildPacing ==
  ASSUME Typed, Pacing, Rebuild, UNCHANGED <<cfg, slots>>,
         past.joined \/ past.since >= OwedWait \/ LiveSlots = {}
  PROVE  Pacing'
<1>1. UNCHANGED past /\ pc' = "prepare"
  BY DEF Rebuild
<1>2. OwedWait' = OwedWait /\ LiveSlots' = LiveSlots
  BY <1>1, SameOwed DEF LiveSlots
<1> QED BY <1>1, <1>2 DEF Pacing, Open

LEMMA StartPacing ==
  ASSUME Typed, NEW i \in Slots, Start({i}), LiveSlots' = {i}, UNCHANGED cfg
  PROVE  Pacing'
<1>1. /\ past'.since = 0
      /\ timer' \in Nat /\ pc' \in {"prepare", "wait"} /\ snapshot' = {i}
      /\ pc' = "prepare" => past'.cause = "none"
      /\ past'.cause \in {"none", "rejected", "malformed"}
      /\ past'.cause = "rejected" => timer' = RejectedRetryDelay
      /\ past'.cause = "malformed" => timer' = FirstMalformedDelay /\ past'.malformed = 1
  BY StartAs DEF Typed
<1>2. /\ FirstMalformedDelay \in Nat /\ LongestMalformedDelay \in Nat
      /\ RejectedRetryDelay \in Nat
      /\ FirstMalformedDelay <= LongestMalformedDelay
      /\ UNCHANGED <<FirstMalformedDelay, RejectedRetryDelay, LongestMalformedDelay>>
  BY Delays, SameDelays DEF Typed
<1>3. CASE past'.cause = "none"
  <2>1. OwedWait' = 0
    BY <1>3 DEF OwedWait
  <2>2. past'.since = 0 /\ timer' \in Nat
    BY <1>1
  <2>3. 0 >= 0 /\ \A t \in Nat : 0 + t >= 0
    OBVIOUS
  <2>4. past'.since + timer' >= OwedWait' /\ past'.since >= OwedWait'
    BY <2>1, <2>2, <2>3, Zenon
  <2> QED BY <1>1, <1>3, <2>4 DEF Pacing, Open
<1>4. CASE past'.cause = "rejected"
  <2>1. OwedWait' = RejectedRetryDelay
    BY <1>2, <1>4 DEF OwedWait
  <2>2. past'.since + timer' >= OwedWait' /\ pc' = "wait"
    BY <1>1, <1>2, <1>4, <2>1
  <2> QED BY <1>1, <1>4, <2>2 DEF Pacing, Open
<1>5. CASE past'.cause = "malformed"
  <2>1. DoubledSince(FirstMalformedDelay, 1) = FirstMalformedDelay
    BY <1>2, Doubling
  <2>2. OwedWait' = Smaller(LongestMalformedDelay', DoubledSince(FirstMalformedDelay', past'.malformed))
    BY <1>5 DEF OwedWait, LongestMalformedDelay
  <2>3. OwedWait' = FirstMalformedDelay
    BY <1>1, <1>2, <1>5, <2>1, <2>2 DEF Smaller
  <2> QED BY <1>1, <1>2, <1>5, <2>3 DEF Pacing, Open
<1> QED BY <1>1, <1>3, <1>4, <1>5

LEMMA JoinPacing ==
  ASSUME Covers, Pacing, NEW i \in Slots, Join(i)
  PROVE  Pacing'
<1> USE DEF Covers
<1>1. LiveSlots' = LiveSlots \cup {i}
  BY DEF Join, Typed, LiveSlots
<1>2. CASE pc = "idle"
  <2>1. LiveSlots' = {i}
    BY <1>1, <1>2 DEF Covering
  <2> QED BY <1>2, <2>1, StartPacing DEF Join
<1>3. CASE pc # "idle"
  BY <1>3, SamePacing DEF Join
<1> QED BY <1>2, <1>3

(* A wait that begins is as long as the one that is owed.                    *)
LEMMA WaitPacing ==
  ASSUME Covers, Backoff, LiveSlots \subseteq snapshot,
         NEW cause \in Causes, NEW delay \in Nat, Wait(cause, delay),
         cause = "rejected" => delay = RejectedRetryDelay,
         cause = "error" => delay = NextReconnectDelay(delays.reconnect)
                            /\ delays'.reconnect = delay,
         cause = "malformed" => delay = NextMalformedDelay(delays.malformed)
                                /\ delays'.malformed = delay,
         cause = "end" => cfg.setting.restart # Null
                          /\ delay = Larger(cfg.setting.restart, MinDelay)
  PROVE  Pacing'
<1> USE DEF Covers
<1>1. /\ pc' = "wait" /\ timer' = delay /\ UNCHANGED <<cfg, slots, changed, snapshot, patience>>
      /\ past'.cause = cause /\ past'.since = 0
  BY WaitPast
<1>2. LiveSlots' \subseteq snapshot'
  BY <1>1 DEF LiveSlots
<1>3. UNCHANGED <<FirstMalformedDelay, RejectedRetryDelay, LongestMalformedDelay>>
  BY <1>1, SameDelays
<1>4. SUFFICES /\ OwedWait' <= delay
               /\ cause = "error" => past'.errors > 0
               /\ cause = "malformed" => past'.malformed > 0
  BY <1>1, <1>2 DEF Pacing, Open
<1>5. CASE cause = "rejected"
  <2>1. OwedWait' = RejectedRetryDelay
    BY <1>1, <1>3, <1>5 DEF OwedWait
  <2> QED BY <1>5, <2>1
<1>6. CASE cause = "error"
  <2>1. /\ past'.errors \in Nat \ {0}
        /\ Smaller(RejectedRetryDelay, DoubledSince(FirstDelay, past'.errors)) <= delay
    BY <1>1, <1>6, WaitPast, ReconnectDelayGrows
  <2>2. OwedWait' = Smaller(RejectedRetryDelay', DoubledSince(FirstDelay, past'.errors))
    BY <1>1, <1>6 DEF OwedWait
  <2> QED BY <1>3, <1>6, <2>1, <2>2
<1>7. CASE cause = "malformed"
  <2>1. /\ past'.malformed \in Nat \ {0}
        /\ Smaller(LongestMalformedDelay, DoubledSince(FirstMalformedDelay, past'.malformed))
             <= delay
    BY <1>1, <1>7, WaitPast, MalformedDelayGrows
  <2>2. OwedWait' = Smaller(LongestMalformedDelay',
                            DoubledSince(FirstMalformedDelay', past'.malformed))
    BY <1>1, <1>7 DEF OwedWait, LongestMalformedDelay
  <2> QED BY <1>3, <1>7, <2>1, <2>2
<1>8. CASE cause = "end"
  <2>1. OwedWait' = Larger(cfg'.setting.restart, MinDelay)
    BY <1>1, <1>8 DEF OwedWait
  <2> QED BY <1>1, <1>8, <2>1
<1> QED BY <1>5, <1>6, <1>7, <1>8 DEF Causes

LEMMA EventCovered ==
  ASSUME Covers, Event
  PROVE  LiveSlots \subseteq snapshot
BY DEF Covers, Covering, Event, Open

LEMMA RejectPacing ==
  ASSUME Covers, Backoff, Pacing, Event, Reject
  PROVE  Pacing'
<1>1. RejectedRetryDelay \in Nat
  BY Delays DEF Covers, Typed
<1>2. CASE Wait("rejected", RejectedRetryDelay)
  BY <1>1, <1>2, EventCovered, WaitPacing DEF Reject, Causes
<1>3. CASE pc' = "telling" /\ UNCHANGED past
  BY <1>3, DrivePacing DEF Event, Pacing, Open
<1> QED BY <1>2, <1>3 DEF Reject

LEMMA ToldPacing ==
  ASSUME Covers, Backoff, Told
  PROVE  Pacing'
<1>1. RejectedRetryDelay \in Nat
  BY Delays DEF Covers, Typed
<1>2. LiveSlots \subseteq snapshot
  BY CoversAlone DEF Told, Covers, Alone, Open
<1> QED BY <1>1, <1>2, WaitPacing DEF Told, Causes

LEMMA ErrorPacing ==
  ASSUME Covers, Backoff, Pacing, NEW status, Error(status)
  PROVE  Pacing'
<1>1. Event
  BY DEF Error
<1>2. CASE IsRejection(status)
  BY <1>1, <1>2, RejectPacing DEF Error
<1>3. CASE ~IsRejection(status) /\ Requests[snapshot].resumable
  <2> DEFINE delay == NextReconnectDelay(delays.reconnect)
  <2>1. /\ delays \in [malformed : Delay, reconnect : Delay]
        /\ delays' = [delays EXCEPT !.reconnect = delay] /\ Wait("error", delay)
    BY <1>3 DEF Error, Covers, Typed
  <2>2. delay \in Nat
    BY <2>1, NextDelays DEF Covers, Typed
  <2>3. delays'.reconnect = delay
    BY <2>1
  <2> QED BY <1>1, <2>1, <2>2, <2>3, EventCovered, WaitPacing DEF Causes
<1>4. CASE ~IsRejection(status) /\ ~Requests[snapshot].resumable
  BY <1>4, SamePacing DEF Error, Stay, Covers, LiveSlots
<1> QED BY <1>2, <1>3, <1>4

LEMMA MalformedPacing ==
  ASSUME Covers, Backoff, MalformedEvent
  PROVE  Pacing'
<1> DEFINE delay == NextMalformedDelay(delays.malformed)
<1>1. /\ delays \in [malformed : Delay, reconnect : Delay] /\ Event
      /\ delays' = [delays EXCEPT !.malformed = delay] /\ Wait("malformed", delay)
  BY DEF MalformedEvent, Covers, Typed
<1>2. delay \in Nat
  BY <1>1, NextDelays DEF Covers, Typed
<1>3. delays'.malformed = delay
  BY <1>1
<1> QED BY <1>1, <1>2, <1>3, EventCovered, WaitPacing DEF Causes

LEMMA TickPacing ==
  ASSUME Covers, Pacing, Tick
  PROVE  Pacing'
<1>1. /\ past \in Pasts /\ timer \in Nat /\ OwedWait \in Nat /\ OwedWait <= LongestWait
      /\ LongestWait \in Nat
  BY OwedType, Delays DEF Covers, Typed
<1>2. /\ past' = [past EXCEPT !.since = IF past.cause = "none" THEN 0
                                       ELSE Smaller(past.since + 1, LongestWait)]
      /\ timer' = (IF timer > 0 THEN timer - 1 ELSE 0)
      /\ pc = "wait" => timer > 0
      /\ UNCHANGED <<cfg, slots, pc, snapshot>>
  BY DEF Tick, Event
<1>3. /\ past'.cause = past.cause /\ past'.errors = past.errors
      /\ past'.malformed = past.malformed /\ past'.joined = past.joined
      /\ past'.since = IF past.cause = "none" THEN 0 ELSE Smaller(past.since + 1, LongestWait)
  BY <1>1, <1>2 DEF Pasts
<1>4. OwedWait' = OwedWait /\ LiveSlots' = LiveSlots
  BY <1>2, <1>3, SameOwed DEF LiveSlots
<1>5. CASE past.cause = "none"
  <2>1. OwedWait = 0
    BY <1>5 DEF OwedWait
  <2> QED BY <1>1, <1>2, <1>3, <1>4, <1>5, <2>1 DEF Pacing
<1>6. CASE past.cause # "none"
  <2>1. past.since \in Nat
    BY <1>1 DEF Pasts
  <2>2. past'.since = Smaller(past.since + 1, LongestWait)
    BY <1>3, <1>6
  <2>3. past.since >= OwedWait => past'.since >= OwedWait
    BY <1>1, <2>1, <2>2 DEF Smaller
  <2>4. pc = "wait" => past'.since + timer' >= OwedWait
    BY <1>1, <1>2, <2>1, <2>2 DEF Smaller, Pacing
  <2>5. pc \notin Open
    BY <1>6 DEF Pacing
  <2> QED BY <1>2, <1>3, <1>4, <2>3, <2>4, <2>5 DEF Pacing
<1> QED BY <1>5, <1>6

LEMMA PacingNext == Covers /\ Backoff /\ Pacing /\ [Next]_vars => Pacing'
<1> SUFFICES ASSUME Covers, Backoff, Pacing, [Next]_vars  PROVE Pacing'
  OBVIOUS
<1>0. Typed /\ past \in Pasts /\ timer \in Nat /\ OwedWait \in Nat
  BY OwedType DEF Covers, Typed
<1>1. ASSUME NEW i \in Slots, Join(i)  PROVE Pacing'
  BY <1>1, JoinPacing
<1>2. ASSUME NEW i \in Slots, Leave(i) \/ RequestResync(i)  PROVE Pacing'
  <2>1. LiveSlots' \subseteq LiveSlots
    BY <1>0, <1>2 DEF Leave, RequestResync, Typed, LiveSlots
  <2> QED BY <1>0, <1>2, <2>1, SamePacing DEF Leave, RequestResync
<1>3. CASE Prepare
  <2>1. CASE Stop
    BY <2>1, FreshPacing DEF Stop
  <2>2. CASE pc' = "debounce" /\ UNCHANGED <<slots, past>>
    <3>1. OwedWait' = OwedWait /\ LiveSlots' = LiveSlots
      BY <1>3, <2>2, SameOwed DEF Prepare, LiveSlots
    <3> QED BY <1>3, <2>2, <3>1 DEF Prepare, Pacing, Open
  <2>3. CASE Connect(LiveSlots)
    BY <1>0, <1>3, <2>3, ConnectPacing DEF Prepare
  <2> QED BY <1>3, <2>1, <2>2, <2>3 DEF Prepare
<1>4. CASE DebounceChanged
  <2>1. OwedWait' = OwedWait /\ LiveSlots' = LiveSlots
    BY <1>4, SameOwed DEF DebounceChanged, LiveSlots
  <2> QED BY <1>4, <2>1 DEF DebounceChanged, Pacing, Open
<1>5. CASE DebounceOver
  BY <1>0, <1>5, ConnectPacing DEF DebounceOver
<1>6. CASE WaitChanged
  <2>1. CASE LiveSlots = {} \/ ~(LiveSlots \subseteq snapshot)
    BY <1>0, <1>6, <2>1, RebuildPacing DEF WaitChanged, Pacing
  <2>2. CASE UNCHANGED <<pc, snapshot, timer, past>>
    BY <1>0, <1>6, <2>2, SamePacing DEF WaitChanged, LiveSlots
  <2> QED BY <1>6, <2>1, <2>2 DEF WaitChanged
<1>7. CASE WaitOver
  <2>1. past.since >= OwedWait
    BY <1>0, <1>7 DEF WaitOver, Pacing, Pasts
  <2> QED BY <1>0, <1>7, <2>1, RebuildPacing DEF WaitOver
<1>8. CASE Change
  <2>1. OwedWait = 0
    BY <1>8 DEF Change, Pacing, OwedWait, Open
  <2>2. past.since >= OwedWait
    BY <1>0, <2>1 DEF Pasts
  <2>3. CASE Rebuild
    BY <1>0, <1>8, <2>2, <2>3, RebuildPacing DEF Change
  <2>4. CASE UNCHANGED <<pc, snapshot, timer, past>>
    BY <1>0, <1>8, <2>4, SamePacing DEF Change, LiveSlots
  <2> QED BY <1>8, <2>3, <2>4 DEF Change
<1>9. CASE MarkStalled \/ Connected \/ UNCHANGED vars
  BY <1>0, <1>9, SamePacing DEF MarkStalled, Connected, Stay, vars, LiveSlots
<1>10. ASSUME NEW decoded \in BOOLEAN, Traffic(decoded)  PROVE Pacing'
  <2>1. past'.cause = past.cause /\ pc = "drive" /\ pc' = "drive"
    BY <1>0, <1>10 DEF Traffic, Heard, Event, Stay, Pasts
  <2> QED BY <2>1, DrivePacing DEF Pacing, Open
<1>11. CASE MalformedEvent
  BY <1>11, MalformedPacing
<1>12. CASE DocumentRejected
  BY <1>12, RejectPacing DEF DocumentRejected
<1>13. ASSUME NEW status \in Errors, Error(status)  PROVE Pacing'
  BY <1>13, ErrorPacing
<1>14. CASE StreamEnds
  <2>1. CASE cfg.setting.restart # Null
    <3>1. Larger(cfg.setting.restart, MinDelay) \in Nat
      BY <1>0, <2>1, Delays DEF Typed
    <3> QED BY <1>14, <2>1, <3>1, EventCovered, WaitPacing DEF StreamEnds, Causes
  <2>2. CASE cfg.setting.restart = Null
    BY <1>14, <2>2, FreshPacing DEF StreamEnds, Stop
  <2> QED BY <2>1, <2>2
<1>15. CASE Tick
  BY <1>15, TickPacing
<1>16. CASE Deliver
  BY <1>16, DrivePacing DEF Deliver, Event, Pacing, Open
<1>17. CASE Delivered
  <2>1. past'.cause = past.cause /\ pc = "delivering" /\ pc' = "drive"
    BY <1>0, <1>17 DEF Delivered, Heard, Pasts
  <2> QED BY <2>1, DrivePacing DEF Pacing, Open
<1>18. CASE Told
  BY <1>18, ToldPacing
<1> QED BY <1>1, <1>2, <1>3, <1>4, <1>5, <1>6, <1>7, <1>8, <1>9, <1>10, <1>11, <1>12, <1>13,
           <1>14, <1>15, <1>16, <1>17, <1>18 DEF Next

(* The only steps that open a connection are those that gather its document,   *)
(* and they do it for subscriptions that live.                              *)
LEMMA ConnectsWhenOwed ==
  ASSUME Paced, Next, pc \notin Open, pc' = "drive"
  PROVE  past.joined \/ past.since >= OwedWait
<1> USE DEF Paced, Covers
<1>1. CASE (Prepare \/ DebounceOver) /\ LiveSlots # {}
  BY <1>1 DEF Prepare, DebounceOver, Pacing
<1>2. CASE Prepare /\ LiveSlots = {}
  BY <1>2 DEF Prepare, Stop
<1>3. CASE DebounceOver /\ LiveSlots = {}
  BY <1>3 DEF DebounceOver, Covering
<1>4. ASSUME NEW i \in Slots, Join(i) \/ Leave(i) \/ RequestResync(i)  PROVE FALSE
  <2>1. CASE pc = "idle" /\ Join(i)
    BY <2>1, StartAs DEF Join, Typed
  <2> QED BY <1>4, <2>1 DEF Join, Leave, RequestResync, Open
<1>5. ~DebounceChanged /\ ~WaitChanged /\ ~WaitOver /\ ~Change /\ ~MarkStalled /\ ~Tick
  BY DEF DebounceChanged, WaitChanged, WaitOver, Change, MarkStalled, Tick, Rebuild, Event, Open
<1>6. ~Event /\ ~Delivered /\ ~Told
  BY DEF Event, Delivered, Told, Open
<1> QED BY <1>1, <1>2, <1>3, <1>4, <1>5, <1>6 DEF Next, Traffic, Deliver, Connected,
           MalformedEvent, DocumentRejected, Error, StreamEnds

(* A server that refuses or fails is not asked again before the wait it is    *)
(* owed, for all delays and for any number of failures in a row, whatever     *)
(* happens to the subscriptions and the connection meanwhile                *)
(* (wait_before_reconnect, next_malformed_event_delay, drive).              *)
THEOREM RetriesPaced == Spec => RetriesArePaced
<1>1. Init => Paced
  BY CoversInit, PacingInit DEF Paced
<1>2. Paced /\ [Next]_vars => Paced'
  BY CoversNext, BackoffNext, PacingNext DEF Paced, Covers
<1>3. Paced /\ [Next]_vars => [pc \notin Open /\ pc' = "drive"
                                 => past.joined \/ past.since >= OwedWait]_vars
  BY ConnectsWhenOwed
<1> QED BY <1>1, <1>2, <1>3, PTL DEF Spec, RetriesArePaced

-----------------------------------------------------------------------------
(***************************************************************************)
(* Silence is told.                                                        *)
(***************************************************************************)

LEMMA SlotSets ==
  /\ LiveSlots \in SUBSET Slots /\ Gone \in SUBSET Slots /\ Seen \in SUBSET Slots
  /\ IsFiniteSet(LiveSlots) /\ IsFiniteSet(Gone) /\ IsFiniteSet(Seen)
  /\ Cardinality(LiveSlots) \in Nat /\ Cardinality(Gone) \in Nat /\ Cardinality(Seen) \in Nat
<1>1. LiveSlots \in SUBSET Slots /\ Gone \in SUBSET Slots /\ Seen \in SUBSET Slots
  BY DEF LiveSlots, Gone, Seen
<1>2. IsFiniteSet(Slots)
  BY ConnectionAssumption
<1>3. IsFiniteSet(LiveSlots) /\ IsFiniteSet(Gone) /\ IsFiniteSet(Seen)
  BY <1>1, <1>2, FS_Subset
<1> QED BY <1>1, <1>3, FS_CardinalityType

(* Once there is a subscription, every change that is pending was counted.     *)
LEMMA ChangesCounted ==
  ASSUME NEW L \in SUBSET Slots, NEW G \in SUBSET Slots, L \cap G = {}, L # {}
  PROVE  /\ Cardinality(L) - 1 + 2 * Cardinality(G) \in Nat
         /\ G # {} \/ Cardinality(L \cup G) >= 2
              => (Cardinality(L) - 1 + 2 * Cardinality(G)) - 1 \in Nat
<1>1. IsFiniteSet(L) /\ IsFiniteSet(G)
  BY ConnectionAssumption, FS_Subset
<1>2. Cardinality(L) \in Nat /\ Cardinality(G) \in Nat
  BY <1>1, FS_CardinalityType
<1>3. Cardinality(L) # 0 /\ (G # {} => Cardinality(G) # 0)
  BY <1>1, FS_EmptySet
<1>4. Cardinality(L \cup G) = Cardinality(L) + Cardinality(G)
  <2>1. Cardinality(L \cup G) = Cardinality(L) + Cardinality(G) - Cardinality({})
    BY <1>1, FS_Union
  <2> QED BY <1>2, <2>1, FS_EmptySet
<1>5. CASE G # {} \/ Cardinality(L \cup G) >= 2
  <2>1. Cardinality(G) >= 1 \/ Cardinality(L) + Cardinality(G) >= 2
    BY <1>2, <1>3, <1>4, <1>5
  <2> QED BY <1>2, <1>3, <1>5, <2>1
<1> QED BY <1>2, <1>3, <1>5

LEMMA BudgetType ==
  Typed /\ Changes /\ LiveSlots # {} =>
    /\ Budget \in Nat /\ Gathering \in Nat /\ Restart \in Nat
    /\ StallThreshold + Restart <= Budget
<1> SUFFICES ASSUME Typed, Changes, LiveSlots # {}
             PROVE  /\ Budget \in Nat /\ Gathering \in Nat /\ Restart \in Nat
                    /\ StallThreshold + Restart <= Budget
  OBVIOUS
<1>1. Regathered \in Nat
  <2>1. LiveSlots \cap Gone = {} /\ LiveSlots \cup Gone = Seen
    BY DEF LiveSlots, Gone, Seen, Typed
  <2>2. changed => Gone # {} \/ Cardinality(LiveSlots \cup Gone) >= 2
    BY <2>1 DEF Changes
  <2>3. LiveSlots \in SUBSET Slots /\ Gone \in SUBSET Slots
    BY SlotSets
  <2>4. Churn \in Nat /\ (changed => Churn - 1 \in Nat)
    BY <2>1, <2>2, <2>3, ChangesCounted DEF Churn
  <2> QED BY <2>4 DEF Regathered
<1>2. Gathering \in Nat /\ Restart \in Nat /\ StallThreshold \in Nat
  BY Delays, ConnectionAssumption DEF Gathering, Restart, Typed
<1>3. Gathering * Regathered \in Nat
  BY <1>1, <1>2
<1> QED BY <1>2, <1>3 DEF Budget

LEMMA SameBudget ==
  ASSUME UNCHANGED <<cfg, slots, changed>>
  PROVE  Budget' = Budget /\ LiveSlots' = LiveSlots /\ Gone' = Gone /\ Seen' = Seen
BY DEF Budget, Regathered, Churn, Gathering, Restart, LiveSlots, Gone, Seen, Larger

(* One more change has been seen.                                          *)
LEMMA MoreBudget ==
  ASSUME NEW n \in Int, NEW m \in Int, NEW g \in Nat, NEW a \in Int
  PROVE  /\ m = n + 1 => a + g * m = (a + g * n) + g
         /\ m = n => a + g * m = a + g * n
BY Z3

LEMMA RegatheredType == Regathered \in Int /\ Gathering \in Nat /\ Churn \in Int
<1>1. Churn \in Int
  BY SlotSets DEF Churn
<1> QED BY <1>1, ConnectionAssumption DEF Regathered, Gathering

LEMMA SeenBudget ==
  ASSUME Typed, Typed', changed, ~changed', UNCHANGED <<cfg, slots>>
  PROVE  /\ Budget' = Budget + Gathering /\ LiveSlots' = LiveSlots
         /\ Gone' = Gone /\ Seen' = Seen
<1>1. LiveSlots' = LiveSlots /\ Gone' = Gone /\ Seen' = Seen /\ Restart' = Restart
  BY DEF LiveSlots, Gone, Seen, Restart, Larger
<1>2. Regathered' = Regathered + 1
  <2>1. Churn' = Churn
    BY <1>1 DEF Churn
  <2> QED BY <2>1, RegatheredType DEF Regathered
<1>3. Restart \in Nat /\ StallThreshold \in Nat
  BY Delays, ConnectionAssumption DEF Restart, Typed
<1> DEFINE a == StallThreshold + Restart
<1>4. a + Gathering * Regathered' = (a + Gathering * Regathered) + Gathering
  BY <1>2, <1>3, RegatheredType, MoreBudget
<1>5. Budget' = a + Gathering * Regathered' /\ Budget = a + Gathering * Regathered
  BY <1>1 DEF Budget, Gathering
<1> QED BY <1>1, <1>4, <1>5

LEMMA BudgetTypeNext ==
  (Typed /\ Changes /\ LiveSlots # {} =>
    /\ Budget \in Nat /\ Gathering \in Nat /\ Restart \in Nat
    /\ StallThreshold + Restart <= Budget)'
BY BudgetType, PTL

(* A subscription that comes or leaves while there is a supervisor.          *)
LEMMA ChurnBudget ==
  ASSUME Typed, Changes, NEW i \in Slots, Join(i) \/ Leave(i), pc # "idle"
  PROVE  /\ Budget' = Budget \/ Budget' = Budget + Gathering
         /\ Changes' /\ Restart' = Restart
<1>1. UNCHANGED <<cfg, pc, timer>> /\ changed'
  BY DEF Join, Leave
<1>2. Restart' = Restart
  BY <1>1 DEF Restart, Larger
<1>3. /\ Churn' = Churn + 1 /\ Seen' # {}
      /\ Gone' # {} \/ Cardinality(Seen') >= 2
  <2>1. CASE Join(i)
    <3>1. /\ LiveSlots' = LiveSlots \cup {i} /\ i \notin LiveSlots
          /\ Gone' = Gone /\ Seen' = Seen \cup {i} /\ i \notin Seen
      BY <2>1 DEF Join, Typed, LiveSlots, Gone, Seen
    <3>2. Cardinality(LiveSlots') = Cardinality(LiveSlots) + 1
          /\ Cardinality(Seen') = Cardinality(Seen) + 1
      BY <3>1, SlotSets, FS_AddElement
    <3>3. Cardinality(Seen) # 0
      BY SlotSets, FS_EmptySet DEF Changes
    <3> QED BY <3>1, <3>2, <3>3, SlotSets DEF Churn
  <2>2. CASE Leave(i)
    <3>1. /\ LiveSlots' = LiveSlots \ {i} /\ i \in LiveSlots
          /\ Gone' = Gone \cup {i} /\ i \notin Gone /\ Seen' = Seen /\ i \in Seen
      BY <2>2 DEF Leave, Typed, LiveSlots, Gone, Seen
    <3>2. Cardinality(LiveSlots') = Cardinality(LiveSlots) - 1
          /\ Cardinality(Gone') = Cardinality(Gone) + 1
      BY <3>1, SlotSets, FS_AddElement, FS_RemoveElement
    <3> QED BY <3>1, <3>2, SlotSets DEF Churn
  <2> QED BY <2>1, <2>2
<1>4. Regathered' = Regathered \/ Regathered' = Regathered + 1
  BY <1>1, <1>3, RegatheredType DEF Regathered, Typed
<1>5. Restart \in Nat /\ StallThreshold \in Nat
  BY Delays, ConnectionAssumption DEF Restart, Typed
<1> DEFINE a == StallThreshold + Restart
<1>6. \/ a + Gathering * Regathered' = a + Gathering * Regathered
      \/ a + Gathering * Regathered' = (a + Gathering * Regathered) + Gathering
  BY <1>4, <1>5, RegatheredType, MoreBudget
<1>7. Budget' = a + Gathering * Regathered' /\ Budget = a + Gathering * Regathered
  BY <1>2 DEF Budget, Gathering
<1> QED BY <1>1, <1>2, <1>3, <1>6, <1>7 DEF Changes

Watched == Covers /\ ~Waits /\ Changes /\ Silence
Attended == Covers /\ Waits /\ OwnSilence

LEMMA Amounts ==
  ASSUME Typed
  PROVE  /\ \A i \in Slots : health[i].quiet \in Nat
         /\ timer \in Nat /\ patience \in Nat /\ patience <= MaxDebounce
         /\ MaxDebounce \in Nat /\ Debounce \in Nat /\ StallThreshold \in Nat /\ Restart \in Nat
         /\ Gathering = MaxDebounce + Debounce
<1>1. Restart \in Nat
  BY Delays, ConnectionAssumption DEF Restart, Typed
<1> QED BY <1>1, ConnectionAssumption DEF Typed, Healths, Gathering

LEMMA SilenceInit == Init => Watched \/ Attended
<1> SUFFICES ASSUME Init  PROVE Changes /\ Silence /\ OwnSilence
  BY CoversInit DEF Watched, Attended
<1> QED BY DEF Init, Changes, Silence, OwnSilence, LiveSlots

(* The scope and the settings of a supervisor never change.                  *)
LEMMA SameScope ==
  ASSUME [Next]_vars
  PROVE  cfg' = cfg /\ Waits' = Waits
<1>1. CASE \/ \E i \in Slots : Join(i) \/ Leave(i) \/ RequestResync(i)
           \/ Prepare \/ DebounceChanged \/ DebounceOver \/ WaitChanged \/ WaitOver
           \/ Change \/ MarkStalled \/ Tick \/ UNCHANGED vars
  BY <1>1 DEF Join, Leave, RequestResync, Prepare, DebounceChanged, DebounceOver, WaitChanged,
     WaitOver, Change, MarkStalled, Tick, vars, Waits
<1>2. CASE \/ \E decoded \in BOOLEAN : Traffic(decoded)
           \/ Deliver \/ Delivered \/ Connected \/ MalformedEvent \/ DocumentRejected \/ Told
           \/ StreamEnds
  BY <1>2 DEF Traffic, Deliver, Delivered, Connected, MalformedEvent, DocumentRejected, Reject,
     Told, StreamEnds, Stay, Wait, Waits
<1>3. CASE \E status \in Errors : Error(status)
  BY <1>3 DEF Error, Reject, Stay, Wait, Waits
<1> QED BY <1>1, <1>2, <1>3 DEF Next

(* No subscription is left, or none shows that all is well.                  *)
LEMMA NoneFine ==
  ASSUME Watched, UNCHANGED <<cfg, slots, changed>>, pc' # "debounce", pc # "idle",
         \A i \in LiveSlots : health'[i].shows # "Fine"
  PROVE  Changes' /\ Silence'
BY SameBudget DEF Watched, Changes, Silence

LEMMA IdleSilence ==
  ASSUME pc' = "idle", changed' = FALSE, LiveSlots' = {}
  PROVE  Changes' /\ Silence'
BY DEF Changes, Silence

(* The connection stays open: whoever shows that all is well did so before, or *)
(* was just heard of.                                                      *)
LEMMA DriveSilence ==
  ASSUME Watched, UNCHANGED <<cfg, slots, changed, pc>>, pc = "drive",
         \A i \in LiveSlots : health'[i].shows = "Fine" =>
           health'[i].quiet = 0 \/ health'[i] = health[i]
  PROVE  Changes' /\ Silence'
<1>1. Changes'
  BY SameBudget DEF Watched, Changes
<1>2. ASSUME NEW i \in LiveSlots', health'[i].shows = "Fine"  PROVE QuietOk(i)'
  <2>1. i \in LiveSlots /\ Budget' = Budget /\ Gathering' = Gathering
    BY SameBudget DEF Gathering
  <2>2. Budget \in Nat /\ Gathering \in Nat
    BY <2>1, BudgetType DEF Watched, Covers
  <2>3. health'[i].quiet <= Budget + Gathering
    BY <1>2, <2>1, <2>2 DEF Watched, Silence, QuietOk
  <2> QED BY <2>1, <2>3 DEF QuietOk
<1> QED BY <1>1, <1>2 DEF Silence

(* The stream ends and is restarted: no subscription was due to be told.      *)
LEMMA EndSilence ==
  ASSUME Watched, Event, cfg.setting.restart # Null, UNCHANGED health,
         Wait("end", Larger(cfg.setting.restart, MinDelay))
  PROVE  Changes' /\ Silence'
<1>1. /\ pc' = "wait" /\ timer' = Restart
      /\ UNCHANGED <<cfg, slots, changed, snapshot, patience>>
  BY DEF Wait, Restart
<1>2. Changes'
  BY <1>1, SameBudget DEF Watched, Changes, Event
<1>3. ASSUME NEW i \in LiveSlots', health'[i].shows = "Fine"  PROVE QuietOk(i)'
  <2>1. i \in LiveSlots /\ i \in Slots /\ slots[i] = "live" /\ Restart' = Restart
    BY <1>1 DEF LiveSlots, Restart, Larger
  <2>2. i \in snapshot
    BY <2>1, EventCovered DEF Watched
  <2>3. health[i].quiet < StallThreshold
    BY <1>3, <2>1, Amounts DEF Event, StallDue, Watched, Covers
  <2>4. health'[i].quiet + timer' <= StallThreshold + Restart
    BY <1>1, <2>1, <2>3, Amounts DEF Watched, Covers
  <2> QED BY <1>1, <2>1, <2>2, <2>4 DEF QuietOk
<1> QED BY <1>2, <1>3 DEF Silence

(* Problem and rejection leave no subscription of the connection that shows    *)
(* that all is well.                                                       *)
LEMMA ShownNotFine ==
  ASSUME Covers, Event, Problem \/ AllShow("Rejected", {})
  PROVE  \A i \in LiveSlots : health'[i].shows # "Fine"
<1> SUFFICES ASSUME NEW i \in LiveSlots  PROVE health'[i].shows # "Fine"
  OBVIOUS
<1>1. i \in Covered /\ i \in Slots /\ health[i] \in Healths
  BY EventCovered DEF Covers, Covered, Typed, LiveSlots
<1>2. CASE Problem
  BY <1>1, <1>2 DEF Problem, AllShow, Healths
<1>3. CASE AllShow("Rejected", {})
  BY <1>1, <1>3 DEF AllShow, Healths
<1> QED BY <1>2, <1>3

LEMMA FailureSilence ==
  ASSUME Watched, Event, Problem \/ AllShow("Rejected", {}), NEW cause, NEW delay,
         Wait(cause, delay)
  PROVE  Changes' /\ Silence'
BY ShownNotFine, NoneFine DEF Wait, Event, Watched

(* The supervisor has seen a change, or there was none, and gathers again: the *)
(* silence of a wait and that of a connection are within the budget.         *)
LEMMA RebuildSilence ==
  ASSUME Watched, Typed', Rebuild, pc \in {"wait", "drive"}, UNCHANGED <<cfg, slots, health>>,
         \/ changed /\ ~changed'
         \/ UNCHANGED changed /\ pc = "wait" /\ timer = 0
  PROVE  Changes' /\ Silence'
<1>1. /\ LiveSlots' = LiveSlots /\ Gone' = Gone /\ Seen' = Seen
      /\ Budget' = Budget + Gathering \/ (Budget' = Budget /\ pc = "wait")
      /\ changed' => changed
  BY SeenBudget, SameBudget DEF Watched, Covers
<1>2. Changes' /\ pc' = "prepare" /\ patience' = MaxDebounce
  BY <1>1 DEF Watched, Changes, Rebuild
<1>3. ASSUME NEW i \in LiveSlots', health'[i].shows = "Fine"  PROVE QuietOk(i)'
  <2> DEFINE quiet == health[i].quiet
  <2>1. i \in LiveSlots /\ i \in Slots /\ QuietOk(i)
    BY <1>1, <1>3 DEF Watched, Silence, LiveSlots
  <2>2. Budget \in Nat /\ Gathering \in Nat /\ StallThreshold + Restart <= Budget
    BY <2>1, BudgetType DEF Watched, Covers
  <2>3. quiet \in Nat /\ MaxDebounce \in Nat /\ timer \in Nat /\ StallThreshold \in Nat
        /\ Restart \in Nat
    BY <2>1, Amounts DEF Watched, Covers
  <2>4. quiet <= Budget'
    <3>1. CASE pc = "wait"
      <4>1. quiet + timer <= StallThreshold + Restart \/ quiet <= StallThreshold
        BY <2>1, <3>1 DEF QuietOk
      <4>2. quiet <= Budget
        BY <2>2, <2>3, <4>1
      <4> QED BY <1>1, <2>2, <2>3, <4>2
    <3>2. CASE pc = "drive"
      BY <1>1, <2>1, <3>2 DEF QuietOk
    <3> QED BY <3>1, <3>2
  <2>5. health'[i].quiet + patience' <= Budget' + MaxDebounce
    BY <1>1, <1>2, <2>2, <2>3, <2>4
  <2> QED BY <1>2, <2>5 DEF QuietOk
<1> QED BY <1>2, <1>3 DEF Silence

(* A change that makes no difference to the connection or to the wait.        *)
LEMMA SeenSilence ==
  ASSUME Watched, Typed', pc \in {"wait", "drive"}, changed, ~changed',
         UNCHANGED <<cfg, slots, pc, snapshot, timer, health>>
  PROVE  Changes' /\ Silence'
<1>1. /\ LiveSlots' = LiveSlots /\ Gone' = Gone /\ Seen' = Seen
      /\ Budget' = Budget + Gathering /\ Gathering' = Gathering /\ Restart' = Restart
  BY SeenBudget, SameDelays DEF Watched, Covers, Gathering
<1>2. Changes'
  BY <1>1 DEF Watched, Changes
<1>3. ASSUME NEW i \in LiveSlots', health'[i].shows = "Fine"  PROVE QuietOk(i)'
  <2>1. i \in LiveSlots /\ i \in Slots /\ QuietOk(i)
    BY <1>1, <1>3 DEF Watched, Silence, LiveSlots
  <2>2. Budget \in Nat /\ Gathering \in Nat
    BY <2>1, BudgetType DEF Watched, Covers
  <2>3. health[i].quiet \in Nat
    BY <2>1, Amounts DEF Watched, Covers
  <2>4. health[i].quiet <= Budget + Gathering => health'[i].quiet <= Budget' + Gathering'
    BY <1>1, <2>2, <2>3
  <2> QED BY <1>1, <2>1, <2>4 DEF QuietOk
<1> QED BY <1>2, <1>3 DEF Silence

(* A document that was gathered within the budget: the connection opens.      *)
LEMMA ConnectSilence ==
  ASSUME Watched, NEW ids \in SUBSET Slots, LiveSlots \subseteq ids, pc \in {"prepare", "debounce"},
         pc = "debounce" => timer = 0, ~changed \/ pc = "prepare",
         Connect(ids), UNCHANGED <<cfg, health>>
  PROVE  Changes' /\ Silence'
<1>1. CASE Requests[ids] = Null
  <2>1. Stop /\ slots' = [i \in Slots |-> IF i \in ids THEN "gone" ELSE slots[i]]
    BY <1>1 DEF Connect
  <2>2. LiveSlots' = {}
    BY <2>1 DEF LiveSlots
  <2> QED BY <2>1, <2>2, IdleSilence DEF Stop
<1>2. CASE Requests[ids] # Null
  <2>1. pc' = "drive" /\ UNCHANGED <<cfg, slots, changed>>
    BY <1>2 DEF Connect
  <2>2. Changes'
    BY <2>1, SameBudget DEF Watched, Changes
  <2>3. ASSUME NEW i \in LiveSlots', health'[i].shows = "Fine"  PROVE QuietOk(i)'
    <3>1. i \in LiveSlots /\ i \in Slots /\ QuietOk(i) /\ Budget' = Budget /\ Gathering' = Gathering
      BY <2>1, <2>3, SameBudget DEF Watched, Silence, LiveSlots, Gathering
    <3>2. /\ Budget \in Nat /\ health[i].quiet \in Nat /\ patience \in Nat
          /\ MaxDebounce \in Nat /\ Debounce \in Nat /\ Gathering = MaxDebounce + Debounce
      BY <3>1, BudgetType, Amounts DEF Watched, Covers
    <3>3. \/ health[i].quiet + patience <= Budget + MaxDebounce
          \/ health[i].quiet + 0 <= Budget + Gathering
      BY <3>1 DEF QuietOk
    <3>4. health'[i].quiet <= Budget' + Gathering'
      BY <3>1, <3>2, <3>3
    <3> QED BY <2>1, <3>4 DEF QuietOk
  <2> QED BY <2>2, <2>3 DEF Silence
<1> QED BY <1>1, <1>2

LEMMA PrepareSilence ==
  ASSUME Watched, Prepare
  PROVE  Changes' /\ Silence'
<1>1. LiveSlots \in SUBSET Slots
  BY DEF LiveSlots
<1>2. CASE LiveSlots = {} /\ Stop /\ UNCHANGED slots
  BY <1>2, IdleSilence DEF Stop, LiveSlots
<1>3. CASE LiveSlots # {} /\ Connect(LiveSlots)
  BY <1>1, <1>3, ConnectSilence DEF Prepare
<1>4. CASE /\ patience > 0 /\ pc' = "debounce" /\ timer' = Debounce
           /\ UNCHANGED <<slots, changed, patience>>
  <2>1. pc = "prepare" /\ UNCHANGED <<cfg, health>>
    BY DEF Prepare
  <2>2. Debounce <= Debounce
    BY ConnectionAssumption
  <2>3. Changes'
    BY <1>4, <2>1, <2>2, SameBudget DEF Watched, Changes
  <2>4. ASSUME NEW i \in LiveSlots', health'[i].shows = "Fine"  PROVE QuietOk(i)'
    <3>1. QuietOk(i) /\ Budget' = Budget
      BY <1>4, <2>1, <2>4, SameBudget DEF Watched, Silence
    <3>2. health[i].quiet + patience <= Budget + MaxDebounce
      BY <1>4, <2>1, <3>1 DEF QuietOk
    <3> QED BY <1>4, <2>1, <3>1, <3>2 DEF QuietOk
  <2> QED BY <2>3, <2>4 DEF Silence
<1> QED BY <1>2, <1>3, <1>4 DEF Prepare

LEMMA DebounceChangedSilence ==
  ASSUME Watched, Typed', DebounceChanged
  PROVE  Changes' /\ Silence'
<1>1. /\ pc = "debounce" /\ changed /\ ~changed' /\ pc' = "prepare"
      /\ UNCHANGED <<cfg, slots, patience, health>>
  BY DEF DebounceChanged
<1>2. /\ LiveSlots' = LiveSlots /\ Gone' = Gone /\ Seen' = Seen
      /\ Budget' = Budget + Gathering
  BY <1>1, SeenBudget DEF Watched, Covers
<1>3. Changes'
  BY <1>1, <1>2 DEF Watched, Changes
<1>4. ASSUME NEW i \in LiveSlots', health'[i].shows = "Fine"  PROVE QuietOk(i)'
  <2>1. i \in LiveSlots /\ i \in Slots /\ QuietOk(i)
    BY <1>1, <1>2, <1>4 DEF Watched, Silence, LiveSlots
  <2>2. /\ Budget \in Nat /\ Gathering \in Nat /\ health[i].quiet \in Nat /\ patience \in Nat
        /\ MaxDebounce \in Nat /\ timer \in Nat
    BY <2>1, BudgetType, Amounts DEF Watched, Covers
  <2>3. \/ health[i].quiet + patience <= Budget + MaxDebounce
        \/ patience = 0 /\ health[i].quiet + timer <= Budget + Gathering
    BY <1>1, <2>1 DEF QuietOk
  <2>4. health'[i].quiet + patience' <= Budget' + MaxDebounce
    BY <1>1, <1>2, <2>2, <2>3
  <2> QED BY <1>1, <2>1, <2>4 DEF QuietOk
<1> QED BY <1>3, <1>4 DEF Silence

(* Each tick of a wait or of a debounce uses up what is left of it; a          *)
(* connection that is open has nobody due to be told.                        *)
LEMMA TickSilence ==
  ASSUME Watched, Tick
  PROVE  Changes' /\ Silence'
<1>1. /\ UNCHANGED <<cfg, slots, changed, pc, snapshot>>
      /\ timer' = IF timer > 0 THEN timer - 1 ELSE 0
      /\ patience' = IF patience > 0 THEN patience - 1 ELSE 0
      /\ health' = [i \in Slots |-> IF slots[i] = "live" THEN Longer(health[i]) ELSE health[i]]
      /\ pc \in {"debounce", "wait"} => ~changed /\ timer > 0
      /\ pc = "drive" => Event
      /\ pc # "prepare"
  BY DEF Tick, Event
<1>2. Changes'
  <2>1. pc = "debounce" => timer' <= Debounce
    BY <1>1, Amounts DEF Watched, Covers, Changes
  <2> QED BY <1>1, <2>1, SameBudget DEF Watched, Changes
<1>3. ASSUME NEW i \in LiveSlots', health'[i].shows = "Fine"  PROVE QuietOk(i)'
  <2> DEFINE quiet == health[i].quiet
  <2>1. /\ i \in LiveSlots /\ i \in Slots /\ slots[i] = "live" /\ health[i] \in Healths
        /\ Budget' = Budget /\ Gathering' = Gathering /\ Restart' = Restart
    BY <1>1, SameBudget DEF LiveSlots, Watched, Covers, Typed, Gathering, Restart, Larger
  <2>2. /\ health'[i].shows = health[i].shows
        /\ health'[i].quiet = Smaller(quiet + 1, MaxQuiet)
    <3>1. health'[i] = Longer(health[i])
      BY <1>1, <2>1
    <3>2. health'[i].shows = health[i].shows
      BY <2>1, <3>1 DEF Longer, Healths
    <3> QED BY <1>3, <2>1, <3>1, <3>2 DEF Longer, Healths
  <2>3. QuietOk(i)
    BY <1>3, <2>1, <2>2 DEF Watched, Silence
  <2>4. /\ Budget \in Nat /\ StallThreshold + Restart <= Budget
        /\ quiet \in Nat /\ patience \in Nat /\ patience <= MaxDebounce /\ timer \in Nat
        /\ MaxDebounce \in Nat /\ Debounce \in Nat /\ Gathering = MaxDebounce + Debounce
        /\ StallThreshold \in Nat /\ Restart \in Nat
    BY <2>1, BudgetType, Amounts DEF Watched, Covers
  <2>5. health'[i].quiet \in Nat /\ health'[i].quiet <= quiet + 1
    BY <2>2, <2>4, ConnectionAssumption DEF Smaller
  <2>6. CASE pc = "drive"
    <3>1. quiet < StallThreshold
      BY <1>1, <1>3, <2>1, <2>2, <2>4, <2>6 DEF Event, StallDue
    <3>2. health'[i].quiet <= Budget' + Gathering'
      BY <2>1, <2>4, <2>5, <3>1
    <3> QED BY <1>1, <2>6, <3>2 DEF QuietOk
  <2>7. CASE pc = "wait"
    <3>1. i \in snapshot
      BY <1>1, <2>1, <2>7 DEF Watched, Covers, Covering
    <3>2. quiet + timer <= StallThreshold + Restart
      BY <2>3, <2>7, <3>1 DEF QuietOk
    <3>3. health'[i].quiet + timer' <= StallThreshold + Restart'
      BY <1>1, <2>1, <2>4, <2>5, <2>7, <3>2
    <3> QED BY <1>1, <2>7, <3>1, <3>3 DEF QuietOk
  <2>8. CASE pc = "debounce"
    <3>1. timer <= Debounce /\ timer > 0
      BY <1>1, <2>8 DEF Watched, Changes
    <3>2. CASE patience > 0 /\ quiet + patience <= Budget + MaxDebounce
      <4>1. health'[i].quiet + patience' <= Budget' + MaxDebounce
        BY <1>1, <2>1, <2>4, <2>5, <3>2
      <4> QED BY <1>1, <2>8, <4>1 DEF QuietOk
    <3>3. CASE patience = 0
      <4>1. quiet + timer <= Budget + Gathering
        BY <2>3, <2>4, <2>8, <3>1, <3>3 DEF QuietOk
      <4>2. patience' = 0 /\ health'[i].quiet + timer' <= Budget' + Gathering'
        BY <1>1, <2>1, <2>4, <2>5, <3>1, <3>3, <4>1
      <4> QED BY <1>1, <2>8, <4>2 DEF QuietOk
    <3> QED BY <2>3, <2>4, <2>8, <3>2, <3>3 DEF QuietOk
  <2>9. CASE pc = "idle"
    BY <2>1, <2>9 DEF Watched, Covers, Covering
  <2>10. pc \in {"idle", "prepare", "debounce", "drive", "wait"}
    BY DEF Watched, Covers, Typed, Alone, Open
  <2> QED BY <1>1, <2>6, <2>7, <2>8, <2>9, <2>10
<1> QED BY <1>2, <1>3 DEF Silence

LEMMA StalledSilence ==
  ASSUME Watched, MarkStalled
  PROVE  Changes' /\ Silence'
<1>1. \A i \in LiveSlots : health'[i].shows = "Fine" => health'[i] = health[i]
  <2> SUFFICES ASSUME NEW i \in LiveSlots, health'[i].shows = "Fine"
               PROVE  health'[i] = health[i]
    OBVIOUS
  <2>1. i \in Slots /\ health[i] \in Healths
    BY DEF LiveSlots, Watched, Covers, Typed
  <2> QED BY <2>1 DEF MarkStalled, Healths
<1> QED BY <1>1, DriveSilence DEF MarkStalled

(* Whoever is heard of was silent for no time.                              *)
LEMMA AliveSilence ==
  ASSUME Watched, Event, Stay, NEW but, "Fine" \notin but, Alive(but)
  PROVE  Changes' /\ Silence'
<1>1. \A i \in LiveSlots : health'[i].quiet = 0
  BY EventCovered DEF Watched, Covered, LiveSlots, Alive, Health
<1> QED BY <1>1, DriveSilence DEF Stay, Event

(* Who comes is within every budget.                                       *)
LEMMA Comes ==
  \A quiet, threshold, restart, budget, most, debounce, wait \in Nat :
    quiet <= threshold /\ threshold + restart <= budget /\ wait <= most =>
      quiet <= budget + debounce /\ quiet + wait <= budget + most
OBVIOUS

LEMMA ComesQuiet ==
  ASSUME Typed, NEW i \in Slots, Join(i)
  PROVE  /\ health'[i].quiet \in Nat /\ health'[i].quiet <= StallThreshold
         /\ StallThreshold \in Nat
<1>1. health'[i] \in Arrivals
  BY DEF Typed, Join
<1> QED BY <1>1, ArrivalsAre, ConnectionAssumption

LEMMA FirstSilence ==
  ASSUME Watched, Typed', NEW i \in Slots, Join(i), pc = "idle"
  PROVE  Changes' /\ Silence'
<1>1. Start({i}) /\ UNCHANGED changed /\ UNCHANGED cfg /\ ~changed
  BY DEF Join, Watched, Covers, Covering
<1>2. pc' = "prepare" /\ patience' = MaxDebounce
  BY <1>1 DEF Start, Watched, Waits
<1>3. LiveSlots' = {i} /\ i \in Seen'
  BY DEF Join, LiveSlots, Seen, Watched, Covers, Covering, Typed
<1>4. Changes'
  BY <1>1, <1>2, <1>3 DEF Changes
<1>5. Budget' \in Nat /\ StallThreshold + Restart' <= Budget' /\ Restart' \in Nat
  BY <1>3, <1>4, BudgetTypeNext
<1>6. health'[i].quiet + patience' <= Budget' + MaxDebounce
  <2>1. MaxDebounce \in Nat /\ patience' \in Nat /\ patience' <= MaxDebounce
    BY <1>2, ConnectionAssumption
  <2> QED BY <1>5, <2>1, ComesQuiet, Comes DEF Watched, Covers
<1>7. QuietOk(i)'
  BY <1>2, <1>6 DEF QuietOk
<1> QED BY <1>3, <1>4, <1>7 DEF Silence

LEMMA ChurnSilence ==
  ASSUME Watched, Typed', NEW j \in Slots, Join(j) \/ Leave(j), pc # "idle"
  PROVE  Changes' /\ Silence'
<1>1. /\ UNCHANGED <<cfg, pc, timer, patience, snapshot>>
      /\ Budget' = Budget \/ Budget' = Budget + Gathering
      /\ Changes' /\ Restart' = Restart /\ Gathering' = Gathering
  BY ChurnBudget DEF Join, Leave, Watched, Covers, Gathering
<1>2. ASSUME NEW i \in LiveSlots', health'[i].shows = "Fine"  PROVE QuietOk(i)'
  <2>1. i \in Slots
    BY DEF LiveSlots
  <2>2. /\ Budget' \in Nat /\ Gathering \in Nat /\ MaxDebounce \in Nat /\ patience \in Nat
        /\ patience <= MaxDebounce
    BY <1>1, <1>2, BudgetTypeNext, Amounts DEF Watched, Covers
  <2>3. CASE i \in LiveSlots /\ health'[i] = health[i]
    <3>1. QuietOk(i) /\ Budget \in Nat /\ health[i].quiet \in Nat /\ timer \in Nat
      BY <1>2, <2>1, <2>3, BudgetType, Amounts DEF Watched, Covers, Silence
    <3>2. /\ health[i].quiet <= Budget + Gathering
               => health'[i].quiet <= Budget' + Gathering'
          /\ health[i].quiet + patience <= Budget + MaxDebounce
               => health'[i].quiet + patience' <= Budget' + MaxDebounce
          /\ \A t \in Nat : health[i].quiet + t <= Budget + Gathering
               => health'[i].quiet + t <= Budget' + Gathering'
      BY <1>1, <2>2, <2>3, <3>1
    <3>3. (IF pc = "debounce" THEN timer ELSE 0) \in Nat
      BY <3>1
    <3> QED BY <1>1, <2>3, <3>1, <3>2, <3>3 DEF QuietOk
  <2>4. CASE i = j /\ Join(j)
    <3>1. i \notin snapshot
      BY <2>1, <2>4 DEF Join, Watched, Covers, Covering, Seen
    <3>2. /\ health'[i].quiet <= Budget' + Gathering'
          /\ health'[i].quiet + patience' <= Budget' + MaxDebounce
          /\ health'[i].quiet <= StallThreshold
      <4>1. Gathering' \in Nat /\ patience' = patience
        BY <1>1, <2>2, Zenon
      <4>2. StallThreshold + Restart' <= Budget' /\ Restart' \in Nat
        BY <1>1, <1>2, BudgetTypeNext
      <4> QED BY <2>2, <2>4, <4>1, <4>2, ComesQuiet, Comes DEF Watched, Covers
    <3> QED BY <1>1, <3>1, <3>2 DEF QuietOk
  <2> QED BY <2>1, <2>3, <2>4 DEF Join, Leave, LiveSlots, Watched, Covers, Typed
<1> QED BY <1>1, <1>2 DEF Silence

LEMMA WatchedNext == Watched /\ [Next]_vars => Watched'
<1> SUFFICES ASSUME Watched, [Next]_vars  PROVE Changes' /\ Silence'
  BY CoversNext, SameScope DEF Watched
<1>0. Covers' /\ Typed'
  BY CoversNext DEF Watched, Covers
<1>1. ASSUME NEW i \in Slots, Join(i) \/ Leave(i) \/ RequestResync(i)
      PROVE  Changes' /\ Silence'
  <2>1. CASE pc # "idle" /\ (Join(i) \/ Leave(i))
    BY <1>0, <2>1, ChurnSilence
  <2>2. CASE pc = "idle" /\ Join(i)
    BY <1>0, <2>2, FirstSilence
  <2>3. ~(pc = "idle" /\ Leave(i))
    BY DEF Leave, Watched, Covers, Covering, LiveSlots
  <2>4. ~RequestResync(i)
    BY DEF RequestResync, Watched, Waits, OwnScopes
  <2> QED BY <1>1, <2>1, <2>2, <2>3, <2>4
<1>2. CASE Prepare
  BY <1>2, PrepareSilence
<1>3. CASE DebounceChanged
  BY <1>0, <1>3, DebounceChangedSilence
<1>4. CASE DebounceOver
  <2>1. snapshot \in SUBSET Slots /\ LiveSlots \subseteq snapshot
    BY <1>4 DEF DebounceOver, Watched, Covers, Covering, Typed
  <2> QED BY <1>4, <2>1, ConnectSilence DEF DebounceOver
<1>5. CASE WaitChanged
  <2>1. CASE Rebuild
    BY <1>0, <1>5, <2>1, RebuildSilence DEF WaitChanged
  <2>2. CASE UNCHANGED <<resync, pc, snapshot, timer, patience, delays, past>>
    BY <1>0, <1>5, <2>2, SeenSilence DEF WaitChanged
  <2> QED BY <1>5, <2>1, <2>2 DEF WaitChanged
<1>6. CASE WaitOver
  BY <1>0, <1>6, RebuildSilence DEF WaitOver
<1>7. CASE Change
  <2>1. CASE Rebuild
    BY <1>0, <1>7, <2>1, RebuildSilence DEF Change
  <2>2. CASE UNCHANGED <<resync, pc, snapshot, timer, patience, delays, past>>
    BY <1>0, <1>7, <2>2, SeenSilence DEF Change
  <2> QED BY <1>7, <2>1, <2>2 DEF Change
<1>8. CASE MarkStalled
  BY <1>8, StalledSilence
<1>9. ASSUME NEW decoded \in BOOLEAN, Traffic(decoded)  PROVE Changes' /\ Silence'
  BY <1>9, AliveSilence DEF Traffic, Heard
<1>10. CASE Connected
  BY <1>10, AliveSilence DEF Connected
<1>11. CASE MalformedEvent
  BY <1>11, FailureSilence DEF MalformedEvent
<1>12. CASE DocumentRejected
  BY <1>12, FailureSilence DEF DocumentRejected, Reject, Watched
<1>13. ASSUME NEW status \in Errors, Error(status)  PROVE Changes' /\ Silence'
  <2>1. Event
    BY <1>13 DEF Error
  <2>2. CASE Reject
    BY <2>1, <2>2, FailureSilence DEF Reject, Watched
  <2>3. CASE Problem /\ Wait("error", NextReconnectDelay(delays.reconnect))
    BY <2>1, <2>3, FailureSilence
  <2>4. CASE Problem /\ Stay
    <3>1. \A i \in LiveSlots : health'[i].shows # "Fine"
      BY <2>1, <2>4, ShownNotFine DEF Watched
    <3> QED BY <2>1, <2>4, <3>1, DriveSilence DEF Stay, Event
  <2> QED BY <1>13, <2>2, <2>3, <2>4 DEF Error
<1>14. CASE StreamEnds
  <2>1. CASE cfg.setting.restart # Null
    BY <1>14, <2>1, EndSilence DEF StreamEnds
  <2>2. CASE cfg.setting.restart = Null
    <3>1. LiveSlots' = {}
      BY <1>14, <2>2, EventCovered DEF StreamEnds, Watched, Covered, LiveSlots
    <3> QED BY <1>14, <2>2, <3>1, IdleSilence DEF StreamEnds, Stop
  <2> QED BY <2>1, <2>2
<1>15. CASE Tick
  BY <1>15, TickSilence
<1>16. CASE UNCHANGED vars
  <2>1. UNCHANGED <<Budget, Gathering, Restart, LiveSlots, Gone, Seen>>
    BY <1>16, SameBudget DEF vars, Gathering, Restart, Larger
  <2>2. \A i : QuietOk(i) => QuietOk(i)'
    BY <1>16, <2>1 DEF vars, QuietOk
  <2> QED BY <1>16, <2>1, <2>2 DEF vars, Watched, Changes, Silence
<1>17. ~Deliver /\ ~Delivered /\ ~Told
  BY DEF Deliver, Delivered, Told, Watched, Covers, Alone
<1> QED BY <1>1, <1>2, <1>3, <1>4, <1>5, <1>6, <1>7, <1>8, <1>9, <1>10, <1>11, <1>12, <1>13,
           <1>14, <1>15, <1>16, <1>17 DEF Next

(* The only subscription of a connection: who shows that all is well did so    *)
(* before, or was just heard of.                                           *)
LEMMA OwnStays ==
  ASSUME OwnSilence, UNCHANGED <<cfg, pc, timer>>,
         \A i \in LiveSlots' : health'[i].shows = "Fine" =>
           i \in LiveSlots /\ health'[i] = health[i]
  PROVE  OwnSilence'
BY SameDelays DEF OwnSilence

LEMMA OwnGoesOn ==
  ASSUME Typed, OwnSilence, UNCHANGED cfg, pc \notin {"delivering", "telling"},
         pc' \in {"idle", "prepare", "drive", "delivering"},
         \A i \in LiveSlots' : health'[i].shows = "Fine" =>
           i \in LiveSlots /\ health'[i] = health[i]
  PROVE  OwnSilence'
<1> SUFFICES ASSUME NEW i \in LiveSlots', health'[i].shows = "Fine"
             PROVE  health'[i].quiet + 0 <= StallThreshold + Restart'
  BY DEF OwnSilence
<1>1. /\ i \in LiveSlots /\ i \in Slots /\ Restart' = Restart
      /\ health'[i] = health[i] /\ health[i].shows = "Fine"
  BY SameDelays DEF LiveSlots
<1>2. health[i].quiet + (IF pc = "wait" THEN timer ELSE 0) <= StallThreshold + Restart
  BY <1>1 DEF OwnSilence
<1>3. /\ health[i].quiet \in Nat /\ timer \in Nat /\ StallThreshold \in Nat /\ Restart \in Nat
  BY <1>1, Amounts
<1> QED BY <1>1, <1>2, <1>3

LEMMA OwnHeard ==
  ASSUME Typed, UNCHANGED <<cfg, slots>>, pc' = "drive", LiveSlots \subseteq snapshot,
         NEW but, Alive(but)
  PROVE  OwnSilence'
<1> SUFFICES ASSUME NEW i \in LiveSlots'
             PROVE  health'[i].quiet + 0 <= StallThreshold + Restart'
  BY DEF OwnSilence
<1>1. i \in Covered /\ i \in Slots /\ Restart' = Restart
  BY SameDelays DEF Covered, LiveSlots
<1>2. health'[i].quiet = 0
  BY <1>1 DEF Alive, Health
<1>3. StallThreshold \in Nat /\ Restart \in Nat
  BY Amounts
<1> QED BY <1>1, <1>2, <1>3

LEMMA OwnFails ==
  ASSUME \A i \in LiveSlots : health'[i].shows # "Fine", UNCHANGED slots
  PROVE  OwnSilence'
BY DEF OwnSilence, LiveSlots

(* A wait for the restart begins before the threshold, and every other wait    *)
(* with a problem that shows.                                              *)
LEMMA OwnEnds ==
  ASSUME Covers, OwnSilence, Event, cfg.setting.restart # Null, UNCHANGED health,
         Wait("end", Larger(cfg.setting.restart, MinDelay))
  PROVE  OwnSilence'
<1>1. pc' = "wait" /\ timer' = Restart /\ UNCHANGED <<cfg, slots>>
  BY DEF Wait, Restart
<1> SUFFICES ASSUME NEW i \in LiveSlots', health'[i].shows = "Fine"
             PROVE  health'[i].quiet + timer' <= StallThreshold + Restart'
  BY <1>1 DEF OwnSilence
<1>2. i \in Slots /\ slots[i] = "live" /\ Restart' = Restart /\ health'[i] = health[i]
  BY <1>1, SameDelays DEF LiveSlots
<1>3. health[i].quiet \in Nat /\ StallThreshold \in Nat /\ Restart \in Nat
  BY <1>2, Amounts DEF Covers
<1>4. health[i].quiet < StallThreshold
  BY <1>2, <1>3 DEF Event, StallDue
<1> QED BY <1>1, <1>2, <1>3, <1>4

LEMMA OwnTick ==
  ASSUME Attended, Tick
  PROVE  OwnSilence'
<1> USE DEF Attended, Covers
<1>1. /\ UNCHANGED <<cfg, slots, pc>>
      /\ timer' = IF timer > 0 THEN timer - 1 ELSE 0
      /\ health' = [i \in Slots |-> IF slots[i] = "live" THEN Longer(health[i]) ELSE health[i]]
      /\ pc = "wait" => timer > 0
      /\ pc = "drive" => Event
      /\ pc \in {"idle", "debounce", "wait", "drive", "delivering", "telling"}
  BY DEF Tick, Event
<1> SUFFICES ASSUME NEW i \in LiveSlots', health'[i].shows = "Fine"
             PROVE  /\ pc # "telling"
                    /\ pc # "delivering" =>
                         health'[i].quiet + (IF pc = "wait" THEN timer' ELSE 0)
                           <= StallThreshold + Restart'
  BY <1>1 DEF OwnSilence
<1>2. /\ i \in LiveSlots /\ i \in Slots /\ slots[i] = "live" /\ health[i] \in Healths
      /\ Restart' = Restart
  BY <1>1, SameDelays DEF LiveSlots, Typed
<1>3. health'[i] = Longer(health[i])
  BY <1>1, <1>2
<1>4. health[i].shows = "Fine" /\ health'[i].quiet = Smaller(health[i].quiet + 1, MaxQuiet)
  <2>1. health'[i].shows = health[i].shows
    BY <1>2, <1>3 DEF Longer, Healths
  <2> QED BY <1>2, <1>3, <2>1 DEF Longer, Healths
<1>5. /\ health[i].quiet \in Nat /\ timer \in Nat /\ StallThreshold \in Nat /\ Restart \in Nat
      /\ MaxQuiet \in Nat
  BY <1>2, Amounts, ConnectionAssumption
<1>6. health'[i].quiet \in Nat /\ health'[i].quiet <= health[i].quiet + 1
  BY <1>4, <1>5 DEF Smaller
<1>7. pc # "telling"
  BY <1>2, <1>4 DEF OwnSilence
<1>8. CASE pc = "wait"
  <2>1. health[i].quiet + timer <= StallThreshold + Restart /\ timer' = timer - 1
    BY <1>1, <1>2, <1>4, <1>5, <1>8 DEF OwnSilence
  <2>2. health'[i].quiet + timer' <= StallThreshold + Restart'
    BY <1>2, <1>5, <1>6, <2>1
  <2> QED BY <1>8, <2>2
<1>9. CASE pc = "drive"
  <2>1. health[i].quiet < StallThreshold
    BY <1>1, <1>2, <1>4, <1>5, <1>9 DEF Event, StallDue
  <2>2. health'[i].quiet + 0 <= StallThreshold + Restart'
    BY <1>2, <1>5, <1>6, <2>1
  <2> QED BY <1>9, <2>2
<1>10. pc \notin {"idle", "debounce"}
  BY <1>2 DEF Covering, Alone
<1> QED BY <1>1, <1>7, <1>8, <1>9, <1>10

(* Who comes has not been silent for longer than the threshold, and a          *)
(* connection that it waits for begins at once if it shows that all is well.   *)
LEMMA OwnFirst ==
  ASSUME Attended, NEW i \in Slots, Join(i)
  PROVE  OwnSilence'
<1> USE DEF Attended, Covers
<1>1. pc = "idle" /\ UNCHANGED cfg /\ LiveSlots' = {i}
  <2>1. Seen = {} /\ UNCHANGED cfg /\ LiveSlots' = LiveSlots \cup {i}
    BY DEF Join, Waits, Seen, LiveSlots, Typed
  <2>2. pc = "idle"
    BY <2>1 DEF Alone
  <2> QED BY <2>1, <2>2 DEF Covering
<1>2. /\ Start({i}) /\ pc' \in {"prepare", "wait"}
  BY <1>1, StartAs DEF Join, Typed
<1>3. /\ health'[i].quiet \in Nat /\ health'[i].quiet <= StallThreshold
      /\ StallThreshold \in Nat /\ Restart \in Nat /\ Restart' = Restart
  BY <1>1, ComesQuiet, Amounts, SameDelays
<1>4. health'[i].shows = "Fine" => cfg.scope \notin {"Rejected", "Malformed"}
  <2>1. health'[i] \in Arrivals
    BY DEF Join, Typed
  <2>2. health'[i].shows \in ShownBefore
    BY <2>1 DEF Arrivals, Health
  <2>3. cfg.scope \in {"Rejected", "Malformed"} => "Fine" \notin ShownBefore
    BY Zenon DEF ShownBefore
  <2> QED BY <2>2, <2>3
<1>5. health'[i].shows = "Fine" => timer' = 0
  <2>1. timer' = IF cfg.scope = "Rejected" THEN RejectedRetryDelay
                 ELSE IF cfg.scope = "Malformed" THEN NextMalformedDelay(Null)
                 ELSE 0
    BY <1>2 DEF Start
  <2> QED BY <1>4, <2>1
<1>6. health'[i].quiet + 0 <= StallThreshold + Restart'
  BY <1>3
<1> QED BY <1>1, <1>2, <1>5, <1>6 DEF OwnSilence

LEMMA AttendedNext == Attended /\ [Next]_vars => Attended'
<1> SUFFICES ASSUME Attended, [Next]_vars  PROVE OwnSilence'
  BY CoversNext, SameScope DEF Attended
<1> USE DEF Attended, Covers
<1>1. ASSUME NEW i \in Slots, Join(i) \/ Leave(i) \/ RequestResync(i)  PROVE OwnSilence'
  <2>1. CASE Leave(i) \/ RequestResync(i)
    <3>1. /\ LiveSlots' \subseteq LiveSlots /\ UNCHANGED <<cfg, pc, timer>>
          /\ \A j \in LiveSlots' : health'[j] = health[j]
      BY <2>1 DEF Leave, RequestResync, LiveSlots, Typed
    <3> QED BY <3>1, OwnStays
  <2> QED BY <1>1, <2>1, OwnFirst
<1>2. CASE Prepare
  <2>1. cfg.scope # "Shared"
    BY DEF Waits
  <2>2. CASE Stop /\ UNCHANGED slots
    BY <1>2, <2>2, OwnGoesOn DEF Prepare, Stop, LiveSlots
  <2>3. CASE Connect(LiveSlots)
    <3>1. CASE Requests[LiveSlots] = Null
      <4>1. LiveSlots' = {}
        BY <2>3, <3>1 DEF Connect, LiveSlots
      <4> QED BY <4>1 DEF OwnSilence
    <3>2. CASE Requests[LiveSlots] # Null
      BY <1>2, <2>3, <3>2, OwnGoesOn DEF Prepare, Connect, LiveSlots
    <3> QED BY <3>1, <3>2
  <2> QED BY <1>2, <2>1, <2>2, <2>3 DEF Prepare
<1>3. ~DebounceChanged /\ ~DebounceOver
  BY DEF DebounceChanged, DebounceOver, Alone
<1>4. CASE WaitChanged \/ WaitOver \/ Change
  <2>1. pc \in {"wait", "drive"} /\ UNCHANGED <<cfg, slots, health>>
    BY <1>4 DEF WaitChanged, WaitOver, Change
  <2>2. CASE Rebuild
    BY <2>1, <2>2, OwnGoesOn DEF Rebuild, LiveSlots
  <2>3. CASE UNCHANGED <<pc, timer>>
    BY <2>1, <2>3, OwnStays DEF LiveSlots
  <2> QED BY <1>4, <2>2, <2>3 DEF WaitChanged, WaitOver, Change
<1>5. CASE MarkStalled
  <2>1. /\ UNCHANGED <<cfg, pc, timer>> /\ LiveSlots' = LiveSlots
        /\ \A i \in LiveSlots : i \in Slots /\ health[i] \in Healths
    BY <1>5 DEF MarkStalled, LiveSlots, Typed
  <2>2. \A i \in LiveSlots : health'[i].shows = "Fine" => health'[i] = health[i]
    BY <1>5, <2>1 DEF MarkStalled, Healths
  <2> QED BY <2>1, <2>2, OwnStays
<1>6. ASSUME NEW decoded \in BOOLEAN, Traffic(decoded)  PROVE OwnSilence'
  BY <1>6, EventCovered, OwnHeard DEF Traffic, Heard, Stay, Event
<1>7. CASE Connected
  BY <1>7, EventCovered, OwnHeard DEF Connected, Stay, Event
<1>8. CASE Deliver
  BY <1>8, OwnGoesOn DEF Deliver, Event, LiveSlots
<1>9. CASE Delivered
  BY <1>9, CoversAlone, OwnHeard DEF Delivered, Heard, Open
<1>10. CASE MalformedEvent
  BY <1>10, ShownNotFine, OwnFails DEF MalformedEvent, Wait
<1>11. ASSUME Event, Reject  PROVE OwnSilence'
  BY <1>11, ShownNotFine, OwnFails DEF Reject, Wait
<1>12. CASE DocumentRejected
  BY <1>11, <1>12 DEF DocumentRejected
<1>13. ASSUME NEW status \in Errors, Error(status)  PROVE OwnSilence'
  <2>1. CASE Reject
    BY <1>11, <1>13, <2>1 DEF Error
  <2>2. CASE Event /\ Problem /\ UNCHANGED slots
    BY <2>2, ShownNotFine, OwnFails
  <2> QED BY <1>13, <2>1, <2>2 DEF Error, Wait, Stay
<1>14. CASE Told
  <2>1. \A i \in LiveSlots : health'[i].shows # "Fine"
    BY <1>14 DEF Told, OwnSilence
  <2> QED BY <1>14, <2>1, OwnFails DEF Told, Wait
<1>15. CASE StreamEnds
  <2>1. CASE cfg.setting.restart # Null
    BY <1>15, <2>1, OwnEnds DEF StreamEnds
  <2>2. CASE cfg.setting.restart = Null
    <3>1. LiveSlots' = {}
      BY <1>15, <2>2, EventCovered DEF StreamEnds, Covered, LiveSlots
    <3> QED BY <3>1 DEF OwnSilence
  <2> QED BY <2>1, <2>2
<1>16. CASE Tick
  BY <1>16, OwnTick
<1>17. CASE UNCHANGED vars
  BY <1>17, OwnStays DEF vars, LiveSlots
<1> QED BY <1>1, <1>2, <1>3, <1>4, <1>5, <1>6, <1>7, <1>8, <1>9, <1>10, <1>12, <1>13, <1>14,
           <1>15, <1>16, <1>17 DEF Next

(* A subscription that shows that all is well has not been silent for longer   *)
(* than the threshold, one wait and as many debounces as subscriptions came   *)
(* and left, for any number of subscriptions and any delays, unless its own   *)
(* connection waits for its consumer to take an event (stall_wakeup,         *)
(* mark_stalled, prepare, wait_before_reconnect, deliver).                  *)
THEOREM SilenceTold == Spec => []SilenceIsTold
<1>1. ASSUME Watched, NEW i \in LiveSlots, health[i].shows = "Fine"
      PROVE  health[i].quiet <= StallThreshold + Restart + Gathering * (1 + Churn)
  <2>1. i \in Slots /\ QuietOk(i) /\ pc # "idle"
    BY <1>1 DEF Watched, Silence, Covers, Covering, LiveSlots
  <2>2. /\ Budget \in Nat /\ StallThreshold + Restart <= Budget
        /\ health[i].quiet \in Nat /\ patience \in Nat /\ timer \in Nat
        /\ MaxDebounce \in Nat /\ Debounce \in Nat /\ Gathering = MaxDebounce + Debounce
        /\ StallThreshold \in Nat /\ Restart \in Nat
    BY <1>1, <2>1, BudgetType, Amounts DEF Watched, Covers
  <2>3. pc \in {"prepare", "debounce", "drive", "wait"}
    BY <1>1, <2>1 DEF Watched, Covers, Typed, Alone, Open
  <2>4. health[i].quiet <= Budget + Gathering
    <3>1. CASE pc = "drive"
      BY <2>1, <3>1 DEF QuietOk
    <3>2. CASE pc = "wait"
      BY <2>1, <2>2, <3>2 DEF QuietOk
    <3>3. CASE pc \in {"prepare", "debounce"}
      <4>1. \/ health[i].quiet + patience <= Budget + MaxDebounce
            \/ health[i].quiet + 0 <= Budget + Gathering
            \/ health[i].quiet + timer <= Budget + Gathering
        BY <2>1, <3>3 DEF QuietOk
      <4> QED BY <2>2, <4>1
    <3> QED BY <2>3, <3>1, <3>2, <3>3
  <2> DEFINE a == StallThreshold + Restart
  <2>5. a + Gathering * (Regathered + 1) = (a + Gathering * Regathered) + Gathering
    BY <2>2, RegatheredType, MoreBudget
  <2>6. Budget + Gathering = a + Gathering * (Regathered + 1)
    BY <2>5 DEF Budget
  <2>7. Gathering * (Regathered + 1) <= Gathering * (1 + Churn)
    <3>1. Regathered + 1 = 1 + Churn \/ (Regathered + 1) + 1 = 1 + Churn
      BY RegatheredType DEF Regathered
    <3>2. 0 + Gathering * (1 + Churn) = 0 + Gathering * (Regathered + 1)
          \/ 0 + Gathering * (1 + Churn) = (0 + Gathering * (Regathered + 1)) + Gathering
      BY <3>1, RegatheredType, MoreBudget
    <3> QED BY <3>2, RegatheredType
  <2> QED BY <2>2, <2>4, <2>6, <2>7, RegatheredType
<1>2. ASSUME Attended, pc # "delivering", NEW i \in LiveSlots, health[i].shows = "Fine"
      PROVE  health[i].quiet <= StallThreshold + Restart + Gathering * (1 + Churn)
  <2>1. /\ i \in Slots /\ health[i].quiet \in Nat /\ timer \in Nat
        /\ StallThreshold \in Nat /\ Restart \in Nat
    BY <1>2, Amounts DEF LiveSlots, Attended, Covers
  <2>2. health[i].quiet + (IF pc = "wait" THEN timer ELSE 0) <= StallThreshold + Restart
    BY <1>2 DEF Attended, OwnSilence
  <2>3. health[i].quiet <= StallThreshold + Restart
    BY <2>1, <2>2
  <2>4. Gathering * (1 + Churn) \in Nat
    <3>1. LiveSlots \cap Gone = {} /\ LiveSlots # {}
      BY <1>2 DEF LiveSlots, Gone
    <3>2. Churn \in Nat
      BY <3>1, SlotSets, ChangesCounted DEF Churn
    <3> QED BY <3>2, RegatheredType
  <2> QED BY <2>1, <2>3, <2>4
<1>3. Watched \/ Attended => SilenceIsTold
  <2>1. SUFFICES ASSUME Watched \/ Attended, NEW i \in LiveSlots, pc # "delivering",
                        health[i].quiet > StallThreshold + Restart + Gathering * (1 + Churn),
                        health[i].shows = "Fine"
                 PROVE  FALSE
    BY DEF SilenceIsTold, Restart, Gathering, Churn, Gone
  <2>2. i \in Slots
    BY DEF LiveSlots
  <2>3. health[i].quiet \in Nat /\ StallThreshold \in Nat /\ Restart \in Nat
    BY <2>1, <2>2, Amounts DEF Watched, Attended, Covers
  <2>4. Gathering * (1 + Churn) \in Int
    BY RegatheredType
  <2> QED BY <1>1, <1>2, <2>1, <2>3, <2>4
<1>4. (Watched \/ Attended) /\ [Next]_vars => (Watched \/ Attended)'
  BY WatchedNext, AttendedNext
<1> QED BY <1>3, <1>4, SilenceInit, PTL DEF Spec

-----------------------------------------------------------------------------
(***************************************************************************)
(* What combining does to one slot's part of the document.                 *)
(***************************************************************************)

Field(spec) == SplitDocument(spec.document).field
Definitions(spec) == SplitDocument(spec.document).definitions

(* A text that refers to given variables, and has got no prefix yet.          *)
RefersTo(text, names) ==
  \A k \in DOMAIN text : /\ text[k] = Token(text[k].kind, text[k].text)
                         /\ text[k].kind = "variable" => text[k].text \in names

LEMMA BuiltOf ==
  ASSUME NEW specs, BuildConnection(specs) # Null
  PROVE  /\ BuildConnection(specs).variables =
              [n \in UNION {{i} \X DOMAIN specs[i].variables : i \in DOMAIN specs} |->
                 specs[n[1]].variables[n[2]]]
         /\ BuildConnection(specs).targets =
              [i \in DOMAIN specs |-> RootFieldName(RenameVariables(Field(specs[i]), i))]
  BY DEF BuildConnection, Field

LEMMA RenamedToken ==
  ASSUME NEW text, NEW names, RefersTo(text, names), NEW alias, NEW k \in DOMAIN text
  PROVE  LET new == RenameVariables(text, alias)[k]
         IN  /\ new.kind = text[k].kind /\ new.text = text[k].text
             /\ text[k].kind = "variable" => new.alias = alias /\ text[k].text \in names
             /\ text[k].kind # "variable" => new = text[k]
             /\ text[k].alias = Null
<1>1. /\ text[k] = [kind |-> text[k].kind, alias |-> Null, text |-> text[k].text]
      /\ text[k].kind = "variable" => text[k].text \in names
  BY DEF RefersTo, Token
<1> DEFINE old == text[k]
           new == RenameVariables(text, alias)[k]
<1>2. new = IF old.kind = "variable" THEN [old EXCEPT !.alias = alias] ELSE old
  BY DEF RenameVariables
<1> HIDE DEF new, old
<1>3. old = [kind |-> old.kind, alias |-> Null, text |-> old.text]
  BY <1>1 DEF old
<1>4. old.alias = Null
  BY <1>3
<1>5. CASE old.kind = "variable"
  <2>1. new = [old EXCEPT !.alias = alias]
    BY <1>2, <1>5
  <2>2. new = [kind |-> old.kind, alias |-> alias, text |-> old.text]
    BY <2>1, <1>3
  <2> QED BY <2>2, <1>1, <1>4, <1>5 DEF new, old
<1>6. CASE old.kind # "variable"
  BY <1>2, <1>4, <1>6 DEF new, old
<1> QED BY <1>5, <1>6

(* A slot's part of the combined document means what its own document means:   *)
(* with the prefixed variables, each reference in the root field gets the      *)
(* value that the slot gave to it, and the rest of the field, its literals     *)
(* included, is unchanged (rename_variables, build_connection).             *)
THEOREM PartMeansTheSame ==
  ASSUME NEW specs, BuildConnection(specs) # Null, NEW i \in DOMAIN specs,
         RefersTo(Field(specs[i]), DOMAIN specs[i].variables)
  PROVE  Evaluated(RenameVariables(Field(specs[i]), i), BuildConnection(specs).variables)
           = Evaluated(Field(specs[i]), [n \in {Null} \X DOMAIN specs[i].variables |->
                                           specs[i].variables[n[2]]])
<1> DEFINE field    == Field(specs[i])
           renamed  == RenameVariables(field, i)
           names    == DOMAIN specs[i].variables
           own      == [n \in {Null} \X names |-> specs[i].variables[n[2]]]
           combined == BuildConnection(specs).variables
<1>1. \A name \in names : /\ combined[<<i, name>>] = specs[i].variables[name]
                          /\ own[<<Null, name>>] = specs[i].variables[name]
  <2>1. SUFFICES ASSUME NEW name \in names
                 PROVE  /\ combined[<<i, name>>] = specs[i].variables[name]
                        /\ own[<<Null, name>>] = specs[i].variables[name]
    OBVIOUS
  <2> DEFINE all == UNION {{j} \X DOMAIN specs[j].variables : j \in DOMAIN specs}
  <2>2. combined = [n \in all |-> specs[n[1]].variables[n[2]]]
    BY BuiltOf
  <2>3. <<i, name>> \in all
    OBVIOUS
  <2>4. own[<<Null, name>>] = specs[i].variables[name]
    OBVIOUS
  <2> HIDE DEF all, combined
  <2>5. combined[<<i, name>>] = specs[i].variables[name]
    BY <2>2, <2>3
  <2> QED BY <2>4, <2>5
<1>2. RefersTo(field, names) /\ DOMAIN renamed = DOMAIN field
  BY DEF RenameVariables
<1>3. ASSUME NEW k \in DOMAIN field
      PROVE  Evaluated(renamed, combined)[k] = Evaluated(field, own)[k]
  <2>1. /\ renamed[k].kind = field[k].kind /\ renamed[k].text = field[k].text
        /\ field[k].kind = "variable" => renamed[k].alias = i /\ field[k].text \in names
        /\ field[k].kind # "variable" => renamed[k] = field[k]
        /\ field[k].alias = Null
    BY <1>2, <1>3, RenamedToken
  <2> HIDE DEF field, renamed, names, own, combined
  <2>2. /\ Evaluated(renamed, combined)[k] =
             IF renamed[k].kind = "variable"
             THEN Token("value", combined[<<renamed[k].alias, renamed[k].text>>]) ELSE renamed[k]
        /\ Evaluated(field, own)[k] =
             IF field[k].kind = "variable"
             THEN Token("value", own[<<field[k].alias, field[k].text>>]) ELSE field[k]
    BY <1>2, <1>3 DEF Evaluated
  <2> QED BY <1>1, <2>1, <2>2
<1> HIDE DEF field, renamed, names, own, combined
<1>4. Evaluated(renamed, combined) = Evaluated(field, own)
  BY <1>2, <1>3 DEF Evaluated
<1> QED BY <1>4 DEF field, renamed, names, own, combined

(* No two slots share a variable of the combined document, whatever names      *)
(* their operations use, and each refers only to variables that the request    *)
(* has (rename_variables, build_connection).                                *)
THEOREM VariablesStayApart ==
  ASSUME NEW specs, BuildConnection(specs) # Null,
         NEW i \in DOMAIN specs, NEW j \in DOMAIN specs, i # j,
         NEW f, NEW g, RefersTo(f, DOMAIN specs[i].variables), RefersTo(g, DOMAIN specs[j].variables),
         NEW k \in Positions(f, {"variable"}), NEW l \in Positions(g, {"variable"})
  PROVE  LET a == RenameVariables(f, i)[k]
             b == RenameVariables(g, j)[l]
         IN  /\ <<a.alias, a.text>> # <<b.alias, b.text>>
             /\ <<a.alias, a.text>> \in DOMAIN BuildConnection(specs).variables
<1>1. k \in DOMAIN f /\ f[k].kind = "variable" /\ l \in DOMAIN g /\ g[l].kind = "variable"
  BY DEF Positions
<1>2. /\ RenameVariables(f, i)[k].alias = i /\ RenameVariables(f, i)[k].text = f[k].text
      /\ f[k].text \in DOMAIN specs[i].variables
  BY <1>1, RenamedToken
<1>3. RenameVariables(g, j)[l].alias = j
  BY <1>1, RenamedToken
<1>4. <<i, f[k].text>> \in UNION {{h} \X DOMAIN specs[h].variables : h \in DOMAIN specs}
  BY <1>2
<1>5. <<i, f[k].text>> \in DOMAIN BuildConnection(specs).variables
  BY <1>4, BuiltOf
<1> QED BY <1>2, <1>3, <1>5

(* The name that is put back into an event is the name of the root field in    *)
(* the slot's own document: renaming leaves it alone (build_connection, and    *)
(* the target by which route delivers).                                     *)
THEOREM TargetIsOwnName ==
  ASSUME NEW specs, BuildConnection(specs) # Null, NEW i \in DOMAIN specs,
         NEW Tokens, Field(specs[i]) \in Seq(Tokens)
  PROVE  BuildConnection(specs).targets[i] = RootFieldName(Field(specs[i]))
<1> DEFINE field   == Field(specs[i])
           renamed == RenameVariables(field, i)
           targets == BuildConnection(specs).targets
           names   == [j \in DOMAIN specs |-> RootFieldName(RenameVariables(Field(specs[j]), j))]
<1>1. targets = names
  BY BuiltOf
<1>2. names[i] = RootFieldName(renamed)
  OBVIOUS
<1>3. RootFieldName(renamed) = RootFieldName(field)
  <2> HIDE DEF field
  <2>1. field \in Seq(Tokens)
    BY DEF field
  <2>2. DOMAIN renamed = DOMAIN field /\ renamed = [k \in DOMAIN field |-> renamed[k]]
    BY DEF RenameVariables
  <2>3. ASSUME 1 \in DOMAIN field
        PROVE  /\ renamed[1].kind = field[1].kind
               /\ field[1].kind = "word" => renamed[1] = field[1]
    BY <2>3 DEF RenameVariables
  <2> HIDE DEF renamed
  <2>4. CASE field = <<>>
    <3>1. DOMAIN renamed = {}
      BY <2>2, <2>4
    <3>2. renamed = <<>>
      BY <2>2, <2>4, <3>1
    <3> QED BY <2>4, <3>2
  <2>5. CASE field # <<>>
    <3>1. 1 \in DOMAIN field
      BY <2>1, <2>5
    <3>2. renamed # <<>>
      BY <2>2, <3>1
    <3>3. CASE field[1].kind = "word"
      <4>1. RootFieldName(field) = field[1].text
        BY <2>5, <3>3, Zenon DEF RootFieldName, Given
      <4>2. renamed[1].kind = "word" /\ renamed[1] = field[1]
        BY <2>3, <3>1, <3>3
      <4>3. RootFieldName(renamed) = renamed[1].text
        BY <3>2, <4>2, Zenon DEF RootFieldName, Given
      <4> QED BY <4>1, <4>2, <4>3
    <3>4. CASE field[1].kind # "word"
      <4>1. RootFieldName(field) = Null
        BY <3>4, Zenon DEF RootFieldName, Given
      <4>2. renamed[1].kind # "word"
        BY <2>3, <3>1, <3>4
      <4>3. RootFieldName(renamed) = Null
        BY <4>2, Zenon DEF RootFieldName, Given
      <4> QED BY <4>1, <4>3
    <3> QED BY <3>3, <3>4
  <2> QED BY <2>4, <2>5
<1> HIDE DEF targets, names
<1>4. targets[i] = RootFieldName(field)
  BY <1>1, <1>2, <1>3
<1> QED BY <1>4 DEF targets

-----------------------------------------------------------------------------
(***************************************************************************)
(* Numbers, and the order of the slots in a document.                      *)
(***************************************************************************)

LEMMA LeastNatural ==
  ASSUME NEW T \in SUBSET Nat, T # {}
  PROVE  \E x \in T : \A y \in T : x <= y
<1> DEFINE R == OpToRel(<, Nat)
<1>1. \A x, y \in Nat : <<y, x>> \in R <=> y < x
  BY DEF OpToRel
<1>2. IsWellFoundedOn(R, Nat)
  BY NatLessThanWellFounded
<1> HIDE DEF R
<1>3. \E x \in T : \A y \in T : ~(<<y, x>> \in R)
  BY <1>2, WFMin
<1>4. \E x \in T : \A y \in T : ~(y < x)
  BY <1>1, <1>3
<1> QED BY <1>4

(* A set of numbers with 1, and with the next of each, has all up to a bound.  *)
LEMMA CountedUp ==
  ASSUME NEW S, NEW n \in Nat, n # 0, 1 \in S,
         \A m \in 1 .. n : m + 1 \in 1 .. n /\ m \in S => m + 1 \in S
  PROVE  \A m \in 1 .. n : m \in S
<1> DEFINE T == {m \in 1 .. n : m \notin S}
<1>1. SUFFICES ASSUME T # {}  PROVE FALSE
  OBVIOUS
<1>2. T \in SUBSET Nat
  OBVIOUS
<1>3. PICK x \in T : \A y \in T : x <= y
  BY <1>1, <1>2, LeastNatural
<1>4. x \in 1 .. n /\ x \notin S /\ x # 1
  BY <1>3
<1>5. x - 1 \in 1 .. n /\ (x - 1) + 1 = x
  BY <1>4
<1>6. x - 1 \notin T
  BY <1>3, <1>4
<1> QED BY <1>4, <1>5, <1>6

LEMMA MinIs ==
  ASSUME NEW S, NEW x \in S, x \in Nat, \A y \in S : y \in Nat /\ x <= y
  PROVE  Min(S) = x
<1>1. x \in S /\ \A y \in S : x =< y
  OBVIOUS
<1> DEFINE m == Min(S)
<1>2. m \in S /\ \A y \in S : m =< y
  BY <1>1 DEF Min
<1> HIDE DEF m
<1>3. m \in Nat /\ m <= x /\ x <= m
  BY <1>2
<1> QED BY <1>3 DEF m

LEMMA MaxIs ==
  ASSUME NEW S, NEW x \in S, x \in Nat, \A y \in S : y \in Nat /\ y <= x
  PROVE  Max(S) = x
<1>1. x \in S /\ \A y \in S : x >= y
  OBVIOUS
<1> DEFINE m == Max(S)
<1>2. m \in S /\ \A y \in S : m >= y
  BY <1>1 DEF Max
<1> HIDE DEF m
<1>3. m \in Nat /\ m <= x /\ x <= m
  BY <1>2
<1> QED BY <1>3 DEF m

(* Each id has its place in the order, and it alone.                         *)
Enumerates(s, n, ids) ==
  /\ s \in [1 .. n -> ids]
  /\ \A k, l \in 1 .. n : k # l => s[k] # s[l]
  /\ \A i \in ids : \E k \in 1 .. n : s[k] = i

LEMMA IdsInOrder ==
  ASSUME NEW ids, IsFiniteSet(ids), ids \subseteq Nat
  PROVE  Cardinality(ids) \in Nat /\ Enumerates(InOrder(ids), Cardinality(ids), ids)
<1> DEFINE n == Cardinality(ids)
           Upto(i) == {j \in ids : j <= i}
           rank == [i \in ids |-> Cardinality(Upto(i))]
           Ordered(s) == \A k, l \in DOMAIN s : k < l => s[k] < s[l]
<1>1. n \in Nat
  BY FS_CardinalityType
<1>2. \A i \in ids : Upto(i) \in SUBSET ids /\ i \in Upto(i) /\ IsFiniteSet(Upto(i))
  <2>1. \A i \in ids : Upto(i) \in SUBSET ids /\ i \in Upto(i)
    OBVIOUS
  <2> HIDE DEF Upto
  <2> QED BY <2>1, FS_Subset
<1>3. \A i, j \in ids : i < j => Upto(i) \in SUBSET Upto(j) /\ Upto(i) # Upto(j)
  <2> SUFFICES ASSUME NEW i \in ids, NEW j \in ids, i < j
               PROVE  Upto(i) \in SUBSET Upto(j) /\ Upto(i) # Upto(j)
    OBVIOUS
  <2>1. i \in Nat /\ j \in Nat
    OBVIOUS
  <2>2. j \in Upto(j) /\ j \notin Upto(i)
    BY <2>1
  <2>3. \A h \in ids : h <= i => h <= j
    BY <2>1
  <2>4. Upto(i) \in SUBSET Upto(j)
    BY <2>3
  <2> QED BY <2>2, <2>4, Zenon
<1>4. \A i \in ids : rank[i] \in 1 .. n
  <2> SUFFICES ASSUME NEW i \in ids  PROVE rank[i] \in 1 .. n
    OBVIOUS
  <2> HIDE DEF Upto
  <2>1. Cardinality(Upto(i)) \in Nat /\ Cardinality(Upto(i)) <= n
    BY <1>2, FS_CardinalityType, FS_Subset
  <2>2. Cardinality(Upto(i)) # 0
    BY <1>2, FS_EmptySet
  <2> QED BY <1>1, <2>1, <2>2
<1>5. \A i, j \in ids : i < j => rank[i] < rank[j]
  <2> SUFFICES ASSUME NEW i \in ids, NEW j \in ids, i < j  PROVE rank[i] < rank[j]
    OBVIOUS
  <2> HIDE DEF Upto
  <2>1. Cardinality(Upto(i)) <= Cardinality(Upto(j)) /\ Cardinality(Upto(i)) # Cardinality(Upto(j))
    BY <1>2, <1>3, FS_Subset
  <2>2. Cardinality(Upto(i)) \in Nat /\ Cardinality(Upto(j)) \in Nat
    BY <1>2, FS_CardinalityType
  <2> QED BY <2>1, <2>2
<1>6. rank \in [ids -> 1 .. n]
  BY <1>4
<1> HIDE DEF n, rank
<1>7. \A i, j \in ids : rank[i] = rank[j] => i = j
  <2> SUFFICES ASSUME NEW i \in ids, NEW j \in ids, i # j  PROVE rank[i] # rank[j]
    OBVIOUS
  <2>1. i < j \/ j < i
    OBVIOUS
  <2>2. rank[i] \in Nat /\ rank[j] \in Nat
    BY <1>6
  <2> QED BY <1>5, <2>1, <2>2
<1>8. rank \in Injection(ids, 1 .. n)
  BY <1>6, <1>7 DEF Injection, IsInjective
<1>9. IsFiniteSet(1 .. n) /\ Cardinality(1 .. n) = n
  BY <1>1, FS_Interval
<1>10. rank \in Surjection(ids, 1 .. n)
  BY <1>8, <1>9, FS_Injection DEF n
<1> DEFINE s == [k \in 1 .. n |-> CHOOSE i \in ids : rank[i] = k]
<1>11. \A k \in 1 .. n : s[k] \in ids /\ rank[s[k]] = k
  BY <1>10 DEF Surjection
<1>12. s \in [1 .. n -> ids] /\ DOMAIN s = 1 .. n
  BY <1>11
<1> HIDE DEF s
<1>13. Ordered(s)
  <2> SUFFICES ASSUME NEW k \in 1 .. n, NEW l \in 1 .. n, k < l  PROVE s[k] < s[l]
    BY <1>12
  <2>0. s[k] \in ids /\ s[l] \in ids
    BY <1>11
  <2>1. s[k] \in Nat /\ s[l] \in Nat
    BY <2>0
  <2>4. k \in Nat /\ l \in Nat
    BY <1>1
  <2>2. s[l] < s[k] => l < k
    BY <1>5, <1>11
  <2>3. s[l] # s[k]
    BY <1>11, <2>4
  <2> QED BY <2>1, <2>2, <2>3, <2>4
<1> DEFINE t == InOrder(ids)
<1>14. t \in [1 .. n -> ids] /\ Ordered(t)
  BY <1>12, <1>13 DEF InOrder, n
<1> HIDE DEF t
<1>15. ASSUME NEW k \in 1 .. n, NEW l \in 1 .. n, k # l  PROVE t[k] # t[l]
  <2>1. k < l \/ l < k
    BY <1>1, <1>15
  <2>2. t[k] \in Nat /\ t[l] \in Nat /\ DOMAIN t = 1 .. n
    BY <1>14
  <2>3. t[k] < t[l] \/ t[l] < t[k]
    BY <1>14, <2>1, <2>2
  <2> QED BY <2>2, <2>3
<1>16. t \in Injection(1 .. n, ids)
  BY <1>14, <1>15 DEF Injection, IsInjective
<1>17. t \in Surjection(1 .. n, ids)
  BY <1>9, <1>16, FS_Injection DEF n
<1> QED BY <1>1, <1>14, <1>15, <1>17 DEF Enumerates, Surjection, t, n

-----------------------------------------------------------------------------
(* Places in a part, in the whole, and in the document.                       *)
LEMMA Places ==
  ASSUME NEW a \in Nat, NEW c, NEW l \in Nat, NEW e \in Nat, c = a + l, c <= e,
         NEW k \in 1 .. l
  PROVE  a + k \in 1 .. e /\ k \in Nat
OBVIOUS

LEMMA Sums ==
  ASSUME NEW x \in Nat, NEW y \in Nat, NEW z \in Nat
  PROVE  x + y + z = x + (y + z) /\ x + (1 + z) = x + 1 + z /\ x + y + (1 + z) = x + y + 1 + z
OBVIOUS

LEMMA Differences ==
  ASSUME NEW x \in Nat, NEW y \in Nat, NEW z \in Nat, NEW p \in Int, p - x = y + z
  PROVE  p = x + y + z
OBVIOUS

LEMMA Spaced ==
  ASSUME NEW a \in Nat, NEW x \in Nat, NEW y \in Nat, NEW z \in Nat, x < y, y <= z,
         NEW l, l = a + z + 1
  PROVE  /\ a + x + 1 \in 1 .. l /\ a + x + 1 \in Nat
         /\ a + x + 1 < a + y + 1 /\ a + y + 1 <= l
OBVIOUS

(***************************************************************************)
(* Sequences one after the other.                                          *)
(***************************************************************************)

Flattening(f, q) == f = [i \in 1 .. Len(q) |-> IF i = 1 THEN q[i] ELSE f[i - 1] \o q[i]]

(* What holds of the first of some sequences, and of what is put together up  *)
(* to each if it held before, holds of all of them put together.             *)
LEMMA FlattenHolds ==
  ASSUME NEW n \in Nat, n # 0, NEW q, Len(q) = n, NEW X, NEW G \in [1 .. n -> SUBSET X],
         q[1] \in G[1],
         \A m \in 1 .. n : m + 1 \in 1 .. n => \A s \in G[m] : s \o q[m + 1] \in G[m + 1]
  PROVE  FlattenSeq(q) \in G[n]
<1> DEFINE Upto(m, f) ==
             /\ f \in [1 .. m -> X] /\ f[1] = q[1] /\ \A i \in 1 .. m : f[i] \in G[i]
             /\ \A i \in 1 .. m : i # 1 => f[i] = f[i - 1] \o q[i]
           S == {m \in 1 .. n : \E f : Upto(m, f)}
           g == CHOOSE f : f = [i \in 1 .. Len(q) |-> IF i = 1 THEN q[i] ELSE f[i - 1] \o q[i]]
<1>1. \A m \in 1 .. n : \A s \in G[m] : s \in X
  OBVIOUS
<1>2. 1 \in S
  <2> DEFINE h == [i \in 1 .. 1 |-> q[1]]
  <2>1. h \in [1 .. 1 -> X] /\ h[1] = q[1] /\ \A i \in 1 .. 1 : i = 1 /\ h[i] \in G[i]
    BY <1>1
  <2>2. Upto(1, h)
    BY <2>1
  <2>3. 1 \in 1 .. n
    OBVIOUS
  <2> HIDE DEF h, Upto
  <2> QED BY <2>2, <2>3
<1>3. ASSUME NEW m \in 1 .. n, m + 1 \in 1 .. n, m \in S  PROVE m + 1 \in S
  <2>1. PICK f : Upto(m, f)
    BY <1>3
  <2> DEFINE last == f[m] \o q[m + 1]
             h == [i \in 1 .. m + 1 |-> IF i = m + 1 THEN last ELSE f[i]]
  <2>2. last \in G[m + 1] /\ last \in X
    BY <1>1, <1>3, <2>1
  <2>3. \A i \in 1 .. m + 1 : i = m + 1 \/ i \in 1 .. m
    BY <1>3
  <2>4. \A i \in 1 .. m : i \in 1 .. m + 1 /\ i # m + 1
    BY <1>3
  <2>5. m + 1 \in 1 .. m + 1 /\ m \in 1 .. m /\ (m + 1) - 1 = m /\ 1 \in 1 .. m
    BY <1>3
  <2> HIDE DEF last
  <2>6. h[m + 1] = last /\ \A i \in 1 .. m : h[i] = f[i]
    BY <2>4, <2>5
  <2>7. DOMAIN h = 1 .. m + 1 /\ h = [i \in 1 .. m + 1 |-> h[i]]
    OBVIOUS
  <2> HIDE DEF h
  <2>8. \A i \in 1 .. m + 1 : h[i] \in G[i] /\ h[i] \in X
    BY <2>1, <2>2, <2>3, <2>6
  <2>9. h \in [1 .. m + 1 -> X]
    BY <2>7, <2>8
  <2>10. ASSUME NEW i \in 1 .. m + 1, i # 1  PROVE h[i] = h[i - 1] \o q[i]
    <3>1. CASE i = m + 1
      BY <2>5, <2>6, <3>1 DEF last
    <3>2. CASE i \in 1 .. m
      <4>1. i - 1 \in 1 .. m
        BY <1>3, <2>10, <3>2
      <4>2. f[i] = f[i - 1] \o q[i]
        BY <2>1, <2>10, <3>2
      <4> QED BY <2>6, <3>2, <4>1, <4>2
    <3> QED BY <2>3, <3>1, <3>2
  <2>11. Upto(m + 1, h)
    BY <2>1, <2>5, <2>6, <2>8, <2>9, <2>10
  <2> QED BY <1>3, <2>11
<1>4. \A m \in 1 .. n : m \in S
  <2> HIDE DEF S
  <2> QED BY <1>2, <1>3, CountedUp
<1>5. PICK f : Upto(n, f)
  <2>1. n \in 1 .. n
    OBVIOUS
  <2> HIDE DEF Upto
  <2> QED BY <1>4, <2>1
<1>6. Flattening(f, q)
  <2>1. f = [i \in 1 .. n |-> f[i]]
    BY <1>5
  <2>2. \A i \in 1 .. n : f[i] = IF i = 1 THEN q[i] ELSE f[i - 1] \o q[i]
    BY <1>5
  <2>3. [i \in 1 .. n |-> f[i]] = [i \in 1 .. n |-> IF i = 1 THEN q[i] ELSE f[i - 1] \o q[i]]
    BY <2>2
  <2> QED BY <2>1, <2>3 DEF Flattening
<1>7. Flattening(g, q)
  BY <1>6 DEF Flattening
<1>8. FlattenSeq(q) = g[n]
  BY DEF FlattenSeq
<1> HIDE DEF g
<1>9. \A i \in 1 .. n : g[i] = IF i = 1 THEN q[i] ELSE g[i - 1] \o q[i]
  BY <1>7 DEF Flattening
<1> DEFINE R == {m \in 1 .. n : g[m] \in G[m]}
<1>10. 1 \in R
  BY <1>9
<1>11. ASSUME NEW m \in 1 .. n, m + 1 \in 1 .. n, m \in R  PROVE m + 1 \in R
  <2>1. m + 1 # 1 /\ (m + 1) - 1 = m
    BY <1>11
  <2>2. g[m + 1] = g[m] \o q[m + 1]
    BY <1>9, <1>11, <2>1
  <2> QED BY <1>11, <2>2
<1>12. \A m \in 1 .. n : m \in R
  <2> HIDE DEF R
  <2> QED BY <1>10, <1>11, CountedUp
<1> QED BY <1>8, <1>12

(* What is put together has each sequence in its place, and nothing else.     *)
Parts(t, q, n, at) ==
  /\ at \in [1 .. n + 1 -> Nat] /\ at[1] = 0
  /\ Len(t) = at[n + 1]
  /\ \A m \in 1 .. n : /\ at[m + 1] = at[m] + Len(q[m])
                       /\ \A k \in 1 .. Len(q[m]) : t[at[m] + k] = q[m][k]
  /\ \A p \in 1 .. at[n + 1] : \E m \in 1 .. n : \E k \in 1 .. Len(q[m]) : p = at[m] + k
  /\ \A l, m \in 1 .. n + 1 : l <= m => at[l] <= at[m]

LEMMA PartsOfOne ==
  ASSUME NEW T, NEW q, q[1] \in Seq(T)
  PROVE  Parts(q[1], q, 1, [m \in 1 .. 2 |-> IF m = 1 THEN 0 ELSE Len(q[1])])
<1> DEFINE at == [m \in 1 .. 2 |-> IF m = 1 THEN 0 ELSE Len(q[1])]
<1>1. Len(q[1]) \in Nat
  OBVIOUS
<1>2. 1 + 1 = 2 /\ (\A m \in 1 .. 1 : m = 1) /\ (\A m \in 1 .. 2 : m = 1 \/ m = 2)
      /\ 1 \in 1 .. 1 /\ 1 \in 1 .. 2 /\ 2 \in 1 .. 2
  OBVIOUS
<1>3. at \in [1 .. 2 -> Nat] /\ at[1] = 0 /\ at[2] = Len(q[1])
  BY <1>1
<1> HIDE DEF at
<1>4. \A k \in 1 .. Len(q[1]) : 0 + k = k
  BY <1>1
<1>5. \A l, m \in 1 .. 2 : l <= m => at[l] <= at[m]
  BY <1>1, <1>2, <1>3
<1>6. \A p \in 1 .. at[2] : \E k \in 1 .. Len(q[1]) : p = at[1] + k
  BY <1>3, <1>4
<1>7. \A k \in 1 .. Len(q[1]) : q[1][at[1] + k] = q[1][k]
  BY <1>3, <1>4
<1>8. at[1 + 1] = at[1] + Len(q[1])
  BY <1>1, <1>3
<1>9. Parts(q[1], q, 1, at)
  <2>1. at \in [1 .. 1 + 1 -> Nat] /\ at[1] = 0 /\ Len(q[1]) = at[1 + 1]
    BY <1>2, <1>3
  <2>2. \A m \in 1 .. 1 : /\ at[m + 1] = at[m] + Len(q[m])
                         /\ \A k \in 1 .. Len(q[m]) : q[1][at[m] + k] = q[m][k]
    <3>1. SUFFICES ASSUME NEW m \in 1 .. 1, m = 1
                   PROVE  /\ at[m + 1] = at[m] + Len(q[m])
                          /\ \A k \in 1 .. Len(q[m]) : q[1][at[m] + k] = q[m][k]
      BY <1>2
    <3> QED BY <1>7, <1>8, <3>1
  <2>3. \A p \in 1 .. at[1 + 1] : \E m \in 1 .. 1 : \E k \in 1 .. Len(q[m]) : p = at[m] + k
    BY <1>2, <1>6
  <2>4. \A l, m \in 1 .. 1 + 1 : l <= m => at[l] <= at[m]
    BY <1>2, <1>5
  <2> QED BY <2>1, <2>2, <2>3, <2>4, Zenon DEF Parts
<1> QED BY <1>9 DEF at

LEMMA PartsOfMore ==
  ASSUME NEW T, NEW m \in Nat, m # 0, NEW q, q[m + 1] \in Seq(T), NEW t \in Seq(T),
         NEW at, Parts(t, q, m, at)
  PROVE  Parts(t \o q[m + 1], q, m + 1,
               [l \in 1 .. m + 2 |-> IF l = m + 2 THEN at[m + 1] + Len(q[m + 1]) ELSE at[l]])
<1> DEFINE last == q[m + 1]
           more == Len(q[m + 1])
           to == [l \in 1 .. m + 2 |-> IF l = m + 2 THEN at[m + 1] + more ELSE at[l]]
           u == t \o q[m + 1]
<1>1. /\ at \in [1 .. m + 1 -> Nat] /\ at[1] = 0 /\ Len(t) = at[m + 1]
      /\ \A l \in 1 .. m : /\ at[l + 1] = at[l] + Len(q[l])
                           /\ \A k \in 1 .. Len(q[l]) : t[at[l] + k] = q[l][k]
      /\ \A p \in 1 .. at[m + 1] : \E l \in 1 .. m : \E k \in 1 .. Len(q[l]) : p = at[l] + k
      /\ \A k, l \in 1 .. m + 1 : k <= l => at[k] <= at[l]
  BY DEF Parts
<1>2. /\ more \in Nat /\ Len(t) \in Nat /\ Len(u) = Len(t) + more
      /\ \A i \in 1 .. Len(t) + more :
           u[i] = IF i <= Len(t) THEN t[i] ELSE q[m + 1][i - Len(t)]
  BY ConcatProperties
<1>3. /\ m + 1 \in 1 .. m + 1 /\ 1 \in 1 .. m + 1 /\ 1 \in 1 .. m + 2 /\ 1 # m + 2
      /\ m + 2 \in 1 .. m + 2 /\ (m + 1) + 1 = m + 2
  OBVIOUS
<1>4. \A l \in 1 .. m + 2 : l = m + 2 \/ l \in 1 .. m + 1
  OBVIOUS
<1>5. \A l \in 1 .. m + 1 : /\ l \in 1 .. m + 2 /\ l # m + 2 /\ l + 1 \in 1 .. m + 2
                            /\ l = m + 1 \/ (l \in 1 .. m /\ l + 1 \in 1 .. m + 1)
  OBVIOUS
<1> HIDE DEF more, u
<1>6. /\ to \in [1 .. m + 2 -> Nat] /\ to[m + 2] = at[m + 1] + more
      /\ \A l \in 1 .. m + 1 : to[l] = at[l]
  BY <1>1, <1>2, <1>3, <1>4, <1>5
<1> HIDE DEF to
<1>7. to[1] = 0 /\ Len(u) = to[m + 2]
  BY <1>1, <1>2, <1>3, <1>6
<1>8. \A k \in 1 .. more : u[at[m + 1] + k] = q[m + 1][k]
  <2> SUFFICES ASSUME NEW k \in 1 .. more  PROVE u[at[m + 1] + k] = q[m + 1][k]
    OBVIOUS
  <2>1. Len(t) + k \in 1 .. Len(t) + more /\ ~(Len(t) + k <= Len(t)) /\ (Len(t) + k) - Len(t) = k
    BY <1>2
  <2> QED BY <1>1, <1>2, <2>1
<1>9. ASSUME NEW l \in 1 .. m, NEW k \in 1 .. Len(q[l])
      PROVE  at[l] + k \in 1 .. Len(t) /\ u[at[l] + k] = q[l][k]
  <2>1. at[l] + k = at[l] + k /\ at[l] \in Nat /\ at[l + 1] \in Nat /\ at[l + 1] = at[l] + Len(q[l])
    BY <1>1, <1>5
  <2>2. at[l + 1] <= at[m + 1]
    BY <1>1, <1>3, <1>5
  <2>3. Len(q[l]) \in Nat
    <3>1. at[l + 1] = at[l] + Len(q[l])
      BY <1>1
    <3>2. k \in 1 .. Len(q[l])
      OBVIOUS
    <3>3. Len(q[l]) \in Int
      BY <2>1, <3>1, <3>2
    <3> QED BY <3>2, <3>3
  <2>0. Len(t) = at[m + 1] /\ at[m + 1] \in Nat
    BY <1>1, <1>3
  <2>4. at[l] + k \in 1 .. Len(t)
    BY <2>0, <2>1, <2>2, <2>3, Places
  <2>5. at[l] + k \in 1 .. Len(t) + more /\ at[l] + k <= Len(t)
    BY <1>2, <2>4
  <2>6. t[at[l] + k] = q[l][k]
    BY <1>1
  <2> QED BY <1>2, <2>4, <2>5, <2>6
<1>10. ASSUME NEW l \in 1 .. m + 1
       PROVE  /\ to[l + 1] = to[l] + Len(q[l])
              /\ \A k \in 1 .. Len(q[l]) : u[to[l] + k] = q[l][k]
  <2>1. CASE l = m + 1
    BY <1>3, <1>6, <1>8, <2>1 DEF more
  <2>2. CASE l \in 1 .. m /\ l + 1 \in 1 .. m + 1
    <3>1. to[l] = at[l] /\ to[l + 1] = at[l + 1]
      BY <1>5, <1>6, <2>2
    <3>2. to[l + 1] = to[l] + Len(q[l])
      BY <1>1, <2>2, <3>1
    <3>3. \A k \in 1 .. Len(q[l]) : u[at[l] + k] = q[l][k]
      BY <1>9, <2>2
    <3> QED BY <3>1, <3>2, <3>3
  <2> QED BY <1>5, <2>1, <2>2
<1>11. ASSUME NEW p \in 1 .. to[m + 2]
       PROVE  \E l \in 1 .. m + 1 : \E k \in 1 .. Len(q[l]) : p = to[l] + k
  <2>1. at[m + 1] \in Nat
    BY <1>1, <1>3
  <2>2. CASE p \in 1 .. at[m + 1]
    <3>1. PICK l \in 1 .. m : \E k \in 1 .. Len(q[l]) : p = at[l] + k
      BY <1>1, <2>2
    <3>2. l \in 1 .. m + 1
      OBVIOUS
    <3> QED BY <1>6, <3>1, <3>2
  <2>3. CASE p - at[m + 1] \in 1 .. more
    <3>1. p = at[m + 1] + (p - at[m + 1])
      BY <1>2, <1>6, <2>1
    <3> QED BY <1>3, <1>6, <2>3, <3>1 DEF more
  <2>4. p \in 1 .. at[m + 1] + more
    BY <1>6
  <2>5. p \in 1 .. at[m + 1] \/ p - at[m + 1] \in 1 .. more
    BY <1>2, <2>1, <2>4
  <2> QED BY <2>2, <2>3, <2>5
<1>12. ASSUME NEW k \in 1 .. m + 2, NEW l \in 1 .. m + 2, k <= l  PROVE to[k] <= to[l]
  <2>1. at[m + 1] \in Nat
    BY <1>1, <1>3
  <2>2. CASE l \in 1 .. m + 1
    <3>1. k \in 1 .. m + 1
      BY <1>12, <2>2
    <3> QED BY <1>1, <1>6, <1>12, <2>2, <3>1
  <2>3. CASE l = m + 2
    <3>1. CASE k = m + 2
      BY <1>6, <2>3, <3>1
    <3>2. CASE k \in 1 .. m + 1
      <4>1. at[k] <= at[m + 1] /\ at[k] \in Nat
        BY <1>1, <1>3, <3>2
      <4> QED BY <1>2, <1>6, <2>1, <2>3, <3>2, <4>1
    <3> QED BY <1>4, <3>1, <3>2
  <2> QED BY <1>4, <2>2, <2>3
<1>13. Parts(u, q, m + 1, to)
  <2>1. to \in [1 .. (m + 1) + 1 -> Nat] /\ to[1] = 0 /\ Len(u) = to[(m + 1) + 1]
    BY <1>3, <1>6, <1>7
  <2>2. \A p \in 1 .. to[(m + 1) + 1] :
          \E l \in 1 .. m + 1 : \E k \in 1 .. Len(q[l]) : p = to[l] + k
    BY <1>3, <1>11
  <2>3. \A k, l \in 1 .. (m + 1) + 1 : k <= l => to[k] <= to[l]
    BY <1>3, <1>12
  <2> QED BY <1>10, <2>1, <2>2, <2>3 DEF Parts
<1> QED BY <1>13 DEF u, to, more

LEMMA FlattenParts ==
  ASSUME NEW n \in Nat, n # 0, NEW T, NEW q \in [1 .. n -> Seq(T)]
  PROVE  FlattenSeq(q) \in Seq(T) /\ \E at : Parts(FlattenSeq(q), q, n, at)
<1> DEFINE G == [m \in 1 .. n |-> {t \in Seq(T) : \E at : Parts(t, q, m, at)}]
<1>1. Len(q) = n /\ \A m \in 1 .. n : q[m] \in Seq(T)
  <2>1. q \in Seq(Seq(T))
    BY SeqDef
  <2> QED BY <2>1
<1>2. G \in [1 .. n -> SUBSET Seq(T)]
  OBVIOUS
<1>3. \A m \in 1 .. n : \A t : t \in G[m] <=> t \in Seq(T) /\ \E at : Parts(t, q, m, at)
  OBVIOUS
<1> HIDE DEF G
<1>4. q[1] \in G[1]
  <2>1. 1 \in 1 .. n /\ q[1] \in Seq(T)
    BY <1>1
  <2> QED BY <1>3, <2>1, PartsOfOne
<1>5. ASSUME NEW m \in 1 .. n, m + 1 \in 1 .. n, NEW s \in G[m]
      PROVE  s \o q[m + 1] \in G[m + 1]
  <2>1. q[m + 1] \in Seq(T) /\ m \in Nat /\ m # 0
    BY <1>1, <1>5
  <2>2. s \in Seq(T) /\ \E at : Parts(s, q, m, at)
    BY <1>3
  <2>3. PICK at : Parts(s, q, m, at)
    BY <2>2
  <2>4. \E to : Parts(s \o q[m + 1], q, m + 1, to)
    BY <2>1, <2>2, <2>3, PartsOfMore
  <2>5. s \o q[m + 1] \in Seq(T)
    BY <2>1, <2>2
  <2> QED BY <1>3, <1>5, <2>4, <2>5
<1>6. FlattenSeq(q) \in G[n]
  BY <1>1, <1>2, <1>4, <1>5, FlattenHolds
<1>7. n \in 1 .. n
  OBVIOUS
<1> QED BY <1>3, <1>6, <1>7

-----------------------------------------------------------------------------
(***************************************************************************)
(* How deep in brackets a text is.                                         *)
(***************************************************************************)

Marks(text, b, k) == {j \in Positions(text, {b}) : j <= k}

LEMMA DepthIs ==
  ASSUME NEW text, NEW k
  PROVE  Depth(text, k) = Cardinality(Marks(text, "(", k)) - Cardinality(Marks(text, ")", k))
BY DEF Depth, Marks

LEMMA MarksAre ==
  ASSUME NEW n \in Nat, NEW text, DOMAIN text = 1 .. n, NEW b, NEW k
  PROVE  /\ \A j : j \in Marks(text, b, k) <=> j \in 1 .. n /\ text[j].kind = b /\ j <= k
         /\ Marks(text, b, k) \in SUBSET (1 .. n) /\ IsFiniteSet(Marks(text, b, k))
         /\ Cardinality(Marks(text, b, k)) \in Nat
<1>1. \A j : j \in Marks(text, b, k) <=> j \in 1 .. n /\ text[j].kind = b /\ j <= k
  BY DEF Marks, Positions
<1>2. Marks(text, b, k) \in SUBSET (1 .. n)
  BY <1>1
<1>3. IsFiniteSet(1 .. n)
  BY FS_Interval
<1>4. IsFiniteSet(Marks(text, b, k))
  BY <1>2, <1>3, FS_Subset
<1> QED BY <1>1, <1>2, <1>4, FS_CardinalityType

(* A text of length l that has another, of length n, behind m of its tokens.   *)
Within(text, l, inner, n, m) ==
  /\ l \in Nat /\ DOMAIN text = 1 .. l /\ n \in Nat /\ DOMAIN inner = 1 .. n
  /\ m \in Nat /\ m + n <= l /\ \A j \in 1 .. n : text[m + j] = inner[j]

(* Marks are counted one after the other.                                    *)
LEMMA MarksFrom ==
  ASSUME NEW text, NEW l, NEW inner, NEW n, NEW m, Within(text, l, inner, n, m),
         NEW b, NEW k \in 0 .. n
  PROVE  Cardinality(Marks(text, b, m + k))
           = Cardinality(Marks(text, b, m)) + Cardinality(Marks(inner, b, k))
<1> DEFINE A == Marks(text, b, m + k)
           B == Marks(text, b, m)
           C == Marks(inner, b, k)
           f == [j \in C |-> m + j]
           D == {m + j : j \in C}
<1>0. /\ l \in Nat /\ DOMAIN text = 1 .. l /\ n \in Nat /\ DOMAIN inner = 1 .. n
      /\ m \in Nat /\ m + n <= l /\ \A j \in 1 .. n : text[m + j] = inner[j]
  BY DEF Within
<1>1. /\ \A j : j \in A <=> j \in 1 .. l /\ text[j].kind = b /\ j <= m + k
      /\ \A j : j \in B <=> j \in 1 .. l /\ text[j].kind = b /\ j <= m
      /\ \A j : j \in C <=> j \in 1 .. n /\ inner[j].kind = b /\ j <= k
      /\ IsFiniteSet(B) /\ Cardinality(B) \in Nat /\ C \in SUBSET (1 .. n)
      /\ IsFiniteSet(C) /\ Cardinality(C) \in Nat
  BY <1>0, MarksAre
<1> HIDE DEF A, B, C
<1>2. \A j \in C : j \in Nat /\ f[j] = m + j
  BY <1>0, <1>1
<1>3. f \in Bijection(C, D)
  <2>1. f \in [C -> D]
    OBVIOUS
  <2>2. \A i, j \in C : f[i] = f[j] => i = j
    BY <1>0, <1>2
  <2>3. \A d \in D : \E j \in C : f[j] = d
    OBVIOUS
  <2> QED BY <2>1, <2>2, <2>3 DEF Bijection, Injection, Surjection, IsInjective
<1>4. IsFiniteSet(D) /\ Cardinality(D) = Cardinality(C)
  <2> HIDE DEF D, f
  <2> QED BY <1>1, <1>3, FS_Bijection DEF ExistsBijection
<1>5. ASSUME NEW j \in A  PROVE j \in B \cup D
  <2>1. j \in 1 .. l /\ text[j].kind = b /\ j <= m + k
    BY <1>1
  <2>2. CASE j <= m
    BY <1>1, <2>1, <2>2
  <2>3. CASE ~(j <= m)
    <3>1. j - m \in 1 .. n /\ m + (j - m) = j /\ j - m <= k
      BY <1>0, <2>1, <2>3
    <3>2. inner[j - m].kind = b
      BY <1>0, <2>1, <3>1
    <3>3. j - m \in C
      BY <1>1, <3>1, <3>2
    <3> QED BY <3>1, <3>3
  <2> QED BY <2>2, <2>3
<1>6. ASSUME NEW j \in C  PROVE m + j \in A /\ m + j \notin B
  <2>1. j \in 1 .. n /\ inner[j].kind = b /\ j <= k
    BY <1>1
  <2>2. m + j \in 1 .. l /\ m + j <= m + k /\ ~(m + j <= m)
    BY <1>0, <2>1
  <2> QED BY <1>0, <1>1, <2>1, <2>2
<1>7. \A j \in B : j \in A
  BY <1>0, <1>1
<1>8. A = B \cup D
  BY <1>5, <1>6, <1>7
<1>9. B \cap D = {}
  BY <1>6
<1> HIDE DEF D
<1>10. Cardinality(B \cup D) = Cardinality(B) + Cardinality(D) - Cardinality(B \cap D)
  BY <1>1, <1>4, FS_Union
<1>11. Cardinality(B \cap D) = 0
  BY <1>9, FS_EmptySet
<1>12. Cardinality(A) = Cardinality(B) + Cardinality(C)
  BY <1>1, <1>4, <1>8, <1>10, <1>11
<1> QED BY <1>12 DEF A, B, C

LEMMA DepthFrom ==
  ASSUME NEW text, NEW l, NEW inner, NEW n, NEW m, Within(text, l, inner, n, m),
         NEW k \in 0 .. n
  PROVE  /\ Depth(text, m) \in Int /\ Depth(inner, k) \in Int
         /\ Depth(text, m + k) = Depth(text, m) + Depth(inner, k)
<1> DEFINE a(b) == Cardinality(Marks(text, b, m + k))
           c(b) == Cardinality(Marks(text, b, m))
           d(b) == Cardinality(Marks(inner, b, k))
<1>1. \A b : a(b) = c(b) + d(b)
  BY MarksFrom
<1>2. \A b : c(b) \in Nat /\ d(b) \in Nat
  BY MarksAre DEF Within
<1>3. /\ Depth(text, m + k) = a("(") - a(")") /\ Depth(text, m) = c("(") - c(")")
      /\ Depth(inner, k) = d("(") - d(")")
  BY DepthIs
<1> HIDE DEF a, c, d
<1>4. /\ a("(") = c("(") + d("(") /\ a(")") = c(")") + d(")")
      /\ c("(") \in Nat /\ c(")") \in Nat /\ d("(") \in Nat /\ d(")") \in Nat
  BY <1>1, <1>2
<1> QED BY <1>3, <1>4

(* A text is nowhere in brackets before the first of them.                    *)
LEMMA DepthOfNone ==
  ASSUME NEW l \in Nat, NEW text, DOMAIN text = 1 .. l, NEW k \in Nat,
         \A j \in 1 .. l : j <= k => text[j].kind \notin {"(", ")"}
  PROVE  Depth(text, k) = 0
<1>1. \A j : j \notin Marks(text, "(", k) /\ j \notin Marks(text, ")", k)
  BY MarksAre
<1>2. Marks(text, "(", k) = {} /\ Marks(text, ")", k) = {}
  BY <1>1
<1>3. Cardinality({}) = 0
  BY FS_EmptySet
<1>4. Depth(text, k) = Cardinality({}) - Cardinality({})
  BY <1>2, DepthIs
<1> QED BY <1>3, <1>4

LEMMA MarksStep ==
  ASSUME NEW l \in Nat, NEW text, DOMAIN text = 1 .. l, NEW k \in Nat, k + 1 \in 1 .. l, NEW b
  PROVE  Cardinality(Marks(text, b, k + 1)) =
           Cardinality(Marks(text, b, k)) + IF text[k + 1].kind = b THEN 1 ELSE 0
<1> DEFINE A == Marks(text, b, k + 1)
           B == Marks(text, b, k)
<1>1. /\ \A j : j \in A <=> j \in 1 .. l /\ text[j].kind = b /\ j <= k + 1
      /\ \A j : j \in B <=> j \in 1 .. l /\ text[j].kind = b /\ j <= k
      /\ IsFiniteSet(B) /\ Cardinality(B) \in Nat
  BY MarksAre
<1> HIDE DEF A, B
<1>2. CASE text[k + 1].kind = b
  <2>1. \A j : j \in A <=> j \in B \/ j = k + 1
    BY <1>1, <1>2
  <2>2. A = B \cup {k + 1} /\ k + 1 \notin B
    BY <1>1, <2>1
  <2>3. Cardinality(A) = Cardinality(B) + 1
    BY <1>1, <2>2, FS_AddElement
  <2> QED BY <1>2, <2>3 DEF A, B
<1>3. CASE text[k + 1].kind # b
  <2>1. \A j : j \in A <=> j \in B
    BY <1>1, <1>3
  <2>2. A = B
    BY <2>1
  <2> QED BY <1>1, <1>3, <2>2 DEF A, B
<1> QED BY <1>2, <1>3

LEMMA DepthStep ==
  ASSUME NEW l \in Nat, NEW text, DOMAIN text = 1 .. l, NEW k \in Nat, k + 1 \in 1 .. l
  PROVE  /\ text[k + 1].kind = "(" => Depth(text, k + 1) = Depth(text, k) + 1
         /\ text[k + 1].kind = ")" => Depth(text, k + 1) = Depth(text, k) - 1
         /\ text[k + 1].kind \notin {"(", ")"} => Depth(text, k + 1) = Depth(text, k)
<1> DEFINE a(b) == Cardinality(Marks(text, b, k + 1))
           c(b) == Cardinality(Marks(text, b, k))
           one(b) == IF text[k + 1].kind = b THEN 1 ELSE 0
<1>1. \A b : a(b) = c(b) + one(b) /\ c(b) \in Nat
  BY MarksStep, MarksAre
<1>2. Depth(text, k + 1) = a("(") - a(")") /\ Depth(text, k) = c("(") - c(")")
  BY DepthIs
<1> HIDE DEF a, c
<1>3. /\ a("(") = c("(") + one("(") /\ a(")") = c(")") + one(")")
      /\ c("(") \in Nat /\ c(")") \in Nat
  BY <1>1
<1> QED BY <1>2, <1>3

LEMMA BalancedJoins ==
  ASSUME NEW T, NEW s \in Seq(T), NEW t \in Seq(T), Balanced(s), Balanced(t)
  PROVE  Balanced(s \o t)
<1> DEFINE u == s \o t
           m == Len(s)
           n == Len(t)
<1>1. /\ m \in Nat /\ n \in Nat /\ Len(u) = m + n /\ u \in Seq(T)
      /\ \A i \in 1 .. m + n : u[i] = IF i <= m THEN s[i] ELSE t[i - m]
  BY ConcatProperties
<1>2. DOMAIN u = 1 .. m + n /\ DOMAIN s = 1 .. m /\ DOMAIN t = 1 .. n
  BY <1>1
<1>3. /\ Depth(s, m) = 0 /\ \A k \in 0 .. m : Depth(s, k) >= 0
      /\ Depth(t, n) = 0 /\ \A k \in 0 .. n : Depth(t, k) >= 0
  BY DEF Balanced
<1> HIDE DEF u, m, n
<1>4. \A j \in 1 .. m : u[0 + j] = s[j]
  BY <1>1
<1>5. \A j \in 1 .. n : u[m + j] = t[j]
  <2> SUFFICES ASSUME NEW j \in 1 .. n  PROVE u[m + j] = t[j]
    OBVIOUS
  <2>1. m + j \in 1 .. m + n /\ ~(m + j <= m) /\ (m + j) - m = j
    BY <1>1
  <2> QED BY <1>1, <2>1
<1>6. Depth(u, 0) = 0
  <2>1. \A j \in 1 .. m + n : j <= 0 => u[j].kind \notin {"(", ")"}
    BY <1>1
  <2>2. m + n \in Nat /\ 0 \in Nat
    BY <1>1
  <2> QED BY <1>2, <2>1, <2>2, DepthOfNone
<1>7. ASSUME NEW k \in 0 .. m  PROVE Depth(u, k) = Depth(s, k)
  <2>1. m + n \in Nat /\ 0 \in Nat /\ 0 + m <= m + n /\ 0 + k = k
    BY <1>1
  <2>3. Within(u, m + n, s, m, 0)
    BY <1>1, <1>2, <1>4, <2>1 DEF Within
  <2>2. Depth(s, k) \in Int /\ Depth(u, 0 + k) = Depth(u, 0) + Depth(s, k)
    BY <2>3, DepthFrom
  <2> QED BY <1>6, <2>1, <2>2
<1>8. ASSUME NEW k \in 0 .. n  PROVE Depth(u, m + k) = Depth(t, k)
  <2>1. m + n \in Nat /\ m + n <= m + n
    BY <1>1
  <2>4. Within(u, m + n, t, n, m)
    BY <1>1, <1>2, <1>5, <2>1 DEF Within
  <2>2. Depth(t, k) \in Int /\ Depth(u, m + k) = Depth(u, m) + Depth(t, k)
    BY <2>4, DepthFrom
  <2>3. Depth(u, m) = 0
    BY <1>1, <1>3, <1>7
  <2> QED BY <2>2, <2>3
<1>9. Depth(u, m + n) = 0
  BY <1>1, <1>3, <1>8
<1>10. ASSUME NEW k \in 0 .. m + n  PROVE Depth(u, k) >= 0
  <2>1. CASE k <= m
    <3>1. k \in 0 .. m
      BY <1>1, <2>1
    <3>2. Depth(u, k) = Depth(s, k) /\ Depth(s, k) >= 0
      BY <1>3, <1>7, <3>1
    <3> QED BY <3>2
  <2>2. CASE ~(k <= m)
    <3>1. k - m \in 0 .. n /\ m + (k - m) = k
      BY <1>1, <2>2
    <3>2. Depth(u, m + (k - m)) = Depth(t, k - m) /\ Depth(t, k - m) >= 0
      BY <1>3, <1>8, <3>1
    <3> QED BY <3>1, <3>2
  <2> QED BY <2>1, <2>2
<1> QED BY <1>1, <1>9, <1>10 DEF Balanced, u

LEMMA BalancedFlatten ==
  ASSUME NEW n \in Nat, n # 0, NEW T, NEW q \in [1 .. n -> Seq(T)],
         \A m \in 1 .. n : Balanced(q[m])
  PROVE  Balanced(FlattenSeq(q))
<1> DEFINE B == {s \in Seq(T) : Balanced(s)}
           G == [m \in 1 .. n |-> B]
<1>1. Len(q) = n /\ \A m \in 1 .. n : q[m] \in Seq(T)
  <2>1. q \in Seq(Seq(T))
    BY SeqDef
  <2> QED BY <2>1
<1>2. \A s, t \in B : s \o t \in B
  BY BalancedJoins, ConcatProperties
<1>3. \A m \in 1 .. n : q[m] \in B
  BY <1>1
<1>4. \A s \in B : Balanced(s)
  OBVIOUS
<1> HIDE DEF B
<1>5. G \in [1 .. n -> SUBSET B] /\ \A m \in 1 .. n : G[m] = B
  OBVIOUS
<1> HIDE DEF G
<1>6. 1 \in 1 .. n /\ n \in 1 .. n
  OBVIOUS
<1>7. q[1] \in G[1]
  BY <1>3, <1>5, <1>6
<1>8. \A m \in 1 .. n : m + 1 \in 1 .. n => \A s \in G[m] : s \o q[m + 1] \in G[m + 1]
  BY <1>2, <1>3, <1>5
<1>9. FlattenSeq(q) \in G[n]
  BY <1>1, <1>5, <1>7, <1>8, FlattenHolds
<1> QED BY <1>4, <1>5, <1>6, <1>9

-----------------------------------------------------------------------------
(***************************************************************************)
(* Operations: where the definitions end, and where the selection begins.   *)
(***************************************************************************)

(* The brackets of a selection.                                               *)
BodyOpens  == "{"
BodyCloses == "}"

LEMMA BodyKinds ==
  /\ BodyOpens # "word" /\ BodyOpens # "(" /\ BodyOpens # ")" /\ BodyOpens # "variable"
  /\ BodyOpens # "alias" /\ BodyOpens # BodyCloses
  /\ BodyCloses # "word" /\ BodyCloses # "(" /\ BodyCloses # ")"
  /\ BodyCloses # "variable" /\ BodyCloses # "alias"
BY Zenon DEF BodyOpens, BodyCloses

LEMMA Kinds ==
  /\ \A b : Bracket(b).kind = b /\ Bracket(b).alias = Null /\ Bracket(b).text = Null
  /\ \A w : Word(w).kind = "word" /\ Word(w).text = w
BY DEF Bracket, Word, Token

LEMMA BodyIs ==
  /\ \A text : SelectionStart(text) =
                Min({i \in Positions(text, {BodyOpens}) : Depth(text, i) = 0})
  /\ \A text, o, inner, b :
       Operation(text, o, inner, b) => /\ text[b].kind = BodyOpens
                                      /\ text[Len(text)].kind = BodyCloses
<1>1. \A text, o, inner, b :
       Operation(text, o, inner, b) => /\ text[b] = Bracket(BodyOpens)
                                      /\ text[Len(text)] = Bracket(BodyCloses)
  BY Zenon DEF Operation, BodyOpens, BodyCloses
<1>2. \A text : SelectionStart(text) =
                Min({i \in Positions(text, {BodyOpens}) : Depth(text, i) = 0})
  BY Zenon DEF SelectionStart, BodyOpens
<1>3. \A text, o, inner, b :
       Operation(text, o, inner, b) => /\ text[b].kind = BodyOpens
                                      /\ text[Len(text)].kind = BodyCloses
  <2> SUFFICES ASSUME NEW text, NEW o, NEW inner, NEW b, Operation(text, o, inner, b)
               PROVE  text[b].kind = BodyOpens /\ text[Len(text)].kind = BodyCloses
    OBVIOUS
  <2>1. text[b] = Bracket(BodyOpens) /\ text[Len(text)] = Bracket(BodyCloses)
    BY <1>1, Zenon
  <2> QED BY <2>1, Kinds
<1> QED BY <1>2, <1>3

LEMMA SplitIs ==
  ASSUME NEW text
  PROVE  LET starts == Positions(text, {"(", BodyOpens})
             start  == Min(starts)
             given  == text[start].kind = "("
             body   == IF given THEN MatchingParen(text, start) + 1 ELSE start
             opens  == {i \in Positions(text, {BodyOpens}) : i >= body}
             closes == Positions(text, {BodyCloses})
         IN  SplitDocument(text) =
               IF /\ text # <<>> /\ text[1] = Word("subscription")
                  /\ starts # {} /\ body > 1 /\ opens # {} /\ closes # {}
                  /\ Min(opens) < Max(closes)
               THEN [definitions |-> IF given THEN SubSeq(text, start + 1, body - 2) ELSE <<>>,
                     field       |-> SubSeq(text, Min(opens) + 1, Max(closes) - 1)]
               ELSE Null
BY Zenon DEF SplitDocument, BodyOpens, BodyCloses

(* The parts of an operation, by what their tokens are.                       *)
Words(text, o) == \A k \in 1 .. o : text[k].kind = "word"
NeverClosed(inner, n) == \A k \in 0 .. n : Depth(inner, k) >= 0
InBrackets(text, l, o, inner, n, b) ==
  /\ b = o + 3 + n
  /\ text[o + 1].kind = "("
  /\ text[b - 1].kind = ")"
  /\ Within(text, l, inner, n, o + 1)
Laid(text, l, o, inner, n, b) ==
  /\ l \in Nat /\ DOMAIN text = 1 .. l /\ n \in Nat /\ DOMAIN inner = 1 .. n
  /\ o \in 1 .. l /\ b \in 1 .. l /\ o < b /\ b < l
  /\ text[b].kind = BodyOpens /\ text[l].kind = BodyCloses /\ Depth(inner, n) = 0
  /\ NeverClosed(inner, n)
  /\ Words(text, o)
  /\ \/ b = o + 1
     \/ InBrackets(text, l, o, inner, n, b)

LEMMA OperationLaid ==
  ASSUME NEW T, NEW text \in Seq(T), NEW S, NEW inner \in Seq(S), NEW o, NEW b,
         Operation(text, o, inner, b)
  PROVE  Laid(text, Len(text), o, inner, Len(inner), b)
<1> DEFINE l == Len(text)
           n == Len(inner)
<1>1. l \in Nat /\ DOMAIN text = 1 .. l /\ n \in Nat /\ DOMAIN inner = 1 .. n
  BY LenProperties
<1>2. /\ o \in 1 .. l /\ b \in 1 .. l
      /\ text[b].kind = BodyOpens /\ text[l].kind = BodyCloses /\ Depth(inner, n) = 0
      /\ NeverClosed(inner, n)
      /\ Words(text, o)
  <2>1. \A i \in {o, b} : i \in DOMAIN text
    BY DEF Operation
  <2>2. Depth(inner, Len(inner)) = 0 /\ NeverClosed(inner, Len(inner)) /\ Words(text, o)
    BY Zenon DEF Operation, Balanced, NeverClosed, Words
  <2> QED BY <1>1, <2>1, <2>2, BodyIs
<1>7. \/ b = o + 1
      \/ /\ text[o + 1].kind = "(" /\ text[b - 1].kind = ")" /\ b = o + 3 + n
         /\ \A k \in 1 .. n : text[o + 1 + k] = inner[k]
  <2>1. \/ b = o + 1
        \/ /\ text[o + 1] = Bracket("(") /\ text[b - 1] = Bracket(")") /\ b = o + 3 + n
           /\ \A k \in DOMAIN inner : text[o + 1 + k] = inner[k]
    BY Zenon DEF Operation
  <2> QED BY <1>1, <2>1, Kinds
<1> HIDE DEF l, n
<1>3. o < b
  BY <1>1, <1>2, <1>7
<1>4. b < l
  <2>1. b # l
    BY <1>2, BodyKinds
  <2> QED BY <1>1, <1>2, <2>1
<1>5. CASE b = o + 1
  BY <1>1, <1>2, <1>3, <1>4, <1>5 DEF Laid, l, n
<1>6. CASE /\ text[o + 1].kind = "(" /\ text[b - 1].kind = ")" /\ b = o + 3 + n
           /\ \A k \in 1 .. n : text[o + 1 + k] = inner[k]
  <2>1. o + 1 \in Nat /\ (o + 1) + n <= l
    BY <1>1, <1>2, <1>4, <1>6
  <2>2. Within(text, l, inner, n, o + 1)
    BY <1>1, <1>6, <2>1 DEF Within
  <2>3. InBrackets(text, l, o, inner, n, b)
    BY <1>6, <2>2 DEF InBrackets
  <2> QED BY <1>1, <1>2, <1>3, <1>4, <2>3 DEF Laid, l, n
<1> QED BY <1>5, <1>6, <1>7

(* Outside of its definitions an operation is not in brackets, inside it is.   *)
Inside(text, o, b) ==
  /\ text[o + 1].kind = "("
  /\ text[b - 1].kind = ")"
  /\ b > o + 2
  /\ Depth(text, b - 1) = 0
  /\ \A k \in o + 1 .. b - 2 : Depth(text, k) >= 1
Deep(text, o, b) ==
  /\ Depth(text, b) = 0
  /\ b # o + 1 => Inside(text, o, b)

LEMMA OperationDeep ==
  ASSUME NEW text, NEW l, NEW o, NEW inner, NEW n, NEW b, Laid(text, l, o, inner, n, b)
  PROVE  Deep(text, o, b)
<1>1. /\ l \in Nat /\ DOMAIN text = 1 .. l /\ n \in Nat /\ DOMAIN inner = 1 .. n
      /\ o \in 1 .. l /\ b \in 1 .. l /\ o < b /\ b < l
      /\ text[b].kind = BodyOpens /\ Depth(inner, n) = 0
      /\ \A k \in 0 .. n : Depth(inner, k) >= 0
  BY DEF Laid, NeverClosed
<1>6. \A k \in 1 .. o : text[k].kind = "word"
  BY DEF Laid, Words
<1>7. b = o + 1 \/ InBrackets(text, l, o, inner, n, b)
  BY DEF Laid
<1>2. ASSUME NEW k \in 0 .. o  PROVE Depth(text, k) = 0
  <2>1. k \in Nat
    BY <1>1
  <2>2. \A j \in 1 .. l : j <= k => text[j].kind \notin {"(", ")"}
    <3> SUFFICES ASSUME NEW j \in 1 .. l, j <= k  PROVE text[j].kind \notin {"(", ")"}
      OBVIOUS
    <3>1. j \in 1 .. o
      BY <1>1
    <3> QED BY <1>6, <3>1
  <2> QED BY <1>1, <2>1, <2>2, DepthOfNone
<1>3. o \in Nat /\ o + 1 \in 1 .. l /\ o \in 0 .. o
  BY <1>1
<1>4. CASE b = o + 1
  <2>1. Depth(text, o + 1) = Depth(text, o)
    BY <1>1, <1>3, <1>4, DepthStep, BodyKinds
  <2> QED BY <1>2, <1>3, <1>4, <2>1 DEF Deep
<1>5. CASE InBrackets(text, l, o, inner, n, b)
  <2>8. /\ b = o + 3 + n /\ text[o + 1].kind = "(" /\ text[b - 1].kind = ")"
        /\ Within(text, l, inner, n, o + 1)
    BY <1>5 DEF InBrackets
  <2>1. Depth(text, o + 1) = 1
    <3>1. Depth(text, o + 1) = Depth(text, o) + 1
      BY <1>1, <1>3, <2>8, DepthStep
    <3> QED BY <1>2, <1>3, <3>1
  <2>2. ASSUME NEW k \in 0 .. n
        PROVE  Depth(text, (o + 1) + k) = 1 + Depth(inner, k) /\ Depth(inner, k) \in Int
    <3>1. /\ Depth(inner, k) \in Int
          /\ Depth(text, (o + 1) + k) = Depth(text, o + 1) + Depth(inner, k)
      BY <2>8, DepthFrom
    <3> QED BY <2>1, <3>1
  <2>3. ASSUME NEW k \in o + 1 .. b - 2  PROVE Depth(text, k) >= 1
    <3>1. k - (o + 1) \in 0 .. n /\ (o + 1) + (k - (o + 1)) = k
      BY <1>1, <2>8
    <3>2. /\ Depth(text, k) = 1 + Depth(inner, k - (o + 1))
          /\ Depth(inner, k - (o + 1)) \in Int /\ Depth(inner, k - (o + 1)) >= 0
      BY <1>1, <2>2, <3>1
    <3> QED BY <3>2
  <2>4. Depth(text, b - 2) = 1
    <3>1. n \in 0 .. n /\ (o + 1) + n = b - 2
      BY <1>1, <2>8
    <3>2. Depth(text, (o + 1) + n) = 1 + Depth(inner, n)
      BY <2>2, <3>1
    <3> QED BY <1>1, <3>1, <3>2
  <2>5. Depth(text, b - 1) = 0
    <3>1. b - 2 \in Nat /\ (b - 2) + 1 = b - 1 /\ b - 1 \in 1 .. l
      BY <1>1, <2>8
    <3>2. Depth(text, b - 1) = Depth(text, b - 2) - 1
      <4>1. (b - 2) + 1 \in 1 .. l /\ text[(b - 2) + 1].kind = ")"
        BY <2>8, <3>1
      <4>2. Depth(text, (b - 2) + 1) = Depth(text, b - 2) - 1
        BY <1>1, <3>1, <4>1, DepthStep
      <4> QED BY <3>1, <4>2
    <3> QED BY <2>4, <3>2
  <2>6. Depth(text, b) = 0
    <3>1. b - 1 \in Nat /\ (b - 1) + 1 = b
      BY <1>1
    <3>2. (b - 1) + 1 \in 1 .. l /\ text[(b - 1) + 1].kind \notin {"(", ")"}
      BY <1>1, <3>1, BodyKinds
    <3>3. Depth(text, (b - 1) + 1) = Depth(text, b - 1)
      BY <1>1, <3>1, <3>2, DepthStep
    <3> QED BY <2>5, <3>1, <3>3
  <2>7. b > o + 2 /\ b # o + 1
    BY <1>1, <2>8
  <2> QED BY <2>3, <2>5, <2>6, <2>7, <2>8 DEF Deep, Inside
<1> QED BY <1>4, <1>5, <1>7

LEMMA SelectionBegins ==
  ASSUME NEW text, NEW l, NEW o, NEW inner, NEW n, NEW b, Laid(text, l, o, inner, n, b)
  PROVE  SelectionStart(text) = b
<1> DEFINE S == {i \in Positions(text, {BodyOpens}) : Depth(text, i) = 0}
<1>1. /\ l \in Nat /\ DOMAIN text = 1 .. l /\ o \in 1 .. l /\ b \in 1 .. l /\ o < b
      /\ text[b].kind = BodyOpens
      /\ \A k \in 1 .. o : text[k].kind = "word"
  BY DEF Laid, Words
<1>2. Depth(text, b) = 0 /\ (b # o + 1 => Inside(text, o, b))
  BY OperationDeep DEF Deep
<1>3. \A i : i \in S <=> i \in 1 .. l /\ text[i].kind = BodyOpens /\ Depth(text, i) = 0
  BY <1>1 DEF Positions
<1> HIDE DEF S
<1>4. b \in S /\ b \in Nat
  BY <1>1, <1>2, <1>3
<1>5. ASSUME NEW i \in S  PROVE i \in Nat /\ b <= i
  <2>1. i \in 1 .. l /\ text[i].kind = BodyOpens /\ Depth(text, i) = 0
    BY <1>3
  <2>2. ~(i <= o)
    BY <1>1, <2>1, BodyKinds
  <2>3. ASSUME i < b  PROVE FALSE
    <3>1. b # o + 1
      BY <1>1, <2>1, <2>2, <2>3
    <3>5. /\ text[o + 1].kind = "(" /\ text[b - 1].kind = ")"
          /\ \A k \in o + 1 .. b - 2 : Depth(text, k) >= 1
      BY <1>2, <3>1 DEF Inside
    <3>2. i # o + 1 /\ i # b - 1
      BY <2>1, <3>5, BodyKinds
    <3>3. i \in o + 1 .. b - 2
      BY <1>1, <2>1, <2>2, <2>3, <3>2
    <3>4. Depth(text, i) >= 1
      BY <3>3, <3>5
    <3> QED BY <2>1, <3>4
  <2> QED BY <1>1, <2>1, <2>3
<1>6. Min(S) = b
  BY <1>4, <1>5, MinIs
<1> QED BY <1>6, BodyIs DEF S

(* matching_paren finds the bracket that closes the definitions.               *)
LEMMA DefinitionsEnd ==
  ASSUME NEW text, NEW l, Len(text) = l, NEW o, NEW inner, NEW n, NEW b,
         Laid(text, l, o, inner, n, b), b # o + 1
  PROVE  MatchingParen(text, o + 1) = b - 1
<1> DEFINE open == o + 1
           closes == Positions(text, {")"})
           depth(i) == Cardinality({j \in open .. i : text[j].kind = "("})
                         - Cardinality({j \in open .. i : j \in closes})
           closing == {i \in open .. Len(text) : depth(i) = 0}
<1>1. /\ l \in Nat /\ DOMAIN text = 1 .. l /\ o \in 1 .. l /\ b \in 1 .. l /\ o < b /\ b < l
      /\ \A k \in 1 .. o : text[k].kind = "word"
  BY DEF Laid, Words
<1>2. /\ b > o + 2 /\ Depth(text, b - 1) = 0
      /\ \A k \in o + 1 .. b - 2 : Depth(text, k) >= 1
  BY OperationDeep DEF Deep, Inside
<1>3. ASSUME NEW i \in open .. l  PROVE depth(i) = Depth(text, i)
  <2>1. \A j : j \in open .. i /\ text[j].kind = "(" <=> j \in Marks(text, "(", i)
    <3>1. \A j : j \in Marks(text, "(", i) <=> j \in 1 .. l /\ text[j].kind = "(" /\ j <= i
      BY <1>1, MarksAre
    <3>2. \A j \in 1 .. l : text[j].kind = "(" => j \in open .. l
      BY <1>1
    <3>3. \A j \in open .. i : j \in 1 .. l /\ j <= i
      BY <1>1
    <3>4. \A j \in open .. l : j <= i => j \in open .. i
      BY <1>1
    <3> QED BY <3>1, <3>2, <3>3, <3>4
  <2>2. \A j : j \in open .. i /\ j \in closes <=> j \in Marks(text, ")", i)
    <3>1. \A j : j \in Marks(text, ")", i) <=> j \in 1 .. l /\ text[j].kind = ")" /\ j <= i
      BY <1>1, MarksAre
    <3>2. \A j \in 1 .. l : text[j].kind = ")" => j \in open .. l
      BY <1>1
    <3>3. \A j \in open .. i : j \in 1 .. l /\ j <= i
      BY <1>1
    <3>4. \A j \in open .. l : j <= i => j \in open .. i
      BY <1>1
    <3>5. \A j : j \in closes <=> j \in 1 .. l /\ text[j].kind = ")"
      BY <1>1 DEF Positions
    <3> HIDE DEF closes
    <3> QED BY <3>1, <3>2, <3>3, <3>4, <3>5
  <2> HIDE DEF open, closes
  <2>3. {j \in open .. i : text[j].kind = "("} = Marks(text, "(", i)
    BY <2>1
  <2>4. {j \in open .. i : j \in closes} = Marks(text, ")", i)
    BY <2>2
  <2> QED BY <2>3, <2>4, DepthIs
<1>4. \A i : i \in closing <=> i \in open .. l /\ Depth(text, i) = 0
  <2> HIDE DEF depth
  <2> QED BY <1>3
<1>5. MatchingParen(text, o + 1) = IF closing = {} THEN 0 ELSE Min(closing)
  BY DEF MatchingParen, Closing
<1> HIDE DEF closing
<1>6. b - 1 \in closing /\ b - 1 \in Nat
  BY <1>1, <1>2, <1>4
<1>7. ASSUME NEW i \in closing  PROVE i \in Nat /\ b - 1 <= i
  <2>1. i \in open .. l /\ Depth(text, i) = 0
    BY <1>4
  <2>2. i \notin o + 1 .. b - 2
    BY <1>2, <2>1
  <2> QED BY <1>1, <2>1, <2>2
<1>8. Min(closing) = b - 1
  BY <1>6, <1>7, MinIs
<1> QED BY <1>5, <1>6, <1>8

(* split_document finds the definitions and the selection.                    *)
LEMMA OperationSplits ==
  ASSUME NEW T, NEW text \in Seq(T), NEW l, Len(text) = l, NEW o, NEW inner, NEW n, NEW b,
         Laid(text, l, o, inner, n, b), text[1] = Word("subscription")
  PROVE  SplitDocument(text) =
           [definitions |-> IF b = o + 1 THEN <<>> ELSE SubSeq(text, o + 2, b - 2),
            field       |-> SubSeq(text, b + 1, l - 1)]
<1> DEFINE starts == Positions(text, {"(", BodyOpens})
           start  == Min(starts)
           given  == text[start].kind = "("
           body   == IF given THEN MatchingParen(text, start) + 1 ELSE start
           opens  == {i \in Positions(text, {BodyOpens}) : i >= body}
           closes == Positions(text, {BodyCloses})
<1>1. /\ l \in Nat /\ DOMAIN text = 1 .. l /\ o \in 1 .. l /\ b \in 1 .. l /\ o < b /\ b < l
      /\ text[b].kind = BodyOpens /\ text[l].kind = BodyCloses
      /\ \A k \in 1 .. o : text[k].kind = "word"
  BY DEF Laid, Words
<1>2. b # o + 1 => text[o + 1].kind = "(" /\ b > o + 2
  BY OperationDeep DEF Deep, Inside
<1>3. SplitDocument(text) =
        IF /\ text # <<>> /\ text[1] = Word("subscription")
           /\ starts # {} /\ body > 1 /\ opens # {} /\ closes # {}
           /\ Min(opens) < Max(closes)
        THEN [definitions |-> IF given THEN SubSeq(text, start + 1, body - 2) ELSE <<>>,
              field       |-> SubSeq(text, Min(opens) + 1, Max(closes) - 1)]
        ELSE Null
  BY SplitIs
<1>4. start = o + 1 /\ starts # {}
  <2>1. \A i : i \in starts <=> i \in 1 .. l /\ text[i].kind \in {"(", BodyOpens}
    BY <1>1 DEF Positions
  <2> HIDE DEF starts
  <2>2. o + 1 \in starts /\ o + 1 \in Nat
    BY <1>1, <1>2, <2>1
  <2>3. ASSUME NEW i \in starts  PROVE i \in Nat /\ o + 1 <= i
    BY <1>1, <2>1, BodyKinds
  <2> QED BY <2>2, <2>3, MinIs
<1>5. given <=> b # o + 1
  <2> HIDE DEF start
  <2> QED BY <1>1, <1>2, <1>4, BodyKinds
<1>6. body = b
  <2>1. CASE b = o + 1
    BY <1>4, <1>5, <2>1
  <2>2. CASE b # o + 1
    <3>1. MatchingParen(text, o + 1) = b - 1
      BY <2>2, DefinitionsEnd
    <3> HIDE DEF start, given
    <3>2. body = MatchingParen(text, o + 1) + 1
      BY <1>4, <1>5, <2>2
    <3> QED BY <1>1, <3>1, <3>2
  <2> QED BY <2>1, <2>2
<1> HIDE DEF starts, start, given, body
<1>7. Min(opens) = b /\ opens # {}
  <2>1. \A i : i \in opens <=> i \in 1 .. l /\ text[i].kind = BodyOpens /\ i >= b
    BY <1>1, <1>6 DEF Positions
  <2> HIDE DEF opens
  <2>2. b \in opens /\ b \in Nat
    BY <1>1, <2>1
  <2>3. \A i \in opens : i \in Nat /\ b <= i
    BY <1>1, <2>1
  <2> QED BY <2>2, <2>3, MinIs
<1>8. Max(closes) = l /\ closes # {}
  <2>1. \A i : i \in closes <=> i \in 1 .. l /\ text[i].kind = BodyCloses
    BY <1>1 DEF Positions
  <2> HIDE DEF closes
  <2>2. l \in closes /\ l \in Nat
    BY <1>1, <2>1
  <2>3. \A i \in closes : i \in Nat /\ i <= l
    BY <1>1, <2>1
  <2> QED BY <2>2, <2>3, MaxIs
<1> HIDE DEF opens, closes
<1>9. text # <<>> /\ body > 1 /\ Min(opens) < Max(closes)
  <2>1. l # 0
    BY <1>1
  <2>2. text # <<>>
    BY <2>1
  <2> QED BY <1>1, <1>6, <1>7, <1>8, <2>2
<1>10. SplitDocument(text) =
         [definitions |-> IF given THEN SubSeq(text, start + 1, body - 2) ELSE <<>>,
          field       |-> SubSeq(text, Min(opens) + 1, Max(closes) - 1)]
  BY <1>3, <1>4, <1>7, <1>8, <1>9
<1>11. start + 1 = o + 2 /\ body - 2 = b - 2 /\ Min(opens) + 1 = b + 1 /\ Max(closes) - 1 = l - 1
  BY <1>1, <1>4, <1>6, <1>7, <1>8
<1> QED BY <1>5, <1>10, <1>11

-----------------------------------------------------------------------------
(***************************************************************************)
(* A document that is well-formed, in its parts.                           *)
(***************************************************************************)

(* Texts without prefixes, and what the ones of a slot refer to.              *)
Unprefixed(text) ==
  /\ \E T : text \in Seq(T)
  /\ Len(text) \in Nat /\ DOMAIN text = 1 .. Len(text)
  /\ \A k \in DOMAIN text : text[k] = Token(text[k].kind, text[k].text) /\ text[k].kind # "alias"
IsVariable(text, k) == k \in DOMAIN text /\ text[k].kind = "variable"
DefinedOnce(definitions) ==
  \A j, k : IsVariable(definitions, j) /\ IsVariable(definitions, k) /\ j # k
              => definitions[j].text # definitions[k].text
Bound(field, definitions, names) ==
  \A j : IsVariable(field, j) =>
    /\ field[j].text \in names
    /\ \E k : IsVariable(definitions, k) /\ definitions[k].text = field[j].text
Apart(spec) ==
  /\ Unprefixed(Definitions(spec)) /\ Balanced(Definitions(spec))
  /\ Unprefixed(Field(spec))
  /\ DefinedOnce(Definitions(spec))
  /\ Bound(Field(spec), Definitions(spec), DOMAIN spec.variables)
  /\ OwnAnswer(spec) = Evaluated(Field(spec), OwnRequest(spec).variables)

(* The text between two positions.                                           *)
Between(s, text, i, j, T) ==
  /\ s \in Seq(T)
  /\ Len(s) = IF i < j THEN (j - i) - 1 ELSE 0
  /\ \A k \in 1 .. Len(s) : s[k] = text[i + k]

LEMMA SubText ==
  ASSUME NEW T, NEW text \in Seq(T), NEW l, Len(text) = l, NEW i \in 1 .. l, NEW j \in 1 .. l
  PROVE  Between(SubSeq(text, i + 1, j - 1), text, i, j, T)
<1> DEFINE s == SubSeq(text, i + 1, j - 1)
<1>1. l \in Nat
  BY LenProperties
<1>2. i + 1 \in Int /\ j - 1 \in Int
  BY <1>1
<1>3. i + 1 >= 1 /\ j - 1 <= l
  BY <1>1
<1>4. \A k \in (i + 1) .. (j - 1) : text[k] \in T
  <2>1. \A k \in 1 .. l : text[k] \in T
    BY ElementOfSeq
  <2> QED BY <1>1, <2>1
<1>5. SubSeq(text, i + 1, j - 1) = [k \in 1 .. (j - 1) - (i + 1) + 1 |-> text[k + (i + 1) - 1]]
  OBVIOUS
<1> DEFINE n == IF i < j THEN (j - i) - 1 ELSE 0
<1>6. n \in Nat /\ 1 .. (j - 1) - (i + 1) + 1 = 1 .. n
  BY <1>1
<1>7. s = [k \in 1 .. n |-> text[k + (i + 1) - 1]]
  BY <1>5, <1>6
<1>8. \A k \in 1 .. n : k + (i + 1) - 1 = i + k /\ k + (i + 1) - 1 \in (i + 1) .. (j - 1)
  BY <1>1
<1> HIDE DEF s, n
<1>9. s \in [1 .. n -> T] /\ \A k \in 1 .. n : s[k] = text[i + k]
  BY <1>4, <1>7, <1>8
<1>10. s \in Seq(T) /\ Len(s) = n
  BY <1>6, <1>9, SeqDef
<1>11. Between(s, text, i, j, T)
  BY <1>9, <1>10 DEF n, Between
<1> QED BY <1>11 DEF s

LEMMA NothingIsEmpty ==
  ASSUME NEW T, NEW s \in Seq(T), Len(s) = 0
  PROVE  s = <<>>
BY EmptySeq

SplitsAt(text, l, o, b) ==
  /\ SplitDocument(text) = [definitions |-> SubSeq(text, o + 2, b - 2),
                            field       |-> SubSeq(text, b + 1, l - 1)]
  /\ Balanced(SubSeq(text, o + 2, b - 2))
  /\ SelectionStart(text) = b
  /\ l \in Nat /\ o \in 1 .. l /\ b \in 1 .. l /\ o < b /\ b < l
  /\ Words(text, o) /\ text[b].kind = BodyOpens
  /\ b # o + 1 => b > o + 2 /\ text[o + 1].kind = "(" /\ text[b - 1].kind = ")"

LEMMA PartsOfOperation ==
  ASSUME NEW T, NEW text \in Seq(T), NEW l, Len(text) = l, NEW o, NEW b,
         Operation(text, o, SubSeq(text, o + 2, b - 2), b), text[1] = Word("subscription")
  PROVE  SplitsAt(text, l, o, b)
<1> DEFINE inner == SubSeq(text, o + 2, b - 2)
           n == Len(inner)
<1>1. o \in 1 .. l /\ b \in 1 .. l /\ l \in Nat
  <2>1. o \in DOMAIN text /\ b \in DOMAIN text
    BY DEF Operation
  <2> QED BY <2>1, LenProperties
<1>2. inner \in Seq(T)
  <2>1. o + 2 \in Int /\ b - 2 \in Int
    BY <1>1
  <2>2. \A k \in (o + 2) .. (b - 2) : text[k] \in T
    <3>1. \A k \in 1 .. l : text[k] \in T
      BY ElementOfSeq
    <3> QED BY <1>1, <3>1
  <2> QED BY <2>1, <2>2, SubSeqProperties
<1>3. Laid(text, l, o, inner, n, b)
  <2> HIDE DEF inner, n
  <2>1. Operation(text, o, inner, b)
    BY DEF inner
  <2> QED BY <1>2, <2>1, OperationLaid DEF n
<1> HIDE DEF n
<1>4. /\ o < b /\ b < l /\ text[b].kind = BodyOpens /\ Words(text, o)
  BY <1>3 DEF Laid
<1>5. b # o + 1 => b > o + 2 /\ text[o + 1].kind = "(" /\ text[b - 1].kind = ")"
  BY <1>3, OperationDeep DEF Deep, Inside
<1>6. SelectionStart(text) = b
  BY <1>3, SelectionBegins
<1>7. SplitDocument(text) =
        [definitions |-> IF b = o + 1 THEN <<>> ELSE inner,
         field       |-> SubSeq(text, b + 1, l - 1)]
  BY <1>3, OperationSplits
<1>8. b = o + 1 => inner = <<>>
  <2> SUFFICES ASSUME b = o + 1  PROVE inner = <<>>
    OBVIOUS
  <2>1. o + 2 \in Int /\ b - 2 \in Int /\ b - 2 < o + 2
    BY <1>1
  <2> QED BY <2>1, SubSeqEmpty
<1>9. Balanced(inner)
  BY DEF Operation
<1> HIDE DEF inner
<1>10. SplitDocument(text) = [definitions |-> inner, field |-> SubSeq(text, b + 1, l - 1)]
  <2>1. CASE b = o + 1
    BY <1>7, <1>8, <2>1
  <2>2. CASE b # o + 1
    BY <1>7, <2>2
  <2> QED BY <2>1, <2>2
<1> QED BY <1>1, <1>4, <1>5, <1>6, <1>9, <1>10 DEF inner, SplitsAt
(* What Blokli asks of the variables of a request.                           *)
Checked(text, b, given) ==
  /\ \A i, j : IsVariable(text, i) /\ IsVariable(text, j) /\ i < j /\ j < b =>
       <<text[i].alias, text[i].text>> # <<text[j].alias, text[j].text>>
  /\ \A j : IsVariable(text, j) /\ j > b =>
       /\ \E i : /\ IsVariable(text, i) /\ i < b
                 /\ <<text[i].alias, text[i].text>> = <<text[j].alias, text[j].text>>
       /\ <<text[j].alias, text[j].text>> \in given

LEMMA AcceptedIs ==
  ASSUME NEW request, NEW text, request.document = text, NEW b, SelectionStart(text) = b,
         NEW given, DOMAIN request.variables = given
  PROVE  Accepts(request) <=> Checked(text, b, given)
<1> DEFINE document == request.document
           body == SelectionStart(document)
           used == Positions(document, {"variable"})
           called(i) == <<document[i].alias, document[i].text>>
           uses == Positions(text, {"variable"})
           name(i) == <<text[i].alias, text[i].text>>
<1>1. Accepts(request) <=>
        /\ \A i, j \in used : i < j /\ j < body => called(i) # called(j)
        /\ \A j \in used : j > body => /\ \E i \in used : i < body /\ called(i) = called(j)
                                       /\ called(j) \in DOMAIN request.variables
  BY DEF Accepts
<1>2. document = text
  OBVIOUS
<1>3. Accepts(request) <=>
        /\ \A i, j \in uses : i < j /\ j < b => name(i) # name(j)
        /\ \A j \in uses : j > b => /\ \E i \in uses : i < b /\ name(i) = name(j)
                                    /\ name(j) \in DOMAIN request.variables
  <2> HIDE DEF document
  <2> QED BY <1>1, <1>2
<1>4. \A i : i \in uses <=> IsVariable(text, i)
  BY DEF Positions, IsVariable
<1> HIDE DEF uses, used, document
<1> QED BY <1>3, <1>4 DEF Checked

LEMMA OwnVariables ==
  ASSUME NEW spec
  PROVE  /\ OwnRequest(spec).document = spec.document
         /\ DOMAIN OwnRequest(spec).variables = {Null} \X DOMAIN spec.variables
BY DEF OwnRequest

LEMMA PartsApart ==
  ASSUME NEW spec, WellFormed(spec), NEW text, spec.document = text, NEW l, Len(text) = l,
         NEW field, Field(spec) = field, NEW definitions, Definitions(spec) = definitions
  PROVE  Apart(spec)
<1> DEFINE T == Range(text)
<1>1. /\ text \in Seq(T) /\ text[1] = Word("subscription")
      /\ \A k \in DOMAIN text : text[k] = Token(text[k].kind, text[k].text) /\ text[k].kind # "alias"
      /\ Accepts(OwnRequest(spec))
  BY DEF WellFormed
<1>2. PICK o \in DOMAIN text :
        \E body \in DOMAIN text : Operation(text, o, SubSeq(text, o + 2, body - 2), body)
  BY DEF WellFormed
<1>3. PICK b \in DOMAIN text : Operation(text, o, SubSeq(text, o + 2, b - 2), b)
  BY <1>2
<1> HIDE DEF T
<1>4. /\ SplitDocument(text) = [definitions |-> SubSeq(text, o + 2, b - 2),
                                field       |-> SubSeq(text, b + 1, l - 1)]
      /\ Balanced(SubSeq(text, o + 2, b - 2))
      /\ SelectionStart(text) = b
      /\ l \in Nat /\ o \in 1 .. l /\ b \in 1 .. l /\ o < b /\ b < l
      /\ Words(text, o) /\ text[b].kind = BodyOpens
      /\ b # o + 1 => b > o + 2 /\ text[o + 1].kind = "(" /\ text[b - 1].kind = ")"
  <2>1. SplitsAt(text, l, o, b)
    <3> HIDE DEF T
    <3> QED BY <1>1, <1>3, PartsOfOperation
  <2> QED BY <2>1 DEF SplitsAt
<1>5. definitions = SubSeq(text, o + 2, b - 2) /\ field = SubSeq(text, b + 1, l - 1)
  BY <1>4 DEF Field, Definitions
<1> DEFINE d == IF o + 1 < b - 1 THEN (b - 1) - (o + 1) - 1 ELSE 0
           f == (l - b) - 1
<1>6. /\ definitions \in Seq(T) /\ Len(definitions) = d /\ DOMAIN definitions = 1 .. d
      /\ \A k \in 1 .. d : definitions[k] = text[o + 1 + k]
  <2>1. o + 1 \in 1 .. l /\ b - 1 \in 1 .. l /\ (o + 1) + 1 = o + 2 /\ (b - 1) - 1 = b - 2
    BY <1>4
  <2>2. /\ definitions \in Seq(T)
        /\ Len(definitions) = d
        /\ \A k \in 1 .. Len(definitions) : definitions[k] = text[o + 1 + k]
    <3>1. Between(SubSeq(text, (o + 1) + 1, (b - 1) - 1), text, o + 1, b - 1, T)
      BY <1>1, <2>1, SubText
    <3>2. Between(definitions, text, o + 1, b - 1, T)
      BY <1>5, <2>1, <3>1
    <3> QED BY <3>2 DEF Between
  <2> QED BY <2>2, LenProperties
<1>7. /\ field \in Seq(T) /\ Len(field) = f /\ DOMAIN field = 1 .. f
      /\ \A k \in 1 .. f : field[k] = text[b + k]
  <2>1. l \in 1 .. l /\ b < l
    BY <1>4
  <2>2. /\ field \in Seq(T)
        /\ Len(field) = f
        /\ \A k \in 1 .. Len(field) : field[k] = text[b + k]
    <3>1. Between(field, text, b, l, T)
      BY <1>1, <1>4, <1>5, <2>1, SubText
    <3> QED BY <2>1, <3>1 DEF Between
  <2> QED BY <2>2, LenProperties
<1>between. l \in Nat /\ o \in Nat /\ b \in Nat /\ 0 < o /\ o < b /\ b < l
  BY <1>4
<1>8. d \in Nat /\ f \in Nat
  BY <1>between
<1>9. DOMAIN text = 1 .. l
  <2> QED BY <1>1, LenProperties
<1>10. ASSUME NEW k \in 1 .. d
       PROVE  o + 1 + k \in 1 .. l /\ o + 1 + k < b
  BY <1>between
<1>11. ASSUME NEW k \in 1 .. f
       PROVE  b + k \in 1 .. l /\ b + k > b
  BY <1>between
<1>12. ASSUME NEW i \in 1 .. l, i < b, text[i].kind = "variable"
       PROVE  i - (o + 1) \in 1 .. d /\ o + 1 + (i - (o + 1)) = i
  <2>1. ~(i <= o)
    BY <1>4, <1>12 DEF Words
  <2>2. b # o + 1
    BY <1>4, <1>12, <2>1
  <2>3. i # o + 1 /\ i # b - 1
    BY <1>4, <1>12, <2>2
  <2>4. i \in Int /\ o \in Int /\ b \in Int /\ i > o + 1 /\ i < b - 1
    BY <1>4, <1>12, <2>1, <2>3
  <2> QED BY <2>4
<1> HIDE DEF d, f
<1>13. Unprefixed(definitions) /\ Unprefixed(field)
  BY <1>1, <1>6, <1>7, <1>8, <1>9, <1>10, <1>11 DEF Unprefixed
<1>14. /\ \A i, j : IsVariable(text, i) /\ IsVariable(text, j) /\ i < j /\ j < b =>
            <<text[i].alias, text[i].text>> # <<text[j].alias, text[j].text>>
       /\ \A j : IsVariable(text, j) /\ j > b =>
            /\ \E i : /\ IsVariable(text, i) /\ i < b
                      /\ <<text[i].alias, text[i].text>> = <<text[j].alias, text[j].text>>
            /\ <<text[j].alias, text[j].text>> \in {Null} \X DOMAIN spec.variables
  <2>1. Checked(text, b, {Null} \X DOMAIN spec.variables)
    BY <1>1, <1>4, AcceptedIs, OwnVariables
  <2> QED BY <2>1 DEF Checked
<1>15. \A k \in 1 .. l : text[k].alias = Null
  <2>1. \A k \in 1 .. l : text[k] = [kind |-> text[k].kind, alias |-> Null, text |-> text[k].text]
    BY <1>1, <1>9, Zenon DEF Token
  <2> QED BY <2>1
<1>16. DefinedOnce(definitions)
  <2>1. SUFFICES ASSUME NEW j, NEW k, IsVariable(definitions, j), IsVariable(definitions, k), j < k
                 PROVE  definitions[j].text # definitions[k].text
    <3>1. \A j, k : IsVariable(definitions, j) /\ IsVariable(definitions, k) /\ j # k
                      => j < k \/ k < j
      BY <1>6, <1>8 DEF IsVariable
    <3> QED BY <3>1 DEF DefinedOnce
  <2>2. j \in 1 .. d /\ k \in 1 .. d /\ definitions[j].kind = "variable"
        /\ definitions[k].kind = "variable"
    BY <1>6, <2>1 DEF IsVariable
  <2>3. /\ IsVariable(text, o + 1 + j) /\ IsVariable(text, o + 1 + k)
        /\ definitions[j] = text[o + 1 + j] /\ definitions[k] = text[o + 1 + k]
        /\ o + 1 + k < b
    BY <1>6, <1>9, <1>10, <2>2 DEF IsVariable
  <2>4. o + 1 + j < o + 1 + k
    BY <1>4, <1>8, <2>1, <2>2
  <2>5. <<text[o + 1 + j].alias, text[o + 1 + j].text>> # <<text[o + 1 + k].alias, text[o + 1 + k].text>>
    BY <1>14, <2>3, <2>4
  <2>6. text[o + 1 + j].alias = Null /\ text[o + 1 + k].alias = Null
    BY <1>10, <1>15, <2>2
  <2> QED BY <2>3, <2>5, <2>6
<1>17. Bound(field, definitions, DOMAIN spec.variables)
  <2>1. SUFFICES ASSUME NEW j, IsVariable(field, j)
                 PROVE  /\ field[j].text \in DOMAIN spec.variables
                        /\ \E k : IsVariable(definitions, k) /\ definitions[k].text = field[j].text
    BY DEF Bound
  <2>2. j \in 1 .. f /\ field[j].kind = "variable"
    BY <1>7, <2>1 DEF IsVariable
  <2>3. IsVariable(text, b + j) /\ b + j > b /\ field[j] = text[b + j] /\ b + j \in 1 .. l
    BY <1>7, <1>9, <1>11, <2>2 DEF IsVariable
  <2>4. PICK i : /\ IsVariable(text, i) /\ i < b
                 /\ <<text[i].alias, text[i].text>> = <<text[b + j].alias, text[b + j].text>>
    BY <1>14, <2>3
  <2>5. <<text[b + j].alias, text[b + j].text>> \in {Null} \X DOMAIN spec.variables
    BY <1>14, <2>3
  <2>6. i \in 1 .. l /\ text[i].kind = "variable" /\ text[i].text = text[b + j].text
    BY <1>9, <2>4 DEF IsVariable
  <2>7. i - (o + 1) \in 1 .. d /\ o + 1 + (i - (o + 1)) = i
    BY <1>12, <2>4, <2>6
  <2>8. definitions[i - (o + 1)] = text[i]
    BY <1>6, <2>7
  <2>9. IsVariable(definitions, i - (o + 1)) /\ definitions[i - (o + 1)].text = field[j].text
    BY <1>6, <2>3, <2>6, <2>7, <2>8 DEF IsVariable
  <2> QED BY <2>3, <2>5, <2>9
<1>18. OwnAnswer(spec) = Evaluated(field, OwnRequest(spec).variables)
  BY <1>4, <1>5 DEF OwnAnswer
<1>19. Balanced(definitions)
  BY <1>4, <1>5
<1> QED BY <1>13, <1>16, <1>17, <1>18, <1>19 DEF Apart

-----------------------------------------------------------------------------
(***************************************************************************)
(* The texts of a combined document.                                       *)
(***************************************************************************)

LEMMA SeqWidens ==
  ASSUME NEW T, NEW U, T \subseteq U, NEW s \in Seq(T)
  PROVE  s \in Seq(U)
<1>1. Len(s) \in Nat /\ s \in [1 .. Len(s) -> T]
  BY LenProperties
<1>2. s \in [1 .. Len(s) -> U]
  BY <1>1
<1> QED BY <1>1, <1>2, SeqDef

LEMMA OneSet ==
  ASSUME NEW n \in Nat, NEW q, q = [m \in 1 .. n |-> q[m]],
         \A m \in 1 .. n : \E T : q[m] \in Seq(T)
  PROVE  \E T : q \in [1 .. n -> Seq(T)]
<1> DEFINE U == UNION {Range(q[m]) : m \in 1 .. n}
<1>1. ASSUME NEW m \in 1 .. n  PROVE q[m] \in Seq(U)
  <2>1. PICK T : q[m] \in Seq(T)
    OBVIOUS
  <2>2. Len(q[m]) \in Nat /\ DOMAIN q[m] = 1 .. Len(q[m]) /\ q[m] \in [1 .. Len(q[m]) -> T]
    BY <2>1, LenProperties
  <2>3. Range(q[m]) \subseteq U
    OBVIOUS
  <2>4. \A k \in 1 .. Len(q[m]) : q[m][k] \in Range(q[m])
    BY <2>2 DEF Range
  <2> HIDE DEF U
  <2>5. q[m] \in [1 .. Len(q[m]) -> U]
    BY <2>2, <2>3, <2>4
  <2> QED BY <2>2, <2>5, SeqDef
<1> HIDE DEF U
<1> QED BY <1>1

(* A text with the prefix of a slot: the same tokens, but for the prefix.      *)
Renames(r, s, i) ==
  /\ Len(s) \in Nat /\ DOMAIN s = 1 .. Len(s)
  /\ Len(r) = Len(s) /\ DOMAIN r = 1 .. Len(s)
  /\ r \in Seq(Range(r))
  /\ \A k \in 1 .. Len(s) : /\ r[k].kind = s[k].kind /\ r[k].kind # "alias"
                            /\ s[k].kind = "variable" => r[k].alias = i /\ r[k].text = s[k].text
  /\ Balanced(s) => Balanced(r)

LEMMA RenamedText ==
  ASSUME NEW s, Unprefixed(s), NEW i
  PROVE  Renames(RenameVariables(s, i), s, i)
<1> DEFINE names == {s[k].text : k \in DOMAIN s}
<1>1. /\ Len(s) \in Nat /\ DOMAIN s = 1 .. Len(s)
      /\ \A k \in DOMAIN s : s[k] = Token(s[k].kind, s[k].text) /\ s[k].kind # "alias"
  BY DEF Unprefixed
<1>2. RefersTo(s, names)
  BY <1>1 DEF RefersTo
<1> HIDE DEF names
<1> DEFINE r == RenameVariables(s, i)
<1>3. ASSUME NEW k \in 1 .. Len(s)
      PROVE  /\ r[k].kind = s[k].kind /\ r[k].text = s[k].text
             /\ s[k].kind = "variable" => r[k].alias = i
  BY <1>1, <1>2, RenamedToken
<1>4. r = [k \in 1 .. Len(s) |-> r[k]] /\ DOMAIN r = 1 .. Len(s)
  BY <1>1 DEF RenameVariables
<1> HIDE DEF r
<1>5. r \in Seq(Range(r)) /\ Len(r) = Len(s)
  <2>1. \A k \in 1 .. Len(s) : r[k] \in Range(r)
    BY <1>4 DEF Range
  <2>2. r \in [1 .. Len(s) -> Range(r)]
    BY <1>4, <2>1
  <2> QED BY <1>1, <2>2, SeqDef
<1>6. \A b : Positions(r, {b}) = Positions(s, {b})
  BY <1>1, <1>3, <1>4 DEF Positions
<1>7. \A k : Depth(r, k) = Depth(s, k)
  <2>1. \A k, b : Marks(r, b, k) = Marks(s, b, k)
    BY <1>6, Zenon DEF Marks
  <2> QED BY <2>1, DepthIs, Zenon
<1>8. Balanced(s) => Balanced(r)
  BY <1>5, <1>7 DEF Balanced
<1>9. Renames(r, s, i)
  BY <1>1, <1>3, <1>4, <1>5, <1>8 DEF Renames
<1> QED BY <1>9 DEF r

(* A root field behind its alias.                                            *)
Aliased(f, r, i) ==
  /\ f \in Seq(Range(f)) /\ Len(f) = 1 + Len(r)
  /\ f[1].kind = "alias" /\ f[1].alias = i
  /\ \A k \in 1 .. Len(r) : f[1 + k] = r[k]

LEMMA AliasedText ==
  ASSUME NEW T, NEW r \in Seq(T), NEW i
  PROVE  Aliased(AliasRootField(r, i), r, i)
<1> DEFINE a == [Token("alias", Null) EXCEPT !.alias = i]
           U == T \cup {a}
           f == <<a>> \o r
<1>1. a.kind = "alias" /\ a.alias = i
  BY DEF Token
<1> HIDE DEF a
<1>2. <<a>> \in Seq(U) /\ Len(<<a>>) = 1 /\ <<a>>[1] = a
  OBVIOUS
<1>3. r \in Seq(U) /\ Len(r) \in Nat
  BY SeqWidens, LenProperties
<1> HIDE DEF U
<1>4. /\ f \in Seq(U) /\ Len(f) = 1 + Len(r)
      /\ \A k \in 1 .. 1 + Len(r) : f[k] = IF k <= 1 THEN <<a>>[k] ELSE r[k - 1]
  BY <1>2, <1>3, ConcatProperties
<1>5. f = AliasRootField(r, i)
  BY DEF AliasRootField, a
<1> HIDE DEF f
<1>6. f[1] = a /\ \A k \in 1 .. Len(r) : f[1 + k] = r[k]
  <2>1. f[1] = a
    BY <1>2, <1>3, <1>4
  <2>2. ASSUME NEW k \in 1 .. Len(r)  PROVE f[1 + k] = r[k]
    <3>1. 1 + k \in 1 .. 1 + Len(r) /\ ~(1 + k <= 1) /\ (1 + k) - 1 = k
      BY <1>3
    <3> QED BY <1>4, <3>1
  <2> QED BY <2>1, <2>2
<1>7. f \in Seq(Range(f))
  <2>1. DOMAIN f = 1 .. Len(f) /\ Len(f) \in Nat /\ f \in [1 .. Len(f) -> U]
    BY <1>4, LenProperties
  <2>2. \A k \in 1 .. Len(f) : f[k] \in Range(f)
    BY <2>1 DEF Range
  <2>3. f \in [1 .. Len(f) -> Range(f)]
    BY <2>1, <2>2
  <2> QED BY <2>1, <2>3, SeqDef
<1>8. Aliased(f, r, i)
  BY <1>1, <1>4, <1>6, <1>7 DEF Aliased
<1> QED BY <1>5, <1>8

-----------------------------------------------------------------------------
(***************************************************************************)
(* The combined document: the texts of the slots, one after the other.      *)
(***************************************************************************)

DefinitionTexts(specs) ==
  [n \in 1 .. Cardinality(DOMAIN specs) |->
     LET i == InOrder(DOMAIN specs)[n] IN RenameVariables(Definitions(specs[i]), i)]
FieldTexts(specs) ==
  [n \in 1 .. Cardinality(DOMAIN specs) |->
     LET i == InOrder(DOMAIN specs)[n]
     IN  AliasRootField(RenameVariables(Field(specs[i]), i), i)]
Joined(definitions, fields) ==
  <<Word("subscription"), Word("BlokliSubscriptions")>>
    \o (IF definitions = <<>> THEN <<>>
        ELSE <<Bracket("(")>> \o definitions \o <<Bracket(")")>>)
    \o <<Bracket(BodyOpens)>> \o fields \o <<Bracket(BodyCloses)>>

LEMMA BuiltDocument ==
  ASSUME NEW specs, BuildConnection(specs) # Null, NEW n, n = Cardinality(DOMAIN specs),
         Enumerates(InOrder(DOMAIN specs), n, DOMAIN specs)
  PROVE  BuildConnection(specs).document =
           Joined(FlattenSeq(DefinitionTexts(specs)), FlattenSeq(FieldTexts(specs)))
<1> DEFINE ids      == InOrder(DOMAIN specs)
           split    == [i \in DOMAIN specs |-> SplitDocument(specs[i].document)]
           field(i) == RenameVariables(split[i].field, i)
           definitions == [m \in DOMAIN ids |->
                            RenameVariables(split[ids[m]].definitions, ids[m])]
           fields   == [m \in DOMAIN ids |-> AliasRootField(field(ids[m]), ids[m])]
<1>1. BuildConnection(specs).document =
        <<Word("subscription"), Word("BlokliSubscriptions")>>
          \o (IF FlattenSeq(definitions) = <<>> THEN <<>>
              ELSE <<Bracket("(")>> \o FlattenSeq(definitions) \o <<Bracket(")")>>)
          \o <<Bracket(BodyOpens)>> \o FlattenSeq(fields) \o <<Bracket(BodyCloses)>>
  BY DEF BuildConnection, BodyOpens, BodyCloses
<1>2. DOMAIN ids = 1 .. n /\ \A m \in 1 .. n : ids[m] \in DOMAIN specs
  BY DEF Enumerates
<1>3. \A i \in DOMAIN specs : /\ split[i].definitions = Definitions(specs[i])
                              /\ split[i].field = Field(specs[i])
  BY DEF Definitions, Field
<1> HIDE DEF ids, split
<1>4. definitions = [m \in 1 .. n |-> RenameVariables(Definitions(specs[ids[m]]), ids[m])]
  BY <1>2, <1>3
<1>5. fields = [m \in 1 .. n |-> AliasRootField(RenameVariables(Field(specs[ids[m]]), ids[m]), ids[m])]
  BY <1>2, <1>3
<1>6. definitions = DefinitionTexts(specs) /\ fields = FieldTexts(specs)
  BY <1>4, <1>5, Zenon DEF DefinitionTexts, FieldTexts, ids
<1> HIDE DEF definitions, fields
<1> QED BY <1>1, <1>6 DEF Joined

(* Where things are in it.                                                  *)
JoinedAt(C, D, F, b) ==
  /\ Len(D) \in Nat /\ Len(F) \in Nat /\ b \in Nat
  /\ b = IF Len(D) = 0 THEN 3 ELSE Len(D) + 5
  /\ Len(C) = b + Len(F) + 1 /\ DOMAIN C = 1 .. b + Len(F) + 1
  /\ C[1].kind = "word" /\ C[2].kind = "word"
  /\ C[b].kind = BodyOpens /\ C[b + Len(F) + 1].kind = BodyCloses
  /\ Len(D) # 0 => C[3].kind = "(" /\ C[Len(D) + 4].kind = ")"
  /\ \A k \in 1 .. Len(D) : C[3 + k] = D[k]
  /\ \A k \in 1 .. Len(F) : C[b + k] = F[k]

(* One text behind another, by its tokens.                                   *)
Appended(u, s, t, U) ==
  /\ u \in Seq(U) /\ Len(u) = Len(s) + Len(t) /\ Len(s) \in Nat /\ Len(t) \in Nat
  /\ \A k \in 1 .. Len(s) : u[k] = s[k]
  /\ \A k \in 1 .. Len(t) : u[Len(s) + k] = t[k]

LEMMA AppendedIs ==
  ASSUME NEW U, NEW s \in Seq(U), NEW t \in Seq(U)
  PROVE  Appended(s \o t, s, t, U)
<1> DEFINE u == s \o t
           m == Len(s)
           n == Len(t)
<1>1. /\ u \in Seq(U) /\ Len(u) = m + n /\ m \in Nat /\ n \in Nat
      /\ \A k \in 1 .. m + n : u[k] = IF k <= m THEN s[k] ELSE t[k - m]
  BY ConcatProperties, LenProperties
<1> HIDE DEF u, m, n
<1>2. \A k \in 1 .. m : k \in 1 .. m + n /\ k <= m
  BY <1>1
<1>3. \A k \in 1 .. n : m + k \in 1 .. m + n /\ ~(m + k <= m) /\ (m + k) - m = k
  BY <1>1
<1>4. \A k \in 1 .. m : u[k] = s[k]
  BY <1>1, <1>2
<1>5. \A k \in 1 .. n : u[m + k] = t[k]
  BY <1>1, <1>3
<1> QED BY <1>1, <1>4, <1>5 DEF Appended, u, m, n

LEMMA JoinedParts ==
  ASSUME NEW U, NEW D \in Seq(U), NEW F \in Seq(U),
         Word("subscription") \in U, Word("BlokliSubscriptions") \in U,
         Bracket("(") \in U, Bracket(")") \in U, Bracket(BodyOpens) \in U, Bracket(BodyCloses) \in U
  PROVE  JoinedAt(Joined(D, F), D, F, IF Len(D) = 0 THEN 3 ELSE Len(D) + 5)
<1> DEFINE head == <<Word("subscription"), Word("BlokliSubscriptions")>>
           lo == <<Bracket("(")>>
           hi == <<Bracket(")")>>
           begin == <<Bracket(BodyOpens)>>
           end == <<Bracket(BodyCloses)>>
           lod == lo \o D
           inner == lod \o hi
           G == IF D = <<>> THEN <<>> ELSE inner
           d == Len(D)
           f == Len(F)
           b == IF d = 0 THEN 3 ELSE d + 5
           c1 == head \o G
           c2 == c1 \o begin
           c3 == c2 \o F
           C == c3 \o end
<1>1. /\ head \in Seq(U) /\ Len(head) = 2 /\ head[1] = Word("subscription")
      /\ head[2] = Word("BlokliSubscriptions")
  OBVIOUS
<1>2. /\ lo \in Seq(U) /\ Len(lo) = 1 /\ lo[1] = Bracket("(")
      /\ hi \in Seq(U) /\ Len(hi) = 1 /\ hi[1] = Bracket(")")
  OBVIOUS
<1>3. /\ begin \in Seq(U) /\ Len(begin) = 1 /\ begin[1] = Bracket(BodyOpens)
      /\ end \in Seq(U) /\ Len(end) = 1 /\ end[1] = Bracket(BodyCloses)
  OBVIOUS
<1>4. d \in Nat /\ f \in Nat /\ (D = <<>> <=> d = 0) /\ <<>> \in Seq(U) /\ Len(<<>>) = 0
  BY LenProperties, EmptySeq
<1>5. C = Joined(D, F)
  BY Zenon DEF Joined
<1> HIDE DEF head, lo, hi, begin, end, d, f
<1>6. Appended(lod, lo, D, U)
  BY <1>2, AppendedIs
<1> HIDE DEF lod
<1>7. Appended(inner, lod, hi, U)
  <2>1. lod \in Seq(U)
    BY <1>6 DEF Appended
  <2> QED BY <1>2, <2>1, AppendedIs
<1> HIDE DEF inner
<1>8. /\ G \in Seq(U) /\ Len(G) = b - 3
      /\ \A k \in 1 .. d : G[1 + k] = D[k]
      /\ d # 0 => G[1] = Bracket("(") /\ G[d + 2] = Bracket(")")
  <2>1. CASE d = 0
    BY <1>4, <2>1
  <2>2. CASE d # 0
    <3>1. G = inner
      BY <1>4, <2>2
    <3>2. /\ Len(lod) = 1 + d /\ lod[1] = Bracket("(") /\ \A k \in 1 .. d : lod[1 + k] = D[k]
      BY <1>2, <1>4, <1>6 DEF Appended, d
    <3>3. /\ inner \in Seq(U) /\ Len(inner) = 2 + d /\ inner[2 + d] = Bracket(")")
          /\ \A k \in 1 .. 1 + d : inner[k] = lod[k]
      BY <1>2, <1>4, <1>7, <3>2 DEF Appended
    <3>4. \A k \in 1 .. d : 1 + k \in 1 .. 1 + d
      BY <1>4
    <3>5. 1 \in 1 .. 1 + d /\ b - 3 = 2 + d /\ d + 2 = 2 + d
      BY <1>4, <2>2
    <3> HIDE DEF G, b
    <3> QED BY <3>1, <3>2, <3>3, <3>4, <3>5
  <2> QED BY <2>1, <2>2
<1>9. b \in Nat /\ b >= 3
  BY <1>4
<1> HIDE DEF G, b
<1>10. Appended(c1, head, G, U)
  BY <1>1, <1>8, AppendedIs
<1> HIDE DEF c1
<1>11. Appended(c2, c1, begin, U)
  <2>1. c1 \in Seq(U)
    BY <1>10 DEF Appended
  <2> QED BY <1>3, <2>1, AppendedIs
<1> HIDE DEF c2
<1>12. Appended(c3, c2, F, U)
  <2>1. c2 \in Seq(U)
    BY <1>11 DEF Appended
  <2> QED BY <2>1, AppendedIs
<1> HIDE DEF c3
<1>13. Appended(C, c3, end, U)
  <2>1. c3 \in Seq(U)
    BY <1>12 DEF Appended
  <2> QED BY <1>3, <2>1, AppendedIs
<1> HIDE DEF C
<1>14. /\ Len(c1) = b - 1 /\ Len(c2) = b /\ Len(c3) = b + f /\ Len(C) = b + f + 1
  BY <1>1, <1>3, <1>4, <1>8, <1>9, <1>10, <1>11, <1>12, <1>13 DEF Appended, f
<1>15. /\ \A k \in 1 .. b + f : C[k] = c3[k]
       /\ C[b + f + 1] = Bracket(BodyCloses)
       /\ C \in Seq(U)
  BY <1>3, <1>13, <1>14 DEF Appended
<1>16. /\ \A k \in 1 .. b : c3[k] = c2[k]
       /\ \A k \in 1 .. f : c3[b + k] = F[k]
  BY <1>12, <1>14 DEF Appended, f
<1>17. /\ \A k \in 1 .. b - 1 : c2[k] = c1[k]
       /\ c2[b] = Bracket(BodyOpens)
  <2>1. /\ \A k \in 1 .. b - 1 : c2[k] = c1[k]
        /\ \A k \in 1 .. 1 : c2[(b - 1) + k] = begin[k]
    BY <1>3, <1>11, <1>14 DEF Appended
  <2>2. (b - 1) + 1 = b /\ 1 \in 1 .. 1
    BY <1>9
  <2>3. c2[(b - 1) + 1] = begin[1]
    BY <2>1, <2>2
  <2> QED BY <1>3, <2>1, <2>2, <2>3
<1>18. /\ c1[1] = head[1] /\ c1[2] = head[2]
       /\ \A k \in 1 .. b - 3 : c1[2 + k] = G[k]
  BY <1>1, <1>8, <1>10 DEF Appended
<1>19. ASSUME NEW k \in 1 .. b - 1  PROVE C[k] = c1[k]
  <2>1. k \in 1 .. b /\ k \in 1 .. b + f
    BY <1>4, <1>9
  <2> QED BY <1>15, <1>16, <1>17, <2>1
<1>20. C[b] = Bracket(BodyOpens)
  <2>1. b \in 1 .. b /\ b \in 1 .. b + f
    BY <1>4, <1>9
  <2> QED BY <1>15, <1>16, <1>17, <2>1
<1>21. \A k \in 1 .. f : C[b + k] = F[k]
  <2>1. \A k \in 1 .. f : b + k \in 1 .. b + f
    BY <1>4, <1>9
  <2> QED BY <1>15, <1>16, <2>1
<1>22. C[1].kind = "word" /\ C[2].kind = "word"
  <2>1. 1 \in 1 .. b - 1 /\ 2 \in 1 .. b - 1
    BY <1>9
  <2> QED BY <1>1, <1>18, <1>19, <2>1, Kinds
<1>23. \A k \in 1 .. d : C[3 + k] = D[k]
  <2> SUFFICES ASSUME NEW k \in 1 .. d  PROVE C[3 + k] = D[k]
    OBVIOUS
  <2>1. b = d + 5
    BY <1>4 DEF b
  <2>2. 3 + k \in 1 .. b - 1 /\ 1 + k \in 1 .. b - 3 /\ 2 + (1 + k) = 3 + k
    BY <1>4, <2>1
  <2> QED BY <1>8, <1>18, <1>19, <2>2
<1>24. d # 0 => C[3].kind = "(" /\ C[d + 4].kind = ")"
  <2> SUFFICES ASSUME d # 0  PROVE C[3].kind = "(" /\ C[d + 4].kind = ")"
    OBVIOUS
  <2>1. b = d + 5
    BY <1>4 DEF b
  <2>2. /\ 3 \in 1 .. b - 1 /\ 1 \in 1 .. b - 3 /\ 2 + 1 = 3
        /\ d + 4 \in 1 .. b - 1 /\ d + 2 \in 1 .. b - 3 /\ 2 + (d + 2) = d + 4
    BY <1>4, <2>1
  <2>3. C[3] = Bracket("(") /\ C[d + 4] = Bracket(")")
    BY <1>8, <1>18, <1>19, <2>2
  <2> QED BY <2>3, Kinds
<1>25. DOMAIN C = 1 .. b + f + 1
  BY <1>14, <1>15, LenProperties
<1>26. C[b].kind = BodyOpens /\ C[b + f + 1].kind = BodyCloses
  BY <1>15, <1>20, Kinds
<1>27. b = IF d = 0 THEN 3 ELSE d + 5
  BY DEF b
<1>28. JoinedAt(C, D, F, b)
  BY <1>4, <1>9, <1>14, <1>21, <1>22, <1>23, <1>24, <1>25, <1>26, <1>27 DEF JoinedAt, d, f
<1> QED BY <1>5, <1>27, <1>28 DEF d

LEMMA JoinedBegins ==
  ASSUME NEW C, NEW D, NEW F, NEW b, JoinedAt(C, D, F, b), Balanced(D), DOMAIN D = 1 .. Len(D)
  PROVE  SelectionStart(C) = b
<1> DEFINE d == Len(D)
           l == Len(C)
<1>1. /\ d \in Nat /\ b \in Nat /\ Len(F) \in Nat /\ b = (IF d = 0 THEN 3 ELSE d + 5)
      /\ l = b + Len(F) + 1 /\ DOMAIN C = 1 .. b + Len(F) + 1
  BY DEF JoinedAt
<1>2. /\ C[1].kind = "word" /\ C[2].kind = "word"
      /\ C[b].kind = BodyOpens /\ C[b + Len(F) + 1].kind = BodyCloses
      /\ d # 0 => C[3].kind = "(" /\ C[d + 4].kind = ")"
  BY DEF JoinedAt
<1>3. \A k \in 1 .. d : C[3 + k] = D[k]
  BY DEF JoinedAt
<1>4. Depth(D, d) = 0 /\ NeverClosed(D, d)
  BY Zenon DEF Balanced, NeverClosed
<1> HIDE DEF d, l
<1>5. Words(C, 2)
  <2>1. \A k \in 1 .. 2 : k = 1 \/ k = 2
    OBVIOUS
  <2> QED BY <1>2, <2>1 DEF Words
<1>6. b = 2 + 1 \/ InBrackets(C, l, 2, D, d, b)
  <2>1. CASE d = 0
    BY <1>1, <2>1
  <2>2. CASE d # 0
    <3>1. b = 2 + 3 + d /\ 2 + 1 = 3 /\ b - 1 = d + 4 /\ 2 + 1 \in Nat /\ (2 + 1) + d <= l /\ l \in Nat
      BY <1>1, <2>2
    <3>2. Within(C, l, D, d, 2 + 1)
      BY <1>1, <1>3, <3>1 DEF Within, d
    <3> QED BY <1>2, <2>2, <3>1, <3>2 DEF InBrackets
  <2> QED BY <2>1, <2>2
<1>7. l \in Nat /\ 2 \in 1 .. l /\ b \in 1 .. l /\ 2 < b /\ b < l
  BY <1>1
<1>8. Laid(C, l, 2, D, d, b)
  BY <1>1, <1>2, <1>4, <1>5, <1>6, <1>7 DEF Laid, d
<1> QED BY <1>8, SelectionBegins

-----------------------------------------------------------------------------
(***************************************************************************)
(* Where the texts of each slot are in the combined document.              *)
(***************************************************************************)

Combinable(specs) ==
  /\ DOMAIN specs \subseteq Nat /\ IsFiniteSet(DOMAIN specs) /\ DOMAIN specs # {}
  /\ BuildConnection(specs) # Null
  /\ \A i \in DOMAIN specs : Apart(specs[i])

(* The texts are those of the slots in their order, each with its prefix.      *)
Texts(D, F, specs, n, ids) ==
  /\ D = [m \in 1 .. n |-> D[m]] /\ F = [m \in 1 .. n |-> F[m]]
  /\ \A m \in 1 .. n :
       /\ Renames(D[m], Definitions(specs[ids[m]]), ids[m])
       /\ Balanced(D[m])
       /\ Renames(RenameVariables(Field(specs[ids[m]]), ids[m]), Field(specs[ids[m]]), ids[m])
       /\ Aliased(F[m], RenameVariables(Field(specs[ids[m]]), ids[m]), ids[m])

LEMMA TextsOfSlots ==
  ASSUME NEW specs, Combinable(specs), NEW n, n = Cardinality(DOMAIN specs),
         NEW ids, ids = InOrder(DOMAIN specs), Enumerates(ids, n, DOMAIN specs)
  PROVE  Texts(DefinitionTexts(specs), FieldTexts(specs), specs, n, ids)
<1> DEFINE D == DefinitionTexts(specs)
           F == FieldTexts(specs)
<1>1. /\ D = [m \in 1 .. n |-> RenameVariables(Definitions(specs[ids[m]]), ids[m])]
      /\ F = [m \in 1 .. n |-> AliasRootField(RenameVariables(Field(specs[ids[m]]), ids[m]), ids[m])]
  BY Zenon DEF DefinitionTexts, FieldTexts
<1> HIDE DEF D, F
<1>2. D = [m \in 1 .. n |-> D[m]] /\ F = [m \in 1 .. n |-> F[m]]
  BY <1>1
<1>3. ASSUME NEW m \in 1 .. n
      PROVE  /\ Renames(D[m], Definitions(specs[ids[m]]), ids[m])
             /\ Balanced(D[m])
             /\ Renames(RenameVariables(Field(specs[ids[m]]), ids[m]), Field(specs[ids[m]]), ids[m])
             /\ Aliased(F[m], RenameVariables(Field(specs[ids[m]]), ids[m]), ids[m])
  <2> DEFINE i == ids[m]
             spec == specs[i]
             r == RenameVariables(Field(spec), i)
  <2>1. i \in DOMAIN specs
    BY DEF Enumerates
  <2>2. Apart(spec)
    BY <2>1 DEF Combinable
  <2>3. D[m] = RenameVariables(Definitions(spec), i) /\ F[m] = AliasRootField(r, i)
    BY <1>1
  <2> HIDE DEF i, spec
  <2>4. Renames(D[m], Definitions(spec), i) /\ Renames(r, Field(spec), i)
    BY <2>2, <2>3, RenamedText DEF Apart
  <2> HIDE DEF r
  <2>5. Balanced(D[m])
    BY <2>2, <2>4 DEF Apart, Renames
  <2>6. Aliased(F[m], r, i)
    <3>1. r \in Seq(Range(r))
      BY <2>4 DEF Renames
    <3> QED BY <2>3, <3>1, AliasedText
  <2> QED BY <2>4, <2>5, <2>6 DEF i, spec, r
<1> QED BY <1>2, <1>3 DEF Texts, D, F

(* The whole, from its texts.                                               *)
Whole(C, b, D, F, n, dat, fat) ==
  /\ SelectionStart(C) = b
  /\ JoinedAt(C, FlattenSeq(D), FlattenSeq(F), b)
  /\ Parts(FlattenSeq(D), D, n, dat)
  /\ Parts(FlattenSeq(F), F, n, fat)

LEMMA WholeOfTexts ==
  ASSUME NEW n \in Nat, n # 0, NEW D, NEW F, NEW specs, NEW ids, Texts(D, F, specs, n, ids)
  PROVE  \E b, dat, fat : Whole(Joined(FlattenSeq(D), FlattenSeq(F)), b, D, F, n, dat, fat)
<1>1. PICK S : D \in [1 .. n -> Seq(S)]
  <2>1. \A m \in 1 .. n : \E T : D[m] \in Seq(T)
    BY DEF Texts, Renames
  <2>2. D = [m \in 1 .. n |-> D[m]]
    BY DEF Texts
  <2> QED BY <2>1, <2>2, OneSet
<1>2. PICK T : F \in [1 .. n -> Seq(T)]
  <2>1. \A m \in 1 .. n : \E U : F[m] \in Seq(U)
    BY DEF Texts, Aliased
  <2>2. F = [m \in 1 .. n |-> F[m]]
    BY DEF Texts
  <2> QED BY <2>1, <2>2, OneSet
<1> DEFINE d == FlattenSeq(D)
           f == FlattenSeq(F)
<1>3. d \in Seq(S) /\ \E at : Parts(d, D, n, at)
  BY <1>1, FlattenParts
<1>4. f \in Seq(T) /\ \E at : Parts(f, F, n, at)
  BY <1>2, FlattenParts
<1>5. Balanced(d)
  <2>1. \A m \in 1 .. n : Balanced(D[m])
    BY DEF Texts
  <2> QED BY <1>1, <2>1, BalancedFlatten
<1> HIDE DEF d, f
<1>6. PICK dat : Parts(d, D, n, dat)
  BY <1>3
<1>7. PICK fat : Parts(f, F, n, fat)
  BY <1>4
<1> DEFINE marks == {Word("subscription"), Word("BlokliSubscriptions"), Bracket("("),
                     Bracket(")"), Bracket(BodyOpens), Bracket(BodyCloses)}
           U == (S \cup T) \cup marks
           b == IF Len(d) = 0 THEN 3 ELSE Len(d) + 5
<1>8. /\ Word("subscription") \in U /\ Word("BlokliSubscriptions") \in U
      /\ Bracket("(") \in U /\ Bracket(")") \in U
      /\ Bracket(BodyOpens) \in U /\ Bracket(BodyCloses) \in U
      /\ S \subseteq U /\ T \subseteq U
  BY Zenon
<1> HIDE DEF U
<1>9. d \in Seq(U) /\ f \in Seq(U)
  BY <1>3, <1>4, <1>8, SeqWidens
<1>10. JoinedAt(Joined(d, f), d, f, b)
  BY <1>8, <1>9, JoinedParts
<1> HIDE DEF b
<1>11. SelectionStart(Joined(d, f)) = b
  <2>1. DOMAIN d = 1 .. Len(d)
    BY <1>3, LenProperties
  <2> QED BY <1>5, <1>10, <2>1, JoinedBegins
<1>12. Whole(Joined(d, f), b, D, F, n, dat, fat)
  BY <1>6, <1>7, <1>10, <1>11 DEF Whole, d, f
<1> QED BY <1>12 DEF d, f

(* The definitions of the slots, and the only variables before the selection.   *)
DefinitionsIn(C, b, specs, n, ids, dat) ==
  /\ \A m \in 1 .. n : \A k \in DOMAIN Definitions(specs[ids[m]]) :
       LET t == Definitions(specs[ids[m]])[k]
       IN  /\ 3 + dat[m] + k \in 1 .. b - 1
           /\ C[3 + dat[m] + k].kind = t.kind
           /\ t.kind = "variable" => /\ C[3 + dat[m] + k].alias = ids[m]
                                     /\ C[3 + dat[m] + k].text = t.text
  /\ \A p \in 1 .. b - 1 :
       /\ C[p].kind # "alias"
       /\ C[p].kind = "variable" => \E m \in 1 .. n : \E k \in DOMAIN Definitions(specs[ids[m]]) :
                                      p = 3 + dat[m] + k

(* The root fields of the slots, each behind its alias, and the only variables  *)
(* and aliases of the selection.                                            *)
FieldsIn(C, b, specs, n, ids, fat) ==
  /\ n \in Nat /\ n # 0 /\ b \in Nat /\ b >= 3
  /\ fat \in [1 .. n + 1 -> Nat]
  /\ Len(C) = b + fat[n + 1] + 1 /\ DOMAIN C = 1 .. Len(C)
  /\ \A l, m \in 1 .. n + 1 : l <= m => fat[l] <= fat[m]
  /\ \A m \in 1 .. n :
       /\ Len(Field(specs[ids[m]])) \in Nat
       /\ DOMAIN Field(specs[ids[m]]) = 1 .. Len(Field(specs[ids[m]]))
       /\ fat[m + 1] = fat[m] + 1 + Len(Field(specs[ids[m]]))
       /\ C[b + fat[m] + 1].kind = "alias" /\ C[b + fat[m] + 1].alias = ids[m]
       /\ \A k \in DOMAIN Field(specs[ids[m]]) :
            C[b + fat[m] + 1 + k] = RenameVariables(Field(specs[ids[m]]), ids[m])[k]
  /\ \A p \in b .. Len(C) :
       /\ C[p].kind = "alias" => \E m \in 1 .. n : p = b + fat[m] + 1
       /\ C[p].kind = "variable" => \E m \in 1 .. n : \E k \in DOMAIN Field(specs[ids[m]]) :
                                      p = b + fat[m] + 1 + k

LEMMA DefinitionsFound ==
  ASSUME NEW n \in Nat, n # 0, NEW C, NEW b, NEW D, NEW F, NEW dat, NEW fat, NEW specs, NEW ids,
         Texts(D, F, specs, n, ids), Whole(C, b, D, F, n, dat, fat)
  PROVE  DefinitionsIn(C, b, specs, n, ids, dat)
<1> DEFINE d == FlattenSeq(D)
           e == Len(d)
<1>1. /\ e \in Nat /\ b \in Nat /\ b = (IF e = 0 THEN 3 ELSE e + 5)
      /\ C[1].kind = "word" /\ C[2].kind = "word"
      /\ e # 0 => C[3].kind = "(" /\ C[e + 4].kind = ")"
      /\ \A k \in 1 .. e : C[3 + k] = d[k]
  BY DEF Whole, JoinedAt
<1>2. /\ dat \in [1 .. n + 1 -> Nat] /\ e = dat[n + 1]
      /\ \A m \in 1 .. n : dat[m + 1] = dat[m] + Len(D[m])
      /\ \A m \in 1 .. n : \A k \in 1 .. Len(D[m]) : d[dat[m] + k] = D[m][k]
  BY DEF Whole, Parts
<1>3. /\ \A p \in 1 .. e : \E m \in 1 .. n : \E k \in 1 .. Len(D[m]) : p = dat[m] + k
      /\ \A l, m \in 1 .. n + 1 : l <= m => dat[l] <= dat[m]
  BY DEF Whole, Parts
<1> HIDE DEF d, e
<1> DEFINE Def(m) == Definitions(specs[ids[m]])
<1>4. ASSUME NEW m \in 1 .. n
      PROVE  /\ Len(D[m]) \in Nat /\ DOMAIN Def(m) = 1 .. Len(D[m])
             /\ \A k \in 1 .. Len(D[m]) :
                  /\ D[m][k].kind = Def(m)[k].kind /\ D[m][k].kind # "alias"
                  /\ Def(m)[k].kind = "variable" => /\ D[m][k].alias = ids[m]
                                                    /\ D[m][k].text = Def(m)[k].text
  <2>1. Renames(D[m], Def(m), ids[m])
    BY DEF Texts
  <2> HIDE DEF Def
  <2> QED BY <2>1 DEF Renames
<1> HIDE DEF Def
<1>5. ASSUME NEW m \in 1 .. n, NEW k \in 1 .. Len(D[m])
      PROVE  /\ dat[m] \in Nat /\ dat[m] + k \in 1 .. e /\ 3 + dat[m] + k \in 1 .. b - 1
             /\ C[3 + dat[m] + k] = D[m][k]
  <2>1. m \in 1 .. n + 1 /\ m + 1 \in 1 .. n + 1 /\ n + 1 \in 1 .. n + 1 /\ m + 1 <= n + 1
    OBVIOUS
  <2>2. dat[m] \in Nat /\ dat[m + 1] \in Nat /\ dat[m + 1] <= e /\ dat[m + 1] = dat[m] + Len(D[m])
    BY <1>2, <1>3, <2>1
  <2>3. Len(D[m]) \in Nat /\ k \in Nat /\ 1 <= k /\ k <= Len(D[m])
    BY <1>4
  <2>4. dat[m] + k \in 1 .. e
    BY <1>1, <2>2, <2>3, Places
  <2>5. 3 + dat[m] + k = 3 + (dat[m] + k) /\ 3 + dat[m] + k \in 1 .. b - 1
    <3>1. 3 + dat[m] + k = 3 + (dat[m] + k)
      BY <2>2, <2>3, Sums
    <3>2. b = e + 5
      BY <1>1, <2>4
    <3>3. \A x \in 1 .. e : 3 + x \in 1 .. b - 1
      BY <1>1, <3>2
    <3> QED BY <2>4, <3>1, <3>3
  <2>6. C[3 + (dat[m] + k)] = d[dat[m] + k] /\ d[dat[m] + k] = D[m][k]
    BY <1>1, <1>2, <2>4
  <2> QED BY <2>2, <2>4, <2>5, <2>6
<1>6. ASSUME NEW m \in 1 .. n, NEW k \in DOMAIN Def(m)
      PROVE  /\ 3 + dat[m] + k \in 1 .. b - 1
             /\ C[3 + dat[m] + k].kind = Def(m)[k].kind
             /\ Def(m)[k].kind = "variable" => /\ C[3 + dat[m] + k].alias = ids[m]
                                               /\ C[3 + dat[m] + k].text = Def(m)[k].text
  <2>1. k \in 1 .. Len(D[m])
    BY <1>4
  <2>2. 3 + dat[m] + k \in 1 .. b - 1 /\ C[3 + dat[m] + k] = D[m][k]
    BY <1>5, <2>1
  <2> QED BY <1>4, <2>1, <2>2
<1>7. ASSUME NEW p \in 1 .. b - 1
      PROVE  /\ C[p].kind # "alias"
             /\ C[p].kind = "variable" => \E m \in 1 .. n : \E k \in DOMAIN Def(m) : p = 3 + dat[m] + k
  <2>1. CASE p - 3 \in 1 .. e
    <3>1. PICK m \in 1 .. n : \E k \in 1 .. Len(D[m]) : p - 3 = dat[m] + k
      BY <1>3, <2>1
    <3>2. PICK k \in 1 .. Len(D[m]) : p - 3 = dat[m] + k
      BY <3>1
    <3>3. dat[m] \in Nat /\ C[3 + dat[m] + k] = D[m][k] /\ k \in DOMAIN Def(m) /\ D[m][k].kind # "alias"
      BY <1>4, <1>5
    <3>4. p = 3 + dat[m] + k
      <4>1. k \in Nat
        BY <1>4
      <4>2. p \in Int /\ 3 \in Nat
        BY <1>1
      <4>3. dat[m] \in Nat
        BY <3>3
      <4> HIDE DEF Def
      <4> QED BY <3>2, <4>1, <4>2, <4>3, Differences
    <3> QED BY <3>3, <3>4
  <2>2. CASE p - 3 \notin 1 .. e
    <3>1. p = 1 \/ p = 2 \/ (e # 0 /\ (p = 3 \/ p = e + 4))
      <4>1. CASE e = 0
        BY <1>1, <4>1
      <4>2. CASE e # 0
        BY <1>1, <2>2, <4>2
      <4> QED BY <4>1, <4>2
    <3>2. C[p].kind \in {"word", "(", ")"}
      BY <1>1, <3>1
    <3> QED BY <3>2
  <2> QED BY <2>1, <2>2
<1> QED BY <1>6, <1>7, Zenon DEF DefinitionsIn, Def

LEMMA FieldsFound ==
  ASSUME NEW n \in Nat, n # 0, NEW C, NEW b, NEW D, NEW F, NEW dat, NEW fat, NEW specs, NEW ids,
         Texts(D, F, specs, n, ids), Whole(C, b, D, F, n, dat, fat)
  PROVE  FieldsIn(C, b, specs, n, ids, fat)
<1> DEFINE f == FlattenSeq(F)
           e == Len(f)
<1>1. /\ e \in Nat /\ b \in Nat /\ b >= 3
      /\ Len(C) = b + e + 1 /\ DOMAIN C = 1 .. Len(C)
      /\ C[b].kind = BodyOpens /\ C[b + e + 1].kind = BodyCloses
      /\ \A k \in 1 .. e : C[b + k] = f[k]
  BY DEF Whole, JoinedAt
<1>2. /\ fat \in [1 .. n + 1 -> Nat] /\ e = fat[n + 1]
      /\ \A m \in 1 .. n : fat[m + 1] = fat[m] + Len(F[m])
      /\ \A m \in 1 .. n : \A k \in 1 .. Len(F[m]) : f[fat[m] + k] = F[m][k]
  BY DEF Whole, Parts
<1>3. /\ \A p \in 1 .. e : \E m \in 1 .. n : \E k \in 1 .. Len(F[m]) : p = fat[m] + k
      /\ \A l, m \in 1 .. n + 1 : l <= m => fat[l] <= fat[m]
  BY DEF Whole, Parts
<1> HIDE DEF f, e
<1> DEFINE Own(m) == Field(specs[ids[m]])
           Ren(m) == RenameVariables(Own(m), ids[m])
<1>4. ASSUME NEW m \in 1 .. n
      PROVE  /\ Len(Own(m)) \in Nat /\ DOMAIN Own(m) = 1 .. Len(Own(m))
             /\ Len(F[m]) = 1 + Len(Own(m))
             /\ F[m][1].kind = "alias" /\ F[m][1].alias = ids[m]
             /\ \A k \in 1 .. Len(Own(m)) : /\ F[m][1 + k] = Ren(m)[k]
                                            /\ Ren(m)[k].kind # "alias"
  <2>1. Renames(Ren(m), Own(m), ids[m]) /\ Aliased(F[m], Ren(m), ids[m])
    BY DEF Texts
  <2> HIDE DEF Own, Ren
  <2> QED BY <2>1 DEF Renames, Aliased
<1> HIDE DEF Own, Ren
<1>5. ASSUME NEW m \in 1 .. n, NEW k \in 1 .. Len(F[m])
      PROVE  fat[m] \in Nat /\ k \in Nat /\ C[b + fat[m] + k] = F[m][k]
  <2>1. m \in 1 .. n + 1 /\ m + 1 \in 1 .. n + 1 /\ n + 1 \in 1 .. n + 1 /\ m + 1 <= n + 1
    OBVIOUS
  <2>2. fat[m] \in Nat /\ fat[m + 1] \in Nat /\ fat[m + 1] <= e /\ fat[m + 1] = fat[m] + Len(F[m])
    BY <1>2, <1>3, <2>1
  <2>3. Len(F[m]) \in Nat /\ k \in Nat /\ 1 <= k /\ k <= Len(F[m])
    BY <1>4
  <2>4. fat[m] + k \in 1 .. e
    BY <1>1, <2>2, <2>3, Places
  <2>5. b + fat[m] + k = b + (fat[m] + k)
    BY <1>1, <2>2, <2>3
  <2>6. C[b + (fat[m] + k)] = f[fat[m] + k] /\ f[fat[m] + k] = F[m][k]
    BY <1>1, <1>2, <2>4
  <2> QED BY <2>2, <2>3, <2>5, <2>6
<1>6. ASSUME NEW m \in 1 .. n
      PROVE  /\ fat[m + 1] = fat[m] + 1 + Len(Own(m))
             /\ C[b + fat[m] + 1].kind = "alias" /\ C[b + fat[m] + 1].alias = ids[m]
             /\ \A k \in DOMAIN Own(m) : C[b + fat[m] + 1 + k] = Ren(m)[k]
  <2>1. 1 \in 1 .. Len(F[m]) /\ \A k \in 1 .. Len(Own(m)) : 1 + k \in 1 .. Len(F[m])
    BY <1>4
  <2>2. fat[m] \in Nat /\ fat[m + 1] = fat[m] + Len(F[m])
    BY <1>2, <1>5, <2>1
  <2>3. fat[m + 1] = fat[m] + 1 + Len(Own(m))
    <3>1. Len(Own(m)) \in Nat /\ fat[m + 1] = fat[m] + (1 + Len(Own(m)))
      BY <1>4, <2>2
    <3>2. fat[m] + (1 + Len(Own(m))) = fat[m] + 1 + Len(Own(m))
      BY <2>2, <3>1, Sums
    <3> QED BY <3>1, <3>2
  <2>4. C[b + fat[m] + 1] = F[m][1]
    BY <1>5, <2>1
  <2>5. ASSUME NEW k \in DOMAIN Own(m)  PROVE C[b + fat[m] + 1 + k] = Ren(m)[k]
    <3>1. k \in 1 .. Len(Own(m)) /\ k \in Nat
      BY <1>4
    <3>2. C[b + fat[m] + (1 + k)] = F[m][1 + k]
      BY <1>5, <2>1, <3>1
    <3>3. b + fat[m] + (1 + k) = b + fat[m] + 1 + k
      <4>1. b \in Nat
        BY <1>1
      <4>2. fat[m] \in Nat
        BY <2>2
      <4>3. k \in Nat
        BY <3>1
      <4> QED BY <4>1, <4>2, <4>3, Sums
    <3> QED BY <1>4, <3>1, <3>2, <3>3
  <2> QED BY <1>4, <2>3, <2>4, <2>5
<1>7. ASSUME NEW p \in b .. Len(C)
      PROVE  /\ C[p].kind = "alias" => \E m \in 1 .. n : p = b + fat[m] + 1
             /\ C[p].kind = "variable" =>
                  \E m \in 1 .. n : \E k \in DOMAIN Own(m) : p = b + fat[m] + 1 + k
  <2>1. CASE p - b \in 1 .. e
    <3>1. PICK m \in 1 .. n : \E k \in 1 .. Len(F[m]) : p - b = fat[m] + k
      BY <1>3, <2>1
    <3>2. PICK k \in 1 .. Len(F[m]) : p - b = fat[m] + k
      BY <3>1
    <3>3. fat[m] \in Nat /\ k \in Nat /\ C[b + fat[m] + k] = F[m][k]
      BY <1>5
    <3>4. p = b + fat[m] + k
      BY <1>1, <3>2, <3>3
    <3>5. CASE k = 1
      <4>1. p = b + fat[m] + 1 /\ C[p] = F[m][1]
        BY <3>3, <3>4, <3>5
      <4>2. C[p].kind = "alias"
        BY <1>4, <4>1
      <4> QED BY <4>1, <4>2
    <3>6. CASE k # 1
      <4>1. k - 1 \in 1 .. Len(Own(m)) /\ 1 + (k - 1) = k
        BY <1>4, <3>3, <3>6
      <4>2. k - 1 \in DOMAIN Own(m) /\ F[m][k] = Ren(m)[k - 1] /\ Ren(m)[k - 1].kind # "alias"
        BY <1>4, <4>1
      <4>3. p = b + fat[m] + 1 + (k - 1)
        BY <1>1, <3>3, <3>4
      <4> QED BY <3>3, <3>4, <4>2, <4>3
    <3> QED BY <3>5, <3>6
  <2>2. CASE p - b \notin 1 .. e
    <3>1. p = b \/ p = b + e + 1
      BY <1>1, <2>2
    <3>2. C[p].kind # "alias" /\ C[p].kind # "variable"
      BY <1>1, <3>1, BodyKinds
    <3> QED BY <3>2
  <2> QED BY <2>1, <2>2
<1> QED BY <1>1, <1>2, <1>3, <1>4, <1>6, <1>7 DEF FieldsIn, Own, Ren

Located(C, specs, n, ids, b, dat, fat) ==
  /\ Enumerates(ids, n, DOMAIN specs)
  /\ SelectionStart(C) = b
  /\ DefinitionsIn(C, b, specs, n, ids, dat)
  /\ FieldsIn(C, b, specs, n, ids, fat)

LEMMA CombinedText ==
  ASSUME NEW specs, Combinable(specs)
  PROVE  \E n, ids, b, dat, fat :
           Located(BuildConnection(specs).document, specs, n, ids, b, dat, fat)
<1> DEFINE n == Cardinality(DOMAIN specs)
           ids == InOrder(DOMAIN specs)
           D == DefinitionTexts(specs)
           F == FieldTexts(specs)
           C == BuildConnection(specs).document
<1>1. DOMAIN specs \subseteq Nat /\ IsFiniteSet(DOMAIN specs) /\ DOMAIN specs # {}
      /\ BuildConnection(specs) # Null
  BY DEF Combinable
<1>2. n \in Nat /\ Enumerates(ids, n, DOMAIN specs)
  BY <1>1, IdsInOrder
<1>3. n # 0
  BY <1>1, FS_EmptySet
<1>4. C = Joined(FlattenSeq(D), FlattenSeq(F))
  BY <1>1, <1>2, BuiltDocument
<1>5. Texts(D, F, specs, n, ids)
  BY <1>2, TextsOfSlots
<1> HIDE DEF n, ids, D, F, C
<1>6. PICK b, dat, fat : Whole(C, b, D, F, n, dat, fat)
  BY <1>2, <1>3, <1>4, <1>5, WholeOfTexts
<1>7. DefinitionsIn(C, b, specs, n, ids, dat)
  BY <1>2, <1>3, <1>5, <1>6, DefinitionsFound
<1>8. FieldsIn(C, b, specs, n, ids, fat)
  BY <1>2, <1>3, <1>5, <1>6, FieldsFound
<1>9. SelectionStart(C) = b
  BY <1>6 DEF Whole
<1>10. Located(C, specs, n, ids, b, dat, fat)
  BY <1>2, <1>7, <1>8, <1>9 DEF Located
<1> QED BY <1>10 DEF C

(* What is in the root field of a slot.                                      *)
LEMMA FieldTokens ==
  ASSUME NEW spec, Apart(spec), NEW i, NEW k \in DOMAIN Field(spec)
  PROVE  LET r == RenameVariables(Field(spec), i)
         IN  /\ r[k].kind = Field(spec)[k].kind /\ r[k].kind # "alias"
             /\ r[k].kind = "variable" => r[k].alias = i /\ r[k].text = Field(spec)[k].text
<1> DEFINE s == Field(spec)
           r == RenameVariables(s, i)
<1>1. Renames(r, s, i)
  BY RenamedText DEF Apart
<1> HIDE DEF s, r
<1>2. k \in 1 .. Len(s)
  BY <1>1 DEF Renames, s
<1>3. /\ r[k].kind = s[k].kind /\ r[k].kind # "alias"
      /\ s[k].kind = "variable" => r[k].alias = i /\ r[k].text = s[k].text
  BY <1>1, <1>2 DEF Renames
<1> QED BY <1>3 DEF s, r

(* Blokli accepts the combined document.                                    *)
LEMMA CombinedChecked ==
  ASSUME NEW specs, Combinable(specs), NEW C, NEW n, NEW ids, NEW b, NEW dat, NEW fat,
         Located(C, specs, n, ids, b, dat, fat),
         NEW given, \A i \in DOMAIN specs : \A x \in DOMAIN specs[i].variables : <<i, x>> \in given
  PROVE  Checked(C, b, given)
<1> DEFINE Def(m) == Definitions(specs[ids[m]])
           Own(m) == Field(specs[ids[m]])
<1>1. /\ n \in Nat /\ b \in Nat /\ b >= 3 /\ DOMAIN C = 1 .. Len(C) /\ Len(C) \in Nat
  BY DEF Located, FieldsIn
<1>2. \A m \in 1 .. n : ids[m] \in DOMAIN specs /\ Apart(specs[ids[m]])
  BY DEF Located, Enumerates, Combinable
<1>3. \A l, m \in 1 .. n : l # m => ids[l] # ids[m]
  BY DEF Located, Enumerates
<1>4. \A m \in 1 .. n : \A k \in DOMAIN Def(m) :
        /\ 3 + dat[m] + k \in 1 .. b - 1
        /\ C[3 + dat[m] + k].kind = Def(m)[k].kind
        /\ Def(m)[k].kind = "variable" => /\ C[3 + dat[m] + k].alias = ids[m]
                                          /\ C[3 + dat[m] + k].text = Def(m)[k].text
  BY DEF Located, DefinitionsIn
<1>5. \A p \in 1 .. b - 1 : C[p].kind = "variable" =>
        \E m \in 1 .. n : \E k \in DOMAIN Def(m) : p = 3 + dat[m] + k
  BY DEF Located, DefinitionsIn
<1>6. \A p \in b .. Len(C) : C[p].kind = "variable" =>
        \E m \in 1 .. n : \E k \in DOMAIN Own(m) : p = b + fat[m] + 1 + k
  BY DEF Located, FieldsIn
<1>7. \A m \in 1 .. n : \A k \in DOMAIN Own(m) :
        C[b + fat[m] + 1 + k] = RenameVariables(Own(m), ids[m])[k]
  BY DEF Located, FieldsIn
<1>8. ASSUME NEW m \in 1 .. n
      PROVE  DefinedOnce(Def(m)) /\ Bound(Own(m), Def(m), DOMAIN specs[ids[m]].variables)
  <2>1. Apart(specs[ids[m]])
    BY <1>2
  <2> QED BY <2>1 DEF Apart
<1> HIDE DEF Def, Own
<1>9. ASSUME NEW i, NEW j, IsVariable(C, i), IsVariable(C, j), i < j, j < b
      PROVE  <<C[i].alias, C[i].text>> # <<C[j].alias, C[j].text>>
  <2>1. i \in 1 .. b - 1 /\ j \in 1 .. b - 1 /\ C[i].kind = "variable" /\ C[j].kind = "variable"
        /\ i # j
    BY <1>1, <1>9 DEF IsVariable
  <2>2. PICK l \in 1 .. n : \E k \in DOMAIN Def(l) : i = 3 + dat[l] + k
    BY <1>5, <2>1
  <2>3. PICK k \in DOMAIN Def(l) : i = 3 + dat[l] + k
    BY <2>2
  <2>4. PICK m \in 1 .. n : \E h \in DOMAIN Def(m) : j = 3 + dat[m] + h
    BY <1>5, <2>1
  <2>5. PICK h \in DOMAIN Def(m) : j = 3 + dat[m] + h
    BY <2>4
  <2>6. /\ Def(l)[k].kind = "variable" /\ C[i].alias = ids[l] /\ C[i].text = Def(l)[k].text
        /\ Def(m)[h].kind = "variable" /\ C[j].alias = ids[m] /\ C[j].text = Def(m)[h].text
    BY <1>4, <2>1, <2>3, <2>5
  <2>7. CASE l # m
    BY <1>3, <2>6, <2>7
  <2>8. CASE l = m
    <3>1. k # h
      BY <2>1, <2>3, <2>5, <2>8
    <3>2. IsVariable(Def(m), k) /\ IsVariable(Def(m), h)
      BY <2>3, <2>5, <2>6, <2>8 DEF IsVariable
    <3>3. Def(m)[k].text # Def(m)[h].text
      BY <1>8, <3>1, <3>2 DEF DefinedOnce
    <3> QED BY <2>6, <2>8, <3>3
  <2> QED BY <2>7, <2>8
<1>10. ASSUME NEW j, IsVariable(C, j), j > b
       PROVE  /\ \E i : /\ IsVariable(C, i) /\ i < b
                        /\ <<C[i].alias, C[i].text>> = <<C[j].alias, C[j].text>>
              /\ <<C[j].alias, C[j].text>> \in given
  <2>1. j \in b .. Len(C) /\ C[j].kind = "variable"
    BY <1>1, <1>10 DEF IsVariable
  <2>2. PICK m \in 1 .. n : \E k \in DOMAIN Own(m) : j = b + fat[m] + 1 + k
    BY <1>6, <2>1
  <2>3. PICK k \in DOMAIN Own(m) : j = b + fat[m] + 1 + k
    BY <2>2
  <2>4. C[j] = RenameVariables(Own(m), ids[m])[k]
    BY <1>7, <2>3
  <2>5. /\ Own(m)[k].kind = "variable" /\ C[j].alias = ids[m] /\ C[j].text = Own(m)[k].text
    BY <1>2, <2>1, <2>3, <2>4, FieldTokens DEF Own
  <2>6. IsVariable(Own(m), k)
    BY <2>3, <2>5 DEF IsVariable
  <2>7. /\ Own(m)[k].text \in DOMAIN specs[ids[m]].variables
        /\ \E h : IsVariable(Def(m), h) /\ Def(m)[h].text = Own(m)[k].text
    BY <1>8, <2>6 DEF Bound
  <2>8. PICK h : IsVariable(Def(m), h) /\ Def(m)[h].text = Own(m)[k].text
    BY <2>7
  <2> DEFINE i == 3 + dat[m] + h
  <2>9. h \in DOMAIN Def(m) /\ Def(m)[h].kind = "variable"
    BY <2>8 DEF IsVariable
  <2>10. i \in 1 .. b - 1 /\ C[i].kind = "variable" /\ C[i].alias = ids[m] /\ C[i].text = Def(m)[h].text
    BY <1>4, <2>9
  <2> HIDE DEF i
  <2>11. i \in DOMAIN C /\ i < b
    <3>1. b <= Len(C)
      BY <1>1, <2>1
    <3> QED BY <1>1, <2>10, <3>1
  <2>12. IsVariable(C, i) /\ i < b /\ <<C[i].alias, C[i].text>> = <<C[j].alias, C[j].text>>
    BY <2>5, <2>8, <2>10, <2>11 DEF IsVariable
  <2>13. <<ids[m], Own(m)[k].text>> \in given
    BY <1>2, <2>7
  <2>14. <<C[j].alias, C[j].text>> \in given
    BY <2>5, <2>13
  <2> QED BY <2>12, <2>14
<1> QED BY <1>9, <1>10 DEF Checked

(* The answer under the alias of a slot is the answer to its own document.     *)
LEMMA CombinedAnswer ==
  ASSUME NEW specs, Combinable(specs), NEW C, NEW n, NEW ids, NEW b, NEW dat, NEW fat,
         Located(C, specs, n, ids, b, dat, fat), NEW request, request.document = C,
         NEW i \in DOMAIN specs
  PROVE  AnswerTo(request, i) = Evaluated(RenameVariables(Field(specs[i]), i), request.variables)
<1>1. PICK m \in 1 .. n : ids[m] = i
  BY DEF Located, Enumerates
<1>2. /\ n \in Nat /\ n # 0 /\ b \in Nat /\ b >= 3 /\ DOMAIN C = 1 .. Len(C)
      /\ fat \in [1 .. n + 1 -> Nat] /\ Len(C) = b + fat[n + 1] + 1
      /\ \A l, h \in 1 .. n + 1 : l <= h => fat[l] <= fat[h]
  BY DEF Located, FieldsIn
<1> DEFINE Own(h) == Field(specs[ids[h]])
<1>3. \A h \in 1 .. n :
        /\ Len(Own(h)) \in Nat /\ DOMAIN Own(h) = 1 .. Len(Own(h))
        /\ fat[h + 1] = fat[h] + 1 + Len(Own(h))
        /\ C[b + fat[h] + 1].kind = "alias" /\ C[b + fat[h] + 1].alias = ids[h]
        /\ \A k \in DOMAIN Own(h) : C[b + fat[h] + 1 + k] = RenameVariables(Own(h), ids[h])[k]
  BY DEF Located, FieldsIn
<1>4. \A p \in b .. Len(C) : C[p].kind = "alias" => \E h \in 1 .. n : p = b + fat[h] + 1
  BY DEF Located, FieldsIn
<1>5. \A p \in 1 .. b - 1 : C[p].kind # "alias"
  BY DEF Located, DefinitionsIn
<1>6. \A l, h \in 1 .. n : l # h => ids[l] # ids[h]
  BY DEF Located, Enumerates
<1> HIDE DEF Own
<1> DEFINE at(h) == b + fat[h] + 1
           aliases == Positions(C, {"alias"})
<1>7. ASSUME NEW h \in 1 .. n
      PROVE  /\ fat[h] \in Nat /\ fat[h + 1] \in Nat /\ at(h) \in 1 .. Len(C) /\ at(h) \in Nat
             /\ at(h) < at(h + 1) /\ at(h + 1) <= Len(C)
  <2>1. h \in 1 .. n + 1 /\ h + 1 \in 1 .. n + 1 /\ n + 1 \in 1 .. n + 1 /\ h + 1 <= n + 1
    BY <1>2
  <2>2. fat[h] \in Nat /\ fat[h + 1] \in Nat /\ fat[n + 1] \in Nat /\ fat[h + 1] <= fat[n + 1]
    BY <1>2, <2>1
  <2>3. fat[h] < fat[h + 1]
    <3>1. Len(Own(h)) \in Nat /\ fat[h + 1] = fat[h] + 1 + Len(Own(h))
      BY <1>3
    <3> QED BY <2>2, <3>1
  <2>4. b \in Nat /\ Len(C) = b + fat[n + 1] + 1
    BY <1>2
  <2>5. /\ b + fat[h] + 1 \in 1 .. Len(C) /\ b + fat[h] + 1 \in Nat
        /\ b + fat[h] + 1 < b + fat[h + 1] + 1 /\ b + fat[h + 1] + 1 <= Len(C)
    BY <2>2, <2>3, <2>4, Spaced
  <2> QED BY <2>2, <2>5
<1>8. \A p : p \in aliases <=> \E h \in 1 .. n : p = at(h)
  <2>1. ASSUME NEW p \in aliases  PROVE \E h \in 1 .. n : p = at(h)
    <3>1. p \in 1 .. Len(C) /\ C[p].kind = "alias"
      BY <1>2 DEF Positions
    <3>2. p \in b .. Len(C)
      BY <1>2, <1>5, <3>1
    <3> QED BY <1>4, <3>1, <3>2
  <2>2. ASSUME NEW h \in 1 .. n  PROVE at(h) \in aliases
    BY <1>2, <1>3, <1>7 DEF Positions
  <2> QED BY <2>1, <2>2
<1> HIDE DEF aliases
<1> DEFINE start == CHOOSE p \in aliases : C[p].alias = i
<1>9. start = at(m)
  <2>1. at(m) \in aliases /\ C[at(m)].alias = i
    BY <1>1, <1>3, <1>8
  <2>2. start \in aliases /\ C[start].alias = i
    BY <2>1
  <2> HIDE DEF start
  <2>3. PICK h \in 1 .. n : start = at(h)
    BY <1>8, <2>2
  <2>4. ids[h] = i
    BY <1>3, <2>2, <2>3
  <2> QED BY <1>1, <1>6, <2>3, <2>4
<1> DEFINE later == {p \in aliases : p > start}
           end == IF later = {} THEN Len(C) ELSE Min(later)
<1>10. AnswerTo(request, i) = Evaluated(SubSeq(C, start + 1, end - 1), request.variables)
  BY DEF AnswerTo, aliases
<1> HIDE DEF start
<1>11. ASSUME NEW h \in 1 .. n, at(h) > at(m)  PROVE m + 1 \in 1 .. n /\ at(m + 1) <= at(h)
  <2>1. ASSUME h <= m  PROVE FALSE
    <3>1. fat[h] <= fat[m]
      BY <1>2, <2>1
    <3> QED BY <1>2, <1>7, <1>11, <3>1
  <2>2. m + 1 \in 1 .. n /\ m + 1 <= h /\ m + 1 \in 1 .. n + 1 /\ h \in 1 .. n + 1
    BY <1>2, <2>1
  <2>3. fat[m + 1] <= fat[h]
    BY <1>2, <2>2
  <2> QED BY <1>2, <1>7, <2>2, <2>3
<1>12. \A p : p \in later <=> \E h \in 1 .. n : p = at(h) /\ at(h) > at(m)
  BY <1>8, <1>9
<1> HIDE DEF later
<1>13. end = at(m + 1)
  <2>1. CASE m = n
    <3>1. ASSUME NEW p \in later  PROVE FALSE
      <4>1. PICK h \in 1 .. n : p = at(h) /\ at(h) > at(m)
        BY <1>12
      <4> QED BY <1>2, <1>11, <2>1, <4>1
    <3>2. later = {}
      BY <3>1
    <3> QED BY <1>2, <2>1, <3>2
  <2>2. CASE m # n
    <3>1. m + 1 \in 1 .. n
      BY <1>2, <2>2
    <3>2. at(m + 1) \in later /\ at(m + 1) \in Nat
      BY <1>7, <1>12, <3>1
    <3>3. ASSUME NEW p \in later  PROVE p \in Nat /\ at(m + 1) <= p
      <4>1. PICK h \in 1 .. n : p = at(h) /\ at(h) > at(m)
        BY <1>12
      <4> QED BY <1>7, <1>11, <4>1
    <3>4. Min(later) = at(m + 1)
      <4> DEFINE x == at(m + 1)
      <4>1. x \in later /\ x \in Nat /\ \A p \in later : p \in Nat /\ x <= p
        BY <3>2, <3>3
      <4> HIDE DEF x
      <4>2. Min(later) = x
        BY <4>1, MinIs
      <4> QED BY <4>2 DEF x
    <3>5. later # {}
      BY <3>2
    <3> QED BY <3>4, <3>5
  <2> QED BY <2>1, <2>2
<1> HIDE DEF end
<1> DEFINE r == RenameVariables(Own(m), i)
           z == Len(Own(m))
           s == SubSeq(C, start + 1, end - 1)
<1>14. s = r
  <2>1. /\ fat[m] \in Nat /\ z \in Nat /\ fat[m + 1] = fat[m] + 1 + z
        /\ DOMAIN Own(m) = 1 .. z
        /\ \A k \in 1 .. z : C[b + fat[m] + 1 + k] = r[k]
    BY <1>1, <1>3, <1>7
  <2>2. r = [k \in 1 .. z |-> r[k]]
    BY <2>1 DEF RenameVariables
  <2> HIDE DEF r, z
  <2> DEFINE q == b + fat[m] + 1
  <2>3. q \in Nat /\ start = q /\ end = q + 1 + z
    <3>1. b \in Nat /\ fat[m] \in Nat /\ z \in Nat
      BY <1>2, <2>1
    <3>2. start = b + fat[m] + 1 /\ end = b + (fat[m] + 1 + z) + 1
      BY <1>9, <1>13, <2>1
    <3> QED BY <3>1, <3>2
  <2>4. \A k \in 1 .. z : C[q + k] = r[k]
    BY <2>1
  <2> HIDE DEF q
  <2>5. s = [k \in 1 .. z |-> C[q + k]]
    <3>1. s = SubSeq(C, q + 1, q + z)
      <4>1. start + 1 = q + 1 /\ end - 1 = q + z
        BY <2>1, <2>3
      <4> QED BY <4>1
    <3>2. SubSeq(C, q + 1, q + z) = [k \in 1 .. (q + z) - (q + 1) + 1 |-> C[k + (q + 1) - 1]]
      <4>1. q + 1 \in Int /\ q + z \in Int
        BY <2>1, <2>3
      <4> QED BY <4>1
    <3>3. (q + z) - (q + 1) + 1 = z /\ \A k \in 1 .. z : k + (q + 1) - 1 = q + k
      BY <2>1, <2>3
    <3> QED BY <3>1, <3>2, <3>3
  <2> QED BY <2>2, <2>4, <2>5
<1>15. r = RenameVariables(Field(specs[i]), i)
  BY <1>1 DEF Own
<1> QED BY <1>10, <1>14, <1>15

LEMMA BuiltSplits ==
  ASSUME NEW specs, BuildConnection(specs) # Null, NEW i \in DOMAIN specs
  PROVE  /\ SplitDocument(specs[i].document) # Null
         /\ RootFieldName(RenameVariables(Field(specs[i]), i)) # Null
<1> DEFINE split == [j \in DOMAIN specs |-> SplitDocument(specs[j].document)]
<1>1. split[i] # Null /\ RootFieldName(RenameVariables(split[i].field, i)) # Null
  BY DEF BuildConnection
<1>2. split[i] = SplitDocument(specs[i].document)
  OBVIOUS
<1> QED BY <1>1, <1>2 DEF Field

LEMMA RootIsWord ==
  ASSUME NEW field, RootFieldName(field) # Null
  PROVE  field # <<>> /\ field[1].kind = "word" /\ RootFieldName(field) = field[1].text
BY Zenon DEF RootFieldName, Given

(* Parts that are apart are carried alike.                                   *)
LEMMA PartsCarried ==
  ASSUME NEW specs, Combinable(specs)
  PROVE  /\ Accepts(BuildConnection(specs))
         /\ \A i \in DOMAIN specs :
              /\ AnswerTo(BuildConnection(specs), i) = OwnAnswer(specs[i])
              /\ BuildConnection(specs).targets[i] = OwnAnswer(specs[i])[1].text
<1> DEFINE request == BuildConnection(specs)
           C == request.document
           given == DOMAIN request.variables
<1>1. request # Null /\ \A i \in DOMAIN specs : Apart(specs[i])
  BY DEF Combinable
<1>2. PICK n, ids, b, dat, fat : Located(C, specs, n, ids, b, dat, fat)
  BY CombinedText
<1>3. request.variables =
        [m \in UNION {{i} \X DOMAIN specs[i].variables : i \in DOMAIN specs} |->
           specs[m[1]].variables[m[2]]]
  BY <1>1, BuiltOf
<1>4. given = UNION {{i} \X DOMAIN specs[i].variables : i \in DOMAIN specs}
  BY <1>3
<1>5. \A i \in DOMAIN specs : \A x \in DOMAIN specs[i].variables : <<i, x>> \in given
  <2> HIDE DEF given
  <2> QED BY <1>4
<1> HIDE DEF request
<1>6. Accepts(request)
  <2> DEFINE text == C
             names == given
  <2>1. Checked(C, b, given)
    <3> HIDE DEF C, given
    <3> QED BY <1>2, <1>5, CombinedChecked
  <2>2. request.document = text /\ SelectionStart(text) = b /\ DOMAIN request.variables = names
        /\ Checked(text, b, names)
    BY <1>2, <2>1 DEF Located
  <2> HIDE DEF text, names
  <2> QED BY <2>2, AcceptedIs
<1>7. ASSUME NEW i \in DOMAIN specs
      PROVE  /\ AnswerTo(request, i) = OwnAnswer(specs[i])
             /\ request.targets[i] = OwnAnswer(specs[i])[1].text
  <2> DEFINE spec == specs[i]
             field == Field(spec)
             own == [m \in {Null} \X DOMAIN spec.variables |-> spec.variables[m[2]]]
  <2>1. Apart(spec)
    BY <1>1
  <2>2. AnswerTo(request, i) = Evaluated(RenameVariables(field, i), request.variables)
    <3> DEFINE text == C
    <3>1. Located(text, specs, n, ids, b, dat, fat) /\ request.document = text
      BY <1>2
    <3> HIDE DEF text
    <3> QED BY <3>1, CombinedAnswer
  <2>3. RefersTo(field, DOMAIN spec.variables)
    <3>1. Unprefixed(field) /\ Bound(field, Definitions(spec), DOMAIN spec.variables)
      BY <2>1 DEF Apart
    <3> HIDE DEF field, spec
    <3>2. \A k \in DOMAIN field : field[k] = Token(field[k].kind, field[k].text)
      BY <3>1 DEF Unprefixed
    <3>3. \A k \in DOMAIN field : field[k].kind = "variable" => field[k].text \in DOMAIN spec.variables
      BY <3>1 DEF Bound, IsVariable
    <3> QED BY <3>2, <3>3 DEF RefersTo
  <2>4. Evaluated(RenameVariables(field, i), request.variables) = Evaluated(field, own)
    BY <1>1, <2>3, PartMeansTheSame DEF request
  <2>5. OwnAnswer(spec) = Evaluated(field, own)
    <3>1. OwnAnswer(spec) = Evaluated(field, OwnRequest(spec).variables)
      BY <2>1 DEF Apart
    <3>2. OwnRequest(spec).variables = own
      BY DEF OwnRequest
    <3> QED BY <3>1, <3>2
  <2>6. request.targets[i] = RootFieldName(field)
    <3>1. \E T : field \in Seq(T)
      BY <2>1 DEF Apart, Unprefixed
    <3> QED BY <1>1, <3>1, TargetIsOwnName DEF request
  <2>7. RootFieldName(field) # Null
    <3> DEFINE names == [j \in DOMAIN specs |-> RootFieldName(RenameVariables(Field(specs[j]), j))]
    <3>1. request.targets = names
      BY <1>1, BuiltOf DEF request
    <3>2. names[i] # Null
      BY <1>1, BuiltSplits DEF request
    <3> HIDE DEF names, field
    <3> QED BY <2>6, <3>1, <3>2
  <2>8. field # <<>> /\ field[1].kind = "word" /\ RootFieldName(field) = field[1].text
    BY <2>7, RootIsWord
  <2>9. Evaluated(field, own)[1] = field[1]
    <3>1. Unprefixed(field)
      BY <2>1 DEF Apart
    <3> HIDE DEF field, own
    <3>2. 1 \in DOMAIN field
      BY <2>8, <3>1 DEF Unprefixed
    <3> QED BY <2>8, <3>2 DEF Evaluated
  <2> HIDE DEF field, own
  <2>10. request.targets[i] = OwnAnswer(spec)[1].text
    BY <2>5, <2>6, <2>8, <2>9
  <2> QED BY <2>2, <2>4, <2>5, <2>10
<1> QED BY <1>6, <1>7 DEF request

(* One connection for some subscriptions carries each of them as if it had a   *)
(* connection to itself: Blokli accepts the document that build_connection     *)
(* makes of documents that it accepts, answers under each alias what it would  *)
(* answer to the slot's own document, and the name that route puts back is    *)
(* the name of that answer.                                                *)
THEOREM CarriedAlike ==
  ASSUME NEW specs, DOMAIN specs \subseteq Nat, IsFiniteSet(DOMAIN specs), DOMAIN specs # {},
         BuildConnection(specs) # Null, \A i \in DOMAIN specs : WellFormed(specs[i])
  PROVE  /\ Accepts(BuildConnection(specs))
         /\ \A i \in DOMAIN specs :
              /\ AnswerTo(BuildConnection(specs), i) = OwnAnswer(specs[i])
              /\ BuildConnection(specs).targets[i] = OwnAnswer(specs[i])[1].text
<1>1. ASSUME NEW i \in DOMAIN specs  PROVE Apart(specs[i])
  BY PartsApart
<1>2. Combinable(specs)
  BY <1>1 DEF Combinable
<1> QED BY <1>2, PartsCarried

(* A connection that is open was asked for by a document.                     *)
Asked == pc \in Open => Requests[snapshot] # Null

LEMMA ConnectAsked ==
  ASSUME NEW ids, Connect(ids)
  PROVE  Asked'
<1>1. CASE Requests[ids] = Null
  BY <1>1 DEF Connect, Stop, Asked, Open
<1>2. CASE Requests[ids] # Null
  BY <1>2 DEF Connect, Asked, Requests
<1> QED BY <1>1, <1>2

LEMMA SameAsked ==
  ASSUME Asked, pc \in Open \/ UNCHANGED pc, UNCHANGED snapshot
  PROVE  Asked'
BY DEF Asked, Requests

LEMMA AskedNext == Asked /\ [Next]_vars => Asked'
<1> SUFFICES ASSUME Asked, [Next]_vars  PROVE Asked'
  OBVIOUS
<1>0. pc' \in {"idle", "prepare", "debounce", "wait"} => Asked'
  BY DEF Asked, Open
<1>1. ASSUME NEW i \in Slots, Join(i)  PROVE Asked'
  <2>1. CASE pc = "idle"
    BY <1>0, <1>1, <2>1 DEF Join, Start
  <2>2. CASE pc # "idle"
    BY <1>1, <2>2, SameAsked DEF Join
  <2> QED BY <2>1, <2>2
<1>2. ASSUME NEW i \in Slots, Leave(i) \/ RequestResync(i)  PROVE Asked'
  BY <1>2, SameAsked DEF Leave, RequestResync
<1>3. CASE Prepare
  BY <1>0, <1>3, ConnectAsked DEF Prepare, Stop
<1>4. CASE DebounceChanged
  BY <1>0, <1>4 DEF DebounceChanged
<1>5. CASE DebounceOver
  BY <1>5, ConnectAsked DEF DebounceOver
<1>6. CASE WaitChanged
  BY <1>0, <1>6, SameAsked DEF WaitChanged, Rebuild
<1>7. CASE WaitOver
  BY <1>0, <1>7 DEF WaitOver, Rebuild
<1>8. CASE Change
  BY <1>0, <1>8, SameAsked DEF Change, Rebuild
<1>9. CASE MarkStalled
  BY <1>9, SameAsked DEF MarkStalled
<1>10. ASSUME NEW decoded \in BOOLEAN, Traffic(decoded)  PROVE Asked'
  BY <1>10, SameAsked DEF Traffic, Stay
<1>11. CASE Connected
  BY <1>11, SameAsked DEF Connected, Stay
<1>12. CASE MalformedEvent
  BY <1>0, <1>12 DEF MalformedEvent, Wait
<1>13. CASE DocumentRejected
  BY <1>13, SameAsked DEF DocumentRejected, Reject, Wait, Event, Open
<1>14. ASSUME NEW status \in Errors, Error(status)  PROVE Asked'
  BY <1>14, SameAsked DEF Error, Reject, Wait, Stay, Event, Open
<1>15. CASE StreamEnds
  BY <1>0, <1>15 DEF StreamEnds, Wait, Stop
<1>16. CASE Tick
  BY <1>16, SameAsked DEF Tick
<1>17. CASE UNCHANGED vars
  BY <1>17, SameAsked DEF vars
<1>18. CASE Deliver \/ Delivered \/ Told
  BY <1>18, SameAsked DEF Deliver, Delivered, Told, Wait, Event, Open
<1> QED BY <1>1, <1>2, <1>3, <1>4, <1>5, <1>6, <1>7, <1>8, <1>9, <1>10, <1>11, <1>12, <1>13,
           <1>14, <1>15, <1>16, <1>17, <1>18 DEF Next

LEMMA AskedCombines == Covers /\ Asked => DocumentsCombine
<1> SUFFICES ASSUME Covers, Asked, pc \in Open  PROVE CarriesEach[snapshot]
  BY DEF DocumentsCombine
<1> DEFINE specs == [i \in snapshot |-> Specs[i]]
<1>1. snapshot \in (SUBSET Slots) \ {{}}
  BY DEF Covers, Typed, Covering
<1>2. Requests[snapshot] = BuildConnection(specs) /\ BuildConnection(specs) # Null
  BY <1>1 DEF Requests, Asked
<1>3. DOMAIN specs = snapshot /\ \A i \in snapshot : specs[i] = Specs[i]
  OBVIOUS
<1> HIDE DEF specs
<1>4. /\ DOMAIN specs \subseteq Nat /\ IsFiniteSet(DOMAIN specs) /\ DOMAIN specs # {}
      /\ \A i \in DOMAIN specs : WellFormed(specs[i])
  <2>1. snapshot \subseteq Nat /\ IsFiniteSet(snapshot) /\ snapshot # {}
    <3>1. IsFiniteSet(Slots) /\ Slots \subseteq Nat /\ snapshot \subseteq Slots
      BY <1>1, ConnectionAssumption
    <3> QED BY <1>1, <3>1, FS_Subset
  <2>2. ASSUME NEW i \in DOMAIN specs  PROVE WellFormed(specs[i])
    <3>1. SplitDocument(specs[i].document) # Null
      BY <1>2, BuiltSplits
    <3> QED BY <1>1, <1>3, <3>1, DocumentsAssumption
  <2> QED BY <1>3, <2>1, <2>2
<1>5. /\ Accepts(BuildConnection(specs))
      /\ \A i \in DOMAIN specs :
           /\ AnswerTo(BuildConnection(specs), i) = OwnAnswer(specs[i])
           /\ BuildConnection(specs).targets[i] = OwnAnswer(specs[i])[1].text
  BY <1>2, <1>4, CarriedAlike
<1>6. CarriesEach[snapshot] =
        /\ Accepts(Requests[snapshot])
        /\ \A i \in snapshot : /\ AnswerTo(Requests[snapshot], i) = OwnAnswer(Specs[i])
                               /\ Requests[snapshot].targets[i] = OwnAnswer(Specs[i])[1].text
  BY <1>1, Zenon DEF CarriesEach
<1>7. Accepts(Requests[snapshot])
  BY <1>2, <1>5
<1>8. \A i \in snapshot : /\ AnswerTo(Requests[snapshot], i) = OwnAnswer(Specs[i])
                          /\ Requests[snapshot].targets[i] = OwnAnswer(Specs[i])[1].text
  BY <1>2, <1>3, <1>5
<1> QED BY <1>6, <1>7, <1>8, Zenon

(* Every connection that is open carries each of its subscriptions as if it    *)
(* had one to itself (build_connection, rename_variables, matching_paren, and  *)
(* the target by which route delivers), whatever the subscriptions are.      *)
THEOREM DocumentsCombined == Spec => []DocumentsCombine
<1>1. Init => Asked
  BY DEF Init, Asked, Open
<1>2. Covers /\ Asked /\ [Next]_vars => (Covers /\ Asked)'
  BY CoversNext, AskedNext
<1> QED BY <1>1, <1>2, CoversInit, AskedCombines, PTL DEF Spec
=============================================================================
