-------------------------- MODULE TestClientProofs --------------------------
(* Theorems about TestClient, for any fixture, any number of transactions,   *)
(* streams, updaters and changes, and every mutator of Mutated.             *)
EXTENDS TestClient, FiniteSetTheorems, SequenceTheorems, TLAPS

Truthful(outcome, t) ==
  (outcome.status = "Confirmed" /\ outcome.safe # "failed") <=> fate[t] = "applied"

(* A transaction that is waiting to be tracked has been told to nobody, and   *)
(* what it will tell is true; a transaction not submitted is in neither place. *)
Waiting == \A t \in TxIds : t \in DOMAIN active =>
  fate[t] # None /\ told[t] = <<>> /\ Truthful(active[t], t)
Told == \A t \in TxIds :
  told[t] = <<>> \/ (Len(told[t]) = 1 /\ Truthful(told[t][1], t) /\ fate[t] # None)

IInv ==
  /\ fate \in [TxIds -> {None, "applied", "reverted"}]
  /\ DOMAIN told = TxIds \cup {Foreign}
  /\ Waiting
  /\ Told

(* A mutator that leaves client transactions or takes them away.             *)
LEMMA MutatorKeeps ==
  ASSUME NEW new \in Mutated, NEW t \in TxIds, t \in DOMAIN new.active
  PROVE  t \in DOMAIN active /\ new.active[t] = active[t]
<1>1. new.active \in {active} \cup ActiveMutations
  BY DEF Mutated
<1>2. t # Foreign
  BY TestClientAssumption
<1>3. CASE new.active = active
  BY <1>3
<1>4. ASSUME NEW u \in DOMAIN active, new.active = Restrict(active, DOMAIN active \ {u})
      PROVE  t \in DOMAIN active /\ new.active[t] = active[t]
  BY <1>4 DEF Restrict
<1>5. ASSUME NEW u \in DOMAIN active,
             new.active = [v \in (DOMAIN active \ {u}) \cup {Foreign} |->
                             IF v = Foreign THEN active[u] ELSE active[v]]
      PROVE  t \in DOMAIN active /\ new.active[t] = active[t]
  BY <1>2, <1>5
<1> QED
  BY <1>1, <1>3, <1>4, <1>5 DEF ActiveMutations

(* What a submission reports says whether it was applied.                    *)
LEMMA OutcomeTells ==
  ASSUME NEW internal \in BOOLEAN, NEW new \in Mutated
  PROVE  LET o == Outcome(internal, new.verdict, Succeeds(new))
         IN  (o.status = "Confirmed" /\ o.safe # "failed") <=> Succeeds(new)
<1>1. new.verdict \in Verdicts
  BY DEF Mutated, Verdicts
<1>2. CASE Succeeds(new)
  <2>1. new.verdict = "ok"
    BY <1>2 DEF Succeeds
  <2> QED
    BY <1>2, <2>1 DEF Outcome
<1>3. CASE ~Succeeds(new)
  BY <1>3 DEF Outcome
<1> QED
  BY <1>2, <1>3

LEMMA Unchanged ==
  ASSUME IInv, UNCHANGED <<active, fate, told>>
  PROVE  IInv'
  BY DEF IInv, Waiting, Told, Truthful

LEMMA SubmitPreserves ==
  ASSUME IInv, Submit
  PROVE  IInv'
<1>1. UNCHANGED <<fate, told>>
  BY DEF Submit
<1>2. PICK new \in Mutated : active' = IF Succeeds(new) THEN new.active ELSE active
  BY DEF Submit
<1>3. \A t \in TxIds : t \in DOMAIN active' =>
        t \in DOMAIN active /\ active'[t] = active[t]
  BY <1>2, MutatorKeeps
<1> QED
  BY <1>1, <1>3 DEF IInv, Waiting, Told, Truthful

Kept(new) == IF Succeeds(new) THEN new.active ELSE active

LEMMA SubmitAndTrackPreserves ==
  ASSUME IInv, NEW t \in TxIds, SubmitAndTrack(t)
  PROVE  IInv'
<1>1. fate[t] = None /\ UNCHANGED told
  BY DEF SubmitAndTrack
<1>2. PICK new \in Mutated, internal \in BOOLEAN :
        /\ active' = [v \in DOMAIN Kept(new) \cup {t} |->
                        IF v = t THEN Outcome(internal, new.verdict, Succeeds(new))
                        ELSE Kept(new)[v]]
        /\ fate' = [fate EXCEPT ![t] = IF Succeeds(new) THEN "applied" ELSE "reverted"]
  BY DEF SubmitAndTrack, Kept
<1>3. /\ fate' \in [TxIds -> {None, "applied", "reverted"}]
      /\ fate'[t] # None
      /\ fate'[t] = "applied" <=> Succeeds(new)
      /\ \A u \in TxIds \ {t} : fate'[u] = fate[u]
  BY <1>2 DEF IInv, None
<1>4. active'[t] = Outcome(internal, new.verdict, Succeeds(new))
  BY <1>2 DEF Kept
<1>5. Truthful(active[t], t)'
  BY <1>3, <1>4, OutcomeTells DEF Truthful
<1>6. ASSUME NEW u \in TxIds \ {t}, u \in DOMAIN active'
      PROVE  u \in DOMAIN active /\ active'[u] = active[u]
  <2>1. CASE Succeeds(new)
    <3>1. u \in DOMAIN new.active /\ active'[u] = new.active[u]
      BY <1>2, <1>6, <2>1 DEF Kept
    <3> QED
      BY <3>1, MutatorKeeps
  <2>2. CASE ~Succeeds(new)
    BY <1>2, <1>6, <2>2 DEF Kept
  <2> QED
    BY <2>1, <2>2
<1>7. told[t] = <<>>
  BY <1>1 DEF IInv, Told
<1>8. Waiting'
  <2> SUFFICES ASSUME NEW u \in TxIds, u \in DOMAIN active'
               PROVE  fate'[u] # None /\ told'[u] = <<>> /\ Truthful(active[u], u)'
    BY DEF Waiting
  <2>1. CASE u = t
    BY <1>1, <1>3, <1>5, <1>7, <2>1
  <2>2. CASE u # t
    BY <1>1, <1>3, <1>6, <2>2 DEF IInv, Waiting, Truthful
  <2> QED
    BY <2>1, <2>2
<1>9. Told'
  BY <1>1, <1>3, <1>7 DEF IInv, Told, Truthful
<1> QED
  BY <1>1, <1>3, <1>8, <1>9 DEF IInv

LEMMA TrackPreserves ==
  ASSUME IInv, NEW t \in TxIds \cup {Foreign}, Track(t)
  PROVE  IInv'
<1>1. /\ t \in DOMAIN active /\ UNCHANGED fate
      /\ active' = [u \in DOMAIN active \ {t} |-> active[u]]
      /\ told' = [told EXCEPT ![t] = Append(told[t], active[t])]
  BY DEF Track, Restrict
<1>2. \A u \in TxIds \ {t} : told'[u] = told[u]
  BY <1>1 DEF IInv
<1>3. ASSUME t \in TxIds
      PROVE  told'[t] = <<active[t]>>
  <2>1. told[t] = <<>>
    BY <1>1, <1>3 DEF IInv, Waiting
  <2>2. told'[t] = Append(told[t], active[t])
    BY <1>1 DEF IInv
  <2> QED
    BY <2>1, <2>2
<1>4. Waiting'
  BY <1>1, <1>2 DEF IInv, Waiting, Truthful
<1>5. Told'
  <2> SUFFICES ASSUME NEW u \in TxIds
               PROVE  \/ told'[u] = <<>>
                      \/ Len(told'[u]) = 1 /\ Truthful(told[u][1], u)' /\ fate'[u] # None
    BY DEF Told
  <2>1. CASE u = t
    <3>1. told'[u] = <<active[t]>> /\ Len(told'[u]) = 1 /\ told'[u][1] = active[u]
      BY <1>3, <2>1
    <3> QED
      BY <1>1, <2>1, <3>1 DEF IInv, Waiting, Truthful
  <2>2. CASE u # t
    BY <1>1, <1>2, <2>2 DEF IInv, Told, Truthful
  <2> QED
    BY <2>1, <2>2
<1>6. DOMAIN told' = TxIds \cup {Foreign}
  BY <1>1 DEF IInv
<1> QED
  BY <1>1, <1>4, <1>5, <1>6 DEF IInv

LEMMA Inductive == Spec => []IInv
<1>1. Init => IInv
  BY DEF Init, IInv, Waiting, Told
<1>2. IInv /\ [Next]_vars => IInv'
  <2> SUFFICES ASSUME IInv, [Next]_vars PROVE IInv'
    OBVIOUS
  <2>1. CASE Submit
    BY <2>1, SubmitPreserves
  <2>2. ASSUME NEW t \in TxIds, SubmitAndTrack(t) PROVE IInv'
    BY <2>2, SubmitAndTrackPreserves
  <2>3. ASSUME NEW t \in TxIds \cup {Foreign}, Track(t) PROVE IInv'
    BY <2>3, TrackPreserves
  <2>4. CASE HiddenStateUpdate
    BY <2>4, Unchanged DEF HiddenStateUpdate
  <2>5. ASSUME NEW u \in Updaters, WriteTicketParams(u) \/ BroadcastTicketParams(u)
        PROVE  IInv'
    BY <2>5, Unchanged DEF WriteTicketParams, BroadcastTicketParams
  <2>6. ASSUME NEW s \in Subscribers, NEW stream \in Streams,
               NEW selection \in Selections(stream), Subscribe(s, stream, selection)
        PROVE  IInv'
    BY <2>6, Unchanged DEF Subscribe
  <2>7. ASSUME NEW s \in Subscribers, Activate(s) \/ Receive(s) \/ Close(s)
        PROVE  IInv'
    BY <2>7, Unchanged DEF Activate, Receive, Close
  <2>8. CASE UNCHANGED vars
    BY <2>8, Unchanged DEF vars
  <2> QED
    BY <2>1, <2>2, <2>3, <2>4, <2>5, <2>6, <2>7, <2>8 DEF Next
<1> QED
  BY <1>1, <1>2, PTL DEF Spec

(* A transaction is told to one tracker at most, and truly, whatever the      *)
(* mutators do to the other active transactions (track_transaction,           *)
(* subscribe_track_transaction, submit_and_track_transaction).               *)
THEOREM TrackedOnce == Spec => []ToldOnceAndTruly
<1>1. IInv => ToldOnceAndTruly
  <2> SUFFICES ASSUME IInv, NEW t \in TxIds
               PROVE  /\ Len(told[t]) + (IF t \in DOMAIN active THEN 1 ELSE 0) <= 1
                      /\ told[t] # <<>> =>
                           (told[t][1].status = "Confirmed" /\ told[t][1].safe # "failed"
                              <=> fate[t] = "applied")
    BY DEF ToldOnceAndTruly
  <2>1. CASE told[t] = <<>>
    <3>1. Len(told[t]) = 0
      BY <2>1
    <3> QED
      BY <2>1, <3>1
  <2>2. CASE told[t] # <<>>
    <3>1. t \notin DOMAIN active
      BY <2>2 DEF IInv, Waiting
    <3>2. Len(told[t]) = 1 /\ Truthful(told[t][1], t)
      BY <2>2 DEF IInv, Told
    <3> QED
      BY <3>1, <3>2 DEF Truthful
  <2> QED
    BY <2>1, <2>2
<1> QED
  BY <1>1, Inductive, PTL

(* A submission reported as reverted changed nothing and was heard of by no   *)
(* stream, whatever its mutator did before it failed or was refused           *)
(* (simulate_tx_execution).                                                 *)
THEOREM RevertIsWhole == Spec => RevertLeavesNoTrace
<1> DEFINE Traceless(t) ==
      fate[t] = None /\ fate'[t] = "reverted" =>
        /\ state' = state /\ subs' = subs
        /\ DOMAIN active' = DOMAIN active \cup {t}
<1>1. IInv /\ [Next]_vars => [\A t \in TxIds : Traceless(t)]_vars
  <2> SUFFICES ASSUME IInv, Next, NEW t \in TxIds, fate[t] = None, fate'[t] = "reverted"
               PROVE  /\ state' = state /\ subs' = subs
                      /\ DOMAIN active' = DOMAIN active \cup {t}
    OBVIOUS
  <2>1. fate' # fate
    BY DEF None
  <2>2. PICK u \in TxIds : SubmitAndTrack(u)
    BY <2>1 DEF Next, Submit, HiddenStateUpdate, Track, WriteTicketParams,
                BroadcastTicketParams, Subscribe, Activate, Receive, Close
  <2>3. PICK new \in Mutated, internal \in BOOLEAN :
          /\ Execute(new)
          /\ active' = [v \in DOMAIN Kept(new) \cup {u} |->
                          IF v = u THEN Outcome(internal, new.verdict, Succeeds(new))
                          ELSE Kept(new)[v]]
          /\ fate' = [fate EXCEPT ![u] = IF Succeeds(new) THEN "applied" ELSE "reverted"]
    BY <2>2 DEF SubmitAndTrack, Kept
  <2>4. u = t /\ ~Succeeds(new)
    BY <2>3 DEF IInv, None
  <2>5. DOMAIN active' = {t} \cup DOMAIN active
    BY <2>3, <2>4 DEF Kept
  <2> QED
    BY <2>3, <2>4, <2>5 DEF Execute
<1> QED
  BY <1>1, Inductive, PTL DEF Spec, RevertLeavesNoTrace

-----------------------------------------------------------------------------
(***************************************************************************)
(* What the streams show.  First, numbers, sets and sequences.             *)
(***************************************************************************)

LEMMA LeastNatural ==
  ASSUME NEW T \in SUBSET Nat, T # {}
  PROVE  \E x \in T : \A y \in T : x <= y
<1> DEFINE R == OpToRel(<, Nat)
<1>1. \A x, y \in Nat : <<y, x>> \in R <=> y < x
  BY DEF OpToRel
<1>2. IsWellFoundedOn(R, Nat)
  BY NatLessThanWellFounded
<1> HIDE DEF R
<1>3. \E x \in T : \A y \in T : ~(<<y, x>> \in R)
  BY <1>2, WFMin
<1>4. \E x \in T : \A y \in T : ~(y < x)
  BY <1>1, <1>3
<1> QED BY <1>4

LEMMA GreatestNatural ==
  ASSUME NEW T \in SUBSET Nat, T # {}, NEW b \in Nat, \A x \in T : x <= b
  PROVE  Max(T) \in T /\ \A x \in T : x <= Max(T)
<1> DEFINE U == {y \in Nat : b - y \in T}
<1>1. U \in SUBSET Nat
  OBVIOUS
<1>2. U # {}
  <2>1. PICK x \in T : TRUE
    OBVIOUS
  <2>2. b - x \in Nat /\ b - (b - x) = x
    BY <2>1
  <2> QED BY <2>1, <2>2
<1> HIDE DEF U
<1>3. PICK y \in U : \A z \in U : y <= z
  BY <1>1, <1>2, LeastNatural
<1>4. b - y \in T /\ y \in Nat
  BY <1>3 DEF U
<1>5. \A x \in T : x <= b - y
  <2> SUFFICES ASSUME NEW x \in T  PROVE x <= b - y
    OBVIOUS
  <2>1. b - x \in Nat /\ b - (b - x) = x
    OBVIOUS
  <2>2. b - x \in U
    BY <2>1 DEF U
  <2> QED BY <1>3, <1>4, <2>1, <2>2
<1>6. \E x \in T : \A z \in T : x >= z
  BY <1>4, <1>5
<1> QED BY <1>6 DEF Max

LEMMA LeastOfTwo ==
  ASSUME NEW m \in Nat, NEW n \in Nat
  PROVE  Min({m, n}) \in Nat /\ Min({m, n}) <= m /\ Min({m, n}) <= n
<1>1. \E x \in {m, n} : \A y \in {m, n} : x =< y
  OBVIOUS
<1>2. Min({m, n}) \in {m, n} /\ \A y \in {m, n} : Min({m, n}) =< y
  BY <1>1 DEF Min
<1> QED BY <1>2

(* The sequence that stands for a finite set holds all of it, and no more.    *)
LEMMA SetToSeqHolds ==
  ASSUME NEW S, IsFiniteSet(S)
  PROVE  /\ Cardinality(S) \in Nat /\ DOMAIN SetToSeq(S) = 1 .. Cardinality(S)
         /\ SetToSeq(S) \in [1 .. Cardinality(S) -> S]
         /\ \A i \in 1 .. Cardinality(S) : SetToSeq(S)[i] \in S
         /\ \A x \in S : \E i \in 1 .. Cardinality(S) : SetToSeq(S)[i] = x
<1> DEFINE n == Cardinality(S)
           g == SetToSeq(S)
<1>1. n \in Nat /\ ExistsBijection(1 .. n, S)
  BY FS_CardinalityType
<1>2. \E f \in [1 .. n -> S] : IsInjective(f)
  BY <1>1 DEF ExistsBijection, Bijection, Injection
<1>3. g \in [1 .. n -> S] /\ IsInjective(g)
  BY <1>2 DEF SetToSeq
<1> HIDE DEF g
<1>4. g \in Injection(1 .. n, S)
  BY <1>3 DEF Injection
<1>5. Cardinality(1 .. n) = n
  BY <1>1, FS_Interval
<1>6. g \in Surjection(1 .. n, S)
  BY <1>4, <1>5, FS_Injection
<1> QED BY <1>1, <1>3, <1>6 DEF Surjection, g

-----------------------------------------------------------------------------
(* A stream and what it will show.                                          *)

Messages(c) == [key : Keys[c], value : ValuesOf(c) \cup {Absent}]

Followers(c) ==
  [phase : {"snapshot", "live"}, stream : Streams, selection : SUBSET Keys[c],
   inbox : Seq(Messages(c)), view : [Keys[c] -> ValuesOf(c) \cup {Absent}]]

Nowhere(inbox, k) == \A i \in 1 .. Len(inbox) : inbox[i].key # k

LastOf(inbox, k, i) ==
  /\ i \in 1 .. Len(inbox) /\ inbox[i].key = k
  /\ \A j \in 1 .. Len(inbox) : inbox[j].key = k => j <= i

Among(events, k, event) ==
  \E j \in 1 .. Len(events) : event = events[j] /\ events[j].key = k

(* What an inbox in front of a view shows of a key in the end: the last event *)
(* of a key decides; without one, what is shown stays.                        *)
Shows(inbox, k, view, value) ==
  /\ Nowhere(inbox, k) => value = view
  /\ Nowhere(inbox, k) \/ \E i \in Nat : LastOf(inbox, k, i)
  /\ \A i \in Nat : LastOf(inbox, k, i) => value = inbox[i].value

LEMMA ReplayShows ==
  ASSUME NEW c \in Collections, NEW sub \in Followers(c), NEW k \in sub.selection
  PROVE  Shows(sub.inbox, k, sub.view[k], Replay(sub, k))
<1> DEFINE about == {i \in DOMAIN sub.inbox : sub.inbox[i].key = k}
<1>1. sub.inbox \in Seq(Messages(c))
  BY DEF Followers
<1>2. Len(sub.inbox) \in Nat /\ DOMAIN sub.inbox = 1 .. Len(sub.inbox)
  BY <1>1
<1>3. Replay(sub, k) = IF about # {} THEN sub.inbox[Max(about)].value ELSE sub.view[k]
  BY DEF Replay
<1>4. Nowhere(sub.inbox, k) <=> about = {}
  BY <1>2 DEF Nowhere
<1>5. ASSUME about # {}  PROVE Max(about) \in about /\ \A i \in about : i <= Max(about)
  <2>1. about \in SUBSET Nat /\ \A i \in about : i <= Len(sub.inbox)
    BY <1>2
  <2> HIDE DEF about
  <2> QED BY <1>2, <1>5, <2>1, GreatestNatural
<1>6. ASSUME about # {}  PROVE LastOf(sub.inbox, k, Max(about))
  BY <1>2, <1>5, <1>6 DEF LastOf
<1>7. ASSUME NEW i, LastOf(sub.inbox, k, i)  PROVE about # {} /\ i = Max(about)
  <2>1. i \in about /\ \A j \in about : j <= i
    BY <1>2, <1>7 DEF LastOf
  <2>2. Max(about) \in about /\ i <= Max(about) /\ Max(about) <= i
    BY <1>5, <2>1
  <2> QED BY <1>2, <2>1, <2>2
<1>8. about # {} => Max(about) \in Nat /\ LastOf(sub.inbox, k, Max(about))
  BY <1>2, <1>5, <1>6
<1> HIDE DEF about
<1> QED BY <1>3, <1>4, <1>7, <1>8 DEF Shows

(* The places of two sequences one after the other.                          *)
Joins(s, t, st, m, n) ==
  /\ m \in Nat /\ n \in Nat /\ Len(st) = m + n
  /\ \A i \in 1 .. m : i \in 1 .. m + n /\ st[i] = s[i]
  /\ \A i \in 1 .. n : m + i \in 1 .. m + n /\ st[m + i] = t[i]
  /\ \A i \in 1 .. m + n : i \in 1 .. m \/ (i > m /\ i - m \in 1 .. n /\ st[i] = t[i - m])

LEMMA Concatenation ==
  ASSUME NEW S, NEW s \in Seq(S), NEW t \in Seq(S), NEW st, st = s \o t
  PROVE  Joins(s, t, st, Len(s), Len(t))
<1> DEFINE m == Len(s)
           n == Len(t)
<1>1. m \in Nat /\ n \in Nat /\ Len(st) = m + n
  OBVIOUS
<1>2. \A i \in 1 .. m + n : st[i] = IF i <= m THEN s[i] ELSE t[i - m]
  BY ConcatProperties
<1> HIDE DEF m, n
<1>3. /\ \A i \in 1 .. m : i \in 1 .. m + n /\ i <= m
      /\ \A i \in 1 .. n : m + i \in 1 .. m + n /\ ~(m + i <= m) /\ (m + i) - m = i
      /\ \A i \in 1 .. m + n : i \in 1 .. m \/ (i > m /\ i - m \in 1 .. n /\ ~(i <= m))
  BY <1>1
<1>4. \A i \in 1 .. m : st[i] = s[i]
  BY <1>2, <1>3
<1>5. \A i \in 1 .. n : st[m + i] = t[i]
  <2> SUFFICES ASSUME NEW i \in 1 .. n  PROVE st[m + i] = t[i]
    OBVIOUS
  <2>1. st[m + i] = IF m + i <= m THEN s[m + i] ELSE t[(m + i) - m]
    BY <1>2, <1>3
  <2> QED BY <1>3, <2>1
<1>6. \A i \in 1 .. m + n : i \in 1 .. m \/ (i > m /\ i - m \in 1 .. n /\ st[i] = t[i - m])
  BY <1>2, <1>3
<1> QED BY <1>1, <1>3, <1>4, <1>5, <1>6 DEF Joins, m, n

(* The last event of a key when some are added.                              *)
LastOfBoth(s, t, st, k) ==
  /\ Nowhere(s, k) /\ Nowhere(t, k) => Nowhere(st, k)
  /\ Nowhere(t, k) => \A i \in Nat : LastOf(s, k, i) => LastOf(st, k, i) /\ st[i] = s[i]
  /\ ~Nowhere(t, k) => ~Nowhere(st, k)

LEMMA LastOfConcatenation ==
  ASSUME NEW S, NEW s \in Seq(S), NEW t \in Seq(S), NEW st, st = s \o t, NEW k
  PROVE  LastOfBoth(s, t, st, k)
<1> DEFINE m == Len(s)
           n == Len(t)
<1>1. /\ m \in Nat /\ n \in Nat /\ Len(st) = m + n
      /\ \A i \in 1 .. m : i \in 1 .. m + n /\ st[i] = s[i]
      /\ \A i \in 1 .. n : m + i \in 1 .. m + n /\ st[m + i] = t[i]
      /\ \A i \in 1 .. m + n : i \in 1 .. m \/ (i > m /\ i - m \in 1 .. n /\ st[i] = t[i - m])
  <2>1. Joins(s, t, st, m, n)
    BY Concatenation
  <2> QED BY <2>1 DEF Joins
<1> HIDE DEF m, n
<1>2. Nowhere(s, k) /\ Nowhere(t, k) => Nowhere(st, k)
  BY <1>1 DEF Nowhere, m, n
<1>3. ASSUME Nowhere(t, k), NEW i \in Nat, LastOf(s, k, i)  PROVE LastOf(st, k, i) /\ st[i] = s[i]
  <2>1. i \in 1 .. m /\ s[i].key = k /\ \A j \in 1 .. m : s[j].key = k => j <= i
    BY <1>3 DEF LastOf, m
  <2>2. i \in 1 .. m + n /\ st[i] = s[i]
    BY <1>1, <2>1
  <2>3. \A j \in 1 .. m + n : st[j].key = k => j \in 1 .. m /\ s[j].key = k
    BY <1>1, <1>3 DEF Nowhere, n
  <2> QED BY <1>1, <2>1, <2>2, <2>3 DEF LastOf
<1>4. ASSUME ~Nowhere(t, k)  PROVE ~Nowhere(st, k)
  <2>1. PICK j \in 1 .. n : t[j].key = k
    BY <1>4 DEF Nowhere, n
  <2>2. m + j \in 1 .. m + n /\ st[m + j].key = k
    BY <1>1, <2>1
  <2> QED BY <1>1, <2>2 DEF Nowhere
<1> QED BY <1>2, <1>3, <1>4 DEF LastOfBoth

LEMMA LastIsAmong ==
  ASSUME NEW S, NEW s \in Seq(S), NEW t \in Seq(S), NEW st, st = s \o t, NEW k,
         ~Nowhere(t, k), NEW i \in Nat, LastOf(st, k, i)
  PROVE  Among(t, k, st[i])
<1> DEFINE m == Len(s)
           n == Len(t)
<1>1. /\ m \in Nat /\ n \in Nat /\ Len(st) = m + n
      /\ \A j \in 1 .. n : m + j \in 1 .. m + n /\ st[m + j] = t[j]
      /\ \A j \in 1 .. m + n : j \in 1 .. m \/ (j > m /\ j - m \in 1 .. n /\ st[j] = t[j - m])
  <2>1. Joins(s, t, st, m, n)
    BY Concatenation
  <2> QED BY <2>1 DEF Joins
<1> HIDE DEF m, n
<1>2. PICK j \in 1 .. n : t[j].key = k
  BY DEF Nowhere, n
<1>3. i \in 1 .. m + n /\ st[i].key = k /\ m + j <= i
  BY <1>1, <1>2 DEF LastOf
<1>4. i \notin 1 .. m
  BY <1>1, <1>2, <1>3
<1>5. i - m \in 1 .. n /\ st[i] = t[i - m]
  BY <1>1, <1>3, <1>4
<1> QED BY <1>3, <1>5 DEF Among, n

(* What a stream hears decides what it will show of the keys it is about.      *)
Follow(shown, shows, more, k) ==
  /\ Nowhere(more, k) => shows = shown
  /\ \A v : /\ ~Nowhere(more, k)
            /\ \A i \in 1 .. Len(more) : more[i].key = k => more[i].value = v
            => shows = v

LEMMA HeardReplay ==
  ASSUME NEW c \in Collections, NEW sub \in Followers(c), NEW more \in Seq(Messages(c)),
         NEW heard \in Followers(c), heard.inbox = sub.inbox \o more,
         heard.view = sub.view, heard.selection = sub.selection, NEW k \in sub.selection
  PROVE  Follow(Replay(sub, k), Replay(heard, k), more, k)
<1>1. sub.inbox \in Seq(Messages(c)) /\ k \in heard.selection
  BY DEF Followers
<1> DEFINE s == sub.inbox
           st == heard.inbox
           shown == Replay(sub, k)
           shows == Replay(heard, k)
           M == Messages(c)
<1>a. Shows(s, k, sub.view[k], shown)
  BY ReplayShows
<1>b. Shows(st, k, heard.view[k], shows)
  BY <1>1, ReplayShows
<1>2. /\ Nowhere(s, k) => shown = sub.view[k]
      /\ Nowhere(s, k) \/ \E i \in Nat : LastOf(s, k, i)
      /\ \A i \in Nat : LastOf(s, k, i) => shown = s[i].value
  BY <1>a DEF Shows
<1>3. /\ Nowhere(st, k) => shows = sub.view[k]
      /\ Nowhere(st, k) \/ \E i \in Nat : LastOf(st, k, i)
      /\ \A i \in Nat : LastOf(st, k, i) => shows = st[i].value
  BY <1>b DEF Shows
<1>0. s \in Seq(M) /\ more \in Seq(M) /\ st = s \o more
  BY <1>1
<1> HIDE DEF s, st, shown, shows, M
<1>c. LastOfBoth(s, more, st, k)
  BY <1>0, LastOfConcatenation
<1>4. /\ Nowhere(s, k) /\ Nowhere(more, k) => Nowhere(st, k)
      /\ Nowhere(more, k) => \A i \in Nat : LastOf(s, k, i) => LastOf(st, k, i) /\ st[i] = s[i]
      /\ ~Nowhere(more, k) => ~Nowhere(st, k)
  BY <1>c DEF LastOfBoth
<1>5. ASSUME Nowhere(more, k)  PROVE shows = shown
  <2>1. ASSUME NEW i \in Nat, LastOf(s, k, i)  PROVE shows = shown
    BY <1>2, <1>3, <1>4, <1>5, <2>1
  <2>2. CASE Nowhere(s, k)
    BY <1>2, <1>3, <1>4, <1>5, <2>2
  <2> QED BY <1>2, <2>1, <2>2
<1>6. ASSUME ~Nowhere(more, k)
      PROVE  \E j \in 1 .. Len(more) : shows = more[j].value /\ more[j].key = k
  <2>1. PICK i \in Nat : LastOf(st, k, i)
    BY <1>3, <1>4, <1>6
  <2>2. Among(more, k, st[i])
    BY <1>0, <1>6, <2>1, LastIsAmong
  <2>3. shows = st[i].value
    BY <1>3, <2>1
  <2> QED BY <2>2, <2>3 DEF Among
<1> QED BY <1>5, <1>6, Zenon DEF shown, shows, Follow

LEMMA TailHolds ==
  ASSUME NEW S, NEW s \in Seq(S), s # <<>>, NEW rest, rest = Tail(s), NEW n, n = Len(rest)
  PROVE  /\ Head(s) = s[1] /\ Head(s) \in S /\ rest \in Seq(S) /\ n \in Nat /\ Len(s) = n + 1
         /\ 1 \in 1 .. n + 1
         /\ \A i \in 1 .. n : i + 1 \in 1 .. n + 1 /\ rest[i] = s[i + 1]
         /\ \A i \in 1 .. n + 1 : i = 1 \/ (i - 1 \in 1 .. n /\ s[i] = rest[i - 1])
<1>1. Len(s) \in Nat /\ Len(s) > 0 /\ Head(s) = s[1] /\ Head(s) \in S
  BY EmptySeq
<1>2. rest \in Seq(S) /\ n \in Nat /\ Len(s) = n + 1
  BY HeadTailProperties
<1>3. \A i \in 1 .. n : rest[i] = s[i + 1]
  BY <1>2
<1>4. /\ 1 \in 1 .. n + 1
      /\ \A i \in 1 .. n : i + 1 \in 1 .. n + 1
      /\ \A i \in 1 .. n + 1 : i = 1 \/ (i - 1 \in 1 .. n /\ (i - 1) + 1 = i)
  BY <1>2
<1> QED BY <1>1, <1>2, <1>3, <1>4

(* The last event of a key when the first event is taken away.               *)
SameLast(s, rest, k) ==
  /\ Nowhere(rest, k) /\ Head(s).key # k => Nowhere(s, k)
  /\ Nowhere(rest, k) /\ Head(s).key = k => LastOf(s, k, 1) /\ s[1] = Head(s)
  /\ \A i \in Nat : LastOf(rest, k, i) =>
       i + 1 \in Nat /\ LastOf(s, k, i + 1) /\ s[i + 1] = rest[i]
LEMMA LastOfTail ==
  ASSUME NEW S, NEW s \in Seq(S), s # <<>>, NEW rest, rest = Tail(s), NEW k
  PROVE  SameLast(s, rest, k)
<1> DEFINE n == Len(rest)
<1>1. /\ Head(s) = s[1] /\ n \in Nat /\ Len(s) = n + 1 /\ 1 \in 1 .. n + 1
      /\ \A i \in 1 .. n : i + 1 \in 1 .. n + 1 /\ rest[i] = s[i + 1]
      /\ \A i \in 1 .. n + 1 : i = 1 \/ (i - 1 \in 1 .. n /\ s[i] = rest[i - 1])
  BY TailHolds
<1> HIDE DEF n
<1>2. Nowhere(rest, k) /\ Head(s).key # k => Nowhere(s, k)
  BY <1>1 DEF Nowhere, n
<1>3. ASSUME Nowhere(rest, k), Head(s).key = k  PROVE LastOf(s, k, 1)
  <2>1. \A j \in 1 .. n + 1 : s[j].key = k => j <= 1
    BY <1>1, <1>3 DEF Nowhere, n
  <2> QED BY <1>1, <1>3, <2>1 DEF LastOf
<1>4. ASSUME NEW i \in Nat, LastOf(rest, k, i)  PROVE LastOf(s, k, i + 1) /\ s[i + 1] = rest[i]
  <2>1. i \in 1 .. n /\ rest[i].key = k /\ \A j \in 1 .. n : rest[j].key = k => j <= i
    BY <1>4 DEF LastOf, n
  <2>2. i + 1 \in 1 .. n + 1 /\ s[i + 1] = rest[i]
    BY <1>1, <2>1
  <2>3. \A j \in 1 .. n + 1 : s[j].key = k => j <= i + 1
    BY <1>1, <2>1
  <2> QED BY <1>1, <2>1, <2>2, <2>3 DEF LastOf
<1>5. \A i \in Nat : i + 1 \in Nat
  OBVIOUS
<1> QED BY <1>1, <1>2, <1>3, <1>4, <1>5 DEF SameLast

LEMMA TailShows ==
  ASSUME NEW S, NEW s \in Seq(S), s # <<>>, NEW rest, rest = Tail(s), NEW k,
         NEW old, NEW new, NEW x, NEW y, Shows(s, k, old, x), Shows(rest, k, new, y),
         new = IF Head(s).key = k THEN Head(s).value ELSE old
  PROVE  x = y
<1>0. SameLast(s, rest, k)
  BY LastOfTail
<1>1. /\ Nowhere(rest, k) /\ Head(s).key # k => Nowhere(s, k)
      /\ Nowhere(rest, k) /\ Head(s).key = k => LastOf(s, k, 1) /\ s[1] = Head(s)
      /\ \A i \in Nat : LastOf(rest, k, i) =>
           i + 1 \in Nat /\ LastOf(s, k, i + 1) /\ s[i + 1] = rest[i]
  BY <1>0 DEF SameLast
<1>2. CASE Nowhere(rest, k)
  <2>1. y = new
    BY <1>2 DEF Shows
  <2>2. CASE Head(s).key = k
    <3>1. 1 \in Nat /\ LastOf(s, k, 1) /\ s[1] = Head(s)
      BY <1>1, <1>2, <2>2
    <3> QED BY <2>1, <2>2, <3>1 DEF Shows
  <2>3. CASE Head(s).key # k
    BY <1>1, <1>2, <2>1, <2>3 DEF Shows
  <2> QED BY <2>2, <2>3
<1>3. ASSUME NEW i \in Nat, LastOf(rest, k, i)  PROVE x = y
  <2>1. y = rest[i].value
    BY <1>3 DEF Shows
  <2>2. i + 1 \in Nat /\ LastOf(s, k, i + 1) /\ s[i + 1] = rest[i]
    BY <1>1, <1>3
  <2>3. x = s[i + 1].value
    BY <2>2 DEF Shows
  <2> QED BY <2>1, <2>2, <2>3
<1> QED BY <1>2, <1>3 DEF Shows

(* A consumer that takes an event will show what it would have shown.         *)
(* Taking in the first event of an inbox shows the same in the end.          *)
ShowsTheSame(c, sub, next) ==
  /\ next \in Followers(c) /\ next.phase = sub.phase /\ next.stream = sub.stream
  /\ next.selection = sub.selection
  /\ Len(next.inbox) <= Len(sub.inbox)
  /\ \A k \in sub.selection : Replay(next, k) = Replay(sub, k)

LEMMA ReceivedReplay ==
  ASSUME NEW c \in Collections, NEW sub \in Followers(c), sub.inbox # <<>>,
         NEW next, next = [Show(sub, Head(sub.inbox)) EXCEPT !.inbox = Tail(@)]
  PROVE  ShowsTheSame(c, sub, next)
<1> DEFINE event == Head(sub.inbox)
           rest == Tail(sub.inbox)
<1>1. /\ sub.inbox \in Seq(Messages(c)) /\ sub.selection \subseteq Keys[c]
      /\ sub.view \in [Keys[c] -> ValuesOf(c) \cup {Absent}]
  BY DEF Followers
<1>2. /\ event \in Messages(c) /\ rest \in Seq(Messages(c))
      /\ Len(rest) \in Nat /\ Len(sub.inbox) = Len(rest) + 1
  BY <1>1, TailHolds
<1>3. event.key \in Keys[c] /\ event.value \in ValuesOf(c) \cup {Absent}
  BY <1>2 DEF Messages
<1> HIDE DEF event, rest
<1>4. /\ next.phase = sub.phase /\ next.stream = sub.stream /\ next.selection = sub.selection
      /\ next.inbox = rest
      /\ next.view = IF event.key \in sub.selection
                     THEN [sub.view EXCEPT ![event.key] = event.value] ELSE sub.view
      /\ next = [phase |-> next.phase, stream |-> next.stream, selection |-> next.selection,
                 inbox |-> next.inbox, view |-> next.view]
  BY DEF Show, Followers, event, rest
<1>5. next.view \in [Keys[c] -> ValuesOf(c) \cup {Absent}]
  BY <1>1, <1>3, <1>4
<1>6. next \in Followers(c)
  BY <1>2, <1>4, <1>5 DEF Followers
<1>7. Len(next.inbox) <= Len(sub.inbox)
  BY <1>2, <1>4
<1>8. ASSUME NEW k \in sub.selection  PROVE Replay(next, k) = Replay(sub, k)
  <2> DEFINE M == Messages(c)
             s == sub.inbox
             t == next.inbox
             old == sub.view[k]
             new == next.view[k]
             x == Replay(sub, k)
             y == Replay(next, k)
  <2>1. Shows(s, k, old, x)
    BY ReplayShows
  <2>2. Shows(t, k, new, y)
    BY <1>4, <1>6, ReplayShows
  <2>3. s \in Seq(M) /\ s # <<>> /\ t = Tail(s)
    BY <1>1, <1>4 DEF rest
  <2>4. new = IF Head(s).key = k THEN Head(s).value ELSE old
    BY <1>1, <1>4 DEF event
  <2> HIDE DEF M, s, t, old, new, x, y
  <2>5. x = y
    BY <2>1, <2>2, <2>3, <2>4, TailShows
  <2> QED BY <2>5 DEF x, y
<1> QED BY <1>4, <1>6, <1>7, <1>8 DEF ShowsTheSame

-----------------------------------------------------------------------------
(***************************************************************************)
(* No transaction is lost.  Active ones and tellings are finitely many, and *)
(* their number does not fall behind that of the submissions.              *)
(***************************************************************************)

Outcomes == [status : {"Confirmed", "Reverted"}, safe : {"none", "succeeded", "failed"}]

Submitted == {t \in TxIds : fate[t] # None}

ActiveOk ==
  /\ IsFiniteSet(DOMAIN active) /\ DOMAIN active \subseteq TxIds \cup {Foreign}
  /\ \A t \in DOMAIN active : active[t] \in Outcomes

TellingsOk ==
  /\ \A t \in TxIds \cup {Foreign} : told[t] \in Seq(Outcomes)
  /\ IsFiniteSet(Tellings) /\ IsFiniteSet(Submitted)

Counted == ActiveOk /\ TellingsOk /\ NoTransactionLost

LEMMA OutcomeType ==
  ASSUME NEW internal, NEW verdict, NEW success
  PROVE  Outcome(internal, verdict, success) \in Outcomes
<1> DEFINE o == Outcome(internal, verdict, success)
<1>1. o.status \in {"Confirmed", "Reverted"} /\ o = [status |-> o.status, safe |-> o.safe]
  BY DEF Outcome
<1>2. o.safe \in {"none", "succeeded", "failed"}
  BY DEF Outcome
<1> HIDE DEF o
<1> QED BY <1>1, <1>2 DEF Outcomes, o

(* What a mutator makes of the active transactions when it succeeds.         *)
LEMMA KeptOk ==
  ASSUME ActiveOk, NEW new \in Mutated
  PROVE  /\ IsFiniteSet(DOMAIN Kept(new)) /\ DOMAIN Kept(new) \subseteq TxIds \cup {Foreign}
         /\ \A t \in DOMAIN Kept(new) : Kept(new)[t] \in Outcomes
         /\ Cardinality(DOMAIN Kept(new)) >= Cardinality(DOMAIN active)
<1>0. IsFiniteSet(DOMAIN active) /\ Cardinality(DOMAIN active) \in Nat
  BY FS_CardinalityType DEF ActiveOk
<1>1. CASE ~Succeeds(new)
  BY <1>0, <1>1 DEF Kept, ActiveOk
<1>2. CASE Succeeds(new)
  <2>1. Kept(new) = new.active /\ Cardinality(DOMAIN new.active) >= Cardinality(DOMAIN active)
    BY <1>2 DEF Kept, Succeeds, Consistent
  <2>2. new.active \in {active} \cup ActiveMutations
    BY DEF Mutated
  <2>3. CASE new.active = active
    BY <2>1, <2>3 DEF ActiveOk
  <2>4. ASSUME NEW u \in DOMAIN active, new.active = Restrict(active, DOMAIN active \ {u})
        PROVE  /\ DOMAIN new.active \subseteq DOMAIN active
               /\ \A t \in DOMAIN new.active : new.active[t] \in Outcomes
    BY <2>4 DEF Restrict, ActiveOk
  <2>5. ASSUME NEW u \in DOMAIN active,
               new.active = [v \in (DOMAIN active \ {u}) \cup {Foreign} |->
                               IF v = Foreign THEN active[u] ELSE active[v]]
        PROVE  /\ DOMAIN new.active \subseteq DOMAIN active \cup {Foreign}
               /\ \A t \in DOMAIN new.active : new.active[t] \in Outcomes
    BY <2>5 DEF ActiveOk
  <2>6. /\ DOMAIN new.active \subseteq DOMAIN active \cup {Foreign}
        /\ \A t \in DOMAIN new.active : new.active[t] \in Outcomes
    BY <2>2, <2>3, <2>4, <2>5 DEF ActiveMutations, ActiveOk
  <2>7. IsFiniteSet(DOMAIN new.active)
    BY <1>0, <2>6, FS_AddElement, FS_Subset
  <2> QED BY <2>1, <2>6, <2>7 DEF ActiveOk
<1> QED BY <1>1, <1>2

LEMMA SubmitCounts ==
  ASSUME Counted, Submit
  PROVE  Counted'
<1>1. UNCHANGED <<fate, told>>
  BY DEF Submit
<1>2. PICK new \in Mutated : active' = Kept(new)
  BY DEF Submit, Kept
<1>3. ActiveOk' /\ Cardinality(DOMAIN active') >= Cardinality(DOMAIN active)
  BY <1>2, KeptOk DEF ActiveOk, Counted
<1>4. Tellings' = Tellings /\ Submitted' = Submitted /\ TellingsOk'
  BY <1>1 DEF Tellings, Submitted, TellingsOk, Counted
<1>5. \A S : IsFiniteSet(S) => Cardinality(S) \in Nat
  BY FS_CardinalityType
<1>6. /\ Cardinality(DOMAIN active) \in Nat /\ Cardinality(DOMAIN active') \in Nat
      /\ Cardinality(Tellings) \in Nat /\ Cardinality(Submitted) \in Nat
  BY <1>3, <1>5 DEF ActiveOk, TellingsOk, Counted
<1>7. NoTransactionLost'
  BY <1>3, <1>4, <1>6 DEF NoTransactionLost, Counted, Submitted
<1> QED BY <1>3, <1>4, <1>7 DEF Counted

LEMMA SubmitAndTrackCounts ==
  ASSUME IInv, Counted, NEW t \in TxIds, SubmitAndTrack(t)
  PROVE  Counted'
<1>1. fate[t] = None /\ UNCHANGED told
  BY DEF SubmitAndTrack
<1>2. PICK new \in Mutated, internal \in BOOLEAN :
        /\ active' = [v \in DOMAIN Kept(new) \cup {t} |->
                        IF v = t THEN Outcome(internal, new.verdict, Succeeds(new))
                        ELSE Kept(new)[v]]
        /\ fate' = [fate EXCEPT ![t] = IF Succeeds(new) THEN "applied" ELSE "reverted"]
  BY DEF SubmitAndTrack, Kept
<1> DEFINE K == DOMAIN Kept(new)
<1>3. /\ IsFiniteSet(K) /\ K \subseteq TxIds \cup {Foreign}
      /\ \A u \in K : Kept(new)[u] \in Outcomes
      /\ Cardinality(K) >= Cardinality(DOMAIN active)
  BY KeptOk DEF Counted
<1>4. t \notin K
  <2>1. t \notin DOMAIN active
    BY <1>1 DEF IInv, Waiting
  <2> QED BY <2>1, MutatorKeeps DEF Kept
<1>5. DOMAIN active' = K \cup {t}
  BY <1>2
<1>6. /\ IsFiniteSet(DOMAIN active') /\ Cardinality(DOMAIN active') = Cardinality(K) + 1
  BY <1>3, <1>4, <1>5, FS_AddElement
<1>7. ActiveOk'
  <2>1. ASSUME NEW u \in DOMAIN active'  PROVE active'[u] \in Outcomes
    BY <1>2, <1>3, <1>5, OutcomeType
  <2> QED BY <1>3, <1>5, <1>6, <2>1 DEF ActiveOk
<1>8. Submitted' = Submitted \cup {t} /\ t \notin Submitted
  <2>1. fate'[t] # None /\ \A u \in TxIds \ {t} : fate'[u] = fate[u]
    BY <1>2 DEF IInv, None
  <2> QED BY <1>1, <2>1 DEF Submitted
<1>9. IsFiniteSet(Submitted') /\ Cardinality(Submitted') = Cardinality(Submitted) + 1
  BY <1>8, FS_AddElement DEF Counted, TellingsOk
<1>10. Tellings' = Tellings /\ TellingsOk'
  BY <1>1, <1>9 DEF Tellings, TellingsOk, Counted
<1>11. \A S : IsFiniteSet(S) => Cardinality(S) \in Nat
  BY FS_CardinalityType
<1>12. /\ Cardinality(DOMAIN active) \in Nat /\ Cardinality(K) \in Nat
       /\ Cardinality(Tellings) \in Nat /\ Cardinality(Submitted) \in Nat
  BY <1>3, <1>11 DEF ActiveOk, TellingsOk, Counted
<1> HIDE DEF K
<1>13. NoTransactionLost'
  BY <1>3, <1>6, <1>9, <1>10, <1>12 DEF NoTransactionLost, Counted, Submitted
<1> QED BY <1>7, <1>10, <1>13 DEF Counted

LEMMA TrackCounts ==
  ASSUME IInv, Counted, NEW t \in TxIds \cup {Foreign}, Track(t)
  PROVE  Counted'
<1>1. /\ t \in DOMAIN active /\ UNCHANGED fate
      /\ active' = [u \in DOMAIN active \ {t} |-> active[u]]
      /\ told' = [told EXCEPT ![t] = Append(told[t], active[t])]
  BY DEF Track, Restrict
<1>2. active[t] \in Outcomes /\ told[t] \in Seq(Outcomes)
  BY <1>1 DEF Counted, ActiveOk, TellingsOk
<1> DEFINE n == Len(told[t])
<1>3. /\ n \in Nat /\ DOMAIN told[t] = 1 .. n
      /\ told'[t] \in Seq(Outcomes) /\ DOMAIN told'[t] = 1 .. n + 1
      /\ \A u \in (TxIds \cup {Foreign}) \ {t} : told'[u] = told[u]
  <2>1. told'[t] = Append(told[t], active[t])
    BY <1>1 DEF IInv
  <2>2. /\ n \in Nat /\ DOMAIN told[t] = 1 .. n
        /\ told'[t] \in Seq(Outcomes) /\ DOMAIN told'[t] = 1 .. n + 1
    BY <1>2, <2>1
  <2> QED BY <1>1, <2>2 DEF IInv
<1>4. 1 .. n + 1 = (1 .. n) \cup {n + 1} /\ n + 1 \notin 1 .. n
  BY <1>3
<1> HIDE DEF n
<1>5. Tellings' = Tellings \cup {<<t, n + 1>>} /\ <<t, n + 1>> \notin Tellings
  <2>1. \A u, i : <<u, i>> \in Tellings <=> u \in TxIds \cup {Foreign} /\ i \in DOMAIN told[u]
    BY DEF Tellings
  <2>2. \A u, i : <<u, i>> \in Tellings' <=> u \in TxIds \cup {Foreign} /\ i \in DOMAIN told'[u]
    BY DEF Tellings
  <2>3. \A x \in Tellings : \E u, i : x = <<u, i>>
    BY DEF Tellings
  <2>4. \A x \in Tellings' : \E u, i : x = <<u, i>>
    BY DEF Tellings
  <2>5. <<t, n + 1>> \notin Tellings /\ <<t, n + 1>> \in Tellings'
    BY <1>3, <1>4, <2>1, <2>2
  <2>6. \A u, i : <<u, i>> \in Tellings' <=> <<u, i>> \in Tellings \/ <<u, i>> = <<t, n + 1>>
    BY <1>3, <1>4, <2>1, <2>2
  <2> QED BY <2>3, <2>4, <2>5, <2>6
<1>6. IsFiniteSet(Tellings') /\ Cardinality(Tellings') = Cardinality(Tellings) + 1
  BY <1>5, FS_AddElement DEF Counted, TellingsOk
<1>7. /\ IsFiniteSet(DOMAIN active')
      /\ Cardinality(DOMAIN active') = Cardinality(DOMAIN active) - 1
  <2>1. DOMAIN active' = DOMAIN active \ {t}
    BY <1>1
  <2> QED BY <1>1, <2>1, FS_RemoveElement DEF Counted, ActiveOk
<1>8. ActiveOk'
  BY <1>1, <1>7 DEF ActiveOk, Counted
<1>9. Submitted' = Submitted /\ TellingsOk'
  BY <1>1, <1>3, <1>6 DEF Submitted, TellingsOk, Counted
<1>10. \A S : IsFiniteSet(S) => Cardinality(S) \in Nat
  BY FS_CardinalityType
<1>11. /\ Cardinality(DOMAIN active) \in Nat
       /\ Cardinality(Tellings) \in Nat /\ Cardinality(Submitted) \in Nat
  BY <1>10 DEF ActiveOk, TellingsOk, Counted
<1>12. NoTransactionLost'
  <2> DEFINE a == Cardinality(DOMAIN active)
             b == Cardinality(Tellings)
             m == Cardinality(Submitted)
  <2>1. a + b >= m /\ a \in Nat /\ b \in Nat /\ m \in Nat
    BY <1>11 DEF NoTransactionLost, Counted, Submitted
  <2>2. Cardinality(Submitted') = m
    BY <1>9, Zenon
  <2> HIDE DEF a, b, m
  <2>3. (a - 1) + (b + 1) >= m
    BY <2>1
  <2>4. Cardinality(DOMAIN active') + Cardinality(Tellings') >= Cardinality(Submitted')
    BY <1>6, <1>7, <2>2, <2>3, Zenon DEF a, b, m
  <2> QED BY <2>4, Zenon DEF NoTransactionLost, Submitted
<1> QED BY <1>8, <1>9, <1>12 DEF Counted

LEMMA CountedUnchanged ==
  ASSUME Counted, UNCHANGED <<active, fate, told>>
  PROVE  Counted'
BY DEF Counted, ActiveOk, TellingsOk, Tellings, Submitted, NoTransactionLost

LEMMA CountedHolds == Spec => []Counted
<1>1. Init => Counted
  <2> SUFFICES ASSUME Init PROVE Counted
    OBVIOUS
  <2>1. /\ DOMAIN active = {} /\ Submitted = {}
        /\ \A t \in TxIds \cup {Foreign} : told[t] = <<>>
    BY DEF Init, Submitted
  <2>2. Tellings = {}
    BY <2>1 DEF Tellings
  <2>3. IsFiniteSet({}) /\ Cardinality({}) = 0
    BY FS_EmptySet
  <2>4. {t \in TxIds : fate[t] # None} = {}
    BY <2>1 DEF Submitted
  <2>5. /\ Cardinality(DOMAIN active) = 0 /\ Cardinality(Tellings) = 0
        /\ Cardinality({t \in TxIds : fate[t] # None}) = 0
        /\ IsFiniteSet(DOMAIN active) /\ IsFiniteSet(Tellings) /\ IsFiniteSet(Submitted)
    BY <2>1, <2>2, <2>3, <2>4, Zenon
  <2>6. NoTransactionLost
    BY <2>5 DEF NoTransactionLost
  <2>7. \A t \in TxIds \cup {Foreign} : told[t] \in Seq(Outcomes)
    <3>1. <<>> \in Seq(Outcomes)
      OBVIOUS
    <3> QED BY <2>1, <3>1, Zenon
  <2> QED BY <2>1, <2>5, <2>6, <2>7 DEF Counted, ActiveOk, TellingsOk
<1>2. IInv /\ Counted /\ [Next]_vars => Counted'
  <2> SUFFICES ASSUME IInv, Counted, [Next]_vars PROVE Counted'
    OBVIOUS
  <2>1. CASE Submit
    BY <2>1, SubmitCounts
  <2>2. ASSUME NEW t \in TxIds, SubmitAndTrack(t) PROVE Counted'
    BY <2>2, SubmitAndTrackCounts
  <2>3. ASSUME NEW t \in TxIds \cup {Foreign}, Track(t) PROVE Counted'
    BY <2>3, TrackCounts
  <2>4. CASE HiddenStateUpdate
    BY <2>4, CountedUnchanged DEF HiddenStateUpdate
  <2>5. ASSUME NEW u \in Updaters, WriteTicketParams(u) \/ BroadcastTicketParams(u)
        PROVE  Counted'
    BY <2>5, CountedUnchanged DEF WriteTicketParams, BroadcastTicketParams
  <2>6. ASSUME NEW s \in Subscribers, NEW stream \in Streams,
               NEW selection \in Selections(stream), Subscribe(s, stream, selection)
        PROVE  Counted'
    BY <2>6, CountedUnchanged DEF Subscribe
  <2>7. ASSUME NEW s \in Subscribers, Activate(s) \/ Receive(s) \/ Close(s)
        PROVE  Counted'
    BY <2>7, CountedUnchanged DEF Activate, Receive, Close
  <2>8. CASE UNCHANGED vars
    BY <2>8, CountedUnchanged DEF vars
  <2> QED
    BY <2>1, <2>2, <2>3, <2>4, <2>5, <2>6, <2>7, <2>8 DEF Next
<1> QED BY <1>1, <1>2, Inductive, PTL DEF Spec

(* The checks on the number of active transactions suffice: whatever mutators *)
(* do to them, there is one to track, or one was tracked, for every submission *)
(* (submit_and_track_transaction, simulate_tx_execution).                   *)
THEOREM NoneLost == Spec => []NoTransactionLost
<1>1. Counted => NoTransactionLost
  BY DEF Counted
<1> QED BY <1>1, CountedHolds, PTL

-----------------------------------------------------------------------------
(***************************************************************************)
(* The inductive invariant of the streams.  An open stream has its type; what *)
(* it will show of a key is what the state has, or there is a reason that    *)
(* this kind of stream may have, or a call of update_price_and_win_prob still *)
(* has to broadcast.                                                       *)
(***************************************************************************)

StreamOk(s) == Open(s) =>
  /\ subs[s] \in Followers(About(s)) /\ Len(subs[s].inbox) <= Capacity
  /\ subs[s].phase = "snapshot" => subs[s].inbox = <<>> /\ subs[s].stream \notin Locked

Allowed(stream) ==
  {"channel full", "hidden"}
    \cup (IF stream \in Locked THEN {} ELSE {"before activation"})
    \cup (IF Follows(stream) \in {"services"} \cup Single THEN {} ELSE {"removed"})
    \cup (IF Follows(stream) = "channels" THEN {"endpoint missing"} ELSE {})
    \cup (IF stream = "ticket_params" THEN {"overtaken"} ELSE {})

Announced(stream) == stream = "ticket_params" /\ \E u \in Updaters : pending[u] # Absent

Excused(s) == Open(s) =>
  \A k \in Differs(s) : excuse[s][k] \in Allowed(subs[s].stream) \/ Announced(subs[s].stream)

TablesOk ==
  /\ IsState(state)
  /\ pending \in [Updaters -> Values["ticket_params"] \cup {Absent}]
  /\ excuse \in [Subscribers -> [DOMAIN NoExcuse -> Reasons \cup {None}]]
  /\ DOMAIN subs = Subscribers

StreamsInv == TablesOk /\ \A s \in Subscribers : StreamOk(s) /\ Excused(s)

-----------------------------------------------------------------------------
(* Broadcasts.                                                              *)

LEMMA StateParts ==
  ASSUME NEW s, IsState(s), NEW c \in Collections
  PROVE  /\ s[c] \in [Keys[c] -> ValuesOf(c)] /\ IsFiniteSet(Keys[c])
         /\ \A k \in Present(s, c) : k \in Keys[c] /\ s[c][k] \in Values[c]
         /\ \A k \in Keys[c] \ Present(s, c) : s[c][k] = Absent
         /\ c \in Single => Present(s, c) = Keys[c]
<1>1. s[c] \in [Keys[c] -> ValuesOf(c)] /\ IsFiniteSet(Keys[c])
  BY TestClientAssumption DEF IsState, Contents
<1>2. Absent \notin Values[c] /\ ValuesOf(c) = Values[c] \cup (IF c \in Single THEN {} ELSE {Absent})
  BY ValuesAssumption DEF ValuesOf
<1> QED BY <1>1, <1>2 DEF Present

(* Every change that is sent has at least one kind of event, and few.        *)
LEMMA SentParts ==
  ASSUME NEW c \in Collections, NEW old, NEW new, IsState(old), IsState(new)
  PROVE  /\ IsFiniteSet(Deregistered(c, old, new)) /\ IsFiniteSet(Sent(c, old, new))
         /\ \A p \in Sent(c, old, new) : p[1] \in Upserted(c, old, new)
         /\ \A k \in Upserted(c, old, new) : \E p \in Sent(c, old, new) : p[1] = k
<1> DEFINE U == Upserted(c, old, new)
           kinds(k) == Kinds(c, old[c][k], new[c][k])
           all == {"whole", "owner", "terms"}
<1>1. U \subseteq Keys[c] /\ U \subseteq Present(new, c) /\ U \subseteq Changed(c, old, new)
  BY DEF Upserted, Changed
<1>2. IsFiniteSet(Keys[c])
  BY StateParts
<1>3. Deregistered(c, old, new) \subseteq Keys[c]
  BY DEF Deregistered, Changed
<1>4. ASSUME NEW k \in U  PROVE kinds(k) \subseteq all /\ kinds(k) # {}
  <2>1. CASE c = "service_types" /\ old[c][k] # Absent
    <3> DEFINE v == old[c][k]
               w == new[c][k]
    <3>1. v \in Values[c] /\ w \in Values[c]
      <4>1. k \in Keys[c] /\ k \in Present(new, c) /\ k \in Present(old, c)
        BY <1>1, <2>1 DEF Present
      <4> QED BY <4>1, StateParts
    <3>2. v = [owner |-> v.owner, terms |-> v.terms] /\ w = [owner |-> w.owner, terms |-> w.terms]
      BY <2>1, <3>1, ValuesAssumption
    <3>3. v # w
      BY <1>1, <2>1 DEF Changed, Seen
    <3>4. kinds(k) = {f \in DOMAIN w : v[f] # w[f]}
      BY <2>1 DEF Kinds
    <3> HIDE DEF v, w, kinds
    <3>5. DOMAIN w = {"owner", "terms"}
      BY <3>2
    <3>6. v.owner # w.owner \/ v.terms # w.terms
      BY <3>2, <3>3
    <3> QED BY <3>4, <3>5, <3>6
  <2>2. CASE ~(c = "service_types" /\ old[c][k] # Absent)
    <3>1. kinds(k) = {"whole"}
      BY <2>2 DEF Kinds
    <3> QED BY <3>1
  <2> QED BY <2>1, <2>2
<1>5. Sent(c, old, new) = UNION {{k} \X kinds(k) : k \in U}
  BY DEF Sent
<1>0. IsFiniteSet(all)
  <2>1. all = ((({} \cup {"whole"}) \cup {"owner"}) \cup {"terms"})
    OBVIOUS
  <2> HIDE DEF all
  <2>2. IsFiniteSet({} \cup {"whole"})
    BY FS_EmptySet, FS_AddElement
  <2>3. IsFiniteSet(({} \cup {"whole"}) \cup {"owner"})
    BY <2>2, FS_AddElement
  <2> QED BY <2>1, <2>3, FS_AddElement
<1> HIDE DEF U, kinds, all
<1>6. Sent(c, old, new) \subseteq Keys[c] \X all
  BY <1>1, <1>4, <1>5
<1>7. IsFiniteSet(Keys[c] \X all)
  BY <1>0, <1>2, FS_Product
<1>8. ASSUME NEW k \in U  PROVE \E p \in Sent(c, old, new) : p[1] = k
  <2>1. PICK f \in kinds(k) : TRUE
    BY <1>4
  <2>2. <<k, f>> \in Sent(c, old, new)
    BY <1>5
  <2> QED BY <2>2
<1>9. \A p \in Sent(c, old, new) : p[1] \in U
  BY <1>5
<1> QED BY <1>2, <1>3, <1>6, <1>7, <1>8, <1>9, FS_Subset DEF U

(* What is broadcast of a change: the keys that changed with their new values, *)
(* and none that is to be sent is left out.                                 *)
Reports(events, c, old, new) ==
  /\ events \in Seq(Messages(c))
  /\ \A i \in 1 .. Len(events) :
       events[i].key \in Changed(c, old, new) /\ events[i].value = new[c][events[i].key]
  /\ \A k \in Deregistered(c, old, new) \cup Upserted(c, old, new) : ~Nowhere(events, k)

LEMMA EventsReport ==
  ASSUME NEW c \in Collections, NEW old, NEW new, IsState(old), IsState(new)
  PROVE  Reports(Events(c, old, new), c, old, new)
<1> DEFINE D == Deregistered(c, old, new)
           U == Upserted(c, old, new)
           P == Sent(c, old, new)
           r == SetToSeq(D)
           p == SetToSeq(P)
           f == [i \in DOMAIN r |-> Event(r[i], Absent)]
           g == [i \in DOMAIN p |-> Event(p[i][1], new[c][p[i][1]])]
           M == Messages(c)
           X == Changed(c, old, new)
           m == Cardinality(D)
           n == Cardinality(P)
           ev == Events(c, old, new)
<1>1. ev = f \o g
  BY DEF Events
<1>2. /\ m \in Nat /\ DOMAIN r = 1 .. m /\ \A i \in 1 .. m : r[i] \in D
      /\ \A x \in D : \E i \in 1 .. m : r[i] = x
  BY SentParts, SetToSeqHolds
<1>3. /\ n \in Nat /\ DOMAIN p = 1 .. n /\ \A i \in 1 .. n : p[i] \in P
      /\ \A x \in P : \E i \in 1 .. n : p[i] = x
  BY SentParts, SetToSeqHolds
<1>4. \A i \in 1 .. n : p[i][1] \in U
  BY <1>3, SentParts
<1>5. \A x \in U : \E i \in 1 .. n : p[i][1] = x
  BY <1>3, SentParts
<1>6. \A x \in D : x \in X /\ x \in Keys[c] /\ new[c][x] = Absent
  BY StateParts DEF Deregistered, Changed
<1>7. \A x \in U : x \in X /\ x \in Keys[c] /\ new[c][x] \in ValuesOf(c)
  BY StateParts DEF Upserted, Changed
<1>8. \A x \in Keys[c] : \A v \in ValuesOf(c) \cup {Absent} :
        Event(x, v) \in M /\ Event(x, v).key = x /\ Event(x, v).value = v
  BY DEF Event, Messages
<1> HIDE DEF D, U, P, r, p, M, X, m, n, ev
<1>9. /\ f \in [1 .. m -> M]
      /\ \A i \in 1 .. m : f[i].key = r[i] /\ f[i].value = Absent
  BY <1>2, <1>6, <1>8
<1>10. /\ g \in [1 .. n -> M]
       /\ \A i \in 1 .. n : g[i].key = p[i][1] /\ g[i].value = new[c][p[i][1]]
  BY <1>3, <1>4, <1>7, <1>8
<1> HIDE DEF f, g
<1>11. f \in Seq(M) /\ Len(f) = m /\ g \in Seq(M) /\ Len(g) = n
  BY <1>2, <1>3, <1>9, <1>10
<1>12. /\ Len(ev) = m + n /\ ev \in Seq(M)
       /\ \A i \in 1 .. m : i \in 1 .. m + n /\ ev[i] = f[i]
       /\ \A i \in 1 .. n : m + i \in 1 .. m + n /\ ev[m + i] = g[i]
       /\ \A i \in 1 .. m + n : i \in 1 .. m \/ (i > m /\ i - m \in 1 .. n /\ ev[i] = g[i - m])
  <2>1. ev \in Seq(M)
    BY <1>1, <1>11
  <2>2. Joins(f, g, ev, Len(f), Len(g))
    BY <1>1, <1>11, Concatenation
  <2>3. Joins(f, g, ev, m, n)
    BY <1>11, <2>2
  <2> QED BY <2>1, <2>3 DEF Joins
<1>13. ASSUME NEW i \in 1 .. m + n  PROVE ev[i].key \in X /\ ev[i].value = new[c][ev[i].key]
  <2>1. CASE i \in 1 .. m
    BY <1>2, <1>6, <1>9, <1>12, <2>1
  <2>2. CASE i - m \in 1 .. n /\ ev[i] = g[i - m]
    BY <1>4, <1>7, <1>10, <2>2
  <2> QED BY <1>12, <2>1, <2>2
<1>14. ASSUME NEW k \in D \cup U  PROVE \E i \in 1 .. m + n : ev[i].key = k
  <2>1. CASE k \in D
    <3>1. PICK i \in 1 .. m : r[i] = k
      BY <1>2, <2>1
    <3> QED BY <1>9, <1>12, <3>1
  <2>2. CASE k \in U
    <3>1. PICK i \in 1 .. n : p[i][1] = k
      BY <1>5, <2>2
    <3> QED BY <1>10, <1>12, <3>1
  <2> QED BY <2>1, <2>2
<1>15. \A k \in D \cup U : ~Nowhere(ev, k)
  BY <1>12, <1>14 DEF Nowhere
<1> QED BY <1>12, <1>13, <1>15 DEF Reports, D, U, M, X, ev

(* What fits into the channel is a beginning of what is sent, and no receiver  *)
(* holds more than the capacity then.                                       *)
Fits(acc, events, c) ==
  /\ acc \in Seq(Messages(c)) /\ Len(acc) <= Len(events)
  /\ \A i \in 1 .. Len(acc) : i \in 1 .. Len(events) /\ acc[i] = events[i]
  /\ \A s \in Live(c) : Len(subs[s].inbox) + Len(acc) <= Capacity

LEMMA AcceptedFits ==
  ASSUME \A s \in Subscribers : StreamOk(s), NEW c \in Collections,
         NEW events \in Seq(Messages(c))
  PROVE  Fits(Accepted(c, events), events, c)
<1> DEFINE held == {0} \cup {Len(subs[s].inbox) : s \in Live(c)}
           h == Max(held)
           room == Room(c)
           n == Len(events)
           l == Min({n, room})
           acc == Accepted(c, events)
           M == Messages(c)
           inbox(s) == subs[s].inbox
<1>1. \A s \in Live(c) : Len(inbox(s)) \in Nat /\ Len(inbox(s)) <= Capacity
  <2> SUFFICES ASSUME NEW s \in Live(c)
               PROVE  Len(inbox(s)) \in Nat /\ Len(inbox(s)) <= Capacity
    OBVIOUS
  <2>1. s \in Subscribers /\ Open(s)
    BY DEF Live, Open
  <2>2. subs[s] \in Followers(About(s)) /\ Len(inbox(s)) <= Capacity
    BY <2>1 DEF StreamOk
  <2>3. inbox(s) \in Seq(Messages(About(s)))
    BY <2>2 DEF Followers
  <2> QED BY <2>2, <2>3
<1>2. Capacity \in Nat
  BY TestClientAssumption
<1>3. h \in held /\ \A x \in held : x <= h
  <2>1. held \in SUBSET Nat /\ held # {} /\ \A x \in held : x <= Capacity
    BY <1>1, <1>2
  <2> HIDE DEF held
  <2> QED BY <1>2, <2>1, GreatestNatural
<1>4. h \in Nat /\ h <= Capacity /\ \A s \in Live(c) : Len(inbox(s)) <= h
  BY <1>1, <1>2, <1>3
<1>5. room = Capacity - h
  BY DEF Room
<1>6. n \in Nat /\ events \in Seq(M)
  OBVIOUS
<1>7. acc = SubSeq(events, 1, l)
  BY DEF Accepted
<1> HIDE DEF held, h, room, n, l, acc, M, inbox
<1>8. room \in Nat
  BY <1>2, <1>4, <1>5
<1>9. l \in Nat /\ l <= n /\ l <= room
  BY <1>6, <1>8, LeastOfTwo DEF l
<1>10. acc \in Seq(M) /\ Len(acc) = l /\ \A i \in 1 .. l : i \in 1 .. n /\ acc[i] = events[i]
  BY <1>6, <1>7, <1>9 DEF n
<1>11. \A s \in Live(c) : Len(inbox(s)) + l <= Capacity
  BY <1>1, <1>2, <1>4, <1>5, <1>9
<1> QED BY <1>9, <1>10, <1>11 DEF Fits, acc, M, n, inbox

(* A broadcast, for one stream: it keeps all but its inbox, and a stream that  *)
(* was not open still is not.                                               *)
Hears(s, acc) ==
  /\ Open(s)' /\ About(s)' = About(s) /\ StreamOk(s)'
  /\ subs'[s] \in Followers(About(s)) /\ subs'[s].view = subs[s].view
  /\ subs'[s].selection = subs[s].selection /\ subs'[s].stream = subs[s].stream
  /\ subs[s].phase = "snapshot" => subs'[s] = subs[s]
  /\ subs[s].phase # "snapshot" => subs'[s].inbox = subs[s].inbox \o acc

LEMMA BroadcastHeard ==
  ASSUME \A s \in Subscribers : StreamOk(s), NEW events,
         \A c \in Collections : events[c] \in Seq(Messages(c)),
         subs' = Broadcast(events), NEW s \in Subscribers
  PROVE  /\ ~Open(s) => ~Open(s)'
         /\ Open(s) => /\ About(s) \in Collections
                       /\ Fits(Accepted(About(s), events[About(s)]), events[About(s)], About(s))
                       /\ Hears(s, Accepted(About(s), events[About(s)]))
<1> DEFINE c == About(s)
           acc == Accepted(c, events[c])
<1>1. subs'[s] = IF subs[s].phase = "live" THEN [subs[s] EXCEPT !.inbox = @ \o acc] ELSE subs[s]
  BY DEF Broadcast
<1>2. CASE ~Open(s)
  BY <1>1, <1>2 DEF Open
<1>3. CASE Open(s)
  <2>1. /\ subs[s] \in Followers(c) /\ Len(subs[s].inbox) <= Capacity
        /\ subs[s].phase = "snapshot" => subs[s].inbox = <<>> /\ subs[s].stream \notin Locked
    BY <1>3 DEF StreamOk
  <2>2. c \in Collections
    <3>1. subs[s].stream \in Streams
      BY <2>1 DEF Followers
    <3> QED BY <3>1 DEF About, Streams, Follows, Collections
  <2>3. Fits(acc, events[c], c)
    BY <2>2, AcceptedFits
  <2> DEFINE M == Messages(c)
             inbox == subs[s].inbox
             V == [Keys[c] -> ValuesOf(c) \cup {Absent}]
  <2> HIDE DEF acc, c, M, V
  <2>4. CASE subs[s].phase = "snapshot"
    <3>1. subs'[s] = subs[s]
      BY <1>1, <2>4
    <3>2. Open(s)' /\ About(s)' = About(s)
      BY <1>3, <3>1 DEF Open, About
    <3>3. StreamOk(s)'
      BY <2>1, <3>1, <3>2 DEF StreamOk, c
    <3> QED BY <1>3, <2>1, <2>2, <2>3, <2>4, <3>1, <3>2, <3>3 DEF Hears, c, acc
  <2>5. CASE subs[s].phase = "live"
    <3>1. acc \in Seq(M) /\ Len(inbox) + Len(acc) <= Capacity
      <4>1. s \in Live(c)
        BY <2>5 DEF Live, c
      <4> QED BY <2>3, <4>1 DEF Fits, M
    <3>2. /\ inbox \in Seq(M) /\ subs[s].view \in V /\ subs[s].stream \in Streams
          /\ subs[s].selection \in SUBSET Keys[c]
          /\ subs[s] = [phase |-> subs[s].phase, stream |-> subs[s].stream,
                        selection |-> subs[s].selection, inbox |-> inbox, view |-> subs[s].view]
      BY <2>1 DEF Followers, M, V
    <3>3. /\ subs'[s].inbox = inbox \o acc /\ subs'[s].phase = "live"
          /\ subs'[s].stream = subs[s].stream /\ subs'[s].selection = subs[s].selection
          /\ subs'[s].view = subs[s].view
          /\ subs'[s] = [phase |-> subs'[s].phase, stream |-> subs'[s].stream,
                         selection |-> subs'[s].selection, inbox |-> subs'[s].inbox,
                         view |-> subs'[s].view]
      BY <1>1, <2>5, <3>2
    <3>4. inbox \o acc \in Seq(M) /\ Len(inbox \o acc) <= Capacity
      BY <3>1, <3>2
    <3>5. subs'[s] \in Followers(c)
      BY <3>2, <3>3, <3>4 DEF Followers, M, V
    <3>6. Open(s)' /\ About(s)' = About(s)
      BY <3>3 DEF Open, About
    <3>7. StreamOk(s)'
      BY <3>3, <3>4, <3>5, <3>6 DEF StreamOk, c
    <3>8. subs[s].phase # "snapshot"
      BY <2>5
    <3> QED BY <1>3, <2>2, <2>3, <3>3, <3>5, <3>6, <3>7, <3>8 DEF Hears, c, acc
  <2> QED BY <1>3, <2>4, <2>5 DEF Open
<1> QED BY <1>2, <1>3

(* What a stream will show of a key after a broadcast.                        *)
LEMMA HeardShows ==
  ASSUME NEW s \in Subscribers, Open(s), StreamOk(s), About(s) \in Collections,
         NEW acc \in Seq(Messages(About(s))), Hears(s, acc), NEW k \in subs[s].selection
  PROVE  /\ subs[s].phase = "snapshot" => Replay(subs'[s], k) = Replay(subs[s], k)
         /\ subs[s].phase = "live" => Follow(Replay(subs[s], k), Replay(subs'[s], k), acc, k)
<1>1. subs[s] \in Followers(About(s))
  BY DEF StreamOk
<1>2. CASE subs[s].phase = "snapshot"
  <2>1. subs'[s] = subs[s]
    BY <1>2 DEF Hears
  <2> QED BY <1>2, <2>1
<1>3. CASE subs[s].phase = "live"
  <2> DEFINE c == About(s)
             sub == subs[s]
             heard == subs'[s]
             M == Messages(c)
  <2>1. /\ sub \in Followers(c) /\ heard \in Followers(c) /\ c \in Collections
        /\ heard.inbox = sub.inbox \o acc /\ heard.view = sub.view
        /\ heard.selection = sub.selection /\ k \in sub.selection /\ acc \in Seq(Messages(c))
    BY <1>1, <1>3 DEF Hears
  <2> HIDE DEF c, sub, heard
  <2>2. Follow(Replay(sub, k), Replay(heard, k), acc, k)
    BY <2>1, HeardReplay
  <2> QED BY <1>3, <2>2 DEF sub, heard
<1> QED BY <1>2, <1>3 DEF Open

(* The reason that is recorded for a key is one that this kind of stream may   *)
(* have, unless the stream hears of the key.                                *)
LEMMA CauseAllowed ==
  ASSUME NEW s \in Subscribers, Open(s), StreamOk(s), About(s) \in Collections,
         NEW new, IsState(new), NEW events, NEW old,
         Reports(events[About(s)], About(s), old, new),
         Fits(Accepted(About(s), events[About(s)]), events[About(s)], About(s)),
         NEW k \in Changed(About(s), old, new)
  PROVE  \/ /\ Cause(s, new, events, k) = None /\ subs[s].phase = "live"
            /\ ~Nowhere(Accepted(About(s), events[About(s)]), k)
         \/ Cause(s, new, events, k) \in Allowed(subs[s].stream) \cap Reasons
<1> DEFINE c == About(s)
           ev == events[c]
           acc == Accepted(c, ev)
           stream == subs[s].stream
           cause == Cause(s, new, events, k)
           Sound == cause \in Allowed(stream) \cap Reasons
<1>1. subs[s] \in Followers(c) /\ stream \in Streams /\ c = Follows(stream)
  BY DEF StreamOk, Followers, About
<1>2. cause = IF subs[s].phase = "snapshot" THEN "before activation"
              ELSE IF k \in KeysIn(acc) THEN None
              ELSE IF k \in KeysIn(ev) THEN "channel full"
              ELSE IF k \notin Present(new, c) THEN "removed"
              ELSE IF c = "channels" /\ ~HasEndpoints(new, k) THEN "endpoint missing"
              ELSE "not sent"
  BY DEF Cause
<1>3. CASE subs[s].phase = "snapshot"
  <2>1. stream \notin Locked /\ cause = "before activation"
    BY <1>2, <1>3 DEF StreamOk
  <2> QED BY <2>1 DEF Allowed, Reasons
<1>4. CASE subs[s].phase = "live"
  <2>0. k \in Keys[c]
    BY DEF Changed
  <2>1. /\ DOMAIN acc = 1 .. Len(acc) /\ DOMAIN ev = 1 .. Len(ev)
    BY DEF Fits, Reports
  <2>2. \A x : x \in KeysIn(acc) <=> ~Nowhere(acc, x)
    BY <2>1 DEF KeysIn, Nowhere
  <2>3. \A x : x \in KeysIn(ev) <=> ~Nowhere(ev, x)
    BY <2>1 DEF KeysIn, Nowhere
  <2>4. CASE k \in KeysIn(acc)
    BY <1>2, <1>4, <2>2, <2>4
  <2>5. CASE k \notin KeysIn(acc) /\ k \in KeysIn(ev)
    <3>1. cause = "channel full"
      BY <1>2, <1>4, <2>5
    <3> QED BY <3>1 DEF Allowed, Reasons
  <2>6. CASE k \notin KeysIn(acc) /\ k \notin KeysIn(ev)
    <3>1. k \notin Deregistered(c, old, new) \cup Upserted(c, old, new)
      BY <2>3, <2>6 DEF Reports
    <3>2. CASE k \notin Present(new, c)
      <4>1. cause = "removed"
        BY <1>2, <1>4, <2>6, <3>2
      <4>2. c # "services"
        BY <3>1, <3>2 DEF Deregistered
      <4>3. c \notin Single
        BY <2>0, <3>2, StateParts
      <4> HIDE DEF c, stream, cause
      <4> QED BY <1>1, <4>1, <4>2, <4>3 DEF Allowed, Reasons, stream, cause
    <3>3. CASE k \in Present(new, c)
      <4>1. c = "channels" /\ ~HasEndpoints(new, k)
        BY <3>1, <3>3 DEF Upserted
      <4>2. cause = "endpoint missing"
        BY <1>2, <1>4, <2>6, <3>3, <4>1
      <4> HIDE DEF c, stream, cause
      <4> QED BY <1>1, <4>1, <4>2 DEF Allowed, Reasons, stream, cause
    <3> QED BY <3>2, <3>3
  <2> QED BY <2>4, <2>5, <2>6
<1> QED BY <1>3, <1>4 DEF Open

(* What a successful transaction does to a stream.                           *)
LEMMA ApplyExcuses ==
  ASSUME StreamsInv, NEW new, IsState(new), Apply(new), UNCHANGED pending,
         NEW s \in Subscribers
  PROVE  /\ StreamOk(s)' /\ Excused(s)'
         /\ excuse'[s] \in [DOMAIN NoExcuse -> Reasons \cup {None}]
<1> DEFINE events == [c \in Collections |-> Events(c, state, new)]
           c == About(s)
           acc == Accepted(c, events[c])
           sub == subs[s]
           heard == subs'[s]
<1>1. state' = new /\ subs' = Broadcast(events) /\ excuse'[s] = Explained(s, new, events)
  BY DEF Apply
<1>2. /\ \A r \in Subscribers : StreamOk(r)
      /\ StreamOk(s) /\ Excused(s) /\ IsState(state)
      /\ excuse[s] \in [DOMAIN NoExcuse -> Reasons \cup {None}]
  BY DEF StreamsInv, TablesOk
<1>3. \A d \in Collections : Reports(events[d], d, state, new)
  BY <1>2, EventsReport
<1> HIDE DEF events
<1>4. \A d \in Collections : events[d] \in Seq(Messages(d))
  BY <1>3 DEF Reports
<1>5. /\ ~Open(s) => ~Open(s)'
      /\ Open(s) => c \in Collections /\ Fits(acc, events[c], c) /\ Hears(s, acc)
  BY <1>1, <1>2, <1>4, BroadcastHeard
<1>6. excuse'[s] = [k \in DOMAIN NoExcuse |->
                      IF Open(s) /\ k \in Changed(c, state, new)
                      THEN Cause(s, new, events, k) ELSE excuse[s][k]]
  BY <1>1, <1>2 DEF Explained
<1>7. CASE ~Open(s)
  <2>1. excuse'[s] \in [DOMAIN NoExcuse -> Reasons \cup {None}]
    BY <1>2, <1>6, <1>7
  <2>2. ~Open(s)'
    BY <1>5, <1>7
  <2> QED BY <2>1, <2>2 DEF StreamOk, Excused
<1>8. CASE Open(s)
  <2>1. /\ c \in Collections /\ Fits(acc, events[c], c) /\ Hears(s, acc)
        /\ Reports(events[c], c, state, new)
    BY <1>3, <1>5, <1>8
  <2>2. \A k \in Changed(c, state, new) :
          \/ /\ Cause(s, new, events, k) = None /\ sub.phase = "live" /\ ~Nowhere(acc, k)
          \/ Cause(s, new, events, k) \in Allowed(sub.stream) \cap Reasons
    BY <1>2, <1>8, <2>1, CauseAllowed
  <2>3. excuse'[s] \in [DOMAIN NoExcuse -> Reasons \cup {None}]
    BY <1>2, <1>6, <2>2
  <2>4. acc \in Seq(Messages(c))
    BY <2>1 DEF Fits
  <2>5. \A k \in sub.selection :
          /\ sub.phase = "snapshot" => Replay(heard, k) = Replay(sub, k)
          /\ sub.phase = "live" => Follow(Replay(sub, k), Replay(heard, k), acc, k)
    BY <1>2, <1>8, <2>1, <2>4, HeardShows
  <2>6. \A i \in 1 .. Len(acc) :
          acc[i].key \in Changed(c, state, new) /\ acc[i].value = new[c][acc[i].key]
    BY <2>1 DEF Fits, Reports
  <2>7. /\ Open(s)' /\ About(s)' = c /\ StreamOk(s)'
        /\ heard.selection = sub.selection /\ heard.stream = sub.stream
        /\ sub.selection \subseteq Keys[c]
    BY <1>2, <1>8, <2>1 DEF Hears, StreamOk, Followers
  <2>8. Keys[c] \subseteq DOMAIN NoExcuse
    BY <2>1 DEF NoExcuse
  <2>9. ASSUME NEW k \in Differs(s)'
        PROVE  excuse'[s][k] \in Allowed(sub.stream) \/ Announced(subs[s].stream)'
    <3>1. k \in sub.selection /\ Seen(c, Replay(heard, k)) # Seen(c, new[c][k])
      BY <1>1, <2>7, <2>9 DEF Differs
    <3>2. k \in Keys[c] /\ k \in DOMAIN NoExcuse
      BY <2>7, <2>8, <3>1
    <3>3. CASE k \in Changed(c, state, new)
      <4>1. excuse'[s][k] = Cause(s, new, events, k)
        BY <1>6, <1>8, <3>2, <3>3
      <4>2. CASE sub.phase = "live" /\ ~Nowhere(acc, k)
        <5>1. \A i \in 1 .. Len(acc) : acc[i].key = k => acc[i].value = new[c][k]
          BY <2>6
        <5>2. Follow(Replay(sub, k), Replay(heard, k), acc, k)
          BY <2>5, <3>1, <4>2
        <5>3. Replay(heard, k) = new[c][k]
          BY <4>2, <5>1, <5>2, Zenon DEF Follow
        <5> QED BY <3>1, <5>3
      <4> QED BY <2>2, <2>7, <3>3, <4>1, <4>2
    <3>4. CASE k \notin Changed(c, state, new)
      <4>1. excuse'[s][k] = excuse[s][k]
        BY <1>6, <3>2, <3>4
      <4>2. Nowhere(acc, k)
        BY <2>6, <3>4 DEF Nowhere
      <4>3. Replay(heard, k) = Replay(sub, k)
        BY <1>8, <2>5, <3>1, <4>2 DEF Follow, Open
      <4>4. Seen(c, state[c][k]) = Seen(c, new[c][k])
        BY <3>2, <3>4 DEF Changed
      <4>5. k \in Differs(s)
        BY <3>1, <4>3, <4>4 DEF Differs
      <4>6. Announced(subs[s].stream)' <=> Announced(sub.stream)
        <5>1. subs'[s].stream = subs[s].stream
          BY <2>7
        <5> QED BY <5>1 DEF Announced
      <4> QED BY <1>2, <1>8, <2>7, <4>1, <4>5, <4>6 DEF Excused
    <3> QED BY <3>3, <3>4
  <2>10. Excused(s)'
    <3>1. ASSUME NEW k \in Differs(s)'
          PROVE  excuse'[s][k] \in Allowed(subs'[s].stream) \/ Announced(subs[s].stream)'
      <4>1. subs'[s].stream = sub.stream
        BY <2>7
      <4> QED BY <2>9, <4>1
    <3> QED BY <3>1 DEF Excused
  <2> QED BY <2>3, <2>7, <2>10
<1> QED BY <1>7, <1>8

LEMMA RelevantCollections ==
  ASSUME \A s \in Subscribers : StreamOk(s)
  PROVE  Relevant \subseteq Collections
<1>1. \A s \in Subscribers : Open(s) => About(s) \in Collections
  <2> SUFFICES ASSUME NEW s \in Subscribers, Open(s)  PROVE About(s) \in Collections
    OBVIOUS
  <2>1. subs[s].stream \in Streams
    BY DEF StreamOk, Followers
  <2> QED BY <2>1 DEF About, Streams, Follows, Collections
<1> QED BY <1>1 DEF Relevant, Collections

LEMMA MutationIsState ==
  ASSUME \A s \in Subscribers : StreamOk(s), IsState(state), NEW new \in Mutations
  PROVE  IsState(new)
<1>1. ASSUME NEW s, IsState(s), NEW t \in UNION {WithEntry(s, c) : c \in Relevant}
      PROVE  IsState(t)
  <2>1. PICK c \in Collections : t \in WithEntry(s, c)
    BY <1>1, RelevantCollections
  <2>2. PICK k \in Keys[c], v \in ValuesOf(c) : t = [s EXCEPT ![c][k] = v]
    BY <2>1 DEF WithEntry
  <2>3. DOMAIN s = Collections /\ \A d \in Collections : s[d] \in [Keys[d] -> ValuesOf(d)]
    BY <1>1 DEF IsState, Contents
  <2>4. DOMAIN t = Collections /\ \A d \in Collections : t[d] \in [Keys[d] -> ValuesOf(d)]
    BY <2>2, <2>3
  <2> QED BY <2>4 DEF IsState, Contents
<1>2. PICK s \in UNION {WithEntry(state, c) : c \in Relevant} :
        new \in UNION {WithEntry(s, c) : c \in Relevant}
  BY DEF Mutations
<1> QED BY <1>1, <1>2

(* An action that leaves a stream as it is for what it shows, the state and the *)
(* reasons.                                                                 *)
LEMMA QuietStream ==
  ASSUME NEW s \in Subscribers, StreamOk(s), Excused(s), subs'[s] = subs[s],
         UNCHANGED <<state, pending>>, excuse'[s] = excuse[s]
  PROVE  StreamOk(s)' /\ Excused(s)'
<1>1. (Open(s)' <=> Open(s)) /\ About(s)' = About(s)
  BY DEF Open, About
<1>2. StreamOk(s)'
  BY <1>1 DEF StreamOk
<1>3. Differs(s)' = Differs(s)
  BY <1>1 DEF Differs
<1>4. Announced(subs[s].stream)' <=> Announced(subs[s].stream)
  BY DEF Announced
<1>5. Excused(s)'
  BY <1>1, <1>3, <1>4 DEF Excused
<1> QED BY <1>2, <1>5

LEMMA ExecuteKeeps ==
  ASSUME StreamsInv, NEW new \in Mutated, Execute(new), UNCHANGED pending
  PROVE  StreamsInv'
<1>1. CASE ~Succeeds(new)
  <2>1. UNCHANGED <<state, subs, excuse>>
    BY <1>1 DEF Execute
  <2>2. \A s \in Subscribers : StreamOk(s)' /\ Excused(s)'
    BY <2>1, QuietStream DEF StreamsInv
  <2> QED BY <2>1, <2>2 DEF StreamsInv, TablesOk
<1>2. CASE Succeeds(new)
  <2>1. Apply(new.state)
    BY <1>2 DEF Execute
  <2>2. IsState(new.state)
    <3>1. new.verdict = "ok"
      BY <1>2 DEF Succeeds
    <3>2. new.state \in Mutations
      BY <3>1 DEF Mutated, Verdicts
    <3> QED BY <3>2, MutationIsState DEF StreamsInv, TablesOk
  <2>3. \A s \in Subscribers : /\ StreamOk(s)' /\ Excused(s)'
                               /\ excuse'[s] \in [DOMAIN NoExcuse -> Reasons \cup {None}]
    BY <2>1, <2>2, ApplyExcuses
  <2>4. excuse' \in [Subscribers -> [DOMAIN NoExcuse -> Reasons \cup {None}]]
    <3>1. \E f : excuse' = [s \in Subscribers |-> f[s]]
      <4>1. \E events : excuse' = [s \in Subscribers |-> Explained(s, new.state, events)]
        BY <2>1 DEF Apply
      <4>2. PICK events : excuse' = [s \in Subscribers |-> Explained(s, new.state, events)]
        BY <4>1
      <4> DEFINE f == [s \in Subscribers |-> Explained(s, new.state, events)]
      <4>3. excuse' = [s \in Subscribers |-> f[s]]
        BY <4>2
      <4> QED BY <4>3
    <3> QED BY <2>3, <3>1
  <2>5. state' = new.state /\ DOMAIN subs' = Subscribers
    BY <2>1 DEF Apply, Broadcast
  <2> QED BY <2>2, <2>3, <2>4, <2>5 DEF StreamsInv, TablesOk
<1> QED BY <1>1, <1>2

LEMMA HiddenKeeps ==
  ASSUME StreamsInv, HiddenStateUpdate
  PROVE  StreamsInv'
<1>1. PICK new \in Mutations :
        /\ state' = new
        /\ excuse' = [s \in Subscribers |-> [k \in DOMAIN excuse[s] |->
                        IF Open(s) /\ k \in Changed(About(s), state, new)
                        THEN "hidden" ELSE excuse[s][k]]]
  BY DEF HiddenStateUpdate
<1>2. UNCHANGED <<pending, subs>>
  BY DEF HiddenStateUpdate
<1>3. IsState(state')
  BY <1>1, MutationIsState DEF StreamsInv, TablesOk
<1>4. excuse \in [Subscribers -> [DOMAIN NoExcuse -> Reasons \cup {None}]]
  BY DEF StreamsInv, TablesOk
<1>5. excuse' \in [Subscribers -> [DOMAIN NoExcuse -> Reasons \cup {None}]]
  <2>1. "hidden" \in Reasons
    BY DEF Reasons
  <2> QED BY <1>1, <1>4, <2>1
<1>6. ASSUME NEW s \in Subscribers  PROVE StreamOk(s)' /\ Excused(s)'
  <2>1. (Open(s)' <=> Open(s)) /\ About(s)' = About(s) /\ subs'[s] = subs[s]
    BY <1>2 DEF Open, About
  <2>2. StreamOk(s) /\ Excused(s)
    BY DEF StreamsInv
  <2>3. StreamOk(s)'
    BY <2>1, <2>2 DEF StreamOk
  <2>4. ASSUME Open(s), NEW k \in Differs(s)'
        PROVE  excuse'[s][k] \in Allowed(subs[s].stream) \/ Announced(subs[s].stream)
    <3>1. k \in subs[s].selection /\ Seen(About(s), Replay(subs[s], k)) # Seen(About(s), state'[About(s)][k])
      BY <2>1, <2>4 DEF Differs
    <3>2. k \in Keys[About(s)]
      BY <2>2, <2>4, <3>1 DEF StreamOk, Followers
    <3>3. k \in DOMAIN NoExcuse
      <4>1. About(s) \in Collections
        BY <2>2, <2>4 DEF StreamOk, Followers, About, Streams, Follows, Collections
      <4> QED BY <3>2, <4>1 DEF NoExcuse
    <3>4. CASE k \in Changed(About(s), state, state')
      <4>1. excuse'[s][k] = "hidden"
        BY <1>1, <1>4, <2>4, <3>3, <3>4
      <4> QED BY <4>1 DEF Allowed
    <3>5. CASE k \notin Changed(About(s), state, state')
      <4>1. excuse'[s][k] = excuse[s][k]
        BY <1>1, <1>4, <3>3, <3>5
      <4>2. k \in Differs(s)
        BY <3>1, <3>2, <3>5 DEF Changed, Differs
      <4> QED BY <2>2, <2>4, <4>1, <4>2 DEF Excused
    <3> QED BY <3>4, <3>5
  <2>5. Announced(subs[s].stream)' <=> Announced(subs[s].stream)
    BY <1>2 DEF Announced
  <2> QED BY <2>1, <2>3, <2>4, <2>5 DEF Excused
<1>7. DOMAIN subs' = Subscribers /\ pending' \in [Updaters -> Values["ticket_params"] \cup {Absent}]
  BY <1>2 DEF StreamsInv, TablesOk
<1> QED BY <1>3, <1>5, <1>6, <1>7 DEF StreamsInv, TablesOk

(* A write of ticket parameters leaves the other streams alone, and those of   *)
(* ticket parameters wait for the broadcast.                                *)
LEMMA WriteKeeps ==
  ASSUME StreamsInv, NEW u \in Updaters, WriteTicketParams(u)
  PROVE  StreamsInv'
<1> DEFINE tp == "ticket_params"
<1>1. PICK new \in Values[tp] :
        /\ state' = [state EXCEPT ![tp] = [k \in DOMAIN state[tp] |-> new]]
        /\ pending' = [pending EXCEPT ![u] = new]
  BY DEF WriteTicketParams
<1>2. UNCHANGED <<subs, excuse>>
  BY DEF WriteTicketParams
<1>3. /\ IsState(state) /\ DOMAIN subs = Subscribers
      /\ pending \in [Updaters -> Values[tp] \cup {Absent}]
      /\ excuse \in [Subscribers -> [DOMAIN NoExcuse -> Reasons \cup {None}]]
  BY DEF StreamsInv, TablesOk
<1>4. tp \in Collections /\ new \in ValuesOf(tp) /\ new # Absent
  BY ValuesAssumption DEF Collections, ValuesOf
<1>5. state[tp] \in [Keys[tp] -> ValuesOf(tp)] /\ DOMAIN state = Collections
  BY <1>3, <1>4, StateParts DEF IsState
<1>6. /\ \A d \in Collections \ {tp} : state'[d] = state[d]
      /\ state'[tp] \in [Keys[tp] -> ValuesOf(tp)] /\ DOMAIN state' = Collections
  BY <1>1, <1>4, <1>5
<1>7. IsState(state')
  BY <1>3, <1>6 DEF IsState, Contents
<1>8. pending'[u] # Absent /\ pending' \in [Updaters -> Values[tp] \cup {Absent}]
  BY <1>1, <1>3, <1>4
<1>9. TablesOk'
  BY <1>2, <1>3, <1>7, <1>8 DEF TablesOk
<1>10. ASSUME NEW s \in Subscribers  PROVE StreamOk(s)' /\ Excused(s)'
  <2>1. (Open(s)' <=> Open(s)) /\ About(s)' = About(s) /\ subs'[s] = subs[s]
    BY <1>2 DEF Open, About
  <2>2. StreamOk(s) /\ Excused(s)
    BY DEF StreamsInv
  <2>3. StreamOk(s)'
    BY <2>1, <2>2 DEF StreamOk
  <2>4. CASE ~Open(s)
    BY <2>1, <2>3, <2>4 DEF Excused
  <2>5. CASE Open(s) /\ subs[s].stream = tp
    <3>1. Announced(subs[s].stream)'
      BY <1>2, <1>8, <2>5 DEF Announced
    <3> QED BY <2>3, <3>1 DEF Excused
  <2>6. CASE Open(s) /\ subs[s].stream # tp
    <3>1. About(s) \in Collections \ {tp}
      BY <2>2, <2>6 DEF StreamOk, Followers, About, Streams, Follows, Collections
    <3>2. state'[About(s)] = state[About(s)]
      BY <1>6, <3>1
    <3>3. Differs(s)' = Differs(s)
      BY <2>1, <3>2 DEF Differs
    <3>4. ~Announced(subs[s].stream)
      BY <2>6 DEF Announced
    <3> QED BY <1>2, <2>1, <2>2, <2>3, <3>3, <3>4 DEF Excused
  <2> QED BY <2>4, <2>5, <2>6
<1> QED BY <1>9, <1>10 DEF StreamsInv

LEMMA OneMessage ==
  ASSUME NEW M, NEW m \in M, NEW ev \in [1 .. 1 -> {m}]
  PROVE  ev \in Seq(M) /\ 1 .. Len(ev) = 1 .. 1 /\ ev[1] = m
<1>1. ev = <<m>>
  BY 1 \in 1 .. 1
<1>2. <<m>> \in Seq(M) /\ Len(<<m>>) = 1 /\ <<m>>[1] = m
  OBVIOUS
<1> QED BY <1>1, <1>2

LEMMA TicketParamsReport ==
  ASSUME NEW v \in Values["ticket_params"],
         NEW ev, ev = SetToSeq({Event(k, v) : k \in Keys["ticket_params"]})
  PROVE  /\ ev \in Seq(Messages("ticket_params"))
         /\ \A i \in 1 .. Len(ev) : ev[i].value = v
         /\ \A k \in Keys["ticket_params"] : ~Nowhere(ev, k)
<1> DEFINE c == "ticket_params"
           S == {Event(k, v) : k \in Keys[c]}
           n == Cardinality(S)
           M == Messages(c)
<1>1. PICK k \in Keys[c] : Keys[c] = {k}
  <2>1. Cardinality(Keys[c]) = 1 /\ IsFiniteSet(Keys[c])
    BY TestClientAssumption DEF Single, Collections
  <2> QED BY <2>1, FS_Singleton
<1>2. S = {Event(k, v)}
  BY <1>1
<1>3. IsFiniteSet(S) /\ n = 1
  <2> HIDE DEF S
  <2> QED BY <1>2, FS_Singleton
<1>4. Event(k, v) \in M /\ Event(k, v).key = k /\ Event(k, v).value = v
  BY DEF Event, Messages, ValuesOf
<1> HIDE DEF S, M
<1>5. ev \in [1 .. n -> S]
  <2>1. SetToSeq(S) \in [1 .. Cardinality(S) -> S]
    BY <1>3, SetToSeqHolds
  <2> QED BY <2>1, Zenon DEF S
<1>6. ev \in [1 .. 1 -> {Event(k, v)}]
  BY <1>2, <1>3, <1>5
<1>7. ev \in Seq(M) /\ 1 .. Len(ev) = 1 .. 1 /\ ev[1] = Event(k, v)
  BY <1>4, <1>6, OneMessage
<1>8. \A i \in 1 .. Len(ev) : i = 1
  <2>1. \A i \in 1 .. 1 : i = 1
    OBVIOUS
  <2> QED BY <1>7, <2>1, Zenon
<1>9. 1 \in 1 .. Len(ev)
  <2>1. 1 \in 1 .. 1
    OBVIOUS
  <2> QED BY <1>7, <2>1, Zenon
<1> QED BY <1>1, <1>4, <1>7, <1>8, <1>9 DEF Nowhere, M

(* A broadcast of ticket parameters settles every stream of them, and no other *)
(* stream hears of it.                                                      *)
LEMMA BroadcastKeeps ==
  ASSUME StreamsInv, NEW u \in Updaters, BroadcastTicketParams(u)
  PROVE  StreamsInv'
<1> DEFINE tp == "ticket_params"
           v == pending[u]
           events == [d \in Collections |->
                        IF d = tp THEN SetToSeq({Event(k, v) : k \in Keys[tp]}) ELSE <<>>]
           verdict(s, k) ==
             IF Cause(s, state, events, k) = None /\ state[tp][k] # v
             THEN "overtaken" ELSE Cause(s, state, events, k)
<1>1. /\ v # Absent /\ pending' = [pending EXCEPT ![u] = Absent] /\ UNCHANGED state
      /\ subs' = Broadcast(events)
      /\ excuse' = [s \in Subscribers |-> [k \in DOMAIN excuse[s] |->
                      IF Open(s) /\ About(s) = tp /\ k \in Keys[tp]
                      THEN verdict(s, k) ELSE excuse[s][k]]]
  BY DEF BroadcastTicketParams
<1>2. /\ IsState(state) /\ \A s \in Subscribers : StreamOk(s) /\ Excused(s)
      /\ pending \in [Updaters -> Values[tp] \cup {Absent}]
      /\ excuse \in [Subscribers -> [DOMAIN NoExcuse -> Reasons \cup {None}]]
  BY DEF StreamsInv, TablesOk
<1>3. v \in Values[tp] /\ pending' \in [Updaters -> Values[tp] \cup {Absent}]
  BY <1>1, <1>2
<1> DEFINE ev == events[tp]
<1>4. /\ ev \in Seq(Messages(tp)) /\ \A i \in 1 .. Len(ev) : ev[i].value = v
      /\ \A k \in Keys[tp] : ~Nowhere(ev, k)
  <2>1. ev = SetToSeq({Event(k, v) : k \in Keys[tp]})
    BY DEF Collections
  <2> HIDE DEF v, ev
  <2> QED BY <1>3, <2>1, TicketParamsReport
<1>5. \A d \in Collections \ {tp} : events[d] = <<>>
  OBVIOUS
<1>6. \A d \in Collections : events[d] \in Seq(Messages(d))
  BY <1>4, <1>5
<1> HIDE DEF events, v
<1>7. ASSUME NEW s \in Subscribers
      PROVE  /\ StreamOk(s)' /\ Excused(s)'
             /\ excuse'[s] \in [DOMAIN NoExcuse -> Reasons \cup {None}]
  <2> DEFINE c == About(s)
             acc == Accepted(c, events[c])
             sub == subs[s]
             heard == subs'[s]
  <2>1. /\ ~Open(s) => ~Open(s)'
        /\ Open(s) => c \in Collections /\ Fits(acc, events[c], c) /\ Hears(s, acc)
    BY <1>1, <1>2, <1>6, BroadcastHeard
  <2>2. excuse'[s] = [k \in DOMAIN NoExcuse |->
                        IF Open(s) /\ c = tp /\ k \in Keys[tp]
                        THEN verdict(s, k) ELSE excuse[s][k]]
    BY <1>1, <1>2
  <2>3. CASE ~Open(s)
    <3>1. excuse'[s] \in [DOMAIN NoExcuse -> Reasons \cup {None}]
      BY <1>2, <2>2, <2>3
    <3> QED BY <2>1, <2>3, <3>1 DEF StreamOk, Excused
  <2>4. CASE Open(s)
    <3>1. /\ c \in Collections /\ Fits(acc, events[c], c) /\ Hears(s, acc)
          /\ acc \in Seq(Messages(c))
      BY <2>1, <2>4 DEF Fits
    <3>2. /\ Open(s)' /\ About(s)' = c /\ StreamOk(s)'
          /\ heard.selection = sub.selection /\ heard.stream = sub.stream
          /\ sub.selection \subseteq Keys[c] /\ sub.stream \in Streams
          /\ sub.phase = "snapshot" => sub.stream \notin Locked
      BY <1>2, <2>4, <3>1 DEF Hears, StreamOk, Followers
    <3>3. Keys[c] \subseteq DOMAIN NoExcuse
      BY <3>1 DEF NoExcuse
    <3>4. \A k \in sub.selection :
            /\ sub.phase = "snapshot" => Replay(heard, k) = Replay(sub, k)
            /\ sub.phase = "live" => Follow(Replay(sub, k), Replay(heard, k), acc, k)
      BY <1>2, <2>4, <3>1, HeardShows
    <3>5. CASE c # tp
      <4>1. events[c] = <<>>
        BY <1>5, <3>1, <3>5
      <4>2. Len(acc) <= 0
        BY <3>1, <4>1 DEF Fits
      <4>3. Len(acc) \in Nat
        BY <3>1
      <4> HIDE DEF acc, heard, sub, c
      <4>4. \A k : Nowhere(acc, k)
        BY <4>2, <4>3 DEF Nowhere
      <4>5. \A k \in sub.selection : Replay(heard, k) = Replay(sub, k)
        BY <2>4, <3>4, <4>4 DEF Follow, Open, sub
      <4>6. excuse'[s] = excuse[s]
        BY <1>2, <2>2, <3>5
      <4>7. Differs(s)' = Differs(s)
        BY <1>1, <3>2, <4>5 DEF Differs, sub, heard, c
      <4>8. sub.stream # tp
        BY <3>5 DEF c, About, Follows, sub
      <4>9. Excused(s)'
        BY <1>2, <2>4, <3>2, <4>6, <4>7, <4>8 DEF Excused, Announced, sub, heard
      <4> QED BY <1>2, <3>2, <4>6, <4>9
    <3>6. CASE c = tp
      <4>0. sub.stream = tp
        BY <3>2, <3>6 DEF Streams, About, Follows
      <4>1. \A k \in Keys[tp] : k \in DOMAIN NoExcuse /\ excuse'[s][k] = verdict(s, k)
        BY <2>2, <2>4, <3>3, <3>6
      <4>2. ASSUME NEW k \in Keys[tp]
            PROVE  \/ /\ verdict(s, k) = None /\ state[tp][k] = v /\ sub.phase = "live"
                      /\ ~Nowhere(acc, k)
                   \/ verdict(s, k) \in Allowed(tp) \cap Reasons
        <5>1. /\ DOMAIN acc = 1 .. Len(acc) /\ DOMAIN ev = 1 .. Len(ev)
          BY <1>4, <3>1
        <5>2. k \in KeysIn(acc) <=> ~Nowhere(acc, k)
          BY <5>1 DEF KeysIn, Nowhere
        <5>3. k \in KeysIn(ev)
          BY <1>4, <5>1 DEF KeysIn, Nowhere
        <5>4. Cause(s, state, events, k) =
                 IF sub.phase = "snapshot" THEN "before activation"
                 ELSE IF k \in KeysIn(acc) THEN None ELSE "channel full"
          BY <3>6, <5>3 DEF Cause
        <5>5. {"before activation", "channel full", "overtaken"} \subseteq Allowed(tp) \cap Reasons
          BY DEF Allowed, Reasons, Locked
        <5>6. None \notin {"before activation", "channel full"}
          BY DEF None
        <5> HIDE DEF acc, ev
        <5>7. CASE sub.phase = "snapshot"
          BY <5>4, <5>5, <5>6, <5>7
        <5>8. CASE sub.phase = "live"
          BY <5>2, <5>4, <5>5, <5>6, <5>8
        <5> QED BY <2>4, <5>7, <5>8 DEF Open
      <4>3. excuse'[s] \in [DOMAIN NoExcuse -> Reasons \cup {None}]
        BY <1>2, <2>2, <4>2
      <4>4. ASSUME NEW k \in Differs(s)'  PROVE excuse'[s][k] \in Allowed(subs'[s].stream)
        <5>1. k \in sub.selection /\ Seen(tp, Replay(heard, k)) # Seen(tp, state[tp][k])
          BY <1>1, <3>2, <3>6, <4>4 DEF Differs
        <5>2. k \in Keys[tp]
          BY <3>2, <3>6, <5>1
        <5>3. CASE state[tp][k] = v /\ sub.phase = "live" /\ ~Nowhere(acc, k)
          <6>1. \A i \in 1 .. Len(acc) : acc[i].key = k => acc[i].value = v
            BY <1>4, <3>1, <3>6 DEF Fits
          <6>2. Follow(Replay(sub, k), Replay(heard, k), acc, k)
            BY <3>4, <5>1, <5>3
          <6>3. Replay(heard, k) = v
            BY <5>3, <6>1, <6>2, Zenon DEF Follow
          <6> QED BY <5>1, <5>3, <6>3
        <5> QED BY <3>2, <4>0, <4>1, <4>2, <5>2, <5>3
      <4>5. Excused(s)'
        BY <4>4 DEF Excused
      <4> QED BY <3>2, <4>3, <4>5
    <3> QED BY <3>5, <3>6
  <2> QED BY <2>3, <2>4
<1>8. excuse' \in [Subscribers -> [DOMAIN NoExcuse -> Reasons \cup {None}]]
  BY <1>1, <1>7
<1>9. DOMAIN subs' = Subscribers
  BY <1>1 DEF Broadcast
<1> QED BY <1>1, <1>2, <1>3, <1>7, <1>8, <1>9 DEF StreamsInv, TablesOk

(* A stream that opens shows its copy, but for channels without accounts.      *)
LEMMA SubscribeKeeps ==
  ASSUME StreamsInv, NEW s \in Subscribers, NEW stream \in Streams,
         NEW selection \in Selections(stream), Subscribe(s, stream, selection)
  PROVE  StreamsInv'
<1> DEFINE c == Follows(stream)
           view == [k \in Keys[c] |-> IF k \in selection /\ Shown(stream, k)
                                      THEN state[c][k] ELSE Absent]
           new == [phase |-> FirstPhase(stream), stream |-> stream,
                   selection |-> selection, inbox |-> <<>>, view |-> view]
           why == [k \in DOMAIN excuse[s] |->
                     IF k \in Present(state, c) /\ ~Shown(stream, k)
                     THEN "endpoint missing" ELSE None]
<1>1. /\ subs' = [subs EXCEPT ![s] = new] /\ excuse' = [excuse EXCEPT ![s] = why]
      /\ UNCHANGED <<state, pending>>
  BY DEF Subscribe
<1>2. /\ IsState(state) /\ \A r \in Subscribers : StreamOk(r) /\ Excused(r)
      /\ pending \in [Updaters -> Values["ticket_params"] \cup {Absent}]
      /\ excuse \in [Subscribers -> [DOMAIN NoExcuse -> Reasons \cup {None}]]
      /\ DOMAIN subs = Subscribers
  BY DEF StreamsInv, TablesOk
<1>3. c \in Collections
  BY DEF Follows, Streams, Collections
<1>4. state[c] \in [Keys[c] -> ValuesOf(c)]
  BY <1>2, <1>3, StateParts
<1>5. selection \in SUBSET Keys[c]
  BY DEF Selections, Follows
<1>6. why \in [DOMAIN NoExcuse -> Reasons \cup {None}]
  <2>1. DOMAIN excuse[s] = DOMAIN NoExcuse /\ "endpoint missing" \in Reasons
    BY <1>2 DEF Reasons
  <2> QED BY <2>1
<1>7. /\ subs'[s] = new /\ excuse'[s] = why /\ DOMAIN subs' = Subscribers
      /\ excuse' \in [Subscribers -> [DOMAIN NoExcuse -> Reasons \cup {None}]]
      /\ \A r \in Subscribers \ {s} : subs'[r] = subs[r] /\ excuse'[r] = excuse[r]
  BY <1>1, <1>2, <1>6
<1>8. ASSUME NEW r \in Subscribers \ {s}  PROVE StreamOk(r)' /\ Excused(r)'
  BY <1>1, <1>2, <1>7, QuietStream
<1>9. StreamOk(s)' /\ Excused(s)'
  <2>1. view \in [Keys[c] -> ValuesOf(c) \cup {Absent}]
    BY <1>4
  <2>2. <<>> \in Seq(Messages(c)) /\ Len(<<>>) = 0 /\ 0 <= Capacity
    BY TestClientAssumption
  <2>3. FirstPhase(stream) \in {"snapshot", "live"}
        /\ (FirstPhase(stream) = "snapshot" => stream \notin Locked)
    BY DEF FirstPhase
  <2> HIDE DEF view
  <2>4. new \in Followers(c)
    BY <1>5, <2>1, <2>2, <2>3 DEF Followers
  <2>5. /\ new.stream = stream /\ new.selection = selection /\ new.view = view
        /\ new.inbox = <<>> /\ new.phase = FirstPhase(stream)
    OBVIOUS
  <2>0. About(s)' = c
    <3>1. subs'[s].stream = stream
      BY <1>7, <2>5
    <3> QED BY <3>1 DEF About
  <2> HIDE DEF new, why
  <2>6. StreamOk(s)'
    BY <1>7, <2>0, <2>2, <2>3, <2>4, <2>5 DEF StreamOk
  <2>7. ASSUME NEW k \in Differs(s)'  PROVE excuse'[s][k] \in Allowed(stream)
    <3>1. k \in selection /\ Seen(c, Replay(new, k)) # Seen(c, state[c][k])
      BY <1>1, <1>7, <2>0, <2>5, <2>7 DEF Differs
    <3>2. Nowhere(new.inbox, k)
      BY <2>2, <2>5 DEF Nowhere
    <3>3. Replay(new, k) = view[k]
      <4>1. k \in new.selection
        BY <2>5, <3>1
      <4>2. Shows(new.inbox, k, new.view[k], Replay(new, k))
        BY <1>3, <2>4, <4>1, ReplayShows
      <4> QED BY <2>5, <3>2, <4>2 DEF Shows
    <3>4. k \in Keys[c] /\ view[k] # state[c][k]
      BY <1>5, <3>1, <3>3
    <3>5. ~Shown(stream, k) /\ k \in Present(state, c)
      BY <3>1, <3>4 DEF view, Present
    <3>6. k \in DOMAIN excuse[s]
      <4>1. k \in DOMAIN NoExcuse
        BY <1>3, <3>4 DEF NoExcuse
      <4>2. DOMAIN excuse[s] = DOMAIN NoExcuse
        BY <1>2
      <4> QED BY <4>1, <4>2, Zenon
    <3>7. excuse'[s][k] = "endpoint missing"
      BY <1>7, <3>5, <3>6 DEF why
    <3>8. c = "channels"
      BY <3>5 DEF Shown, Follows
    <3> QED BY <3>7, <3>8 DEF Allowed
  <2>8. subs'[s].stream = stream
    BY <1>7, <2>5
  <2>9. Excused(s)'
    BY <2>7, <2>8 DEF Excused
  <2> QED BY <2>6, <2>9
<1>10. TablesOk'
  BY <1>1, <1>2, <1>7 DEF TablesOk
<1> QED BY <1>8, <1>9, <1>10 DEF StreamsInv

(* A stream that keeps its collection, its selection and what it will show.    *)
LEMMA SameShown ==
  ASSUME StreamsInv, NEW s \in Subscribers, Open(s), UNCHANGED <<state, pending, excuse>>,
         NEW next, next \in Followers(About(s)), subs' = [subs EXCEPT ![s] = next],
         Len(next.inbox) <= Capacity, next.phase = "live",
         next.stream = subs[s].stream, next.selection = subs[s].selection,
         \A k \in subs[s].selection : Replay(next, k) = Replay(subs[s], k)
  PROVE  StreamsInv'
<1>1. TablesOk /\ \A r \in Subscribers : StreamOk(r) /\ Excused(r)
  BY DEF StreamsInv
<1>2. DOMAIN subs' = Subscribers /\ subs'[s] = next
      /\ \A r \in Subscribers \ {s} : subs'[r] = subs[r]
  BY <1>1 DEF TablesOk
<1>3. TablesOk'
  BY <1>1, <1>2 DEF TablesOk
<1>4. ASSUME NEW r \in Subscribers \ {s}  PROVE StreamOk(r)' /\ Excused(r)'
  BY <1>1, <1>2, QuietStream
<1>5. StreamOk(s)' /\ Excused(s)'
  <2>1. Open(s)' /\ About(s)' = About(s)
    BY <1>2 DEF Open, About
  <2>2. StreamOk(s)'
    BY <1>2, <2>1 DEF StreamOk
  <2>3. Differs(s)' = Differs(s)
    BY <1>2, <2>1 DEF Differs
  <2>4. Announced(subs[s].stream)' <=> Announced(subs[s].stream)
    BY <1>2 DEF Announced
  <2>5. Excused(s)'
    BY <1>1, <1>2, <2>3, <2>4 DEF Excused
  <2> QED BY <2>2, <2>5
<1> QED BY <1>3, <1>4, <1>5 DEF StreamsInv

LEMMA ActivateKeeps ==
  ASSUME StreamsInv, NEW s \in Subscribers, Activate(s)
  PROVE  StreamsInv'
<1> DEFINE c == About(s)
           sub == subs[s]
           next == [sub EXCEPT !.phase = "live"]
<1>1. /\ sub.phase = "snapshot" /\ subs' = [subs EXCEPT ![s] = next]
      /\ UNCHANGED <<state, pending, excuse>>
  BY DEF Activate
<1>2. Open(s)
  BY <1>1 DEF Open
<1>3. sub \in Followers(c) /\ Len(sub.inbox) <= Capacity
  BY <1>2 DEF StreamsInv, StreamOk
<1>4. /\ next \in Followers(c) /\ next.phase = "live" /\ next.stream = sub.stream
      /\ next.selection = sub.selection /\ next.inbox = sub.inbox /\ next.view = sub.view
  BY <1>3 DEF Followers
<1> HIDE DEF sub, next
<1>5. \A k \in sub.selection : Replay(next, k) = Replay(sub, k)
  BY <1>4 DEF Replay
<1> QED BY <1>1, <1>2, <1>3, <1>4, <1>5, SameShown DEF sub

LEMMA ReceiveKeeps ==
  ASSUME StreamsInv, NEW s \in Subscribers, Receive(s)
  PROVE  StreamsInv'
<1> DEFINE c == About(s)
           sub == subs[s]
           next == [Show(sub, Head(sub.inbox)) EXCEPT !.inbox = Tail(@)]
<1>1. /\ sub.phase = "live" /\ sub.inbox # <<>> /\ subs' = [subs EXCEPT ![s] = next]
      /\ UNCHANGED <<state, pending, excuse>>
  BY DEF Receive
<1>2. Open(s)
  BY <1>1 DEF Open
<1>3. sub \in Followers(c) /\ Len(sub.inbox) <= Capacity
  BY <1>2 DEF StreamsInv, StreamOk
<1>4. c \in Collections
  BY <1>3 DEF Followers, About, Follows, Streams, Collections
<1> DEFINE n == next
<1>5. n = [Show(sub, Head(sub.inbox)) EXCEPT !.inbox = Tail(@)]
  OBVIOUS
<1> HIDE DEF sub, n, c
<1>6. /\ n \in Followers(c) /\ n.phase = sub.phase /\ n.stream = sub.stream
      /\ n.selection = sub.selection
      /\ Len(n.inbox) <= Len(sub.inbox)
      /\ \A k \in sub.selection : Replay(n, k) = Replay(sub, k)
  <2>1. sub.inbox # <<>>
    BY <1>1
  <2>2. ShowsTheSame(c, sub, n)
    BY <1>3, <1>4, <1>5, <2>1, ReceivedReplay
  <2> QED BY <2>2 DEF ShowsTheSame
<1>7. Len(n.inbox) <= Capacity
  <2>1. Len(n.inbox) \in Nat /\ Len(sub.inbox) \in Nat
    BY <1>3, <1>6 DEF Followers
  <2> QED BY <1>3, <1>6, <2>1, TestClientAssumption
<1>8. subs' = [subs EXCEPT ![s] = n]
  BY <1>1, <1>5
<1> QED BY <1>1, <1>2, <1>6, <1>7, <1>8, SameShown DEF sub, c

LEMMA CloseKeeps ==
  ASSUME StreamsInv, NEW s \in Subscribers, Close(s)
  PROVE  StreamsInv'
<1>1. /\ subs' = [subs EXCEPT ![s] = [phase |-> "closed", stream |-> subs[s].stream]]
      /\ excuse' = [excuse EXCEPT ![s] = NoExcuse] /\ UNCHANGED <<state, pending>>
  BY DEF Close
<1>2. TablesOk /\ \A r \in Subscribers : StreamOk(r) /\ Excused(r)
  BY DEF StreamsInv
<1>3. NoExcuse \in [DOMAIN NoExcuse -> Reasons \cup {None}]
  BY DEF NoExcuse
<1>4. /\ DOMAIN subs' = Subscribers /\ subs'[s].phase = "closed"
      /\ excuse' \in [Subscribers -> [DOMAIN NoExcuse -> Reasons \cup {None}]]
      /\ \A r \in Subscribers \ {s} : subs'[r] = subs[r] /\ excuse'[r] = excuse[r]
  BY <1>1, <1>2, <1>3 DEF TablesOk
<1>5. TablesOk'
  BY <1>1, <1>2, <1>4 DEF TablesOk
<1>6. ASSUME NEW r \in Subscribers \ {s}  PROVE StreamOk(r)' /\ Excused(r)'
  BY <1>1, <1>2, <1>4, QuietStream
<1>7. ~Open(s)'
  BY <1>4 DEF Open
<1> QED BY <1>5, <1>6, <1>7 DEF StreamsInv, StreamOk, Excused

LEMMA StreamsHold == Spec => []StreamsInv
<1>1. Init => StreamsInv
  <2> SUFFICES ASSUME Init PROVE StreamsInv
    OBVIOUS
  <2>1. \A s \in Subscribers : ~Open(s)
    BY DEF Init, Idle, Open
  <2>2. NoExcuse \in [DOMAIN NoExcuse -> Reasons \cup {None}]
    BY DEF NoExcuse
  <2>3. excuse \in [Subscribers -> [DOMAIN NoExcuse -> Reasons \cup {None}]]
    BY <2>2 DEF Init
  <2>4. IsState(state)
    BY InitialAssumption DEF Init
  <2>5. DOMAIN subs = Subscribers /\ pending \in [Updaters -> Values["ticket_params"] \cup {Absent}]
    BY DEF Init
  <2> QED BY <2>1, <2>3, <2>4, <2>5 DEF StreamsInv, TablesOk, StreamOk, Excused
<1>2. StreamsInv /\ [Next]_vars => StreamsInv'
  <2> SUFFICES ASSUME StreamsInv, [Next]_vars PROVE StreamsInv'
    OBVIOUS
  <2>1. CASE Submit
    BY <2>1, ExecuteKeeps DEF Submit
  <2>2. ASSUME NEW t \in TxIds, SubmitAndTrack(t) PROVE StreamsInv'
    BY <2>2, ExecuteKeeps DEF SubmitAndTrack
  <2>3. ASSUME NEW t \in TxIds \cup {Foreign}, Track(t) PROVE StreamsInv'
    <3>1. UNCHANGED <<state, subs, pending, excuse>>
      BY <2>3 DEF Track
    <3>2. \A s \in Subscribers : StreamOk(s)' /\ Excused(s)'
      BY <3>1, QuietStream DEF StreamsInv
    <3> QED BY <3>1, <3>2 DEF StreamsInv, TablesOk
  <2>4. CASE HiddenStateUpdate
    BY <2>4, HiddenKeeps
  <2>5. ASSUME NEW u \in Updaters, WriteTicketParams(u) \/ BroadcastTicketParams(u)
        PROVE  StreamsInv'
    BY <2>5, WriteKeeps, BroadcastKeeps
  <2>6. ASSUME NEW s \in Subscribers, NEW stream \in Streams,
               NEW selection \in Selections(stream), Subscribe(s, stream, selection)
        PROVE  StreamsInv'
    BY <2>6, SubscribeKeeps
  <2>7. ASSUME NEW s \in Subscribers, Activate(s) \/ Receive(s) \/ Close(s)
        PROVE  StreamsInv'
    BY <2>7, ActivateKeeps, ReceiveKeeps, CloseKeeps
  <2>8. CASE UNCHANGED vars
    <3>1. UNCHANGED <<state, subs, pending, excuse>>
      BY <2>8 DEF vars
    <3>2. \A s \in Subscribers : StreamOk(s)' /\ Excused(s)'
      BY <3>1, QuietStream DEF StreamsInv
    <3> QED BY <3>1, <3>2 DEF StreamsInv, TablesOk
  <2> QED
    BY <2>1, <2>2, <2>3, <2>4, <2>5, <2>6, <2>7, <2>8 DEF Next
<1> QED BY <1>1, <1>2, PTL DEF Spec

(* The variables keep their types, and no receiver holds more than the capacity *)
(* of its channel, whatever the mutators return (BlokliTestClient::new).    *)
THEOREM TypeCorrect == Spec => []TypeOK
<1>1. IInv /\ ActiveOk /\ StreamsInv => TypeOK
  <2> SUFFICES ASSUME IInv, ActiveOk, StreamsInv PROVE TypeOK
    OBVIOUS
  <2>1. \A t \in DOMAIN active :
          /\ t \in TxIds \cup {Foreign}
          /\ active[t] \in [status : {"Confirmed", "Reverted"},
                            safe : {"none", "succeeded", "failed"}]
    BY DEF ActiveOk, Outcomes
  <2>2. ASSUME NEW s \in Subscribers, Open(s)
        PROVE  /\ subs[s].phase \in {"snapshot", "live"} /\ subs[s].stream \in Streams
               /\ subs[s].view \in [Keys[About(s)] -> ValuesOf(About(s)) \cup {Absent}]
               /\ Len(subs[s].inbox) <= Capacity
               /\ subs[s].phase = "snapshot" => subs[s].inbox = <<>>
    BY <2>2 DEF StreamsInv, StreamOk, Followers
  <2>3. /\ IsState(state)
        /\ \A u \in Updaters : pending[u] \in Values["ticket_params"] \cup {Absent}
        /\ \A s \in Subscribers : \A k \in DOMAIN excuse[s] : excuse[s][k] \in Reasons \cup {None}
    BY DEF StreamsInv, TablesOk
  <2>4. \A t \in TxIds : fate[t] \in {None, "applied", "reverted"}
    BY DEF IInv
  <2> QED BY <2>1, <2>2, <2>3, <2>4 DEF TypeOK
<1>2. Counted => ActiveOk
  BY DEF Counted
<1> QED BY <1>1, <1>2, Inductive, CountedHolds, StreamsHold, PTL

(* A stream that activates its receiver under the read lock misses nothing     *)
(* between its copy and its updates, for any fixture and any number of streams *)
(* (subscribe_services, subscribe_service_types,                            *)
(* subscribe_service_registry_config).                                      *)
THEOREM LockedComplete == Spec => []LockedStreamsMissNothing
<1>1. StreamsInv => LockedStreamsMissNothing
  <2> SUFFICES ASSUME StreamsInv, NEW s \in Subscribers, Open(s), subs[s].stream \in Locked,
                      NEW k \in Differs(s)
               PROVE  excuse[s][k] \in {"channel full", "hidden"}
                        \cup (IF subs[s].stream = "service_types" THEN {"removed"} ELSE {})
    BY DEF LockedStreamsMissNothing, DiffersOnlyFor
  <2>1. excuse[s][k] \in Allowed(subs[s].stream)
    BY DEF StreamsInv, Excused, Announced, Locked
  <2> QED BY <2>1 DEF Allowed, Locked, Follows, Single
<1> QED BY <1>1, StreamsHold, PTL

(* The other streams may also miss what changed between their copy and the     *)
(* activation, channels without accounts and removals, and nothing else that *)
(* simulate_tx_execution sends.                                             *)
THEOREM OthersMissTheGap == Spec => []OtherStreamsMissOnlyTheGap
<1>1. StreamsInv => OtherStreamsMissOnlyTheGap
  <2> SUFFICES ASSUME StreamsInv, NEW s \in Subscribers, Open(s),
                      subs[s].stream \notin Locked \cup {"ticket_params"}, NEW k \in Differs(s)
               PROVE  excuse[s][k] \in {"channel full", "hidden", "removed", "before activation"}
                        \cup (IF About(s) = "channels" THEN {"endpoint missing"} ELSE {})
    BY DEF OtherStreamsMissOnlyTheGap, DiffersOnlyFor
  <2>1. excuse[s][k] \in Allowed(subs[s].stream)
    BY DEF StreamsInv, Excused, Announced
  <2> QED BY <2>1 DEF Allowed, About
<1> QED BY <1>1, StreamsHold, PTL

(* While no update is between its write and its broadcast, the streams of ticket *)
(* parameters are right, but for what was overtaken, hidden, did not fit or came *)
(* before the activation, for any number of concurrent calls of              *)
(* update_price_and_win_prob.                                               *)
THEOREM ParamsSettle == Spec => []TicketParamsSettle
<1>1. StreamsInv => TicketParamsSettle
  <2> SUFFICES ASSUME StreamsInv, \A u \in Updaters : pending[u] = Absent,
                      NEW s \in Subscribers, Open(s), subs[s].stream = "ticket_params",
                      NEW k \in Differs(s)
               PROVE  excuse[s][k] \in {"channel full", "hidden", "before activation", "overtaken"}
    BY DEF TicketParamsSettle, DiffersOnlyFor
  <2>1. excuse[s][k] \in Allowed(subs[s].stream)
    BY DEF StreamsInv, Excused, Announced
  <2> QED BY <2>1 DEF Allowed, Locked, Follows, Single
<1> QED BY <1>1, StreamsHold, PTL

=============================================================================
