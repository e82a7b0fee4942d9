------------------------- MODULE TransactionsProofs -------------------------
(* Theorems about Transactions, for any callers and intents, whatever Blokli *)
(* and the chain do within the actions given them.                          *)
EXTENDS Transactions, TLAPS

Modes == DOMAIN Mutations
Refusals == PolicyErrors \cup {"OverloadedError"}
Kinds ==
  {"none", "ReqwestError", "Timeout", "GraphQLError", "NoData", "ParseError",
   "contract not allowed", "function not allowed", "HoprActionRejected",
   "HoprActionThrottled", "overloaded", "timeout", "rpc error",
   "REVERTED", "SUBMISSION_FAILED", "VALIDATION_FAILED", "TIMEOUT"}
Results == [ok : BOOLEAN, error : Kinds]

(* What the answer to a submission becomes.                                 *)
Received(mode, member) == Outcome(Mutations[mode], Response(member, "absent"))
Success(mode, member) ==
  \/ mode = "submit" /\ member = "SendTransactionSuccess"
  \/ mode = "track" /\ member \in {"Transaction", "DeduplicatedTransaction"}
  \/ mode = "confirm" /\ member = "Transaction"

-----------------------------------------------------------------------------
(* Answers.                                                                *)

LEMMA ModesAre == Modes = {"submit", "track", "confirm"}
  BY DEF Modes, Mutations

LEMMA MembersAre ==
  Members = {"ContractNotAllowedError", "FunctionNotAllowedError", "HoprActionRejectedError",
             "HoprActionThrottledError", "OverloadedError", "SendTransactionSuccess",
             "Transaction", "DeduplicatedTransaction", "TimeoutError", "RpcError",
             "MemberOfNewerBlokli"}
  BY DEF Members, PolicyErrors

(* The kinds that the errors of a submission become.                         *)
LEMMA KindsAre ==
  /\ KindOf("ContractNotAllowedError") = "contract not allowed"
  /\ KindOf("FunctionNotAllowedError") = "function not allowed"
  /\ KindOf("HoprActionRejectedError") = "HoprActionRejected"
  /\ KindOf("HoprActionThrottledError") = "HoprActionThrottled"
  /\ KindOf("OverloadedError") = "overloaded"
  /\ KindOf("TimeoutError") = "timeout"
  /\ KindOf("RpcError") = "rpc error"
  BY DEF KindOf, QueryErrorKinds, TransactionErrorKinds

LEMMA RefusalKindsAre ==
  RefusalKinds = {"contract not allowed", "function not allowed", "HoprActionRejected",
                  "HoprActionThrottled", "overloaded"}
<1>1. PolicyErrors \cup {"OverloadedError"} =
        {"ContractNotAllowedError", "FunctionNotAllowedError", "HoprActionRejectedError",
         "HoprActionThrottledError", "OverloadedError"}
  BY DEF PolicyErrors
<1> QED
  BY <1>1, KindsAre, Zenon DEF RefusalKinds

(* The two forms of a result.                                               *)
LEMMA OkIs == Ok \in Results /\ Ok.ok /\ Ok.error = "none"
  BY DEF Ok, Results, Kinds

LEMMA ErrIs ==
  ASSUME NEW kind \in Kinds
  PROVE  Err(kind) \in Results /\ ~Err(kind).ok /\ Err(kind).error = kind
  BY DEF Err, Results

LEMMA ReceivedIs ==
  ASSUME NEW mode \in Modes, NEW member \in Members
  PROVE  Received(mode, member) = FromUnion(SendUnions[Mutations[mode]], member)
<1>1. /\ Response(member, "absent").data = member
      /\ member # NoMember /\ member # NullRoot
  BY MembersAre DEF Response, NoMember, NullRoot
<1>2. ResponseToData(Response(member, "absent")).ok
  BY <1>1 DEF ResponseToData, Ok
<1>3. Mutations[mode] \in DOMAIN SendUnions /\ Mutations[mode] \notin {"chain_info", "transaction"}
  BY ModesAre DEF Mutations, SendUnions
<1>4. IsUnion(Mutations[mode]) /\ UnionOf(Mutations[mode]) = SendUnions[Mutations[mode]]
  BY <1>3 DEF IsUnion, UnionOf
<1> QED
  BY <1>1, <1>2, <1>4 DEF Received, Outcome

LEMMA ReceivedTells ==
  ASSUME NEW mode \in Modes, NEW member \in Members
  PROVE  /\ Received(mode, member) \in Results
         /\ Received(mode, member).ok <=> Success(mode, member)
         /\ Received(mode, member).ok => Received(mode, member).error = "none"
         /\ Received(mode, member).error \in RefusalKinds => member \in Refusals
<1> DEFINE union == SendUnions[Mutations[mode]]
<1>1. /\ mode = "submit"  => union = Union({"SendTransactionSuccess"},
                                           PolicyErrors \cup {"RpcError"})
      /\ mode = "track"   => union = Union({"Transaction", "DeduplicatedTransaction"},
                                           PolicyErrors \cup {"RpcError", "OverloadedError"})
      /\ mode = "confirm" => union = Union({"Transaction"},
                                           PolicyErrors \cup {"RpcError", "TimeoutError"})
  BY DEF Mutations, SendUnions
<1>2. member \in union.successes <=> Success(mode, member)
  BY <1>1, ModesAre DEF Union, Success
<1>3. union.errors \subseteq PolicyErrors \cup {"RpcError", "OverloadedError", "TimeoutError"}
  BY <1>1, ModesAre DEF Union
<1> HIDE DEF union
<1>4. CASE member \in union.successes
  <2>1. Received(mode, member) = Ok
    BY <1>4, ReceivedIs DEF FromUnion, union
  <2>2. "none" \notin RefusalKinds
    BY RefusalKindsAre
  <2> QED
    BY <1>2, <1>4, <2>1, <2>2, OkIs
<1>5. CASE member \notin union.successes
  <2> DEFINE kind == IF member \in union.errors THEN KindOf(member) ELSE "NoData"
  <2>1. Received(mode, member) = Err(kind)
    BY <1>5, ReceivedIs DEF FromUnion, union
  <2>2. kind \in Kinds /\ (kind \in RefusalKinds => member \in Refusals)
    BY <1>3, KindsAre, RefusalKindsAre DEF PolicyErrors, Refusals, Kinds
  <2> HIDE DEF kind
  <2>3. Received(mode, member) \in Results /\ ~Received(mode, member).ok
        /\ Received(mode, member).error = kind
    BY <2>1, <2>2, ErrIs
  <2> QED
    BY <1>2, <1>5, <2>2, <2>3
<1> QED
  BY <1>4, <1>5

(* What a status that ends tracking says.                                   *)
LEMMA VerdictTells ==
  ASSUME NEW status \in Statuses,
         NEW verdict, verdict = Verdict(Decoded("TransactionStatus", status)), verdict # Null
  PROVE  /\ verdict \in Results
         /\ verdict.error \notin RefusalKinds
         /\ verdict.ok => status = "CONFIRMED"
         /\ verdict.error \in {"REVERTED", "SUBMISSION_FAILED", "VALIDATION_FAILED"}
              => status = verdict.error
<1> DEFINE decoded == Decoded("TransactionStatus", status)
<1>1. KnownValues["TransactionStatus"] =
        {"CONFIRMED", "PENDING", "REVERTED", "SUBMISSION_FAILED", "SUBMITTED", "TIMEOUT",
         "VALIDATION_FAILED"}
  BY DEF KnownValues
<1>2. decoded = status \/ decoded = "Unknown"
  BY DEF Decoded
<1>3. CASE decoded = "CONFIRMED"
  <2>1. verdict = Ok
    BY <1>3 DEF Verdict
  <2> QED
    BY <1>2, <1>3, <2>1, OkIs, RefusalKindsAre
<1>4. CASE decoded # "CONFIRMED"
  <2>1. decoded \notin {"PENDING", "SUBMITTED", "Unknown"} /\ verdict = Err(decoded)
    BY <1>4 DEF Verdict
  <2>2. /\ decoded = status
        /\ decoded \in {"REVERTED", "SUBMISSION_FAILED", "TIMEOUT", "VALIDATION_FAILED"}
    BY <1>1, <1>2, <1>4, <2>1 DEF Decoded, Statuses
  <2>3. decoded \in Kinds /\ decoded \notin RefusalKinds
    BY <2>2, RefusalKindsAre DEF Kinds
  <2> QED
    BY <2>1, <2>2, <2>3, ErrIs
<1> QED
  BY <1>3, <1>4

-----------------------------------------------------------------------------
(* The invariant.  A submission is handled once an answer names a member; the *)
(* answer tells what Blokli did, and a final status what the chain did.       *)
Calls == [pc : {"idle", "sent", "tracking", "ended"}, mode : Modes \cup {Null},
          id : Callers \cup {Null}, result : Results \cup {Null}]
Fates == {"unknown", "broadcast", "success", "reverted"}
Failures == {"REVERTED", "SUBMISSION_FAILED", "VALIDATION_FAILED"}
Unhandled == Answer("none", Null)
Handled(c) == flight[c] # Null /\ flight[c] # Unhandled

Typed ==
  /\ intent \in [Callers -> Intents]
  /\ chain \in [Callers -> Fates]
  /\ tracked \in [Callers -> Statuses \cup {Null}]
  /\ flight \in [Callers -> Flights \cup {Null}]
  /\ call \in [Callers -> Calls]

PhaseOk(c) ==
  /\ call[c].pc = "idle" <=> flight[c] = Null
  /\ call[c].pc # "idle" => call[c].mode \in Modes
  /\ call[c].pc = "tracking" => call[c].id # Null
  /\ call[c].id # Null => call[c].pc \in {"tracking", "ended"} /\ call[c].mode = "track"

IdOk(c, id) == id \in Callers /\ tracked[id] # Null /\ intent[id] = intent[c]

AnswerOk(c) ==
  /\ ~Handled(c) => chain[c] = "unknown" /\ tracked[c] = Null
  /\ Handled(c) =>
       /\ flight[c].member \in Members
       /\ flight[c].member \in Refusals => chain[c] = "unknown" /\ tracked[c] = Null
       /\ Success(call[c].mode, flight[c].member) =>
            IF call[c].mode = "track" THEN IdOk(c, flight[c].id) ELSE chain[c] # "unknown"

MonitorOk(c) ==
  /\ tracked[c] = "CONFIRMED" => chain[c] = "success"
  /\ tracked[c] = "REVERTED"  => chain[c] = "reverted"
  /\ tracked[c] \in {"SUBMISSION_FAILED", "VALIDATION_FAILED"} => chain[c] = "unknown"

CallOk(c) ==
  /\ call[c].id # Null => IdOk(c, call[c].id)
  /\ call[c].pc = "ended" /\ call[c].result # Null =>
       /\ call[c].result.error \in RefusalKinds => Handled(c) /\ flight[c].member \in Refusals
       /\ call[c].id # Null =>
            /\ call[c].result.ok => tracked[call[c].id] = "CONFIRMED"
            /\ call[c].result.error \in Failures => tracked[call[c].id] = call[c].result.error
       /\ call[c].result.ok /\ call[c].mode # "track" => chain[c] # "unknown"

IInv == Typed /\ \A c \in Callers : PhaseOk(c) /\ AnswerOk(c) /\ MonitorOk(c) /\ CallOk(c)

LEMMA NullIsNone ==
  /\ Null \notin Callers /\ Null \notin Statuses /\ Null \notin Flights
  /\ Unhandled \in Flights /\ Unhandled.member = "none"
  /\ \A member \in Members, id \in Callers \cup {Null} :
       /\ Answer(member, id) \in Flights
       /\ Answer(member, id) # Unhandled
       /\ Answer(member, id).member = member /\ Answer(member, id).id = id
<1>1. "none" \notin Members
  BY MembersAre
<1> QED
  BY <1>1, NullAssumption DEF Unhandled, Answer, Flights

LEMMA InitIInv == Init => IInv
<1> SUFFICES ASSUME Init PROVE IInv
  OBVIOUS
<1>1. Idle \in Calls
  BY DEF Idle, Calls
<1>2. Typed
  BY <1>1 DEF Init, Typed, Fates
<1>3. ASSUME NEW c \in Callers
      PROVE  /\ chain[c] = "unknown" /\ tracked[c] = Null /\ flight[c] = Null
             /\ call[c].pc = "idle" /\ call[c].id = Null /\ call[c].mode = Null
  BY DEF Init, Idle
<1>4. Null \notin Statuses /\ "CONFIRMED" \in Statuses /\ "REVERTED" \in Statuses
      /\ "SUBMISSION_FAILED" \in Statuses /\ "VALIDATION_FAILED" \in Statuses
  BY NullIsNone DEF Statuses, KnownValues
<1> QED
  BY <1>2, <1>3, <1>4 DEF IInv, PhaseOk, AnswerOk, MonitorOk, CallOk, Handled

-----------------------------------------------------------------------------
(* Blokli handles a submission: what all six ways have in common.            *)
Handling(c, member, id) ==
  /\ flight[c] = Unhandled
  /\ flight' = [flight EXCEPT ![c] = Answer(member, id)]
  /\ UNCHANGED <<intent, call>>
  /\ chain' \in [Callers -> Fates]
  /\ tracked' \in [Callers -> Statuses \cup {Null}]
  /\ \A d \in Callers \ {c} : chain'[d] = chain[d] /\ tracked'[d] = tracked[d]
  /\ tracked'[c] \in {Null, "SUBMITTED"}
  /\ member \in Refusals => chain'[c] = "unknown" /\ tracked'[c] = Null
  /\ Success(call[c].mode, member) =>
       IF call[c].mode = "track" THEN IdOk(c, id)' ELSE chain'[c] # "unknown"

LEMMA FinalsAre ==
  /\ {"CONFIRMED", "REVERTED", "SUBMISSION_FAILED", "VALIDATION_FAILED", "SUBMITTED"}
       \subseteq Statuses
  /\ Open \subseteq Statuses
  /\ {"CONFIRMED", "REVERTED", "SUBMISSION_FAILED", "VALIDATION_FAILED"} \cap Open = {}
<1>1. KnownValues["TransactionStatus"] =
        {"CONFIRMED", "PENDING", "REVERTED", "SUBMISSION_FAILED", "SUBMITTED", "TIMEOUT",
         "VALIDATION_FAILED"}
  BY DEF KnownValues
<1> QED
  BY <1>1 DEF Statuses, Open

LEMMA HandlingKeeps ==
  ASSUME IInv, NEW c \in Callers, NEW member \in Members, NEW id \in Callers \cup {Null},
         Handling(c, member, id)
  PROVE  IInv'
<1>1. chain[c] = "unknown" /\ tracked[c] = Null /\ ~Handled(c)
  BY DEF Handling, Handled, IInv, AnswerOk
<1>2. Typed'
  BY NullIsNone DEF Handling, IInv, Typed
<1>3. flight'[c] = Answer(member, id) /\ \A d \in Callers \ {c} : flight'[d] = flight[d]
  BY DEF Handling, IInv, Typed
<1>4. /\ Handled(c)' /\ flight'[c].member = member /\ flight'[c].id = id
      /\ flight'[c] # Null /\ flight[c] # Null
  BY <1>3, NullIsNone DEF Handled, Handling
<1>5. \A d \in Callers \ {c} : Handled(d)' <=> Handled(d)
  BY <1>3 DEF Handled
<1>6. \A d, e \in Callers : tracked[e] # Null => tracked'[e] = tracked[e]
  BY <1>1 DEF Handling
<1>7. \A d \in Callers : \A e : IdOk(d, e) => IdOk(d, e)'
  BY <1>6, <1>1 DEF IdOk, Handling
<1> SUFFICES ASSUME NEW d \in Callers
             PROVE  (PhaseOk(d) /\ AnswerOk(d) /\ MonitorOk(d) /\ CallOk(d))'
  BY <1>2 DEF IInv
<1>8. PhaseOk(d)'
  BY <1>3, <1>4 DEF IInv, PhaseOk, Handling
<1>9. AnswerOk(d)'
  <2>1. CASE d = c
    BY <1>4, <2>1 DEF AnswerOk, Handling
  <2>2. CASE d # c
    BY <1>3, <1>5, <1>7, <2>2 DEF IInv, AnswerOk, Handling
  <2> QED
    BY <2>1, <2>2
<1>10. MonitorOk(d)'
  <2>1. CASE d = c
    BY <2>1, NullIsNone, FinalsAre DEF MonitorOk, Handling
  <2>2. CASE d # c
    BY <2>2 DEF IInv, MonitorOk, Handling
  <2> QED
    BY <2>1, <2>2
<1>11. CallOk(d)'
  <2>1. CASE d = c
    BY <1>1, <1>4, <1>6, <1>7, <2>1 DEF IInv, CallOk, IdOk, Handling, Handled
  <2>2. CASE d # c
    BY <1>3, <1>5, <1>6, <1>7, <2>2 DEF IInv, CallOk, IdOk, Handling
  <2> QED
    BY <2>1, <2>2
<1> QED
  BY <1>8, <1>9, <1>10, <1>11

(* Each way is one of these.                                                *)
LEMMA BlokliHandles ==
  ASSUME IInv, NEW c \in Callers,
         \/ Refuse(c) \/ (\E d \in Callers : Deduplicate(c, d)) \/ BreakOff(c)
         \/ Broadcast(c) \/ Track(c) \/ Confirm(c)
  PROVE  \E member \in Members, id \in Callers \cup {Null} : Handling(c, member, id)
<1>1. chain \in [Callers -> Fates] /\ tracked \in [Callers -> Statuses \cup {Null}]
  BY DEF IInv, Typed
<1>2. ASSUME flight[c] = Unhandled
      PROVE  chain[c] = "unknown" /\ tracked[c] = Null
  BY <1>2 DEF IInv, AnswerOk, Handled
<1>3. ASSUME Refuse(c)
      PROVE  \E member \in Members : Handling(c, member, Null)
  <2>1. PICK member \in Refusals : Handles(c, member, Null)
    BY <1>3 DEF Refuse, Refusals
  <2>2. member \in Members /\ ~Success(call[c].mode, member)
    BY MembersAre DEF Refusals, PolicyErrors, Success
  <2> QED
    BY <1>1, <1>2, <1>3, <2>1, <2>2 DEF Refuse, Handles, Handling, Unhandled
<1>4. ASSUME NEW d \in Callers, Deduplicate(c, d)
      PROVE  Handling(c, "DeduplicatedTransaction", d)
  <2>1. /\ Success(call[c].mode, "DeduplicatedTransaction")
        /\ "DeduplicatedTransaction" \notin Refusals
    BY <1>4 DEF Deduplicate, Success, Refusals, PolicyErrors
  <2>2. tracked[d] # Null
    BY <1>4, FinalsAre, NullIsNone DEF Deduplicate
  <2> QED
    BY <1>1, <1>2, <1>4, <2>1, <2>2 DEF Deduplicate, Handles, Handling, Unhandled, IdOk
<1>5. ASSUME BreakOff(c)
      PROVE  \E member \in Members : Handling(c, member, Null)
  <2>1. PICK member \in {"RpcError", "MemberOfNewerBlokli"} : Handles(c, member, Null)
    BY <1>5 DEF BreakOff
  <2>2. member \in Members /\ ~Success(call[c].mode, member) /\ member \notin Refusals
    BY MembersAre DEF Refusals, PolicyErrors, Success
  <2>3. Handling(c, member, Null)
    BY <1>1, <1>2, <1>5, <2>1, <2>2 DEF BreakOff, Handles, Handling, Unhandled, Fates
  <2> QED
    BY <2>2, <2>3
<1>6. ASSUME Broadcast(c)
      PROVE  Handling(c, "SendTransactionSuccess", Null)
  <2>1. "SendTransactionSuccess" \notin Refusals
    BY DEF Refusals, PolicyErrors
  <2> QED
    BY <1>1, <1>2, <1>6, <2>1 DEF Broadcast, Handles, Handling, Unhandled, Fates
<1>7. ASSUME Track(c)
      PROVE  Handling(c, "Transaction", c)
  <2>1. "Transaction" \notin Refusals
    BY DEF Refusals, PolicyErrors
  <2>2. "SUBMITTED" \in Statuses /\ "SUBMITTED" # Null
    BY FinalsAre, NullIsNone
  <2> QED
    BY <1>1, <1>2, <1>7, <2>1, <2>2 DEF Track, Handles, Handling, Unhandled, Fates, IdOk
<1>8. ASSUME Confirm(c)
      PROVE  \E member \in Members : Handling(c, member, Null)
  <2>1. "Transaction" \notin Refusals /\ "TimeoutError" \notin Refusals
        /\ "Transaction" \in Members /\ "TimeoutError" \in Members
        /\ ~Success("confirm", "TimeoutError")
    BY MembersAre DEF Refusals, PolicyErrors, Success
  <2>2. CASE Handles(c, "TimeoutError", Null) /\ chain' = [chain EXCEPT ![c] = "broadcast"]
    <3>1. Handling(c, "TimeoutError", Null)
      BY <1>1, <1>2, <1>8, <2>1, <2>2 DEF Confirm, Handles, Handling, Unhandled, Fates
    <3> QED
      BY <2>1, <3>1
  <2>3. CASE /\ Handles(c, "Transaction", Null)
             /\ \E outcome \in {"success", "reverted"} : chain' = [chain EXCEPT ![c] = outcome]
    <3>1. Handling(c, "Transaction", Null)
      BY <1>1, <1>2, <1>8, <2>1, <2>3 DEF Confirm, Handles, Handling, Unhandled, Fates
    <3> QED
      BY <2>1, <3>1
  <2> QED
    BY <1>8, <2>2, <2>3 DEF Confirm
<1>9. {"DeduplicatedTransaction", "SendTransactionSuccess", "Transaction"} \subseteq Members
  BY MembersAre
<1> QED
  BY <1>3, <1>4, <1>5, <1>6, <1>7, <1>8, <1>9

-----------------------------------------------------------------------------
(* The chain and Blokli's monitor.                                          *)
LEMMA MineKeeps ==
  ASSUME IInv, NEW c \in Callers, Mine(c)
  PROVE  IInv'
<1>1. chain[c] = "broadcast" /\ chain'[c] \in {"success", "reverted"}
      /\ \A d \in Callers \ {c} : chain'[d] = chain[d]
  BY DEF Mine, IInv, Typed
<1>2. Typed'
  BY DEF Mine, IInv, Typed, Fates
<1> SUFFICES ASSUME NEW d \in Callers
             PROVE  (PhaseOk(d) /\ AnswerOk(d) /\ MonitorOk(d) /\ CallOk(d))'
  BY <1>2 DEF IInv
<1>3. PhaseOk(d) /\ AnswerOk(d) /\ MonitorOk(d) /\ CallOk(d)
  BY DEF IInv
<1>4. \A e : IdOk(d, e)' <=> IdOk(d, e)
  BY DEF Mine, IdOk
<1>5. Handled(d)' <=> Handled(d)
  BY DEF Mine, Handled
<1>6. PhaseOk(d)'
  BY <1>3 DEF PhaseOk, Mine
<1>7. AnswerOk(d)'
  BY <1>1, <1>3, <1>4, <1>5 DEF AnswerOk, Mine
<1>8. MonitorOk(d)'
  BY <1>1, <1>3 DEF MonitorOk, Mine
<1>9. CallOk(d)'
  BY <1>1, <1>3, <1>4, <1>5 DEF CallOk, Mine
<1> QED
  BY <1>6, <1>7, <1>8, <1>9

LEMMA MonitorKeeps ==
  ASSUME IInv, NEW c \in Callers, Monitor(c)
  PROVE  IInv'
<1>1. PICK status \in Statuses \ {"PENDING", "SUBMITTED"} :
        /\ status = "CONFIRMED" => chain[c] = "success"
        /\ status = "REVERTED"  => chain[c] = "reverted"
        /\ status \in {"SUBMISSION_FAILED", "VALIDATION_FAILED"} => chain[c] = "unknown"
        /\ tracked' = [tracked EXCEPT ![c] = status]
  BY DEF Monitor
<1>2. tracked'[c] = status /\ \A d \in Callers \ {c} : tracked'[d] = tracked[d]
  BY <1>1 DEF IInv, Typed
<1>3. status # Null /\ tracked[c] # Null /\ tracked[c] \in Open
  BY NullIsNone, FinalsAre DEF Monitor
<1>4. Typed'
  BY <1>1 DEF Monitor, IInv, Typed
<1> SUFFICES ASSUME NEW d \in Callers
             PROVE  (PhaseOk(d) /\ AnswerOk(d) /\ MonitorOk(d) /\ CallOk(d))'
  BY <1>4 DEF IInv
<1>5. PhaseOk(d) /\ AnswerOk(d) /\ MonitorOk(d) /\ CallOk(d)
  BY DEF IInv
<1>6. \A e : IdOk(d, e) => IdOk(d, e)'
  BY <1>2, <1>3 DEF Monitor, IdOk
<1>7. Handled(d)' <=> Handled(d)
  BY DEF Monitor, Handled
<1>8. PhaseOk(d)'
  BY <1>5 DEF PhaseOk, Monitor
<1>9. AnswerOk(d)'
  BY <1>2, <1>3, <1>5, <1>6, <1>7 DEF AnswerOk, Monitor
<1>10. MonitorOk(d)'
  BY <1>1, <1>2, <1>5 DEF MonitorOk, Monitor
<1>11. CallOk(d)'
  <2>1. \A e \in Callers : tracked[e] \in Failures \cup {"CONFIRMED"} => tracked'[e] = tracked[e]
    BY <1>2, <1>3, FinalsAre DEF Failures
  <2> QED
    BY <1>5, <1>6, <1>7, <2>1 DEF CallOk, IdOk, Monitor, Failures
<1> QED
  BY <1>8, <1>9, <1>10, <1>11

-----------------------------------------------------------------------------
(* The callers.                                                            *)
LEMMA SubmitKeeps ==
  ASSUME IInv, NEW c \in Callers, NEW mode \in Modes, Submit(c, mode)
  PROVE  IInv'
<1>1. /\ call'[c] = [call[c] EXCEPT !.pc = "sent", !.mode = mode]
      /\ call'[c].pc = "sent" /\ call'[c].mode = mode /\ call'[c].id = call[c].id
      /\ call'[c] \in Calls
      /\ \A d \in Callers \ {c} : call'[d] = call[d]
  BY DEF Submit, IInv, Typed, Calls
<1>2. flight'[c] = Unhandled /\ \A d \in Callers \ {c} : flight'[d] = flight[d]
  BY DEF Submit, IInv, Typed, Unhandled
<1>3. call[c].id = Null /\ flight[c] = Null /\ chain[c] = "unknown" /\ tracked[c] = Null
  BY DEF Submit, IInv, PhaseOk, AnswerOk, Handled
<1>4. Typed'
  BY <1>1, NullIsNone DEF Submit, IInv, Typed, Unhandled
<1> SUFFICES ASSUME NEW d \in Callers
             PROVE  (PhaseOk(d) /\ AnswerOk(d) /\ MonitorOk(d) /\ CallOk(d))'
  BY <1>4 DEF IInv
<1>5. PhaseOk(d) /\ AnswerOk(d) /\ MonitorOk(d) /\ CallOk(d)
  BY DEF IInv
<1>6. \A e : IdOk(d, e)' <=> IdOk(d, e)
  BY DEF Submit, IdOk
<1>7. Unhandled # Null
  BY NullIsNone
<1>8. CASE d = c
  <2>1. ~Handled(d)'
    BY <1>2, <1>8 DEF Handled
  <2>2. PhaseOk(d)'
    BY <1>1, <1>2, <1>3, <1>7, <1>8 DEF PhaseOk
  <2>3. AnswerOk(d)'
    BY <1>3, <1>8, <2>1 DEF AnswerOk, Submit
  <2>4. MonitorOk(d)'
    BY <1>5 DEF MonitorOk, Submit
  <2>5. CallOk(d)'
    BY <1>1, <1>3, <1>8 DEF CallOk
  <2> QED
    BY <2>2, <2>3, <2>4, <2>5
<1>9. CASE d # c
  <2>1. call'[d] = call[d] /\ flight'[d] = flight[d] /\ (Handled(d)' <=> Handled(d))
    BY <1>1, <1>2, <1>9 DEF Handled
  <2> QED
    BY <1>5, <1>6, <2>1 DEF PhaseOk, AnswerOk, MonitorOk, CallOk, Submit
<1> QED
  BY <1>8, <1>9

(* What a step of a caller that has submitted leads to.                      *)
Reached(c, state) ==
  /\ state \in Calls
  /\ state.pc \in {"tracking", "ended"}
  /\ state.mode = call[c].mode
  /\ state.pc = "tracking" => state.id # Null
  /\ state.id # Null => state.mode = "track" /\ IdOk(c, state.id)
  /\ state.pc = "ended" /\ state.result # Null =>
       /\ state.result.error \in RefusalKinds => Handled(c) /\ flight[c].member \in Refusals
       /\ state.id # Null =>
            /\ state.result.ok => tracked[state.id] = "CONFIRMED"
            /\ state.result.error \in Failures => tracked[state.id] = state.result.error
       /\ state.result.ok /\ state.mode # "track" => chain[c] # "unknown"

LEMMA ReachingKeeps ==
  ASSUME IInv, NEW c \in Callers, NEW state, Reached(c, state),
         call[c].pc # "idle",
         call' = [call EXCEPT ![c] = state],
         UNCHANGED <<intent, chain, tracked, flight>>
  PROVE  IInv'
<1>1. call'[c] = state /\ \A d \in Callers \ {c} : call'[d] = call[d]
  BY DEF IInv, Typed
<1>2. Typed'
  BY DEF IInv, Typed, Reached
<1> SUFFICES ASSUME NEW d \in Callers
             PROVE  (PhaseOk(d) /\ AnswerOk(d) /\ MonitorOk(d) /\ CallOk(d))'
  BY <1>2 DEF IInv
<1>3. PhaseOk(d) /\ AnswerOk(d) /\ MonitorOk(d) /\ CallOk(d)
  BY DEF IInv
<1>4. (\A e : IdOk(d, e)' <=> IdOk(d, e)) /\ (Handled(d)' <=> Handled(d))
  BY DEF IdOk, Handled
<1>5. call'[d].mode = call[d].mode
  BY <1>1 DEF Reached
<1>6. PhaseOk(d)'
  BY <1>1, <1>3 DEF PhaseOk, Reached
<1>7. AnswerOk(d)'
  BY <1>3, <1>4, <1>5 DEF AnswerOk
<1>8. MonitorOk(d)'
  BY <1>3 DEF MonitorOk
<1>9. CallOk(d)'
  <2>1. CASE d = c
    BY <1>1, <1>4, <2>1 DEF CallOk, Reached
  <2>2. CASE d # c
    BY <1>1, <1>3, <1>4, <2>2 DEF CallOk
  <2> QED
    BY <2>1, <2>2
<1> QED
  BY <1>6, <1>7, <1>8, <1>9

(* A call that ends with an error of the client's own, or with none.         *)
LEMMA EndedReached ==
  ASSUME IInv, NEW c \in Callers, call[c].pc \in {"sent", "tracking"},
         NEW result \in Results \cup {Null},
         result # Null =>
           /\ ~result.ok
           /\ result.error \notin Failures \cup RefusalKinds
  PROVE  Reached(c, Ended(call[c], result))
<1>1. call[c] \in Calls /\ PhaseOk(c) /\ CallOk(c)
  BY DEF IInv, Typed
<1> DEFINE state == Ended(call[c], result)
<1>2. /\ state \in Calls /\ state.pc = "ended" /\ state.mode = call[c].mode
      /\ state.id = call[c].id /\ state.result = result
  BY <1>1 DEF Ended, Calls
<1> HIDE DEF state
<1>3. Reached(c, state)
  BY <1>1, <1>2 DEF Reached, PhaseOk, CallOk
<1> QED
  BY <1>3 DEF state

LEMMA ReceiveReaches ==
  ASSUME IInv, NEW c \in Callers, Receive(c)
  PROVE  \E state : Reached(c, state) /\ call' = [call EXCEPT ![c] = state]
<1> DEFINE mode == call[c].mode
           member == flight[c].member
           outcome == Received(mode, member)
<1>1. call[c] \in Calls /\ call[c].pc = "sent" /\ mode \in Modes /\ call[c].id = Null
  BY DEF Receive, IInv, Typed, PhaseOk
<1>2. Handled(c) /\ member \in Members
  BY DEF Receive, IInv, AnswerOk, Handled, Unhandled
<1>3. /\ outcome \in Results
      /\ outcome.ok <=> Success(mode, member)
      /\ outcome.ok => outcome.error = "none"
      /\ outcome.error \in RefusalKinds => member \in Refusals
  BY <1>1, <1>2, ReceivedTells
<1>4. Success(mode, member) =>
        IF mode = "track" THEN IdOk(c, flight[c].id) ELSE chain[c] # "unknown"
  BY <1>2 DEF IInv, AnswerOk
<1>5. outcome = Outcome(Mutations[call[c].mode], Response(flight[c].member, "absent"))
  BY DEF Received
<1> HIDE DEF outcome
<1>6. CASE outcome.ok /\ mode = "track"
  <2> DEFINE state == [call[c] EXCEPT !.pc = "tracking", !.id = flight[c].id]
  <2>1. call' = [call EXCEPT ![c] = state]
    BY <1>5, <1>6 DEF Receive, IInv, Typed
  <2>2. flight[c].id \in Callers /\ IdOk(c, flight[c].id) /\ flight[c].id # Null
    BY <1>3, <1>4, <1>6, NullIsNone DEF IdOk
  <2>3. state \in Calls /\ state.pc = "tracking" /\ state.mode = mode /\ state.id = flight[c].id
    BY <1>1, <2>2 DEF Calls
  <2>4. Reached(c, state)
    BY <1>6, <2>2, <2>3 DEF Reached
  <2> QED
    BY <2>1, <2>4
<1>7. CASE ~(outcome.ok /\ mode = "track")
  <2>1. PICK result \in {outcome} \cup (IF outcome.ok THEN {Err("ParseError")} ELSE {}) :
          call' = [call EXCEPT ![c] = Ended(call[c], result)]
    BY <1>5, <1>7 DEF Receive, IInv, Typed
  <2> DEFINE state == Ended(call[c], result)
  <2>2. "ParseError" \in Kinds /\ "ParseError" \notin RefusalKinds
    BY RefusalKindsAre DEF Kinds
  <2>3. /\ result \in Results
        /\ result.ok => outcome.ok
        /\ result.error \in RefusalKinds => member \in Refusals
    BY <1>3, <2>1, <2>2, ErrIs
  <2>4. /\ state \in Calls /\ state.pc = "ended" /\ state.mode = mode
        /\ state.id = Null /\ state.result = result
    BY <1>1, <2>3 DEF Ended, Calls
  <2> HIDE DEF state
  <2>5. Reached(c, state)
    BY <1>2, <1>3, <1>4, <1>7, <2>3, <2>4 DEF Reached
  <2> QED
    BY <2>1, <2>5 DEF state
<1> QED
  BY <1>6, <1>7

LEMMA ObserveReaches ==
  ASSUME IInv, NEW c \in Callers, Observe(c)
  PROVE  \E state : Reached(c, state) /\ call' = [call EXCEPT ![c] = state]
<1> DEFINE id == call[c].id
           verdict == Verdict(Decoded("TransactionStatus", tracked[id]))
           state == Ended(call[c], verdict)
<1>1. call[c] \in Calls /\ call[c].pc = "tracking" /\ call[c].mode = "track"
      /\ id # Null /\ IdOk(c, id)
  BY DEF Observe, IInv, Typed, PhaseOk, CallOk
<1>2. tracked[id] \in Statuses
  BY <1>1 DEF IdOk, IInv, Typed
<1>3. verdict # Null /\ call' = [call EXCEPT ![c] = state]
  BY DEF Observe, IInv, Typed
<1>4. /\ verdict \in Results
      /\ verdict.error \notin RefusalKinds
      /\ verdict.ok => tracked[id] = "CONFIRMED"
      /\ verdict.error \in Failures => tracked[id] = verdict.error
  BY <1>2, <1>3, VerdictTells DEF Failures
<1> HIDE DEF verdict
<1>5. /\ state \in Calls /\ state.pc = "ended" /\ state.mode = "track"
      /\ state.id = id /\ state.result = verdict
  BY <1>1, <1>4 DEF Ended, Calls
<1> HIDE DEF state
<1>6. Reached(c, state)
  BY <1>1, <1>4, <1>5 DEF Reached
<1> QED
  BY <1>3, <1>6

LEMMA FailureReaches ==
  ASSUME IInv, NEW c \in Callers, Lose(c) \/ GiveUp(c) \/ Interrupt(c)
  PROVE  \E state : Reached(c, state) /\ call' = [call EXCEPT ![c] = state]
<1>1. call[c].pc \in {"sent", "tracking"}
  BY DEF Lose, GiveUp, Interrupt
<1>2. ASSUME NEW kind \in {"ReqwestError", "Timeout", "GraphQLError", "NoData"},
             call' = [call EXCEPT ![c] = Ended(call[c], Err(kind))]
      PROVE  \E state : Reached(c, state) /\ call' = [call EXCEPT ![c] = state]
  <2>1. kind \in Kinds /\ kind \notin Failures \cup RefusalKinds
    BY RefusalKindsAre DEF Kinds, Failures
  <2>2. Err(kind) \in Results /\ ~Err(kind).ok /\ Err(kind).error = kind
    BY <2>1, ErrIs
  <2>3. Reached(c, Ended(call[c], Err(kind)))
    BY <1>1, <2>1, <2>2, EndedReached
  <2> QED
    BY <1>2, <2>3
<1>3. CASE Lose(c) \/ GiveUp(c)
  BY <1>2, <1>3 DEF Lose, GiveUp, IInv, Typed
<1>4. CASE Interrupt(c)
  <2>1. call' = [call EXCEPT ![c] = Ended(call[c], Null)]
    BY <1>4 DEF Interrupt, IInv, Typed
  <2>2. Reached(c, Ended(call[c], Null))
    BY <1>1, EndedReached
  <2> QED
    BY <2>1, <2>2
<1> QED
  BY <1>3, <1>4

LEMMA NextIInv == IInv /\ [Next]_vars => IInv'
<1> SUFFICES ASSUME IInv, [Next]_vars PROVE IInv'
  OBVIOUS
<1>1. CASE UNCHANGED vars
  BY <1>1 DEF vars, IInv, Typed, PhaseOk, AnswerOk, MonitorOk, CallOk, IdOk, Handled
<1>2. ASSUME NEW c \in Callers, NEW mode \in DOMAIN Mutations, Submit(c, mode)
      PROVE  IInv'
  BY <1>2, SubmitKeeps DEF Modes
<1>3. ASSUME NEW c \in Callers,
             \/ Refuse(c) \/ (\E d \in Callers : Deduplicate(c, d)) \/ BreakOff(c)
             \/ Broadcast(c) \/ Track(c) \/ Confirm(c)
      PROVE  IInv'
  BY <1>3, BlokliHandles, HandlingKeeps
<1>4. ASSUME NEW c \in Callers, Mine(c) PROVE IInv'
  BY <1>4, MineKeeps
<1>5. ASSUME NEW c \in Callers, Monitor(c) PROVE IInv'
  BY <1>5, MonitorKeeps
<1>6. ASSUME NEW c \in Callers,
             Receive(c) \/ Lose(c) \/ Observe(c) \/ GiveUp(c) \/ Interrupt(c)
      PROVE  IInv'
  <2>1. call[c].pc # "idle" /\ UNCHANGED <<intent, chain, tracked, flight>>
    BY <1>6 DEF Receive, Lose, Observe, GiveUp, Interrupt
  <2>2. PICK state : Reached(c, state) /\ call' = [call EXCEPT ![c] = state]
    BY <1>6, ReceiveReaches, ObserveReaches, FailureReaches
  <2> QED
    BY <2>1, <2>2, ReachingKeeps
<1> QED
  BY <1>1, <1>2, <1>3, <1>4, <1>5, <1>6 DEF Next

LEMMA Invariance == Spec => []IInv
  BY InitIInv, NextIInv, PTL DEF Spec

-----------------------------------------------------------------------------
(* Calls, answers and statuses are well-formed.                              *)
THEOREM TypeCorrect == Spec => []TypeOK
<1>1. IInv => TypeOK
  BY DEF IInv, Typed, TypeOK, PhaseOk, Calls, Fates, Modes
<1> QED
  BY <1>1, Invariance, PTL

(* Whoever is told that a transaction was refused knows that it never goes    *)
(* out: errors.rs keeps refusals apart from errors that do not tell.          *)
THEOREM RefusedNotBroadcast == Spec => []RefusedMeansNotBroadcast
<1>1. IInv => RefusedMeansNotBroadcast
  BY DEF IInv, CallOk, AnswerOk, RefusedMeansNotBroadcast
<1> QED
  BY <1>1, Invariance, PTL

(* The id that submit_and_track_transaction returns is one that Blokli tracks, *)
(* for the same action.                                                    *)
THEOREM IdsTracked == Spec => []IdsAreTracked
<1>1. IInv => IdsAreTracked
  BY DEF IInv, CallOk, IdOk, IdsAreTracked
<1> QED
  BY <1>1, Invariance, PTL

(* What track_transaction and the two other submissions report is what the     *)
(* chain did.                                                              *)
THEOREM VerdictsTrue == Spec => []VerdictsAgree
<1>1. ASSUME IInv, NEW c \in Callers, call[c].pc = "ended", call[c].result # Null
      PROVE  IF call[c].mode = "track"
             THEN call[c].id # Null =>
                    /\ call[c].result.ok => chain[call[c].id] = "success"
                    /\ call[c].result.error = "REVERTED" => chain[call[c].id] = "reverted"
                    /\ call[c].result.error \in {"SUBMISSION_FAILED", "VALIDATION_FAILED"}
                         => chain[call[c].id] = "unknown"
             ELSE call[c].result.ok => chain[c] # "unknown"
  <2>1. CallOk(c) /\ (call[c].id # Null => IdOk(c, call[c].id) /\ MonitorOk(call[c].id))
    BY <1>1 DEF IInv, CallOk, IdOk
  <2> QED
    BY <1>1, <2>1 DEF CallOk, MonitorOk, Failures
<1>2. IInv => VerdictsAgree
  BY <1>1 DEF VerdictsAgree
<1> QED
  BY <1>2, Invariance, PTL

=============================================================================
