---------------------------- MODULE Transactions ----------------------------
(***************************************************************************)
(* Submission and tracking of transactions (client/src/client/transactions.rs) *)
(* by callers that may be interrupted, as the inspector's command is.        *)
(*                                                                         *)
(* Blokli and the chain are external: Blokli may refuse a transaction,        *)
(* broadcast it, fail in between, or point to one that already carries the   *)
(* same intent; its answer may be lost; what it tracks may time out although  *)
(* the chain includes it later.  A transaction is named by its caller.       *)
(***************************************************************************)
EXTENDS Answers

CONSTANTS
  Callers,  (* tasks that submit one signed transaction each                 *)
  Intents,  (* the logical actions that transactions carry                   *)
  Null      (* no value                                                      *)

VARIABLES
  intent,   (* intent[c] = the action of c's transaction                      *)
  chain,    (* chain[c] = "unknown" to the network, "broadcast", "success" or  *)
            (* "reverted"                                                    *)
  tracked,  (* tracked[c] = Blokli's status of c's transaction, or Null        *)
  flight,   (* flight[c] = c's submission, or the answer to it, or Null        *)
  call      (* call[c] = [pc, mode, id, result]                               *)

vars == <<intent, chain, tracked, flight, call>>

(* The mutation of each mode.                                              *)
Mutations == [submit  |-> "send_transaction",
              track   |-> "send_transaction_async",
              confirm |-> "send_transaction_sync"]
Statuses == KnownValues["TransactionStatus"] \cup {"STATUS_OF_NEWER_BLOKLI"}
Open     == {"SUBMITTED", "STATUS_OF_NEWER_BLOKLI"}

(* What Blokli answers: a member of the mutation's union, or one that the      *)
(* client does not know; and the tracked transaction that it names.          *)
Members ==
  PolicyErrors \cup
  {"OverloadedError", "SendTransactionSuccess", "Transaction", "DeduplicatedTransaction",
   "TimeoutError", "RpcError", "MemberOfNewerBlokli"}
Answer(member, id) == [member |-> member, id |-> id]
Flights == [member : {"none"} \cup Members, id : Callers \cup {Null}]

(* Null is no caller, no status and no submission.                          *)
ASSUME NullAssumption == Null \notin Callers \cup Statuses \cup Flights

Idle == [pc |-> "idle", mode |-> Null, id |-> Null, result |-> Null]
(* The variant lets a call that has ended start over.                       *)
EndedIdle(state, result) == [state EXCEPT !.pc = "idle", !.result = result]
Ended(state, result) == [state EXCEPT !.pc = "ended", !.result = result]

-----------------------------------------------------------------------------
(* What tracking makes of a status: the end of it, or Null to keep waiting.   *)
(* One variant takes a submission for a confirmation, one waits on after a    *)
(* timeout.                                                                *)
VerdictOfSubmission(status) ==
  IF status \in {"CONFIRMED", "SUBMITTED"}
  THEN Ok
  ELSE IF status \in {"PENDING", "Unknown"} THEN Null ELSE Err(status)
VerdictWithoutTimeout(status) ==
  IF status = "CONFIRMED"
  THEN Ok
  ELSE IF status \in {"PENDING", "SUBMITTED", "Unknown", "TIMEOUT"} THEN Null ELSE Err(status)
Verdict(status) ==
  IF status = "CONFIRMED"
  THEN Ok
  ELSE IF status \in {"PENDING", "SUBMITTED", "Unknown"} THEN Null ELSE Err(status)

-----------------------------------------------------------------------------
Init ==
  /\ intent \in [Callers -> Intents]
  /\ chain = [c \in Callers |-> "unknown"]
  /\ tracked = [c \in Callers |-> Null]
  /\ flight = [c \in Callers |-> Null]
  /\ call = [c \in Callers |-> Idle]

Submit(c, mode) ==
  /\ call[c].pc = "idle"
  /\ call' = [call EXCEPT ![c].pc = "sent", ![c].mode = mode]
  /\ flight' = [flight EXCEPT ![c] = Answer("none", Null)]
  /\ UNCHANGED <<intent, chain, tracked>>

-----------------------------------------------------------------------------
(* Blokli handles a submission once, also when its caller is gone; id is the   *)
(* tracked transaction that the answer names.                              *)
Handles(c, member, id) ==
  /\ flight[c] = Answer("none", Null)
  /\ flight' = [flight EXCEPT ![c] = Answer(member, id)]
  /\ UNCHANGED <<intent, call>>

Refuse(c) ==
  /\ \E member \in PolicyErrors \cup
        (IF call[c].mode = "track" THEN {"OverloadedError"} ELSE {}) : Handles(c, member, Null)
  /\ UNCHANGED <<chain, tracked>>

(* Nothing is broadcast: the intent is already being tracked.               *)
Deduplicate(c, d) ==
  /\ call[c].mode = "track"
  /\ intent[d] = intent[c]
  /\ tracked[d] \in Open
  /\ Handles(c, "DeduplicatedTransaction", d)
  /\ UNCHANGED <<chain, tracked>>

(* An error of the RPC node leaves open whether the transaction is out.       *)
BreakOff(c) ==
  /\ \E member \in {"RpcError", "MemberOfNewerBlokli"} : Handles(c, member, Null)
  /\ \E state \in {"unknown", "broadcast"} : chain' = [chain EXCEPT ![c] = state]
  /\ UNCHANGED tracked

Broadcast(c) ==
  /\ call[c].mode = "submit"
  /\ Handles(c, "SendTransactionSuccess", Null)
  /\ chain' = [chain EXCEPT ![c] = "broadcast"]
  /\ UNCHANGED tracked

(* The submission of a tracked transaction may still fail.                  *)
Track(c) ==
  /\ call[c].mode = "track"
  /\ Handles(c, "Transaction", c)
  /\ \E state \in {"unknown", "broadcast"} : chain' = [chain EXCEPT ![c] = state]
  /\ tracked' = [tracked EXCEPT ![c] = "SUBMITTED"]

Confirm(c) ==
  /\ call[c].mode = "confirm"
  /\ \/ /\ Handles(c, "TimeoutError", Null)
        /\ chain' = [chain EXCEPT ![c] = "broadcast"]
     \/ /\ Handles(c, "Transaction", Null)
        /\ \E outcome \in {"success", "reverted"} : chain' = [chain EXCEPT ![c] = outcome]
  /\ UNCHANGED tracked

Mine(c) ==
  /\ chain[c] = "broadcast"
  /\ \E outcome \in {"success", "reverted"} : chain' = [chain EXCEPT ![c] = outcome]
  /\ UNCHANGED <<intent, tracked, flight, call>>

(* Blokli's monitor.  A status that ends tracking is final.                 *)
Monitor(c) ==
  /\ tracked[c] \in Open
  /\ \E status \in Statuses \ {"PENDING", "SUBMITTED"} :
       /\ status = "CONFIRMED" => chain[c] = "success"
       /\ status = "REVERTED"  => chain[c] = "reverted"
       /\ status \in {"SUBMISSION_FAILED", "VALIDATION_FAILED"} => chain[c] = "unknown"
       /\ tracked' = [tracked EXCEPT ![c] = status]
  /\ UNCHANGED <<intent, chain, flight, call>>

-----------------------------------------------------------------------------
(* The answer to a submission.  A hash that does not parse is an error, the    *)
(* status in the answer to a synchronous submission is not looked at, and    *)
(* the id in the answer to an asynchronous one is tracked from here on.  The  *)
(* variant tracks the id of a submission that was not broadcast.            *)
ReceiveOwnId(c) ==
  LET outcome == Outcome(Mutations[call[c].mode], Response(flight[c].member, "absent"))
  IN  /\ call[c].pc = "sent"
      /\ flight[c] \notin {Null, Answer("none", Null)}
      /\ call' = [call EXCEPT ![c] =
           IF outcome.ok /\ @.mode = "track"
           THEN [@ EXCEPT !.pc = "tracking", !.id = c]
           ELSE Ended(@, outcome)]
      /\ UNCHANGED <<intent, chain, tracked, flight>>
Receive(c) ==
  LET outcome == Outcome(Mutations[call[c].mode], Response(flight[c].member, "absent"))
  IN  /\ call[c].pc = "sent"
      /\ flight[c] \notin {Null, Answer("none", Null)}
      /\ IF outcome.ok /\ call[c].mode = "track"
         THEN call' = [call EXCEPT ![c].pc = "tracking", ![c].id = flight[c].id]
         ELSE \E result \in {outcome} \cup (IF outcome.ok THEN {Err("ParseError")} ELSE {}) :
                call' = [call EXCEPT ![c] = Ended(@, result)]
      /\ UNCHANGED <<intent, chain, tracked, flight>>

(* No answer in time, or the connection is lost: the submission may have been *)
(* handled, or may yet be.                                                 *)
Lose(c) ==
  /\ call[c].pc = "sent"
  /\ \E kind \in {"ReqwestError", "Timeout"} : call' = [call EXCEPT ![c] = Ended(@, Err(kind))]
  /\ UNCHANGED <<intent, chain, tracked, flight>>

(* The dedicated subscription shows every status from the current one on, and *)
(* the latest again after a reconnect; the ones that do not end tracking are   *)
(* passed over.                                                            *)
Observe(c) ==
  LET verdict == Verdict(Decoded("TransactionStatus", tracked[call[c].id]))
  IN  /\ call[c].pc = "tracking"
      /\ verdict # Null
      /\ call' = [call EXCEPT ![c] = Ended(@, verdict)]
      /\ UNCHANGED <<intent, chain, tracked, flight>>

(* The timeout of tracking passes, also while the last status is already on    *)
(* its way; or the subscription yields an error, or ends.                   *)
GiveUp(c) ==
  /\ call[c].pc = "tracking"
  /\ \E kind \in {"Timeout", "GraphQLError", "NoData"} :
       call' = [call EXCEPT ![c] = Ended(@, Err(kind))]
  /\ UNCHANGED <<intent, chain, tracked, flight>>

(* The command is interrupted.                                             *)
Interrupt(c) ==
  /\ call[c].pc \in {"sent", "tracking"}
  /\ call' = [call EXCEPT ![c] = Ended(@, Null)]
  /\ UNCHANGED <<intent, chain, tracked, flight>>

Next ==
  \E c \in Callers :
    \/ \E mode \in DOMAIN Mutations : Submit(c, mode)
    \/ Refuse(c)
    \/ \E d \in Callers : Deduplicate(c, d)
    \/ BreakOff(c)
    \/ Broadcast(c)
    \/ Track(c)
    \/ Confirm(c)
    \/ Mine(c)
    \/ Monitor(c)
    \/ Receive(c)
    \/ Lose(c)
    \/ Observe(c)
    \/ GiveUp(c)
    \/ Interrupt(c)

Spec == Init /\ [][Next]_vars

(* An answer arrives or the request times out, and the subscription delivers    *)
(* the last status, as Feed promises; nothing is assumed of Blokli.          *)
FairSpec ==
  /\ Spec
  /\ \A c \in Callers : WF_vars(Receive(c) \/ Lose(c)) /\ WF_vars(Observe(c))

-----------------------------------------------------------------------------
(* Calls and answers are well-formed, and only a call that tracks has an id.  *)
TypeOK ==
  /\ intent \in [Callers -> Intents]
  /\ chain \in [Callers -> {"unknown", "broadcast", "success", "reverted"}]
  /\ tracked \in [Callers -> Statuses \cup {Null}]
  /\ flight \in [Callers -> Flights \cup {Null}]
  /\ \A c \in Callers :
       /\ call[c].pc \in {"idle", "sent", "tracking", "ended"}
       /\ call[c].mode \in DOMAIN Mutations \cup {Null}
       /\ call[c].id \in Callers \cup {Null}
       /\ call[c].pc = "idle" <=> flight[c] = Null

(* Whoever is told that an action is not allowed, rejected, throttled or too   *)
(* many, may submit it again: nothing of it is out, nor ever will be.  An     *)
(* error that does not tell, of the RPC node or of the connection, never looks *)
(* like one of these.                                                      *)
RefusalKinds == {KindOf(member) : member \in PolicyErrors \cup {"OverloadedError"}}
RefusedMeansNotBroadcast ==
  \A c \in Callers :
    /\ call[c].pc = "ended" /\ call[c].result # Null
    /\ call[c].result.error \in RefusalKinds
    => chain[c] = "unknown" /\ tracked[c] = Null

(* The id that a submission returns is one that Blokli tracks, for the same     *)
(* action: also that of a submission that was not broadcast because another   *)
(* caller's is on its way.                                                 *)
IdsAreTracked ==
  \A c \in Callers :
    call[c].id # Null => /\ tracked[call[c].id] # Null
                         /\ intent[call[c].id] = intent[c]

(* A tracked transaction is reported as confirmed only if the chain included   *)
(* it, as reverted only if it reverted, as failed before that only if it      *)
(* never went out; and a receipt is of a transaction that did.              *)
VerdictsAgree ==
  \A c \in Callers :
    call[c].pc = "ended" /\ call[c].result # Null =>
      IF call[c].mode = "track"
      THEN call[c].id # Null =>
             LET fate == chain[call[c].id]
             IN  /\ call[c].result.ok => fate = "success"
                 /\ call[c].result.error = "REVERTED" => fate = "reverted"
                 /\ call[c].result.error \in {"SUBMISSION_FAILED", "VALIDATION_FAILED"}
                      => fate = "unknown"
      ELSE call[c].result.ok => chain[c] # "unknown"

(* Tracking ends once the transaction has reached any of the final statuses,  *)
(* without the help of its timeout.                                        *)
TrackingDecides ==
  \A c \in Callers :
    /\ call[c].pc = "tracking"
    /\ tracked[call[c].id] \in Statuses \ (Open \cup {"PENDING"})
    ~> call[c].pc = "ended"
=============================================================================
