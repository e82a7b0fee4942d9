------------------------------ MODULE Answers ------------------------------
(***************************************************************************)
(* What the client makes of an answer of Blokli: the data of a GraphQL      *)
(* response is a union of a success and of errors, and each error becomes   *)
(* an ErrorKind (client/src/api/v1/graphql/, client/src/errors.rs).  A      *)
(* member is its type name; the fields of an error are not modelled.        *)
(***************************************************************************)
EXTENDS Integers

Ok == [ok |-> TRUE, error |-> "none"]
Err(kind) == [ok |-> FALSE, error |-> kind]

-----------------------------------------------------------------------------
(* Error members and the kind each becomes.  A kind in lower case is the     *)
(* family of an ErrorKind::BlokliError.                                     *)

QueryErrorKinds ==
  [QueryFailedError    |-> "query failed",
   MissingFilterError  |-> "missing filter",
   InvalidAddressError |-> "invalid address"]

(* The variant takes an error of the RPC node for an overload of Blokli.     *)
TransactionErrorKindsNoRpc ==
  [InvalidTransactionIdError |-> "invalid transaction id",
   TimeoutError              |-> "timeout",
   RpcError                  |-> "overloaded",
   FunctionNotAllowedError   |-> "function not allowed",
   ContractNotAllowedError   |-> "contract not allowed",
   OverloadedError           |-> "overloaded",
   HoprActionRejectedError   |-> "HoprActionRejected",
   HoprActionThrottledError  |-> "HoprActionThrottled"]
TransactionErrorKinds ==
  [InvalidTransactionIdError |-> "invalid transaction id",
   TimeoutError              |-> "timeout",
   RpcError                  |-> "rpc error",
   FunctionNotAllowedError   |-> "function not allowed",
   ContractNotAllowedError   |-> "contract not allowed",
   OverloadedError           |-> "overloaded",
   HoprActionRejectedError   |-> "HoprActionRejected",
   HoprActionThrottledError  |-> "HoprActionThrottled"]

KindOf(member) ==
  IF member \in DOMAIN QueryErrorKinds
  THEN QueryErrorKinds[member]
  ELSE TransactionErrorKinds[member]

-----------------------------------------------------------------------------
(* The unions of the client, by the root field of the operation; any member  *)
(* they do not have decodes as Unknown.                                    *)

OnlyQueryFailed == {"QueryFailedError"}
AddressErrors   == {"InvalidAddressError", "QueryFailedError"}
FilterErrors    == {"MissingFilterError", "QueryFailedError"}
PolicyErrors    == {"ContractNotAllowedError", "FunctionNotAllowedError",
                    "HoprActionRejectedError", "HoprActionThrottledError"}

Union(successes, errors) == [successes |-> successes, errors |-> errors]
CountUnion == Union({"Count"}, FilterErrors)

AccountUnions ==
  [accounts          |-> Union({"AccountsList"}, FilterErrors),
   account_count     |-> CountUnion,
   transaction_count |-> Union({"TransactionCount"}, AddressErrors)]

ChannelUnions ==
  [channels      |-> Union({"ChannelsList"}, FilterErrors),
   channel_count |-> CountUnion,
   channel_stats |-> Union({"ChannelStats"}, AddressErrors),
   safes_balance |-> Union({"SafesBalance"}, AddressErrors)]

ServiceUnions ==
  [services                |-> Union({"ServicesList"}, FilterErrors),
   service_count           |-> CountUnion,
   service_types           |-> Union({"ServiceTypesList"}, OnlyQueryFailed),
   service_registry_config |-> Union({"ServiceRegistryConfig"}, OnlyQueryFailed)]

SafeUnions ==
  [safe_by                  |-> Union({"SafesList"}, AddressErrors),
   calculate_module_address |-> Union({"ModuleAddress"}, AddressErrors)]

ChainInfoUnion == Union({"ChainInfo"}, OnlyQueryFailed)

BalanceUnions ==
  [hopr_balance            |-> Union({"HoprBalance"}, AddressErrors),
   native_balance          |-> Union({"NativeBalance"}, AddressErrors),
   safe_hopr_allowance     |-> Union({"SafeHoprAllowance"}, AddressErrors),
   ticket_redemption_stats |-> Union({"RedeemedStats"}, AddressErrors \cup FilterErrors)]

TransactionUnion == Union({"Transaction"}, {"InvalidTransactionIdError"})

(* The variant does not know the timeout of a synchronous submission.       *)
SendUnionsNoTimeout ==
  [send_transaction       |-> Union({"SendTransactionSuccess"}, PolicyErrors \cup {"RpcError"}),
   send_transaction_async |-> Union({"Transaction", "DeduplicatedTransaction"},
                                    PolicyErrors \cup {"RpcError", "OverloadedError"}),
   send_transaction_sync  |-> Union({"Transaction"}, PolicyErrors \cup {"RpcError"})]
SendUnions ==
  [send_transaction       |-> Union({"SendTransactionSuccess"}, PolicyErrors \cup {"RpcError"}),
   send_transaction_async |-> Union({"Transaction", "DeduplicatedTransaction"},
                                    PolicyErrors \cup {"RpcError", "OverloadedError"}),
   send_transaction_sync  |-> Union({"Transaction"},
                                    PolicyErrors \cup {"RpcError", "TimeoutError"})]

(* The events, the synchronisation and the contract reads of Curvy.         *)
CurvyEventUnions ==
  [curvy_pending_notes        |-> Union({"CurvyPendingNotes"}, OnlyQueryFailed),
   curvy_committed_notes      |-> Union({"CurvyCommittedNotes"}, OnlyQueryFailed),
   curvy_committed_nullifiers |-> Union({"CurvyCommittedNullifiers"}, OnlyQueryFailed)]

CurvyUnions ==
  LET Plain(value)   == Union({value}, OnlyQueryFailed)
      Address(value) == Union({value}, AddressErrors)
  IN  [curvy_sync_checkpoint      |-> Plain("CurvySyncCheckpoint"),
       curvy_sync_notes           |-> Plain("CurvySyncNotePage"),
       curvy_sync_nullifiers      |-> Plain("CurvySyncNullifierPage"),
       curvy_shard_roots          |-> Plain("CurvyShardRootPage"),
       curvy_aggregator_state     |-> Plain("CurvyAggregatorState"),
       curvy_note_status          |-> Plain("CurvyNoteStatus"),
       curvy_valid_notes_root     |-> Plain("CurvyBooleanValue"),
       curvy_nullifier_spent      |-> Plain("CurvyBooleanValue"),
       curvy_vault_fees           |-> Plain("CurvyVaultFees"),
       curvy_aggregator_fees      |-> Plain("CurvyAggregatorFees"),
       curvy_vault_token_count    |-> Plain("CurvyVaultTokenCount"),
       curvy_vault_token          |-> Plain("CurvyVaultToken"),
       curvy_entry_portal_address |-> Address("CurvyAddress"),
       curvy_exit_portal_address  |-> Address("CurvyAddress"),
       curvy_portal_registered    |-> Address("CurvyBooleanValue")]

(* The union that is the type of a root field, if it is one.                *)
IsUnion(root) ==
  \/ root \in {"chain_info", "transaction"}
  \/ root \in DOMAIN SendUnions
  \/ root \in DOMAIN AccountUnions
  \/ root \in DOMAIN ChannelUnions
  \/ root \in DOMAIN ServiceUnions
  \/ root \in DOMAIN SafeUnions
  \/ root \in DOMAIN BalanceUnions
  \/ root \in DOMAIN CurvyEventUnions
  \/ root \in DOMAIN CurvyUnions
UnionOf(root) ==
  IF root = "chain_info"       THEN ChainInfoUnion
  ELSE IF root = "transaction" THEN TransactionUnion
  ELSE IF root \in DOMAIN SendUnions       THEN SendUnions[root]
  ELSE IF root \in DOMAIN AccountUnions    THEN AccountUnions[root]
  ELSE IF root \in DOMAIN ChannelUnions    THEN ChannelUnions[root]
  ELSE IF root \in DOMAIN ServiceUnions    THEN ServiceUnions[root]
  ELSE IF root \in DOMAIN SafeUnions       THEN SafeUnions[root]
  ELSE IF root \in DOMAIN BalanceUnions    THEN BalanceUnions[root]
  ELSE IF root \in DOMAIN CurvyEventUnions THEN CurvyEventUnions[root]
  ELSE CurvyUnions[root]

(* What a union of the client makes of the member that Blokli sent.        *)
FromUnion(union, member) ==
  IF member \in union.successes
  THEN Ok
  ELSE Err(IF member \in union.errors THEN KindOf(member) ELSE "NoData")

(* A value of an enumeration that the client does not know, and what it       *)
(* knows: a value added by a newer Blokli does not fail the response.       *)
KnownValues ==
  [Token                 |-> {"HOPR", "XHOPR", "NATIVE"},
   ChannelStatus         |-> {"OPEN", "PENDINGTOCLOSE", "CLOSED"},
   ReadinessState        |-> {"READY", "NOT_READY"},
   RedemptionResult      |-> {"REDEEMED", "REJECTED"},
   ServiceUpdateKind     |-> {"REGISTERED", "UPDATED", "DEREGISTERED"},
   ServiceTypeUpdateKind |->
     {"REGISTERED", "OWNER_CHANGED", "REQUIREMENT_CHANGED", "REGISTRATION_BURN_CHANGED",
      "UPDATE_BURN_CHANGED", "REGISTRATION_FEE_CHANGED", "REGISTRY_POINTER_CHANGED"},
   TransactionStatus     |->
     {"CONFIRMED", "PENDING", "REVERTED", "SUBMISSION_FAILED", "SUBMITTED", "TIMEOUT",
      "VALIDATION_FAILED"}]
Decoded(enum, value) == IF value \in KnownValues[enum] THEN value ELSE "Unknown"

-----------------------------------------------------------------------------
(* A response: data is the member of the root field, NoMember if there is    *)
(* none, and errors says whether GraphQL errors are absent, empty or present. *)
NoMember == "none"
NullRoot == "null"
Response(data, errors) == [data |-> data, errors |-> errors]

(* Data is taken even if errors came with it; errors without data are merged. *)
ResponseToData(response) ==
  IF response.data # NoMember
  THEN Ok
  ELSE Err(IF response.errors = "present" THEN "GraphQLError" ELSE "NoData")

(* A root field that is not a union is the result itself.  Two may be null:    *)
(* no safe is an empty list, no transaction is an error.                    *)
Outcome(root, response) ==
  LET result == ResponseToData(response)
  IN  IF ~result.ok                  THEN result
      ELSE IF response.data = NullRoot THEN IF root = "transaction" THEN Err("NoData") ELSE Ok
      ELSE IF IsUnion(root)          THEN FromUnion(UnionOf(root), response.data)
      ELSE Ok

-----------------------------------------------------------------------------
(* The unions that client/target-api-schema.graphql, the schema the client   *)
(* is written for, gives the same fields; those of Curvy are left out.      *)
SchemaUnions ==
  LET Address(value) == {value, "InvalidAddressError", "QueryFailedError"}
      Filter(value)  == {value, "MissingFilterError", "QueryFailedError"}
      Plain(value)   == {value, "QueryFailedError"}
      policy == {"ContractNotAllowedError", "FunctionNotAllowedError", "RpcError",
                 "HoprActionRejectedError", "HoprActionThrottledError"}
  IN  [accounts                 |-> Filter("AccountsList"),
       account_count            |-> Filter("Count"),
       transaction_count        |-> Address("TransactionCount"),
       channels                 |-> Filter("ChannelsList") \cup {"InvalidAddressError"},
       channel_count            |-> Filter("Count"),
       channel_stats            |-> Address("ChannelStats"),
       safes_balance            |-> Address("SafesBalance"),
       services                 |-> Filter("ServicesList"),
       service_count            |-> Filter("Count"),
       service_types            |-> Plain("ServiceTypesList"),
       service_registry_config  |-> Plain("ServiceRegistryConfig"),
       safe_by                  |-> Address("SafesList"),
       calculate_module_address |-> Address("ModuleAddress"),
       chain_info               |-> Plain("ChainInfo"),
       hopr_balance             |-> Address("HoprBalance"),
       native_balance           |-> Address("NativeBalance"),
       safe_hopr_allowance      |-> Address("SafeHoprAllowance"),
       ticket_redemption_stats  |-> Address("RedeemedStats") \cup {"MissingFilterError"},
       transaction              |-> {"Transaction", "InvalidTransactionIdError"},
       send_transaction         |-> {"SendTransactionSuccess"} \cup policy,
       send_transaction_async   |-> {"Transaction", "DeduplicatedTransaction", "OverloadedError"}
                                      \cup policy,
       send_transaction_sync    |-> {"Transaction", "TimeoutError"} \cup policy]

=============================================================================
