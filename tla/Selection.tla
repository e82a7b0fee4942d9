----------------------------- MODULE Selection -----------------------------
(***************************************************************************)
(* What a caller selects, in each of the four forms the project gives it:  *)
(* the arguments of the inspector's command line, the selector types of the *)
(* API (client/src/api/v1/mod.rs), the variables of the GraphQL operation,  *)
(* and the filters by which the test client selects from its state.        *)
(*                                                                         *)
(* An item of the index is a record named by the variables: a key id, an   *)
(* address or a name is a value, the hexadecimal spelling of it is not      *)
(* modelled.                                                               *)
(***************************************************************************)
EXTENDS Integers, FiniteSets

CONSTANTS
  Null,   (* a variable, a field or an argument that is not given            *)
  MaxInt  (* the largest i32                                                *)

(* Null is no key id.                                                       *)
ASSUME SelectionAssumption == MaxInt \in Nat \ {0} /\ Null \notin Int

Given(condition, value) == IF condition THEN value ELSE Null

(* A key id is a u32 in the API and an Int, an i32, in GraphQL: the casts wrap. *)
AsI32(n) == IF n > MaxInt THEN n - 2 * (MaxInt + 1) ELSE n
AsU32(n) == IF n < 0 THEN n + 2 * (MaxInt + 1) ELSE n
U32 == 0 .. 2 * MaxInt + 1
I32 == -(MaxInt + 1) .. MaxInt

-----------------------------------------------------------------------------
(* Accounts.                                                               *)

AccountSelector(by, value) == [by |-> by, value |-> value]
AnyAccount == AccountSelector("Any", Null)
IsAccountSelector(s) ==
  \/ s.by = "Any"
  \/ s.by = "KeyId" /\ s.value \in U32
  \/ s.by \in {"PacketKey", "Address"} /\ s.value # Null

AccountVariables(s) ==
  [keyid      |-> IF s.by = "KeyId" THEN AsI32(s.value) ELSE Null,
   packet_key |-> Given(s.by = "PacketKey", s.value),
   chain_key  |-> Given(s.by = "Address", s.value)]

(* How the test client selects an account.                                 *)
AccountMatches(account, s) ==
  /\ s.by = "Address"   => account.chain_key = s.value
  /\ s.by = "KeyId"     => AsU32(account.keyid) = s.value
  /\ s.by = "PacketKey" => account.packet_key = s.value

-----------------------------------------------------------------------------
(* Channels.  The safe of a channel is the safe of its source.             *)

Filters == {"None", "ChannelId", "SourceKeyId", "DestinationKeyId",
            "SourceAndDestinationKeyIds"}
BySource      == {"SourceKeyId", "SourceAndDestinationKeyIds"}
ByDestination == {"DestinationKeyId", "SourceAndDestinationKeyIds"}

(* A field of the filter that its kind does not have is Null.              *)
ChannelSelector(filter, id, source, destination, status, safe) ==
  [filter |-> filter,
   id |-> Given(filter = "ChannelId", id),
   source |-> Given(filter \in BySource, source),
   destination |-> Given(filter \in ByDestination, destination),
   status |-> status, safe |-> safe]
IsChannelSelector(s) ==
  /\ s = ChannelSelector(s.filter, s.id, s.source, s.destination, s.status, s.safe)
  /\ s.filter \in Filters
  /\ s.filter = "ChannelId"      => s.id # Null
  /\ s.filter \in BySource       => s.source \in U32
  /\ s.filter \in ByDestination  => s.destination \in U32

(* The variables of channels and of the count of channels.  The variant takes *)
(* no destination from a filter by both ends.                              *)
ChannelsVariablesBySource(s) ==
  [concrete_channel_id |-> s.id,
   source_key_id       |-> IF s.filter \in BySource THEN AsI32(s.source) ELSE Null,
   destination_key_id  |-> IF s.filter = "DestinationKeyId" THEN AsI32(s.destination) ELSE Null,
   safe_address        |-> s.safe,
   status              |-> s.status]
ChannelsVariables(s) ==
  [concrete_channel_id |-> s.id,
   source_key_id       |-> IF s.filter \in BySource THEN AsI32(s.source) ELSE Null,
   destination_key_id  |-> IF s.filter \in ByDestination THEN AsI32(s.destination) ELSE Null,
   safe_address        |-> s.safe,
   status              |-> s.status]

(* Those of the statistics are written out a second time, to the same end.   *)
ChannelStatsVariables(s) == ChannelsVariables(s)

(* The operation that subscribes has no argument for the safe.             *)
SubscribedChannelsVariables(s) == [ChannelsVariables(s) EXCEPT !.safe_address = Null]

(* How the test client selects a channel; safes has the safes of accounts.   *)
ChannelMatches(channel, s, safes) ==
  /\ s.filter = "ChannelId"      => channel.concrete_channel_id = s.id
  /\ s.filter \in BySource       => AsU32(channel.source_key_id) = s.source
  /\ s.filter \in ByDestination  => AsU32(channel.destination_key_id) = s.destination
  /\ \/ s.safe = Null
     \/ /\ channel.source_key_id \in DOMAIN safes
        /\ safes[channel.source_key_id] = s.safe
  /\ s.status = Null \/ channel.status = s.status

MatchesAll(s) == s.filter = "None" /\ s.status = Null /\ s.safe = Null

-----------------------------------------------------------------------------
(* Services, redemptions, tickets and safes.                               *)

ServiceSelector(by, type, node) ==
  [by |-> by,
   type |-> Given(by \in {"ServiceType", "ServiceTypeAndNode"}, type),
   node |-> Given(by \in {"Node", "ServiceTypeAndNode"}, node)]
IsServiceSelector(s) ==
  /\ s = ServiceSelector(s.by, s.type, s.node)
  /\ s.by \in {"ServiceType", "Node", "ServiceTypeAndNode", "Any"}
  /\ s.by \in {"ServiceType", "ServiceTypeAndNode"} => s.type # Null
  /\ s.by \in {"Node", "ServiceTypeAndNode"}        => s.node # Null

ServiceVariables(s) == [service_type |-> s.type, node |-> s.node]

(* One page of services; a page has at most the 1000 entries it asks for.    *)
ServicePageVariables(s, after, watermark, live) ==
  [filters |-> ServiceVariables(s), after |-> after, watermark |-> watermark,
   live_only |-> live]

ServiceMatches(entry, s) ==
  /\ s.by \in {"ServiceType", "ServiceTypeAndNode"} => entry.service_type = s.type
  /\ s.by \in {"Node", "ServiceTypeAndNode"}        => entry.node = s.node

RedeemedStatsVariables(s) ==
  [safe_address |-> Given(s.by \in {"SafeAddress", "SafeAndNodeAddress"}, s.safe),
   node_address |-> Given(s.by \in {"NodeAddress", "SafeAndNodeAddress"}, s.node)]

TicketRedeemedVariables(s) ==
  [channel_id        |-> Given(s.by = "ChannelId", s.value),
   issuer_address    |-> Given(s.by = "IssuerAddress", s.value),
   recipient_address |-> Given(s.by = "RecipientAddress", s.value)]

IsSafeSelector(s) == s.by \in {"Address", "Owner", "ChainKey", "RegisteredNode"}
SafeByVariables(s) == [selector |-> s.by, address |-> s.value]

(* How the test client selects a safe.                                     *)
SafeMatches(safe, s) ==
  \/ s.by = "Address" /\ safe.address = s.value
  \/ s.by \in {"Owner", "ChainKey"} /\ s.value \in safe.owners
  \/ s.by = "RegisteredNode" /\ s.value \in safe.registered_nodes

-----------------------------------------------------------------------------
(* Blokli: the state of its index at a block, a world, is the accounts, the  *)
(* channels, the safes, the services, and info, which stands for every other *)
(* value that a query returns.  Blokli selects the items that meet every     *)
(* variable that is given.                                                 *)
Fits(item, variables) ==
  \A v \in DOMAIN variables : variables[v] # Null => item[v] = variables[v]

SafeOf(world, keyid) ==
  {s \in world.safes : \E a \in world.accounts :
                         a.keyid = keyid /\ a.chain_key \in s.registered_nodes}

AddressOf(world, keyid) == (CHOOSE s \in SafeOf(world, keyid) : TRUE).address
WithSafe(world, channel) ==
  [concrete_channel_id |-> channel.concrete_channel_id,
   source_key_id       |-> channel.source_key_id,
   destination_key_id  |-> channel.destination_key_id,
   status              |-> channel.status,
   safe_address        |-> Given(SafeOf(world, channel.source_key_id) # {},
                                 AddressOf(world, channel.source_key_id))]

SafeFits(safe, variables) ==
  CASE variables.selector = "Address"        -> safe.address = variables.address
    [] variables.selector = "RegisteredNode" -> variables.address \in safe.registered_nodes
    [] OTHER                                 -> variables.address \in safe.owners

Live(world, entry) == \E s \in world.safes : entry.node \in s.registered_nodes

(* What Blokli selects for a request, all pages of it.                     *)
Selected(world, request) ==
  LET vars == request.variables
  IN  CASE request.root \in {"accounts", "account_count"} ->
             {a \in world.accounts : Fits(a, vars)}
        [] request.root \in {"channels", "channel_count", "channel_stats"} ->
             {c \in world.channels : Fits(WithSafe(world, c), vars)}
        [] request.root = "safe_by" -> {s \in world.safes : SafeFits(s, vars)}
        [] request.root = "service_count" -> {e \in world.services : Fits(e, vars)}
        [] request.root = "services" ->
             {e \in world.services : /\ Fits(e, vars.filters)
                                     /\ vars.live_only => Live(world, e)}
        [] OTHER -> {[info |-> world.info]}

-----------------------------------------------------------------------------
(* The operations: the root field each one asks for, and the variables it     *)
(* gives it.                                                               *)
IndexRoots ==
  [count_accounts                  |-> "account_count",
   query_accounts                  |-> "accounts",
   query_native_balance            |-> "native_balance",
   query_token_balance             |-> "hopr_balance",
   query_transaction_count         |-> "transaction_count",
   query_safe_allowance            |-> "safe_hopr_allowance",
   query_redeemed_stats            |-> "ticket_redemption_stats",
   query_safe                      |-> "safe_by",
   query_module_address_prediction |-> "calculate_module_address",
   count_channels                  |-> "channel_count",
   query_channel_stats             |-> "channel_stats",
   query_channels                  |-> "channels",
   query_safes_balance             |-> "safes_balance",
   count_services                  |-> "service_count",
   query_services                  |-> "services",
   query_live_services             |-> "services",
   query_service_types             |-> "service_types",
   query_service_registry_config   |-> "service_registry_config",
   query_transaction_status        |-> "transaction",
   query_chain_info                |-> "chain_info",
   query_version                   |-> "version",
   query_health                    |-> "health",
   query_compatibility             |-> "compatibility"]

CurvyRoots ==
  [query_curvy_pending_notes        |-> "curvy_pending_notes",
   query_curvy_committed_notes      |-> "curvy_committed_notes",
   query_curvy_committed_nullifiers |-> "curvy_committed_nullifiers",
   query_curvy_sync_checkpoint      |-> "curvy_sync_checkpoint",
   query_curvy_sync_notes           |-> "curvy_sync_notes",
   query_curvy_sync_nullifiers      |-> "curvy_sync_nullifiers",
   query_curvy_shard_roots          |-> "curvy_shard_roots",
   query_curvy_aggregator_state     |-> "curvy_aggregator_state",
   query_curvy_note_status          |-> "curvy_note_status",
   query_curvy_valid_notes_root     |-> "curvy_valid_notes_root",
   query_curvy_nullifier_spent      |-> "curvy_nullifier_spent",
   query_curvy_vault_fees           |-> "curvy_vault_fees",
   query_curvy_aggregator_fees      |-> "curvy_aggregator_fees",
   query_curvy_vault_token_count    |-> "curvy_vault_token_count",
   query_curvy_vault_token          |-> "curvy_vault_token",
   query_curvy_entry_portal_address |-> "curvy_entry_portal_address",
   query_curvy_exit_portal_address  |-> "curvy_exit_portal_address",
   query_curvy_portal_registered    |-> "curvy_portal_registered"]

Operations == DOMAIN IndexRoots \cup DOMAIN CurvyRoots
RootOf(op) == IF op \in DOMAIN IndexRoots THEN IndexRoots[op] ELSE CurvyRoots[op]

(* A query is an operation and its selector; the selector of an operation     *)
(* that takes its arguments one by one is the record of them.               *)
Query(op, selector) == [op |-> op, selector |-> selector]
Request(root, variables) == [root |-> root, variables |-> variables]

Variables(query) ==
  LET s == query.selector
  IN  CASE query.op \in {"query_accounts", "count_accounts"} -> AccountVariables(s)
        [] query.op \in {"query_channels", "count_channels"} -> ChannelsVariables(s)
        [] query.op = "query_channel_stats"  -> ChannelStatsVariables(s)
        [] query.op = "query_safe"           -> SafeByVariables(s)
        [] query.op = "query_services"       -> ServicePageVariables(s, Null, Null, FALSE)
        [] query.op = "query_live_services"  -> ServicePageVariables(s, Null, Null, TRUE)
        [] query.op = "count_services"       -> ServiceVariables(s)
        [] query.op = "query_redeemed_stats" -> RedeemedStatsVariables(s)
        [] OTHER                             -> s

First(query) == Request(RootOf(query.op), Variables(query))

(* What is reported of the items: how many they are, or they themselves.    *)
Counts == {"count_accounts", "count_channels", "query_channel_stats", "count_services"}

-----------------------------------------------------------------------------
(* The subscriptions: the root field of each, and its variables.            *)
IndexStreams ==
  [channels         |-> "channelUpdated",
   accounts         |-> "accountUpdated",
   graph            |-> "openedChannelGraphUpdated",
   ticket_params    |-> "ticketParametersUpdated",
   health           |-> "health",
   safe_deployments |-> "safeDeployed",
   services         |-> "serviceUpdated",
   service_types    |-> "serviceTypeUpdated"]

OtherStreams ==
  [service_registry_config    |-> "serviceRegistryConfigUpdated",
   track_transaction          |-> "transactionUpdated",
   ticket_redeemed            |-> "ticketRedeemed",
   curvy_pending_notes        |-> "curvyPendingNote",
   curvy_committed_notes      |-> "curvyCommittedNote",
   curvy_committed_nullifiers |-> "curvyCommittedNullifier"]

Streams == DOMAIN IndexStreams \cup DOMAIN OtherStreams
StreamRoot(stream) ==
  IF stream \in DOMAIN IndexStreams THEN IndexStreams[stream] ELSE OtherStreams[stream]

CurvyEvents == {"curvy_pending_notes", "curvy_committed_notes", "curvy_committed_nullifiers"}
Unselective == {"ticket_params", "health", "safe_deployments", "service_registry_config"}

SubscriptionVariables(stream, s) ==
  CASE stream = "channels" ->
         [v \in DOMAIN SubscribedChannelsVariables(s) \ {"safe_address"} |->
            SubscribedChannelsVariables(s)[v]]
    [] stream = "accounts"          -> AccountVariables(s)
    [] stream = "graph"             -> [after |-> s]
    [] stream = "services"          -> ServiceVariables(s)
    [] stream = "service_types"     -> s
    [] stream = "track_transaction" -> [id |-> s]
    [] stream = "ticket_redeemed"   -> TicketRedeemedVariables(s)
    [] stream \in CurvyEvents       -> [from_block |-> s]
    [] stream \in Unselective       -> [v \in {} |-> Null]

-----------------------------------------------------------------------------
(* The test client: what an operation selects from its state, which is a      *)
(* world whose accounts carry the address of their safe.  Only these          *)
(* operations: what it tells of balances, allowances, redemptions, addresses  *)
(* of modules, Curvy and the chain is data of its own, and no selection.      *)
AccountSafes(world) ==
  [keyid \in {a.keyid : a \in {b \in world.accounts : SafeOf(world, b.keyid) # {}}} |->
     AddressOf(world, keyid)]

DoubleOperations ==
  {"query_accounts", "count_accounts", "query_safe",
   "query_channels", "count_channels", "query_channel_stats",
   "query_services", "query_live_services", "count_services"}

DoubleItems(world, query) ==
  LET s == query.selector
  IN  CASE query.op \in {"query_accounts", "count_accounts"} ->
             {a \in world.accounts : AccountMatches(a, s)}
        [] query.op = "query_safe" -> {f \in world.safes : SafeMatches(f, s)}
        [] query.op \in {"query_channels", "count_channels", "query_channel_stats"} ->
             {c \in world.channels : ChannelMatches(c, s, AccountSafes(world))}
        [] query.op \in {"query_services", "count_services"} ->
             {e \in world.services : ServiceMatches(e, s)}
        [] query.op = "query_live_services" ->
             {e \in world.services : ServiceMatches(e, s) /\ Live(world, e)}

-----------------------------------------------------------------------------
(* The inspector: the options that were given, and the selector they become, *)
(* or Refused.                                                             *)
Refused == [refused |-> TRUE]

(* The options of an account exclude each other; without one, any is meant. *)
AccountArgs(args) ==
  LET given == {a \in DOMAIN args : args[a] # Null}
  IN  CASE given = {"chain_key"}  -> AccountSelector("Address", args.chain_key)
        [] given = {"keyid"}      -> AccountSelector("KeyId", args.keyid)
        [] given = {"packet_key"} -> AccountSelector("PacketKey", args.packet_key)
        [] given = {}             -> AnyAccount
        [] OTHER                  -> Refused

(* A channel id excludes the key ids.  The variant takes it, and forgets them. *)
ChannelArgsByIdFirst(args) ==
  LET src == args.source_key_id # Null
      dst == args.destination_key_id # Null
      by  == IF args.concrete_channel_id # Null THEN "ChannelId"
             ELSE IF src /\ dst THEN "SourceAndDestinationKeyIds"
             ELSE IF src        THEN "SourceKeyId"
             ELSE IF dst        THEN "DestinationKeyId"
             ELSE "None"
  IN  ChannelSelector(by, args.concrete_channel_id, args.source_key_id,
                      args.destination_key_id, args.status, args.safe_address)
ChannelArgs(args) ==
  LET src == args.source_key_id # Null
      dst == args.destination_key_id # Null
      id  == args.concrete_channel_id # Null
      by  == IF id              THEN "ChannelId"
             ELSE IF src /\ dst THEN "SourceAndDestinationKeyIds"
             ELSE IF src        THEN "SourceKeyId"
             ELSE IF dst        THEN "DestinationKeyId"
             ELSE "None"
  IN  IF id /\ (src \/ dst)
      THEN Refused
      ELSE ChannelSelector(by, args.concrete_channel_id, args.source_key_id,
                           args.destination_key_id, args.status, args.safe_address)

ServiceArgs(args) ==
  LET type == args.service_type # Null
      node == args.node # Null
      by   == IF type /\ node THEN "ServiceTypeAndNode"
              ELSE IF type    THEN "ServiceType"
              ELSE IF node    THEN "Node"
              ELSE "Any"
  IN  ServiceSelector(by, args.service_type, args.node)

(* At least one of the two addresses must be given.                        *)
RedemptionsArgs(args) ==
  LET safe == args.safe_address # Null
      node == args.node_address # Null
      by   == IF safe /\ node THEN "SafeAndNodeAddress"
              ELSE IF safe    THEN "SafeAddress"
              ELSE "NodeAddress"
  IN  IF safe \/ node
      THEN [by |-> by, safe |-> args.safe_address, node |-> args.node_address]
      ELSE Refused

(* Exactly one of the four addresses must be given.                        *)
SafeArgs(args) ==
  LET given == {a \in DOMAIN args : args[a] # Null}
  IN  IF \E a \in DOMAIN args : given = {a}
      THEN LET by    == CHOOSE a \in DOMAIN args : given = {a}
               kinds == [address |-> "Address", owner |-> "Owner", chain_key |-> "ChainKey",
                         registered_node |-> "RegisteredNode"]
           IN  [by |-> kinds[by], value |-> args[by]]
      ELSE Refused

(* The commands: what each one asks for, and its options.                   *)
AccountOptions == {"keyid", "packet_key", "chain_key"}
ChannelOptions == {"concrete_channel_id", "source_key_id", "destination_key_id", "status",
                   "safe_address"}
ServiceOptions == {"service_type", "node"}
Command(op, options) == [op |-> op, options |-> options]

QueryCommands ==
  [Account        |-> Command("query_accounts", AccountOptions),
   AccountCounts  |-> Command("count_accounts", AccountOptions),
   Channel        |-> Command("query_channels", ChannelOptions),
   ChannelStats   |-> Command("query_channel_stats", ChannelOptions),
   Redemptions    |-> Command("query_redeemed_stats", {"safe_address", "node_address"}),
   Safe           |-> Command("query_safe", {"address", "owner", "chain_key", "registered_node"}),
   Service        |-> Command("query_services", ServiceOptions),
   ServiceCounts  |-> Command("count_services", ServiceOptions),
   ServiceTypes   |-> Command("query_service_types", {"service_type"}),
   SafesBalance   |-> Command("query_safes_balance", {"owner"}),
   ModuleAddress  |-> Command("query_module_address_prediction",
                              {"nonce", "owner", "safe_address"}),
   NativeBalance  |-> Command("query_native_balance", {"address"}),
   TokenBalance   |-> Command("query_token_balance", {"address", "token"}),
   SafeAllowance  |-> Command("query_safe_allowance", {"address"}),
   TxCount        |-> Command("query_transaction_count", {"address"}),
   ChainInfo      |-> Command("query_chain_info", {}),
   Health         |-> Command("query_health", {}),
   Version        |-> Command("query_version", {})]

SubscriptionCommands ==
  [Accounts        |-> Command("accounts", AccountOptions),
   Channels        |-> Command("channels", ChannelOptions),
   Graph           |-> Command("graph", {}),
   Health          |-> Command("health", {}),
   SafeDeployments |-> Command("safe_deployments", {}),
   Services        |-> Command("services", ServiceOptions),
   ServiceTypes    |-> Command("service_types", {"service_type"}),
   TicketParams    |-> Command("ticket_params", {})]

(* The selector that the options of a command become.                      *)
SelectorOf(command, args) ==
  CASE command.op = "query_redeemed_stats" -> RedemptionsArgs(args)
    [] command.op = "query_safe"           -> SafeArgs(args)
    [] command.op = "graph"                -> Null
    [] command.options = AccountOptions    -> AccountArgs(args)
    [] command.options = ChannelOptions    -> ChannelArgs(args)
    [] command.options = ServiceOptions    -> ServiceArgs(args)
    [] OTHER                               -> args

=============================================================================
