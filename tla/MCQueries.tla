----------------------------- MODULE MCQueries -----------------------------
(* Three states of an index with at most three accounts, whose key ids 1, 2   *)
(* and 9 fit in a u32 of four bits; 9 wraps to -7 in an i32.                *)
EXTENDS Queries

account1 == [keyid |-> 1, packet_key |-> 11, chain_key |-> 21]
account2 == [keyid |-> 2, packet_key |-> 12, chain_key |-> 22]
account9 == [keyid |-> -7, packet_key |-> 19, chain_key |-> 29]

Channel(id, source, destination, status) ==
  [concrete_channel_id |-> id, source_key_id |-> source,
   destination_key_id |-> destination, status |-> status]
Safe(nodes) == [address |-> 31, owners |-> {41}, registered_nodes |-> nodes]
Service(id, node) == [id |-> id, service_type |-> 51, node |-> node]

World(info, accounts, channels, safes, services) ==
  [info |-> info, accounts |-> accounts, channels |-> channels, safes |-> safes,
   services |-> services]

(* The second adds to the first; the third has an account with a wrapped key *)
(* id, and node 21 left the safe, which node 22 joined.                      *)
AllWorlds ==
  {World(1, {account1, account2}, {Channel(61, 1, 2, "Open")}, {Safe({21})},
         {Service(1, 21), Service(2, 22)}),
   World(2, {account1, account2}, {Channel(61, 1, 2, "Closed"), Channel(62, 2, 1, "Open")},
         {Safe({21, 22})}, {Service(2, 21), Service(3, 22), Service(4, 22)}),
   World(3, {account1, account2, account9},
         {Channel(61, 1, 2, "Open"), Channel(62, 2, 1, "Open"), Channel(63, 1, -7, "Open")},
         {Safe({22, 29})}, {Service(1, 22), Service(2, 21)})}

ByKey(keyid) == AccountSelector("KeyId", keyid)
Channels(filter, status, safe) == ChannelSelector(filter, 62, 1, 2, status, safe)

EveryKind ==
  {Query("query_accounts", ByKey(9)),
   Query("query_accounts", AnyAccount),
   Query("count_accounts", AccountSelector("PacketKey", 12)),
   Query("query_channels", Channels("None", Null, Null)),
   Query("query_channels", Channels("None", "Open", 31)),
   Query("count_channels", Channels("DestinationKeyId", Null, 31)),
   Query("query_channel_stats", Channels("SourceAndDestinationKeyIds", "Open", Null)),
   Query("count_channels", Channels("ChannelId", Null, Null)),
   Query("query_safe", [by |-> "RegisteredNode", value |-> 22]),
   Query("query_services", ServiceSelector("ServiceType", 51, Null)),
   Query("query_live_services", ServiceSelector("Any", Null, Null)),
   Query("count_services", ServiceSelector("ServiceTypeAndNode", 51, 22)),
   Query("query_native_balance", [address |-> 21]),
   Query("query_curvy_pending_notes", [first |-> 1000]),
   Query("query_curvy_sync_notes", [first |-> 1001]),
   Query(Overview, ByKey(1))}

AllQuestions == [c \in Callers |-> EveryKind]
=============================================================================
