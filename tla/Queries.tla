------------------------------ MODULE Queries ------------------------------
(***************************************************************************)
(* The queries of BlokliClient (client/src/client/queries.rs) and the       *)
(* inspector's overview of a node: which requests a query makes, in which    *)
(* order, and what it makes of the replies.                                *)
(*                                                                         *)
(* Blokli is external.  A reply is computed and received in one step; as the  *)
(* index may grow before any step, delays are among the behaviours.  The      *)
(* order and the number of equal entries in a list are not modelled.        *)
(***************************************************************************)
EXTENDS Sequences, Selection, Answers

CONSTANTS
  Callers,   (* tasks that query                                             *)
  Questions, (* Questions[c] = the queries that caller c may make            *)
  Worlds,    (* states of the index                                          *)
  MaxBlock,  (* bound on the blocks of a run                                 *)
  PageSize,  (* services in a page                                           *)
  AccountConcurrency,  (* ACCOUNT_QUERY_CONCURRENCY                          *)
  Elsewhere  (* a task that is none of the callers                           *)

(* Null is no caller and no query.                                          *)
ASSUME QueriesAssumption ==
  /\ MaxBlock \in Nat \ {0}
  /\ Null \notin Callers \cup {Elsewhere}
  /\ \A c \in Callers : Null \notin Questions[c]

VARIABLES
  chain,   (* the index, block by block                                      *)
  client,  (* query_client, by the caller that built it, or Null              *)
  call     (* call[c] = the query of caller c                                *)

vars == <<chain, client, call>>

(* The requests to send, those in flight, and the replies that have come; the *)
(* client they go by.                                                      *)
Unread == [pc |-> "idle", query |-> Null, since |-> 0, via |-> Null,
           todo |-> {}, sent |-> {}, got |-> {}, result |-> Null]
Ended(state, pc, result) ==
  [state EXCEPT !.pc = pc, !.todo = {}, !.sent = {}, !.got = {}, !.result = result]

Overview == "query_node_overview"

(* A selector is a value of its type.                                      *)
WellFormed(query) ==
  LET s == query.selector
  IN  /\ query.op \in Operations \cup {Overview}
      /\ query.op \in {"query_accounts", "count_accounts", Overview} => IsAccountSelector(s)
      /\ query.op \in {"query_channels", "count_channels", "query_channel_stats"}
           => IsChannelSelector(s)
      /\ query.op \in {"query_services", "query_live_services", "count_services"}
           => IsServiceSelector(s)
      /\ query.op = "query_safe" => IsSafeSelector(s)
ASSUME QuestionsAssumption == \A c \in Callers : \A query \in Questions[c] : WellFormed(query)

(* The index: key ids fit in the Int of the schema, no channel leads back to  *)
(* its source, an address has one safe, the ids of services tell them apart,  *)
(* and sets are finite.                                                      *)
WorldOk(world) ==
  /\ \A a \in world.accounts : a.keyid \in I32
  /\ \A ch \in world.channels : /\ ch.source_key_id \in I32
                                /\ ch.destination_key_id \in I32
                                /\ ch.source_key_id # ch.destination_key_id
  /\ \A s \in world.safes : Null \notin s.registered_nodes
  /\ \A s, t \in world.safes : s.address = t.address => s = t
  /\ \A d, e \in world.services : d.id \in Nat /\ (d.id = e.id => d = e)
  /\ IsFiniteSet(world.accounts) /\ IsFiniteSet(world.channels) /\ IsFiniteSet(world.services)

(* Once given, a key id stays with its chain key.                           *)
KeysStay ==
  \A v, w \in Worlds : \A a \in v.accounts, b \in w.accounts :
    a.keyid = b.keyid => a.chain_key = b.chain_key

ASSUME WorldsAssumption ==
  PageSize \in Nat \ {0} /\ KeysStay /\ \A world \in Worlds : WorldOk(world)

BySafe(query) ==
  /\ query.op \in {"query_channels", "count_channels"}
  /\ query.selector.safe # Null

-----------------------------------------------------------------------------
(* Refused before anything is sent.                                        *)

CurvyPaged == {"query_curvy_pending_notes", "query_curvy_committed_notes",
               "query_curvy_committed_nullifiers", "query_curvy_sync_notes",
               "query_curvy_sync_nullifiers", "query_curvy_shard_roots"}
CurvyPageSize(first) == first \in 1 .. 1000

Invalid(query) ==
  \/ query.op \in {"query_accounts", Overview} /\ query.selector.by = "Any"
  \/ /\ query.op = "query_channels"
     /\ query.selector.filter = "None"
     /\ query.selector.safe = Null
  \/ query.op \in CurvyPaged /\ ~CurvyPageSize(query.selector.first)

-----------------------------------------------------------------------------
(* The requests of a query.                                                *)

AccountsBy(by, value) ==
  Request("accounts", AccountVariables(AccountSelector(by, value)))
ChannelsBy(filter, keyid) ==
  Request("channels", ChannelsVariables(
    ChannelSelector(filter, Null, keyid, keyid, Null, Null)))
SafeAt(address) ==
  Request("safe_by", SafeByVariables([by |-> "Address", value |-> address]))
ChainInfo == Request("chain_info", [argument |-> Null])

Opening(query) ==
  CASE query.op = Overview -> Request("accounts", AccountVariables(query.selector))
    [] BySafe(query)       -> Request("channels", ChannelsVariables(query.selector))
    [] OTHER               -> First(query)

ItemsOf(got, root) == UNION {g.items : g \in {h \in got : h.request.root = root}}
Reply(got, request) == UNION {g.items : g \in {h \in got : h.request = request}}

(* The next page: after the cursor, at the block of the first one.  One        *)
(* variant forgets the block, the other the cursor.                        *)
NextPageAtAnyBlock(request, reply) ==
  Request(request.root, [request.variables EXCEPT !.after = reply.next_cursor])
NextPageFromStart(request, reply) ==
  Request(request.root, [request.variables EXCEPT !.watermark = reply.watermark])
NextPage(request, reply) ==
  Request(request.root, [request.variables EXCEPT !.after = reply.next_cursor,
                                                  !.watermark = reply.watermark])

(* Of the nodes registered with the first safe of the reply, if there is any, *)
(* one request each for its account.                                         *)
NodesOf(safes) ==
  {AccountsBy("Address", node) :
     node \in IF safes = {} THEN {} ELSE (CHOOSE s \in safes : TRUE).registered_nodes}

(* The overview: the source, then the channels each way and the chain's info *)
(* at once, then the account at the other end of every channel.             *)
OfSource(keyid) ==
  {ChannelsBy("SourceKeyId", keyid), ChannelsBy("DestinationKeyId", keyid), ChainInfo}
EndsOf(keyid, got) ==
  {ch.destination_key_id : ch \in Reply(got, ChannelsBy("SourceKeyId", keyid))}
    \cup {ch.source_key_id : ch \in Reply(got, ChannelsBy("DestinationKeyId", keyid))}
SourceOf(query, got) == CHOOSE a \in Reply(got, Opening(query)) : TRUE

(* What to ask next, now that the reply to this request is the last in got.  *)
Following(query, request, reply, got) ==
  CASE query.op \in {"query_services", "query_live_services"} ->
         IF reply.next_cursor = Null THEN {} ELSE {NextPage(request, reply)}
    [] BySafe(query) ->
         CASE request.root = "channels" -> {SafeAt(query.selector.safe)}
           [] request.root = "safe_by"  -> NodesOf(reply.items)
           [] OTHER                     -> {}
    [] query.op = Overview ->
         LET keyid == SourceOf(query, got).keyid
         IN  IF request = Opening(query)
             THEN OfSource(keyid)
             ELSE IF /\ request \in OfSource(keyid)
                     /\ OfSource(keyid) \subseteq {g.request : g \in got}
                  THEN {AccountsBy("KeyId", end) : end \in EndsOf(keyid, got)}
                  ELSE {}
    [] OTHER -> {}

(* An overview needs exactly one account for each request that is for one,   *)
(* and key ids that are not negative.                                      *)
Unusable(query, request, items) ==
  /\ query.op = Overview
  /\ request.root = "accounts"
  /\ \/ Cardinality(items) # 1
     \/ \E a \in items : a.keyid < 0

(* The channels of a safe are those whose source has an account that belongs  *)
(* to it.  The variant goes by the other end.                              *)
ResultByDestination(query, got) ==
  LET keyids == {a.keyid : a \in ItemsOf(got, "accounts")}
      items  == IF BySafe(query)
                THEN {ch \in ItemsOf(got, "channels") : ch.destination_key_id \in keyids}
                ELSE ItemsOf(got, First(query).root)
  IN  IF query.op \in Counts THEN {Cardinality(items)} ELSE items
Result(query, got) ==
  LET keyids == {a.keyid : a \in ItemsOf(got, "accounts")}
      items  == IF BySafe(query)
                THEN {ch \in ItemsOf(got, "channels") : ch.source_key_id \in keyids}
                ELSE ItemsOf(got, First(query).root)
  IN  IF query.op \in Counts THEN {Cardinality(items)} ELSE items

OverviewResult(query, got) ==
  LET source == SourceOf(query, got)
  IN  [source   |-> source,
       out      |-> Reply(got, ChannelsBy("SourceKeyId", source.keyid)),
       in       |-> Reply(got, ChannelsBy("DestinationKeyId", source.keyid)),
       accounts |-> UNION {Reply(got, AccountsBy("KeyId", end)) :
                             end \in EndsOf(source.keyid, got)}]

-----------------------------------------------------------------------------
(* Blokli's reply.  A page of services has the first entries after the       *)
(* cursor, as they were at the watermark; the last of them is the next cursor. *)
ReplyTo(request) ==
  IF request.root = "services"
  THEN LET at    == IF request.variables.watermark = Null THEN Len(chain)
                                                          ELSE request.variables.watermark
           rest  == {e \in Selected(chain[at], request) :
                       request.variables.after = Null \/ e.id > request.variables.after}
           items == {e \in rest : Cardinality({d \in rest : d.id <= e.id}) <= PageSize}
       IN  [items       |-> items,
            next_cursor |-> IF items = rest THEN Null
                            ELSE (CHOOSE e \in items : \A d \in items : d.id <= e.id).id,
            watermark   |-> at]
  ELSE [items       |-> Selected(chain[Len(chain)], request),
        next_cursor |-> Null,
        watermark   |-> Len(chain)]

(* The errors that a request can end with: of the transport, of decoding, and *)
(* of what Blokli sends instead of a success.                               *)
ErrorsOf(root) ==
  {Err("ReqwestError"), Err("Serialization")}
    \cup ({Outcome(root, Response(data, errors)) :
             data \in {NoMember, "MemberOfNewerBlokli"} \cup
                      (IF root \in DOMAIN SchemaUnions THEN SchemaUnions[root] ELSE {}),
             errors \in {"absent", "present"}} \ {Ok})
    \cup (IF root = "safe_by" THEN {Err("ParseError")} ELSE {})

-----------------------------------------------------------------------------
Init ==
  /\ chain \in {<<world>> : world \in Worlds}
  /\ client = Null
  /\ call = [c \in Callers |-> Unread]

Grow ==
  /\ Len(chain) < MaxBlock
  /\ \E world \in Worlds : chain' = Append(chain, world)
  /\ UNCHANGED <<client, call>>

(* The query is checked and built; the client is taken if there is one.      *)
Start(c, query) ==
  /\ call[c].pc = "idle"
  /\ ~Invalid(query)
  /\ call' = [call EXCEPT ![c] =
       [Unread EXCEPT !.pc    = IF client = Null THEN "building" ELSE "asking",
                      !.query = query,
                      !.since = Len(chain),
                      !.via   = client,
                      !.todo  = {Opening(query)}]]
  /\ UNCHANGED <<chain, client>>

Refuse(c, query) ==
  /\ call[c].pc = "idle"
  /\ Invalid(query)
  /\ call' = [call EXCEPT ![c] =
       [Unread EXCEPT !.pc = "failed", !.query = query, !.since = Len(chain),
                      !.result = Err("InvalidInput")]]
  /\ UNCHANGED <<chain, client>>

(* Two callers may build a client each; get_or_init keeps the first.  The      *)
(* variant goes by the one it built.                                       *)
BuildForItself(c) ==
  /\ call[c].pc = "building"
  /\ client' = IF client = Null THEN c ELSE client
  /\ call' = [call EXCEPT ![c].pc = "asking", ![c].via = c]
  /\ UNCHANGED chain
Build(c) ==
  /\ call[c].pc = "building"
  /\ client' = IF client = Null THEN c ELSE client
  /\ call' = [call EXCEPT ![c].pc = "asking", ![c].via = client']
  /\ UNCHANGED chain

(* The client of another task, one whose queries are not among the calls.    *)
BuiltElsewhere ==
  /\ client = Null
  /\ client' = Elsewhere
  /\ UNCHANGED <<chain, call>>

(* A client that could not be built is not kept.                           *)
BuildFails(c) ==
  /\ call[c].pc = "building"
  /\ call' = [call EXCEPT ![c] = Ended(@, "failed", Err("BuildFailed"))]
  /\ UNCHANGED <<chain, client>>

(* One request at a time, but for the overview: its three requests about the  *)
(* source are joined, and its account queries buffered.                    *)
Width(query, request) ==
  IF query.op # Overview THEN 1
  ELSE IF request.root = "accounts" THEN AccountConcurrency
  ELSE 3

Send(c, request) ==
  /\ call[c].pc = "asking"
  /\ request \in call[c].todo
  /\ Cardinality(call[c].sent) < Width(call[c].query, request)
  /\ call' = [call EXCEPT ![c].todo = @ \ {request}, ![c].sent = @ \cup {request}]
  /\ UNCHANGED <<chain, client>>

Receive(c, request) ==
  LET query == call[c].query
      reply == ReplyTo(request)
      got   == call[c].got \cup {[request |-> request, items |-> reply.items]}
      sent  == call[c].sent \ {request}
      todo  == call[c].todo \cup Following(query, request, reply, got)
  IN  /\ request \in call[c].sent
      /\ call' = [call EXCEPT ![c] =
           IF Unusable(query, request, reply.items)
           THEN Ended(@, "failed", Err("Unusable"))
           ELSE IF todo \cup sent = {}
           THEN Ended(@, "done", IF query.op = Overview THEN OverviewResult(query, got)
                                                        ELSE Result(query, got))
           ELSE [@ EXCEPT !.todo = todo, !.sent = sent, !.got = got]]
      /\ UNCHANGED <<chain, client>>

(* The first request that fails ends the query; the rest are dropped.       *)
Fail(c, request) ==
  /\ request \in call[c].sent
  /\ \E error \in ErrorsOf(request.root) :
       call' = [call EXCEPT ![c] = Ended(@, "failed", error)]
  /\ UNCHANGED <<chain, client>>

Next ==
  \/ Grow
  \/ BuiltElsewhere
  \/ \E c \in Callers :
       \/ \E query \in Questions[c] : Start(c, query) \/ Refuse(c, query)
       \/ Build(c)
       \/ BuildFails(c)
       \/ \E request \in call[c].todo : Send(c, request)
       \/ \E request \in call[c].sent : Receive(c, request) \/ Fail(c, request)

Spec == Init /\ [][Next]_vars

(* What was built is sent, and the timeout of the query client ends a request *)
(* that is not answered.                                                   *)
Sends(c)    == \E request \in call[c].todo : Send(c, request)
Answered(c) == \E request \in call[c].sent : Receive(c, request) \/ Fail(c, request)
FairSpec ==
  /\ Spec
  /\ \A c \in Callers :
       /\ WF_vars(Build(c) \/ BuildFails(c))
       /\ WF_vars(Sends(c))
       /\ WF_vars(Answered(c))

-----------------------------------------------------------------------------
(* A call is in one of its phases, asks only while it has something to ask,    *)
(* and goes by the one client of query_client.                             *)
TypeOK ==
  /\ Len(chain) \in 1 .. MaxBlock
  /\ client \in Callers \cup {Null, Elsewhere}
  /\ \A c \in Callers :
       /\ call[c].pc \in {"idle", "building", "asking", "done", "failed"}
       /\ call[c].pc = "idle" <=> call[c].query = Null
       /\ call[c].todo \cup call[c].sent # {} <=> call[c].pc \in {"building", "asking"}
       /\ call[c].pc = "asking" => call[c].via = client
       /\ call[c].since \in 0 .. Len(chain)

(* Every query keeps the promise of Reads: the answer is what the index held  *)
(* at one block since the call, also when it came in pages; the channels of  *)
(* a safe and an overview are put together from the same or later blocks,     *)
(* and leave nothing out that was there all the time.                      *)
Abstract == INSTANCE Reads WITH
  Queries <- Questions,
  reads <- [c \in Callers |->
              [pc     |-> IF call[c].pc \in {"building", "asking"} THEN "reading" ELSE call[c].pc,
               query  |-> call[c].query,
               since  |-> call[c].since,
               result |-> IF call[c].pc = "done" THEN call[c].result ELSE Null]]
ImplementsReads == Abstract!Spec

(* A query ends, whatever the size of the answer and however the index grows  *)
(* meanwhile: the cursor of a page moves on, and nothing is asked twice.      *)
CallsEnd ==
  \A c \in Callers :
    call[c].pc \in {"building", "asking"} ~> call[c].pc \in {"done", "failed"}

(* An answer about accounts, channels, services or safes, from an index that  *)
(* did not change meanwhile, has the items that the test client selects when  *)
(* its state is that of the index: the variables of a request, and the filter *)
(* by safe, select what the filters of the test client select, the statuses   *)
(* and wrapped key ids included.  Of the statistics of channels it is their   *)
(* number.  Nothing is said of a query that is refused, as that for all       *)
(* accounts is by the client and not by the test client, nor of the other     *)
(* operations, where the test client has values of its own.                  *)
DoubleAgrees ==
  \A c \in Callers :
    LET query == call[c].query
        items == DoubleItems(chain[Len(chain)], query)
    IN  call[c].pc = "done" /\ call[c].since = Len(chain) /\ query.op \in DoubleOperations
          => call[c].result = IF query.op \in Counts THEN {Cardinality(items)} ELSE items

(* Whatever a caller is about to ask for, each error that Blokli's schema      *)
(* lists for it would reach the caller as an error of its own: no two are      *)
(* alike, and none looks like an answer without data.  The exception is an    *)
(* invalid address in the reply to channels, which the client's union does    *)
(* not have.                                                               *)
ErrorsToldApart ==
  LET Told(root, member) == Outcome(root, Response(member, "absent"))
      Unlisted(root) == IF root = "channels" THEN {"InvalidAddressError"} ELSE {}
      Members(root) == SchemaUnions[root] \ Unlisted(root)
      Errors(root)  == {m \in Members(root) : ~Told(root, m).ok}
  IN  \A c \in Callers : call[c].pc = "idle" => \A root \in DOMAIN SchemaUnions :
        /\ Errors(root) = Members(root) \cap (DOMAIN QueryErrorKinds
                                              \cup DOMAIN TransactionErrorKinds)
        /\ \A m \in Errors(root) : Told(root, m) # Err("NoData")
        /\ \A m, n \in Errors(root) : m # n => Told(root, m) # Told(root, n)

(* Whatever command of the inspector a caller is about to run, every option   *)
(* that it accepts restricts what is asked for: none is dropped because       *)
(* another one was given as well, and all channels are asked for only without *)
(* options.  The exception is the safe of a subscription to channels, for     *)
(* which the operation has no argument.                                    *)
OptionsRestrict ==
  LET Kept(args, variables) ==
        \A a \in DOMAIN args : args[a] # Null => variables[a] = args[a]
      Accepted(command) ==
        {args \in [command.options -> {Null, 1}] : SelectorOf(command, args) # Refused}
      Asked(command, args) == First(Query(command.op, SelectorOf(command, args))).variables
      Followed(command, args) == SubscriptionVariables(command.op, SelectorOf(command, args))
      all     == {QueryCommands[n] : n \in DOMAIN QueryCommands}
      streams == {SubscriptionCommands[n] : n \in DOMAIN SubscriptionCommands}
  IN  \A c \in Callers : call[c].pc = "idle" =>
        /\ \A command \in all : \A args \in Accepted(command) :
             CASE command.op = "query_services" -> Kept(args, Asked(command, args).filters)
               [] command.op = "query_safe" ->
                    \A a \in DOMAIN args : args[a] # Null => Asked(command, args).address = args[a]
               [] OTHER -> Kept(args, Asked(command, args))
        /\ \A command \in streams : \A args \in Accepted(command) :
             Kept([a \in DOMAIN args \ {"safe_address"} |-> args[a]], Followed(command, args))
        /\ \A args \in Accepted(QueryCommands.Channel) :
             MatchesAll(ChannelArgs(args)) <=> \A a \in DOMAIN args : args[a] = Null
=============================================================================
