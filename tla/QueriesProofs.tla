--------------------------- MODULE QueriesProofs ---------------------------
(* Theorems about Queries and Selection: the phases of every query, and that *)
(* each selector selects the same from Blokli's index as from the state of   *)
(* the test client, for key ids of any width.                               *)
EXTENDS Queries, TLAPS, FiniteSetTheorems, WellFoundedInduction

(* A key id survives the way through the GraphQL Int and back.               *)
LEMMA CastsInvert ==
  ASSUME NEW n \in U32, NEW i \in I32
  PROVE  /\ AsI32(n) \in I32 /\ AsI32(n) # Null
         /\ i = AsI32(n) <=> AsU32(i) = n
<1>1. MaxInt \in Nat /\ Null \notin Int
  BY SelectionAssumption
<1>2. AsI32(n) \in I32 /\ (i = AsI32(n) <=> AsU32(i) = n)
  BY <1>1 DEF U32, I32, AsI32, AsU32
<1> QED
  BY <1>1, <1>2 DEF I32

(* AccountVariables::from and account_matches select the same accounts.     *)
THEOREM AccountsSelected ==
  ASSUME NEW account, account.keyid \in I32,
         NEW s, s.value # Null, s.by = "KeyId" => s.value \in U32
  PROVE  Fits(account, AccountVariables(s)) <=> AccountMatches(account, s)
<1> DEFINE variables == AccountVariables(s)
<1>1. /\ DOMAIN variables = {"keyid", "packet_key", "chain_key"}
      /\ variables.keyid = IF s.by = "KeyId" THEN AsI32(s.value) ELSE Null
      /\ variables.packet_key = IF s.by = "PacketKey" THEN s.value ELSE Null
      /\ variables.chain_key = IF s.by = "Address" THEN s.value ELSE Null
  BY DEF AccountVariables, Given
<1>2. Fits(account, variables) <=>
        /\ variables.keyid # Null => account.keyid = variables.keyid
        /\ variables.packet_key # Null => account.packet_key = variables.packet_key
        /\ variables.chain_key # Null => account.chain_key = variables.chain_key
  BY <1>1 DEF Fits
<1> HIDE DEF variables
<1>3. s.by = "KeyId" => /\ AsI32(s.value) # Null
                        /\ account.keyid = AsI32(s.value) <=> AsU32(account.keyid) = s.value
  BY CastsInvert
<1>4. (variables.keyid # Null => account.keyid = variables.keyid)
        <=> (s.by = "KeyId" => AsU32(account.keyid) = s.value)
  BY <1>1, <1>3
<1>5. (variables.packet_key # Null => account.packet_key = variables.packet_key)
        <=> (s.by = "PacketKey" => account.packet_key = s.value)
  BY <1>1
<1>6. (variables.chain_key # Null => account.chain_key = variables.chain_key)
        <=> (s.by = "Address" => account.chain_key = s.value)
  BY <1>1
<1> QED
  BY <1>2, <1>4, <1>5, <1>6 DEF AccountMatches, variables

(* ServiceVariables::from and service_matches select the same services.      *)
THEOREM ServicesSelected ==
  ASSUME NEW entry, NEW by, NEW type, type # Null, NEW node, node # Null
  PROVE  LET s == ServiceSelector(by, type, node)
         IN  Fits(entry, ServiceVariables(s)) <=> ServiceMatches(entry, s)
<1> DEFINE s == ServiceSelector(by, type, node)
           variables == ServiceVariables(s)
<1>1. /\ s.by = by
      /\ s.type = IF by \in {"ServiceType", "ServiceTypeAndNode"} THEN type ELSE Null
      /\ s.node = IF by \in {"Node", "ServiceTypeAndNode"} THEN node ELSE Null
  BY DEF ServiceSelector, Given
<1>2. /\ DOMAIN variables = {"service_type", "node"}
      /\ variables.service_type = s.type /\ variables.node = s.node
  BY DEF ServiceVariables
<1>3. Fits(entry, variables) <=> /\ s.type # Null => entry.service_type = s.type
                                 /\ s.node # Null => entry.node = s.node
  BY <1>2 DEF Fits
<1> HIDE DEF s
<1>4. Fits(entry, variables) <=> ServiceMatches(entry, s)
  BY <1>1, <1>3 DEF ServiceMatches
<1> QED
  BY <1>4 DEF s

(* ChannelsVariables::from and channel_matches select the same channels: the   *)
(* ones with the id, the source, the destination, the safe and the status    *)
(* that were given, in every combination.                                   *)
THEOREM ChannelsSelected ==
  ASSUME NEW world, NEW channel,
         channel.source_key_id \in I32, channel.destination_key_id \in I32,
         NEW filter \in Filters, NEW id, id # Null,
         NEW source \in U32, NEW destination \in U32, NEW status, NEW safe
  PROVE  LET s == ChannelSelector(filter, id, source, destination, status, safe)
         IN  Fits(WithSafe(world, channel), ChannelsVariables(s))
               <=> ChannelMatches(channel, s, AccountSafes(world))
<1> DEFINE s == ChannelSelector(filter, id, source, destination, status, safe)
           variables == ChannelsVariables(s)
           item == WithSafe(world, channel)
           safes == AccountSafes(world)
           src == channel.source_key_id
           dst == channel.destination_key_id
<1>1. /\ s.filter = filter /\ s.status = status /\ s.safe = safe
      /\ s.id = IF filter = "ChannelId" THEN id ELSE Null
      /\ filter \in BySource => s.source = source
      /\ filter \in ByDestination => s.destination = destination
  BY DEF ChannelSelector, Given
<1>2. /\ DOMAIN variables = {"concrete_channel_id", "source_key_id", "destination_key_id",
                             "safe_address", "status"}
      /\ variables.concrete_channel_id = s.id
      /\ variables.source_key_id = IF s.filter \in BySource THEN AsI32(s.source) ELSE Null
      /\ variables.destination_key_id =
           IF s.filter \in ByDestination THEN AsI32(s.destination) ELSE Null
      /\ variables.safe_address = s.safe
      /\ variables.status = s.status
  BY DEF ChannelsVariables
<1>3. /\ item.concrete_channel_id = channel.concrete_channel_id
      /\ item.source_key_id = src /\ item.destination_key_id = dst
      /\ item.status = channel.status
      /\ item.safe_address = IF SafeOf(world, src) # {} THEN AddressOf(world, src) ELSE Null
  BY DEF WithSafe, Given
<1>4. src \in DOMAIN safes <=> SafeOf(world, src) # {}
  BY DEF AccountSafes, SafeOf
<1>5. src \in DOMAIN safes => safes[src] = AddressOf(world, src)
  BY DEF AccountSafes
<1> HIDE DEF s, variables, item, safes
<1>6. Fits(item, variables) <=>
        /\ s.id # Null => item.concrete_channel_id = s.id
        /\ variables.source_key_id # Null => src = variables.source_key_id
        /\ variables.destination_key_id # Null => dst = variables.destination_key_id
        /\ safe # Null => item.safe_address = safe
        /\ status # Null => channel.status = status
  BY <1>1, <1>2, <1>3 DEF Fits
<1>7. (s.id # Null => item.concrete_channel_id = s.id)
        <=> (s.filter = "ChannelId" => channel.concrete_channel_id = s.id)
  BY <1>1, <1>3
<1>8. (variables.source_key_id # Null => src = variables.source_key_id)
        <=> (s.filter \in BySource => AsU32(src) = s.source)
  <2>1. AsI32(source) # Null /\ (src = AsI32(source) <=> AsU32(src) = source)
    BY CastsInvert
  <2> QED
    BY <1>1, <1>2, <2>1
<1>9. (variables.destination_key_id # Null => dst = variables.destination_key_id)
        <=> (s.filter \in ByDestination => AsU32(dst) = s.destination)
  <2>1. AsI32(destination) # Null /\ (dst = AsI32(destination) <=> AsU32(dst) = destination)
    BY CastsInvert
  <2> QED
    BY <1>1, <1>2, <2>1
<1>10. (safe # Null => item.safe_address = safe)
         <=> (s.safe = Null \/ (src \in DOMAIN safes /\ safes[src] = s.safe))
  BY <1>1, <1>3, <1>4, <1>5
<1>11. Fits(item, variables) <=> ChannelMatches(channel, s, safes)
  BY <1>1, <1>6, <1>7, <1>8, <1>9, <1>10 DEF ChannelMatches
<1> QED
  BY <1>11 DEF s, variables, item, safes

-----------------------------------------------------------------------------
(* The phases of a query.  A call that asks goes by the client that           *)
(* query_client keeps: get_or_init never replaces it.                       *)
Shaped(state) ==
  DOMAIN state = {"pc", "query", "since", "via", "todo", "sent", "got", "result"}

(* A call, while `kept` is the client of query_client and `blocks` are mined. *)
CallOk(state, kept, blocks) ==
  /\ Shaped(state)
  /\ state.pc \in {"idle", "building", "asking", "done", "failed"}
  /\ state.pc = "idle" <=> state.query = Null
  /\ state.todo \cup state.sent # {} <=> state.pc \in {"building", "asking"}
  /\ state.pc = "asking" => kept # Null /\ state.via = kept
  /\ state.since \in 0 .. blocks

Typed ==
  /\ chain \in Seq(Worlds) /\ Len(chain) \in 1 .. MaxBlock
  /\ client \in Callers \cup {Null, Elsewhere}
  /\ call = [c \in Callers |-> call[c]]
IInv == Typed /\ \A c \in Callers : CallOk(call[c], client, Len(chain))

(* A step that sets one call.                                              *)
LEMMA Stepped ==
  ASSUME IInv, NEW c \in Callers, NEW state, CallOk(state, client', Len(chain')),
         call' = [call EXCEPT ![c] = state],
         UNCHANGED chain,
         client' \in Callers \cup {Null, Elsewhere},
         client # Null => client' = client
  PROVE  IInv'
<1>1. call' = [d \in Callers |-> IF d = c THEN state ELSE call[d]]
  BY DEF IInv, Typed
<1>2. Typed'
  BY <1>1 DEF IInv, Typed
<1>3. ASSUME NEW d \in Callers, d # c PROVE CallOk(call'[d], client', Len(chain'))
  BY <1>1, <1>3 DEF IInv, CallOk, Shaped
<1>4. CallOk(call'[c], client', Len(chain'))
  BY <1>1 DEF CallOk, Shaped
<1> QED
  BY <1>2, <1>3, <1>4 DEF IInv

LEMMA InitIInv == Init => IInv
<1> SUFFICES ASSUME Init PROVE IInv
  OBVIOUS
<1>1. PICK world \in Worlds : chain = <<world>>
  BY DEF Init
<1>2. chain \in Seq(Worlds) /\ Len(chain) = 1
  BY <1>1
<1>3. Typed
  BY <1>2, QueriesAssumption DEF Init, Typed
<1>4. CallOk(Unread, client, Len(chain))
  BY <1>2 DEF CallOk, Shaped, Unread
<1> QED
  BY <1>3, <1>4 DEF Init, IInv

(* A call that begins, in each of the two ways.                              *)
LEMMA StartKeeps ==
  ASSUME IInv, NEW c \in Callers, NEW query \in Questions[c], Start(c, query)
  PROVE  IInv'
<1> DEFINE state == [Unread EXCEPT !.pc    = IF client = Null THEN "building" ELSE "asking",
                                   !.query = query,
                                   !.since = Len(chain),
                                   !.via   = client,
                                   !.todo  = {Opening(query)}]
<1>1. query # Null
  BY QueriesAssumption
<1>2. /\ state.pc = IF client = Null THEN "building" ELSE "asking"
      /\ state.query = query /\ state.since = Len(chain) /\ state.via = client
      /\ state.todo # {} /\ Shaped(state)
  BY DEF Unread, Shaped
<1>3. call' = [call EXCEPT ![c] = state] /\ UNCHANGED <<chain, client>>
  BY DEF Start
<1> HIDE DEF state
<1>4. CallOk(state, client', Len(chain'))
  BY <1>1, <1>2, <1>3 DEF CallOk, Shaped, IInv, Typed
<1> QED
  BY <1>3, <1>4, Stepped DEF IInv, Typed

LEMMA RefuseKeeps ==
  ASSUME IInv, NEW c \in Callers, NEW query \in Questions[c], Refuse(c, query)
  PROVE  IInv'
<1> DEFINE state == [Unread EXCEPT !.pc = "failed", !.query = query, !.since = Len(chain),
                                   !.result = Err("InvalidInput")]
<1>1. query # Null
  BY QueriesAssumption
<1>2. /\ state.pc = "failed" /\ state.query = query /\ state.since = Len(chain)
      /\ state.todo = {} /\ state.sent = {} /\ Shaped(state)
  BY DEF Unread, Shaped
<1>3. call' = [call EXCEPT ![c] = state] /\ UNCHANGED <<chain, client>>
  BY DEF Refuse
<1> HIDE DEF state
<1>4. CallOk(state, client', Len(chain'))
  BY <1>1, <1>2, <1>3 DEF CallOk, Shaped, IInv, Typed
<1> QED
  BY <1>3, <1>4, Stepped DEF IInv, Typed

(* A call that ends, in whichever way.                                      *)
LEMMA EndedOk ==
  ASSUME NEW state, NEW kept, NEW blocks, CallOk(state, kept, blocks), state.pc # "idle",
         NEW pc \in {"done", "failed"}, NEW result
  PROVE  CallOk(Ended(state, pc, result), kept, blocks)
<1> DEFINE ended == Ended(state, pc, result)
<1>1. /\ Shaped(ended) /\ ended.pc = pc /\ ended.query = state.query
      /\ ended.since = state.since /\ ended.todo = {} /\ ended.sent = {}
  BY DEF Ended, CallOk, Shaped
<1> HIDE DEF ended
<1>2. CallOk(ended, kept, blocks)
  BY <1>1 DEF CallOk
<1> QED
  BY <1>2 DEF ended

LEMMA BuildKeeps ==
  ASSUME IInv, NEW c \in Callers, Build(c)
  PROVE  IInv'
<1> DEFINE state == [call[c] EXCEPT !.pc = "asking", !.via = client']
<1>1. CallOk(call[c], client, Len(chain)) /\ call[c].pc = "building"
      /\ client' \in Callers \cup {Elsewhere}
      /\ (client # Null => client' = client) /\ chain' = chain
  BY DEF Build, IInv, Typed
<1>2. client' # Null
  BY <1>1, QueriesAssumption
<1>3. call' = [call EXCEPT ![c] = state]
  BY DEF Build, IInv, Typed
<1>4. /\ Shaped(state) /\ state.pc = "asking" /\ state.via = client'
      /\ state.query = call[c].query /\ state.since = call[c].since
      /\ state.todo = call[c].todo /\ state.sent = call[c].sent
  BY <1>1 DEF CallOk, Shaped
<1> HIDE DEF state
<1>5. CallOk(state, client', Len(chain'))
  BY <1>1, <1>2, <1>4 DEF CallOk, Shaped
<1> QED
  BY <1>1, <1>3, <1>5, Stepped

LEMMA SendKeeps ==
  ASSUME IInv, NEW c \in Callers, NEW request, Send(c, request)
  PROVE  IInv'
<1> DEFINE state == [call[c] EXCEPT !.todo = @ \ {request}, !.sent = @ \cup {request}]
<1>1. CallOk(call[c], client, Len(chain)) /\ call[c].pc = "asking" /\ UNCHANGED <<chain, client>>
  BY DEF Send, IInv
<1>2. call' = [call EXCEPT ![c] = state]
  BY DEF Send, IInv, Typed
<1>3. /\ Shaped(state) /\ state.pc = "asking" /\ state.via = call[c].via
      /\ state.query = call[c].query /\ state.since = call[c].since
      /\ state.sent # {}
  BY <1>1 DEF CallOk, Shaped
<1> HIDE DEF state
<1>4. CallOk(state, client', Len(chain'))
  BY <1>1, <1>3 DEF CallOk, Shaped
<1> QED
  BY <1>1, <1>2, <1>4, Stepped DEF IInv, Typed

LEMMA ReceiveKeeps ==
  ASSUME IInv, NEW c \in Callers, NEW request, Receive(c, request)
  PROVE  IInv'
<1> DEFINE query == call[c].query
           reply == ReplyTo(request)
           got   == call[c].got \cup {[request |-> request, items |-> reply.items]}
           sent  == call[c].sent \ {request}
           todo  == call[c].todo \cup Following(query, request, reply, got)
           result == IF query.op = Overview THEN OverviewResult(query, got)
                                            ELSE Result(query, got)
           asking == [call[c] EXCEPT !.todo = todo, !.sent = sent, !.got = got]
<1>1. CallOk(call[c], client, Len(chain)) /\ call[c].pc \in {"building", "asking"}
      /\ UNCHANGED <<chain, client>>
  BY DEF Receive, IInv, CallOk
<1>2. \/ call' = [call EXCEPT ![c] = Ended(call[c], "failed", Err("Unusable"))]
      \/ call' = [call EXCEPT ![c] = Ended(call[c], "done", result)]
      \/ todo \cup sent # {} /\ call' = [call EXCEPT ![c] = asking]
  BY DEF Receive, IInv, Typed
<1> HIDE DEF query, reply, got, sent, todo, result
<1>3. /\ CallOk(Ended(call[c], "failed", Err("Unusable")), client', Len(chain'))
      /\ CallOk(Ended(call[c], "done", result), client', Len(chain'))
  BY <1>1, EndedOk
<1>4. ASSUME todo \cup sent # {} PROVE CallOk(asking, client', Len(chain'))
  <2>1. /\ Shaped(asking) /\ asking.pc = call[c].pc /\ asking.via = call[c].via
        /\ asking.query = call[c].query /\ asking.since = call[c].since
        /\ asking.todo = todo /\ asking.sent = sent
    BY <1>1 DEF CallOk, Shaped
  <2> HIDE DEF asking
  <2> QED
    BY <1>1, <1>4, <2>1 DEF CallOk, Shaped
<1> HIDE DEF asking
<1> QED
  BY <1>1, <1>2, <1>3, <1>4, Stepped DEF IInv, Typed

LEMMA FailureKeeps ==
  ASSUME IInv, NEW c \in Callers,
         BuildFails(c) \/ \E request \in call[c].sent : Fail(c, request)
  PROVE  IInv'
<1>1. CallOk(call[c], client, Len(chain)) /\ call[c].pc # "idle" /\ UNCHANGED <<chain, client>>
  BY DEF BuildFails, Fail, IInv, CallOk
<1>2. \E error : call' = [call EXCEPT ![c] = Ended(call[c], "failed", error)]
  BY DEF BuildFails, Fail, IInv, Typed
<1> QED
  BY <1>1, <1>2, EndedOk, Stepped DEF IInv, Typed

LEMMA GrowKeeps ==
  ASSUME IInv, Grow
  PROVE  IInv'
<1>1. PICK world \in Worlds : chain' = Append(chain, world)
  BY DEF Grow
<1>2. chain' \in Seq(Worlds) /\ Len(chain') = Len(chain) + 1 /\ Len(chain') \in 1 .. MaxBlock
  BY <1>1, QueriesAssumption DEF Grow, IInv, Typed
<1>3. UNCHANGED <<client, call>>
  BY DEF Grow
<1> QED
  BY <1>2, <1>3 DEF IInv, Typed, CallOk, Shaped

LEMMA ElsewhereKeeps ==
  ASSUME IInv, BuiltElsewhere
  PROVE  IInv'
  BY DEF BuiltElsewhere, IInv, Typed, CallOk, Shaped

LEMMA NextIInv == IInv /\ [Next]_vars => IInv'
<1> SUFFICES ASSUME IInv, [Next]_vars PROVE IInv'
  OBVIOUS
<1>1. CASE UNCHANGED vars
  BY <1>1 DEF vars, IInv, Typed, CallOk, Shaped
<1> QED
  BY <1>1, GrowKeeps, ElsewhereKeeps, StartKeeps, RefuseKeeps, BuildKeeps, SendKeeps,
     ReceiveKeeps, FailureKeeps
     DEF Next

(* Every query is in one of its phases, has requests to send or in flight only *)
(* while it asks, and all queries share one HTTP client, the one that was     *)
(* kept when several callers built it at once (query_client).                *)
THEOREM TypeCorrect == Spec => []TypeOK
<1>1. Spec => []IInv
  BY InitIInv, NextIInv, PTL DEF Spec
<1>2. IInv => TypeOK
  BY DEF IInv, Typed, CallOk, TypeOK
<1> QED
  BY <1>1, <1>2, PTL

-----------------------------------------------------------------------------
(* What Blokli selects, request by request.                                  *)
Paged == {"query_services", "query_live_services"}
SomeChannels == {"channels", "channel_count", "channel_stats"}

LEMMA SelectedAccounts ==
  ASSUME NEW world, NEW request, request.root \in {"accounts", "account_count"}
  PROVE  Selected(world, request) = {a \in world.accounts : Fits(a, request.variables)}
  BY Zenon DEF Selected

LEMMA SelectedChannels ==
  ASSUME NEW world, NEW request, request.root \in SomeChannels
  PROVE  Selected(world, request)
           = {ch \in world.channels : Fits(WithSafe(world, ch), request.variables)}
  BY Zenon DEF Selected, SomeChannels

LEMMA SelectedSafes ==
  ASSUME NEW world, NEW request, request.root = "safe_by"
  PROVE  Selected(world, request) = {s \in world.safes : SafeFits(s, request.variables)}
  BY Zenon DEF Selected

LEMMA SelectedServices ==
  ASSUME NEW world, NEW request, request.root = "services"
  PROVE  Selected(world, request) =
           {e \in world.services : /\ Fits(e, request.variables.filters)
                                   /\ request.variables.live_only => Live(world, e)}
  BY Zenon DEF Selected

LEMMA SelectedServiceCount ==
  ASSUME NEW world, NEW request, request.root = "service_count"
  PROVE  Selected(world, request) = {e \in world.services : Fits(e, request.variables)}
  BY Zenon DEF Selected

-----------------------------------------------------------------------------
(* Pages.                                                                  *)

(* A finite set of entries has a first and a last one.                      *)
LEMMA Ends ==
  ASSUME NEW S, S # {}, IsFiniteSet(S), \A e \in S : e.id \in Nat
  PROVE  /\ \E e \in S : \A d \in S : e.id <= d.id
         /\ \E e \in S : \A d \in S : d.id <= e.id
<1> DEFINE R == StrictSubsetOrdering(S)
           Upto(e) == {d \in S : d.id <= e.id}
           From(e) == {d \in S : e.id <= d.id}
           Lower == {Upto(e) : e \in S}
           Upper == {From(e) : e \in S}
<1>1. IsWellFoundedOn(R, FiniteSubsetsOf(S))
  BY FS_StrictSubsetOrderingWellFounded
<1>2. Lower \subseteq FiniteSubsetsOf(S) /\ Lower # {}
  <2>1. \A e \in S : Upto(e) \in SUBSET S
    OBVIOUS
  <2>2. \A e \in S : IsFiniteSet(Upto(e))
    BY <2>1, FS_Subset
  <2> QED BY <2>1, <2>2 DEF FiniteSubsetsOf
<1>3. Upper \subseteq FiniteSubsetsOf(S) /\ Upper # {}
  <2>1. \A e \in S : From(e) \in SUBSET S
    OBVIOUS
  <2>2. \A e \in S : IsFiniteSet(From(e))
    BY <2>1, FS_Subset
  <2> QED BY <2>1, <2>2 DEF FiniteSubsetsOf
<1>4. \E e \in S : \A d \in S : <<Upto(d), Upto(e)>> \notin R
  <2>1. \E x \in Lower : \A y \in Lower : <<y, x>> \notin R
    BY <1>1, <1>2, WFMin
  <2> QED BY <2>1
<1>5. \E e \in S : \A d \in S : <<From(d), From(e)>> \notin R
  <2>1. \E x \in Upper : \A y \in Upper : <<y, x>> \notin R
    BY <1>1, <1>3, WFMin
  <2> QED BY <2>1
<1>6. ASSUME NEW e \in S, NEW d \in S, d.id < e.id PROVE <<Upto(d), Upto(e)>> \in R
  <2>1. Upto(d) \subseteq Upto(e) /\ e \in Upto(e) /\ e \notin Upto(d)
    BY <1>6
  <2> QED BY <2>1 DEF StrictSubsetOrdering
<1>7. ASSUME NEW e \in S, NEW d \in S, e.id < d.id PROVE <<From(d), From(e)>> \in R
  <2>1. From(d) \subseteq From(e) /\ e \in From(e) /\ e \notin From(d)
    BY <1>7
  <2> QED BY <2>1 DEF StrictSubsetOrdering
<1>8. PICK e \in S : \A d \in S : <<Upto(d), Upto(e)>> \notin R
  BY <1>4
<1>9. PICK f \in S : \A d \in S : <<From(d), From(f)>> \notin R
  BY <1>5
<1> HIDE DEF R, Upto, From
<1>10. \A d \in S : ~(d.id < e.id) /\ ~(f.id < d.id)
  BY <1>6, <1>7, <1>8, <1>9
<1>11. \A d \in S : e.id <= d.id /\ d.id <= f.id
  BY <1>10
<1> QED BY <1>11

(* A page that is not the last holds all the entries up to its cursor.       *)
InOrder(entries) ==
  IsFiniteSet(entries) /\ \A d, e \in entries : d.id \in Nat /\ (d.id = e.id => d = e)
OnPage(rest) == {e \in rest : Cardinality({d \in rest : d.id <= e.id}) <= PageSize}
LastOf(items) == CHOOSE e \in items : \A d \in items : d.id <= e.id
Upto(entries, cursor) == {e \in entries : e.id <= cursor}

LEMMA PageIsPrefix ==
  ASSUME NEW rest, InOrder(rest), OnPage(rest) # rest
  PROVE  /\ LastOf(OnPage(rest)).id \in Nat /\ LastOf(OnPage(rest)) \in rest
         /\ OnPage(rest) = Upto(rest, LastOf(OnPage(rest)).id)
<1> DEFINE items == OnPage(rest)
           last == LastOf(items)
           Below(e) == {d \in rest : d.id <= e.id}
<1> USE DEF InOrder
<1>0. \A e : e \in items <=> e \in rest /\ Cardinality(Below(e)) <= PageSize
  BY DEF OnPage
<1>10. last = CHOOSE e \in items : \A d \in items : d.id <= e.id
  BY DEF LastOf
<1> HIDE DEF items, last
<1>1. PICK e \in rest : \A d \in rest : e.id <= d.id
  <2>1. rest # {}
    BY <1>0 DEF items
  <2> QED BY <2>1, Ends
<1>2. Below(e) = {e}
  BY <1>1
<1>3. e \in items
  <2>1. Cardinality(Below(e)) = 1
    BY <1>2, FS_Singleton
  <2> QED BY <1>0, <1>1, <2>1, WorldsAssumption
<1>4. IsFiniteSet(items)
  <2>1. items \in SUBSET rest
    BY <1>0
  <2> QED BY <2>1, FS_Subset
<1>5. \E f \in items : \A d \in items : d.id <= f.id
  BY <1>0, <1>3, <1>4, Ends
<1>6. last \in items /\ \A d \in items : d.id <= last.id
  BY <1>10, <1>5
<1>7. ASSUME NEW d \in rest, d.id <= last.id PROVE d \in items
  <2>1. Below(d) \in SUBSET Below(last) /\ Below(last) \in SUBSET rest
    <3>1. last \in rest /\ last.id \in Nat /\ d.id \in Nat
      BY <1>0, <1>6
    <3>2. ASSUME NEW f \in rest, f.id <= d.id PROVE f.id <= last.id
      BY <1>7, <3>1, <3>2
    <3> QED BY <3>2
  <2>2. IsFiniteSet(Below(last))
    BY <2>1, FS_Subset
  <2>3. Cardinality(Below(d)) <= Cardinality(Below(last))
    BY <2>1, <2>2, FS_Subset
  <2>4. Cardinality(Below(d)) \in Nat /\ Cardinality(Below(last)) \in Nat
    BY <2>1, <2>2, FS_Subset, FS_CardinalityType
  <2>5. Cardinality(Below(last)) <= PageSize
    BY <1>0, <1>6
  <2> QED BY <1>0, <2>3, <2>4, <2>5, WorldsAssumption
<1>8. last \in rest /\ last.id \in Nat
  BY <1>0, <1>6
<1>9. items = {f \in rest : f.id <= last.id}
  <2>1. \A f \in items : f \in rest /\ f.id <= last.id
    BY <1>0, <1>6
  <2> QED BY <1>7, <2>1
<1> QED BY <1>8, <1>9 DEF items, last, Upto

-----------------------------------------------------------------------------
(* The first request of every operation.                                    *)
AccountOps == {"query_accounts", "count_accounts"}
ChannelOps == {"query_channels", "count_channels", "query_channel_stats"}
ServiceOps == Paged \cup {"count_services"}

LEMMA RootsOf ==
  /\ RootOf("query_accounts") = "accounts" /\ RootOf("count_accounts") = "account_count"
  /\ RootOf("query_channels") = "channels" /\ RootOf("count_channels") = "channel_count"
  /\ RootOf("query_channel_stats") = "channel_stats"
  /\ RootOf("query_services") = "services" /\ RootOf("query_live_services") = "services"
  /\ RootOf("count_services") = "service_count" /\ RootOf("query_safe") = "safe_by"
  BY DEF RootOf, IndexRoots

LEMMA OtherRootsOf ==
  \A op \in Operations \ (AccountOps \cup ChannelOps \cup ServiceOps \cup {"query_safe"}) :
    RootOf(op) # "services"
  BY DEF RootOf, IndexRoots, CurvyRoots, Operations,
         AccountOps, ChannelOps, ServiceOps, Paged

LEMMA VariablesOf ==
  ASSUME NEW query
  PROVE  /\ query.op \in AccountOps => Variables(query) = AccountVariables(query.selector)
         /\ query.op \in ChannelOps => Variables(query) = ChannelsVariables(query.selector)
         /\ query.op = "query_safe" => Variables(query) = SafeByVariables(query.selector)
         /\ query.op = "count_services" => Variables(query) = ServiceVariables(query.selector)
         /\ query.op \in Paged =>
              Variables(query) = ServicePageVariables(query.selector, Null, Null,
                                                      query.op = "query_live_services")
<1>1. query.op \in AccountOps => Variables(query) = AccountVariables(query.selector)
  BY Zenon DEF Variables, AccountOps
<1>2. query.op \in ChannelOps => Variables(query) = ChannelsVariables(query.selector)
  BY Zenon DEF Variables, ChannelOps, ChannelStatsVariables
<1>3. query.op = "query_safe" => Variables(query) = SafeByVariables(query.selector)
  BY Zenon DEF Variables
<1>4. query.op = "count_services" => Variables(query) = ServiceVariables(query.selector)
  BY Zenon DEF Variables
<1>5. query.op = "query_services"
        => Variables(query) = ServicePageVariables(query.selector, Null, Null, FALSE)
  BY Zenon DEF Variables
<1>6. query.op = "query_live_services"
        => Variables(query) = ServicePageVariables(query.selector, Null, Null, TRUE)
  BY Zenon DEF Variables
<1>7. ~("query_services" = "query_live_services")
  OBVIOUS
<1>8. query.op \in Paged => 
              Variables(query) = ServicePageVariables(query.selector, Null, Null,
                                                      query.op = "query_live_services")
  BY <1>5, <1>6, <1>7 DEF ServicePageVariables, Paged
<1> QED BY <1>1, <1>2, <1>3, <1>4, <1>8

(* What is reported of the items: how many they are, or they themselves.    *)
Reported(query, items) == IF query.op \in Counts THEN {Cardinality(items)} ELSE items

IsSingle(query) == query.op \notin Paged /\ ~BySafe(query) /\ query.op # Overview

LEMMA OpeningOf ==
  ASSUME NEW query
  PROVE  /\ query.op = Overview
              => Opening(query) = Request("accounts", AccountVariables(query.selector))
         /\ BySafe(query)
              => Opening(query) = Request("channels", ChannelsVariables(query.selector))
         /\ query.op \in Paged \/ IsSingle(query) => Opening(query) = First(query)
<1>2. BySafe(query) => query.op # Overview
  BY DEF BySafe, Overview
<1>1. query.op = Overview
        => Opening(query) = Request("accounts", AccountVariables(query.selector))
  BY <1>2, Zenon DEF Opening
<1>3. BySafe(query)
        => Opening(query) = Request("channels", ChannelsVariables(query.selector))
  BY <1>2, Zenon DEF Opening
<1>4. query.op \in Paged \/ IsSingle(query) => query.op # Overview /\ ~BySafe(query)
  BY DEF IsSingle, BySafe, Paged, Overview
<1>5. query.op # Overview /\ ~BySafe(query) => Opening(query) = First(query)
  BY Zenon DEF Opening
<1> QED BY <1>1, <1>3, <1>4, <1>5

LEMMA FollowingOf ==
  ASSUME NEW query, NEW request, NEW reply, NEW got
  PROVE  /\ query.op \in Paged
              => Following(query, request, reply, got) =
                   IF reply.next_cursor = Null THEN {} ELSE {NextPage(request, reply)}
         /\ IsSingle(query) => Following(query, request, reply, got) = {}
         /\ BySafe(query) /\ request.root = "channels"
              => Following(query, request, reply, got) = {SafeAt(query.selector.safe)}
         /\ BySafe(query) /\ request.root = "safe_by"
              => Following(query, request, reply, got) = NodesOf(reply.items)
         /\ BySafe(query) /\ request.root = "accounts"
              => Following(query, request, reply, got) = {}
<1> DEFINE following == Following(query, request, reply, got)
           next == IF reply.next_cursor = Null THEN {} ELSE {NextPage(request, reply)}
<1>1. /\ query.op \in Paged => ~BySafe(query) /\ query.op # Overview
      /\ BySafe(query) => query.op \notin Paged /\ query.op # Overview
      /\ IsSingle(query) => query.op \notin Paged /\ ~BySafe(query) /\ query.op # Overview
  BY DEF Paged, BySafe, Overview, IsSingle
<1>2. query.op \in Paged => following = next
  BY <1>1, Zenon DEF Following, Paged
<1>3. IsSingle(query) => following = {}
  BY <1>1, Zenon DEF Following, Paged
<1>4. ASSUME BySafe(query), request.root = "channels"
      PROVE  following = {SafeAt(query.selector.safe)}
  BY <1>1, <1>4, "channels" # "safe_by", Zenon DEF Following, Paged
<1>5. ASSUME BySafe(query), request.root = "safe_by"
      PROVE  following = NodesOf(reply.items)
  BY <1>1, <1>5, "channels" # "safe_by", Zenon DEF Following, Paged
<1>6. ASSUME BySafe(query), request.root = "accounts"
      PROVE  following = {}
  BY <1>1, <1>6, "channels" # "accounts", "safe_by" # "accounts", Zenon DEF Following, Paged
<1> QED BY <1>2, <1>3, <1>4, <1>5, <1>6

-----------------------------------------------------------------------------
(* How far a query got, while `blocks` is the index.  It has one request to    *)
(* send or in flight, ...                                                  *)
OneOpen(todo, sent, request) ==
  \/ todo = {request} /\ sent = {}
  \/ todo = {} /\ sent = {request}

SingleOk(query, todo, sent, got) ==
  OneOpen(todo, sent, First(query)) /\ got = {}

(* ... or has, of a listing at one block, the pages up to its cursor, ...    *)
OnlyLive(query) == query.op = "query_live_services"
PageRequest(query, after, at) ==
  Request("services", ServicePageVariables(query.selector, after, at, OnlyLive(query)))
PagesUpto(query, since, got, blocks, after, at) ==
  /\ after \in Nat
  /\ at \in since .. Len(blocks)
  /\ ItemsOf(got, "services") = {e \in Selected(blocks[at], First(query)) : e.id <= after}
PagesOk(query, since, todo, sent, got, blocks) ==
  \E after, at :
    /\ OneOpen(todo, sent, PageRequest(query, after, at))
    /\ \/ after = Null /\ at = Null /\ got = {}
       \/ PagesUpto(query, since, got, blocks, after, at)

LEMMA FirstPage ==
  ASSUME NEW query, query.op \in Paged
  PROVE  First(query) = PageRequest(query, Null, Null)
<1>1. Variables(query) = ServicePageVariables(query.selector, Null, Null, OnlyLive(query))
  BY VariablesOf DEF OnlyLive
<1>2. RootOf(query.op) = "services"
  BY RootsOf DEF Paged
<1> QED BY <1>1, <1>2 DEF First, PageRequest

(* Cursor and block of a page do not select.                                 *)
LEMMA EveryPage ==
  ASSUME NEW query, query.op \in Paged, NEW after, NEW at, NEW world
  PROVE  /\ PageRequest(query, after, at).root = "services"
         /\ PageRequest(query, after, at).variables.after = after
         /\ PageRequest(query, after, at).variables.watermark = at
         /\ Selected(world, PageRequest(query, after, at)) = Selected(world, First(query))
<1>1. /\ PageRequest(query, after, at).root = "services"
      /\ PageRequest(query, after, at).variables.after = after
      /\ PageRequest(query, after, at).variables.watermark = at
      /\ PageRequest(query, after, at).variables.filters = ServiceVariables(query.selector)
      /\ PageRequest(query, after, at).variables.live_only = OnlyLive(query)
  BY DEF PageRequest, Request, ServicePageVariables
<1>2. /\ PageRequest(query, Null, Null).root = "services"
      /\ PageRequest(query, Null, Null).variables.filters = ServiceVariables(query.selector)
      /\ PageRequest(query, Null, Null).variables.live_only = OnlyLive(query)
  BY DEF PageRequest, Request, ServicePageVariables
<1> HIDE DEF PageRequest
<1>3. Selected(world, PageRequest(query, after, at))
        = Selected(world, PageRequest(query, Null, Null))
  <2> DEFINE r == PageRequest(query, after, at)
             f == PageRequest(query, Null, Null)
  <2>1. Selected(world, r) =
           {e \in world.services : /\ Fits(e, r.variables.filters)
                                   /\ r.variables.live_only => Live(world, e)}
    BY <1>1, SelectedServices
  <2>2. Selected(world, f) =
           {e \in world.services : /\ Fits(e, f.variables.filters)
                                   /\ f.variables.live_only => Live(world, e)}
    BY <1>2, SelectedServices
  <2>3. r.variables.filters = f.variables.filters /\ r.variables.live_only = f.variables.live_only
    BY <1>1, <1>2
  <2> QED BY <2>1, <2>2, <2>3, Zenon
<1>4. First(query) = PageRequest(query, Null, Null)
  BY FirstPage
<1>5. Selected(world, PageRequest(query, after, at)) = Selected(world, First(query))
  BY <1>3, <1>4
<1> QED BY <1>1, <1>5

LEMMA NextPageOf ==
  ASSUME NEW query, NEW after, NEW at, NEW reply
  PROVE  NextPage(PageRequest(query, after, at), reply)
           = PageRequest(query, reply.next_cursor, reply.watermark)
<1> DEFINE cursor == reply.next_cursor
           watermark == reply.watermark
           Of(a, t) == ServicePageVariables(query.selector, a, t, OnlyLive(query))
           old == Of(after, at)
           moved == Of(cursor, at)
           new == Of(cursor, watermark)
<1> HIDE DEF cursor, watermark
<1>1. [old EXCEPT !.after = cursor] = moved
  BY DEF ServicePageVariables
<1>2. [moved EXCEPT !.watermark = watermark] = new
  BY DEF ServicePageVariables
<1>3. /\ PageRequest(query, after, at).root = "services"
      /\ PageRequest(query, after, at).variables = old
      /\ PageRequest(query, cursor, watermark) = Request("services", new)
  BY DEF PageRequest, Request
<1> HIDE DEF old, moved, new
<1>4. [old EXCEPT !.after = cursor, !.watermark = watermark]
        = [[old EXCEPT !.after = cursor] EXCEPT !.watermark = watermark]
  OBVIOUS
<1>5. [old EXCEPT !.after = cursor, !.watermark = watermark] = new
  BY <1>1, <1>2, <1>4
<1>6. NextPage(PageRequest(query, after, at), reply)
        = Request("services", [old EXCEPT !.after = cursor, !.watermark = watermark])
  BY <1>3 DEF NextPage, cursor, watermark
<1> QED BY <1>3, <1>5, <1>6 DEF cursor, watermark

(* Services of a world that Blokli selects can be put in pages.              *)
LEMMA SelectedInOrder ==
  ASSUME NEW world \in Worlds, NEW query, query.op \in Paged,
         NEW rest, rest \subseteq Selected(world, First(query))
  PROVE  InOrder(rest)
<1>1. First(query).root = "services"
  BY FirstPage DEF PageRequest, Request
<1>2. rest \in SUBSET world.services
  BY <1>1, SelectedServices
<1>3. WorldOk(world)
  BY WorldsAssumption
<1>4. IsFiniteSet(rest)
  BY <1>2, <1>3, FS_Subset DEF WorldOk
<1> QED BY <1>2, <1>3, <1>4 DEF WorldOk, InOrder

(* What is left to do after the reply to a request.                          *)
Replied(query, todo, sent, got, request, asked, left, grown) ==
  /\ request \in sent
  /\ grown = got \cup {[request |-> request, items |-> ReplyTo(request).items]}
  /\ asked = todo \cup Following(query, request, ReplyTo(request), grown)
  /\ left = sent \ {request}

(* A reply to the only request of a query is the answer.                     *)
LEMMA SingleReply ==
  ASSUME NEW query, IsSingle(query), First(query).root # "services", NEW todo, NEW sent, NEW got,
         SingleOk(query, todo, sent, got), NEW request, NEW asked, NEW left, NEW grown,
         Replied(query, todo, sent, got, request, asked, left, grown)
  PROVE  /\ asked = {} /\ left = {}
         /\ Result(query, grown) = Reported(query, Selected(chain[Len(chain)], First(query)))
<1> USE DEF Replied
<1>1. todo = {} /\ sent = {First(query)} /\ request = First(query)
  BY DEF SingleOk, OneOpen
<1>2. Following(query, request, ReplyTo(request), grown) = {}
  BY FollowingOf
<1>3. ReplyTo(request).items = Selected(chain[Len(chain)], First(query))
  BY <1>1 DEF ReplyTo
<1>4. grown = {[request |-> First(query), items |-> Selected(chain[Len(chain)], First(query))]}
  BY <1>1, <1>3 DEF SingleOk
<1>5. ItemsOf(grown, First(query).root) = Selected(chain[Len(chain)], First(query))
  <2> DEFINE items == Selected(chain[Len(chain)], First(query))
             root == First(query).root
             g == [request |-> First(query), items |-> items]
  <2>1. grown = {g} /\ g.items = items /\ g.request.root = root
    BY <1>4
  <2> HIDE DEF items, root, g
  <2>2. ItemsOf(grown, root) = items
    BY <2>1 DEF ItemsOf
  <2> QED BY <2>2 DEF items, root
<1>6. ~BySafe(query)
  BY DEF IsSingle
<1>7. Result(query, grown) = Reported(query, Selected(chain[Len(chain)], First(query)))
  BY <1>5, <1>6, Zenon DEF Result, Reported
<1> QED BY <1>1, <1>2, <1>7

(* A page either is the last one, or moves the cursor on at the same block.    *)
PageState(query, since, got, after, at) ==
  \/ after = Null /\ at = Null /\ got = {}
  \/ PagesUpto(query, since, got, chain, after, at)
PageTurned(query, since, grown, reply) ==
  /\ reply.next_cursor = Null
       => \E b \in since .. Len(chain) :
            ItemsOf(grown, "services") = Selected(chain[b], First(query))
  /\ reply.next_cursor # Null
       => PagesUpto(query, since, grown, chain, reply.next_cursor, reply.watermark)

LEMMA PageReply ==
  ASSUME NEW query, query.op \in Paged, NEW since, chain \in Seq(Worlds),
         since \in 1 .. Len(chain), NEW got, NEW after, NEW at,
         PageState(query, since, got, after, at), NEW request, request = PageRequest(query, after, at),
         NEW reply, reply = ReplyTo(request),
         NEW grown, grown = got \cup {[request |-> request, items |-> reply.items]}
  PROVE  PageTurned(query, since, grown, reply)
<1> USE DEF PageState
<1> DEFINE b == IF at = Null THEN Len(chain) ELSE at
           all == Selected(chain[b], First(query))
           rest == {e \in all : after = Null \/ e.id > after}
           items == OnPage(rest)
           last == LastOf(items)
<1>1. Null \notin Int
  BY SelectionAssumption
<1>2. b \in since .. Len(chain) /\ Len(chain) \in Nat
  BY <1>1 DEF PagesUpto
<1>3. chain[b] \in Worlds
  BY <1>2
<1>4. Selected(chain[b], request) = all
  BY EveryPage
<1>5. request.root = "services" /\ request.variables.after = after
        /\ request.variables.watermark = at
  BY EveryPage
<1>6. /\ reply.items = items /\ reply.watermark = b
      /\ reply.next_cursor = IF items = rest THEN Null ELSE last.id
  <2> DEFINE at2 == IF request.variables.watermark = Null
                    THEN Len(chain) ELSE request.variables.watermark
             rest2 == {e \in Selected(chain[at2], request) :
                         request.variables.after = Null \/ e.id > request.variables.after}
  <2>1. at2 = b
    BY <1>5
  <2>2. rest2 = rest
    <3> HIDE DEF b, at2
    <3>1. Selected(chain[at2], request) = all
      BY <1>4, <2>1
    <3> HIDE DEF all
    <3> QED BY <1>5, <3>1
  <2>3. request.root = "services"
    BY <1>5
  <2>4. ReplyTo(request) = [items |-> OnPage(rest2),
                            next_cursor |-> IF OnPage(rest2) = rest2
                                            THEN Null ELSE LastOf(OnPage(rest2)).id,
                            watermark |-> at2]
    BY <2>3, Zenon DEF ReplyTo, OnPage, LastOf
  <2> HIDE DEF b, at2, rest, rest2
  <2> QED BY <2>1, <2>2, <2>4
<1>7. ItemsOf(grown, "services") = ItemsOf(got, "services") \cup items
  <2> DEFINE g == [request |-> request, items |-> items]
  <2>1. grown = got \cup {g} /\ g.items = items /\ g.request.root = "services"
    BY <1>5, <1>6
  <2> HIDE DEF g, items
  <2> QED BY <2>1 DEF ItemsOf
<1>8. ItemsOf(got, "services") = {e \in all : after # Null /\ e.id <= after}
  <2>1. CASE after = Null /\ at = Null /\ got = {}
    BY <2>1 DEF ItemsOf
  <2>2. CASE PagesUpto(query, since, got, chain, after, at)
    BY <1>1, <2>2 DEF PagesUpto
  <2> QED BY <2>1, <2>2
<1>9. after = Null \/ after \in Nat
  BY DEF PagesUpto
<1>10. InOrder(all)
  <2>1. all \subseteq all
    OBVIOUS
  <2> HIDE DEF all
  <2> QED BY <1>3, <2>1, SelectedInOrder DEF all
<1> HIDE DEF all
<1>11. InOrder(rest)
  <2>1. rest \in SUBSET all
    OBVIOUS
  <2> QED BY <1>10, <2>1, FS_Subset DEF InOrder
<1>14. items # rest
         => last.id \in Nat /\ last \in rest /\ items = {e \in rest : e.id <= last.id}
  <2> HIDE DEF rest
  <2> QED BY <1>11, PageIsPrefix DEF Upto
<1>15. \A e : e \in rest <=> e \in all /\ (after = Null \/ e.id > after)
  OBVIOUS
<1> HIDE DEF rest, items, last
<1>12. ASSUME reply.next_cursor = Null PROVE ItemsOf(grown, "services") = all
  <2>1. items = rest
    BY <1>1, <1>6, <1>12, <1>14
  <2>2. \A e \in all : e.id \in Nat
    BY <1>10 DEF InOrder
  <2>3. \A e \in all : (after # Null /\ e.id <= after) \/ e \in rest
    BY <1>9, <1>15, <2>2
  <2>4. ItemsOf(grown, "services") = {e \in all : after # Null /\ e.id <= after} \cup rest
    BY <1>7, <1>8, <2>1
  <2> QED BY <1>15, <2>3, <2>4
<1>13. ASSUME reply.next_cursor # Null
       PROVE  PagesUpto(query, since, grown, chain, reply.next_cursor, reply.watermark)
  <2>1. items # rest /\ reply.next_cursor = last.id
    BY <1>6, <1>13
  <2>2. last.id \in Nat /\ last \in all /\ (after = Null \/ last.id > after)
    BY <1>14, <1>15, <2>1
  <2>3. \A e \in all : e.id \in Nat
    BY <1>10 DEF InOrder
  <2>4. \A e : e \in items <=> e \in all /\ (after = Null \/ e.id > after) /\ e.id <= last.id
    BY <1>14, <1>15, <2>1
  <2>5. \A e \in all : (after # Null /\ e.id <= after) \/ e \in items <=> e.id <= last.id
    BY <1>9, <2>2, <2>3, <2>4
  <2>6. ItemsOf(grown, "services") = {e \in all : after # Null /\ e.id <= after} \cup items
    BY <1>7, <1>8
  <2>7. ItemsOf(grown, "services") = {e \in all : e.id <= last.id}
    BY <2>4, <2>5, <2>6
  <2> QED BY <1>2, <1>6, <2>1, <2>2, <2>7 DEF PagesUpto, all
<1> QED BY <1>2, <1>12, <1>13 DEF all, PageTurned

PagesReplied(query, since, asked, left, grown) ==
  \/ /\ asked = {} /\ left = {}
     /\ \E b \in since .. Len(chain) :
          Result(query, grown) = Reported(query, Selected(chain[b], First(query)))
  \/ /\ asked # {}
     /\ PagesOk(query, since, asked, left, grown, chain)

LEMMA PagesReply ==
  ASSUME NEW query, query.op \in Paged, NEW since, chain \in Seq(Worlds),
         since \in 1 .. Len(chain), NEW todo, NEW sent, NEW got,
         PagesOk(query, since, todo, sent, got, chain), NEW request, NEW asked, NEW left, NEW grown,
         Replied(query, todo, sent, got, request, asked, left, grown)
  PROVE  PagesReplied(query, since, asked, left, grown)
<1> USE DEF Replied, PagesReplied
<1>1. PICK after, at :
        /\ OneOpen(todo, sent, PageRequest(query, after, at))
        /\ \/ after = Null /\ at = Null /\ got = {}
           \/ PagesUpto(query, since, got, chain, after, at)
  BY DEF PagesOk
<1>2. todo = {} /\ sent = {request} /\ request = PageRequest(query, after, at)
  BY <1>1 DEF OneOpen
<1> DEFINE reply == ReplyTo(request)
<1>3. asked = IF reply.next_cursor = Null THEN {} ELSE {NextPage(request, reply)}
  BY <1>2, FollowingOf
<1>4. PageTurned(query, since, grown, reply)
  <2>1. PageState(query, since, got, after, at)
    BY <1>1 DEF PageState
  <2>2. reply = ReplyTo(request) /\ request = PageRequest(query, after, at)
    BY <1>2
  <2>3. grown = got \cup {[request |-> request, items |-> reply.items]}
    OBVIOUS
  <2> HIDE DEF reply
  <2> QED BY <2>1, <2>2, <2>3, PageReply
<1>5. CASE reply.next_cursor = Null
  <2>1. PICK b \in since .. Len(chain) :
          ItemsOf(grown, "services") = Selected(chain[b], First(query))
    BY <1>4, <1>5 DEF PageTurned
  <2>2. First(query).root = "services" /\ ~BySafe(query)
    BY FirstPage DEF PageRequest, Request, BySafe, Paged
  <2>3. Result(query, grown) = Reported(query, Selected(chain[b], First(query)))
    BY <2>1, <2>2, Zenon DEF Result, Reported
  <2> QED BY <1>2, <1>3, <1>5, <2>3
<1>6. CASE reply.next_cursor # Null
  <2>1. asked = {PageRequest(query, reply.next_cursor, reply.watermark)}
    <3>1. asked = {NextPage(request, reply)}
      BY <1>3, <1>6
    <3> HIDE DEF reply
    <3>2. NextPage(PageRequest(query, after, at), reply)
            = PageRequest(query, reply.next_cursor, reply.watermark)
      BY NextPageOf
    <3> QED BY <1>2, <3>1, <3>2
  <2>2. OneOpen(asked, sent \ {request}, PageRequest(query, reply.next_cursor, reply.watermark))
    BY <1>2, <2>1 DEF OneOpen
  <2> QED BY <1>4, <1>6, <2>1, <2>2 DEF PagesOk, PageTurned
<1> QED BY <1>5, <1>6

-----------------------------------------------------------------------------
(* ... or knows the channels of a filter by safe as of block b, then the safe  *)
(* as of a later block, then the accounts of its nodes as of any block since.  *)
Holds(g, world) == g.items = Selected(world, g.request)
SafeChannels(query) == Request("channels", ChannelsVariables(query.selector))
ChannelsAt(query, world) ==
  [request |-> SafeChannels(query), items |-> Selected(world, SafeChannels(query))]
TheSafe(query) == SafeAt(query.selector.safe)
SafesAt(query, world) ==
  [request |-> TheSafe(query), items |-> Selected(world, TheSafe(query))]
NodesAt(query, world) == NodesOf(Selected(world, TheSafe(query)))

AccountsKnown(query, todo, sent, got, blocks, b, n, answers) ==
  /\ got = {ChannelsAt(query, blocks[b]), SafesAt(query, blocks[n])} \cup answers
  /\ todo \cup sent \subseteq NodesAt(query, blocks[n])
  /\ \A g \in answers : g.request \in NodesAt(query, blocks[n])
  /\ \A g \in answers : \E t \in n .. Len(blocks) : Holds(g, blocks[t])
  /\ \A request \in NodesAt(query, blocks[n]) :
       request \in todo \cup sent \/ \E g \in answers : g.request = request

JoinOk(query, since, todo, sent, got, blocks) ==
  \/ OneOpen(todo, sent, SafeChannels(query)) /\ got = {}
  \/ /\ OneOpen(todo, sent, TheSafe(query))
     /\ \E b \in since .. Len(blocks) : got = {ChannelsAt(query, blocks[b])}
  \/ \E b \in since .. Len(blocks) : \E n \in b .. Len(blocks) :
       \E answers : AccountsKnown(query, todo, sent, got, blocks, b, n, answers)

(* What a join says: the channels selected at b whose source had an account,   *)
(* when that was asked for, at one of the nodes that the safe had at n.       *)
JoinsAt(query, blocks, b, n, items) ==
  /\ items \subseteq Selected(blocks[b], SafeChannels(query))
  /\ \A ch \in items : \E t \in n .. Len(blocks) :
       \E s \in blocks[n].safes, a \in blocks[t].accounts :
         /\ s.address = query.selector.safe
         /\ a.chain_key \in s.registered_nodes
         /\ a.keyid = ch.source_key_id
  /\ \A ch \in Selected(blocks[b], SafeChannels(query)), s \in blocks[n].safes :
       \A node \in s.registered_nodes : s.address = query.selector.safe =>
         \E t \in n .. Len(blocks) :
           (\E a \in blocks[t].accounts : a.chain_key = node /\ a.keyid = ch.source_key_id)
             => ch \in items

LEMMA RequestsOfJoin ==
  ASSUME NEW query, NEW world
  PROVE  /\ SafeChannels(query).root = "channels" /\ TheSafe(query).root = "safe_by"
         /\ \A request \in NodesAt(query, world) : request.root = "accounts"
  BY DEF SafeChannels, TheSafe, SafeAt, NodesAt, NodesOf, AccountsBy, Request

LEMMA SafeSelected ==
  ASSUME NEW query, NEW world
  PROVE  Selected(world, TheSafe(query)) = {s \in world.safes : s.address = query.selector.safe}
<1>1. /\ TheSafe(query).root = "safe_by"
      /\ TheSafe(query).variables.selector = "Address"
      /\ TheSafe(query).variables.address = query.selector.safe
  BY DEF TheSafe, SafeAt, Request, SafeByVariables
<1> DEFINE variables == TheSafe(query).variables
<1>2. Selected(world, TheSafe(query)) = {s \in world.safes : SafeFits(s, variables)}
  BY <1>1, SelectedSafes
<1> HIDE DEF variables
<1>3. "Address" # "RegisteredNode"
  OBVIOUS
<1>4. ASSUME NEW s PROVE SafeFits(s, variables) <=> s.address = query.selector.safe
  BY <1>1, <1>3, Zenon DEF SafeFits, variables
<1> QED BY <1>2, <1>4

(* The account of a node.                                                   *)
LEMMA NodeSelected ==
  ASSUME NEW node, node # Null, NEW world
  PROVE  Selected(world, AccountsBy("Address", node))
           = {a \in world.accounts : a.chain_key = node}
<1> DEFINE request == AccountsBy("Address", node)
           variables == request.variables
<1>1. /\ request.root = "accounts"
      /\ DOMAIN variables = {"keyid", "packet_key", "chain_key"}
      /\ variables.keyid = Null /\ variables.packet_key = Null /\ variables.chain_key = node
  BY DEF AccountsBy, Request, AccountVariables, AccountSelector, Given
<1>2. Selected(world, request) = {a \in world.accounts : Fits(a, variables)}
  BY <1>1, SelectedAccounts
<1>3. \A a : Fits(a, variables) <=> a.chain_key = node
  BY <1>1 DEF Fits
<1> HIDE DEF request, variables
<1>4. Selected(world, request) = {a \in world.accounts : a.chain_key = node}
  BY <1>2, <1>3
<1> QED BY <1>4 DEF request

(* An address has one safe, whose nodes are those that are asked about.       *)
LEMMA NodesOfOne ==
  ASSUME NEW safes, \A s, t \in safes : s = t
  PROVE  \A r : r \in NodesOf(safes)
                <=> \E s \in safes : \E node \in s.registered_nodes :
                      r = AccountsBy("Address", node)
<1>1. CASE safes = {}
  BY <1>1 DEF NodesOf
<1>2. CASE safes # {}
  <2> DEFINE safe == CHOOSE s \in safes : TRUE
  <2>1. safe \in safes
    BY <1>2
  <2>2. NodesOf(safes) = {AccountsBy("Address", node) : node \in safe.registered_nodes}
    BY <1>2 DEF NodesOf
  <2> HIDE DEF safe
  <2> QED BY <2>1, <2>2
<1> QED BY <1>1, <1>2

LEMMA JoinReply ==
  ASSUME NEW query, BySafe(query), NEW since, chain \in Seq(Worlds), since \in 1 .. Len(chain),
         NEW todo, NEW sent, NEW got, JoinOk(query, since, todo, sent, got, chain),
         NEW request, NEW asked, NEW left, NEW grown,
         Replied(query, todo, sent, got, request, asked, left, grown)
  PROVE  JoinOk(query, since, asked, left, grown, chain)
<1> USE DEF Replied
<1> DEFINE now == Len(chain)
           items == Selected(chain[now], request)
           new == [request |-> request, items |-> items]
           Goal == JoinOk(query, since, asked, left, grown, chain)
<1>1. now \in since .. now /\ now \in now .. now /\ now \in Nat
  OBVIOUS
<1>2. request.root # "services" => ReplyTo(request).items = items
  BY DEF ReplyTo
<1>3. /\ SafeChannels(query).root = "channels" /\ TheSafe(query).root = "safe_by"
      /\ \A world : \A r \in NodesAt(query, world) : r.root = "accounts"
  BY RequestsOfJoin
<1>4. ASSUME OneOpen(todo, sent, SafeChannels(query)), got = {}
      PROVE  Goal
  <2>1. request = SafeChannels(query) /\ todo = {} /\ left = {}
    BY <1>4 DEF OneOpen
  <2>2. asked = {TheSafe(query)}
    BY <1>3, <2>1, FollowingOf DEF TheSafe
  <2>3. grown = {ChannelsAt(query, chain[now])}
    BY <1>2, <1>3, <1>4, <2>1 DEF ChannelsAt
  <2>4. OneOpen(asked, left, TheSafe(query))
    BY <2>1, <2>2 DEF OneOpen
  <2> HIDE DEF now
  <2> QED BY <1>1, <2>3, <2>4 DEF JoinOk, now
<1>5. ASSUME OneOpen(todo, sent, TheSafe(query)),
             NEW b \in since .. now, got = {ChannelsAt(query, chain[b])}
      PROVE  Goal
  <2>1. request = TheSafe(query) /\ todo = {} /\ left = {}
    BY <1>5 DEF OneOpen
  <2>2. ReplyTo(request).items = Selected(chain[now], TheSafe(query))
    BY <1>2, <1>3, <2>1
  <2>3. asked = NodesAt(query, chain[now])
    BY <1>3, <2>1, <2>2, FollowingOf DEF NodesAt
  <2>4. grown = {ChannelsAt(query, chain[b]), SafesAt(query, chain[now])} \cup {}
    BY <1>5, <2>1, <2>2 DEF SafesAt
  <2>5. AccountsKnown(query, asked, left, grown, chain, b, now, {})
    BY <2>1, <2>3, <2>4 DEF AccountsKnown
  <2>6. now \in b .. now
    BY <1>1
  <2> HIDE DEF now
  <2> QED BY <2>5, <2>6 DEF JoinOk, now
<1>6. ASSUME NEW b \in since .. now, NEW n \in b .. now, NEW answers,
             AccountsKnown(query, todo, sent, got, chain, b, n, answers)
      PROVE  Goal
  <2>1. request \in NodesAt(query, chain[n])
    BY <1>6 DEF AccountsKnown
  <2>2. ReplyTo(request).items = items /\ request.root = "accounts"
    BY <1>2, <1>3, <2>1
  <2>3. asked = todo
    BY <2>2, FollowingOf
  <2>4. new.request = request /\ Holds(new, chain[now]) /\ now \in n .. now
    BY <1>1 DEF Holds
  <2>5. grown = got \cup {new}
    BY <2>2
  <2> HIDE DEF new, now
  <2>6. AccountsKnown(query, asked, left, grown, chain, b, n, answers \cup {new})
    <3>1. grown = {ChannelsAt(query, chain[b]), SafesAt(query, chain[n])}
                    \cup (answers \cup {new})
      BY <1>6, <2>5 DEF AccountsKnown
    <3>2. asked \cup left \subseteq NodesAt(query, chain[n])
      BY <1>6, <2>3 DEF AccountsKnown
    <3>3. \A g \in answers \cup {new} : g.request \in NodesAt(query, chain[n])
      BY <1>6, <2>1, <2>4 DEF AccountsKnown
    <3>4. \A g \in answers \cup {new} : \E t \in n .. Len(chain) : Holds(g, chain[t])
      BY <1>6, <2>4 DEF AccountsKnown, now
    <3>5. ASSUME NEW r \in NodesAt(query, chain[n])
          PROVE  r \in asked \cup left \/ \E g \in answers \cup {new} : g.request = r
      BY <1>6, <2>3, <2>4 DEF AccountsKnown
    <3> QED BY <3>1, <3>2, <3>3, <3>4, <3>5 DEF AccountsKnown
  <2> QED BY <2>6 DEF JoinOk, now
<1> HIDE DEF Goal
<1> QED BY <1>4, <1>5, <1>6 DEF JoinOk, Goal

JoinedOf(got) ==
  {ch \in ItemsOf(got, "channels") :
     ch.source_key_id \in {a.keyid : a \in ItemsOf(got, "accounts")}}
JoinedSince(query, since, items) ==
  \E b \in since .. Len(chain) : \E n \in b .. Len(chain) : JoinsAt(query, chain, b, n, items)

LEMMA JoinEnds ==
  ASSUME NEW query, BySafe(query), NEW since, chain \in Seq(Worlds), since \in 1 .. Len(chain),
         NEW todo, NEW sent, todo = {}, sent = {},
         NEW got, JoinOk(query, since, todo, sent, got, chain)
  PROVE  /\ JoinedSince(query, since, JoinedOf(got))
         /\ Result(query, got) = Reported(query, JoinedOf(got))
<1> DEFINE now == Len(chain)
           items == JoinedOf(got)
<1>1. PICK b \in since .. now : \E n \in b .. now : \E answers :
        AccountsKnown(query, todo, sent, got, chain, b, n, answers)
  BY DEF JoinOk, OneOpen
<1>2. PICK n \in b .. now : \E answers :
        AccountsKnown(query, todo, sent, got, chain, b, n, answers)
  BY <1>1
<1>3. PICK answers : AccountsKnown(query, todo, sent, got, chain, b, n, answers)
  BY <1>2
<1> DEFINE channels == Selected(chain[b], SafeChannels(query))
           safes == Selected(chain[n], TheSafe(query))
<1>4. chain[b] \in Worlds /\ chain[n] \in Worlds /\ now \in Nat /\ b \in Nat /\ n \in Nat
  OBVIOUS
<1>5. got = {ChannelsAt(query, chain[b]), SafesAt(query, chain[n])} \cup answers
  BY <1>3 DEF AccountsKnown
<1>6. \A g \in answers : g.request.root = "accounts"
  BY <1>3, RequestsOfJoin DEF AccountsKnown
<1>7. /\ ChannelsAt(query, chain[b]).request.root = "channels"
      /\ ChannelsAt(query, chain[b]).items = channels
      /\ SafesAt(query, chain[n]).request.root = "safe_by"
  BY RequestsOfJoin DEF ChannelsAt, SafesAt
<1> HIDE DEF channels
<1>8. ItemsOf(got, "channels") = channels
  BY <1>5, <1>6, <1>7 DEF ItemsOf
<1>9. ItemsOf(got, "accounts") = UNION {g.items : g \in answers}
  BY <1>5, <1>6, <1>7 DEF ItemsOf
<1>10. \A ch : ch \in items <=> /\ ch \in channels
                                /\ \E g \in answers : \E a \in g.items :
                                     a.keyid = ch.source_key_id
  BY <1>8, <1>9 DEF JoinedOf
<1>11. safes = {s \in chain[n].safes : s.address = query.selector.safe}
  BY SafeSelected
<1>12. \A s \in chain[n].safes : Null \notin s.registered_nodes
  BY <1>4, WorldsAssumption DEF WorldOk
<1>13. \A r : r \in NodesAt(query, chain[n])
                <=> \E s \in safes : \E node \in s.registered_nodes :
                      r = AccountsBy("Address", node)
  <2>1. \A s, t \in safes : s = t
    BY <1>4, <1>11, WorldsAssumption DEF WorldOk
  <2> QED BY <2>1, NodesOfOne DEF NodesAt, safes
<1> HIDE DEF safes, items
(* A reply about a node has its accounts at some block since.                *)
<1>14. ASSUME NEW g \in answers, NEW node, g.request = AccountsBy("Address", node), node # Null
       PROVE  \E t \in n .. now : g.items = {a \in chain[t].accounts : a.chain_key = node}
  <2>1. PICK t \in n .. now : Holds(g, chain[t])
    BY <1>3 DEF AccountsKnown
  <2>2. g.items = {a \in chain[t].accounts : a.chain_key = node}
    BY <1>14, <2>1, NodeSelected DEF Holds
  <2> QED BY <2>2
<1>15. ASSUME NEW ch \in items
       PROVE  \E t \in n .. now : \E s \in chain[n].safes, a \in chain[t].accounts :
                /\ s.address = query.selector.safe
                /\ a.chain_key \in s.registered_nodes
                /\ a.keyid = ch.source_key_id
  <2>1. PICK g \in answers : \E a \in g.items : a.keyid = ch.source_key_id
    BY <1>10
  <2>2. PICK a \in g.items : a.keyid = ch.source_key_id
    BY <2>1
  <2>3. PICK s \in safes : \E node \in s.registered_nodes : g.request = AccountsBy("Address", node)
    BY <1>3, <1>13 DEF AccountsKnown
  <2>4. PICK node \in s.registered_nodes : g.request = AccountsBy("Address", node)
    BY <2>3
  <2>5. node # Null
    BY <1>11, <1>12
  <2>6. PICK t \in n .. now : g.items = {x \in chain[t].accounts : x.chain_key = node}
    BY <1>14, <2>4, <2>5
  <2>7. a \in chain[t].accounts /\ a.chain_key = node
    BY <2>2, <2>6
  <2> QED BY <1>11, <2>2, <2>7
<1>16. ASSUME NEW ch \in channels, NEW s \in chain[n].safes, NEW node \in s.registered_nodes,
              s.address = query.selector.safe
       PROVE  \E t \in n .. now :
                (\E a \in chain[t].accounts : a.chain_key = node /\ a.keyid = ch.source_key_id)
                  => ch \in items
  <2>1. s \in safes /\ node # Null
    BY <1>11, <1>12, <1>16
  <2>2. PICK g \in answers : g.request = AccountsBy("Address", node)
    BY <1>3, <1>13, <2>1 DEF AccountsKnown, OneOpen
  <2>3. PICK t \in n .. now : g.items = {a \in chain[t].accounts : a.chain_key = node}
    BY <1>14, <2>1, <2>2
  <2>4. ASSUME NEW a \in chain[t].accounts, a.chain_key = node, a.keyid = ch.source_key_id
        PROVE  ch \in items
    BY <1>10, <2>3, <2>4
  <2> QED BY <2>4
<1>17. items \subseteq channels
  BY <1>10
<1>18. JoinsAt(query, chain, b, n, items)
  BY <1>15, <1>16, <1>17 DEF JoinsAt, channels
<1>19. Result(query, got) = Reported(query, items)
  BY Zenon DEF Result, Reported, items, JoinedOf
<1> QED BY <1>18, <1>19 DEF JoinedSince, items


-----------------------------------------------------------------------------
(* What Blokli selects is what the test client selects.                      *)
LEMMA DoubleOf ==
  ASSUME NEW world, NEW query
  PROVE  /\ query.op \in AccountOps =>
              DoubleItems(world, query)
                = {a \in world.accounts : AccountMatches(a, query.selector)}
         /\ query.op \in ChannelOps =>
              DoubleItems(world, query)
                = {ch \in world.channels :
                     ChannelMatches(ch, query.selector, AccountSafes(world))}
         /\ query.op \in {"query_services", "count_services"} =>
              DoubleItems(world, query)
                = {e \in world.services : ServiceMatches(e, query.selector)}
         /\ query.op = "query_live_services" =>
              DoubleItems(world, query)
                = {e \in world.services : ServiceMatches(e, query.selector) /\ Live(world, e)}
         /\ query.op = "query_safe" =>
              DoubleItems(world, query) = {f \in world.safes : SafeMatches(f, query.selector)}
<1> DEFINE Double == DoubleItems(world, query)
           s == query.selector
<1>1. ASSUME query.op \in AccountOps
      PROVE  Double = {a \in world.accounts : AccountMatches(a, s)}
  <2>1. query.op \notin ChannelOps /\ query.op \notin ServiceOps /\ query.op # "query_safe"
    BY <1>1 DEF AccountOps, ChannelOps, ServiceOps, Paged
  <2> QED BY <1>1, <2>1, Zenon DEF DoubleItems, AccountOps, ChannelOps, ServiceOps, Paged
<1>2. ASSUME query.op \in ChannelOps
      PROVE  Double = {ch \in world.channels : ChannelMatches(ch, s, AccountSafes(world))}
  <2>1. query.op \notin AccountOps /\ query.op \notin ServiceOps /\ query.op # "query_safe"
    BY <1>2 DEF AccountOps, ChannelOps, ServiceOps, Paged
  <2> QED BY <1>2, <2>1, Zenon DEF DoubleItems, AccountOps, ChannelOps, ServiceOps, Paged
<1>3. ASSUME query.op \in {"query_services", "count_services"}
      PROVE  Double = {e \in world.services : ServiceMatches(e, s)}
  <2>1. /\ query.op \notin AccountOps /\ query.op \notin ChannelOps
        /\ query.op # "query_live_services" /\ query.op # "query_safe"
    BY <1>3 DEF AccountOps, ChannelOps
  <2> QED BY <1>3, <2>1, Zenon DEF DoubleItems, AccountOps, ChannelOps
<1>4. ASSUME query.op = "query_live_services"
      PROVE  Double = {e \in world.services : ServiceMatches(e, s) /\ Live(world, e)}
  <2>1. /\ query.op \notin AccountOps /\ query.op \notin ChannelOps
        /\ query.op \notin {"query_services", "count_services"} /\ query.op # "query_safe"
    BY <1>4 DEF AccountOps, ChannelOps
  <2> QED BY <1>4, <2>1, Zenon DEF DoubleItems, AccountOps, ChannelOps
<1>5. ASSUME query.op = "query_safe"
      PROVE  Double = {f \in world.safes : SafeMatches(f, s)}
  <2>1. query.op \notin AccountOps /\ query.op \notin ChannelOps /\ query.op \notin ServiceOps
    BY <1>5 DEF AccountOps, ChannelOps, ServiceOps, Paged
  <2> QED BY <1>5, <2>1, Zenon DEF DoubleItems, AccountOps, ChannelOps, ServiceOps, Paged
<1> HIDE DEF Double
<1>6. Double = DoubleItems(world, query)
  BY DEF Double
<1> QED BY <1>1, <1>2, <1>3, <1>4, <1>5, <1>6

(* The selectors of well-formed queries, through the theorems about each.     *)
LEMMA AccountsAgree ==
  ASSUME NEW world, WorldOk(world), NEW s, IsAccountSelector(s), NEW account \in world.accounts
  PROVE  Fits(account, AccountVariables(s)) <=> AccountMatches(account, s)
<1>1. account.keyid \in I32
  BY DEF WorldOk
<1>2. CASE s.by = "Any"
  <2> DEFINE variables == AccountVariables(s)
  <2>1. /\ DOMAIN variables = {"keyid", "packet_key", "chain_key"}
        /\ variables.keyid = Null /\ variables.packet_key = Null /\ variables.chain_key = Null
    BY <1>2 DEF AccountVariables, Given
  <2> HIDE DEF variables
  <2>2. Fits(account, variables)
    BY <2>1 DEF Fits
  <2>3. AccountMatches(account, s)
    BY <1>2 DEF AccountMatches
  <2> QED BY <2>2, <2>3 DEF variables
<1>3. CASE s.by # "Any"
  <2>1. s.value # Null /\ (s.by = "KeyId" => s.value \in U32)
    BY <1>3, SelectionAssumption DEF IsAccountSelector, U32
  <2> QED BY <1>1, <2>1, AccountsSelected
<1> QED BY <1>2, <1>3

LEMMA ChannelsAgree ==
  ASSUME NEW world, WorldOk(world), NEW s, IsChannelSelector(s), NEW channel \in world.channels
  PROVE  Fits(WithSafe(world, channel), ChannelsVariables(s))
           <=> ChannelMatches(channel, s, AccountSafes(world))
<1> DEFINE id == IF s.filter = "ChannelId" THEN s.id ELSE 0
           source == IF s.filter \in BySource THEN s.source ELSE 0
           destination == IF s.filter \in ByDestination THEN s.destination ELSE 0
           t == ChannelSelector(s.filter, id, source, destination, s.status, s.safe)
<1>1. channel.source_key_id \in I32 /\ channel.destination_key_id \in I32
  BY DEF WorldOk
<1>2. s.filter \in Filters /\ id # Null /\ source \in U32 /\ destination \in U32
  BY SelectionAssumption DEF IsChannelSelector, U32
<1>3. t = ChannelSelector(s.filter, s.id, s.source, s.destination, s.status, s.safe)
  BY DEF ChannelSelector, Given
<1>4. t = s
  BY <1>3 DEF IsChannelSelector
<1> HIDE DEF id, source, destination
<1>5. Fits(WithSafe(world, channel), ChannelsVariables(t))
        <=> ChannelMatches(channel, t, AccountSafes(world))
  BY <1>1, <1>2, ChannelsSelected
<1> HIDE DEF t
<1> QED BY <1>4, <1>5

LEMMA ServicesAgree ==
  ASSUME NEW s, IsServiceSelector(s), NEW entry
  PROVE  Fits(entry, ServiceVariables(s)) <=> ServiceMatches(entry, s)
<1> DEFINE type == IF s.by \in {"ServiceType", "ServiceTypeAndNode"} THEN s.type ELSE 0
           node == IF s.by \in {"Node", "ServiceTypeAndNode"} THEN s.node ELSE 0
           t == ServiceSelector(s.by, type, node)
<1>1. type # Null /\ node # Null
  BY SelectionAssumption DEF IsServiceSelector
<1>2. t = ServiceSelector(s.by, s.type, s.node)
  BY DEF ServiceSelector, Given
<1>3. t = s
  BY <1>2 DEF IsServiceSelector
<1> HIDE DEF type, node
<1>4. Fits(entry, ServiceVariables(t)) <=> ServiceMatches(entry, t)
  BY <1>1, ServicesSelected
<1> HIDE DEF t
<1> QED BY <1>3, <1>4

LEMMA SafesAgree ==
  ASSUME NEW s, IsSafeSelector(s), NEW safe
  PROVE  SafeFits(safe, SafeByVariables(s)) <=> SafeMatches(safe, s)
<1> DEFINE variables == SafeByVariables(s)
<1>1. variables.selector = s.by /\ variables.address = s.value
  BY DEF SafeByVariables
<1> HIDE DEF variables
<1>2. ASSUME s.by = "Address" PROVE SafeFits(safe, variables) <=> safe.address = s.value
  BY <1>1, <1>2, "Address" # "RegisteredNode", Zenon DEF SafeFits
<1>3. ASSUME s.by = "RegisteredNode"
      PROVE  SafeFits(safe, variables) <=> s.value \in safe.registered_nodes
  BY <1>1, <1>3, "Address" # "RegisteredNode", Zenon DEF SafeFits
<1>4. ASSUME s.by \in {"Owner", "ChainKey"}
      PROVE  SafeFits(safe, variables) <=> s.value \in safe.owners
  <2>1. s.by # "Address" /\ s.by # "RegisteredNode"
    BY <1>4
  <2> QED BY <1>1, <2>1, Zenon DEF SafeFits
<1> QED BY <1>2, <1>3, <1>4 DEF IsSafeSelector, SafeMatches, variables

(* At one block of the index, each operation on accounts, channels, services  *)
(* and safes selects from Blokli what it selects from a test client with that *)
(* state: the GraphQL variables and the filters of the test client say the    *)
(* same.                                                                     *)
THEOREM DoubleSelects ==
  ASSUME NEW world \in Worlds, NEW query, WellFormed(query), query.op \in DoubleOperations
  PROVE  Selected(world, First(query)) = DoubleItems(world, query)
<1> DEFINE s == query.selector
           first == First(query)
<1>1. WorldOk(world)
  BY WorldsAssumption
<1>2. first.root = RootOf(query.op) /\ first.variables = Variables(query)
  BY DEF First, Request
<1> HIDE DEF first
<1>3. CASE query.op \in AccountOps
  <2>1. IsAccountSelector(s)
    BY <1>3 DEF WellFormed, AccountOps
  <2>2. first.root \in {"accounts", "account_count"}
    BY <1>2, <1>3, RootsOf DEF AccountOps
  <2>3. first.variables = AccountVariables(s)
    BY <1>2, <1>3, VariablesOf
  <2>4. Selected(world, first) = {a \in world.accounts : Fits(a, first.variables)}
    BY <2>2, SelectedAccounts
  <2>5. DoubleItems(world, query) = {a \in world.accounts : AccountMatches(a, s)}
    BY <1>3, DoubleOf
  <2>6. \A a \in world.accounts : Fits(a, first.variables) <=> AccountMatches(a, s)
    BY <1>1, <2>1, <2>3, AccountsAgree
  <2> QED BY <2>4, <2>5, <2>6 DEF first
<1>4. CASE query.op \in ChannelOps
  <2>1. IsChannelSelector(s)
    BY <1>4 DEF WellFormed, ChannelOps
  <2>2. first.root \in SomeChannels
    BY <1>2, <1>4, RootsOf DEF ChannelOps, SomeChannels
  <2>3. first.variables = ChannelsVariables(s)
    BY <1>2, <1>4, VariablesOf
  <2>4. Selected(world, first)
          = {ch \in world.channels : Fits(WithSafe(world, ch), first.variables)}
    BY <2>2, SelectedChannels
  <2>5. DoubleItems(world, query)
          = {ch \in world.channels : ChannelMatches(ch, s, AccountSafes(world))}
    BY <1>4, DoubleOf
  <2>6. \A ch \in world.channels :
          Fits(WithSafe(world, ch), first.variables) <=> ChannelMatches(ch, s, AccountSafes(world))
    BY <1>1, <2>1, <2>3, ChannelsAgree
  <2> QED BY <2>4, <2>5, <2>6 DEF first
<1>5. CASE query.op = "count_services"
  <2>1. IsServiceSelector(s)
    BY <1>5 DEF WellFormed
  <2>2. first.root = "service_count"
    BY <1>2, <1>5, RootsOf
  <2>3. first.variables = ServiceVariables(s)
    BY <1>2, <1>5, VariablesOf
  <2>4. Selected(world, first) = {e \in world.services : Fits(e, first.variables)}
    BY <2>2, SelectedServiceCount
  <2>5. DoubleItems(world, query) = {e \in world.services : ServiceMatches(e, s)}
    BY <1>5, DoubleOf
  <2>6. \A e \in world.services : Fits(e, first.variables) <=> ServiceMatches(e, s)
    BY <2>1, <2>3, ServicesAgree
  <2> QED BY <2>4, <2>5, <2>6 DEF first
<1>6. CASE query.op \in Paged
  <2>1. IsServiceSelector(s)
    BY <1>6 DEF WellFormed, Paged
  <2>2. first.root = "services"
    BY <1>2, <1>6, RootsOf DEF Paged
  <2>3. /\ first.variables.filters = ServiceVariables(s)
        /\ first.variables.live_only = (query.op = "query_live_services")
    BY <1>2, <1>6, VariablesOf DEF ServicePageVariables
  <2>4. Selected(world, first) =
           {e \in world.services : /\ Fits(e, first.variables.filters)
                                   /\ first.variables.live_only => Live(world, e)}
    BY <2>2, SelectedServices
  <2>5. \A e \in world.services : Fits(e, first.variables.filters) <=> ServiceMatches(e, s)
    BY <2>1, <2>3, ServicesAgree
  <2>6. CASE query.op = "query_services"
    <3>1. DoubleItems(world, query) = {e \in world.services : ServiceMatches(e, s)}
      BY <2>6, DoubleOf
    <3>2. first.variables.live_only = FALSE
      BY <2>3, <2>6
    <3> QED BY <2>4, <2>5, <3>1, <3>2 DEF first
  <2>7. CASE query.op = "query_live_services"
    <3>1. DoubleItems(world, query)
            = {e \in world.services : ServiceMatches(e, s) /\ Live(world, e)}
      BY <2>7, DoubleOf
    <3>2. first.variables.live_only = TRUE
      BY <2>3, <2>7
    <3> QED BY <2>4, <2>5, <3>1, <3>2 DEF first
  <2> QED BY <1>6, <2>6, <2>7 DEF Paged
<1>7. CASE query.op = "query_safe"
  <2>1. IsSafeSelector(s)
    BY <1>7 DEF WellFormed
  <2>2. first.root = "safe_by"
    BY <1>2, <1>7, RootsOf
  <2>3. first.variables = SafeByVariables(s)
    BY <1>2, <1>7, VariablesOf
  <2>4. Selected(world, first) = {f \in world.safes : SafeFits(f, first.variables)}
    BY <2>2, SelectedSafes
  <2>5. DoubleItems(world, query) = {f \in world.safes : SafeMatches(f, s)}
    BY <1>7, DoubleOf
  <2>6. \A f \in world.safes : SafeFits(f, first.variables) <=> SafeMatches(f, s)
    BY <2>1, <2>3, SafesAgree
  <2> QED BY <2>4, <2>5, <2>6 DEF first
<1>8. query.op \in AccountOps \cup ChannelOps \cup {"count_services"} \cup Paged \cup {"query_safe"}
  BY DEF DoubleOperations, AccountOps, ChannelOps, Paged
<1> QED BY <1>3, <1>4, <1>5, <1>6, <1>7, <1>8

(* Only a listing of services comes in pages.                                *)
LEMMA SingleRoot ==
  ASSUME NEW query, query.op \in Operations, IsSingle(query)
  PROVE  First(query).root # "services"
<1>1. First(query).root = RootOf(query.op)
  BY DEF First, Request
<1>2. CASE query.op \in AccountOps \cup ChannelOps \cup {"count_services", "query_safe"}
  BY <1>1, <1>2, RootsOf DEF AccountOps, ChannelOps
<1>3. CASE query.op \notin AccountOps \cup ChannelOps \cup {"count_services", "query_safe"}
  <2>1. query.op \notin ServiceOps
    BY <1>3 DEF ServiceOps, IsSingle
  <2> QED BY <1>1, <1>3, <2>1, OtherRootsOf
<1> QED BY <1>2, <1>3

(* A count of the channels of a safe asks for the channels themselves.       *)
LEMMA SafeChannelsSelected ==
  ASSUME NEW world, NEW query, BySafe(query)
  PROVE  /\ Selected(world, SafeChannels(query)) = Selected(world, First(query))
         /\ Selected(world, First(query))
              = {ch \in world.channels : Fits(WithSafe(world, ch), ChannelsVariables(query.selector))}
<1> DEFINE r == SafeChannels(query)
           f == First(query)
           variables == ChannelsVariables(query.selector)
<1>1. query.op \in {"query_channels", "count_channels"}
  BY DEF BySafe
<1>2. r.root \in SomeChannels /\ r.variables = variables
  BY DEF SafeChannels, Request, SomeChannels
<1>3. f.variables = variables
  BY <1>1, VariablesOf DEF First, Request, ChannelOps
<1>4. f.root \in SomeChannels
  BY <1>1, RootsOf DEF First, Request, SomeChannels
<1> HIDE DEF r, f, variables
<1>5. Selected(world, r) = {ch \in world.channels : Fits(WithSafe(world, ch), r.variables)}
  BY <1>2, SelectedChannels
<1>6. Selected(world, f) = {ch \in world.channels : Fits(WithSafe(world, ch), f.variables)}
  BY <1>4, SelectedChannels
<1> QED BY <1>2, <1>3, <1>5, <1>6 DEF r, f, variables

(* A channel of a safe has its source at one of the nodes of the safe.        *)
LEMMA SafeOwnsSource ==
  ASSUME NEW world, NEW query, BySafe(query), NEW ch \in Selected(world, First(query))
  PROVE  \E s \in world.safes, a \in world.accounts :
           /\ s.address = query.selector.safe
           /\ a.chain_key \in s.registered_nodes
           /\ a.keyid = ch.source_key_id
<1> DEFINE item == WithSafe(world, ch)
           variables == ChannelsVariables(query.selector)
           owners == SafeOf(world, ch.source_key_id)
<1>1. Fits(item, variables)
  BY SafeChannelsSelected
<1>2. "safe_address" \in DOMAIN variables /\ variables["safe_address"] = query.selector.safe
  BY DEF ChannelsVariables
<1>3. query.selector.safe # Null
  BY DEF BySafe
<1>4. item["safe_address"] = Given(owners # {}, AddressOf(world, ch.source_key_id))
  BY DEF WithSafe
<1> HIDE DEF item, variables
<1>5. item["safe_address"] = query.selector.safe
  BY <1>1, <1>2, <1>3 DEF Fits
<1> HIDE DEF owners
<1>6. owners # {} /\ AddressOf(world, ch.source_key_id) = query.selector.safe
  BY <1>3, <1>4, <1>5 DEF Given
<1>7. PICK s \in owners : s.address = query.selector.safe
  BY <1>6 DEF AddressOf, owners
<1> QED BY <1>7 DEF owners, SafeOf

(* A join of one block is the selection of that block.                       *)
LEMMA JoinAtOneBlock ==
  ASSUME NEW query, BySafe(query), chain \in Seq(Worlds), Len(chain) \in Nat \ {0},
         NEW items, JoinedSince(query, Len(chain), items)
  PROVE  items = Selected(chain[Len(chain)], First(query))
<1> DEFINE now == Len(chain)
           world == chain[now]
           selected == Selected(world, First(query))
<1>1. JoinsAt(query, chain, now, now, items)
  <2>1. PICK b \in now .. now : \E n \in b .. now : JoinsAt(query, chain, b, n, items)
    BY DEF JoinedSince
  <2>2. PICK n \in b .. now : JoinsAt(query, chain, b, n, items)
    BY <2>1
  <2>3. b = now /\ n = now
    OBVIOUS
  <2> QED BY <2>2, <2>3
<1>2. Selected(world, SafeChannels(query)) = selected
  BY SafeChannelsSelected
<1>3. \A t \in now .. now : t = now
  OBVIOUS
<1> HIDE DEF now, selected
<1>4. items \subseteq selected
  BY <1>1, <1>2 DEF JoinsAt
<1>5. ASSUME NEW ch \in selected PROVE ch \in items
  <2>1. PICK s \in world.safes, a \in world.accounts :
          /\ s.address = query.selector.safe
          /\ a.chain_key \in s.registered_nodes
          /\ a.keyid = ch.source_key_id
    BY SafeOwnsSource DEF selected
  <2>2. \E t \in now .. now :
          (\E x \in chain[t].accounts : x.chain_key = a.chain_key /\ x.keyid = ch.source_key_id)
            => ch \in items
    <3>1. ch \in Selected(chain[now], SafeChannels(query))
      BY <1>2
    <3>2. s \in chain[now].safes
      OBVIOUS
    <3> QED BY <1>1, <2>1, <3>1, <3>2 DEF JoinsAt, now
  <2> QED BY <1>3, <2>1, <2>2
<1> QED BY <1>4, <1>5 DEF selected, now

-----------------------------------------------------------------------------
(* ... or knows a node as of block b, what it asks for about it, and each       *)
(* reply it has as of a block since.                                         *)
Once(todo, sent, got) ==
  /\ todo \cap sent = {}
  /\ \A g \in got : g.request \notin todo \cup sent
  /\ \A g, h \in got : g.request = h.request => g = h
HeldSince(g, b, blocks) == \E t \in b .. Len(blocks) : Holds(g, blocks[t])
OneAccount(g) == g.request.root = "accounts" => \E a : g.items = {a}
Requests(got) == {g.request : g \in got}
Ahead(keyid, got) == {AccountsBy("KeyId", end) : end \in EndsOf(keyid, got)}
TheNode(query, source) == [request |-> Opening(query), items |-> {source}]
AboutNode(query, keyid) == {Opening(query)} \cup OfSource(keyid)

NodeFits(query, source, world) ==
  source \in world.accounts /\ Fits(source, AccountVariables(query.selector))
NodeKnown(query, todo, sent, got, blocks, b, source) ==
  /\ NodeFits(query, source, blocks[b])
  /\ TheNode(query, source) \in got
  /\ Once(todo, sent, got)
  /\ \A g \in got : OneAccount(g) /\ HeldSince(g, b, blocks)
  /\ \/ /\ Requests(got) \cup todo \cup sent = AboutNode(query, source.keyid)
        /\ todo # {} \/ sent # {}
     \/ /\ OfSource(source.keyid) \subseteq Requests(got)
        /\ Requests(got) \cup todo \cup sent
             = AboutNode(query, source.keyid) \cup Ahead(source.keyid, got)

OverviewOk(query, since, todo, sent, got, blocks) ==
  \/ OneOpen(todo, sent, Opening(query)) /\ got = {}
  \/ \E b \in since .. Len(blocks) : \E source :
       NodeKnown(query, todo, sent, got, blocks, b, source)

(* The requests of an overview, and what Blokli selects for them.            *)
LEMMA CastKeeps ==
  ASSUME NEW keyid \in I32
  PROVE  AsI32(keyid) = keyid /\ keyid # Null
  BY SelectionAssumption DEF I32, AsI32

LEMMA OutSelected ==
  ASSUME NEW keyid \in I32, NEW world
  PROVE  /\ ChannelsBy("SourceKeyId", keyid).root = "channels"
         /\ ChannelsBy("SourceKeyId", keyid).variables["source_key_id"] = keyid
         /\ Selected(world, ChannelsBy("SourceKeyId", keyid))
              = {ch \in world.channels : ch.source_key_id = keyid}
<1> DEFINE request == ChannelsBy("SourceKeyId", keyid)
           variables == request.variables
<1>1. AsI32(keyid) = keyid /\ keyid # Null
  BY CastKeeps
<1>2. /\ request.root = "channels"
      /\ DOMAIN variables = {"concrete_channel_id", "source_key_id", "destination_key_id",
                             "safe_address", "status"}
      /\ variables["concrete_channel_id"] = Null /\ variables["source_key_id"] = keyid
      /\ variables["destination_key_id"] = Null /\ variables["safe_address"] = Null
      /\ variables["status"] = Null
  BY <1>1 DEF ChannelsBy, Request, ChannelsVariables, ChannelSelector, Given, BySource,
     ByDestination
<1> HIDE DEF request
<1>3. Selected(world, request) = {ch \in world.channels : Fits(WithSafe(world, ch), variables)}
  BY <1>2, SelectedChannels DEF SomeChannels
<1>4. ASSUME NEW ch PROVE Fits(WithSafe(world, ch), variables) <=> ch.source_key_id = keyid
  <2>1. WithSafe(world, ch)["source_key_id"] = ch.source_key_id
    BY DEF WithSafe
  <2> QED BY <1>1, <1>2, <2>1 DEF Fits
<1>5. Selected(world, request) = {ch \in world.channels : ch.source_key_id = keyid}
  BY <1>3, <1>4
<1> QED BY <1>2, <1>5 DEF request

LEMMA InSelected ==
  ASSUME NEW keyid \in I32, NEW world
  PROVE  /\ ChannelsBy("DestinationKeyId", keyid).root = "channels"
         /\ ChannelsBy("DestinationKeyId", keyid).variables["source_key_id"] = Null
         /\ Selected(world, ChannelsBy("DestinationKeyId", keyid))
              = {ch \in world.channels : ch.destination_key_id = keyid}
<1> DEFINE request == ChannelsBy("DestinationKeyId", keyid)
           variables == request.variables
<1>1. AsI32(keyid) = keyid /\ keyid # Null
  BY CastKeeps
<1>2. /\ request.root = "channels"
      /\ DOMAIN variables = {"concrete_channel_id", "source_key_id", "destination_key_id",
                             "safe_address", "status"}
      /\ variables["concrete_channel_id"] = Null /\ variables["source_key_id"] = Null
      /\ variables["destination_key_id"] = keyid /\ variables["safe_address"] = Null
      /\ variables["status"] = Null
  BY <1>1 DEF ChannelsBy, Request, ChannelsVariables, ChannelSelector, Given, BySource,
     ByDestination
<1> HIDE DEF request
<1>3. Selected(world, request) = {ch \in world.channels : Fits(WithSafe(world, ch), variables)}
  BY <1>2, SelectedChannels DEF SomeChannels
<1>4. ASSUME NEW ch PROVE Fits(WithSafe(world, ch), variables) <=> ch.destination_key_id = keyid
  <2>1. WithSafe(world, ch)["destination_key_id"] = ch.destination_key_id
    BY DEF WithSafe
  <2> QED BY <1>1, <1>2, <2>1 DEF Fits
<1>5. Selected(world, request) = {ch \in world.channels : ch.destination_key_id = keyid}
  BY <1>3, <1>4
<1> QED BY <1>2, <1>5 DEF request

LEMMA EndSelected ==
  ASSUME NEW keyid \in I32, NEW world
  PROVE  /\ AccountsBy("KeyId", keyid).root = "accounts"
         /\ AccountsBy("KeyId", keyid).variables["keyid"] = keyid
         /\ Selected(world, AccountsBy("KeyId", keyid)) = {a \in world.accounts : a.keyid = keyid}
<1> DEFINE request == AccountsBy("KeyId", keyid)
           variables == request.variables
<1>1. AsI32(keyid) = keyid /\ keyid # Null
  BY CastKeeps
<1>2. /\ request.root = "accounts"
      /\ DOMAIN variables = {"keyid", "packet_key", "chain_key"}
      /\ variables["keyid"] = keyid /\ variables["packet_key"] = Null
      /\ variables["chain_key"] = Null
  BY <1>1 DEF AccountsBy, Request, AccountVariables, AccountSelector, Given
<1> HIDE DEF request
<1>3. Selected(world, request) = {a \in world.accounts : Fits(a, variables)}
  BY <1>2, SelectedAccounts
<1>4. ASSUME NEW a PROVE Fits(a, variables) <=> a.keyid = keyid
  BY <1>1, <1>2 DEF Fits
<1>5. Selected(world, request) = {a \in world.accounts : a.keyid = keyid}
  BY <1>3, <1>4
<1> QED BY <1>2, <1>5 DEF request

LEMMA NodeOpens ==
  ASSUME NEW query, query.op = Overview, NEW world
  PROVE  /\ Opening(query).root = "accounts"
         /\ Opening(query).variables = AccountVariables(query.selector)
         /\ Selected(world, Opening(query))
              = {a \in world.accounts : Fits(a, AccountVariables(query.selector))}
<1>1. Opening(query) = Request("accounts", AccountVariables(query.selector))
  BY OpeningOf
<1>2. Opening(query).root = "accounts"
        /\ Opening(query).variables = AccountVariables(query.selector)
  BY <1>1 DEF Request
<1>3. Selected(world, Opening(query))
        = {a \in world.accounts : Fits(a, Opening(query).variables)}
  BY <1>2, SelectedAccounts
<1> QED BY <1>2, <1>3

(* Requests about the source are not for accounts, and three.                *)
LEMMA AboutSource ==
  ASSUME NEW keyid \in I32
  PROVE  /\ \A r \in OfSource(keyid) : r.root # "accounts" /\ r.root # "services"
         /\ OfSource(keyid) # {}
  BY OutSelected, InSelected DEF OfSource, ChainInfo, Request

(* Asked once, a request has one reply.                                      *)
LEMMA OneReply ==
  ASSUME NEW todo, NEW sent, NEW got, Once(todo, sent, got), NEW g \in got
  PROVE  Reply(got, g.request) = g.items
<1>1. {h \in got : h.request = g.request} = {g}
  BY DEF Once
<1> QED BY <1>1 DEF Reply

(* What a reply adds: one answer, to a request that is no more open.          *)
LEMMA ReplyOnce ==
  ASSUME NEW query, NEW todo, NEW sent, NEW got, Once(todo, sent, got),
         NEW request, NEW asked, NEW left, NEW grown,
         Replied(query, todo, sent, got, request, asked, left, grown)
  PROVE  /\ Once(todo, left, grown)
         /\ Requests(grown) = Requests(got) \cup {request}
         /\ request \notin Requests(got)
<1> DEFINE new == [request |-> request, items |-> ReplyTo(request).items]
<1>1. /\ grown = got \cup {new} /\ new.request = request /\ request \in sent
      /\ left = sent \ {request}
  BY DEF Replied
<1> HIDE DEF new
<1>2. \A g \in got : g.request # request
  BY <1>1 DEF Once
<1>3. Requests(grown) = Requests(got) \cup {request} /\ request \notin Requests(got)
  BY <1>1, <1>2 DEF Requests
<1>4. Once(todo, left, grown)
  BY <1>1, <1>2 DEF Once
<1> QED BY <1>3, <1>4

(* The source is the one account in the first reply.                          *)
LEMMA SourceKnown ==
  ASSUME NEW query, NEW todo, NEW sent, NEW got, Once(todo, sent, got), NEW source,
         TheNode(query, source) \in got
  PROVE  SourceOf(query, got) = source
<1>1. Reply(got, TheNode(query, source).request) = TheNode(query, source).items
  BY OneReply
<1>2. Reply(got, Opening(query)) = {source}
  BY <1>1 DEF TheNode
<1> QED BY <1>2 DEF SourceOf

LEMMA FollowingNode ==
  ASSUME NEW query, query.op = Overview, NEW request, NEW reply, NEW got, NEW source,
         SourceOf(query, got) = source
  PROVE  /\ request = Opening(query)
              => Following(query, request, reply, got) = OfSource(source.keyid)
         /\ request # Opening(query) =>
              Following(query, request, reply, got)
                = IF request \in OfSource(source.keyid)
                       /\ OfSource(source.keyid) \subseteq Requests(got)
                  THEN Ahead(source.keyid, got) ELSE {}
<1> DEFINE following == Following(query, request, reply, got)
<1>1. ~BySafe(query) /\ query.op \notin Paged
  BY DEF BySafe, Overview, Paged
<1>2. following = LET keyid == SourceOf(query, got).keyid
                  IN  IF request = Opening(query)
                      THEN OfSource(keyid)
                      ELSE IF /\ request \in OfSource(keyid)
                              /\ OfSource(keyid) \subseteq {g.request : g \in got}
                           THEN {AccountsBy("KeyId", end) : end \in EndsOf(keyid, got)}
                           ELSE {}
  BY <1>1, Zenon DEF Following, Paged
<1> QED BY <1>2 DEF Requests, Ahead

(* The channels of the source lead to others.                                *)
LEMMA EndsAreOthers ==
  ASSUME chain \in Seq(Worlds), NEW b \in 1 .. Len(chain), NEW keyid \in I32,
         NEW todo, NEW sent, NEW got, Once(todo, sent, got),
         \A g \in got : HeldSince(g, b, chain),
         OfSource(keyid) \subseteq Requests(got),
         NEW end \in EndsOf(keyid, got)
  PROVE  end \in I32 /\ end # keyid
<1> DEFINE outward == ChannelsBy("SourceKeyId", keyid)
           inward == ChannelsBy("DestinationKeyId", keyid)
<1>1. PICK g \in got : g.request = outward
  BY DEF OfSource, Requests
<1>2. PICK h \in got : h.request = inward
  BY DEF OfSource, Requests
<1>3. PICK t \in b .. Len(chain) : Holds(g, chain[t])
  BY DEF HeldSince
<1>4. PICK u \in b .. Len(chain) : Holds(h, chain[u])
  BY DEF HeldSince
<1>5. chain[t] \in Worlds /\ chain[u] \in Worlds
  OBVIOUS
<1>6. Reply(got, outward) = {ch \in chain[t].channels : ch.source_key_id = keyid}
  BY <1>1, <1>3, OneReply, OutSelected DEF Holds
<1>7. Reply(got, inward) = {ch \in chain[u].channels : ch.destination_key_id = keyid}
  BY <1>2, <1>4, OneReply, InSelected DEF Holds
<1>8. WorldOk(chain[t]) /\ WorldOk(chain[u])
  BY <1>5, WorldsAssumption
<1> QED BY <1>6, <1>7, <1>8 DEF EndsOf, WorldOk

(* The first reply gives the source, ...                                     *)
LEMMA NodeReply ==
  ASSUME NEW query, query.op = Overview, NEW since, chain \in Seq(Worlds),
         since \in 1 .. Len(chain), NEW todo, NEW sent, NEW got,
         OneOpen(todo, sent, Opening(query)), got = {},
         NEW request, NEW asked, NEW left, NEW grown,
         Replied(query, todo, sent, got, request, asked, left, grown),
         ~Unusable(query, request, ReplyTo(request).items)
  PROVE  OverviewOk(query, since, asked, left, grown, chain)
<1> DEFINE now == Len(chain)
           items == ReplyTo(request).items
<1>1. request = Opening(query) /\ todo = {} /\ left = {}
  BY DEF OneOpen, Replied
<1>2. request.root = "accounts" /\ request.root # "services"
  BY <1>1, NodeOpens
<1>3. items = Selected(chain[now], Opening(query))
  BY <1>1, <1>2 DEF ReplyTo
<1>4. now \in since .. now /\ now \in now .. now /\ chain[now] \in Worlds /\ WorldOk(chain[now])
  BY WorldsAssumption
<1>5. items = {a \in chain[now].accounts : Fits(a, AccountVariables(query.selector))}
  BY <1>3, NodeOpens
<1>6. grown = {[request |-> Opening(query), items |-> items]}
  BY <1>1 DEF Replied
<1> HIDE DEF items
<1>7. items \in SUBSET chain[now].accounts
  BY <1>5
<1>8. IsFiniteSet(items)
  BY <1>4, <1>7, FS_Subset DEF WorldOk
<1>9. Cardinality(items) = 1
  BY <1>2, Zenon DEF Unusable, items
<1>10. PICK source : items = {source}
  BY <1>8, <1>9, FS_Singleton
<1> DEFINE node == TheNode(query, source)
<1>11. grown = {node}
  BY <1>6, <1>10 DEF TheNode
<1>12. node.request = Opening(query) /\ node.items = {source}
  BY DEF TheNode
<1> HIDE DEF node
<1>13. Once({}, {}, grown)
  BY <1>11 DEF Once
<1>14. SourceOf(query, grown) = source
  BY <1>11, <1>13, SourceKnown DEF node
<1>15. asked = OfSource(source.keyid)
  BY <1>1, <1>14, FollowingNode DEF Replied
<1>16. NodeFits(query, source, chain[now])
  BY <1>5, <1>10 DEF NodeFits
<1>17. source.keyid \in I32
  BY <1>4, <1>16 DEF NodeFits, WorldOk
<1>18. Once(asked, left, grown)
  <2>1. Opening(query) \notin asked
    BY <1>1, <1>2, <1>15, <1>17, AboutSource
  <2> QED BY <1>1, <1>11, <1>12, <2>1 DEF Once
<1>19. \A g \in grown : OneAccount(g) /\ HeldSince(g, now, chain)
  BY <1>3, <1>4, <1>10, <1>11, <1>12 DEF OneAccount, HeldSince, Holds
<1>20. Requests(grown) = {Opening(query)}
  BY <1>11, <1>12 DEF Requests
<1>21. Requests(grown) \cup asked \cup left = AboutNode(query, source.keyid) /\ asked # {}
  BY <1>1, <1>15, <1>17, <1>20, AboutSource DEF AboutNode
<1>22. TheNode(query, source) \in grown
  BY <1>11 DEF node
<1>23. NodeKnown(query, asked, left, grown, chain, now, source)
  BY <1>16, <1>18, <1>19, <1>21, <1>22 DEF NodeKnown
<1> QED BY <1>4, <1>23 DEF OverviewOk

(* ... those after it, what is asked about it and about the other ends.      *)
LEMMA AboutReply ==
  ASSUME NEW query, query.op = Overview, chain \in Seq(Worlds), NEW b \in 1 .. Len(chain),
         NEW source, NEW todo, NEW sent, NEW got,
         NodeKnown(query, todo, sent, got, chain, b, source),
         NEW request, NEW asked, NEW left, NEW grown,
         Replied(query, todo, sent, got, request, asked, left, grown),
         ~Unusable(query, request, ReplyTo(request).items)
  PROVE  NodeKnown(query, asked, left, grown, chain, b, source)
<1> DEFINE now == Len(chain)
           keyid == source.keyid
           items == ReplyTo(request).items
           new == [request |-> request, items |-> items]
<1>1. /\ NodeFits(query, source, chain[b]) /\ TheNode(query, source) \in got
      /\ Once(todo, sent, got)
      /\ \A g \in got : OneAccount(g) /\ HeldSince(g, b, chain)
  BY DEF NodeKnown
<1>2. /\ request \in sent /\ grown = got \cup {new} /\ left = sent \ {request}
      /\ asked = todo \cup Following(query, request, ReplyTo(request), grown)
  BY DEF Replied
<1>3. /\ Once(todo, left, grown)
      /\ Requests(grown) = Requests(got) \cup {request}
      /\ request \notin Requests(got)
  BY <1>1, ReplyOnce
<1>4. TheNode(query, source) \in grown
  BY <1>1, <1>2
<1>5. SourceOf(query, grown) = source
  BY <1>3, <1>4, SourceKnown
<1>6. TheNode(query, source).request = Opening(query)
  BY DEF TheNode
<1>7. Opening(query) \in Requests(got) /\ request # Opening(query)
  BY <1>1, <1>3, <1>6 DEF Requests
<1>8. chain[b] \in Worlds /\ WorldOk(chain[b]) /\ now \in b .. now
        /\ chain[now] \in Worlds /\ WorldOk(chain[now])
  BY WorldsAssumption
<1>9. keyid \in I32
  BY <1>1, <1>8 DEF NodeFits, WorldOk
<1>10. asked = todo \cup IF request \in OfSource(keyid) /\ OfSource(keyid) \subseteq Requests(grown)
                         THEN Ahead(keyid, grown) ELSE {}
  <2>1. Following(query, request, ReplyTo(request), grown)
          = IF request \in OfSource(source.keyid) /\ OfSource(source.keyid) \subseteq Requests(grown)
            THEN Ahead(source.keyid, grown) ELSE {}
    BY <1>5, <1>7, FollowingNode
  <2> HIDE DEF new, items
  <2> QED BY <1>2, <2>1
<1>11. new.request = request /\ new.items = items
  OBVIOUS
<1>12. \A end : AccountsBy("KeyId", end).root = "accounts"
  BY DEF AccountsBy, Request
<1>13. request \in OfSource(keyid) \cup Ahead(keyid, got)
  BY <1>2, <1>7 DEF NodeKnown, AboutNode
<1>14. request.root # "services" /\ (request.root # "accounts" => request \in OfSource(keyid))
         /\ (request \in OfSource(keyid) => request.root # "accounts")
  BY <1>9, <1>12, <1>13, AboutSource DEF Ahead
<1>15. items = Selected(chain[now], request)
  BY <1>14 DEF ReplyTo
<1> HIDE DEF items, new, now
<1>16. HeldSince(new, b, chain)
  BY <1>8, <1>11, <1>15 DEF HeldSince, Holds, now
<1>17. OneAccount(new)
  <2>1. ASSUME request.root = "accounts" PROVE \E a : items = {a}
    <3>1. items \in SUBSET chain[now].accounts
      BY <1>15, <2>1, SelectedAccounts
    <3>2. IsFiniteSet(items)
      BY <1>8, <3>1, FS_Subset DEF WorldOk
    <3>3. Cardinality(items) = 1
      BY <2>1, Zenon DEF Unusable, items
    <3> QED BY <3>2, <3>3, FS_Singleton
  <2> QED BY <1>11, <2>1 DEF OneAccount
<1>18. \A g \in grown : OneAccount(g) /\ HeldSince(g, b, chain)
  BY <1>1, <1>2, <1>16, <1>17
<1> HIDE DEF keyid
<1> DEFINE Stage == \/ /\ Requests(grown) \cup asked \cup left = AboutNode(query, keyid)
                       /\ asked # {} \/ left # {}
                    \/ /\ OfSource(keyid) \subseteq Requests(grown)
                       /\ Requests(grown) \cup asked \cup left
                            = AboutNode(query, keyid) \cup Ahead(keyid, grown)
<1>19. ASSUME OfSource(keyid) \subseteq Requests(got),
              Requests(got) \cup todo \cup sent = AboutNode(query, keyid) \cup Ahead(keyid, got)
       PROVE  Once(asked, left, grown) /\ Stage
  <2>1. request \notin OfSource(keyid)
    BY <1>3, <1>19
  <2>2. asked = todo
    BY <1>10, <2>1
  <2>3. \A r : r # request => Reply(grown, r) = Reply(got, r)
    <3>1. \A r : r # request => {h \in grown : h.request = r} = {h \in got : h.request = r}
      BY <1>2, <1>11
    <3> QED BY <3>1, Zenon DEF Reply
  <2>4. EndsOf(keyid, grown) = EndsOf(keyid, got)
    <3>1. request # ChannelsBy("SourceKeyId", keyid) /\ request # ChannelsBy("DestinationKeyId", keyid)
      BY <2>1 DEF OfSource
    <3>2. Reply(grown, ChannelsBy("SourceKeyId", keyid)) = Reply(got, ChannelsBy("SourceKeyId", keyid))
      BY <2>3, <3>1
    <3>3. Reply(grown, ChannelsBy("DestinationKeyId", keyid))
            = Reply(got, ChannelsBy("DestinationKeyId", keyid))
      BY <2>3, <3>1
    <3> QED BY <3>2, <3>3 DEF EndsOf
  <2>5. Ahead(keyid, grown) = Ahead(keyid, got)
    BY <2>4 DEF Ahead
  <2>6. Requests(grown) \cup asked \cup left = Requests(got) \cup todo \cup sent
    BY <1>2, <1>3, <2>2
  <2> QED BY <1>3, <1>19, <2>2, <2>5, <2>6
<1>20. ASSUME Requests(got) \cup todo \cup sent = AboutNode(query, keyid)
       PROVE  Once(asked, left, grown) /\ Stage
  <2>1. request \in OfSource(keyid)
    BY <1>2, <1>7, <1>20 DEF AboutNode
  <2>2. Requests(grown) \cup todo \cup left = AboutNode(query, keyid)
    BY <1>2, <1>3, <1>20
  <2>3. ASSUME ~(OfSource(keyid) \subseteq Requests(grown)) PROVE Once(asked, left, grown) /\ Stage
    <3>1. asked = todo
      BY <1>10, <2>3
    <3>2. asked # {} \/ left # {}
      BY <2>2, <2>3, <3>1 DEF AboutNode
    <3> QED BY <1>3, <2>2, <3>1, <3>2
  <2>4. ASSUME OfSource(keyid) \subseteq Requests(grown) PROVE Once(asked, left, grown) /\ Stage
    <3>1. AboutNode(query, keyid) \subseteq Requests(grown)
      BY <1>3, <1>7, <2>4 DEF AboutNode
    <3>2. todo = {} /\ left = {}
      <4>1. \A r \in todo \cup left : r \notin Requests(grown)
        BY <1>3 DEF Once, Requests
      <4> QED BY <2>2, <3>1, <4>1
    <3>3. asked = Ahead(keyid, grown) /\ Requests(grown) = AboutNode(query, keyid)
      BY <1>10, <2>1, <2>2, <2>4, <3>1, <3>2
    <3>4. ASSUME NEW end \in EndsOf(keyid, grown)
          PROVE  AccountsBy("KeyId", end) \notin Requests(grown)
      <4>1. end \in I32 /\ end # keyid
        BY <1>3, <1>9, <1>18, <2>4, EndsAreOthers
      <4>2. AccountsBy("KeyId", end) \notin OfSource(keyid)
        BY <1>9, <1>12, AboutSource
      <4>3. Selected(chain[b], AccountsBy("KeyId", end)) = {a \in chain[b].accounts : a.keyid = end}
        BY <4>1, EndSelected
      <4>4. source \in Selected(chain[b], Opening(query))
        BY <1>1, NodeOpens DEF NodeFits
      <4>5. source.keyid # end
        BY <4>1 DEF keyid
      <4>6. AccountsBy("KeyId", end) # Opening(query)
        BY <4>3, <4>4, <4>5
      <4> QED BY <3>3, <4>2, <4>6 DEF AboutNode
    <3>5. \A r \in asked : r \notin Requests(grown)
      BY <3>3, <3>4 DEF Ahead
    <3>6. Once(asked, left, grown)
      BY <1>3, <3>2, <3>5 DEF Once, Requests
    <3> QED BY <2>4, <3>2, <3>3, <3>6
  <2> QED BY <2>3, <2>4
<1>21. Once(asked, left, grown) /\ Stage
  BY <1>19, <1>20 DEF NodeKnown, keyid
<1> QED BY <1>1, <1>4, <1>18, <1>21 DEF NodeKnown, keyid

(* When all is answered, each node at the other end of a channel has its one   *)
(* account in the overview.                                                 *)
LEMMA EndsHaveAccounts ==
  ASSUME chain \in Seq(Worlds), NEW b \in 1 .. Len(chain), NEW got, Once({}, {}, got),
         \A g \in got : OneAccount(g) /\ HeldSince(g, b, chain),
         NEW end \in I32, AccountsBy("KeyId", end) \in Requests(got)
  PROVE  \E t \in b .. Len(chain) : \E a \in chain[t].accounts :
           a.keyid = end /\ Reply(got, AccountsBy("KeyId", end)) = {a}
<1> DEFINE request == AccountsBy("KeyId", end)
<1>1. PICK g \in got : g.request = request
  BY DEF Requests
<1>2. request.root = "accounts"
  BY EndSelected
<1>3. PICK a : g.items = {a}
  BY <1>1, <1>2 DEF OneAccount
<1>4. PICK t \in b .. Len(chain) : Holds(g, chain[t])
  BY DEF HeldSince
<1>5. g.items = {x \in chain[t].accounts : x.keyid = end}
  BY <1>1, <1>4, EndSelected DEF Holds
<1>6. Reply(got, request) = g.items
  BY <1>1, OneReply
<1> QED BY <1>3, <1>5, <1>6

LEMMA EndsAreFinite ==
  ASSUME NEW out, NEW in, IsFiniteSet(out), IsFiniteSet(in)
  PROVE  IsFiniteSet({ch.destination_key_id : ch \in out} \cup {ch.source_key_id : ch \in in})
<1> DEFINE outward == {ch.destination_key_id : ch \in out}
           inward == {ch.source_key_id : ch \in in}
           f == [ch \in out |-> ch.destination_key_id]
           g == [ch \in in |-> ch.source_key_id]
<1>1. f \in Surjection(out, outward) /\ g \in Surjection(in, inward)
  BY DEF Surjection
<1> HIDE DEF outward, inward, f, g
<1>2. IsFiniteSet(outward) /\ IsFiniteSet(inward)
  BY <1>1, FS_Surjection
<1>3. IsFiniteSet(outward \cup inward)
  BY <1>2, FS_Union
<1> QED BY <1>3 DEF outward, inward

(* As many accounts as ends.                                                *)
LEMMA OneAccountEach ==
  ASSUME NEW ends, IsFiniteSet(ends), NEW got,
         \A end \in ends : \E a : a.keyid = end /\ Reply(got, AccountsBy("KeyId", end)) = {a}
  PROVE  /\ {a.keyid : a \in UNION {Reply(got, AccountsBy("KeyId", end)) : end \in ends}} = ends
         /\ Cardinality(UNION {Reply(got, AccountsBy("KeyId", end)) : end \in ends})
              = Cardinality(ends)
<1> DEFINE Of(end) == Reply(got, AccountsBy("KeyId", end))
           accounts == UNION {Of(end) : end \in ends}
           f == [end \in ends |-> CHOOSE a : a.keyid = end /\ Of(end) = {a}]
<1>1. \A end \in ends : f[end].keyid = end /\ Of(end) = {f[end]}
  OBVIOUS
<1>2. DOMAIN f = ends /\ f = [end \in ends |-> f[end]]
  OBVIOUS
<1> HIDE DEF f, Of
<1>3. accounts = {f[end] : end \in ends}
  BY <1>1
<1> HIDE DEF accounts
<1>4. {a.keyid : a \in accounts} = ends
  BY <1>1, <1>3
<1>5. f \in Bijection(ends, accounts)
  <2>1. f \in [ends -> accounts]
    BY <1>2, <1>3
  <2>2. \A d, e \in ends : f[d] = f[e] => d = e
    BY <1>1
  <2>3. \A a \in accounts : \E end \in ends : f[end] = a
    BY <1>3
  <2> QED BY <1>2, <2>1, <2>2, <2>3 DEF Bijection, Injection, IsInjective, Surjection
<1>6. ExistsBijection(ends, accounts)
  BY <1>5 DEF ExistsBijection
<1>7. Cardinality(accounts) = Cardinality(ends)
  BY <1>6, FS_Bijection
<1> QED BY <1>4, <1>7 DEF accounts, Of

(* What Reads lets an overview return.                                       *)
LEMMA OverviewsOf ==
  ASSUME NEW query, NEW b, NEW now, NEW source, source \in chain[b].accounts,
         Fits(source, AccountVariables(query.selector)),
         NEW t \in b .. now, NEW u \in b .. now, NEW out, NEW in, NEW ends, NEW accounts,
         out = {ch \in chain[t].channels : ch.source_key_id = source.keyid},
         in = {ch \in chain[u].channels : ch.destination_key_id = source.keyid},
         ends = {ch.destination_key_id : ch \in out} \cup {ch.source_key_id : ch \in in},
         \A a \in accounts : a.keyid \in ends /\ \E v \in b .. now : a \in chain[v].accounts,
         {a.keyid : a \in accounts} = ends, Cardinality(accounts) = Cardinality(ends)
  PROVE  [source |-> source, out |-> out, in |-> in, accounts |-> accounts]
           \in Abstract!OverviewsFrom(query, b, now)
<1> DEFINE Channels(variable, keyid, s) == {ch \in chain[s].channels : ch[variable] = keyid}
           After(s) == UNION {chain[v].accounts : v \in s .. now}
           EndsIn(o, i) == {ch.destination_key_id : ch \in o} \cup {ch.source_key_id : ch \in i}
           Others(o, i) == {a \in After(b) : a.keyid \in EndsIn(o, i)}
           Enough(o, i) == {s \in SUBSET Others(o, i) :
                              /\ {a.keyid : a \in s} = EndsIn(o, i)
                              /\ Abstract!Cardinality(s) = Abstract!Cardinality(EndsIn(o, i))}
           Of(n, o, i) == {[source |-> n, out |-> o, in |-> i, accounts |-> s] : s \in Enough(o, i)}
           nodes == {a \in chain[b].accounts : Abstract!Fits(a, Abstract!AccountVariables(query.selector))}
<1>1. Abstract!OverviewsFrom(query, b, now)
        = UNION {Of(n, Channels("source_key_id", n.keyid, s),
                       Channels("destination_key_id", n.keyid, v)) :
                   n \in nodes, s \in b .. now, v \in b .. now}
  BY DEF Abstract!OverviewsFrom
<1>2. source \in nodes
  BY DEF Abstract!Fits, Fits, Abstract!AccountVariables, AccountVariables, Abstract!Given, Given,
         Abstract!AsI32, AsI32
<1>3. out = Channels("source_key_id", source.keyid, t)
        /\ in = Channels("destination_key_id", source.keyid, u)
  OBVIOUS
<1>4. \A s : Abstract!Cardinality(s) = Cardinality(s)
  BY Zenon DEF Abstract!Cardinality, Cardinality
<1>5. accounts \in Enough(out, in)
  BY <1>4
<1>6. [source |-> source, out |-> out, in |-> in, accounts |-> accounts] \in Of(source, out, in)
  BY <1>5
<1> DEFINE all == {Of(n, Channels("source_key_id", n.keyid, s),
                         Channels("destination_key_id", n.keyid, v)) :
                     n \in nodes, s \in b .. now, v \in b .. now}
<1> HIDE DEF nodes, Of, Channels
<1>7. Of(source, Channels("source_key_id", source.keyid, t),
                 Channels("destination_key_id", source.keyid, u)) \in all
  BY <1>2
<1>8. Abstract!OverviewsFrom(query, b, now) = UNION all
  BY <1>1
<1> HIDE DEF all
<1>9. Of(source, out, in) \in all
  BY <1>3, <1>7
<1> QED BY <1>6, <1>8, <1>9

(* An overview that has all replies is one that Reads allows.                *)
LEMMA OverviewEnds ==
  ASSUME NEW query, query.op = Overview, chain \in Seq(Worlds), NEW b \in 1 .. Len(chain),
         NEW source, NEW got, NodeKnown(query, {}, {}, got, chain, b, source)
  PROVE  OverviewResult(query, got) \in Abstract!OverviewsFrom(query, b, Len(chain))
<1> DEFINE now == Len(chain)
           keyid == source.keyid
           outward == ChannelsBy("SourceKeyId", keyid)
           inward == ChannelsBy("DestinationKeyId", keyid)
           out == Reply(got, outward)
           in == Reply(got, inward)
           ends == EndsOf(keyid, got)
           accounts == UNION {Reply(got, AccountsBy("KeyId", end)) : end \in ends}
<1>1. /\ source \in chain[b].accounts /\ Fits(source, AccountVariables(query.selector))
      /\ TheNode(query, source) \in got /\ Once({}, {}, got)
      /\ \A g \in got : OneAccount(g) /\ HeldSince(g, b, chain)
  BY DEF NodeKnown, NodeFits
<1>2. SourceOf(query, got) = source
  BY <1>1, SourceKnown
<1>3. OfSource(keyid) \subseteq Requests(got) /\ Ahead(keyid, got) \subseteq Requests(got)
  BY DEF NodeKnown
<1>4. \A t \in b .. now : chain[t] \in Worlds /\ WorldOk(chain[t])
  BY WorldsAssumption
<1>5. keyid \in I32
  <2>1. WorldOk(chain[b])
    BY WorldsAssumption
  <2> QED BY <1>1, <2>1 DEF WorldOk
<1> HIDE DEF keyid, now
<1>6. \E t \in b .. now : out = {ch \in chain[t].channels : ch.source_key_id = keyid}
  <2>1. PICK g \in got : g.request = outward
    BY <1>3 DEF OfSource, Requests
  <2>2. PICK t \in b .. now : Holds(g, chain[t])
    BY <1>1 DEF HeldSince, now
  <2>3. out = g.items
    BY <1>1, <2>1, OneReply
  <2> QED BY <1>5, <2>1, <2>2, <2>3, OutSelected DEF Holds
<1>7. \E t \in b .. now : in = {ch \in chain[t].channels : ch.destination_key_id = keyid}
  <2>1. PICK g \in got : g.request = inward
    BY <1>3 DEF OfSource, Requests
  <2>2. PICK t \in b .. now : Holds(g, chain[t])
    BY <1>1 DEF HeldSince, now
  <2>3. in = g.items
    BY <1>1, <2>1, OneReply
  <2> QED BY <1>5, <2>1, <2>2, <2>3, InSelected DEF Holds
<1>8. ends = {ch.destination_key_id : ch \in out} \cup {ch.source_key_id : ch \in in}
  BY DEF EndsOf
<1> HIDE DEF out, in
<1>9. PICK t \in b .. now : out = {ch \in chain[t].channels : ch.source_key_id = keyid}
  BY <1>6
<1>10. PICK u \in b .. now : in = {ch \in chain[u].channels : ch.destination_key_id = keyid}
  BY <1>7
<1>11. IsFiniteSet(ends)
  <2>1. IsFiniteSet(chain[t].channels) /\ IsFiniteSet(chain[u].channels)
    BY <1>4 DEF WorldOk
  <2>2. IsFiniteSet(out) /\ IsFiniteSet(in)
    BY <1>9, <1>10, <2>1, FS_Subset
  <2> QED BY <1>8, <2>2, EndsAreFinite
<1>12. ASSUME NEW end \in ends
       PROVE  \E v \in b .. now : \E a \in chain[v].accounts :
                a.keyid = end /\ Reply(got, AccountsBy("KeyId", end)) = {a}
  <2>1. end \in I32
    BY <1>1, <1>3, <1>5, <1>12, EndsAreOthers
  <2>2. AccountsBy("KeyId", end) \in Requests(got)
    BY <1>3 DEF Ahead
  <2> QED BY <1>1, <2>1, <2>2, EndsHaveAccounts DEF now
<1> HIDE DEF ends
<1>13. \A end \in ends : \E a : a.keyid = end /\ Reply(got, AccountsBy("KeyId", end)) = {a}
  BY <1>12
<1>14. {a.keyid : a \in accounts} = ends /\ Cardinality(accounts) = Cardinality(ends)
  BY <1>11, <1>13, OneAccountEach
<1>15. \A a \in accounts : a.keyid \in ends /\ \E v \in b .. now : a \in chain[v].accounts
  BY <1>12
<1>16. OverviewResult(query, got) = [source |-> source, out |-> out, in |-> in, accounts |-> accounts]
  BY <1>2 DEF OverviewResult, out, in, ends, keyid
<1> HIDE DEF accounts
<1>17. [source |-> source, out |-> out, in |-> in, accounts |-> accounts]
         \in Abstract!OverviewsFrom(query, b, now)
  BY <1>1, <1>8, <1>9, <1>10, <1>14, <1>15, OverviewsOf DEF keyid
<1> QED BY <1>16, <1>17 DEF now

(* A request of an overview that goes out changes nothing in what is known.   *)
LEMMA NodeSends ==
  ASSUME NEW query, NEW todo, NEW sent, NEW got, NEW blocks, NEW b, NEW source,
         NodeKnown(query, todo, sent, got, blocks, b, source), NEW request \in todo,
         NEW rest, rest = todo \ {request}, NEW out, out = sent \cup {request}
  PROVE  NodeKnown(query, rest, out, got, blocks, b, source)
<1>1. Once(rest, out, got)
  BY DEF NodeKnown, Once
<1>2. \A s : s \cup rest \cup out = s \cup todo \cup sent
  OBVIOUS
<1>3. out # {}
  OBVIOUS
<1>4. Requests(got) \cup rest \cup out = Requests(got) \cup todo \cup sent
  BY <1>2
<1> QED BY <1>1, <1>3, <1>4, Zenon DEF NodeKnown

LEMMA OverviewSends ==
  ASSUME NEW query, NEW since, NEW todo, NEW sent, NEW got, NEW blocks,
         OverviewOk(query, since, todo, sent, got, blocks), NEW request \in todo,
         NEW rest, rest = todo \ {request}, NEW out, out = sent \cup {request}
  PROVE  OverviewOk(query, since, rest, out, got, blocks)
<1>1. OneOpen(todo, sent, Opening(query)) => OneOpen(rest, out, Opening(query))
  BY DEF OneOpen
<1>2. \A b, source : NodeKnown(query, todo, sent, got, blocks, b, source)
                       => NodeKnown(query, rest, out, got, blocks, b, source)
  BY NodeSends
<1> QED BY <1>1, <1>2 DEF OverviewOk

(* What was known at a block stays known.                                    *)
LEMMA OverviewGrows ==
  ASSUME NEW query, NEW since, NEW todo, NEW sent, NEW got,
         chain \in Seq(Worlds), since \in 1 .. Len(chain),
         OverviewOk(query, since, todo, sent, got, chain),
         NEW blocks, Len(blocks) = Len(chain) + 1,
         \A b \in 1 .. Len(chain) : blocks[b] = chain[b]
  PROVE  OverviewOk(query, since, todo, sent, got, blocks)
<1>1. CASE OneOpen(todo, sent, Opening(query)) /\ got = {}
  BY <1>1 DEF OverviewOk
<1>2. CASE \E b \in since .. Len(chain) : \E source :
             NodeKnown(query, todo, sent, got, chain, b, source)
  <2>0. PICK b \in since .. Len(chain) :
          \E source : NodeKnown(query, todo, sent, got, chain, b, source)
    BY <1>2
  <2>1. PICK source : NodeKnown(query, todo, sent, got, chain, b, source)
    BY <2>0
  <2>2. b \in since .. Len(blocks) /\ b \in 1 .. Len(chain) /\ blocks[b] = chain[b]
    OBVIOUS
  <2>3. ASSUME NEW g \in got PROVE HeldSince(g, b, blocks)
    <3>1. PICK t \in b .. Len(chain) : Holds(g, chain[t])
      BY <2>1 DEF NodeKnown, HeldSince
    <3>2. t \in b .. Len(blocks) /\ blocks[t] = chain[t]
      BY <2>2
    <3> QED BY <3>1, <3>2 DEF HeldSince
  <2>4. NodeKnown(query, todo, sent, got, blocks, b, source)
    BY <2>1, <2>2, <2>3 DEF NodeKnown
  <2> QED BY <2>2, <2>4 DEF OverviewOk
<1> QED BY <1>1, <1>2 DEF OverviewOk

LEMMA OverviewReply ==
  ASSUME NEW query, query.op = Overview, NEW since, chain \in Seq(Worlds),
         since \in 1 .. Len(chain), NEW todo, NEW sent, NEW got,
         OverviewOk(query, since, todo, sent, got, chain),
         NEW request, NEW asked, NEW left, NEW grown,
         Replied(query, todo, sent, got, request, asked, left, grown),
         ~Unusable(query, request, ReplyTo(request).items)
  PROVE  OverviewOk(query, since, asked, left, grown, chain)
<1>1. ASSUME OneOpen(todo, sent, Opening(query)), got = {}
      PROVE  OverviewOk(query, since, asked, left, grown, chain)
  BY <1>1, NodeReply
<1>2. ASSUME NEW b \in since .. Len(chain), NEW source,
             NodeKnown(query, todo, sent, got, chain, b, source)
      PROVE  NodeKnown(query, asked, left, grown, chain, b, source)
  <2>1. b \in 1 .. Len(chain)
    OBVIOUS
  <2> QED BY <1>2, <2>1, AboutReply
<1> QED BY <1>1, <1>2 DEF OverviewOk

-----------------------------------------------------------------------------
(* Every query that asks got so far as its kind says, and what it has was     *)
(* selected since the call; from that, one that ends has its answer.         *)
Asking(query, since, todo, sent, got, blocks) ==
  /\ since \in 1 .. Len(blocks)
  /\ IsSingle(query)      => SingleOk(query, todo, sent, got)
  /\ query.op \in Paged   => PagesOk(query, since, todo, sent, got, blocks)
  /\ BySafe(query)        => JoinOk(query, since, todo, sent, got, blocks)
  /\ query.op = Overview  => OverviewOk(query, since, todo, sent, got, blocks)

AnswerOk(query, since, result) ==
  /\ IsSingle(query) => result = Reported(query, Selected(chain[Len(chain)], First(query)))
  /\ query.op \in Paged =>
       \E b \in since .. Len(chain) : result = Reported(query, Selected(chain[b], First(query)))
  /\ BySafe(query) =>
       \E items : JoinedSince(query, since, items) /\ result = Reported(query, items)
OverviewAnswer(query, since, result) ==
  \E got : OverviewOk(query, since, {}, {}, got, chain) /\ result = OverviewResult(query, got)
Answers(query, since, result) ==
  /\ query.op \in Operations => AnswerOk(query, since, result)
  /\ query.op = Overview     => OverviewAnswer(query, since, result)

(* A reply completes the answer, or leaves more to ask.                      *)
LEMMA ReplyOk ==
  ASSUME NEW query, query.op \in Operations, NEW since, chain \in Seq(Worlds),
         NEW todo, NEW sent, NEW got, Asking(query, since, todo, sent, got, chain),
         NEW request, NEW asked, NEW left, NEW grown,
         Replied(query, todo, sent, got, request, asked, left, grown)
  PROVE  /\ asked = {} /\ left = {} => AnswerOk(query, since, Result(query, grown))
         /\ asked # {} \/ left # {} => Asking(query, since, asked, left, grown, chain)
<1> DEFINE Goal == /\ asked = {} /\ left = {} => AnswerOk(query, since, Result(query, grown))
                   /\ asked # {} \/ left # {} => Asking(query, since, asked, left, grown, chain)
<1>1. since \in 1 .. Len(chain)
  BY DEF Asking
<1>2. /\ IsSingle(query)    => query.op \notin Paged /\ ~BySafe(query)
      /\ query.op \in Paged => ~BySafe(query) /\ ~IsSingle(query)
      /\ BySafe(query)      => query.op \notin Paged /\ ~IsSingle(query)
      /\ query.op # Overview
  BY DEF IsSingle, BySafe, Paged, Operations, Overview, IndexRoots, CurvyRoots
<1>3. IsSingle(query) \/ query.op \in Paged \/ BySafe(query)
  <2>1. query.op # Overview
    BY DEF Operations, Overview, IndexRoots, CurvyRoots
  <2> QED BY <2>1 DEF IsSingle
<1>4. ASSUME IsSingle(query) PROVE Goal
  <2>1. SingleOk(query, todo, sent, got) /\ First(query).root # "services"
    BY <1>4, SingleRoot DEF Asking
  <2>2. /\ asked = {} /\ left = {}
        /\ Result(query, grown) = Reported(query, Selected(chain[Len(chain)], First(query)))
    BY <1>4, <2>1, SingleReply
  <2> QED BY <1>2, <1>4, <2>2 DEF AnswerOk
<1>5. ASSUME query.op \in Paged PROVE Goal
  <2>1. PagesOk(query, since, todo, sent, got, chain)
    BY <1>5 DEF Asking
  <2>2. PagesReplied(query, since, asked, left, grown)
    BY <1>1, <1>5, <2>1, PagesReply
  <2> QED BY <1>1, <1>2, <1>5, <2>2 DEF AnswerOk, Asking, PagesReplied
<1>6. ASSUME BySafe(query) PROVE Goal
  <2>1. JoinOk(query, since, todo, sent, got, chain)
    BY <1>6 DEF Asking
  <2>2. JoinOk(query, since, asked, left, grown, chain)
    BY <1>1, <1>6, <2>1, JoinReply
  <2>3. asked = {} /\ left = {} =>
          /\ JoinedSince(query, since, JoinedOf(grown))
          /\ Result(query, grown) = Reported(query, JoinedOf(grown))
    BY <1>1, <1>6, <2>2, JoinEnds
  <2>4. asked = {} /\ left = {} => AnswerOk(query, since, Result(query, grown))
    BY <1>2, <1>6, <2>3 DEF AnswerOk
  <2>5. Asking(query, since, asked, left, grown, chain)
    BY <1>1, <1>2, <1>6, <2>2 DEF Asking
  <2> QED BY <2>4, <2>5
<1> HIDE DEF Goal
<1>7. Goal
  BY <1>3, <1>4, <1>5, <1>6
<1> QED BY <1>7 DEF Goal

(* An answer of one block is the answer of the test client.                  *)
LEMMA AnswerAgrees ==
  ASSUME NEW query, WellFormed(query), query.op \in DoubleOperations,
         chain \in Seq(Worlds), Len(chain) \in Nat \ {0},
         NEW result, AnswerOk(query, Len(chain), result)
  PROVE  result = Reported(query, DoubleItems(chain[Len(chain)], query))
<1> DEFINE now == Len(chain)
           items == Selected(chain[now], First(query))
<1>1. chain[now] \in Worlds
  OBVIOUS
<1>2. items = DoubleItems(chain[now], query)
  BY <1>1, DoubleSelects
<1>3. IsSingle(query) \/ query.op \in Paged \/ BySafe(query)
  <2>1. query.op # Overview
    BY DEF DoubleOperations, Overview
  <2> QED BY <2>1 DEF IsSingle
<1>4. \A b \in now .. now : b = now
  OBVIOUS
<1> HIDE DEF now
<1>5. ASSUME BySafe(query) PROVE result = Reported(query, items)
  <2>1. PICK found : JoinedSince(query, now, found) /\ result = Reported(query, found)
    BY <1>5 DEF AnswerOk, now
  <2>2. found = items
    BY <1>5, <2>1, JoinAtOneBlock DEF now
  <2> QED BY <2>1, <2>2
<1>6. ASSUME query.op \in Paged PROVE result = Reported(query, items)
  <2>1. PICK b \in now .. now : result = Reported(query, Selected(chain[b], First(query)))
    BY <1>6 DEF AnswerOk, now
  <2> QED BY <1>4, <2>1
<1>7. ASSUME IsSingle(query) PROVE result = Reported(query, items)
  BY <1>7 DEF AnswerOk, now
<1> QED BY <1>2, <1>3, <1>5, <1>6, <1>7 DEF now


-----------------------------------------------------------------------------
(* Every call asks as above, and once done has the answer of the test client  *)
(* unless the index has grown since the call.                               *)
AskOk(state, questions, blocks) ==
  /\ state.pc \in {"building", "asking"} =>
       /\ state.query \in questions
       /\ Asking(state.query, state.since, state.todo, state.sent, state.got, blocks)
  /\ state.pc = "done" /\ state.since = Len(blocks) /\ state.query.op \in DoubleOperations
       => state.result = Reported(state.query, DoubleItems(blocks[Len(blocks)], state.query))
AskInv == \A c \in Callers : AskOk(call[c], Questions[c], chain)

LEMMA AskStepped ==
  ASSUME IInv, AskInv, NEW c \in Callers, NEW state, AskOk(state, Questions[c], chain),
         call' = [call EXCEPT ![c] = state], UNCHANGED chain
  PROVE  AskInv'
<1>1. call' = [d \in Callers |-> IF d = c THEN state ELSE call[d]]
  BY DEF IInv, Typed
<1>2. ASSUME NEW d \in Callers PROVE AskOk(call'[d], Questions[d], chain)
  BY <1>1 DEF AskInv
<1>3. chain' = chain
  OBVIOUS
<1> QED BY <1>2, <1>3 DEF AskInv, AskOk

(* A call that failed has nothing to say.                                    *)
LEMMA FailedOk ==
  ASSUME NEW state, state.pc = "failed", NEW questions, NEW blocks
  PROVE  AskOk(state, questions, blocks)
  BY DEF AskOk

LEMMA StartAsks ==
  ASSUME IInv, AskInv, NEW c \in Callers, NEW query \in Questions[c], Start(c, query)
  PROVE  AskInv'
<1> DEFINE state == [Unread EXCEPT !.pc    = IF client = Null THEN "building" ELSE "asking",
                                   !.query = query,
                                   !.since = Len(chain),
                                   !.via   = client,
                                   !.todo  = {Opening(query)}]
<1>1. call' = [call EXCEPT ![c] = state] /\ UNCHANGED chain
  BY DEF Start
<1>2. /\ state.pc \in {"building", "asking"} /\ state.pc # "done"
      /\ state.query = query /\ state.since = Len(chain)
      /\ state.todo = {Opening(query)} /\ state.sent = {} /\ state.got = {}
  BY DEF Unread
<1> HIDE DEF state
<1>3. OneOpen({Opening(query)}, {}, Opening(query))
  BY DEF OneOpen
<1>4. ASSUME IsSingle(query) PROVE SingleOk(query, {Opening(query)}, {}, {})
  BY <1>3, <1>4, OpeningOf DEF SingleOk
<1>5. ASSUME query.op \in Paged
      PROVE  PagesOk(query, Len(chain), {Opening(query)}, {}, {}, chain)
  <2>1. Opening(query) = PageRequest(query, Null, Null)
    BY <1>5, OpeningOf, FirstPage
  <2> QED BY <1>3, <2>1 DEF PagesOk
<1>6. ASSUME BySafe(query)
      PROVE  JoinOk(query, Len(chain), {Opening(query)}, {}, {}, chain)
  BY <1>3, <1>6, OpeningOf DEF JoinOk, SafeChannels
<1>7. OverviewOk(query, Len(chain), {Opening(query)}, {}, {}, chain)
  BY <1>3 DEF OverviewOk
<1>8. Len(chain) \in 1 .. Len(chain)
  BY DEF IInv, Typed
<1>9. Asking(query, Len(chain), {Opening(query)}, {}, {}, chain)
  BY <1>4, <1>5, <1>6, <1>7, <1>8 DEF Asking
<1>10. AskOk(state, Questions[c], chain)
  BY <1>2, <1>9 DEF AskOk
<1> QED BY <1>1, <1>10, AskStepped

LEMMA RefuseAsks ==
  ASSUME IInv, AskInv, NEW c \in Callers, NEW query \in Questions[c], Refuse(c, query)
  PROVE  AskInv'
<1> DEFINE state == [Unread EXCEPT !.pc = "failed", !.query = query, !.since = Len(chain),
                                   !.result = Err("InvalidInput")]
<1>1. call' = [call EXCEPT ![c] = state] /\ UNCHANGED chain
  BY DEF Refuse
<1>2. state.pc = "failed"
  BY DEF Unread
<1> HIDE DEF state
<1> QED BY <1>1, <1>2, FailedOk, AskStepped

LEMMA BuildAsks ==
  ASSUME IInv, AskInv, NEW c \in Callers, Build(c)
  PROVE  AskInv'
<1> DEFINE state == [call[c] EXCEPT !.pc = "asking", !.via = client']
<1>1. CallOk(call[c], client, Len(chain)) /\ call[c].pc = "building" /\ chain' = chain
  BY DEF Build, IInv
<1>2. call' = [call EXCEPT ![c] = state]
  BY DEF Build, IInv, Typed
<1>3. /\ state.pc = "asking" /\ state.query = call[c].query /\ state.since = call[c].since
      /\ state.todo = call[c].todo /\ state.sent = call[c].sent /\ state.got = call[c].got
  BY <1>1 DEF CallOk, Shaped
<1> HIDE DEF state
<1>4. AskOk(state, Questions[c], chain)
  BY <1>1, <1>3 DEF AskInv, AskOk
<1> QED BY <1>1, <1>2, <1>4, AskStepped

(* A request that goes out was the one to send next.                         *)
LEMMA SendOk ==
  ASSUME NEW query, NEW since, NEW todo, NEW sent, NEW got, NEW blocks,
         Asking(query, since, todo, sent, got, blocks), NEW request \in todo,
         NEW rest, rest = todo \ {request}, NEW out, out = sent \cup {request}
  PROVE  Asking(query, since, rest, out, got, blocks)
<1>1. \A r : OneOpen(todo, sent, r) => OneOpen(rest, out, r)
  BY DEF OneOpen
<1>2. rest \cup out = todo \cup sent
  OBVIOUS
<1>3. IsSingle(query) => SingleOk(query, rest, out, got)
  BY <1>1 DEF Asking, SingleOk
<1>4. query.op \in Paged => PagesOk(query, since, rest, out, got, blocks)
  BY <1>1 DEF Asking, PagesOk
<1>5. \A b, n, answers : AccountsKnown(query, todo, sent, got, blocks, b, n, answers)
                           => AccountsKnown(query, rest, out, got, blocks, b, n, answers)
  BY <1>2, Zenon DEF AccountsKnown
<1>6. BySafe(query) => JoinOk(query, since, rest, out, got, blocks)
  BY <1>1, <1>5 DEF Asking, JoinOk
<1>7. query.op = Overview => OverviewOk(query, since, rest, out, got, blocks)
  BY OverviewSends DEF Asking
<1> QED BY <1>3, <1>4, <1>6, <1>7 DEF Asking

LEMMA SendAsks ==
  ASSUME IInv, AskInv, NEW c \in Callers, NEW request, Send(c, request)
  PROVE  AskInv'
<1> DEFINE state == [call[c] EXCEPT !.todo = @ \ {request}, !.sent = @ \cup {request}]
<1>1. /\ CallOk(call[c], client, Len(chain)) /\ call[c].pc = "asking"
      /\ request \in call[c].todo /\ UNCHANGED chain
  BY DEF Send, IInv
<1>2. call' = [call EXCEPT ![c] = state]
  BY DEF Send, IInv, Typed
<1>3. /\ state.pc = "asking" /\ state.query = call[c].query /\ state.since = call[c].since
      /\ state.todo = call[c].todo \ {request} /\ state.sent = call[c].sent \cup {request}
      /\ state.got = call[c].got
  BY <1>1 DEF CallOk, Shaped
<1> HIDE DEF state
<1>4. Asking(call[c].query, call[c].since, call[c].todo, call[c].sent, call[c].got, chain)
  BY <1>1 DEF AskInv, AskOk
<1>5. Asking(call[c].query, call[c].since, state.todo, state.sent, call[c].got, chain)
  BY <1>1, <1>3, <1>4, SendOk
<1>6. AskOk(state, Questions[c], chain)
  BY <1>1, <1>3, <1>5 DEF AskInv, AskOk
<1> QED BY <1>1, <1>2, <1>6, AskStepped

(* An answer that cannot be used ends an overview; else the reply completes    *)
(* the answer, or leaves more to ask.                                       *)
Unanswered(c) == call' = [call EXCEPT ![c] = Ended(call[c], "failed", Err("Unusable"))]
AnsweredBy(c, result) ==
  /\ Answers(call[c].query, call[c].since, result)
  /\ call' = [call EXCEPT ![c] = Ended(call[c], "done", result)]
AsksOn(c, todo, sent, got) ==
  /\ Asking(call[c].query, call[c].since, todo, sent, got, chain)
  /\ call' = [call EXCEPT ![c] = [call[c] EXCEPT !.todo = todo, !.sent = sent, !.got = got]]

LEMMA ReceiveKnows ==
  ASSUME IInv, AskInv, NEW c \in Callers, NEW request, Receive(c, request)
  PROVE  \/ Unanswered(c)
         \/ \E result : AnsweredBy(c, result)
         \/ \E todo, sent, got : AsksOn(c, todo, sent, got)
<1> DEFINE query == call[c].query
           since == call[c].since
           reply == ReplyTo(request)
           got   == call[c].got \cup {[request |-> request, items |-> reply.items]}
           sent  == call[c].sent \ {request}
           todo  == call[c].todo \cup Following(query, request, reply, got)
           result == IF query.op = Overview THEN OverviewResult(query, got)
                                            ELSE Result(query, got)
           done   == Ended(call[c], "done", result)
           asking == [call[c] EXCEPT !.todo = todo, !.sent = sent, !.got = got]
<1>1. /\ call[c].pc \in {"building", "asking"}
      /\ request \in call[c].sent /\ UNCHANGED chain
  BY DEF Receive, IInv, CallOk
<1>2. Replied(query, call[c].todo, call[c].sent, call[c].got, request, todo, sent, got)
  BY <1>1 DEF Replied
<1>3. \/ Unanswered(c)
      \/ /\ ~Unusable(query, request, ReplyTo(request).items)
         /\ \/ todo \cup sent = {} /\ call' = [call EXCEPT ![c] = done]
            \/ todo \cup sent # {} /\ call' = [call EXCEPT ![c] = asking]
  BY DEF Receive, IInv, Typed, Unanswered
<1> HIDE DEF reply, got, sent, todo
<1>4. query \in Questions[c] /\ WellFormed(query)
  BY <1>1, QuestionsAssumption DEF AskInv, AskOk
<1>5. Asking(query, since, call[c].todo, call[c].sent, call[c].got, chain)
  BY <1>1 DEF AskInv, AskOk
<1>6. chain \in Seq(Worlds) /\ Len(chain) \in Nat \ {0}
  BY DEF IInv, Typed
<1> HIDE DEF query, since, done, asking
<1>7. Overview \notin Operations
  BY DEF Operations, Overview, IndexRoots, CurvyRoots
<1>8. query.op \in Operations \/ query.op = Overview
  BY <1>4 DEF WellFormed
<1>9. ASSUME query.op \in Operations
      PROVE  /\ todo = {} /\ sent = {} => AnswerOk(query, since, Result(query, got))
             /\ todo # {} \/ sent # {} => Asking(query, since, todo, sent, got, chain)
  BY <1>2, <1>5, <1>6, <1>9, ReplyOk
<1>10. ASSUME query.op = Overview, ~Unusable(query, request, ReplyTo(request).items)
       PROVE  /\ Asking(query, since, todo, sent, got, chain)
              /\ OverviewOk(query, since, todo, sent, got, chain)
  <2>1. ~IsSingle(query) /\ query.op \notin Paged /\ ~BySafe(query)
    BY <1>10 DEF IsSingle, Paged, BySafe, Overview
  <2>2. /\ OverviewOk(query, since, call[c].todo, call[c].sent, call[c].got, chain)
        /\ since \in 1 .. Len(chain)
    BY <1>5, <1>10 DEF Asking
  <2>3. OverviewOk(query, since, todo, sent, got, chain)
    BY <1>2, <1>6, <1>10, <2>2, OverviewReply
  <2> QED BY <1>5, <2>1, <2>3 DEF Asking
<1>11. ASSUME todo \cup sent = {}, ~Unusable(query, request, ReplyTo(request).items)
       PROVE  Answers(query, since, result)
  <2>1. todo = {} /\ sent = {}
    BY <1>11
  <2>2. ASSUME query.op \in Operations PROVE Answers(query, since, result)
    <3>1. AnswerOk(query, since, Result(query, got))
      BY <1>9, <2>1, <2>2
    <3> QED BY <1>7, <2>2, <3>1 DEF Answers
  <2>3. ASSUME query.op = Overview PROVE Answers(query, since, result)
    <3>1. OverviewOk(query, since, {}, {}, got, chain)
      BY <1>10, <1>11, <2>1, <2>3
    <3>2. OverviewAnswer(query, since, OverviewResult(query, got))
      BY <3>1 DEF OverviewAnswer
    <3> QED BY <1>7, <2>3, <3>2 DEF Answers
  <2> QED BY <1>8, <2>2, <2>3
<1>12. ASSUME todo \cup sent # {}, ~Unusable(query, request, ReplyTo(request).items)
       PROVE  Asking(query, since, todo, sent, got, chain)
  BY <1>8, <1>9, <1>10, <1>12
<1> HIDE DEF result
<1>13. CASE todo \cup sent = {} /\ call' = [call EXCEPT ![c] = done]
              /\ ~Unusable(query, request, ReplyTo(request).items)
  BY <1>11, <1>13 DEF AnsweredBy, done, query, since
<1>14. CASE todo \cup sent # {} /\ call' = [call EXCEPT ![c] = asking]
              /\ ~Unusable(query, request, ReplyTo(request).items)
  BY <1>12, <1>14 DEF AsksOn, asking, query, since
<1> QED BY <1>3, <1>13, <1>14

LEMMA ReceiveAsks ==
  ASSUME IInv, AskInv, NEW c \in Callers, NEW request, Receive(c, request)
  PROVE  AskInv'
<1>1. /\ CallOk(call[c], client, Len(chain)) /\ call[c].pc \in {"building", "asking"}
      /\ UNCHANGED chain
  BY DEF Receive, IInv, CallOk
<1>2. chain \in Seq(Worlds) /\ Len(chain) \in Nat \ {0}
  BY DEF IInv, Typed
<1>3. call[c].query \in Questions[c] /\ WellFormed(call[c].query)
  BY <1>1, QuestionsAssumption DEF AskInv, AskOk
<1>4. ASSUME Unanswered(c) PROVE AskInv'
  <2> DEFINE state == Ended(call[c], "failed", Err("Unusable"))
  <2>1. state.pc = "failed" /\ call' = [call EXCEPT ![c] = state]
    BY <1>1, <1>4 DEF Ended, CallOk, Shaped, Unanswered
  <2> HIDE DEF state
  <2>2. AskOk(state, Questions[c], chain)
    BY <2>1, FailedOk
  <2> QED BY <1>1, <2>1, <2>2, AskStepped
<1>5. ASSUME NEW result, AnsweredBy(c, result) PROVE AskInv'
  <2> DEFINE state == Ended(call[c], "done", result)
  <2>1. /\ state.pc = "done" /\ state.query = call[c].query /\ state.since = call[c].since
        /\ state.result = result /\ call' = [call EXCEPT ![c] = state]
    BY <1>1, <1>5 DEF Ended, CallOk, Shaped, AnsweredBy
  <2> HIDE DEF state
  <2>2. ASSUME call[c].since = Len(chain), call[c].query.op \in DoubleOperations
        PROVE  result = Reported(call[c].query, DoubleItems(chain[Len(chain)], call[c].query))
    <3>0. call[c].query.op \in Operations
      BY <2>2 DEF DoubleOperations, Operations, IndexRoots
    <3>1. AnswerOk(call[c].query, Len(chain), result)
      BY <1>5, <2>2, <3>0 DEF AnsweredBy, Answers
    <3> QED BY <1>2, <1>3, <2>2, <3>1, AnswerAgrees
  <2>3. AskOk(state, Questions[c], chain)
    BY <2>1, <2>2 DEF AskOk
  <2> QED BY <1>1, <2>1, <2>3, AskStepped
<1>6. ASSUME NEW todo, NEW sent, NEW got, AsksOn(c, todo, sent, got) PROVE AskInv'
  <2> DEFINE state == [call[c] EXCEPT !.todo = todo, !.sent = sent, !.got = got]
  <2>1. /\ state.pc = call[c].pc /\ state.query = call[c].query /\ state.since = call[c].since
        /\ state.todo = todo /\ state.sent = sent /\ state.got = got
        /\ call' = [call EXCEPT ![c] = state]
    BY <1>1, <1>6 DEF CallOk, Shaped, AsksOn
  <2> HIDE DEF state
  <2>2. AskOk(state, Questions[c], chain)
    BY <1>1, <1>3, <1>6, <2>1 DEF AskOk, AsksOn
  <2> QED BY <1>1, <2>1, <2>2, AskStepped
<1> QED BY <1>4, <1>5, <1>6, ReceiveKnows

LEMMA FailureAsks ==
  ASSUME IInv, AskInv, NEW c \in Callers,
         BuildFails(c) \/ \E request \in call[c].sent : Fail(c, request)
  PROVE  AskInv'
<1>1. CallOk(call[c], client, Len(chain)) /\ UNCHANGED chain
  BY DEF BuildFails, Fail, IInv
<1>2. PICK error : call' = [call EXCEPT ![c] = Ended(call[c], "failed", error)]
  BY DEF BuildFails, Fail, IInv, Typed
<1> DEFINE state == Ended(call[c], "failed", error)
<1>3. state.pc = "failed"
  BY <1>1 DEF Ended, CallOk, Shaped
<1> HIDE DEF state
<1>4. AskOk(state, Questions[c], chain)
  BY <1>3, FailedOk
<1> QED BY <1>1, <1>2, <1>4, AskStepped DEF state

(* What was selected at a block stays what was selected at it.               *)
LEMMA AskingGrows ==
  ASSUME NEW query, NEW since, NEW todo, NEW sent, NEW got,
         chain \in Seq(Worlds), Asking(query, since, todo, sent, got, chain),
         NEW blocks, Len(blocks) = Len(chain) + 1,
         \A b \in 1 .. Len(chain) : blocks[b] = chain[b]
  PROVE  Asking(query, since, todo, sent, got, blocks)
<1> DEFINE now == Len(chain)
<1>1. since \in 1 .. now /\ now \in Nat /\ since \in 1 .. Len(blocks)
  BY DEF Asking
<1>2. \A b \in since .. now : b \in since .. Len(blocks) /\ blocks[b] = chain[b]
                                /\ b .. now \subseteq b .. Len(blocks)
  BY <1>1
<1> HIDE DEF now
<1>3. ASSUME query.op \in Paged PROVE PagesOk(query, since, todo, sent, got, blocks)
  <2>1. PICK after, at :
          /\ OneOpen(todo, sent, PageRequest(query, after, at))
          /\ \/ after = Null /\ at = Null /\ got = {}
             \/ PagesUpto(query, since, got, chain, after, at)
    BY <1>3 DEF Asking, PagesOk
  <2>2. PagesUpto(query, since, got, chain, after, at)
          => PagesUpto(query, since, got, blocks, after, at)
    BY <1>2 DEF PagesUpto, now
  <2> QED BY <2>1, <2>2 DEF PagesOk
<1>4. ASSUME BySafe(query) PROVE JoinOk(query, since, todo, sent, got, blocks)
  <2>1. JoinOk(query, since, todo, sent, got, chain)
    BY <1>4 DEF Asking
  <2>2. ASSUME NEW b \in since .. now, NEW n \in b .. now, NEW answers,
               AccountsKnown(query, todo, sent, got, chain, b, n, answers)
        PROVE  AccountsKnown(query, todo, sent, got, blocks, b, n, answers)
    <3>1. n \in since .. now
      BY <1>1
    <3>2. blocks[b] = chain[b] /\ blocks[n] = chain[n]
      BY <1>2, <3>1
    <3>3. ASSUME NEW g \in answers PROVE \E t \in n .. Len(blocks) : Holds(g, blocks[t])
      <4>1. PICK t \in n .. now : Holds(g, chain[t])
        BY <2>2 DEF AccountsKnown, now
      <4>2. t \in since .. now
        BY <1>1
      <4> QED BY <1>2, <3>1, <4>1, <4>2
    <3> QED BY <2>2, <3>2, <3>3 DEF AccountsKnown
  <2>3. CASE OneOpen(todo, sent, SafeChannels(query)) /\ got = {}
    BY <2>3 DEF JoinOk
  <2>4. CASE /\ OneOpen(todo, sent, TheSafe(query))
             /\ \E b \in since .. now : got = {ChannelsAt(query, chain[b])}
    BY <1>2, <2>4 DEF JoinOk
  <2>5. CASE \E b \in since .. now : \E n \in b .. now :
               \E answers : AccountsKnown(query, todo, sent, got, chain, b, n, answers)
    <3>1. PICK b \in since .. now : \E n \in b .. now :
               \E answers : AccountsKnown(query, todo, sent, got, chain, b, n, answers)
      BY <2>5
    <3>2. PICK n \in b .. now :
               \E answers : AccountsKnown(query, todo, sent, got, chain, b, n, answers)
      BY <3>1
    <3>3. \E answers : AccountsKnown(query, todo, sent, got, blocks, b, n, answers)
      BY <2>2, <3>2
    <3>4. b \in since .. Len(blocks) /\ n \in b .. Len(blocks)
      BY <1>2
    <3> QED BY <3>3, <3>4 DEF JoinOk
  <2> QED BY <2>1, <2>3, <2>4, <2>5 DEF JoinOk, now
<1>5. query.op = Overview => OverviewOk(query, since, todo, sent, got, blocks)
  BY OverviewGrows DEF Asking
<1> QED BY <1>1, <1>3, <1>4, <1>5 DEF Asking

LEMMA GrowAsks ==
  ASSUME IInv, AskInv, Grow
  PROVE  AskInv'
<1>1. PICK world \in Worlds : chain' = Append(chain, world)
  BY DEF Grow
<1>2. chain \in Seq(Worlds) /\ Len(chain) \in Nat /\ call' = call
  BY DEF IInv, Typed, Grow
<1>3. Len(chain') = Len(chain) + 1 /\ \A b \in 1 .. Len(chain) : chain'[b] = chain[b]
  BY <1>1, <1>2
<1>4. ASSUME NEW c \in Callers PROVE AskOk(call[c], Questions[c], chain')
  <2>1. call[c].since # Len(chain')
    BY <1>2, <1>3 DEF IInv, CallOk
  <2>2. ASSUME call[c].pc \in {"building", "asking"}
        PROVE  /\ call[c].query \in Questions[c]
               /\ Asking(call[c].query, call[c].since, call[c].todo, call[c].sent, call[c].got,
                         chain')
    BY <1>2, <1>3, <2>2, AskingGrows DEF AskInv, AskOk
  <2> QED BY <2>1, <2>2 DEF AskOk
<1> QED BY <1>2, <1>4 DEF AskInv

LEMMA NextAsks == IInv /\ AskInv /\ [Next]_vars => AskInv'
<1> SUFFICES ASSUME IInv, AskInv, [Next]_vars PROVE AskInv'
  OBVIOUS
<1>1. CASE UNCHANGED vars
  BY <1>1 DEF vars, AskInv, AskOk
<1>2. CASE BuiltElsewhere
  BY <1>2 DEF BuiltElsewhere, AskInv, AskOk
<1> QED
  BY <1>1, <1>2, GrowAsks, StartAsks, RefuseAsks, BuildAsks, SendAsks, ReceiveAsks, FailureAsks
     DEF Next

(* A query for accounts, channels, services or safes that ends before the     *)
(* index grows again gives its caller the items that the test client would,   *)
(* had it the same state: in pages of whatever size, put together from the    *)
(* channels, the safe and the accounts of its nodes or not, and with key ids  *)
(* of any width (BlokliQueryClient for BlokliClient and BlokliTestClient).    *)
THEOREM AgreesWithDouble == Spec => []DoubleAgrees
<1>1. Init => AskInv
  BY DEF Init, AskInv, AskOk, Unread
<1>2. Spec => [](IInv /\ AskInv)
  BY InitIInv, NextIInv, NextAsks, <1>1, PTL DEF Spec
<1>3. AskInv => DoubleAgrees
  BY DEF AskInv, AskOk, DoubleAgrees, Reported
<1> QED
  BY <1>2, <1>3, PTL

-----------------------------------------------------------------------------
(* The definitions of Reads that it shares with Queries.                     *)
LEMMA SameSelection ==
  ASSUME NEW world, NEW request
  PROVE  Abstract!Selected(world, request) = Selected(world, request)
  BY DEF Abstract!Selected, Selected, Abstract!Fits, Fits, Abstract!WithSafe, WithSafe,
         Abstract!SafeFits, SafeFits, Abstract!Live, Live, Abstract!SafeOf, SafeOf,
         Abstract!AddressOf, AddressOf, Abstract!Given, Given

LEMMA SameFirst ==
  ASSUME NEW query
  PROVE  Abstract!First(query) = First(query)
<1>1. Abstract!Variables(query) = Variables(query)
  BY DEF Abstract!Variables, Variables, Abstract!AccountVariables, AccountVariables,
         Abstract!ChannelsVariables, ChannelsVariables, Abstract!ChannelStatsVariables,
         ChannelStatsVariables, Abstract!SafeByVariables, SafeByVariables,
         Abstract!ServicePageVariables, ServicePageVariables, Abstract!ServiceVariables,
         ServiceVariables, Abstract!RedeemedStatsVariables, RedeemedStatsVariables,
         Abstract!AsI32, AsI32, Abstract!Given, Given, Abstract!BySource, BySource,
         Abstract!ByDestination, ByDestination
<1>2. Abstract!RootOf(query.op) = RootOf(query.op)
  BY DEF Abstract!RootOf, RootOf, Abstract!IndexRoots, IndexRoots, Abstract!CurvyRoots, CurvyRoots
<1> QED BY <1>1, <1>2 DEF Abstract!First, First, Abstract!Request, Request

LEMMA SameReport ==
  ASSUME NEW query, NEW items
  PROVE  Abstract!Count(query, items) = Reported(query, items)
<1>1. Abstract!Cardinality(items) = Cardinality(items)
  BY Zenon DEF Abstract!Cardinality, Cardinality
<1> QED BY <1>1 DEF Abstract!Count, Reported, Abstract!Counts, Counts

(* What Reads lets a query return, by its kind.                              *)
LEMMA ResultsOf ==
  ASSUME NEW query, NEW since, NEW now
  PROVE  /\ query.op = Overview =>
              Abstract!Results(query, since, now)
                = UNION {Abstract!OverviewsFrom(query, b, now) : b \in since .. now}
         /\ BySafe(query) =>
              Abstract!Results(query, since, now)
                = {Abstract!Count(query, items) :
                     items \in UNION {Abstract!JoinsFrom(query, b, now) : b \in since .. now}}
         /\ IsSingle(query) \/ query.op \in Paged =>
              Abstract!Results(query, since, now)
                = {Abstract!Count(query, Abstract!Selected(chain[b], Abstract!First(query))) :
                     b \in since .. now}
<1> DEFINE Results == Abstract!Results(query, since, now)
<1>1. Abstract!IsJoin(query) <=> BySafe(query)
  BY DEF Abstract!IsJoin, BySafe
<1>2. Abstract!Overview = Overview
  BY DEF Abstract!Overview, Overview
<1>3. /\ BySafe(query) => query.op # Overview
      /\ IsSingle(query) \/ query.op \in Paged => query.op # Overview /\ ~BySafe(query)
  BY DEF BySafe, IsSingle, Paged, Overview
<1>4. ASSUME query.op = Overview
      PROVE  Results = UNION {Abstract!OverviewsFrom(query, b, now) : b \in since .. now}
  BY <1>1, <1>2, <1>3, <1>4, Zenon DEF Abstract!Results
<1>5. ASSUME BySafe(query)
      PROVE  Results = {Abstract!Count(query, items) :
                     items \in UNION {Abstract!JoinsFrom(query, b, now) : b \in since .. now}}
  BY <1>1, <1>2, <1>3, <1>5, Zenon DEF Abstract!Results
<1>6. ASSUME IsSingle(query) \/ query.op \in Paged
      PROVE  Results = {Abstract!Count(query, Abstract!Selected(chain[b], Abstract!First(query))) :
                     b \in since .. now}
  BY <1>1, <1>2, <1>3, <1>6, Zenon DEF Abstract!Results
<1> QED BY <1>4, <1>5, <1>6

(* A join leaves nothing out that the safe had all the time: the chain key of  *)
(* a key id is the same in every reply.                                     *)
LEMMA JoinAllowed ==
  ASSUME NEW query, BySafe(query), chain \in Seq(Worlds), Len(chain) \in Nat,
         NEW b \in 1 .. Len(chain), NEW n \in b .. Len(chain), NEW items,
         JoinsAt(query, chain, b, n, items)
  PROVE  items \in Abstract!JoinsFrom(query, b, Len(chain))
<1> DEFINE now == Len(chain)
           selected == Abstract!Selected(chain[b], Abstract!First(query))
           times == {t \in (b .. now) \X (b .. now) : t[1] <= t[2]}
           OwnsAt(ch, t) == Abstract!Owns(query.selector.safe, ch, chain[t[1]], chain[t[2]])
           some == {ch \in selected : \E t \in times : OwnsAt(ch, t)}
           always == {ch \in selected : \A t \in times : OwnsAt(ch, t)}
<1>1. selected = Selected(chain[b], SafeChannels(query))
  BY SameSelection, SameFirst, SafeChannelsSelected
<1>2. \A t \in n .. now : t \in Nat /\ <<n, t>> \in times /\ t \in 1 .. now
  OBVIOUS
<1>3. ASSUME NEW ch, NEW t \in n .. now
      PROVE  OwnsAt(ch, <<n, t>>) <=>
               \E s \in chain[n].safes, a \in chain[t].accounts :
                 /\ s.address = query.selector.safe
                 /\ a.chain_key \in s.registered_nodes
                 /\ a.keyid = ch.source_key_id
  BY DEF Abstract!Owns
<1> HIDE DEF selected, times, OwnsAt
<1>4. items \subseteq some
  <2>1. ASSUME NEW ch \in items PROVE ch \in selected /\ \E t \in times : OwnsAt(ch, t)
    <3>1. PICK t \in n .. now : \E s \in chain[n].safes, a \in chain[t].accounts :
            /\ s.address = query.selector.safe
            /\ a.chain_key \in s.registered_nodes
            /\ a.keyid = ch.source_key_id
      BY DEF JoinsAt
    <3>2. OwnsAt(ch, <<n, t>>)
      BY <1>3, <3>1
    <3>3. ch \in selected
      BY <1>1 DEF JoinsAt
    <3> QED BY <1>2, <3>2, <3>3
  <2> QED BY <2>1
<1>5. always \subseteq items
  <2>1. ASSUME NEW ch \in selected, \A t \in times : OwnsAt(ch, t) PROVE ch \in items
    <3>1. \A t \in n .. now : OwnsAt(ch, <<n, t>>)
      BY <1>2, <2>1
    <3>2. n \in n .. now
      OBVIOUS
    <3>3. PICK s \in chain[n].safes, a \in chain[n].accounts :
            /\ s.address = query.selector.safe
            /\ a.chain_key \in s.registered_nodes
            /\ a.keyid = ch.source_key_id
      BY <1>3, <3>1, <3>2
    <3>4. PICK t \in n .. now :
            (\E x \in chain[t].accounts : x.chain_key = a.chain_key /\ x.keyid = ch.source_key_id)
              => ch \in items
      BY <1>1, <3>3 DEF JoinsAt
    <3>5. PICK x \in chain[t].accounts : x.keyid = ch.source_key_id
      BY <1>3, <3>1
    <3>6. chain[t] \in Worlds /\ chain[n] \in Worlds
      BY <1>2, <3>2
    <3>7. x.chain_key = a.chain_key
      BY <3>3, <3>5, <3>6, WorldsAssumption DEF KeysStay
    <3> QED BY <3>4, <3>5, <3>7
  <2> QED BY <2>1
<1>6. Abstract!JoinsFrom(query, b, now) = {i \in SUBSET some : always \subseteq i}
  BY DEF Abstract!JoinsFrom, some, always, times, selected, OwnsAt
<1> HIDE DEF some, always
<1> QED BY <1>4, <1>5, <1>6

LEMMA AnswerAllowed ==
  ASSUME NEW query, query.op \in Operations, chain \in Seq(Worlds), Len(chain) \in Nat,
         NEW since \in 1 .. Len(chain), NEW result, AnswerOk(query, since, result)
  PROVE  result \in Abstract!Results(query, since, Len(chain))
<1> DEFINE now == Len(chain)
<1>1. IsSingle(query) \/ query.op \in Paged \/ BySafe(query)
  <2>1. query.op # Overview
    BY DEF Operations, Overview, IndexRoots, CurvyRoots
  <2> QED BY <2>1 DEF IsSingle
<1>2. ASSUME IsSingle(query) \/ query.op \in Paged
      PROVE  result \in Abstract!Results(query, since, now)
  <2>1. now \in since .. now
    OBVIOUS
  <2>2. PICK b \in since .. now : result = Reported(query, Selected(chain[b], First(query)))
    BY <1>2, <2>1 DEF AnswerOk
  <2>3. result = Abstract!Count(query, Abstract!Selected(chain[b], Abstract!First(query)))
    BY <2>2, SameSelection, SameFirst, SameReport
  <2>4. Abstract!Results(query, since, now)
          = {Abstract!Count(query, Abstract!Selected(chain[t], Abstract!First(query))) :
               t \in since .. now}
    BY <1>2, ResultsOf
  <2> QED BY <2>3, <2>4
<1>3. ASSUME BySafe(query) PROVE result \in Abstract!Results(query, since, now)
  <2>1. PICK items : JoinedSince(query, since, items) /\ result = Reported(query, items)
    BY <1>3 DEF AnswerOk
  <2>2. PICK b \in since .. now : \E n \in b .. now : JoinsAt(query, chain, b, n, items)
    BY <2>1 DEF JoinedSince
  <2>3. PICK n \in b .. now : JoinsAt(query, chain, b, n, items)
    BY <2>2
  <2>4. items \in Abstract!JoinsFrom(query, b, now)
    BY <1>3, <2>3, JoinAllowed
  <2>5. result = Abstract!Count(query, items)
    BY <2>1, SameReport
  <2>6. Abstract!Results(query, since, now)
          = {Abstract!Count(query, i) :
               i \in UNION {Abstract!JoinsFrom(query, t, now) : t \in since .. now}}
    BY <1>3, ResultsOf
  <2> HIDE DEF now
  <2>7. items \in UNION {Abstract!JoinsFrom(query, t, now) : t \in since .. now}
    BY <2>4
  <2> QED BY <2>5, <2>6, <2>7
<1> QED BY <1>1, <1>2, <1>3

LEMMA OverviewAllowed ==
  ASSUME NEW query, query.op = Overview, chain \in Seq(Worlds), NEW since \in 1 .. Len(chain),
         NEW result, OverviewAnswer(query, since, result)
  PROVE  result \in Abstract!Results(query, since, Len(chain))
<1>1. PICK got : OverviewOk(query, since, {}, {}, got, chain) /\ result = OverviewResult(query, got)
  BY DEF OverviewAnswer
<1>2. ~OneOpen({}, {}, Opening(query))
  BY DEF OneOpen
<1>3a. PICK b \in since .. Len(chain) :
         \E source : NodeKnown(query, {}, {}, got, chain, b, source)
  BY <1>1, <1>2 DEF OverviewOk
<1>3. PICK source : NodeKnown(query, {}, {}, got, chain, b, source)
  BY <1>3a
<1>4. b \in 1 .. Len(chain)
  OBVIOUS
<1>5. result \in Abstract!OverviewsFrom(query, b, Len(chain))
  BY <1>1, <1>3, <1>4, OverviewEnds
<1>6. result \in UNION {Abstract!OverviewsFrom(query, t, Len(chain)) : t \in since .. Len(chain)}
  BY <1>5
<1> QED BY <1>6, ResultsOf

-----------------------------------------------------------------------------
(* What Reads sees of the calls.                                            *)
ReadOf(state) ==
  [pc     |-> IF state.pc \in {"building", "asking"} THEN "reading" ELSE state.pc,
   query  |-> state.query,
   since  |-> state.since,
   result |-> IF state.pc = "done" THEN state.result ELSE Null]
Reading == [c \in Callers |-> ReadOf(call[c])]

LEMMA ReadingStep ==
  ASSUME IInv, NEW c \in Callers, NEW state, call' = [call EXCEPT ![c] = state]
  PROVE  Reading' = [Reading EXCEPT ![c] = ReadOf(state)]
<1>1. call' = [d \in Callers |-> IF d = c THEN state ELSE call[d]]
  BY DEF IInv, Typed
<1>2. ASSUME NEW d \in Callers
      PROVE  ReadOf(call'[d]) = IF d = c THEN ReadOf(state) ELSE ReadOf(call[d])
  BY <1>1
<1>3. Reading' = [d \in Callers |-> ReadOf(call'[d])]
  BY DEF Reading, ReadOf
<1> HIDE DEF ReadOf
<1> QED BY <1>2, <1>3 DEF Reading

LEMMA ReadsSame ==
  /\ Abstract!Init <=> chain \in {<<world>> : world \in Worlds}
                         /\ Reading = [c \in Callers |-> Abstract!Unread]
  /\ Abstract!vars = <<chain, Reading>>
  BY DEF Abstract!Init, Abstract!vars, Reading, ReadOf

(* A step of a call that Reads does not see, and the three that it does.      *)
LEMMA SeesNothing ==
  ASSUME IInv, NEW c \in Callers, NEW state, call' = [call EXCEPT ![c] = state],
         UNCHANGED chain, ReadOf(state) = ReadOf(call[c])
  PROVE  UNCHANGED Abstract!vars
<1>1. Reading' = [Reading EXCEPT ![c] = ReadOf(state)]
  BY ReadingStep
<1>2. Reading' = Reading
  BY <1>1 DEF Reading
<1> HIDE DEF Reading
<1>3. UNCHANGED <<chain, Reading>>
  BY <1>2
<1> QED BY <1>3 DEF Abstract!vars, Reading, ReadOf

LEMMA SeesBegin ==
  ASSUME IInv, NEW c \in Callers, NEW query \in Questions[c], NEW state,
         call' = [call EXCEPT ![c] = state], UNCHANGED chain, call[c].pc = "idle",
         ReadOf(state) = [pc |-> "reading", query |-> query, since |-> Len(chain), result |-> Null]
  PROVE  Abstract!Next
<1>1. Reading' = [Reading EXCEPT ![c] = ReadOf(state)]
  BY ReadingStep
<1>2. Reading[c].pc = "idle"
  BY DEF Reading, ReadOf
<1>3. Abstract!Begin(c, query)
  BY <1>1, <1>2 DEF Abstract!Begin, Reading, ReadOf
<1> QED BY <1>3 DEF Abstract!Next

LEMMA SeesRefusal ==
  ASSUME IInv, NEW c \in Callers, NEW query \in Questions[c], NEW state,
         call' = [call EXCEPT ![c] = state], UNCHANGED chain, call[c].pc = "idle",
         ReadOf(state) = [pc |-> "failed", query |-> query, since |-> Len(chain), result |-> Null]
  PROVE  Abstract!Next
<1>1. Reading' = [Reading EXCEPT ![c] = ReadOf(state)]
  BY ReadingStep
<1>2. Reading[c].pc = "idle"
  BY DEF Reading, ReadOf
<1>3. Abstract!Refuse(c, query)
  BY <1>1, <1>2 DEF Abstract!Refuse, Reading, ReadOf
<1> QED BY <1>3 DEF Abstract!Next

LEMMA SeesFailure ==
  ASSUME IInv, NEW c \in Callers, NEW state, call' = [call EXCEPT ![c] = state], UNCHANGED chain,
         call[c].pc \in {"building", "asking"},
         state.pc = "failed", state.query = call[c].query, state.since = call[c].since
  PROVE  Abstract!Next
<1>1. Reading' = [Reading EXCEPT ![c] = ReadOf(state)]
  BY ReadingStep
<1>2. Reading[c] = [pc |-> "reading", query |-> call[c].query, since |-> call[c].since,
                    result |-> Null]
  BY DEF Reading, ReadOf
<1>3. ReadOf(state) = [Reading[c] EXCEPT !.pc = "failed"]
  BY <1>2 DEF ReadOf
<1>4. Reading' = [Reading EXCEPT ![c].pc = "failed"] /\ Reading[c].pc = "reading"
  BY <1>1, <1>2, <1>3
<1>5. Abstract!Fail(c)
  BY <1>4 DEF Abstract!Fail, Reading, ReadOf
<1> QED BY <1>5 DEF Abstract!Next

LEMMA SeesReturn ==
  ASSUME IInv, NEW c \in Callers, NEW state, call' = [call EXCEPT ![c] = state], UNCHANGED chain,
         call[c].pc \in {"building", "asking"},
         state.pc = "done", state.query = call[c].query, state.since = call[c].since,
         state.result \in Abstract!Results(call[c].query, call[c].since, Len(chain))
  PROVE  Abstract!Next
<1>1. Reading' = [Reading EXCEPT ![c] = ReadOf(state)]
  BY ReadingStep
<1>2. Reading[c] = [pc |-> "reading", query |-> call[c].query, since |-> call[c].since,
                    result |-> Null]
  BY DEF Reading, ReadOf
<1>3. ReadOf(state) = [pc |-> "done", query |-> call[c].query, since |-> call[c].since,
                       result |-> state.result]
  BY DEF ReadOf
<1>4. DOMAIN Reading = Callers /\ Reading = [d \in Callers |-> Reading[d]]
  BY DEF Reading
<1> HIDE DEF Reading, ReadOf
<1>5. Reading' = [Reading EXCEPT ![c].pc = "done", ![c].result = state.result]
  <2> DEFINE opened == [Reading EXCEPT ![c].pc = "done"]
             ended == [opened EXCEPT ![c].result = state.result]
  <2>1. opened[c] = [pc |-> "done", query |-> call[c].query, since |-> call[c].since,
                     result |-> Null]
    BY <1>2, <1>4
  <2>2. /\ DOMAIN opened = Callers
        /\ \A d \in Callers : d # c => opened[d] = Reading[d]
    BY <1>4
  <2> HIDE DEF opened
  <2>3. ended[c] = ReadOf(state)
    BY <1>3, <2>1, <2>2
  <2>4. /\ ended = [d \in Callers |-> ended[d]]
        /\ \A d \in Callers : d # c => ended[d] = Reading[d]
    BY <2>2
  <2> HIDE DEF ended
  <2>5. Reading' = ended
    BY <1>1, <1>4, <2>3, <2>4
  <2> QED BY <2>5 DEF ended, opened
<1>6. /\ Reading[c].pc = "reading"
      /\ state.result \in Abstract!Results(Reading[c].query, Reading[c].since, Len(chain))
  BY <1>2
<1>7. Abstract!Return(c)
  BY <1>5, <1>6 DEF Abstract!Return, Reading, ReadOf
<1> QED BY <1>7 DEF Abstract!Next

(* The steps of Queries as Reads sees them.                                  *)
ReadsStep == Abstract!Next \/ UNCHANGED Abstract!vars

LEMMA StartSeen ==
  ASSUME IInv, NEW c \in Callers, NEW query \in Questions[c],
         Start(c, query) \/ Refuse(c, query)
  PROVE  ReadsStep
<1>1. UNCHANGED chain /\ call[c].pc = "idle"
  BY DEF Start, Refuse
<1>2. ASSUME Start(c, query) PROVE ReadsStep
  <2> DEFINE state == [Unread EXCEPT !.pc    = IF client = Null THEN "building" ELSE "asking",
                                     !.query = query,
                                     !.since = Len(chain),
                                     !.via   = client,
                                     !.todo  = {Opening(query)}]
  <2>1. call' = [call EXCEPT ![c] = state]
    BY <1>2 DEF Start
  <2>2. ReadOf(state) = [pc |-> "reading", query |-> query, since |-> Len(chain), result |-> Null]
    BY DEF Unread, ReadOf
  <2> HIDE DEF state
  <2> QED BY <1>1, <2>1, <2>2, SeesBegin DEF ReadsStep
<1>3. ASSUME Refuse(c, query) PROVE ReadsStep
  <2> DEFINE state == [Unread EXCEPT !.pc = "failed", !.query = query, !.since = Len(chain),
                                     !.result = Err("InvalidInput")]
  <2>1. call' = [call EXCEPT ![c] = state]
    BY <1>3 DEF Refuse
  <2>2. ReadOf(state) = [pc |-> "failed", query |-> query, since |-> Len(chain), result |-> Null]
    BY DEF Unread, ReadOf
  <2> HIDE DEF state
  <2> QED BY <1>1, <2>1, <2>2, SeesRefusal DEF ReadsStep
<1> QED BY <1>2, <1>3

LEMMA AsksSeen ==
  ASSUME IInv, NEW c \in Callers, Build(c) \/ \E request : Send(c, request)
  PROVE  ReadsStep
<1>1. CallOk(call[c], client, Len(chain)) /\ UNCHANGED chain
  BY DEF Build, Send, IInv
<1>2. ASSUME Build(c) PROVE ReadsStep
  <2> DEFINE state == [call[c] EXCEPT !.pc = "asking", !.via = client']
  <2>1. call' = [call EXCEPT ![c] = state] /\ call[c].pc = "building"
    BY <1>2 DEF Build, IInv, Typed
  <2>2. ReadOf(state) = ReadOf(call[c])
    BY <1>1, <2>1 DEF ReadOf, CallOk, Shaped
  <2> HIDE DEF state
  <2> QED BY <1>1, <2>1, <2>2, SeesNothing DEF ReadsStep
<1>3. ASSUME NEW request, Send(c, request) PROVE ReadsStep
  <2> DEFINE state == [call[c] EXCEPT !.todo = @ \ {request}, !.sent = @ \cup {request}]
  <2>1. call' = [call EXCEPT ![c] = state]
    BY <1>3 DEF Send, IInv, Typed
  <2>2. ReadOf(state) = ReadOf(call[c])
    BY <1>1, <2>1 DEF ReadOf, CallOk, Shaped
  <2> HIDE DEF state
  <2> QED BY <1>1, <2>1, <2>2, SeesNothing DEF ReadsStep
<1> QED BY <1>2, <1>3

LEMMA EndSeen ==
  ASSUME IInv, NEW c \in Callers, call[c].pc \in {"building", "asking"}, UNCHANGED chain,
         NEW error, call' = [call EXCEPT ![c] = Ended(call[c], "failed", error)]
  PROVE  ReadsStep
<1> DEFINE state == Ended(call[c], "failed", error)
<1>1. state.pc = "failed" /\ state.query = call[c].query /\ state.since = call[c].since
  BY DEF Ended, IInv, CallOk, Shaped
<1> HIDE DEF state
<1>2. Abstract!Next
  BY <1>1, SeesFailure DEF state
<1> QED BY <1>2 DEF ReadsStep

LEMMA FailureSeen ==
  ASSUME IInv, NEW c \in Callers,
         BuildFails(c) \/ \E request \in call[c].sent : Fail(c, request)
  PROVE  ReadsStep
<1>1. UNCHANGED chain /\ call[c].pc \in {"building", "asking"}
  BY DEF BuildFails, Fail, IInv, CallOk
<1>2. PICK error : call' = [call EXCEPT ![c] = Ended(call[c], "failed", error)]
  BY DEF BuildFails, Fail, IInv, Typed
<1> QED BY <1>1, <1>2, EndSeen

LEMMA ReceiveSeen ==
  ASSUME IInv, AskInv, NEW c \in Callers, NEW request, Receive(c, request)
  PROVE  ReadsStep
<1>1. /\ CallOk(call[c], client, Len(chain)) /\ call[c].pc \in {"building", "asking"}
      /\ UNCHANGED chain
  BY DEF Receive, IInv, CallOk
<1>2. /\ chain \in Seq(Worlds) /\ Len(chain) \in Nat
      /\ call[c].since \in 1 .. Len(chain) /\ WellFormed(call[c].query)
  BY <1>1, QuestionsAssumption DEF IInv, Typed, AskInv, AskOk, Asking
<1>3. ASSUME Unanswered(c) PROVE ReadsStep
  BY <1>1, <1>3, EndSeen DEF Unanswered
<1>4. ASSUME NEW result, AnsweredBy(c, result) PROVE ReadsStep
  <2> DEFINE state == Ended(call[c], "done", result)
  <2>1. /\ state.pc = "done" /\ state.query = call[c].query /\ state.since = call[c].since
        /\ state.result = result /\ call' = [call EXCEPT ![c] = state]
    BY <1>1, <1>4 DEF Ended, CallOk, Shaped, AnsweredBy
  <2> HIDE DEF state
  <2>2. CASE call[c].query.op \in Operations
    <3>1. result \in Abstract!Results(call[c].query, call[c].since, Len(chain))
      BY <1>2, <1>4, <2>2, AnswerAllowed DEF AnsweredBy, Answers
    <3>2. Abstract!Next
      BY <1>1, <2>1, <3>1, SeesReturn
    <3> QED BY <3>2 DEF ReadsStep
  <2>3. CASE call[c].query.op = Overview
    <3>1. result \in Abstract!Results(call[c].query, call[c].since, Len(chain))
      BY <1>2, <1>4, <2>3, OverviewAllowed DEF AnsweredBy, Answers
    <3>2. Abstract!Next
      BY <1>1, <2>1, <3>1, SeesReturn
    <3> QED BY <3>2 DEF ReadsStep
  <2> QED BY <1>2, <2>2, <2>3 DEF WellFormed
<1>5. ASSUME NEW todo, NEW sent, NEW got, AsksOn(c, todo, sent, got) PROVE ReadsStep
  <2> DEFINE state == [call[c] EXCEPT !.todo = todo, !.sent = sent, !.got = got]
  <2>1. call' = [call EXCEPT ![c] = state]
    BY <1>5 DEF AsksOn
  <2>2. ReadOf(state) = ReadOf(call[c])
    BY <1>1 DEF ReadOf, CallOk, Shaped
  <2> HIDE DEF state
  <2> QED BY <1>1, <2>1, <2>2, SeesNothing DEF ReadsStep
<1> QED BY <1>3, <1>4, <1>5, ReceiveKnows

LEMMA NextSeen == IInv /\ AskInv /\ [Next]_vars => ReadsStep
<1> SUFFICES ASSUME IInv, AskInv, [Next]_vars PROVE ReadsStep
  OBVIOUS
<1>1. CASE BuiltElsewhere \/ UNCHANGED vars
  <2>1. UNCHANGED <<chain, call>>
    BY <1>1 DEF BuiltElsewhere, vars
  <2>2. UNCHANGED <<chain, Reading>>
    BY <2>1 DEF Reading, ReadOf
  <2>3. UNCHANGED Abstract!vars
    BY <2>2 DEF Abstract!vars, Reading, ReadOf
  <2> QED BY <2>3 DEF ReadsStep
<1>2. CASE Grow
  <2>1. UNCHANGED Reading
    BY <1>2 DEF Grow, Reading, ReadOf
  <2>2. Abstract!Grow
    BY <1>2, <2>1 DEF Grow, Abstract!Grow, Reading, ReadOf
  <2> QED BY <2>2 DEF ReadsStep, Abstract!Next
<1> QED BY <1>1, <1>2, StartSeen, AsksSeen, FailureSeen, ReceiveSeen DEF Next

(* Whatever requests a query makes, and however the index grows between them:  *)
(* most answers are what the index held at one block since the call, in       *)
(* however many pages they came; the channels of a safe and an overview of a  *)
(* node are from that block and later ones, and leave nothing out that was     *)
(* there all the time (the queries of BlokliClient, node_overview of the       *)
(* inspector).                                                             *)
THEOREM KeepsItsPromise == Spec => ImplementsReads
<1>1. Init => Abstract!Init
  <2>1. Init => Reading = [c \in Callers |-> Abstract!Unread]
    BY DEF Init, Reading, ReadOf, Unread, Abstract!Unread
  <2> QED BY <2>1, ReadsSame DEF Init
<1>2. Init => IInv /\ AskInv
  BY InitIInv DEF Init, AskInv, AskOk, Unread
<1>3. IInv /\ AskInv /\ [Next]_vars => IInv' /\ AskInv' /\ ReadsStep
  BY NextIInv, NextAsks, NextSeen
<1> QED BY <1>1, <1>2, <1>3, PTL DEF Spec, ImplementsReads, Abstract!Spec, ReadsStep

-----------------------------------------------------------------------------
(* The errors of Blokli.  Each has a kind of its own, ...                    *)
AllErrors == DOMAIN QueryErrorKinds \cup DOMAIN TransactionErrorKinds

LEMMA KindsDiffer ==
  \A m, n \in AllErrors : KindOf(m) # "NoData" /\ (KindOf(m) = KindOf(n) => m = n)
<1>1. /\ KindOf("QueryFailedError") = "query failed"
      /\ KindOf("MissingFilterError") = "missing filter"
      /\ KindOf("InvalidAddressError") = "invalid address"
  BY DEF KindOf, QueryErrorKinds
<1>2. /\ KindOf("InvalidTransactionIdError") = "invalid transaction id"
      /\ KindOf("TimeoutError") = "timeout"
      /\ KindOf("RpcError") = "rpc error"
      /\ KindOf("OverloadedError") = "overloaded"
  BY DEF KindOf, QueryErrorKinds, TransactionErrorKinds
<1>3. /\ KindOf("FunctionNotAllowedError") = "function not allowed"
      /\ KindOf("ContractNotAllowedError") = "contract not allowed"
      /\ KindOf("HoprActionRejectedError") = "HoprActionRejected"
      /\ KindOf("HoprActionThrottledError") = "HoprActionThrottled"
  BY DEF KindOf, QueryErrorKinds, TransactionErrorKinds
<1>4. AllErrors = {"QueryFailedError", "MissingFilterError", "InvalidAddressError",
                   "InvalidTransactionIdError", "TimeoutError", "RpcError", "OverloadedError",
                   "FunctionNotAllowedError", "ContractNotAllowedError",
                   "HoprActionRejectedError", "HoprActionThrottledError"}
  BY DEF AllErrors, QueryErrorKinds, TransactionErrorKinds
<1> HIDE DEF AllErrors
<1>5. \A m \in AllErrors : KindOf(m) # "NoData"
  BY <1>1, <1>2, <1>3, <1>4
<1> DEFINE Only(n) == \A m \in AllErrors : KindOf(m) = KindOf(n) => m = n
<1>6. Only("QueryFailedError")
  BY <1>1, <1>2, <1>3, <1>4
<1>7. Only("MissingFilterError")
  BY <1>1, <1>2, <1>3, <1>4
<1>8. Only("InvalidAddressError")
  BY <1>1, <1>2, <1>3, <1>4
<1>9. Only("InvalidTransactionIdError")
  BY <1>1, <1>2, <1>3, <1>4
<1>10. Only("TimeoutError")
  BY <1>1, <1>2, <1>3, <1>4
<1>11. Only("RpcError")
  BY <1>1, <1>2, <1>3, <1>4
<1>12. Only("OverloadedError")
  BY <1>1, <1>2, <1>3, <1>4
<1>13. Only("FunctionNotAllowedError")
  BY <1>1, <1>2, <1>3, <1>4
<1>14. Only("ContractNotAllowedError")
  BY <1>1, <1>2, <1>3, <1>4
<1>15. Only("HoprActionRejectedError")
  BY <1>1, <1>2, <1>3, <1>4
<1>16. Only("HoprActionThrottledError")
  BY <1>1, <1>2, <1>3, <1>4
<1> HIDE DEF Only
<1>17. \A n \in AllErrors : Only(n)
  BY <1>4, <1>6, <1>7, <1>8, <1>9, <1>10, <1>11, <1>12, <1>13, <1>14, <1>15, <1>16
<1> QED BY <1>5, <1>17 DEF Only

(* ... so that a union that has them tells them apart.                       *)
Told(root, member) == Outcome(root, Response(member, "absent"))
ErrorsAmong(root, members) == {m \in members : ~Told(root, m).ok}
ToldApart(root, members) ==
  /\ ErrorsAmong(root, members) = members \cap AllErrors
  /\ \A m \in ErrorsAmong(root, members) : Told(root, m) # Err("NoData")
  /\ \A m, n \in ErrorsAmong(root, members) : m # n => Told(root, m) # Told(root, n)

Has(root, successes, errors) ==
  /\ IsUnion(root) /\ UnionOf(root) = Union(successes, errors)
  /\ errors \subseteq AllErrors
  /\ successes \cap AllErrors = {}
  /\ NoMember \notin successes /\ NullRoot \notin successes

LEMMA UnionTellsApart ==
  ASSUME NEW root, NEW successes, NEW errors, Has(root, successes, errors)
  PROVE  ToldApart(root, successes \cup errors)
<1> DEFINE members == successes \cup errors
<1>1. \A m \in AllErrors : m # NoMember /\ m # NullRoot
  BY DEF AllErrors, NoMember, NullRoot, QueryErrorKinds, TransactionErrorKinds
<1>2. ASSUME NEW m \in members PROVE Told(root, m) = FromUnion(UnionOf(root), m)
  <2>1. m # NoMember /\ m # NullRoot
    BY <1>1 DEF Has
  <2>2. Response(m, "absent").data = m
    BY DEF Response
  <2>3. ResponseToData(Response(m, "absent")) = Ok /\ Ok.ok = TRUE
    BY <2>1, <2>2 DEF ResponseToData, Ok
  <2> QED BY <2>1, <2>2, <2>3 DEF Told, Outcome, Has
<1>3. UnionOf(root).successes = successes /\ UnionOf(root).errors = errors
  BY DEF Has, Union
<1>4. \A m \in successes : Told(root, m).ok = TRUE
  BY <1>2, <1>3 DEF FromUnion, Ok
<1>5. \A m \in errors : Told(root, m) = Err(KindOf(m)) /\ Told(root, m).ok = FALSE
  BY <1>2, <1>3 DEF FromUnion, Err, Has
<1>6. \A j, k : Err(j) = Err(k) => j = k
  <2>1. \A k : Err(k).error = k
    BY DEF Err
  <2> QED BY <2>1
<1>7. \A m \in members : m \in AllErrors <=> m \in errors
  BY DEF Has
<1>8. ErrorsAmong(root, members) = errors
  BY <1>4, <1>5, <1>7 DEF ErrorsAmong, Has
<1>9. \A m \in errors : m \in AllErrors
  BY DEF Has
<1> QED BY <1>5, <1>6, <1>7, <1>8, <1>9, KindsDiffer DEF ToldApart

(* The unions of the client, but for the one that lacks a member, are those    *)
(* of the schema.                                                          *)
Unlisted(root) == IF root = "channels" THEN {"InvalidAddressError"} ELSE {}
Listed(root) == SchemaUnions[root] \ Unlisted(root)

IsListed(root) ==
  \E successes, errors : Has(root, successes, errors) /\ Listed(root) = successes \cup errors

LEMMA UnionListed ==
  ASSUME NEW root, NEW union, IsUnion(root), UnionOf(root) = union,
         NEW successes, NEW errors, union = Union(successes, errors),
         errors \subseteq AllErrors,
         \A m \in successes : m \notin AllErrors /\ m # NoMember /\ m # NullRoot,
         Listed(root) = successes \cup errors
  PROVE  IsListed(root)
<1>1. Has(root, successes, errors)
  BY DEF Has
<1> QED BY <1>1 DEF IsListed

LEMMA ErrorsUsed ==
  /\ OnlyQueryFailed \subseteq AllErrors
  /\ AddressErrors \subseteq AllErrors
  /\ FilterErrors \subseteq AllErrors /\ {"InvalidTransactionIdError"} \subseteq AllErrors
  /\ PolicyErrors \cup {"RpcError", "OverloadedError", "TimeoutError"} \subseteq AllErrors
  BY DEF OnlyQueryFailed, AddressErrors, FilterErrors, PolicyErrors, AllErrors, QueryErrorKinds,
         TransactionErrorKinds

LEMMA SubmissionsListed ==
  \A root \in {"send_transaction", "send_transaction_async", "send_transaction_sync"} : IsListed(root)
<1> USE DEF Listed, Unlisted, SchemaUnions, UnionOf, IsUnion
<1>1. IsListed("send_transaction")
  <2>1. IsUnion("send_transaction") /\ UnionOf("send_transaction") = Union({"SendTransactionSuccess"}, PolicyErrors \cup {"RpcError"})
    BY DEF SendUnions
  <2>2. Listed("send_transaction") = {"SendTransactionSuccess"} \cup PolicyErrors \cup {"RpcError"}
    BY DEF OnlyQueryFailed, AddressErrors, FilterErrors, PolicyErrors
  <2>3. \A m \in {"SendTransactionSuccess"} : m \notin AllErrors /\ m # NoMember /\ m # NullRoot
    BY DEF AllErrors, QueryErrorKinds, TransactionErrorKinds, NoMember, NullRoot
  <2> QED BY <2>1, <2>2, <2>3, ErrorsUsed, UnionListed
<1>2. IsListed("send_transaction_async")
  <2>1. IsUnion("send_transaction_async") /\ UnionOf("send_transaction_async") = Union({"Transaction", "DeduplicatedTransaction"}, PolicyErrors \cup {"RpcError", "OverloadedError"})
    BY DEF SendUnions
  <2>2. Listed("send_transaction_async") = {"Transaction", "DeduplicatedTransaction"} \cup PolicyErrors \cup {"RpcError", "OverloadedError"}
    BY DEF OnlyQueryFailed, AddressErrors, FilterErrors, PolicyErrors
  <2>3. \A m \in {"Transaction", "DeduplicatedTransaction"} : m \notin AllErrors /\ m # NoMember /\ m # NullRoot
    BY DEF AllErrors, QueryErrorKinds, TransactionErrorKinds, NoMember, NullRoot
  <2> QED BY <2>1, <2>2, <2>3, ErrorsUsed, UnionListed
<1>3. IsListed("send_transaction_sync")
  <2>1. IsUnion("send_transaction_sync") /\ UnionOf("send_transaction_sync") = Union({"Transaction"}, PolicyErrors \cup {"RpcError", "TimeoutError"})
    BY DEF SendUnions
  <2>2. Listed("send_transaction_sync") = {"Transaction"} \cup PolicyErrors \cup {"RpcError", "TimeoutError"}
    BY DEF OnlyQueryFailed, AddressErrors, FilterErrors, PolicyErrors
  <2>3. \A m \in {"Transaction"} : m \notin AllErrors /\ m # NoMember /\ m # NullRoot
    BY DEF AllErrors, QueryErrorKinds, TransactionErrorKinds, NoMember, NullRoot
  <2> QED BY <2>1, <2>2, <2>3, ErrorsUsed, UnionListed
<1> QED BY <1>1, <1>2, <1>3

LEMMA AccountsListed ==
  \A root \in {"accounts", "account_count", "transaction_count"} : IsListed(root)
<1> USE DEF Listed, Unlisted, SchemaUnions, UnionOf, IsUnion
<1>1. IsListed("accounts")
  <2>1. IsUnion("accounts") /\ UnionOf("accounts") = Union({"AccountsList"}, FilterErrors)
    BY DEF SendUnions, AccountUnions
  <2>2. Listed("accounts") = {"AccountsList"} \cup FilterErrors
    BY DEF OnlyQueryFailed, AddressErrors, FilterErrors, PolicyErrors
  <2>3. \A m \in {"AccountsList"} : m \notin AllErrors /\ m # NoMember /\ m # NullRoot
    BY DEF AllErrors, QueryErrorKinds, TransactionErrorKinds, NoMember, NullRoot
  <2> QED BY <2>1, <2>2, <2>3, ErrorsUsed, UnionListed
<1>2. IsListed("account_count")
  <2>1. IsUnion("account_count") /\ UnionOf("account_count") = Union({"Count"}, FilterErrors)
    BY DEF SendUnions, AccountUnions, CountUnion
  <2>2. Listed("account_count") = {"Count"} \cup FilterErrors
    BY DEF OnlyQueryFailed, AddressErrors, FilterErrors, PolicyErrors
  <2>3. \A m \in {"Count"} : m \notin AllErrors /\ m # NoMember /\ m # NullRoot
    BY DEF AllErrors, QueryErrorKinds, TransactionErrorKinds, NoMember, NullRoot
  <2> QED BY <2>1, <2>2, <2>3, ErrorsUsed, UnionListed
<1>3. IsListed("transaction_count")
  <2>1. IsUnion("transaction_count") /\ UnionOf("transaction_count") = Union({"TransactionCount"}, AddressErrors)
    BY DEF SendUnions, AccountUnions
  <2>2. Listed("transaction_count") = {"TransactionCount"} \cup AddressErrors
    BY DEF OnlyQueryFailed, AddressErrors, FilterErrors, PolicyErrors
  <2>3. \A m \in {"TransactionCount"} : m \notin AllErrors /\ m # NoMember /\ m # NullRoot
    BY DEF AllErrors, QueryErrorKinds, TransactionErrorKinds, NoMember, NullRoot
  <2> QED BY <2>1, <2>2, <2>3, ErrorsUsed, UnionListed
<1> QED BY <1>1, <1>2, <1>3

LEMMA ChannelsListed ==
  \A root \in {"channels", "channel_count", "channel_stats", "safes_balance"} : IsListed(root)
<1> USE DEF Listed, Unlisted, SchemaUnions, UnionOf, IsUnion
<1>1. IsListed("channels")
  <2>1. IsUnion("channels") /\ UnionOf("channels") = Union({"ChannelsList"}, FilterErrors)
    BY DEF SendUnions, AccountUnions, ChannelUnions
  <2>2. Listed("channels") = {"ChannelsList"} \cup FilterErrors
    BY DEF OnlyQueryFailed, AddressErrors, FilterErrors, PolicyErrors
  <2>3. \A m \in {"ChannelsList"} : m \notin AllErrors /\ m # NoMember /\ m # NullRoot
    BY DEF AllErrors, QueryErrorKinds, TransactionErrorKinds, NoMember, NullRoot
  <2> QED BY <2>1, <2>2, <2>3, ErrorsUsed, UnionListed
<1>2. IsListed("channel_count")
  <2>1. IsUnion("channel_count") /\ UnionOf("channel_count") = Union({"Count"}, FilterErrors)
    BY DEF SendUnions, AccountUnions, ChannelUnions, CountUnion
  <2>2. Listed("channel_count") = {"Count"} \cup FilterErrors
    BY DEF OnlyQueryFailed, AddressErrors, FilterErrors, PolicyErrors
  <2>3. \A m \in {"Count"} : m \notin AllErrors /\ m # NoMember /\ m # NullRoot
    BY DEF AllErrors, QueryErrorKinds, TransactionErrorKinds, NoMember, NullRoot
  <2> QED BY <2>1, <2>2, <2>3, ErrorsUsed, UnionListed
<1>3. IsListed("channel_stats")
  <2>1. IsUnion("channel_stats") /\ UnionOf("channel_stats") = Union({"ChannelStats"}, AddressErrors)
    BY DEF SendUnions, AccountUnions, ChannelUnions
  <2>2. Listed("channel_stats") = {"ChannelStats"} \cup AddressErrors
    BY DEF OnlyQueryFailed, AddressErrors, FilterErrors, PolicyErrors
  <2>3. \A m \in {"ChannelStats"} : m \notin AllErrors /\ m # NoMember /\ m # NullRoot
    BY DEF AllErrors, QueryErrorKinds, TransactionErrorKinds, NoMember, NullRoot
  <2> QED BY <2>1, <2>2, <2>3, ErrorsUsed, UnionListed
<1>4. IsListed("safes_balance")
  <2>1. IsUnion("safes_balance") /\ UnionOf("safes_balance") = Union({"SafesBalance"}, AddressErrors)
    BY DEF SendUnions, AccountUnions, ChannelUnions
  <2>2. Listed("safes_balance") = {"SafesBalance"} \cup AddressErrors
    BY DEF OnlyQueryFailed, AddressErrors, FilterErrors, PolicyErrors
  <2>3. \A m \in {"SafesBalance"} : m \notin AllErrors /\ m # NoMember /\ m # NullRoot
    BY DEF AllErrors, QueryErrorKinds, TransactionErrorKinds, NoMember, NullRoot
  <2> QED BY <2>1, <2>2, <2>3, ErrorsUsed, UnionListed
<1> QED BY <1>1, <1>2, <1>3, <1>4

LEMMA ServicesListed ==
  \A root \in {"services", "service_count", "service_types", "service_registry_config"} : IsListed(root)
<1> USE DEF Listed, Unlisted, SchemaUnions, UnionOf, IsUnion
<1>1. IsListed("services")
  <2>1. IsUnion("services") /\ UnionOf("services") = Union({"ServicesList"}, FilterErrors)
    BY DEF SendUnions, AccountUnions, ChannelUnions, ServiceUnions
  <2>2. Listed("services") = {"ServicesList"} \cup FilterErrors
    BY DEF OnlyQueryFailed, AddressErrors, FilterErrors, PolicyErrors
  <2>3. \A m \in {"ServicesList"} : m \notin AllErrors /\ m # NoMember /\ m # NullRoot
    BY DEF AllErrors, QueryErrorKinds, TransactionErrorKinds, NoMember, NullRoot
  <2> QED BY <2>1, <2>2, <2>3, ErrorsUsed, UnionListed
<1>2. IsListed("service_count")
  <2>1. IsUnion("service_count") /\ UnionOf("service_count") = Union({"Count"}, FilterErrors)
    BY DEF SendUnions, AccountUnions, ChannelUnions, ServiceUnions, CountUnion
  <2>2. Listed("service_count") = {"Count"} \cup FilterErrors
    BY DEF OnlyQueryFailed, AddressErrors, FilterErrors, PolicyErrors
  <2>3. \A m \in {"Count"} : m \notin AllErrors /\ m # NoMember /\ m # NullRoot
    BY DEF AllErrors, QueryErrorKinds, TransactionErrorKinds, NoMember, NullRoot
  <2> QED BY <2>1, <2>2, <2>3, ErrorsUsed, UnionListed
<1>3. IsListed("service_types")
  <2>1. IsUnion("service_types") /\ UnionOf("service_types") = Union({"ServiceTypesList"}, OnlyQueryFailed)
    BY DEF SendUnions, AccountUnions, ChannelUnions, ServiceUnions
  <2>2. Listed("service_types") = {"ServiceTypesList"} \cup OnlyQueryFailed
    BY DEF OnlyQueryFailed, AddressErrors, FilterErrors, PolicyErrors
  <2>3. \A m \in {"ServiceTypesList"} : m \notin AllErrors /\ m # NoMember /\ m # NullRoot
    BY DEF AllErrors, QueryErrorKinds, TransactionErrorKinds, NoMember, NullRoot
  <2> QED BY <2>1, <2>2, <2>3, ErrorsUsed, UnionListed
<1>4. IsListed("service_registry_config")
  <2>1. IsUnion("service_registry_config") /\ UnionOf("service_registry_config") = Union({"ServiceRegistryConfig"}, OnlyQueryFailed)
    BY DEF SendUnions, AccountUnions, ChannelUnions, ServiceUnions
  <2>2. Listed("service_registry_config") = {"ServiceRegistryConfig"} \cup OnlyQueryFailed
    BY DEF OnlyQueryFailed, AddressErrors, FilterErrors, PolicyErrors
  <2>3. \A m \in {"ServiceRegistryConfig"} : m \notin AllErrors /\ m # NoMember /\ m # NullRoot
    BY DEF AllErrors, QueryErrorKinds, TransactionErrorKinds, NoMember, NullRoot
  <2> QED BY <2>1, <2>2, <2>3, ErrorsUsed, UnionListed
<1> QED BY <1>1, <1>2, <1>3, <1>4

LEMMA SafesListed ==
  \A root \in {"safe_by", "calculate_module_address"} : IsListed(root)
<1> USE DEF Listed, Unlisted, SchemaUnions, UnionOf, IsUnion
<1>1. IsListed("safe_by")
  <2>1. IsUnion("safe_by") /\ UnionOf("safe_by") = Union({"SafesList"}, AddressErrors)
    BY DEF SendUnions, AccountUnions, ChannelUnions, ServiceUnions, SafeUnions
  <2>2. Listed("safe_by") = {"SafesList"} \cup AddressErrors
    BY DEF OnlyQueryFailed, AddressErrors, FilterErrors, PolicyErrors
  <2>3. \A m \in {"SafesList"} : m \notin AllErrors /\ m # NoMember /\ m # NullRoot
    BY DEF AllErrors, QueryErrorKinds, TransactionErrorKinds, NoMember, NullRoot
  <2> QED BY <2>1, <2>2, <2>3, ErrorsUsed, UnionListed
<1>2. IsListed("calculate_module_address")
  <2>1. IsUnion("calculate_module_address") /\ UnionOf("calculate_module_address") = Union({"ModuleAddress"}, AddressErrors)
    BY DEF SendUnions, AccountUnions, ChannelUnions, ServiceUnions, SafeUnions
  <2>2. Listed("calculate_module_address") = {"ModuleAddress"} \cup AddressErrors
    BY DEF OnlyQueryFailed, AddressErrors, FilterErrors, PolicyErrors
  <2>3. \A m \in {"ModuleAddress"} : m \notin AllErrors /\ m # NoMember /\ m # NullRoot
    BY DEF AllErrors, QueryErrorKinds, TransactionErrorKinds, NoMember, NullRoot
  <2> QED BY <2>1, <2>2, <2>3, ErrorsUsed, UnionListed
<1> QED BY <1>1, <1>2

LEMMA BalancesListed ==
  \A root \in {"hopr_balance", "native_balance", "safe_hopr_allowance", "ticket_redemption_stats"} : IsListed(root)
<1> USE DEF Listed, Unlisted, SchemaUnions, UnionOf, IsUnion
<1>1. IsListed("hopr_balance")
  <2>1. IsUnion("hopr_balance") /\ UnionOf("hopr_balance") = Union({"HoprBalance"}, AddressErrors)
    BY DEF SendUnions, AccountUnions, ChannelUnions, ServiceUnions, SafeUnions, BalanceUnions
  <2>2. Listed("hopr_balance") = {"HoprBalance"} \cup AddressErrors
    BY DEF OnlyQueryFailed, AddressErrors, FilterErrors, PolicyErrors
  <2>3. \A m \in {"HoprBalance"} : m \notin AllErrors /\ m # NoMember /\ m # NullRoot
    BY DEF AllErrors, QueryErrorKinds, TransactionErrorKinds, NoMember, NullRoot
  <2> QED BY <2>1, <2>2, <2>3, ErrorsUsed, UnionListed
<1>2. IsListed("native_balance")
  <2>1. IsUnion("native_balance") /\ UnionOf("native_balance") = Union({"NativeBalance"}, AddressErrors)
    BY DEF SendUnions, AccountUnions, ChannelUnions, ServiceUnions, SafeUnions, BalanceUnions
  <2>2. Listed("native_balance") = {"NativeBalance"} \cup AddressErrors
    BY DEF OnlyQueryFailed, AddressErrors, FilterErrors, PolicyErrors
  <2>3. \A m \in {"NativeBalance"} : m \notin AllErrors /\ m # NoMember /\ m # NullRoot
    BY DEF AllErrors, QueryErrorKinds, TransactionErrorKinds, NoMember, NullRoot
  <2> QED BY <2>1, <2>2, <2>3, ErrorsUsed, UnionListed
<1>3. IsListed("safe_hopr_allowance")
  <2>1. IsUnion("safe_hopr_allowance") /\ UnionOf("safe_hopr_allowance") = Union({"SafeHoprAllowance"}, AddressErrors)
    BY DEF SendUnions, AccountUnions, ChannelUnions, ServiceUnions, SafeUnions, BalanceUnions
  <2>2. Listed("safe_hopr_allowance") = {"SafeHoprAllowance"} \cup AddressErrors
    BY DEF OnlyQueryFailed, AddressErrors, FilterErrors, PolicyErrors
  <2>3. \A m \in {"SafeHoprAllowance"} : m \notin AllErrors /\ m # NoMember /\ m # NullRoot
    BY DEF AllErrors, QueryErrorKinds, TransactionErrorKinds, NoMember, NullRoot
  <2> QED BY <2>1, <2>2, <2>3, ErrorsUsed, UnionListed
<1>4. IsListed("ticket_redemption_stats")
  <2>1. IsUnion("ticket_redemption_stats") /\ UnionOf("ticket_redemption_stats") = Union({"RedeemedStats"}, AddressErrors \cup FilterErrors)
    BY DEF SendUnions, AccountUnions, ChannelUnions, ServiceUnions, SafeUnions, BalanceUnions
  <2>2. Listed("ticket_redemption_stats") = {"RedeemedStats"} \cup AddressErrors \cup FilterErrors
    BY DEF OnlyQueryFailed, AddressErrors, FilterErrors, PolicyErrors
  <2>3. \A m \in {"RedeemedStats"} : m \notin AllErrors /\ m # NoMember /\ m # NullRoot
    BY DEF AllErrors, QueryErrorKinds, TransactionErrorKinds, NoMember, NullRoot
  <2> QED BY <2>1, <2>2, <2>3, ErrorsUsed, UnionListed
<1> QED BY <1>1, <1>2, <1>3, <1>4

LEMMA OthersListed ==
  \A root \in {"chain_info", "transaction"} : IsListed(root)
<1> USE DEF Listed, Unlisted, SchemaUnions, UnionOf, IsUnion
<1>1. IsListed("chain_info")
  <2>1. IsUnion("chain_info") /\ UnionOf("chain_info") = Union({"ChainInfo"}, OnlyQueryFailed)
    BY DEF ChainInfoUnion
  <2>2. Listed("chain_info") = {"ChainInfo"} \cup OnlyQueryFailed
    BY DEF OnlyQueryFailed, AddressErrors, FilterErrors, PolicyErrors
  <2>3. \A m \in {"ChainInfo"} : m \notin AllErrors /\ m # NoMember /\ m # NullRoot
    BY DEF AllErrors, QueryErrorKinds, TransactionErrorKinds, NoMember, NullRoot
  <2> QED BY <2>1, <2>2, <2>3, ErrorsUsed, UnionListed
<1>2. IsListed("transaction")
  <2>1. IsUnion("transaction") /\ UnionOf("transaction") = Union({"Transaction"}, {"InvalidTransactionIdError"})
    BY DEF TransactionUnion
  <2>2. Listed("transaction") = {"Transaction"} \cup {"InvalidTransactionIdError"}
    BY DEF OnlyQueryFailed, AddressErrors, FilterErrors, PolicyErrors
  <2>3. \A m \in {"Transaction"} : m \notin AllErrors /\ m # NoMember /\ m # NullRoot
    BY DEF AllErrors, QueryErrorKinds, TransactionErrorKinds, NoMember, NullRoot
  <2> QED BY <2>1, <2>2, <2>3, ErrorsUsed, UnionListed
<1> QED BY <1>1, <1>2

LEMMA UnionsListed ==
  ASSUME NEW root \in DOMAIN SchemaUnions
  PROVE  IsListed(root)
<1>1. DOMAIN SchemaUnions =
        {"send_transaction", "send_transaction_async", "send_transaction_sync",
         "accounts", "account_count", "transaction_count"}
        \cup {"channels", "channel_count", "channel_stats", "safes_balance", "services",
              "service_count", "service_types", "service_registry_config"}
        \cup {"safe_by", "calculate_module_address", "hopr_balance", "native_balance",
              "safe_hopr_allowance", "ticket_redemption_stats", "chain_info", "transaction"}
  BY DEF SchemaUnions
<1> QED
  BY <1>1, SubmissionsListed, AccountsListed, ChannelsListed, ServicesListed, SafesListed,
     BalancesListed, OthersListed

(* Each error that Blokli's schema lists for a root field reaches the caller   *)
(* as an error of a kind of its own, and never as an answer without data, but  *)
(* for the invalid address in the reply to channels, which the client's union *)
(* lacks (the conversions of client/src/api/v1/graphql, ErrorKind).          *)
THEOREM ErrorsApart == Spec => []ErrorsToldApart
<1>1. ErrorsToldApart
  <2>1. ASSUME NEW root \in DOMAIN SchemaUnions
        PROVE  ToldApart(root, Listed(root))
    BY <2>1, UnionsListed, UnionTellsApart DEF IsListed
  <2>2. AllErrors = DOMAIN QueryErrorKinds \cup DOMAIN TransactionErrorKinds
    BY DEF AllErrors
  <2> QED BY <2>1, <2>2, Zenon
             DEF ErrorsToldApart, ToldApart, ErrorsAmong, Listed, Unlisted, Told
<1> QED BY <1>1, PTL

-----------------------------------------------------------------------------
(* The options of the inspector.  None that is given is dropped on the way to  *)
(* the variables of the request.                                            *)
Kept(args, variables) == \A a \in DOMAIN args : args[a] # Null => variables[a] = args[a]
KeyIdOption(value) == value = Null \/ value \in 0 .. MaxInt

LEMMA KeyIdKept ==
  ASSUME NEW value, value # Null, KeyIdOption(value)
  PROVE  AsI32(value) = value
  BY SelectionAssumption DEF KeyIdOption, AsI32

LEMMA AccountOptionsKept ==
  ASSUME NEW args, DOMAIN args = AccountOptions, KeyIdOption(args.keyid),
         AccountArgs(args) # Refused
  PROVE  Kept(args, AccountVariables(AccountArgs(args)))
<1> DEFINE given == {a \in DOMAIN args : args[a] # Null}
           variables == AccountVariables(AccountArgs(args))
<1>1. /\ {"chain_key"} # {"keyid"} /\ {"chain_key"} # {"packet_key"} /\ {"keyid"} # {"packet_key"}
      /\ {"chain_key"} # {} /\ {"keyid"} # {} /\ {"packet_key"} # {}
  OBVIOUS
<1>2. /\ given = {"chain_key"} => AccountArgs(args) = AccountSelector("Address", args.chain_key)
      /\ given = {"keyid"} => AccountArgs(args) = AccountSelector("KeyId", args.keyid)
      /\ given = {"packet_key"} => AccountArgs(args) = AccountSelector("PacketKey", args.packet_key)
  <2> HIDE DEF given
  <2>1. given = {"chain_key"} => AccountArgs(args) = AccountSelector("Address", args.chain_key)
    BY <1>1, Zenon DEF AccountArgs, given
  <2>2. given = {"keyid"} => AccountArgs(args) = AccountSelector("KeyId", args.keyid)
    BY <1>1, Zenon DEF AccountArgs, given
  <2>3. given = {"packet_key"} => AccountArgs(args) = AccountSelector("PacketKey", args.packet_key)
    BY <1>1, Zenon DEF AccountArgs, given
  <2> QED BY <2>1, <2>2, <2>3
<1>3. given \in {{"chain_key"}, {"keyid"}, {"packet_key"}, {}}
  BY Zenon DEF AccountArgs
<1> HIDE DEF given
<1>4. \A a \in DOMAIN args : args[a] # Null <=> a \in given
  BY DEF given
<1>5. CASE given = {"chain_key"}
  <2>1. variables["chain_key"] = args["chain_key"]
    BY <1>2, <1>5 DEF AccountVariables, AccountSelector, Given
  <2> QED BY <1>4, <1>5, <2>1 DEF Kept
<1>6. CASE given = {"keyid"}
  <2>1. args["keyid"] # Null
    BY <1>4, <1>6 DEF AccountOptions
  <2>2. variables["keyid"] = args["keyid"]
    BY <1>2, <1>6, <2>1, KeyIdKept DEF AccountVariables, AccountSelector, Given
  <2> QED BY <1>4, <1>6, <2>2 DEF Kept
<1>7. CASE given = {"packet_key"}
  <2>1. variables["packet_key"] = args["packet_key"]
    BY <1>2, <1>7 DEF AccountVariables, AccountSelector, Given
  <2> QED BY <1>4, <1>7, <2>1 DEF Kept
<1>8. CASE given = {}
  BY <1>4, <1>8 DEF Kept
<1> QED BY <1>3, <1>5, <1>6, <1>7, <1>8

LEMMA ServiceOptionsKept ==
  ASSUME NEW args, DOMAIN args = ServiceOptions
  PROVE  Kept(args, ServiceVariables(ServiceArgs(args)))
<1>1. /\ args.service_type # Null => ServiceArgs(args).type = args.service_type
      /\ args.node # Null => ServiceArgs(args).node = args.node
  BY DEF ServiceArgs, ServiceSelector, Given
<1> QED BY <1>1 DEF Kept, ServiceVariables, ServiceOptions

(* A channel id goes alone; without one, the ends that are given are the ends *)
(* that the selector has.                                                  *)
LEMMA ChannelSelected ==
  ASSUME NEW args, DOMAIN args = ChannelOptions, ChannelArgs(args) # Refused
  PROVE  LET s == ChannelArgs(args)
         IN  /\ s.status = args.status /\ s.safe = args.safe_address
             /\ args.concrete_channel_id # Null =>
                  /\ s.filter = "ChannelId" /\ s.id = args.concrete_channel_id
                  /\ args.source_key_id = Null /\ args.destination_key_id = Null
             /\ args.source_key_id # Null => /\ s.filter \in BySource
                                             /\ s.source = args.source_key_id
             /\ args.destination_key_id # Null => /\ s.filter \in ByDestination
                                                  /\ s.destination = args.destination_key_id
             /\ s.filter = "None" <=> /\ args.concrete_channel_id = Null
                                      /\ args.source_key_id = Null
                                      /\ args.destination_key_id = Null
  BY DEF ChannelArgs, ChannelSelector, Given, BySource, ByDestination

LEMMA ChannelOptionsKept ==
  ASSUME NEW args, DOMAIN args = ChannelOptions, KeyIdOption(args.source_key_id),
         KeyIdOption(args.destination_key_id), ChannelArgs(args) # Refused
  PROVE  Kept(args, ChannelsVariables(ChannelArgs(args)))
<1> DEFINE s == ChannelArgs(args)
           variables == ChannelsVariables(s)
<1>1. /\ s.status = args.status /\ s.safe = args.safe_address
      /\ args.concrete_channel_id # Null => s.id = args.concrete_channel_id
      /\ args.source_key_id # Null => /\ s.filter \in BySource
                                      /\ s.source = args.source_key_id
      /\ args.destination_key_id # Null => /\ s.filter \in ByDestination
                                           /\ s.destination = args.destination_key_id
  BY ChannelSelected
<1>2. args.source_key_id # Null => AsI32(args.source_key_id) = args.source_key_id
  BY KeyIdKept
<1>3. args.destination_key_id # Null => AsI32(args.destination_key_id) = args.destination_key_id
  BY KeyIdKept
<1> HIDE DEF s
<1>4. /\ variables.status = args.status /\ variables.safe_address = args.safe_address
      /\ args.concrete_channel_id # Null => variables.concrete_channel_id = args.concrete_channel_id
      /\ args.source_key_id # Null => variables.source_key_id = args.source_key_id
      /\ args.destination_key_id # Null => variables.destination_key_id = args.destination_key_id
  BY <1>1, <1>2, <1>3 DEF ChannelsVariables
<1> HIDE DEF variables
<1>5. Kept(args, variables)
  BY <1>4 DEF Kept, ChannelOptions
<1> QED BY <1>5 DEF variables, s

LEMMA AllChannelsWithoutOptions ==
  ASSUME NEW args, DOMAIN args = ChannelOptions, ChannelArgs(args) # Refused
  PROVE  MatchesAll(ChannelArgs(args)) <=> \A a \in DOMAIN args : args[a] = Null
<1>1. MatchesAll(ChannelArgs(args))
        <=> /\ args.concrete_channel_id = Null /\ args.source_key_id = Null
            /\ args.destination_key_id = Null /\ args.status = Null
            /\ args.safe_address = Null
  BY ChannelSelected DEF MatchesAll
<1> QED BY <1>1 DEF ChannelOptions

LEMMA RedemptionsOptionsKept ==
  ASSUME NEW args, DOMAIN args = {"safe_address", "node_address"},
         RedemptionsArgs(args) # Refused
  PROVE  Kept(args, RedeemedStatsVariables(RedemptionsArgs(args)))
<1> DEFINE variables == RedeemedStatsVariables(RedemptionsArgs(args))
<1>1. /\ args.safe_address # Null => variables.safe_address = args.safe_address
      /\ args.node_address # Null => variables.node_address = args.node_address
  BY DEF RedemptionsArgs, RedeemedStatsVariables, Given
<1> HIDE DEF variables
<1>2. Kept(args, variables)
  BY <1>1 DEF Kept
<1> QED BY <1>2 DEF variables

LEMMA SafeOptionsKept ==
  ASSUME NEW args, SafeArgs(args) # Refused
  PROVE  \A a \in DOMAIN args :
           args[a] # Null => SafeByVariables(SafeArgs(args)).address = args[a]
<1> DEFINE given == {a \in DOMAIN args : args[a] # Null}
           by == CHOOSE a \in DOMAIN args : given = {a}
<1>1. (\E a \in DOMAIN args : given = {a}) /\ SafeArgs(args).value = args[by]
  BY DEF SafeArgs
<1>2. by \in DOMAIN args /\ given = {by}
  <2> HIDE DEF given
  <2> QED BY <1>1
<1>3. SafeByVariables(SafeArgs(args)).address = args[by]
  BY <1>1 DEF SafeByVariables
<1>4. \A a \in DOMAIN args : args[a] # Null => a \in given
  OBVIOUS
<1> HIDE DEF given, by
<1>5. \A a \in DOMAIN args : args[a] # Null => a = by
  BY <1>2, <1>4
<1> QED BY <1>3, <1>5

(* What the options of a command become.                                    *)
Shared(options) ==
  options = AccountOptions \/ options = ChannelOptions \/ options = ServiceOptions
OneByOne(command) ==
  /\ ~Shared(command.options)
  /\ command.op # "query_redeemed_stats" /\ command.op # "query_safe" /\ command.op # "graph"
Alike(command) ==
  /\ command.op # "query_redeemed_stats" /\ command.op # "query_safe" /\ command.op # "graph"

LEMMA OptionsDiffer ==
  /\ AccountOptions # ChannelOptions /\ AccountOptions # ServiceOptions
  /\ ChannelOptions # ServiceOptions
<1>1. "keyid" \in AccountOptions /\ "keyid" \notin ChannelOptions /\ "keyid" \notin ServiceOptions
  BY DEF AccountOptions, ChannelOptions, ServiceOptions
<1>2. "status" \in ChannelOptions /\ "status" \notin ServiceOptions
  BY DEF ChannelOptions, ServiceOptions
<1> QED BY <1>1, <1>2

LEMMA SelectorsOf ==
  ASSUME NEW command, NEW args
  PROVE  /\ Alike(command) /\ command.options = AccountOptions
              => SelectorOf(command, args) = AccountArgs(args)
         /\ Alike(command) /\ command.options = ChannelOptions
              => SelectorOf(command, args) = ChannelArgs(args)
         /\ Alike(command) /\ command.options = ServiceOptions
              => SelectorOf(command, args) = ServiceArgs(args)
         /\ command.op = "query_redeemed_stats" /\ ~Shared(command.options)
              => SelectorOf(command, args) = RedemptionsArgs(args)
         /\ command.op = "query_safe" /\ ~Shared(command.options)
              => SelectorOf(command, args) = SafeArgs(args)
         /\ OneByOne(command) => SelectorOf(command, args) = args
<1>1. Alike(command) /\ command.options = AccountOptions
        => SelectorOf(command, args) = AccountArgs(args)
  BY OptionsDiffer, Zenon DEF SelectorOf, Alike
<1>2. Alike(command) /\ command.options = ChannelOptions
        => SelectorOf(command, args) = ChannelArgs(args)
  BY OptionsDiffer, Zenon DEF SelectorOf, Alike
<1>3. Alike(command) /\ command.options = ServiceOptions
        => SelectorOf(command, args) = ServiceArgs(args)
  BY OptionsDiffer, Zenon DEF SelectorOf, Alike
<1>4. command.op = "query_redeemed_stats" /\ ~Shared(command.options)
        => SelectorOf(command, args) = RedemptionsArgs(args)
  BY Zenon DEF SelectorOf, Shared
<1>5. command.op = "query_safe" /\ ~Shared(command.options)
        => SelectorOf(command, args) = SafeArgs(args)
  BY Zenon DEF SelectorOf, Shared
<1>6. OneByOne(command) => SelectorOf(command, args) = args
  BY Zenon DEF SelectorOf, Shared, OneByOne
<1> QED BY <1>1, <1>2, <1>3, <1>4, <1>5, <1>6

LEMMA OtherVariables ==
  ASSUME NEW query
  PROVE  /\ query.op = "query_redeemed_stats"
              => Variables(query) = RedeemedStatsVariables(query.selector)
         /\ query.op \notin AccountOps \cup ChannelOps \cup ServiceOps
                              \cup {"query_safe", "query_redeemed_stats"}
              => Variables(query) = query.selector
<1>1. query.op = "query_redeemed_stats"
        => Variables(query) = RedeemedStatsVariables(query.selector)
  BY Zenon DEF Variables
<1>2. query.op \notin AccountOps \cup ChannelOps \cup ServiceOps
                        \cup {"query_safe", "query_redeemed_stats"}
        => Variables(query) = query.selector
  BY Zenon DEF Variables, AccountOps, ChannelOps, ServiceOps, Paged
<1> QED BY <1>1, <1>2

(* What a command asks for, and what its subscription follows.               *)
Accepted(command) ==
  {args \in [command.options -> {Null, 1}] : SelectorOf(command, args) # Refused}
Asked(command, args) == First(Query(command.op, SelectorOf(command, args))).variables
Followed(command, args) == SubscriptionVariables(command.op, SelectorOf(command, args))
Asks(command) == command \in {QueryCommands[n] : n \in DOMAIN QueryCommands}
Follows(command) == command \in {SubscriptionCommands[n] : n \in DOMAIN SubscriptionCommands}

LEMMA AcceptedOptions ==
  ASSUME NEW command, NEW args \in Accepted(command)
  PROVE  /\ DOMAIN args = command.options /\ SelectorOf(command, args) # Refused
         /\ \A a \in DOMAIN args : KeyIdOption(args[a])
<1>1. 1 \in 0 .. MaxInt
  BY SelectionAssumption
<1> QED BY <1>1 DEF Accepted, KeyIdOption

LEMMA AskedVariables ==
  ASSUME NEW command, NEW args
  PROVE  Asked(command, args) = Variables(Query(command.op, SelectorOf(command, args)))
  BY DEF Asked, First, Request

LEMMA SharedHave ==
  ASSUME NEW options, Shared(options)
  PROVE  "keyid" \in options \/ "status" \in options \/ "node" \in options
  BY DEF Shared, AccountOptions, ChannelOptions, ServiceOptions

RedemptionsOptions == {"safe_address", "node_address"}
SafeOptions == {"address", "owner", "chain_key", "registered_node"}

LEMMA CommandOf ==
  ASSUME NEW command, Asks(command)
  PROVE  \/ command.op \in AccountOps /\ command.options = AccountOptions
         \/ command.op \in ChannelOps /\ command.options = ChannelOptions
         \/ command.op = "query_redeemed_stats" /\ command.options = RedemptionsOptions
         \/ command.op = "query_safe" /\ command.options = SafeOptions
         \/ command.op = "query_services" /\ command.options = ServiceOptions
         \/ command.op = "count_services" /\ command.options = ServiceOptions
         \/ /\ command.op \notin AccountOps \cup ChannelOps \cup ServiceOps
                                   \cup {"query_safe", "query_redeemed_stats", "graph"}
            /\ "keyid" \notin command.options /\ "status" \notin command.options
            /\ "node" \notin command.options
<1>1. PICK n \in DOMAIN QueryCommands : command = QueryCommands[n]
  BY DEF Asks
<1>2. CASE n \in {"Account", "AccountCounts", "Channel", "ChannelStats"}
  BY <1>1, <1>2 DEF QueryCommands, Command, AccountOps, ChannelOps
<1>3. CASE n \in {"Redemptions", "Safe", "Service", "ServiceCounts"}
  BY <1>1, <1>3 DEF QueryCommands, Command, RedemptionsOptions, SafeOptions
<1>4. CASE n \in {"ServiceTypes", "SafesBalance", "ModuleAddress", "NativeBalance"}
  BY <1>1, <1>4 DEF QueryCommands, Command, AccountOps, ChannelOps, ServiceOps, Paged
<1>5. CASE n \in {"TokenBalance", "SafeAllowance", "TxCount", "ChainInfo", "Health", "Version"}
  BY <1>1, <1>5 DEF QueryCommands, Command, AccountOps, ChannelOps, ServiceOps, Paged
<1>6. n \in {"Account", "AccountCounts", "Channel", "ChannelStats"}
             \cup {"Redemptions", "Safe", "Service", "ServiceCounts"}
             \cup {"ServiceTypes", "SafesBalance", "ModuleAddress", "NativeBalance"}
             \cup {"TokenBalance", "SafeAllowance", "TxCount", "ChainInfo", "Health", "Version"}
  BY DEF QueryCommands
<1> QED BY <1>2, <1>3, <1>4, <1>5, <1>6

(* The variables have what was given; those of a page of services have it in  *)
(* their filters, and those of a safe have the one address.                 *)
Restricts(command, args) ==
  CASE command.op = "query_services" -> Kept(args, Asked(command, args).filters)
    [] command.op = "query_safe" ->
         \A a \in DOMAIN args : args[a] # Null => Asked(command, args).address = args[a]
    [] OTHER -> Kept(args, Asked(command, args))

AddressKept(command, args) ==
  \A a \in DOMAIN args : args[a] # Null => Asked(command, args).address = args[a]

LEMMA RestrictsWhen ==
  ASSUME NEW command, NEW args
  PROVE  /\ command.op = "query_services" /\ Kept(args, Asked(command, args).filters)
              => Restricts(command, args)
         /\ command.op = "query_safe" /\ AddressKept(command, args)
              => Restricts(command, args)
         /\ command.op \notin {"query_services", "query_safe"} /\ Kept(args, Asked(command, args))
              => Restricts(command, args)
<1>1. command.op = "query_services" /\ Kept(args, Asked(command, args).filters)
        => Restricts(command, args)
  BY Zenon DEF Restricts
<1>2. command.op = "query_safe" /\ AddressKept(command, args) => Restricts(command, args)
  BY Zenon DEF Restricts, AddressKept
<1>3. command.op \notin {"query_services", "query_safe"} /\ Kept(args, Asked(command, args))
        => Restricts(command, args)
  BY Zenon DEF Restricts
<1> QED BY <1>1, <1>2, <1>3

LEMMA EveryQueryRestricts ==
  ASSUME NEW command, Asks(command), NEW args \in Accepted(command)
  PROVE  Restricts(command, args)
<1> DEFINE selector == SelectorOf(command, args)
           query == Query(command.op, selector)
<1>1. /\ DOMAIN args = command.options /\ selector # Refused
      /\ \A a \in DOMAIN args : KeyIdOption(args[a])
  BY AcceptedOptions
<1>2. query.op = command.op /\ query.selector = selector /\ Asked(command, args) = Variables(query)
  BY AskedVariables DEF Query
<1> HIDE DEF selector, query
<1>3. CASE command.op \in AccountOps /\ command.options = AccountOptions
  <2>1. selector = AccountArgs(args)
    BY <1>3, SelectorsOf DEF Alike, AccountOps, selector
  <2>2. Asked(command, args) = AccountVariables(AccountArgs(args))
    BY <1>2, <1>3, <2>1, VariablesOf
  <2>3. KeyIdOption(args.keyid)
    BY <1>1, <1>3 DEF AccountOptions
  <2>4. Kept(args, AccountVariables(AccountArgs(args)))
    BY <1>1, <1>3, <2>1, <2>3, AccountOptionsKept
  <2> QED BY <1>3, <2>2, <2>4, RestrictsWhen DEF AccountOps
<1>4. CASE command.op \in ChannelOps /\ command.options = ChannelOptions
  <2>1. selector = ChannelArgs(args)
    BY <1>4, SelectorsOf DEF Alike, ChannelOps, selector
  <2>2. Asked(command, args) = ChannelsVariables(ChannelArgs(args))
    BY <1>2, <1>4, <2>1, VariablesOf
  <2>3. KeyIdOption(args.source_key_id) /\ KeyIdOption(args.destination_key_id)
    BY <1>1, <1>4 DEF ChannelOptions
  <2>4. Kept(args, ChannelsVariables(ChannelArgs(args)))
    BY <1>1, <1>4, <2>1, <2>3, ChannelOptionsKept
  <2> QED BY <1>4, <2>2, <2>4, RestrictsWhen DEF ChannelOps
<1>5. CASE command.op = "query_redeemed_stats" /\ command.options = RedemptionsOptions
  <2>1. ~Shared(command.options)
    BY <1>5, SharedHave DEF RedemptionsOptions
  <2>2. selector = RedemptionsArgs(args)
    BY <1>5, <2>1, SelectorsOf DEF selector
  <2>3. Asked(command, args) = RedeemedStatsVariables(RedemptionsArgs(args))
    BY <1>2, <1>5, <2>2, OtherVariables
  <2>4. Kept(args, RedeemedStatsVariables(RedemptionsArgs(args)))
    BY <1>1, <1>5, <2>2, RedemptionsOptionsKept DEF RedemptionsOptions
  <2> QED BY <1>5, <2>3, <2>4, RestrictsWhen
<1>6. CASE command.op = "query_safe" /\ command.options = SafeOptions
  <2>1. ~Shared(command.options)
    BY <1>6, SharedHave DEF SafeOptions
  <2>2. selector = SafeArgs(args)
    BY <1>6, <2>1, SelectorsOf DEF selector
  <2>3. Asked(command, args) = SafeByVariables(SafeArgs(args))
    BY <1>2, <1>6, <2>2, VariablesOf
  <2>4. AddressKept(command, args)
    BY <1>1, <2>2, <2>3, SafeOptionsKept DEF AddressKept
  <2> QED BY <1>6, <2>4, RestrictsWhen
<1>7. CASE command.op \in {"query_services", "count_services"} /\ command.options = ServiceOptions
  <2>1. selector = ServiceArgs(args)
    BY <1>7, SelectorsOf DEF Alike, selector
  <2>2. Kept(args, ServiceVariables(ServiceArgs(args)))
    BY <1>1, <1>7, ServiceOptionsKept
  <2>3. command.op = "query_services" => Asked(command, args).filters = ServiceVariables(ServiceArgs(args))
    BY <1>2, <2>1, VariablesOf DEF Paged, ServicePageVariables
  <2>4. command.op = "count_services" => Asked(command, args) = ServiceVariables(ServiceArgs(args))
    BY <1>2, <2>1, VariablesOf
  <2> QED BY <1>7, <2>2, <2>3, <2>4, RestrictsWhen
<1>8. CASE /\ command.op \notin AccountOps \cup ChannelOps \cup ServiceOps
                                   \cup {"query_safe", "query_redeemed_stats", "graph"}
           /\ "keyid" \notin command.options /\ "status" \notin command.options
           /\ "node" \notin command.options
  <2>1. OneByOne(command)
    BY <1>8, SharedHave DEF OneByOne
  <2>2. selector = args
    BY <2>1, SelectorsOf DEF selector
  <2>3. Asked(command, args) = args
    BY <1>2, <1>8, <2>2, OtherVariables
  <2>4. Kept(args, Asked(command, args))
    BY <2>3 DEF Kept
  <2> QED BY <1>8, <2>4, RestrictsWhen DEF ServiceOps, Paged
<1> QED BY <1>3, <1>4, <1>5, <1>6, <1>7, <1>8, CommandOf

(* The subscriptions.                                                       *)
ButSafe(args) == [a \in DOMAIN args \ {"safe_address"} |-> args[a]]
OnlyChannels(s) ==
  [v \in DOMAIN SubscribedChannelsVariables(s) \ {"safe_address"} |->
     SubscribedChannelsVariables(s)[v]]

LEMMA ButSafeKept ==
  ASSUME NEW args, NEW variables,
         \A a \in DOMAIN args \ {"safe_address"} : args[a] # Null => variables[a] = args[a]
  PROVE  Kept(ButSafe(args), variables)
  BY DEF Kept, ButSafe

LEMMA SubscriptionVariablesOf ==
  ASSUME NEW stream, NEW s
  PROVE  /\ stream = "accounts" => SubscriptionVariables(stream, s) = AccountVariables(s)
         /\ stream = "channels" => SubscriptionVariables(stream, s) = OnlyChannels(s)
         /\ stream = "services" => SubscriptionVariables(stream, s) = ServiceVariables(s)
         /\ stream = "service_types" => SubscriptionVariables(stream, s) = s
<1>1. stream = "accounts" => SubscriptionVariables(stream, s) = AccountVariables(s)
  BY Zenon DEF SubscriptionVariables, CurvyEvents, Unselective
<1>2. stream = "channels" => SubscriptionVariables(stream, s) = OnlyChannels(s)
  BY Zenon DEF SubscriptionVariables, CurvyEvents, Unselective, OnlyChannels
<1>3. stream = "services" => SubscriptionVariables(stream, s) = ServiceVariables(s)
  BY Zenon DEF SubscriptionVariables, CurvyEvents, Unselective
<1>4. stream = "service_types" => SubscriptionVariables(stream, s) = s
  BY Zenon DEF SubscriptionVariables, CurvyEvents, Unselective
<1> QED BY <1>1, <1>2, <1>3, <1>4

LEMMA SubscriptionCommandOf ==
  ASSUME NEW command, Follows(command)
  PROVE  \/ command.op = "accounts" /\ command.options = AccountOptions
         \/ command.op = "channels" /\ command.options = ChannelOptions
         \/ command.op = "services" /\ command.options = ServiceOptions
         \/ command.op = "service_types" /\ command.options = {"service_type"}
         \/ command.options = {}
<1>1. PICK n \in DOMAIN SubscriptionCommands : command = SubscriptionCommands[n]
  BY DEF Follows
<1> QED BY <1>1 DEF SubscriptionCommands, Command

LEMMA ChannelsFollowed ==
  ASSUME NEW s
  PROVE  \A v \in ChannelOptions \ {"safe_address"} :
           OnlyChannels(s)[v] = ChannelsVariables(s)[v]
<1> DEFINE all == ChannelsVariables(s)
           variables == SubscribedChannelsVariables(s)
<1>1. DOMAIN all = ChannelOptions
  BY DEF ChannelsVariables, ChannelOptions
<1> HIDE DEF all
<1>2. variables = [all EXCEPT !["safe_address"] = Null]
  BY DEF SubscribedChannelsVariables, all
<1>3. DOMAIN variables = ChannelOptions
  BY <1>1, <1>2
<1>4. \A v \in ChannelOptions \ {"safe_address"} : variables[v] = all[v]
  BY <1>1, <1>2
<1> HIDE DEF variables
<1>5. \A v \in ChannelOptions \ {"safe_address"} : OnlyChannels(s)[v] = variables[v]
  BY <1>3 DEF OnlyChannels, variables
<1> QED BY <1>4, <1>5 DEF all

LEMMA EverySubscriptionRestricts ==
  ASSUME NEW command, Follows(command), NEW args \in Accepted(command)
  PROVE  Kept(ButSafe(args), Followed(command, args))
<1> DEFINE selector == SelectorOf(command, args)
<1>1. /\ DOMAIN args = command.options /\ selector # Refused
      /\ \A a \in DOMAIN args : KeyIdOption(args[a])
  BY AcceptedOptions
<1>2. Followed(command, args) = SubscriptionVariables(command.op, selector)
  BY DEF Followed
<1> HIDE DEF selector
<1>3. CASE command.op = "accounts" /\ command.options = AccountOptions
  <2>1. selector = AccountArgs(args)
    BY <1>3, SelectorsOf DEF Alike, selector
  <2>2. KeyIdOption(args.keyid)
    BY <1>1, <1>3 DEF AccountOptions
  <2>3. Kept(args, AccountVariables(AccountArgs(args)))
    BY <1>1, <1>3, <2>1, <2>2, AccountOptionsKept
  <2>4. Followed(command, args) = AccountVariables(AccountArgs(args))
    BY <1>2, <1>3, <2>1, SubscriptionVariablesOf
  <2> QED BY <2>3, <2>4, ButSafeKept DEF Kept
<1>4. CASE command.op = "channels" /\ command.options = ChannelOptions
  <2>1. selector = ChannelArgs(args)
    BY <1>4, SelectorsOf DEF Alike, selector
  <2>2. KeyIdOption(args.source_key_id) /\ KeyIdOption(args.destination_key_id)
    BY <1>1, <1>4 DEF ChannelOptions
  <2>3. Kept(args, ChannelsVariables(ChannelArgs(args)))
    BY <1>1, <1>4, <2>1, <2>2, ChannelOptionsKept
  <2>4. Followed(command, args) = OnlyChannels(ChannelArgs(args))
    BY <1>2, <1>4, <2>1, SubscriptionVariablesOf
  <2>5. \A a \in DOMAIN args \ {"safe_address"} :
          args[a] # Null => Followed(command, args)[a] = args[a]
    BY <1>1, <1>4, <2>3, <2>4, ChannelsFollowed DEF Kept
  <2> QED BY <2>5, ButSafeKept
<1>5. CASE command.op = "services" /\ command.options = ServiceOptions
  <2>1. selector = ServiceArgs(args)
    BY <1>5, SelectorsOf DEF Alike, selector
  <2>2. Kept(args, ServiceVariables(ServiceArgs(args)))
    BY <1>1, <1>5, ServiceOptionsKept
  <2>3. Followed(command, args) = ServiceVariables(ServiceArgs(args))
    BY <1>2, <1>5, <2>1, SubscriptionVariablesOf
  <2> QED BY <2>2, <2>3, ButSafeKept DEF Kept
<1>6. CASE command.op = "service_types" /\ command.options = {"service_type"}
  <2>1. ~Shared(command.options)
    BY <1>6, SharedHave
  <2>2. selector = args
    BY <1>6, <2>1, SelectorsOf DEF OneByOne, selector
  <2>3. Followed(command, args) = args
    BY <1>2, <1>6, <2>2, SubscriptionVariablesOf
  <2> QED BY <2>3, ButSafeKept
<1>7. CASE command.options = {}
  BY <1>1, <1>7, ButSafeKept
<1> QED BY <1>3, <1>4, <1>5, <1>6, <1>7, SubscriptionCommandOf

(* Every option that a command of the inspector accepts restricts what is asked *)
(* for, in a query and in a subscription, but for the safe of a subscription  *)
(* to channels; and all channels are asked for only without options           *)
(* (inspector/src/main.rs, the TryFrom of the arguments).                   *)
THEOREM OptionsNeverLost == Spec => []OptionsRestrict
<1>1. \A command : Asks(command) =>
        \A args \in Accepted(command) : Restricts(command, args)
  BY EveryQueryRestricts
<1>2. \A command : Follows(command) =>
        \A args \in Accepted(command) : Kept(ButSafe(args), Followed(command, args))
  BY EverySubscriptionRestricts
<1>3. \A args \in Accepted(QueryCommands.Channel) :
        MatchesAll(ChannelArgs(args)) <=> \A a \in DOMAIN args : args[a] = Null
  <2> SUFFICES ASSUME NEW args \in Accepted(QueryCommands.Channel)
               PROVE  MatchesAll(ChannelArgs(args)) <=> \A a \in DOMAIN args : args[a] = Null
    OBVIOUS
  <2> DEFINE command == QueryCommands.Channel
  <2>1. command.op = "query_channels" /\ command.options = ChannelOptions
    BY DEF QueryCommands, Command
  <2>2. DOMAIN args = command.options /\ SelectorOf(command, args) # Refused
    BY AcceptedOptions
  <2> HIDE DEF command
  <2>3. SelectorOf(command, args) = ChannelArgs(args)
    BY <2>1, SelectorsOf DEF Alike
  <2> QED BY <2>1, <2>2, <2>3, AllChannelsWithoutOptions
<1>4. \A command \in {QueryCommands[n] : n \in DOMAIN QueryCommands} :
        \A args \in Accepted(command) : Restricts(command, args)
  BY <1>1, Zenon DEF Asks
<1>5. \A command \in {SubscriptionCommands[n] : n \in DOMAIN SubscriptionCommands} :
        \A args \in Accepted(command) : Kept(ButSafe(args), Followed(command, args))
  BY <1>2, Zenon DEF Follows
<1>6. OptionsRestrict
  BY <1>3, <1>4, <1>5, Zenon
     DEF OptionsRestrict, Accepted, Asked, Followed, Restricts, Kept, ButSafe
<1> QED BY <1>6, PTL
=============================================================================
