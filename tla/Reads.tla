------------------------------- MODULE Reads -------------------------------
(***************************************************************************)
(* What a query promises its caller, whatever requests it makes for it.     *)
(* Most answers are what the index holds at one block between the call and   *)
(* its return.  Two are put together from several blocks: the channels of a *)
(* safe, and the inspector's overview of a node.  A query may fail instead.  *)
(***************************************************************************)
EXTENDS Sequences, Selection

CONSTANTS
  Callers,   (* tasks that query                                             *)
  Queries,   (* Queries[c] = the queries that caller c may make              *)
  Worlds,    (* states of the index                                          *)
  MaxBlock   (* bound on the blocks of a run                                 *)

VARIABLES
  chain,  (* the index, block by block; a later block may undo an earlier one *)
  reads   (* reads[c] = what caller c asked and was told                      *)

vars == <<chain, reads>>

Unread == [pc |-> "idle", query |-> Null, since |-> 0, result |-> Null]
Count(query, items) == IF query.op \in Counts THEN {Cardinality(items)} ELSE items

Overview == "query_node_overview"
IsJoin(query) ==
  /\ query.op \in {"query_channels", "count_channels"}
  /\ query.selector.safe # Null

-----------------------------------------------------------------------------
(* Has the safe the source of the channel: by its nodes in one world, and by  *)
(* the accounts in a later one?                                            *)
Owns(safe, channel, nodes, accounts) ==
  \E s \in nodes.safes, a \in accounts.accounts :
    /\ s.address = safe
    /\ a.chain_key \in s.registered_nodes
    /\ a.keyid = channel.source_key_id

(* The channels selected at block b: all whose source the safe has at every  *)
(* later block up to now, and none whose source it has at no such block.     *)
JoinsFrom(query, b, now) ==
  LET selected == Selected(chain[b], First(query))
      times    == {t \in (b .. now) \X (b .. now) : t[1] <= t[2]}
      OwnsAt(channel, t) == Owns(query.selector.safe, channel, chain[t[1]], chain[t[2]])
  IN  {items \in SUBSET {ch \in selected : \E t \in times : OwnsAt(ch, t)} :
         {ch \in selected : \A t \in times : OwnsAt(ch, t)} \subseteq items}

(* The node at one block; its channels each way at later ones; and, for each  *)
(* node at the other end of one, its account at a block later still.         *)
OverviewsFrom(query, b, now) ==
  LET Channels(variable, keyid, t) ==
        {ch \in chain[t].channels : ch[variable] = keyid}
      After(t) == UNION {chain[u].accounts : u \in t .. now}
      Of(source, out, in) ==
        LET ends   == {ch.destination_key_id : ch \in out} \cup {ch.source_key_id : ch \in in}
            others == {a \in After(b) : a.keyid \in ends}
        IN  {[source |-> source, out |-> out, in |-> in, accounts |-> accounts] :
               accounts \in {s \in SUBSET others : /\ {a.keyid : a \in s} = ends
                                                   /\ Cardinality(s) = Cardinality(ends)}}
  IN  UNION {Of(source, Channels("source_key_id", source.keyid, t),
                        Channels("destination_key_id", source.keyid, u)) :
               source \in {a \in chain[b].accounts : Fits(a, AccountVariables(query.selector))},
               t \in b .. now, u \in b .. now}

Results(query, since, now) ==
  CASE query.op = Overview -> UNION {OverviewsFrom(query, b, now) : b \in since .. now}
    [] IsJoin(query)       -> {Count(query, items) :
                                 items \in UNION {JoinsFrom(query, b, now) : b \in since .. now}}
    [] OTHER               -> {Count(query, Selected(chain[b], First(query))) : b \in since .. now}

-----------------------------------------------------------------------------
Init ==
  /\ chain \in {<<world>> : world \in Worlds}
  /\ reads = [c \in Callers |-> Unread]

Grow ==
  /\ Len(chain) < MaxBlock
  /\ \E world \in Worlds : chain' = Append(chain, world)
  /\ UNCHANGED reads

Begin(c, query) ==
  /\ reads[c].pc = "idle"
  /\ reads' = [reads EXCEPT ![c] =
       [pc |-> "reading", query |-> query, since |-> Len(chain), result |-> Null]]
  /\ UNCHANGED chain

(* A query that is refused fails in the step in which it begins.            *)
Refuse(c, query) ==
  /\ reads[c].pc = "idle"
  /\ reads' = [reads EXCEPT ![c] =
       [pc |-> "failed", query |-> query, since |-> Len(chain), result |-> Null]]
  /\ UNCHANGED chain

Return(c) ==
  /\ reads[c].pc = "reading"
  /\ \E items \in Results(reads[c].query, reads[c].since, Len(chain)) :
       reads' = [reads EXCEPT ![c].pc = "done", ![c].result = items]
  /\ UNCHANGED chain

Fail(c) ==
  /\ reads[c].pc = "reading"
  /\ reads' = [reads EXCEPT ![c].pc = "failed"]
  /\ UNCHANGED chain

Next ==
  \/ Grow
  \/ \E c \in Callers :
       \/ \E query \in Queries[c] : Begin(c, query) \/ Refuse(c, query)
       \/ Return(c)
       \/ Fail(c)

Spec == Init /\ [][Next]_vars
=============================================================================
