---------------------------- MODULE MCTestClient ----------------------------
(* A small instance of TestClient.                                          *)
EXTENDS TestClient, TLC

CONSTANTS a1, a2, ch, safe, sv1, sv2, ty, only, bal

MCKeys ==
  [accounts |-> {a1, a2}, channels |-> {ch}, safes |-> {safe}, services |-> {sv1, sv2},
   service_types |-> {ty}, ticket_params |-> {only}, registry_config |-> {only},
   balances |-> {bal}]

Plain == {[value |-> 1], [value |-> 2]}

MCValues ==
  [accounts |-> {[safe |-> 1, rest |-> 1], [safe |-> 1, rest |-> 2], [safe |-> 2, rest |-> 1]},
   channels |-> Plain, safes |-> Plain, services |-> Plain,
   service_types |->
     {[owner |-> 1, terms |-> 1], [owner |-> 1, terms |-> 2], [owner |-> 2, terms |-> 1]},
   ticket_params |-> [price : {1, 2}, probability : {1, 2}],
   registry_config |-> Plain, balances |-> {[value |-> 1]}]

MCSource == [k \in {ch} |-> a1]
MCDestination == [k \in {ch} |-> a2]

(* The fixture of a test: some entries are there, others may appear.          *)
Fixture ==
  [c \in Collections |-> [k \in MCKeys[c] |->
     IF c = "ticket_params" THEN [price |-> 1, probability |-> 1]
     ELSE IF k \in {a2, ch, sv2} THEN Absent
     ELSE IF c = "accounts"      THEN [safe |-> 1, rest |-> 1]
     ELSE IF c = "service_types" THEN [owner |-> 1, terms |-> 1]
     ELSE [value |-> 1]]]

MCInitial == {Fixture}

Symmetry == Permutations(Subscribers) \cup Permutations(Updaters)
=============================================================================
