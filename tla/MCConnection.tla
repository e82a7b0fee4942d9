---------------------------- MODULE MCConnection ----------------------------
(* One subscription that resumes, and two that have a variable of the same    *)
(* name, the second of which holds string literals that look like a reference *)
(* and like a bracket, as the documents of the unit tests do.               *)
EXTENDS Connection

ByKeyId(keyid) == SubscriptionSpec("accounts", AccountSelector("KeyId", keyid))

WithLiterals ==
  [document |->
     <<Word("subscription"), Bracket("("), Variable("keyid"), Word("Int"), Literal(")"),
       Variable("type"), Word("String"), Bracket(")"), Bracket("{"), Word("serviceUpdated"),
       Bracket("("), Word("note"), Literal("keyid"), Word("keyid"), Variable("keyid"),
       Word("type"), Variable("type"), Bracket(")"), Bracket("{"), Word("fields"),
       Bracket("}"), Bracket("}")>>,
   variables |-> [keyid |-> 2, type |-> 51],
   resumable |-> FALSE]

AllSpecs == 1 :> SubscriptionSpec("graph", Null) @@ 2 :> ByKeyId(1) @@ 3 :> WithLiterals

AllSettings == {[restart |-> 1, timeout |-> 3], [restart |-> Null, timeout |-> 0]}
=============================================================================
