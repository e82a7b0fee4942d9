----------------------------- MODULE Documents -----------------------------
(***************************************************************************)
(* The documents of the subscriptions (client/src/client/subscriptions.rs) *)
(* and the one document that the hub combines them into (subscription_hub  *)
(* .rs, build_connection and the functions below it).  A document is a      *)
(* sequence of tokens, so a string literal is one token whatever it holds;  *)
(* the alias s<id> of a slot is written as the id.                         *)
(***************************************************************************)
EXTENDS Selection, SequencesExt

(* Tokens: words and types, references to variables, string literals,        *)
(* brackets, and the alias of a root field.  `alias` is the prefix that a     *)
(* variable got.                                                           *)
Token(kind, text) == [kind |-> kind, alias |-> Null, text |-> text]
Word(text)     == Token("word", text)
Variable(name) == Token("variable", name)
Bracket(b)     == Token(b, Null)
Literal(text)  == Token("string", text)

Positions(text, kinds) == {i \in DOMAIN text : text[i].kind \in kinds}

(* The document that cynic renders for a subscription with one root field.   *)
Rendered(root, names) ==
  LET inBrackets(tokens) ==
        IF names = <<>> THEN <<>> ELSE <<Bracket("(")>> \o tokens \o <<Bracket(")")>>
      definitions == FlattenSeq([n \in DOMAIN names |-> <<Variable(names[n]), Word("Type")>>])
      arguments   == FlattenSeq([n \in DOMAIN names |-> <<Word(names[n]), Variable(names[n])>>])
  IN  <<Word("subscription"), Word("Operation")>> \o inBrackets(definitions)
        \o <<Bracket("{"), Word(root)>> \o inBrackets(arguments)
        \o <<Bracket("{"), Word("fields"), Bracket("}"), Bracket("}")>>

-----------------------------------------------------------------------------
(* The subscriptions that have a hub of their own, and those that resume where *)
(* they were interrupted.                                                  *)
Dedicated == {"health", "track_transaction"}
Resumable == {"graph"}

(* SubscriptionSpec::new of the operation of a subscription.               *)
SubscriptionSpec(stream, s) ==
  LET variables == SubscriptionVariables(stream, s)
  IN  [document  |-> Rendered(StreamRoot(stream), SetToSeq(DOMAIN variables)),
       variables |-> variables,
       resumable |-> stream \in Resumable]

-----------------------------------------------------------------------------
(* matching_paren, from the bracket at `open` to one of `closes`, which the   *)
(* variant also finds in string literals.  0 stands for None.              *)
Closing(text, open, closes) ==
  LET depth(i) == Cardinality({j \in open .. i : text[j].kind = "("})
                    - Cardinality({j \in open .. i : j \in closes})
      closing  == {i \in open .. Len(text) : depth(i) = 0}
  IN  IF closing = {} THEN 0 ELSE Min(closing)

MatchingParenInLiterals(text, open) ==
  Closing(text, open, {i \in DOMAIN text : text[i] \in {Bracket(")"), Literal(")")}})
MatchingParen(text, open) == Closing(text, open, Positions(text, {")"}))

(* split_document, or Null for a document that cannot be split.            *)
SplitDocument(document) ==
  LET starts == Positions(document, {"(", "{"})
      start  == Min(starts)
      given  == document[start].kind = "("
      body   == IF given THEN MatchingParen(document, start) + 1 ELSE start
      opens  == {i \in Positions(document, {"{"}) : i >= body}
      closes == Positions(document, {"}"})
  IN  IF /\ document # <<>> /\ document[1] = Word("subscription")
         /\ starts # {} /\ body > 1 /\ opens # {} /\ closes # {}
         /\ Min(opens) < Max(closes)
      THEN [definitions |-> IF given THEN SubSeq(document, start + 1, body - 2) ELSE <<>>,
            field       |-> SubSeq(document, Min(opens) + 1, Max(closes) - 1)]
      ELSE Null

(* rename_variables; the variant does not skip string literals.            *)
RenameInLiterals(text, alias) ==
  [i \in DOMAIN text |-> IF text[i].kind \in {"variable", "string"}
                         THEN [text[i] EXCEPT !.alias = alias] ELSE text[i]]
RenameVariables(text, alias) ==
  [i \in DOMAIN text |-> IF text[i].kind = "variable"
                         THEN [text[i] EXCEPT !.alias = alias] ELSE text[i]]

RootFieldName(field) == Given(field # <<>> /\ field[1].kind = "word", field[1].text)

AliasRootField(field, alias) == <<[Token("alias", Null) EXCEPT !.alias = alias]>> \o field

(* Ids in their order, the one of a BTreeMap.                              *)
InOrder(ids) ==
  CHOOSE s \in [1 .. Cardinality(ids) -> ids] : \A m, n \in DOMAIN s : m < n => s[m] < s[n]

(* build_connection, of the specs of slots by their ids, or Null.           *)
BuildConnection(specs) ==
  LET ids      == InOrder(DOMAIN specs)
      split    == [i \in DOMAIN specs |-> SplitDocument(specs[i].document)]
      field(i) == RenameVariables(split[i].field, i)
      definitions == FlattenSeq([n \in DOMAIN ids |->
                       RenameVariables(split[ids[n]].definitions, ids[n])])
      fields   == FlattenSeq([n \in DOMAIN ids |-> AliasRootField(field(ids[n]), ids[n])])
      renamed  == UNION {{i} \X DOMAIN specs[i].variables : i \in DOMAIN specs}
  IN  IF \E i \in DOMAIN specs : split[i] = Null \/ RootFieldName(field(i)) = Null
      THEN Null
      ELSE [document  |-> <<Word("subscription"), Word("BlokliSubscriptions")>>
              \o (IF definitions = <<>> THEN <<>>
                  ELSE <<Bracket("(")>> \o definitions \o <<Bracket(")")>>)
              \o <<Bracket("{")>> \o fields \o <<Bracket("}")>>,
            variables |-> [n \in renamed |-> specs[n[1]].variables[n[2]]],
            targets   |-> [i \in DOMAIN specs |-> RootFieldName(field(i))],
            resumable |-> \E i \in DOMAIN specs : specs[i].resumable]

-----------------------------------------------------------------------------
(* Blokli: a request is refused unless each variable is defined once and      *)
(* each reference is to one of them; the answer of a root field depends on   *)
(* the text of the field and the values of the variables in it.             *)
Evaluated(field, variables) ==
  [i \in DOMAIN field |->
     IF field[i].kind = "variable"
     THEN Token("value", variables[<<field[i].alias, field[i].text>>]) ELSE field[i]]

(* How deep in round brackets a document is behind a position.              *)
Depth(text, k) == Cardinality({j \in Positions(text, {"("}) : j <= k})
                    - Cardinality({j \in Positions(text, {")"}) : j <= k})
Balanced(text) == Depth(text, Len(text)) = 0 /\ \A k \in 0 .. Len(text) : Depth(text, k) >= 0

(* Where the selection of a document begins: outside of the definitions.    *)
SelectionStart(text) == Min({i \in Positions(text, {"{"}) : Depth(text, i) = 0})

Accepts(request) ==
  LET text    == request.document
      body    == SelectionStart(text)
      uses    == Positions(text, {"variable"})
      name(i) == <<text[i].alias, text[i].text>>
  IN  /\ \A i, j \in uses : i < j /\ j < body => name(i) # name(j)
      /\ \A j \in uses : j > body => /\ \E i \in uses : i < body /\ name(i) = name(j)
                                     /\ name(j) \in DOMAIN request.variables

AnswerTo(request, alias) ==
  LET text  == request.document
      start == CHOOSE i \in Positions(text, {"alias"}) : text[i].alias = alias
      later == {i \in Positions(text, {"alias"}) : i > start}
      end   == IF later = {} THEN Len(text) ELSE Min(later)
  IN  Evaluated(SubSeq(text, start + 1, end - 1), request.variables)

(* What Blokli answers a subscription that has a request of its own.        *)
OwnRequest(spec) ==
  [document  |-> spec.document,
   variables |-> [n \in {Null} \X DOMAIN spec.variables |-> spec.variables[n[2]]]]
OwnAnswer(spec) ==
  LET text == spec.document
  IN  Evaluated(SubSeq(text, SelectionStart(text) + 1, Len(text) - 1), OwnRequest(spec).variables)

(* An operation: words up to `named`, definitions in brackets if it has any,  *)
(* and from `body` to the end a selection.                                 *)
Operation(text, named, definitions, body) ==
  /\ named \in DOMAIN text /\ \A k \in 1 .. named : text[k].kind = "word"
  /\ body \in DOMAIN text /\ text[body] = Bracket("{")
  /\ text[Len(text)] = Bracket("}")
  /\ Balanced(definitions)
  /\ \/ definitions = <<>> /\ body = named + 1
     \/ /\ text[named + 1] = Bracket("(") /\ text[body - 1] = Bracket(")")
        /\ body = named + 3 + Len(definitions)
        /\ \A k \in DOMAIN definitions : text[named + 1 + k] = definitions[k]

(* What cynic renders: an operation that has got no prefix yet, and that      *)
(* Blokli accepts with the variables of its subscription.                  *)
WellFormed(spec) ==
  LET text == spec.document
  IN  /\ text \in Seq(Range(text)) /\ text[1] = Word("subscription")
      /\ \A k \in DOMAIN text : /\ text[k] = Token(text[k].kind, text[k].text)
                               /\ text[k].kind # "alias"
      /\ \E named, body \in DOMAIN text :
           Operation(text, named, SubSeq(text, named + 2, body - 2), body)
      /\ Accepts(OwnRequest(spec))
=============================================================================
