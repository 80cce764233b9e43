---------------------------- MODULE SubjectMatch ----------------------------
(***************************************************************************)
(* Subject patterns: SubjectRouter::wildcard_match, used by every locally  *)
(* routed backend, and rabbit_binding_key, which hands a pattern to an     *)
(* AMQP topic exchange instead.  A subject or pattern is its nonempty      *)
(* sequence of tokens, as split('.') yields it: "" is <<"">>.              *)
(***************************************************************************)
EXTENDS Integers, Sequences

\* What is between two dots that follow each other, and all of an empty subject.
EmptyToken == ""
EmptySubject == <<EmptyToken>>

IsToken(t) == t \notin {"*", ">"}

\* The loop leaves at the first part of the pattern that decides.
Decides(p, s, i) == \/ p[i] = ">"
                    \/ i > Len(s)
                    \/ IsToken(p[i]) /\ p[i] # s[i]

\* Mutant of WildcardMatch: '>' also stands for no token at all.
WildcardMatchOrNone(p, s) ==
  IF \E i \in 1..Len(p) : Decides(p, s, i)
  THEN \E i \in 1..Len(p) : /\ p[i] = ">"
                            /\ i <= Len(s) + 1
                            /\ \A h \in 1..(i - 1) : ~Decides(p, s, h)
  ELSE Len(p) = Len(s)

WildcardMatch(p, s) ==
  IF \E i \in 1..Len(p) : Decides(p, s, i)
  THEN \E i \in 1..Len(p) : /\ p[i] = ">"
                            /\ i <= Len(s)
                            /\ \A h \in 1..(i - 1) : ~Decides(p, s, h)
  ELSE Len(p) = Len(s)

-----------------------------------------------------------------------------
(* What the table of README.md, "Subject Routing", says *)

WellFormed(p) == \A i \in 1..Len(p) : p[i] = ">" => i = Len(p)

TokenMatches(part, token) == part = "*" \/ part = token

\* "orders.created": exact; "orders.*": exactly one token after orders;
\* "orders.>": one or more trailing tokens after orders.
TokensMatch(p, s) ==
  IF p[Len(p)] = ">"
  THEN /\ Len(s) >= Len(p)
       /\ \A i \in 1..(Len(p) - 1) : TokenMatches(p[i], s[i])
  ELSE /\ Len(s) = Len(p)
       /\ \A i \in 1..Len(p) : TokenMatches(p[i], s[i])

\* The row ">" says "any non-empty subject", and the empty one has a token.
TableMatch(p, s) == TokensMatch(p, s) /\ (p = <<">">> => s # EmptySubject)

-----------------------------------------------------------------------------
(* RabbitMQ *)

NoBinding == <<>>

Accepts(p) == (\A i \in 1..Len(p) : p[i] # EmptyToken) /\ WellFormed(p)

\* Mutant of RabbitBindingKey: '>' translated to '#' in every position.
RabbitBindingKeyHash(p) ==
  IF ~Accepts(p) THEN NoBinding
  ELSE IF p[Len(p)] # ">" THEN p
  ELSE SubSeq(p, 1, Len(p) - 1) \o <<"#">>

\* rabbit_binding_key: NoBinding is its error.
RabbitBindingKey(p) ==
  IF ~Accepts(p) THEN NoBinding
  ELSE IF p[Len(p)] # ">" THEN p
  ELSE IF Len(p) = 1 THEN <<"#">>
  ELSE SubSeq(p, 1, Len(p) - 1) \o <<"*", "#">>

\* The topic exchange of the broker: in a binding key '*' is exactly one word
\* and '#' zero or more.  from[i]: where in the words the key from i on matches
\* all the rest.
KeyMatches(key, words) ==
  LET from[i \in 1..(Len(key) + 1)] ==
        IF i > Len(key) THEN {Len(words) + 1}
        ELSE IF key[i] = "#" THEN {j \in 1..(Len(words) + 1) : \E h \in from[i + 1] : j <= h}
        ELSE {j \in 1..Len(words) : key[i] \in {"*", words[j]} /\ j + 1 \in from[i + 1]}
  IN 1 \in from[1]

\* The broker splits a routing key at its dots; an empty one has no word at all.
Words(s) == IF s = EmptySubject THEN <<>> ELSE s

TopicMatch(key, s) == KeyMatches(key, Words(s))

-----------------------------------------------------------------------------
(* What the two tables have to say of a pattern and a subject *)

\* wildcard_match decides as the README's table does, but for one pair: it
\* lets ">" take the empty subject.
EmptyTaken(p, s) == p = <<">">> /\ s = EmptySubject

FollowsTable(p, s) ==
  WellFormed(p) => (WildcardMatch(p, s) <=> TableMatch(p, s) \/ EmptyTaken(p, s))

\* A pattern that RabbitMQ accepts selects there what it selects locally, but
\* for one pair: "*" takes the empty subject here and no subject without a word
\* there.
EmptyWordTaken(p, s) == p = <<"*">> /\ s = EmptySubject

SelectsAlike(p, s) ==
  RabbitBindingKey(p) # NoBinding =>
    (WildcardMatch(p, s) <=> TopicMatch(RabbitBindingKey(p), s) \/ EmptyWordTaken(p, s))
=============================================================================
