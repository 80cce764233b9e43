----------------------------- MODULE BusProofs -----------------------------
(***************************************************************************)
(* Proofs about the modules of src/src/bus that need no transport: subject *)
(* patterns, codecs, frames, and the in-process router with the table it   *)
(* owns.  They hold for any subscribers, publishers, patterns, codecs,     *)
(* texts and sizes of buffers.                                             *)
(***************************************************************************)
EXTENDS LocalRouter, MCTables, QueueFacts

-----------------------------------------------------------------------------
(* Patterns and subjects.  A token is any value: nothing below looks inside. *)

\* wildcard_match leaves its loop early, in four places; what it returns is what
\* the rows of README.md say of tokens, for patterns and subjects of any length.
LEMMA MatchFollowsTokens ==
  ASSUME NEW T, NEW p \in Seq(T), NEW s \in Seq(T), p # <<>>, WellFormed(p)
  PROVE  WildcardMatch(p, s) <=> TokensMatch(p, s)
<1> DEFINE n == Len(p)
           l == Len(s)
<1>1. n \in Nat /\ n # 0 /\ l \in Nat /\ n \in 1..n
  BY LenProperties, EmptySeq
<1>2. \A i \in 1..n : p[i] = ">" => i = n
  BY DEF WellFormed
<1>3. \A i \in 1..n : Decides(p, s, i) <=> \/ p[i] = ">"
                                           \/ i > l
                                           \/ ~TokenMatches(p[i], s[i])
  BY DEF Decides, IsToken, TokenMatches
<1>4. CASE p[n] = ">"
  <2>1. Decides(p, s, n)
    BY <1>1, <1>3, <1>4
  <2>2. WildcardMatch(p, s) <=> /\ n <= l
                                /\ \A h \in 1..(n - 1) : ~Decides(p, s, h)
    BY <1>1, <1>2, <1>4, <2>1 DEF WildcardMatch
  <2>3. TokensMatch(p, s) <=> /\ l >= n
                             /\ \A i \in 1..(n - 1) : TokenMatches(p[i], s[i])
    BY <1>4 DEF TokensMatch
  <2>4. ASSUME n <= l, NEW h \in 1..(n - 1)
        PROVE  ~Decides(p, s, h) <=> TokenMatches(p[h], s[h])
    <3>1. h \in 1..n /\ h # n /\ ~(h > l)
      BY <1>1, <2>4
    <3> QED
      BY <1>2, <1>3, <3>1
  <2> HIDE DEF n, l
  <2> QED
    BY <1>1, <2>2, <2>3, <2>4
<1>5. CASE p[n] # ">"
  <2>1. \A i \in 1..n : p[i] # ">"
    BY <1>2, <1>5
  <2>2. WildcardMatch(p, s) <=> /\ \A i \in 1..n : ~Decides(p, s, i)
                                /\ n = l
    BY <2>1 DEF WildcardMatch
  <2>3. TokensMatch(p, s) <=> /\ l = n
                             /\ \A i \in 1..n : TokenMatches(p[i], s[i])
    BY <1>5 DEF TokensMatch
  <2>4. ASSUME n = l, NEW i \in 1..n
        PROVE  ~Decides(p, s, i) <=> TokenMatches(p[i], s[i])
    <3>1. ~(i > l)
      BY <1>1, <2>4
    <3> QED
      BY <1>3, <2>1, <3>1
  <2> HIDE DEF n, l
  <2> QED
    BY <2>2, <2>3, <2>4
<1> QED
  BY <1>4, <1>5

\* wildcard_match decides as the table of README.md does, except that it lets ">"
\* take the empty subject: there it differs, whatever else the patterns and
\* subjects are, and nowhere else (routing.rs:34-55).
THEOREM MatchFollowsTable ==
  ASSUME NEW T, NEW p \in Seq(T), NEW s \in Seq(T), p # <<>>
  PROVE  FollowsTable(p, s)
<1> SUFFICES ASSUME WellFormed(p)
             PROVE  WildcardMatch(p, s) <=> TableMatch(p, s) \/ EmptyTaken(p, s)
  BY DEF FollowsTable
<1>1. WildcardMatch(p, s) <=> TokensMatch(p, s)
  BY MatchFollowsTokens
<1>2. EmptyTaken(p, s) => TokensMatch(p, s)
  <2> SUFFICES ASSUME EmptyTaken(p, s) PROVE TokensMatch(<<">">>, EmptySubject)
    BY DEF EmptyTaken
  <2>1. Len(<<">">>) = 1 /\ Len(EmptySubject) = 1 /\ 1..(1 - 1) = {}
    BY DEF EmptySubject
  <2> QED
    BY <2>1 DEF TokensMatch
<1> QED
  BY <1>1, <1>2 DEF TableMatch, EmptyTaken

\* How far a topic exchange has come with a key after k parts that are words.
LEMMA TopicPrefix ==
  ASSUME NEW T, NEW key \in Seq(T), NEW s \in Seq(T), NEW k \in 0..Len(key),
         \A h \in 1..k : key[h] # "#",
         k = Len(key) \/ (k + 1 = Len(key) /\ key[k + 1] = "#")
  PROVE  KeyMatches(key, s) <=>
           /\ IF k = Len(key) THEN k = Len(s) ELSE k <= Len(s)
           /\ \A h \in 1..k : TokenMatches(key[h], s[h])
<1> DEFINE n == Len(key)
           l == Len(s)
           Rest(i, rest) == IF key[i] = "#" THEN {j \in 1..(l + 1) : \E h \in rest : j <= h}
                            ELSE {j \in 1..l : key[i] \in {"*", s[j]} /\ j + 1 \in rest}
           Solves(g) == g = [i \in 1..(n + 1) |->
                               IF i > n THEN {l + 1} ELSE Rest(i, g[i + 1])]
           from == CHOOSE g : Solves(g)
           V == SUBSET (1..(l + 1))
           v == {l + 1}
           step == [i \in 1..n |-> [rest \in V |-> Rest(n + 1 - i, rest)]]
<1>1. n \in Nat /\ l \in Nat
  BY LenProperties
<1>2. KeyMatches(key, s) <=> 1 \in from[1]
  BY DEF KeyMatches
<1>3. \A i, rest : Rest(i, rest) \in V
  <2> TAKE i, rest
  <2>1. Rest(i, rest) \subseteq 1..(l + 1)
    BY <1>1
  <2> QED
    BY <2>1
<1> HIDE DEF Rest
<1>4. Runs(n, V, v, step)
  <2>1. n \in Nat /\ v \in V /\ step \in [1..n -> [V -> V]]
    <3>1. v \in V
      BY <1>1
    <3> HIDE DEF V
    <3> QED
      BY <1>1, <1>3, <3>1
  <2> HIDE DEF n, V, v, step
  <2> QED
    BY <2>1, Recursion
<1>5. PICK f \in [0..n -> V] : f[0] = v /\ \A i \in 1..n : f[i] = step[i][f[i - 1]]
  BY <1>4 DEF Runs
<1>6. \A i \in 1..n : f[i] = Rest(n + 1 - i, f[i - 1])
  <2> TAKE i \in 1..n
  <2>1. i - 1 \in 0..n
    BY <1>1
  <2> HIDE DEF V
  <2>2. f[i - 1] \in V
    BY <1>5, <2>1
  <2>3. f[i] = step[i][f[i - 1]]
    BY <1>5
  <2> QED
    BY <2>2, <2>3
<1> HIDE DEF step, V
<1>7. \E g : Solves(g)
  <2> DEFINE g == [i \in 1..(n + 1) |-> f[n + 1 - i]]
             k1 == [i \in 1..(n + 1) |-> IF i > n THEN {l + 1} ELSE Rest(i, g[i + 1])]
  <2>1. \A i \in 1..(n + 1) : g[i] = k1[i]
    <3> TAKE i \in 1..(n + 1)
    <3>1. CASE i > n
      <4>1. n + 1 - i = 0
        BY <1>1, <3>1
      <4> QED
        BY <1>5, <3>1, <4>1
    <3>2. CASE ~(i > n)
      <4>1. /\ n + 1 - i \in 1..n /\ n + 1 - (n + 1 - i) = i /\ i + 1 \in 1..(n + 1)
            /\ (n + 1 - i) - 1 = n + 1 - (i + 1)
        BY <1>1, <3>2
      <4>2. f[n + 1 - i] = Rest(i, f[n + 1 - (i + 1)])
        BY <1>6, <4>1
      <4> QED
        BY <3>2, <4>1, <4>2
    <3> QED
      BY <3>1, <3>2
  <2>2. g = [i \in 1..(n + 1) |-> g[i]] /\ k1 = [i \in 1..(n + 1) |-> k1[i]]
    OBVIOUS
  <2>3. g = k1
    <3> HIDE DEF g, k1
    <3> QED
      BY <2>1, <2>2
  <2>4. Solves(g)
    BY <2>3
  <2> HIDE DEF Solves, g
  <2> QED
    BY <2>4
<1>8. Solves(from)
  <2> HIDE DEF Solves
  <2> QED
    BY <1>7
<1> HIDE DEF from
<1>9. \A i \in 1..(n + 1) : from[i] = IF i > n THEN {l + 1} ELSE Rest(i, from[i + 1])
  BY <1>8
<1> HIDE DEF Solves
<1> DEFINE Come(m) == /\ m <= l
                      /\ \A h \in 1..m : TokenMatches(key[h], s[h])
                      /\ m + 1 \in from[m + 1]
           S == {m \in 0..k : 1 \in from[1] <=> Come(m)}
<1>10. 0 \in S
  BY <1>1
<1>11. ASSUME NEW m \in Nat, m < k, m \in S PROVE m + 1 \in S
  <2>1. m + 1 \in 0..k /\ m + 1 \in 1..k /\ m + 1 \in 1..(n + 1) /\ ~(m + 1 > n)
    BY <1>1, <1>11
  <2>2. key[m + 1] # "#"
    BY <2>1
  <2>3. from[m + 1] = {j \in 1..l : key[m + 1] \in {"*", s[j]} /\ j + 1 \in from[(m + 1) + 1]}
    BY <1>9, <2>1, <2>2 DEF Rest
  <2>4. m + 1 \in from[m + 1] <=> /\ m + 1 <= l
                                  /\ TokenMatches(key[m + 1], s[m + 1])
                                  /\ (m + 1) + 1 \in from[(m + 1) + 1]
    BY <1>1, <1>11, <2>3 DEF TokenMatches
  <2>5. \A h \in 1..(m + 1) : h = m + 1 \/ h \in 1..m
    BY <1>11
  <2>6. m + 1 \in 1..(m + 1) /\ \A h \in 1..m : h \in 1..(m + 1)
    BY <1>11
  <2>7. (\A h \in 1..(m + 1) : TokenMatches(key[h], s[h]))
          <=> TokenMatches(key[m + 1], s[m + 1]) /\ \A h \in 1..m : TokenMatches(key[h], s[h])
    BY <2>5, <2>6
  <2>8. Come(m) <=> Come(m + 1)
    BY <1>1, <1>11, <2>4, <2>7
  <2> HIDE DEF Come
  <2> QED
    BY <1>11, <2>1, <2>8
<1>12. k \in S
  <2> HIDE DEF S
  <2>1. k \in Nat
    BY <1>1
  <2>2. 0..k \subseteq S
    BY <1>10, <1>11, <2>1, Induction
  <2> QED
    BY <2>1, <2>2
<1>13. CASE k = n
  <2>1. from[k + 1] = {l + 1}
    BY <1>1, <1>9, <1>13
  <2> QED
    BY <1>1, <1>2, <1>12, <1>13, <2>1
<1>14. CASE k + 1 = n /\ key[k + 1] = "#"
  <2>1. k + 1 \in 1..(n + 1) /\ ~(k + 1 > n) /\ (k + 1) + 1 \in 1..(n + 1) /\ (k + 1) + 1 > n
    BY <1>1, <1>14
  <2>2. from[(k + 1) + 1] = {l + 1}
    BY <1>9, <2>1
  <2>3. from[k + 1] = {j \in 1..(l + 1) : \E h \in from[(k + 1) + 1] : j <= h}
    BY <1>9, <1>14, <2>1 DEF Rest
  <2>4. k + 1 \in from[k + 1] <=> k <= l
    BY <1>1, <1>14, <2>2, <2>3
  <2>5. k # Len(key)
    BY <1>1, <1>14
  <2> QED
    BY <1>2, <1>12, <2>4, <2>5
<1> QED
  BY <1>13, <1>14

\* What a topic exchange selects by the binding key of a pattern, of words of any
\* number.
LEMMA KeySelects ==
  ASSUME NEW T, NEW p \in Seq(T), NEW s \in Seq(T), p # <<>>,
         \A i \in 1..Len(p) : p[i] # "#",
         RabbitBindingKey(p) # NoBinding
  PROVE  KeyMatches(RabbitBindingKey(p), s) <=> p = <<">">> \/ TokensMatch(p, s)
<1> DEFINE n == Len(p)
           l == Len(s)
           key == RabbitBindingKey(p)
           W == T \union {"*", "#"}
<1>1. n \in Nat /\ n # 0 /\ l \in Nat /\ n \in 1..n
  BY LenProperties, EmptySeq
<1>2. Accepts(p) /\ WellFormed(p)
  BY DEF RabbitBindingKey, Accepts
<1>4. p \in Seq(W) /\ s \in Seq(W)
  BY SeqMonotonic
<1>5. CASE p[n] # ">"
  <2>1. key = p
    BY <1>2, <1>5 DEF RabbitBindingKey
  <2> DEFINE k == Len(p)
  <2>2. /\ k \in 0..Len(p) /\ (\A h \in 1..k : p[h] # "#")
        /\ k = Len(p)
    BY <1>1
  <2> HIDE DEF k, W
  <2>3. KeyMatches(p, s) <=> k = l /\ \A h \in 1..k : TokenMatches(p[h], s[h])
    BY <1>4, <2>2, TopicPrefix
  <2>4. p # <<">">>
    BY <1>5
  <2> QED
    BY <1>5, <2>1, <2>3, <2>4 DEF TokensMatch, k
<1>6. CASE p[n] = ">" /\ n = 1
  <2>1. key = <<"#">>
    BY <1>2, <1>6 DEF RabbitBindingKey
  <2>2. key \in Seq(W) /\ Len(key) = 1 /\ key[1] = "#"
    BY <2>1
  <2> HIDE DEF key, W
  <2>3. KeyMatches(key, s) <=> 0 <= l
    <3>1. 0 \in 0..Len(key) /\ 0 # Len(key) /\ 0 + 1 = Len(key) /\ key[0 + 1] = "#" /\ 1..0 = {}
      BY <2>2
    <3> QED
      BY <1>4, <2>2, <3>1, TopicPrefix
  <2>4. p = <<">">>
    BY <1>6
  <2> QED
    BY <1>1, <2>3, <2>4 DEF key
<1>7. CASE p[n] = ">" /\ n # 1
  <2> DEFINE front == SubSeq(p, 1, n - 1)
             end == <<"*", "#">>
  <2>1. key = front \o end
    BY <1>2, <1>7 DEF RabbitBindingKey
  <2>2. /\ front \in Seq(W) /\ Len(front) = n - 1
        /\ \A i \in 1..(n - 1) : front[i] = p[i]
    <3>1. /\ front \in Seq(T)
          /\ Len(front) = n - 1
          /\ \A i \in 1..(n - 1) : front[i] = p[i]
      <4>1. /\ 1 \in Int /\ n - 1 \in Int /\ 1 <= n - 1
            /\ \A i \in 1..(n - 1) : p[i] \in T
        <5>1. \A i \in 1..n : p[i] \in T
          BY ElementOfSeq
        <5>2. \A i \in 1..(n - 1) : i \in 1..n
          BY <1>1
        <5>3. 1 <= n - 1
          <6>1. n \in Nat /\ n # 0 /\ n # 1
            BY <1>1, <1>7
          <6> HIDE DEF n
          <6> QED
            BY <6>1
        <5> QED
          BY <1>1, <5>1, <5>2, <5>3
      <4>2. /\ front \in Seq(T)
            /\ Len(front) = IF 1 <= n - 1 THEN (n - 1) - 1 + 1 ELSE 0
            /\ \A i \in 1..((n - 1) - 1 + 1) : front[i] = p[1 + i - 1]
        <5> HIDE DEF n
        <5> QED
          BY <4>1, SubSeqProperties
      <4>3. (n - 1) - 1 + 1 = n - 1 /\ \A i \in 1..(n - 1) : 1 + i - 1 = i
        BY <1>1
      <4> HIDE DEF front
      <4> QED
        BY <4>1, <4>2, <4>3
    <3> HIDE DEF front
    <3> QED
      BY <3>1, SeqMonotonic
  <2>3. end \in Seq(W) /\ Len(end) = 2 /\ end[1] = "*" /\ end[2] = "#"
    OBVIOUS
  <2> HIDE DEF front, end, W
  <2>4. /\ key \in Seq(W)
        /\ Len(key) = n + 1
        /\ \A i \in 1..(n + 1) : key[i] = IF i <= n - 1 THEN front[i] ELSE end[i - (n - 1)]
    <3>1. Len(front) + Len(end) = n + 1
      BY <1>1, <2>2, <2>3
    <3>2. /\ front \o end \in Seq(W)
          /\ Len(front \o end) = Len(front) + Len(end)
          /\ \A i \in 1..(Len(front) + Len(end)) :
               (front \o end)[i] = IF i <= Len(front) THEN front[i] ELSE end[i - Len(front)]
      BY <2>2, <2>3, ConcatProperties
    <3> QED
      BY <2>1, <2>2, <3>1, <3>2
  <2>5. /\ \A i \in 1..(n - 1) : key[i] = p[i]
        /\ key[n] = "*" /\ key[n + 1] = "#"
    <3>1. \A i \in 1..(n - 1) : i \in 1..(n + 1) /\ i <= n - 1
      BY <1>1
    <3>2. /\ n \in 1..(n + 1) /\ ~(n <= n - 1) /\ n - (n - 1) = 1
          /\ n + 1 \in 1..(n + 1) /\ ~(n + 1 <= n - 1) /\ (n + 1) - (n - 1) = 2
      BY <1>1
    <3> QED
      BY <2>2, <2>3, <2>4, <3>1, <3>2
  <2> HIDE DEF key
  <2>6. \A h \in 1..n : h = n \/ h \in 1..(n - 1)
    BY <1>1
  <2>7. \A h \in 1..n : key[h] # "#"
    BY <2>5, <2>6
  <2>8. KeyMatches(key, s) <=> n <= l /\ \A h \in 1..n : TokenMatches(key[h], s[h])
    <3>1. n \in 0..Len(key) /\ n # Len(key) /\ n + 1 = Len(key)
      BY <1>1, <2>4
    <3> QED
      BY <1>4, <2>4, <2>5, <2>7, <3>1, TopicPrefix
  <2>9. (\A h \in 1..n : TokenMatches(key[h], s[h]))
          <=> \A i \in 1..(n - 1) : TokenMatches(p[i], s[i])
    <3>1. \A i \in 1..(n - 1) : i \in 1..n
      BY <1>1
    <3> QED
      BY <2>5, <2>6, <3>1 DEF TokenMatches
  <2>10. p # <<">">>
    BY <1>7
  <2> QED
    BY <1>1, <1>7, <2>8, <2>9, <2>10 DEF TokensMatch, key
<1> QED
  BY <1>5, <1>6, <1>7

\* Moving a route between backends does not change what it receives: RabbitMQ
\* selects by the binding key what the local router selects by the pattern, for
\* every pattern that RabbitMQ accepts and that has no '#' of its own, except
\* that "*" takes the empty subject in the local router only
\* (rabbitmq_bus.rs:215-247 against routing.rs:34-55).
THEOREM BackendsSelectAlike ==
  ASSUME NEW T, NEW p \in Seq(T), NEW s \in Seq(T), p # <<>>, s # <<>>,
         \A i \in 1..Len(p) : p[i] # "#"
  PROVE  SelectsAlike(p, s)
<1> SUFFICES ASSUME RabbitBindingKey(p) # NoBinding
             PROVE  WildcardMatch(p, s) <=> \/ TopicMatch(RabbitBindingKey(p), s)
                                            \/ EmptyWordTaken(p, s)
  BY DEF SelectsAlike
<1>1. WildcardMatch(p, s) <=> TokensMatch(p, s)
  <2>1. WellFormed(p)
    BY DEF RabbitBindingKey, Accepts
  <2> QED
    BY <2>1, MatchFollowsTokens
<1>2. Words(s) \in Seq(T)
  BY DEF Words
<1>3. TopicMatch(RabbitBindingKey(p), s) <=> p = <<">">> \/ TokensMatch(p, Words(s))
  BY <1>2, KeySelects DEF TopicMatch
<1>4. p = <<">">> => TokensMatch(p, s)
  <2> SUFFICES ASSUME p = <<">">> PROVE TokensMatch(<<">">>, s)
    OBVIOUS
  <2>1. Len(<<">">>) = 1 /\ Len(s) >= 1 /\ 1..(1 - 1) = {}
    BY LenProperties, EmptySeq
  <2> QED
    BY <2>1 DEF TokensMatch
<1>5. EmptyWordTaken(p, s) => TokensMatch(p, s)
  <2> SUFFICES ASSUME EmptyWordTaken(p, s) PROVE TokensMatch(<<"*">>, EmptySubject)
    BY DEF EmptyWordTaken
  <2>1. Len(<<"*">>) = 1 /\ Len(EmptySubject) = 1
    BY DEF EmptySubject
  <2> QED
    BY <2>1 DEF TokensMatch, TokenMatches
<1>6. CASE s # EmptySubject
  BY <1>1, <1>3, <1>4, <1>6 DEF Words, EmptyWordTaken
<1>7. CASE s = EmptySubject
  <2>1. Words(s) = <<>> /\ Len(<<>>) = 0 /\ Len(s) = 1 /\ s[1] = EmptyToken
    BY <1>7 DEF Words, EmptySubject
  <2> DEFINE n == Len(p)
  <2>2. n \in Nat /\ n # 0
    BY LenProperties, EmptySeq
  <2>3. ~TokensMatch(p, <<>>)
    BY <2>1, <2>2 DEF TokensMatch
  <2>4. ASSUME TokensMatch(p, s), p # <<">">>
        PROVE  EmptyWordTaken(p, s)
    <3>1. n = 1
      BY <2>1, <2>2, <2>4 DEF TokensMatch
    <3>2. p = <<p[1]>>
      BY <3>1
    <3>3. p[1] # ">"
      BY <2>4, <3>2
    <3>4. p[1] = "*" \/ p[1] = EmptyToken
      BY <2>1, <2>4, <3>1, <3>3 DEF TokensMatch, TokenMatches
    <3>5. p[1] # EmptyToken
      BY <3>1 DEF RabbitBindingKey, Accepts
    <3> QED
      BY <1>7, <3>2, <3>4, <3>5 DEF EmptyWordTaken
  <2> QED
    BY <1>1, <1>3, <1>4, <1>5, <2>1, <2>3, <2>4
<1> QED
  BY <1>6, <1>7

-----------------------------------------------------------------------------
(* Codecs and labels *)

\* Codecs that write the format their content type names, F[type]; the two names
\* of MessagePack name one format, and "none" stands for what is not there.
Formats(F) == /\ "none" \notin DOMAIN F
              /\ \A type \in DOMAIN F : F[type] # "none"
              /\ {"msgpack", "x-msgpack"} \subseteq DOMAIN F => F["x-msgpack"] = F["msgpack"]
Honest(F) == {CodecOf(type, F[type]) : type \in DOMAIN F}

\* Endpoints whose default is the content type of a codec they have registered.
Endpoints(F) == {e \in [codecs : Seq(Honest(F)), default : DOMAIN F] :
                   \E i \in DOMAIN e.codecs : e.codecs[i].type = e.default}

LEMMA HonestCodec ==
  ASSUME NEW F, NEW c \in Honest(F)
  PROVE  c.type \in DOMAIN F /\ c.format = F[c.type]
BY DEF Honest, CodecOf

\* What a collection selects matches the name it was asked for.
LEMMA SelectedMatches ==
  ASSUME NEW Q, NEW codecs \in Seq(Q), NEW name, Registered(codecs, name)
  PROVE  Selected(codecs, name) \in Q /\ Matches(Selected(codecs, name).type, name)
<1> DEFINE found == {i \in 1..Len(codecs) : Matches(codecs[i].type, name)}
<1>1. DOMAIN codecs = 1..Len(codecs)
  BY LenProperties
<1>2. found # {} /\ found \subseteq Nat
  BY <1>1 DEF Registered
<1>3. Selected(codecs, name) = codecs[Min(found)]
  BY <1>2 DEF Selected, SelectInSeq
<1>4. Min(found) \in found
  <2> HIDE DEF found
  <2> QED
    BY <1>2, MinIn
<1>5. Min(found) \in 1..Len(codecs) /\ Matches(codecs[Min(found)].type, name)
  <2>1. \A i \in found : i \in 1..Len(codecs) /\ Matches(codecs[i].type, name)
    OBVIOUS
  <2> HIDE DEF found
  <2> QED
    BY <1>4, <2>1
<1> QED
  BY <1>3, <1>5, ElementOfSeq

\* Whatever the builder calls of HeaderAwareCodec are, in any order, the default
\* of an endpoint stays registered (codec.rs:161-214).
THEOREM DefaultStaysRegistered ==
  ASSUME NEW F, Formats(F)
  PROVE  /\ \A c \in Honest(F) : New(c) \in Endpoints(F)
         /\ {JsonCodec, CborCodec, MsgPackCodec} \subseteq Honest(F) => Default \in Endpoints(F)
         /\ \A e \in Endpoints(F), c \in Honest(F) : Register(e, c) \in Endpoints(F)
         /\ \A e \in Endpoints(F) : \A name : WithDefaultContentType(e, name) \in Endpoints(F)
<1>1. ASSUME NEW c \in Honest(F) PROVE New(c) \in Endpoints(F)
  <2>1. <<c>> \in Seq(Honest(F)) /\ 1 \in DOMAIN <<c>> /\ <<c>>[1] = c
    OBVIOUS
  <2> QED
    BY <2>1, HonestCodec DEF New, Endpoints
<1>2. ASSUME {JsonCodec, CborCodec, MsgPackCodec} \subseteq Honest(F)
      PROVE  Default \in Endpoints(F)
  <2> DEFINE s == <<MsgPackCodec, CborCodec, JsonCodec>>
  <2>1. s \in Seq(Honest(F)) /\ 3 \in DOMAIN s /\ s[3] = JsonCodec
    BY <1>2
  <2>2. JsonCodec.type = "json" /\ "json" \in DOMAIN F
    BY <1>2, HonestCodec DEF JsonCodec, CodecOf
  <2> HIDE DEF s
  <2>3. [codecs |-> s, default |-> "json"] \in Endpoints(F)
    BY <2>1, <2>2 DEF Endpoints
  <2> QED
    BY <2>3 DEF Default, s
<1>3. ASSUME NEW e \in Endpoints(F), NEW c \in Honest(F)
      PROVE  Register(e, c) \in Endpoints(F)
  <2>1. /\ e \in [codecs : Seq(Honest(F)), default : DOMAIN F]
        /\ e.codecs \in Seq(Honest(F)) /\ e.default \in DOMAIN F
    BY DEF Endpoints
  <2>2. PICK i \in DOMAIN e.codecs : e.codecs[i].type = e.default
    BY DEF Endpoints
  <2> DEFINE one == <<c>>
             s == one \o e.codecs
  <2>3. one \in Seq(Honest(F)) /\ Len(one) = 1
    OBVIOUS
  <2>4. DOMAIN e.codecs = 1..Len(e.codecs) /\ Len(e.codecs) \in Nat
    BY <2>1, LenProperties
  <2> HIDE DEF one
  <2>5. /\ s \in Seq(Honest(F))
        /\ Len(s) = 1 + Len(e.codecs)
        /\ \A k \in 1..(1 + Len(e.codecs)) : s[k] = IF k <= 1 THEN one[k] ELSE e.codecs[k - 1]
    <3>1. /\ s \in Seq(Honest(F))
          /\ Len(s) = Len(one) + Len(e.codecs)
          /\ \A k \in 1..(Len(one) + Len(e.codecs)) :
               s[k] = IF k <= Len(one) THEN one[k] ELSE e.codecs[k - Len(one)]
      BY <2>1, <2>3, ConcatProperties
    <3> HIDE DEF s
    <3> QED
      BY <2>3, <3>1
  <2>6. DOMAIN s = 1..Len(s)
    BY <2>5, LenProperties
  <2>7. i + 1 \in DOMAIN s /\ s[i + 1] = e.codecs[i]
    <3>1. i + 1 \in 1..(1 + Len(e.codecs)) /\ ~(i + 1 <= 1) /\ (i + 1) - 1 = i
      BY <2>4
    <3> HIDE DEF s
    <3> QED
      BY <2>5, <2>6, <3>1
  <2>8. Register(e, c) = [e EXCEPT !.codecs = s]
    BY DEF Register, one
  <2> HIDE DEF s
  <2>9. /\ [e EXCEPT !.codecs = s] \in [codecs : Seq(Honest(F)), default : DOMAIN F]
        /\ [e EXCEPT !.codecs = s].codecs = s
        /\ [e EXCEPT !.codecs = s].default = e.default
    BY <2>1, <2>5
  <2> QED
    BY <2>2, <2>7, <2>8, <2>9 DEF Endpoints
<1>4. ASSUME NEW e \in Endpoints(F), NEW name
      PROVE  WithDefaultContentType(e, name) \in Endpoints(F)
  <2> DEFINE type == CanonicalType(e.codecs, name)
  <2>1. CASE type = NoType
    BY <2>1 DEF WithDefaultContentType
  <2>2. CASE type # NoType
    <3>1. Registered(e.codecs, name) /\ type = Selected(e.codecs, name).type
      BY <2>2 DEF CanonicalType
    <3>2. e \in [codecs : Seq(Honest(F)), default : DOMAIN F] /\ e.codecs \in Seq(Honest(F))
      BY DEF Endpoints
    <3>3. Selected(e.codecs, name) \in Honest(F)
      BY <3>1, <3>2, SelectedMatches
    <3>4. \E i \in DOMAIN e.codecs : e.codecs[i].type = type
      <4> DEFINE found == {i \in 1..Len(e.codecs) : Matches(e.codecs[i].type, name)}
      <4>1. DOMAIN e.codecs = 1..Len(e.codecs)
        BY <3>2, LenProperties
      <4>2. found # {} /\ found \subseteq Nat
        BY <3>1, <4>1 DEF Registered
      <4>3. Selected(e.codecs, name) = e.codecs[Min(found)]
        BY <4>2 DEF Selected, SelectInSeq
      <4>4. found \subseteq DOMAIN e.codecs
        BY <4>1
      <4> HIDE DEF found
      <4>5. Min(found) \in found
        BY <4>2, MinIn
      <4> QED
        BY <3>1, <4>3, <4>4, <4>5
    <3>5. type \in DOMAIN F
      BY <3>1, <3>3, HonestCodec
    <3>6. WithDefaultContentType(e, name) = [e EXCEPT !.default = type]
      BY <2>2 DEF WithDefaultContentType
    <3> HIDE DEF type
    <3>7. /\ [e EXCEPT !.default = type] \in [codecs : Seq(Honest(F)), default : DOMAIN F]
          /\ [e EXCEPT !.default = type].codecs = e.codecs
          /\ [e EXCEPT !.default = type].default = type
      BY <3>2, <3>5
    <3> QED
      BY <3>4, <3>6, <3>7 DEF Endpoints
  <2> QED
    BY <2>1, <2>2
<1> QED
  BY <1>1, <1>2, <1>3, <1>4

\* The bytes of any endpoint are read by every endpoint that knows their label,
\* the first of all itself, and refused by every other (codec.rs:207-245).
THEOREM LabelsLead ==
  ASSUME NEW F, Formats(F), NEW e \in Endpoints(F), NEW peer \in Endpoints(F),
         NEW written, NEW value
  PROVE  LabelLeads(e, peer, written, value)
<1> DEFINE label == [type |-> ContentType(e), written |-> written]
           bytes == Encode(e, value)
<1>1. /\ e.codecs \in Seq(Honest(F)) /\ e.default \in DOMAIN F
      /\ peer.codecs \in Seq(Honest(F))
      /\ \E i \in DOMAIN e.codecs : e.codecs[i].type = e.default
  BY DEF Endpoints
<1>2. \A name : MediaType(name) = e.default => Registered(e.codecs, name)
  BY <1>1 DEF Registered, Matches
<1>3. MediaType(Plain(e.default)) = e.default /\ MediaType(label) = e.default
  BY DEF MediaType, Plain, ContentType
\* The format of what is selected by the default's name, in whatever collection.
<1>4. ASSUME NEW codecs \in Seq(Honest(F)), NEW name,
             MediaType(name) = e.default, Registered(codecs, name)
      PROVE  Selected(codecs, name).format = F[e.default]
  <2>1. /\ Selected(codecs, name) \in Honest(F)
        /\ Matches(Selected(codecs, name).type, name)
    BY <1>4, SelectedMatches
  <2>2. /\ Selected(codecs, name).type \in DOMAIN F
        /\ Selected(codecs, name).format = F[Selected(codecs, name).type]
    BY <2>1, HonestCodec
  <2>3. CASE Selected(codecs, name).type = e.default
    BY <2>2, <2>3
  <2>4. CASE Selected(codecs, name).type = "msgpack" /\ e.default = "x-msgpack"
    BY <1>1, <2>2, <2>4 DEF Formats
  <2> QED
    BY <1>4, <2>1, <2>3, <2>4 DEF Matches
<1>5. bytes = [format |-> F[e.default], value |-> value]
  <2>1. Registered(e.codecs, Plain(e.default))
    BY <1>2, <1>3
  <2>2. Selected(e.codecs, Plain(e.default)).format = F[e.default]
    BY <1>1, <1>3, <1>4, <2>1
  <2> QED
    BY <2>1, <2>2 DEF Encode, EncodeSelected, EncodeWith
<1>6. bytes # NoBytes
  <2>1. F[e.default] # "none"
    BY <1>1 DEF Formats
  <2>2. bytes.format # NoBytes.format
    BY <1>5, <2>1 DEF NoBytes
  <2> QED
    BY <2>2
<1>7. label # NoName
  <2>1. e.default # "none"
    BY <1>1 DEF Formats
  <2>2. label.type # NoName.type
    BY <2>1 DEF ContentType, NoName, NoType
  <2> QED
    BY <2>2
<1>8. bytes.format = F[e.default] /\ bytes.value = value
  BY <1>5
<1> HIDE DEF bytes, label
<1>9. DecodeWithContentType(peer, bytes, label) =
        IF peer = e \/ Registered(peer.codecs, label) THEN value ELSE SerializationError
  <2>1. DecodeWithContentType(peer, bytes, label) = DecodeSelected(peer.codecs, label, bytes)
    BY <1>7 DEF DecodeWithContentType
  <2>2. peer = e => Registered(peer.codecs, label)
    BY <1>2, <1>3
  <2>3. CASE Registered(peer.codecs, label)
    <3>1. Selected(peer.codecs, label).format = F[e.default]
      BY <1>1, <1>3, <1>4, <2>3
    <3> QED
      BY <1>8, <2>1, <2>3, <3>1 DEF DecodeSelected, DecodeWith
  <2>4. CASE ~Registered(peer.codecs, label)
    BY <2>1, <2>2, <2>4 DEF DecodeSelected
  <2> QED
    BY <2>3, <2>4
<1> QED
  BY <1>6, <1>9 DEF LabelLeads, bytes, label

-----------------------------------------------------------------------------
(* Frames.  A cell of a buffer is a length or a byte. *)

LEMMA Joined ==
  ASSUME NEW Q, NEW s \in Seq(Q), NEW t \in Seq(Q)
  PROVE  s \o t \in Seq(Q) /\ Len(s \o t) = Len(s) + Len(t)
BY ConcatProperties

LEMMA SmallLength ==
  ASSUME NEW Q, NEW s \in Seq(Q), Len(s) < LengthMod
  PROVE  Length(s) = Len(s)
BY LenProperties, WidthAssumption DEF Length

LEMMA LengthIsCell ==
  ASSUME NEW Q, NEW s \in Seq(Q)
  PROVE  Length(s) \in Nat
<1>1. PICK n \in Nat : n = Len(s)
  BY LenProperties
<1>2. PICK w \in Nat \ {0} : w = LengthMod
  BY WidthAssumption
<1>3. n % w \in Nat
  OBVIOUS
<1> QED
  BY <1>1, <1>2, <1>3 DEF Length

Listed == [key : Seq(TextBytes), value : Seq(TextBytes)]

LEMMA TextFacts ==
  ASSUME NEW Cells, TextBytes \subseteq Cells, NEW s \in Seq(TextBytes)
  PROVE  s \in Seq(Cells) /\ Len(s) \in Nat /\ IsText(s)
<1>1. s \in Seq(Cells)
  BY SeqMonotonic
<1>2. Len(s) \in Nat /\ DOMAIN s = 1..Len(s) /\ \A i \in 1..Len(s) : s[i] \in TextBytes
  BY LenProperties, ElementOfSeq
<1> QED
  BY <1>1, <1>2 DEF IsText, ToSet

\* Two lengths and then two sequences: where each part stands.
Laid(Q, a, b, s, t, whole) ==
  /\ whole \in Seq(Q) /\ Len(whole) = 2 + Len(s) + Len(t)
  /\ whole[1] = a /\ whole[2] = b
  /\ At(whole, 2, s) /\ At(whole, 2 + Len(s), t)

LEMMA PartsOfTwo ==
  ASSUME NEW Q, NEW a \in Q, NEW b \in Q, NEW s \in Seq(Q), NEW t \in Seq(Q)
  PROVE  Laid(Q, a, b, s, t, <<a, b>> \o s \o t)
<1> SUFFICES ASSUME NEW whole, whole = <<a, b>> \o s \o t
             PROVE  Laid(Q, a, b, s, t, whole)
  OBVIOUS
<1> DEFINE lengths == <<a, b>>
           front == lengths \o s
<1>1. Len(s) \in Nat /\ Len(t) \in Nat
  BY LenProperties
<1>2. /\ lengths \in Seq(Q) /\ Len(lengths) = 2
      /\ lengths[1] = a /\ lengths[2] = b
  OBVIOUS
<1>3. whole = front \o t
  OBVIOUS
<1> HIDE DEF lengths
<1>4. front \in Seq(Q) /\ Len(front) = Len(lengths) + Len(s)
  BY <1>2, Joined
<1>5. At(front, 0, lengths) /\ At(front, Len(lengths), s)
  BY <1>2, AtParts
<1> HIDE DEF front
<1>6. whole \in Seq(Q) /\ Len(whole) = Len(front) + Len(t)
  BY <1>3, <1>4, Joined
<1>7. At(whole, 0, front) /\ At(whole, Len(front), t)
  BY <1>3, <1>4, AtParts
<1>8. Len(front) = 2 + Len(s)
  BY <1>2, <1>4
<1>9. At(front, 2, s)
  BY <1>2, <1>5
<1>10. At(whole, 0 + 2, s) /\ At(whole, 0 + 0, lengths)
  <2>1. 0 \in Nat /\ 2 \in Nat
    OBVIOUS
  <2> QED
    BY <1>2, <1>4, <1>5, <1>6, <1>7, <1>9, <2>1, AtWithin
<1>11. whole[1] = a /\ whole[2] = b
  <2>1. \A i \in 1..2 : whole[0 + 0 + i] = lengths[i]
    BY <1>2, <1>10 DEF At
  <2>2. whole[0 + 0 + 1] = lengths[1] /\ whole[0 + 0 + 2] = lengths[2]
    BY <2>1
  <2>3. 0 + 0 + 1 = 1 /\ 0 + 0 + 2 = 2
    OBVIOUS
  <2> QED
    BY <1>2, <2>2, <2>3
<1>12. Len(whole) = 2 + Len(s) + Len(t)
  BY <1>6, <1>8
<1>13. At(whole, 2 + Len(s), t)
  BY <1>7, <1>8
<1>14. At(whole, 2, s)
  <2>1. 0 + 2 = 2
    OBVIOUS
  <2> QED
    BY <1>10, <2>1
<1> QED
  BY <1>6, <1>11, <1>12, <1>13, <1>14 DEF Laid

LEMMA HeaderParts ==
  ASSUME NEW Cells, Nat \subseteq Cells, TextBytes \subseteq Cells, NEW h \in Listed
  PROVE  /\ EncodeHeader(h) \in Seq(Cells)
         /\ Len(EncodeHeader(h)) = 2 + Len(h.key) + Len(h.value)
         /\ EncodeHeader(h)[1] = Length(h.key)
         /\ EncodeHeader(h)[2] = Length(h.value)
         /\ At(EncodeHeader(h), 2, h.key)
         /\ At(EncodeHeader(h), 2 + Len(h.key), h.value)
<1>1. h.key \in Seq(TextBytes) /\ h.value \in Seq(TextBytes)
  BY DEF Listed
<1>2. h.key \in Seq(Cells) /\ h.value \in Seq(Cells)
  BY <1>1, TextFacts
<1>3. Length(h.key) \in Cells /\ Length(h.value) \in Cells
  BY <1>1, LengthIsCell
<1> DEFINE a == Length(h.key)
           b == Length(h.value)
           key == h.key
           value == h.value
           whole == EncodeHeader(h)
<1>4. whole = <<a, b>> \o key \o value
  BY DEF EncodeHeader
<1>5. a \in Cells /\ b \in Cells /\ key \in Seq(Cells) /\ value \in Seq(Cells)
  BY <1>2, <1>3
<1> HIDE DEF a, b, key, value, whole
<1>6. Laid(Cells, a, b, key, value, <<a, b>> \o key \o value)
  BY <1>5, PartsOfTwo
<1> QED
  BY <1>4, <1>6 DEF a, b, key, value, whole, Laid

LEMMA SliceAt ==
  ASSUME NEW Q, NEW s \in Seq(Q), NEW x \in Seq(Q), NEW from \in Nat, NEW to,
         At(s, from, x), to = from + Len(x)
  PROVE  Slice(s, from, to) = x
<1>1. to <= Len(s) /\ Len(s) \in Nat /\ to \in Nat
  BY LenProperties DEF At
<1>2. (IF to < Len(s) THEN to ELSE Len(s)) = from + Len(x)
  BY <1>1
<1> QED
  BY <1>2, AtCut DEF Slice

\* The loop body of decode_headers takes a header from the cursor and ends at `to`.
Reads(buf, from, key, value, to) ==
  \A headers : DecodeHeader(buf, [cursor |-> from, headers |-> headers]) =
                 [cursor |-> to, headers |-> Inserted(headers, key, value)]

LEMMA CursorRead ==
  ASSUME NEW Cells, NEW buf \in Seq(Cells), NEW key \in Seq(Cells), NEW value \in Seq(Cells),
         NEW c \in Nat, NEW k \in Nat, NEW l \in Nat,
         Len(key) = k, Len(value) = l, IsText(key), IsText(value),
         buf[c + 1] = k, buf[c + 2] = l, c + 2 + k + l <= Len(buf),
         At(buf, c + 2, key), At(buf, c + 2 + k, value)
  PROVE  Reads(buf, c, key, value, c + 2 + k + l)
<1> SUFFICES ASSUME NEW headers
             PROVE  DecodeHeader(buf, [cursor |-> c, headers |-> headers]) =
                      [cursor |-> c + 2 + k + l, headers |-> Inserted(headers, key, value)]
  BY DEF Reads
<1> DEFINE read == [cursor |-> c, headers |-> headers]
<1>1. read.cursor = c /\ read.headers = headers /\ read # Refused
  <2>1. "cursor" \in DOMAIN read /\ "cursor" \notin DOMAIN Refused
    BY DEF Refused
  <2>2. DOMAIN read # DOMAIN Refused
    BY <2>1
  <2> QED
    BY <2>2
<1> HIDE DEF read
<1>2. Slice(buf, c + 2, c + 2 + k) = key
  <2>1. PICK from \in Nat : from = c + 2
    OBVIOUS
  <2>2. At(buf, from, key) /\ from + k = from + Len(key)
    BY <2>1
  <2>3. Slice(buf, from, from + k) = key
    BY <2>2, SliceAt
  <2> QED
    BY <2>1, <2>3
<1>3. Slice(buf, c + 2 + k, c + 2 + k + l) = value
  <2>1. PICK from \in Nat : from = c + 2 + k
    OBVIOUS
  <2>2. At(buf, from, value) /\ from + l = from + Len(value)
    BY <2>1
  <2>3. Slice(buf, from, from + l) = value
    BY <2>2, SliceAt
  <2> QED
    BY <2>1, <2>3
<1>4. ~(Len(buf) < c + 2) /\ ~(Len(buf) < c + 2 + k + l)
  BY LenProperties
<1>5. DecodeHeader(buf, read) = [cursor |-> c + 2 + k + l, headers |-> Inserted(headers, key, value)]
  BY <1>1, <1>2, <1>3, <1>4 DEF DecodeHeader
<1> QED
  BY <1>5 DEF read

LEMMA HeaderRead ==
  ASSUME NEW Cells, Nat \subseteq Cells, TextBytes \subseteq Cells, NEW h \in Listed,
         NEW buf \in Seq(Cells), NEW c \in Nat,
         At(buf, c, EncodeHeader(h)),
         Len(h.key) < LengthMod, Len(h.value) < LengthMod
  PROVE  Reads(buf, c, h.key, h.value, c + Len(EncodeHeader(h)))
<1> DEFINE e == EncodeHeader(h)
           k == Len(h.key)
           l == Len(h.value)
<1>1. /\ h.key \in Seq(TextBytes) /\ h.value \in Seq(TextBytes)
      /\ h.key \in Seq(Cells) /\ h.value \in Seq(Cells)
      /\ k \in Nat /\ l \in Nat /\ IsText(h.key) /\ IsText(h.value)
  BY TextFacts DEF Listed
<1>2. Length(h.key) = k /\ Length(h.value) = l
  BY <1>1, SmallLength
<1>3. /\ e \in Seq(Cells) /\ Len(e) = 2 + k + l
      /\ e[1] = k /\ e[2] = l
      /\ At(e, 2, h.key) /\ At(e, 2 + k, h.value)
  BY <1>2, HeaderParts
<1>4. At(buf, c, e) /\ Len(h.key) = k /\ Len(h.value) = l
  OBVIOUS
<1> HIDE DEF e, k, l
<1>5. /\ Len(buf) \in Nat /\ c + Len(e) <= Len(buf)
      /\ buf[c + 1] = k /\ buf[c + 2] = l
  <2>1. 1 \in 1..Len(e) /\ 2 \in 1..Len(e)
    BY <1>1, <1>3
  <2> QED
    BY <1>3, <1>4, <2>1, LenProperties DEF At
<1>6. At(buf, c + 2, h.key) /\ At(buf, c + (2 + k), h.value)
  <2>1. 2 \in Nat /\ 2 + k \in Nat
    BY <1>1
  <2> QED
    BY <1>1, <1>3, <1>4, <2>1, AtWithin
<1>7. c + (2 + k) = c + 2 + k /\ c + Len(e) = c + 2 + k + l
  BY <1>1, <1>3
<1>8. c + 2 + k + l <= Len(buf)
  BY <1>5, <1>7
<1>9. At(buf, c + 2 + k, h.value)
  BY <1>6, <1>7
<1>10. Reads(buf, c, h.key, h.value, c + 2 + k + l)
  <2> DEFINE key == h.key
             value == h.value
  <2>1. /\ key \in Seq(Cells) /\ value \in Seq(Cells) /\ k \in Nat /\ l \in Nat
        /\ Len(key) = k /\ Len(value) = l /\ IsText(key) /\ IsText(value)
        /\ buf[c + 1] = k /\ buf[c + 2] = l /\ c + 2 + k + l <= Len(buf)
        /\ At(buf, c + 2, key) /\ At(buf, c + 2 + k, value)
    BY <1>1, <1>4, <1>5, <1>6, <1>8, <1>9
  <2> HIDE DEF key, value
  <2>2. Reads(buf, c, key, value, c + 2 + k + l)
    BY <2>1, CursorRead
  <2> QED
    BY <2>2 DEF key, value
<1> QED
  BY <1>7, <1>10 DEF e

\* A run of the loop of decode_headers, once per header that is announced.
Loop(buf, N, V, g) ==
  /\ Len(buf) \in Nat /\ buf[1] = N /\ N <= (Len(buf) - 1) \div 2
  /\ g \in [0..N -> V]
  /\ g[0] = [cursor |-> 1, headers |-> NoHeaders]
  /\ \A i \in 1..N : g[i] = DecodeHeader(buf, g[i - 1])

LEMMA LoopRead ==
  ASSUME NEW buf, NEW N \in Nat \ {0}, NEW V, NEW g, Loop(buf, N, V, g)
  PROVE  DecodeHeaders(buf) = IF g[N] = Refused \/ (g[N] # Refused /\ g[N].cursor # Len(buf)) THEN Refused
                              ELSE [headers |-> g[N].headers]
<1>0. /\ Len(buf) \in Nat /\ buf[1] = N /\ N <= (Len(buf) - 1) \div 2
      /\ g \in [0..N -> V]
      /\ g[0] = [cursor |-> 1, headers |-> NoHeaders]
      /\ \A i \in 1..N : g[i] = DecodeHeader(buf, g[i - 1])
  BY DEF Loop
<1> USE <1>0
<1> DEFINE Solves(r) == r = [i \in 0..buf[1] |->
                               IF i = 0 THEN [cursor |-> 1, headers |-> NoHeaders]
                                        ELSE DecodeHeader(buf, r[i - 1])]
           read == CHOOSE r : Solves(r)
           all == read[buf[1]]
           from(i) == IF i = 0 THEN [cursor |-> 1, headers |-> NoHeaders]
                               ELSE DecodeHeader(buf, g[i - 1])
           k == [i \in 0..N |-> from(i)]
<1>1. \A i \in 0..N : g[i] = k[i]
  <2> TAKE i \in 0..N
  <2>1. CASE i = 0
    BY <2>1
  <2>2. CASE i # 0
    <3>1. i \in 1..N
      BY <2>2
    <3> QED
      BY <2>2, <3>1
  <2> QED
    BY <2>1, <2>2
<1>2. g = [i \in 0..N |-> g[i]] /\ k = [i \in 0..N |-> k[i]]
  OBVIOUS
<1>3. g = k
  <2> HIDE DEF k
  <2> QED
    BY <1>1, <1>2
<1>4. Solves(g)
  BY <1>3
<1>5. Solves(read)
  <2> HIDE DEF Solves
  <2> QED
    BY <1>4
<1>6. DecodeHeaders(buf) = IF all = Refused \/ (all # Refused /\ all.cursor # Len(buf)) THEN Refused
                           ELSE [headers |-> all.headers]
  <2>1. ~(Len(buf) < 1) /\ buf[1] # 0 /\ ~(buf[1] > (Len(buf) - 1) \div 2)
    <3>1. (Len(buf) - 1) \div 2 \in Int /\ (Len(buf) = 0 => (Len(buf) - 1) \div 2 < 1)
      OBVIOUS
    <3> QED
      BY <3>1
  <2> QED
    BY <2>1 DEF DecodeHeaders
<1> HIDE DEF read
<1>7. \A i \in 0..N : read[i] = IF i = 0 THEN [cursor |-> 1, headers |-> NoHeaders]
                                         ELSE DecodeHeader(buf, read[i - 1])
  BY <1>5
<1> DEFINE S == {n \in 0..N : read[n] = g[n]}
<1>8. 0 \in S
  BY <1>7
<1>9. ASSUME NEW n \in Nat, n < N, n \in S PROVE n + 1 \in S
  <2>1. n + 1 \in 1..N /\ n + 1 \in 0..N /\ n + 1 # 0 /\ (n + 1) - 1 = n /\ n \in 0..N
    BY <1>9
  <2>2. read[n + 1] = DecodeHeader(buf, read[(n + 1) - 1])
    BY <1>7, <2>1
  <2>3. g[n + 1] = DecodeHeader(buf, g[(n + 1) - 1])
    BY <2>1
  <2> QED
    BY <1>9, <2>1, <2>2, <2>3
<1>10. N \in S
  <2> HIDE DEF S
  <2>1. 0..N \subseteq S
    BY <1>8, <1>9, Induction
  <2> QED
    BY <2>1
<1>11. all = g[N]
  BY <1>10
<1> HIDE DEF all
<1> QED
  BY <1>6, <1>11

-----------------------------------------------------------------------------
(* The map that the first headers of a list make *)

FirstOf(hs, n) == [k \in {hs[i].key : i \in 1..n} |->
                     hs[CHOOSE i \in DOMAIN hs : hs[i].key = k].value]

Distinct(hs) == \A i, j \in DOMAIN hs : hs[i].key = hs[j].key => i = j

LEMMA FirstNone == ASSUME NEW hs PROVE FirstOf(hs, 0) = NoHeaders
<1>1. {hs[i].key : i \in 1..0} = {}
  OBVIOUS
<1>2. FirstOf(hs, 0) = [k \in {} |-> hs[CHOOSE i \in DOMAIN hs : hs[i].key = k].value]
  BY <1>1 DEF FirstOf
<1> QED
  BY <1>2 DEF NoHeaders

LEMMA FirstAll == ASSUME NEW hs \in Seq(Listed) PROVE FirstOf(hs, Len(hs)) = MapOf(hs)
<1>1. DOMAIN hs = 1..Len(hs)
  BY LenProperties
<1> QED
  BY <1>1 DEF FirstOf, MapOf

LEMMA OneMore ==
  ASSUME NEW hs \in Seq(Listed), Distinct(hs), NEW n \in 1..Len(hs)
  PROVE  Inserted(FirstOf(hs, n - 1), hs[n].key, hs[n].value) = FirstOf(hs, n)
<1>1. DOMAIN hs = 1..Len(hs) /\ Len(hs) \in Nat
  BY LenProperties
<1> DEFINE key == hs[n].key
           value == hs[n].value
           a == FirstOf(hs, n - 1)
           b == FirstOf(hs, n)
           both == Inserted(a, key, value)
<1>2. 1..n = 1..(n - 1) \union {n}
  BY <1>1
<1>3. DOMAIN b = DOMAIN a \union {key}
  <2>1. DOMAIN a = {hs[i].key : i \in 1..(n - 1)} /\ DOMAIN b = {hs[i].key : i \in 1..n}
    BY DEF FirstOf
  <2> QED
    BY <1>2, <2>1
<1>4. b[key] = value
  <2>1. \A i \in DOMAIN hs : hs[i].key = key => i = n
    BY <1>1 DEF Distinct
  <2>2. (CHOOSE i \in DOMAIN hs : hs[i].key = key) = n
    BY <1>1, <2>1
  <2>3. key \in {hs[i].key : i \in 1..n}
    BY <1>1
  <2> QED
    BY <2>2, <2>3 DEF FirstOf
<1>5. \A x \in DOMAIN a : b[x] = a[x]
  <2>1. DOMAIN a = {hs[i].key : i \in 1..(n - 1)} /\ DOMAIN b = {hs[i].key : i \in 1..n}
    BY DEF FirstOf
  <2>2. \A x \in DOMAIN a : x \in {hs[i].key : i \in 1..(n - 1)} /\ x \in {hs[i].key : i \in 1..n}
    BY <1>3, <2>1
  <2> QED
    BY <2>2 DEF FirstOf
<1>6. key \notin DOMAIN a
  <2>1. DOMAIN a = {hs[i].key : i \in 1..(n - 1)}
    BY DEF FirstOf
  <2>2. \A i \in 1..(n - 1) : i \in 1..Len(hs) /\ i # n
    BY <1>1
  <2> QED
    BY <1>1, <2>1, <2>2 DEF Distinct
<1>7. b = [x \in DOMAIN b |-> b[x]]
  BY DEF FirstOf
<1> HIDE DEF a, b, key, value
<1>8. both = [x \in DOMAIN a \union {key} |-> IF x = key THEN value ELSE a[x]]
  BY DEF Inserted
<1>9. \A x \in DOMAIN b : b[x] = IF x = key THEN value ELSE a[x]
  BY <1>3, <1>4, <1>5
<1>10. both = b
  BY <1>3, <1>7, <1>8, <1>9
<1> QED
  BY <1>10 DEF a, b, key, value

-----------------------------------------------------------------------------
(* Headers and frames *)

Encoded(hs) == [i \in DOMAIN hs |-> EncodeHeader(hs[i])]

LEMMA EncodedIsSeq ==
  ASSUME NEW Cells, Nat \subseteq Cells, TextBytes \subseteq Cells, NEW hs \in Seq(Listed)
  PROVE  /\ Encoded(hs) \in Seq(Seq(Cells)) /\ Len(Encoded(hs)) = Len(hs)
         /\ \A i \in 1..Len(hs) : /\ hs[i] \in Listed
                                  /\ Encoded(hs)[i] = EncodeHeader(hs[i])
                                  /\ Encoded(hs)[i] \in Seq(Cells)
                                  /\ Len(Encoded(hs)[i]) = 2 + Len(hs[i].key) + Len(hs[i].value)
                                  /\ Len(hs[i].key) \in Nat /\ Len(hs[i].value) \in Nat
<1> DEFINE V == Seq(Cells)
<1>1. Len(hs) \in Nat /\ DOMAIN hs = 1..Len(hs) /\ \A i \in 1..Len(hs) : hs[i] \in Listed
  BY LenProperties, ElementOfSeq
<1>2. \A i \in 1..Len(hs) : EncodeHeader(hs[i]) \in V
  BY <1>1, HeaderParts
<1>3. Encoded(hs) = [i \in 1..Len(hs) |-> EncodeHeader(hs[i])]
  BY <1>1 DEF Encoded
<1> HIDE DEF V
<1>4. Encoded(hs) \in Seq(V) /\ Len(Encoded(hs)) = Len(hs)
  <2>1. Encoded(hs) \in [1..Len(hs) -> V]
    BY <1>2, <1>3
  <2> QED
    BY <1>1, <2>1
<1>5. ASSUME NEW i \in 1..Len(hs)
      PROVE  /\ Len(EncodeHeader(hs[i])) = 2 + Len(hs[i].key) + Len(hs[i].value)
             /\ Len(hs[i].key) \in Nat /\ Len(hs[i].value) \in Nat
  <2>1. hs[i] \in Listed /\ hs[i].key \in Seq(TextBytes) /\ hs[i].value \in Seq(TextBytes)
    BY <1>1 DEF Listed
  <2>2. Len(hs[i].key) \in Nat /\ Len(hs[i].value) \in Nat
    BY <2>1, LenProperties
  <2>3. Len(EncodeHeader(hs[i])) = 2 + Len(hs[i].key) + Len(hs[i].value)
    BY <2>1, HeaderParts
  <2> QED
    BY <2>2, <2>3
<1> QED
  BY <1>1, <1>2, <1>3, <1>4, <1>5 DEF V

LEMMA HeadersRead ==
  ASSUME NEW Cells, Nat \subseteq Cells, TextBytes \subseteq Cells,
         NEW hs \in Seq(Listed), Distinct(hs), Len(EncodeHeaders(hs)) < LengthMod
  PROVE  /\ EncodeHeaders(hs) \in Seq(Cells)
         /\ DecodeHeaders(EncodeHeaders(hs)) = [headers |-> MapOf(hs)]
<1> DEFINE N == Len(hs)
           ss == Encoded(hs)
           flat == FlattenSeq(ss)
           count == <<Length(hs)>>
           buf == count \o flat
<1>1. /\ N \in Nat /\ ss \in Seq(Seq(Cells)) /\ Len(ss) = N
      /\ \A i \in 1..N : /\ hs[i] \in Listed /\ ss[i] = EncodeHeader(hs[i])
                         /\ ss[i] \in Seq(Cells)
                         /\ Len(ss[i]) = 2 + Len(hs[i].key) + Len(hs[i].value)
                         /\ Len(hs[i].key) \in Nat /\ Len(hs[i].value) \in Nat
  BY EncodedIsSeq, LenProperties
<1>2. /\ Length(hs) \in Nat
      /\ count \in Seq(Cells) /\ Len(count) = 1 /\ count[1] = Length(hs)
  BY LengthIsCell
<1>3. EncodeHeaders(hs) = buf
  BY DEF EncodeHeaders, Encoded
<1> HIDE DEF N, ss, count
<1>4. PICK f : Flattens(ss, Seq(Cells), f)
  BY <1>1, FlattenSteps
<1>5. /\ f \in [0..N -> Seq(Cells)] /\ f[0] = <<>> /\ flat = f[N]
      /\ \A i \in 0..N : f[i] \in Seq(Cells) /\ Len(f[i]) \in Nat
  <2>1. f \in [0..N -> Seq(Cells)] /\ f[0] = <<>> /\ flat = f[N]
    BY <1>1, <1>4 DEF Flattens
  <2> QED
    BY <2>1, LenProperties
<1>6. \A i \in 1..N : Len(f[i]) = Len(f[i - 1]) + Len(ss[i]) /\ At(flat, Len(f[i - 1]), ss[i])
  BY <1>1, <1>4, FlattenAt
<1>7. flat \in Seq(Cells) /\ Len(flat) \in Nat /\ Len(flat) = Len(f[N])
  BY <1>1, <1>5
<1> HIDE DEF flat
<1>8. buf \in Seq(Cells) /\ Len(buf) = Len(count) + Len(flat)
  BY <1>2, <1>7, Joined
<1>9. At(buf, 0, count) /\ At(buf, Len(count), flat)
  BY <1>2, <1>7, AtParts
<1> HIDE DEF buf
<1>10. /\ Len(buf) = 1 + Len(flat) /\ Len(buf) < LengthMod
       /\ buf[1] = Length(hs) /\ At(buf, 1, flat)
  <2>1. Len(buf) = 1 + Len(flat) /\ Len(buf) < LengthMod /\ At(buf, 1, flat)
    BY <1>2, <1>3, <1>8, <1>9
  <2>2. buf[0 + 1] = count[1]
    BY <1>2, <1>9 DEF At
  <2>3. 0 + 1 = 1
    OBVIOUS
  <2> QED
    BY <1>2, <2>1, <2>2, <2>3
\* Every header takes two cells at least, so a count that is true is not refused.
<1>11. 2 * N <= Len(flat)
  <2> DEFINE S == {n \in 0..N : 2 * n <= Len(f[n])}
  <2>1. 0 \in S
    <3>1. Len(f[0]) = 0
      BY <1>5
    <3> QED
      BY <1>1, <3>1
  <2>2. ASSUME NEW n \in Nat, n < N, n \in S PROVE n + 1 \in S
    <3>1. n + 1 \in 1..N /\ n + 1 \in 0..N /\ (n + 1) - 1 = n /\ n \in 0..N
      BY <1>1, <2>2
    <3>2. Len(f[n + 1]) = Len(f[n]) + Len(ss[n + 1])
      <4>1. Len(f[n + 1]) = Len(f[(n + 1) - 1]) + Len(ss[n + 1])
        BY <1>6, <3>1
      <4> QED
        BY <3>1, <4>1
    <3>3. PICK k \in Nat, l \in Nat : Len(ss[n + 1]) = 2 + k + l
      BY <1>1, <3>1
    <3>4. PICK w \in Nat : w = Len(f[n]) /\ 2 * n <= w
      BY <1>5, <2>2, <3>1
    <3>5. Len(f[n + 1]) = w + (2 + k + l)
      BY <3>2, <3>3, <3>4
    <3>6. 2 * (n + 1) <= w + (2 + k + l)
      <4>1. PICK d \in Nat : d = 2 * n
        OBVIOUS
      <4>2. 2 * (n + 1) = d + 2
        BY <4>1
      <4>3. d <= w
        BY <3>4, <4>1
      <4>4. d + 2 <= w + (2 + k + l)
        BY <4>3
      <4> QED
        BY <4>2, <4>4
    <3>7. 2 * (n + 1) <= Len(f[n + 1])
      BY <3>5, <3>6
    <3> QED
      BY <3>1, <3>7
  <2>3. N \in S
    <3> HIDE DEF S
    <3>1. 0..N \subseteq S
      BY <1>1, <2>1, <2>2, Induction
    <3> QED
      BY <1>1, <3>1
  <2> QED
    BY <1>7, <2>3
<1>12. Length(hs) = N
  <2>1. LengthMod \in Nat \ {0}
    BY WidthAssumption
  <2>2. N < LengthMod
    BY <1>1, <1>7, <1>10, <1>11, <2>1
  <2> QED
    BY <2>2, SmallLength DEF N
<1>13. CASE N = 0
  <2>1. buf[1] = 0 /\ Len(buf) = 1
    <3>1. Len(flat) = 0
      BY <1>5, <1>7, <1>13
    <3> QED
      BY <1>10, <1>12, <1>13, <3>1
  <2>2. MapOf(hs) = NoHeaders
    BY <1>13, FirstNone, FirstAll DEF N
  <2>3. DecodeHeaders(buf) = [headers |-> NoHeaders]
    BY <2>1 DEF DecodeHeaders
  <2> QED
    BY <1>3, <1>8, <2>2, <2>3
<1>14. CASE N # 0
  <2> DEFINE state(i) == [cursor |-> 1 + Len(f[i]), headers |-> FirstOf(hs, i)]
             V == {state(i) : i \in 0..N}
             g == [i \in 0..N |-> state(i)]
             m == MapOf(hs)
  <2>1. g \in [0..N -> V]
    OBVIOUS
  <2>2. g[0] = [cursor |-> 1, headers |-> NoHeaders]
    <3>1. 0 \in 0..N /\ 1 + Len(f[0]) = 1
      BY <1>1, <1>5
    <3>2. g[0] = [cursor |-> 1 + Len(f[0]), headers |-> FirstOf(hs, 0)]
      BY <3>1
    <3> QED
      BY <3>1, <3>2, FirstNone
  <2>3. g[N] = [cursor |-> Len(buf), headers |-> m]
    <3>1. N \in 0..N /\ 1 + Len(f[N]) = Len(buf)
      BY <1>1, <1>7, <1>10
    <3>2. g[N] = [cursor |-> 1 + Len(f[N]), headers |-> FirstOf(hs, N)]
      BY <3>1
    <3>3. FirstOf(hs, N) = m
      BY FirstAll DEF N
    <3> QED
      BY <3>1, <3>2, <3>3
  <2>4. ASSUME NEW i \in 1..N PROVE g[i] = DecodeHeader(buf, g[i - 1])
    <3> DEFINE h == hs[i]
               c == 1 + Len(f[i - 1])
    <3>1. i \in 0..N /\ i - 1 \in 0..N
      BY <1>1
    <3>2. h \in Listed /\ ss[i] = EncodeHeader(h) /\ ss[i] \in Seq(Cells)
      BY <1>1
    <3>3. c \in Nat /\ c + Len(ss[i]) = 1 + Len(f[i])
      <4>1. PICK a \in Nat : a = Len(f[i - 1])
        BY <1>5, <3>1
      <4>2. PICK b \in Nat : b = Len(ss[i])
        BY <3>2, LenProperties
      <4>3. Len(f[i]) = a + b /\ c = 1 + a
        BY <1>6, <4>1, <4>2
      <4> HIDE DEF c
      <4>4. c \in Nat /\ c + b = 1 + (a + b)
        BY <4>3
      <4> QED
        BY <4>2, <4>3, <4>4
    <3>4. At(buf, c, ss[i])
      <4>1. 1 \in Nat /\ Len(f[i - 1]) \in Nat /\ At(flat, Len(f[i - 1]), ss[i])
        BY <1>5, <1>6, <3>1
      <4> QED
        BY <1>7, <1>8, <1>10, <3>2, <4>1, AtWithin
    <3>5. Len(h.key) < LengthMod /\ Len(h.value) < LengthMod
      <4>1. PICK k \in Nat, l \in Nat : k = Len(h.key) /\ l = Len(h.value) /\ Len(ss[i]) = 2 + k + l
        BY <1>1
      <4>2. PICK b \in Nat : b = Len(buf)
        BY <1>8, LenProperties
      <4>3. PICK w \in Nat : w = LengthMod
        BY WidthAssumption
      <4> HIDE DEF c, h
      <4>4. b < w /\ c + (2 + k + l) <= b
        BY <1>10, <3>4, <4>1, <4>2, <4>3 DEF At
      <4>5. k < w /\ l < w
        BY <3>3, <4>4
      <4> QED
        BY <4>1, <4>3, <4>5
    <3> HIDE DEF h, c
    <3>6. Reads(buf, c, h.key, h.value, c + Len(EncodeHeader(h)))
      BY <1>8, <3>2, <3>3, <3>4, <3>5, HeaderRead
    <3>7. DecodeHeader(buf, [cursor |-> c, headers |-> FirstOf(hs, i - 1)]) =
            [cursor |-> c + Len(ss[i]), headers |-> Inserted(FirstOf(hs, i - 1), h.key, h.value)]
      BY <3>2, <3>6 DEF Reads
    <3>8. Inserted(FirstOf(hs, i - 1), h.key, h.value) = FirstOf(hs, i)
      BY OneMore DEF h, N
    <3>9. /\ g[i] = [cursor |-> 1 + Len(f[i]), headers |-> FirstOf(hs, i)]
          /\ g[i - 1] = [cursor |-> c, headers |-> FirstOf(hs, i - 1)]
      BY <3>1 DEF c
    <3> HIDE DEF g
    <3> QED
      BY <3>3, <3>7, <3>8, <3>9
  <2>5. /\ buf[1] = N /\ Len(buf) \in Nat /\ N \in Nat \ {0}
        /\ N <= (Len(buf) - 1) \div 2
    <3>1. PICK w \in Nat : w = Len(flat)
      BY <1>7
    <3>2. PICK x \in Nat : x = N
      BY <1>1
    <3>3. Len(buf) = 1 + w /\ 2 * x <= w
      BY <1>10, <1>11, <3>1, <3>2
    <3>4. 1 + w \in Nat /\ x <= ((1 + w) - 1) \div 2
      BY <3>3
    <3> QED
      BY <1>10, <1>12, <1>14, <3>2, <3>3, <3>4
  <2> HIDE DEF g, m, V
  <2>6. DecodeHeaders(buf) = [headers |-> m]
    <3>1. Loop(buf, N, V, g)
      BY <2>1, <2>2, <2>4, <2>5 DEF Loop
    <3>2. g[N] # Refused
      <4>1. "cursor" \in DOMAIN g[N] /\ "cursor" \notin DOMAIN Refused
        BY <2>3 DEF Refused
      <4> QED
        BY <4>1
    <3>3. g[N].cursor = Len(buf) /\ g[N].headers = m
      BY <2>3
    <3> QED
      BY <2>5, <3>1, <3>2, <3>3, LoopRead
  <2> QED
    BY <1>3, <1>8, <2>6 DEF m
<1> QED
  BY <1>13, <1>14

(***************************************************************************)
(* A frame whose lengths fit their fields is read back as it was framed:   *)
(* subject, headers and payload (encode_frame and decode_frame).           *)
(***************************************************************************)
THEOREM FramesAreReadBack ==
  ASSUME NEW Cells, Nat \subseteq Cells, TextBytes \subseteq Cells,
         NEW subject \in Seq(TextBytes), NEW hs \in Seq(Listed), Distinct(hs),
         NEW payload \in Seq(Cells)
  PROVE  Survives(subject, hs, payload)
<1> SUFFICES ASSUME Fits(subject, hs)
             PROVE  DecodeFrame(EncodeFrame(subject, hs, payload)) =
                      [subject |-> subject, headers |-> MapOf(hs), payload |-> payload]
  BY DEF Survives
<1> DEFINE headers == EncodeHeaders(hs)
           k == Len(subject)
           l == Len(headers)
           front == <<k, l>> \o subject \o headers
           buf == front \o payload
<1>1. /\ headers \in Seq(Cells) /\ DecodeHeaders(headers) = [headers |-> MapOf(hs)]
      /\ subject \in Seq(Cells) /\ IsText(subject) /\ k \in Nat /\ l \in Nat
  <2>1. Len(EncodeHeaders(hs)) < LengthMod
    BY DEF Fits
  <2>2. headers \in Seq(Cells) /\ DecodeHeaders(headers) = [headers |-> MapOf(hs)]
    BY <2>1, HeadersRead
  <2> QED
    BY <2>2, TextFacts, LenProperties
<1>2. Length(subject) = k /\ Length(headers) = l
  BY <1>1, SmallLength DEF Fits
<1>3. EncodeFrame(subject, hs, payload) = buf
  BY <1>2 DEF EncodeFrame
<1>4. k \in Cells /\ l \in Cells /\ Len(subject) = k /\ Len(headers) = l
  BY <1>1
<1> HIDE DEF k, l, headers
<1>5. Laid(Cells, k, l, subject, headers, front)
  BY <1>1, <1>4, PartsOfTwo
<1> HIDE DEF front
<1>6. /\ front \in Seq(Cells) /\ Len(front) = 2 + k + l
      /\ front[1] = k /\ front[2] = l /\ At(front, 2, subject) /\ At(front, 2 + k, headers)
  BY <1>4, <1>5 DEF Laid
<1>7. buf \in Seq(Cells) /\ Len(buf) = Len(front) + Len(payload)
  BY <1>6, Joined
<1>8. At(buf, 0, front) /\ At(buf, Len(front), payload)
  BY <1>6, AtParts
<1> HIDE DEF buf
<1>9. buf[1] = k /\ buf[2] = l
  <2>1. 1 \in 1..Len(front) /\ 2 \in 1..Len(front)
    BY <1>1, <1>6
  <2>2. buf[0 + 1] = front[1] /\ buf[0 + 2] = front[2]
    BY <1>8, <2>1 DEF At
  <2>3. 0 + 1 = 1 /\ 0 + 2 = 2
    OBVIOUS
  <2> QED
    BY <1>6, <2>2, <2>3
<1>10. PICK start \in Nat : start = 2 + k
  BY <1>1
<1>11. PICK end \in Nat : end = start + l
  BY <1>1
<1>12. At(buf, 2, subject) /\ At(buf, start, headers) /\ At(buf, end, payload)
  <2>1. At(buf, 0 + 2, subject)
    BY <1>1, <1>6, <1>7, <1>8, AtWithin
  <2>2. At(buf, 0 + start, headers)
    BY <1>1, <1>6, <1>7, <1>8, <1>10, AtWithin
  <2>3. 0 + 2 = 2 /\ 0 + start = start /\ Len(front) = end
    BY <1>1, <1>6, <1>10, <1>11
  <2> QED
    BY <1>8, <2>1, <2>2, <2>3
<1>13. PICK n \in Nat : n = Len(payload)
  BY LenProperties
<1>14. Len(buf) = end + n /\ PayloadStart(buf) = end /\ end >= 2
  BY <1>1, <1>6, <1>7, <1>9, <1>10, <1>11, <1>13 DEF PayloadStart
<1>15. /\ Slice(buf, 2, start) = subject
       /\ Slice(buf, start, end) = headers
       /\ Slice(buf, end, end + n) = payload
  <2>1. 2 \in Nat /\ start = 2 + Len(subject)
    BY <1>4, <1>10
  <2>2. Slice(buf, 2, start) = subject
    BY <1>1, <1>7, <1>12, <2>1, SliceAt
  <2>3. end = start + Len(headers)
    BY <1>4, <1>11
  <2>4. Slice(buf, start, end) = headers
    BY <1>1, <1>7, <1>12, <2>3, SliceAt
  <2>5. Slice(buf, end, end + n) = payload
    BY <1>7, <1>12, <1>13, SliceAt
  <2> QED
    BY <2>2, <2>4, <2>5
<1>16. Complete(buf)
  BY <1>14 DEF Complete
<1>17. DecodeHeaders(headers) # Refused /\ DecodeHeaders(headers).headers = MapOf(hs)
  <2> DEFINE d == [headers |-> MapOf(hs)]
  <2>1. "headers" \in DOMAIN d /\ "headers" \notin DOMAIN Refused
    BY DEF Refused
  <2>2. d # Refused /\ d.headers = MapOf(hs)
    BY <2>1
  <2> QED
    BY <1>1, <2>2
<1>18. DecodeFrame(buf) = [subject |-> Slice(buf, 2, start),
                           headers |-> DecodeHeaders(Slice(buf, start, end)).headers,
                           payload |-> Slice(buf, end, end + n)]
  BY <1>1, <1>9, <1>10, <1>14, <1>15, <1>16, <1>17 DEF DecodeFrame
<1> QED
  BY <1>3, <1>15, <1>17, <1>18

-----------------------------------------------------------------------------
(* What a buffer that is read was made from *)

LEMMA Cut ==
  ASSUME NEW Q, NEW s \in Seq(Q), NEW a \in Nat, NEW b \in Nat, a <= b, b <= Len(s)
  PROVE  /\ Slice(s, a, b) = SubSeq(s, a + 1, b)
         /\ Slice(s, a, b) \in Seq(Q)
         /\ Len(Slice(s, a, b)) = b - a
         /\ \A i \in 1..(b - a) : Slice(s, a, b)[i] = s[a + i]
<1>1. Len(s) \in Nat /\ \A i \in 1..Len(s) : s[i] \in Q
  BY LenProperties, ElementOfSeq
<1>2. Slice(s, a, b) = SubSeq(s, a + 1, b)
  BY <1>1 DEF Slice
<1> DEFINE m == a + 1
           x == SubSeq(s, m, b)
<1>3. m \in Int /\ b \in Int /\ \A i \in m..b : s[i] \in Q
  BY <1>1
<1> HIDE DEF m
<1>4. /\ x \in Seq(Q)
      /\ Len(x) = IF m <= b THEN b - m + 1 ELSE 0
      /\ \A i \in 1..(b - m + 1) : x[i] = s[m + i - 1]
  BY <1>3, SubSeqProperties
<1> HIDE DEF x
<1>5. /\ (IF m <= b THEN b - m + 1 ELSE 0) = b - a
      /\ b - m + 1 = b - a
      /\ \A i \in 1..(b - a) : m + i - 1 = a + i
  BY DEF m
<1>6. Len(x) = b - a /\ \A i \in 1..(b - a) : x[i] = s[a + i]
  BY <1>4, <1>5
<1> QED
  BY <1>2, <1>4, <1>6 DEF x, m

LEMMA CutsJoin ==
  ASSUME NEW Q, NEW s \in Seq(Q), NEW a \in Nat, NEW b \in Nat, NEW c \in Nat,
         a <= b, b <= c, c <= Len(s)
  PROVE  Slice(s, a, b) \o Slice(s, b, c) = Slice(s, a, c)
<1>1. Len(s) \in Nat
  BY LenProperties
<1> DEFINE x == Slice(s, a, b)
           y == Slice(s, b, c)
           z == Slice(s, a, c)
<1>2. /\ x \in Seq(Q) /\ Len(x) = b - a /\ \A i \in 1..(b - a) : x[i] = s[a + i]
      /\ y \in Seq(Q) /\ Len(y) = c - b /\ \A i \in 1..(c - b) : y[i] = s[b + i]
      /\ z \in Seq(Q) /\ Len(z) = c - a /\ \A i \in 1..(c - a) : z[i] = s[a + i]
  <2>1. a <= c /\ b <= Len(s)
    BY <1>1
  <2> QED
    BY <2>1, Cut
<1> HIDE DEF x, y, z
<1>3. /\ x \o y \in Seq(Q)
      /\ Len(x \o y) = Len(x) + Len(y)
      /\ \A i \in 1..(Len(x) + Len(y)) : (x \o y)[i] = IF i <= Len(x) THEN x[i] ELSE y[i - Len(x)]
  BY <1>2, ConcatProperties
<1>4. Len(x) + Len(y) = c - a
  BY <1>2
<1>5. ASSUME NEW i \in 1..(c - a) PROVE (x \o y)[i] = z[i]
  <2>1. (x \o y)[i] = IF i <= b - a THEN x[i] ELSE y[i - (b - a)]
    BY <1>2, <1>3, <1>4
  <2>2. CASE i <= b - a
    <3>1. i \in 1..(b - a)
      BY <2>2
    <3> QED
      BY <1>2, <2>1, <2>2, <3>1
  <2>3. CASE ~(i <= b - a)
    <3>1. i - (b - a) \in 1..(c - b) /\ b + (i - (b - a)) = a + i
      BY <2>3
    <3>2. y[i - (b - a)] = s[b + (i - (b - a))]
      BY <1>2, <3>1
    <3> QED
      BY <1>2, <2>1, <2>3, <3>1, <3>2
  <2> QED
    BY <2>2, <2>3
<1>6. x \o y = z
  <2> DEFINE t == x \o y
  <2>1. t \in Seq(Q) /\ Len(t) = Len(z) /\ \A i \in 1..Len(t) : t[i] = z[i]
    BY <1>2, <1>3, <1>4, <1>5
  <2> HIDE DEF t
  <2>2. t = z
    BY <1>2, <2>1, SeqEqual
  <2> QED
    BY <2>2 DEF t
<1> QED
  BY <1>6 DEF x, y, z

LEMMA TwoCells ==
  ASSUME NEW Q, NEW s \in Seq(Q), NEW a \in Nat, a + 2 <= Len(s)
  PROVE  Slice(s, a, a + 2) = <<s[a + 1], s[a + 2]>>
<1> DEFINE b == a + 2
           x == Slice(s, a, b)
           y == <<s[a + 1], s[a + 2]>>
<1>1. b \in Nat /\ a <= b /\ b <= Len(s) /\ b - a = 2
  OBVIOUS
<1> HIDE DEF b
<1>2. x \in Seq(Q) /\ Len(x) = b - a /\ \A i \in 1..(b - a) : x[i] = s[a + i]
  BY <1>1, Cut
<1>3. Len(x) = 2 /\ x[1] = s[a + 1] /\ x[2] = s[a + 2]
  BY <1>1, <1>2
<1>4. s[a + 1] \in Q /\ s[a + 2] \in Q
  <2>1. Len(s) \in Nat /\ \A i \in 1..Len(s) : s[i] \in Q
    BY LenProperties, ElementOfSeq
  <2>2. a + 1 \in 1..Len(s) /\ a + 2 \in 1..Len(s)
    BY <2>1
  <2> QED
    BY <2>1, <2>2
<1>5. y \in Seq(Q) /\ Len(y) = 2 /\ y[1] = s[a + 1] /\ y[2] = s[a + 2]
  BY <1>4
<1> HIDE DEF x, y
<1>6. \A i \in 1..Len(x) : x[i] = y[i]
  <2>1. \A i \in 1..Len(x) : i = 1 \/ i = 2
    BY <1>3
  <2> QED
    BY <1>3, <1>5, <2>1
<1>7. x = y
  BY <1>2, <1>3, <1>5, <1>6, SeqEqual
<1> QED
  BY <1>7 DEF x, y, b

LEMMA OneCell ==
  ASSUME NEW Q, NEW s \in Seq(Q), 1 <= Len(s)
  PROVE  Slice(s, 0, 1) = <<s[1]>>
<1> DEFINE x == Slice(s, 0, 1)
           y == <<s[1]>>
<1>1. x \in Seq(Q) /\ Len(x) = 1 - 0 /\ \A i \in 1..(1 - 0) : x[i] = s[0 + i]
  <2>1. 0 \in Nat /\ 1 \in Nat /\ 0 <= 1
    OBVIOUS
  <2> QED
    BY <2>1, Cut
<1>2. Len(x) = 1 /\ x[1] = s[1]
  BY <1>1
<1>3. s[1] \in Q
  BY LenProperties, ElementOfSeq
<1>4. y \in Seq(Q) /\ Len(y) = 1 /\ y[1] = s[1]
  BY <1>3
<1> HIDE DEF x, y
<1>5. \A i \in 1..Len(x) : x[i] = y[i]
  BY <1>2, <1>4
<1>6. x = y
  BY <1>1, <1>2, <1>4, <1>5, SeqEqual
<1> QED
  BY <1>6 DEF x, y

LEMMA WholeCut ==
  ASSUME NEW Q, NEW s \in Seq(Q)
  PROVE  Slice(s, 0, Len(s)) = s
<1>1. PICK n \in Nat : n = Len(s)
  BY LenProperties
<1> DEFINE x == Slice(s, 0, n)
<1>2. x \in Seq(Q) /\ Len(x) = n - 0 /\ \A i \in 1..(n - 0) : x[i] = s[0 + i]
  <2>1. 0 \in Nat /\ 0 <= n /\ n <= Len(s)
    BY <1>1
  <2> QED
    BY <2>1, Cut
<1> HIDE DEF x
<1>3. Len(x) = Len(s) /\ \A i \in 1..Len(x) : x[i] = s[i]
  BY <1>1, <1>2
<1>4. x = s
  BY <1>2, <1>3, SeqEqual
<1> QED
  BY <1>1, <1>4 DEF x

LEMMA TextIsText ==
  ASSUME NEW Q, NEW s \in Seq(Q), IsText(s)
  PROVE  s \in Seq(TextBytes)
<1>1. Len(s) \in Nat /\ DOMAIN s = 1..Len(s) /\ s = [i \in 1..Len(s) |-> s[i]]
  BY LenProperties
<1>2. \A i \in 1..Len(s) : s[i] \in TextBytes
  BY <1>1 DEF IsText, ToSet
<1>3. s \in [1..Len(s) -> TextBytes]
  BY <1>1, <1>2
<1> QED
  BY <1>1, <1>3

\* A cell of a buffer of unknown origin: whatever is read as a length fits its field.
Fields == 0..(LengthMod - 1)

LEMMA FieldFacts ==
  ASSUME NEW buf \in Seq(Fields), NEW i \in Nat, 1 <= i, i <= Len(buf)
  PROVE  buf[i] \in Nat /\ buf[i] < LengthMod
<1>1. \A j \in 1..Len(buf) : buf[j] \in Fields
  BY ElementOfSeq
<1>2. i \in 1..Len(buf)
  BY LenProperties
<1>3. buf[i] \in 0..(LengthMod - 1)
  BY <1>1, <1>2 DEF Fields
<1> QED
  BY <1>3, WidthAssumption

Made(buf, c, h, to) ==
  /\ h \in Listed /\ to \in Nat /\ c <= to /\ to <= Len(buf)
  /\ EncodeHeader(h) = Slice(buf, c, to)

\* What the loop body makes of a buffer and a cursor, unless it refuses.
Takes(buf, c, headers, h, to) ==
  /\ Made(buf, c, h, to)
  /\ DecodeHeader(buf, [cursor |-> c, headers |-> headers]) =
       [cursor |-> to, headers |-> Inserted(headers, h.key, h.value)]

LEMMA HeaderMade ==
  ASSUME NEW buf \in Seq(Fields), NEW c \in Nat, NEW headers,
         DecodeHeader(buf, [cursor |-> c, headers |-> headers]) # Refused
  PROVE  \E h, to : Takes(buf, c, headers, h, to)
<1> DEFINE read == [cursor |-> c, headers |-> headers]
           keyStart == c + 2
           keyEnd == keyStart + buf[c + 1]
           valueEnd == keyEnd + buf[c + 2]
           key == Slice(buf, keyStart, keyEnd)
           value == Slice(buf, keyEnd, valueEnd)
           h == [key |-> key, value |-> value]
<1>1. read.cursor = c /\ read.headers = headers
  OBVIOUS
<1> HIDE DEF read
<1>2. DecodeHeader(buf, read) # Refused
  BY DEF read
<1>3. /\ ~(Len(buf) < c + 2)
      /\ ~(Len(buf) < valueEnd \/ ~IsText(key) \/ ~IsText(value))
      /\ DecodeHeader(buf, read) = [cursor |-> valueEnd, headers |-> Inserted(headers, key, value)]
  BY <1>1, <1>2 DEF DecodeHeader
<1>4. PICK n \in Nat : n = Len(buf)
  BY LenProperties
<1>5. PICK k \in Nat, l \in Nat : k = buf[c + 1] /\ l = buf[c + 2] /\ k < LengthMod /\ l < LengthMod
  <2>1. c + 2 <= Len(buf) /\ c + 1 <= Len(buf) /\ c + 1 \in Nat /\ c + 2 \in Nat /\ 1 <= c + 1 /\ 1 <= c + 2
    BY <1>3, <1>4
  <2> QED
    BY <2>1, FieldFacts
<1>6. /\ keyStart \in Nat /\ keyEnd \in Nat /\ valueEnd \in Nat
      /\ keyStart <= keyEnd /\ keyEnd <= valueEnd /\ valueEnd <= n /\ keyEnd <= n
      /\ keyEnd - keyStart = k /\ valueEnd - keyEnd = l /\ c <= keyStart /\ c <= valueEnd
      /\ keyStart = c + 2 /\ keyStart <= n /\ c <= keyEnd
  <2>1. keyStart = c + 2 /\ keyEnd = keyStart + k /\ valueEnd = keyEnd + l
    BY <1>5
  <2>2. ~(n < valueEnd)
    BY <1>3, <1>4
  <2> HIDE DEF keyStart, keyEnd, valueEnd
  <2>3. keyStart \in Nat /\ keyEnd \in Nat /\ valueEnd \in Nat
    BY <2>1
  <2> QED
    BY <2>1, <2>2, <2>3
<1>7. /\ key \in Seq(Fields) /\ Len(key) = k
      /\ value \in Seq(Fields) /\ Len(value) = l
  <2> HIDE DEF keyStart, keyEnd, valueEnd
  <2>0. keyEnd <= Len(buf) /\ valueEnd <= Len(buf)
    BY <1>4, <1>6
  <2>1. /\ Slice(buf, keyStart, keyEnd) \in Seq(Fields)
        /\ Len(Slice(buf, keyStart, keyEnd)) = keyEnd - keyStart
    <3>1. keyStart \in Nat /\ keyEnd \in Nat /\ keyStart <= keyEnd /\ keyEnd <= Len(buf)
      BY <1>6, <2>0
    <3> QED
      BY <3>1, Cut
  <2>2. /\ Slice(buf, keyEnd, valueEnd) \in Seq(Fields)
        /\ Len(Slice(buf, keyEnd, valueEnd)) = valueEnd - keyEnd
    BY <1>6, <2>0, Cut
  <2> QED
    BY <1>6, <2>1, <2>2
<1> HIDE DEF keyStart, keyEnd, valueEnd, key, value
<1>8. key \in Seq(TextBytes) /\ value \in Seq(TextBytes)
  BY <1>3, <1>7, TextIsText
<1>9. h \in Listed /\ h.key = key /\ h.value = value
  BY <1>8 DEF Listed
<1>10. Length(key) = k /\ Length(value) = l
  BY <1>5, <1>7, SmallLength
<1>11. EncodeHeader(h) = Slice(buf, c, valueEnd)
  <2>1. EncodeHeader(h) = <<k, l>> \o key \o value
    BY <1>9, <1>10 DEF EncodeHeader
  <2>2. Slice(buf, c, c + 2) = <<k, l>>
    <3>1. c + 2 <= Len(buf)
      BY <1>3, <1>4
    <3> QED
      BY <1>5, <3>1, TwoCells
  <2>3. Slice(buf, c, keyStart) \o Slice(buf, keyStart, keyEnd) = Slice(buf, c, keyEnd)
    <3>1. keyEnd <= Len(buf)
      BY <1>4, <1>6
    <3> QED
      BY <1>6, <3>1, CutsJoin
  <2>4. Slice(buf, c, keyEnd) \o Slice(buf, keyEnd, valueEnd) = Slice(buf, c, valueEnd)
    <3>1. valueEnd <= Len(buf) /\ keyEnd \in Nat /\ valueEnd \in Nat /\ c <= keyEnd /\ keyEnd <= valueEnd
      BY <1>4, <1>6
    <3> QED
      BY <3>1, CutsJoin
  <2> QED
    BY <1>6, <2>1, <2>2, <2>3, <2>4 DEF key, value
<1>12. Made(buf, c, h, valueEnd)
  <2> HIDE DEF h
  <2> QED
    BY <1>4, <1>6, <1>9, <1>11 DEF Made
<1>13. Takes(buf, c, headers, h, valueEnd)
  <2> HIDE DEF h
  <2> QED
    BY <1>3, <1>9, <1>12 DEF Takes, read
<1> QED
  BY <1>13

Maps == UNION {[D -> Seq(TextBytes)] : D \in SUBSET Seq(TextBytes)}
States == {Refused} \union [cursor : Nat, headers : Maps]

LEMMA StateKept ==
  ASSUME NEW buf \in Seq(Fields), NEW read \in States
  PROVE  DecodeHeader(buf, read) \in States
<1>1. CASE DecodeHeader(buf, read) = Refused
  BY <1>1 DEF States
<1>2. CASE DecodeHeader(buf, read) # Refused
  <2>1. read # Refused
    BY <1>2 DEF DecodeHeader
  <2>2. read \in [cursor : Nat, headers : Maps]
    BY <2>1 DEF States
  <2>3. PICK c \in Nat, headers \in Maps : read = [cursor |-> c, headers |-> headers]
    BY <2>2
  <2>4. PICK h, to : Takes(buf, c, headers, h, to)
    BY <1>2, <2>3, HeaderMade
  <2>5. h.key \in Seq(TextBytes) /\ h.value \in Seq(TextBytes) /\ to \in Nat
    BY <2>4 DEF Takes, Made, Listed
  <2>6. Inserted(headers, h.key, h.value) \in Maps
    <3> DEFINE T == Seq(TextBytes)
               key == h.key
               value == h.value
    <3>1. key \in T /\ value \in T
      BY <2>5
    <3> HIDE DEF T, key, value
    <3>2. PICK D \in SUBSET T : headers \in [D -> T]
      BY DEF Maps, T
    <3>3. Inserted(headers, key, value) \in [D \union {key} -> T]
      BY <3>1, <3>2 DEF Inserted
    <3>4. D \union {key} \in SUBSET T
      BY <3>1
    <3> QED
      BY <3>3, <3>4 DEF Maps, T, key, value
  <2>7. [cursor |-> to, headers |-> Inserted(headers, h.key, h.value)] \in [cursor : Nat, headers : Maps]
    BY <2>5, <2>6
  <2> QED
    BY <2>3, <2>4, <2>7 DEF Takes, States
<1> QED
  BY <1>1, <1>2

\* A map that takes one header more reads as the listing that ends with it.
LEMMA OneMoreRead ==
  ASSUME NEW n \in Nat, NEW hs \in Seq(Listed), Len(hs) = n, NEW map, ReadAs(hs, map),
         NEW h, NEW more \in Seq(Listed), Len(more) = n + 1,
         \A i \in 1..n : more[i] = hs[i], more[n + 1] = h
  PROVE  ReadAs(more, Inserted(map, h.key, h.value))
<1> DEFINE key == h.key
           value == h.value
           all == Inserted(map, key, value)
<1>1. DOMAIN hs = 1..n /\ DOMAIN more = 1..(n + 1)
  BY LenProperties
<1>2. /\ DOMAIN map = {hs[i].key : i \in 1..n}
      /\ \A i \in 1..n : (\A j \in 1..n : hs[j].key = hs[i].key => j <= i)
                          => map[hs[i].key] = hs[i].value
  BY <1>1 DEF ReadAs
<1>3. all = [k \in DOMAIN map \union {key} |-> IF k = key THEN value ELSE map[k]]
  BY DEF Inserted
<1> HIDE DEF all
<1>4. /\ DOMAIN all = DOMAIN map \union {key}
      /\ all[key] = value
      /\ \A k \in DOMAIN map : k # key => all[k] = map[k]
  BY <1>3
<1>5. 1..(n + 1) = 1..n \union {n + 1}
  OBVIOUS
<1>6. DOMAIN all = {more[i].key : i \in 1..(n + 1)}
  <2>1. {more[i].key : i \in 1..(n + 1)} = {more[i].key : i \in 1..n} \union {more[n + 1].key}
    BY <1>5
  <2>2. {more[i].key : i \in 1..n} = {hs[i].key : i \in 1..n}
    OBVIOUS
  <2> QED
    BY <1>2, <1>4, <2>1, <2>2
<1>7. ASSUME NEW i \in 1..(n + 1),
             \A j \in 1..(n + 1) : more[j].key = more[i].key => j <= i
      PROVE  all[more[i].key] = more[i].value
  <2>1. CASE i = n + 1
    BY <1>4, <2>1
  <2>2. CASE i # n + 1
    <3>1. i \in 1..n /\ more[i] = hs[i]
      BY <2>2
    <3>2. hs[i].key # key
      <4>1. n + 1 \in 1..(n + 1) /\ ~(n + 1 <= i)
        BY <3>1
      <4> QED
        BY <1>7, <3>1, <4>1
    <3>3. \A j \in 1..n : hs[j].key = hs[i].key => j <= i
      BY <1>5, <1>7, <3>1
    <3>4. hs[i].key \in DOMAIN map /\ map[hs[i].key] = hs[i].value
      BY <1>2, <3>1, <3>3
    <3> QED
      BY <1>4, <3>1, <3>2, <3>4
  <2> QED
    BY <2>1, <2>2
<1> QED
  BY <1>1, <1>6, <1>7 DEF ReadAs, all

\* The first n headers of a buffer fill it from the count to the cursor, and have
\* been read as a map.
Filled(buf, n, cursor, map) ==
  \E hs \in Seq(Listed) : /\ Len(hs) = n /\ FlattenSeq(Encoded(hs)) = Slice(buf, 1, cursor)
                          /\ ReadAs(hs, map)

LEMMA OneMoreFilled ==
  ASSUME NEW buf \in Seq(Fields), NEW n \in Nat, NEW c \in Nat, 1 <= c, NEW map,
         Filled(buf, n, c, map), NEW h, NEW to, Made(buf, c, h, to)
  PROVE  Filled(buf, n + 1, to, Inserted(map, h.key, h.value))
<1> DEFINE Cells == Nat \union TextBytes
           V == Seq(Cells)
<1>0. Nat \subseteq Cells /\ TextBytes \subseteq Cells
  OBVIOUS
<1> HIDE DEF Cells
<1>1. PICK hs \in Seq(Listed) : /\ Len(hs) = n /\ FlattenSeq(Encoded(hs)) = Slice(buf, 1, c)
                               /\ ReadAs(hs, map)
  BY DEF Filled
<1>2. h \in Listed /\ to \in Nat /\ c <= to /\ to <= Len(buf) /\ EncodeHeader(h) = Slice(buf, c, to)
  BY DEF Made
<1> DEFINE more == Append(hs, h)
<1>3. /\ more \in Seq(Listed) /\ Len(more) = n + 1
      /\ \A i \in 1..n : more[i] = hs[i]
      /\ more[n + 1] = h
  BY <1>1, <1>2, AppendProperties
<1> HIDE DEF more
<1>4. /\ DOMAIN hs = 1..n /\ DOMAIN more = 1..(n + 1)
      /\ Encoded(hs) \in Seq(V) /\ Len(Encoded(hs)) = n
      /\ Encoded(more) \in Seq(V) /\ Len(Encoded(more)) = n + 1
      /\ EncodeHeader(h) \in V
  BY <1>0, <1>1, <1>2, <1>3, EncodedIsSeq, HeaderParts, LenProperties
<1>5. Encoded(more) = Append(Encoded(hs), EncodeHeader(h))
  <2> DEFINE s == Encoded(more)
             t == Append(Encoded(hs), EncodeHeader(h))
             e == Encoded(hs)
             x == EncodeHeader(h)
  <2>1. /\ \A i \in 1..n : e[i] = EncodeHeader(hs[i])
        /\ \A i \in 1..(n + 1) : s[i] = EncodeHeader(more[i])
    BY <1>4 DEF Encoded
  <2>2. e \in Seq(V) /\ Len(e) = n /\ s \in Seq(V) /\ Len(s) = n + 1 /\ x \in V
    BY <1>4
  <2> HIDE DEF V, e, x, s
  <2>3. t = Append(e, x)
    BY DEF e, x
  <2>4. /\ t \in Seq(V) /\ Len(t) = n + 1
        /\ \A i \in 1..n : t[i] = e[i]
        /\ t[n + 1] = x
    BY <2>2, <2>3, AppendProperties
  <2> HIDE DEF t
  <2>5. ASSUME NEW i \in 1..Len(s) PROVE s[i] = t[i]
    <3>1. CASE i \in 1..n
      BY <1>3, <2>1, <2>2, <2>4, <3>1
    <3>2. CASE i = n + 1
      BY <1>3, <2>1, <2>2, <2>4, <3>2 DEF x
    <3> QED
      BY <2>2, <3>1, <3>2
  <2>6. s = t
    BY <2>2, <2>4, <2>5, SeqEqual
  <2> QED
    BY <2>6 DEF s, t
<1>6. FlattenSeq(Encoded(more)) = FlattenSeq(Encoded(hs)) \o EncodeHeader(h)
  BY <1>4, <1>5, FlattenAppend
<1>7. Slice(buf, 1, c) \o Slice(buf, c, to) = Slice(buf, 1, to)
  <2>1. 1 \in Nat
    OBVIOUS
  <2> QED
    BY <1>2, <2>1, CutsJoin
<1>8. FlattenSeq(Encoded(more)) = Slice(buf, 1, to)
  BY <1>1, <1>2, <1>6, <1>7
<1>9. ReadAs(more, Inserted(map, h.key, h.value))
  BY <1>1, <1>3, OneMoreRead
<1> QED
  BY <1>3, <1>8, <1>9 DEF Filled

LEMMA HeadersMade ==
  ASSUME NEW buf \in Seq(Fields), DecodeHeaders(buf) # Refused
  PROVE  \E hs \in Seq(Listed) : EncodeHeaders(hs) = buf /\ ReadAs(hs, DecodeHeaders(buf).headers)
<1>1. PICK w \in Nat : w = Len(buf)
  BY LenProperties
<1>2. 1 <= w
  <2>1. ~(Len(buf) < 1)
    BY DEF DecodeHeaders
  <2> QED
    BY <1>1, <2>1
<1>3. PICK N \in Nat : N = buf[1] /\ N < LengthMod
  <2>1. 1 \in Nat /\ 1 <= 1 /\ 1 <= Len(buf)
    BY <1>1, <1>2
  <2> QED
    BY <2>1, FieldFacts
<1> DEFINE headers == DecodeHeaders(buf).headers
<1> HIDE DEF headers
<1>4. Filled(buf, 0, 1, NoHeaders)
  <2>1. <<>> \in Seq(Listed) /\ Len(<<>>) = 0 /\ Encoded(<<>>) = <<>>
    BY DEF Encoded
  <2>2. Slice(buf, 1, 1) = <<>>
    <3>1. Slice(buf, 1, 1) = SubSeq(buf, 2, 1)
      <4>1. PICK one \in Nat : one = 1
        OBVIOUS
      <4>2. one <= one /\ one <= Len(buf) /\ one + 1 = 2
        BY <1>1, <1>2, <4>1
      <4>3. Slice(buf, one, one) = SubSeq(buf, one + 1, one)
        BY <4>2, Cut
      <4> QED
        BY <4>1, <4>2, <4>3
    <3>2. 2 \in Int /\ 1 \in Int /\ 1 < 2
      OBVIOUS
    <3> QED
      BY <3>1, <3>2, SubSeqEmpty
  <2>3. FlattenSeq(Encoded(<<>>)) = Slice(buf, 1, 1)
    BY <2>1, <2>2, FlattenNone
  <2>4. ReadAs(<<>>, NoHeaders)
    BY DEF ReadAs, NoHeaders
  <2> QED
    BY <2>1, <2>3, <2>4 DEF Filled
<1>5. Filled(buf, N, w, headers)
  <2>1. CASE N = 0
    <3>1. Len(buf) = 1 /\ DecodeHeaders(buf) = [headers |-> NoHeaders]
      BY <1>3, <2>1 DEF DecodeHeaders
    <3>2. headers = NoHeaders
      BY <3>1 DEF headers
    <3> QED
      BY <1>1, <1>4, <2>1, <3>1, <3>2
  <2>2. CASE N # 0
    <3> DEFINE V == States
               v == [cursor |-> 1, headers |-> NoHeaders]
               step == [i \in 1..N |-> [t \in V |-> DecodeHeader(buf, t)]]
    <3>1. v \in V
      <4>1. NoHeaders \in [{} -> Seq(TextBytes)] /\ {} \in SUBSET Seq(TextBytes)
        BY DEF NoHeaders
      <4>2. NoHeaders \in Maps
        BY <4>1 DEF Maps
      <4> QED
        BY <4>2 DEF States
    <3>2. step \in [1..N -> [V -> V]]
      <4>1. \A t \in V : DecodeHeader(buf, t) \in V
        BY StateKept
      <4> HIDE DEF V
      <4> QED
        BY <4>1
    <3>3. \A i \in 1..N, t \in V : step[i][t] = DecodeHeader(buf, t)
      OBVIOUS
    <3> HIDE DEF V, v, step
    <3>4. Runs(N, V, v, step)
      BY <3>1, <3>2, Recursion
    <3>5. PICK g \in [0..N -> V] : g[0] = v /\ \A i \in 1..N : g[i] = step[i][g[i - 1]]
      BY <3>4 DEF Runs
    <3>6. \A i \in 1..N : g[i - 1] \in V /\ g[i] = DecodeHeader(buf, g[i - 1])
      <4> TAKE i \in 1..N
      <4>1. i - 1 \in 0..N
        OBVIOUS
      <4>2. g[i - 1] \in V
        BY <3>5, <4>1
      <4> QED
        BY <3>3, <3>5, <4>2
    <3>7. Loop(buf, N, V, g)
      <4>1. buf[1] = N /\ Len(buf) \in Nat
        BY <1>1, <1>3
      <4>2. N <= (Len(buf) - 1) \div 2
        <5>1. ~(buf[1] > (Len(buf) - 1) \div 2)
          BY <1>3, <2>2 DEF DecodeHeaders
        <5>2. (w - 1) \div 2 \in Int
          OBVIOUS
        <5> QED
          BY <1>1, <1>3, <5>1, <5>2
      <4> QED
        BY <3>5, <3>6, <4>1, <4>2 DEF Loop, v
    <3>8. g[N] # Refused /\ g[N].cursor = w /\ g[N].headers = headers
      <4>1. N \in Nat \ {0}
        BY <2>2
      <4>2. DecodeHeaders(buf) = IF g[N] = Refused \/ (g[N] # Refused /\ g[N].cursor # Len(buf)) THEN Refused
                                 ELSE [headers |-> g[N].headers]
        BY <3>7, <4>1, LoopRead
      <4>3. g[N] # Refused /\ g[N].cursor = w /\ DecodeHeaders(buf) = [headers |-> g[N].headers]
        BY <1>1, <4>2
      <4> QED
        BY <4>3 DEF headers
    <3> DEFINE S == {n \in 0..N : \/ g[n] = Refused
                                  \/ /\ 1 <= g[n].cursor
                                     /\ Filled(buf, n, g[n].cursor, g[n].headers)}
    <3>9. 0 \in S
      <4>1. g[0].cursor = 1 /\ g[0].headers = NoHeaders
        BY <3>5 DEF v
      <4> QED
        BY <1>4, <4>1
    <3>10. ASSUME NEW n \in Nat, n < N, n \in S PROVE n + 1 \in S
      <4>1. n + 1 \in 1..N /\ n + 1 \in 0..N /\ (n + 1) - 1 = n
        BY <3>10
      <4>2. g[n] \in V /\ g[n + 1] = DecodeHeader(buf, g[n])
        BY <3>6, <4>1
      <4>3. CASE g[n + 1] = Refused
        BY <4>1, <4>3
      <4>4. CASE g[n + 1] # Refused
        <5>1. g[n] # Refused
          BY <4>2, <4>4 DEF DecodeHeader
        <5>2. PICK c \in Nat, map \in Maps : g[n] = [cursor |-> c, headers |-> map]
          BY <4>2, <5>1 DEF V, States
        <5>3. PICK h, to : Takes(buf, c, map, h, to)
          BY <4>2, <4>4, <5>2, HeaderMade
        <5>4. 1 <= c /\ Filled(buf, n, c, map)
          BY <3>10, <5>1, <5>2
        <5>5. Made(buf, c, h, to) /\ to \in Nat /\ 1 <= to
          BY <5>3, <5>4 DEF Takes, Made
        <5>6. Filled(buf, n + 1, to, Inserted(map, h.key, h.value))
          BY <5>4, <5>5, OneMoreFilled
        <5>7. g[n + 1].cursor = to /\ g[n + 1].headers = Inserted(map, h.key, h.value)
          BY <4>2, <5>2, <5>3 DEF Takes
        <5> QED
          BY <4>1, <5>5, <5>6, <5>7
      <4> QED
        BY <4>3, <4>4
    <3>11. N \in S
      <4> HIDE DEF S
      <4>1. 0..N \subseteq S
        BY <3>9, <3>10, Induction
      <4>2. N \in 0..N
        OBVIOUS
      <4> QED
        BY <4>1, <4>2
    <3> QED
      BY <3>8, <3>11
  <2> QED
    BY <2>1, <2>2
<1>6. PICK hs \in Seq(Listed) : /\ Len(hs) = N /\ FlattenSeq(Encoded(hs)) = Slice(buf, 1, w)
                               /\ ReadAs(hs, headers)
  BY <1>5 DEF Filled
<1>7. Length(hs) = N
  BY <1>3, <1>6, SmallLength
<1>8. Slice(buf, 0, 1) = <<N>>
  BY <1>1, <1>2, <1>3, OneCell
<1>9. Slice(buf, 0, 1) \o Slice(buf, 1, w) = Slice(buf, 0, w)
  <2>1. 0 \in Nat /\ 1 \in Nat /\ 0 <= 1 /\ w <= Len(buf)
    BY <1>1
  <2> QED
    BY <1>2, <2>1, CutsJoin
<1>10. Slice(buf, 0, w) = buf
  BY <1>1, WholeCut
<1>11. EncodeHeaders(hs) = <<N>> \o Slice(buf, 1, w)
  BY <1>6, <1>7 DEF EncodeHeaders, Encoded
<1> QED
  BY <1>6, <1>8, <1>9, <1>10, <1>11 DEF headers

LEMMA FrameMade ==
  ASSUME NEW buf \in Seq(Fields), DecodeFrame(buf) # Refused
  PROVE  \E hs \in Seq(Listed) :
           /\ buf = EncodeFrame(DecodeFrame(buf).subject, hs, DecodeFrame(buf).payload)
           /\ ReadAs(hs, DecodeFrame(buf).headers)
           /\ 2 + Len(EncodeHeaders(hs)) <= Len(buf)
<1>1. PICK n \in Nat : n = Len(buf)
  BY LenProperties
<1>2. Complete(buf) /\ Len(buf) >= 2 /\ Len(buf) >= PayloadStart(buf)
  BY DEF DecodeFrame, Complete
<1>3. PICK k \in Nat, l \in Nat : k = buf[1] /\ l = buf[2] /\ k < LengthMod /\ l < LengthMod
  <2>1. 1 \in Nat /\ 2 \in Nat /\ 1 <= 1 /\ 1 <= 2 /\ 1 <= Len(buf) /\ 2 <= Len(buf)
    BY <1>1, <1>2
  <2> QED
    BY <2>1, FieldFacts
<1>4. PICK start \in Nat : start = 2 + k
  OBVIOUS
<1>5. PICK end \in Nat : end = start + l
  OBVIOUS
<1>6. /\ PayloadStart(buf) = end /\ end <= Len(buf) /\ start <= Len(buf) /\ 2 <= Len(buf)
      /\ 2 <= start /\ start <= end /\ end <= n /\ 2 <= end /\ 0 <= end /\ 0 <= start
      /\ start - 2 = k /\ end - start = l
  <2>1. PayloadStart(buf) = end
    BY <1>3, <1>4, <1>5 DEF PayloadStart
  <2> QED
    BY <1>1, <1>2, <1>4, <1>5, <2>1
<1> DEFINE subject == Slice(buf, 2, start)
           headers == Slice(buf, start, end)
           payload == Slice(buf, end, n)
           frame == DecodeFrame(buf)
<1>7. /\ IsText(subject) /\ DecodeHeaders(headers) # Refused
      /\ frame.subject = subject /\ frame.payload = payload
      /\ frame.headers = DecodeHeaders(headers).headers
  <2>1. 2 + buf[1] = start
    BY <1>3, <1>4
  <2> QED
    BY <1>1, <1>2, <1>6, <2>1 DEF DecodeFrame
<1> HIDE DEF frame
<1>8. subject \in Seq(Fields) /\ Len(subject) = k
  <2>1. 2 \in Nat
    OBVIOUS
  <2> QED
    BY <1>6, <2>1, Cut
<1>9. headers \in Seq(Fields) /\ Len(headers) = l
  BY <1>6, Cut
<1> HIDE DEF subject, headers, payload
<1>10. Length(subject) = k /\ Length(headers) = l
  BY <1>3, <1>8, <1>9, SmallLength
<1>11. PICK hs \in Seq(Listed) : EncodeHeaders(hs) = headers /\ ReadAs(hs, frame.headers)
  BY <1>7, <1>9, HeadersMade
<1>12. EncodeFrame(subject, hs, payload) = <<k, l>> \o subject \o headers \o payload
  BY <1>10, <1>11 DEF EncodeFrame
<1>13. Slice(buf, 0, 2) = <<k, l>>
  <2>1. 0 \in Nat /\ 0 + 2 <= Len(buf) /\ 0 + 1 = 1 /\ 0 + 2 = 2
    BY <1>6
  <2>2. Slice(buf, 0, 0 + 2) = <<buf[0 + 1], buf[0 + 2]>>
    BY <2>1, TwoCells
  <2> QED
    BY <1>3, <2>1, <2>2
<1>14. Slice(buf, 0, 2) \o subject = Slice(buf, 0, start)
  <2>1. /\ 0 \in Nat /\ 2 \in Nat /\ start \in Nat
        /\ 0 <= 2 /\ 2 <= start /\ start <= Len(buf)
    BY <1>6
  <2>2. Slice(buf, 0, 2) \o Slice(buf, 2, start) = Slice(buf, 0, start)
    BY <2>1, CutsJoin
  <2> QED
    BY <2>2 DEF subject
<1>15. Slice(buf, 0, start) \o headers = Slice(buf, 0, end)
  <2>1. /\ 0 \in Nat /\ start \in Nat /\ end \in Nat
        /\ 0 <= start /\ start <= end /\ end <= Len(buf)
    BY <1>6
  <2>2. Slice(buf, 0, start) \o Slice(buf, start, end) = Slice(buf, 0, end)
    BY <2>1, CutsJoin
  <2> QED
    BY <2>2 DEF headers
<1>16. Slice(buf, 0, end) \o payload = Slice(buf, 0, n)
  <2>1. /\ 0 \in Nat /\ end \in Nat /\ n \in Nat
        /\ 0 <= end /\ end <= n /\ n <= Len(buf)
    BY <1>1, <1>6
  <2>2. Slice(buf, 0, end) \o Slice(buf, end, n) = Slice(buf, 0, n)
    BY <2>1, CutsJoin
  <2> QED
    BY <2>2 DEF payload
<1>17. Slice(buf, 0, n) = buf
  BY <1>1, WholeCut
<1>18. buf = EncodeFrame(subject, hs, payload)
  BY <1>12, <1>13, <1>14, <1>15, <1>16, <1>17
<1>19. 2 + Len(EncodeHeaders(hs)) <= Len(buf)
  <2>1. 2 + l <= n
    BY <1>4, <1>5, <1>6
  <2> QED
    BY <1>1, <1>9, <1>11, <2>1
<1> QED
  BY <1>7, <1>11, <1>18, <1>19 DEF frame

(***************************************************************************)
(* decode leaves no cell of a buffer unaccounted for: one that it does not *)
(* refuse is the frame of the subject and the payload that were read and   *)
(* of a listing that reads as the header map that was read, in which a     *)
(* later value of a key replaces an earlier one.                           *)
(***************************************************************************)
THEOREM OnlyFramesAreRead ==
  ASSUME NEW buf \in Seq(Fields)
  PROVE  IsFrame(buf, Seq(Listed))
BY FrameMade DEF IsFrame

-----------------------------------------------------------------------------
(* The properties of MCTables, for all its bounds *)

\* The format that each content type of MCTables names.
FormatOf == [type \in {"json", "cbor", "msgpack", "x-msgpack", "text"} |->
               IF type = "x-msgpack" THEN "msgpack" ELSE type]

PatternInputs == {i \in [table : {"subject"}, pattern : Seq(Tokens \union {"*", ">"}), subject : Seq(Tokens)] :
                    i.pattern # <<>> /\ i.subject # <<>>}
CodecInputs == [table : {"codec"}, endpoint : Endpoints(FormatOf)]
FrameInputs == {i \in [table : {"frame"}, subject : Seq(TextBytes), headers : Seq(Listed), payload : Seq(TextBytes)] :
                  Distinct(i.headers)}
BufferInputs == {i \in [table : {"buffer"}, buffer : Seq(Fields)] : Len(i.buffer) <= MaxBuffer}

InputInv == input \in PatternInputs \union CodecInputs \union FrameInputs \union BufferInputs

LEMMA BoundedIsSeq ==
  ASSUME NEW S, NEW n
  PROVE  BoundedSeq(S, n) \subseteq Seq(S)
<1>1. \A s \in BoundedSeq(S, n) : \E m \in 0..n : s \in [1..m -> S]
  BY DEF BoundedSeq, SeqOf
<1>2. 0..n \subseteq Nat
  OBVIOUS
<1> QED
  BY <1>1, <1>2

LEMMA BoundedLength ==
  ASSUME NEW S, NEW n \in Int, NEW s
  PROVE  s \in BoundedSeq(S, n) <=> s \in Seq(S) /\ Len(s) <= n
<1>1. ASSUME s \in BoundedSeq(S, n) PROVE s \in Seq(S) /\ Len(s) <= n
  <2>1. PICK m \in 0..n : s \in [1..m -> S]
    BY <1>1 DEF BoundedSeq, SeqOf
  <2>2. m \in Nat /\ m <= n
    BY <2>1
  <2>3. s \in Seq(S) /\ DOMAIN s = 1..m
    BY <2>1, <2>2
  <2>4. Len(s) = m
    BY <2>2, <2>3, LenProperties
  <2> QED
    BY <2>2, <2>3, <2>4
<1>2. ASSUME s \in Seq(S), Len(s) <= n PROVE s \in BoundedSeq(S, n)
  <2>1. PICK m \in Nat : m = Len(s)
    BY <1>2, LenProperties
  <2>2. s \in [1..m -> S] /\ m \in 0..n
    BY <1>2, <2>1, LenProperties
  <2> QED
    BY <2>2 DEF BoundedSeq, SeqOf
<1> QED
  BY <1>1, <1>2

LEMMA FormatsNamed ==
  /\ Formats(FormatOf)
  /\ Codecs = Honest(FormatOf)
  /\ {JsonCodec, CborCodec, MsgPackCodec} \subseteq Honest(FormatOf)
<1>1. /\ DOMAIN FormatOf = {"json", "cbor", "msgpack", "x-msgpack", "text"}
      /\ FormatOf["json"] = "json" /\ FormatOf["cbor"] = "cbor" /\ FormatOf["msgpack"] = "msgpack"
      /\ FormatOf["x-msgpack"] = "msgpack" /\ FormatOf["text"] = "text"
  BY DEF FormatOf
<1>2. Formats(FormatOf)
  BY <1>1 DEF Formats
<1>3. Codecs = Honest(FormatOf)
  BY <1>1 DEF Codecs, Honest, JsonCodec, CborCodec, MsgPackCodec
<1>4. {JsonCodec, CborCodec, MsgPackCodec} \subseteq Honest(FormatOf)
  BY <1>3 DEF Codecs
<1> QED
  BY <1>2, <1>3, <1>4

\* What the inputs of MCTables are.
LEMMA InputInvariance == Inputs => []InputInv
<1>1. FirstInput => InputInv
  <2> SUFFICES ASSUME FirstInput PROVE InputInv
    OBVIOUS
  <2>1. CASE \E p \in Tokens \union {"*", ">"}, s \in Tokens :
               input = [table |-> "subject", pattern |-> <<p>>, subject |-> <<s>>]
    <3>1. PICK p \in Tokens \union {"*", ">"}, s \in Tokens :
            input = [table |-> "subject", pattern |-> <<p>>, subject |-> <<s>>]
      BY <2>1
    <3>2. input \in PatternInputs
      BY <3>1 DEF PatternInputs
    <3> QED
      BY <3>2 DEF InputInv
  <2>2. CASE \E e \in {New(c) : c \in Codecs} \union {Default} : input = [table |-> "codec", endpoint |-> e]
    <3>1. PICK e \in {New(c) : c \in Codecs} \union {Default} : input = [table |-> "codec", endpoint |-> e]
      BY <2>2
    <3>2. e \in Endpoints(FormatOf)
      BY FormatsNamed, DefaultStaysRegistered
    <3>3. input \in CodecInputs
      BY <3>1, <3>2 DEF CodecInputs
    <3> QED
      BY <3>3 DEF InputInv
  <2>3. CASE \E s \in Texts, hs \in Listings, p \in Texts :
               input = [table |-> "frame", subject |-> s, headers |-> hs, payload |-> p]
    <3>1. PICK s \in Texts, hs \in Listings, p \in Texts :
            input = [table |-> "frame", subject |-> s, headers |-> hs, payload |-> p]
      BY <2>3
    <3>2. s \in Seq(TextBytes) /\ p \in Seq(TextBytes)
      BY BoundedIsSeq DEF Texts
    <3>3. Headers \subseteq Listed
      <4>1. \A b \in TextBytes : <<b>> \in Seq(TextBytes)
        OBVIOUS
      <4>2. <<>> \in Seq(TextBytes) /\ Texts \subseteq Seq(TextBytes)
        BY BoundedIsSeq DEF Texts
      <4> QED
        BY <4>1, <4>2 DEF Headers, Listed
    <3>4. hs \in Seq(Headers) /\ Distinct(hs)
      BY BoundedIsSeq DEF Listings, Distinct
    <3>5. hs \in Seq(Listed)
      BY <3>3, <3>4, SeqMonotonic
    <3>6. input \in FrameInputs
      BY <3>1, <3>2, <3>4, <3>5 DEF FrameInputs
    <3> QED
      BY <3>6 DEF InputInv
  <2>4. CASE \E b \in BoundedSeq(BufferCells, MaxBuffer) : input = [table |-> "buffer", buffer |-> b]
    <3>1. PICK b \in BoundedSeq(BufferCells, MaxBuffer) : input = [table |-> "buffer", buffer |-> b]
      BY <2>4
    <3>2. b \in Seq(Fields) /\ Len(b) <= MaxBuffer
      <4>1. b \in Seq(BufferCells) /\ BufferCells \subseteq Fields
        BY BoundedIsSeq, CellsAssumption DEF Fields
      <4>2. b \in Seq(Fields)
        BY <4>1, SeqMonotonic
      <4> QED
        BY <4>2, BoundedLength, CellsAssumption
    <3>3. input \in BufferInputs
      BY <3>1, <3>2 DEF BufferInputs
    <3> QED
      BY <3>3 DEF InputInv
  <2> QED
    BY <2>1, <2>2, <2>3, <2>4 DEF FirstInput
<1>2. InputInv /\ [NextInput]_input => InputInv'
  <2> SUFFICES ASSUME InputInv, [NextInput]_input PROVE InputInv'
    OBVIOUS
  <2>1. CASE GrowPattern
    <3>1. PICK t \in Tokens \union {"*", ">"} : input' = [input EXCEPT !.pattern = Append(@, t)]
      BY <2>1 DEF GrowPattern
    <3>2. input \in PatternInputs
      BY <2>1 DEF InputInv, GrowPattern, CodecInputs, FrameInputs, BufferInputs
    <3> DEFINE more == Append(input.pattern, t)
    <3>3. input.pattern \in Seq(Tokens \union {"*", ">"})
      BY <3>2 DEF PatternInputs
    <3>4. more \in Seq(Tokens \union {"*", ">"}) /\ more # <<>>
      BY <3>3
    <3> HIDE DEF more
    <3>5. input' = [input EXCEPT !.pattern = more]
      BY <3>1 DEF more
    <3>6. input' \in PatternInputs
      BY <3>2, <3>4, <3>5 DEF PatternInputs
    <3> QED
      BY <3>6 DEF InputInv
  <2>2. CASE GrowSubject
    <3>1. PICK t \in Tokens : input' = [input EXCEPT !.subject = Append(@, t)]
      BY <2>2 DEF GrowSubject
    <3>2. input \in PatternInputs
      BY <2>2 DEF InputInv, GrowSubject, CodecInputs, FrameInputs, BufferInputs
    <3> DEFINE more == Append(input.subject, t)
    <3>3. input.subject \in Seq(Tokens)
      BY <3>2 DEF PatternInputs
    <3>4. more \in Seq(Tokens) /\ more # <<>>
      BY <3>3
    <3> HIDE DEF more
    <3>5. input' = [input EXCEPT !.subject = more]
      BY <3>1 DEF more
    <3>6. input' \in PatternInputs
      BY <3>2, <3>4, <3>5 DEF PatternInputs
    <3> QED
      BY <3>6 DEF InputInv
  <2>3. ASSUME input.table = "codec", NEW e \in Endpoints(FormatOf), input' = [input EXCEPT !.endpoint = e]
        PROVE  InputInv'
    <3>1. input \in CodecInputs
      BY <2>3 DEF InputInv, PatternInputs, FrameInputs, BufferInputs
    <3>2. input' \in CodecInputs
      BY <2>3, <3>1 DEF CodecInputs
    <3> QED
      BY <3>2 DEF InputInv
  <2>4. ASSUME input.table = "codec" PROVE input.endpoint \in Endpoints(FormatOf)
    BY <2>4 DEF InputInv, PatternInputs, CodecInputs, FrameInputs, BufferInputs
  <2>5. CASE GrowEndpoint
    <3>1. PICK c \in Codecs : input' = [input EXCEPT !.endpoint = Register(@, c)]
      BY <2>5 DEF GrowEndpoint
    <3> DEFINE e == Register(input.endpoint, c)
    <3>2. input.table = "codec" /\ input' = [input EXCEPT !.endpoint = e]
      BY <2>5, <3>1 DEF GrowEndpoint
    <3>3. e \in Endpoints(FormatOf)
      BY <2>4, <3>2, FormatsNamed, DefaultStaysRegistered
    <3> HIDE DEF e
    <3> QED
      BY <2>3, <3>2, <3>3
  <2>6. CASE SetDefault
    <3>1. PICK name \in Names : input' = [input EXCEPT !.endpoint = WithDefaultContentType(@, name)]
      BY <2>6 DEF SetDefault
    <3> DEFINE e == WithDefaultContentType(input.endpoint, name)
    <3>2. input.table = "codec" /\ input' = [input EXCEPT !.endpoint = e]
      BY <2>6, <3>1 DEF SetDefault
    <3>3. e \in Endpoints(FormatOf)
      BY <2>4, <3>2, FormatsNamed, DefaultStaysRegistered
    <3> HIDE DEF e
    <3> QED
      BY <2>3, <3>2, <3>3
  <2>7. CASE UNCHANGED input
    BY <2>7 DEF InputInv
  <2> QED
    BY <2>1, <2>2, <2>5, <2>6, <2>7 DEF NextInput
<1> QED
  BY <1>1, <1>2, PTL DEF Inputs

\* MatchFollowsTable, as the run checks it: for patterns and subjects of any
\* length over any tokens, wildcard_match is the README's table but for ">" and
\* the empty subject (routing.rs:34-55).
THEOREM PatternsMatchTheTable == Inputs => []MatchesTable
<1>1. InputInv => MatchesTable
  <2> SUFFICES ASSUME InputInv, input.table = "subject"
               PROVE  FollowsTable(input.pattern, input.subject)
    BY DEF MatchesTable
  <2> DEFINE T == Tokens \union {"*", ">"}
             p == input.pattern
             s == input.subject
  <2>1. p \in Seq(T) /\ s \in Seq(Tokens) /\ p # <<>>
    BY DEF InputInv, PatternInputs, CodecInputs, FrameInputs, BufferInputs
  <2>2. s \in Seq(T)
    BY <2>1, SeqMonotonic
  <2> HIDE DEF T, p, s
  <2>3. FollowsTable(p, s)
    BY <2>1, <2>2, MatchFollowsTable
  <2> QED
    BY <2>3 DEF p, s
<1> QED
  BY <1>1, InputInvariance, PTL

\* BackendsSelectAlike, as the run checks it: RabbitMQ and the local router select
\* alike but for "*" and the empty subject; '#' is not among the tokens
\* (rabbitmq_bus.rs:215-247).
THEOREM BackendsMatchAlike == Inputs => []BackendsAgree
<1>1. InputInv => BackendsAgree
  <2> SUFFICES ASSUME InputInv, input.table = "subject"
               PROVE  SelectsAlike(input.pattern, input.subject)
    BY DEF BackendsAgree
  <2> DEFINE T == Tokens \union {"*", ">"}
             p == input.pattern
             s == input.subject
  <2>1. p \in Seq(T) /\ s \in Seq(Tokens) /\ p # <<>> /\ s # <<>>
    BY DEF InputInv, PatternInputs, CodecInputs, FrameInputs, BufferInputs
  <2>2. s \in Seq(T) /\ \A t \in T : t # "#"
    BY <2>1, SeqMonotonic, TokensAssumption
  <2> HIDE DEF T, p, s
  <2>3. \A i \in 1..Len(p) : p[i] # "#"
    BY <2>1, <2>2, ElementOfSeq
  <2>4. SelectsAlike(p, s)
    BY <2>1, <2>2, <2>3, BackendsSelectAlike
  <2> QED
    BY <2>4 DEF p, s
<1> QED
  BY <1>1, InputInvariance, PTL

\* LabelsLead, as the run checks it: for endpoints that any number of builder
\* calls has made, and the readers that one call has made (codec.rs:161-245).
THEOREM LabelsReachTheirReaders == Inputs => []LabelsAgree
<1>1. Readers \subseteq Endpoints(FormatOf)
  <2>1. \A c \in Codecs : New(JsonCodec) \in Endpoints(FormatOf) /\ Default \in Endpoints(FormatOf)
    BY FormatsNamed, DefaultStaysRegistered
  <2>2. Default \in Endpoints(FormatOf) /\ New(JsonCodec) \in Endpoints(FormatOf)
    BY FormatsNamed, DefaultStaysRegistered
  <2>3. \A c \in Codecs : Register(Default, c) \in Endpoints(FormatOf)
    BY <2>2, FormatsNamed, DefaultStaysRegistered
  <2>4. \A c \in Codecs : Register(New(JsonCodec), c) \in Endpoints(FormatOf)
    BY <2>2, FormatsNamed, DefaultStaysRegistered
  <2> QED
    BY <2>2, <2>3, <2>4 DEF Readers
<1>2. InputInv => LabelsAgree
  <2> SUFFICES ASSUME InputInv, input.table = "codec",
                      NEW written \in {"canonical", "other"},
                      NEW peer \in Readers \union {input.endpoint}
               PROVE  LabelLeads(input.endpoint, peer, written, AnyValue)
    BY DEF LabelsAgree
  <2> DEFINE e == input.endpoint
  <2>1. e \in Endpoints(FormatOf)
    BY DEF InputInv, PatternInputs, CodecInputs, FrameInputs, BufferInputs
  <2>2. peer \in Endpoints(FormatOf)
    BY <1>1, <2>1
  <2> HIDE DEF e
  <2>3. LabelLeads(e, peer, written, AnyValue)
    BY <2>1, <2>2, FormatsNamed, LabelsLead
  <2> QED
    BY <2>3 DEF e
<1> QED
  BY <1>2, InputInvariance, PTL

\* FramesAreReadBack, as the run checks it: for texts and listings of any length
\* over any bytes (wire.rs:17-58).
THEOREM FramesAreKept == Inputs => []FramesSurvive
<1>1. InputInv => FramesSurvive
  <2> SUFFICES ASSUME InputInv, input.table = "frame"
               PROVE  Survives(input.subject, input.headers, input.payload)
    BY DEF FramesSurvive
  <2> DEFINE Cells == Nat \union TextBytes
             s == input.subject
             hs == input.headers
             p == input.payload
  <2>1. s \in Seq(TextBytes) /\ hs \in Seq(Listed) /\ Distinct(hs) /\ p \in Seq(TextBytes)
    BY DEF InputInv, PatternInputs, CodecInputs, FrameInputs, BufferInputs
  <2>2. Nat \subseteq Cells /\ TextBytes \subseteq Cells
    OBVIOUS
  <2> HIDE DEF Cells, s, hs, p
  <2>3. p \in Seq(Cells)
    BY <2>1, <2>2, SeqMonotonic
  <2>4. Survives(s, hs, p)
    BY <2>1, <2>2, <2>3, FramesAreReadBack
  <2> QED
    BY <2>4 DEF s, hs, p
<1> QED
  BY <1>1, InputInvariance, PTL

\* What a listing takes of the buffer it is encoded into.
LEMMA ListingLength ==
  ASSUME NEW hs \in Seq(Listed)
  PROVE  /\ Len(EncodeHeaders(hs)) \in Nat
         /\ 1 + 2 * Len(hs) <= Len(EncodeHeaders(hs))
         /\ \A i \in 1..Len(hs) :
              3 + Len(hs[i].key) + Len(hs[i].value) <= Len(EncodeHeaders(hs))
<1> DEFINE Cells == Nat \union TextBytes
           N == Len(hs)
           ss == Encoded(hs)
           flat == FlattenSeq(ss)
<1>1. /\ N \in Nat /\ ss \in Seq(Seq(Cells)) /\ Len(ss) = N
      /\ \A i \in 1..N : /\ Len(ss[i]) = 2 + Len(hs[i].key) + Len(hs[i].value)
                         /\ Len(hs[i].key) \in Nat /\ Len(hs[i].value) \in Nat
  <2>1. Nat \subseteq Cells /\ TextBytes \subseteq Cells
    OBVIOUS
  <2> HIDE DEF Cells
  <2> QED
    BY <2>1, EncodedIsSeq, LenProperties
<1> HIDE DEF Cells, N, ss
<1>2. PICK f : Flattens(ss, Seq(Cells), f)
  BY <1>1, FlattenSteps
<1>3. /\ \A i \in 1..N : Len(f[i]) = Len(f[i - 1]) + Len(ss[i]) /\ At(flat, Len(f[i - 1]), ss[i])
      /\ \A i \in 0..N : f[i] \in Seq(Cells) /\ Len(f[i]) \in Nat
      /\ f[0] = <<>> /\ flat = f[N]
  <2>1. \A i \in 0..N : f[i] \in Seq(Cells)
    BY <1>1, <1>2 DEF Flattens
  <2>2. \A i \in 0..N : Len(f[i]) \in Nat
    BY <2>1, LenProperties
  <2> QED
    BY <1>1, <1>2, <2>1, <2>2, FlattenAt DEF Flattens
<1>4. N \in 0..N /\ flat \in Seq(Cells) /\ Len(flat) \in Nat
  BY <1>1, <1>3
<1>5. 2 * N <= Len(flat)
  <2> DEFINE S == {n \in 0..N : 2 * n <= Len(f[n])}
  <2>1. 0 \in S
    BY <1>1, <1>3
  <2>2. ASSUME NEW n \in Nat, n < N, n \in S PROVE n + 1 \in S
    <3>1. n + 1 \in 1..N /\ n + 1 \in 0..N /\ n \in 0..N /\ (n + 1) - 1 = n
      BY <1>1, <2>2
    <3>2. Len(f[n + 1]) = Len(f[n]) + Len(ss[n + 1]) /\ Len(f[n]) \in Nat /\ 2 * n <= Len(f[n])
      BY <1>3, <2>2, <3>1
    <3>3. Len(ss[n + 1]) \in Nat /\ 2 <= Len(ss[n + 1])
      <4>1. PICK k \in Nat, v \in Nat : k = Len(hs[n + 1].key) /\ v = Len(hs[n + 1].value)
        BY <1>1, <3>1
      <4>2. Len(ss[n + 1]) = 2 + k + v
        BY <1>1, <3>1, <4>1
      <4> QED
        BY <4>2
    <3>4. 2 * (n + 1) <= Len(f[n + 1])
      <4>1. PICK k \in Nat, v \in Nat : k = Len(f[n]) /\ v = Len(ss[n + 1])
        BY <3>2, <3>3
      <4>2. Len(f[n + 1]) = k + v /\ 2 * n <= k /\ 2 <= v
        BY <3>2, <3>3, <4>1
      <4> QED
        BY <4>2
    <3> QED
      BY <3>1, <3>4
  <2> HIDE DEF S
  <2>3. N \in S
    BY <1>1, <1>4, <2>1, <2>2, Induction
  <2> QED
    BY <1>3, <2>3 DEF S
<1>6. ASSUME NEW i \in 1..N
      PROVE  2 + Len(hs[i].key) + Len(hs[i].value) <= Len(flat)
  <2>1. i - 1 \in 0..N
    BY <1>1
  <2>2. Len(f[i - 1]) \in Nat /\ Len(f[i - 1]) + Len(ss[i]) <= Len(flat)
    BY <1>3, <2>1 DEF At
  <2>3. PICK k \in Nat, v \in Nat, before \in Nat, all \in Nat :
          /\ k = Len(hs[i].key) /\ v = Len(hs[i].value)
          /\ before = Len(f[i - 1]) /\ all = Len(flat)
    BY <1>1, <1>4, <2>2
  <2>4. Len(ss[i]) = 2 + k + v
    BY <1>1, <2>3
  <2>5. before + (2 + k + v) <= all
    BY <2>2, <2>3, <2>4
  <2>6. 2 + k + v <= all
    BY <2>5
  <2> QED
    BY <2>3, <2>6
<1>7. Len(EncodeHeaders(hs)) = 1 + Len(flat)
  <2>1. EncodeHeaders(hs) = <<Length(hs)>> \o flat
    BY DEF EncodeHeaders, ss, Encoded
  <2>2. <<Length(hs)>> \in Seq({Length(hs)}) /\ Len(<<Length(hs)>>) = 1
    OBVIOUS
  <2>3. /\ <<Length(hs)>> \in Seq(Cells \union {Length(hs)})
        /\ flat \in Seq(Cells \union {Length(hs)})
    BY <1>4, <2>2, SeqMonotonic
  <2> HIDE DEF flat
  <2> QED
    BY <2>1, <2>2, <2>3, ConcatProperties
<1> HIDE DEF flat
<1>8. ASSUME NEW i \in 1..N
      PROVE  3 + Len(hs[i].key) + Len(hs[i].value) <= 1 + Len(flat)
  <2>1. PICK k \in Nat, v \in Nat, all \in Nat :
          k = Len(hs[i].key) /\ v = Len(hs[i].value) /\ all = Len(flat)
    BY <1>1, <1>4
  <2>2. 2 + k + v <= all
    BY <1>6, <2>1
  <2>3. 3 + k + v <= 1 + all
    BY <2>2
  <2> QED
    BY <2>1, <2>3
<1>9. 1 + Len(flat) \in Nat /\ 1 + 2 * N <= 1 + Len(flat)
  <2>1. PICK all \in Nat : all = Len(flat)
    BY <1>4
  <2>2. 1 + all \in Nat /\ 1 + 2 * N <= 1 + all
    BY <1>1, <1>5, <2>1
  <2> QED
    BY <2>1, <2>2
<1> QED
  BY <1>7, <1>8, <1>9 DEF N

\* The listings of MCTables are all that a frame of MaxBuffer cells has room for.
LEMMA ListingFits ==
  ASSUME NEW hs \in Seq(Listed), 2 + Len(EncodeHeaders(hs)) <= MaxBuffer
  PROVE  hs \in BufferListings
<1> DEFINE texts == BoundedSeq(TextBytes, MaxBuffer - 5)
           room == (MaxBuffer - 3) \div 2
           Room == [key : texts, value : texts]
<1>1. PICK n \in Nat, m \in Nat : n = Len(hs) /\ m = Len(EncodeHeaders(hs))
  BY ListingLength, LenProperties
<1>2. MaxBuffer \in Nat /\ 2 + m <= MaxBuffer /\ 1 + 2 * n <= m
  BY <1>1, ListingLength, CellsAssumption
<1>3. room \in Int /\ n <= room
  <2>1. MaxBuffer - 3 \in Nat /\ 2 * n <= MaxBuffer - 3
    BY <1>2
  <2> QED
    BY <2>1
<1>4. ASSUME NEW i \in 1..Len(hs) PROVE hs[i] \in Room
  <2>1. hs[i] \in Listed /\ hs[i].key \in Seq(TextBytes) /\ hs[i].value \in Seq(TextBytes)
    <3>1. hs[i] \in Listed
      BY <1>4, ElementOfSeq
    <3> QED
      BY <3>1 DEF Listed
  <2>2. PICK k \in Nat, v \in Nat : k = Len(hs[i].key) /\ v = Len(hs[i].value)
    BY <2>1, LenProperties
  <2>3. 3 + k + v <= m
    BY <1>1, <1>4, <2>2, ListingLength
  <2>4. MaxBuffer - 5 \in Int /\ k <= MaxBuffer - 5 /\ v <= MaxBuffer - 5
    BY <1>2, <2>3
  <2>5. hs[i].key \in texts /\ hs[i].value \in texts
    BY <2>1, <2>2, <2>4, BoundedLength
  <2> HIDE DEF texts
  <2> QED
    BY <2>1, <2>5 DEF Listed
<1>5. hs \in Seq(Room)
  <2> HIDE DEF Room
  <2>1. hs \in [1..n -> Room]
    <3>1. DOMAIN hs = 1..n /\ hs = [i \in 1..n |-> hs[i]]
      BY <1>1, LenProperties
    <3> QED
      BY <1>1, <1>4, <3>1
  <2> QED
    BY <2>1
<1> HIDE DEF texts, room, Room
<1>6. hs \in BoundedSeq(Room, room)
  BY <1>1, <1>3, <1>5, BoundedLength
<1> QED
  BY <1>6 DEF BufferListings, texts, room, Room

\* OnlyFramesAreRead, as the run checks it: for buffers of any length over any
\* cells, and no listing but those that such a buffer can hold (wire.rs:32-130).
THEOREM OnlyFramesAreAccepted == Inputs => []OnlyFramesAccepted
<1>1. InputInv => OnlyFramesAccepted
  <2> SUFFICES ASSUME InputInv, input.table = "buffer"
               PROVE  IsFrame(input.buffer, BufferListings)
    BY DEF OnlyFramesAccepted
  <2> DEFINE buf == input.buffer
             read == DecodeFrame(buf)
  <2>1. buf \in Seq(Fields) /\ Len(buf) <= MaxBuffer
    BY DEF InputInv, PatternInputs, CodecInputs, FrameInputs, BufferInputs
  <2> HIDE DEF buf
  <2> SUFFICES ASSUME read # Refused
               PROVE  \E hs \in BufferListings : /\ buf = EncodeFrame(read.subject, hs, read.payload)
                                                /\ ReadAs(hs, read.headers)
    BY DEF IsFrame, buf
  <2>2. PICK hs \in Seq(Listed) : /\ buf = EncodeFrame(read.subject, hs, read.payload)
                                  /\ ReadAs(hs, read.headers)
                                  /\ 2 + Len(EncodeHeaders(hs)) <= Len(buf)
    BY <2>1, FrameMade
  <2>3. 2 + Len(EncodeHeaders(hs)) <= MaxBuffer
    <3>1. Len(EncodeHeaders(hs)) \in Nat /\ Len(buf) \in Nat
      BY <2>1, ListingLength, LenProperties
    <3> QED
      BY <2>1, <2>2, <3>1, CellsAssumption
  <2>4. hs \in BufferListings
    BY <2>3, ListingFits
  <2> QED
    BY <2>2, <2>4
<1> QED
  BY <1>1, InputInvariance, PTL

-----------------------------------------------------------------------------
(* The in-process router *)

USE BufferAssumption, MessagesAssumption

-----------------------------------------------------------------------------
(* What Without keeps *)

LEMMA LeftRecursion ==
  ASSUME NEW Q, NEW s \in Seq(Q), NEW gone
  PROVE  /\ Left(s, gone) \in [0..Len(s) -> Seq(Q)]
         /\ Left(s, gone)[0] = <<>>
         /\ \A i \in 1..Len(s) :
              Left(s, gone)[i] = IF s[i] \in gone THEN Left(s, gone)[i - 1]
                                 ELSE Append(Left(s, gone)[i - 1], s[i])
<1> DEFINE step == [i \in 1..Len(s) |-> [t \in Seq(Q) |-> IF s[i] \in gone THEN t ELSE Append(t, s[i])]]
           Solves(g) == g = [i \in 0..Len(s) |->
                               IF i = 0 THEN <<>>
                               ELSE IF s[i] \in gone THEN g[i - 1] ELSE Append(g[i - 1], s[i])]
           left == Left(s, gone)
<1>0. Len(s) \in Nat /\ \A i \in 1..Len(s) : s[i] \in Q
  BY LenProperties, ElementOfSeq
<1>1. step \in [1..Len(s) -> [Seq(Q) -> Seq(Q)]]
  BY <1>0, AppendProperties
<1>2. \A i \in 1..Len(s), t \in Seq(Q) :
        step[i][t] = IF s[i] \in gone THEN t ELSE Append(t, s[i])
  OBVIOUS
<1>3. <<>> \in Seq(Q)
  BY EmptyQueue
<1>4. \E f \in [0..Len(s) -> Seq(Q)] :
        f[0] = <<>> /\ \A i \in 1..Len(s) : f[i] = step[i][f[i - 1]]
  <2> DEFINE N == Len(s)
             V == Seq(Q)
             v == <<>>
  <2>1. N \in Nat /\ v \in V /\ step \in [1..N -> [V -> V]]
    BY <1>0, <1>1, <1>3
  <2>2. Runs(N, V, v, step)
    <3> HIDE DEF N, V, v, step
    <3> QED
      BY <2>1, Recursion
  <2> QED
    BY <2>2 DEF Runs
<1> HIDE DEF step
<1>5. PICK f \in [0..Len(s) -> Seq(Q)] :
        f[0] = <<>> /\ \A i \in 1..Len(s) : f[i] = step[i][f[i - 1]]
  BY <1>4
<1>6. \A i \in 1..Len(s) : f[i] = IF s[i] \in gone THEN f[i - 1] ELSE Append(f[i - 1], s[i])
  <2> TAKE i \in 1..Len(s)
  <2>1. i - 1 \in 0..Len(s)
    BY <1>0
  <2>3. f[i - 1] \in Seq(Q)
    BY <1>5, <2>1
  <2>2. f[i] = step[i][f[i - 1]]
    BY <1>5
  <2> QED
    BY <1>2, <2>2, <2>3
<1>7. Solves(f)
  <2> DEFINE h == [i \in 0..Len(s) |->
                     IF i = 0 THEN <<>>
                     ELSE IF s[i] \in gone THEN f[i - 1] ELSE Append(f[i - 1], s[i])]
  <2>1. \A i \in 0..Len(s) : f[i] = h[i]
    <3> TAKE i \in 0..Len(s)
    <3>1. CASE i = 0
      BY <1>5, <3>1
    <3>2. CASE i # 0
      <4>1. i \in 1..Len(s)
        BY <1>0, <3>2
      <4> QED
        BY <1>6, <3>2, <4>1
    <3> QED
      BY <3>1, <3>2
  <2>2. f = [i \in 0..Len(s) |-> f[i]]
    BY <1>5
  <2>3. h = [i \in 0..Len(s) |-> h[i]]
    OBVIOUS
  <2>4. f = h
    <3> HIDE DEF h
    <3> QED
      BY <2>1, <2>2, <2>3
  <2> QED
    BY <2>4
<1>8. left = CHOOSE g : Solves(g)
  BY DEF Left
<1>9. Solves(left)
  <2> HIDE DEF Solves, left
  <2> QED
    BY <1>7, <1>8
<1>10. /\ left = [i \in 0..Len(s) |-> left[i]]
       /\ \A i \in 0..Len(s) :
            left[i] = IF i = 0 THEN <<>>
                      ELSE IF s[i] \in gone THEN left[i - 1] ELSE Append(left[i - 1], s[i])
  <2> HIDE DEF left
  <2> QED
    BY <1>9
<1> HIDE DEF left, Solves
<1>11. left[0] = <<>> /\ \A i \in 1..Len(s) :
        left[i] = IF s[i] \in gone THEN left[i - 1] ELSE Append(left[i - 1], s[i])
  <2>1. left[0] = <<>>
    <3>1. 0 \in 0..Len(s)
      BY <1>0
    <3> QED
      BY <1>10, <3>1
  <2> SUFFICES ASSUME NEW i \in 1..Len(s)
               PROVE left[i] = IF s[i] \in gone THEN left[i - 1] ELSE Append(left[i - 1], s[i])
    BY <2>1
  <2>2. i \in 0..Len(s) /\ i # 0
    BY <1>0
  <2> QED
    BY <1>10, <2>2
<1>12. \A i \in 0..Len(s) : left[i] = f[i]
  <2> DEFINE S == {i \in 0..Len(s) : left[i] = f[i]}
  <2>1. 0 \in S
    BY <1>0, <1>5, <1>11
  <2>2. ASSUME NEW n \in Nat, n < Len(s), n \in S PROVE n + 1 \in S
    <3>1. n + 1 \in 1..Len(s) /\ (n + 1) - 1 = n /\ n + 1 \in 0..Len(s)
      BY <1>0, <2>2
    <3>2. left[n + 1] = f[n + 1]
      BY <1>6, <1>11, <2>2, <3>1
    <3> QED
      BY <3>1, <3>2
  <2> HIDE DEF S
  <2>3. 0..Len(s) \subseteq S
    BY <1>0, <2>1, <2>2, Induction
  <2> QED
    BY <2>3 DEF S
<1>13. left \in [0..Len(s) -> Seq(Q)]
  BY <1>5, <1>12, <1>10
<1> QED
  BY <1>11, <1>13 DEF left

\* Without leaves the elements of gone out, and nothing else.
LEMMA WithoutKeeps ==
  ASSUME NEW Q, NEW s \in Seq(Q), NEW gone
  PROVE  /\ Without(s, gone) \in Seq(Q)
         /\ ToSet(Without(s, gone)) = ToSet(s) \ gone
         /\ Keeps(Without(s, gone), s)
<1> DEFINE left == Left(s, gone)
           Of(t, e, n) == /\ \A a \in 1..Len(t) : t[a] = s[e[a]] /\ t[a] \notin gone
                          /\ \A a, b \in 1..Len(t) : a < b => e[a] < e[b]
                          /\ \A i \in 1..n : s[i] \notin gone => \E a \in 1..Len(t) : t[a] = s[i]
           Good(t, n) == \E e \in [1..Len(t) -> 1..n] : Of(t, e, n)
           S == {n \in 0..Len(s) : Good(left[n], n)}
<1>1. /\ left \in [0..Len(s) -> Seq(Q)]
      /\ left[0] = <<>>
      /\ \A i \in 1..Len(s) : left[i] = IF s[i] \in gone THEN left[i - 1] ELSE Append(left[i - 1], s[i])
  BY LeftRecursion
<1>2. /\ Len(s) \in Nat /\ DOMAIN s = 1..Len(s)
      /\ \A i \in 1..Len(s) : s[i] \in Q
  BY LenProperties, ElementOfSeq
<1> HIDE DEF left
<1>3. 0 \in S
  <2> DEFINE e == [a \in 1..0 |-> a]
  <2>1. Len(left[0]) = 0
    BY <1>1
  <2>2. e \in [1..Len(left[0]) -> 1..0] /\ Of(left[0], e, 0)
    BY <2>1
  <2> HIDE DEF e, Of
  <2> QED
    BY <1>2, <2>2
<1>4. ASSUME NEW n \in Nat, n < Len(s), n \in S PROVE n + 1 \in S
  <2>1. /\ n + 1 \in 1..Len(s) /\ n \in 0..Len(s) /\ (n + 1) - 1 = n
    BY <1>2, <1>4
  <2>2. left[n] \in Seq(Q) /\ Len(left[n]) \in Nat
    BY <1>1, <2>1, LenProperties
  <2>3. PICK e \in [1..Len(left[n]) -> 1..n] : Of(left[n], e, n)
    BY <1>4
  <2>4. CASE s[n + 1] \in gone
    <3>1. left[n + 1] = left[n]
      BY <1>1, <2>1, <2>4
    <3>2. e \in [1..Len(left[n]) -> 1..(n + 1)]
      BY <2>2, <2>3
    <3>3. Of(left[n], e, n + 1)
      <4>1. \A i \in 1..(n + 1) : i # n + 1 => i \in 1..n
        OBVIOUS
      <4> QED
        BY <2>3, <2>4, <4>1
    <3> HIDE DEF Of
    <3> QED
      BY <2>1, <3>1, <3>2, <3>3
  <2>5. CASE s[n + 1] \notin gone
    <3> DEFINE t == Append(left[n], s[n + 1])
               k == Len(left[n])
               g == [a \in 1..(k + 1) |-> IF a = k + 1 THEN n + 1 ELSE e[a]]
    <3>1. left[n + 1] = t
      BY <1>1, <2>1, <2>5
    <3>2. s[n + 1] \in Q
      BY <1>2, <2>1
    <3>3. Len(t) = k + 1 /\ (\A a \in 1..k : t[a] = left[n][a]) /\ t[k + 1] = s[n + 1]
      BY <2>2, <3>2, AppendProperties
    <3> HIDE DEF t
    <3>4. k \in Nat /\ \A a \in 1..(k + 1) : a # k + 1 => a \in 1..k /\ e[a] \in 1..n
      BY <2>2, <2>3
    <3>5. g \in [1..(k + 1) -> 1..(n + 1)]
      BY <3>4
    <3>6. g[k + 1] = n + 1 /\ \A a \in 1..k : g[a] = e[a] /\ e[a] \in 1..n
      BY <3>4
    <3> HIDE DEF g, k
    <3>7. \A a \in 1..k : left[n][a] = s[e[a]] /\ left[n][a] \notin gone
      BY <2>3 DEF k
    <3>8. \A a, b \in 1..k : a < b => e[a] < e[b]
      BY <2>3 DEF k
    <3>9. \A i \in 1..n : s[i] \notin gone => \E a \in 1..k : left[n][a] = s[i]
      BY <2>3 DEF k
    <3>10. \A a \in 1..(k + 1) : t[a] = s[g[a]] /\ t[a] \notin gone
      BY <2>5, <3>3, <3>4, <3>6, <3>7
    <3>11. \A a, b \in 1..(k + 1) : a < b => g[a] < g[b]
      <4> TAKE a, b \in 1..(k + 1)
      <4> HAVE a < b
      <4>1. a \in 1..k
        BY <3>4
      <4>2. CASE b = k + 1
        BY <3>6, <4>1, <4>2
      <4>3. CASE b # k + 1
        <5>1. b \in 1..k
          BY <3>4, <4>3
        <5>2. e[a] < e[b]
          BY <3>8, <4>1, <5>1
        <5> QED
          BY <3>6, <4>1, <5>1, <5>2
      <4> QED
        BY <4>2, <4>3
    <3>12. \A i \in 1..(n + 1) : s[i] \notin gone => \E a \in 1..(k + 1) : t[a] = s[i]
      <4> TAKE i \in 1..(n + 1)
      <4> HAVE s[i] \notin gone
      <4>1. CASE i = n + 1
        BY <3>3, <3>4, <4>1
      <4>2. CASE i # n + 1
        <5>1. i \in 1..n
          BY <4>2
        <5>2. PICK a \in 1..k : left[n][a] = s[i]
          BY <3>9, <5>1
        <5>3. a \in 1..(k + 1)
          BY <3>4
        <5> QED
          BY <3>3, <5>2, <5>3
      <4> QED
        BY <4>1, <4>2
    <3>13. Of(t, g, n + 1) /\ Len(t) = k + 1
      BY <3>3, <3>10, <3>11, <3>12
    <3> HIDE DEF Of
    <3> QED
      BY <2>1, <3>1, <3>5, <3>13
  <2> QED
    BY <2>4, <2>5
<1>5. Len(s) \in S
  <2> HIDE DEF S
  <2>1. 0..Len(s) \subseteq S
    BY <1>2, <1>3, <1>4, Induction
  <2> QED
    BY <1>2, <2>1
<1> DEFINE w == left[Len(s)]
<1>6. w = Without(s, gone) /\ w \in Seq(Q)
  BY <1>1, <1>2 DEF Without, left
<1>7. PICK e \in [1..Len(w) -> 1..Len(s)] : Of(w, e, Len(s))
  BY <1>5
<1> HIDE DEF w
<1>8. Keeps(w, s)
  BY <1>7 DEF Keeps
<1>9. DOMAIN w = 1..Len(w) /\ Len(w) \in Nat
  BY <1>6, LenProperties
<1>10. ToSet(w) = ToSet(s) \ gone
  <2>1. ASSUME NEW a \in 1..Len(w) PROVE w[a] \in ToSet(s) \ gone
    <3>1. e[a] \in 1..Len(s) /\ w[a] = s[e[a]] /\ w[a] \notin gone
      BY <1>7, <2>1
    <3> QED
      BY <1>2, <3>1 DEF ToSet
  <2>2. ASSUME NEW i \in 1..Len(s), s[i] \notin gone PROVE s[i] \in ToSet(w)
    BY <1>7, <1>9, <2>2 DEF ToSet
  <2> QED
    BY <1>2, <1>9, <2>1, <2>2 DEF ToSet
<1> QED
  BY <1>6, <1>8, <1>10

-----------------------------------------------------------------------------
(* The invariant *)

Bindings == [pattern : {r.pattern : r \in Subscriptions}, queue : {r.queue : r \in Subscriptions},
             consumers : Seq(Subscribers), rr : Nat]
Command == {DispatchCommand(m) : m \in Message}
             \union {SubscribeCommand(s, r) : s \in Subscribers, r \in Subscriptions}

Types ==
  /\ commands \in Seq(Command)
  /\ actor \in {"running", "stopped"}
  /\ bindings \in Seq(Bindings)
  /\ senders \subseteq Subscribers
  /\ stream \in [Subscribers -> Seq(Message)]
  /\ reader \in [Subscribers -> {"new", "asking", "open", "gone", "ended", "refused"}]
  /\ publisher \in [Publishers -> {"idle", "waiting", "closed"}]
  /\ published \in [Publishers -> 0..MaxMessages]
  /\ outcome \in [Publishers -> [1..MaxMessages -> {"none", "ok", "backpressure"}]]

\* A bounded channel holds what it has room for.
RoomInv == \A s \in Subscribers : Len(stream[s]) <= SubscriptionBuffer

Asks(c, s) == c.type = "Subscribe" /\ c.by = s

\* A subscriber's one command is in the mailbox at most once, not before it is
\* sent, and no longer when it has been served.
AskInv ==
  \A s \in Subscribers :
    /\ reader[s] = "new" => s \notin senders
    /\ reader[s] = "new" \/ s \in senders => \A i \in DOMAIN commands : ~Asks(commands[i], s)
    /\ \A i, h \in DOMAIN commands : Asks(commands[i], s) /\ Asks(commands[h], s) => i = h

\* Every consumer of the table t has one place in it.
Apart(t) ==
  \A i, h \in DOMAIN t :
    \A a \in DOMAIN t[i].consumers, b \in DOMAIN t[h].consumers :
      t[i].consumers[a] = t[h].consumers[b] => i = h /\ a = b

\* Every queue of the table t has one binding.
OnePerQueue(t) ==
  \A i, h \in DOMAIN t : t[i].queue # NoQueue /\ t[i].queue = t[h].queue => i = h

RouterInv == /\ Types
             /\ RoomInv
             /\ AskInv
             /\ Consumers(bindings) = senders
             /\ Apart(bindings)
             /\ OnePerQueue(bindings)
             /\ OpenStreamsStaySubscribed

-----------------------------------------------------------------------------
(* What the operations on the table do to it *)

LEMMA TableEntry ==
  ASSUME NEW t \in Seq(Bindings)
  PROVE  /\ DOMAIN t = 1..Len(t) /\ Len(t) \in Nat
         /\ \A i \in DOMAIN t :
              /\ t[i] \in Bindings
              /\ t[i].consumers \in Seq(Subscribers)
              /\ DOMAIN t[i].consumers = 1..Len(t[i].consumers)
<1>1. DOMAIN t = 1..Len(t) /\ Len(t) \in Nat /\ \A i \in 1..Len(t) : t[i] \in Bindings
  BY LenProperties, ElementOfSeq
<1>2. \A b \in Bindings : b.consumers \in Seq(Subscribers)
  BY DEF Bindings
<1>3. \A s \in Seq(Subscribers) : DOMAIN s = 1..Len(s)
  BY LenProperties
<1> QED
  BY <1>1, <1>2, <1>3

\* A table with the consumers and queues of t is as good as t.
LEMMA SameTable ==
  ASSUME NEW t, NEW u, DOMAIN u = DOMAIN t,
         \A i \in DOMAIN t : u[i].consumers = t[i].consumers /\ u[i].queue = t[i].queue
  PROVE  /\ Consumers(u) = Consumers(t)
         /\ Apart(t) => Apart(u)
         /\ OnePerQueue(t) => OnePerQueue(u)
<1>1. Consumers(u) = Consumers(t)
  BY DEF Consumers
<1>2. Apart(t) => Apart(u)
  BY DEF Apart
<1>3. OnePerQueue(t) => OnePerQueue(u)
  BY DEF OnePerQueue
<1> QED
  BY <1>1, <1>2, <1>3

\* Moving the round robins on leaves the consumers where they are.
LEMMA AdvancedTable ==
  ASSUME NEW t \in Seq(Bindings), NEW subject
  PROVE  /\ Advanced(t, subject) \in Seq(Bindings)
         /\ Consumers(Advanced(t, subject)) = Consumers(t)
         /\ Apart(t) => Apart(Advanced(t, subject))
         /\ OnePerQueue(t) => OnePerQueue(Advanced(t, subject))
<1> DEFINE u == Advanced(t, subject)
<1>1. DOMAIN u = DOMAIN t
  BY DEF Advanced
<1>2. \A i \in DOMAIN t :
        \/ u[i] = t[i]
        \/ u[i] = [t[i] EXCEPT !.rr = t[i].rr + 1]
  BY DEF Advanced
<1>3. \A b \in Bindings : /\ [b EXCEPT !.rr = b.rr + 1] \in Bindings
                          /\ [b EXCEPT !.rr = b.rr + 1].consumers = b.consumers
                          /\ [b EXCEPT !.rr = b.rr + 1].queue = b.queue
  BY DEF Bindings
<1> HIDE DEF u
<1>4. \A i \in DOMAIN t :
        u[i] \in Bindings /\ u[i].consumers = t[i].consumers /\ u[i].queue = t[i].queue
  <2> TAKE i \in DOMAIN t
  <2>1. t[i] \in Bindings
    BY TableEntry
  <2> QED
    BY <1>2, <1>3, <2>1
<1>5. u \in Seq(Bindings)
  <2>1. u = [i \in DOMAIN u |-> u[i]]
    BY DEF u, Advanced
  <2>2. u \in [1..Len(t) -> Bindings] /\ Len(t) \in Nat
    BY <1>1, <1>4, <2>1, TableEntry
  <2> QED
    BY <2>2, SeqDef
<1> QED
  BY <1>1, <1>4, <1>5, SameTable DEF u

\* What is kept of a table in order is as good as the table.
LEMMA KeptTable ==
  ASSUME NEW t \in Seq(Bindings), NEW w \in Seq(Bindings), Keeps(w, t)
  PROVE  /\ Apart(t) => Apart(w)
         /\ OnePerQueue(t) => OnePerQueue(w)
<1>1. PICK e \in [1..Len(w) -> 1..Len(t)] :
        /\ \A i \in 1..Len(w) : w[i] = t[e[i]]
        /\ \A i, h \in 1..Len(w) : e[i] = e[h] => i = h
  BY KeepsApart DEF Embeds
<1>2. DOMAIN w = 1..Len(w) /\ DOMAIN t = 1..Len(t)
  BY TableEntry
<1>3. \A i \in DOMAIN w : e[i] \in DOMAIN t /\ w[i] = t[e[i]]
  BY <1>1, <1>2
<1>4. \A i, h \in DOMAIN w : e[i] = e[h] => i = h
  BY <1>1, <1>2
<1>5. ASSUME Apart(t) PROVE Apart(w)
  <2> SUFFICES ASSUME NEW i \in DOMAIN w, NEW h \in DOMAIN w,
                      NEW a \in DOMAIN w[i].consumers, NEW b \in DOMAIN w[h].consumers,
                      w[i].consumers[a] = w[h].consumers[b]
               PROVE  i = h /\ a = b
    BY DEF Apart
  <2>1. e[i] = e[h] /\ a = b
    BY <1>3, <1>5 DEF Apart
  <2> QED
    BY <1>4, <2>1
<1>6. ASSUME OnePerQueue(t) PROVE OnePerQueue(w)
  <2> SUFFICES ASSUME NEW i \in DOMAIN w, NEW h \in DOMAIN w,
                      w[i].queue # NoQueue, w[i].queue = w[h].queue
               PROVE  i = h
    BY DEF OnePerQueue
  <2>1. e[i] \in DOMAIN t /\ e[h] \in DOMAIN t /\ w[i] = t[e[i]] /\ w[h] = t[e[h]]
    BY <1>3
  <2>2. e[i] = e[h]
    BY <1>6, <2>1 DEF OnePerQueue
  <2> QED
    BY <1>4, <2>2
<1> QED
  BY <1>5, <1>6

\* The table without the dead consumers: all the others keep their places.
LEMMA RemovedTable ==
  ASSUME NEW t \in Seq(Bindings), NEW dead
  PROVE  /\ RemoveConsumers(t, dead) \in Seq(Bindings)
         /\ Consumers(RemoveConsumers(t, dead)) = Consumers(t) \ dead
         /\ Apart(t) => Apart(RemoveConsumers(t, dead))
         /\ OnePerQueue(t) => OnePerQueue(RemoveConsumers(t, dead))
<1> DEFINE u == [i \in DOMAIN t |-> [t[i] EXCEPT !.consumers = Without(t[i].consumers, dead)]]
           empty == {b \in ToSet(u) : b.queue = NoQueue /\ b.consumers = <<>>}
           w == Without(u, empty)
<1>1. RemoveConsumers(t, dead) = w
  BY DEF RemoveConsumers
<1>2. ASSUME NEW i \in DOMAIN t
      PROVE  /\ u[i] \in Bindings
             /\ u[i].queue = t[i].queue
             /\ u[i].consumers \in Seq(Subscribers)
             /\ ToSet(u[i].consumers) = ToSet(t[i].consumers) \ dead
             /\ Keeps(u[i].consumers, t[i].consumers)
  <2>1. t[i] \in Bindings /\ t[i].consumers \in Seq(Subscribers)
    BY <1>2, TableEntry
  <2>2. /\ Without(t[i].consumers, dead) \in Seq(Subscribers)
        /\ ToSet(Without(t[i].consumers, dead)) = ToSet(t[i].consumers) \ dead
        /\ Keeps(Without(t[i].consumers, dead), t[i].consumers)
    BY <2>1, WithoutKeeps
  <2>3. \A b \in Bindings, c \in Seq(Subscribers) :
          /\ [b EXCEPT !.consumers = c] \in Bindings
          /\ [b EXCEPT !.consumers = c].queue = b.queue
          /\ [b EXCEPT !.consumers = c].consumers = c
    BY DEF Bindings
  <2>4. u[i] = [t[i] EXCEPT !.consumers = Without(t[i].consumers, dead)]
    BY <1>2
  <2>5. /\ u[i] \in Bindings /\ u[i].queue = t[i].queue
        /\ u[i].consumers = Without(t[i].consumers, dead)
    BY <2>1, <2>2, <2>3, <2>4
  <2> HIDE DEF u
  <2> QED
    BY <2>2, <2>5
<1>3. DOMAIN u = DOMAIN t
  OBVIOUS
<1>4. u \in Seq(Bindings)
  <2>1. u = [i \in DOMAIN u |-> u[i]]
    OBVIOUS
  <2> HIDE DEF u
  <2>2. u \in [1..Len(t) -> Bindings] /\ Len(t) \in Nat
    BY <1>2, <1>3, <2>1, TableEntry
  <2> QED
    BY <2>2, SeqDef
<1> HIDE DEF u
<1>5. w \in Seq(Bindings) /\ ToSet(w) = ToSet(u) \ empty /\ Keeps(w, u)
  <2> HIDE DEF empty
  <2> QED
    BY <1>4, WithoutKeeps
<1>6. Consumers(u) = Consumers(t) \ dead
  BY <1>2, <1>3 DEF Consumers
<1>7. Consumers(w) = Consumers(u)
  <2> HIDE DEF w
  <2>1. \A b \in ToSet(u) : b \notin ToSet(w) => ToSet(b.consumers) = {}
    BY <1>5, EmptyQueue
  <2>2. Consumers(w) = UNION {ToSet(b.consumers) : b \in ToSet(w)}
    BY DEF Consumers, ToSet
  <2>3. Consumers(u) = UNION {ToSet(b.consumers) : b \in ToSet(u)}
    BY DEF Consumers, ToSet
  <2>4. ToSet(w) \subseteq ToSet(u)
    BY <1>5
  <2> QED
    BY <2>1, <2>2, <2>3, <2>4
<1>8. ASSUME Apart(t) PROVE Apart(u)
  <2> SUFFICES ASSUME NEW i \in DOMAIN t, NEW h \in DOMAIN t,
                      NEW a \in DOMAIN u[i].consumers, NEW b \in DOMAIN u[h].consumers,
                      u[i].consumers[a] = u[h].consumers[b]
               PROVE  i = h /\ a = b
    BY <1>3 DEF Apart
  <2>1. \A x \in DOMAIN t : /\ DOMAIN u[x].consumers = 1..Len(u[x].consumers)
                            /\ DOMAIN t[x].consumers = 1..Len(t[x].consumers)
                            /\ t[x].consumers \in Seq(Subscribers)
    BY <1>3, <1>4, TableEntry
  <2>0. Embeds(u[i].consumers, t[i].consumers) /\ Embeds(u[h].consumers, t[h].consumers)
    BY <1>2, <2>1, KeepsApart
  <2>2. PICK e \in [1..Len(u[i].consumers) -> 1..Len(t[i].consumers)] :
          /\ \A x \in 1..Len(u[i].consumers) : u[i].consumers[x] = t[i].consumers[e[x]]
          /\ \A x, y \in 1..Len(u[i].consumers) : e[x] = e[y] => x = y
    BY <2>0 DEF Embeds
  <2>3. PICK f \in [1..Len(u[h].consumers) -> 1..Len(t[h].consumers)] :
          \A x \in 1..Len(u[h].consumers) : u[h].consumers[x] = t[h].consumers[f[x]]
    BY <2>0 DEF Embeds
  <2>4. i = h
    <3>1. /\ e[a] \in DOMAIN t[i].consumers /\ u[i].consumers[a] = t[i].consumers[e[a]]
          /\ f[b] \in DOMAIN t[h].consumers /\ u[h].consumers[b] = t[h].consumers[f[b]]
      BY <2>1, <2>2, <2>3
    <3>2. t[i].consumers[e[a]] = t[h].consumers[f[b]]
      BY <3>1
    <3> QED
      BY <1>8, <3>1, <3>2 DEF Apart
  <2>5. a = b
    <3>1. /\ e[a] \in DOMAIN t[i].consumers /\ u[i].consumers[a] = t[i].consumers[e[a]]
          /\ e[b] \in DOMAIN t[i].consumers /\ u[i].consumers[b] = t[i].consumers[e[b]]
      BY <2>1, <2>2, <2>4
    <3>2. t[i].consumers[e[a]] = t[i].consumers[e[b]]
      BY <2>4, <3>1
    <3>3. e[a] = e[b]
      BY <1>8, <3>1, <3>2 DEF Apart
    <3> QED
      BY <2>1, <2>2, <2>4, <3>3
  <2> QED
    BY <2>4, <2>5
<1>9. OnePerQueue(t) => OnePerQueue(u)
  BY <1>2, <1>3 DEF OnePerQueue
<1>10. (Apart(u) => Apart(w)) /\ (OnePerQueue(u) => OnePerQueue(w))
  <2> HIDE DEF w
  <2> QED
    BY <1>4, <1>5, KeptTable
<1> QED
  BY <1>1, <1>5, <1>6, <1>7, <1>8, <1>9, <1>10

\* A new consumer gets one place; a binding of its pattern and queue takes it in.
LEMMA JoinedTable ==
  ASSUME NEW t \in Seq(Bindings), NEW r \in Subscriptions, NEW c \in Subscribers,
         c \notin Consumers(t),
         r.queue # NoQueue => ~BoundElsewhere(t, r.pattern, r.queue)
  PROVE  LET u == Join(t, r.pattern, r.queue, c)
         IN /\ u \in Seq(Bindings)
            /\ Consumers(u) = Consumers(t) \union {c}
            /\ Apart(t) => Apart(u)
            /\ OnePerQueue(t) => OnePerQueue(u)
<1> DEFINE u == Join(t, r.pattern, r.queue, c)
           same == {i \in DOMAIN t : t[i].pattern = r.pattern /\ t[i].queue = r.queue}
           new == Binding(r.pattern, r.queue, <<c>>)
<1>0. /\ DOMAIN t = 1..Len(t) /\ Len(t) \in Nat
      /\ \A i \in DOMAIN t : /\ t[i] \in Bindings /\ t[i].consumers \in Seq(Subscribers)
                             /\ DOMAIN t[i].consumers = 1..Len(t[i].consumers)
                             /\ Len(t[i].consumers) \in Nat
                             /\ \A a \in DOMAIN t[i].consumers : t[i].consumers[a] # c
  <2>1. \A i \in DOMAIN t : \A a \in DOMAIN t[i].consumers : t[i].consumers[a] # c
    BY DEF Consumers, ToSet
  <2> QED
    BY <2>1, TableEntry, LenProperties
<1>1. CASE same = {}
  <2>1. u = Append(t, new)
    BY <1>1 DEF Join
  <2>2. /\ new \in Bindings /\ new.queue = r.queue
        /\ new.consumers = <<c>> /\ DOMAIN new.consumers = {1} /\ new.consumers[1] = c
    BY DEF Bindings, Binding
  <2> HIDE DEF new
  <2>3. /\ u \in Seq(Bindings) /\ DOMAIN u = 1..(Len(t) + 1)
        /\ \A i \in DOMAIN t : i \in DOMAIN u /\ u[i] = t[i]
        /\ u[Len(t) + 1] = new
    BY <1>0, <2>1, <2>2, AppendProperties, LenProperties
  <2>4. \A i \in DOMAIN u : i = Len(t) + 1 \/ i \in DOMAIN t
    BY <1>0, <2>3
  <2>5. Len(t) + 1 \in DOMAIN u /\ Len(t) + 1 \notin DOMAIN t
    BY <1>0, <2>3
  <2> HIDE DEF u
  <2>6. Consumers(u) = Consumers(t) \union {c}
    <3>1. ToSet(new.consumers) = {c}
      BY <2>2 DEF ToSet
    <3> QED
      BY <2>3, <2>4, <2>5, <3>1 DEF Consumers
  <2>7. ASSUME Apart(t) PROVE Apart(u)
    <3> SUFFICES ASSUME NEW i \in DOMAIN u, NEW h \in DOMAIN u,
                        NEW a \in DOMAIN u[i].consumers, NEW b \in DOMAIN u[h].consumers,
                        u[i].consumers[a] = u[h].consumers[b]
                 PROVE  i = h /\ a = b
      BY DEF Apart
    <3>1. CASE i \in DOMAIN t /\ h \in DOMAIN t
      BY <2>3, <2>7, <3>1 DEF Apart
    <3>2. CASE i = Len(t) + 1 /\ h \in DOMAIN t
      BY <1>0, <2>2, <2>3, <3>2
    <3>3. CASE i \in DOMAIN t /\ h = Len(t) + 1
      BY <1>0, <2>2, <2>3, <3>3
    <3>4. CASE i = Len(t) + 1 /\ h = Len(t) + 1
      BY <2>2, <2>3, <3>4
    <3> QED
      BY <2>4, <3>1, <3>2, <3>3, <3>4
  <2>8. ASSUME OnePerQueue(t) PROVE OnePerQueue(u)
    <3>1. \A i \in DOMAIN t : r.queue # NoQueue => t[i].queue # r.queue
      BY <1>1 DEF BoundElsewhere
    <3> SUFFICES ASSUME NEW i \in DOMAIN u, NEW h \in DOMAIN u,
                        u[i].queue # NoQueue, u[i].queue = u[h].queue
                 PROVE  i = h
      BY DEF OnePerQueue
    <3>2. CASE i \in DOMAIN t /\ h \in DOMAIN t
      BY <2>3, <2>8, <3>2 DEF OnePerQueue
    <3> QED
      BY <2>2, <2>3, <2>4, <3>1, <3>2
  <2> QED
    BY <2>3, <2>6, <2>7, <2>8 DEF u
<1>2. CASE same # {}
  <2> DEFINE k == CHOOSE i \in same : TRUE
  <2>1. k \in DOMAIN t
    BY <1>2
  <2> HIDE DEF k
  <2> DEFINE l == Append(t[k].consumers, c)
  <2>2. u = [t EXCEPT ![k].consumers = l]
    BY <1>2 DEF Join, k
  <2>3. /\ l \in Seq(Subscribers) /\ DOMAIN l = 1..(Len(t[k].consumers) + 1)
        /\ \A a \in DOMAIN t[k].consumers : a \in DOMAIN l /\ l[a] = t[k].consumers[a]
        /\ l[Len(t[k].consumers) + 1] = c
        /\ ToSet(l) = ToSet(t[k].consumers) \union {c}
    BY <1>0, <2>1, AppendProperties, LenProperties, Appended
  <2> HIDE DEF l
  <2>4. /\ DOMAIN u = DOMAIN t
        /\ u[k] = [t[k] EXCEPT !.consumers = l]
        /\ \A i \in DOMAIN t : i # k => u[i] = t[i]
        /\ u = [i \in DOMAIN t |-> u[i]]
    BY <2>1, <2>2
  <2> HIDE DEF u
  <2>5. /\ u[k] \in Bindings /\ u[k].queue = t[k].queue /\ u[k].consumers = l
    <3>1. t[k] \in Bindings
      BY <1>0, <2>1
    <3> QED
      BY <2>3, <2>4, <3>1 DEF Bindings
  <2>6. \A i \in DOMAIN t : u[i] \in Bindings /\ u[i].queue = t[i].queue
    BY <1>0, <2>4, <2>5
  <2>7. u \in Seq(Bindings)
    <3>1. u \in [1..Len(t) -> Bindings]
      BY <1>0, <2>4, <2>6
    <3> QED
      BY <1>0, <3>1, SeqDef
  <2>8. Consumers(u) = Consumers(t) \union {c}
    <3>1. \A i \in DOMAIN t : i # k => ToSet(u[i].consumers) = ToSet(t[i].consumers)
      BY <2>4
    <3>2. ToSet(u[k].consumers) = ToSet(t[k].consumers) \union {c}
      BY <2>3, <2>5
    <3>3. \A x : x \in Consumers(u) <=> \E i \in DOMAIN t : x \in ToSet(u[i].consumers)
      BY <2>4 DEF Consumers
    <3>4. \A x : x \in Consumers(t) <=> \E i \in DOMAIN t : x \in ToSet(t[i].consumers)
      BY DEF Consumers
    <3> QED
      BY <2>1, <3>1, <3>2, <3>3, <3>4
  <2>9. ASSUME Apart(t) PROVE Apart(u)
    <3> DEFINE n == Len(t[k].consumers) + 1
    <3>1. \A i \in DOMAIN t : \A a \in DOMAIN u[i].consumers :
            \/ i = k /\ a = n /\ u[i].consumers[a] = c
            \/ a \in DOMAIN t[i].consumers /\ u[i].consumers[a] = t[i].consumers[a]
      <4> TAKE i \in DOMAIN t
      <4> TAKE a \in DOMAIN u[i].consumers
      <4>1. CASE i # k
        BY <2>4, <4>1
      <4>2. CASE i = k /\ a = n
        BY <2>3, <2>5, <4>2
      <4>3. CASE i = k /\ a # n
        <5>1. a \in 1..(Len(t[k].consumers) + 1) /\ a # Len(t[k].consumers) + 1
          BY <2>3, <2>5, <4>3
        <5>2. a \in DOMAIN t[k].consumers
          BY <1>0, <2>1, <5>1
        <5> QED
          BY <2>3, <2>5, <4>3, <5>2
      <4> QED
        BY <4>1, <4>2, <4>3
    <3> SUFFICES ASSUME NEW i \in DOMAIN t, NEW h \in DOMAIN t,
                        NEW a \in DOMAIN u[i].consumers, NEW b \in DOMAIN u[h].consumers,
                        u[i].consumers[a] = u[h].consumers[b]
                 PROVE  i = h /\ a = b
      BY <2>4 DEF Apart
    <3> HIDE DEF n
    <3>2. \/ i = k /\ a = n /\ u[i].consumers[a] = c
          \/ a \in DOMAIN t[i].consumers /\ u[i].consumers[a] = t[i].consumers[a]
      BY <3>1
    <3>3. \/ h = k /\ b = n /\ u[h].consumers[b] = c
          \/ b \in DOMAIN t[h].consumers /\ u[h].consumers[b] = t[h].consumers[b]
      BY <3>1
    <3>4. CASE /\ a \in DOMAIN t[i].consumers /\ u[i].consumers[a] = t[i].consumers[a]
               /\ b \in DOMAIN t[h].consumers /\ u[h].consumers[b] = t[h].consumers[b]
      <4>1. t[i].consumers[a] = t[h].consumers[b]
        BY <3>4
      <4> QED
        BY <2>9, <3>4, <4>1 DEF Apart
    <3>5. ASSUME a \in DOMAIN t[i].consumers, u[i].consumers[a] = t[i].consumers[a]
          PROVE  u[i].consumers[a] # c
      BY <1>0, <3>5
    <3>6. ASSUME b \in DOMAIN t[h].consumers, u[h].consumers[b] = t[h].consumers[b]
          PROVE  u[h].consumers[b] # c
      BY <1>0, <3>6
    <3> QED
      BY <3>2, <3>3, <3>4, <3>5, <3>6
  <2>10. OnePerQueue(t) => OnePerQueue(u)
    BY <2>4, <2>6 DEF OnePerQueue
  <2> QED
    BY <2>7, <2>8, <2>9, <2>10 DEF u
<1> HIDE DEF u, same
<1> QED
  BY <1>1, <1>2 DEF u

-----------------------------------------------------------------------------
(* What a dispatch asks of the table *)

\* The consumer of a queue whose turn it is.
Turn(b) == b.consumers[(b.rr % Len(b.consumers)) + 1]

\* A fanout binding picks all its consumers, a queue the one whose turn it is.
LEMMA PickedOf ==
  ASSUME NEW b \in Bindings
  PROVE  /\ Picked(b) \in Seq(Subscribers)
         /\ ToSet(Picked(b)) \subseteq ToSet(b.consumers)
         /\ b.queue # NoQueue /\ b.consumers # <<>> =>
              Picked(b) = <<Turn(b)>> /\ Turn(b) \in Subscribers /\ Turn(b) \in ToSet(b.consumers)
<1>1. b.consumers \in Seq(Subscribers) /\ b.rr \in Nat
  BY DEF Bindings
<1>2. CASE b.queue = NoQueue \/ b.consumers = <<>>
  BY <1>1, <1>2, EmptyQueue DEF Picked
<1>3. CASE ~(b.queue = NoQueue \/ b.consumers = <<>>)
  <2>1. PICK n \in Nat : n = Len(b.consumers) /\ n # 0
    BY <1>1, <1>3, LenProperties, EmptySeq
  <2>2. (b.rr % n) + 1 \in 1..n
    BY <1>1, <2>1
  <2>3. Turn(b) = b.consumers[(b.rr % n) + 1] /\ Picked(b) = <<Turn(b)>>
    BY <1>3, <2>1 DEF Turn, Picked
  <2>4. Turn(b) \in Subscribers
    BY <1>1, <2>1, <2>2, <2>3, ElementOfSeq
  <2>5. Turn(b) \in ToSet(b.consumers)
    <3>1. DOMAIN b.consumers = 1..n
      BY <1>1, <2>1, LenProperties
    <3> QED
      BY <2>2, <2>3, <3>1 DEF ToSet
  <2>6. Picked(b) \in Seq(Subscribers) /\ ToSet(Picked(b)) = {Turn(b)}
    <3>1. <<Turn(b)>> \in Seq(Subscribers) /\ DOMAIN <<Turn(b)>> = {1} /\ <<Turn(b)>>[1] = Turn(b)
      BY <2>4
    <3> QED
      BY <2>3, <3>1 DEF ToSet
  <2> QED
    BY <2>3, <2>4, <2>5, <2>6
<1> QED
  BY <1>2, <1>3

LEMMA RouteTargets ==
  ASSUME NEW t \in Seq(Bindings), NEW subject
  PROVE  /\ Route(t, subject) \in Seq(Subscribers)
         /\ \A i \in DOMAIN t :
              IsPicked(t[i], subject) /\ t[i].queue = NoQueue
              => ToSet(t[i].consumers) \subseteq ToSet(Route(t, subject))
         /\ \A i \in DOMAIN t :
              IsPicked(t[i], subject) => ToSet(Picked(t[i])) \subseteq ToSet(Route(t, subject))
         /\ \A s \in ToSet(Route(t, subject)) :
              \E i \in DOMAIN t : IsPicked(t[i], subject) /\ s \in ToSet(Picked(t[i]))
<1> DEFINE asked == [i \in DOMAIN t |-> IF IsPicked(t[i], subject) THEN Picked(t[i]) ELSE <<>>]
<1>1. \A b \in Bindings : Picked(b) \in Seq(Subscribers)
  BY PickedOf
<1>2. /\ DOMAIN t = 1..Len(t) /\ Len(t) \in Nat
      /\ \A i \in DOMAIN t : t[i] \in Bindings
  BY TableEntry
<1>3. asked \in Seq(Seq(Subscribers)) /\ Len(asked) = Len(t)
  <2>1. \A i \in DOMAIN t :
          (IF IsPicked(t[i], subject) THEN Picked(t[i]) ELSE <<>>) \in Seq(Subscribers)
    BY <1>1, <1>2, EmptyQueue
  <2>2. asked \in [1..Len(t) -> Seq(Subscribers)]
    BY <1>2, <2>1
  <2> HIDE DEF asked
  <2> QED
    BY <1>2, <2>2, SeqDef, LenProperties
<1>4. \A i \in DOMAIN t : IsPicked(t[i], subject) /\ t[i].queue = NoQueue
                          => asked[i] = t[i].consumers
  BY DEF Picked
<1>5. Route(t, subject) = FlattenSeq(asked)
  BY DEF Route
<1>6. \A i \in DOMAIN t : IF IsPicked(t[i], subject) THEN asked[i] = Picked(t[i])
                                                       ELSE ToSet(asked[i]) = {}
  <2>1. ToSet(<<>>) = {}
    BY DEF ToSet
  <2> QED
    BY <2>1
<1> HIDE DEF asked
<1>7. /\ FlattenSeq(asked) \in Seq(Subscribers)
      /\ \A i \in 1..Len(asked) : ToSet(asked[i]) \subseteq ToSet(FlattenSeq(asked))
      /\ \A s \in ToSet(FlattenSeq(asked)) : \E i \in 1..Len(asked) : s \in ToSet(asked[i])
  BY <1>3, Flattened
<1>8. ASSUME NEW i \in DOMAIN t, IsPicked(t[i], subject)
      PROVE  ToSet(Picked(t[i])) \subseteq ToSet(Route(t, subject))
  <2>1. i \in 1..Len(asked) /\ asked[i] = Picked(t[i])
    BY <1>2, <1>3, <1>6, <1>8
  <2> QED
    BY <1>5, <1>7, <2>1
<1>9. ASSUME NEW s \in ToSet(Route(t, subject))
      PROVE  \E i \in DOMAIN t : IsPicked(t[i], subject) /\ s \in ToSet(Picked(t[i]))
  <2>1. PICK i \in 1..Len(asked) : s \in ToSet(asked[i])
    BY <1>5, <1>7, <1>9
  <2>2. i \in DOMAIN t /\ IsPicked(t[i], subject) /\ asked[i] = Picked(t[i])
    BY <1>2, <1>3, <1>6, <2>1
  <2> QED
    BY <2>1, <2>2
<1> QED
  BY <1>2, <1>3, <1>4, <1>5, <1>7, <1>8, <1>9

\* A dispatch that finds no full target finds room in all of them, and only
\* consumers that have left are dead.
LEMMA Reservation ==
  ASSUME NEW targets \in Seq(Subscribers)
  PROVE  /\ FirstFull(targets) = 0 => \A s \in ToSet(targets) : ~Full(s)
         /\ \A s \in Dead(targets) : Closed(s)
<1> DEFINE full == {i \in 1..Len(targets) : Full(targets[i])}
<1>1. FirstFull(targets) = IF full # {} THEN Min(full) ELSE 0
  BY DEF FirstFull, SelectInSeq
<1>2. ASSUME FirstFull(targets) = 0 PROVE full = {}
  <2>1. SUFFICES ASSUME full # {} PROVE FALSE
    OBVIOUS
  <2>2. full \subseteq Nat /\ \A i \in full : i # 0
    BY LenProperties
  <2> HIDE DEF full
  <2>3. Min(full) \in full
    BY <2>1, <2>2, MinIn
  <2> QED
    BY <1>1, <1>2, <2>1, <2>2, <2>3
<1>3. DOMAIN targets = 1..Len(targets)
  BY LenProperties
<1>4. ASSUME FirstFull(targets) = 0 PROVE \A s \in ToSet(targets) : ~Full(s)
  <2> HIDE DEF full
  <2>1. \A i \in 1..Len(targets) : ~Full(targets[i])
    BY <1>2, <1>4 DEF full
  <2> QED
    BY <1>3, <2>1 DEF ToSet
<1>5. \A s \in Dead(targets) : Closed(s)
  BY DEF Dead
<1> QED
  BY <1>4, <1>5

-----------------------------------------------------------------------------
(* The invariance proof *)

LEMMA InitRouter == Init => RouterInv
<1> SUFFICES ASSUME Init PROVE RouterInv
  OBVIOUS
<1>1. commands = <<>> /\ bindings = <<>> /\ senders = {} /\ DOMAIN <<>> = {}
  BY DEF Init
<1>2. Types
  <2>1. stream \in [Subscribers -> Seq(Message)]
    BY EmptyQueue DEF Init
  <2> QED
    BY <1>1, <2>1, EmptyQueue, MessagesAssumption DEF Init, Types
<1>3. RoomInv
  BY BufferAssumption, EmptyQueue DEF Init, RoomInv
<1>4. AskInv
  BY <1>1 DEF AskInv
<1>5. Consumers(bindings) = senders /\ Apart(bindings) /\ OnePerQueue(bindings)
  BY <1>1 DEF Consumers, Apart, OnePerQueue
<1>6. OpenStreamsStaySubscribed
  BY DEF Init, OpenStreamsStaySubscribed
<1> QED
  BY <1>2, <1>3, <1>4, <1>5, <1>6 DEF RouterInv

LEMMA CommandFacts ==
  /\ \A m \in Message : /\ DispatchCommand(m) \in Command
                        /\ \A s : ~Asks(DispatchCommand(m), s)
  /\ \A s \in Subscribers, r \in Subscriptions :
       /\ SubscribeCommand(s, r) \in Command
       /\ \A x : Asks(SubscribeCommand(s, r), x) <=> x = s
<1>1. \A m \in Message : DispatchCommand(m) \in Command
  BY DEF Command
<1>2. \A s \in Subscribers, r \in Subscriptions : SubscribeCommand(s, r) \in Command
  BY DEF Command
<1>3. \A m, s : ~Asks(DispatchCommand(m), s)
  BY DEF DispatchCommand, Asks
<1>4. \A s, r, x : Asks(SubscribeCommand(s, r), x) <=> x = s
  BY DEF SubscribeCommand, Asks
<1> QED
  BY <1>1, <1>2, <1>3, <1>4

\* What the mailbox holds when c is sent to it.
LEMMA Sent ==
  ASSUME Types, NEW c \in Command, SendCommand(c)
  PROVE  /\ commands' \in Seq(Command)
         /\ DOMAIN commands' = 1..(Len(commands) + 1) /\ DOMAIN commands = 1..Len(commands)
         /\ Len(commands) \in Nat
         /\ \A i \in DOMAIN commands : commands'[i] = commands[i]
         /\ commands'[Len(commands) + 1] = c
         /\ \A i \in DOMAIN commands' : i \in DOMAIN commands \/ i = Len(commands) + 1
<1>1. commands \in Seq(Command) /\ commands' = Append(commands, c)
  BY DEF Types, SendCommand
<1>2. /\ commands' \in Seq(Command)
      /\ Len(commands') = Len(commands) + 1
      /\ \A i \in 1..Len(commands) : commands'[i] = commands[i]
      /\ commands'[Len(commands) + 1] = c
  BY <1>1, AppendProperties
<1>3. /\ DOMAIN commands = 1..Len(commands) /\ Len(commands) \in Nat
      /\ DOMAIN commands' = 1..Len(commands')
  BY <1>1, <1>2, LenProperties
<1> QED
  BY <1>2, <1>3

\* What the mailbox holds when the actor has taken its next command.
LEMMA Served ==
  ASSUME Types, NEW c, Received(c), commands' = Tail(commands)
  PROVE  /\ commands' \in Seq(Command)
         /\ 1 \in DOMAIN commands /\ commands[1] = c
         /\ \A i \in DOMAIN commands' :
              i # 0 /\ i + 1 \in DOMAIN commands /\ commands'[i] = commands[i + 1]
         /\ \A i, h \in DOMAIN commands' : i + 1 = h + 1 => i = h
<1>1. commands \in Seq(Command) /\ commands # <<>> /\ c = Head(commands)
  BY DEF Types, Received
<1>2. /\ commands' \in Seq(Command)
      /\ Len(commands') = Len(commands) - 1
      /\ \A i \in 1..Len(commands') : commands'[i] = commands[i + 1]
  BY <1>1, HeadTailProperties
<1>3. /\ DOMAIN commands = 1..Len(commands) /\ Len(commands) \in Nat /\ Len(commands) # 0
      /\ DOMAIN commands' = 1..(Len(commands) - 1)
      /\ Head(commands) = commands[1]
  BY <1>1, <1>2, LenProperties, EmptySeq
<1> QED
  BY <1>1, <1>2, <1>3

LEMMA PublishStep ==
  ASSUME RouterInv, NEW p \in Publishers, NEW subject \in Subjects, Publish(p, subject)
  PROVE  RouterInv'
<1> DEFINE m == [by |-> p, n |-> published[p] + 1, subject |-> subject]
<1>1. m \in Message
  BY MessagesAssumption DEF RouterInv, Types, Publish, Message
<1>2. SendCommand(DispatchCommand(m))
  BY DEF Publish
<1> HIDE DEF m
<1>3. DispatchCommand(m) \in Command /\ \A s : ~Asks(DispatchCommand(m), s)
  BY <1>1, CommandFacts
<1>4. /\ commands' \in Seq(Command)
      /\ \A i \in DOMAIN commands : commands'[i] = commands[i]
      /\ commands'[Len(commands) + 1] = DispatchCommand(m)
      /\ \A i \in DOMAIN commands' : i \in DOMAIN commands \/ i = Len(commands) + 1
  BY <1>2, <1>3, Sent DEF RouterInv
<1>5. Types'
  BY <1>4, MessagesAssumption DEF RouterInv, Types, Publish
<1>6. AskInv'
  BY <1>3, <1>4 DEF RouterInv, AskInv, Publish
<1> QED
  BY <1>5, <1>6 DEF RouterInv, RoomInv, OpenStreamsStaySubscribed, Publish, Consumers, Apart, OnePerQueue

LEMMA SubscribeStep ==
  ASSUME RouterInv, NEW s \in Subscribers, NEW r \in Subscriptions, Subscribe(s, r)
  PROVE  RouterInv'
<1> DEFINE c == SubscribeCommand(s, r)
<1>1. c \in Command /\ \A x : Asks(c, x) <=> x = s
  BY CommandFacts
<1>2. SendCommand(c)
  BY DEF Subscribe
<1> HIDE DEF c
<1>3. /\ commands' \in Seq(Command)
      /\ \A i \in DOMAIN commands : commands'[i] = commands[i]
      /\ commands'[Len(commands) + 1] = c
      /\ \A i \in DOMAIN commands' : i \in DOMAIN commands \/ i = Len(commands) + 1
  BY <1>1, <1>2, Sent DEF RouterInv
<1>4. /\ reader[s] = "new" /\ reader'[s] = "asking"
      /\ \A x \in Subscribers : x # s => reader'[x] = reader[x]
      /\ reader' \in [Subscribers -> {"new", "asking", "open", "gone", "ended", "refused"}]
  BY DEF Subscribe, RouterInv, Types
<1>5. Types'
  BY <1>3, <1>4 DEF RouterInv, Types, Subscribe
<1>6. AskInv'
  <2> SUFFICES ASSUME NEW x \in Subscribers
               PROVE  /\ reader'[x] = "new" => x \notin senders
                      /\ reader'[x] = "new" \/ x \in senders
                         => \A i \in DOMAIN commands' : ~Asks(commands'[i], x)
                      /\ \A i, h \in DOMAIN commands' :
                           Asks(commands'[i], x) /\ Asks(commands'[h], x) => i = h
    BY DEF AskInv, Subscribe
  <2>1. CASE x # s
    BY <1>1, <1>3, <1>4, <2>1 DEF RouterInv, AskInv
  <2>2. CASE x = s
    <3>1. s \notin senders /\ \A i \in DOMAIN commands : ~Asks(commands[i], s)
      BY <1>4 DEF RouterInv, AskInv
    <3> QED
      BY <1>1, <1>3, <1>4, <2>2, <3>1
  <2> QED
    BY <2>1, <2>2
<1>7. OpenStreamsStaySubscribed'
  BY <1>4 DEF RouterInv, OpenStreamsStaySubscribed, Subscribe
<1> QED
  BY <1>5, <1>6, <1>7 DEF RouterInv, RoomInv, Subscribe, Consumers, Apart, OnePerQueue

\* The steps of a caller that leave mailbox and table alone.
LEMMA ReaderStep ==
  ASSUME RouterInv, NEW s \in Subscribers, Receive(s) \/ Leave(s) \/ StreamEnds(s)
  PROVE  RouterInv'
<1>1. /\ stream' \in [Subscribers -> Seq(Message)]
      /\ \A x \in Subscribers : Len(stream'[x]) <= SubscriptionBuffer
  <2>0. /\ stream \in [Subscribers -> Seq(Message)]
        /\ \A x \in Subscribers : Len(stream[x]) <= SubscriptionBuffer /\ Len(stream[x]) \in Nat
    BY LenProperties DEF RouterInv, Types, RoomInv
  <2>1. CASE Receive(s)
    <3>1. Tail(stream[s]) \in Seq(Message) /\ Len(Tail(stream[s])) = Len(stream[s]) - 1
      BY <2>0, <2>1, Taken DEF Receive
    <3>2. stream' = [stream EXCEPT ![s] = Tail(stream[s])]
      BY <2>1 DEF Receive
    <3> QED
      BY <2>0, <3>1, <3>2, BufferAssumption
  <2>2. CASE Leave(s)
    <3>1. stream' = [stream EXCEPT ![s] = <<>>]
      BY <2>2 DEF Leave
    <3> QED
      BY <2>0, <3>1, EmptyQueue, BufferAssumption
  <2>3. CASE StreamEnds(s)
    BY <2>0, <2>3 DEF StreamEnds
  <2> QED
    BY <2>1, <2>2, <2>3
<1>2. /\ reader' \in [Subscribers -> {"new", "asking", "open", "gone", "ended", "refused"}]
      /\ \A x \in Subscribers : reader'[x] \in {"new", "open"} => reader'[x] = reader[x]
  BY DEF RouterInv, Types, Receive, Leave, StreamEnds
<1>3. UNCHANGED <<commands, actor, bindings, senders, publisher, published, outcome>>
  BY DEF Receive, Leave, StreamEnds
<1>4. Types'
  BY <1>1, <1>2, <1>3 DEF RouterInv, Types
<1>5. RoomInv'
  BY <1>1 DEF RoomInv
<1>6. AskInv'
  BY <1>2, <1>3 DEF RouterInv, AskInv
<1>7. OpenStreamsStaySubscribed'
  BY <1>2, <1>3 DEF RouterInv, OpenStreamsStaySubscribed
<1> QED
  BY <1>3, <1>4, <1>5, <1>6, <1>7 DEF RouterInv, Consumers, Apart, OnePerQueue

LEMMA PublisherStep ==
  ASSUME RouterInv, NEW p \in Publishers, GiveUp(p) \/ Close(p)
  PROVE  RouterInv'
<1>1. Types'
  BY DEF RouterInv, Types, GiveUp, Close
<1>2. UNCHANGED <<commands, actor, bindings, senders, stream, reader>>
  BY DEF GiveUp, Close
<1> QED
  BY <1>1, <1>2 DEF RouterInv, RoomInv, AskInv, OpenStreamsStaySubscribed, Consumers, Apart, OnePerQueue

LEMMA ServeSubscribeStep ==
  ASSUME RouterInv, NEW s \in Subscribers, NEW r \in Subscriptions, ServeSubscribe(s, r)
  PROVE  RouterInv'
<1> DEFINE c == SubscribeCommand(s, r)
           refused == r.queue # NoQueue /\ BoundElsewhere(bindings, r.pattern, r.queue)
<1>1. c \in Command /\ \A x : Asks(c, x) <=> x = s
  BY CommandFacts
<1>2. Received(c) /\ commands' = Tail(commands)
  BY DEF ServeSubscribe
<1> HIDE DEF c
<1>3. /\ commands' \in Seq(Command)
      /\ 1 \in DOMAIN commands /\ commands[1] = c
      /\ \A i \in DOMAIN commands' :
           i # 0 /\ i + 1 \in DOMAIN commands /\ commands'[i] = commands[i + 1]
      /\ \A i, h \in DOMAIN commands' : i + 1 = h + 1 => i = h
  BY <1>2, Served DEF RouterInv
<1>4. /\ UNCHANGED <<actor, stream, publisher, published, outcome>>
      /\ \/ /\ refused
            /\ reader' = Answer(s, "refused")
            /\ UNCHANGED <<bindings, senders>>
         \/ /\ ~refused
            /\ reader' = Answer(s, "open")
            /\ senders' = senders \union {s}
            /\ bindings' = Join(bindings, r.pattern, r.queue, s)
  BY DEF ServeSubscribe
<1>5. /\ reader' \in [Subscribers -> {"new", "asking", "open", "gone", "ended", "refused"}]
      /\ \A x \in Subscribers : x # s => reader'[x] = reader[x]
      /\ reader'[s] = "new" => reader[s] = "new"
      /\ reader'[s] = "open" => reader[s] = "open" \/ senders' = senders \union {s}
  BY <1>4 DEF Answer, RouterInv, Types
<1>6. /\ reader[s] # "new" /\ s \notin senders
      /\ \A i \in DOMAIN commands' : ~Asks(commands'[i], s)
  <2>1. Asks(commands[1], s)
    BY <1>1, <1>3
  <2>2. reader[s] # "new" /\ s \notin senders
    BY <1>3, <2>1 DEF RouterInv, AskInv
  <2>3. ASSUME NEW i \in DOMAIN commands', Asks(commands'[i], s) PROVE FALSE
    <3>1. i # 0 /\ i + 1 \in DOMAIN commands /\ Asks(commands[i + 1], s)
      BY <1>3, <2>3
    <3>2. i + 1 = 1
      BY <1>3, <2>1, <3>1 DEF RouterInv, AskInv
    <3>3. i \in Nat
      BY <1>3, LenProperties
    <3> QED
      BY <3>1, <3>2, <3>3
  <2> QED
    BY <2>2, <2>3
<1>7. /\ bindings' \in Seq(Bindings)
      /\ senders' \subseteq Subscribers
      /\ senders' \subseteq senders \union {s}
      /\ senders \subseteq senders'
      /\ Consumers(bindings') = senders'
      /\ Apart(bindings') /\ OnePerQueue(bindings')
  <2>1. CASE refused /\ UNCHANGED <<bindings, senders>>
    BY <2>1 DEF RouterInv, Types
  <2>2. CASE /\ ~refused
             /\ senders' = senders \union {s}
             /\ bindings' = Join(bindings, r.pattern, r.queue, s)
    <3>1. /\ bindings \in Seq(Bindings) /\ s \notin Consumers(bindings)
          /\ r.queue # NoQueue => ~BoundElsewhere(bindings, r.pattern, r.queue)
      BY <1>6, <2>2 DEF RouterInv, Types
    <3>2. /\ bindings' \in Seq(Bindings)
          /\ Consumers(bindings') = Consumers(bindings) \union {s}
          /\ Apart(bindings) => Apart(bindings')
          /\ OnePerQueue(bindings) => OnePerQueue(bindings')
      BY <2>2, <3>1, JoinedTable
    <3> QED
      BY <2>2, <3>2 DEF RouterInv, Types
  <2> QED
    BY <1>4, <2>1, <2>2
<1>8. Types'
  BY <1>3, <1>4, <1>5, <1>7 DEF RouterInv, Types
<1>9. AskInv'
  <2> SUFFICES ASSUME NEW x \in Subscribers
               PROVE  /\ reader'[x] = "new" => x \notin senders'
                      /\ reader'[x] = "new" \/ x \in senders'
                         => \A i \in DOMAIN commands' : ~Asks(commands'[i], x)
                      /\ \A i, h \in DOMAIN commands' :
                           Asks(commands'[i], x) /\ Asks(commands'[h], x) => i = h
    BY DEF AskInv
  <2>1. CASE x # s
    <3>1. /\ reader'[x] = reader[x] /\ (x \in senders' => x \in senders)
      BY <1>5, <1>7, <2>1
    <3>2. /\ reader[x] = "new" => x \notin senders
          /\ reader[x] = "new" \/ x \in senders => \A i \in DOMAIN commands : ~Asks(commands[i], x)
          /\ \A i, h \in DOMAIN commands : Asks(commands[i], x) /\ Asks(commands[h], x) => i = h
      BY DEF RouterInv, AskInv
    <3> QED
      BY <1>3, <3>1, <3>2
  <2>2. CASE x = s
    BY <1>5, <1>6, <2>2
  <2> QED
    BY <2>1, <2>2
<1>10. OpenStreamsStaySubscribed'
  BY <1>4, <1>5, <1>7 DEF RouterInv, OpenStreamsStaySubscribed
<1>11. RoomInv'
  BY <1>4 DEF RouterInv, RoomInv
<1> QED
  BY <1>7, <1>8, <1>9, <1>10, <1>11 DEF RouterInv, Apart, OnePerQueue, Consumers

\* The consumers a dispatch of m goes to: those of the matching bindings.
Targets(m) == Without(Route(bindings, m.subject), Subscribers \ senders)

LEMMA TargetFacts ==
  ASSUME RouterInv, NEW m
  PROVE  /\ Targets(m) \in Seq(Subscribers)
         /\ \A s \in senders : MatchingFanout(s, m.subject) => s \in ToSet(Targets(m))
<1> DEFINE route == Route(bindings, m.subject)
<1>1. bindings \in Seq(Bindings)
  BY DEF RouterInv, Types
<1>2. /\ route \in Seq(Subscribers)
      /\ \A i \in DOMAIN bindings :
           IsPicked(bindings[i], m.subject) /\ bindings[i].queue = NoQueue
           => ToSet(bindings[i].consumers) \subseteq ToSet(route)
  BY <1>1, RouteTargets
<1> HIDE DEF route
<1>3. /\ Without(route, Subscribers \ senders) \in Seq(Subscribers)
      /\ ToSet(Without(route, Subscribers \ senders)) = ToSet(route) \ (Subscribers \ senders)
  BY <1>2, WithoutKeeps
<1>4. Targets(m) = Without(route, Subscribers \ senders)
  BY DEF Targets, route
<1>5. \A s \in senders : MatchingFanout(s, m.subject) => s \in ToSet(route)
  BY <1>2 DEF MatchingFanout, IsPicked
<1> QED
  BY <1>3, <1>4, <1>5

LEMMA DispatchStep ==
  ASSUME RouterInv, NEW m \in Message, Dispatch(m)
  PROVE  RouterInv'
<1> DEFINE targets == Targets(m)
           dead == Dead(targets)
<1>1. /\ Received(DispatchCommand(m))
      /\ commands' = Tail(commands)
      /\ bindings' = RemoveConsumers(Advanced(bindings, m.subject), dead)
      /\ senders' = senders \ dead
      /\ stream' = [s \in Subscribers |-> IF s \in Reached(targets)
                                          THEN Append(stream[s], m) ELSE stream[s]]
      /\ outcome' = [outcome EXCEPT ![m.by][m.n] =
                       IF FirstFull(targets) = 0 THEN "ok" ELSE "backpressure"]
      /\ publisher' = [publisher EXCEPT ![m.by] =
                         IF @ = "waiting" /\ published[m.by] = m.n THEN "idle" ELSE @]
      /\ UNCHANGED <<actor, reader, published>>
  BY DEF Dispatch, Targets
<1>2. targets \in Seq(Subscribers)
  BY TargetFacts
<1> HIDE DEF targets
<1>3. /\ FirstFull(targets) = 0 => \A s \in ToSet(targets) : ~Full(s)
      /\ \A s \in dead : Closed(s)
  BY <1>2, Reservation
<1>4. /\ commands' \in Seq(Command)
      /\ \A i \in DOMAIN commands' :
           i # 0 /\ i + 1 \in DOMAIN commands /\ commands'[i] = commands[i + 1]
      /\ \A i, h \in DOMAIN commands' : i + 1 = h + 1 => i = h
  BY <1>1, Served DEF RouterInv
<1>5. /\ bindings' \in Seq(Bindings)
      /\ Consumers(bindings') = Consumers(bindings) \ dead
      /\ Apart(bindings') /\ OnePerQueue(bindings')
  <2> DEFINE t == Advanced(bindings, m.subject)
  <2>1. /\ t \in Seq(Bindings) /\ Consumers(t) = Consumers(bindings)
        /\ Apart(t) /\ OnePerQueue(t)
    BY AdvancedTable DEF RouterInv, Types
  <2> HIDE DEF t, dead
  <2>2. /\ RemoveConsumers(t, dead) \in Seq(Bindings)
        /\ Consumers(RemoveConsumers(t, dead)) = Consumers(t) \ dead
        /\ Apart(RemoveConsumers(t, dead)) /\ OnePerQueue(RemoveConsumers(t, dead))
    BY <2>1, RemovedTable
  <2>3. bindings' = RemoveConsumers(t, dead)
    BY <1>1 DEF t
  <2> QED
    BY <2>1, <2>2, <2>3
<1> HIDE DEF dead
<1>6. ASSUME NEW s \in Subscribers
      PROVE  stream'[s] \in Seq(Message) /\ Len(stream'[s]) <= SubscriptionBuffer
  <2>1. stream[s] \in Seq(Message) /\ Len(stream[s]) <= SubscriptionBuffer /\ Len(stream[s]) \in Nat
    BY LenProperties DEF RouterInv, Types, RoomInv
  <2>2. CASE s \in Reached(targets)
    <3>1. FirstFull(targets) = 0 /\ s \in ToSet(targets) /\ s \notin dead
      BY <2>2 DEF Reached, dead
    <3>2. Examined(targets) = targets
      BY <3>1 DEF Examined
    <3>3. ~Closed(s)
      BY <3>1, <3>2 DEF dead, Dead
    <3>4. Len(stream[s]) < SubscriptionBuffer
      BY <1>3, <2>1, <3>1, <3>3, BufferAssumption DEF Full
    <3>5. stream'[s] = Append(stream[s], m)
      BY <1>1, <2>2
    <3>6. Append(stream[s], m) \in Seq(Message) /\ Len(Append(stream[s], m)) = Len(stream[s]) + 1
      BY <2>1, Appended
    <3> QED
      BY <2>1, <3>4, <3>5, <3>6, BufferAssumption
  <2>3. CASE s \notin Reached(targets)
    BY <1>1, <2>1, <2>3
  <2> QED
    BY <2>2, <2>3
<1>7. stream' \in [Subscribers -> Seq(Message)]
  BY <1>1, <1>6
<1>8. /\ outcome' \in [Publishers -> [1..MaxMessages -> {"none", "ok", "backpressure"}]]
      /\ publisher' \in [Publishers -> {"idle", "waiting", "closed"}]
  <2>1. m.by \in Publishers /\ m.n \in 1..MaxMessages
    BY DEF Message
  <2> QED
    BY <1>1, <2>1 DEF RouterInv, Types
<1>9. Types'
  BY <1>1, <1>4, <1>5, <1>7, <1>8 DEF RouterInv, Types
<1>10. RoomInv'
  BY <1>6 DEF RoomInv
<1>11. AskInv'
  <2> SUFFICES ASSUME NEW x \in Subscribers
               PROVE  /\ reader'[x] = "new" => x \notin senders'
                      /\ reader'[x] = "new" \/ x \in senders'
                         => \A i \in DOMAIN commands' : ~Asks(commands'[i], x)
                      /\ \A i, h \in DOMAIN commands' :
                           Asks(commands'[i], x) /\ Asks(commands'[h], x) => i = h
    BY DEF AskInv
  <2>1. reader'[x] = reader[x] /\ (x \in senders' => x \in senders)
    BY <1>1
  <2>2. /\ reader[x] = "new" => x \notin senders
        /\ reader[x] = "new" \/ x \in senders => \A i \in DOMAIN commands : ~Asks(commands[i], x)
        /\ \A i, h \in DOMAIN commands : Asks(commands[i], x) /\ Asks(commands[h], x) => i = h
    BY DEF RouterInv, AskInv
  <2> QED
    BY <1>4, <2>1, <2>2
<1>12. Consumers(bindings') = senders'
  BY <1>1, <1>5 DEF RouterInv
<1>13. OpenStreamsStaySubscribed'
  BY <1>1, <1>3 DEF RouterInv, OpenStreamsStaySubscribed, Closed
<1> QED
  BY <1>5, <1>9, <1>10, <1>11, <1>12, <1>13 DEF RouterInv, Apart, OnePerQueue, Consumers

LEMMA ActorStopsStep ==
  ASSUME RouterInv, ActorStops
  PROVE  RouterInv'
<1>1. /\ actor' = "stopped" /\ bindings' = <<>> /\ senders' = {} /\ DOMAIN <<>> = {}
      /\ UNCHANGED <<commands, stream, reader, publisher, published, outcome>>
  BY DEF ActorStops
<1>2. Types'
  BY <1>1, EmptyQueue DEF RouterInv, Types
<1>3. AskInv'
  BY <1>1 DEF RouterInv, AskInv
<1>4. Consumers(bindings') = senders' /\ Apart(bindings') /\ OnePerQueue(bindings')
  BY <1>1 DEF Consumers, Apart, OnePerQueue
<1>5. OpenStreamsStaySubscribed'
  BY <1>1 DEF OpenStreamsStaySubscribed
<1>6. RoomInv'
  BY <1>1 DEF RouterInv, RoomInv
<1> QED
  BY <1>2, <1>3, <1>4, <1>5, <1>6 DEF RouterInv, Consumers, Apart, OnePerQueue

LEMMA RouterStep == RouterInv /\ [Next]_vars => RouterInv'
<1> SUFFICES ASSUME RouterInv, [Next]_vars PROVE RouterInv'
  OBVIOUS
<1>1. ASSUME NEW p \in Publishers, NEW subject \in Subjects, Publish(p, subject)
      PROVE  RouterInv'
  BY <1>1, PublishStep
<1>2. ASSUME NEW p \in Publishers, GiveUp(p) \/ Close(p)
      PROVE  RouterInv'
  BY <1>2, PublisherStep
<1>3. ASSUME NEW s \in Subscribers, NEW r \in Subscriptions, Subscribe(s, r)
      PROVE  RouterInv'
  BY <1>3, SubscribeStep
<1>4. ASSUME NEW s \in Subscribers, Receive(s) \/ Leave(s) \/ StreamEnds(s)
      PROVE  RouterInv'
  BY <1>4, ReaderStep
<1>5. ASSUME NEW s \in Subscribers, NEW r \in Subscriptions, ServeSubscribe(s, r)
      PROVE  RouterInv'
  BY <1>5, ServeSubscribeStep
<1>6. ASSUME NEW m \in Message, Dispatch(m)
      PROVE  RouterInv'
  BY <1>6, DispatchStep
<1>7. CASE ActorStops
  BY <1>7, ActorStopsStep
<1>8. CASE UNCHANGED vars
  BY <1>8 DEF vars, RouterInv, Types, RoomInv, AskInv, Consumers, Apart, OnePerQueue,
              OpenStreamsStaySubscribed
<1> QED
  BY <1>1, <1>2, <1>3, <1>4, <1>5, <1>6, <1>7, <1>8 DEF Next, CallerNext, ActorNext

\* The actor's table, its senders and its mailbox stay as the invariant says.
THEOREM RouterInvariance == Spec => []RouterInv
<1>1. Init => RouterInv
  BY InitRouter
<1>2. RouterInv /\ [Next]_vars => RouterInv'
  BY RouterStep
<1> QED
  BY <1>1, <1>2, PTL DEF Spec

\* Table and senders never drift apart, whatever is bound, refused, dropped or
\* found closed, and in whatever order (internal_router.rs:95-181).
THEOREM TableKeepsSenders == Spec => []TableMatchesSenders
<1>1. RouterInv => TableMatchesSenders
  BY DEF RouterInv, TableMatchesSenders, Apart
<1> QED
  BY <1>1, RouterInvariance, PTL

\* No sequence of subscriptions gives a queue group a second binding.
THEOREM QueuesHaveOneBinding == Spec => []OneBindingPerQueue
<1>1. RouterInv => OneBindingPerQueue
  BY DEF RouterInv, OneBindingPerQueue, OnePerQueue
<1> QED
  BY <1>1, RouterInvariance, PTL

\* Only a stream that was dropped loses its place in the table.
THEOREM OpenStreamsKeepTheirPlace == Spec => []OpenStreamsStaySubscribed
<1>1. RouterInv => OpenStreamsStaySubscribed
  BY DEF RouterInv
<1> QED
  BY <1>1, RouterInvariance, PTL

\* Only a dispatch answers a dispatch, and only its own.
LEMMA AnsweredByDispatch ==
  ASSUME RouterInv, [Next]_vars, NEW result, result # "none", Answered(result)
  PROVE  \E m \in Message :
           Dispatch(m) /\ (result = "ok" <=> FirstFull(Targets(m)) = 0)
<1>1. PICK p \in Publishers : \E n \in 1..MaxMessages :
        outcome[p][n] = "none" /\ outcome'[p][n] = result
  BY DEF Answered
<1>2. PICK n \in 1..MaxMessages : outcome[p][n] = "none" /\ outcome'[p][n] = result
  BY <1>1
<1>3. outcome' # outcome
  BY <1>2
<1>4. PICK m \in Message : Dispatch(m)
  BY <1>3 DEF Next, CallerNext, ActorNext, Publish, GiveUp, Close, Subscribe, Receive, Leave,
              StreamEnds, ServeSubscribe, ActorStops, vars
<1>5. outcome' = [outcome EXCEPT ![m.by][m.n] =
                    IF FirstFull(Targets(m)) = 0 THEN "ok" ELSE "backpressure"]
  BY <1>4 DEF Dispatch, Targets
<1>6. result = IF FirstFull(Targets(m)) = 0 THEN "ok" ELSE "backpressure"
  <2>1. outcome \in [Publishers -> [1..MaxMessages -> {"none", "ok", "backpressure"}]]
    BY DEF RouterInv, Types
  <2>2. m.by \in Publishers /\ m.n \in 1..MaxMessages
    BY DEF Message
  <2> QED
    BY <1>2, <1>5, <2>1, <2>2
<1> QED
  BY <1>4, <1>6

LEMMA AllOrNothingStep ==
  ASSUME RouterInv, [Next]_vars
  PROVE  /\ Answered("backpressure") => stream' = stream
         /\ Answered("ok") =>
              LET m == Head(commands).msg
              IN \A s \in Subscribers :
                   reader[s] = "open" /\ MatchingFanout(s, m.subject)
                   => stream'[s] = Append(stream[s], m)
<1>1. stream \in [Subscribers -> Seq(Message)]
  BY DEF RouterInv, Types
<1>2. ASSUME Answered("backpressure") PROVE stream' = stream
  <2>1. PICK m \in Message : Dispatch(m) /\ ~(FirstFull(Targets(m)) = 0)
    BY <1>2, AnsweredByDispatch
  <2>2. stream' = [s \in Subscribers |-> IF s \in Reached(Targets(m))
                                         THEN Append(stream[s], m) ELSE stream[s]]
    BY <2>1 DEF Dispatch, Targets
  <2>3. Reached(Targets(m)) = {}
    BY <2>1 DEF Reached
  <2> QED
    BY <1>1, <2>2, <2>3
<1>3. ASSUME Answered("ok"), NEW s \in Subscribers,
             reader[s] = "open", MatchingFanout(s, Head(commands).msg.subject)
      PROVE  stream'[s] = Append(stream[s], Head(commands).msg)
  <2>1. PICK m \in Message : Dispatch(m) /\ FirstFull(Targets(m)) = 0
    BY <1>3, AnsweredByDispatch
  <2>2. actor = "running" /\ Head(commands) = DispatchCommand(m)
    BY <2>1 DEF Dispatch, Received
  <2>3. Head(commands).msg = m
    BY <2>2 DEF DispatchCommand
  <2>4. s \in senders
    BY <1>3, <2>2 DEF RouterInv, OpenStreamsStaySubscribed
  <2>5. s \in ToSet(Targets(m))
    BY <1>3, <2>3, <2>4, TargetFacts
  <2>6. s \notin Dead(Targets(m))
    BY <1>3, <2>1, TargetFacts, Reservation DEF Closed
  <2>7. s \in Reached(Targets(m))
    BY <2>1, <2>5, <2>6 DEF Reached
  <2>8. stream' = [x \in Subscribers |-> IF x \in Reached(Targets(m))
                                         THEN Append(stream[x], m) ELSE stream[x]]
    BY <2>1 DEF Dispatch, Targets
  <2> QED
    BY <2>3, <2>7, <2>8
<1> QED
  BY <1>2, <1>3

\* However full, closed or new its targets are, a dispatch that is refused
\* reaches no stream, and one that is accepted reaches every open fanout
\* subscriber it matches (internal_router.rs:131-181).
THEOREM DispatchIsAllOrNothing == Spec => AllOrNothing
<1>1. RouterInv /\ [Next]_vars =>
        [/\ Answered("backpressure") => stream' = stream
         /\ Answered("ok") =>
              LET m == Head(commands).msg
              IN \A s \in Subscribers :
                   reader[s] = "open" /\ MatchingFanout(s, m.subject)
                   => stream'[s] = Append(stream[s], m)]_vars
  BY AllOrNothingStep
<1> QED
  BY <1>1, RouterInvariance, PTL DEF Spec, AllOrNothing

-----------------------------------------------------------------------------
(* Groups *)

\* Of the consumers of a queue that matches, a dispatch asks the one whose turn it is.
LEMMA OneAsked ==
  ASSUME RouterInv, NEW m, NEW i \in DOMAIN bindings,
         bindings[i].queue # NoQueue, bindings[i].consumers # <<>>,
         WildcardMatch(bindings[i].pattern, m.subject)
  PROVE  /\ Turn(bindings[i]) \in ToSet(bindings[i].consumers)
         /\ \A s \in ToSet(bindings[i].consumers) :
              s \in Subscribers /\ (s \in ToSet(Targets(m)) <=> s = Turn(bindings[i]))
<1> DEFINE b == bindings[i]
           route == Route(bindings, m.subject)
<1>1. bindings \in Seq(Bindings) /\ senders \subseteq Subscribers
  BY DEF RouterInv, Types
<1>2. /\ route \in Seq(Subscribers)
      /\ \A k \in DOMAIN bindings : IsPicked(bindings[k], m.subject)
                                    => ToSet(Picked(bindings[k])) \subseteq ToSet(route)
      /\ \A s \in ToSet(route) : \E k \in DOMAIN bindings : s \in ToSet(Picked(bindings[k]))
  BY <1>1, RouteTargets
<1>3. b \in Bindings /\ \A k \in DOMAIN bindings : bindings[k] \in Bindings
  BY <1>1, TableEntry
<1>4. Turn(b) \in ToSet(b.consumers) /\ Picked(b) = <<Turn(b)>>
  BY <1>3, PickedOf
<1>5. ToSet(Picked(b)) = {Turn(b)}
  <2>1. DOMAIN <<Turn(b)>> = {1} /\ <<Turn(b)>>[1] = Turn(b)
    OBVIOUS
  <2> QED
    BY <1>4, <2>1 DEF ToSet
<1>6. ToSet(b.consumers) \subseteq senders
  BY DEF RouterInv, Consumers
<1>7. ToSet(Targets(m)) = ToSet(route) \ (Subscribers \ senders)
  BY <1>2, WithoutKeeps DEF Targets
<1>8. ASSUME NEW s \in ToSet(b.consumers), s \in ToSet(route) PROVE s = Turn(b)
  <2>1. PICK k \in DOMAIN bindings : s \in ToSet(Picked(bindings[k]))
    BY <1>2, <1>8
  <2>2. s \in ToSet(bindings[k].consumers)
    BY <1>3, <2>1, PickedOf
  <2>3. PICK x \in DOMAIN bindings[k].consumers : bindings[k].consumers[x] = s
    BY <2>2 DEF ToSet
  <2>4. PICK y \in DOMAIN b.consumers : b.consumers[y] = s
    BY <1>8 DEF ToSet
  <2>5. k = i
    BY <2>3, <2>4 DEF RouterInv, Apart
  <2> QED
    BY <1>5, <2>1, <2>5
<1>9. Turn(b) \in ToSet(route)
  BY <1>2, <1>5 DEF IsPicked
<1> HIDE DEF b, route
<1>10. \A s \in ToSet(b.consumers) : s \in Subscribers /\ (s \in ToSet(Targets(m)) <=> s = Turn(b))
  BY <1>1, <1>6, <1>7, <1>8, <1>9
<1> QED
  BY <1>4, <1>10 DEF b

\* An accepted message reaches, of every group it matches, the consumer whose
\* turn it is and no other; if that one has dropped its stream, nobody.
GroupsTakeTurns ==
  [][Answered("ok") =>
       LET m == Head(commands).msg
       IN \A i \in DOMAIN bindings :
            /\ bindings[i].queue # NoQueue
            /\ bindings[i].consumers # <<>>
            /\ WildcardMatch(bindings[i].pattern, m.subject)
            => {s \in ToSet(bindings[i].consumers) : stream'[s] = Append(stream[s], m)}
                 = {s \in {Turn(bindings[i])} : reader[s] # "gone"}]_vars

LEMMA TurnStep ==
  ASSUME RouterInv, [Next]_vars, Answered("ok"), NEW i \in DOMAIN bindings,
         bindings[i].queue # NoQueue, bindings[i].consumers # <<>>,
         WildcardMatch(bindings[i].pattern, Head(commands).msg.subject)
  PROVE  {s \in ToSet(bindings[i].consumers) : stream'[s] = Append(stream[s], Head(commands).msg)}
           = {s \in {Turn(bindings[i])} : reader[s] # "gone"}
<1>1. PICK m \in Message : Dispatch(m) /\ FirstFull(Targets(m)) = 0
  BY AnsweredByDispatch
<1>2. Head(commands).msg = m
  <2>1. Head(commands) = DispatchCommand(m)
    BY <1>1 DEF Dispatch, Received
  <2> QED
    BY <2>1 DEF DispatchCommand
<1> DEFINE members == ToSet(bindings[i].consumers)
           turn == Turn(bindings[i])
<1>3. /\ turn \in members
      /\ \A s \in members : s \in Subscribers /\ (s \in ToSet(Targets(m)) <=> s = turn)
  BY <1>2, OneAsked
<1>4. stream \in [Subscribers -> Seq(Message)]
  BY DEF RouterInv, Types
<1>5. \A s \in Subscribers :
        stream'[s] = IF s \in Reached(Targets(m)) THEN Append(stream[s], m) ELSE stream[s]
  BY <1>1 DEF Dispatch, Targets
<1>6. \A s \in Subscribers : Append(stream[s], m) # stream[s]
  <2> TAKE s \in Subscribers
  <2>1. PICK q \in Seq(Message) : q = stream[s]
    BY <1>4
  <2>2. Len(Append(q, m)) = Len(q) + 1 /\ Len(q) \in Nat
    BY <1>1, AppendProperties, LenProperties
  <2>3. Len(q) + 1 # Len(q)
    BY <2>2
  <2> QED
    BY <2>1, <2>2, <2>3
<1>7. \A s \in members : s \in Reached(Targets(m)) <=> s = turn /\ reader[s] # "gone"
  <2>1. \A s \in ToSet(Targets(m)) : s \in Dead(Targets(m)) <=> reader[s] = "gone"
    BY <1>1 DEF Dead, Examined, Closed
  <2>2. Reached(Targets(m)) = ToSet(Targets(m)) \ Dead(Targets(m))
    BY <1>1 DEF Reached
  <2> QED
    BY <1>3, <2>1, <2>2
<1> HIDE DEF members, turn
<1>8. \A s \in members : stream'[s] = Append(stream[s], m) <=> s = turn /\ reader[s] # "gone"
  BY <1>3, <1>5, <1>6, <1>7
<1>9. {s \in members : stream'[s] = Append(stream[s], m)} = {s \in {turn} : reader[s] # "gone"}
  BY <1>3, <1>8
<1> QED
  BY <1>2, <1>9 DEF members, turn

\* What the run local_group refutes fails in one case only: the consumer that
\* route has picked is gone.  No second consumer of a group ever gets the
\* message (routing.rs:115-136, internal_router.rs:131-181).
THEOREM GroupsAreServedInTurn == Spec => GroupsTakeTurns
<1>1. RouterInv /\ [Next]_vars =>
        [Answered("ok") =>
           LET m == Head(commands).msg
           IN \A i \in DOMAIN bindings :
                /\ bindings[i].queue # NoQueue
                /\ bindings[i].consumers # <<>>
                /\ WildcardMatch(bindings[i].pattern, m.subject)
                => {s \in ToSet(bindings[i].consumers) : stream'[s] = Append(stream[s], m)}
                     = {s \in {Turn(bindings[i])} : reader[s] # "gone"}]_vars
  BY TurnStep
<1> QED
  BY <1>1, RouterInvariance, PTL DEF Spec, GroupsTakeTurns
=============================================================================
