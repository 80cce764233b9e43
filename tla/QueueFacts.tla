----------------------------- MODULE QueueFacts -----------------------------
(***************************************************************************)
(* Lemmas about channels and mailboxes: what is in a sequence that is      *)
(* appended to at its end and taken from at its head.  Then induction and  *)
(* recursion over sequences, and what filtering and flattening keep.       *)
(***************************************************************************)
EXTENDS Naturals, SequencesExt, SequenceTheorems, WellFoundedInduction, TLAPS

LEMMA EmptyQueue ==
  ASSUME NEW S
  PROVE  /\ <<>> \in Seq(S) /\ ToSet(<<>>) = {} /\ IsInjective(<<>>)
         /\ Len(<<>>) = 0
BY DEF ToSet, IsInjective

LEMMA Appended ==
  ASSUME NEW S, NEW s \in Seq(S), NEW x \in S
  PROVE  /\ Append(s, x) \in Seq(S)
         /\ Len(Append(s, x)) = Len(s) + 1
         /\ ToSet(Append(s, x)) = ToSet(s) \union {x}
<1>1. /\ Append(s, x) \in Seq(S)
      /\ Len(Append(s, x)) = Len(s) + 1
      /\ \A i \in 1..Len(s) : Append(s, x)[i] = s[i]
      /\ Append(s, x)[Len(s) + 1] = x
  BY AppendProperties
<1>2. DOMAIN Append(s, x) = 1..(Len(s) + 1) /\ DOMAIN s = 1..Len(s) /\ Len(s) \in Nat
  BY <1>1, LenProperties
<1>3. ToSet(Append(s, x)) = ToSet(s) \union {x}
  BY <1>1, <1>2 DEF ToSet
<1> QED
  BY <1>1, <1>3

\* What is not in a queue yet enters it once.
LEMMA AppendedNew ==
  ASSUME NEW S, NEW s \in Seq(S), NEW x \in S,
         IsInjective(s), x \notin ToSet(s)
  PROVE  IsInjective(Append(s, x))
<1>1. /\ Append(s, x) \in Seq(S)
      /\ Len(Append(s, x)) = Len(s) + 1
      /\ \A i \in 1..Len(s) : Append(s, x)[i] = s[i]
      /\ Append(s, x)[Len(s) + 1] = x
  BY AppendProperties
<1>2. DOMAIN Append(s, x) = 1..(Len(s) + 1) /\ DOMAIN s = 1..Len(s) /\ Len(s) \in Nat
  BY <1>1, LenProperties
<1> QED
  BY <1>1, <1>2 DEF IsInjective, ToSet

LEMMA Taken ==
  ASSUME NEW S, NEW s \in Seq(S), s # <<>>
  PROVE  /\ Head(s) \in S /\ Tail(s) \in Seq(S)
         /\ Len(Tail(s)) = Len(s) - 1
         /\ ToSet(s) = ToSet(Tail(s)) \union {Head(s)}
<1>1. /\ Head(s) \in S /\ Tail(s) \in Seq(S)
      /\ Len(Tail(s)) = Len(s) - 1
      /\ \A i \in 1..Len(Tail(s)) : Tail(s)[i] = s[i + 1]
  BY HeadTailProperties
<1>2. /\ DOMAIN s = 1..Len(s) /\ Len(s) \in Nat /\ Len(s) # 0
      /\ DOMAIN Tail(s) = 1..(Len(s) - 1)
      /\ Head(s) = s[1]
  BY <1>1, LenProperties, EmptySeq
<1>3. ToSet(s) \subseteq ToSet(Tail(s)) \union {Head(s)}
  <2>1. ASSUME NEW i \in DOMAIN s, i # 1
        PROVE  s[i] \in ToSet(Tail(s))
    <3>1. i - 1 \in DOMAIN Tail(s) /\ Tail(s)[i - 1] = s[i]
      BY <1>1, <1>2, <2>1
    <3> QED
      BY <3>1 DEF ToSet
  <2> QED
    BY <1>2, <2>1 DEF ToSet
<1>4. ToSet(Tail(s)) \union {Head(s)} \subseteq ToSet(s)
  BY <1>1, <1>2 DEF ToSet
<1> QED
  BY <1>1, <1>3, <1>4

\* What is in a queue once is out of it when it has been taken.
LEMMA TakenOnce ==
  ASSUME NEW S, NEW s \in Seq(S), s # <<>>, IsInjective(s)
  PROVE  /\ IsInjective(Tail(s))
         /\ ToSet(Tail(s)) = ToSet(s) \ {Head(s)}
<1>1. /\ Head(s) \in S /\ Tail(s) \in Seq(S)
      /\ Len(Tail(s)) = Len(s) - 1
      /\ \A i \in 1..Len(Tail(s)) : Tail(s)[i] = s[i + 1]
  BY HeadTailProperties
<1>2. /\ DOMAIN s = 1..Len(s) /\ Len(s) \in Nat /\ Len(s) # 0
      /\ DOMAIN Tail(s) = 1..(Len(s) - 1)
      /\ Head(s) = s[1]
  BY <1>1, LenProperties, EmptySeq
<1>3. IsInjective(Tail(s))
  BY <1>1, <1>2 DEF IsInjective
<1>4. Head(s) \notin ToSet(Tail(s))
  BY <1>1, <1>2 DEF IsInjective, ToSet
<1> QED
  BY <1>3, <1>4, Taken

\* Wherever y is in s, x is somewhere before it.
Before(s, x, y) == \A i \in DOMAIN s : s[i] = y => \E h \in 1..(i - 1) : s[h] = x

LEMMA BeforeAppended ==
  ASSUME NEW S, NEW s \in Seq(S), NEW x \in S, NEW y \in S, NEW z \in S,
         \/ Before(s, x, y) /\ (z # y \/ x \in ToSet(s))
         \/ y \notin ToSet(s) /\ x \in ToSet(s)
  PROVE  Before(Append(s, z), x, y)
<1>1. /\ Append(s, z) \in Seq(S)
      /\ Len(Append(s, z)) = Len(s) + 1
      /\ \A i \in 1..Len(s) : Append(s, z)[i] = s[i]
      /\ Append(s, z)[Len(s) + 1] = z
  BY AppendProperties
<1>2. DOMAIN Append(s, z) = 1..(Len(s) + 1) /\ DOMAIN s = 1..Len(s) /\ Len(s) \in Nat
  BY <1>1, LenProperties
<1> SUFFICES ASSUME NEW i \in 1..(Len(s) + 1), Append(s, z)[i] = y
             PROVE  \E h \in 1..(i - 1) : Append(s, z)[h] = x
  BY <1>2 DEF Before
<1>3. CASE i \in 1..Len(s)
  <2>1. s[i] = y /\ y \in ToSet(s)
    BY <1>1, <1>2, <1>3 DEF ToSet
  <2>2. PICK h \in 1..(i - 1) : s[h] = x
    BY <1>2, <1>3, <2>1 DEF Before
  <2> QED
    BY <1>1, <1>2, <1>3, <2>2
<1>4. CASE i = Len(s) + 1
  <2>1. x \in ToSet(s)
    BY <1>1, <1>4
  <2>2. PICK h \in 1..Len(s) : s[h] = x
    BY <1>2, <2>1 DEF ToSet
  <2> QED
    BY <1>1, <1>2, <1>4, <2>2
<1> QED
  BY <1>2, <1>3, <1>4

LEMMA BeforeTaken ==
  ASSUME NEW S, NEW s \in Seq(S), s # <<>>, NEW x, NEW y, Before(s, x, y)
  PROVE  /\ Head(s) # y
         /\ Head(s) # x => Before(Tail(s), x, y)
<1>1. /\ Tail(s) \in Seq(S)
      /\ Len(Tail(s)) = Len(s) - 1
      /\ \A i \in 1..Len(Tail(s)) : Tail(s)[i] = s[i + 1]
  BY HeadTailProperties
<1>2. /\ DOMAIN s = 1..Len(s) /\ Len(s) \in Nat /\ Len(s) # 0
      /\ DOMAIN Tail(s) = 1..(Len(s) - 1)
      /\ Head(s) = s[1]
  BY <1>1, LenProperties, EmptySeq
<1>3. Head(s) # y
  BY <1>2 DEF Before
<1>4. ASSUME Head(s) # x, NEW i \in DOMAIN Tail(s), Tail(s)[i] = y
      PROVE  \E h \in 1..(i - 1) : Tail(s)[h] = x
  <2>1. PICK h \in 1..i : s[h] = x
    BY <1>1, <1>2, <1>4 DEF Before
  <2>2. h - 1 \in 1..(i - 1) /\ Tail(s)[h - 1] = x
    BY <1>1, <1>2, <1>4, <2>1
  <2> QED
    BY <2>2
<1> QED
  BY <1>3, <1>4 DEF Before

\* Somewhere in s, x comes before y.
Precedes(s, x, y) == \E i, h \in DOMAIN s : i < h /\ s[i] = x /\ s[h] = y

LEMMA PrecedesIn ==
  ASSUME NEW s, NEW x, NEW y, Precedes(s, x, y)
  PROVE  x \in ToSet(s) /\ y \in ToSet(s)
BY DEF Precedes, ToSet

LEMMA NothingPrecedes == ASSUME NEW x, NEW y PROVE ~Precedes(<<>>, x, y)
<1>1. DOMAIN <<>> = {}
  OBVIOUS
<1> QED
  BY <1>1 DEF Precedes

\* What is appended comes after all the rest.
LEMMA PrecedesAppended ==
  ASSUME NEW S, NEW s \in Seq(S), NEW z \in S, NEW x, NEW y, Precedes(Append(s, z), x, y)
  PROVE  Precedes(s, x, y) \/ (y = z /\ x \in ToSet(s))
<1>1. /\ Append(s, z) \in Seq(S)
      /\ Len(Append(s, z)) = Len(s) + 1
      /\ \A i \in 1..Len(s) : Append(s, z)[i] = s[i]
      /\ Append(s, z)[Len(s) + 1] = z
  BY AppendProperties
<1>2. DOMAIN Append(s, z) = 1..(Len(s) + 1) /\ DOMAIN s = 1..Len(s) /\ Len(s) \in Nat
  BY <1>1, LenProperties
<1>3. PICK i \in 1..(Len(s) + 1) : \E h \in 1..(Len(s) + 1) :
        i < h /\ Append(s, z)[i] = x /\ Append(s, z)[h] = y
  BY <1>2 DEF Precedes
<1>4. PICK h \in 1..(Len(s) + 1) : i < h /\ Append(s, z)[i] = x /\ Append(s, z)[h] = y
  BY <1>3
<1>5. i \in DOMAIN s /\ s[i] = x
  BY <1>1, <1>2, <1>4
<1>6. CASE h \in DOMAIN s
  <2>1. s[h] = y
    BY <1>1, <1>2, <1>4, <1>6
  <2> QED
    BY <1>4, <1>5, <1>6, <2>1 DEF Precedes
<1>7. CASE h = Len(s) + 1
  BY <1>1, <1>4, <1>5, <1>7 DEF ToSet
<1> QED
  BY <1>2, <1>6, <1>7

\* What is taken came before all the rest.
LEMMA PrecedesTaken ==
  ASSUME NEW S, NEW s \in Seq(S), s # <<>>, NEW x, NEW y
  PROVE  /\ Precedes(Tail(s), x, y) => Precedes(s, x, y)
         /\ y \in ToSet(Tail(s)) => Precedes(s, Head(s), y)
<1>1. /\ Tail(s) \in Seq(S)
      /\ Len(Tail(s)) = Len(s) - 1
      /\ \A i \in 1..Len(Tail(s)) : Tail(s)[i] = s[i + 1]
  BY HeadTailProperties
<1>2. /\ DOMAIN s = 1..Len(s) /\ Len(s) \in Nat /\ Len(s) # 0
      /\ DOMAIN Tail(s) = 1..(Len(s) - 1)
      /\ Head(s) = s[1]
  BY <1>1, LenProperties, EmptySeq
<1>3. ASSUME Precedes(Tail(s), x, y) PROVE Precedes(s, x, y)
  <2>1. PICK i \in DOMAIN Tail(s) : \E h \in DOMAIN Tail(s) :
          i < h /\ Tail(s)[i] = x /\ Tail(s)[h] = y
    BY <1>3 DEF Precedes
  <2>2. PICK h \in DOMAIN Tail(s) : i < h /\ Tail(s)[i] = x /\ Tail(s)[h] = y
    BY <2>1
  <2>3. /\ i + 1 \in DOMAIN s /\ h + 1 \in DOMAIN s /\ i + 1 < h + 1
        /\ s[i + 1] = x /\ s[h + 1] = y
    BY <1>1, <1>2, <2>2
  <2> QED
    BY <2>3 DEF Precedes
<1>4. ASSUME y \in ToSet(Tail(s)) PROVE Precedes(s, Head(s), y)
  <2>1. PICK h \in DOMAIN Tail(s) : Tail(s)[h] = y
    BY <1>4 DEF ToSet
  <2>2. 1 \in DOMAIN s /\ h + 1 \in DOMAIN s /\ 1 < h + 1 /\ s[1] = Head(s) /\ s[h + 1] = y
    BY <1>1, <1>2, <2>1
  <2> QED
    BY <2>2 DEF Precedes
<1> QED
  BY <1>3, <1>4

-----------------------------------------------------------------------------
(* Induction and recursion.  The library's induction theorems quantify over  *)
(* a predicate, which no back end can instantiate; stated for a set, the     *)
(* principle follows from the theorem about minimal elements.                *)

NatLess == {p \in Nat \X Nat : p[1] < p[2]}

LEMMA NatLessWellFounded == IsWellFoundedOn(NatLess, Nat)
BY NatLessThanWellFounded DEF NatLess, OpToRel

LEMMA Induction ==
  ASSUME NEW N \in Nat, NEW S,
         0 \in S, \A n \in Nat : n < N /\ n \in S => n + 1 \in S
  PROVE  0..N \subseteq S
<1> SUFFICES ASSUME NEW T, T = (0..N) \ S, T # {} PROVE FALSE
  OBVIOUS
<1>1. T \subseteq Nat
  OBVIOUS
<1>2. PICK x \in T : \A y \in T : ~(<<y, x>> \in NatLess)
  BY <1>1, NatLessWellFounded, WFMin
<1>3. x \in Nat /\ x # 0 /\ x <= N /\ x \notin S
  BY <1>1
<1>4. x - 1 \in Nat /\ x - 1 < x /\ x - 1 < N /\ (x - 1) + 1 = x
  BY <1>3
<1>5. x - 1 \in T
  BY <1>3, <1>4
<1>6. <<x - 1, x>> \in NatLess
  BY <1>3, <1>4 DEF NatLess
<1> QED
  BY <1>2, <1>5, <1>6

\* Some function on 0..N starts at v and then takes every step.
Runs(N, V, v, step) ==
  \E f \in [0..N -> V] : f[0] = v /\ \A i \in 1..N : f[i] = step[i][f[i - 1]]

\* What starts in V and goes on in V for N steps exists.
LEMMA Recursion ==
  ASSUME NEW N \in Nat, NEW V, NEW v \in V, NEW step \in [1..N -> [V -> V]]
  PROVE  Runs(N, V, v, step)
<1> DEFINE Good(n, f) == f[0] = v /\ \A i \in 1..n : f[i] = step[i][f[i - 1]]
           S == {n \in 0..N : \E f \in [0..n -> V] : Good(n, f)}
<1>1. 0 \in S
  <2> DEFINE f == [i \in 0..0 |-> v]
  <2>1. f \in [0..0 -> V] /\ Good(0, f)
    OBVIOUS
  <2> HIDE DEF Good, f
  <2> QED
    BY <2>1
<1>2. ASSUME NEW n \in Nat, n < N, n \in S PROVE n + 1 \in S
  <2>1. PICK f \in [0..n -> V] : Good(n, f)
    BY <1>2
  <2> DEFINE g == [i \in 0..(n + 1) |-> IF i = n + 1 THEN step[n + 1][f[n]] ELSE f[i]]
  <2>2. f[n] \in V /\ n + 1 \in 1..N /\ step[n + 1] \in [V -> V]
    BY <1>2
  <2>3. g \in [0..(n + 1) -> V]
    BY <2>2
  <2>4. /\ \A i \in 0..n : g[i] = f[i]
        /\ g[n + 1] = step[n + 1][f[n]]
    OBVIOUS
  <2>5. Good(n + 1, g)
    <3>1. g[0] = v
      BY <2>1, <2>4
    <3>2. ASSUME NEW i \in 1..(n + 1) PROVE g[i] = step[i][g[i - 1]]
      <4>1. CASE i = n + 1
        BY <2>4, <4>1
      <4>2. CASE i # n + 1
        <5>1. i \in 1..n /\ i \in 0..n /\ i - 1 \in 0..n
          BY <4>2
        <5>2. f[i] = step[i][f[i - 1]]
          BY <2>1, <5>1
        <5> QED
          BY <2>4, <5>1, <5>2
      <4> QED
        BY <4>1, <4>2
    <3> QED
      BY <3>1, <3>2
  <2> HIDE DEF Good, g
  <2> QED
    BY <1>2, <2>3, <2>5
<1>3. N \in S
  <2> HIDE DEF S
  <2>1. 0..N \subseteq S
    BY <1>1, <1>2, Induction
  <2> QED
    BY <2>1
<1> QED
  BY <1>3 DEF Runs

LEMMA MinIn ==
  ASSUME NEW S, S \subseteq Nat, S # {}
  PROVE  Min(S) \in S
<1>1. PICK x \in S : \A y \in S : ~(<<y, x>> \in NatLess)
  BY NatLessWellFounded, WFMin
<1>2. ASSUME NEW y \in S PROVE x <= y
  <2>1. x \in Nat /\ y \in Nat /\ ~(<<y, x>> \in NatLess)
    BY <1>1
  <2>2. y < x => <<y, x>> \in NatLess
    BY <2>1 DEF NatLess
  <2> QED
    BY <2>1, <2>2
<1> QED
  BY <1>2 DEF Min

-----------------------------------------------------------------------------
(* Sequences with elements left out, and flattened ones *)

\* t is s with elements left out.
Keeps(t, s) ==
  \E e \in [1..Len(t) -> 1..Len(s)] :
    /\ \A a \in 1..Len(t) : t[a] = s[e[a]]
    /\ \A a, b \in 1..Len(t) : a < b => e[a] < e[b]

\* Every place of t is a place of s of its own.
Embeds(t, s) ==
  \E e \in [1..Len(t) -> 1..Len(s)] :
    /\ \A a \in 1..Len(t) : t[a] = s[e[a]]
    /\ \A a, b \in 1..Len(t) : e[a] = e[b] => a = b

LEMMA KeepsApart ==
  ASSUME NEW P, NEW t \in Seq(P), NEW s \in Seq(P), Keeps(t, s)
  PROVE  Embeds(t, s)
<1>1. PICK e \in [1..Len(t) -> 1..Len(s)] :
        /\ \A a \in 1..Len(t) : t[a] = s[e[a]]
        /\ \A a, b \in 1..Len(t) : a < b => e[a] < e[b]
  BY DEF Keeps
<1>2. Len(t) \in Nat /\ Len(s) \in Nat
  BY LenProperties
<1>3. ASSUME NEW a \in 1..Len(t), NEW b \in 1..Len(t), e[a] = e[b]
      PROVE  a = b
  <2>1. e[a] \in 1..Len(s) /\ e[b] \in 1..Len(s)
    BY <1>1
  <2>2. a < b => e[a] < e[b]
    BY <1>1
  <2>3. b < a => e[b] < e[a]
    BY <1>1
  <2> QED
    BY <1>2, <1>3, <2>1, <2>2, <2>3
<1> QED
  BY <1>1, <1>3 DEF Embeds

LEMMA Concatenated ==
  ASSUME NEW Q, NEW s \in Seq(Q), NEW t \in Seq(Q)
  PROVE  s \o t \in Seq(Q) /\ ToSet(s \o t) = ToSet(s) \union ToSet(t)
<1>1. /\ s \o t \in Seq(Q)
      /\ Len(s \o t) = Len(s) + Len(t)
      /\ \A i \in 1..(Len(s) + Len(t)) : (s \o t)[i] = IF i <= Len(s) THEN s[i] ELSE t[i - Len(s)]
  BY ConcatProperties
<1>2. /\ Len(s) \in Nat /\ Len(t) \in Nat
      /\ DOMAIN s = 1..Len(s) /\ DOMAIN t = 1..Len(t) /\ DOMAIN (s \o t) = 1..(Len(s) + Len(t))
  BY <1>1, LenProperties
<1>3. ToSet(s \o t) \subseteq ToSet(s) \union ToSet(t)
  <2> SUFFICES ASSUME NEW i \in 1..(Len(s) + Len(t))
               PROVE  (s \o t)[i] \in ToSet(s) \union ToSet(t)
    BY <1>2 DEF ToSet
  <2>1. CASE i <= Len(s)
    <3>1. i \in 1..Len(s) /\ (s \o t)[i] = s[i]
      BY <1>1, <1>2, <2>1
    <3> QED
      BY <1>2, <3>1 DEF ToSet
  <2>2. CASE ~(i <= Len(s))
    <3>1. i - Len(s) \in 1..Len(t) /\ (s \o t)[i] = t[i - Len(s)]
      BY <1>1, <1>2, <2>2
    <3> QED
      BY <1>2, <3>1 DEF ToSet
  <2> QED
    BY <2>1, <2>2
<1>4. ASSUME NEW i \in 1..Len(s) PROVE s[i] \in ToSet(s \o t)
  <2>1. i \in 1..(Len(s) + Len(t)) /\ (s \o t)[i] = s[i]
    BY <1>1, <1>2, <1>4
  <2> QED
    BY <1>2, <2>1 DEF ToSet
<1>5. ASSUME NEW i \in 1..Len(t) PROVE t[i] \in ToSet(s \o t)
  <2>1. i + Len(s) \in 1..(Len(s) + Len(t)) /\ ~(i + Len(s) <= Len(s)) /\ (i + Len(s)) - Len(s) = i
    BY <1>2, <1>5
  <2>2. (s \o t)[i + Len(s)] = t[i]
    BY <1>1, <2>1
  <2> QED
    BY <1>2, <2>1, <2>2 DEF ToSet
<1> QED
  BY <1>1, <1>2, <1>3, <1>4, <1>5 DEF ToSet

\* Flattening ss goes on with ss[i] in its i-th step.
Flattens(ss, V, f) ==
  /\ f \in [0..Len(ss) -> V]
  /\ f[0] = <<>>
  /\ \A i \in 1..Len(ss) : f[i] = f[i - 1] \o ss[i]
  /\ FlattenSeq(ss) = f[Len(ss)]

LEMMA FlattenSteps ==
  ASSUME NEW Q, NEW ss \in Seq(Seq(Q))
  PROVE  \E f : Flattens(ss, Seq(Q), f)
<1> DEFINE N == Len(ss)
           V == Seq(Q)
           v == <<>>
           step == [i \in 1..N |-> [t \in V |-> t \o ss[i]]]
           Solves(g) == g = [i \in 1..N |-> IF i = 1 THEN ss[i] ELSE g[i - 1] \o ss[i]]
           flatten == CHOOSE g : Solves(g)
<1>1. N \in Nat /\ \A i \in 1..N : ss[i] \in Seq(Q)
  BY LenProperties, ElementOfSeq
<1>2. N \in Nat /\ v \in V /\ step \in [1..N -> [V -> V]]
  <2>1. \A i \in 1..N, t \in V : t \o ss[i] \in V
    BY <1>1, Concatenated
  <2>2. v \in V
    BY EmptyQueue
  <2> HIDE DEF V, N
  <2> QED
    BY <1>1, <2>1, <2>2
<1>3. \A i \in 1..N, t \in V : step[i][t] = t \o ss[i]
  OBVIOUS
<1>4. Runs(N, V, v, step)
  <2> HIDE DEF N, V, v, step
  <2> QED
    BY <1>2, Recursion
<1> HIDE DEF step
<1>5. PICK f \in [0..N -> V] : f[0] = v /\ \A i \in 1..N : f[i] = step[i][f[i - 1]]
  BY <1>4 DEF Runs
<1>6. \A i \in 1..N : f[i] = f[i - 1] \o ss[i]
  <2> TAKE i \in 1..N
  <2>1. i - 1 \in 0..N
    BY <1>1
  <2>2. f[i - 1] \in V
    BY <1>5, <2>1
  <2> QED
    BY <1>3, <1>5, <2>2
<1>7. FlattenSeq(ss) = f[N]
  <2>1. CASE N = 0
    <3>1. ss = <<>>
      BY <2>1, EmptySeq
    <3>2. FlattenSeq(ss) = ss
      BY <2>1 DEF FlattenSeq
    <3> QED
      BY <1>5, <2>1, <3>1, <3>2
  <2>2. CASE N # 0
    <3>1. FlattenSeq(ss) = flatten[N]
      BY <2>2 DEF FlattenSeq
    <3> DEFINE h == [i \in 1..N |-> f[i]]
               k == [i \in 1..N |-> IF i = 1 THEN ss[i] ELSE h[i - 1] \o ss[i]]
    <3>0. 1 \in 1..N /\ f[1] = ss[1]
      <4>1. 1 \in 1..N /\ 1 - 1 = 0
        BY <1>1, <2>2
      <4>2. f[1] = f[1 - 1] \o ss[1] /\ ss[1] \in Seq(Q)
        BY <1>1, <1>6, <4>1
      <4>3. f[1] = <<>> \o ss[1]
        BY <1>5, <4>1, <4>2
      <4> QED
        BY <4>1, <4>2, <4>3, ConcatEmptySeq
    <3>2. \A i \in 1..N : h[i] = k[i]
      <4> TAKE i \in 1..N
      <4>1. CASE i = 1
        BY <3>0, <4>1
      <4>2. CASE i # 1
        <5>1. i - 1 \in 1..N
          BY <1>1, <4>2
        <5> QED
          BY <1>6, <4>2, <5>1
      <4> QED
        BY <4>1, <4>2
    <3>3. h = [i \in 1..N |-> h[i]] /\ k = [i \in 1..N |-> k[i]]
      OBVIOUS
    <3>4. h = k
      <4> HIDE DEF h, k
      <4> QED
        BY <3>2, <3>3
    <3>5. Solves(h)
      BY <3>4
    <3>6. Solves(flatten)
      <4> HIDE DEF Solves, h
      <4> QED
        BY <3>5
    <3> HIDE DEF flatten
    <3>7. \A i \in 1..N : flatten[i] = IF i = 1 THEN ss[i] ELSE flatten[i - 1] \o ss[i]
      BY <3>6
    <3> DEFINE S == {n \in 0..N : n = 0 \/ flatten[n] = f[n]}
    <3>8. 0 \in S
      BY <1>1
    <3>9. ASSUME NEW n \in Nat, n < N, n \in S PROVE n + 1 \in S
      <4>1. n + 1 \in 1..N /\ n + 1 \in 0..N /\ (n + 1) - 1 = n /\ n \in 0..N
        BY <1>1, <3>9
      <4>2. n + 1 \in 1..N => f[n + 1] = f[(n + 1) - 1] \o ss[n + 1]
        BY <1>6
      <4>3. CASE n = 0
        <5>1. flatten[1] = ss[1]
          BY <3>0, <3>7
        <5> QED
          BY <3>0, <4>1, <4>3, <5>1
      <4>4. CASE n # 0
        <5>1. n + 1 # 1
          BY <4>4
        <5>2. flatten[n + 1] = flatten[(n + 1) - 1] \o ss[n + 1]
          BY <3>7, <4>1, <5>1
        <5>3. flatten[n] = f[n]
          BY <3>9, <4>4
        <5> QED
          BY <4>1, <4>2, <5>2, <5>3
      <4> QED
        BY <4>3, <4>4
    <3>10. N \in S
      <4> HIDE DEF S, N
      <4>1. 0..N \subseteq S
        BY <1>1, <3>8, <3>9, Induction
      <4> QED
        BY <1>1, <4>1
    <3> QED
      BY <2>2, <3>1, <3>10
  <2> QED
    BY <2>1, <2>2
<1>8. Flattens(ss, V, f)
  BY <1>5, <1>6, <1>7 DEF Flattens
<1> HIDE DEF V
<1> QED
  BY <1>8 DEF V

\* Flattening keeps every element of every sequence, and nothing else.
LEMMA Flattened ==
  ASSUME NEW Q, NEW ss \in Seq(Seq(Q))
  PROVE  /\ FlattenSeq(ss) \in Seq(Q)
         /\ \A i \in 1..Len(ss) : ToSet(ss[i]) \subseteq ToSet(FlattenSeq(ss))
         /\ \A x \in ToSet(FlattenSeq(ss)) : \E i \in 1..Len(ss) : x \in ToSet(ss[i])
<1> DEFINE N == Len(ss)
<1>1. N \in Nat /\ \A i \in 1..N : ss[i] \in Seq(Q)
  BY LenProperties, ElementOfSeq
<1>2. PICK f : Flattens(ss, Seq(Q), f)
  BY FlattenSteps
<1>3. /\ \A i \in 0..N : f[i] \in Seq(Q)
      /\ \A i \in 1..N : f[i] = f[i - 1] \o ss[i]
      /\ FlattenSeq(ss) = f[N]
  BY <1>2 DEF Flattens
<1> DEFINE S == {n \in 0..N : /\ \A i \in 1..n : ToSet(ss[i]) \subseteq ToSet(f[n])
                              /\ \A x \in ToSet(f[n]) : \E i \in 1..n : x \in ToSet(ss[i])}
<1>4. 0 \in S
  <2>1. f[0] = <<>>
    BY <1>2 DEF Flattens
  <2>2. ToSet(f[0]) = {}
    BY <2>1 DEF ToSet
  <2> QED
    BY <1>1, <2>2
<1>5. ASSUME NEW n \in Nat, n < N, n \in S PROVE n + 1 \in S
  <2>1. n + 1 \in 1..N /\ n + 1 \in 0..N /\ n \in 0..N /\ (n + 1) - 1 = n
    BY <1>1, <1>5
  <2>2. ss[n + 1] \in Seq(Q) /\ f[n] \in Seq(Q)
    BY <1>1, <1>3, <2>1
  <2>3. f[n + 1] = f[n] \o ss[n + 1]
    BY <1>3, <2>1
  <2>4. ToSet(f[n + 1]) = ToSet(f[n]) \union ToSet(ss[n + 1])
    BY <2>2, <2>3, Concatenated
  <2>5. \A i \in 1..(n + 1) : i = n + 1 \/ i \in 1..n
    OBVIOUS
  <2>6. \A i \in 1..(n + 1) : ToSet(ss[i]) \subseteq ToSet(f[n + 1])
    BY <1>5, <2>4, <2>5
  <2>7. \A x \in ToSet(f[n + 1]) : \E i \in 1..(n + 1) : x \in ToSet(ss[i])
    <3>1. 1..n \subseteq 1..(n + 1) /\ n + 1 \in 1..(n + 1)
      OBVIOUS
    <3> QED
      BY <1>5, <2>4, <3>1
  <2> QED
    BY <2>1, <2>6, <2>7
<1>6. N \in S
  <2> HIDE DEF S, N
  <2>1. 0..N \subseteq S
    BY <1>1, <1>4, <1>5, Induction
  <2> QED
    BY <1>1, <2>1
<1>7. N \in 0..N
  BY <1>1
<1> QED
  BY <1>3, <1>6, <1>7

-----------------------------------------------------------------------------
(* Sequences within sequences *)

\* x stands in s behind the first `from` elements.
At(s, from, x) == /\ from + Len(x) <= Len(s)
                  /\ \A i \in 1..Len(x) : s[from + i] = x[i]

LEMMA AtParts ==
  ASSUME NEW Q, NEW s \in Seq(Q), NEW t \in Seq(Q)
  PROVE  At(s \o t, 0, s) /\ At(s \o t, Len(s), t)
<1>1. /\ Len(s \o t) = Len(s) + Len(t)
      /\ \A i \in 1..(Len(s) + Len(t)) : (s \o t)[i] = IF i <= Len(s) THEN s[i] ELSE t[i - Len(s)]
  BY ConcatProperties
<1>2. Len(s) \in Nat /\ Len(t) \in Nat
  BY LenProperties
<1>3. ASSUME NEW i \in 1..Len(s) PROVE (s \o t)[0 + i] = s[i]
  <2>1. i \in 1..(Len(s) + Len(t)) /\ i <= Len(s) /\ 0 + i = i
    BY <1>2, <1>3
  <2> QED
    BY <1>1, <2>1
<1>4. ASSUME NEW i \in 1..Len(t) PROVE (s \o t)[Len(s) + i] = t[i]
  <2>1. Len(s) + i \in 1..(Len(s) + Len(t)) /\ ~(Len(s) + i <= Len(s)) /\ (Len(s) + i) - Len(s) = i
    BY <1>2, <1>4
  <2> QED
    BY <1>1, <2>1
<1> QED
  BY <1>1, <1>2, <1>3, <1>4 DEF At

LEMMA AtWithin ==
  ASSUME NEW Q, NEW s \in Seq(Q), NEW t \in Seq(Q), NEW x \in Seq(Q),
         NEW from \in Nat, NEW more \in Nat, At(s, from, t), At(t, more, x)
  PROVE  At(s, from + more, x)
<1>1. Len(s) \in Nat /\ Len(t) \in Nat /\ Len(x) \in Nat
  BY LenProperties
<1>2. ASSUME NEW i \in 1..Len(x) PROVE s[(from + more) + i] = x[i]
  <2>1. more + i \in 1..Len(t) /\ t[more + i] = x[i] /\ from + (more + i) = (from + more) + i
    BY <1>1, <1>2 DEF At
  <2>2. s[from + (more + i)] = t[more + i]
    BY <2>1 DEF At
  <2> QED
    BY <2>1, <2>2
<1>3. (from + more) + Len(x) <= Len(s)
  BY <1>1 DEF At
<1> QED
  BY <1>2, <1>3 DEF At

\* What stands at a place is what SubSeq cuts out there.
LEMMA AtCut ==
  ASSUME NEW Q, NEW s \in Seq(Q), NEW x \in Seq(Q), NEW from \in Nat, At(s, from, x)
  PROVE  SubSeq(s, from + 1, from + Len(x)) = x
<1> DEFINE y == SubSeq(s, from + 1, from + Len(x))
           m == from + 1
           n == from + Len(x)
<1>1. Len(s) \in Nat /\ Len(x) \in Nat /\ n <= Len(s) /\ m \in Int /\ n \in Int /\ n - m + 1 = Len(x)
  BY LenProperties DEF At
<1>2. \A i \in m..n : s[i] \in Q
  <2>1. \A i \in m..n : i \in 1..Len(s)
    BY <1>1
  <2> QED
    BY <2>1, ElementOfSeq
<1>3. /\ SubSeq(s, m, n) \in Seq(Q)
      /\ Len(SubSeq(s, m, n)) = IF m <= n THEN n - m + 1 ELSE 0
      /\ \A i \in 1..(n - m + 1) : SubSeq(s, m, n)[i] = s[m + i - 1]
  <2> HIDE DEF m, n
  <2> QED
    BY <1>1, <1>2, SubSeqProperties
<1>4. y \in Seq(Q) /\ Len(y) = Len(x)
  BY <1>1, <1>3
<1>5. ASSUME NEW i \in 1..Len(x) PROVE y[i] = x[i]
  <2>1. i \in 1..(n - m + 1) /\ m + i - 1 = from + i
    BY <1>1, <1>5
  <2>2. SubSeq(s, m, n)[i] = s[from + i]
    BY <1>3, <2>1
  <2> QED
    BY <2>2 DEF At
<1> HIDE DEF y
<1>6. y = x
  BY <1>4, <1>5, SeqEqual
<1> QED
  BY <1>6 DEF y

\* Each of the flattened sequences stands behind those before it.
LEMMA FlattenAt ==
  ASSUME NEW Q, NEW ss \in Seq(Seq(Q)), NEW f, Flattens(ss, Seq(Q), f)
  PROVE  \A i \in 1..Len(ss) :
           /\ Len(f[i]) = Len(f[i - 1]) + Len(ss[i])
           /\ At(FlattenSeq(ss), Len(f[i - 1]), ss[i])
<1> DEFINE N == Len(ss)
<1>1. N \in Nat /\ \A i \in 1..N : ss[i] \in Seq(Q)
  BY LenProperties, ElementOfSeq
<1>2. /\ \A i \in 0..N : f[i] \in Seq(Q)
      /\ \A i \in 1..N : f[i] = f[i - 1] \o ss[i]
      /\ FlattenSeq(ss) = f[N]
  BY DEF Flattens
<1>3. ASSUME NEW i \in 1..N
      PROVE  f[i - 1] \in Seq(Q) /\ ss[i] \in Seq(Q) /\ Len(f[i - 1]) \in Nat
             /\ Len(f[i]) = Len(f[i - 1]) + Len(ss[i])
  <2>1. i - 1 \in 0..N
    BY <1>1, <1>3
  <2>2. f[i - 1] \in Seq(Q) /\ ss[i] \in Seq(Q) /\ f[i] = f[i - 1] \o ss[i]
    BY <1>1, <1>2, <2>1
  <2> QED
    BY <2>2, ConcatProperties, LenProperties
<1> DEFINE S == {n \in 0..N : \A i \in 1..n : At(f[n], Len(f[i - 1]), ss[i])}
<1>4. 0 \in S
  BY <1>1
<1>5. ASSUME NEW n \in Nat, n < N, n \in S PROVE n + 1 \in S
  <2>1. n + 1 \in 1..N /\ n + 1 \in 0..N /\ n \in 0..N /\ (n + 1) - 1 = n
    BY <1>1, <1>5
  <2>2. f[n + 1] = f[n] \o ss[n + 1] /\ f[n] \in Seq(Q) /\ ss[n + 1] \in Seq(Q) /\ f[n + 1] \in Seq(Q)
    BY <1>1, <1>2, <2>1
  <2>3. At(f[n + 1], 0, f[n]) /\ At(f[n + 1], Len(f[n]), ss[n + 1])
    BY <2>2, AtParts
  <2>4. ASSUME NEW i \in 1..n PROVE At(f[n + 1], Len(f[i - 1]), ss[i])
    <3>1. i \in 1..N
      BY <2>1, <2>4
    <3>2. ss[i] \in Seq(Q) /\ Len(f[i - 1]) \in Nat
      BY <1>3, <3>1
    <3> DEFINE k == Len(f[i - 1])
    <3>3. At(f[n], k, ss[i]) /\ k \in Nat /\ 0 \in Nat
      BY <1>5, <2>4, <3>2
    <3> HIDE DEF k
    <3>4. At(f[n + 1], 0 + k, ss[i])
      BY <2>2, <2>3, <3>2, <3>3, AtWithin
    <3>5. 0 + k = k
      BY <3>3
    <3> QED
      BY <3>4, <3>5 DEF k
  <2>5. \A i \in 1..(n + 1) : i = n + 1 \/ i \in 1..n
    OBVIOUS
  <2> QED
    BY <2>1, <2>3, <2>4, <2>5
<1>6. N \in S
  <2> HIDE DEF S, N
  <2>1. 0..N \subseteq S
    BY <1>1, <1>4, <1>5, Induction
  <2> QED
    BY <1>1, <2>1
<1> QED
  BY <1>2, <1>3, <1>6

LEMMA FlattenNone == FlattenSeq(<<>>) = <<>>
<1>1. Len(<<>>) = 0
  OBVIOUS
<1> QED
  BY <1>1 DEF FlattenSeq

LEMMA FlattenAppend ==
  ASSUME NEW Q, NEW ss \in Seq(Seq(Q)), NEW x \in Seq(Q)
  PROVE  FlattenSeq(Append(ss, x)) = FlattenSeq(ss) \o x
<1> DEFINE V == Seq(Q)
           N == Len(ss)
           tt == Append(ss, x)
<1>1. /\ N \in Nat
      /\ tt \in Seq(V) /\ Len(tt) = N + 1
      /\ \A i \in 1..N : tt[i] = ss[i]
      /\ tt[N + 1] = x
  <2> HIDE DEF V
  <2>1. ss \in Seq(V) /\ x \in V
    BY DEF V
  <2> QED
    BY <2>1, AppendProperties, LenProperties
<1> HIDE DEF tt
<1>2. PICK f : Flattens(ss, V, f)
  BY FlattenSteps
<1>3. PICK g : Flattens(tt, V, g)
  BY <1>1, FlattenSteps
<1> HIDE DEF V
<1>4. /\ f[0] = <<>> /\ FlattenSeq(ss) = f[N]
      /\ \A i \in 1..N : f[i] = f[i - 1] \o ss[i]
  BY <1>2 DEF Flattens
<1>5. /\ g[0] = <<>> /\ FlattenSeq(tt) = g[N + 1]
      /\ \A i \in 1..(N + 1) : g[i] = g[i - 1] \o tt[i]
  BY <1>1, <1>3 DEF Flattens
<1> DEFINE S == {n \in 0..N : f[n] = g[n]}
<1>6. 0 \in S
  BY <1>1, <1>4, <1>5
<1> HIDE DEF N
<1>7. ASSUME NEW n \in Nat, n < N, n \in S PROVE n + 1 \in S
  <2>1. n + 1 \in 1..N /\ n + 1 \in 1..(N + 1) /\ n + 1 \in 0..N /\ (n + 1) - 1 = n
    BY <1>1, <1>7
  <2>2. f[n + 1] = f[n] \o ss[n + 1]
    BY <1>4, <2>1
  <2>3. g[n + 1] = g[n] \o tt[n + 1]
    BY <1>5, <2>1
  <2> QED
    BY <1>1, <1>7, <2>1, <2>2, <2>3
<1>8. f[N] = g[N]
  <2> HIDE DEF S
  <2>1. 0..N \subseteq S
    BY <1>1, <1>6, <1>7, Induction
  <2>2. N \in 0..N
    BY <1>1
  <2> QED
    BY <2>1, <2>2 DEF S
<1>9. g[N + 1] = g[N] \o x
  <2>1. N + 1 \in 1..(N + 1) /\ (N + 1) - 1 = N
    BY <1>1
  <2> QED
    BY <1>1, <1>5, <2>1
<1> QED
  BY <1>4, <1>5, <1>8, <1>9 DEF tt
=============================================================================
