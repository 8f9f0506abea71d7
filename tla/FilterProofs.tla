---------------------------- MODULE FilterProofs ----------------------------
(***************************************************************************)
(* What Filter yields, for every sequence and every set: a sequence over    *)
(* the set, and element by element what SelectSeq yields.                   *)
(*                                                                          *)
(* The induction is over a set of numbers, which a well-founded relation    *)
(* gives: no induction theorem with an operator for a parameter is used.    *)
(***************************************************************************)
EXTENDS Filtering, WellFoundedInduction, TLAPS

\* The order of the numbers, as a set.
Below == {p \in Nat \X Nat : p[1] < p[2]}

\* That order is well-founded: a set of numbers that is not empty has a least one.
LEMMA BelowIsWellFounded == IsWellFoundedOn(Below, Nat)
<1>1. Below = OpToRel(<, Nat)
  BY Zenon DEF Below, OpToRel
<1> QED
  BY <1>1, NatLessThanWellFounded, Zenon

\* The least number of a set.
LEMMA HasLeast ==
  ASSUME NEW S \in SUBSET Nat, S # {}
  PROVE  \E n \in S : \A m \in S : n <= m
<1>1. PICK n \in S : \A m \in S : ~(<<m, n>> \in Below)
  <2>1. S \subseteq Nat
    OBVIOUS
  <2> QED
    BY <2>1, BelowIsWellFounded, WFMin, Zenon
<1>2. ASSUME NEW m \in S PROVE n <= m
  <2>1. m \in Nat /\ n \in Nat /\ ~(<<m, n>> \in Below)
    BY <1>1
  <2>2. ~(m < n)
    BY <2>1 DEF Below
  <2> QED
    BY <2>1, <2>2
<1> QED
  BY <1>2

\* A set of numbers that has 0 and with every number its successor has all.
LEMMA SetInduction ==
  ASSUME NEW P \in SUBSET Nat, 0 \in P, \A n \in P : n + 1 \in P
  PROVE  P = Nat
<1> SUFFICES ASSUME Nat \ P # {} PROVE FALSE
  OBVIOUS
<1>1. Nat \ P \in SUBSET Nat
  OBVIOUS
<1>2. PICK n \in Nat \ P : \A m \in Nat \ P : n <= m
  BY <1>1, HasLeast
<1>3. \A m \in Nat : m < n => m \in P
  BY <1>2
<1>4. n # 0 /\ n - 1 \in Nat /\ n - 1 < n
  BY <1>2
<1> QED
  BY <1>2, <1>3, <1>4

\* f lists what is kept of the first 0, 1, ... n elements.
Lists(f, s, T, n) ==
  /\ f[0] = <<>>
  /\ \A i \in 1 .. n :
       f[i] = IF s[i] \in T THEN Append(f[i - 1], s[i]) ELSE f[i - 1]

\* There is such a list for every sequence, of sequences over the set.
LEMMA ListsExist ==
  ASSUME NEW S, NEW s \in Seq(S), NEW T
  PROVE  \E f \in [0 .. Len(s) -> Seq(S \cap T)] : Lists(f, s, T, Len(s))
<1> DEFINE P == {n \in Nat : n <= Len(s) =>
                   \E f \in [0 .. n -> Seq(S \cap T)] : Lists(f, s, T, n)}
<1>1. 0 \in P
  <2> DEFINE f == [i \in 0 .. 0 |-> <<>>]
  <2>1. f \in [0 .. 0 -> Seq(S \cap T)] /\ Lists(f, s, T, 0)
    BY DEF Lists
  <2> QED
    BY <2>1
<1>2. ASSUME NEW n \in P PROVE n + 1 \in P
  <2> SUFFICES ASSUME n + 1 <= Len(s)
               PROVE  \E g \in [0 .. n + 1 -> Seq(S \cap T)] : Lists(g, s, T, n + 1)
    BY <1>2
  <2>1. n \in Nat /\ n <= Len(s) /\ n + 1 \in 1 .. Len(s) /\ Len(s) \in Nat /\ s[n + 1] \in S
    BY <1>2
  <2>2. PICK f \in [0 .. n -> Seq(S \cap T)] : Lists(f, s, T, n)
    BY <1>2, <2>1
  <2> DEFINE next == IF s[n + 1] \in T THEN Append(f[n], s[n + 1]) ELSE f[n]
             g == [i \in 0 .. n + 1 |-> IF i <= n THEN f[i] ELSE next]
  <2>3. f[n] \in Seq(S \cap T)
    BY <2>1, <2>2
  <2>4. next \in Seq(S \cap T)
    BY <2>1, <2>3
  <2> HIDE DEF next
  <2>5. g \in [0 .. n + 1 -> Seq(S \cap T)]
    BY <2>1, <2>2, <2>4
  <2>6. g[0] = <<>> /\ \A i \in 0 .. n : g[i] = f[i]
    BY <2>1, <2>2 DEF Lists
  <2>7. g[n + 1] = next
    BY <2>1
  <2>8. Lists(g, s, T, n + 1)
    <3> HIDE DEF g
    <3> SUFFICES ASSUME NEW i \in 1 .. (n + 1)
                 PROVE  g[i] = IF s[i] \in T THEN Append(g[i - 1], s[i]) ELSE g[i - 1]
      BY <2>6 DEF Lists
    <3>1. CASE i = n + 1
      <4>1. g[i - 1] = f[n]
        BY <2>1, <2>6, <3>1
      <4> QED
        BY <2>7, <3>1, <4>1 DEF next
    <3>2. CASE i \in 1 .. n
      <4>1. i \in 0 .. n /\ i - 1 \in 0 .. n
        BY <2>1, <3>2
      <4>2. g[i] = f[i] /\ g[i - 1] = f[i - 1]
        BY <2>6, <4>1
      <4> QED
        BY <2>2, <3>2, <4>2 DEF Lists
    <3> QED
      BY <2>1, <3>1, <3>2
  <2> HIDE DEF g
  <2> QED
    BY <2>5, <2>8
<1>3. P = Nat
  <2>1. P \in SUBSET Nat
    OBVIOUS
  <2> HIDE DEF P
  <2> QED
    BY <1>1, <1>2, <2>1, SetInduction
<1>4. Len(s) \in P
  BY <1>3
<1> QED
  BY <1>4

\* There is but one.
LEMMA ListsAgree ==
  ASSUME NEW s, NEW T, NEW n \in Nat, NEW f, NEW g,
         Lists(f, s, T, n), Lists(g, s, T, n)
  PROVE  \A i \in 0 .. n : f[i] = g[i]
<1> DEFINE P == {i \in Nat : i <= n => f[i] = g[i]}
<1>1. 0 \in P
  BY DEF Lists
<1>2. ASSUME NEW i \in P PROVE i + 1 \in P
  <2> SUFFICES ASSUME i + 1 <= n PROVE f[i + 1] = g[i + 1]
    BY <1>2
  <2>1. i \in Nat /\ f[i] = g[i] /\ i + 1 \in 1 .. n /\ (i + 1) - 1 = i
    BY <1>2
  <2> QED
    BY <2>1 DEF Lists
<1>3. P = Nat
  <2>1. P \in SUBSET Nat
    OBVIOUS
  <2> HIDE DEF P
  <2> QED
    BY <1>1, <1>2, <2>1, SetInduction
<1> QED
  BY <1>3

\* Filter is the last entry of any such list.
LEMMA FilterIsListed ==
  ASSUME NEW S, NEW s \in Seq(S), NEW T, NEW f, Lists(f, s, T, Len(s))
  PROVE  Filter(s, T) = f[Len(s)]
<1> DEFINE Body(g) == [i \in 0 .. Len(s) |->
                 IF i = 0 THEN <<>>
                 ELSE IF s[i] \in T THEN Append(g[i - 1], s[i]) ELSE g[i - 1]]
           kept == CHOOSE g : g = Body(g)
<1>1. PICK h \in [0 .. Len(s) -> Seq(S \cap T)] : Lists(h, s, T, Len(s))
  BY ListsExist
<1>2. h = Body(h)
  <2>1. Len(s) \in Nat
    OBVIOUS
  <2>2. \A i \in 0 .. Len(s) :
          h[i] = IF i = 0 THEN <<>>
                 ELSE IF s[i] \in T THEN Append(h[i - 1], s[i]) ELSE h[i - 1]
    <3> HIDE DEF Body
    <3> SUFFICES ASSUME NEW i \in 0 .. Len(s)
                 PROVE  h[i] = IF i = 0 THEN <<>>
                               ELSE IF s[i] \in T THEN Append(h[i - 1], s[i]) ELSE h[i - 1]
      OBVIOUS
    <3>1. CASE i = 0
      BY <1>1, <3>1 DEF Lists
    <3>2. CASE i # 0
      <4>1. i \in 1 .. Len(s)
        BY <2>1, <3>2
      <4> QED
        BY <1>1, <3>2, <4>1 DEF Lists
    <3> QED
      BY <3>1, <3>2
  <2>3. h = [i \in 0 .. Len(s) |-> h[i]]
    BY <1>1
  <2> QED
    BY <2>2, <2>3
<1>3. kept = Body(kept)
  <2> HIDE DEF Body
  <2> QED
  BY <1>2
<1>4. Lists(kept, s, T, Len(s))
  <2> HIDE DEF kept
  <2>1. Len(s) \in Nat
    OBVIOUS
  <2>2. \A i \in 0 .. Len(s) : kept[i] = Body(kept)[i]
    BY <1>3
  <2>3. \A i \in 0 .. Len(s) :
          kept[i] = IF i = 0 THEN <<>>
                    ELSE IF s[i] \in T THEN Append(kept[i - 1], s[i]) ELSE kept[i - 1]
    BY <2>2
  <2> QED
    BY <2>1, <2>3 DEF Lists
<1>5. Filter(s, T) = kept[Len(s)]
  BY Zenon DEF Filter
<1>6. kept[Len(s)] = f[Len(s)]
  <2> HIDE DEF kept
  <2>1. Len(s) \in Nat /\ Len(s) \in 0 .. Len(s)
    OBVIOUS
  <2> QED
    BY <1>4, <2>1, ListsAgree
<1> QED
  BY <1>5, <1>6

\* What is kept is a sequence over what the elements and the set have in common.
LEMMA FilterType ==
  ASSUME NEW S, NEW s \in Seq(S), NEW T
  PROVE  Filter(s, T) \in Seq(S \cap T)
<1>1. PICK h \in [0 .. Len(s) -> Seq(S \cap T)] : Lists(h, s, T, Len(s))
  BY ListsExist
<1>2. Filter(s, T) = h[Len(s)]
  BY <1>1, FilterIsListed
<1> QED
  BY <1>1, <1>2

\* Nothing is kept of the empty sequence ...
LEMMA FilterEmpty == ASSUME NEW T PROVE Filter(<<>>, T) = <<>>
<1> DEFINE f == [i \in {0} |-> <<>>]
<1>1. Lists(f, <<>>, T, Len(<<>>))
  BY DEF Lists
<1>2. <<>> \in Seq({}) /\ Len(<<>>) = 0 /\ f[0] = <<>>
  OBVIOUS
<1> HIDE DEF f
<1> QED
  BY <1>1, <1>2, FilterIsListed

\* ... and of a longer one the new element, if it is in the set.
LEMMA FilterAppend ==
  ASSUME NEW S, NEW s \in Seq(S), NEW e \in S, NEW T
  PROVE  Filter(Append(s, e), T) =
           IF e \in T THEN Append(Filter(s, T), e) ELSE Filter(s, T)
<1> DEFINE t == Append(s, e)
           n == Len(s)
<1>1. t \in Seq(S) /\ n \in Nat /\ Len(t) = n + 1 /\ t[n + 1] = e
      /\ \A i \in 1 .. n : t[i] = s[i]
  OBVIOUS
<1> HIDE DEF t, n
<1>2. PICK f : Lists(f, t, T, Len(t))
  BY <1>1, ListsExist
<1>3. Lists(f, s, T, n)
  BY <1>1, <1>2 DEF Lists
<1>4. Filter(t, T) = f[n + 1]
  BY <1>1, <1>2, FilterIsListed
<1>5. Filter(s, T) = f[n]
  BY <1>1, <1>3, FilterIsListed DEF n
<1>6. f[n + 1] = IF e \in T THEN Append(f[n], e) ELSE f[n]
  <2>1. n + 1 \in 1 .. (n + 1) /\ (n + 1) - 1 = n
    BY <1>1
  <2> QED
    BY <1>1, <1>2, <2>1 DEF Lists
<1> QED
  BY <1>4, <1>5, <1>6 DEF t
=============================================================================
