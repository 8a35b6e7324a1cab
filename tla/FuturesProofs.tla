---------------------------- MODULE FuturesProofs ----------------------------
(* The two records of the futures subsystem.  The record of one external    *)
(* signal, for every identity, delay, quantity and number of attempts: first *)
(* what its client order ids say of the orders that carry them, then what   *)
(* its steps keep.  An induction on numbers or on digits goes to the least  *)
(* counterexample: the library's theorems on induction take an operator,    *)
(* which no prover here can give.                                           *)
(*                                                                          *)
(* Then one position cycle's record, for every instrument, size and set of  *)
(* stop terms.  What it says is about the venue at an earlier moment: the   *)
(* two reads in hand are related to what they were read of (Reads), and     *)
(* what has become of the position since is in `gone` (Held, Seen).         *)
EXTENDS FuturesIntent, FuturesCycle, SequenceTheorems, WellFoundedInduction, TLAPS

\* A set of naturals that is not empty has a least.
LEMMA Least ==
  ASSUME NEW T, T \subseteq Nat, T # {}
  PROVE  \E n \in T : \A m \in T : n <= m
<1> DEFINE Below == OpToRel(<, Nat)
<1>1. \A x, y \in Nat : x < y => <<x, y>> \in Below
  BY DEF OpToRel
<1>2. IsWellFoundedOn(Below, Nat)
  BY NatLessThanWellFounded
<1> HIDE DEF Below
<1>3. PICK n \in T : \A m \in T : ~ (<<m, n>> \in Below)
  BY <1>2, WFMin
<1>4. ASSUME NEW m \in T PROVE n <= m
  <2>1. n \in Nat /\ m \in Nat
    OBVIOUS
  <2>2. ~ (m < n)
    BY <1>1, <1>3, <2>1
  <2> QED BY <2>1, <2>2
<1> QED BY <1>4

\* Base 36 is well defined: a number's digits are its quotient's and one more.
LEMMA Base36Exists ==
    \E f : f = [v \in Nat |-> IF v < 36 THEN <<v>> ELSE Append(f[v \div 36], v % 36)]
<1> DEFINE Upto(g, n) ==
      g = [v \in 0..n |-> IF v < 36 THEN <<v>> ELSE Append(g[v \div 36], v % 36)]
<1>1. ASSUME NEW n \in Nat, \A m \in Nat : m < n => \E g : Upto(g, m)
      PROVE  \E g : Upto(g, n)
  <2>1. CASE n = 0
    <3> WITNESS [v \in 0..0 |-> <<v>>]
    <3> QED BY <2>1
  <2>2. CASE n > 0
    <3>0. n - 1 \in Nat /\ n - 1 < n
      BY <2>2
    <3>1. PICK g : Upto(g, n - 1)
      <4> HIDE DEF Upto
      <4> QED BY <1>1, <3>0
    <3> DEFINE h == [v \in 0..n |-> IF v = n
                       THEN IF n < 36 THEN <<n>> ELSE Append(g[n \div 36], n % 36)
                       ELSE g[v]]
    <3>2. \A v \in 0..n : v >= 36 => v \div 36 \in 0..n - 1 /\ h[v \div 36] = g[v \div 36]
      BY <2>2
    <3>3. ASSUME NEW v \in 0..n
          PROVE  h[v] = IF v < 36 THEN <<v>> ELSE Append(h[v \div 36], v % 36)
      <4>1. CASE v = n
        BY <4>1, <3>2
      <4>2. CASE v # n
        <5>1. h[v] = g[v]
          BY <4>2
        <5>2. v \in 0..n - 1
          BY <4>2
        <5>3. g[v] = IF v < 36 THEN <<v>> ELSE Append(g[v \div 36], v % 36)
          BY <3>1, <5>2
        <5> QED BY <5>1, <5>3, <3>2
      <4> QED BY <4>1, <4>2
    <3>4. Upto(h, n)
      <4>1. h = [v \in 0..n |-> h[v]]
        OBVIOUS
      <4> HIDE DEF h
      <4> QED BY <3>3, <4>1
    <3> QED BY <3>4
  <2> QED BY <2>1, <2>2
<1> DEFINE Missing == {n \in Nat : ~\E g : Upto(g, n)}
<1>2. \A n \in Nat : \E g : Upto(g, n)
  <2> SUFFICES ASSUME Missing # {} PROVE FALSE
    OBVIOUS
  <2>1. PICK n \in Missing : \A m \in Missing : n <= m
    <3>1. Missing \subseteq Nat
      OBVIOUS
    <3> HIDE DEF Missing
    <3> QED BY <3>1, Least
  <2> HIDE DEF Upto
  <2>2. \A m \in Nat : m < n => \E g : Upto(g, m)
    BY <2>1
  <2> QED BY <2>1, <2>2, <1>1
\* Two that are defined as far agree.
<1>3. ASSUME NEW n \in Nat, NEW g, NEW h, Upto(g, n), NEW k \in Nat, Upto(h, k)
      PROVE  \A v \in 0..n : v \in 0..k => g[v] = h[v]
  <2> DEFINE Differ == {v \in 0..n : v \in 0..k /\ g[v] # h[v]}
  <2> SUFFICES ASSUME Differ # {} PROVE FALSE
    OBVIOUS
  <2>1. PICK v \in Differ : \A w \in Differ : v <= w
    <3>1. Differ \subseteq Nat
      OBVIOUS
    <3> HIDE DEF Differ
    <3> QED BY <3>1, Least
  <2>2. g[v] = IF v < 36 THEN <<v>> ELSE Append(g[v \div 36], v % 36)
    BY <1>3
  <2>3. h[v] = IF v < 36 THEN <<v>> ELSE Append(h[v \div 36], v % 36)
    BY <1>3
  <2>4. v >= 36 => v \div 36 \in 0..n /\ v \div 36 \in 0..k /\ v \div 36 < v
    OBVIOUS
  <2>5. v >= 36 => g[v \div 36] = h[v \div 36]
    BY <2>1, <2>4
  <2> QED BY <2>2, <2>3, <2>5
<1> DEFINE G(n) == CHOOSE g : Upto(g, n)
           f == [n \in Nat |-> G(n)[n]]
<1>4. \A n \in Nat : Upto(G(n), n)
  <2> HIDE DEF Upto
  <2> QED BY <1>2
<1>5. ASSUME NEW v \in Nat
      PROVE  f[v] = IF v < 36 THEN <<v>> ELSE Append(f[v \div 36], v % 36)
  <2>0. Upto(G(v), v)
    BY <1>4
  <2>1. f[v] = G(v)[v]
    OBVIOUS
  <2>2. G(v)[v] = IF v < 36 THEN <<v>> ELSE Append(G(v)[v \div 36], v % 36)
    <3>1. PICK g : g = G(v)
      OBVIOUS
    <3>2. g = [u \in 0..v |-> IF u < 36 THEN <<u>> ELSE Append(g[u \div 36], u % 36)]
      BY <2>0, <3>1
    <3>3. g[v] = IF v < 36 THEN <<v>> ELSE Append(g[v \div 36], v % 36)
      <4>1. v \in 0..v
        OBVIOUS
      <4> HIDE DEF G
      <4> QED BY <3>2, <4>1
    <3> HIDE DEF G
    <3> QED BY <3>1, <3>3
  <2>3. CASE v < 36
    BY <2>1, <2>2, <2>3
  <2>4. CASE v >= 36
    <3> DEFINE w == v \div 36
    <3>1. w \in Nat /\ w \in 0..w /\ w \in 0..v
      OBVIOUS
    <3>2. Upto(G(w), w)
      BY <1>4, <3>1
    <3>3. f[w] = G(w)[w]
      BY <3>1
    <3>4. G(w)[w] = G(v)[w]
      <4> HIDE DEF Upto, G, w
      <4> QED BY <2>0, <3>1, <3>2, <1>3
    <3> QED BY <2>1, <2>2, <3>3, <3>4, <2>4
  <2> QED BY <2>3, <2>4
<1>6. f = [v \in Nat |-> IF v < 36 THEN <<v>> ELSE Append(f[v \div 36], v % 36)]
  <2>1. f = [v \in Nat |-> f[v]]
    OBVIOUS
  <2> HIDE DEF f
  <2> QED BY <1>5, <2>1
<1> QED BY <1>6

\* What to_base36 writes of a number.
LEMMA Base36Def ==
  ASSUME NEW v \in Nat
  PROVE  ToBase36[v] = IF v < 36 THEN <<v>> ELSE Append(ToBase36[v \div 36], v % 36)
<1>1. ToBase36 = [u \in Nat |-> IF u < 36 THEN <<u>>
                                ELSE Append(ToBase36[u \div 36], u % 36)]
  BY Base36Exists DEF ToBase36
<1> QED BY <1>1

\* Digits as from_base36 accepts them: no zero ahead of another.
Canonical(digits) ==
    /\ digits \in Seq(Base36Digits)
    /\ digits # <<>>
    /\ Len(digits) > 1 => digits[1] # 0

\* Reading is well defined: each digit follows what was read before it.
LEMMA NumberExists ==
  ASSUME NEW digits \in Seq(Base36Digits)
  PROVE  \E f : f = [i \in 0..Len(digits) |-> IF i = 0 THEN 0 ELSE 36 * f[i - 1] + digits[i]]
<1> DEFINE Upto(g, n) == g = [i \in 0..n |-> IF i = 0 THEN 0 ELSE 36 * g[i - 1] + digits[i]]
           Missing == {n \in Nat : ~\E g : Upto(g, n)}
<1>1. ASSUME NEW n \in Nat, \A m \in Nat : m < n => \E g : Upto(g, m)
      PROVE  \E g : Upto(g, n)
  <2>1. CASE n = 0
    <3> WITNESS [i \in 0..0 |-> 0]
    <3> QED BY <2>1
  <2>2. CASE n > 0
    <3>0. n - 1 \in Nat /\ n - 1 < n
      BY <2>2
    <3>1. PICK g : Upto(g, n - 1)
      <4> HIDE DEF Upto
      <4> QED BY <1>1, <3>0
    <3> DEFINE h == [i \in 0..n |-> IF i = n THEN 36 * g[n - 1] + digits[n] ELSE g[i]]
    <3>2. ASSUME NEW i \in 0..n
          PROVE  h[i] = IF i = 0 THEN 0 ELSE 36 * h[i - 1] + digits[i]
      <4>1. CASE i = n
        BY <4>1, <2>2
      <4>2. CASE i # n
        <5>1. h[i] = g[i] /\ i \in 0..n - 1 /\ (i # 0 => h[i - 1] = g[i - 1])
          BY <4>2
        <5>2. g[i] = IF i = 0 THEN 0 ELSE 36 * g[i - 1] + digits[i]
          BY <3>1, <5>1
        <5> QED BY <5>1, <5>2
      <4> QED BY <4>1, <4>2
    <3>3. Upto(h, n)
      <4>1. h = [i \in 0..n |-> h[i]]
        OBVIOUS
      <4> HIDE DEF h
      <4> QED BY <3>2, <4>1
    <3> QED BY <3>3
  <2> QED BY <2>1, <2>2
<1>2. \A n \in Nat : \E g : Upto(g, n)
  <2> SUFFICES ASSUME Missing # {} PROVE FALSE
    OBVIOUS
  <2>1. PICK n \in Missing : \A m \in Missing : n <= m
    <3>1. Missing \subseteq Nat
      OBVIOUS
    <3> HIDE DEF Missing
    <3> QED BY <3>1, Least
  <2> HIDE DEF Upto
  <2>2. \A m \in Nat : m < n => \E g : Upto(g, m)
    BY <2>1
  <2> QED BY <2>1, <2>2, <1>1
<1>3. \E g : Upto(g, Len(digits))
  <2>1. Len(digits) \in Nat
    BY LenProperties
  <2> HIDE DEF Upto
  <2> QED BY <1>2, <2>1
<1> QED BY <1>3

\* What is read of the digits up to each.
Places(digits) ==
    CHOOSE f : f = [i \in 0..Len(digits) |-> IF i = 0 THEN 0 ELSE 36 * f[i - 1] + digits[i]]

\* What from_base36 reads is what it has read at the last digit.
LEMMA NumberIsPlaces ==
  ASSUME NEW digits \in Seq(Base36Digits)
  PROVE  /\ NumberOf(digits) = Places(digits)[Len(digits)]
         /\ Places(digits)[0] = 0
         /\ \A i \in 1..Len(digits) :
              Places(digits)[i] = 36 * Places(digits)[i - 1] + digits[i]
<1>1. NumberOf(digits) = Places(digits)[Len(digits)]
  BY DEF NumberOf, Places
<1>2. PICK f : f = Places(digits)
  OBVIOUS
<1>3. f = [i \in 0..Len(digits) |-> IF i = 0 THEN 0 ELSE 36 * f[i - 1] + digits[i]]
  BY NumberExists, <1>2 DEF Places
<1>4. Len(digits) \in Nat
  BY LenProperties
<1>5. f[0] = 0 /\ \A i \in 1..Len(digits) : f[i] = 36 * f[i - 1] + digits[i]
  BY <1>3, <1>4
<1> QED BY <1>1, <1>2, <1>5

\* A digit more is 36 times what was read, and the digit.
LEMMA NumberOfAppend ==
  ASSUME NEW digits \in Seq(Base36Digits), NEW d \in Base36Digits
  PROVE  NumberOf(Append(digits, d)) = 36 * NumberOf(digits) + d
<1> DEFINE longer == Append(digits, d)
           n == Len(digits)
<1>1. /\ longer \in Seq(Base36Digits)
      /\ Len(longer) = n + 1
      /\ \A i \in 1..n : longer[i] = digits[i]
      /\ longer[n + 1] = d
  BY AppendProperties
<1>2. n \in Nat
  BY LenProperties
<1> HIDE DEF longer, n
<1> DEFINE Differ == {i \in 0..n : Places(longer)[i] # Places(digits)[i]}
<1>3. ASSUME NEW i \in 1..n, Places(longer)[i - 1] = Places(digits)[i - 1]
      PROVE  Places(longer)[i] = Places(digits)[i]
  <2>1. Places(longer)[i] = 36 * Places(longer)[i - 1] + longer[i]
    <3>1. i \in 1..Len(longer)
      BY <1>1, <1>2
    <3> QED BY <1>1, <3>1, NumberIsPlaces
  <2>2. Places(digits)[i] = 36 * Places(digits)[i - 1] + digits[i]
    BY NumberIsPlaces DEF n
  <2> QED BY <1>1, <1>3, <2>1, <2>2
<1>4. Places(longer)[n] = Places(digits)[n]
  <2> SUFFICES ASSUME Differ # {} PROVE FALSE
    BY <1>2
  <2>1. PICK i \in Differ : \A j \in Differ : i <= j
    <3>1. Differ \subseteq Nat
      BY <1>2
    <3> HIDE DEF Differ
    <3> QED BY <3>1, Least
  <2>2. Places(longer)[0] = Places(digits)[0]
    BY <1>1, NumberIsPlaces
  <2>3. i \in 1..n /\ i - 1 \in 0..n /\ i - 1 \notin Differ
    BY <1>2, <2>1, <2>2
  <2> QED BY <1>3, <2>1, <2>3
<1>5. Places(longer)[n + 1] = 36 * Places(longer)[n] + d
  <2>1. n + 1 \in 1..Len(longer) /\ (n + 1) - 1 = n
    BY <1>1, <1>2
  <2> QED BY <1>1, <2>1, NumberIsPlaces
<1> QED BY <1>1, <1>4, <1>5, NumberIsPlaces DEF longer, n

\* No digits read as zero.
LEMMA NumberOfNothing ==
  NumberOf(<<>>) = 0
<1>1. <<>> \in Seq(Base36Digits) /\ Len(<<>>) = 0
  BY EmptySeq
<1> QED BY <1>1, NumberIsPlaces

\* What no digits have, and one more digit keeps, all digits have.
LEMMA DigitsInduction ==
  ASSUME NEW T, T \subseteq Seq(Base36Digits), <<>> \in T,
         \A s \in T, d \in Base36Digits : Append(s, d) \in T
  PROVE  T = Seq(Base36Digits)
<1> DEFINE Lens == {Len(s) : s \in Seq(Base36Digits) \ T}
<1> SUFFICES ASSUME Seq(Base36Digits) \ T # {} PROVE FALSE
  OBVIOUS
<1>1. Lens \subseteq Nat /\ Lens # {}
  <2>1. \A s \in Seq(Base36Digits) : Len(s) \in Nat
    BY LenProperties
  <2> QED BY <2>1
<1>2. PICK n \in Lens : \A m \in Lens : n <= m
  <2> HIDE DEF Lens
  <2> QED BY <1>1, Least
<1>3. PICK s \in Seq(Base36Digits) \ T : Len(s) = n
  BY <1>2
<1>4. s # <<>>
  OBVIOUS
<1>5. PICK t \in Seq(Base36Digits), d \in Base36Digits : s = Append(t, d)
  BY <1>4, SequenceEmptyOrAppend
<1>6. Len(s) = Len(t) + 1 /\ Len(t) \in Nat
  BY <1>5, AppendProperties, LenProperties
<1>7. t \in T
  <2>1. t \notin T => Len(t) \in Lens
    OBVIOUS
  <2> HIDE DEF Lens
  <2> QED BY <1>2, <1>3, <1>6, <2>1
<1> QED BY <1>3, <1>5, <1>7

\* Digits read as a natural number.
LEMMA NumberOfNat ==
  ASSUME NEW digits \in Seq(Base36Digits)
  PROVE  NumberOf(digits) \in Nat
<1> DEFINE T == {s \in Seq(Base36Digits) : NumberOf(s) \in Nat}
<1>1. <<>> \in T
  BY NumberOfNothing, EmptySeq
<1>2. ASSUME NEW s \in T, NEW d \in Base36Digits PROVE Append(s, d) \in T
  <2>1. Append(s, d) \in Seq(Base36Digits)
    BY AppendProperties
  <2>2. NumberOf(Append(s, d)) = 36 * NumberOf(s) + d
    BY NumberOfAppend
  <2> QED BY <2>1, <2>2 DEF Base36Digits
<1>3. T \subseteq Seq(Base36Digits)
  OBVIOUS
<1>4. T = Seq(Base36Digits)
  <2> HIDE DEF T
  <2> QED BY <1>1, <1>2, <1>3, DigitsInduction
<1> QED BY <1>4

\* A canonical spelling is the one to_base36 writes of what it reads as.
LEMMA SpelledOneWay ==
  ASSUME NEW digits, Canonical(digits)
  PROVE  ToBase36[NumberOf(digits)] = digits
<1> DEFINE Good(s) == Canonical(s) => /\ ToBase36[NumberOf(s)] = s
                                      /\ s[1] # 0 => NumberOf(s) > 0
           T == {s \in Seq(Base36Digits) : Good(s)}
<1>1. <<>> \in T
  BY EmptySeq DEF Canonical
<1>2. ASSUME NEW s \in T, NEW d \in Base36Digits PROVE Append(s, d) \in T
  <2>1. /\ Append(s, d) \in Seq(Base36Digits)
        /\ Len(Append(s, d)) = Len(s) + 1
        /\ \A i \in 1..Len(s) : Append(s, d)[i] = s[i]
        /\ Append(s, d)[Len(s) + 1] = d
    BY AppendProperties
  <2>2. NumberOf(Append(s, d)) = 36 * NumberOf(s) + d /\ NumberOf(s) \in Nat /\ d \in 0..35
    BY NumberOfAppend, NumberOfNat DEF Base36Digits
  <2>3. CASE s = <<>>
    <3>1. NumberOf(Append(s, d)) = d /\ Append(s, d) = <<d>>
      BY <2>2, <2>3, NumberOfNothing
    <3>2. ToBase36[d] = <<d>>
      <4>1. d \in Nat /\ d < 36
        BY <2>2
      <4> QED BY <4>1, Base36Def
    <3> QED BY <2>1, <2>2, <3>1, <3>2
  <2>4. CASE s # <<>>
    <3> SUFFICES ASSUME Canonical(Append(s, d)) PROVE Good(Append(s, d))
      BY <2>1
    <3>1. Len(s) \in Nat \ {0}
      BY <2>4, EmptySeq
    <3>2. Append(s, d)[1] = s[1] /\ s[1] # 0
      BY <2>1, <3>1 DEF Canonical
    <3>3. Canonical(s)
      BY <2>4, <3>2 DEF Canonical
    <3>4. ToBase36[NumberOf(s)] = s /\ NumberOf(s) > 0
      BY <3>2, <3>3
    <3> DEFINE n == NumberOf(s)
    <3>5. n \in Nat /\ n > 0 /\ 36 * n + d >= 36
      BY <2>2, <3>4
    <3> HIDE DEF n
    <3>6. (36 * n + d) \div 36 = n /\ (36 * n + d) % 36 = d /\ 36 * n + d \in Nat
      BY <2>2, <3>5
    <3>7. ToBase36[36 * n + d] = Append(ToBase36[n], d)
      <4>1. PICK v \in Nat : v = 36 * n + d
        BY <3>6
      <4>2. ToBase36[v] = Append(ToBase36[v \div 36], v % 36)
        <5>1. ~ (v < 36)
          BY <3>5, <4>1
        <5> QED BY <5>1, Base36Def
      <4> QED BY <3>6, <4>1, <4>2
    <3> QED BY <2>2, <3>4, <3>5, <3>7 DEF n
  <2> QED BY <2>3, <2>4
<1>3. T \subseteq Seq(Base36Digits)
  OBVIOUS
<1>4. T = Seq(Base36Digits)
  <2> HIDE DEF T
  <2> QED BY <1>1, <1>2, <1>3, DigitsInduction
<1> QED BY <1>4 DEF Canonical

\* What to_base36 writes is canonical, and reads as what was written.
LEMMA ReadBack ==
  ASSUME NEW v \in Nat
  PROVE  /\ Canonical(ToBase36[v])
         /\ NumberOf(ToBase36[v]) = v
<1> DEFINE Good(n) == /\ Canonical(ToBase36[n])
                      /\ NumberOf(ToBase36[n]) = n
                      /\ n > 0 => ToBase36[n][1] # 0
           Bad == {n \in Nat : ~Good(n)}
<1>1. ASSUME NEW n \in Nat, \A m \in Nat : m < n => Good(m) PROVE Good(n)
  <2>1. CASE n < 36
    <3>1. ToBase36[n] = <<n>>
      BY <2>1, Base36Def
    <3>2. <<>> \in Seq(Base36Digits) /\ n \in Base36Digits /\ <<n>> = Append(<<>>, n)
      BY <2>1, EmptySeq DEF Base36Digits
    <3>3. NumberOf(<<n>>) = n
      <4>1. NumberOf(Append(<<>>, n)) = 36 * NumberOf(<<>>) + n
        BY <3>2, NumberOfAppend
      <4> QED BY <3>2, <4>1, NumberOfNothing
    <3>4. <<n>> \in Seq(Base36Digits) /\ <<n>> # <<>> /\ Len(<<n>>) = 1 /\ <<n>>[1] = n
      BY <3>2
    <3> QED BY <3>1, <3>3, <3>4 DEF Canonical
  <2>2. CASE n >= 36
    <3> DEFINE m == n \div 36
               d == n % 36
               s == ToBase36[m]
    <3>1. m \in Nat /\ m < n /\ m > 0 /\ d \in Base36Digits /\ 36 * m + d = n
      BY <2>2 DEF Base36Digits
    <3> HIDE DEF m, d
    <3>2. Good(m)
      BY <1>1, <3>1
    <3>3. ToBase36[n] = Append(s, d)
      <4>1. ~ (n < 36)
        BY <2>2
      <4> QED BY <4>1, Base36Def DEF m, d
    <3> HIDE DEF s
    <3>4. s \in Seq(Base36Digits) /\ Len(s) \in Nat \ {0} /\ s[1] # 0 /\ NumberOf(s) = m
      BY <3>1, <3>2, EmptySeq DEF Canonical, s
    <3>5. /\ Append(s, d) \in Seq(Base36Digits)
          /\ Append(s, d) # <<>>
          /\ Append(s, d)[1] = s[1]
      BY <3>1, <3>4, AppendProperties
    <3>6. NumberOf(Append(s, d)) = n
      BY <3>1, <3>4, NumberOfAppend
    <3> QED BY <3>3, <3>4, <3>5, <3>6 DEF Canonical
  <2> QED BY <2>1, <2>2
<1>2. Bad = {}
  <2> SUFFICES ASSUME Bad # {} PROVE FALSE
    OBVIOUS
  <2>1. PICK n \in Bad : \A m \in Bad : n <= m
    <3>1. Bad \subseteq Nat
      OBVIOUS
    <3> HIDE DEF Bad
    <3> QED BY <3>1, Least
  <2> HIDE DEF Good
  <2>2. \A m \in Nat : m < n => Good(m)
    BY <2>1
  <2> QED BY <2>1, <2>2, <1>1
<1> QED BY <1>2

\* from_base36 accepts only what to_base36 writes.
LEMMA FromBase36Only ==
  ASSUME NEW digits \in Seq(Base36Digits), NEW max, NEW v \in FromBase36(digits, max)
  PROVE  v \in Nat /\ digits = ToBase36[v] /\ v = NumberOf(digits) /\ v <= max
<1>1. v = NumberOf(digits) /\ Canonical(digits) /\ v <= max
  BY DEF FromBase36, Canonical
<1> QED BY <1>1, SpelledOneWay, NumberOfNat

\* from_base36 reads what to_base36 writes, unless it is too large.
LEMMA FromBase36Back ==
  ASSUME NEW v \in Nat, NEW max \in Nat
  PROVE  FromBase36(ToBase36[v], max) = IF v <= max THEN {v} ELSE {}
<1>1. Canonical(ToBase36[v]) /\ NumberOf(ToBase36[v]) = v
  BY ReadBack
<1> QED BY <1>1 DEF FromBase36, Canonical

\* A text that reads as an id is that id's text: no other text stands for it, so
\* a client id read back is of the order it was written for.
THEOREM ReadsOnlyItsOwn ==
  ASSUME NEW text, IsText(text), NEW own \in ParseOurs(text)
  PROVE  /\ text = Display(own)
         /\ own.owner \in OwnerTags /\ own.attempt \in 1..MAX_ATTEMPT
<1> DEFINE Epochs == FromBase36(text.epoch, MaxEpoch)
           Operations == FromBase36(text.operation, NumberOf(text.operation)) \ {0}
           Legs == {leg \in OrderLegs : /\ text.layout = LAYOUT /\ TextLen(text) <= MAX_LEN
                                        /\ text.owner \in OwnerTags
                                        /\ Letter[leg] = text.letter}
           Numbers == FromBase36(text.attempt, MAX_ATTEMPT)
<1>1. PICK epoch \in Epochs, operation \in Operations, leg \in Legs, attempt \in Numbers :
        own \in ClientOrderId(text.owner, epoch, operation, leg, attempt)
  <2>1. own \in UNION {ClientOrderId(text.owner, epoch, operation, leg, attempt) :
          epoch \in Epochs, operation \in Operations, leg \in Legs, attempt \in Numbers}
    BY DEF ParseOurs
  <2> HIDE DEF Epochs, Operations, Legs, Numbers
  <2> QED BY <2>1
<1>2. /\ text.epoch \in Seq(Base36Digits) /\ text.operation \in Seq(Base36Digits)
      /\ text.attempt \in Seq(Base36Digits)
      /\ text = [layout |-> text.layout, owner |-> text.owner, epoch |-> text.epoch,
                 operation |-> text.operation, letter |-> text.letter,
                 attempt |-> text.attempt]
  BY DEF IsText
<1>3. /\ text.epoch = ToBase36[epoch] /\ text.operation = ToBase36[operation]
      /\ text.attempt = ToBase36[attempt]
  BY <1>2, FromBase36Only
<1>4. /\ text.layout = LAYOUT /\ text.letter = Letter[leg] /\ text.owner \in OwnerTags
  OBVIOUS
<1>5. /\ own = [owner |-> text.owner, epoch |-> epoch, operation |-> operation, leg |-> leg,
                attempt |-> attempt]
      /\ attempt \in 1..MAX_ATTEMPT
  BY <1>1 DEF ClientOrderId
<1>6. /\ own.owner = text.owner /\ own.epoch = epoch /\ own.operation = operation
      /\ own.leg = leg /\ own.attempt = attempt
  BY <1>5
<1>7. Display(own) = [layout |-> text.layout, owner |-> text.owner, epoch |-> text.epoch,
                      operation |-> text.operation, letter |-> text.letter,
                      attempt |-> text.attempt]
  BY <1>3, <1>4, <1>6 DEF Display
<1> QED BY <1>2, <1>4, <1>5, <1>6, <1>7

\* Every id ClientOrderId::new returns.
IdsWritten == [owner : OwnerTags, epoch : 0..MaxEpoch, operation : Nat \ {0}, leg : OrderLegs,
               attempt : 1..MAX_ATTEMPT]

\* Every id whose text fits reads back as itself.
THEOREM ReadsBack ==
  ASSUME MaxEpoch \in Nat, NEW id \in IdsWritten, TextLen(Display(id)) <= MAX_LEN
  PROVE  ParseOurs(Display(id)) = {id}
<1> DEFINE text == Display(id)
           Legs == {leg \in OrderLegs : /\ text.layout = LAYOUT /\ TextLen(text) <= MAX_LEN
                                        /\ text.owner \in OwnerTags
                                        /\ Letter[leg] = text.letter}
<1>1. /\ id.epoch \in Nat /\ id.epoch <= MaxEpoch /\ id.operation \in Nat \ {0}
      /\ id.attempt \in Nat /\ id.attempt <= MAX_ATTEMPT /\ id.attempt \in 1..MAX_ATTEMPT
      /\ id.owner \in OwnerTags /\ id.leg \in OrderLegs
      /\ id = [owner |-> id.owner, epoch |-> id.epoch, operation |-> id.operation,
               leg |-> id.leg, attempt |-> id.attempt]
  BY DEF IdsWritten, MAX_ATTEMPT
<1>2. /\ text.layout = LAYOUT /\ text.owner = id.owner /\ text.letter = Letter[id.leg]
      /\ text.epoch = ToBase36[id.epoch] /\ text.operation = ToBase36[id.operation]
      /\ text.attempt = ToBase36[id.attempt]
  BY DEF Display
<1>3. FromBase36(text.epoch, MaxEpoch) = {id.epoch}
  BY <1>1, <1>2, FromBase36Back
<1>4. FromBase36(text.operation, NumberOf(text.operation)) \ {0} = {id.operation}
  <2>1. NumberOf(text.operation) = id.operation
    BY <1>1, <1>2, ReadBack
  <2>2. FromBase36(text.operation, id.operation) = {id.operation}
    <3>1. id.operation \in Nat /\ id.operation <= id.operation
      BY <1>1
    <3> QED BY <1>2, <3>1, FromBase36Back
  <2> QED BY <1>1, <2>1, <2>2
<1>5. FromBase36(text.attempt, MAX_ATTEMPT) = {id.attempt}
  <2>1. MAX_ATTEMPT \in Nat
    BY DEF MAX_ATTEMPT
  <2> QED BY <1>1, <1>2, <2>1, FromBase36Back
<1>6. Legs = {id.leg}
  <2>1. \A leg \in OrderLegs : Letter[leg] = Letter[id.leg] => leg = id.leg
    BY <1>1 DEF OrderLegs, Letter
  <2> QED BY <1>1, <1>2, <2>1
<1>7. ClientOrderId(text.owner, id.epoch, id.operation, id.leg, id.attempt) = {id}
  BY <1>1, <1>2 DEF ClientOrderId
<1>8. ParseOurs(text) =
        UNION {ClientOrderId(text.owner, epoch, operation, leg, attempt) :
          epoch \in {id.epoch}, operation \in {id.operation}, leg \in {id.leg},
          attempt \in {id.attempt}}
  BY <1>3, <1>4, <1>5, <1>6 DEF ParseOurs
<1>9. UNION {ClientOrderId(text.owner, epoch, operation, leg, attempt) :
          epoch \in {id.epoch}, operation \in {id.operation}, leg \in {id.leg},
          attempt \in {id.attempt}}
      = ClientOrderId(text.owner, id.epoch, id.operation, id.leg, id.attempt)
  <2> HIDE DEF text
  <2> QED OBVIOUS
<1> QED BY <1>7, <1>8, <1>9

\* 36 times as many numbers need one digit more.
LEMMA OneDigitMore ==
  ASSUME NEW bound \in Nat \ {0}, NEW k \in Nat,
         \A u \in Nat : u < bound => Len(ToBase36[u]) <= k,
         NEW v \in Nat, v < 36 * bound
  PROVE  Len(ToBase36[v]) <= k + 1
<1>1. CASE v < 36
  <2>1. ToBase36[v] = <<v>>
    BY <1>1, Base36Def
  <2> QED BY <2>1
<1>2. CASE v >= 36
  <2> DEFINE u == v \div 36
             d == v % 36
  <2>1. u \in Nat /\ u < bound /\ d \in Base36Digits
    BY <1>2 DEF Base36Digits
  <2>2. ToBase36[v] = Append(ToBase36[u], d)
    <3>1. ~ (v < 36)
      BY <1>2
    <3> QED BY <3>1, Base36Def
  <2> HIDE DEF u, d
  <2>3. ToBase36[u] \in Seq(Base36Digits) /\ Len(ToBase36[u]) <= k
    BY <2>1, ReadBack DEF Canonical
  <2>4. Len(ToBase36[v]) = Len(ToBase36[u]) + 1
    BY <2>1, <2>2, <2>3, AppendProperties
  <2>5. Len(ToBase36[u]) \in Nat
    BY <2>3, LenProperties
  <2> QED BY <2>3, <2>4, <2>5
<1> QED BY <1>1, <1>2

\* What an epoch and an operation are less than.
U32 == 65536 * 65536
U64 == U32 * U32

\* The digits of an attempt, an epoch and an operation.
LEMMA DigitsOf ==
  ASSUME NEW v \in Nat
  PROVE  /\ v <= MAX_ATTEMPT => Len(ToBase36[v]) <= 2
         /\ v < U32 => Len(ToBase36[v]) <= 7
         /\ v < U64 => Len(ToBase36[v]) <= 13
<1> DEFINE Fits(bound, k) == \A u \in Nat : u < bound => Len(ToBase36[u]) <= k
<1>1. ASSUME NEW bound \in Nat \ {0}, NEW k \in Nat, Fits(bound, k)
      PROVE  36 * bound \in Nat \ {0} /\ k + 1 \in Nat /\ Fits(36 * bound, k + 1)
  <2>1. ASSUME NEW u \in Nat, u < 36 * bound PROVE Len(ToBase36[u]) <= k + 1
    BY <1>1, <2>1, OneDigitMore
  <2> QED BY <2>1
<1>2. Fits(36, 1)
  <2>1. ASSUME NEW u \in Nat, u < 36 PROVE Len(ToBase36[u]) <= 1
    <3>1. ToBase36[u] = <<u>>
      BY <2>1, Base36Def
    <3> QED BY <3>1
  <2> QED BY <2>1
<1> HIDE DEF Fits
<1>3. PICK b2 \in Nat \ {0} : b2 = 36 * 36 /\ Fits(b2, 2)
  BY <1>1, <1>2
<1>4. PICK b3 \in Nat \ {0} : b3 = 36 * b2 /\ Fits(b3, 3)
  BY <1>1, <1>3
<1>5. PICK b4 \in Nat \ {0} : b4 = 36 * b3 /\ Fits(b4, 4)
  BY <1>1, <1>4
<1>6. PICK b5 \in Nat \ {0} : b5 = 36 * b4 /\ Fits(b5, 5)
  BY <1>1, <1>5
<1>7. PICK b6 \in Nat \ {0} : b6 = 36 * b5 /\ Fits(b6, 6)
  BY <1>1, <1>6
<1>8. PICK b7 \in Nat \ {0} : b7 = 36 * b6 /\ Fits(b7, 7)
  BY <1>1, <1>7
<1>9. PICK b8 \in Nat \ {0} : b8 = 36 * b7 /\ Fits(b8, 8)
  BY <1>1, <1>8
<1>10. PICK b9 \in Nat \ {0} : b9 = 36 * b8 /\ Fits(b9, 9)
  BY <1>1, <1>9
<1>11. PICK b10 \in Nat \ {0} : b10 = 36 * b9 /\ Fits(b10, 10)
  BY <1>1, <1>10
<1>12. PICK b11 \in Nat \ {0} : b11 = 36 * b10 /\ Fits(b11, 11)
  BY <1>1, <1>11
<1>13. PICK b12 \in Nat \ {0} : b12 = 36 * b11 /\ Fits(b12, 12)
  BY <1>1, <1>12
<1>14. PICK b13 \in Nat \ {0} : b13 = 36 * b12 /\ Fits(b13, 13)
  BY <1>1, <1>13
<1>15. MAX_ATTEMPT < b2
  BY <1>3 DEF MAX_ATTEMPT
<1>16. U32 <= b7
  BY <1>3, <1>4, <1>5, <1>6, <1>7, <1>8, SMT DEF U32
<1>17. U64 <= b13
  BY <1>3, <1>4, <1>5, <1>6, <1>7, <1>8, <1>9, <1>10, <1>11, <1>12, <1>13, <1>14, SMT
  DEF U32, U64
<1> USE DEF Fits
<1> QED
  <2>1. U32 \in Nat /\ U64 \in Nat /\ MAX_ATTEMPT \in Nat
    BY DEF U32, U64, MAX_ATTEMPT
  <2>2. Len(ToBase36[v]) \in Nat
    BY ReadBack, LenProperties DEF Canonical
  <2>3. v <= MAX_ATTEMPT => Len(ToBase36[v]) <= 2
    BY <2>1, <1>15, <1>3
  <2>4. v < U32 => Len(ToBase36[v]) <= 7
    BY <2>1, <1>16, <1>8
  <2>5. v < U64 => Len(ToBase36[v]) <= 13
    BY <2>1, <1>17, <1>14
  <2> QED BY <2>3, <2>4, <2>5

\* client_order_id.rs:1-6: an id is at most 36 characters, whatever the u32 epoch
\* and the u64 operation.
THEOREM IdsFit ==
  ASSUME NEW id \in IdsWritten, id.epoch < U32,
         id.operation < U64, MaxEpoch \in Nat
  PROVE  TextLen(Display(id)) <= MAX_LEN
<1> DEFINE Width(v) == Len(ToBase36[v])
<1>1. id.epoch \in Nat /\ id.operation \in Nat /\ id.attempt \in Nat /\ id.attempt <= MAX_ATTEMPT
  BY DEF IdsWritten, MAX_ATTEMPT
<1>2. ASSUME NEW v \in Nat PROVE Width(v) \in Nat
  <2>1. ToBase36[v] \in Seq(Base36Digits)
    BY ReadBack DEF Canonical
  <2> QED BY <2>1, LenProperties
<1>3. Width(id.epoch) <= 7 /\ Width(id.operation) <= 13 /\ Width(id.attempt) <= 2
  BY <1>1, DigitsOf
<1>4. TextLen(Display(id))
        = 3 + 6 + 1 + 4 + Width(id.epoch) + Width(id.operation) + Width(id.attempt)
  BY DEF TextLen, Display
<1> HIDE DEF Width
<1>5. PICK e \in Nat, o \in Nat, a \in Nat :
        e = Width(id.epoch) /\ o = Width(id.operation) /\ a = Width(id.attempt)
  BY <1>1, <1>2
<1>6. 3 + 6 + 1 + 4 + e + o + a <= 36
  BY <1>3, <1>5
<1> QED BY <1>4, <1>5, <1>6 DEF MAX_LEN

-----------------------------------------------------------------------------
\* What is saved of the record is a part of it.
Saved ==
    /\ Len(stored.attempts) <= Len(intent.attempts)
    /\ \A id \in Sent(stored) : stored.attempts[id] = intent.attempts[id]

\* What is sent was saved, and what is shown is there.
VenueInv ==
    \A id \in Attempts :
      /\ orders[id].status # "unsent" => id \in Sent(stored)
      /\ orders[id].visible => Working(id) \/ IsFinal(orders[id])
      /\ orders[id].status \in {"unsent", "flight"} => orders[id].filled = 0
      /\ Working(id) => orders[id].filled < Quantity

\* What was reported of an order is behind it.
Behind ==
    \A id \in Attempts : \A order \in reported[id] :
      /\ order.filled <= orders[id].filled
      /\ IsFinal(order) => orders[id].status = order.status /\ orders[id].filled = order.filled

\* A verified venue has shown what was sent a propagation delay ago, or will
\* never.
InTime ==
    LookupsVerified => \A id \in Sent(intent) : now >= intent.attempts[id] + Delay => Settled(id)

\* ExecutionCounts, of either copy of the record.
Counted(record) == record.counted => record.state \in {"partially_filled", "filled"}

\* FilledIsExecuted, of either copy of the record.
Executed(record) ==
    /\ record.state = "filled" =>
         \E id \in Sent(record) : IsFinal(orders[id]) /\ orders[id].filled > 0
    /\ record.state = "partially_filled" =>
         \E id \in Sent(record) : orders[id].filled > 0

\* The order was never placed, and never will be.
Never(record, id) ==
    \/ orders[id].status \in {"turned_down", "lost"}
    \/ orders[id].status = "unsent" /\ now > record.attempts[id]

\* The order that decides what an intent's end means: an entry's only one, an
\* exit's latest.
Decides(record) == IF record.kind = "entry" THEN 1 ELSE Len(record.attempts)

\* SettledIsOver, of a record that may be loaded later as of the caller's.
Over(record) ==
    record.attempts # <<>> =>
      /\ record.state \in {"rejected", "unfilled"} =>
           Never(record, Decides(record)) \/ NothingExecuted(orders[Decides(record)])
      /\ record.kind = "entry" /\ record.state = "not_placed" => Never(record, 1)

\* A lookup that proves something is of an order that will never be there.
LookupTrue ==
    \A id \in Sent(intent) :
      /\ LookupsVerified
      /\ intent.kind = "entry"
      /\ lookup # NoLookup /\ lookup.id = id
      /\ lookup.at >= intent.attempts[id] + Delay
      /\ lookup.at <= intent.attempts[id] + Retention
      => Never(intent, id)

(* The copies of the record, the venue's orders, and the evidence between.  *)
IInv ==
    /\ TypeOK /\ lookup.at <= now
    /\ Saved /\ VenueInv /\ Behind /\ InTime
    /\ Counted(intent) /\ Counted(stored)
    /\ Executed(intent) /\ Executed(stored)
    /\ Over(intent) /\ Over(stored)
    /\ LookupTrue

-----------------------------------------------------------------------------
\* What is reported of an order, and an order.
ReportedOrders == [status : Statuses, filled : 0..Quantity]
Orders == [status : Statuses, filled : 0..Quantity, visible : BOOLEAN]

\* An attempt's number fits its id, and is no place of another's text.
LEMMA AttemptIds ==
  /\ \A id \in Attempts : id \in Nat /\ id >= 1 /\ id <= MAX_ATTEMPT /\ id \in 1..MAX_ATTEMPT
  /\ \A id \in Foreign : id - MaxAttempts \in 1..Len(ForeignTexts) /\ id \notin Attempts
  /\ Len(ForeignTexts) \in Nat /\ MaxAttempts \in Nat
  /\ 0 \notin Ids
<1>1. Len(ForeignTexts) \in Nat /\ MaxAttempts \in Nat /\ MaxAttempts <= MAX_ATTEMPT
  BY BoundsAssumption
<1> QED BY <1>1 DEF Attempts, Foreign, Ids, MAX_ATTEMPT

\* What a record says it sent are attempts, with their times.
LEMMA SentAreAttempts ==
  ASSUME NEW record, IsRecord(record), NEW id \in Sent(record)
  PROVE  id \in Attempts /\ record.attempts[id] \in Nat /\ record.attempts[id] \in Times
<1>1. record.attempts \in Seq(Times) /\ Len(record.attempts) <= MaxAttempts
  BY DEF IsRecord
<1>2. Len(record.attempts) \in Nat /\ record.attempts[id] \in Times
  BY <1>1, LenProperties, ElementOfSeq DEF Sent
<1> QED BY <1>1, <1>2, AttemptIds DEF Sent, Attempts, Times

\* The text of an attempt is its id's.
LEMMA AttemptText ==
  ASSUME NEW kind \in Kinds, NEW id \in Attempts, NEW own \in IssuedFor(kind, id)
  PROVE  /\ TextOf(kind, id) = Display(own)
         /\ IsText(Display(own))
         /\ own.attempt = id
<1>1. own = [owner |-> Owner, epoch |-> Epoch, operation |-> Operation, leg |-> LegOf(kind),
             attempt |-> id]
  BY DEF IssuedFor, ClientOrderId
<1>2. IssuedFor(kind, id) = {own}
  BY <1>1, AttemptIds DEF IssuedFor, ClientOrderId
<1>3. TextOf(kind, id) = Display(own)
  <2>1. {Display(other) : other \in IssuedFor(kind, id)} = {Display(own)}
    BY <1>2
  <2> QED BY <2>1 DEF TextOf
<1>4. /\ own.epoch \in Nat /\ own.operation \in Nat /\ own.attempt \in Nat
      /\ own.attempt = id
  BY <1>1, AttemptIds, BoundsAssumption
<1>5. /\ ToBase36[own.epoch] \in Seq(Base36Digits)
      /\ ToBase36[own.operation] \in Seq(Base36Digits)
      /\ ToBase36[own.attempt] \in Seq(Base36Digits)
  BY <1>4, ReadBack DEF Canonical
<1>6. IsText(Display(own))
  BY <1>5 DEF Display, IsText
<1> QED BY <1>3, <1>4, <1>6

\* Every id the record takes for its own is of an order it sent.
LEMMA OwnIsSent ==
  ASSUME IsRecord(intent), NEW id \in Ids, Own(id)
  PROVE  id \in Sent(intent)
<1> DEFINE kind == intent.kind
<1>1. kind \in Kinds
  BY DEF IsRecord
<1>2. PICK own \in ParseOurs(TextOf(kind, id)) : own \in SentIds(intent)
  <2>1. ReadAs[kind][id] = ParseOurs(TextOf(kind, id))
    BY <1>1 DEF ReadAs
  <2> QED BY <2>1 DEF Own
<1>3. PICK sent \in Sent(intent) : own \in IssuedFor(kind, sent)
  BY <1>2 DEF SentIds
<1>4. sent \in Attempts
  BY SentAreAttempts
<1> HIDE DEF kind
<1>5. /\ TextOf(kind, sent) = Display(own) /\ IsText(Display(own)) /\ own.attempt = sent
  BY <1>1, <1>3, <1>4, AttemptText
<1>6. CASE id \in Attempts
  <2>1. PICK written : written \in IssuedFor(kind, id)
    BY <1>6, AttemptIds DEF IssuedFor, ClientOrderId
  <2>2. /\ TextOf(kind, id) = Display(written) /\ IsText(Display(written))
        /\ written.attempt = id
    BY <1>1, <1>6, <2>1, AttemptText
  <2>3. Display(written) = Display(own)
    BY <1>2, <2>2, ReadsOnlyItsOwn
  <2>4. Display(written).attempt = ToBase36[id] /\ Display(own).attempt = ToBase36[sent]
    BY <1>5, <2>2 DEF Display
  <2>5. ToBase36[id] = ToBase36[sent]
    BY <2>3, <2>4
  <2>6. id = sent
    BY <2>5, <1>4, <1>6, AttemptIds, ReadBack
  <2> QED BY <2>6
<1>7. CASE id \in Foreign
  <2>1. /\ id - MaxAttempts \in 1..Len(ForeignTexts)
        /\ TextOf(kind, id) = ForeignTexts[id - MaxAttempts]
    BY <1>7, AttemptIds DEF TextOf
  <2>2. IsText(TextOf(kind, id))
    BY <2>1, BoundsAssumption
  <2>3. TextOf(kind, id) = Display(own)
    BY <1>2, <2>2, ReadsOnlyItsOwn
  <2>4. \A i \in 1..Len(ForeignTexts) : ForeignTexts[i] # Display(own)
    BY <1>1, <1>3, <1>4, ForeignAssumption
  <2> QED BY <2>1, <2>3, <2>4
<1> QED BY <1>6, <1>7 DEF Ids

\* What an order read back moves an intent to is what it says.
LEMMA OrderSays ==
  ASSUME NEW s \in States, NEW order \in ReportedOrders,
         NEW to, to = OnOrderState(s, order), to # Refused
  PROVE  /\ to \in States
         /\ order.filled > 0 => to \in {"filled", "partially_filled"}
         /\ s \in {"filled", "partially_filled"} => to \in {"filled", "partially_filled"}
         /\ to # s =>
              /\ to \in {"rejected", "unfilled", "filled", "partially_filled"}
              /\ to \in {"rejected", "unfilled"} => NothingExecuted(order)
              /\ to = "filled" => IsFinal(order) /\ order.filled > 0
              /\ to = "partially_filled" => order.filled > 0
<1>1. order.filled \in Nat /\ (order.filled = 0 \/ order.filled > 0)
  BY BoundsAssumption DEF ReportedOrders
<1>2. <<s, to>> \in TRANSITIONS \/ to = s
  BY DEF OnOrderState, Refused, NothingExecuted, IsFinal
<1>3. s \in {"filled", "partially_filled"} /\ <<s, to>> \in TRANSITIONS => to = "filled"
  BY DEF TRANSITIONS
<1>4. CASE order.status = "rejected" /\ order.filled = 0
  <2>1. to = "rejected"
    BY <1>4 DEF OnOrderState, Refused, NothingExecuted, IsFinal
  <2> QED BY <1>1, <1>2, <1>3, <1>4, <2>1 DEF IsFinal, NothingExecuted, States
<1>5. CASE IsFinal(order) /\ order.filled > 0
  <2>1. to = "filled"
    BY <1>5 DEF OnOrderState, Refused, NothingExecuted, IsFinal
  <2> QED BY <1>1, <1>2, <1>3, <1>5, <2>1 DEF States
<1>6. CASE IsFinal(order) /\ order.filled = 0 /\ order.status # "rejected"
  <2>1. to = "unfilled"
    BY <1>6 DEF OnOrderState, Refused, NothingExecuted, IsFinal
  <2> QED BY <1>1, <1>2, <1>3, <1>6, <2>1 DEF NothingExecuted, States
<1>7. CASE ~IsFinal(order) /\ order.filled > 0
  <2>1. to = "partially_filled"
    BY <1>7 DEF OnOrderState, Refused, NothingExecuted, IsFinal
  <2> QED BY <1>1, <1>2, <1>3, <1>7, <2>1 DEF States
<1>8. CASE ~IsFinal(order) /\ order.filled = 0
  <2>1. to = s
    BY <1>8 DEF OnOrderState, Refused, NothingExecuted, IsFinal
  <2> QED BY <1>1, <1>8, <2>1
<1> QED BY <1>1, <1>4, <1>5, <1>6, <1>7, <1>8

\* The invariant holds at first.
LEMMA InitInv ==
  ASSUME Init PROVE IInv
<1>1. PICK kind \in Kinds : intent = NewRecord(kind)
  BY DEF Init
<1>2. intent \in [kind : Kinds, state : States, attempts : Seq(Times), counted : BOOLEAN]
  BY <1>1, EmptySeq DEF NewRecord, States
<1>3. intent.attempts = <<>> /\ Len(intent.attempts) = 0
  BY <1>1, EmptySeq DEF NewRecord
<1>4. IsRecord(intent)
  BY <1>2, <1>3, BoundsAssumption DEF IsRecord
<1>5. /\ stored = intent /\ lookup = NoLookup /\ observed = NoSnapshot /\ now = 0
      /\ orders = [id \in Attempts |-> NoOrder]
      /\ reported = [id \in Ids |-> IF id \in Foreign THEN {ForeignOrder} ELSE {}]
  BY DEF Init
<1>6. TypeOK
  <2>1. NoOrder \in Orders /\ ForeignOrder \in ReportedOrders
    BY BoundsAssumption DEF NoOrder, ForeignOrder, Orders, ReportedOrders, Statuses
  <2>2. now \in Times /\ observed \in [at : Times, flat : BOOLEAN]
    BY <1>5, BoundsAssumption DEF Times, NoSnapshot
  <2> QED BY <1>4, <1>5, <2>1, <2>2 DEF TypeOK, Orders, ReportedOrders
<1>7. \A id \in Attempts : orders[id] = NoOrder /\ reported[id] = {}
  <2>1. \A id \in Attempts : id \in Ids /\ id \notin Foreign
    BY AttemptIds DEF Ids
  <2> QED BY <1>5, <2>1
<1>8. Sent(intent) = {}
  BY <1>3 DEF Sent
<1>9. lookup.at <= now
  BY <1>5 DEF NoLookup
<1>10. Saved
  BY <1>3, <1>5, <1>8 DEF Saved
<1>11. VenueInv /\ Behind
  BY <1>7, BoundsAssumption DEF VenueInv, Behind, NoOrder, Working
<1>12. InTime /\ LookupTrue
  BY <1>8 DEF InTime, LookupTrue
<1>13. intent.state = "received" /\ intent.counted = FALSE
  BY <1>1 DEF NewRecord
<1>14. Counted(intent) /\ Executed(intent) /\ Over(intent)
  BY <1>3, <1>13 DEF Counted, Executed, Over
<1> QED BY <1>5, <1>6, <1>9, <1>10, <1>11, <1>12, <1>14 DEF IInv

\* What a step of the record itself leaves to show.
LEMMA RecordMoves ==
  ASSUME IInv, UNCHANGED <<stored, venue, evidence, now>>,
         IsRecord(intent'), intent'.kind = intent.kind, intent'.attempts = intent.attempts,
         Counted(intent)', Executed(intent)', Over(intent)'
  PROVE  IInv'
<1> USE DEF IInv
<1>1. /\ stored' = stored /\ orders' = orders /\ reported' = reported /\ lookup' = lookup
      /\ observed' = observed /\ now' = now
  BY DEF venue, evidence
<1>2. TypeOK'
  BY <1>1 DEF TypeOK, IsRecord
<1>3. Sent(intent)' = Sent(intent) /\ Sent(stored)' = Sent(stored)
  BY <1>1 DEF Sent
<1>4. Saved' /\ VenueInv' /\ Behind' /\ (lookup.at <= now)'
  <2>1. Saved'
    BY <1>1, <1>3 DEF Saved
  <2>2. VenueInv'
    BY <1>1, <1>3 DEF VenueInv, Working, IsFinal
  <2>3. Behind'
    BY <1>1 DEF Behind
  <2> QED BY <1>1, <2>1, <2>2, <2>3
<1>5. InTime'
  BY <1>1, <1>3 DEF InTime, Settled
<1>6. LookupTrue'
  BY <1>1, <1>3 DEF LookupTrue, Never
<1>7. Counted(stored)'
  BY <1>1 DEF Counted
<1>8. Executed(stored)'
  BY <1>1, <1>3 DEF Executed, IsFinal
<1>9. Over(stored)'
  BY <1>1 DEF Over, Never, NothingExecuted, IsFinal
<1> QED BY <1>2, <1>4, <1>5, <1>6, <1>7, <1>8, <1>9

\* A state the record moves to, or stays in.
LEMMA StateMoves ==
  ASSUME IInv, UNCHANGED <<stored, venue, evidence, now>>,
         NEW to \in States, NEW counted \in BOOLEAN,
         intent' = [intent EXCEPT !.state = to, !.counted = counted],
         intent.attempts # <<>> => to \notin {"received", "admitted", "expired"},
         counted => to \in {"partially_filled", "filled"},
         to = "filled" => \E id \in Sent(intent) : IsFinal(orders[id]) /\ orders[id].filled > 0,
         to = "partially_filled" => \E id \in Sent(intent) : orders[id].filled > 0,
         intent.attempts # <<>> /\ to \in {"rejected", "unfilled"} =>
           Never(intent, Decides(intent)) \/ NothingExecuted(orders[Decides(intent)]),
         intent.attempts # <<>> /\ intent.kind = "entry" /\ to = "not_placed" => Never(intent, 1)
  PROVE  IInv'
<1> USE DEF IInv
<1>1. /\ stored' = stored /\ orders' = orders /\ reported' = reported /\ lookup' = lookup
      /\ observed' = observed /\ now' = now
  BY DEF venue, evidence
<1>2. IsRecord(intent)
  BY DEF TypeOK
<1>3. /\ intent'.state = to /\ intent'.counted = counted /\ intent'.kind = intent.kind
      /\ intent'.attempts = intent.attempts
      /\ intent' \in [kind : Kinds, state : States, attempts : Seq(Times), counted : BOOLEAN]
  BY <1>2 DEF IsRecord
<1>4. IsRecord(intent')
  BY <1>2, <1>3 DEF IsRecord
<1>5. Counted(intent)'
  BY <1>3 DEF Counted
<1>6. Executed(intent)'
  BY <1>1, <1>3 DEF Executed, Sent, IsFinal
<1>7. Over(intent)'
  BY <1>1, <1>3 DEF Over, Never, Decides, NothingExecuted, IsFinal
<1> QED BY <1>3, <1>4, <1>5, <1>6, <1>7, RecordMoves

\* Where each transition leads, and from where.
LEMMA Moves ==
  ASSUME NEW s, NEW to, <<s, to>> \in TRANSITIONS
  PROVE  /\ s \in States /\ to \in States \ {"received"}
         /\ s = "received" => to \in {"admitted", "rejected", "duplicate", "noop"}
         /\ s = "admitted" => to \in {"submitting", "expired", "rejected", "noop"}
         /\ s \in Unresolved => to \in {"partially_filled", "filled", "unfilled", "rejected",
                                        "not_placed", "outcome_unknown"}
         /\ s \in {"received", "admitted", "partially_filled"} \cup Unresolved
         /\ s = "partially_filled" => to = "filled"
         /\ to = "admitted" => s = "received"
         /\ to = "expired" => s = "admitted"
         /\ to = "not_placed" => s = "outcome_unknown"
BY DEF TRANSITIONS, States, Unresolved

\* What the invariant says of the record itself.
LEMMA RecordOf ==
  ASSUME IInv
  PROVE  /\ IsRecord(intent)
         /\ intent = [intent EXCEPT !.counted = intent.counted]
         /\ \A to : [intent EXCEPT !.state = to]
                      = [intent EXCEPT !.state = to, !.counted = intent.counted]
         /\ intent.state \in States /\ intent.counted \in BOOLEAN /\ intent.kind \in Kinds
         /\ Len(intent.attempts) \in Nat
         /\ intent.attempts # <<>> <=> Len(intent.attempts) > 0
         /\ intent.attempts # <<>> => intent.state \notin {"received", "admitted", "expired"}
<1>1. IsRecord(intent)
  BY DEF IInv, TypeOK
<1>2. intent \in [kind : Kinds, state : States, attempts : Seq(Times), counted : BOOLEAN]
  BY <1>1 DEF IsRecord
<1>3. Len(intent.attempts) \in Nat /\ (intent.attempts # <<>> <=> Len(intent.attempts) > 0)
  BY <1>2, EmptySeq, LenProperties
<1> QED BY <1>1, <1>2, <1>3 DEF IsRecord

\* What the invariant says of an order the record sent.
LEMMA SentOf ==
  ASSUME IInv, NEW id \in Sent(intent)
  PROVE  /\ id \in Attempts /\ id \in 1..Len(intent.attempts)
         /\ Len(intent.attempts) \in Nat /\ intent.attempts # <<>>
         /\ intent.kind = "entry" => id = 1 /\ Len(intent.attempts) = 1
<1> DEFINE n == Len(intent.attempts)
<1>1. IsRecord(intent) /\ n \in Nat
  BY RecordOf
<1>2. id \in Attempts
  BY <1>1, SentAreAttempts
<1>3. id \in 1..n
  BY DEF Sent
<1>4. intent.kind = "entry" => n <= 1
  BY <1>1 DEF IsRecord
<1>5. intent.attempts # <<>> <=> n > 0
  BY RecordOf
<1> HIDE DEF n
<1>6. n > 0 /\ (intent.kind = "entry" => id = 1 /\ n = 1)
  BY <1>1, <1>3, <1>4
<1> QED BY <1>1, <1>2, <1>3, <1>5, <1>6 DEF n

\* move_to leads to no state that needs evidence.
LEMMA MoveToInv ==
  ASSUME IInv, NEW to \in States, MoveTo(to) PROVE IInv'
<1>1. /\ <<intent.state, to>> \in TRANSITIONS /\ to \notin Gated(intent.state)
      /\ UNCHANGED <<stored, venue, evidence, now>>
      /\ intent' = [intent EXCEPT !.state = to, !.counted = intent.counted]
  BY RecordOf DEF MoveTo
<1>2. to \notin {"partially_filled", "filled", "unfilled", "not_placed"}
  BY <1>1 DEF Gated
<1>3. to = "rejected" => intent.state \in {"received", "admitted"}
  BY <1>1, Moves DEF Gated, Unresolved
<1>4. intent.attempts # <<>> => to \notin {"received", "admitted", "expired", "rejected"}
  BY <1>1, <1>3, Moves, RecordOf
<1>5. ~intent.counted
  BY <1>1, <1>2, Moves, RecordOf DEF IInv, Counted, Unresolved
<1> HIDE DEF IInv
<1> QED BY <1>1, <1>2, <1>4, <1>5, RecordOf, StateMoves

\* What a reported order says is so of the venue's own.
LEMMA ReportIsTrue ==
  ASSUME IInv, NEW id \in Attempts, NEW order \in reported[id]
  PROVE  /\ order \in ReportedOrders
         /\ order.filled > 0 => orders[id].filled > 0
         /\ IsFinal(order) => IsFinal(orders[id])
         /\ NothingExecuted(order) => NothingExecuted(orders[id])
<1>1. id \in Ids
  BY DEF Ids
<1>2. order \in ReportedOrders /\ orders[id] \in Orders
  BY <1>1 DEF IInv, TypeOK, ReportedOrders, Orders
<1>3. /\ order.filled <= orders[id].filled
      /\ IsFinal(order) => orders[id].status = order.status /\ orders[id].filled = order.filled
  BY DEF IInv, Behind
<1>4. order.filled \in Nat /\ orders[id].filled \in Nat
  BY <1>2, BoundsAssumption DEF ReportedOrders, Orders
<1> QED BY <1>2, <1>3, <1>4 DEF IsFinal, NothingExecuted

\* The one attempt of an entry decides, the latest of an exit.
LEMMA NotSuperseded ==
  ASSUME IInv, NEW id \in Sent(intent), ~Superseded(id)
  PROVE  id = Decides(intent)
<1>1. intent.kind \in {"entry", "exit"}
  BY RecordOf, BoundsAssumption
<1> QED BY <1>1, SentOf DEF Superseded, Decides

\* An order read back proves no more than the venue's order.
LEMMA OnOrderInv ==
  ASSUME IInv, NEW id \in Ids, NEW order \in reported[id], OnOrder(id, order)
  PROVE  IInv'
<1> DEFINE to == AfterOrder(id, order)
           counted == intent.counted \/ order.filled > 0
<1>1. /\ Own(id) /\ to # Refused /\ UNCHANGED <<stored, venue, evidence, now>>
      /\ intent' = [intent EXCEPT !.state = to, !.counted = counted]
  BY DEF OnOrder
<1>2. id \in Sent(intent) /\ id \in Attempts /\ intent.attempts # <<>>
  BY <1>1, RecordOf, OwnIsSent, SentOf
<1>3. /\ order \in ReportedOrders
      /\ order.filled > 0 => orders[id].filled > 0
      /\ IsFinal(order) => IsFinal(orders[id])
      /\ NothingExecuted(order) => NothingExecuted(orders[id])
  BY <1>2, ReportIsTrue
<1>4. order.filled \in Nat
  BY <1>3, BoundsAssumption DEF ReportedOrders
<1>5. counted \in BOOLEAN
  BY RecordOf
<1>6. CASE to = intent.state
  <2>1. order.filled > 0 => to \in {"filled", "partially_filled"}
    <3>1. CASE Superseded(id) /\ NothingExecuted(order)
      BY <3>1, <1>4 DEF NothingExecuted
    <3>2. CASE ~(Superseded(id) /\ NothingExecuted(order))
      BY <3>2, <1>1, <1>3, RecordOf, OrderSays DEF AfterOrder
    <3> QED BY <3>1, <3>2
  <2>2. counted => to \in {"filled", "partially_filled"}
    BY <1>6, <2>1 DEF IInv, Counted
  <2>3. /\ to \in States /\ to \notin {"received", "admitted", "expired"}
        /\ to = "filled" => \E own \in Sent(intent) : IsFinal(orders[own]) /\ orders[own].filled > 0
        /\ to = "partially_filled" => \E own \in Sent(intent) : orders[own].filled > 0
        /\ to \in {"rejected", "unfilled"} =>
             Never(intent, Decides(intent)) \/ NothingExecuted(orders[Decides(intent)])
        /\ intent.kind = "entry" /\ to = "not_placed" => Never(intent, 1)
    BY <1>2, <1>6, RecordOf DEF IInv, Executed, Over, Decides
  <2> HIDE DEF to, counted
  <2> QED BY <1>1, <1>5, <2>2, <2>3, StateMoves
<1>7. CASE to # intent.state
  <2>1. ~(Superseded(id) /\ NothingExecuted(order)) /\ to = OnOrderState(intent.state, order)
    BY <1>7 DEF AfterOrder
  <2>2. /\ to \in {"rejected", "unfilled", "filled", "partially_filled"} /\ to \in States
        /\ to \in {"rejected", "unfilled"} => NothingExecuted(order)
        /\ to = "filled" => IsFinal(order) /\ order.filled > 0
        /\ to = "partially_filled" => order.filled > 0
        /\ order.filled > 0 => to \in {"filled", "partially_filled"}
        /\ intent.state \in {"filled", "partially_filled"} =>
             to \in {"filled", "partially_filled"}
    BY <1>1, <1>3, <1>7, <2>1, RecordOf, OrderSays
  <2>3. to \in {"rejected", "unfilled"} => NothingExecuted(orders[Decides(intent)])
    BY <1>2, <1>3, <2>1, <2>2, NotSuperseded
  <2>4. counted => to \in {"filled", "partially_filled"}
    BY <2>2 DEF IInv, Counted
  <2> HIDE DEF to, counted
  <2> QED BY <1>1, <1>2, <1>3, <1>5, <2>2, <2>3, <2>4, StateMoves
<1> QED BY <1>6, <1>7

\* A fill is of an order of the record's that executed.
LEMMA OnFillInv ==
  ASSUME IInv, NEW id \in Ids, OnFill(id), \E order \in reported[id] : order.filled > 0
  PROVE  IInv'
<1> DEFINE to == OnFillState(intent.state)
<1>1. /\ Own(id) /\ to # Refused /\ UNCHANGED <<stored, venue, evidence, now>>
      /\ intent' = [intent EXCEPT !.state = to, !.counted = TRUE]
  BY DEF OnFill
<1>2. id \in Sent(intent) /\ id \in Attempts /\ intent.attempts # <<>>
  BY <1>1, RecordOf, OwnIsSent, SentOf
<1>3. orders[id].filled > 0
  BY <1>2, ReportIsTrue
<1>4. to \in {"partially_filled", "filled"} /\ (to = "filled" => intent.state = "filled")
  BY <1>1 DEF OnFillState, Refused
<1>5. to = "filled" =>
        \E own \in Sent(intent) : IsFinal(orders[own]) /\ orders[own].filled > 0
  BY <1>4 DEF IInv, Executed
<1>6. to \in States
  BY <1>4 DEF States
<1> HIDE DEF to
<1> QED BY <1>1, <1>2, <1>3, <1>4, <1>5, <1>6, StateMoves

\* A refusal of the attempt that decides ends the intent.
LEMMA OnRejectionInv ==
  ASSUME IInv, NEW id \in Attempts, orders[id].status = "turned_down", OnRejection(id)
  PROVE  IInv'
<1>1. /\ Own(id) /\ ~Superseded(id) /\ UNCHANGED <<stored, venue, evidence, now>>
      /\ intent' = [intent EXCEPT !.state = "rejected", !.counted = intent.counted]
      /\ intent.state = "submitting" \/ <<intent.state, "rejected">> \in TRANSITIONS
  BY RecordOf DEF OnRejection
<1>2. id \in Sent(intent)
  BY <1>1, RecordOf, OwnIsSent DEF Ids
<1>3. Never(intent, Decides(intent))
  BY <1>1, <1>2, NotSuperseded DEF Never
<1>4. ~intent.counted
  BY <1>1, Moves DEF IInv, Counted, Unresolved
<1>5. "rejected" \in States
  BY DEF States
<1> QED BY <1>1, <1>3, <1>4, <1>5, RecordOf, StateMoves

\* The evidence of a lookup and a snapshot is of an order that will never be.
LEMMA EntryNotPlacedInv ==
  ASSUME IInv, EntryNotPlaced PROVE IInv'
<1>1. /\ intent.kind = "entry" /\ lookup # NoLookup /\ Own(lookup.id)
      /\ Proven(intent.attempts[lookup.id])
      /\ <<intent.state, "not_placed">> \in TRANSITIONS
      /\ UNCHANGED <<stored, venue, evidence, now>>
      /\ intent' = [intent EXCEPT !.state = "not_placed", !.counted = intent.counted]
  BY RecordOf DEF EntryNotPlaced
<1>2. lookup.id \in Ids
  BY <1>1 DEF IInv, TypeOK
<1>3. lookup.id \in Sent(intent)
  BY <1>1, <1>2, RecordOf, OwnIsSent
<1>4. lookup.id = 1
  BY <1>1, <1>3, SentOf
<1>5. Never(intent, 1)
  BY <1>1, <1>3, <1>4 DEF IInv, LookupTrue, Proven
<1>6. ~intent.counted
  BY <1>1, Moves DEF IInv, Counted
<1>7. "not_placed" \in States
  BY DEF States
<1> QED BY <1>1, <1>5, <1>6, <1>7, RecordOf, StateMoves

\* A new attempt is later than all evidence.
LEMMA RecordAttemptInv ==
  ASSUME IInv, RecordAttempt PROVE IInv'
<1> DEFINE n == Len(intent.attempts)
           state == IF intent.state = "admitted" THEN "submitting" ELSE intent.state
<1>1. /\ stored' = stored /\ orders' = orders /\ reported' = reported /\ lookup' = lookup
      /\ observed' = observed /\ now' = now
      /\ n < MaxAttempts /\ MayAttempt
      /\ intent' = [intent EXCEPT !.state = state, !.attempts = Append(intent.attempts, now)]
  BY DEF RecordAttempt, venue, evidence
<1>2. /\ intent \in [kind : Kinds, state : States, attempts : Seq(Times), counted : BOOLEAN]
      /\ n \in Nat /\ now \in Times /\ MaxAttempts \in Nat
      /\ IsRecord(stored) /\ stored.kind = intent.kind
  BY RecordOf, BoundsAssumption DEF IsRecord, IInv, TypeOK
<1>3. /\ Append(intent.attempts, now) \in Seq(Times)
      /\ Len(Append(intent.attempts, now)) = n + 1
      /\ \A i \in 1..n : Append(intent.attempts, now)[i] = intent.attempts[i]
      /\ Append(intent.attempts, now)[n + 1] = now
  BY <1>2, AppendProperties
<1>4. intent.state \in {"admitted", "submitting", "outcome_unknown"} /\ ~intent.counted
  BY <1>1 DEF MayAttempt, Unresolved, IInv, Counted
<1>5. state \in {"submitting", "outcome_unknown"} /\ state \in States
  BY <1>4 DEF States
<1>6. intent.kind = "entry" => n = 0
  <2>1. Len(<<>>) = 0
    BY EmptySeq
  <2>2. intent.kind = "entry" /\ intent.attempts # <<>> => intent.state # "admitted"
    BY RecordOf
  <2> QED BY <1>1, <2>1, <2>2 DEF MayAttempt
<1> HIDE DEF n, state
<1>7. /\ intent'.kind = intent.kind /\ intent'.state = state
      /\ intent'.attempts = Append(intent.attempts, now) /\ intent'.counted = intent.counted
  BY <1>1, <1>2
<1>8. IsRecord(intent')
  <2>1. intent' \in [kind : Kinds, state : States, attempts : Seq(Times), counted : BOOLEAN]
    BY <1>1, <1>2, <1>3, <1>5
  <2>2. Len(intent'.attempts) = n + 1
    BY <1>3, <1>7
  <2>3. n + 1 <= MaxAttempts /\ (intent.kind = "entry" => n + 1 <= 1)
    BY <1>1, <1>2, <1>6
  <2> QED BY <1>5, <1>7, <2>1, <2>2, <2>3 DEF IsRecord
<1>9. TypeOK'
  BY <1>1, <1>2, <1>7, <1>8 DEF TypeOK, IsRecord, IInv
<1>10. /\ Sent(stored)' = Sent(stored) /\ Sent(intent) = 1..n /\ Sent(intent)' = 1..n + 1
       /\ \A i \in 1..n : intent'.attempts[i] = intent.attempts[i]
       /\ intent'.attempts[n + 1] = now
  BY <1>1, <1>3, <1>7 DEF Sent, n
<1>11. Saved'
  <2>1. Len(stored.attempts) <= n /\ Len(stored.attempts) \in Nat
    BY <1>2, LenProperties DEF IInv, Saved, n, IsRecord
  <2>2. Len(intent'.attempts) = n + 1
    BY <1>3, <1>7
  <2>3. \A i \in Sent(stored) : i \in 1..n
    BY <1>2, <2>1 DEF Sent
  <2> QED BY <1>1, <1>2, <1>10, <2>1, <2>2, <2>3 DEF IInv, Saved
<1>12. VenueInv' /\ Behind' /\ (lookup.at <= now)'
  BY <1>1, <1>10 DEF IInv, VenueInv, Behind, Working, IsFinal
<1>13. InTime'
  <2> SUFFICES ASSUME LookupsVerified, NEW i \in 1..n + 1, now >= intent'.attempts[i] + Delay
               PROVE  Settled(i)'
    BY <1>1, <1>10 DEF InTime
  <2>1. i # n + 1
    <3>1. now \in Nat /\ Delay \in Nat /\ Delay > 0
      BY <1>2, BoundsAssumption DEF Times
    <3>2. i = n + 1 => intent'.attempts[i] = now
      BY <1>10
    <3> QED BY <3>1, <3>2
  <2>2. i \in 1..n
    BY <1>2, <2>1
  <2>3. Settled(i)
    BY <1>10, <2>2 DEF IInv, InTime
  <2> QED BY <1>1, <2>3 DEF Settled
<1>14. LookupTrue'
  <2> SUFFICES ASSUME NEW i \in 1..n + 1, LookupsVerified, intent.kind = "entry",
                      lookup # NoLookup, lookup.id = i,
                      lookup.at >= intent'.attempts[i] + Delay,
                      lookup.at <= intent'.attempts[i] + Retention
               PROVE  Never(intent, i)'
    BY <1>1, <1>7, <1>10 DEF LookupTrue
  <2>1. lookup.at \in Nat /\ lookup.at <= now /\ now \in Nat
    BY <1>2 DEF IInv, TypeOK, Times
  <2>2. i # n + 1
    BY <1>10, <2>1, BoundsAssumption
  <2>3. i \in 1..n
    BY <1>2, <2>2
  <2>4. Never(intent, i)
    BY <1>10, <2>3 DEF IInv, LookupTrue
  <2> QED BY <1>1, <1>10, <2>3, <2>4 DEF Never
<1>15. Counted(intent)' /\ Executed(intent)' /\ Over(intent)'
  BY <1>4, <1>5, <1>7 DEF Counted, Executed, Over
<1>16. Counted(stored)' /\ Executed(stored)'
  BY <1>1, <1>10 DEF IInv, Counted, Executed, IsFinal
<1>17. Over(stored)'
  BY <1>1 DEF IInv, Over, Never, NothingExecuted, IsFinal
<1> QED BY <1>9, <1>11, <1>12, <1>13, <1>14, <1>15, <1>16, <1>17 DEF IInv

\* Saving keeps what is true of the record true of its copy.
LEMMA SaveInv ==
  ASSUME IInv, Save PROVE IInv'
<1> USE DEF IInv
<1>1. /\ intent' = intent /\ stored' = intent /\ orders' = orders /\ reported' = reported
      /\ lookup' = lookup /\ observed' = observed /\ now' = now
  BY DEF Save, venue, evidence
<1>2. TypeOK' /\ (lookup.at <= now)'
  BY <1>1 DEF TypeOK, IsRecord
<1>3. Sent(intent)' = Sent(intent) /\ Sent(stored)' = Sent(intent)
      /\ Sent(stored) \subseteq Sent(intent)
  <2>1. Len(stored.attempts) <= Len(intent.attempts) /\ Len(stored.attempts) \in Nat
        /\ Len(intent.attempts) \in Nat
    BY LenProperties DEF Saved, TypeOK, IsRecord
  <2> QED BY <1>1, <2>1 DEF Sent
<1>4. Saved'
  <2>1. Len(intent.attempts) \in Nat
    BY RecordOf
  <2>2. Len(intent.attempts) <= Len(intent.attempts)
    BY <2>1
  <2> QED BY <1>1, <2>2 DEF Saved
<1>5. VenueInv'
  BY <1>1, <1>3 DEF VenueInv, Working, IsFinal
<1>6. Behind'
  BY <1>1 DEF Behind
<1>7. InTime'
  BY <1>1, <1>3 DEF InTime, Settled
<1>8. LookupTrue'
  BY <1>1, <1>3 DEF LookupTrue, Never
<1>9. Counted(intent)' /\ Counted(stored)'
  BY <1>1 DEF Counted
<1>10. Executed(intent)' /\ Executed(stored)'
  BY <1>1, <1>3 DEF Executed, IsFinal
<1>11. Over(intent)' /\ Over(stored)'
  BY <1>1 DEF Over, Never, NothingExecuted, IsFinal
<1> QED BY <1>2, <1>4, <1>5, <1>6, <1>7, <1>8, <1>9, <1>10, <1>11

\* Loading forgets what was not saved, none of which was sent.
LEMMA LoadInv ==
  ASSUME IInv, Load PROVE IInv'
<1> USE DEF IInv
<1>1. /\ intent' = stored /\ stored' = stored /\ orders' = orders /\ reported' = reported
      /\ lookup' = NoLookup /\ observed' = NoSnapshot /\ now' = now
  BY DEF Load, venue
<1>2. now \in Nat /\ 0 \in Times /\ now \in Times
  BY BoundsAssumption DEF TypeOK, Times
<1>3. TypeOK' /\ (lookup.at <= now)'
  BY <1>1, <1>2 DEF TypeOK, IsRecord, NoLookup, NoSnapshot
<1>4. /\ Sent(intent)' = Sent(stored) /\ Sent(stored)' = Sent(stored)
      /\ Sent(stored) \subseteq Sent(intent) /\ Len(stored.attempts) \in Nat
  <2>1. Len(stored.attempts) <= Len(intent.attempts) /\ Len(stored.attempts) \in Nat
        /\ Len(intent.attempts) \in Nat
    BY LenProperties DEF Saved, TypeOK, IsRecord
  <2> QED BY <1>1, <2>1 DEF Sent
<1>5. Saved'
  BY <1>1, <1>4 DEF Saved
<1>6. VenueInv'
  BY <1>1, <1>4 DEF VenueInv, Working, IsFinal
<1>7. Behind'
  BY <1>1 DEF Behind
<1>8. InTime'
  BY <1>1, <1>4 DEF InTime, Settled, Saved
<1>9. LookupTrue'
  BY <1>1 DEF LookupTrue
<1>10. Counted(intent)' /\ Counted(stored)'
  BY <1>1 DEF Counted
<1>11. Executed(intent)' /\ Executed(stored)'
  BY <1>1, <1>4 DEF Executed, IsFinal
<1>12. Over(intent)' /\ Over(stored)'
  BY <1>1 DEF Over, Never, NothingExecuted, IsFinal
<1> QED BY <1>3, <1>5, <1>6, <1>7, <1>8, <1>9, <1>10, <1>11, <1>12

\* What a step of one of the venue's orders has to keep.
LEMMA OrderMoves ==
  ASSUME IInv, UNCHANGED <<intent, stored, evidence, now>>,
         NEW id \in Attempts, NEW order \in Orders,
         orders' = [orders EXCEPT ![id] = order],
         \/ reported' = reported
         \/ reported' = [reported EXCEPT
              ![id] = reported[id] \cup {[status |-> order.status, filled |-> order.filled]}],
         orders[id].filled <= order.filled,
         IsFinal(orders[id]) => order.status = orders[id].status
                                /\ order.filled = orders[id].filled,
         orders[id].status \in {"turned_down", "lost"} => order.status = orders[id].status,
         orders[id].status = "unsent" => \A record \in {intent, stored} :
           id \in Sent(record) => ~ (now > record.attempts[id]),
         order.status # "unsent" => id \in Sent(stored),
         order.visible => order.status \in {"new", "partially_filled"} \/ IsFinal(order),
         order.status \in {"unsent", "flight"} => order.filled = 0,
         order.status \in {"new", "partially_filled"} => order.filled < Quantity,
         LookupsVerified /\ id \in Sent(intent) /\ now >= intent.attempts[id] + Delay /\ Settled(id) =>
           order.status \in {"unsent", "turned_down", "lost"} \/ order.visible
  PROVE  IInv'
<1> USE DEF IInv
<1>1. /\ intent' = intent /\ stored' = stored /\ lookup' = lookup /\ observed' = observed
      /\ now' = now
  BY DEF evidence
<1>2. /\ orders \in [Attempts -> Orders] /\ reported \in [Ids -> SUBSET ReportedOrders]
      /\ id \in Ids
  BY DEF TypeOK, Orders, ReportedOrders, Ids
<1>3. orders' \in [Attempts -> Orders] /\ reported' \in [Ids -> SUBSET ReportedOrders]
  <2>1. [status |-> order.status, filled |-> order.filled] \in ReportedOrders
    BY DEF Orders, ReportedOrders
  <2> QED BY <1>2, <2>1
<1>4. TypeOK' /\ (lookup.at <= now)'
  BY <1>1, <1>3 DEF TypeOK, IsRecord, Orders, ReportedOrders
<1>5. Sent(intent)' = Sent(intent) /\ Sent(stored)' = Sent(stored)
  BY <1>1 DEF Sent
<1>6. Saved'
  BY <1>1, <1>5 DEF Saved
<1>7. /\ orders'[id] = order
      /\ \A i \in Attempts : i # id => orders'[i] = orders[i]
  BY <1>2
<1>8. VenueInv'
  <2> SUFFICES ASSUME NEW i \in Attempts
               PROVE  (/\ orders[i].status # "unsent" => i \in Sent(stored)
                       /\ orders[i].visible => Working(i) \/ IsFinal(orders[i])
                       /\ orders[i].status \in {"unsent", "flight"} => orders[i].filled = 0
                       /\ Working(i) => orders[i].filled < Quantity)'
    BY DEF VenueInv
  <2>1. CASE i = id
    BY <1>5, <1>7, <2>1 DEF Working, IsFinal
  <2>2. CASE i # id
    BY <1>5, <1>7, <2>2 DEF VenueInv, Working, IsFinal
  <2> QED BY <2>1, <2>2
<1>9. Behind'
  <2> SUFFICES ASSUME NEW i \in Attempts, NEW told \in reported'[i]
               PROVE  /\ told.filled <= orders'[i].filled
                      /\ IsFinal(told) => /\ orders'[i].status = told.status
                                          /\ orders'[i].filled = told.filled
    BY DEF Behind, IsFinal
  <2>1. i \in Ids /\ orders[i] \in Orders
    BY <1>2 DEF Ids
  <2>2. CASE i # id
    <3>1. told \in reported[i]
      BY <1>2, <2>1, <2>2
    <3> QED BY <1>7, <2>2, <3>1 DEF Behind
  <2>3. CASE i = id /\ told \in reported[id]
    <3>1. told \in ReportedOrders
      BY <1>2, <2>3
    <3>2. /\ told.filled <= orders[id].filled
          /\ IsFinal(told) => orders[id].status = told.status /\ orders[id].filled = told.filled
      BY <2>3 DEF Behind
    <3>3. told.filled \in Nat /\ orders[id].filled \in Nat /\ order.filled \in Nat
      BY <1>2, <3>1, BoundsAssumption DEF Orders, ReportedOrders
    <3>4. told.filled <= order.filled
      BY <3>2, <3>3
    <3>5. IsFinal(told) => IsFinal(orders[id])
      BY <3>2 DEF IsFinal
    <3> QED BY <1>7, <2>3, <3>2, <3>4, <3>5
  <2>4. CASE i = id /\ told \notin reported[id]
    <3>1. told = [status |-> order.status, filled |-> order.filled]
      BY <1>2, <2>4
    <3>2. order.filled \in Nat
      BY BoundsAssumption DEF Orders
    <3> QED BY <1>7, <2>4, <3>1, <3>2
  <2> QED BY <2>2, <2>3, <2>4
<1>10. InTime'
  <2> SUFFICES ASSUME LookupsVerified, NEW i \in Sent(intent), now >= intent.attempts[i] + Delay
               PROVE  Settled(i)'
    BY <1>1, <1>5 DEF InTime
  <2>1. Settled(i) /\ i \in Attempts
    BY SentOf DEF InTime
  <2>2. CASE i = id
    BY <1>7, <2>1, <2>2 DEF Settled
  <2>3. CASE i # id
    BY <1>7, <2>1, <2>3 DEF Settled
  <2> QED BY <2>2, <2>3
<1>11. ASSUME NEW record \in {intent, stored}, NEW i \in Sent(record)
       PROVE  /\ Never(record, i) => \/ orders'[i].status \in {"turned_down", "lost"}
                                     \/ orders'[i].status = "unsent" /\ now > record.attempts[i]
              /\ NothingExecuted(orders[i]) => NothingExecuted(orders'[i])
              /\ orders[i].filled > 0 => orders'[i].filled > 0
              /\ IsFinal(orders[i]) => IsFinal(orders'[i])
  <2>1. i \in Attempts
    BY <1>11, SentAreAttempts DEF TypeOK
  <2>2. orders[i] \in Orders
    BY <1>2, <2>1
  <2>3. order.filled \in Nat /\ orders[i].filled \in Nat
    BY <2>2, BoundsAssumption DEF Orders
  <2>4. CASE i = id
    BY <1>7, <1>11, <2>3, <2>4 DEF Never, NothingExecuted, IsFinal
  <2>5. CASE i # id
    BY <1>7, <2>1, <2>5 DEF Never
  <2> QED BY <2>4, <2>5
<1>12. LookupTrue'
  <2> SUFFICES ASSUME NEW i \in Sent(intent), LookupsVerified, intent.kind = "entry",
                      lookup # NoLookup, lookup.id = i,
                      lookup.at >= intent.attempts[i] + Delay,
                      lookup.at <= intent.attempts[i] + Retention
               PROVE  Never(intent, i)'
    BY <1>1, <1>5 DEF LookupTrue
  <2>1. Never(intent, i)
    BY DEF LookupTrue
  <2> QED BY <1>1, <1>11, <2>1 DEF Never
<1>13. Counted(intent)' /\ Counted(stored)'
  BY <1>1 DEF Counted
<1>14. ASSUME NEW record \in {intent, stored}
       PROVE  /\ record.state = "filled" =>
                   \E i \in Sent(record) : IsFinal(orders'[i]) /\ orders'[i].filled > 0
              /\ record.state = "partially_filled" =>
                   \E i \in Sent(record) : orders'[i].filled > 0
  BY <1>11, <1>14 DEF Executed
<1>15. Executed(intent)' /\ Executed(stored)'
  BY <1>1, <1>5, <1>14 DEF Executed, IsFinal
<1>16. ASSUME NEW record \in {intent, stored}, record.attempts # <<>>
       PROVE  Decides(record) \in Sent(record) /\ (record.kind = "entry" => 1 \in Sent(record))
  <2>1. record.attempts \in Seq(Times)
    BY <1>16 DEF TypeOK, IsRecord
  <2>2. Len(record.attempts) \in Nat \ {0}
    BY <1>16, <2>1, EmptySeq
  <2> QED BY <2>2 DEF Decides, Sent
<1>17. ASSUME NEW record \in {intent, stored}, record.attempts # <<>>
       PROVE  /\ record.state \in {"rejected", "unfilled"} =>
                   \/ orders'[Decides(record)].status \in {"turned_down", "lost"}
                   \/ /\ orders'[Decides(record)].status = "unsent"
                      /\ now > record.attempts[Decides(record)]
                   \/ NothingExecuted(orders'[Decides(record)])
              /\ record.kind = "entry" /\ record.state = "not_placed" =>
                   \/ orders'[1].status \in {"turned_down", "lost"}
                   \/ orders'[1].status = "unsent" /\ now > record.attempts[1]
  <2>1. Over(record)
    BY <1>17
  <2>2. record.state \in {"rejected", "unfilled"} =>
          Never(record, Decides(record)) \/ NothingExecuted(orders[Decides(record)])
    BY <1>17, <2>1 DEF Over, Decides
  <2>3. record.kind = "entry" /\ record.state = "not_placed" => Never(record, 1)
    BY <1>17, <2>1 DEF Over
  <2> QED BY <1>11, <1>16, <1>17, <2>2, <2>3
<1>18. Over(intent)' /\ Over(stored)'
  BY <1>1, <1>17 DEF Over, Decides, Never, NothingExecuted, IsFinal
<1> QED BY <1>4, <1>6, <1>8, <1>9, <1>10, <1>12, <1>13, <1>15, <1>18

\* The venue's order before one of its steps.
LEMMA OrderOf ==
  ASSUME IInv, NEW id \in Attempts
  PROVE  /\ orders[id] \in Orders /\ orders[id].filled \in Nat
         /\ orders[id].filled <= Quantity /\ Quantity \in Nat \ {0}
         /\ orders[id].status # "unsent" => id \in Sent(stored)
         /\ orders[id].visible => Working(id) \/ IsFinal(orders[id])
         /\ orders[id].status \in {"unsent", "flight"} => orders[id].filled = 0
         /\ Working(id) => orders[id].filled < Quantity
<1>1. orders[id] \in Orders /\ Quantity \in Nat \ {0}
  BY BoundsAssumption DEF IInv, TypeOK, Orders
<1> QED BY <1>1 DEF IInv, VenueInv, Orders

\* Only what was saved is sent.
LEMMA SendInv ==
  ASSUME IInv, NEW id \in Attempts, Send(id) PROVE IInv'
<1>1. /\ UNCHANGED <<intent, stored, reported, evidence, now>>
      /\ id \in Sent(intent) /\ id \in Sent(stored) /\ stored.attempts[id] = now
      /\ orders[id].status = "unsent"
      /\ orders' = [orders EXCEPT ![id] = [orders[id] EXCEPT !.status = "flight"]]
  BY DEF Send
<1>2. PICK order : order = [orders[id] EXCEPT !.status = "flight"]
  OBVIOUS
<1>3. /\ order \in Orders /\ order.status = "flight" /\ order.filled = orders[id].filled
      /\ order.visible = orders[id].visible
  BY <1>2, OrderOf DEF Orders, Statuses
<1>4. intent.attempts[id] = now /\ now \in Nat /\ Delay \in Nat /\ Delay > 0
  BY <1>1, BoundsAssumption DEF IInv, Saved, TypeOK, Times
<1>5. ~order.visible
  BY <1>1, <1>3, OrderOf DEF Working, IsFinal
<1>6. /\ orders' = [orders EXCEPT ![id] = order] /\ orders[id].filled <= order.filled
      /\ IsFinal(orders[id]) => order.status = orders[id].status
                                /\ order.filled = orders[id].filled
      /\ orders[id].status \in {"turned_down", "lost"} => order.status = orders[id].status
  BY <1>1, <1>2, <1>3, <1>4, <1>5, OrderOf DEF IsFinal, Working
<1>7. orders[id].status = "unsent" => \A record \in {intent, stored} :
         id \in Sent(record) => ~ (now > record.attempts[id])
  BY <1>1, <1>2, <1>3, <1>4, <1>5, OrderOf DEF Working, IsFinal
<1>8. /\ order.status # "unsent" => id \in Sent(stored)
      /\ order.visible => order.status \in {"new", "partially_filled"} \/ IsFinal(order)
      /\ order.status \in {"unsent", "flight"} => order.filled = 0
      /\ order.status \in {"new", "partially_filled"} => order.filled < Quantity
  BY <1>1, <1>2, <1>3, <1>4, <1>5, OrderOf DEF IsFinal, Working
<1>9. LookupsVerified /\ id \in Sent(intent) /\ now >= intent.attempts[id] + Delay /\ Settled(id) =>
         order.status \in {"unsent", "turned_down", "lost"} \/ order.visible
  BY <1>1, <1>2, <1>3, <1>4, <1>5 DEF Settled
<1> QED BY <1>1, <1>3, <1>6, <1>7, <1>8, <1>9, OrderMoves

\* The venue refuses or loses an order in flight.
LEMMA TurnInv ==
  ASSUME IInv, NEW id \in Attempts, Turn(id) PROVE IInv'
<1>1. /\ UNCHANGED <<intent, stored, reported, evidence, now>>
      /\ orders[id].status = "flight"
  BY DEF Turn
<1>2. PICK status \in {"turned_down", "lost"} :
        orders' = [orders EXCEPT ![id] = [orders[id] EXCEPT !.status = status]]
  BY DEF Turn
<1>3. PICK order : order = [orders[id] EXCEPT !.status = status]
  OBVIOUS
<1>4. /\ order \in Orders /\ order.status = status /\ order.filled = orders[id].filled
      /\ order.visible = orders[id].visible
  BY <1>3, OrderOf DEF Orders, Statuses
<1>5. ~order.visible
  BY <1>1, <1>4, OrderOf DEF Working, IsFinal
<1>6. /\ orders' = [orders EXCEPT ![id] = order] /\ orders[id].filled <= order.filled
      /\ IsFinal(orders[id]) => order.status = orders[id].status
                                /\ order.filled = orders[id].filled
      /\ orders[id].status \in {"turned_down", "lost"} => order.status = orders[id].status
  BY <1>1, <1>2, <1>3, <1>4, <1>5, OrderOf DEF IsFinal, Working
<1>7. orders[id].status = "unsent" => \A record \in {intent, stored} :
         id \in Sent(record) => ~ (now > record.attempts[id])
  BY <1>1, <1>2, <1>3, <1>4, <1>5, OrderOf DEF Working, IsFinal
<1>8. /\ order.status # "unsent" => id \in Sent(stored)
      /\ order.visible => order.status \in {"new", "partially_filled"} \/ IsFinal(order)
      /\ order.status \in {"unsent", "flight"} => order.filled = 0
      /\ order.status \in {"new", "partially_filled"} => order.filled < Quantity
  BY <1>1, <1>2, <1>3, <1>4, <1>5, OrderOf DEF IsFinal, Working
<1>9. LookupsVerified /\ id \in Sent(intent) /\ now >= intent.attempts[id] + Delay /\ Settled(id) =>
         order.status \in {"unsent", "turned_down", "lost"} \/ order.visible
  BY <1>1, <1>2, <1>3, <1>4, <1>5 DEF Settled
<1> QED BY <1>1, <1>4, <1>6, <1>7, <1>8, <1>9, OrderMoves

\* The venue accepts an order in flight, in time.
LEMMA AcceptInv ==
  ASSUME IInv, NEW id \in Attempts, Accept(id) PROVE IInv'
<1>1. PICK order : order = [orders[id] EXCEPT !.status = "new"]
  OBVIOUS
<1>2. /\ UNCHANGED <<intent, stored, evidence, now>> /\ orders[id].status = "flight"
      /\ orders' = [orders EXCEPT ![id] = order]
      /\ reported' = [reported EXCEPT
           ![id] = reported[id] \cup {[status |-> order.status, filled |-> order.filled]}]
  BY <1>1 DEF Accept, Report
<1>3. /\ order \in Orders /\ order.status = "new" /\ order.filled = orders[id].filled
      /\ order.visible = orders[id].visible
  BY <1>1, OrderOf DEF Orders, Statuses
<1>4. ~orders[id].visible /\ ~Settled(id)
  BY <1>2, OrderOf DEF Working, IsFinal, Settled
<1>5. /\ orders' = [orders EXCEPT ![id] = order] /\ orders[id].filled <= order.filled
      /\ IsFinal(orders[id]) => order.status = orders[id].status
                                /\ order.filled = orders[id].filled
      /\ orders[id].status \in {"turned_down", "lost"} => order.status = orders[id].status
  BY <1>2, <1>3, <1>4, OrderOf DEF IsFinal, Working
<1>6. orders[id].status = "unsent" => \A record \in {intent, stored} :
         id \in Sent(record) => ~ (now > record.attempts[id])
  BY <1>2, <1>3, <1>4, OrderOf DEF Working, IsFinal
<1>7. /\ order.status # "unsent" => id \in Sent(stored)
      /\ order.visible => order.status \in {"new", "partially_filled"} \/ IsFinal(order)
      /\ order.status \in {"unsent", "flight"} => order.filled = 0
      /\ order.status \in {"new", "partially_filled"} => order.filled < Quantity
  BY <1>2, <1>3, <1>4, OrderOf DEF IsFinal, Working
<1>8. LookupsVerified /\ id \in Sent(intent) /\ now >= intent.attempts[id] + Delay /\ Settled(id) =>
         order.status \in {"unsent", "turned_down", "lost"} \/ order.visible
  BY <1>2, <1>3, <1>4 DEF Settled
<1> QED BY <1>2, <1>3, <1>5, <1>6, <1>7, <1>8, OrderMoves

\* An order becomes visible to lookups.
LEMMA ShowInv ==
  ASSUME IInv, NEW id \in Attempts, Show(id) PROVE IInv'
<1>1. PICK order : order = [orders[id] EXCEPT !.visible = TRUE]
  OBVIOUS
<1>2. /\ UNCHANGED <<intent, stored, reported, evidence, now>>
      /\ Working(id) \/ IsFinal(orders[id])
      /\ orders' = [orders EXCEPT ![id] = order]
  BY <1>1 DEF Show
<1>3. /\ order \in Orders /\ order.status = orders[id].status
      /\ order.filled = orders[id].filled /\ order.visible
  BY <1>1, OrderOf DEF Orders
<1>4. /\ orders' = [orders EXCEPT ![id] = order] /\ orders[id].filled <= order.filled
      /\ IsFinal(orders[id]) => order.status = orders[id].status
                                /\ order.filled = orders[id].filled
      /\ orders[id].status \in {"turned_down", "lost"} => order.status = orders[id].status
  BY <1>2, <1>3, OrderOf DEF IsFinal, Working
<1>5. orders[id].status = "unsent" => \A record \in {intent, stored} :
         id \in Sent(record) => ~ (now > record.attempts[id])
  BY <1>2, <1>3, OrderOf DEF Working, IsFinal
<1>6. /\ order.status # "unsent" => id \in Sent(stored)
      /\ order.visible => order.status \in {"new", "partially_filled"} \/ IsFinal(order)
      /\ order.status \in {"unsent", "flight"} => order.filled = 0
      /\ order.status \in {"new", "partially_filled"} => order.filled < Quantity
  BY <1>2, <1>3, OrderOf DEF IsFinal, Working
<1>7. LookupsVerified /\ id \in Sent(intent) /\ now >= intent.attempts[id] + Delay /\ Settled(id) =>
         order.status \in {"unsent", "turned_down", "lost"} \/ order.visible
  BY <1>2, <1>3 DEF Settled
<1> QED BY <1>2, <1>3, <1>4, <1>5, <1>6, <1>7, OrderMoves

\* An order executes.
LEMMA ExecuteInv ==
  ASSUME IInv, NEW id \in Attempts, Execute(id) PROVE IInv'
<1> DEFINE status == IF orders[id].filled + 1 = Quantity THEN "filled" ELSE "partially_filled"
           done == orders[id].filled + 1
<1>1. PICK order : order = [orders[id] EXCEPT !.status = status, !.filled = done]
  OBVIOUS
<1>2. /\ UNCHANGED <<intent, stored, evidence, now>> /\ Working(id)
      /\ orders' = [orders EXCEPT ![id] = order]
      /\ reported' = [reported EXCEPT
           ![id] = reported[id] \cup {[status |-> order.status, filled |-> order.filled]}]
  BY <1>1 DEF Execute, Report
<1>3. /\ done \in 0..Quantity /\ status \in {"filled", "partially_filled"}
      /\ status = "partially_filled" => done < Quantity
      /\ orders[id].filled <= done
  BY <1>2, OrderOf
<1> HIDE DEF status, done
<1>4. /\ order \in Orders /\ order.status = status /\ order.filled = done
      /\ order.visible = orders[id].visible
  BY <1>1, <1>3, OrderOf DEF Orders, Statuses
<1>5. Settled(id) => orders[id].visible
  BY <1>2 DEF Settled, Working
<1> QED BY <1>2, <1>3, <1>4, <1>5, OrderOf, OrderMoves DEF IsFinal, Working

\* An order ends with what it has executed.
LEMMA EndInv ==
  ASSUME IInv, NEW id \in Attempts, End(id) PROVE IInv'
<1>1. PICK status \in {"canceled", "rejected"} : Report(id, [orders[id] EXCEPT !.status = status])
  BY DEF End
<1>2. PICK order : order = [orders[id] EXCEPT !.status = status]
  OBVIOUS
<1>3. /\ UNCHANGED <<intent, stored, evidence, now>> /\ Working(id)
      /\ orders' = [orders EXCEPT ![id] = order]
      /\ reported' = [reported EXCEPT
           ![id] = reported[id] \cup {[status |-> order.status, filled |-> order.filled]}]
  BY <1>1, <1>2 DEF End, Report
<1>4. /\ order \in Orders /\ order.status = status /\ order.filled = orders[id].filled
      /\ order.visible = orders[id].visible
  BY <1>2, OrderOf DEF Orders, Statuses
<1>5. Settled(id) => orders[id].visible
  BY <1>3 DEF Settled, Working
<1>6. /\ orders' = [orders EXCEPT ![id] = order] /\ orders[id].filled <= order.filled
      /\ IsFinal(orders[id]) => order.status = orders[id].status
                                /\ order.filled = orders[id].filled
      /\ orders[id].status \in {"turned_down", "lost"} => order.status = orders[id].status
  BY <1>3, <1>4, <1>5, OrderOf DEF IsFinal, Working
<1>7. orders[id].status = "unsent" => \A record \in {intent, stored} :
         id \in Sent(record) => ~ (now > record.attempts[id])
  BY <1>3, <1>4, <1>5, OrderOf DEF Working, IsFinal
<1>8. /\ order.status # "unsent" => id \in Sent(stored)
      /\ order.visible => order.status \in {"new", "partially_filled"} \/ IsFinal(order)
      /\ order.status \in {"unsent", "flight"} => order.filled = 0
      /\ order.status \in {"new", "partially_filled"} => order.filled < Quantity
  BY <1>3, <1>4, <1>5, OrderOf DEF IsFinal, Working
<1>9. LookupsVerified /\ id \in Sent(intent) /\ now >= intent.attempts[id] + Delay /\ Settled(id) =>
         order.status \in {"unsent", "turned_down", "lost"} \/ order.visible
  BY <1>3, <1>4, <1>5 DEF Settled
<1> QED BY <1>3, <1>4, <1>6, <1>7, <1>8, <1>9, OrderMoves

\* What changes neither the record nor the venue keeps of them.
LEMMA Unmoved ==
  ASSUME IInv, UNCHANGED <<intent, stored, orders, reported>>, now' \in Nat, now <= now'
  PROVE  /\ Saved' /\ VenueInv' /\ Behind'
         /\ Counted(intent)' /\ Counted(stored)'
         /\ Executed(intent)' /\ Executed(stored)'
         /\ Over(intent)' /\ Over(stored)'
         /\ \A id \in Sent(intent) : Never(intent, id) => Never(intent, id)'
<1> USE DEF IInv
<1>1. Sent(intent)' = Sent(intent) /\ Sent(stored)' = Sent(stored)
  BY DEF Sent
<1>2. Saved' /\ VenueInv' /\ Behind'
  BY <1>1 DEF Saved, VenueInv, Behind, Working, IsFinal
<1>3. Counted(intent)' /\ Counted(stored)' /\ Executed(intent)' /\ Executed(stored)'
  BY <1>1 DEF Counted, Executed, IsFinal
<1>4. ASSUME NEW record \in {intent, stored}, NEW id \in Sent(record), Never(record, id)
      PROVE  \/ orders[id].status \in {"turned_down", "lost"}
             \/ orders[id].status = "unsent" /\ now' > record.attempts[id]
  <2>1. record.attempts[id] \in Nat /\ now \in Nat
    BY <1>4, SentAreAttempts, BoundsAssumption DEF TypeOK, Times
  <2> QED BY <1>4, <2>1 DEF Never
<1>5. ASSUME NEW record \in {intent, stored}, record.attempts # <<>>
      PROVE  Decides(record) \in Sent(record) /\ (record.kind = "entry" => 1 \in Sent(record))
  <2>1. record.attempts \in Seq(Times)
    BY <1>5 DEF TypeOK, IsRecord
  <2>2. Len(record.attempts) \in Nat \ {0}
    BY <1>5, <2>1, EmptySeq
  <2> QED BY <2>2 DEF Decides, Sent
<1>6. ASSUME NEW record \in {intent, stored}, record.attempts # <<>>
      PROVE  /\ record.state \in {"rejected", "unfilled"} =>
                  \/ orders[Decides(record)].status \in {"turned_down", "lost"}
                  \/ /\ orders[Decides(record)].status = "unsent"
                     /\ now' > record.attempts[Decides(record)]
                  \/ NothingExecuted(orders[Decides(record)])
             /\ record.kind = "entry" /\ record.state = "not_placed" =>
                  \/ orders[1].status \in {"turned_down", "lost"}
                  \/ orders[1].status = "unsent" /\ now' > record.attempts[1]
  <2>1. Over(record)
    BY <1>6
  <2>2. record.state \in {"rejected", "unfilled"} =>
          Never(record, Decides(record)) \/ NothingExecuted(orders[Decides(record)])
    BY <1>6, <2>1 DEF Over, Decides
  <2>3. record.kind = "entry" /\ record.state = "not_placed" => Never(record, 1)
    BY <1>6, <2>1 DEF Over
  <2> QED BY <1>4, <1>5, <1>6, <2>2, <2>3
<1>7. Over(intent)' /\ Over(stored)'
  BY <1>6 DEF Over, Decides, Never, NothingExecuted, IsFinal
<1>8. \A id \in Sent(intent) : Never(intent, id) => Never(intent, id)'
  BY <1>4 DEF Never
<1> QED BY <1>2, <1>3, <1>7, <1>8

\* A lookup that finds nothing past the delay is of nothing that will be.
LEMMA LookUpInv ==
  ASSUME IInv, NEW id \in Ids, LookUp(id) PROVE IInv'
<1> USE DEF IInv
<1>1. /\ intent' = intent /\ stored' = stored /\ orders' = orders /\ reported' = reported
      /\ observed' = observed /\ now' = now /\ lookup' = [id |-> id, at |-> now] /\ Unseen(id)
  BY DEF LookUp, venue
<1>2. now \in Times /\ now \in Nat
  BY BoundsAssumption DEF TypeOK, Times
<1>3. lookup'.id = id /\ lookup'.at = now
  BY <1>1
<1>4. TypeOK' /\ (lookup.at <= now)'
  BY <1>1, <1>2, <1>3 DEF TypeOK, IsRecord
<1>5. InTime'
  BY <1>1 DEF InTime, Settled, Sent
<1>6. LookupTrue'
  <2> SUFFICES ASSUME NEW i \in Sent(intent), LookupsVerified, id = i,
                      now >= intent.attempts[i] + Delay, now <= intent.attempts[i] + Retention
               PROVE  Never(intent, i)'
    BY <1>1, <1>3 DEF LookupTrue, Sent
  <2>1. intent.attempts[i] \in Nat /\ i \in Attempts
    BY SentAreAttempts DEF TypeOK
  <2>2. Settled(i)
    BY DEF InTime
  <2>3. ~orders[i].visible
    <3>1. ~ (now > intent.attempts[i] + Retention)
      BY <1>2, <2>1, BoundsAssumption
    <3> QED BY <1>1, <2>1, <3>1 DEF Unseen
  <2>4. now > intent.attempts[i]
    BY <1>2, <2>1, BoundsAssumption
  <2> QED BY <1>1, <2>2, <2>3, <2>4 DEF Settled, Never
<1>7. now' \in Nat /\ now <= now'
  BY <1>1, <1>2
<1> QED BY <1>1, <1>4, <1>5, <1>6, <1>7, Unmoved

\* A snapshot of the position.
LEMMA ObserveInv ==
  ASSUME IInv, Observe PROVE IInv'
<1> USE DEF IInv
<1>1. /\ intent' = intent /\ stored' = stored /\ orders' = orders /\ reported' = reported
      /\ lookup' = lookup /\ now' = now
  BY DEF Observe, venue
<1>2. PICK flat \in BOOLEAN : observed' = [at |-> now, flat |-> flat]
  BY DEF Observe
<1>3. now \in Times /\ now \in Nat
  BY BoundsAssumption DEF TypeOK, Times
<1>4. TypeOK' /\ (lookup.at <= now)'
  BY <1>1, <1>2, <1>3 DEF TypeOK, IsRecord
<1>5. InTime' /\ LookupTrue'
  BY <1>1 DEF InTime, LookupTrue, Never, Settled, Sent
<1>6. now' \in Nat /\ now <= now'
  BY <1>1, <1>3
<1> QED BY <1>1, <1>4, <1>5, <1>6, Unmoved

\* Time passes, as far as a verified venue allows.
LEMMA TickInv ==
  ASSUME IInv, Tick PROVE IInv'
<1> USE DEF IInv
<1>1. /\ intent' = intent /\ stored' = stored /\ orders' = orders /\ reported' = reported
      /\ lookup' = lookup /\ observed' = observed /\ now' = now + 1 /\ now < MaxTime
      /\ LookupsVerified => \A id \in Sent(intent) :
                       now + 1 >= intent.attempts[id] + Delay => Settled(id)
  BY DEF Tick, venue, evidence
<1>2. now \in Nat /\ now' \in Nat /\ now <= now' /\ now' \in Times
  BY <1>1, BoundsAssumption DEF TypeOK, Times
<1>3. lookup.at \in Nat
  BY BoundsAssumption DEF TypeOK, Times, NoLookup
<1>4. TypeOK' /\ (lookup.at <= now)'
  BY <1>1, <1>2, <1>3 DEF TypeOK, IsRecord
<1>5. InTime'
  BY <1>1 DEF InTime, Settled, Sent
<1>6. LookupTrue'
  <2>1. \A id \in Sent(intent) : Never(intent, id) => Never(intent, id)'
    BY <1>1, <1>2, Unmoved
  <2>2. Sent(intent)' = Sent(intent)
    BY <1>1 DEF Sent
  <2> QED BY <1>1, <2>1, <2>2 DEF LookupTrue
<1> QED BY <1>1, <1>2, <1>4, <1>5, <1>6, Unmoved

\* No step changes nothing.
LEMMA StutterInv ==
  ASSUME IInv, UNCHANGED vars PROVE IInv'
<1>1. /\ intent' = intent /\ stored' = stored /\ orders' = orders /\ reported' = reported
      /\ lookup' = lookup /\ observed' = observed /\ now' = now
  BY DEF vars
<1>2. now \in Nat
  BY BoundsAssumption DEF IInv, TypeOK, Times
<1>3. TypeOK' /\ (lookup.at <= now)' /\ InTime' /\ LookupTrue'
  BY <1>1 DEF IInv, TypeOK, IsRecord, InTime, LookupTrue, Never, Settled, Sent
<1>4. now' \in Nat /\ now <= now'
  BY <1>1, <1>2
<1> QED BY <1>1, <1>3, <1>4, Unmoved DEF IInv

\* Every step of the record, its caller and the venue keeps the invariant.
THEOREM Inductive ==
  Spec => []IInv
<1>1. ASSUME IInv, [Next]_vars PROVE IInv'
  <2>1. CASE RecordStep
    BY <1>1, <2>1, MoveToInv, RecordAttemptInv, OnOrderInv, OnFillInv, OnRejectionInv,
       EntryNotPlacedInv DEF RecordStep
  <2>2. CASE CallerStep
    BY <1>1, <2>2, SaveInv, LoadInv, SendInv, LookUpInv, ObserveInv DEF CallerStep
  <2>3. CASE VenueStep
    BY <1>1, <2>3, TurnInv, AcceptInv, ShowInv, ExecuteInv, EndInv, TickInv DEF VenueStep
  <2>4. CASE UNCHANGED vars
    BY <1>1, <2>4, StutterInv
  <2> QED BY <1>1, <2>1, <2>2, <2>3, <2>4 DEF Next
<1> QED BY <1>1, InitInv, PTL DEF Spec

\* The record and the venue's orders stay of their types.
THEOREM TypeCorrect == Spec => []TypeOK
<1>1. IInv => TypeOK
  BY DEF IInv
<1> QED BY <1>1, Inductive, PTL

\* A record that says filled has an order of its own that executed.
THEOREM FilledIsExecutedAlways == Spec => []FilledIsExecuted
<1>1. IInv => FilledIsExecuted
  BY DEF IInv, Executed, FilledIsExecuted
<1> QED BY <1>1, Inductive, PTL

\* A record that is settled without a fill has no order that could still fill.
THEOREM SettledIsOverAlways == Spec => []SettledIsOver
<1>1. IInv => SettledIsOver
  BY DEF IInv, Over, Decides, Never, SettledIsOver, NeverPlaced
<1> QED BY <1>1, Inductive, PTL

\* Evidence of an execution is counted or refused.
THEOREM ExecutionCountsAlways == Spec => []ExecutionCounts
<1>1. IInv => ExecutionCounts
  BY DEF IInv, Counted, ExecutionCounts
<1> QED BY <1>1, Inductive, PTL

\* An entry is sent once, whenever the process is killed and whatever it saved.
THEOREM EntrySentOnceAlways == Spec => []EntrySentOnce
<1>1. ASSUME IInv PROVE EntrySentOnce
  <2> SUFFICES ASSUME intent.kind = "entry", NEW i \in Attempts, NEW j \in Attempts,
                      orders[i].status # "unsent", orders[j].status # "unsent"
               PROVE  i = j
    BY DEF EntrySentOnce
  <2>1. i \in Sent(stored) /\ j \in Sent(stored)
    BY <1>1, OrderOf
  <2>2. i \in Sent(intent) /\ j \in Sent(intent)
    <3>1. Len(stored.attempts) <= Len(intent.attempts) /\ Len(stored.attempts) \in Nat
          /\ Len(intent.attempts) \in Nat
      BY <1>1, LenProperties DEF IInv, Saved, TypeOK, IsRecord
    <3> QED BY <2>1, <3>1 DEF Sent
  <2> QED BY <1>1, <2>2, SentOf
<1> QED BY <1>1, Inductive, PTL

\* An intent past its submission has an attempt.
Attempted(record) ==
    record.state \in Unresolved \cup {"partially_filled", "filled", "unfilled", "not_placed"}
        => record.attempts # <<>>

\* What the record takes evidence of is an attempt.
LEMMA OwnIsAttempted ==
  ASSUME NEW id, Own(id) PROVE intent.attempts # <<>>
<1> SUFFICES ASSUME intent.attempts = <<>> PROVE FALSE
  OBVIOUS
<1>1. Sent(intent) = {}
  BY DEF Sent
<1>2. SentIds(intent) = {}
  BY <1>1 DEF SentIds
<1> QED BY <1>2 DEF Own

\* Who submits by an attempt has one in every record that says so.
LEMMA AttemptedStep ==
  ASSUME ~BareSubmit, IInv, Attempted(intent), Attempted(stored), [Next]_vars
  PROVE  Attempted(intent)' /\ Attempted(stored)'
<1> DEFINE Past == Unresolved \cup {"partially_filled", "filled", "unfilled", "not_placed"}
<1>1. ASSUME NEW to \in States, MoveTo(to) PROVE Attempted(intent)' /\ stored' = stored
  <2>1. /\ to \notin Gated(intent.state) /\ to # "submitting" /\ stored' = stored
        /\ intent' = [intent EXCEPT !.state = to] /\ <<intent.state, to>> \in TRANSITIONS
    BY <1>1 DEF MoveTo
  <2>2. intent'.attempts = intent.attempts /\ intent'.state = to
    BY <2>1 DEF IInv, TypeOK, IsRecord
  <2>3. to \in Past => to = "outcome_unknown"
    BY <2>1 DEF Gated, Unresolved
  <2>4. to = "outcome_unknown" => intent.state = "submitting"
    BY <2>1 DEF TRANSITIONS
  <2> QED BY <2>1, <2>2, <2>3, <2>4 DEF Attempted, Unresolved
<1>2. ASSUME RecordAttempt PROVE Attempted(intent)' /\ stored' = stored
  <2>1. intent.attempts \in Seq(Times) /\ now \in Times
    BY DEF IInv, TypeOK, IsRecord
  <2>2. Append(intent.attempts, now) # <<>>
    BY <2>1
  <2>3. intent'.attempts = Append(intent.attempts, now) /\ stored' = stored
    BY <1>2 DEF RecordAttempt, IInv, TypeOK, IsRecord
  <2> QED BY <2>2, <2>3 DEF Attempted
<1>3. ASSUME NEW id, Own(id), intent'.attempts = intent.attempts, stored' = stored
      PROVE  Attempted(intent)' /\ stored' = stored
  BY <1>3, OwnIsAttempted DEF Attempted
<1>4. ASSUME RecordStep PROVE Attempted(intent)' /\ stored' = stored
  <2>1. \A id, order : OnOrder(id, order) =>
          Own(id) /\ intent'.attempts = intent.attempts /\ stored' = stored
    BY DEF OnOrder, IInv, TypeOK, IsRecord
  <2>2. \A id : OnFill(id) \/ OnRejection(id) =>
          Own(id) /\ intent'.attempts = intent.attempts /\ stored' = stored
    BY DEF OnFill, OnRejection, IInv, TypeOK, IsRecord
  <2>3. EntryNotPlaced =>
          Own(lookup.id) /\ intent'.attempts = intent.attempts /\ stored' = stored
    BY DEF EntryNotPlaced, IInv, TypeOK, IsRecord
  <2> QED BY <1>1, <1>2, <1>3, <1>4, <2>1, <2>2, <2>3 DEF RecordStep
<1>5. ASSUME CallerStep \/ VenueStep \/ UNCHANGED vars
      PROVE  \/ intent' = intent /\ stored' = stored
             \/ intent' = intent /\ stored' = intent
             \/ intent' = stored /\ stored' = stored
  BY <1>5 DEF CallerStep, VenueStep, Save, Load, Send, LookUp, Observe, Turn, Accept, Show, Execute,
     End, Tick, Report, vars
<1> QED BY <1>4, <1>5 DEF Next, Attempted

\* While nobody moves an intent to submitting but by recording its attempt, what
\* is saved can be loaded, whenever the process is killed: the code's only way
\* to a record its loader refuses is that move (ExternalIntent::move_to).
THEOREM RecordReadableIfAttempted ==
  ASSUME ~BareSubmit
  PROVE  Spec => []RecordReadable
<1>1. Init => Attempted(intent) /\ Attempted(stored)
  BY DEF Init, NewRecord, Attempted, Unresolved
<1>2. /\ Attempted(intent) /\ Attempted(stored) /\ IInv /\ [Next]_vars
      => Attempted(intent)' /\ Attempted(stored)'
  BY AttemptedStep
<1>3. IInv /\ Attempted(stored) => RecordReadable
  BY DEF IInv, TypeOK, IsRecord, Attempted, RecordReadable, Readable
<1> QED BY <1>1, <1>2, <1>3, Inductive, PTL DEF Spec

-----------------------------------------------------------------------------
(* The invariant.                                                           *)

Recorded == [terms : Terms \cup {"none"}, basis : {"none", "mark"}]

StopsOf(instruments) ==
    [instrument : instruments, side : Sides, terms : Terms \cup {"other"},
     basis : TriggerBasis \cup {"unreported"}, scope : [unit : {"whole", "base", "contracts"}, value : Nat],
     status : {"active", "by_user", "ended"}]

\* What is at the venue, and what was read of it.
VenueTypes ==
    /\ spec \in InstrumentSpec /\ spec.settle # "pending"
    /\ held \in -MaxSize..MaxSize
    /\ working \in [side : Sides, left : 0..MaxSize]
    /\ filled \in BOOLEAN /\ gone \in BOOLEAN
    /\ stop = NoStop \/ stop \in StopsOf({"own"})

ReadTypes ==
    /\ snapshot \in [instrument : {"none", "own", "other"}, held : Int, since : BOOLEAN]
    /\ readback = NoStop \/ readback \in StopsOf({"own", "other"})

CycleTypes ==
    cycle # NoCycle =>
        /\ cycle = [protection |-> cycle.protection, side |-> cycle.side, stop |-> cycle.stop,
                    reason |-> cycle.reason, pnl |-> cycle.pnl]
        /\ cycle.protection \in ProtectionStates /\ cycle.side \in Sides
        /\ cycle.stop \in Recorded /\ cycle.reason \in Reasons \cup {"none"}
        /\ CycleReadable

\* While a position has not left its side since it was read, it has grown by no
\* more than was filled; while a stop has not changed, it is as it was read.
SinceRead ==
    /\ later \in [grown : Nat, left : BOOLEAN, moved : BOOLEAN]
    /\ snapshot.instrument = "own" /\ ~later.left =>
         /\ SideOf(held) = SideOf(snapshot.held)
         /\ Abs(held) <= Abs(snapshot.held) + later.grown
    /\ readback # NoStop /\ readback.instrument = "own" /\ ~later.moved => readback = stop

\* A position the entry opened is on its side until it is gone; the record is of
\* that entry; a snapshot taken since shows no other side before that.
Past ==
    /\ ~filled => held = 0 /\ cycle = NoCycle
    /\ filled /\ SideOf(held) # working.side => gone
    /\ cycle # NoCycle => cycle.side = working.side
    /\ snapshot.instrument = "own" /\ snapshot.since =>
         /\ filled
         /\ SideOf(snapshot.held) # working.side => gone

FeesCounted ==
    /\ charged \subseteq FeeKinds
    /\ FinalIsWhole

CycleInv == VenueTypes /\ ReadTypes /\ CycleTypes /\ SinceRead /\ Past /\ FeesCounted

-----------------------------------------------------------------------------
(* Values.                                                                  *)

\* A position's size makes a quantity of the instrument.
LEMMA UnitsAre ==
    ASSUME spec \in InstrumentSpec, NEW n \in Int
    PROVE  Units(n) = [unit |-> UnitOf(spec.category), value |-> 2 * Abs(n)]
<1> DEFINE q == [unit |-> UnitOf(spec.category), value |-> 2 * Abs(n)]
<1>1. Abs(n) \in Nat
  BY DEF Abs
<1>2. IsWhole(2 * Abs(n)) /\ 2 * Abs(n) >= 0
  BY <1>1 DEF IsWhole
<1>3. ForCategory(spec.category, 2 * Abs(n)) = {q}
  BY <1>1, <1>2 DEF ForCategory
<1> QED BY <1>3 DEF Units

\* The size of a position.
LEMMA SizeOf ==
    \A n \in Int : /\ Abs(n) \in Nat
                   /\ n >= 0 => Abs(n) = n
                   /\ n <= 0 => Abs(n) = 0 - n
BY DEF Abs

\* A short position nearer to flat is smaller.
LEMMA Nearer ==
    ASSUME NEW m \in Int, NEW n \in Int, m < n, n <= 0
    PROVE  Abs(n) <= Abs(m)
BY DEF Abs

\* What is left of a position after a reduction is smaller and on its side.
LEMMA ReducedIs ==
    ASSUME CycleInv, held' \in Reduced
    PROVE  /\ held' \in -MaxSize..MaxSize
           /\ held # 0
           /\ held' = 0 \/ SideOf(held') = SideOf(held)
           /\ Abs(held') <= Abs(held)
<1>1. held \in Int /\ -MaxSize <= held /\ held <= MaxSize /\ MaxSize \in Nat
  BY CycleAssumption DEF CycleInv, VenueTypes
<1>2. CASE held > 0
  <2>1. held' \in 0..held - 1
    BY <1>2 DEF Reduced
  <2>2. held' \in Int /\ 0 <= held' /\ held' < held
    BY <1>1, <2>1
  <2>3. held' = 0 \/ SideOf(held') = SideOf(held)
    BY <1>2, <2>2 DEF SideOf
  <2>4. Abs(held') = held' /\ Abs(held) = held
    BY <1>1, <1>2, <2>2, SizeOf
  <2> QED BY <1>1, <1>2, <2>2, <2>3, <2>4
<1>3. CASE ~(held > 0)
  <2>1. held' \in held + 1..0
    BY <1>3 DEF Reduced
  <2>2. held' \in Int /\ held < held' /\ held' <= 0
    BY <1>1, <2>1
  <2>3. held' = 0 \/ SideOf(held') = SideOf(held)
    BY <1>1, <2>2 DEF SideOf
  <2>4. \A m, n \in Int : m < n /\ n <= 0 => Abs(n) <= Abs(m)
    BY Nearer
  <2>5. Abs(held') <= Abs(held)
    BY <1>1, <2>2, <2>4
  <2>6. -MaxSize <= held' /\ held' <= MaxSize /\ held # 0
    BY <1>1, <2>2
  <2> QED BY <1>1, <2>2, <2>3, <2>5, <2>6
<1> QED BY <1>2, <1>3

\* The start has the invariant.
LEMMA InitEstablishes == CycleInit => CycleInv
<1> SUFFICES ASSUME CycleInit PROVE CycleInv
  OBVIOUS
<1>1. spec \in InstrumentSpec /\ spec.settle # "pending"
  BY CycleAssumption DEF CycleInit
<1>2. working \in [side : Sides, left : 0..MaxSize] /\ 0 \in -MaxSize..MaxSize
  BY CycleAssumption DEF CycleInit
<1>3. VenueTypes
  BY <1>1, <1>2 DEF CycleInit, VenueTypes
<1>4. ReadTypes
  BY DEF CycleInit, ReadTypes, NotRead
<1>5. CycleTypes /\ SinceRead /\ FeesCounted
  BY DEF CycleInit, CycleTypes, SinceRead, NothingLater, NotRead, FeesCounted, FinalIsWhole
<1>6. Past
  BY DEF CycleInit, Past, NotRead
<1> QED BY <1>3, <1>4, <1>5, <1>6 DEF CycleInv

-----------------------------------------------------------------------------
(* The venue's steps.                                                       *)

\* A change at the venue leaves the record and the reads alone, and what has
\* been gone stays so.
LEMMA VenueKeeps ==
    ASSUME CycleInv, VenueTypes', SinceRead', UNCHANGED <<cycle, snapshot, readback, charged>>,
           spec'.settle = spec.settle,
           filled => filled', gone => gone',
           cycle # NoCycle => working'.side = working.side,
           filled => working'.side = working.side,
           ~filled' => held' = 0,
           filled' /\ SideOf(held') # working'.side => gone'
    PROVE  CycleInv'
<1>1. ReadTypes'
  BY DEF CycleInv, ReadTypes
<1>2. CycleTypes'
  BY DEF CycleInv, CycleTypes, CycleReadable
<1>3. Past'
  BY DEF CycleInv, Past
<1>4. FeesCounted'
  BY DEF CycleInv, FeesCounted, FinalIsWhole, FeeKinds, TrueNet, Total
<1> QED BY <1>1, <1>2, <1>3, <1>4 DEF CycleInv

\* What has changed since the reads is told from them.
LEMMA LaterKeeps ==
    ASSUME CycleInv, VenueTypes', VenueChanges, working'.left <= working.left,
           \/ SideOf(held') # SideOf(held)
           \/ Abs(held') <= Abs(held) + (working.left - working'.left)
    PROVE  SinceRead'
<1>1. /\ later \in [grown : Nat, left : BOOLEAN, moved : BOOLEAN]
      /\ working.left \in Nat /\ working'.left \in Nat
      /\ held \in Int /\ held' \in Int /\ snapshot.held \in Int
  BY CycleAssumption DEF CycleInv, SinceRead, VenueTypes, ReadTypes
<1>2. \A n \in Int : Abs(n) \in Nat
  BY DEF Abs
<1> DEFINE fills == IF snapshot.instrument = "own" THEN working.left - working'.left ELSE 0
           leaves == snapshot.instrument = "own" /\ SideOf(held') # SideOf(held)
           moves == readback # NoStop /\ stop' # stop
<1>3. /\ later' = [grown |-> later.grown + fills, left |-> later.left \/ leaves,
                   moved |-> later.moved \/ moves]
      /\ UNCHANGED <<snapshot, readback>>
  BY DEF VenueChanges
<1>4. fills \in Nat /\ leaves \in BOOLEAN /\ moves \in BOOLEAN
  BY <1>1
<1>5. /\ later'.grown = later.grown + fills /\ later'.left = (later.left \/ leaves)
      /\ later'.moved = (later.moved \/ moves)
  BY <1>3
<1> HIDE DEF fills, leaves, moves
<1>6. later' \in [grown : Nat, left : BOOLEAN, moved : BOOLEAN]
  <2>1. later.grown + fills \in Nat
    BY <1>1, <1>4
  <2>2. (later.left \/ leaves) \in BOOLEAN /\ (later.moved \/ moves) \in BOOLEAN
    OBVIOUS
  <2> QED BY <1>3, <2>1, <2>2
<1>7. ASSUME snapshot'.instrument = "own", ~later'.left
      PROVE  /\ SideOf(held') = SideOf(snapshot'.held)
             /\ Abs(held') <= Abs(snapshot'.held) + later'.grown
  <2>1. ~later.left /\ ~leaves /\ snapshot.instrument = "own"
    BY <1>3, <1>5, <1>7
  <2>2. /\ SideOf(held) = SideOf(snapshot.held)
        /\ Abs(held) <= Abs(snapshot.held) + later.grown
    BY <2>1 DEF CycleInv, SinceRead
  <2>3. SideOf(held') = SideOf(held) /\ fills = working.left - working'.left
    BY <2>1 DEF leaves, fills
  <2>4. Abs(held') <= Abs(held) + fills
    BY <2>3
  <2>5. /\ Abs(held') \in Nat /\ Abs(held) \in Nat /\ Abs(snapshot.held) \in Nat
        /\ later.grown \in Nat
    BY <1>1, <1>2
  <2>6. Abs(held') <= Abs(snapshot.held) + (later.grown + fills)
    BY <1>4, <2>2, <2>4, <2>5
  <2> QED BY <1>3, <1>5, <2>2, <2>3, <2>6
<1>8. ASSUME readback' # NoStop, readback'.instrument = "own", ~later'.moved
      PROVE  readback' = stop'
  <2>1. ~later.moved /\ ~moves /\ readback # NoStop /\ readback.instrument = "own"
    BY <1>3, <1>5, <1>8
  <2>2. stop' = stop
    BY <2>1 DEF moves
  <2> QED BY <1>3, <2>1, <2>2 DEF CycleInv, SinceRead
<1> QED BY <1>6, <1>7, <1>8 DEF SinceRead

\* Of a step that leaves the position and the entry alone.
LEMMA HeldStays ==
    ASSUME CycleInv, VenueTypes', VenueChanges, UNCHANGED <<held, working>>
    PROVE  SinceRead'
<1>1. working.left \in Nat /\ held \in Int
  BY CycleAssumption DEF CycleInv, VenueTypes
<1>2. Abs(held) \in Nat
  BY <1>1 DEF Abs
<1>3. working'.left <= working.left /\ Abs(held') <= Abs(held) + (working.left - working'.left)
  BY <1>1, <1>2
<1> QED BY <1>3, LaterKeeps

\* The step of a position that is already filled.
LEMMA HeldChanges ==
    ASSUME CycleInv, VenueTypes', VenueChanges, filled, UNCHANGED <<spec, working>>,
           SideOf(held') # SideOf(held) \/ Abs(held') <= Abs(held)
    PROVE  CycleInv'
<1>1. filled' /\ (SideOf(held') # working'.side => gone') /\ (gone => gone')
  BY DEF VenueChanges
<1>2. SinceRead'
  <2>1. working.left \in Nat /\ held \in Int
    BY CycleAssumption DEF CycleInv, VenueTypes
  <2>2. Abs(held) \in Nat
    BY <2>1 DEF Abs
  <2>3. working'.left <= working.left /\ Abs(held) + (working.left - working'.left) = Abs(held)
    BY <2>1, <2>2
  <2> QED BY <2>3, LaterKeeps
<1> QED BY <1>1, <1>2, VenueKeeps DEF VenueChanges

\* The venue's and the operator's steps keep the invariant.
LEMMA VenueKeepsCycle ==
    ASSUME CycleInv, Venue PROVE CycleInv'
<1>0. /\ VenueTypes /\ Past /\ CycleTypes /\ CycleInv /\ CycleAssumption
      /\ cycle # NoCycle => filled
  BY CycleAssumption DEF CycleInv, Past
<1>1. held \in Int /\ working.left \in Nat /\ working.side \in Sides /\ MaxSize \in Nat
  BY <1>0 DEF VenueTypes
<1>2. CASE SendEntry
  <2>1. PICK side \in EntrySides, n \in 1..MaxSize :
          \E order \in EntryOrder(spec, side, Units(n), "entry") :
            working' = [side |-> order.side, left |-> order.quantity.value \div 2]
    BY <1>2 DEF SendEntry
  <2>2. Units(n).value = 2 * n
    BY <1>0, <1>1, UnitsAre DEF VenueTypes, Abs
  <2>3. working' = [side |-> side, left |-> Units(n).value \div 2]
    BY <2>1 DEF EntryOrder
  <2>4. (2 * n) \div 2 = n
    BY <1>1
  <2>5. working' \in [side : Sides, left : 0..MaxSize]
    BY <1>0, <1>1, <2>2, <2>3, <2>4
  <2>6. VenueTypes'
    BY <1>0, <1>2, <2>5 DEF SendEntry, VenueTypes
  <2>7. SinceRead'
    BY <1>0, <1>2 DEF SendEntry, reads, CycleInv, SinceRead
  <2> QED BY <1>0, <1>2, <2>6, <2>7, VenueKeeps DEF SendEntry, reads, Past
<1>3. CASE FillEntry
  <2>1. PICK n \in 1..working.left :
          /\ working' = [working EXCEPT !.left = @ - n]
          /\ held' = IF working.side = "long" THEN held + n ELSE held - n
    BY <1>3 DEF FillEntry
  <2>2. working' = [side |-> working.side, left |-> working.left - n] /\ working.left <= MaxSize
    BY <1>0, <2>1 DEF VenueTypes
  <2>3. working' \in [side : Sides, left : 0..MaxSize] /\ working'.left < working.left
    <3>1. working.left - n \in 0..MaxSize /\ working.left - n < working.left
      BY <1>1, <2>1, <2>2
    <3> QED BY <1>1, <2>2, <3>1
  <2>4. held' \in -MaxSize..MaxSize
    BY <1>1, <1>3, <2>1 DEF FillEntry, Abs
  <2>5. VenueTypes'
    BY <1>0, <1>3, <2>3, <2>4 DEF FillEntry, VenueChanges, VenueTypes
  <2>6. filled' /\ (gone => gone') /\ working'.side = working.side
    BY <1>3, <2>2, <2>3 DEF FillEntry, VenueChanges
  <2>7. SideOf(held') # working.side => gone'
    <3>1. CASE filled
      BY <1>3, <3>1 DEF FillEntry, VenueChanges
    <3>2. CASE ~filled
      BY <1>0, <1>1, <2>1, <3>2 DEF Past, SideOf, Sides
    <3> QED BY <3>1, <3>2
  <2>8. SinceRead'
    <3>1. working'.left = working.left - n /\ n \in Nat
      BY <1>1, <2>1, <2>2
    <3>2. working'.left <= working.left
          /\ Abs(held') <= Abs(held) + (working.left - working'.left)
      BY <1>1, <2>1, <3>1 DEF Abs
    <3> QED BY <1>0, <1>3, <2>5, <3>2, LaterKeeps DEF FillEntry
  <2> QED BY <1>0, <1>3, <2>5, <2>6, <2>7, <2>8, VenueKeeps DEF FillEntry, VenueChanges
<1>4. CASE OperatorTrades
  <2>1. held' \in -MaxSize..MaxSize
    BY <1>0, <1>4 DEF OperatorTrades
  <2>2. VenueTypes'
    BY <1>0, <1>4, <2>1 DEF OperatorTrades, VenueChanges, VenueTypes
  <2>3. SideOf(held') # SideOf(held) \/ Abs(held') <= Abs(held)
    <3>1. held' \in {0, -1, 1}
      BY <1>4 DEF OperatorTrades
    <3>2. CASE held = 0
      BY <1>4, <3>1, <3>2 DEF OperatorTrades, SideOf
    <3>3. CASE held # 0
      <4>1. Abs(held') \in {0, 1} /\ Abs(held) >= 1
        <5>1. held' \in Int /\ 0 - 1 <= held' /\ held' <= 1 /\ (held >= 1 \/ held <= 0 - 1)
          BY <1>1, <3>1, <3>3
        <5> QED BY <1>1, <3>1, <5>1, SizeOf
      <4>2. Abs(held) \in Nat
        BY <1>1, SizeOf
      <4> QED BY <4>1, <4>2
    <3> QED BY <3>2, <3>3
  <2> QED BY <1>0, <1>4, <2>2, <2>3, HeldChanges DEF OperatorTrades
<1>5. CASE Delist
  <2>1. spec' \in InstrumentSpec /\ spec'.settle = spec.settle
    BY <1>0, <1>5 DEF Delist, VenueTypes, InstrumentSpec
  <2>2. VenueTypes'
    BY <1>0, <1>5, <2>1 DEF Delist, VenueChanges, VenueTypes
  <2>3. (filled' <=> filled) /\ held' = held /\ working' = working
    <3>1. held' = held /\ working' = working
      BY <1>5 DEF Delist
    <3>2. ~(working'.left < working.left)
      BY <1>1, <3>1
    <3>3. filled' = (filled \/ working'.left < working.left)
      BY <1>5 DEF Delist, VenueChanges
    <3> QED BY <3>1, <3>2, <3>3
  <2>4. (~filled' => held' = 0) /\ (filled' /\ SideOf(held') # working'.side => gone')
    BY <1>0, <1>5, <2>3 DEF Delist, VenueChanges, Past
  <2>5. SinceRead'
    BY <1>0, <1>1, <1>5, <2>2, <2>3, HeldStays DEF Delist
  <2> QED BY <1>0, <1>5, <2>1, <2>2, <2>3, <2>4, <2>5, VenueKeeps DEF Delist, VenueChanges
<1>6. CASE PlaceStop
  <2>1. PICK terms \in Terms, scope \in {WholePosition, Units(1)} :
          stop' \in StopRequest(spec, cycle.side, terms, "mark", scope,
                                IF scope = WholePosition THEN "stop" ELSE "bridge")
    BY <1>6 DEF PlaceStop
  <2>2. stop' = [instrument |-> "own", side |-> cycle.side, terms |-> terms, basis |-> "mark",
                 scope |-> scope, status |-> "active"]
    BY <2>1 DEF StopRequest
  <2>3. scope \in [unit : {"whole", "base", "contracts"}, value : Nat]
    <3>1. Units(1) = [unit |-> UnitOf(spec.category), value |-> 2]
      BY <1>0, UnitsAre DEF VenueTypes, Abs
    <3> QED BY <3>1 DEF WholePosition, UnitOf
  <2>4. cycle.side \in Sides
    BY <1>0, <1>6 DEF PlaceStop, CycleTypes
  <2>5. stop' \in StopsOf({"own"})
    BY <2>2, <2>3, <2>4 DEF StopsOf, TriggerBasis
  <2>6. VenueTypes'
    BY <1>0, <1>6, <2>5 DEF PlaceStop, VenueChanges, VenueTypes
  <2>7. held' = held /\ Abs(held) \in Nat
    BY <1>1, <1>6 DEF PlaceStop, Abs
  <2> QED BY <1>0, <1>6, <2>6, <2>7, HeldChanges DEF PlaceStop
<1>7. CASE OperatorPlacesStop
  <2>1. stop' \in StopsOf({"own"})
    <3>1. PICK s \in ByHand :
            stop' = [instrument |-> "own", side |-> s.side, terms |-> s.terms, basis |-> s.basis,
                     scope |-> IF s.whole THEN WholePosition ELSE Units(1), status |-> "active"]
      BY <1>7 DEF OperatorPlacesStop
    <3>2. /\ s.side \in Sides /\ s.terms \in Terms \cup {"other"}
          /\ s.basis \in TriggerBasis \cup {"unreported"}
      BY <1>0
    <3>3. Units(1) = [unit |-> UnitOf(spec.category), value |-> 2]
      BY <1>0, UnitsAre DEF VenueTypes, Abs
    <3>4. (IF s.whole THEN WholePosition ELSE Units(1))
            \in [unit : {"whole", "base", "contracts"}, value : Nat]
      BY <3>3 DEF WholePosition, UnitOf
    <3> QED BY <3>1, <3>2, <3>4 DEF StopsOf
  <2>2. VenueTypes'
    BY <1>0, <1>7, <2>1 DEF OperatorPlacesStop, VenueChanges, VenueTypes
  <2>3. held' = held /\ Abs(held) \in Nat
    BY <1>1, <1>7 DEF OperatorPlacesStop, Abs
  <2> QED BY <1>0, <1>7, <2>2, <2>3, HeldChanges DEF OperatorPlacesStop
<1>8. CASE StopEnds
  <2>1. stop \in StopsOf({"own"})
    BY <1>0, <1>8 DEF StopEnds, VenueTypes, NoStop
  <2>2. stop' \in StopsOf({"own"})
    BY <1>8, <2>1 DEF StopEnds, StopsOf
  <2>3. VenueTypes'
    BY <1>0, <1>8, <2>2 DEF StopEnds, VenueChanges, VenueTypes
  <2>4. (filled' <=> filled) /\ held' = held /\ working' = working
    <3>1. held' = held /\ working' = working
      BY <1>8 DEF StopEnds
    <3>2. ~(working'.left < working.left)
      BY <1>1, <3>1
    <3>3. filled' = (filled \/ working'.left < working.left)
      BY <1>8 DEF StopEnds, VenueChanges
    <3> QED BY <3>1, <3>2, <3>3
  <2>5. (~filled' => held' = 0) /\ (filled' /\ SideOf(held') # working'.side => gone')
    BY <1>0, <1>8, <2>4 DEF StopEnds, VenueChanges, Past
  <2>6. SinceRead'
    BY <1>0, <1>1, <1>8, <2>3, <2>4, HeldStays DEF StopEnds
  <2> QED BY <1>0, <1>8, <2>3, <2>4, <2>5, <2>6, VenueKeeps DEF StopEnds, VenueChanges
<1>9. CASE StopTriggers
  <2>1. stop \in StopsOf({"own"})
    BY <1>0, <1>9 DEF StopTriggers, VenueTypes, NoStop
  <2>2. stop' \in StopsOf({"own"})
    BY <1>9, <2>1 DEF StopTriggers, StopsOf
  <2>3. held' \in -MaxSize..MaxSize /\ held # 0
    BY <1>0, <1>9, ReducedIs DEF StopTriggers
  <2>4. VenueTypes'
    BY <1>0, <1>9, <2>2, <2>3 DEF StopTriggers, VenueChanges, VenueTypes
  <2>5. filled
    BY <1>0, <2>3 DEF Past
  <2>6. Abs(held') <= Abs(held)
    BY <1>0, <1>9, ReducedIs DEF StopTriggers
  <2> QED BY <1>0, <1>9, <2>4, <2>5, <2>6, HeldChanges DEF StopTriggers
<1>10. CASE CloseFills
  <2>1. held' \in -MaxSize..MaxSize
    BY <1>0, <1>10, ReducedIs DEF CloseFills
  <2>2. VenueTypes'
    BY <1>0, <1>10, <2>1 DEF CloseFills, VenueChanges, VenueTypes
  <2>3. Abs(held') <= Abs(held)
    BY <1>0, <1>10, ReducedIs DEF CloseFills
  <2> QED BY <1>0, <1>10, <2>2, <2>3, HeldChanges DEF CloseFills
<1> QED
  BY <1>2, <1>3, <1>4, <1>5, <1>6, <1>7, <1>8, <1>9, <1>10 DEF Venue

-----------------------------------------------------------------------------
(* The reads.                                                               *)

\* A read keeps it: it shows what is there, or something of another instrument.
LEMMA ReadStep ==
    ASSUME CycleInv, Reads PROVE CycleInv'
<1>0. VenueTypes /\ ReadTypes /\ CycleTypes /\ Past /\ FeesCounted
  BY DEF CycleInv
<1>1. UNCHANGED <<cycleVenue, cycle, charged>>
  BY DEF Reads, ReadPosition, ReadStop
<1>2. VenueTypes' /\ CycleTypes' /\ FeesCounted'
  BY <1>0, <1>1 DEF cycleVenue, VenueTypes, CycleTypes, CycleReadable, FeesCounted, FinalIsWhole, FeeKinds,
                    TrueNet, Total
<1>3. Here \in [instrument : {"own"}, held : Int, since : BOOLEAN]
  BY <1>0, CycleAssumption DEF VenueTypes, Here
<1>4. snapshot' \in {snapshot, Here, Elsewhere(0), Elsewhere(1)}
  BY DEF Reads, ReadPosition, ReadStop
<1>5. ReadTypes'
  <2>1. snapshot' \in [instrument : {"none", "own", "other"}, held : Int, since : BOOLEAN]
    <3>1. \A n \in Int : Elsewhere(n) \in [instrument : {"other"}, held : Int, since : BOOLEAN]
      BY DEF Elsewhere
    <3>2. Elsewhere(0) \in [instrument : {"other"}, held : Int, since : BOOLEAN]
          /\ Elsewhere(1) \in [instrument : {"other"}, held : Int, since : BOOLEAN]
      BY <3>1
    <3> QED BY <1>0, <1>3, <1>4, <3>2 DEF ReadTypes
  <2>2. readback' = readback \/ readback' = stop \/ readback' = StopElsewhere
    BY DEF Reads, ReadPosition, ReadStop
  <2>3. readback' = NoStop \/ readback' \in StopsOf({"own", "other"})
    BY <1>0, <2>2 DEF ReadTypes, VenueTypes, StopsOf, StopElsewhere, Sides, WholePosition,
                      TriggerBasis
  <2> QED BY <2>1, <2>3 DEF ReadTypes
<1>6. SinceRead'
  <2>1. later \in [grown : Nat, left : BOOLEAN, moved : BOOLEAN] /\ held \in Int
    BY <1>0, CycleAssumption DEF CycleInv, SinceRead, VenueTypes
  <2>2. CASE ReadPosition
    <3>1. /\ later' = [grown |-> 0, left |-> FALSE, moved |-> later.moved]
          /\ UNCHANGED <<held, stop, readback>>
      BY <2>1, <2>2 DEF ReadPosition, cycleVenue
    <3>2. snapshot'.instrument = "own" => snapshot'.held = held
      BY <2>2 DEF ReadPosition, Here, Elsewhere
    <3>3. Abs(held) \in Nat
      BY <2>1 DEF Abs
    <3> QED BY <2>1, <3>1, <3>2, <3>3 DEF CycleInv, SinceRead
  <2>3. CASE ReadStop
    <3>1. /\ later' = [grown |-> later.grown, left |-> later.left, moved |-> FALSE]
          /\ UNCHANGED <<held, stop, snapshot>>
      BY <2>1, <2>3 DEF ReadStop, cycleVenue
    <3>2. readback'.instrument = "own" => readback' = stop
      BY <2>3 DEF ReadStop, StopElsewhere
    <3> QED BY <2>1, <3>1, <3>2 DEF CycleInv, SinceRead
  <2> QED BY <2>2, <2>3 DEF Reads
<1>7. Past'
  <2>1. snapshot'.instrument = "own" /\ snapshot'.since =>
          filled /\ (SideOf(snapshot'.held) # working.side => gone)
    BY <1>0, <1>4 DEF Past, Here, Elsewhere
  <2> QED BY <1>0, <1>1, <2>1 DEF cycleVenue, Past
<1> QED BY <1>2, <1>5, <1>6, <1>7 DEF CycleInv

-----------------------------------------------------------------------------
(* Accounting.                                                              *)

\* The figures of a closed cycle that are all known are the venue's, with
\* every fee of the settlement asset counted.
LEMMA AccountedIsWhole ==
    ASSUME spec \in InstrumentSpec, spec.settle # "pending",
           NEW fees, fees \subseteq FeeKinds, NEW pnl \in Accounted(fees)
    PROVE  /\ pnl = [settle |-> spec.settle, gross |-> pnl.gross, fees |-> pnl.fees,
                     funding |-> pnl.funding, net |-> pnl.net, otherFees |-> pnl.otherFees,
                     status |-> "provisional"]
           /\ IsComplete(pnl) => /\ pnl.net = Money(TrueNet(fees), spec.settle)
                                 /\ pnl.fees = Total(fees)
<1>0. PICK counted \in SUBSET fees :
        \E gross \in Reports(TrueGross), total \in Totals(counted), funding \in Reports(TrueFunding) :
          \/ pnl \in FromComponents(spec.settle, gross, total, funding, fees \ counted)
          \/ pnl \in FromNet(spec.settle, Money(TrueNet(fees), spec.settle), total, funding,
                             fees \ counted)
  BY DEF Accounted
<1>1. PICK gross \in Reports(TrueGross), total \in Totals(counted), funding \in Reports(TrueFunding) :
        \/ pnl \in FromComponents(spec.settle, gross, total, funding, fees \ counted)
        \/ pnl \in FromNet(spec.settle, Money(TrueNet(fees), spec.settle), total, funding,
                           fees \ counted)
  BY <1>0
<1>2. PICK g, net : pnl \in Provisional(spec.settle, g, total, funding, net, fees \ counted)
                    /\ \/ g = gross
                          /\ net \in (IF Pending \in {gross, total, funding} THEN {Pending}
                                ELSE AmountIn({gross, total, funding},
                                              gross.amount - total.amount + funding.amount))
                       \/ net = Money(TrueNet(fees), spec.settle)
  BY <1>1 DEF FromComponents, FromNet
<1>3. /\ pnl = [settle |-> spec.settle, gross |-> g, fees |-> total, funding |-> funding,
                net |-> net, otherFees |-> fees \ counted, status |-> "provisional"]
      /\ \A figure \in Known(pnl) : figure.asset = pnl.settle
      /\ \A fee \in pnl.otherFees : fee.asset # pnl.settle
  BY <1>2 DEF Provisional, Checked
<1>4. ASSUME IsComplete(pnl)
      PROVE  net = Money(TrueNet(fees), spec.settle) /\ total = Total(fees)
  <2>1. g # Pending /\ total # Pending /\ funding # Pending /\ net # Pending
    BY <1>3, <1>4 DEF IsComplete, Figures
  <2>2. total.asset = spec.settle
    BY <1>3, <2>1 DEF Known, Figures
  <2>3. Money(2, spec.settle) \in fees => Money(2, spec.settle) \in counted
    BY <1>3 DEF Money
  <2>4. total = Total(fees)
    <3>1. counted = {} => total = Money(0, spec.settle) /\ Money(2, spec.settle) \notin fees
      BY <1>1, <2>1, <2>3 DEF Totals
    <3>2. counted # {} => total = Money(2, spec.settle) /\ Money(2, spec.settle) \in fees
      <4>1. counted # {} => total \in counted
        BY <1>1, <2>1 DEF Totals
      <4>2. \A fee \in counted : fee = Money(2, spec.settle) \/ fee = Money(2, "other")
        BY DEF FeeKinds
      <4> QED BY <4>1, <4>2, <2>2 DEF Money
    <3> QED BY <3>1, <3>2 DEF Total
  <2>5. CASE net = Money(TrueNet(fees), spec.settle)
    BY <2>4, <2>5
  <2>6. CASE /\ g = gross
             /\ net \in (IF Pending \in {gross, total, funding} THEN {Pending}
                         ELSE AmountIn({gross, total, funding},
                                       gross.amount - total.amount + funding.amount))
    <3>1. gross = Money(TrueGross, spec.settle) /\ funding = Money(TrueFunding, spec.settle)
      BY <1>1, <2>1, <2>6 DEF Reports
    <3>2. net \in AmountIn({gross, total, funding}, gross.amount - total.amount + funding.amount)
      BY <2>1, <2>6
    <3>3. net = Money(gross.amount - total.amount + funding.amount, spec.settle)
      BY <2>2, <3>1, <3>2 DEF AmountIn, Money
    <3>4. gross.amount - total.amount + funding.amount = TrueNet(fees)
      BY <2>4, <3>1 DEF Money, TrueNet
    <3> QED BY <2>4, <3>3, <3>4
  <2> QED BY <1>2, <2>5, <2>6
<1> QED BY <1>3, <1>4

-----------------------------------------------------------------------------
(* The record's steps.                                                      *)

\* A step of the record alone, of a cycle whose entry filled.
LEMMA RecordKeeps ==
    ASSUME CycleInv, UNCHANGED <<cycleVenue, reads>>, filled, CycleTypes', FeesCounted',
           cycle'.side = working.side
    PROVE  CycleInv'
<1>1. VenueTypes' /\ ReadTypes' /\ SinceRead'
  BY DEF CycleInv, cycleVenue, reads, VenueTypes, ReadTypes, SinceRead
<1>2. Past'
  BY DEF CycleInv, cycleVenue, reads, Past
<1> QED BY <1>1, <1>2 DEF CycleInv

\* The PnL of a record stays whole where it stays what it was.
LEMMA PnlKept ==
    ASSUME CycleInv, cycle # NoCycle, UNCHANGED <<spec, charged>>, cycle'.pnl = cycle.pnl
    PROVE  FeesCounted'
BY DEF CycleInv, FeesCounted, FinalIsWhole, FeeKinds, Total, TrueNet

\* The record's methods keep it.
LEMMA RecordKeepsCycle ==
    ASSUME CycleInv, Record PROVE CycleInv'
<1>0. /\ CycleInv /\ CycleAssumption /\ VenueTypes
      /\ cycle # NoCycle =>
           /\ filled /\ cycle.side = working.side
           /\ cycle = [protection |-> cycle.protection, side |-> cycle.side, stop |-> cycle.stop,
                       reason |-> cycle.reason, pnl |-> cycle.pnl]
           /\ cycle.protection \in ProtectionStates /\ cycle.side \in Sides
           /\ cycle.stop \in Recorded /\ cycle.reason \in Reasons \cup {"none"}
           /\ CycleReadable
  BY CycleAssumption DEF CycleInv, Past, CycleTypes
<1>1. ASSUME cycle # NoCycle, NEW to \in ProtectionStates, to # "closed",
             cycle.protection # "closed",
             cycle' = [cycle EXCEPT !.protection = to], UNCHANGED <<cycleVenue, reads, charged>>
      PROVE  CycleInv'
  <2>1. cycle' = [protection |-> to, side |-> cycle.side, stop |-> cycle.stop,
                  reason |-> cycle.reason, pnl |-> cycle.pnl]
    BY <1>0, <1>1
  <2>2. CycleTypes'
    BY <1>0, <1>1, <2>1 DEF CycleTypes, CycleReadable, cycleVenue
  <2>3. FeesCounted'
    BY <1>0, <1>1, <2>1, PnlKept DEF cycleVenue
  <2> QED BY <1>0, <1>1, <2>1, <2>2, <2>3, RecordKeeps
<1>2. \A from, to : <<from, to>> \in PROTECTION_TRANSITIONS => from # "closed" /\ to \in ProtectionStates
  BY DEF PROTECTION_TRANSITIONS, ProtectionStates
<1>3. CASE Open
  <2>1. cycle' = [protection |-> "protection_pending", side |-> working.side,
                  stop |-> NoneRecorded, reason |-> "none", pnl |-> NoPnl]
    BY <1>3 DEF Open
  <2>2. CycleTypes'
    BY <1>0, <2>1 DEF VenueTypes, CycleTypes, CycleReadable, ProtectionStates, Recorded, NoneRecorded
  <2>3. FeesCounted'
    BY <1>0, <1>3, <2>1 DEF Open, cycleVenue, CycleInv, FeesCounted, FeeKinds, FinalIsWhole, NoPnl
  <2> QED BY <1>0, <1>3, <2>1, <2>2, <2>3, RecordKeeps DEF Open
<1>4. CASE RecordStop
  <2>1. PICK terms \in Terms : cycle' = [cycle EXCEPT !.stop = [terms |-> terms, basis |-> "mark"]]
    BY <1>4 DEF RecordStop
  <2>2. cycle # NoCycle /\ cycle' = [protection |-> cycle.protection, side |-> cycle.side,
                                     stop |-> [terms |-> terms, basis |-> "mark"],
                                     reason |-> cycle.reason, pnl |-> cycle.pnl]
    BY <1>0, <1>4, <2>1 DEF RecordStop, IsOpen
  <2>3. CycleTypes'
    BY <1>0, <1>4, <2>2 DEF RecordStop, cycleVenue, CycleTypes, CycleReadable, Recorded
  <2>4. FeesCounted'
    BY <1>0, <1>4, <2>2, PnlKept DEF RecordStop, cycleVenue
  <2> QED BY <1>0, <1>4, <2>2, <2>3, <2>4, RecordKeeps DEF RecordStop
<1>5. CASE \E to \in ProtectionStates : MoveProtection(to)
  <2>1. PICK to \in ProtectionStates : MoveProtection(to)
    BY <1>5
  <2> QED BY <1>1, <1>2, <2>1 DEF MoveProtection, NeedsEvidence
<1>6. CASE \E owner \in Owners : Verified(owner)
  <2>1. PICK owner \in Owners : Verified(owner)
    BY <1>6
  <2>2. ByEvidence[owner] \in {"protected", "protected_by_operator"}
    BY DEF Owners, ByEvidence
  <2>3. cycle.protection # "closed"
    BY <1>2, <2>1, <2>2 DEF Verified
  <2> QED BY <1>1, <2>1, <2>2, <2>3 DEF Verified, ProtectionStates
<1>7. CASE Commanded \/ UserCancelled
  <2>1. RemovedByOperator
    BY <1>7 DEF Commanded, UserCancelled
  <2> QED BY <1>1, <1>2, <2>1 DEF RemovedByOperator, ProtectionStates
<1>8. CASE \E reason \in Reasons : Close(reason)
  <2>1. PICK reason \in Reasons : Close(reason)
    BY <1>8
  <2>2. cycle # NoCycle /\ cycle' = [protection |-> "closed", side |-> cycle.side,
                                     stop |-> cycle.stop, reason |-> reason, pnl |-> cycle.pnl]
    BY <1>0, <2>1 DEF Close
  <2>3. reason # "none"
    BY <1>0 DEF CloseReasons
  <2>4. CycleTypes'
    BY <1>0, <2>1, <2>2, <2>3 DEF Close, cycleVenue, CycleTypes, CycleReadable, ProtectionStates
  <2>5. FeesCounted'
    BY <1>0, <2>1, <2>2, PnlKept DEF Close, cycleVenue
  <2>6. VenueTypes' /\ ReadTypes'
    BY <1>0, <2>1 DEF Close, cycleVenue, VenueTypes, ReadTypes, NotRead
  <2>7. SinceRead'
    BY <2>1 DEF Close, NothingLater, NotRead, SinceRead
  <2>8. Past'
    BY <1>0, <2>1, <2>2 DEF Close, cycleVenue, CycleInv, Past, NotRead
  <2> QED BY <2>4, <2>5, <2>6, <2>7, <2>8 DEF CycleInv
<1>9. CASE SetPnl
  <2>1. PICK fees \in (IF cycle.pnl = NoPnl THEN SUBSET FeeKinds ELSE {charged}) :
          /\ charged' = fees
          /\ \E pnl \in Accounted(fees) :
               \E kept \in {pnl} \cup Finalize(pnl) :
                 /\ kept.settle = spec.settle
                 /\ cycle' = [cycle EXCEPT !.pnl = kept]
    BY <1>9 DEF SetPnl
  <2>2. PICK pnl \in Accounted(fees) :
               \E kept \in {pnl} \cup Finalize(pnl) :
                 /\ kept.settle = spec.settle
                 /\ cycle' = [cycle EXCEPT !.pnl = kept]
    BY <2>1
  <2>3. PICK kept \in {pnl} \cup Finalize(pnl) :
                 /\ kept.settle = spec.settle
                 /\ cycle' = [cycle EXCEPT !.pnl = kept]
    BY <2>2
  <2>4. cycle # NoCycle /\ cycle' = [protection |-> cycle.protection, side |-> cycle.side,
                                     stop |-> cycle.stop, reason |-> cycle.reason, pnl |-> kept]
    BY <1>0, <1>9, <2>3 DEF SetPnl
  <2>5. CycleTypes'
    BY <1>0, <1>9, <2>3, <2>4 DEF SetPnl, cycleVenue, CycleTypes, CycleReadable
  <2>6. fees \subseteq FeeKinds
    BY <2>1 DEF CycleInv, FeesCounted
  <2>7. kept.status = "final" =>
          /\ IsComplete(kept)
          /\ kept.net = Money(TrueNet(fees), spec.settle)
          /\ kept.fees = Total(fees)
    <3>1. /\ pnl = [settle |-> spec.settle, gross |-> pnl.gross, fees |-> pnl.fees,
                    funding |-> pnl.funding, net |-> pnl.net, otherFees |-> pnl.otherFees,
                    status |-> "provisional"]
          /\ IsComplete(pnl) => /\ pnl.net = Money(TrueNet(fees), spec.settle)
                                /\ pnl.fees = Total(fees)
      BY <1>0, <2>2, <2>6, AccountedIsWhole DEF VenueTypes
    <3>2. CASE kept = pnl
      BY <3>1, <3>2
    <3>3. CASE kept = [pnl EXCEPT !.status = "final"] /\ IsComplete(pnl)
      <4>1. kept = [settle |-> spec.settle, gross |-> pnl.gross, fees |-> pnl.fees,
                    funding |-> pnl.funding, net |-> pnl.net, otherFees |-> pnl.otherFees,
                    status |-> "final"]
        BY <3>1, <3>3
      <4> QED BY <3>1, <3>3, <4>1 DEF IsComplete, Figures
    <3> QED BY <2>3, <3>2, <3>3 DEF Finalize
  <2>8. FeesCounted'
    <3>1. charged' = fees /\ spec' = spec
      BY <1>9, <2>1 DEF SetPnl, cycleVenue
    <3> QED BY <2>4, <2>6, <2>7, <3>1
            DEF FeesCounted, FinalIsWhole, FeeKinds, TrueNet, Total, IsComplete, Figures
  <2> QED BY <1>0, <1>9, <2>4, <2>5, <2>8, RecordKeeps DEF SetPnl
<1> QED BY <1>3, <1>4, <1>5, <1>6, <1>7, <1>8, <1>9 DEF Record

-----------------------------------------------------------------------------
(* Theorems.                                                                *)

\* So every step keeps it.
LEMMA CycleStep == CycleInv /\ [CycleNext]_cycleVars => CycleInv'
<1> SUFFICES ASSUME CycleInv, [CycleNext]_cycleVars PROVE CycleInv'
  OBVIOUS
<1>1. CASE UNCHANGED cycleVars
  BY <1>1 DEF cycleVars, cycleVenue, reads, CycleInv, VenueTypes, ReadTypes, CycleTypes, CycleReadable, SinceRead,
              Past, FeesCounted, FinalIsWhole, FeeKinds, TrueNet, Total
<1> QED BY <1>1, VenueKeepsCycle, ReadStep, RecordKeepsCycle DEF CycleNext

\* The invariant holds of every instrument, size, side and set of terms and reasons.
THEOREM CycleInductive == CycleSpec => []CycleInv
BY InitEstablishes, CycleStep, PTL DEF CycleSpec

\* Every variable keeps its type, and what is saved can be loaded again.
THEOREM CycleTypeCorrect == CycleSpec => []CycleTypeOK
<1>1. CycleInv => CycleTypeOK
  BY DEF CycleInv, VenueTypes, CycleTypes, SinceRead, CycleTypeOK
<1> QED BY <1>1, CycleInductive, PTL

\* A cycle called protected has no more of its position bare than was filled
\* since it was read, by a stop of the recorded terms on the mark price where it
\* is QuantForge's, for any instrument, size and stops, while the stop is as it
\* was read and the position has not left its side (CoveredStop, verified).
THEOREM ProtectedIsCovered == CycleSpec => ProtectedWasCovered
<1> DEFINE Shown ==
      \A owner \in Owners : Verified(owner) /\ ~later.left /\ ~later.moved =>
         /\ Bare <= (IF stop.scope = WholePosition THEN 0 ELSE 2 * later.grown)
         /\ IF owner = "ours" THEN stop.terms = cycle.stop.terms /\ stop.basis = "mark"
                              ELSE stop.basis \in TriggerBasis
<1>1. CycleInv /\ [CycleNext]_cycleVars => [Shown]_cycleVars
  <2> SUFFICES ASSUME CycleInv, NEW owner \in Owners, Verified(owner), ~later.left, ~later.moved
               PROVE  /\ Bare <= (IF stop.scope = WholePosition THEN 0 ELSE 2 * later.grown)
                      /\ IF owner = "ours"
                         THEN stop.terms = cycle.stop.terms /\ stop.basis = "mark"
                         ELSE stop.basis \in TriggerBasis
    OBVIOUS
  <2>1. /\ readback.status = "active" /\ readback.instrument = "own"
        /\ snapshot.instrument = "own" /\ snapshot.held # 0
        /\ readback.side = SideOf(snapshot.held) /\ readback.basis # "unreported"
        /\ \/ readback.scope = WholePosition
           \/ readback.scope.value >= Units(snapshot.held).value
        /\ owner = "ours" => readback.terms = cycle.stop.terms /\ readback.basis = "mark"
    BY DEF Verified, CoveredStop, Covers
  <2>2. /\ readback = stop /\ SideOf(held) = SideOf(snapshot.held)
        /\ Abs(held) <= Abs(snapshot.held) + later.grown
    BY <2>1 DEF CycleInv, SinceRead, Verified
  <2>3. /\ stop \in StopsOf({"own"}) /\ snapshot.held \in Int /\ held \in Int
        /\ spec \in InstrumentSpec /\ later.grown \in Nat
    BY <2>1, <2>2, CycleAssumption DEF CycleInv, VenueTypes, ReadTypes, SinceRead, NoStop
  <2>4. Units(snapshot.held).value = 2 * Abs(snapshot.held)
    BY <2>3, UnitsAre
  <2>5. Abs(held) \in Nat /\ Abs(snapshot.held) \in Nat
    BY <2>3 DEF Abs
  <2>6. stop.scope.value \in Nat
    BY <2>3 DEF StopsOf
  <2>7. Bare <= (IF stop.scope = WholePosition THEN 0 ELSE 2 * later.grown)
    <3>1. CASE stop.scope = WholePosition
      <4>1. Bare = 0
        BY <2>1, <2>2, <2>5, <3>1 DEF Bare
      <4> QED BY <3>1, <4>1
    <3>2. CASE stop.scope # WholePosition
      <4>1. stop.scope.value >= 2 * Abs(snapshot.held)
        BY <2>1, <2>2, <2>4, <3>2
      <4>2. Bare = IF stop.scope.value < 2 * Abs(held) THEN 2 * Abs(held) - stop.scope.value ELSE 0
        BY <2>1, <2>2, <3>2 DEF Bare
      <4>3. 2 * Abs(held) - stop.scope.value <= 2 * later.grown /\ 0 <= 2 * later.grown
        BY <2>2, <2>3, <2>5, <2>6, <4>1
      <4> QED BY <3>2, <4>2, <4>3
    <3> QED BY <3>1, <3>2
  <2>8. stop.basis \in TriggerBasis
    BY <2>1, <2>2, <2>3 DEF StopsOf
  <2> QED BY <2>1, <2>2, <2>7, <2>8
<1> QED BY <1>1, CycleInductive, PTL DEF CycleSpec, ProtectedWasCovered

\* A cycle closed on a snapshot taken since its entry filled has had its
\* position gone, whatever else the venue and the operator did before and after
\* (ProtectionState::closed).
THEOREM ClosedIsGone == CycleSpec => ClosedWasGone
<1> DEFINE Finished == (\E reason \in Reasons : Close(reason)) /\ snapshot.since => gone
<1>1. CycleInv /\ [CycleNext]_cycleVars => [Finished]_cycleVars
  <2> SUFFICES ASSUME CycleInv, NEW reason \in Reasons, Close(reason), snapshot.since
               PROVE  gone
    OBVIOUS
  <2>1. /\ snapshot.instrument = "own" /\ cycle.side = working.side /\ cycle.side \in Sides
        /\ snapshot.held = 0 \/ SideOf(snapshot.held) = Opposite(cycle.side)
    BY DEF CycleInv, CycleTypes, Past, Close, Gone
  <2>2. SideOf(snapshot.held) # working.side
    BY <2>1 DEF SideOf, Opposite, Sides
  <2> QED BY <2>1, <2>2 DEF CycleInv, Past
<1> QED BY <1>1, CycleInductive, PTL DEF CycleSpec, ClosedWasGone

\* A position that is held can be closed, whatever has become of the
\* instrument: its size is a positive quantity of the instrument's unit
\* (CloseOrder::new).
THEOREM HeldCanClose == CycleSpec => []CanAlwaysClose
<1>1. CycleInv => CanAlwaysClose
  <2> SUFFICES ASSUME CycleInv, held # 0
               PROVE  CloseOrder(spec, SideOf(held), Units(held), "close") # {}
    BY DEF CanAlwaysClose
  <2>1. held \in Int /\ spec \in InstrumentSpec
    BY CycleAssumption DEF CycleInv, VenueTypes
  <2>2. Units(held) = [unit |-> UnitOf(spec.category), value |-> 2 * Abs(held)]
    BY <2>1, UnitsAre
  <2>3. 2 * Abs(held) > 0
    BY <2>1 DEF Abs
  <2>4. [closes |-> SideOf(held), quantity |-> Units(held)]
          \in CloseOrder(spec, SideOf(held), Units(held), "close")
    BY <2>2, <2>3 DEF CloseOrder, InUnitOf, IsPositive
  <2> QED BY <2>4
<1> QED BY <1>1, CycleInductive, PTL

\* A PnL called final has every figure, the venue's net, and every fee of the
\* settlement asset, whichever of its parts came first (RealizedPnl::checked,
\* finalize).
THEOREM FinalPnlIsWhole == CycleSpec => []FinalIsWhole
<1>1. CycleInv => FinalIsWhole
  BY DEF CycleInv, FeesCounted
<1> QED BY <1>1, CycleInductive, PTL
=============================================================================
