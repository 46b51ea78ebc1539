----------------------------- MODULE Induction -----------------------------
(***************************************************************************)
(* Induction without operators as parameters: what the provers here cannot *)
(* do with a property P(_), they can do with the set of the numbers that   *)
(* have it, which has a least number that does not.  From it follows that  *)
(* a recursive function on numbers has the values its equation says.       *)
(***************************************************************************)
EXTENDS Naturals, Sequences, Subsequences, SequenceTheorems, TLAPS, WellFoundedInduction

\* Every set of natural numbers that is not empty has a least one.
LEMMA LeastNumber ==
  ASSUME NEW T, T \subseteq Nat, T # {}
  PROVE  \E x \in T : \A y \in T : ~(y < x)
<1> DEFINE R == OpToRel(<, Nat)
<1>1. IsWellFoundedOn(R, Nat)
  BY NatLessThanWellFounded
<1>2. \A x, y \in Nat : y < x => <<y, x>> \in R
  BY DEF OpToRel
<1> HIDE DEF R
<1>3. PICK x \in T : \A y \in T : ~(<<y, x>> \in R)
  BY <1>1, WFMin
<1> QED BY <1>2, <1>3

\* Induction on the natural numbers.
LEMMA AllNumbers ==
  ASSUME NEW T, 0 \in T, \A n \in Nat : n \in T => n + 1 \in T
  PROVE  \A n \in Nat : n \in T
<1> SUFFICES ASSUME Nat \ T # {} PROVE FALSE
  OBVIOUS
<1>1. PICK x \in Nat \ T : \A y \in Nat \ T : ~(y < x)
  BY LeastNumber
<1>2. x # 0 /\ x - 1 \in Nat /\ x - 1 < x /\ (x - 1) + 1 = x
  OBVIOUS
<1>3. x - 1 \in T
  BY <1>1, <1>2
<1> QED BY <1>2, <1>3

\* Induction from 0 to n.
LEMMA AllUpTo ==
  ASSUME NEW n \in Nat, NEW T, 0 \in T, \A i \in 0 .. n - 1 : i \in T => i + 1 \in T
  PROVE  \A i \in 0 .. n : i \in T
<1> DEFINE U == {i \in Nat : i \in 0 .. n => i \in T}
<1>1. 0 \in U
  OBVIOUS
<1>2. \A i \in Nat : i \in U => i + 1 \in U
  OBVIOUS
<1> HIDE DEF U
<1>3. \A i \in Nat : i \in U
  BY <1>1, <1>2, AllNumbers
<1> QED BY <1>3 DEF U

-----------------------------------------------------------------------------
(* A function on 0 .. n, or on Nat, by its value at 0 and its steps. *)

Steps(g, n, first, step) ==
  g[0] = first /\ \A i \in 0 .. n - 1 : g[i + 1] = step[<<i + 1, g[i]>>]

\* Two functions with the same value at 0 and the same steps are one.
LEMMA StepsAgree ==
  ASSUME NEW m \in Nat, NEW n \in Nat, m <= n, NEW g, NEW h, NEW first, NEW step,
         Steps(g, m, first, step), Steps(h, n, first, step)
  PROVE  \A i \in 0 .. m : g[i] = h[i]
<1> DEFINE T == {i \in Nat : g[i] = h[i]}
<1>1. 0 \in T
  BY DEF Steps
<1>2. ASSUME NEW i \in 0 .. m - 1, i \in T PROVE i + 1 \in T
  <2>1. i \in 0 .. n - 1 /\ i + 1 \in Nat /\ g[i] = h[i]
    BY <1>2
  <2>2. g[i + 1] = step[<<i + 1, g[i]>>] /\ h[i + 1] = step[<<i + 1, h[i]>>]
    BY <2>1 DEF Steps
  <2> QED BY <2>1, <2>2
<1> HIDE DEF T
<1>3. \A i \in 0 .. m : i \in T
  BY <1>1, <1>2, AllUpTo
<1> QED BY <1>3 DEF T

\* There is a function with these steps.
LEMMA StepsExist ==
  ASSUME NEW S, NEW first \in S, NEW step \in [Nat \X S -> S], NEW n \in Nat
  PROVE  \E g : g \in [0 .. n -> S] /\ Steps(g, n, first, step)
<1> DEFINE T == {k \in Nat : \E g \in [0 .. k -> S] : Steps(g, k, first, step)}
<1>1. 0 \in T
  <2> DEFINE g == [i \in 0 .. 0 |-> first]
  <2>1. g \in [0 .. 0 -> S] /\ Steps(g, 0, first, step)
    BY DEF Steps
  <2> QED BY <2>1
<1>2. ASSUME NEW k \in Nat, k \in T PROVE k + 1 \in T
  <2>1. PICK g \in [0 .. k -> S] : Steps(g, k, first, step)
    BY <1>2
  <2> DEFINE h == [i \in 0 .. k + 1 |-> IF i = k + 1 THEN step[<<k + 1, g[k]>>] ELSE g[i]]
  <2>2. h \in [0 .. k + 1 -> S]
    <3>1. <<k + 1, g[k]>> \in Nat \X S
      BY <2>1
    <3> QED BY <3>1
  <2>3. h[0] = first
    BY <2>1 DEF Steps
  <2>4. ASSUME NEW i \in 0 .. k PROVE h[i + 1] = step[<<i + 1, h[i]>>]
    <3>1. CASE i = k
      <4>1. h[k + 1] = step[<<k + 1, g[k]>>] /\ h[k] = g[k]
        OBVIOUS
      <4> QED BY <3>1, <4>1
    <3>2. CASE i # k
      <4>1. i \in 0 .. k - 1 /\ h[i + 1] = g[i + 1] /\ h[i] = g[i]
        BY <3>2
      <4> QED BY <2>1, <4>1 DEF Steps
    <3> QED BY <3>1, <3>2
  <2>5. Steps(h, k + 1, first, step)
    <3>1. \A i \in 0 .. (k + 1) - 1 : i \in 0 .. k
      OBVIOUS
    <3> HIDE DEF h
    <3> QED BY <2>3, <2>4, <3>1 DEF Steps
  <2> QED BY <2>2, <2>5
<1> HIDE DEF T
<1>3. n \in T
  BY <1>1, <1>2, AllNumbers
<1> QED BY <1>3 DEF T

\* A function on 0 .. n that is defined by recursion is the one of its equation.
LEMMA RecursionUpTo ==
  ASSUME NEW S, NEW first \in S, NEW step \in [Nat \X S -> S], NEW n \in Nat
  PROVE  LET f == CHOOSE g : g = [i \in 0 .. n |-> IF i = 0 THEN first ELSE step[<<i, g[i - 1]>>]]
         IN  /\ f \in [0 .. n -> S] /\ f[0] = first
             /\ \A i \in 0 .. n - 1 : f[i + 1] = step[<<i + 1, f[i]>>]
<1>1. PICK g \in [0 .. n -> S] : Steps(g, n, first, step)
  BY StepsExist
<1>2. g = [i \in 0 .. n |-> IF i = 0 THEN first ELSE step[<<i, g[i - 1]>>]]
  <2>1. ASSUME NEW i \in 0 .. n PROVE g[i] = IF i = 0 THEN first ELSE step[<<i, g[i - 1]>>]
    <3>1. CASE i = 0
      BY <1>1, <3>1 DEF Steps
    <3>2. CASE i # 0
      <4>1. i - 1 \in 0 .. n - 1 /\ (i - 1) + 1 = i
        BY <3>2
      <4> QED BY <1>1, <3>2, <4>1 DEF Steps
    <3> QED BY <3>1, <3>2
  <2> QED BY <2>1
<1> DEFINE f == CHOOSE h : h = [i \in 0 .. n |-> IF i = 0 THEN first ELSE step[<<i, h[i - 1]>>]]
<1>3. f = [i \in 0 .. n |-> IF i = 0 THEN first ELSE step[<<i, f[i - 1]>>]]
  BY <1>2
<1> HIDE DEF f
<1>4. f[0] = first
  BY <1>3
<1>5. ASSUME NEW i \in 0 .. n - 1 PROVE f[i + 1] = step[<<i + 1, f[i]>>]
  <2>1. i + 1 \in 0 .. n /\ i + 1 # 0 /\ (i + 1) - 1 = i
    OBVIOUS
  <2> QED BY <1>3, <2>1
<1>6. Steps(f, n, first, step)
  BY <1>4, <1>5 DEF Steps
<1>7. \A i \in 0 .. n : f[i] = g[i]
  BY <1>1, <1>6, StepsAgree
<1>8. f \in [0 .. n -> S]
  BY <1>3, <1>7
<1> QED BY <1>4, <1>5, <1>8 DEF f

StepsOnNat(f, first, step) ==
  f[0] = first /\ \A n \in Nat : f[n + 1] = step[<<n + 1, f[n]>>]

\* There is such a function on all natural numbers.
LEMMA RecursionOnNat ==
  ASSUME NEW S, NEW first, NEW step, first \in S, step \in [Nat \X S -> S]
  PROVE  \E f : f \in [Nat -> S] /\ StepsOnNat(f, first, step)
<1> DEFINE G(n) == CHOOSE g \in [0 .. n -> S] : Steps(g, n, first, step)
<1>1. \A n \in Nat : G(n) \in [0 .. n -> S] /\ Steps(G(n), n, first, step)
  BY StepsExist
<1> HIDE DEF G
<1> DEFINE f == [n \in Nat |-> G(n)[n]]
<1>2. f \in [Nat -> S]
  BY <1>1
<1>3. f[0] = first
  BY <1>1 DEF Steps
<1>4. ASSUME NEW n \in Nat PROVE f[n + 1] = step[<<n + 1, f[n]>>]
  <2>1. G(n + 1)[n + 1] = step[<<n + 1, G(n + 1)[n]>>]
    <3>1. n + 1 \in Nat /\ n \in 0 .. (n + 1) - 1
      OBVIOUS
    <3>2. Steps(G(n + 1), n + 1, first, step)
      BY <1>1, <3>1
    <3> QED BY <3>1, <3>2 DEF Steps
  <2>2. G(n)[n] = G(n + 1)[n]
    <3>1. n + 1 \in Nat /\ n <= n + 1 /\ n \in 0 .. n
      OBVIOUS
    <3>2. Steps(G(n), n, first, step) /\ Steps(G(n + 1), n + 1, first, step)
      BY <1>1, <3>1
    <3> QED BY <3>1, <3>2, StepsAgree
  <2> QED BY <2>1, <2>2
<1> HIDE DEF f
<1>5. StepsOnNat(f, first, step)
  BY <1>3, <1>4 DEF StepsOnNat
<1> QED BY <1>2, <1>5

\* What a loop has after each of its n rounds.
Loop(g, n, first, step) ==
  g = [i \in 0 .. n |-> IF i = 0 THEN first ELSE step[<<i, g[i - 1]>>]]

\* There is such a function: it is the one that is chosen.
LEMMA LoopExists ==
  ASSUME NEW S, NEW first \in S, NEW step \in [Nat \X S -> S], NEW n \in Nat
  PROVE  \E g : g \in [0 .. n -> S] /\ Loop(g, n, first, step)
<1>1. PICK g : g \in [0 .. n -> S] /\ Steps(g, n, first, step)
  BY StepsExist
<1>2. ASSUME NEW i \in 0 .. n PROVE g[i] = IF i = 0 THEN first ELSE step[<<i, g[i - 1]>>]
  <2>1. CASE i = 0
    BY <1>1, <2>1 DEF Steps
  <2>2. CASE i # 0
    <3>1. i - 1 \in 0 .. n - 1 /\ (i - 1) + 1 = i
      BY <2>2
    <3> QED BY <1>1, <2>2, <3>1 DEF Steps
  <2> QED BY <2>1, <2>2
<1>3. Loop(g, n, first, step)
  BY <1>1, <1>2 DEF Loop
<1> QED BY <1>1, <1>3

\* What every round keeps in a set is in it after each of them.
LEMMA LoopStays ==
  ASSUME NEW n \in Nat, NEW S, NEW f, f[0] \in S,
         \A i \in 0 .. n - 1 : f[i] \in S => f[i + 1] \in S
  PROVE  \A i \in 0 .. n : f[i] \in S
<1> DEFINE T == {i \in Nat : f[i] \in S}
<1>1. 0 \in T
  OBVIOUS
<1>2. \A i \in 0 .. n - 1 : i \in T => i + 1 \in T
  OBVIOUS
<1> HIDE DEF T
<1>3. \A i \in 0 .. n : i \in T
  BY <1>1, <1>2, AllUpTo
<1> QED BY <1>3 DEF T

-----------------------------------------------------------------------------
(* Subsequences *)

\* The equation of Chosen.
LEMMA ChosenEquation ==
  ASSUME NEW S, NEW s \in Seq(S), NEW K
  PROVE  /\ Chosen(s, K) \in [0 .. Len(s) -> Seq(S)]
         /\ Chosen(s, K)[0] = <<>>
         /\ \A i \in 0 .. Len(s) - 1 :
              Chosen(s, K)[i + 1] =
                IF i + 1 \in K THEN Append(Chosen(s, K)[i], s[i + 1]) ELSE Chosen(s, K)[i]
<1> DEFINE n == Len(s)
           step == [p \in Nat \X Seq(S) |->
                      IF p[1] \in K /\ p[1] \in 1 .. n THEN Append(p[2], s[p[1]]) ELSE p[2]]
<1>1. n \in Nat /\ \A i \in 1 .. n : s[i] \in S
  OBVIOUS
<1>2. step \in [Nat \X Seq(S) -> Seq(S)]
  <2> SUFFICES ASSUME NEW i \in Nat, NEW t \in Seq(S)
               PROVE  (IF i \in K /\ i \in 1 .. n THEN Append(t, s[i]) ELSE t) \in Seq(S)
    OBVIOUS
  <2>1. CASE i \in K /\ i \in 1 .. n
    <3>1. s[i] \in S
      BY <1>1, <2>1
    <3>2. Append(t, s[i]) \in Seq(S)
      BY <3>1
    <3> QED BY <2>1, <3>2
  <2> QED BY <2>1
<1>3. \A i \in 1 .. n, t \in Seq(S) : step[<<i, t>>] = IF i \in K THEN Append(t, s[i]) ELSE t
  BY <1>1
<1>4. <<>> \in Seq(S)
  OBVIOUS
<1> HIDE DEF n, step
<1>5. PICK g : g \in [0 .. n -> Seq(S)] /\ Steps(g, n, <<>>, step)
  BY <1>1, <1>2, <1>4, StepsExist
<1>6. ASSUME NEW i \in 0 .. n
      PROVE  g[i] = IF i = 0 THEN <<>> ELSE IF i \in K THEN Append(g[i - 1], s[i]) ELSE g[i - 1]
  <2>1. CASE i = 0
    BY <1>5, <2>1 DEF Steps
  <2>2. CASE i # 0
    <3>1. i \in 1 .. n /\ i - 1 \in 0 .. n - 1 /\ i - 1 \in 0 .. n /\ (i - 1) + 1 = i
      BY <1>1, <2>2
    <3>2. g[i] = step[<<i, g[i - 1]>>] /\ g[i - 1] \in Seq(S)
      BY <1>5, <3>1 DEF Steps
    <3> QED BY <1>3, <2>2, <3>1, <3>2
  <2> QED BY <2>1, <2>2
<1> DEFINE f == Chosen(s, K)
<1>7. f = [i \in 0 .. n |-> IF i = 0 THEN <<>> ELSE IF i \in K THEN Append(f[i - 1], s[i]) ELSE f[i - 1]]
  <2>1. g = [i \in 0 .. n |-> IF i = 0 THEN <<>> ELSE IF i \in K THEN Append(g[i - 1], s[i]) ELSE g[i - 1]]
    BY <1>5, <1>6
  <2> QED BY <2>1 DEF Chosen, n
<1> HIDE DEF f
<1>8. f[0] = <<>>
  BY <1>1, <1>7
<1>9. ASSUME NEW i \in 0 .. n - 1
      PROVE  f[i + 1] = IF i + 1 \in K THEN Append(f[i], s[i + 1]) ELSE f[i]
  <2>1. i + 1 \in 0 .. n /\ i + 1 # 0 /\ (i + 1) - 1 = i
    BY <1>1
  <2> QED BY <1>7, <2>1
<1>10. f \in [0 .. n -> Seq(S)]
  <2> DEFINE T == {i \in 0 .. n : f[i] \in Seq(S)}
  <2>1. 0 \in T
    <3>1. 0 \in 0 .. n /\ f[0] \in Seq(S)
      BY <1>1, <1>4, <1>8
    <3> QED BY <3>1
  <2>2. ASSUME NEW i \in 0 .. n - 1, i \in T PROVE i + 1 \in T
    <3>1. i + 1 \in 1 .. n /\ i + 1 \in 0 .. n /\ f[i] \in Seq(S)
      BY <1>1, <2>2
    <3>2. s[i + 1] \in S
      BY <1>1, <3>1
    <3>3. Append(f[i], s[i + 1]) \in Seq(S)
      BY <3>1, <3>2
    <3>4. f[i + 1] \in Seq(S)
      BY <1>9, <3>1, <3>3
    <3> QED BY <3>1, <3>4
  <2> HIDE DEF T
  <2>3. \A i \in 0 .. n : i \in T
    BY <1>1, <2>1, <2>2, AllUpTo
  <2> QED BY <1>7, <2>3 DEF T
<1> QED BY <1>8, <1>9, <1>10 DEF f, n

\* Element j of a subsequence is one of the chosen ones, at j or later.
LEMMA SubsequenceElements ==
  ASSUME NEW S, NEW s \in Seq(S), NEW K
  PROVE  /\ Subsequence(s, K) \in Seq(S)
         /\ \A j \in 1 .. Len(Subsequence(s, K)) :
              \E k \in 1 .. Len(s) : k \in K /\ j <= k /\ Subsequence(s, K)[j] = s[k]
<1> DEFINE n == Len(s)
           f == Chosen(s, K)
           From(i) == /\ Len(f[i]) <= i
                      /\ \A j \in 1 .. Len(f[i]) : \E k \in 1 .. i : k \in K /\ j <= k /\ f[i][j] = s[k]
           T == {i \in 0 .. n : From(i)}
<1>1. n \in Nat /\ \A i \in 1 .. n : s[i] \in S
  OBVIOUS
<1>2. /\ f \in [0 .. n -> Seq(S)] /\ f[0] = <<>>
      /\ \A i \in 0 .. n - 1 : f[i + 1] = IF i + 1 \in K THEN Append(f[i], s[i + 1]) ELSE f[i]
  BY ChosenEquation
<1> HIDE DEF n, f
<1>3. 0 \in T
  BY <1>1, <1>2
<1>4. ASSUME NEW i \in 0 .. n - 1, i \in T PROVE i + 1 \in T
  <2>1. i + 1 \in 0 .. n /\ i \in 0 .. n /\ i \in Nat /\ f[i] \in Seq(S) /\ i + 1 \in 1 .. n
    BY <1>1, <1>2
  <2>2. From(i)
    BY <1>4
  <2>3. CASE i + 1 \in K
    <3>1. f[i + 1] = Append(f[i], s[i + 1]) /\ s[i + 1] \in S
      BY <1>1, <1>2, <2>1, <2>3
    <3>2. /\ Len(f[i + 1]) = Len(f[i]) + 1
          /\ \A j \in 1 .. Len(f[i]) : f[i + 1][j] = f[i][j]
          /\ f[i + 1][Len(f[i]) + 1] = s[i + 1]
      BY <2>1, <3>1
    <3>3. Len(f[i + 1]) <= i + 1
      BY <2>1, <2>2, <3>2
    <3>4. ASSUME NEW j \in 1 .. Len(f[i + 1])
          PROVE  \E k \in 1 .. i + 1 : k \in K /\ j <= k /\ f[i + 1][j] = s[k]
      <4>1. CASE j = Len(f[i]) + 1
        <5>1. j <= i + 1 /\ i + 1 \in 1 .. i + 1
          BY <2>1, <3>2, <3>3
        <5> QED BY <2>3, <3>2, <4>1, <5>1
      <4>2. CASE j # Len(f[i]) + 1
        <5>1. j \in 1 .. Len(f[i])
          BY <2>1, <3>2, <4>2
        <5>2. PICK k \in 1 .. i : k \in K /\ j <= k /\ f[i][j] = s[k]
          BY <2>2, <5>1
        <5>3. k \in 1 .. i + 1 /\ f[i + 1][j] = s[k]
          BY <2>1, <3>2, <5>1, <5>2
        <5> QED BY <5>2, <5>3
      <4> QED BY <4>1, <4>2
    <3> QED BY <2>1, <3>3, <3>4
  <2>4. CASE i + 1 \notin K
    <3>1. f[i + 1] = f[i]
      BY <1>2, <2>4
    <3>2. Len(f[i]) <= i + 1 /\ \A k \in 1 .. i : k \in 1 .. i + 1
      BY <2>1, <2>2
    <3> QED BY <2>1, <2>2, <3>1, <3>2
  <2> QED BY <2>3, <2>4
<1> HIDE DEF T
<1>5. \A i \in 0 .. n : i \in T
  BY <1>1, <1>3, <1>4, AllUpTo
<1>6. From(n)
  <2>1. n \in 0 .. n
    BY <1>1
  <2>2. n \in T
    BY <1>5, <2>1
  <2> HIDE DEF From
  <2> QED BY <2>2 DEF T
<1>7. Subsequence(s, K) = f[n]
  BY DEF Subsequence, f, n
<1> QED BY <1>2, <1>6, <1>7 DEF n

\* If all are chosen, the subsequence is the sequence.
LEMMA SubsequenceWhole ==
  ASSUME NEW S, NEW s \in Seq(S), NEW K, \A i \in 1 .. Len(s) : i \in K
  PROVE  Subsequence(s, K) = s
<1> DEFINE n == Len(s)
           f == Chosen(s, K)
           Upto(i) == Len(f[i]) = i /\ \A j \in 1 .. i : f[i][j] = s[j]
           T == {i \in 0 .. n : Upto(i)}
<1>1. n \in Nat /\ \A i \in 1 .. n : s[i] \in S /\ i \in K
  OBVIOUS
<1>2. /\ f \in [0 .. n -> Seq(S)] /\ f[0] = <<>>
      /\ \A i \in 0 .. n - 1 : f[i + 1] = IF i + 1 \in K THEN Append(f[i], s[i + 1]) ELSE f[i]
  BY ChosenEquation
<1> HIDE DEF n, f
<1>3. 0 \in T
  BY <1>1, <1>2
<1>4. ASSUME NEW i \in 0 .. n - 1, i \in T PROVE i + 1 \in T
  <2>1. i + 1 \in 0 .. n /\ i \in 0 .. n /\ i \in Nat /\ f[i] \in Seq(S) /\ i + 1 \in 1 .. n
    BY <1>1, <1>2
  <2>2. Upto(i)
    BY <1>4
  <2>3. f[i + 1] = Append(f[i], s[i + 1]) /\ s[i + 1] \in S
    BY <1>1, <1>2, <2>1
  <2>4. /\ Len(f[i + 1]) = i + 1
        /\ \A j \in 1 .. i : f[i + 1][j] = f[i][j]
        /\ f[i + 1][i + 1] = s[i + 1]
    BY <2>1, <2>2, <2>3
  <2>5. \A j \in 1 .. i + 1 : j = i + 1 \/ j \in 1 .. i
    BY <2>1
  <2> QED BY <2>1, <2>2, <2>4, <2>5
<1> HIDE DEF T
<1>5. \A i \in 0 .. n : i \in T
  BY <1>1, <1>3, <1>4, AllUpTo
<1>6. n \in 0 .. n /\ Upto(n)
  BY <1>1, <1>5 DEF T
<1>7. f[n] \in Seq(S) /\ Len(f[n]) = Len(s) /\ \A j \in 1 .. Len(s) : f[n][j] = s[j]
  BY <1>2, <1>6 DEF n
<1>8. f[n] = s
  BY <1>7
<1> QED BY <1>8 DEF Subsequence, f, n

\* What has been chosen stays.
LEMMA ChosenStays ==
  ASSUME NEW S, NEW s \in Seq(S), NEW K
  PROVE  \A i \in 0 .. Len(s) :
           /\ Len(Chosen(s, K)[i]) <= Len(Subsequence(s, K))
           /\ \A j \in 1 .. Len(Chosen(s, K)[i]) : Subsequence(s, K)[j] = Chosen(s, K)[i][j]
<1> DEFINE n == Len(s)
           f == Chosen(s, K)
           Stays(i) == Len(f[i]) <= Len(f[n]) /\ \A j \in 1 .. Len(f[i]) : f[n][j] = f[i][j]
           T == {i \in 0 .. n : Stays(n - i)}
<1>1. n \in Nat /\ \A i \in 1 .. n : s[i] \in S
  OBVIOUS
<1>2. /\ f \in [0 .. n -> Seq(S)] /\ f[0] = <<>>
      /\ \A i \in 0 .. n - 1 : f[i + 1] = IF i + 1 \in K THEN Append(f[i], s[i + 1]) ELSE f[i]
  BY ChosenEquation
<1> HIDE DEF n, f
<1>3. 0 \in T
  <2>1. n - 0 = n /\ 0 \in 0 .. n /\ f[n] \in Seq(S)
    BY <1>1, <1>2
  <2> QED BY <2>1
<1>4. ASSUME NEW i \in 0 .. n - 1, i \in T PROVE i + 1 \in T
  <2> DEFINE k == n - (i + 1)
  <2>1. k \in 0 .. n - 1 /\ k \in 0 .. n /\ k + 1 \in 1 .. n /\ k + 1 \in 0 .. n /\ n - i = k + 1 /\ i + 1 \in 0 .. n
    BY <1>1
  <2> HIDE DEF k
  <2>2. Stays(k + 1)
    BY <1>4, <2>1
  <2>3. f[k] \in Seq(S) /\ f[n] \in Seq(S) /\ s[k + 1] \in S
    BY <1>1, <1>2, <2>1
  <2>4. Len(f[k]) <= Len(f[k + 1]) /\ \A j \in 1 .. Len(f[k]) : f[k + 1][j] = f[k][j] /\ j \in 1 .. Len(f[k + 1])
    <3>1. CASE k + 1 \in K
      <4>1. f[k + 1] = Append(f[k], s[k + 1])
        BY <1>2, <2>1, <3>1
      <4> QED BY <2>3, <4>1
    <3>2. CASE k + 1 \notin K
      <4>1. f[k + 1] = f[k]
        BY <1>2, <2>1, <3>2
      <4> QED BY <2>3, <4>1
    <3> QED BY <3>1, <3>2
  <2>5. Len(f[k + 1]) \in Nat /\ Len(f[k]) \in Nat /\ Len(f[n]) \in Nat
    BY <1>1, <1>2, <2>1
  <2>6. Len(f[k]) <= Len(f[n])
    BY <2>2, <2>4, <2>5
  <2>7. Stays(k)
    BY <2>2, <2>4, <2>6
  <2> QED BY <2>1, <2>7 DEF k
<1> HIDE DEF T
<1>5. \A i \in 0 .. n : i \in T
  BY <1>1, <1>3, <1>4, AllUpTo
<1>6. ASSUME NEW i \in 0 .. n PROVE Stays(i)
  <2>1. n - i \in 0 .. n /\ n - (n - i) = i
    BY <1>1
  <2>2. Stays(n - (n - i))
    BY <1>5, <2>1 DEF T
  <2> QED BY <2>1, <2>2
<1> QED BY <1>6 DEF Subsequence, f, n

\* The chosen ones of two sequences, one behind the other.
LEMMA SubsequenceConcat ==
  ASSUME NEW S, NEW s \in Seq(S), NEW t \in Seq(S), NEW K, NEW L,
         \A i \in 1 .. Len(t) : Len(s) + i \in K <=> i \in L
  PROVE  Subsequence(s \o t, K) = Subsequence(s, K) \o Subsequence(t, L)
<1> DEFINE n == Len(s)
           m == Len(t)
           u == s \o t
           f == Chosen(s, K)
           g == Chosen(t, L)
           h == Chosen(u, K)
<1>1. n \in Nat /\ m \in Nat
  OBVIOUS
<1>2. /\ u \in Seq(S) /\ Len(u) = n + m
      /\ \A i \in 1 .. n : u[i] = s[i]
      /\ \A i \in 1 .. m : u[n + i] = t[i]
  BY ConcatProperties
<1>3. /\ f \in [0 .. n -> Seq(S)] /\ f[0] = <<>>
      /\ \A i \in 0 .. n - 1 : f[i + 1] = IF i + 1 \in K THEN Append(f[i], s[i + 1]) ELSE f[i]
  BY ChosenEquation
<1>4. /\ g \in [0 .. m -> Seq(S)] /\ g[0] = <<>>
      /\ \A i \in 0 .. m - 1 : g[i + 1] = IF i + 1 \in L THEN Append(g[i], t[i + 1]) ELSE g[i]
  BY ChosenEquation
<1> HIDE DEF u
<1>5. /\ h \in [0 .. n + m -> Seq(S)] /\ h[0] = <<>>
      /\ \A i \in 0 .. (n + m) - 1 : h[i + 1] = IF i + 1 \in K THEN Append(h[i], u[i + 1]) ELSE h[i]
  <2>1. u \in Seq(S)
    BY <1>2
  <2>2. /\ h \in [0 .. Len(u) -> Seq(S)] /\ h[0] = <<>>
        /\ \A i \in 0 .. Len(u) - 1 : h[i + 1] = IF i + 1 \in K THEN Append(h[i], u[i + 1]) ELSE h[i]
    BY <2>1, ChosenEquation
  <2>3. Len(u) = n + m
    BY <1>2
  <2> HIDE DEF h, n, m
  <2> QED BY <2>2, <2>3
<1>6. Subsequence(s, K) = f[n] /\ Subsequence(t, L) = g[m] /\ Subsequence(u, K) = h[n + m]
  BY <1>2 DEF Subsequence
<1>7. \A i \in 1 .. m : n + i \in K <=> i \in L
  OBVIOUS
<1>17. \A x, y \in Seq(S), e \in S : Append(x \o y, e) = x \o Append(y, e)
  <2> SUFFICES ASSUME NEW x \in Seq(S), NEW y \in Seq(S), NEW e \in S
               PROVE  Append(x \o y, e) = x \o Append(y, e)
    OBVIOUS
  <2>1. x \o y \in Seq(S) /\ <<e>> \in Seq(S)
    OBVIOUS
  <2>2. Append(x \o y, e) = (x \o y) \o <<e>> /\ Append(y, e) = y \o <<e>>
    BY <2>1, AppendIsConcat
  <2> QED BY <2>1, <2>2, ConcatAssociative
<1> HIDE DEF n, m, f, g, h
<1> DEFINE T == {i \in 0 .. n : h[i] = f[i]}
<1>8. 0 \in T
  BY <1>1, <1>3, <1>5
<1>9. ASSUME NEW i \in 0 .. n - 1, i \in T PROVE i + 1 \in T
  <2>1. i + 1 \in 0 .. n /\ i + 1 \in 1 .. n /\ i \in 0 .. (n + m) - 1
    BY <1>1
  <2> QED BY <1>2, <1>3, <1>5, <1>9, <2>1
<1> HIDE DEF T
<1>10. \A i \in 0 .. n : i \in T
  BY <1>1, <1>8, <1>9, AllUpTo
<1>11. h[n] = f[n] /\ f[n] \in Seq(S)
  BY <1>1, <1>3, <1>10 DEF T
<1> DEFINE U == {i \in 0 .. m : h[n + i] = f[n] \o g[i]}
<1>12. 0 \in U
  <2>1. 0 \in 0 .. m /\ n + 0 = n
    BY <1>1
  <2>2. f[n] \o <<>> = f[n]
    BY <1>11, ConcatEmptySeq
  <2> QED BY <1>4, <1>11, <2>1, <2>2
<1>13. ASSUME NEW i \in 0 .. m - 1, i \in U PROVE i + 1 \in U
  <2>1. /\ i + 1 \in 0 .. m /\ i + 1 \in 1 .. m /\ i \in 0 .. m
        /\ n + i \in 0 .. (n + m) - 1 /\ (n + i) + 1 = n + (i + 1)
    BY <1>1
  <2>2. h[n + i] = f[n] \o g[i] /\ g[i] \in Seq(S)
    BY <1>4, <1>13, <2>1
  <2>3. h[n + (i + 1)] = IF n + (i + 1) \in K THEN Append(h[n + i], u[n + (i + 1)]) ELSE h[n + i]
    BY <1>5, <2>1
  <2>4. n + (i + 1) \in K <=> i + 1 \in L
    BY <1>7, <2>1
  <2>5. CASE i + 1 \in L
    <3>1. g[i + 1] = Append(g[i], t[i + 1]) /\ u[n + (i + 1)] = t[i + 1]
      BY <1>2, <1>4, <2>1, <2>5
    <3>2. t[i + 1] \in S
      BY <2>1 DEF m
    <3>3. Append(f[n] \o g[i], t[i + 1]) = f[n] \o Append(g[i], t[i + 1])
      <4>2. f[n] \in Seq(S) /\ g[i] \in Seq(S) /\ t[i + 1] \in S
        BY <1>11, <2>2, <3>2
      <4> QED BY <1>17, <4>2
    <3> QED BY <2>1, <2>2, <2>3, <2>4, <2>5, <3>1, <3>3
  <2>6. CASE i + 1 \notin L
    BY <1>4, <2>1, <2>2, <2>3, <2>4, <2>6
  <2> QED BY <2>5, <2>6
<1> HIDE DEF U
<1>14. \A i \in 0 .. m : i \in U
  BY <1>1, <1>12, <1>13, AllUpTo
<1>15. m \in U
  BY <1>1, <1>14
<1>16. h[n + m] = f[n] \o g[m]
  BY <1>15 DEF U
<1> QED BY <1>6, <1>16 DEF u
=============================================================================
