---------------------------- MODULE LoopTheorems ----------------------------
(***************************************************************************)
(* What the proofs share: remainders, least elements, and loops.           *)
(*                                                                         *)
(* A loop of the code is a recursive function of the round, after[i] being *)
(* what the loop has made of its state after i rounds.  Induction is       *)
(* stated for sets of numbers, a loop for a function that gives the step   *)
(* of each round: the provers can instantiate these.                       *)
(***************************************************************************)
EXTENDS Integers, FiniteSetsExt, WellFoundedInduction, TLAPS

-----------------------------------------------------------------------------
(* Remainders                                                              *)

\* Quotient and remainder are unique.
LEMMA ModUnique ==
    ASSUME NEW n \in Nat \ {0}, NEW x \in Int, NEW r \in 0..(n - 1), NEW q \in Int,
           x = q * n + r
    PROVE  x % n = r
  BY Z3

\* A number in range is its own remainder.
LEMMA SmallMod ==
    ASSUME NEW n \in Nat \ {0}, NEW x \in 0..(n - 1)
    PROVE  x % n = x
  BY Z3

\* Every number has a quotient and a remainder.
LEMMA DivMod ==
    ASSUME NEW n \in Nat \ {0}, NEW x \in Int
    PROVE  \E q \in Int : \E r \in 0..(n - 1) : x = q * n + r /\ x % n = r
  <1>1. x \div n \in Int /\ x = (x \div n) * n + (x % n)
    BY Z3
  <1>2. x % n \in 0..(n - 1)
    BY Z3
  <1> QED
    BY <1>1, <1>2, Zenon

LEMMA Multiple ==
    ASSUME NEW n \in Nat \ {0}, NEW q \in Int
    PROVE  (q * n) \div n = q /\ (q * n) % n = 0
  BY Z3

LEMMA SmallQuotient ==
    ASSUME NEW n \in Nat \ {0}, NEW v \in 0..(n - 1)
    PROVE  v \div n = 0
  BY Z3

\* A word that is a multiple of n keeps remainders by n.
LEMMA ModMod ==
    ASSUME NEW n \in Nat \ {0}, NEW w \in Nat \ {0}, w % n = 0, NEW x \in Int
    PROVE  (x % w) % n = x % n
  <1>1. w \in Int
    OBVIOUS
  <1>2. PICK k \in Int, z \in 0..(n - 1) : w = k * n + z /\ w % n = z
    BY <1>1, DivMod, Zenon
  <1>3. PICK q \in Int, y \in 0..(w - 1) : x = q * w + y /\ x % w = y
    BY DivMod, Zenon
  <1>4. y \in Int
    OBVIOUS
  <1>5. PICK s \in Int, r \in 0..(n - 1) : y = s * n + r /\ y % n = r
    BY <1>4, DivMod, Zenon
  <1>6. w = k * n
    BY <1>2
  <1>7. x = (q * k + s) * n + r
    BY <1>3, <1>5, <1>6, Z3
  <1>8. q * k + s \in Int
    BY Z3
  <1>9. x % n = r
    BY <1>7, <1>8, ModUnique
  <1> QED
    BY <1>3, <1>5, <1>9

\* Numbers less than n apart have different remainders.
LEMMA ModInjective ==
    ASSUME NEW n \in Nat \ {0}, NEW i \in Int, NEW j \in Int,
           i - j > -n, i - j < n, i % n = j % n
    PROVE  i = j
  <1>1. PICK q \in Int, r \in 0..(n - 1) : i = q * n + r /\ i % n = r
    BY DivMod, Zenon
  <1>2. PICK s \in Int, t \in 0..(n - 1) : j = s * n + t /\ j % n = t
    BY DivMod, Zenon
  <1>3. r = t
    BY <1>1, <1>2
  <1>4. i - j = (q - s) * n
    BY <1>1, <1>2, <1>3, Z3
  <1> QED
    BY <1>4, Z3

\* A remainder may be taken of a summand first.
LEMMA ModSum ==
    ASSUME NEW n \in Nat \ {0}, NEW x \in Int, NEW y \in Int
    PROVE  (x + (y % n)) % n = (x + y) % n
  <1>1. PICK q \in Int, r \in 0..(n - 1) : y = q * n + r /\ y % n = r
    BY DivMod, Zenon
  <1>2. x + r \in Int
    OBVIOUS
  <1>3. PICK s \in Int, t \in 0..(n - 1) : x + r = s * n + t /\ (x + r) % n = t
    BY <1>2, DivMod, Zenon
  <1>4. x + y = (s + q) * n + t
    BY <1>1, <1>3, Z3
  <1>5. s + q \in Int /\ x + y \in Int
    OBVIOUS
  <1>6. (x + y) % n = t
    BY <1>4, <1>5, ModUnique
  <1> QED
    BY <1>1, <1>3, <1>6

-----------------------------------------------------------------------------
(* Least elements and induction                                            *)

\* A nonempty set of naturals has a least element.
LEMMA LeastExists ==
    ASSUME NEW S, S \subseteq Nat, S # {}
    PROVE  \E x \in S : \A y \in S : x =< y
  <1>1. PICK x \in S : \A y \in S : ~ (<<y, x>> \in OpToRel(<, Nat))
    BY NatLessThanWellFounded, WFMin
  <1>2. OpToRel(<, Nat) = {ss \in Nat \X Nat : ss[1] < ss[2]}
    BY Zenon DEF OpToRel
  <1>3. ASSUME NEW y \in S PROVE x =< y
    <2>1. ~ (<<y, x>> \in {ss \in Nat \X Nat : ss[1] < ss[2]})
      BY <1>1, <1>2, Zenon
    <2> QED
      BY <2>1
  <1> QED
    BY <1>1, <1>3

\* It is the one that Min chooses.
LEMMA MinIsLeast ==
    ASSUME NEW S, S \subseteq Nat, S # {}
    PROVE  Min(S) \in S /\ \A y \in S : Min(S) =< y
  <1>1. \E x \in S : \A y \in S : x =< y
    BY LeastExists
  <1> QED
    BY <1>1 DEF Min

\* A nonempty set of numbers up to n has a greatest element, which Max chooses.
LEMMA MaxIsGreatest ==
    ASSUME NEW n \in Nat, NEW S, S \subseteq 1..n, S # {}
    PROVE  Max(S) \in S /\ \A y \in S : y =< Max(S)
  <1> DEFINE D == {k \in 0..n : n - k \in S}
  <1>1. \A y \in S : y \in Int /\ n - y \in 0..n /\ n - (n - y) = y
    OBVIOUS
  <1>2. \A y \in S : n - y \in D
    BY <1>1
  <1>3. D \subseteq Nat /\ D # {}
    <2>1. PICK y : y \in S
      OBVIOUS
    <2>2. n - y \in D
      BY <1>2, <2>1
    <2> QED
      BY <2>2
  <1>4. PICK d \in D : \A y \in D : d =< y
    BY <1>3, LeastExists, Zenon
  <1>5. n - d \in S /\ \A y \in S : n - d >= y
    <2>1. d \in 0..n /\ n - d \in S
      BY <1>4
    <2>2. ASSUME NEW y \in S PROVE n - d >= y
      <3>1. d =< n - y
        BY <1>2, <1>4
      <3> QED
        BY <1>1, <2>1, <3>1
    <2> QED
      BY <2>1, <2>2
  <1>6. Max(S) \in S /\ \A y \in S : Max(S) >= y
    BY <1>5 DEF Max
  <1> QED
    BY <1>6

\* Induction up to n.
LEMMA SetInduction ==
    ASSUME NEW n \in Nat, NEW S, 0 \in S, \A k \in 0..(n - 1) : k \in S => k + 1 \in S
    PROVE  0..n \subseteq S
  <1> DEFINE D == (0..n) \ S
  <1> SUFFICES ASSUME D # {} PROVE FALSE
    OBVIOUS
  <1>1. D \subseteq Nat
    OBVIOUS
  <1>2. PICK x \in D : \A y \in D : x =< y
    BY <1>1, LeastExists, Zenon
  <1>3. x # 0 /\ x - 1 \in 0..(n - 1)
    BY <1>2
  <1>4. x - 1 \in S
    BY <1>2, <1>3
  <1>5. (x - 1) + 1 \in S
    BY <1>3, <1>4
  <1> QED
    BY <1>2, <1>5

-----------------------------------------------------------------------------
(* Loops                                                                   *)

\* f is what a loop has made of base after each of n rounds
IsLoop(f, n, base, step) ==
    f = [i \in 0..n |-> IF i = 0 THEN base ELSE step[i][f[i - 1]]]

\* The recursive function of a loop exists, if every round leads from T to T.
LEMMA LoopDefined ==
    ASSUME NEW T, NEW base \in T, NEW n \in Nat, NEW step \in [1..n -> [T -> T]]
    PROVE  \E f \in [0..n -> T] : IsLoop(f, n, base, step)
  <1> DEFINE Rounds(k, f) == f = [i \in 0..k |-> IF i = 0 THEN base ELSE step[i][f[i - 1]]]
             S == {k \in 0..n : \E f \in [0..k -> T] : Rounds(k, f)}
  <1>1. 0 \in S
    <2> DEFINE g == [i \in 0..0 |-> base]
    <2>1. g \in [0..0 -> T] /\ Rounds(0, g) /\ 0 \in 0..n
      OBVIOUS
    <2> HIDE DEF g, Rounds
    <2> QED
      BY <2>1, Zenon
  <1>2. ASSUME NEW k \in 0..(n - 1), k \in S
        PROVE  k + 1 \in S
    <2>1. PICK f \in [0..k -> T] : Rounds(k, f)
      BY <1>2, Zenon
    <2>2. k + 1 \in 1..n /\ k \in 0..k
      OBVIOUS
    <2>3. step[k + 1][f[k]] \in T
      <3>1. step[k + 1] \in [T -> T]
        BY <2>2
      <3>2. f[k] \in T
        BY <2>1, <2>2
      <3> QED
        BY <3>1, <3>2
    <2> DEFINE g == [i \in 0..(k + 1) |-> IF i = k + 1 THEN step[k + 1][f[k]] ELSE f[i]]
    <2>4. g \in [0..(k + 1) -> T]
      BY <2>1, <2>3
    <2>5. ASSUME NEW i \in 0..(k + 1)
          PROVE  g[i] = IF i = 0 THEN base ELSE step[i][g[i - 1]]
      <3>1. CASE i = k + 1
        BY <2>2, <3>1
      <3>2. CASE i # k + 1
        <4>1. i \in 0..k /\ g[i] = f[i]
          BY <3>2
        <4>2. i # 0 => i - 1 \in 0..k /\ g[i - 1] = f[i - 1]
          BY <3>2
        <4>3. f[i] = IF i = 0 THEN base ELSE step[i][f[i - 1]]
          BY <2>1, <4>1
        <4> QED
          BY <4>1, <4>2, <4>3
      <3> QED
        BY <3>1, <3>2
    <2>6. Rounds(k + 1, g) /\ k + 1 \in 0..n
      BY <2>5
    <2> HIDE DEF g, Rounds
    <2> QED
      BY <2>4, <2>6, Zenon
  <1> HIDE DEF S
  <1>3. 0..n \subseteq S
    BY <1>1, <1>2, SetInduction, Zenon
  <1>4. n \in S
    BY <1>3
  <1> HIDE DEF Rounds
  <1>5. \E f \in [0..n -> T] : Rounds(n, f)
    BY <1>4, Zenon DEF S
  <1> QED
    BY <1>5, Zenon DEF Rounds, IsLoop

\* What holds before a loop and is kept by every round holds throughout.
LEMMA LoopInvariant ==
    ASSUME NEW T, NEW n \in Nat, NEW f, f[0] \in T,
           \A i \in 1..n : f[i - 1] \in T => f[i] \in T
    PROVE  \A i \in 0..n : f[i] \in T
  <1> DEFINE S == {i \in 0..n : f[i] \in T}
  <1>1. 0 \in S
    OBVIOUS
  <1>2. ASSUME NEW k \in 0..(n - 1), k \in S
        PROVE  k + 1 \in S
    <2>1. k + 1 \in 1..n /\ (k + 1) - 1 = k
      OBVIOUS
    <2> QED
      BY <1>2, <2>1
  <1> HIDE DEF S
  <1>3. 0..n \subseteq S
    BY <1>1, <1>2, SetInduction, Zenon
  <1> QED
    BY <1>3 DEF S
=============================================================================
