--------------------------- MODULE ResultsProofs ---------------------------
(***************************************************************************)
(* What is read of a check is what was recorded of it, sorted, and when    *)
(* both sinks tell the same history: for every base and width of the text  *)
(* of a timestamp, any number of checks and results, every setting of the  *)
(* clock and every order in which executions are recorded.  The text of a  *)
(* timestamp is a fixed number of digits: it is worth the number it was    *)
(* made from, and of two texts the smaller number's comes first.           *)
(***************************************************************************)
EXTENDS Results, FiniteSetTheorems, SequenceTheorems, WellFoundedInduction, TLAPS

(* Recursive functions.  A set of numbers has a least one: arguments by a  *)
(* smallest counterexample take the place of induction.                    *)
LEMMA LeastNumber ==
  ASSUME NEW T, T \subseteq Nat, T # {}
  PROVE  \E n \in T : \A m \in T : n <= m
<1>1. PICK n \in T : \A m \in T : <<m, n>> \notin OpToRel(<, Nat)
  BY NatLessThanWellFounded, WFMin
<1>2. ASSUME NEW m \in T PROVE n <= m
  <2>1. m \in Nat /\ n \in Nat
    OBVIOUS
  <2>2. ~(m < n)
    BY <1>1, <2>1 DEF OpToRel
  <2>3. QED
    BY <2>1, <2>2
<1>3. QED
  BY <1>2

(* A set that holds 0 and every successor of its numbers up to n holds all *)
(* of them.                                                                *)
LEMMA UpTo ==
  ASSUME NEW n \in Nat, NEW T, 0 \in T, \A i \in 1..n : i - 1 \in T => i \in T
  PROVE  0..n \subseteq T
<1> DEFINE Out == {i \in 0..n : i \notin T}
<1>1. SUFFICES ASSUME Out # {} PROVE FALSE
  OBVIOUS
<1>2. PICK i \in Out : \A j \in Out : i <= j
  <2>1. Out \subseteq Nat
    OBVIOUS
  <2> HIDE DEF Out
  <2>2. QED
    BY <1>1, <2>1, LeastNumber
<1>3. i \in 1..n /\ i - 1 \in 0..n
  OBVIOUS
<1>4. i - 1 \in T
  BY <1>2, <1>3
<1>5. QED
  BY <1>3, <1>4

LEMMA AllNumbers ==
  ASSUME NEW T, 0 \in T, \A i \in Nat \ {0} : i - 1 \in T => i \in T
  PROVE  Nat \subseteq T
<1>1. ASSUME NEW n \in Nat PROVE n \in T
  <2>1. 0..n \subseteq T
    BY UpTo
  <2>2. QED
    BY <2>1
<1>2. QED
  BY <1>1

(* One value for 0, and one for each number from the value before it: the  *)
(* values up to n exist, and two functions with them are equal there.      *)
Steps(f, n, first, step) ==
  f[0] = first /\ \A i \in 1..n : f[i] = step[<<i, f[i - 1]>>]

LEMMA StepsAgree ==
  ASSUME NEW S, NEW n \in Nat, NEW first \in S, NEW step \in [(Nat \ {0}) \X S -> S],
         NEW f, Steps(f, n, first, step), NEW g, Steps(g, n, first, step)
  PROVE  \A i \in 0..n : f[i] = g[i] /\ f[i] \in S
<1> DEFINE T == {i \in 0..n : f[i] = g[i] /\ f[i] \in S}
<1>1. 0 \in T
  BY DEF Steps
<1>2. ASSUME NEW i \in 1..n, i - 1 \in T PROVE i \in T
  <2>1. f[i] = step[<<i, f[i - 1]>>] /\ g[i] = step[<<i, g[i - 1]>>]
    BY DEF Steps
  <2>2. <<i, f[i - 1]>> \in (Nat \ {0}) \X S
    BY <1>2
  <2>3. QED
    BY <1>2, <2>1, <2>2
<1>3. 0..n \subseteq T
  <2> HIDE DEF T
  <2>1. QED
    BY <1>1, <1>2, UpTo
<1>4. QED
  BY <1>3

LEMMA StepsExist ==
  ASSUME NEW S, NEW first \in S, NEW step \in [(Nat \ {0}) \X S -> S]
  PROVE  \A n \in Nat : \E f \in [0..n -> S] : Steps(f, n, first, step)
<1> DEFINE T == {n \in Nat : \E f \in [0..n -> S] : Steps(f, n, first, step)}
<1>1. 0 \in T
  <2>1. [i \in 0..0 |-> first] \in [0..0 -> S] /\ Steps([i \in 0..0 |-> first], 0, first, step)
    BY DEF Steps
  <2>2. QED
    BY <2>1
<1>2. ASSUME NEW n \in Nat \ {0}, n - 1 \in T PROVE n \in T
  <2>1. PICK f \in [0..n - 1 -> S] : Steps(f, n - 1, first, step)
    BY <1>2
  <2> DEFINE g == [i \in 0..n |-> IF i < n THEN f[i] ELSE step[<<n, f[n - 1]>>]]
  <2>2. \A i \in 0..n : g[i] = IF i < n THEN f[i] ELSE step[<<n, f[n - 1]>>]
    OBVIOUS
  <2>3. \A i \in 0..n - 1 : g[i] = f[i]
    BY <2>2
  <2>4. f[n - 1] \in S
    OBVIOUS
  <2>5. g \in [0..n -> S]
    <3>1. ASSUME NEW i \in 0..n, ~(i < n) PROVE step[<<n, f[n - 1]>>] \in S
      BY <2>4
    <3>2. \A i \in 0..n : i < n => i \in 0..n - 1
      OBVIOUS
    <3>3. QED
      BY <3>1, <3>2
  <2> HIDE DEF g
  <2>6. Steps(g, n, first, step)
    <3>1. g[0] = first
      BY <2>1, <2>3 DEF Steps
    <3>2. ASSUME NEW i \in 1..n PROVE g[i] = step[<<i, g[i - 1]>>]
      <4>1. CASE i = n
        BY <2>2, <2>3, <4>1
      <4>2. CASE i # n
        <5>1. i \in 1..n - 1 /\ i \in 0..n - 1 /\ i - 1 \in 0..n - 1
          BY <4>2
        <5>2. f[i] = step[<<i, f[i - 1]>>]
          BY <2>1, <5>1 DEF Steps
        <5>3. QED
          BY <2>3, <5>1, <5>2
      <4>3. QED
        BY <4>1, <4>2
    <3>3. QED
      BY <3>1, <3>2 DEF Steps
  <2>7. QED
    BY <2>5, <2>6
<1>3. Nat \subseteq T
  <2> HIDE DEF T
  <2>1. QED
    BY <1>1, <1>2, AllNumbers
<1>4. QED
  BY <1>3

Recursion(f, first, step) ==
  f[0] = first /\ \A n \in Nat \ {0} : f[n] = step[<<n, f[n - 1]>>]

LEMMA RecursionOnNat ==
  ASSUME NEW S, NEW first \in S, NEW step \in [(Nat \ {0}) \X S -> S]
  PROVE  \E f \in [Nat -> S] : Recursion(f, first, step)
<1> DEFINE G(n) == CHOOSE f \in [0..n -> S] : Steps(f, n, first, step)
<1>1. ASSUME NEW n \in Nat PROVE G(n) \in [0..n -> S] /\ Steps(G(n), n, first, step)
  BY StepsExist
<1> HIDE DEF G
<1> DEFINE F == [n \in Nat |-> G(n)[n]]
<1>2. F \in [Nat -> S]
  BY <1>1
<1>3. F[0] = first
  BY <1>1 DEF Steps
<1>4. ASSUME NEW n \in Nat \ {0} PROVE F[n] = step[<<n, F[n - 1]>>]
  <2>1. n - 1 \in Nat /\ n - 1 \in 0..n - 1 /\ 1..n - 1 \subseteq 1..n /\ n \in 1..n
    OBVIOUS
  <2>2. Steps(G(n), n - 1, first, step)
    BY <1>1, <2>1 DEF Steps
  <2>3. G(n)[n - 1] = G(n - 1)[n - 1]
    <3>1. Steps(G(n - 1), n - 1, first, step)
      BY <1>1, <2>1
    <3>2. PICK g : g = G(n)
      OBVIOUS
    <3>3. PICK h : h = G(n - 1)
      OBVIOUS
    <3>4. PICK k \in Nat : k = n - 1
      BY <2>1
    <3>5. Steps(g, k, first, step) /\ Steps(h, k, first, step)
      BY <2>2, <3>1, <3>2, <3>3, <3>4
    <3>6. \A i \in 0..k : g[i] = h[i] /\ g[i] \in S
      BY <3>5, StepsAgree
    <3>7. QED
      BY <2>1, <3>2, <3>3, <3>4, <3>6
  <2>4. G(n)[n] = step[<<n, G(n)[n - 1]>>]
    BY <1>1, <2>1 DEF Steps
  <2>5. QED
    BY <2>1, <2>3, <2>4
<1>5. Recursion(F, first, step)
  BY <1>3, <1>4 DEF Recursion
<1> HIDE DEF F
<1>6. QED
  BY <1>2, <1>5

-----------------------------------------------------------------------------
(* Digits.                                                                 *)
LEMMA PowerIs ==
  /\ Power \in [Nat -> Nat \ {0}]
  /\ Power[0] = 1
  /\ \A n \in Nat \ {0} : Power[n] = Base * Power[n - 1]
<1>1. Base \in Nat \ {0}
  BY MappingAssumption
<1> DEFINE Pos == Nat \ {0}
           step == [p \in (Nat \ {0}) \X Pos |-> Base * p[2]]
<1>2. step \in [(Nat \ {0}) \X Pos -> Pos]
  <2>1. ASSUME NEW p \in (Nat \ {0}) \X Pos PROVE Base * p[2] \in Pos
    <3>1. p[2] \in Nat \ {0}
      OBVIOUS
    <3>2. QED
      BY <1>1, <3>1
  <2>2. QED
    BY <2>1
<1>3. \A n \in Nat \ {0}, m \in Pos : step[<<n, m>>] = Base * m
  OBVIOUS
<1> HIDE DEF step
<1>4. PICK f \in [Nat -> Pos] : f[0] = 1 /\ \A n \in Nat \ {0} : f[n] = step[<<n, f[n - 1]>>]
  <2>1. PICK T : T = Pos
    OBVIOUS
  <2>2. PICK u : u = 1
    OBVIOUS
  <2>3. u \in T /\ step \in [(Nat \ {0}) \X T -> T]
    BY <1>2, <2>1, <2>2
  <2>4. \E f \in [Nat -> T] : f[0] = u /\ \A n \in Nat \ {0} : f[n] = step[<<n, f[n - 1]>>]
    <3>1. \E f \in [Nat -> T] : Recursion(f, u, step)
      BY <2>3, RecursionOnNat
    <3>2. QED
      BY <3>1 DEF Recursion
  <2>5. QED
    BY <2>1, <2>2, <2>4
<1>5. f = [n \in Nat |-> IF n = 0 THEN 1 ELSE Base * f[n - 1]]
  <2>1. ASSUME NEW n \in Nat PROVE f[n] = IF n = 0 THEN 1 ELSE Base * f[n - 1]
    <3>1. CASE n = 0
      BY <1>4, <3>1
    <3>2. CASE n # 0
      <4>1. n \in Nat \ {0} /\ n - 1 \in Nat
        BY <3>2
      <4>2. f[n - 1] \in Pos
        BY <1>4, <4>1
      <4>3. f[n] = step[<<n, f[n - 1]>>]
        BY <1>4, <4>1
      <4>4. QED
        BY <1>3, <3>2, <4>1, <4>2, <4>3
    <3>3. QED
      BY <3>1, <3>2
  <2>2. QED
    BY <1>4, <2>1
<1>6. Power = [n \in Nat |-> IF n = 0 THEN 1 ELSE Base * Power[n - 1]]
  BY <1>5 DEF Power
<1>7. Power[0] = 1 /\ \A n \in Nat \ {0} : Power[n] = Base * Power[n - 1]
  BY <1>6
<1>8. Nat \subseteq {n \in Nat : Power[n] \in Nat \ {0}}
  <2> DEFINE T == {n \in Nat : Power[n] \in Nat \ {0}}
  <2>1. 0 \in T
    BY <1>7
  <2>2. ASSUME NEW n \in Nat \ {0}, n - 1 \in T PROVE n \in T
    BY <1>1, <1>7, <2>2
  <2> HIDE DEF T
  <2>3. Nat \subseteq T
    BY <2>1, <2>2, AllNumbers
  <2>4. QED
    BY <2>3 DEF T
<1>9. QED
  BY <1>6, <1>7, <1>8

(* What is left of a number when its last digits are dropped.              *)
LEMMA DropDigit ==
  ASSUME NEW n \in Nat, NEW k \in Nat \ {0}
  PROVE  /\ n \div Power[k] \in Nat
         /\ n \div Power[k - 1] \in Nat
         /\ (n \div Power[k - 1]) \div Base = n \div Power[k]
         /\ (n \div Power[k - 1]) % Base \in 0..Base - 1
         /\ n \div Power[k - 1] = (n \div Power[k]) * Base + ((n \div Power[k - 1]) % Base)
<1> DEFINE m == Power[k - 1]
<1>1. m \in Nat \ {0} /\ Power[k] = Base * m /\ Base \in Nat \ {0}
  BY PowerIs, MappingAssumption
<1> HIDE DEF m
<1>2. \A a \in Nat, b \in Nat \ {0} : a \div b \in Nat /\ a % b \in 0..b - 1
  OBVIOUS
<1>3. \A a \in Nat, b \in Nat \ {0} : a = (a \div b) * b + (a % b)
  OBVIOUS
<1>4. (n \div m) \div Base = n \div (Base * m)
  BY <1>1, SMTT(60)
<1>5. n \div m \in Nat
  BY <1>1, <1>2
<1>6. QED
  BY <1>1, <1>2, <1>3, <1>4, <1>5 DEF m

LEMMA DropAll ==
  ASSUME NEW w \in Nat, NEW n \in 0..Power[w] - 1
  PROVE  n \div Power[w] = 0 /\ n \div Power[0] = n
<1>1. Power[w] \in Nat \ {0} /\ Power[0] = 1
  BY PowerIs
<1>2. QED
  BY <1>1

LEMMA DigitsAre ==
  ASSUME NEW n \in Nat, NEW w \in Nat
  PROVE  /\ Digits(n, w) \in Seq(Int)
         /\ Len(Digits(n, w)) = w
         /\ \A i \in 1..w : Digits(n, w)[i] = (n \div Power[w - i]) % Base
<1>1. ASSUME NEW i \in 1..w PROVE (n \div Power[w - i]) % Base \in Int
  <2>1. w - i + 1 \in Nat \ {0} /\ (w - i + 1) - 1 = w - i
    OBVIOUS
  <2>2. (n \div Power[(w - i + 1) - 1]) % Base \in 0..Base - 1
    BY <2>1, DropDigit
  <2>3. QED
    BY <2>1, <2>2
<1>2. Digits(n, w) \in [1..w -> Int]
  BY <1>1 DEF Digits
<1>3. Digits(n, w) \in Seq(Int) /\ Len(Digits(n, w)) = w
  <2>1. \A d : d \in [1..w -> Int] => d \in Seq(Int) /\ Len(d) = w
    OBVIOUS
  <2>2. QED
    BY <1>2, <2>1
<1>4. QED
  BY <1>3 DEF Digits

(* Of two numbers of w digits the smaller comes first in the order of      *)
(* their texts: they agree up to where what is left of them differs.       *)
LEMMA DigitsOrder ==
  ASSUME NEW w \in Nat, NEW n \in 0..Power[w] - 1, NEW m \in 0..Power[w] - 1, n < m
  PROVE  \E i \in 1..w : /\ \A j \in 1..i - 1 : Digits(n, w)[j] = Digits(m, w)[j]
                         /\ Digits(n, w)[i] < Digits(m, w)[i]
<1>0. Power[w] \in Nat \ {0} /\ n \in Nat /\ m \in Nat /\ Base \in Nat \ {0}
  BY PowerIs, MappingAssumption
<1> DEFINE Differ == {i \in 0..w : n \div Power[w - i] # m \div Power[w - i]}
<1>1. w \in Differ /\ 0 \notin Differ
  <2>1. w - w = 0 /\ w - 0 = w /\ w \in 0..w
    OBVIOUS
  <2>2. n \div Power[0] = n /\ m \div Power[0] = m /\ n \div Power[w] = m \div Power[w]
    BY DropAll
  <2>3. QED
    BY <1>0, <2>1, <2>2
<1>2. PICK i \in Differ : \A j \in Differ : i <= j
  <2>1. Differ \subseteq Nat
    OBVIOUS
  <2> HIDE DEF Differ
  <2>2. QED
    BY <1>1, <2>1, LeastNumber
<1>3. i \in 1..w /\ n \div Power[w - i] # m \div Power[w - i]
  BY <1>1, <1>2
<1>4. ASSUME NEW j \in 0..i - 1 PROVE n \div Power[w - j] = m \div Power[w - j]
  BY <1>2, <1>3
<1>5. ASSUME NEW j \in 1..i - 1 PROVE Digits(n, w)[j] = Digits(m, w)[j]
  <2>1. j \in 1..w /\ j \in 0..i - 1
    BY <1>3
  <2>2. QED
    BY <1>0, <1>4, <2>1, DigitsAre
<1>6. Digits(n, w)[i] < Digits(m, w)[i]
  <2> DEFINE a == n \div Power[w - i]
             b == m \div Power[w - i]
             c == n \div Power[w - (i - 1)]
  <2>1. w - i + 1 \in Nat \ {0} /\ (w - i + 1) - 1 = w - i /\ w - i + 1 = w - (i - 1)
        /\ i - 1 \in 0..i - 1 /\ w - i \in Nat
    BY <1>3
  <2>2. c = m \div Power[w - (i - 1)]
    BY <1>4, <2>1
  <2>3. /\ a \in Nat /\ b \in Nat /\ c \in Nat
        /\ a = c * Base + (a % Base)
        /\ b = c * Base + (b % Base)
        /\ a % Base \in Int /\ b % Base \in Int
    BY <1>0, <2>1, <2>2, DropDigit
  <2>4. a <= b
    <3>1. Power[w - i] \in Nat \ {0}
      BY <2>1, PowerIs
    <3>2. \A k \in Nat \ {0} : n \div k <= m \div k
      BY <1>0, SMTT(30)
    <3>3. QED
      BY <3>1, <3>2
  <2>5. a # b
    BY <1>3
  <2>6. Digits(n, w)[i] = a % Base /\ Digits(m, w)[i] = b % Base
    BY <1>0, <1>3, DigitsAre
  <2> HIDE DEF a, b, c
  <2>7. c * Base \in Int
    BY <1>0, <2>3
  <2>8. a % Base < b % Base
    BY <2>3, <2>4, <2>5, <2>7
  <2>9. QED
    BY <2>6, <2>8
<1>7. QED
  BY <1>3, <1>5, <1>6

(* The digits of a number are worth the number.                            *)
LEMMA ValueOfDigits ==
  ASSUME NEW w \in Nat, NEW n \in 0..Power[w] - 1
  PROVE  ValueOf(Digits(n, w)) = n
<1>0. n \in Nat /\ Power[w] \in Nat \ {0} /\ Base \in Nat \ {0}
  BY PowerIs, MappingAssumption
<1>1. PICK d : d = Digits(n, w)
  OBVIOUS
<1>2. Len(d) = w /\ \A i \in 1..w : d[i] = (n \div Power[w - i]) % Base
  BY <1>0, <1>1, DigitsAre
<1> DEFINE V == CHOOSE v : v = [i \in 0..Len(d) |->
                                  IF i = 0 THEN 0 ELSE v[i - 1] * Base + d[i]]
           left == [i \in 0..w |-> n \div Power[w - i]]
<1>3. ValueOf(d) = V[Len(d)]
  BY DEF ValueOf
<1>4. \A i \in 0..w : left[i] = n \div Power[w - i]
  OBVIOUS
<1>5. left[0] = 0 /\ left[w] = n
  BY <1>0, <1>4, DropAll
<1>6. ASSUME NEW i \in 1..w PROVE left[i] = left[i - 1] * Base + d[i]
  <2>1. w - i + 1 \in Nat \ {0} /\ (w - i + 1) - 1 = w - i /\ w - i + 1 = w - (i - 1)
        /\ i \in 0..w /\ i - 1 \in 0..w
    OBVIOUS
  <2>2. n \div Power[w - i] = (n \div Power[w - (i - 1)]) * Base + ((n \div Power[w - i]) % Base)
    BY <1>0, <2>1, DropDigit
  <2>3. QED
    BY <1>2, <1>4, <2>1, <2>2
<1> HIDE DEF left
<1>7. left = [i \in 0..Len(d) |-> IF i = 0 THEN 0 ELSE left[i - 1] * Base + d[i]]
  <2>1. left = [i \in 0..w |-> left[i]]
    BY DEF left
  <2>2. \A i \in 0..w : left[i] = IF i = 0 THEN 0 ELSE left[i - 1] * Base + d[i]
    BY <1>5, <1>6
  <2>3. QED
    BY <1>2, <2>1, <2>2
<1>8. V = [i \in 0..Len(d) |-> IF i = 0 THEN 0 ELSE V[i - 1] * Base + d[i]]
  BY <1>7
<1> HIDE DEF V
<1>9. \A i \in 0..w : V[i] = IF i = 0 THEN 0 ELSE V[i - 1] * Base + d[i]
  BY <1>2, <1>8
<1>10. 0..w \subseteq {i \in 0..w : V[i] = left[i]}
  <2> DEFINE T == {i \in 0..w : V[i] = left[i]}
  <2>1. 0 \in T
    BY <1>5, <1>9
  <2>2. ASSUME NEW i \in 1..w, i - 1 \in T PROVE i \in T
    BY <1>6, <1>9, <2>2
  <2> HIDE DEF T
  <2>3. QED
    BY <2>1, <2>2, UpTo DEF T
<1>11. QED
  BY <1>1, <1>2, <1>3, <1>5, <1>10

(* The clock, up to the last instant the text can hold.                    *)
Times == 0..Power[SecondsWidth] * Second - 1

LEMMA TimeParts ==
  ASSUME NEW t \in Times
  PROVE  /\ t \div Second \in 0..Power[SecondsWidth] - 1
         /\ t % Second \in 0..Power[FractionWidth] - 1
         /\ t = (t \div Second) * Second + (t % Second)
<1>1. Second \in Nat \ {0} /\ Power[SecondsWidth] \in Nat \ {0} /\ Second = Power[FractionWidth]
  BY PowerIs, MappingAssumption DEF Second
<1>2. \A a \in Nat, b \in Nat \ {0} : a \div b \in Nat /\ a % b \in 0..b - 1
                                      /\ a = (a \div b) * b + (a % b)
  OBVIOUS
<1>3. \A a \in Nat, b, c \in Nat \ {0} : a < c * b => a \div b < c
  BY SMTT(60)
<1>4. t \in Nat /\ t < Power[SecondsWidth] * Second
  <2>1. \A p \in Nat : t \in 0..p - 1 => t \in Nat /\ t < p
    OBVIOUS
  <2>2. \A a, b \in Nat : a * b \in Nat
    OBVIOUS
  <2>3. QED
    BY <1>1, <2>1, <2>2 DEF Times
<1>5. t \div Second \in Nat /\ t % Second \in 0..Second - 1
      /\ t = (t \div Second) * Second + (t % Second)
  BY <1>1, <1>2, <1>4
<1>6. t \div Second < Power[SecondsWidth]
  BY <1>1, <1>3, <1>4
<1>7. QED
  BY <1>1, <1>5, <1>6

Joined(u, s, n, t, m) ==
  /\ u \in Seq(Int) /\ Len(u) = n + m
  /\ \A i \in 1..n : u[i] = s[i]
  /\ \A i \in 1..m : u[n + i] = t[i]

LEMMA ConcatAt ==
  ASSUME NEW s \in Seq(Int), NEW t \in Seq(Int),
         NEW n \in Nat, Len(s) = n, NEW m \in Nat, Len(t) = m
  PROVE  Joined(s \o t, s, n, t, m)
<1>1. PICK u : u = s \o t
  OBVIOUS
<1>2. /\ u \in Seq(Int) /\ Len(u) = n + m
      /\ \A i \in 1..n + m : u[i] = IF i <= n THEN s[i] ELSE t[i - n]
  BY <1>1, ConcatProperties
<1>3. ASSUME NEW i \in 1..n PROVE u[i] = s[i]
  <2>1. i \in 1..n + m /\ i <= n
    OBVIOUS
  <2>2. QED
    BY <1>2, <2>1
<1>4. ASSUME NEW i \in 1..m PROVE u[n + i] = t[i]
  <2>1. n + i \in 1..n + m /\ ~(n + i <= n) /\ (n + i) - n = i
    OBVIOUS
  <2>2. QED
    BY <1>2, <2>1
<1>5. Joined(u, s, n, t, m)
  BY <1>2, <1>3, <1>4 DEF Joined
<1>6. QED
  BY <1>1, <1>5

LEMMA TextIs ==
  ASSUME NEW t \in Times
  PROVE  /\ TimestampToDb(t) \in Seq(Int)
         /\ Len(TimestampToDb(t)) = SecondsWidth + FractionWidth + 2
         /\ \A i \in 1..SecondsWidth :
              TimestampToDb(t)[i] = Digits(t \div Second, SecondsWidth)[i]
         /\ TimestampToDb(t)[SecondsWidth + 1] = Point
         /\ \A i \in 1..FractionWidth :
              TimestampToDb(t)[SecondsWidth + 1 + i] = Digits(t % Second, FractionWidth)[i]
         /\ TimestampToDb(t)[SecondsWidth + FractionWidth + 2] = Zulu
<1> DEFINE q == Digits(t \div Second, SecondsWidth)
           r == Digits(t % Second, FractionWidth)
           s1 == q \o <<Point>>
           s2 == s1 \o r
<1>1. SecondsWidth \in Nat /\ FractionWidth \in Nat /\ Base \in Nat
  BY MappingAssumption
<1>2. q \in Seq(Int) /\ Len(q) = SecondsWidth
  <2>1. t \div Second \in Nat
    BY <1>1, PowerIs, TimeParts
  <2>2. QED
    BY <1>1, <2>1, DigitsAre
<1>3. r \in Seq(Int) /\ Len(r) = FractionWidth
  <2>1. t % Second \in Nat
    BY <1>1, PowerIs, TimeParts
  <2>2. QED
    BY <1>1, <2>1, DigitsAre
<1>4. /\ <<Point>> \in Seq(Int) /\ Len(<<Point>>) = 1 /\ <<Point>>[1] = Point
      /\ <<Zulu>> \in Seq(Int) /\ Len(<<Zulu>>) = 1 /\ <<Zulu>>[1] = Zulu
  BY <1>1 DEF Point, Zulu
<1>5. TimestampToDb(t) = s2 \o <<Zulu>>
  BY DEF TimestampToDb
<1> HIDE DEF q, r
<1>6. /\ s1 \in Seq(Int) /\ Len(s1) = SecondsWidth + 1
      /\ \A i \in 1..SecondsWidth : s1[i] = q[i]
      /\ s1[SecondsWidth + 1] = Point
  <2>1. PICK y \in Seq(Int) : y = <<Point>> /\ Len(y) = 1 /\ y[1] = Point
    BY <1>4
  <2>2. Joined(q \o y, q, SecondsWidth, y, 1)
    BY <1>1, <1>2, <2>1, ConcatAt
  <2>3. Joined(s1, q, SecondsWidth, y, 1)
    BY <2>1, <2>2
  <2> HIDE DEF s1
  <2>4. 1 \in 1..1
    OBVIOUS
  <2>5. QED
    BY <2>1, <2>3, <2>4 DEF Joined
<1> HIDE DEF s1
<1>7. PICK k \in Nat : k = SecondsWidth + 1
  BY <1>1
<1>8. PICK n \in Nat : n = k + FractionWidth
  BY <1>1
<1>9. /\ s2 \in Seq(Int) /\ Len(s2) = n
      /\ \A i \in 1..k : s2[i] = s1[i]
      /\ \A i \in 1..FractionWidth : s2[k + i] = r[i]
  <2>1. s1 \in Seq(Int) /\ Len(s1) = k
    BY <1>6, <1>7
  <2>2. PICK m \in Nat : m = FractionWidth
    BY <1>1
  <2>3. r \in Seq(Int) /\ Len(r) = m
    BY <1>3, <2>2
  <2>4. Joined(s2, s1, k, r, m)
    BY <2>1, <2>3, ConcatAt
  <2> HIDE DEF s2
  <2>5. QED
    BY <1>8, <2>2, <2>4 DEF Joined
<1> HIDE DEF s2
<1>10. PICK z : z = s2 \o <<Zulu>>
  OBVIOUS
<1>11. /\ z \in Seq(Int) /\ Len(z) = n + 1
       /\ \A i \in 1..n : z[i] = s2[i]
       /\ z[n + 1] = Zulu
  <2>1. PICK y \in Seq(Int) : y = <<Zulu>> /\ Len(y) = 1 /\ y[1] = Zulu
    BY <1>4
  <2>2. Joined(s2 \o y, s2, n, y, 1)
    BY <1>9, <2>1, ConcatAt
  <2>3. 1 \in 1..1
    OBVIOUS
  <2>4. QED
    BY <1>10, <2>1, <2>2, <2>3 DEF Joined
<1>12. ASSUME NEW i \in 1..SecondsWidth PROVE z[i] = q[i]
  <2>1. i \in 1..k /\ i \in 1..n
    BY <1>1, <1>7, <1>8
  <2>2. QED
    BY <1>6, <1>9, <1>11, <2>1
<1>13. z[SecondsWidth + 1] = Point
  <2>1. k \in 1..k /\ k \in 1..n
    BY <1>1, <1>7, <1>8
  <2>2. QED
    BY <1>6, <1>7, <1>9, <1>11, <2>1
<1>14. ASSUME NEW i \in 1..FractionWidth PROVE z[SecondsWidth + 1 + i] = r[i]
  <2>1. k + i \in 1..n
    BY <1>1, <1>8
  <2>2. z[k + i] = r[i]
    BY <1>9, <1>11, <2>1
  <2>3. QED
    BY <1>7, <2>2
<1>15. n + 1 = SecondsWidth + FractionWidth + 2
  BY <1>1, <1>7, <1>8
<1>16. QED
  BY <1>5, <1>10, <1>11, <1>12, <1>13, <1>14, <1>15 DEF q, r

(* Reading back what was written gives the same instant.                   *)
LEMMA TimestampRoundTrip ==
  ASSUME NEW t \in Times
  PROVE  TimestampFromDb(TimestampToDb(t)) = t
<1>1. PICK x : x = TimestampToDb(t)
  OBVIOUS
<1> DEFINE q == Digits(t \div Second, SecondsWidth)
           r == Digits(t % Second, FractionWidth)
<1>2. SecondsWidth \in Nat /\ FractionWidth \in Nat /\ Base \in Nat
  BY MappingAssumption
<1>3. /\ q \in Seq(Int) /\ Len(q) = SecondsWidth
      /\ r \in Seq(Int) /\ Len(r) = FractionWidth
  <2>1. t \div Second \in Nat /\ t % Second \in Nat
    BY <1>2, PowerIs, TimeParts
  <2>2. QED
    BY <1>2, <2>1, DigitsAre
<1>4. ValueOf(q) = t \div Second /\ ValueOf(r) = t % Second
  BY <1>2, ValueOfDigits, TimeParts
<1> HIDE DEF q, r
<1>5. /\ x \in Seq(Int) /\ Len(x) = SecondsWidth + FractionWidth + 2
      /\ \A i \in 1..SecondsWidth : x[i] = q[i]
      /\ \A i \in 1..FractionWidth : x[SecondsWidth + 1 + i] = r[i]
      /\ x[SecondsWidth + FractionWidth + 2] = Zulu
  BY <1>1, TextIs DEF q, r
<1>6. SubSeq(x, 1, SecondsWidth) = q
  <2>1. \A i \in 1..SecondsWidth : x[i] \in Int
    BY <1>2, <1>5
  <2>2. /\ SubSeq(x, 1, SecondsWidth) \in Seq(Int)
        /\ Len(SubSeq(x, 1, SecondsWidth)) = SecondsWidth
        /\ \A i \in 1..SecondsWidth : SubSeq(x, 1, SecondsWidth)[i] = x[i]
    BY <1>2, <2>1, SubSeqProperties
  <2>3. QED
    BY <1>3, <1>5, <2>2, SeqEqual
<1>7. SubSeq(x, SecondsWidth + 2, Len(x) - 1) = r
  <2>1. PICK a \in Int, b \in Int : a = SecondsWidth + 2 /\ b = Len(x) - 1
    BY <1>2, <1>5
  <2>2. \A i \in a..b : x[i] \in Int
    BY <1>2, <1>5, <2>1
  <2>3. /\ SubSeq(x, a, b) \in Seq(Int)
        /\ Len(SubSeq(x, a, b)) = FractionWidth
        /\ \A i \in 1..FractionWidth : SubSeq(x, a, b)[i] = x[a + i - 1]
    BY <1>2, <1>5, <2>1, <2>2, SubSeqProperties
  <2>4. \A i \in 1..FractionWidth : SubSeq(x, a, b)[i] = r[i]
    <3>1. ASSUME NEW i \in 1..FractionWidth PROVE a + i - 1 = SecondsWidth + 1 + i
      BY <1>2, <2>1
    <3>2. QED
      BY <1>5, <2>3, <3>1
  <2>5. QED
    BY <1>3, <2>1, <2>3, <2>4, SeqEqual
<1>8. Len(x) > SecondsWidth /\ Last(x) = Zulu
  BY <1>2, <1>5 DEF Last
<1>9. Power[FractionWidth - Len(r)] = 1
  <2>1. FractionWidth - Len(r) = 0
    BY <1>2, <1>3
  <2>2. QED
    BY <2>1, PowerIs
<1>10. TimestampFromDb(x) = ValueOf(q) * Second + ValueOf(r) * Power[FractionWidth - Len(r)]
  <2>1. ~(Len(x) <= SecondsWidth)
    BY <1>2, <1>5
  <2>2. QED
    BY <1>6, <1>7, <1>8, <2>1 DEF TimestampFromDb
<1>11. t % Second \in Int
  BY <1>2, PowerIs, TimeParts
<1>12. QED
  BY <1>1, <1>4, <1>9, <1>10, <1>11, TimeParts

(* Two texts of one length are ordered by where they first differ.         *)
LEMMA FirstDifference ==
  ASSUME NEW n \in Nat, NEW a \in Seq(Int), NEW b \in Seq(Int), Len(a) = n, Len(b) = n,
         NEW i \in 1..n, \A j \in 1..i - 1 : a[j] = b[j], a[i] < b[i]
  PROVE  TextBefore(a, b) /\ ~TextBefore(b, a) /\ a # b
<1>1. DOMAIN a = 1..n /\ DOMAIN b = 1..n
  BY LenProperties
<1>2. a[i] \in Int /\ b[i] \in Int
  BY ElementOfSeq
<1>3. TextBefore(a, b)
  BY <1>1 DEF TextBefore
<1>4. a # b
  BY <1>2
<1>5. ~IsStrictPrefix(b, a)
  <2>1. SubSeq(b, 1, n) = b /\ SubSeq(a, 1, n) = a
    BY SubSeqFull
  <2>2. QED
    BY <2>1 DEF IsStrictPrefix, IsPrefix
<1>6. ASSUME NEW k \in 1..n, \A j \in 1..k - 1 : b[j] = a[j], b[k] < a[k] PROVE FALSE
  <2>1. a[k] \in Int /\ b[k] \in Int
    BY ElementOfSeq
  <2>2. i \in Int /\ k \in Int
    OBVIOUS
  <2>3. CASE k < i
    <3>1. k \in 1..i - 1
      BY <2>3
    <3>2. a[k] = b[k]
      BY <3>1
    <3>3. QED
      BY <1>6, <2>1, <3>2
  <2>4. CASE i < k
    <3>1. i \in 1..k - 1
      BY <2>4
    <3>2. a[i] = b[i]
      BY <1>6, <3>1
    <3>3. QED
      BY <1>2, <3>2
  <2>5. CASE k = i
    BY <1>2, <1>6, <2>5
  <2>6. QED
    BY <2>2, <2>3, <2>4, <2>5
<1>7. QED
  BY <1>1, <1>3, <1>4, <1>5, <1>6 DEF TextBefore

(* The texts of two instants are ordered as the instants are.              *)
LEMMA TextFollowsTime ==
  ASSUME NEW s \in Times, NEW t \in Times, s < t
  PROVE  /\ TextBefore(TimestampToDb(s), TimestampToDb(t))
         /\ ~TextBefore(TimestampToDb(t), TimestampToDb(s))
         /\ TimestampToDb(s) # TimestampToDb(t)
<1> DEFINE L == SecondsWidth + FractionWidth + 2
           sq == s \div Second
           sr == s % Second
           tq == t \div Second
           tr == t % Second
<1>1. PICK a, b : a = TimestampToDb(s) /\ b = TimestampToDb(t)
  OBVIOUS
<1>2. SecondsWidth \in Nat /\ FractionWidth \in Nat /\ L \in Nat /\ Second \in Nat \ {0}
  BY MappingAssumption, PowerIs DEF Second
<1>3. /\ a \in Seq(Int) /\ Len(a) = L /\ b \in Seq(Int) /\ Len(b) = L
  BY <1>1, TextIs
<1>4. /\ \A i \in 1..SecondsWidth : a[i] = Digits(sq, SecondsWidth)[i]
                                    /\ b[i] = Digits(tq, SecondsWidth)[i]
      /\ a[SecondsWidth + 1] = b[SecondsWidth + 1]
      /\ \A i \in 1..FractionWidth : a[SecondsWidth + 1 + i] = Digits(sr, FractionWidth)[i]
                                     /\ b[SecondsWidth + 1 + i] = Digits(tr, FractionWidth)[i]
  BY <1>1, TextIs
<1>5. /\ sq \in 0..Power[SecondsWidth] - 1 /\ sr \in 0..Power[FractionWidth] - 1
      /\ tq \in 0..Power[SecondsWidth] - 1 /\ tr \in 0..Power[FractionWidth] - 1
      /\ s = sq * Second + sr /\ t = tq * Second + tr
  BY TimeParts
<1>6. /\ Power[SecondsWidth] \in Nat \ {0} /\ Power[FractionWidth] \in Nat \ {0}
      /\ Second = Power[FractionWidth]
  BY <1>2, PowerIs DEF Second
<1>7. sq < tq \/ (sq = tq /\ sr < tr)
  <2>1. /\ sq \in Nat /\ sr \in Nat /\ sr < Second
        /\ tq \in Nat /\ tr \in Nat /\ tr < Second
    BY <1>5, <1>6
  <2> HIDE DEF sq, sr, tq, tr
  <2>2. \A p, u, v, x, y \in Nat : x * p + u < y * p + v /\ u < p /\ v < p
                                   => x < y \/ (x = y /\ u < v)
    BY SMTT(60)
  <2>3. QED
    BY <1>2, <1>5, <2>1, <2>2
<1> HIDE DEF sq, sr, tq, tr
<1>8. CASE sq < tq
  <2>1. PICK i \in 1..SecondsWidth :
          /\ \A j \in 1..i - 1 : Digits(sq, SecondsWidth)[j] = Digits(tq, SecondsWidth)[j]
          /\ Digits(sq, SecondsWidth)[i] < Digits(tq, SecondsWidth)[i]
    BY <1>2, <1>5, <1>8, DigitsOrder
  <2>2. i \in 1..L /\ \A j \in 1..i - 1 : j \in 1..SecondsWidth
    BY <1>2
  <2>3. (\A j \in 1..i - 1 : a[j] = b[j]) /\ a[i] < b[i]
    BY <1>4, <2>1, <2>2
  <2> HIDE DEF L
  <2>4. QED
    BY <1>1, <1>2, <1>3, <2>2, <2>3, FirstDifference
<1>9. CASE sq = tq /\ sr < tr
  <2>1. PICK i \in 1..FractionWidth :
          /\ \A j \in 1..i - 1 : Digits(sr, FractionWidth)[j] = Digits(tr, FractionWidth)[j]
          /\ Digits(sr, FractionWidth)[i] < Digits(tr, FractionWidth)[i]
    BY <1>2, <1>5, <1>9, DigitsOrder
  <2>2. PICK k : k = SecondsWidth + 1 + i
    OBVIOUS
  <2>3. k \in 1..L
    BY <1>2, <2>2
  <2>4. a[k] < b[k]
    BY <1>4, <2>1, <2>2
  <2>5. ASSUME NEW j \in 1..k - 1 PROVE a[j] = b[j]
    <3>1. CASE j \in 1..SecondsWidth
      BY <1>4, <1>9, <3>1
    <3>2. CASE j = SecondsWidth + 1
      BY <1>4, <3>2
    <3>3. CASE j \in SecondsWidth + 2..k - 1
      <4>1. PICK h \in 1..i - 1 : j = SecondsWidth + 1 + h
        <5>1. j - SecondsWidth - 1 \in 1..i - 1 /\ j = SecondsWidth + 1 + (j - SecondsWidth - 1)
          BY <1>2, <2>2, <3>3
        <5>2. QED
          BY <5>1
      <4>2. h \in 1..FractionWidth
        BY <1>2
      <4>3. QED
        BY <1>4, <2>1, <4>1, <4>2
    <3>4. QED
      BY <1>2, <2>2, <3>1, <3>2, <3>3
  <2> HIDE DEF L
  <2>6. QED
    BY <1>1, <1>2, <1>3, <2>3, <2>4, <2>5, FirstDifference
<1>10. QED
  BY <1>7, <1>8, <1>9

-----------------------------------------------------------------------------
(* The results of a check in a vector.                                     *)
Result == [id : ResultIds, check_id : CheckIds, checked_at : Times, status : Statuses]

Kept(k, n, c, s) ==
  /\ k[0] = <<>>
  /\ \A i \in 1..n :
       k[i] = IF s[i].check_id = c THEN Append(k[i - 1], s[i]) ELSE k[i - 1]

LEMMA KeptAgree ==
  ASSUME NEW c, NEW n \in Nat, NEW s, \A i \in 1..n : s[i] \in Result,
         NEW t, \A i \in 1..n : t[i] = s[i],
         NEW k, Kept(k, n, c, s), NEW g, Kept(g, n, c, t)
  PROVE  \A i \in 0..n : g[i] = k[i] /\ k[i] \in Seq(Result)
<1> DEFINE T == {i \in 0..n : g[i] = k[i] /\ k[i] \in Seq(Result)}
<1>1. 0 \in T
  <2>1. PICK e \in Seq(Result) : e = <<>>
    BY EmptySeq
  <2>2. k[0] = e /\ g[0] = e
    BY <2>1 DEF Kept
  <2>3. g[0] = k[0] /\ k[0] \in Seq(Result)
    BY <2>1, <2>2
  <2>4. 0 \in 0..n
    OBVIOUS
  <2>5. QED
    BY ONLY <2>3, <2>4
<1>2. ASSUME NEW i \in 1..n, i - 1 \in T PROVE i \in T
  <2>1. s[i] \in Result /\ t[i] = s[i]
    OBVIOUS
  <2>2. k[i] = IF s[i].check_id = c THEN Append(k[i - 1], s[i]) ELSE k[i - 1]
    BY DEF Kept
  <2>3. g[i] = IF t[i].check_id = c THEN Append(g[i - 1], t[i]) ELSE g[i - 1]
    BY DEF Kept
  <2>4. g[i - 1] = k[i - 1] /\ k[i - 1] \in Seq(Result)
    BY <1>2
  <2>5. Append(k[i - 1], s[i]) \in Seq(Result)
    BY <2>1, <2>4, AppendProperties
  <2>6. g[i] = k[i] /\ k[i] \in Seq(Result)
    BY <2>1, <2>2, <2>3, <2>4, <2>5
  <2>7. QED
    BY <2>6
<1>3. 0..n \subseteq T
  <2> HIDE DEF T
  <2>1. QED
    BY <1>1, <1>2, UpTo
<1>4. QED
  BY <1>3

LEMMA KeptExists ==
  ASSUME NEW c, NEW n \in Nat, NEW s, \A i \in 1..n : s[i] \in Result
  PROVE  \E k \in [0..n -> Seq(Result)] : Kept(k, n, c, s)
<1> DEFINE T == {m \in 0..n : \E k \in [0..m -> Seq(Result)] : Kept(k, m, c, s)}
<1>1. 0 \in T
  <2> DEFINE k == [i \in 0..0 |-> <<>>]
  <2>1. k \in [0..0 -> Seq(Result)]
    BY EmptySeq
  <2>2. Kept(k, 0, c, s)
    BY DEF Kept
  <2> HIDE DEF k
  <2>3. QED
    BY <2>1, <2>2
<1>2. ASSUME NEW m \in 1..n, m - 1 \in T PROVE m \in T
  <2>1. PICK k \in [0..m - 1 -> Seq(Result)] : Kept(k, m - 1, c, s)
    BY <1>2
  <2> DEFINE x == IF s[m].check_id = c THEN Append(k[m - 1], s[m]) ELSE k[m - 1]
             g == [i \in 0..m |-> IF i < m THEN k[i] ELSE x]
  <2>2. x \in Seq(Result)
    <3>1. s[m] \in Result /\ k[m - 1] \in Seq(Result)
      OBVIOUS
    <3>2. QED
      BY <3>1, AppendProperties
  <2>3. x = IF s[m].check_id = c THEN Append(k[m - 1], s[m]) ELSE k[m - 1]
    OBVIOUS
  <2> HIDE DEF x
  <2>4. (\A i \in 0..m - 1 : g[i] = k[i]) /\ g[m] = x
    OBVIOUS
  <2>5. g \in [0..m -> Seq(Result)]
    BY <2>2
  <2> HIDE DEF g
  <2>6. Kept(g, m, c, s)
    <3>1. g[0] = <<>>
      BY <2>1, <2>4 DEF Kept
    <3>2. ASSUME NEW i \in 1..m
          PROVE  g[i] = IF s[i].check_id = c THEN Append(g[i - 1], s[i]) ELSE g[i - 1]
      <4>1. CASE i = m
        <5>1. m - 1 \in 0..m - 1
          OBVIOUS
        <5>2. g[m - 1] = k[m - 1]
          BY <2>4, <5>1
        <5>3. QED
          BY <2>3, <2>4, <4>1, <5>2
      <4>2. CASE i # m
        <5>1. i \in 1..m - 1 /\ i \in 0..m - 1 /\ i - 1 \in 0..m - 1
          BY <4>2
        <5>2. g[i] = k[i] /\ g[i - 1] = k[i - 1]
          BY <2>4, <5>1
        <5>3. k[i] = IF s[i].check_id = c THEN Append(k[i - 1], s[i]) ELSE k[i - 1]
          BY <2>1, <5>1 DEF Kept
        <5>4. QED
          BY <5>2, <5>3
      <4>3. QED
        BY <4>1, <4>2
    <3>3. QED
      BY <3>1, <3>2 DEF Kept
  <2>7. QED
    BY <2>5, <2>6
<1>3. 0..n \subseteq T
  <2> HIDE DEF T
  <2>1. QED
    BY <1>1, <1>2, UpTo
<1>4. QED
  BY <1>3

LEMMA ResultsOfIsKept ==
  ASSUME NEW c, NEW s \in Seq(Result)
  PROVE  \E k : Kept(k, Len(s), c, s) /\ ResultsOf(c, s) = k[Len(s)]
<1>1. PICK n \in Nat : n = Len(s)
  BY LenProperties
<1>2. \A i \in 1..n : s[i] \in Result
  BY <1>1, ElementOfSeq
<1>3. PICK k \in [0..n -> Seq(Result)] : Kept(k, n, c, s)
  BY <1>2, KeptExists
<1> DEFINE Equation(f) == f = [i \in 0..Len(s) |->
                     IF i = 0 THEN <<>>
                     ELSE IF s[i].check_id = c THEN Append(f[i - 1], s[i]) ELSE f[i - 1]]
<1>4. Equation(k)
  <2>1. k = [i \in 0..n |-> k[i]]
    OBVIOUS
  <2>2. ASSUME NEW i \in 0..n
        PROVE  k[i] = IF i = 0 THEN <<>>
                      ELSE IF s[i].check_id = c THEN Append(k[i - 1], s[i]) ELSE k[i - 1]
    <3>1. CASE i = 0
      BY <1>3, <3>1 DEF Kept
    <3>2. CASE i # 0
      <4>1. i \in 1..n
        BY <3>2
      <4>2. QED
        BY <1>3, <3>2, <4>1 DEF Kept
    <3>3. QED
      BY <3>1, <3>2
  <2>3. QED
    BY <1>1, <2>1, <2>2
<1> DEFINE f == CHOOSE x : Equation(x)
<1>5. ResultsOf(c, s) = f[Len(s)]
  BY DEF ResultsOf
<1> HIDE DEF Equation
<1>6. Equation(f)
  BY <1>4
<1> HIDE DEF f
<1>7. ASSUME NEW i \in 0..n
      PROVE  f[i] = IF i = 0 THEN <<>>
                    ELSE IF s[i].check_id = c THEN Append(f[i - 1], s[i]) ELSE f[i - 1]
  BY <1>1, <1>6 DEF Equation
<1>8. f[0] = <<>>
  <2>1. 0 \in 0..n
    OBVIOUS
  <2>2. QED
    BY <1>7, <2>1
<1>9. ASSUME NEW i \in 1..n
      PROVE  f[i] = IF s[i].check_id = c THEN Append(f[i - 1], s[i]) ELSE f[i - 1]
  <2>1. i \in 0..n /\ i # 0
    OBVIOUS
  <2>2. QED
    BY <1>7, <2>1
<1>10. Kept(f, n, c, s)
  BY <1>8, <1>9 DEF Kept
<1>11. QED
  BY <1>1, <1>5, <1>10

LEMMA ResultsOfEmpty ==
  ASSUME NEW c
  PROVE  ResultsOf(c, <<>>) = <<>>
<1>1. PICK s \in Seq(Result) : s = <<>> /\ Len(s) = 0
  BY EmptySeq
<1>2. PICK k : Kept(k, 0, c, s) /\ ResultsOf(c, s) = k[0]
  BY <1>1, ResultsOfIsKept
<1>3. QED
  BY <1>1, <1>2 DEF Kept

LEMMA ResultsOfType ==
  ASSUME NEW c, NEW s \in Seq(Result)
  PROVE  ResultsOf(c, s) \in Seq(Result)
<1>1. PICK n \in Nat : n = Len(s)
  BY LenProperties
<1>2. \A i \in 1..n : s[i] \in Result
  BY <1>1, ElementOfSeq
<1>3. PICK k : Kept(k, n, c, s) /\ ResultsOf(c, s) = k[n]
  BY <1>1, ResultsOfIsKept
<1>4. \A i \in 0..n : k[i] = k[i] /\ k[i] \in Seq(Result)
  BY <1>2, <1>3, KeptAgree
<1>5. QED
  BY <1>3, <1>4

LEMMA ResultsOfAppend ==
  ASSUME NEW c, NEW s \in Seq(Result), NEW r \in Result
  PROVE  ResultsOf(c, Append(s, r)) =
           IF r.check_id = c THEN Append(ResultsOf(c, s), r) ELSE ResultsOf(c, s)
<1>1. PICK n \in Nat : n = Len(s)
  BY LenProperties
<1>2. PICK t \in Seq(Result) : t = Append(s, r)
  BY AppendProperties
<1>3. Len(t) = n + 1 /\ t[n + 1] = r /\ \A i \in 1..n : t[i] = s[i]
  BY <1>1, <1>2, AppendProperties
<1>4. \A i \in 1..n : s[i] \in Result
  BY <1>1, ElementOfSeq
<1>5. PICK k : Kept(k, n, c, s) /\ ResultsOf(c, s) = k[n]
  BY <1>1, ResultsOfIsKept
<1>6. PICK g : Kept(g, n + 1, c, t) /\ ResultsOf(c, t) = g[n + 1]
  BY <1>3, ResultsOfIsKept
<1>7. Kept(g, n, c, t)
  <2>1. \A i \in 1..n : i \in 1..n + 1
    OBVIOUS
  <2>2. QED
    BY <1>6, <2>1 DEF Kept
<1>8. \A i \in 0..n : g[i] = k[i] /\ k[i] \in Seq(Result)
  BY <1>3, <1>4, <1>5, <1>7, KeptAgree
<1>9. g[n] = k[n] /\ k[n] \in Seq(Result)
  <2>1. n \in 0..n
    OBVIOUS
  <2>2. QED
    BY <1>8, <2>1
<1>10. g[n + 1] = IF r.check_id = c THEN Append(g[n], r) ELSE g[n]
  <2>1. n + 1 \in 1..n + 1 /\ (n + 1) - 1 = n
    OBVIOUS
  <2>2. g[n + 1] = IF t[n + 1].check_id = c THEN Append(g[(n + 1) - 1], t[n + 1]) ELSE g[(n + 1) - 1]
    BY <1>6, <2>1 DEF Kept
  <2>3. QED
    BY <1>3, <2>1, <2>2
<1>11. QED
  BY <1>2, <1>5, <1>6, <1>9, <1>10

-----------------------------------------------------------------------------
(* Rows.                                                                   *)
LEMMA TimesAreUpTo ==
  \E n \in Nat \ {0} : n = Power[SecondsWidth] * Second /\ Times = 0..n - 1
<1>1. Second \in Nat \ {0} /\ Power[SecondsWidth] \in Nat \ {0}
  BY PowerIs, MappingAssumption DEF Second
<1>2. \A p, q \in Nat \ {0} : p * q \in Nat \ {0}
  BY SMTT(30)
<1>3. PICK n \in Nat \ {0} : n = Power[SecondsWidth] * Second
  BY <1>1, <1>2
<1>4. Times = 0..n - 1
  BY <1>3 DEF Times
<1>5. QED
  BY <1>3, <1>4

LEMMA TimesAre ==
  /\ 0 \in Times
  /\ Times \subseteq Nat
  /\ \A t \in Nat : t < Power[SecondsWidth] * Second => t \in Times
<1>1. PICK n \in Nat \ {0} : n = Power[SecondsWidth] * Second /\ Times = 0..n - 1
  BY TimesAreUpTo
<1>2. QED
  BY <1>1

LEMMA ResultFields ==
  ASSUME NEW r \in Result
  PROVE  r.check_id \in CheckIds /\ r.checked_at \in Times /\ r.checked_at \in Int
<1>1. r.check_id \in CheckIds /\ r.checked_at \in Times
  BY DEF Result
<1>2. r.checked_at \in Nat
  BY <1>1, TimesAre
<1>3. QED
  BY <1>1, <1>2

LEMMA StatusRoundTrip ==
  ASSUME NEW status \in Statuses
  PROVE  StatusFromDb(StatusToDb(status)) = status
BY ResultsAssumption DEF StatusFromDb, StatusToDb, StatusText, StatusVariant

LEMMA RowRoundTrip ==
  ASSUME NEW r \in Result
  PROVE  ResultFromRow(ResultToRow(r)) = r /\ ResultToRow(r).check_id = r.check_id
<1>1. r.checked_at \in Times /\ r.status \in Statuses
  BY DEF Result
<1>2. TimestampFromDb(TimestampToDb(r.checked_at)) = r.checked_at
  BY <1>1, TimestampRoundTrip
<1>3. StatusFromDb(StatusToDb(r.status)) = r.status
  BY <1>1, StatusRoundTrip
<1>4. ResultToRow(r) = [id |-> r.id, check_id |-> r.check_id,
                        checked_at |-> TimestampToDb(r.checked_at),
                        status |-> StatusToDb(r.status)]
  BY DEF ResultToRow
<1>5. ResultFromRow(ResultToRow(r)) = [id |-> r.id, check_id |-> r.check_id,
                                       checked_at |-> r.checked_at, status |-> r.status]
  BY <1>2, <1>3, <1>4 DEF ResultFromRow
<1>6. r = [id |-> r.id, check_id |-> r.check_id, checked_at |-> r.checked_at, status |-> r.status]
  BY DEF Result
<1>7. QED
  BY <1>4, <1>5, <1>6

LEMMA TextIrreflexive ==
  ASSUME NEW a \in Seq(Int)
  PROVE  ~TextBefore(a, a)
<1>1. \A i \in DOMAIN a : a[i] \in Int
  BY LenProperties, ElementOfSeq
<1>2. QED
  BY <1>1 DEF TextBefore, IsStrictPrefix

(* The columns are ordered as the results they were made from.             *)
LEMMA ComesBeforeIsLater ==
  ASSUME NEW r \in Result, NEW s \in Result
  PROVE  ComesBefore(ResultToRow(r), ResultToRow(s)) <=> Later(r, s)
<1>1. /\ r.checked_at \in Times /\ s.checked_at \in Times
      /\ r.checked_at \in Int /\ s.checked_at \in Int /\ r.id \in Nat /\ s.id \in Nat
  BY ResultFields, ResultsAssumption DEF Result
<1>2. /\ ResultToRow(r).checked_at = TimestampToDb(r.checked_at) /\ ResultToRow(r).id = r.id
      /\ ResultToRow(s).checked_at = TimestampToDb(s.checked_at) /\ ResultToRow(s).id = s.id
  BY DEF ResultToRow
<1>3. CASE s.checked_at < r.checked_at
  <2>1. TextBefore(TimestampToDb(s.checked_at), TimestampToDb(r.checked_at))
    BY <1>1, <1>3, TextFollowsTime
  <2>2. QED
    BY <1>2, <1>3, <2>1 DEF ComesBefore, Later
<1>4. CASE r.checked_at < s.checked_at
  <2>1. /\ ~TextBefore(TimestampToDb(s.checked_at), TimestampToDb(r.checked_at))
        /\ TimestampToDb(r.checked_at) # TimestampToDb(s.checked_at)
    BY <1>1, <1>4, TextFollowsTime
  <2>2. ~Later(r, s)
    BY <1>1, <1>4 DEF Later
  <2>3. QED
    BY <1>2, <2>1, <2>2 DEF ComesBefore
<1>5. CASE r.checked_at = s.checked_at
  <2>1. ~TextBefore(TimestampToDb(s.checked_at), TimestampToDb(r.checked_at))
    BY <1>1, <1>5, TextIs, TextIrreflexive
  <2>2. Later(r, s) <=> s.id < r.id
    BY <1>1, <1>5 DEF Later
  <2>3. ComesBefore(ResultToRow(r), ResultToRow(s)) <=> r.id > s.id
    BY <1>2, <1>5, <2>1 DEF ComesBefore
  <2>4. QED
    BY <1>1, <2>2, <2>3
<1>6. QED
  BY <1>1, <1>3, <1>4, <1>5

LEMMA LaterIsOrder ==
  ASSUME NEW r \in Result, NEW s \in Result, NEW t \in Result
  PROVE  /\ ~Later(r, r)
         /\ Later(r, s) => ~Later(s, r)
         /\ r.id # s.id => Later(r, s) \/ Later(s, r)
         /\ Later(r, s) /\ Later(s, t) => Later(r, t)
<1>1. /\ r.checked_at \in Int /\ s.checked_at \in Int /\ t.checked_at \in Int
      /\ r.id \in Nat /\ s.id \in Nat /\ t.id \in Nat
  BY ResultFields, ResultsAssumption DEF Result
<1>2. QED
  BY <1>1 DEF Later

-----------------------------------------------------------------------------
(* What is read back: an order on finitely many rows gives each of them a  *)
(* rank of its own, and every rank below their number to one of them.      *)
Rank(row, found) == Cardinality(Before(row, found))

Ordered(found) ==
  /\ \A x \in found : ~ComesBefore(x, x)
  /\ \A x, y \in found : x # y => ComesBefore(x, y) \/ ComesBefore(y, x)
  /\ \A x, y, z \in found : ComesBefore(x, y) /\ ComesBefore(y, z) => ComesBefore(x, z)

LEMMA RankBound ==
  ASSUME NEW found, IsFiniteSet(found), Ordered(found), NEW x \in found
  PROVE  /\ Cardinality(found) \in Nat
         /\ Rank(x, found) \in Nat
         /\ Rank(x, found) < Cardinality(found)
<1>1. PICK B : B = Before(x, found)
  OBVIOUS
<1>2. B \in SUBSET found /\ x \notin B /\ B \cup {x} \in SUBSET found
  BY <1>1 DEF Before, Ordered
<1>3. IsFiniteSet(B) /\ Cardinality(B) \in Nat /\ Cardinality(found) \in Nat
  BY <1>2, FS_Subset, FS_CardinalityType
<1>4. Cardinality(B \cup {x}) = Cardinality(B) + 1
  BY <1>2, <1>3, FS_AddElement
<1>5. Cardinality(B \cup {x}) <= Cardinality(found)
  BY <1>2, FS_Subset
<1>6. QED
  BY <1>1, <1>3, <1>4, <1>5 DEF Rank

LEMMA RankFollowsOrder ==
  ASSUME NEW found, IsFiniteSet(found), Ordered(found),
         NEW x \in found, NEW y \in found, ComesBefore(x, y)
  PROVE  Rank(x, found) < Rank(y, found)
<1>1. PICK A, B : A = Before(x, found) /\ B = Before(y, found)
  OBVIOUS
<1>2. x \notin A /\ A \cup {x} \in SUBSET B
  <2>1. ASSUME NEW z \in A PROVE z \in B
    <3>1. z \in found /\ ComesBefore(z, x)
      BY <1>1 DEF Before
    <3>2. ComesBefore(z, y)
      BY <3>1 DEF Ordered
    <3>3. QED
      BY <1>1, <3>1, <3>2 DEF Before
  <2>2. x \in B /\ x \notin A
    BY <1>1 DEF Before, Ordered
  <2>3. QED
    BY <2>1, <2>2
<1>3. A \in SUBSET found /\ B \in SUBSET found
  BY <1>1 DEF Before
<1>4. /\ IsFiniteSet(A) /\ Cardinality(A) \in Nat
      /\ IsFiniteSet(B) /\ Cardinality(B) \in Nat
  BY <1>3, FS_Subset, FS_CardinalityType
<1>5. Cardinality(A \cup {x}) = Cardinality(A) + 1
  BY <1>2, <1>4, FS_AddElement
<1>6. Cardinality(A \cup {x}) <= Cardinality(B)
  BY <1>2, <1>4, FS_Subset
<1>7. QED
  BY <1>1, <1>4, <1>5, <1>6 DEF Rank

LEMMA OneRankEach ==
  ASSUME NEW found, IsFiniteSet(found), Ordered(found),
         NEW x \in found, NEW y \in found, Rank(x, found) <= Rank(y, found)
  PROVE  x = y \/ ComesBefore(x, y)
<1>1. CASE ComesBefore(y, x)
  <2>1. Rank(y, found) < Rank(x, found)
    BY <1>1, RankFollowsOrder
  <2>2. Rank(x, found) \in Nat /\ Rank(y, found) \in Nat
    BY RankBound
  <2>3. QED
    BY <2>1, <2>2
<1>2. QED
  BY <1>1 DEF Ordered

LEMMA EveryRankTaken ==
  ASSUME NEW found, IsFiniteSet(found), Ordered(found), NEW i \in 1..Cardinality(found)
  PROVE  \E x \in found : Rank(x, found) = i - 1
<1>1. PICK n \in Nat : n = Cardinality(found)
  BY FS_CardinalityType
<1> DEFINE f == [x \in found |-> Rank(x, found)]
           T == 0..n - 1
<1>2. \A x \in found : f[x] = Rank(x, found) /\ f[x] \in T
  <2>1. ASSUME NEW x \in found PROVE Rank(x, found) \in T
    <3>1. Rank(x, found) \in Nat /\ Rank(x, found) < n
      BY <1>1, RankBound
    <3>2. QED
      BY <3>1
  <2>2. QED
    BY <2>1
<1>3. ASSUME NEW x \in found, NEW y \in found, f[x] = f[y] PROVE x = y
  <2>1. Rank(x, found) \in Nat /\ Rank(x, found) = Rank(y, found)
    BY <1>2, <1>3, RankBound
  <2>2. Rank(x, found) <= Rank(y, found) /\ Rank(y, found) <= Rank(x, found)
    BY <2>1
  <2>3. (x = y \/ ComesBefore(x, y)) /\ (y = x \/ ComesBefore(y, x))
    BY <2>2, OneRankEach
  <2>4. QED
    BY <2>3 DEF Ordered
<1>4. IsFiniteSet(T) /\ Cardinality(T) = n
  <2>1. IsFiniteSet(0..n - 1) /\ Cardinality(0..n - 1) = IF 0 > n - 1 THEN 0 ELSE (n - 1) - 0 + 1
    BY FS_Interval
  <2>2. QED
    BY <2>1
<1>5. f \in [found -> T]
  BY <1>2
<1> HIDE DEF f
<1>6. f \in Injection(found, T)
  BY <1>3, <1>5 DEF Injection, IsInjective
<1>7. f \in Surjection(found, T)
  <2> HIDE DEF T
  <2>1. QED
    BY <1>1, <1>4, <1>6, FS_Injection
<1>8. i - 1 \in T
  BY <1>1
<1>9. PICK x \in found : f[x] = i - 1
  BY <1>7, <1>8 DEF Surjection
<1>10. QED
  BY <1>2, <1>9

-----------------------------------------------------------------------------
(* What the sinks hold.                                                    *)
RowsOf(c) == {row \in rows : row.check_id = c}

(* The rows of a check are those of its recorded results, each of which    *)
(* has an id of its own.                                                   *)
Written(c, seen, found) ==
  /\ \A i \in 1..Len(seen) : seen[i] \in Result /\ seen[i].check_id = c
  /\ \A i, j \in 1..Len(seen) : seen[i].id = seen[j].id => i = j
  /\ \A i \in 1..Len(seen) : ResultToRow(seen[i]) \in found
  /\ \A row \in found : \E i \in 1..Len(seen) : row = ResultToRow(seen[i])

(* The vector has the last of them, in the order of their recording.       *)
EndOf(kept, seen) ==
  /\ Len(kept) <= Len(seen)
  /\ \A i \in 1..Len(kept) : kept[i] = seen[Len(seen) - Len(kept) + i]

FreshIds ==
  /\ \A r, s \in inFlight : r.id = s.id => r = s
  /\ \A r \in inFlight, row \in rows : row.id # r.id

SinksInv ==
  /\ wall \in Times
  /\ memory \in Seq(Result)
  /\ IsFiniteSet(rows)
  /\ inFlight \in SUBSET Result
  /\ recorded \in [CheckIds -> Seq(Result)]
  /\ FreshIds
  /\ \A c \in CheckIds : /\ Written(c, recorded[c], RowsOf(c))
                         /\ EndOf(ResultsForCheck(c), recorded[c])

LEMMA InitSinks ==
  ASSUME Init
  PROVE  SinksInv
<1>1. /\ memory = <<>> /\ rows = {} /\ inFlight = {} /\ wall = 0
      /\ recorded = [c \in CheckIds |-> <<>>]
  BY DEF Init
<1>2. PICK e \in Seq(Result) : e = <<>> /\ Len(e) = 0
  BY EmptySeq
<1>3. wall \in Times /\ memory \in Seq(Result) /\ recorded \in [CheckIds -> Seq(Result)]
  BY <1>1, <1>2, TimesAre
<1>4. ASSUME NEW c \in CheckIds
      PROVE  Written(c, recorded[c], RowsOf(c)) /\ EndOf(ResultsForCheck(c), recorded[c])
  <2>1. ResultsForCheck(c) = e /\ recorded[c] = e /\ RowsOf(c) = {}
    BY <1>1, <1>2, ResultsOfEmpty DEF ResultsForCheck, RowsOf
  <2>2. Written(c, e, {}) /\ EndOf(e, e)
    BY <1>2 DEF Written, EndOf
  <2>3. QED
    BY <2>1, <2>2
<1>5. QED
  BY <1>1, <1>3, <1>4, FS_EmptySet DEF SinksInv, FreshIds

LEMMA ExecuteSinks ==
  ASSUME SinksInv, NEW c \in CheckIds, NEW id \in ResultIds, NEW status \in Statuses,
         ExecuteReturns(c, id, status)
  PROVE  SinksInv'
<1>1. PICK r : r = [id |-> id, check_id |-> c, checked_at |-> wall, status |-> status]
  OBVIOUS
<1>2. r \in Result /\ r.id = id
  BY <1>1 DEF SinksInv, Result
<1>3. /\ \A row \in rows : row.id # id
      /\ \A s \in inFlight : s.id # id
      /\ inFlight' = inFlight \cup {r}
      /\ memory' = memory /\ rows' = rows /\ wall' = wall /\ recorded' = recorded
  BY <1>1 DEF ExecuteReturns
<1>4. FreshIds'
  BY <1>2, <1>3 DEF SinksInv, FreshIds
<1>5. inFlight' \in SUBSET Result
  BY <1>2, <1>3 DEF SinksInv
<1>6. QED
  BY <1>3, <1>4, <1>5 DEF SinksInv, ResultsForCheck, RowsOf

(* A result recorded joins the rows, the vector and the history of its     *)
(* check.                                                                  *)
LEMMA WrittenAppend ==
  ASSUME NEW c, NEW seen \in Seq(Result), NEW found, Written(c, seen, found),
         NEW r \in Result, r.check_id = c, \A row \in found : row.id # r.id
  PROVE  Written(c, Append(seen, r), found \cup {ResultToRow(r)})
<1>1. PICK n \in Nat : n = Len(seen)
  BY LenProperties
<1>2. PICK N \in Seq(Result) : N = Append(seen, r)
  BY AppendProperties
<1>3. Len(N) = n + 1 /\ N[n + 1] = r /\ \A i \in 1..n : N[i] = seen[i]
  BY <1>1, <1>2, AppendProperties
<1>4. PICK table : table = found \cup {ResultToRow(r)}
  OBVIOUS
<1>5. \A i \in 1..n + 1 : i = n + 1 \/ i \in 1..n
  OBVIOUS
<1>6. ASSUME NEW i \in 1..n
      PROVE  /\ N[i] \in Result /\ N[i].check_id = c /\ ResultToRow(N[i]) \in found
             /\ N[i].id # r.id
  <2>1. N[i] \in Result /\ N[i].check_id = c /\ ResultToRow(N[i]) \in found
    BY <1>1, <1>3 DEF Written
  <2>2. ResultToRow(N[i]).id = N[i].id
    BY DEF ResultToRow
  <2>3. QED
    BY <2>1, <2>2
<1>7. \A i \in 1..n + 1 : N[i] \in Result /\ N[i].check_id = c /\ ResultToRow(N[i]) \in table
  BY <1>3, <1>4, <1>5, <1>6
<1>8. \A i, j \in 1..n + 1 : N[i].id = N[j].id => i = j
  BY <1>1, <1>3, <1>5, <1>6 DEF Written
<1>9. ASSUME NEW row \in table PROVE \E i \in 1..n + 1 : row = ResultToRow(N[i])
  <2>0. n + 1 \in 1..n + 1 /\ \A i \in 1..n : i \in 1..n + 1
    OBVIOUS
  <2>1. CASE row = ResultToRow(r)
    BY <1>3, <2>0, <2>1
  <2>2. CASE row \in found
    <3>1. PICK i \in 1..n : row = ResultToRow(seen[i])
      BY <1>1, <2>2 DEF Written
    <3>2. QED
      BY <1>3, <2>0, <3>1
  <2>3. QED
    BY <1>4, <2>1, <2>2
<1>10. Written(c, N, table)
  BY <1>3, <1>7, <1>8, <1>9 DEF Written
<1>11. QED
  BY <1>2, <1>4, <1>10

LEMMA EndAppend ==
  ASSUME NEW kept \in Seq(Result), NEW seen \in Seq(Result), EndOf(kept, seen),
         NEW r \in Result
  PROVE  EndOf(Append(kept, r), Append(seen, r))
<1>1. PICK m \in Nat, n \in Nat : m = Len(kept) /\ n = Len(seen)
  BY LenProperties
<1>2. PICK K \in Seq(Result), N \in Seq(Result) : K = Append(kept, r) /\ N = Append(seen, r)
  BY AppendProperties
<1>3. /\ Len(K) = m + 1 /\ K[m + 1] = r /\ \A i \in 1..m : K[i] = kept[i]
      /\ Len(N) = n + 1 /\ N[n + 1] = r /\ \A i \in 1..n : N[i] = seen[i]
  BY <1>1, <1>2, AppendProperties
<1>4. m <= n /\ \A i \in 1..m : kept[i] = seen[n - m + i]
  BY <1>1 DEF EndOf
<1>5. ASSUME NEW i \in 1..m + 1 PROVE K[i] = N[(n + 1) - (m + 1) + i]
  <2>1. CASE i = m + 1
    <3>1. (n + 1) - (m + 1) + i = n + 1
      BY <2>1
    <3>2. QED
      BY <1>3, <2>1, <3>1
  <2>2. CASE i \in 1..m
    <3>1. (n + 1) - (m + 1) + i = n - m + i /\ n - m + i \in 1..n
      BY <1>4, <2>2
    <3>2. QED
      BY <1>3, <1>4, <2>2, <3>1
  <2>3. QED
    BY <2>1, <2>2
<1>6. EndOf(K, N)
  BY <1>3, <1>4, <1>5 DEF EndOf
<1>7. QED
  BY <1>2, <1>6

LEMMA RecordSinks ==
  ASSUME SinksInv, NEW r \in inFlight, Record(r)
  PROVE  SinksInv'
<1>1. /\ memory' = Append(memory, r) /\ rows' = rows \cup {ResultToRow(r)}
      /\ inFlight' = inFlight \ {r} /\ wall' = wall
      /\ recorded' = [recorded EXCEPT ![r.check_id] = Append(recorded[r.check_id], r)]
  BY DEF Record
<1>2. /\ r \in Result /\ memory \in Seq(Result) /\ IsFiniteSet(rows)
      /\ recorded \in [CheckIds -> Seq(Result)] /\ FreshIds
  BY DEF SinksInv
<1>3. PICK d \in CheckIds : d = r.check_id
  BY <1>2, ResultFields
<1>4. PICK row : row = ResultToRow(r) /\ row.id = r.id /\ row.check_id = d
  BY <1>2, <1>3, RowRoundTrip DEF ResultToRow
<1>5. /\ recorded'[d] = Append(recorded[d], r)
      /\ \A c \in CheckIds : c # d => recorded'[c] = recorded[c]
  BY <1>1, <1>2, <1>3
<1>6. /\ memory' \in Seq(Result) /\ IsFiniteSet(rows')
      /\ inFlight' \in SUBSET Result /\ wall' \in Times
  BY <1>1, <1>2, AppendProperties, FS_AddElement DEF SinksInv
<1>7. recorded' \in [CheckIds -> Seq(Result)]
  <2>1. Append(recorded[d], r) \in Seq(Result)
    BY <1>2, AppendProperties
  <2>2. QED
    BY <1>1, <1>2, <1>3, <2>1
<1>8. FreshIds'
  <2>1. \A s \in inFlight' : s \in inFlight /\ s.id # r.id
    BY <1>1, <1>2 DEF FreshIds
  <2>2. QED
    BY <1>1, <1>2, <1>4, <2>1 DEF FreshIds
<1>9. ASSUME NEW c \in CheckIds
      PROVE  /\ Written(c, recorded'[c], RowsOf(c)')
             /\ EndOf(ResultsOf(c, memory'), recorded'[c])
  <2>1. PICK seen \in Seq(Result) : seen = recorded[c]
    BY <1>2
  <2>2. PICK kept \in Seq(Result) : kept = ResultsForCheck(c)
    BY <1>2, ResultsOfType DEF ResultsForCheck
  <2>3. PICK found : found = RowsOf(c) /\ \A x \in found : x \in rows
    BY DEF RowsOf
  <2>4. Written(c, seen, found) /\ EndOf(kept, seen)
    BY <2>1, <2>2, <2>3 DEF SinksInv
  <2>5. CASE c = d
    <3>1. ResultsOf(c, memory') = Append(kept, r)
      BY <1>1, <1>2, <1>3, <2>2, <2>5, ResultsOfAppend DEF ResultsForCheck
    <3>2. RowsOf(c)' = found \cup {ResultToRow(r)}
      BY <1>1, <1>4, <2>3, <2>5 DEF RowsOf
    <3>3. \A x \in found : x.id # r.id
      BY <1>2, <2>3 DEF FreshIds
    <3>4. r.check_id = c
      BY <1>3, <2>5
    <3>5. Written(c, Append(seen, r), found \cup {ResultToRow(r)})
      BY <1>2, <2>4, <3>3, <3>4, WrittenAppend
    <3>6. EndOf(Append(kept, r), Append(seen, r))
      BY <1>2, <2>4, EndAppend
    <3>7. QED
      BY <1>5, <2>1, <2>5, <3>1, <3>2, <3>5, <3>6
  <2>6. CASE c # d
    <3>1. ResultsOf(c, memory') = kept
      BY <1>1, <1>2, <1>3, <2>2, <2>6, ResultsOfAppend DEF ResultsForCheck
    <3>2. RowsOf(c)' = found
      BY <1>1, <1>4, <2>3, <2>6 DEF RowsOf
    <3>3. QED
      BY <1>5, <2>1, <2>4, <2>6, <3>1, <3>2
  <2>7. QED
    BY <2>5, <2>6
<1>10. QED
  BY <1>6, <1>7, <1>8, <1>9 DEF SinksInv, ResultsForCheck

LEMMA ClearSinks ==
  ASSUME SinksInv, Clear
  PROVE  SinksInv'
<1>1. /\ memory' = <<>> /\ rows' = rows /\ inFlight' = inFlight /\ wall' = wall
      /\ recorded' = recorded
  BY DEF Clear
<1>2. PICK e \in Seq(Result) : e = <<>> /\ Len(e) = 0
  BY EmptySeq
<1>3. FreshIds'
  BY <1>1 DEF SinksInv, FreshIds
<1>4. ASSUME NEW c \in CheckIds PROVE EndOf(ResultsOf(c, memory'), recorded[c])
  <2>1. ResultsOf(c, memory') = e
    BY <1>1, <1>2, ResultsOfEmpty
  <2>2. Len(recorded[c]) \in Nat
    <3>1. recorded[c] \in Seq(Result)
      BY DEF SinksInv
    <3>2. QED
      BY <3>1, LenProperties
  <2>3. EndOf(e, recorded[c])
    BY <1>2, <2>2 DEF EndOf
  <2>4. QED
    BY <2>1, <2>3
<1>5. memory' \in Seq(Result)
  BY <1>1, <1>2
<1>6. QED
  BY <1>1, <1>3, <1>4, <1>5 DEF SinksInv, ResultsForCheck, RowsOf

(* Wherever the clock is set, a result can be dated by it.                 *)
LEMMA ClockSinks ==
  ASSUME SinksInv, TimePasses \/ ClockStepsBack
  PROVE  SinksInv'
<1>1. memory' = memory /\ rows' = rows /\ inFlight' = inFlight /\ recorded' = recorded
  BY DEF TimePasses, ClockStepsBack
<1>2. wall \in Times /\ wall \in Nat
  BY TimesAre DEF SinksInv
<1>3. wall' \in Times
  <2>1. CASE TimePasses
    <3>1. wall' = wall + 1 /\ wall + 1 < Power[SecondsWidth] * Second /\ wall + 1 \in Nat
      BY <1>2, <2>1 DEF TimePasses
    <3>2. QED
      BY <3>1, TimesAre
  <2>2. CASE ClockStepsBack
    <3>1. wall' \in 0..wall - 1
      BY <2>2 DEF ClockStepsBack
    <3>2. PICK n \in Nat \ {0} : Times = 0..n - 1
      BY TimesAreUpTo
    <3>3. QED
      BY <1>2, <3>1, <3>2
  <2>3. QED
    BY <2>1, <2>2
<1>4. QED
  BY <1>1, <1>3 DEF SinksInv, FreshIds, ResultsForCheck, RowsOf

LEMMA NextSinks ==
  ASSUME SinksInv, [Next]_resultsVars
  PROVE  SinksInv'
<1>1. CASE \E c \in CheckIds, id \in ResultIds, status \in Statuses :
             ExecuteReturns(c, id, status)
  BY <1>1, ExecuteSinks
<1>2. CASE \E r \in inFlight : Record(r)
  BY <1>2, RecordSinks
<1>3. CASE Clear
  BY <1>3, ClearSinks
<1>4. CASE TimePasses \/ ClockStepsBack
  BY <1>4, ClockSinks
<1>5. CASE UNCHANGED resultsVars
  <2>1. memory' = memory /\ rows' = rows /\ inFlight' = inFlight /\ wall' = wall
        /\ recorded' = recorded
    BY <1>5 DEF resultsVars
  <2>2. QED
    BY <2>1 DEF SinksInv, FreshIds, ResultsForCheck, RowsOf
<1>6. QED
  BY <1>1, <1>2, <1>3, <1>4, <1>5 DEF Next

-----------------------------------------------------------------------------
(* What is read back is what was recorded, sorted.                         *)
ReadBack(recent, seen, n) ==
  /\ DOMAIN recent = 1..n /\ Len(recent) = n
  /\ \A i \in 1..n : \E k \in 1..n : recent[i] = seen[k]
  /\ \A k \in 1..n : \E i \in 1..n : recent[i] = seen[k]
  /\ \A i, j \in 1..n : i < j => Later(recent[i], recent[j])

LEMMA RowsAreOrdered ==
  ASSUME NEW c, NEW seen, NEW found, Written(c, seen, found)
  PROVE  Ordered(found)
<1>1. ASSUME NEW x \in found
      PROVE  \E r \in Result : /\ x = ResultToRow(r)
                               /\ \E i \in 1..Len(seen) : r = seen[i]
  BY DEF Written
<1>2. ASSUME NEW x \in found PROVE ~ComesBefore(x, x)
  <2>1. PICK r \in Result : x = ResultToRow(r)
    BY <1>1
  <2>2. ~Later(r, r)
    BY LaterIsOrder
  <2>3. QED
    BY <2>1, <2>2, ComesBeforeIsLater
<1>3. ASSUME NEW x \in found, NEW y \in found, x # y
      PROVE  ComesBefore(x, y) \/ ComesBefore(y, x)
  <2>1. PICK r \in Result : x = ResultToRow(r) /\ \E i \in 1..Len(seen) : r = seen[i]
    BY <1>1
  <2>2. PICK s \in Result : y = ResultToRow(s) /\ \E i \in 1..Len(seen) : s = seen[i]
    BY <1>1
  <2>3. r.id # s.id
    BY <1>3, <2>1, <2>2 DEF Written
  <2>4. Later(r, s) \/ Later(s, r)
    BY <2>3, LaterIsOrder
  <2>5. QED
    BY <2>1, <2>2, <2>4, ComesBeforeIsLater
<1>4. ASSUME NEW x \in found, NEW y \in found, NEW z \in found,
             ComesBefore(x, y), ComesBefore(y, z)
      PROVE  ComesBefore(x, z)
  <2>1. PICK r \in Result : x = ResultToRow(r)
    BY <1>1
  <2>2. PICK s \in Result : y = ResultToRow(s)
    BY <1>1
  <2>3. PICK t \in Result : z = ResultToRow(t)
    BY <1>1
  <2>4. Later(r, s) /\ Later(s, t)
    BY <1>4, <2>1, <2>2, <2>3, ComesBeforeIsLater
  <2>5. Later(r, t)
    BY <2>4, LaterIsOrder
  <2>6. QED
    BY <2>1, <2>3, <2>5, ComesBeforeIsLater
<1>5. QED
  BY <1>2, <1>3, <1>4 DEF Ordered

LEMMA WrittenCount ==
  ASSUME NEW c, NEW seen \in Seq(Result), NEW found, Written(c, seen, found)
  PROVE  IsFiniteSet(found) /\ Cardinality(found) = Len(seen)
<1>1. PICK n \in Nat : n = Len(seen)
  BY LenProperties
<1> DEFINE f == [i \in 1..n |-> ResultToRow(seen[i])]
<1>2. \A i \in 1..n : f[i] = ResultToRow(seen[i]) /\ f[i] \in found
  BY <1>1 DEF Written
<1>3. f \in [1..n -> found]
  BY <1>2
<1> HIDE DEF f
<1>4. ASSUME NEW i \in 1..n, NEW j \in 1..n, f[i] = f[j] PROVE i = j
  <2>1. ResultToRow(seen[i]).id = ResultToRow(seen[j]).id
    BY <1>2, <1>4
  <2>2. seen[i].id = seen[j].id
    BY <2>1 DEF ResultToRow
  <2>3. QED
    BY <1>1, <2>2 DEF Written
<1>5. \A x \in found : \E i \in 1..n : f[i] = x
  BY <1>1, <1>2 DEF Written
<1>6. f \in Bijection(1..n, found)
  BY <1>3, <1>4, <1>5 DEF Bijection, Injection, Surjection, IsInjective
<1>7. IsFiniteSet(1..n) /\ Cardinality(1..n) = n
  <2>1. IsFiniteSet(1..n) /\ Cardinality(1..n) = IF 1 > n THEN 0 ELSE n - 1 + 1
    BY FS_Interval
  <2>2. QED
    BY <2>1
<1>8. ExistsBijection(1..n, found)
  BY <1>6 DEF ExistsBijection
<1>9. QED
  BY <1>1, <1>7, <1>8, FS_Bijection

LEMMA RecentIsReadBack ==
  ASSUME SinksInv, NEW c \in CheckIds
  PROVE  ReadBack(RecentForCheck(c), recorded[c], Len(recorded[c]))
<1>1. PICK seen \in Seq(Result) : seen = recorded[c]
  BY DEF SinksInv
<1>2. PICK n \in Nat : n = Len(seen)
  BY LenProperties
<1>3. PICK found : found = RowsOf(c)
  OBVIOUS
<1>4. Written(c, seen, found)
  BY <1>1, <1>3 DEF SinksInv
<1>5. IsFiniteSet(found) /\ Cardinality(found) = n /\ Ordered(found)
  BY <1>2, <1>4, WrittenCount, RowsAreOrdered
<1>6. PICK at : at = [i \in 1..n |-> CHOOSE row \in found :
                                       Cardinality(Before(row, found)) = i - 1]
  OBVIOUS
<1>7. ASSUME NEW i \in 1..n PROVE at[i] \in found /\ Rank(at[i], found) = i - 1
  <2>1. \E x \in found : Rank(x, found) = i - 1
    BY <1>5, EveryRankTaken
  <2>2. \E x \in found : Cardinality(Before(x, found)) = i - 1
    BY <2>1 DEF Rank
  <2>3. at[i] \in found /\ Cardinality(Before(at[i], found)) = i - 1
    BY <1>6, <2>2
  <2>4. QED
    BY <2>3 DEF Rank
<1>8. PICK recent : recent = RecentForCheck(c)
  OBVIOUS
<1>9. recent = [i \in 1..n |-> ResultFromRow(at[i])]
  <2>1. recent = [i \in 1..Cardinality(found) |->
                    ResultFromRow(CHOOSE row \in found : Cardinality(Before(row, found)) = i - 1)]
    BY <1>3, <1>8 DEF RecentForCheck, RowsOf
  <2>2. \A i \in 1..n : at[i] = CHOOSE row \in found : Cardinality(Before(row, found)) = i - 1
    BY <1>6
  <2>3. QED
    BY <1>5, <2>1, <2>2
<1>10. DOMAIN recent = 1..n /\ Len(recent) = n
  BY <1>9
<1>11. ASSUME NEW k \in 1..n
       PROVE  /\ seen[k] \in Result /\ ResultToRow(seen[k]) \in found
              /\ ResultFromRow(ResultToRow(seen[k])) = seen[k]
  BY <1>2, <1>4, RowRoundTrip DEF Written
<1>12. ASSUME NEW i \in 1..n
       PROVE  \E k \in 1..n : at[i] = ResultToRow(seen[k]) /\ recent[i] = seen[k]
  <2>1. PICK k \in 1..n : at[i] = ResultToRow(seen[k])
    BY <1>2, <1>4, <1>7 DEF Written
  <2>2. recent[i] = seen[k]
    BY <1>9, <1>11, <2>1
  <2>3. QED
    BY <2>1, <2>2
<1>13. ASSUME NEW k \in 1..n PROVE \E i \in 1..n : recent[i] = seen[k]
  <2>1. PICK x \in found : x = ResultToRow(seen[k])
    BY <1>11
  <2>2. Rank(x, found) \in Nat /\ Rank(x, found) < n
    BY <1>5, RankBound
  <2>3. PICK i \in 1..n : Rank(x, found) = i - 1
    <3>1. Rank(x, found) + 1 \in 1..n /\ Rank(x, found) = (Rank(x, found) + 1) - 1
      BY <2>2
    <3>2. QED
      BY <3>1
  <2>4. at[i] \in found /\ Rank(at[i], found) = Rank(x, found)
    BY <1>7, <2>3
  <2>5. Rank(at[i], found) <= Rank(x, found) /\ Rank(x, found) <= Rank(at[i], found)
    BY <2>2, <2>4
  <2>6. (at[i] = x \/ ComesBefore(at[i], x)) /\ (x = at[i] \/ ComesBefore(x, at[i]))
    BY <1>5, <2>4, <2>5, OneRankEach
  <2>7. at[i] = x
    BY <1>5, <2>4, <2>6 DEF Ordered
  <2>8. recent[i] = seen[k]
    BY <1>9, <1>11, <2>1, <2>7
  <2>9. QED
    BY <2>8
<1>14. ASSUME NEW i \in 1..n, NEW j \in 1..n, i < j PROVE Later(recent[i], recent[j])
  <2>1. /\ at[i] \in found /\ Rank(at[i], found) = i - 1
        /\ at[j] \in found /\ Rank(at[j], found) = j - 1
    BY <1>7
  <2>2. Rank(at[i], found) <= Rank(at[j], found) /\ Rank(at[i], found) # Rank(at[j], found)
    BY <1>14, <2>1
  <2>3. ComesBefore(at[i], at[j])
    BY <1>5, <2>1, <2>2, OneRankEach
  <2>4. PICK k \in 1..n, h \in 1..n : /\ at[i] = ResultToRow(seen[k]) /\ recent[i] = seen[k]
                                      /\ at[j] = ResultToRow(seen[h]) /\ recent[j] = seen[h]
    BY <1>12
  <2>5. seen[k] \in Result /\ seen[h] \in Result
    BY <1>11
  <2>6. QED
    BY <2>3, <2>4, <2>5, ComesBeforeIsLater
<1>15. ReadBack(recent, seen, n)
  <2>1. \A i \in 1..n : \E k \in 1..n : recent[i] = seen[k]
    BY <1>12
  <2>2. QED
    BY <1>10, <1>13, <1>14, <2>1 DEF ReadBack
<1>16. QED
  BY <1>1, <1>2, <1>8, <1>15

LEMMA SinksInvSorts ==
  ASSUME SinksInv
  PROVE  RecentIsByInstant
<1> SUFFICES ASSUME NEW c \in CheckIds, NEW recent, recent = RecentForCheck(c)
             PROVE  /\ Len(recent) = Len(recorded[c])
                    /\ Range(recent) = Range(recorded[c])
                    /\ \A i, j \in DOMAIN recent : i < j => Later(recent[i], recent[j])
  BY DEF RecentIsByInstant
<1>1. PICK seen \in Seq(Result) : seen = recorded[c]
  BY DEF SinksInv
<1>2. PICK n \in Nat : n = Len(seen) /\ DOMAIN seen = 1..n
  BY LenProperties
<1>3. ReadBack(recent, seen, n)
  BY <1>1, <1>2, RecentIsReadBack
<1>4. Range(recent) = Range(seen)
  <2>1. DOMAIN recent = 1..n
    BY <1>3 DEF ReadBack
  <2>2. ASSUME NEW x \in Range(recent) PROVE x \in Range(seen)
    <3>1. PICK i \in 1..n : x = recent[i]
      BY <2>1 DEF Range
    <3>2. PICK k \in 1..n : recent[i] = seen[k]
      BY <1>3 DEF ReadBack
    <3>3. QED
      BY <1>2, <3>1, <3>2 DEF Range
  <2>3. ASSUME NEW x \in Range(seen) PROVE x \in Range(recent)
    <3>1. PICK k \in 1..n : x = seen[k]
      BY <1>2 DEF Range
    <3>2. PICK i \in 1..n : recent[i] = seen[k]
      BY <1>3 DEF ReadBack
    <3>3. QED
      BY <2>1, <3>1, <3>2 DEF Range
  <2>4. QED
    BY <2>2, <2>3
<1>5. QED
  BY <1>1, <1>2, <1>3, <1>4 DEF ReadBack

-----------------------------------------------------------------------------
(* When the two sinks agree.                                               *)
InOrder(seen, n, m) ==
  \A i, j \in 1..n : i < j /\ n - m < j => Later(seen[j], seen[i])

Same(recent, seen, n, m) == \A i \in 1..m : recent[i] = seen[n - i + 1]

(* The results of a check and what is read of them, and how many of them   *)
(* the vector still has.                                                   *)
LEMMA Facts ==
  ASSUME SinksInv, NEW c \in CheckIds
  PROVE  \E seen \in Seq(Result), kept \in Seq(Result), n \in Nat, m \in Nat :
           /\ seen = recorded[c] /\ n = Len(seen) /\ DOMAIN seen = 1..n
           /\ kept = ResultsForCheck(c) /\ m = Len(kept) /\ m <= n
           /\ \A i \in 1..m : kept[i] = seen[n - m + i]
           /\ \A i \in 1..n : seen[i] \in Result
           /\ \A i, j \in 1..n : seen[i].id = seen[j].id => i = j
           /\ ReadBack(RecentForCheck(c), seen, n)
<1>1. PICK seen \in Seq(Result) : seen = recorded[c]
  BY DEF SinksInv
<1>2. PICK n \in Nat : n = Len(seen) /\ DOMAIN seen = 1..n
  BY LenProperties
<1>3. PICK kept \in Seq(Result) : kept = ResultsForCheck(c)
  BY ResultsOfType DEF SinksInv, ResultsForCheck
<1>4. PICK m \in Nat : m = Len(kept)
  BY LenProperties
<1>5. m <= n /\ \A i \in 1..m : kept[i] = seen[n - m + i]
  BY <1>1, <1>2, <1>3, <1>4 DEF SinksInv, EndOf
<1>6. /\ \A i \in 1..n : seen[i] \in Result
      /\ \A i, j \in 1..n : seen[i].id = seen[j].id => i = j
  BY <1>1, <1>2 DEF SinksInv, Written
<1>7. ReadBack(RecentForCheck(c), seen, n)
  BY <1>1, <1>2, RecentIsReadBack
<1>8. QED
  BY <1>1, <1>2, <1>3, <1>4, <1>5, <1>6, <1>7

(* Sorted, the results recorded in order are where they were recorded,     *)
(* counted from the end: at the least place where that fails, the one      *)
(* expected comes behind another, which is neither before nor after it.    *)
LEMMA OrderGivesSame ==
  ASSUME NEW seen, NEW n \in Nat, NEW m \in 0..n, NEW recent, ReadBack(recent, seen, n),
         \A i \in 1..n : seen[i] \in Result,
         \A i, j \in 1..n : seen[i].id = seen[j].id => i = j,
         InOrder(seen, n, m)
  PROVE  Same(recent, seen, n, m)
<1> DEFINE Differ == {i \in 1..m : recent[i] # seen[n - i + 1]}
<1>1. SUFFICES ASSUME Differ # {} PROVE FALSE
  BY DEF Same
<1>2. PICK i \in Differ : \A j \in Differ : i <= j
  <2>1. Differ \subseteq Nat
    OBVIOUS
  <2> HIDE DEF Differ
  <2>2. QED
    BY <1>1, <2>1, LeastNumber
<1>3. PICK e \in 1..n : e = n - i + 1
  OBVIOUS
<1>4. /\ i \in 1..n /\ i \in 1..m /\ recent[i] # seen[e] /\ n - m < e
      /\ \A j \in 1..n : j < i => recent[j] = seen[n - j + 1]
  BY <1>2, <1>3
<1> HIDE DEF Differ
<1>5. PICK q \in 1..n : recent[q] = seen[e]
  BY DEF ReadBack
<1>6. PICK k \in 1..n : recent[i] = seen[k]
  BY <1>4 DEF ReadBack
<1>7. k # e /\ q # i
  BY <1>4, <1>5, <1>6
<1>8. ~(q < i)
  <2>1. SUFFICES ASSUME q < i PROVE FALSE
    OBVIOUS
  <2>2. PICK p \in 1..n : p = n - q + 1
    OBVIOUS
  <2>3. seen[p] = seen[e]
    BY <1>4, <1>5, <2>1, <2>2
  <2>4. p = e
    BY <2>3
  <2>5. QED
    BY <1>3, <1>4, <1>7, <2>2, <2>4
<1>9. Later(recent[i], seen[e])
  <2>1. i < q
    BY <1>4, <1>7, <1>8
  <2>2. i \in 1..n
    BY <1>4
  <2>3. Later(recent[i], recent[q])
    BY <2>1, <2>2 DEF ReadBack
  <2>4. QED
    BY <1>5, <2>3
<1>10. CASE k < e
  <2>1. Later(seen[e], seen[k])
    BY <1>4, <1>10 DEF InOrder
  <2>2. Later(seen[k], seen[e])
    BY <1>6, <1>9
  <2>3. seen[k] \in Result /\ seen[e] \in Result
    OBVIOUS
  <2>4. QED
    BY <2>1, <2>2, <2>3, LaterIsOrder
<1>11. CASE e < k
  <2>1. PICK p \in 1..n : p = n - k + 1
    OBVIOUS
  <2>2. p < i /\ n - p + 1 = k
    BY <1>3, <1>4, <1>11, <2>1
  <2>3. recent[p] = seen[k]
    BY <1>4, <2>2
  <2>4. Later(recent[p], recent[i])
    BY <1>4, <2>2 DEF ReadBack
  <2>5. Later(seen[k], seen[k]) /\ seen[k] \in Result
    BY <1>6, <2>3, <2>4
  <2>6. QED
    BY <2>5, LaterIsOrder
<1>12. QED
  BY <1>7, <1>10, <1>11

LEMMA SameGivesOrder ==
  ASSUME NEW seen, NEW n \in Nat, NEW m \in 0..n, NEW recent, ReadBack(recent, seen, n),
         \A i \in 1..n : seen[i] \in Result,
         \A i, j \in 1..n : seen[i].id = seen[j].id => i = j,
         Same(recent, seen, n, m)
  PROVE  InOrder(seen, n, m)
<1> SUFFICES ASSUME NEW i \in 1..n, NEW j \in 1..n, i < j, n - m < j
             PROVE  Later(seen[j], seen[i])
  BY DEF InOrder
<1>1. PICK p \in 1..n : p = n - j + 1 /\ p \in 1..m /\ n - p + 1 = j
  OBVIOUS
<1>2. recent[p] = seen[j]
  BY <1>1 DEF Same
<1>3. PICK q \in 1..n : recent[q] = seen[i]
  BY DEF ReadBack
<1>4. ~(q <= p)
  <2>1. SUFFICES ASSUME q <= p PROVE FALSE
    OBVIOUS
  <2>2. q \in 1..m
    BY <1>1, <2>1
  <2>3. PICK k \in 1..n : k = n - q + 1
    OBVIOUS
  <2>4. seen[k] = seen[i]
    BY <1>3, <2>2, <2>3 DEF Same
  <2>5. k = i
    BY <2>4
  <2>6. QED
    BY <1>1, <2>1, <2>3, <2>5
<1>5. Later(recent[p], recent[q])
  BY <1>4 DEF ReadBack
<1>6. QED
  BY <1>2, <1>3, <1>5

(* Reverse(kept) is the beginning of recent.                               *)
LEMMA PrefixIsSame ==
  ASSUME NEW kept \in Seq(Result), NEW seen, NEW n \in Nat, NEW m \in 0..n, m = Len(kept),
         \A i \in 1..m : kept[i] = seen[n - m + i],
         NEW recent, DOMAIN recent = 1..n, Len(recent) = n
  PROVE  IsPrefix(Reverse(kept), recent) <=> Same(recent, seen, n, m)
<1>1. PICK newest : newest = Reverse(kept)
  OBVIOUS
<1>2. newest = [i \in 1..m |-> kept[(m - i) + 1]] /\ Len(newest) = m
  BY <1>1 DEF Reverse
<1>3. ASSUME NEW i \in 1..m PROVE newest[i] = seen[n - i + 1]
  <2>1. (m - i) + 1 \in 1..m /\ n - m + ((m - i) + 1) = n - i + 1
    OBVIOUS
  <2>2. newest[i] = kept[(m - i) + 1]
    BY <1>2
  <2>3. kept[(m - i) + 1] = seen[n - m + ((m - i) + 1)]
    BY <2>1
  <2>4. QED
    BY <2>1, <2>2, <2>3
<1>4. PICK a : a = SubSeq(newest, 1, m) /\ a = [i \in 1..m |-> newest[i]]
  BY <1>2
<1>5. PICK b : b = SubSeq(recent, 1, m) /\ b = [i \in 1..m |-> recent[i]]
  <2>1. SubSeq(recent, 1, m) = [i \in 1..m |-> recent[i]]
    OBVIOUS
  <2>2. QED
    BY <2>1
<1>6. IsPrefix(newest, recent) <=> a = b
  BY <1>2, <1>4, <1>5 DEF IsPrefix
<1>7. a = b <=> \A i \in 1..m : newest[i] = recent[i]
  <2>1. ASSUME a = b, NEW i \in 1..m PROVE newest[i] = recent[i]
    <3>1. a[i] = newest[i] /\ b[i] = recent[i]
      BY <1>4, <1>5
    <3>2. QED
      BY <2>1, <3>1
  <2>2. ASSUME \A i \in 1..m : newest[i] = recent[i] PROVE a = b
    BY <1>4, <1>5, <2>2
  <2>3. QED
    BY <2>1, <2>2
<1>8. QED
  BY <1>1, <1>3, <1>6, <1>7 DEF Same

LEMMA SinksInvAgrees ==
  ASSUME SinksInv
  PROVE  SinksAgree
<1> SUFFICES ASSUME NEW c \in CheckIds
             PROVE  /\ IsPrefix(Reverse(ResultsForCheck(c)), RecentForCheck(c))
                         <=> RecordedInOrder(c)
                    /\ ResultsForCheck(c) # <<>> =>
                         \/ LatestForCheck(c) = LatestInMemory(c)
                         \/ Later(LatestForCheck(c), LatestInMemory(c))
  BY DEF SinksAgree
<1>1. PICK recent : recent = RecentForCheck(c)
  OBVIOUS
<1>2. PICK seen \in Seq(Result), kept \in Seq(Result), n \in Nat, m \in Nat :
        /\ seen = recorded[c] /\ n = Len(seen) /\ DOMAIN seen = 1..n
        /\ kept = ResultsForCheck(c) /\ m = Len(kept) /\ m <= n
        /\ \A i \in 1..m : kept[i] = seen[n - m + i]
        /\ \A i \in 1..n : seen[i] \in Result
        /\ \A i, j \in 1..n : seen[i].id = seen[j].id => i = j
        /\ ReadBack(RecentForCheck(c), seen, n)
  BY Facts
<1>3. ReadBack(recent, seen, n) /\ m \in 0..n
  BY <1>1, <1>2
<1>4. DOMAIN recent = 1..n /\ Len(recent) = n
  BY <1>3 DEF ReadBack
<1>5. IsPrefix(Reverse(kept), recent) <=> Same(recent, seen, n, m)
  BY <1>2, <1>3, <1>4, PrefixIsSame
<1>6. Same(recent, seen, n, m) <=> InOrder(seen, n, m)
  BY <1>2, <1>3, OrderGivesSame, SameGivesOrder
<1>7. RecordedInOrder(c) <=> InOrder(seen, n, m)
  BY <1>2 DEF RecordedInOrder, InOrder
<1>8. ASSUME kept # <<>>
      PROVE  LatestForCheck(c) = LatestInMemory(c) \/ Later(LatestForCheck(c), LatestInMemory(c))
  <2>1. m \in 1..n /\ 1 \in 1..n
    BY <1>2, <1>8, EmptySeq
  <2>2. LatestInMemory(c) = seen[n]
    <3>1. LatestInMemory(c) = kept[m]
      BY <1>2, <1>8 DEF LatestInMemory, Last
    <3>2. n - m + m = n
      BY <1>2
    <3>3. QED
      BY <1>2, <2>1, <3>1, <3>2
  <2>3. LatestForCheck(c) = recent[1]
    <3>1. recent # <<>> /\ Head(recent) = recent[1]
      BY <1>4, <2>1
    <3>2. QED
      BY <1>1, <3>1 DEF LatestForCheck
  <2>4. PICK q \in 1..n : recent[q] = seen[n]
    <3>1. n \in 1..n
      BY <2>1
    <3>2. QED
      BY <1>3, <3>1 DEF ReadBack
  <2>5. q = 1 \/ 1 < q
    OBVIOUS
  <2>6. 1 < q => Later(recent[1], recent[q])
    BY <1>3, <2>1 DEF ReadBack
  <2>7. QED
    BY <2>2, <2>3, <2>4, <2>5, <2>6
<1>9. QED
  BY <1>1, <1>2, <1>5, <1>6, <1>7, <1>8

(* What is read of a check is every result recorded of it, once and as it  *)
(* was, sorted by instant and id, however the clock was set, however the   *)
(* executions overlapped and whatever was cleared from the vector.         *)
THEOREM RecentAlwaysByInstant == Spec => []RecentIsByInstant
<1>1. Init => SinksInv
  BY InitSinks
<1>2. SinksInv /\ [Next]_resultsVars => SinksInv'
  BY NextSinks
<1>3. SinksInv => RecentIsByInstant
  BY SinksInvSorts
<1>4. QED
  BY <1>1, <1>2, <1>3, PTL DEF Spec

(* results_for_check of the vector, read backwards, is how                 *)
(* recent_for_check of the table begins exactly when none of its results   *)
(* was recorded behind a later one, and latest_for_check of the table is   *)
(* never earlier than that of the vector: for every clock, repeating or    *)
(* set back, and every order in which executions end.                      *)
THEOREM SinksAlwaysAgree == Spec => []SinksAgree
<1>1. Init => SinksInv
  BY InitSinks
<1>2. SinksInv /\ [Next]_resultsVars => SinksInv'
  BY NextSinks
<1>3. SinksInv => SinksAgree
  BY SinksInvAgrees
<1>4. QED
  BY <1>1, <1>2, <1>3, PTL DEF Spec
=============================================================================
