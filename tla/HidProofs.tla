-------------------------------- MODULE HidProofs -------------------------------
(***************************************************************************)
(* Theorems about HidParser and HidReports, for any report map and any     *)
(* payloads, tables of any size, and bytes and words of any width.         *)
(***************************************************************************)
EXTENDS HidReports, SequenceTheorems, FiniteSetTheorems, WellFoundedInduction, TLAPS

--------------------------------------------------------------------------------
(* Induction and recursion over the natural numbers.                         *)

(* The order of the natural numbers, as a relation.                          *)
LEMMA NatLess == \A x, y \in Nat : x < y => <<x, y>> \in OpToRel(<, Nat)
BY DEF OpToRel

(* Induction, with what is proved given as the set where it holds.           *)
LEMMA SetInduction ==
  ASSUME NEW S, 0 \in S, \A n \in Nat : n \in S => n + 1 \in S
  PROVE  Nat \subseteq S
<1> DEFINE T == Nat \ S
<1>1. SUFFICES ASSUME T # {} PROVE FALSE
  OBVIOUS
<1> HIDE DEF T
<1>2. PICK x \in T : \A y \in T : ~ (<<y, x>> \in OpToRel(<, Nat))
  BY <1>1, NatLessThanWellFounded, WFMin DEF T
<1>3. x \in Nat \ {0} /\ x - 1 \in Nat /\ x - 1 < x
  BY DEF T
<1>4. x - 1 \notin T
  BY <1>2, <1>3, NatLess DEF T
<1>5. x - 1 \in S
  BY <1>3, <1>4 DEF T
<1>6. (x - 1) + 1 \in S
  BY <1>3, <1>5
<1>7. QED
  BY <1>3, <1>6 DEF T

(* The same below a bound.                                                   *)
LEMMA InductionUpTo ==
  ASSUME NEW n \in Nat, NEW S, 0 \in S, \A k \in 1 .. n : k - 1 \in S => k \in S
  PROVE  \A k \in 0 .. n : k \in S
<1> DEFINE G == {k \in Nat : k <= n => k \in S}
<1>1. 0 \in G
  OBVIOUS
<1>2. ASSUME NEW k \in Nat, k \in G PROVE k + 1 \in G
  <2>1. CASE k + 1 <= n
    <3>1. k + 1 \in 1 .. n /\ (k + 1) - 1 = k /\ k <= n
      BY <2>1
    <3>2. k \in S
      BY <1>2, <3>1
    <3>3. k + 1 \in S
      BY <3>1, <3>2
    <3>4. QED
      BY <3>3
  <2>2. CASE ~(k + 1 <= n)
    BY <2>2
  <2>3. QED
    BY <2>1, <2>2
<1> HIDE DEF G
<1>3. Nat \subseteq G
  BY <1>1, <1>2, SetInduction
<1>4. QED
  BY <1>3 DEF G

(* A loop of n steps has a history: what each step makes of the last.        *)
LEMMA StepRecursion ==
  ASSUME NEW T, NEW base \in T, NEW n \in Nat, NEW step \in [1 .. n -> [T -> T]]
  PROVE  \E f \in [0 .. n -> T] : f[0] = base /\ \A k \in 1 .. n : f[k] = step[k][f[k - 1]]
<1> DEFINE Good(m, f) == f[0] = base /\ \A k \in 1 .. m : f[k] = step[k][f[k - 1]]
           S == {m \in Nat : m <= n => \E f \in [0 .. m -> T] : Good(m, f)}
<1>1. 0 \in S
  <2>1. [k \in 0 .. 0 |-> base] \in [0 .. 0 -> T] /\ Good(0, [k \in 0 .. 0 |-> base])
    OBVIOUS
  <2>2. QED
    BY <2>1
<1>2. ASSUME NEW m \in Nat, m \in S PROVE m + 1 \in S
  <2>1. SUFFICES ASSUME m + 1 <= n PROVE \E f \in [0 .. m + 1 -> T] : Good(m + 1, f)
    OBVIOUS
  <2>2. PICK g \in [0 .. m -> T] : Good(m, g)
    BY <1>2, <2>1
  <2> DEFINE f == [k \in 0 .. m + 1 |-> IF k = m + 1 THEN step[m + 1][g[m]] ELSE g[k]]
  <2>3. step[m + 1] \in [T -> T] /\ g[m] \in T
    BY <2>1
  <2>4. f \in [0 .. m + 1 -> T]
    BY <2>3
  <2>5. ASSUME NEW k \in 1 .. m + 1 PROVE f[k] = step[k][f[k - 1]]
    <3>1. k - 1 \in 0 .. m /\ k - 1 # m + 1 /\ k - 1 \in 0 .. m + 1 /\ k \in 0 .. m + 1
      OBVIOUS
    <3>2. f[k - 1] = g[k - 1]
      BY <3>1
    <3>3. CASE k = m + 1
      BY <3>1, <3>2, <3>3
    <3>4. CASE k # m + 1
      <4>1. k \in 1 .. m
        BY <3>4
      <4>2. g[k] = step[k][g[k - 1]]
        BY <2>2, <4>1
      <4>3. QED
        BY <3>1, <3>2, <3>4, <4>2
    <3>5. QED
      BY <3>3, <3>4
  <2>6. f[0] = base
    BY <2>2
  <2>7. QED
    BY <2>4, <2>5, <2>6
<1>3. n \in S
  <2> HIDE DEF S
  <2>1. QED
    BY <1>1, <1>2, SetInduction
<1>4. QED
  BY <1>3

--------------------------------------------------------------------------------
(* Powers of two, and division.                                              *)

(* 1 << n is what its recursive definition says.                             *)
LEMMA ShiftSteps ==
  /\ Shift[0] = 1
  /\ \A n \in Nat : Shift[n] \in Nat \ {0} /\ Shift[n + 1] = 2 * Shift[n]
<1> DEFINE P(n, g) == g \in [0 .. n -> Nat] /\ g[0] = 1 /\ \A k \in 1 .. n : g[k] = 2 * g[k - 1]
           G(n) == CHOOSE g : P(n, g)
           f == [n \in Nat |-> G(n)[n]]
<1>1. ASSUME NEW n \in Nat PROVE P(n, G(n))
  <2> DEFINE T == Nat
             step == [k \in 1 .. n |-> [v \in Nat |-> 2 * v]]
  <2>1. 1 \in T /\ step \in [1 .. n -> [T -> T]]
    OBVIOUS
  <2>2. \A k \in 1 .. n : \A v \in Nat : step[k][v] = 2 * v
    OBVIOUS
  <2> HIDE DEF T, step, P, G, f
  <2>3. PICK g \in [0 .. n -> T] : g[0] = 1 /\ \A k \in 1 .. n : g[k] = step[k][g[k - 1]]
    BY <2>1, StepRecursion
  <2>4. ASSUME NEW k \in 1 .. n PROVE g[k] = 2 * g[k - 1]
    <3>1. k - 1 \in 0 .. n
      OBVIOUS
    <3>2. QED
      BY <2>2, <2>3, <3>1 DEF T
  <2>5. P(n, g)
    BY <2>3, <2>4 DEF P, T
  <2>6. QED
    BY <2>5 DEF G
<1>2. ASSUME NEW n \in Nat, NEW m \in Nat, n <= m, NEW g, NEW h, P(n, g), P(m, h)
      PROVE  g[n] = h[n]
  <2> DEFINE S == {k \in Nat : k <= n => g[k] = h[k]}
  <2>1. 0 \in S
    BY <1>2
  <2>2. ASSUME NEW k \in Nat, k \in S PROVE k + 1 \in S
    <3>1. SUFFICES ASSUME k + 1 <= n PROVE g[k + 1] = h[k + 1]
      OBVIOUS
    <3>2. k + 1 \in 1 .. n /\ k + 1 \in 1 .. m /\ (k + 1) - 1 = k /\ k <= n
      BY <1>2, <3>1
    <3>3. g[k + 1] = 2 * g[k] /\ h[k + 1] = 2 * h[k]
      BY <1>2, <3>2
    <3>4. g[k] = h[k]
      BY <2>2, <3>2
    <3>5. QED
      BY <3>3, <3>4
  <2> HIDE DEF S
  <2>3. n \in S
    BY <2>1, <2>2, SetInduction
  <2>4. QED
    BY <2>3 DEF S
<1>3. ASSUME NEW n \in Nat PROVE f[n] \in Nat /\ f[n] = IF n = 0 THEN 1 ELSE 2 * f[n - 1]
  <2>1. f[n] = G(n)[n] /\ P(n, G(n))
    BY <1>1
  <2>2. CASE n = 0
    BY <2>1, <2>2
  <2>3. CASE n # 0
    <3>1. n - 1 \in Nat /\ n - 1 <= n /\ n \in 1 .. n
      BY <2>3
    <3>2. P(n - 1, G(n - 1)) /\ f[n - 1] = G(n - 1)[n - 1]
      BY <1>1, <3>1
    <3>3. G(n)[n] = 2 * G(n)[n - 1]
      BY <2>1, <3>1
    <3> HIDE DEF P, G, f
    <3>4. G(n - 1)[n - 1] = G(n)[n - 1]
      BY <1>2, <2>1, <3>1, <3>2
    <3>5. G(n)[n] \in Nat
      BY <2>1, <3>1 DEF P
    <3>6. QED
      BY <2>1, <2>3, <3>2, <3>3, <3>4, <3>5
  <2>4. QED
    BY <2>2, <2>3
<1>4. f = [n \in Nat |-> IF n = 0 THEN 1 ELSE 2 * f[n - 1]]
  <2>1. f = [n \in Nat |-> f[n]]
    OBVIOUS
  <2> HIDE DEF f
  <2>2. \A n \in Nat : f[n] = IF n = 0 THEN 1 ELSE 2 * f[n - 1]
    BY <1>3
  <2>3. [n \in Nat |-> f[n]] = [n \in Nat |-> IF n = 0 THEN 1 ELSE 2 * f[n - 1]]
    BY <2>2, Zenon
  <2>4. QED
    BY <2>1, <2>3, Zenon
<1> HIDE DEF f
<1>5. Shift = [n \in Nat |-> IF n = 0 THEN 1 ELSE 2 * Shift[n - 1]]
  BY <1>4, Zenon DEF Shift
<1>6. \A n \in Nat : Shift[n + 1] = 2 * Shift[n]
  <2>1. ASSUME NEW n \in Nat PROVE Shift[n + 1] = 2 * Shift[n]
    <3>1. n + 1 \in Nat /\ n + 1 # 0 /\ (n + 1) - 1 = n
      OBVIOUS
    <3>2. Shift[n + 1] = 2 * Shift[(n + 1) - 1]
      BY <1>5, <3>1
    <3>3. QED
      BY <3>1, <3>2
  <2>2. QED
    BY <2>1
<1>7. Shift[0] = 1
  BY <1>5
<1> DEFINE S == {n \in Nat : Shift[n] \in Nat \ {0}}
<1>8. 0 \in S /\ \A n \in Nat : n \in S => n + 1 \in S
  BY <1>6, <1>7
<1> HIDE DEF S
<1>9. Nat \subseteq S
  BY <1>8, SetInduction
<1>10. QED
  BY <1>6, <1>7, <1>9 DEF S

(* A shift by a sum is two shifts.                                           *)
LEMMA ShiftSum ==
  ASSUME NEW a \in Nat, NEW b \in Nat
  PROVE  Shift[a + b] = Shift[a] * Shift[b]
<1> DEFINE S == {n \in Nat : Shift[a + n] = Shift[a] * Shift[n]}
<1>1. \A n \in Nat : Shift[n] \in Nat /\ Shift[n + 1] = 2 * Shift[n]
  BY ShiftSteps
<1>2. 0 \in S
  <2>1. Shift[0] = 1 /\ a + 0 = a /\ Shift[a] \in Nat
    BY ShiftSteps
  <2>2. QED
    BY <2>1
<1>3. ASSUME NEW n \in Nat, n \in S PROVE n + 1 \in S
  <2>1. Shift[a + n] = Shift[a] * Shift[n]
    BY <1>3
  <2>2. a + n \in Nat /\ a + (n + 1) = (a + n) + 1
    OBVIOUS
  <2>3. Shift[a + (n + 1)] = 2 * (Shift[a] * Shift[n]) /\ Shift[n + 1] = 2 * Shift[n]
    BY <1>1, <2>1, <2>2
  <2>4. \A x, y \in Nat : 2 * (x * y) = x * (2 * y)
    OBVIOUS
  <2>5. Shift[a] \in Nat /\ Shift[n] \in Nat
    BY <1>1
  <2>6. Shift[a + (n + 1)] = Shift[a] * Shift[n + 1]
    BY <2>3, <2>4, <2>5
  <2>7. QED
    BY <2>6
<1>4. QED
  <2> HIDE DEF S
  <2>1. b \in S
    BY <1>2, <1>3, SetInduction
  <2>2. QED
    BY <2>1 DEF S

(* Quotient and remainder of a division.                                     *)
LEMMA Division ==
  ASSUME NEW x \in Int, NEW d \in Nat \ {0}
  PROVE  /\ x \div d \in Int /\ x % d \in 0 .. d - 1
         /\ x = (x \div d) * d + (x % d)
         /\ x \in Nat => x \div d \in Nat
<1>1. x % d = x - d * (x \div d)
  BY SMTT(30)
<1>2. x \div d \in Int /\ x % d \in Int /\ 0 <= x % d /\ x % d < d
  OBVIOUS
<1>3. d * (x \div d) = (x \div d) * d /\ d * (x \div d) \in Int
  BY <1>2
<1>4. x = (x \div d) * d + (x % d)
  <2>1. \A e, r \in Int : r = x - e => x = e + r
    OBVIOUS
  <2>2. QED
    BY <1>1, <1>2, <1>3, <2>1
<1>5. x \in Nat => x \div d \in Nat
  <2>1. \A q, r \in Int : 0 <= r /\ r < d /\ 0 <= q * d + r => q >= 0
    OBVIOUS
  <2>2. QED
    BY <1>2, <1>4, <2>1
<1>6. QED
  BY <1>2, <1>4, <1>5

(* There is only one quotient with a remainder that fits.                    *)
LEMMA Quotient ==
  ASSUME NEW x \in Int, NEW d \in Nat \ {0}, NEW q \in Int, NEW r \in 0 .. d - 1, x = q * d + r
  PROVE  x \div d = q /\ x % d = r
OBVIOUS

(* A division by a product is two divisions.                                 *)
LEMMA DivideTwice ==
  ASSUME NEW x \in Int, NEW a \in Nat \ {0}, NEW b \in Nat \ {0}
  PROVE  /\ x \div (a * b) = (x \div a) \div b
         /\ x % (a * b) = (x % a) + ((x \div a) % b) * a
<1> DEFINE q == x \div a
           r == x % a
           p == q \div b
           s == q % b
<1>1. q \in Int /\ r \in 0 .. a - 1 /\ x = q * a + r
  BY Division
<1>2. p \in Int /\ s \in 0 .. b - 1 /\ q = p * b + s
  BY <1>1, Division
<1> HIDE DEF q, r, p, s
<1>3. x = p * (a * b) + (s * a + r)
  <2>1. x = (p * b + s) * a + r
    BY <1>1, <1>2
  <2>2. (p * b + s) * a + r = p * (a * b) + (s * a + r)
    BY <1>1, <1>2
  <2>3. QED
    BY <2>1, <2>2
<1>4. s * a + r \in 0 .. a * b - 1
  <2>1. \A i, j, u, v \in Int :
            0 <= j /\ j < u /\ 0 <= i /\ i < v => 0 <= i * u + j /\ i * u + j < u * v
    OBVIOUS
  <2>2. 0 <= s * a + r /\ s * a + r < a * b
    BY <1>1, <1>2, <2>1
  <2>3. s * a + r \in Int /\ a * b \in Int
    BY <1>1, <1>2
  <2>4. QED
    BY <2>2, <2>3
<1>5. a * b \in Nat \ {0}
  OBVIOUS
<1>6. x \div (a * b) = p /\ x % (a * b) = s * a + r
  BY <1>2, <1>3, <1>4, <1>5, Quotient
<1>7. s * a + r = r + s * a
  BY <1>1, <1>2
<1>8. QED
  BY <1>6, <1>7 DEF q, r, p, s

(* A bit below a multiple of a higher power of two is that of the rest.      *)
LEMMA LowBit ==
  ASSUME NEW x \in Nat, NEW y \in Nat, NEW b \in Nat, NEW h \in Nat, b < h
  PROVE  ((x + y * Shift[h]) \div Shift[b]) % 2 = (x \div Shift[b]) % 2
<1> DEFINE s == Shift[b]
           e == Shift[h - b - 1]
           q == x \div s
           r == x % s
<1>1. h - b - 1 \in Nat /\ h = b + ((h - b - 1) + 1)
  OBVIOUS
<1>2. s \in Nat \ {0} /\ e \in Nat /\ Shift[(h - b - 1) + 1] = 2 * e
  BY <1>1, ShiftSteps
<1>3. Shift[h] = s * (2 * e)
  BY <1>1, <1>2, ShiftSum
<1> DEFINE z == y * e
<1> HIDE DEF s, e
<1>4. q \in Nat /\ r \in 0 .. s - 1 /\ x = q * s + r
  <2>1. x \in Int
    OBVIOUS
  <2>2. QED
    BY <1>2, <2>1, Division
<1>6. z \in Int
  BY <1>2
<1> HIDE DEF q, r
<1>5. x + y * Shift[h] = (q + 2 * z) * s + r
  <2>1. \A i, j, k, l, m \in Int : (i * l + m) + j * (l * (2 * k)) = (i + 2 * (j * k)) * l + m
    OBVIOUS
  <2>2. r \in Int
    BY <1>2, <1>4
  <2>3. QED
    BY <1>2, <1>3, <1>4, <2>1, <2>2
<1> HIDE DEF z
<1>7. q + 2 * z \in Int
  BY <1>4, <1>6
<1>8. (x + y * Shift[h]) \div s = q + 2 * z
  <2>1. x + y * Shift[h] \in Int
    BY <1>2, <1>4, <1>5, <1>7
  <2>2. QED
    BY <1>2, <1>4, <1>5, <1>7, <2>1, Quotient
<1>9. \A i, j \in Int : (i + 2 * j) % 2 = i % 2
  OBVIOUS
<1>10. (q + 2 * z) % 2 = q % 2
  BY <1>4, <1>6, <1>9
<1>11. QED
  BY <1>8, <1>10 DEF s, q

(* Where a bit is in its byte.                                               *)
PlacedAt(b, B, j, r) == B \in Nat \ {0} /\ j \in Nat /\ r \in 0 .. B - 1 /\ b = B * j + r

(* A bit's byte and its place in it are its quotient and remainder.          *)
LEMMA BitPlace ==
  ASSUME NEW b, NEW B, NEW j, NEW r, PlacedAt(b, B, j, r)
  PROVE  b \div B = j /\ b % B = r
<1>1. B \in Nat \ {0} /\ j \in Nat /\ r \in 0 .. B - 1 /\ b = j * B + r /\ b \in Int
  BY DEF PlacedAt
<1>2. QED
  BY ONLY <1>1, Quotient

(* A number that fits below is lost when divided.                            *)
LEMMA Above ==
  ASSUME NEW s \in Nat \ {0}, NEW x \in Nat, NEW y \in Nat, x < s
  PROVE  (x + y * s) \div s = y
OBVIOUS

(* A bit above a number that fits below it is that of the rest.              *)
LEMMA HighBit ==
  ASSUME NEW x \in Nat, NEW y \in Nat, NEW h \in Nat, NEW r \in Nat, x < Shift[h],
         NEW z, z = x + y * Shift[h], NEW b, b = h + r
  PROVE  z \div Shift[b] = y \div Shift[r]
<1>1. Shift[h] \in Nat \ {0} /\ Shift[r] \in Nat \ {0} /\ Shift[h + r] = Shift[h] * Shift[r]
  BY ShiftSteps, ShiftSum
<1> DEFINE s == Shift[h]
           t == Shift[r]
<1> HIDE DEF s, t
<1>2. s \in Nat \ {0} /\ t \in Nat \ {0} /\ x \in 0 .. s - 1 /\ y * s \in Nat
  BY <1>1 DEF s, t
<1>3. y * s + x = x + y * s /\ x + y * s \in Int
  BY <1>2
<1>4. (x + y * s) \div s = y
  BY <1>2, Above DEF s
<1>5. (x + y * s) \div (s * t) = ((x + y * s) \div s) \div t
  BY <1>2, <1>3, DivideTwice
<1>6. QED
  BY <1>1, <1>3, <1>4, <1>5 DEF s, t

--------------------------------------------------------------------------------
(* Sequences.                                                                *)

(* What Last and Front return.                                               *)
LEMMA FrontAndLast ==
  ASSUME NEW S, NEW s \in Seq(S), s # << >>
  PROVE  /\ Len(s) \in Nat \ {0} /\ Last(s) = s[Len(s)] /\ Last(s) \in S
         /\ Front(s) \in Seq(S) /\ Len(Front(s)) = Len(s) - 1
         /\ \A n \in 1 .. Len(s) - 1 : Front(s)[n] = s[n]
<1>1. Len(s) \in Nat \ {0}
  OBVIOUS
<1>2. \A n \in 1 .. Len(s) : s[n] \in S
  OBVIOUS
<1>3. Front(s) = SubSeq(s, 1, Len(s) - 1)
  BY DEF Front
<1>4. /\ SubSeq(s, 1, Len(s) - 1) \in Seq(S)
      /\ Len(SubSeq(s, 1, Len(s) - 1)) = IF 1 <= Len(s) - 1 THEN Len(s) - 1 - 1 + 1 ELSE 0
      /\ \A n \in 1 .. Len(s) - 1 - 1 + 1 : SubSeq(s, 1, Len(s) - 1)[n] = s[1 + n - 1]
  BY <1>1, <1>2, SubSeqProperties
<1>5. Len(SubSeq(s, 1, Len(s) - 1)) = Len(s) - 1
  <2>1. CASE Len(s) = 1
    BY <1>4, <2>1
  <2>2. CASE Len(s) > 1
    BY <1>1, <1>4, <2>2
  <2>3. QED
    BY <1>1, <2>1, <2>2
<1>6. ASSUME NEW n \in 1 .. Len(s) - 1 PROVE SubSeq(s, 1, Len(s) - 1)[n] = s[n]
  <2>1. n \in 1 .. Len(s) - 1 - 1 + 1 /\ 1 + n - 1 = n
    BY <1>1
  <2>2. SubSeq(s, 1, Len(s) - 1)[n] = s[1 + n - 1]
    BY <1>4, <2>1
  <2>3. QED
    BY <2>1, <2>2
<1>7. Last(s) = s[Len(s)]
  BY DEF Last
<1>8. QED
  BY <1>1, <1>2, <1>3, <1>4, <1>5, <1>6, <1>7

(* What Append keeps and adds.                                               *)
LEMMA Appended ==
  ASSUME NEW S, NEW s \in Seq(S), NEW e \in S
  PROVE  /\ Append(s, e) \in Seq(S) /\ Append(s, e) # << >> /\ Len(Append(s, e)) = Len(s) + 1
         /\ \A n \in 1 .. Len(s) : Append(s, e)[n] = s[n]
         /\ Append(s, e)[Len(s) + 1] = e /\ Last(Append(s, e)) = e
<1>1. Len(s) \in Nat
  OBVIOUS
<1>2. Append(s, e) \in Seq(S) /\ Len(Append(s, e)) = Len(s) + 1
  OBVIOUS
<1>3. \A n \in 1 .. Len(s) : Append(s, e)[n] = s[n]
  OBVIOUS
<1>4. Append(s, e)[Len(s) + 1] = e
  OBVIOUS
<1>5. Last(Append(s, e)) = Append(s, e)[Len(Append(s, e))]
  BY DEF Last
<1>6. QED
  BY <1>1, <1>2, <1>3, <1>4, <1>5

--------------------------------------------------------------------------------
(* The parser's own state: global and local items, and collections.          *)

Locals == [usages : Seq(Nat), minimum : Nat \cup {NoUsage}, maximum : Nat \cup {NoUsage}]

(* The innermost application collection of the first n of s is a mouse.      *)
MouseAt(s, n) ==
    \E d \in 1 .. n : s[d] = MouseUsage /\ \A e \in d + 1 .. n : s[e] = Physical

Parsing ==
    /\ scenario \in Scenarios
    /\ status \in {"idle", "parsing", "ok"} \cup Errors
    /\ global \in Globals
    /\ stack \in Seq(Globals) /\ Len(stack) <= StackDepth
    /\ local \in Locals /\ Len(local.usages) <= LocalUsages /\ named = local
    /\ collections \in Seq(BOOLEAN) /\ opened \in Seq(Int)
    /\ Len(collections) <= StackDepth /\ Len(opened) = Len(collections)
    /\ \A n \in 1 .. Len(collections) : collections[n] = MouseAt(opened, n)

(* The types of the constants of a scenario.                                 *)
LEMMA ScenarioTypes ==
  ASSUME scenario \in Scenarios
  PROVE  /\ MaxReports \in Nat \ {0} /\ MaxFields \in Nat \ {0} /\ MaxReportBytes \in Nat \ {0}
         /\ StackDepth \in Nat \ {0} /\ LocalUsages \in Nat \ {0} /\ MaxBits \in Nat
         /\ scenario.pages \subseteq Nat /\ scenario.sizes \subseteq Nat
         /\ scenario.ids \subseteq Nat /\ scenario.counts \subseteq Nat
         /\ \A m \in scenario.minima \cup scenario.usages : m[1] \in Nat /\ m[2] \in {0, 1, 2, 4}
<1>1. /\ {scenario.reports, scenario.fields, scenario.bytes, scenario.depth, scenario.locals}
           \subseteq Nat \ {0}
      /\ scenario.pages \cup scenario.sizes \cup scenario.ids \cup scenario.counts \subseteq Nat
      /\ \A m \in scenario.minima \cup scenario.usages : m[1] \in Nat /\ m[2] \in {0, 1, 2, 4}
  BY ParserAssumption
<1>2. \A a, b \in Nat : a * b \in Nat
  OBVIOUS
<1>3. QED
  BY <1>1, <1>2, WidthAssumption DEF MaxReports, MaxFields, MaxReportBytes, StackDepth, LocalUsages,
     MaxBits

(* signed_bits returns a number, for any width.                              *)
LEMMA SignedInt ==
  ASSUME NEW v \in Nat, NEW bits \in Nat \ {0}
  PROVE  SignedBits(v, bits) \in Int
<1>1. WordBits \in Nat /\ WordBits - 1 \in Nat /\ bits - 1 \in Nat
  BY WidthAssumption
<1>2. Shift[WordBits] \in Int /\ Shift[WordBits - 1] \in Int /\ Shift[bits - 1] \in Int
  BY <1>1, ShiftSteps
<1>3. \A x \in Int : ToSigned(x) \in Int
  BY <1>2 DEF ToSigned
<1> DEFINE sign == Shift[bits - 1]
<1> HIDE DEF sign
<1>4. sign \in Int /\ v \in Int
  BY <1>2 DEF sign
<1>5. FlipBit(v, sign) \in Int
  BY <1>4 DEF FlipBit
<1>6. ToSigned(v) \in Int /\ ToSigned(FlipBit(v, sign)) \in Int
  BY <1>3, <1>4, <1>5
<1>7. QED
  BY <1>4, <1>6 DEF SignedBits, sign

(* A usage with its page is a natural number.                                *)
LEMMA FullUsageNat ==
  ASSUME Parsing, NEW v \in Nat, NEW bytes
  PROVE  FullUsage(v, bytes) \in Nat
<1>1. global.page \in Nat
  BY ScenarioTypes DEF Parsing, Globals
<1>2. QED
  BY <1>1 DEF FullUsage, Page

(* A usage is a number, or missing.                                          *)
LEMMA LocalUsageType ==
  ASSUME Parsing, NEW i \in Nat
  PROVE  LocalUsage(i) \in Nat \cup {NoUsage}
<1>1. /\ local.usages \in Seq(Nat) /\ local.minimum \in Nat \cup {NoUsage}
      /\ Len(local.usages) \in Nat
  BY DEF Parsing, Locals
<1>2. \A n \in 1 .. Len(local.usages) : local.usages[n] \in Nat
  BY <1>1
<1>3. i < Len(local.usages) => local.usages[i + 1] \in Nat
  BY <1>1, <1>2
<1>4. Len(local.usages) > 0 => local.usages[Len(local.usages)] \in Nat
  BY <1>1, <1>2
<1>5. local.minimum # NoUsage => local.minimum + i \in Nat
  BY <1>1 DEF NoUsage
<1>6. QED
  BY <1>3, <1>4, <1>5 DEF LocalUsage

(* collections[depth - 1] is what the history of collections says.           *)
LEMMA MouseNow ==
  ASSUME Parsing
  PROVE  InMouse = InMouseByHistory
<1>1. Len(collections) \in Nat /\ Len(opened) = Len(collections)
  BY DEF Parsing
<1>2. CASE collections = << >>
  <2>1. Len(opened) = 0
    BY <1>1, <1>2
  <2>2. InMouseByHistory = FALSE
    BY <2>1 DEF InMouseByHistory
  <2>3. QED
    BY <1>2, <2>2 DEF InMouse
<1>3. CASE collections # << >>
  <2>1. Len(collections) \in 1 .. Len(collections)
    BY <1>1, <1>3, EmptySeq DEF Parsing
  <2>2. QED
    BY <1>1, <1>3, <2>1 DEF Parsing, MouseAt, InMouse, InMouseByHistory, Last
<1>4. QED
  BY <1>2, <1>3

(* A map that ends in an error leaves nothing behind.                        *)
LEMMA ParsingClear ==
  ASSUME Parsing, Clear, status' \in {"idle", "parsing", "ok"} \cup Errors
  PROVE  Parsing'
<1>1. NoGlobal \in Globals' /\ NoLocal \in Locals
  BY DEF NoGlobal, Globals, NoLocal, Locals, Clear
<1>2. StackDepth' \in Nat /\ LocalUsages' \in Nat
  BY ScenarioTypes DEF Parsing, Clear, StackDepth, LocalUsages
<1>3. QED
  BY <1>1, <1>2 DEF Parsing, Clear, NoLocal, Locals

(* The parser starts with nothing open.                                      *)
LEMMA ParsingInit ==
  ASSUME Init
  PROVE  Parsing
<1>1. NoGlobal \in Globals /\ NoLocal \in Locals
  BY DEF NoGlobal, Globals, NoLocal, Locals
<1>2. StackDepth \in Nat /\ LocalUsages \in Nat
  BY ScenarioTypes DEF Init
<1>3. QED
  BY <1>1, <1>2 DEF Init, Parsing, NoLocal, Locals

(* What a global item, a local item and a collection leave of the state.     *)
LEMMA ParsingGlobal ==
  ASSUME Parsing, global' \in Globals,
         UNCHANGED <<status, stack, local, named, scopeVars, scenario>>
  PROVE  Parsing'
BY DEF Parsing, Globals, Locals, StackDepth, LocalUsages, scopeVars

(* The same of a local item.                                                 *)
LEMMA ParsingLocal ==
  ASSUME Parsing, local' \in Locals, Len(local'.usages) <= LocalUsages, named' = local',
         UNCHANGED <<status, global, stack, scopeVars, scenario>>
  PROVE  Parsing'
BY DEF Parsing, Globals, Locals, StackDepth, LocalUsages, scopeVars

(* memset(&local) leaves a legal local state.                                *)
LEMMA NoLocalFits ==
  ASSUME Parsing
  PROVE  NoLocal \in Locals /\ Len(NoLocal.usages) <= LocalUsages
BY ScenarioTypes DEF Parsing, NoLocal, Locals

(* Each global item keeps Parsing; a minimum of any width has a value.       *)
LEMMA GlobalItems ==
  ASSUME Parsing,
         \/ \E v \in scenario.pages : UsagePage(v)
         \/ \E m \in scenario.minima : LogicalMinimum(m[1], m[2])
         \/ \E v \in scenario.sizes : ReportSize(v)
         \/ \E v \in scenario.ids : ReportId(v)
         \/ \E v \in scenario.counts : ReportCount(v)
  PROVE  Parsing'
<1>1. ASSUME NEW err \in Errors, Fail(err) PROVE Parsing'
  BY <1>1, ParsingClear DEF Fail
<1>2. global \in Globals
  BY DEF Parsing
<1>3. ASSUME NEW v \in scenario.pages, UsagePage(v) PROVE Parsing'
  <2>1. CASE Fail("EINVAL")
    BY <1>1, <2>1 DEF Errors
  <2>2. CASE SetGlobal("page", v)
    <3>1. global' \in Globals
      BY <1>2, <1>3, <2>2 DEF SetGlobal, Globals, mapVars
    <3>2. QED
      BY <2>2, <3>1, ParsingGlobal DEF SetGlobal, mapVars
  <2>3. QED
    BY <1>3, <2>1, <2>2 DEF UsagePage
<1>4. ASSUME NEW m \in scenario.minima, LogicalMinimum(m[1], m[2]) PROVE Parsing'
  <2>1. CASE Fail("EINVAL")
    BY <1>1, <2>1 DEF Errors
  <2>2. CASE m[2] # 0 /\ SetGlobal("minimum", SignedBits(m[1], m[2] * ByteBits))
    <3>1. m[1] \in Nat /\ m[2] \in {1, 2, 4}
      BY <2>2, ScenarioTypes DEF Parsing
    <3>2. m[2] * ByteBits \in Nat \ {0}
      BY <3>1, WidthAssumption
    <3>3. SignedBits(m[1], m[2] * ByteBits) \in Int
      BY <3>1, <3>2, SignedInt
    <3>4. global' \in Globals
      BY <1>2, <2>2, <3>3 DEF SetGlobal, Globals, mapVars
    <3>5. QED
      BY <2>2, <3>4, ParsingGlobal DEF SetGlobal, mapVars
  <2>3. QED
    BY <1>4, <2>1, <2>2 DEF LogicalMinimum
<1>5. ASSUME NEW v \in scenario.sizes, ReportSize(v) PROVE Parsing'
  <2>1. global' \in Globals
    BY <1>2, <1>5 DEF ReportSize, SetGlobal, Globals, mapVars
  <2>2. QED
    BY <1>5, <2>1, ParsingGlobal DEF ReportSize, SetGlobal, mapVars
<1>6. ASSUME NEW v \in scenario.ids, ReportId(v) PROVE Parsing'
  <2>1. CASE Fail("EINVAL")
    BY <1>1, <2>1 DEF Errors
  <2>2. CASE SetGlobal("id", v)
    <3>1. global' \in Globals
      BY <1>2, <1>6, <2>2 DEF SetGlobal, Globals, mapVars
    <3>2. QED
      BY <2>2, <3>1, ParsingGlobal DEF SetGlobal, mapVars
  <2>3. QED
    BY <1>6, <2>1, <2>2 DEF ReportId
<1>7. ASSUME NEW v \in scenario.counts, ReportCount(v) PROVE Parsing'
  <2>1. global' \in Globals
    BY <1>2, <1>7 DEF ReportCount, SetGlobal, Globals, mapVars
  <2>2. QED
    BY <1>7, <2>1, ParsingGlobal DEF ReportCount, SetGlobal, mapVars
<1>8. QED
  BY <1>3, <1>4, <1>5, <1>6, <1>7

(* Push and Pop keep Parsing.                                                *)
LEMMA Saving ==
  ASSUME Parsing, Push \/ Pop
  PROVE  Parsing'
<1>1. ASSUME NEW err \in Errors, Fail(err) PROVE Parsing'
  BY <1>1, ParsingClear DEF Fail
<1>2. global \in Globals /\ stack \in Seq(Globals) /\ Len(stack) <= StackDepth
  BY DEF Parsing
<1>3. CASE Push
  <2>1. CASE Fail("E2BIG")
    BY <1>1, <2>1 DEF Errors
  <2>2. CASE /\ Len(stack) # StackDepth /\ stack' = Append(stack, global)
             /\ UNCHANGED <<status, global, local, named, scopeVars, mapVars>>
    <3>1. StackDepth \in Nat
      BY ScenarioTypes DEF Parsing
    <3>2. stack' \in Seq(Globals) /\ Len(stack') <= StackDepth
      BY <1>2, <2>2, <3>1
    <3>3. QED
      BY <2>2, <3>2 DEF Parsing, Globals, Locals, StackDepth, LocalUsages, scopeVars,
         mapVars
  <2>3. QED
    BY <1>3, <2>1, <2>2 DEF Push
<1>4. CASE Pop
  <2>1. CASE Fail("EINVAL")
    BY <1>1, <2>1 DEF Errors
  <2>2. CASE /\ stack # << >> /\ global' = Last(stack) /\ stack' = Front(stack)
             /\ UNCHANGED <<status, local, named, scopeVars, mapVars>>
    <3>1. StackDepth \in Nat
      BY ScenarioTypes DEF Parsing
    <3>2. Last(stack) \in Globals /\ Front(stack) \in Seq(Globals)
      BY <1>2, <2>2, FrontAndLast
    <3>3. Len(Front(stack)) = Len(stack) - 1 /\ Len(stack) \in Nat
      BY <1>2, <2>2, FrontAndLast
    <3>4. Len(stack') <= StackDepth
      BY <1>2, <2>2, <3>1, <3>3
    <3>5. QED
      BY <2>2, <3>2, <3>4
         DEF Parsing, Globals, Locals, StackDepth, LocalUsages, scopeVars, mapVars
  <2>3. QED
    BY <1>4, <2>1, <2>2 DEF Pop
<1>5. QED
  BY <1>3, <1>4

(* Usages and their ranges keep Parsing.                                     *)
LEMMA LocalItems ==
  ASSUME Parsing, NEW v \in Nat, NEW bytes,
         \/ Usage(v, bytes) \/ UsageMinimum(v, bytes) \/ UsageMaximum(v, bytes)
         \/ Delimiter \/ OtherMain
  PROVE  Parsing'
<1>1. ASSUME NEW err \in Errors, Fail(err) PROVE Parsing'
  BY <1>1, ParsingClear DEF Fail
<1>2. ASSUME NEW l \in Locals, Len(l.usages) <= LocalUsages, SetLocal(l, l) PROVE Parsing'
  BY <1>2, ParsingLocal DEF SetLocal, mapVars
<1>3. /\ local \in Locals /\ Len(local.usages) <= LocalUsages /\ LocalUsages \in Nat
      /\ named = local
  BY ScenarioTypes DEF Parsing
<1>4. FullUsage(v, bytes) \in Nat
  BY FullUsageNat
<1>5. CASE Usage(v, bytes)
  <2> DEFINE l == WithUsage(local, FullUsage(v, bytes))
  <2>1. CASE Fail("E2BIG")
    BY <1>1, <2>1 DEF Errors
  <2>2. CASE Len(local.usages) # LocalUsages /\ SetLocal(l, l)
    <3>1. Append(local.usages, FullUsage(v, bytes)) \in Seq(Nat)
      BY <1>3, <1>4, Appended DEF Locals
    <3>2. l \in Locals /\ l.usages = Append(local.usages, FullUsage(v, bytes))
      BY <1>3, <3>1 DEF Locals, WithUsage
    <3>3. Len(l.usages) <= LocalUsages
      BY <1>3, <1>4, <2>2, <3>2 DEF Locals
    <3>4. QED
      BY <1>2, <2>2, <3>2, <3>3
  <2>3. QED
    BY <1>3, <1>5, <2>1, <2>2 DEF Usage
<1>6. CASE UsageMinimum(v, bytes)
  <2> DEFINE l == [local EXCEPT !.minimum = FullUsage(v, bytes)]
  <2>1. l \in Locals /\ l.usages = local.usages
    BY <1>3, <1>4 DEF Locals
  <2>2. SetLocal(l, l)
    BY <1>3, <1>6 DEF UsageMinimum
  <2>3. QED
    BY <1>2, <1>3, <2>1, <2>2
<1>7. CASE UsageMaximum(v, bytes)
  <2> DEFINE l == [local EXCEPT !.maximum = FullUsage(v, bytes)]
  <2>1. l \in Locals /\ l.usages = local.usages
    BY <1>3, <1>4 DEF Locals
  <2>2. SetLocal(l, l)
    BY <1>3, <1>7 DEF UsageMaximum
  <2>3. QED
    BY <1>2, <1>3, <2>1, <2>2
<1>8. CASE Delimiter
  BY <1>1, <1>8 DEF Delimiter, Errors
<1>9. CASE OtherMain
  BY <1>9, NoLocalFits, ParsingLocal DEF OtherMain, LocalEnds, mapVars
<1>10. QED
  BY <1>5, <1>6, <1>7, <1>8, <1>9

(* An application collection is a mouse by its usage; any other is what the  *)
(* collection around it is.                                                  *)
LEMMA Opening ==
  ASSUME Parsing, NEW application \in BOOLEAN, Collection(application)
  PROVE  Parsing'
<1>1. CASE Fail("E2BIG")
  BY <1>1, ParsingClear DEF Fail, Errors
<1>2. CASE /\ Len(collections) # StackDepth
           /\ collections' = Append(collections, CollectionIsMouse(application))
           /\ opened' = Append(opened, IF application THEN LocalUsage(0) ELSE Physical)
           /\ LocalEnds /\ named' = NoLocal
           /\ UNCHANGED <<status, global, stack, mapVars>>
  <2> DEFINE depth == Len(collections)
             mark == IF application THEN LocalUsage(0) ELSE Physical
  <2>1. /\ collections \in Seq(BOOLEAN) /\ opened \in Seq(Int) /\ Len(opened) = depth
        /\ depth \in Nat /\ depth <= StackDepth /\ StackDepth \in Nat
    BY ScenarioTypes DEF Parsing
  <2>2. CollectionIsMouse(application) \in BOOLEAN
    BY DEF CollectionIsMouse, InMouse, Parsing, Last
  <2>3. LocalUsage(0) \in Nat \cup {NoUsage}
    BY LocalUsageType
  <2>4. mark \in Int
    BY <2>3 DEF NoUsage, Physical
  <2>5. /\ collections' \in Seq(BOOLEAN) /\ Len(collections') = depth + 1
        /\ \A n \in 1 .. depth : collections'[n] = collections[n]
        /\ collections'[depth + 1] = CollectionIsMouse(application)
    BY <1>2, <2>1, <2>2, Appended
  <2>6. /\ opened' \in Seq(Int) /\ Len(opened') = depth + 1
        /\ \A n \in 1 .. depth : opened'[n] = opened[n]
        /\ opened'[depth + 1] = mark
    BY <1>2, <2>1, <2>4, Appended
  <2>7. ASSUME NEW n \in 1 .. depth PROVE collections'[n] = MouseAt(opened', n)
    <3>1. collections[n] = MouseAt(opened, n)
      BY DEF Parsing
    <3>2. \A d \in 1 .. n : opened'[d] = opened[d]
      BY <2>1, <2>6
    <3>3. ASSUME NEW d \in 1 .. n, NEW e \in d + 1 .. n PROVE opened'[e] = opened[e]
      <4>1. e \in 1 .. depth
        BY <2>1
      <4>2. QED
        BY <2>6, <4>1
    <3>4. MouseAt(opened', n) <=> MouseAt(opened, n)
      BY <3>2, <3>3 DEF MouseAt
    <3>5. QED
      BY <2>5, <3>1, <3>4 DEF MouseAt
  <2>8. collections'[depth + 1] = MouseAt(opened', depth + 1)
    <3>1. CASE application
      <4>1. opened'[depth + 1] = LocalUsage(0) /\ LocalUsage(0) # Physical
        BY <2>3, <2>6, <3>1 DEF Physical, NoUsage
      <4>2. MouseAt(opened', depth + 1) <=> LocalUsage(0) = MouseUsage
        <5>1. ASSUME LocalUsage(0) = MouseUsage PROVE MouseAt(opened', depth + 1)
          <6>1. depth + 1 \in 1 .. depth + 1 /\ (depth + 1) + 1 .. depth + 1 = {}
            BY <2>1
          <6>2. QED
            BY <4>1, <5>1, <6>1 DEF MouseAt
        <5>2. ASSUME MouseAt(opened', depth + 1) PROVE LocalUsage(0) = MouseUsage
          <6>1. PICK d \in 1 .. depth + 1 :
                    opened'[d] = MouseUsage /\ \A e \in d + 1 .. depth + 1 : opened'[e] = Physical
            BY <5>2 DEF MouseAt
          <6>2. d = depth + 1
            BY <2>1, <4>1, <6>1
          <6>3. QED
            BY <4>1, <6>1, <6>2
        <5>3. QED
          BY <5>1, <5>2
      <4>3. CollectionIsMouse(application) = (LocalUsage(0) = MouseUsage)
        BY <3>1 DEF CollectionIsMouse
      <4>4. QED
        BY <2>5, <4>2, <4>3 DEF MouseAt
    <3>2. CASE ~application
      <4>1. opened'[depth + 1] = Physical /\ Physical # MouseUsage
        BY <2>6, <3>2 DEF Physical, MouseUsage, Page
      <4>2. MouseAt(opened', depth + 1) <=> InMouseByHistory
        <5>1. ASSUME InMouseByHistory PROVE MouseAt(opened', depth + 1)
          <6>1. PICK d \in 1 .. depth :
                    opened[d] = MouseUsage /\ \A e \in d + 1 .. depth : opened[e] = Physical
            BY <2>1, <5>1 DEF InMouseByHistory
          <6>2. d \in 1 .. depth + 1 /\ opened'[d] = MouseUsage
            BY <2>1, <2>6, <6>1
          <6>3. ASSUME NEW e \in d + 1 .. depth + 1 PROVE opened'[e] = Physical
            <7>1. CASE e = depth + 1
              BY <4>1, <7>1
            <7>2. CASE e # depth + 1
              <8>1. e \in d + 1 .. depth /\ e \in 1 .. depth
                BY <2>1, <6>1, <7>2
              <8>2. QED
                BY <2>6, <6>1, <8>1
            <7>3. QED
              BY <7>1, <7>2
          <6>4. QED
            BY <6>2, <6>3 DEF MouseAt
        <5>2. ASSUME MouseAt(opened', depth + 1) PROVE InMouseByHistory
          <6>1. PICK d \in 1 .. depth + 1 :
                    opened'[d] = MouseUsage /\ \A e \in d + 1 .. depth + 1 : opened'[e] = Physical
            BY <5>2 DEF MouseAt
          <6>2. d \in 1 .. depth
            BY <2>1, <4>1, <6>1
          <6>3. opened[d] = MouseUsage /\ \A e \in d + 1 .. depth : opened[e] = Physical
            BY <2>1, <2>6, <6>1, <6>2
          <6>4. QED
            BY <2>1, <6>2, <6>3 DEF InMouseByHistory
        <5>3. QED
          BY <5>1, <5>2
      <4>3. CollectionIsMouse(application) = InMouseByHistory
        BY <3>2, MouseNow DEF CollectionIsMouse
      <4>4. QED
        BY <2>5, <4>2, <4>3 DEF MouseAt, InMouseByHistory
    <3>3. QED
      BY <3>1, <3>2
  <2>9. \A n \in 1 .. Len(collections') : collections'[n] = MouseAt(opened', n)
    BY <2>1, <2>5, <2>7, <2>8
  <2>10. UNCHANGED <<scenario, status, global, stack>> /\ local' = NoLocal /\ named' = NoLocal
    BY <1>2 DEF mapVars, LocalEnds
  <2>11. NoLocal \in Locals /\ Len(NoLocal.usages) <= LocalUsages
    BY NoLocalFits
  <2>12. /\ collections' \in Seq(BOOLEAN) /\ opened' \in Seq(Int)
         /\ Len(collections') <= StackDepth /\ Len(opened') = Len(collections')
    BY <1>2, <2>1, <2>5, <2>6
  <2>13. QED
    BY <2>9, <2>10, <2>11, <2>12 DEF Parsing, Globals, StackDepth, LocalUsages, Locals
<1>3. QED
  BY <1>1, <1>2 DEF Collection

(* EndCollection returns to the collection around.                           *)
LEMMA Closing ==
  ASSUME Parsing, EndCollection
  PROVE  Parsing'
<1>1. CASE Fail("EINVAL")
  BY <1>1, ParsingClear DEF Fail, Errors
<1>2. CASE /\ collections # << >>
           /\ collections' = Front(collections) /\ opened' = Front(opened)
           /\ LocalEnds /\ named' = NoLocal
           /\ UNCHANGED <<status, global, stack, mapVars>>
  <2> DEFINE depth == Len(collections)
  <2>1. /\ collections \in Seq(BOOLEAN) /\ opened \in Seq(Int) /\ Len(opened) = depth
        /\ depth \in Nat /\ depth <= StackDepth /\ StackDepth \in Nat
    BY ScenarioTypes DEF Parsing
  <2>2. depth \in Nat \ {0} /\ opened # << >>
    BY <1>2, <2>1, FrontAndLast
  <2>3. /\ collections' \in Seq(BOOLEAN) /\ Len(collections') = depth - 1
        /\ \A n \in 1 .. depth - 1 : collections'[n] = collections[n]
    BY <1>2, <2>1, FrontAndLast
  <2>4. /\ opened' \in Seq(Int) /\ Len(opened') = depth - 1
        /\ \A n \in 1 .. depth - 1 : opened'[n] = opened[n]
    BY <1>2, <2>1, <2>2, FrontAndLast
  <2>5. ASSUME NEW n \in 1 .. depth - 1 PROVE collections'[n] = MouseAt(opened', n)
    <3>1. n \in 1 .. depth /\ collections[n] = MouseAt(opened, n)
      BY <2>1 DEF Parsing
    <3>2. ASSUME NEW d \in 1 .. n PROVE opened'[d] = opened[d]
      <4>1. d \in 1 .. depth - 1
        BY <2>1
      <4>2. QED
        BY <2>4, <4>1
    <3>3. ASSUME NEW d \in 1 .. n, NEW e \in d + 1 .. n PROVE opened'[e] = opened[e]
      <4>1. e \in 1 .. depth - 1
        BY <2>1
      <4>2. QED
        BY <2>4, <4>1
    <3>4. MouseAt(opened', n) <=> MouseAt(opened, n)
      BY <3>2, <3>3 DEF MouseAt
    <3>5. QED
      BY <2>3, <3>1, <3>4 DEF MouseAt
  <2>6. \A n \in 1 .. Len(collections') : collections'[n] = MouseAt(opened', n)
    BY <2>3, <2>5
  <2>7. QED
    BY <1>2, <2>1, <2>3, <2>4, <2>6, NoLocalFits
       DEF Parsing, Globals, StackDepth, LocalUsages, mapVars, Locals, LocalEnds
<1>3. QED
  BY <1>1, <1>2 DEF EndCollection

(* Input ends the local state.                                               *)
LEMMA ParsingInput ==
  ASSUME Parsing, NEW flags, Input(flags)
  PROVE  Parsing'
<1>1. CASE Fail("E2BIG")
  BY <1>1, ParsingClear DEF Fail, Errors
<1>2. CASE /\ LocalEnds /\ named' = NoLocal
           /\ UNCHANGED <<scenario, status, global, stack, scopeVars>>
  <2>1. NoLocal \in Locals /\ Len(NoLocal.usages) <= LocalUsages
    BY NoLocalFits
  <2>2. QED
    BY <1>2, <2>1, ParsingLocal DEF LocalEnds
<1>3. QED
  BY <1>1, <1>2 DEF Input

(* Parsing is inductive.                                                     *)
LEMMA ParsingNext ==
  ASSUME Parsing, [ParserNext]_vars
  PROVE  Parsing'
<1>1. CASE UNCHANGED vars
  BY <1>1 DEF vars, itemVars, scopeVars, mapVars, Parsing, Globals, Locals, StackDepth, LocalUsages
<1>2. CASE Parse
  BY <1>2, ParsingClear DEF Parse, Errors
<1>3. CASE Truncated
  BY <1>3, ParsingClear DEF Truncated, Fail, Errors
<1>4. CASE End
  <2>1. /\ UNCHANGED <<global, stack, local, named, collections, opened, scenario>>
        /\ status' \in {"idle", "parsing", "ok"} \cup Errors
    BY <1>4 DEF End, itemVars, scopeVars, mapVars, Errors
  <2>2. QED
    BY <2>1 DEF Parsing, Globals, Locals, StackDepth, LocalUsages
<1>5. CASE \/ \E v \in scenario.pages : UsagePage(v)
           \/ \E m \in scenario.minima : LogicalMinimum(m[1], m[2])
           \/ \E v \in scenario.sizes : ReportSize(v)
           \/ \E v \in scenario.ids : ReportId(v)
           \/ \E v \in scenario.counts : ReportCount(v)
  BY <1>5, GlobalItems
<1>6. CASE "push" \in scenario.kinds /\ (Push \/ Pop)
  BY <1>6, Saving
<1>7. ASSUME NEW u \in scenario.usages,
             Usage(u[1], u[2]) \/ UsageMinimum(u[1], u[2]) \/ UsageMaximum(u[1], u[2])
      PROVE  Parsing'
  <2>1. u[1] \in Nat
    BY ScenarioTypes DEF Parsing
  <2>2. QED
    BY <1>7, <2>1, LocalItems
<1>8. CASE Delimiter \/ OtherMain
  <2>1. 0 \in Nat
    OBVIOUS
  <2>2. QED
    BY <1>8, <2>1, LocalItems
<1>9. CASE \E application \in BOOLEAN : Collection(application)
  BY <1>9, Opening
<1>10. CASE EndCollection
  BY <1>10, Closing
<1>11. CASE \E flags \in SUBSET {"constant", "variable", "relative"} : Input(flags)
  BY <1>11, ParsingInput
<1>12. QED
  BY <1>1, <1>2, <1>3, <1>4, <1>5, <1>6, <1>7, <1>8, <1>9, <1>10, <1>11 DEF ParserNext

--------------------------------------------------------------------------------
(* The layout.                                                               *)

Labels == (Axes \cup {"button"}) \X Buttons

Reports == [bits : 0 .. MaxBits, buttons : SUBSET Buttons, useful : BOOLEAN]

FieldRecords(R) ==
    [report : R, bit : 0 .. MaxBits, size : 1 .. WordBits, is_signed : BOOLEAN,
     usage : Axes \cup {"button"}, button : Buttons]

InputItems ==
    [start : Nat, size : Nat \ {0}, count : Nat \ {0}, mouse : BOOLEAN, exact : BOOLEAN,
     labels : SUBSET Labels]

Tables ==
    /\ DOMAIN reports \subseteq scenario.ids \cup {0}
    /\ IsFiniteSet(DOMAIN reports) /\ Cardinality(DOMAIN reports) <= MaxReports
    /\ \A r \in DOMAIN reports : reports[r] \in Reports
    /\ fields \subseteq FieldRecords(DOMAIN reports)
    /\ IsFiniteSet(fields) /\ Cardinality(fields) <= MaxFields
    /\ summary \in [buttons : SUBSET Buttons, axes : SUBSET Axes]

(* The rooms of a report's Input items lie one after another.                *)
Rooms ==
    /\ DOMAIN inputs = DOMAIN reports
    /\ \A r \in DOMAIN inputs :
           /\ inputs[r] \in Seq(InputItems) /\ inputs[r] # << >>
           /\ reports[r].bits = EndOf(Last(inputs[r]))
           /\ \A k \in 1 .. Len(inputs[r]) : \A j \in 1 .. k - 1 :
                  EndOf(inputs[r][j]) <= inputs[r][k].start

(* A field is a cell of an Input item.                                       *)
CellOf(f, input) ==
    input.size = f.size /\ \E i \in 0 .. input.count - 1 : f.bit = input.start + i * f.size

Placed == \A f \in fields : \E k \in 1 .. Len(inputs[f.report]) : CellOf(f, inputs[f.report][k])

Apart ==
    \A f, g \in fields :
        f.report = g.report /\ f # g => f.bit + f.size <= g.bit \/ g.bit + g.size <= f.bit

MouseFields ==
    \A f \in fields :
        (f.usage \in {"x", "y", "wheel"} \/ (f.usage = "button" /\ f.button < 3)) =>
            \E k \in 1 .. Len(inputs[f.report]) :
                inputs[f.report][k].mouse /\ f \in FieldsFrom(f.report, k)

Layout == Tables /\ Rooms /\ Placed /\ Apart /\ SummaryAgrees /\ MouseFields /\ UsagesFound

(* Cell i ends before cell j begins.                                         *)
LEMMA Times ==
  ASSUME NEW i \in Nat, NEW j \in Nat, NEW s \in Nat \ {0}, i < j
  PROVE  i * s + s <= j * s /\ i * s \in Nat
OBVIOUS

(* The room of an item lies between its start and its end.                   *)
LEMMA CellInRoom ==
  ASSUME NEW input \in InputItems, NEW f, f.size \in Nat \ {0}, CellOf(f, input)
  PROVE  /\ input.start <= f.bit /\ f.bit + f.size <= EndOf(input) /\ f.bit < EndOf(input)
         /\ f.bit \in Nat
<1>1. /\ input.start \in Nat /\ input.size = f.size /\ input.count \in Nat \ {0}
  BY DEF InputItems, CellOf
<1>2. PICK i \in 0 .. input.count - 1 : f.bit = input.start + i * f.size
  BY DEF CellOf
<1>3. i \in Nat /\ i < input.count
  BY <1>1, <1>2
<1>4. i * f.size + f.size <= input.count * f.size /\ i * f.size \in Nat
  BY <1>1, <1>3, Times
<1>5. EndOf(input) = input.start + input.count * f.size
  BY <1>1 DEF EndOf
<1>6. input.count * f.size \in Nat
  BY <1>1
<1>7. QED
  BY <1>1, <1>2, <1>4, <1>5, <1>6

(* An item takes room.                                                       *)
LEMMA EndOfItem ==
  ASSUME NEW input \in InputItems
  PROVE  EndOf(input) \in Nat /\ input.start \in Nat /\ input.start < EndOf(input)
<1>1. input.start \in Nat /\ input.size \in Nat \ {0} /\ input.count \in Nat \ {0}
  BY DEF InputItems
<1>2. input.size * input.count \in Nat \ {0}
  BY <1>1
<1>3. QED
  BY <1>1, <1>2 DEF EndOf

(* No item of a report ends after the report.                                *)
LEMMA RoomInReport ==
  ASSUME Rooms, NEW r \in DOMAIN inputs, NEW k \in 1 .. Len(inputs[r])
  PROVE  inputs[r][k] \in InputItems /\ EndOf(inputs[r][k]) <= reports[r].bits
<1>1. /\ inputs[r] \in Seq(InputItems) /\ inputs[r] # << >>
      /\ reports[r].bits = EndOf(Last(inputs[r]))
      /\ \A m \in 1 .. Len(inputs[r]) : \A j \in 1 .. m - 1 :
             EndOf(inputs[r][j]) <= inputs[r][m].start
  BY DEF Rooms
<1> DEFINE n == Len(inputs[r])
<1>2. n \in Nat \ {0} /\ Last(inputs[r]) = inputs[r][n]
  BY <1>1, FrontAndLast
<1>3. inputs[r][k] \in InputItems /\ inputs[r][n] \in InputItems
  BY <1>1, <1>2
<1>4. CASE k = n
  BY <1>1, <1>2, <1>3, <1>4, EndOfItem
<1>5. CASE k # n
  <2>1. n \in 1 .. n /\ k \in 1 .. n - 1
    BY <1>2, <1>5
  <2>2. EndOf(inputs[r][k]) <= inputs[r][n].start
    BY <1>1, <2>1
  <2>3. QED
    BY <1>1, <1>2, <1>3, <2>2, EndOfItem
<1>6. QED
  BY <1>4, <1>5

(* What a field's types are.                                                 *)
LEMMA FieldTypes ==
  ASSUME Tables, NEW f \in fields
  PROVE  /\ f.report \in DOMAIN reports /\ f.size \in Nat \ {0} /\ f.bit \in Nat
         /\ f.usage \in Axes \cup {"button"} /\ f.button \in Buttons
<1>1. f \in FieldRecords(DOMAIN reports)
  BY DEF Tables
<1>2. QED
  BY <1>1, WidthAssumption DEF FieldRecords

(* A field lies inside its report.                                           *)
LEMMA Sound ==
  ASSUME Tables, Rooms, Placed, NEW f \in fields
  PROVE  f.bit + f.size <= reports[f.report].bits
<1>1. f.report \in DOMAIN inputs /\ f.size \in Nat \ {0} /\ f.bit \in Nat
  BY FieldTypes DEF Rooms
<1>2. PICK k \in 1 .. Len(inputs[f.report]) : CellOf(f, inputs[f.report][k])
  BY DEF Placed
<1>3. /\ inputs[f.report][k] \in InputItems
      /\ EndOf(inputs[f.report][k]) <= reports[f.report].bits
  BY <1>1, RoomInReport
<1>4. f.bit + f.size <= EndOf(inputs[f.report][k]) /\ EndOf(inputs[f.report][k]) \in Nat
  BY <1>1, <1>2, <1>3, CellInRoom, EndOfItem
<1>5. reports[f.report].bits \in Int
  BY <1>1 DEF Tables, Rooms, Reports
<1>6. QED
  BY <1>1, <1>3, <1>4, <1>5

(* The inductive invariant implies the properties.                           *)
LEMMA LayoutHolds ==
  ASSUME Parsing, Layout
  PROVE  LayoutInv /\ MouseFieldsOnly
<1>1. TypeOK
  BY DEF TypeOK, Parsing, Layout, Tables, Reports, FieldRecords
<1>2. LayoutSound
  BY Sound DEF Layout, LayoutSound, Apart
<1>3. LayoutMatches
  BY DEF Layout, Rooms, Placed, CellOf, LayoutMatches
<1>4. MouseFieldsOnly
  BY MouseNow DEF Layout, MouseFields, MouseFieldsOnly
<1>5. QED
  BY <1>1, <1>2, <1>3, <1>4 DEF Layout, LayoutInv

--------------------------------------------------------------------------------
(* What the usages of an Input item stand for.                               *)

(* A usage is an axis, a button or nothing; a mouse's only in a mouse.       *)
LEMMA Meanings ==
  ASSUME Parsing, NEW u \in Int, NEW flags
  PROVE  /\ Meaning(u, flags) \in Labels \cup {<<"none", 0>>}
         /\ (\/ Meaning(u, flags)[1] \in {"x", "y", "wheel"}
             \/ Meaning(u, flags)[1] = "button" /\ Meaning(u, flags)[2] < 3) => InMouse
<1> DEFINE page == u \div 2 ^ 16
           code == u % 2 ^ 16
           axis == CASE page = 1 /\ code = 48 -> "x"
                     [] page = 1 /\ code = 49 -> "y"
                     [] page = 1 /\ code = 56 -> "wheel"
                     [] page = 12 /\ code = 568 -> "pan"
                     [] OTHER -> "none"
<1>1. axis \in Axes \cup {"none"}
  BY DEF Axes
<1>2. code \in 1 .. 5 => code - 1 \in Buttons
  BY DEF Buttons
<1> HIDE DEF page, code, axis
<1>3. Meaning(u, flags) =
        CASE InMouse /\ page = 9 /\ code \in 1 .. 5 -> <<"button", code - 1>>
          [] page = 12 /\ code = 548 -> <<"button", 3>>
          [] page = 12 /\ code = 549 -> <<"button", 4>>
          [] axis # "none" /\ "relative" \in flags /\ (InMouse \/ axis = "pan") -> <<axis, 0>>
          [] OTHER -> <<"none", 0>>
  BY DEF Meaning, page, code, axis
<1>4. \/ InMouse /\ code \in 1 .. 5 /\ Meaning(u, flags) = <<"button", code - 1>>
      \/ Meaning(u, flags) \in {<<"button", 3>>, <<"button", 4>>, <<"none", 0>>}
      \/ axis # "none" /\ (InMouse \/ axis = "pan") /\ Meaning(u, flags) = <<axis, 0>>
  BY <1>3
<1>5. CASE InMouse /\ code \in 1 .. 5 /\ Meaning(u, flags) = <<"button", code - 1>>
  BY <1>2, <1>5 DEF Labels
<1>6. CASE Meaning(u, flags) \in {<<"button", 3>>, <<"button", 4>>, <<"none", 0>>}
  BY <1>6 DEF Labels, Buttons
<1>7. CASE axis # "none" /\ (InMouse \/ axis = "pan") /\ Meaning(u, flags) = <<axis, 0>>
  BY <1>1, <1>7 DEF Labels, Buttons, Axes
<1>8. QED
  BY <1>4, <1>5, <1>6, <1>7

(* A missing usage, UINT32_MAX, stands for nothing.                          *)
LEMMA NoPage ==
  ASSUME NEW u \in Int, u < 0, NEW flags
  PROVE  Meaning(u, flags) = <<"none", 0>>
<1>1. \A d \in Nat \ {0} : u \div d < 0 /\ u \div d \in Int
  OBVIOUS
<1>2. 2 ^ 16 \in Nat \ {0}
  OBVIOUS
<1>3. u \div 2 ^ 16 < 0 /\ u \div 2 ^ 16 \in Int
  BY <1>1, <1>2
<1>4. QED
  BY <1>3 DEF Meaning

(* The code's UINT32_MAX is no usage of any page.                            *)
LEMMA NoMeaning ==
  ASSUME NEW flags
  PROVE  Meaning(NoUsage, flags) = <<"none", 0>>
<1>1. NoUsage \in Int /\ NoUsage < 0
  BY DEF NoUsage
<1>2. QED
  BY <1>1, NoPage

(* Where each usage has its cell, the usages of the cells are those named,   *)
(* and missing ones.                                                         *)
LEMMA CellsAreNamed ==
  ASSUME Parsing, Exact, global.count \in Nat
  PROVE  /\ \A i \in 0 .. global.count - 1 : LocalUsage(i) \in Named \cup {NoUsage}
         /\ \A u \in Named : \E i \in 0 .. global.count - 1 : LocalUsage(i) = u
<1> DEFINE n == Len(local.usages)
<1>1. /\ local.usages \in Seq(Nat) /\ n \in Nat
      /\ local.minimum \in Nat \cup {NoUsage} /\ local.maximum \in Nat \cup {NoUsage}
      /\ named = local
  BY DEF Parsing, Locals
<1>2. CASE HasRange
  <2>1. /\ local.minimum \in Nat /\ local.maximum \in Nat
        /\ n = 0 /\ local.usages = << >> /\ local.maximum - local.minimum < global.count
    BY <1>1, <1>2 DEF HasRange, Exact
  <2>2. Named = {u \in local.minimum .. local.minimum + global.count : u <= local.maximum}
    BY <1>1, <1>2, <2>1 DEF Named, ToSet
  <2>3. ASSUME NEW i \in 0 .. global.count - 1 PROVE LocalUsage(i) \in Named \cup {NoUsage}
    <3>1. LocalUsage(i) = IF i <= local.maximum - local.minimum THEN local.minimum + i ELSE NoUsage
      BY <1>1, <1>2, <2>1 DEF LocalUsage, InRange, HasRange
    <3>2. QED
      BY <2>1, <2>2, <3>1
  <2>4. ASSUME NEW u \in Named PROVE \E i \in 0 .. global.count - 1 : LocalUsage(i) = u
    <3>1. u \in Int /\ local.minimum <= u /\ u <= local.maximum
      BY <2>1, <2>2
    <3>2. u - local.minimum \in 0 .. global.count - 1
      BY <2>1, <3>1
    <3>3. LocalUsage(u - local.minimum) = local.minimum + (u - local.minimum)
      BY <1>1, <1>2, <2>1, <3>1, <3>2 DEF LocalUsage, InRange, HasRange
    <3>4. QED
      BY <2>1, <3>1, <3>2, <3>3
  <2>5. QED
    BY <2>3, <2>4
<1>3. CASE ~HasRange
  <2>1. n <= global.count
    BY <1>1, <1>3 DEF Exact
  <2>2. Named = {local.usages[k] : k \in 1 .. n}
    BY <1>1, <1>3 DEF Named, ToSet
  <2>3. \A i \in Nat : LocalUsage(i) = IF i < n THEN local.usages[i + 1]
                                       ELSE IF n > 0 THEN local.usages[n] ELSE NoUsage
    BY <1>1, <1>3 DEF LocalUsage, HasRange
  <2>4. ASSUME NEW i \in 0 .. global.count - 1 PROVE LocalUsage(i) \in Named \cup {NoUsage}
    BY <1>1, <2>2, <2>3
  <2>5. ASSUME NEW u \in Named PROVE \E i \in 0 .. global.count - 1 : LocalUsage(i) = u
    <3>1. PICK k \in 1 .. n : u = local.usages[k]
      BY <2>2
    <3>2. k - 1 \in Nat /\ k - 1 < n /\ (k - 1) + 1 = k /\ k - 1 \in 0 .. global.count - 1
      BY <1>1, <2>1
    <3>3. LocalUsage(k - 1) = local.usages[k]
      BY <2>3, <3>2
    <3>4. QED
      BY <3>1, <3>2, <3>3
  <2>6. QED
    BY <2>4, <2>5
<1>4. QED
  BY <1>2, <1>3

--------------------------------------------------------------------------------
(* An Input item that fits.                                                  *)

Fits == Parsing /\ Layout /\ ~InputTooBig

(* What InputTooBig does not refuse is in range.                             *)
LEMMA ItemTypes ==
  ASSUME Fits
  PROVE  /\ global.count \in Nat \ {0} /\ global.size \in 1 .. WordBits
         /\ global.size \in Nat \ {0} /\ global.id \in scenario.ids \cup {0}
         /\ global.minimum \in Int /\ MaxBits \in Nat
<1>1. global \in Globals /\ scenario.counts \subseteq Nat /\ MaxBits \in Nat
  BY ScenarioTypes DEF Fits, Parsing
<1>2. global.count # 0 /\ global.size \in 1 .. WordBits
  BY DEF Fits, InputTooBig
<1>3. QED
  BY <1>1, <1>2, WidthAssumption DEF Globals

(* The report an Input item is added to, and the items it has so far.        *)
LEMMA ReportSoFar ==
  ASSUME Fits
  PROVE  /\ CurrentReport \in Reports /\ CurrentReport.bits = NextStart /\ NextStart \in Nat
         /\ CurrentInputs \in Seq(InputItems)
         /\ \A k \in 1 .. Len(CurrentInputs) : EndOf(CurrentInputs[k]) <= NextStart
<1>1. MaxBits \in Nat
  BY ItemTypes
<1>2. Layout /\ Rooms /\ Tables /\ DOMAIN inputs = DOMAIN reports
  BY DEF Fits, Layout, Rooms
<1>3. CASE global.id \in DOMAIN reports
  <2>1. CurrentReport = reports[global.id] /\ CurrentInputs = inputs[global.id]
    BY <1>2, <1>3 DEF CurrentReport, CurrentInputs
  <2>2. /\ inputs[global.id] \in Seq(InputItems) /\ inputs[global.id] # << >>
        /\ reports[global.id].bits = EndOf(Last(inputs[global.id]))
        /\ reports[global.id] \in Reports
    BY <1>2, <1>3 DEF Rooms, Tables
  <2>3. NextStart = reports[global.id].bits /\ NextStart \in Nat
    BY <1>1, <2>1, <2>2 DEF NextStart, Reports
  <2>4. \A k \in 1 .. Len(inputs[global.id]) :
           EndOf(inputs[global.id][k]) <= reports[global.id].bits
    BY <1>2, <1>3, RoomInReport
  <2>5. QED
    BY <2>1, <2>2, <2>3, <2>4
<1>4. CASE global.id \notin DOMAIN reports
  <2>1. CurrentReport = NoReport /\ CurrentInputs = << >>
    BY <1>2, <1>4 DEF CurrentReport, CurrentInputs
  <2>2. NoReport \in Reports /\ NoReport.bits = 0
    BY <1>1 DEF NoReport, Reports
  <2>3. NextStart = 0 /\ << >> \in Seq(InputItems) /\ Len(<< >>) = 0
    BY <2>1 DEF NextStart
  <2>4. QED
    BY <2>1, <2>2, <2>3
<1>5. QED
  BY <1>3, <1>4

(* A cell's field, and where it lies.                                        *)
LEMMA NewField ==
  ASSUME Fits, NEW flags, NEW f \in NewFields(flags)
  PROVE  /\ Carries(flags)
         /\ \E i \in 0 .. global.count - 1 :
                /\ f = Field(i, flags) /\ f.bit = NextStart + i * global.size
                /\ Meaning(LocalUsage(i), flags) = <<f.usage, f.button>>
         /\ f.report = global.id /\ f.size = global.size /\ f.bit \in Nat
         /\ f.is_signed \in BOOLEAN
         /\ f.usage \in Axes \cup {"button"} /\ f.button \in Buttons
<1>1. Carries(flags) /\ f.usage # "none"
  BY DEF NewFields
<1>2. PICK i \in 0 .. global.count - 1 : f = Field(i, flags)
  BY DEF NewFields
<1>3. /\ f.report = global.id /\ f.size = global.size
      /\ f.bit = NextStart + i * global.size
      /\ f.is_signed = (global.minimum < 0)
      /\ f.usage = Meaning(LocalUsage(i), flags)[1]
      /\ f.button = Meaning(LocalUsage(i), flags)[2]
  BY <1>2, ReportSoFar DEF Field, FieldBit
<1>4. i \in Nat /\ LocalUsage(i) \in Nat \cup {NoUsage}
  BY LocalUsageType, ItemTypes DEF Fits
<1>5. LocalUsage(i) \in Int
  BY <1>4 DEF NoUsage
<1>6. Meaning(LocalUsage(i), flags) \in Labels \cup {<<"none", 0>>}
  BY <1>5, Meanings DEF Fits
<1>7. Meaning(LocalUsage(i), flags) \in Labels
  BY <1>1, <1>3, <1>6
<1>8. /\ Meaning(LocalUsage(i), flags) = <<f.usage, f.button>>
      /\ f.usage \in Axes \cup {"button"} /\ f.button \in Buttons
  BY <1>3, <1>7 DEF Labels
<1>9. f.bit \in Nat
  BY <1>3, <1>4, ItemTypes, ReportSoFar
<1>10. \E j \in 0 .. global.count - 1 :
          /\ f = Field(j, flags) /\ f.bit = NextStart + j * global.size
          /\ Meaning(LocalUsage(j), flags) = <<f.usage, f.button>>
  BY <1>2, <1>3, <1>8, Zenon
<1>11. f.is_signed \in BOOLEAN
  BY <1>3
<1>12. QED
  BY <1>1, <1>3, <1>8, <1>9, <1>10, <1>11, Zenon

(* The usages named are numbers.                                             *)
LEMMA NamedInts ==
  ASSUME Parsing
  PROVE  Named \subseteq Int
<1>1. named.usages \in Seq(Nat) /\ named.minimum \in Nat \cup {NoUsage}
  BY DEF Parsing, Locals
<1>2. ToSet(named.usages) \subseteq Int
  BY <1>1 DEF ToSet
<1>3. QED
  BY <1>1, <1>2 DEF Named, NoUsage

(* What is recorded of the item, and the room its report has then.           *)
LEMMA ItemTaken ==
  ASSUME Fits, NEW flags
  PROVE  /\ Taken(flags) \in InputItems /\ Taken(flags).start = NextStart
         /\ Taken(flags).size = global.size /\ Taken(flags).count = global.count
         /\ Taken(flags).mouse = InMouse /\ Taken(flags).exact = Exact
         /\ Taken(flags).labels =
               IF Carries(flags) THEN {Meaning(u, flags) : u \in Named} \ {<<"none", 0>>} ELSE {}
         /\ EndOf(Taken(flags)) = NewBits(flags) /\ NewBits(flags) \in 0 .. MaxBits
<1> DEFINE labels == IF Carries(flags)
                     THEN {Meaning(u, flags) : u \in Named} \ {<<"none", 0>>} ELSE {}
<1>1. labels \subseteq Labels
  BY Meanings, NamedInts DEF Fits
<1>2. InMouseByHistory = InMouse /\ InMouseByHistory \in BOOLEAN /\ Exact \in BOOLEAN
  <2>1. InMouseByHistory = InMouse
    BY MouseNow DEF Fits
  <2>2. InMouseByHistory \in BOOLEAN
    BY DEF InMouseByHistory
  <2>3. Exact \in BOOLEAN
    <3>1. CASE HasRange
      BY <3>1 DEF Exact
    <3>2. CASE ~HasRange
      BY <3>2 DEF Exact
    <3>3. QED
      BY <3>1, <3>2
  <2>4. QED
    BY <2>1, <2>2, <2>3, Zenon
<1>3. NextStart \in Nat /\ global.size \in Nat \ {0} /\ global.count \in Nat \ {0}
  BY ItemTypes, ReportSoFar
<1>4. Taken(flags) = [start |-> NextStart, size |-> global.size, count |-> global.count,
                      mouse |-> InMouseByHistory, exact |-> Exact, labels |-> labels]
  BY DEF Taken
<1> HIDE DEF labels
<1>5. Taken(flags) \in InputItems
  BY <1>1, <1>2, <1>3, <1>4 DEF InputItems
<1>6. EndOf(Taken(flags)) = NewBits(flags)
  BY <1>4, ReportSoFar DEF EndOf, NewBits
<1>7. NewBits(flags) \in 0 .. MaxBits
  <2>1. global.size * global.count <= MaxBits - CurrentReport.bits
    <3>1. ~(global.size * global.count > MaxBits - CurrentReport.bits)
      BY DEF Fits, InputTooBig
    <3>2. global.size * global.count \in Nat
      BY <1>3
    <3>3. QED
      BY <3>1, <3>2, ItemTypes, ReportSoFar
  <2>2. global.size * global.count \in Nat
    BY <1>3
  <2>3. QED
    BY <2>1, <2>2, ItemTypes, ReportSoFar DEF NewBits
<1>8. QED
  BY <1>2, <1>4, <1>5, <1>6, <1>7 DEF labels

(* With a cell for each usage, the new fields are what the usages stand for. *)
LEMMA LabelsFound ==
  ASSUME Fits, NEW flags, Exact
  PROVE  {<<f.usage, f.button>> : f \in NewFields(flags)} = Taken(flags).labels
<1> DEFINE found == {<<f.usage, f.button>> : f \in NewFields(flags)}
           cells == 0 .. global.count - 1
           labels == {Meaning(u, flags) : u \in Named} \ {<<"none", 0>>}
<1>1. CASE ~Carries(flags)
  BY <1>1, ItemTaken DEF NewFields
<1>2. CASE Carries(flags)
  <2>1. Taken(flags).labels = labels
    BY <1>2, ItemTaken
  <2>2. /\ \A i \in cells : LocalUsage(i) \in Named \cup {NoUsage}
        /\ \A u \in Named : \E i \in cells : LocalUsage(i) = u
    BY CellsAreNamed, ItemTypes DEF Fits
  <2>3. ASSUME NEW f \in NewFields(flags) PROVE <<f.usage, f.button>> \in labels
    <3>1. PICK i \in cells : Meaning(LocalUsage(i), flags) = <<f.usage, f.button>>
      BY NewField
    <3>2. f.usage # "none"
      BY DEF NewFields
    <3>3. <<f.usage, f.button>> # <<"none", 0>>
      BY <3>2
    <3>4. LocalUsage(i) # NoUsage
      BY <3>1, <3>3, NoMeaning
    <3>5. LocalUsage(i) \in Named
      BY <2>2, <3>4
    <3>6. QED
      BY <3>1, <3>3, <3>5
  <2>4. ASSUME NEW u \in Named, Meaning(u, flags) # <<"none", 0>>
        PROVE  Meaning(u, flags) \in found
    <3>1. PICK i \in cells : LocalUsage(i) = u
      BY <2>2
    <3>2. Meaning(u, flags) \in Labels
      BY <2>4, Meanings, NamedInts DEF Fits
    <3>3. /\ Field(i, flags).usage = Meaning(u, flags)[1]
          /\ Field(i, flags).button = Meaning(u, flags)[2]
      BY <3>1 DEF Field
    <3>4. <<Field(i, flags).usage, Field(i, flags).button>> = Meaning(u, flags)
      BY <3>2, <3>3 DEF Labels
    <3>5. Field(i, flags).usage # "none"
      BY <3>2, <3>3 DEF Labels, Axes
    <3>6. Field(i, flags) \in NewFields(flags)
      BY <1>2, <3>5 DEF NewFields
    <3>7. QED
      BY <3>4, <3>6
  <2>5. labels \subseteq found
    BY <2>4
  <2>6. found \subseteq labels
    BY <2>3
  <2>7. QED
    BY <2>1, <2>5, <2>6
<1>3. QED
  BY <1>1, <1>2

(* One field a cell at most.                                                 *)
LEMMA NewFieldsFinite ==
  ASSUME Fits, NEW flags
  PROVE  IsFiniteSet(NewFields(flags)) /\ Cardinality(NewFields(flags)) \in Nat
<1> DEFINE cells == 0 .. global.count - 1
           all == {Field(i, flags) : i \in cells}
           make == [i \in cells |-> Field(i, flags)]
<1>1. IsFiniteSet(cells)
  <2>1. 0 \in Int /\ global.count - 1 \in Int
    BY ItemTypes
  <2>2. QED
    BY <2>1, FS_Interval
<1>2. IsFiniteSet(all)
  <2>1. make \in [cells -> all] /\ \A f \in all : \E i \in cells : make[i] = f
    OBVIOUS
  <2>2. make \in Surjection(cells, all)
    BY <2>1 DEF Surjection
  <2>3. QED
    BY <1>1, <2>2, FS_Surjection
<1>3. NewFields(flags) \subseteq all
  BY DEF NewFields
<1>4. IsFiniteSet(NewFields(flags))
  BY <1>2, <1>3, FS_Subset
<1>5. QED
  BY <1>4, FS_CardinalityType

(* Two cells of an item do not overlap.                                      *)
LEMMA NewFieldsApart ==
  ASSUME Fits, NEW flags, NEW f \in NewFields(flags), NEW g \in NewFields(flags), f # g
  PROVE  f.bit + f.size <= g.bit \/ g.bit + g.size <= f.bit
<1> DEFINE size == global.size
<1>1. PICK i \in 0 .. global.count - 1 : f = Field(i, flags) /\ f.bit = NextStart + i * size
  BY NewField
<1>2. PICK j \in 0 .. global.count - 1 : g = Field(j, flags) /\ g.bit = NextStart + j * size
  BY NewField
<1>3. i \in Nat /\ j \in Nat /\ i # j
  BY <1>1, <1>2, ItemTypes
<1>4. f.size = size /\ g.size = size /\ size \in Nat \ {0} /\ NextStart \in Nat
  BY NewField, ItemTypes, ReportSoFar
<1>5. CASE i < j
  <2>1. i * size + size <= j * size /\ i * size \in Nat
    BY <1>3, <1>4, <1>5, Times
  <2>2. j * size \in Nat
    BY <1>3, <1>4
  <2>3. QED
    BY <1>1, <1>2, <1>4, <2>1, <2>2
<1>6. CASE j < i
  <2>1. j * size + size <= i * size /\ j * size \in Nat
    BY <1>3, <1>4, <1>6, Times
  <2>2. i * size \in Nat
    BY <1>3, <1>4
  <2>3. QED
    BY <1>1, <1>2, <1>4, <2>1, <2>2
<1>7. QED
  BY <1>3, <1>5, <1>6

(* The new fields are cells of the new item, in a room of their own.         *)
LEMMA NewCells ==
  ASSUME Fits, NEW flags, NEW f \in NewFields(flags)
  PROVE  /\ CellOf(f, Taken(flags)) /\ NextStart <= f.bit
         /\ f.bit < EndOf(Taken(flags)) /\ f.bit + f.size <= EndOf(Taken(flags))
         /\ f \in FieldRecords({global.id})
<1>1. PICK i \in 0 .. global.count - 1 : f = Field(i, flags) /\ f.bit = NextStart + i * global.size
  BY NewField
<1>2. /\ f.report = global.id /\ f.size = global.size /\ f.bit \in Nat
      /\ f.is_signed \in BOOLEAN
      /\ f.usage \in Axes \cup {"button"} /\ f.button \in Buttons
  BY NewField
<1>3. CellOf(f, Taken(flags))
  BY <1>1, <1>2, ItemTaken DEF CellOf
<1>4. /\ NextStart <= f.bit /\ f.bit + f.size <= EndOf(Taken(flags))
      /\ f.bit < EndOf(Taken(flags))
  <2>1. Taken(flags) \in InputItems /\ Taken(flags).start = NextStart
    BY ItemTaken
  <2>2. f.size \in Nat \ {0}
    BY <1>2, ItemTypes
  <2>3. QED
    BY <1>3, <2>1, <2>2, CellInRoom
<1>5. f.bit \in 0 .. MaxBits
  <2>1. EndOf(Taken(flags)) \in 0 .. MaxBits /\ MaxBits \in Nat
    BY ItemTaken, ItemTypes
  <2>2. QED
    BY <1>2, <1>4, <2>1
<1>6. f = [report |-> f.report, bit |-> f.bit, size |-> f.size, is_signed |-> f.is_signed,
           usage |-> f.usage, button |-> f.button]
  BY <1>1 DEF Field
<1>7. QED
  BY <1>2, <1>3, <1>4, <1>5, <1>6, ItemTypes DEF FieldRecords

--------------------------------------------------------------------------------
(* A step that takes an Input item into the layout.                          *)

Takes(flags) ==
    LET new == NewFields(flags) IN
    /\ Cardinality(fields) + Cardinality(new) <= MaxFields
    /\ reports' = [r \in DOMAIN reports \cup {global.id} |->
                      IF r # global.id THEN reports[r]
                      ELSE [bits |-> NewBits(flags),
                            buttons |-> CurrentReport.buttons \cup ButtonsOf(new),
                            useful |-> IsUseful(new)]]
    /\ fields' = fields \cup new
    /\ summary' = [buttons |-> summary.buttons \cup ButtonsOf(new),
                   axes |-> summary.axes \cup AxesOf(new)]
    /\ inputs' = [r \in DOMAIN reports' |->
                     IF r # global.id THEN inputs[r] ELSE Append(CurrentInputs, Taken(flags))]
    /\ scenario' = scenario

(* What it leaves of the other reports and of the earlier items.             *)
LEMMA TakesInputs ==
  ASSUME Fits, NEW flags, Takes(flags)
  PROVE  /\ DOMAIN reports' = DOMAIN reports \cup {global.id} /\ DOMAIN inputs' = DOMAIN reports'
         /\ \A r \in DOMAIN reports : r # global.id =>
                r \in DOMAIN inputs /\ reports'[r] = reports[r] /\ inputs'[r] = inputs[r]
         /\ reports'[global.id].bits = NewBits(flags)
         /\ inputs'[global.id] \in Seq(InputItems) /\ inputs'[global.id] # << >>
         /\ Len(inputs'[global.id]) = Len(CurrentInputs) + 1 /\ Len(CurrentInputs) \in Nat
         /\ \A k \in 1 .. Len(CurrentInputs) : inputs'[global.id][k] = CurrentInputs[k]
         /\ inputs'[global.id][Len(CurrentInputs) + 1] = Taken(flags)
         /\ Last(inputs'[global.id]) = Taken(flags)
<1>1. DOMAIN reports' = DOMAIN reports \cup {global.id} /\ DOMAIN inputs = DOMAIN reports
  BY DEF Takes, Fits, Layout, Rooms
<1>2. DOMAIN inputs' = DOMAIN reports'
  BY DEF Takes
<1>3. \A r \in DOMAIN reports : r # global.id => reports'[r] = reports[r] /\ inputs'[r] = inputs[r]
  BY <1>1 DEF Takes
<1>4. reports'[global.id].bits = NewBits(flags)
  BY <1>1 DEF Takes
<1>5. inputs'[global.id] = Append(CurrentInputs, Taken(flags))
  BY <1>1 DEF Takes
<1>6. CurrentInputs \in Seq(InputItems) /\ Taken(flags) \in InputItems
  BY ReportSoFar, ItemTaken
<1>7. Len(CurrentInputs) \in Nat
  BY <1>6
<1>8. QED
  BY <1>1, <1>2, <1>3, <1>4, <1>5, <1>6, <1>7, Appended

(* An earlier item keeps its place, its room and its cells.                  *)
LEMMA OldItems ==
  ASSUME Fits, NEW flags, Takes(flags), NEW r \in DOMAIN reports, NEW k \in 1 .. Len(inputs[r])
  PROVE  /\ k \in 1 .. Len(inputs'[r]) /\ inputs'[r][k] = inputs[r][k]
         /\ FieldsFrom(r, k)' = FieldsFrom(r, k)
<1>1. r \in DOMAIN inputs /\ Rooms
  BY DEF Fits, Layout, Rooms
<1>2. inputs[r] \in Seq(InputItems) /\ Len(inputs[r]) \in Nat
  BY <1>1 DEF Rooms
<1>3. k \in 1 .. Len(inputs'[r]) /\ inputs'[r][k] = inputs[r][k]
  <2>1. CASE r = global.id
    <3>1. CurrentInputs = inputs[r]
      BY <1>1, <2>1 DEF CurrentInputs
    <3>2. QED
      BY <1>2, <2>1, <3>1, TakesInputs
  <2>2. CASE r # global.id
    BY <2>2, TakesInputs
  <2>3. QED
    BY <2>1, <2>2
<1>4. ASSUME NEW f \in NewFields(flags), f.report = r PROVE ~(f.bit < EndOf(inputs[r][k]))
  <2>1. r = global.id /\ CurrentInputs = inputs[r]
    BY <1>1, <1>4, NewField DEF CurrentInputs
  <2>2. EndOf(inputs[r][k]) <= NextStart /\ NextStart \in Nat
    BY <2>1, ReportSoFar
  <2>3. EndOf(inputs[r][k]) \in Nat
    BY <1>2, EndOfItem
  <2>4. f.bit \in Nat /\ NextStart <= f.bit
    BY NewField, NewCells
  <2>5. QED
    BY <2>2, <2>3, <2>4
<1>5. fields' = fields \cup NewFields(flags)
  BY DEF Takes
<1>6. FieldsFrom(r, k)' =
        {f \in fields' : f.report = r /\ inputs[r][k].start <= f.bit /\ f.bit < EndOf(inputs[r][k])}
  BY <1>3 DEF FieldsFrom, EndOf
<1>7. QED
  BY <1>3, <1>4, <1>5, <1>6 DEF FieldsFrom

(* The fields of the new item are the new ones.                              *)
LEMMA NewItem ==
  ASSUME Fits, NEW flags, Takes(flags), NEW r, r = global.id, NEW k, k = Len(CurrentInputs) + 1
  PROVE  FieldsFrom(r, k)' = NewFields(flags)
<1> DEFINE room ==
             {f \in fields' : f.report = r /\ NextStart <= f.bit /\ f.bit < EndOf(Taken(flags))}
<1>1. inputs'[r][k] = Taken(flags) /\ Taken(flags).start = NextStart
  BY TakesInputs, ItemTaken
<1>2. ASSUME NEW f \in fields, f.report = global.id PROVE ~(NextStart <= f.bit)
  <2>1. Tables /\ Rooms /\ Placed /\ DOMAIN inputs = DOMAIN reports
    BY DEF Fits, Layout, Rooms
  <2>2. f.bit + f.size <= reports[global.id].bits /\ global.id \in DOMAIN reports
    BY <1>2, <2>1, Sound, FieldTypes
  <2>3. reports[global.id].bits = NextStart /\ NextStart \in Nat
    BY <2>2, ReportSoFar DEF CurrentReport
  <2>4. f.bit \in Nat /\ f.size \in Nat \ {0}
    BY <2>1, FieldTypes
  <2>5. QED
    BY <2>2, <2>3, <2>4
<1>3. \A f \in NewFields(flags) :
         f.report = global.id /\ NextStart <= f.bit /\ f.bit < EndOf(Taken(flags))
  BY NewField, NewCells
<1>4. fields' = fields \cup NewFields(flags)
  BY DEF Takes
<1>5. room = NewFields(flags)
  BY <1>2, <1>3, <1>4
<1>6. FieldsFrom(r, k)' = room
  BY <1>1 DEF FieldsFrom, EndOf
<1>7. QED
  BY <1>5, <1>6

(* The tables stay within their limits.                                      *)
LEMMA TakesTables ==
  ASSUME Fits, NEW flags, Takes(flags)
  PROVE  Tables'
<1> DEFINE new == NewFields(flags)
<1>1. Tables /\ SummaryAgrees
  BY DEF Fits, Layout
<1>2. DOMAIN reports' = DOMAIN reports \cup {global.id} /\ scenario' = scenario
  BY TakesInputs DEF Takes
<1>3. MaxReports' = MaxReports /\ MaxFields' = MaxFields /\ MaxBits' = MaxBits
  BY <1>2 DEF MaxReports, MaxFields, MaxBits, MaxReportBytes
<1>4. DOMAIN reports' \subseteq scenario'.ids \cup {0}
  BY <1>1, <1>2, ItemTypes DEF Tables
<1>5. IsFiniteSet(DOMAIN reports') /\ Cardinality(DOMAIN reports') <= MaxReports
  <2>1. IsFiniteSet(DOMAIN reports) /\ Cardinality(DOMAIN reports) <= MaxReports
    BY <1>1 DEF Tables
  <2>2. Cardinality(DOMAIN reports) \in Nat /\ MaxReports \in Nat
    BY <2>1, FS_CardinalityType, ScenarioTypes DEF Fits, Parsing
  <2>3. global.id \notin DOMAIN reports => Cardinality(DOMAIN reports) # MaxReports
    BY DEF Fits, InputTooBig
  <2>4. /\ IsFiniteSet(DOMAIN reports \cup {global.id})
        /\ Cardinality(DOMAIN reports \cup {global.id}) =
              IF global.id \in DOMAIN reports THEN Cardinality(DOMAIN reports)
              ELSE Cardinality(DOMAIN reports) + 1
    BY <2>1, FS_AddElement
  <2>5. QED
    BY <1>2, <2>1, <2>2, <2>3, <2>4
<1>6. ASSUME NEW r \in DOMAIN reports' PROVE reports'[r] \in Reports
  <2>1. CASE r # global.id
    BY <1>1, <1>2, <2>1, TakesInputs DEF Tables
  <2>2. CASE r = global.id
    <3>1. reports'[r] = [bits |-> NewBits(flags),
                         buttons |-> CurrentReport.buttons \cup ButtonsOf(new),
                         useful |-> IsUseful(new)]
      BY <1>2, <2>2 DEF Takes
    <3>2. CurrentReport.buttons \subseteq Buttons /\ CurrentReport.useful \in BOOLEAN
      BY ReportSoFar DEF Reports
    <3>3. ButtonsOf(new) \subseteq Buttons
      BY NewField DEF ButtonsOf
    <3>4. IsUseful(new) \in BOOLEAN
      BY <3>2 DEF IsUseful
    <3>5. NewBits(flags) \in 0 .. MaxBits
      BY ItemTaken
    <3>6. QED
      BY <3>1, <3>2, <3>3, <3>4, <3>5 DEF Reports
  <2>3. QED
    BY <2>1, <2>2
<1>7. fields' \subseteq FieldRecords(DOMAIN reports')
  <2>1. fields' = fields \cup new
    BY DEF Takes
  <2>2. fields \subseteq FieldRecords(DOMAIN reports) /\ new \subseteq FieldRecords({global.id})
    BY <1>1, NewCells DEF Tables
  <2>3. FieldRecords(DOMAIN reports) \subseteq FieldRecords(DOMAIN reports')
    BY <1>2 DEF FieldRecords
  <2>4. FieldRecords({global.id}) \subseteq FieldRecords(DOMAIN reports')
    BY <1>2 DEF FieldRecords
  <2>5. QED
    BY <2>1, <2>2, <2>3, <2>4
<1>8. IsFiniteSet(fields') /\ Cardinality(fields') <= MaxFields
  <2>1. IsFiniteSet(fields) /\ Cardinality(fields) \in Nat
    BY <1>1, FS_CardinalityType DEF Tables
  <2>2. IsFiniteSet(new) /\ Cardinality(new) \in Nat
    BY NewFieldsFinite
  <2>3. /\ IsFiniteSet(fields \cup new)
        /\ Cardinality(fields \cup new) =
              Cardinality(fields) + Cardinality(new) - Cardinality(fields \cap new)
    BY <2>1, <2>2, FS_Union
  <2>4. Cardinality(fields \cap new) \in Nat
    <3>1. IsFiniteSet(fields \cap new)
      BY <2>1, FS_Subset
    <3>2. QED
      BY <3>1, FS_CardinalityType
  <2>5. fields' = fields \cup new /\ Cardinality(fields) + Cardinality(new) <= MaxFields
    BY DEF Takes
  <2>6. MaxFields \in Nat
    BY ScenarioTypes DEF Fits, Parsing
  <2>7. Cardinality(fields \cup new) <= MaxFields
    BY <2>1, <2>2, <2>3, <2>4, <2>5, <2>6
  <2>8. QED
    BY <2>3, <2>5, <2>7, Zenon
<1>9. summary' \in [buttons : SUBSET Buttons, axes : SUBSET Axes]
  <2>1. summary' = [buttons |-> summary.buttons \cup ButtonsOf(new),
                    axes |-> summary.axes \cup AxesOf(new)]
    BY DEF Takes
  <2>2. summary.buttons \subseteq Buttons /\ summary.axes \subseteq Axes
    BY <1>1 DEF Tables
  <2>3. ButtonsOf(new) \subseteq Buttons /\ AxesOf(new) \subseteq Axes
    BY NewField DEF ButtonsOf, AxesOf
  <2>4. QED
    BY <2>1, <2>2, <2>3
<1>10. Reports' = Reports /\ FieldRecords(DOMAIN reports)' = FieldRecords(DOMAIN reports')
  BY <1>3 DEF Reports, FieldRecords
<1>11. QED
  BY <1>3, <1>4, <1>5, <1>6, <1>7, <1>8, <1>9, <1>10 DEF Tables

(* The new item's room comes after all others of its report.                 *)
LEMMA TakesRooms ==
  ASSUME Fits, NEW flags, Takes(flags)
  PROVE  Rooms'
<1>1. Rooms /\ DOMAIN inputs = DOMAIN reports
  BY DEF Fits, Layout, Rooms
<1>2. DOMAIN inputs' = DOMAIN reports' /\ DOMAIN reports' = DOMAIN reports \cup {global.id}
  BY TakesInputs
<1>3. ASSUME NEW r \in DOMAIN inputs'
      PROVE  /\ inputs'[r] \in Seq(InputItems) /\ inputs'[r] # << >>
             /\ reports'[r].bits = EndOf(Last(inputs'[r]))
             /\ \A k \in 1 .. Len(inputs'[r]) : \A j \in 1 .. k - 1 :
                    EndOf(inputs'[r][j]) <= inputs'[r][k].start
  <2>1. CASE r # global.id
    <3>1. r \in DOMAIN reports /\ reports'[r] = reports[r] /\ inputs'[r] = inputs[r]
      BY <1>2, <1>3, <2>1, TakesInputs
    <3>2. QED
      BY <1>1, <3>1 DEF Rooms
  <2>2. CASE r = global.id
    <3> DEFINE n == Len(CurrentInputs)
    <3>1. /\ inputs'[r] \in Seq(InputItems) /\ inputs'[r] # << >> /\ n \in Nat
          /\ Len(inputs'[r]) = n + 1 /\ Last(inputs'[r]) = Taken(flags)
          /\ inputs'[r][n + 1] = Taken(flags)
          /\ \A k \in 1 .. n : inputs'[r][k] = CurrentInputs[k]
      BY <2>2, TakesInputs
    <3>2. reports'[r].bits = EndOf(Last(inputs'[r]))
      BY <2>2, <3>1, TakesInputs, ItemTaken
    <3>3. ASSUME NEW k \in 1 .. n + 1, NEW j \in 1 .. k - 1
          PROVE  EndOf(inputs'[r][j]) <= inputs'[r][k].start
      <4>1. j \in 1 .. n /\ inputs'[r][j] = CurrentInputs[j]
        BY <3>1
      <4>2. CASE k = n + 1
        BY <3>1, <4>1, <4>2, ReportSoFar, ItemTaken
      <4>3. CASE k # n + 1
        <5>1. k \in 1 .. n /\ inputs'[r][k] = CurrentInputs[k]
          BY <3>1, <4>3
        <5>2. CurrentInputs # << >>
          BY <3>1, <5>1
        <5>3. r \in DOMAIN inputs /\ CurrentInputs = inputs[r]
          BY <2>2, <5>2 DEF CurrentInputs
        <5>4. QED
          BY <1>1, <4>1, <5>1, <5>3 DEF Rooms
      <4>4. QED
        BY <4>2, <4>3
    <3>4. QED
      BY <3>1, <3>2, <3>3
  <2>3. QED
    BY <2>1, <2>2
<1>4. QED
  BY <1>2, <1>3 DEF Rooms, EndOf, InputItems, Labels

(* Where a field of the new layout is found: an old one at its old item, a   *)
(* new one at the new item.                                                  *)
LEMMA WhereOld ==
  ASSUME Fits, NEW flags, Takes(flags), NEW f \in fields, NEW k \in 1 .. Len(inputs[f.report])
  PROVE  /\ k \in 1 .. Len(inputs'[f.report]) /\ inputs'[f.report][k] = inputs[f.report][k]
         /\ FieldsFrom(f.report, k)' = FieldsFrom(f.report, k)
<1>1. f.report \in DOMAIN reports
  BY FieldTypes DEF Fits, Layout
<1>2. \A r \in DOMAIN reports : \A m \in 1 .. Len(inputs[r]) :
         /\ m \in 1 .. Len(inputs'[r]) /\ inputs'[r][m] = inputs[r][m]
         /\ FieldsFrom(r, m)' = FieldsFrom(r, m)
  BY OldItems
<1>3. QED
  BY <1>1, <1>2

(* A new field is found at the new item.                                     *)
LEMMA WhereNew ==
  ASSUME Fits, NEW flags, Takes(flags), NEW f \in NewFields(flags)
  PROVE  \E k \in 1 .. Len(inputs'[f.report]) :
            inputs'[f.report][k] = Taken(flags) /\ f \in FieldsFrom(f.report, k)'
<1>1. f.report = global.id
  BY NewField
<1>2. PICK r : r = global.id
  OBVIOUS
<1>3. PICK k : k = Len(CurrentInputs) + 1
  OBVIOUS
<1>4. k \in 1 .. Len(inputs'[r]) /\ inputs'[r][k] = Taken(flags)
  BY <1>2, <1>3, TakesInputs
<1>5. FieldsFrom(r, k)' = NewFields(flags)
  BY <1>2, <1>3, NewItem
<1>6. f.report = r
  BY <1>1, <1>2
<1>7. QED
  BY <1>4, <1>5, <1>6

(* Every field stays a cell of an item.                                      *)
LEMMA TakesPlaced ==
  ASSUME Fits, NEW flags, Takes(flags)
  PROVE  Placed'
<1>1. ASSUME NEW f \in fields
      PROVE  \E k \in 1 .. Len(inputs'[f.report]) : CellOf(f, inputs'[f.report][k])
  <2>1. PICK k \in 1 .. Len(inputs[f.report]) : CellOf(f, inputs[f.report][k])
    BY DEF Fits, Layout, Placed
  <2>2. k \in 1 .. Len(inputs'[f.report]) /\ inputs'[f.report][k] = inputs[f.report][k]
    BY WhereOld
  <2>3. QED
    BY <2>1, <2>2
<1>2. ASSUME NEW f \in NewFields(flags)
      PROVE  \E k \in 1 .. Len(inputs'[f.report]) : CellOf(f, inputs'[f.report][k])
  <2>1. PICK k \in 1 .. Len(inputs'[f.report]) : inputs'[f.report][k] = Taken(flags)
    BY WhereNew
  <2>2. QED
    BY <2>1, NewCells
<1>3. fields' = fields \cup NewFields(flags)
  BY DEF Takes
<1>4. QED
  BY <1>1, <1>2, <1>3 DEF Placed

(* A new field overlaps neither an old one nor another new one.              *)
LEMMA TakesApart ==
  ASSUME Fits, NEW flags, Takes(flags)
  PROVE  Apart'
<1>1. ASSUME NEW f \in fields, NEW g \in NewFields(flags), f.report = g.report
      PROVE  f.bit + f.size <= g.bit
  <2>1. Tables /\ Rooms /\ Placed /\ f.report = global.id
    BY <1>1, NewField DEF Fits, Layout
  <2>2. f.bit + f.size <= reports[global.id].bits /\ global.id \in DOMAIN reports
    BY <2>1, Sound, FieldTypes
  <2>3. reports[global.id].bits = NextStart /\ NextStart \in Nat
    BY <2>2, ReportSoFar DEF CurrentReport
  <2>4. f.bit \in Nat /\ f.size \in Nat /\ g.bit \in Nat /\ NextStart <= g.bit
    BY <2>1, FieldTypes, NewField, NewCells
  <2>5. QED
    BY <2>2, <2>3, <2>4
<1>2. fields' = fields \cup NewFields(flags) /\ Apart
  BY DEF Takes, Fits, Layout
<1>3. \A f, g \in NewFields(flags) :
         f # g => f.bit + f.size <= g.bit \/ g.bit + g.size <= f.bit
  BY NewFieldsApart
<1>4. ASSUME NEW f \in fields', NEW g \in fields', f.report = g.report, f # g
      PROVE  f.bit + f.size <= g.bit \/ g.bit + g.size <= f.bit
  <2>1. CASE f \in fields /\ g \in fields
    BY <1>2, <1>4, <2>1 DEF Apart
  <2>2. CASE f \in NewFields(flags) /\ g \in NewFields(flags)
    BY <1>3, <1>4, <2>2
  <2>3. CASE f \in fields /\ g \in NewFields(flags)
    BY <1>1, <1>4, <2>3
  <2>4. CASE g \in fields /\ f \in NewFields(flags)
    BY <1>1, <1>4, <2>4
  <2>5. QED
    BY <1>2, <2>1, <2>2, <2>3, <2>4
<1>5. QED
  BY <1>4 DEF Apart

(* The summaries are kept up with the fields.                                *)
LEMMA TakesSummary ==
  ASSUME Fits, NEW flags, Takes(flags)
  PROVE  SummaryAgrees'
<1> DEFINE new == NewFields(flags)
<1>1. SummaryAgrees /\ Tables
  BY DEF Fits, Layout
<1>2. fields' = fields \cup new /\ DOMAIN reports' = DOMAIN reports \cup {global.id}
  BY TakesInputs DEF Takes
<1>3. \A a, b : ButtonsOf(a \cup b) = ButtonsOf(a) \cup ButtonsOf(b)
  BY DEF ButtonsOf
<1>4. \A a, b : AxesOf(a \cup b) = AxesOf(a) \cup AxesOf(b)
  BY DEF AxesOf
<1>5. summary'.buttons = ButtonsOf(fields') /\ summary'.axes = AxesOf(fields')
  BY <1>1, <1>2, <1>3, <1>4 DEF Takes, SummaryAgrees
<1>6. ASSUME NEW r \in DOMAIN reports'
      PROVE  LET own == {f \in fields' : f.report = r} IN
             reports'[r].useful = (own # {}) /\ reports'[r].buttons = ButtonsOf(own)
  <2> DEFINE own == {f \in fields : f.report = r}
             ownAfter == {f \in fields' : f.report = r}
  <2>1. CASE r # global.id
    <3>1. r \in DOMAIN reports /\ reports'[r] = reports[r]
      BY <1>2, <1>6, <2>1, TakesInputs
    <3>2. ownAfter = own
      BY <1>2, <2>1, NewField
    <3>3. QED
      BY <1>1, <3>1, <3>2 DEF SummaryAgrees
  <2>2. CASE r = global.id
    <3>1. reports'[r].buttons = CurrentReport.buttons \cup ButtonsOf(new)
          /\ reports'[r].useful = IsUseful(new)
      BY <1>2, <2>2 DEF Takes
    <3>2. ownAfter = own \cup new
      BY <1>2, <2>2, NewField
    <3>3. CurrentReport.buttons = ButtonsOf(own) /\ CurrentReport.useful = (own # {})
      <4>1. CASE r \in DOMAIN reports
        BY <1>1, <2>2, <4>1 DEF CurrentReport, SummaryAgrees
      <4>2. CASE r \notin DOMAIN reports
        <5>1. own = {}
          BY <1>1, <4>2, FieldTypes
        <5>2. ButtonsOf({}) = {}
          BY DEF ButtonsOf
        <5>3. QED
          BY <2>2, <4>2, <5>1, <5>2 DEF CurrentReport, NoReport
      <4>3. QED
        BY <4>1, <4>2
    <3>4. ButtonsOf(ownAfter) = ButtonsOf(own) \cup ButtonsOf(new)
      BY <1>3, <3>2, Zenon
    <3>5. reports'[r].buttons = ButtonsOf(ownAfter)
      BY <3>1, <3>3, <3>4, Zenon
    <3>6. reports'[r].useful = (ownAfter # {})
      BY <3>1, <3>2, <3>3 DEF IsUseful
    <3>7. QED
      BY <3>5, <3>6
  <2>3. QED
    BY <2>1, <2>2
<1>7. QED
  BY <1>5, <1>6 DEF SummaryAgrees, ButtonsOf, AxesOf

(* A pointer's new field comes from a mouse's item.                          *)
LEMMA TakesMouse ==
  ASSUME Fits, NEW flags, Takes(flags)
  PROVE  MouseFields'
<1>1. fields' = fields \cup NewFields(flags)
  BY DEF Takes
<1>2. SUFFICES ASSUME NEW f \in fields',
                      f.usage \in {"x", "y", "wheel"} \/ (f.usage = "button" /\ f.button < 3)
               PROVE  \E k \in 1 .. Len(inputs'[f.report]) :
                         inputs'[f.report][k].mouse /\ f \in FieldsFrom(f.report, k)'
  BY DEF MouseFields
<1>3. CASE f \in fields
  <2>1. PICK k \in 1 .. Len(inputs[f.report]) :
            inputs[f.report][k].mouse /\ f \in FieldsFrom(f.report, k)
    BY <1>2, <1>3 DEF Fits, Layout, MouseFields
  <2>2. QED
    BY <1>3, <2>1, WhereOld
<1>4. CASE f \in NewFields(flags)
  <2>1. PICK k \in 1 .. Len(inputs'[f.report]) :
            inputs'[f.report][k] = Taken(flags) /\ f \in FieldsFrom(f.report, k)'
    BY <1>4, WhereNew
  <2>2. PICK i \in 0 .. global.count - 1 : Meaning(LocalUsage(i), flags) = <<f.usage, f.button>>
    BY <1>4, NewField
  <2>3. i \in Nat /\ LocalUsage(i) \in Int
    BY LocalUsageType, ItemTypes DEF Fits, NoUsage
  <2>4. InMouse
    <3>1. /\ Meaning(LocalUsage(i), flags)[1] = f.usage
          /\ Meaning(LocalUsage(i), flags)[2] = f.button
      BY <2>2
    <3>2. QED
      BY <1>2, <2>3, <3>1, Meanings DEF Fits
  <2>5. Taken(flags).mouse
    BY <2>4, ItemTaken
  <2>6. QED
    BY <2>1, <2>5
<1>5. QED
  BY <1>1, <1>2, <1>3, <1>4

(* Old items keep their fields, and the new one has those it names.          *)
LEMMA TakesUsages ==
  ASSUME Fits, NEW flags, Takes(flags)
  PROVE  UsagesFound'
<1>1. UsagesFound /\ DOMAIN inputs = DOMAIN reports
  BY DEF Fits, Layout, Rooms
<1>2. SUFFICES ASSUME NEW r \in DOMAIN inputs', NEW k \in 1 .. Len(inputs'[r]),
                      inputs'[r][k].exact
               PROVE  {<<f.usage, f.button>> : f \in FieldsFrom(r, k)'} = inputs'[r][k].labels
  BY DEF UsagesFound
<1>3. DOMAIN inputs' = DOMAIN reports \cup {global.id}
  BY TakesInputs
<1>4. CASE r \in DOMAIN reports /\ k \in 1 .. Len(inputs[r])
  <2>1. inputs'[r][k] = inputs[r][k] /\ FieldsFrom(r, k)' = FieldsFrom(r, k)
    BY <1>4, OldItems
  <2>2. {<<f.usage, f.button>> : f \in FieldsFrom(r, k)} = inputs[r][k].labels
    BY <1>1, <1>2, <1>4, <2>1 DEF UsagesFound
  <2>3. QED
    BY <2>1, <2>2
<1>5. CASE ~(r \in DOMAIN reports /\ k \in 1 .. Len(inputs[r]))
  <2>1. r = global.id /\ k = Len(CurrentInputs) + 1
    <3>1. CASE r \notin DOMAIN reports
      <4>1. r = global.id /\ CurrentInputs = << >>
        BY <1>1, <1>3, <3>1 DEF CurrentInputs
      <4>2. Len(CurrentInputs) = 0
        BY <4>1
      <4>3. Len(inputs'[r]) = 1
        BY <4>1, <4>2, TakesInputs
      <4>4. QED
        BY <4>1, <4>2, <4>3
    <3>2. CASE r \in DOMAIN reports /\ r # global.id
      BY <1>5, <3>2, TakesInputs
    <3>3. CASE r \in DOMAIN reports /\ r = global.id
      <4>1. CurrentInputs = inputs[r]
        BY <1>1, <3>3 DEF CurrentInputs
      <4>2. Len(inputs'[r]) = Len(CurrentInputs) + 1 /\ Len(CurrentInputs) \in Nat
        BY <3>3, TakesInputs
      <4>3. QED
        BY <1>5, <3>3, <4>1, <4>2
    <3>4. QED
      BY <3>1, <3>2, <3>3
  <2>2. inputs'[r][k] = Taken(flags)
    BY <2>1, TakesInputs
  <2>3. FieldsFrom(r, k)' = NewFields(flags)
    BY <2>1, NewItem
  <2>4. Exact
    BY <1>2, <2>2, ItemTaken
  <2>5. QED
    BY <2>2, <2>3, <2>4, LabelsFound
<1>6. QED
  BY <1>4, <1>5

--------------------------------------------------------------------------------
(* Every step.                                                               *)

NothingTaken == reports = << >> /\ fields = {} /\ summary = NoSummary /\ inputs = << >>

(* An empty layout is sound.                                                 *)
LEMMA EmptyLayout == scenario \in Scenarios /\ NothingTaken => Layout
<1> SUFFICES ASSUME scenario \in Scenarios, NothingTaken PROVE Layout
  OBVIOUS
<1>1. DOMAIN reports = {} /\ DOMAIN inputs = {} /\ fields = {}
  BY DEF NothingTaken
<1>2. Tables
  <2>1. MaxReports \in Nat /\ MaxFields \in Nat
    BY ScenarioTypes
  <2>2. IsFiniteSet({}) /\ Cardinality({}) = 0
    BY FS_EmptySet
  <2>3. summary \in [buttons : SUBSET Buttons, axes : SUBSET Axes]
    BY DEF NothingTaken, NoSummary
  <2>4. QED
    BY <1>1, <2>1, <2>2, <2>3 DEF Tables
<1>3. SummaryAgrees
  <2>1. summary.buttons = {} /\ summary.axes = {}
    BY DEF NothingTaken, NoSummary
  <2>2. ButtonsOf({}) = {} /\ AxesOf({}) = {}
    BY DEF ButtonsOf, AxesOf
  <2>3. QED
    BY <1>1, <2>1, <2>2 DEF SummaryAgrees
<1>4. QED
  BY <1>1, <1>2, <1>3 DEF Layout, Rooms, Placed, Apart, MouseFields, UsagesFound

(* An item that does not touch the layout keeps it sound.                    *)
LEMMA SameLayout ==
  ASSUME Layout, UNCHANGED mapVars
  PROVE  Layout'
<1>1. /\ reports' = reports /\ fields' = fields /\ summary' = summary /\ inputs' = inputs
      /\ scenario' = scenario
  BY DEF mapVars, layoutVars
<1>2. Tables'
  BY <1>1 DEF Layout, Tables, Reports, FieldRecords, MaxReports, MaxFields, MaxBits, MaxReportBytes
<1>3. Rooms' /\ Placed' /\ Apart'
  BY <1>1 DEF Layout, Rooms, Placed, Apart
<1>4. SummaryAgrees'
  BY <1>1 DEF Layout, SummaryAgrees
<1>5. MouseFields' /\ UsagesFound'
  BY <1>1 DEF Layout, MouseFields, UsagesFound, FieldsFrom
<1>6. QED
  BY <1>2, <1>3, <1>4, <1>5 DEF Layout

(* The same of the next state.                                               *)
LEMMA EmptyLayoutNext == (scenario \in Scenarios /\ NothingTaken)' => Layout'
BY EmptyLayout, PTL

(* Dropping the layout leaves a sound one.                                   *)
LEMMA LayoutClear ==
  ASSUME Parsing, Clear
  PROVE  Layout'
<1>1. scenario' \in Scenarios /\ NothingTaken'
  BY DEF Parsing, Clear, NothingTaken, NoSummary
<1>2. QED
  BY <1>1, EmptyLayoutNext

(* add_input keeps the layout sound, whether the item fits or not.           *)
LEMMA LayoutInput ==
  ASSUME Parsing, Layout, NEW flags, Input(flags)
  PROVE  Layout'
<1> DEFINE new == NewFields(flags)
<1>1. CASE Fail("E2BIG")
  BY <1>1, LayoutClear DEF Fail
<1>2. CASE ~(InputTooBig \/ Cardinality(fields) + Cardinality(new) > MaxFields) /\ ~Fail("E2BIG")
  <2>1. Fits
    BY <1>2 DEF Fits
  <2>2. Cardinality(fields) + Cardinality(new) <= MaxFields
    <3>1. ~(Cardinality(fields) + Cardinality(new) > MaxFields)
      BY <1>2
    <3>2. Cardinality(fields) \in Nat
      BY FS_CardinalityType DEF Layout, Tables
    <3>3. Cardinality(new) \in Nat /\ MaxFields \in Nat
      BY <2>1, NewFieldsFinite, ScenarioTypes DEF Parsing
    <3>4. QED
      BY <3>1, <3>2, <3>3
  <2>3. Takes(flags)
    BY <1>2, <2>2 DEF Input, Takes
  <2>4. QED
    BY <2>1, <2>3, TakesTables, TakesRooms, TakesPlaced, TakesApart, TakesSummary, TakesMouse,
       TakesUsages DEF Layout
<1>3. CASE InputTooBig \/ Cardinality(fields) + Cardinality(new) > MaxFields
  BY <1>1, <1>3 DEF Input
<1>4. QED
  BY <1>1, <1>2, <1>3

(* The layout is sound after every step.                                     *)
LEMMA LayoutNext ==
  ASSUME Parsing, Layout, [ParserNext]_vars
  PROVE  Layout'
<1>1. ASSUME NEW err, Fail(err) PROVE Layout'
  BY <1>1, LayoutClear DEF Fail
<1>2. CASE UNCHANGED vars
  BY <1>2, SameLayout DEF vars
<1>3. CASE Parse
  BY <1>3, LayoutClear DEF Parse
<1>4. CASE Truncated \/ Delimiter
  BY <1>1, <1>4 DEF Truncated, Delimiter
<1>5. CASE End \/ OtherMain
  BY <1>5, SameLayout DEF End, OtherMain
<1>6. ASSUME NEW v, UsagePage(v) \/ ReportSize(v) \/ ReportId(v) \/ ReportCount(v) PROVE Layout'
  <2>1. ASSUME NEW field, SetGlobal(field, v) PROVE Layout'
    BY <2>1, SameLayout DEF SetGlobal
  <2>2. QED
    BY <1>1, <1>6, <2>1 DEF UsagePage, ReportSize, ReportId, ReportCount
<1>7. ASSUME NEW v, NEW bytes,
             \/ LogicalMinimum(v, bytes) \/ Usage(v, bytes)
             \/ UsageMinimum(v, bytes) \/ UsageMaximum(v, bytes)
      PROVE  Layout'
  <2>1. ASSUME NEW value, SetGlobal("minimum", value) PROVE Layout'
    BY <2>1, SameLayout DEF SetGlobal
  <2>2. ASSUME NEW l, NEW n, SetLocal(l, n) PROVE Layout'
    BY <2>2, SameLayout DEF SetLocal
  <2>3. CASE LogicalMinimum(v, bytes)
    BY <1>1, <2>1, <2>3 DEF LogicalMinimum
  <2>4. CASE Usage(v, bytes)
    BY <1>1, <2>2, <2>4 DEF Usage
  <2>5. CASE UsageMinimum(v, bytes) \/ UsageMaximum(v, bytes)
    BY <2>2, <2>5 DEF UsageMinimum, UsageMaximum
  <2>6. QED
    BY <1>7, <2>3, <2>4, <2>5
<1>8. CASE Push \/ Pop
  BY <1>1, <1>8, SameLayout DEF Push, Pop
<1>9. ASSUME NEW application, Collection(application) PROVE Layout'
  BY <1>1, <1>9, SameLayout DEF Collection
<1>10. CASE EndCollection
  BY <1>1, <1>10, SameLayout DEF EndCollection
<1>11. ASSUME NEW flags, Input(flags) PROVE Layout'
  BY <1>11, LayoutInput
<1>12. QED
  BY <1>2, <1>3, <1>4, <1>5, <1>6, <1>7, <1>8, <1>9, <1>10, <1>11 DEF ParserNext

(* The parser's state is the one its items made, and the layout is sound, at *)
(* every moment of every map.                                                *)
THEOREM ParserInv == ParserSpec => [](Parsing /\ Layout)
<1>1. Init => Parsing /\ Layout
  <2>1. Init => Parsing
    BY ParsingInit
  <2>2. Init => Layout
    BY EmptyLayout DEF Init, NothingTaken
  <2>3. QED
    BY <2>1, <2>2
<1>2. Parsing /\ Layout /\ [ParserNext]_vars => (Parsing /\ Layout)'
  BY ParsingNext, LayoutNext
<1>3. QED
  BY <1>1, <1>2, PTL DEF ParserSpec

(* mouse_hid_parse and add_input: the parsed layout is the one the items     *)
(* describe, inside its tables; fields lie in their reports and do not       *)
(* overlap, and the summaries agree with them.                               *)
THEOREM LayoutIsSound == ParserSpec => []LayoutInv
<1>1. Parsing /\ Layout => LayoutInv
  BY LayoutHolds
<1>2. QED
  BY <1>1, ParserInv, PTL

(* collections[depth - 1]: X, Y, wheel and the first buttons are taken only  *)
(* from Input items in a mouse's application collection.                     *)
THEOREM OnlyMouseFields == ParserSpec => []MouseFieldsOnly
<1>1. Parsing /\ Layout => MouseFieldsOnly
  BY LayoutHolds
<1>2. QED
  BY <1>1, ParserInv, PTL

(* local_usage: an item with a cell for each usage of its list or range has  *)
(* the fields these usages stand for, no more and no fewer.                  *)
THEOREM NoUsageLost == ParserSpec => []UsagesFound
<1>1. Parsing /\ Layout => UsagesFound
  BY DEF Layout
<1>2. QED
  BY <1>1, ParserInv, PTL

--------------------------------------------------------------------------------
(* Payloads and numbers.                                                     *)

(* Bytes of a payload.                                                       *)
Byte == 0 .. Shift[ByteBits] - 1

(* The number of a payload is built byte by byte.                            *)
LEMMA PayloadNumber ==
  ASSUME NEW L \in Nat, NEW data \in [1 .. L -> Byte], Len(data) = L
  PROVE  \E n \in [0 .. L -> Nat] :
             /\ n[0] = 0 /\ Number(data) = n[L]
             /\ \A k \in 1 .. L : n[k] = n[k - 1] + data[k] * Shift[ByteBits * (k - 1)]
<1> DEFINE T == Nat
           step == [k \in 1 .. L |-> [v \in T |-> v + data[k] * Shift[ByteBits * (k - 1)]]]
<1>1. \A k \in 1 .. L : data[k] * Shift[ByteBits * (k - 1)] \in Nat
  <2>1. SUFFICES ASSUME NEW k \in 1 .. L PROVE data[k] * Shift[ByteBits * (k - 1)] \in Nat
    OBVIOUS
  <2>2. ByteBits * (k - 1) \in Nat
    BY WidthAssumption
  <2>3. data[k] \in Byte /\ Byte \subseteq Nat
    BY DEF Byte
  <2>4. Shift[ByteBits * (k - 1)] \in Nat
    BY <2>2, ShiftSteps
  <2>5. data[k] \in Nat
    BY <2>3, Zenon
  <2>6. \A i, j \in Nat : i * j \in Nat
    OBVIOUS
  <2>7. QED
    BY <2>4, <2>5, <2>6
<1>2. 0 \in T /\ step \in [1 .. L -> [T -> T]]
  BY <1>1
<1>3. \A k \in 1 .. L : \A v \in T : step[k][v] = v + data[k] * Shift[ByteBits * (k - 1)]
  OBVIOUS
<1> HIDE DEF T, step
<1>4. PICK f \in [0 .. L -> T] : f[0] = 0 /\ \A k \in 1 .. L : f[k] = step[k][f[k - 1]]
  BY <1>2, StepRecursion
<1>5. \A k \in 1 .. L : f[k] = f[k - 1] + data[k] * Shift[ByteBits * (k - 1)]
  <2>1. \A k \in 1 .. L : k - 1 \in 0 .. L
    OBVIOUS
  <2>2. QED
    BY <1>3, <1>4, <2>1
<1>6. f = [k \in 0 .. L |-> IF k = 0 THEN 0 ELSE f[k - 1] + data[k] * Shift[ByteBits * (k - 1)]]
  <2>1. \A k \in 0 .. L : f[k] = IF k = 0 THEN 0 ELSE f[k - 1] + data[k] * Shift[ByteBits * (k - 1)]
    BY <1>4, <1>5
  <2>2. f = [k \in 0 .. L |-> f[k]]
    BY <1>4
  <2>3. [k \in 0 .. L |-> f[k]] =
          [k \in 0 .. L |-> IF k = 0 THEN 0 ELSE f[k - 1] + data[k] * Shift[ByteBits * (k - 1)]]
    BY <2>1, Zenon
  <2>4. QED
    BY <2>2, <2>3, Zenon
<1> DEFINE n[k \in 0 .. L] == IF k = 0 THEN 0 ELSE n[k - 1] + data[k] * Shift[ByteBits * (k - 1)]
<1>7. n = [k \in 0 .. L |-> IF k = 0 THEN 0 ELSE n[k - 1] + data[k] * Shift[ByteBits * (k - 1)]]
  BY <1>6, Zenon
<1>8. Number(data) = n[L]
  BY DEF Number
<1> HIDE DEF n
<1>9. n[0] = 0 /\ \A k \in 1 .. L : n[k] = n[k - 1] + data[k] * Shift[ByteBits * (k - 1)]
  <2>1. \A k \in 1 .. L : k \in 0 .. L /\ k # 0
    OBVIOUS
  <2>2. 0 \in 0 .. L
    OBVIOUS
  <2>3. QED
    BY <1>7, <2>1, <2>2, Zenon
<1> DEFINE S == {k \in 0 .. L : n[k] \in Nat}
<1>10. 0 \in S /\ \A k \in 1 .. L : k - 1 \in S => k \in S
  BY <1>1, <1>9
<1> HIDE DEF S
<1>11. \A k \in 0 .. L : n[k] \in Nat
  BY <1>10, InductionUpTo DEF S
<1>12. n \in [0 .. L -> Nat]
  BY <1>7, <1>11
<1>13. QED
  BY <1>8, <1>9, <1>12

(* The bits of a payload are those of the number it is.                      *)
LEMMA NumberBits ==
  ASSUME NEW L \in Nat, NEW data \in [1 .. L -> Byte], Len(data) = L
  PROVE  /\ Number(data) \in Nat
         /\ \A b \in 0 .. ByteBits * L - 1 : BitOf(data, b) = (Number(data) \div Shift[b]) % 2
<1>1. PICK n \in [0 .. L -> Nat] :
          /\ n[0] = 0 /\ Number(data) = n[L]
          /\ \A k \in 1 .. L : n[k] = n[k - 1] + data[k] * Shift[ByteBits * (k - 1)]
  BY PayloadNumber
<1> DEFINE B == ByteBits
           Good(k) == /\ n[k] < Shift[B * k]
                      /\ \A b \in 0 .. B * k - 1 : BitOf(data, b) = (n[k] \div Shift[b]) % 2
           S == {k \in 0 .. L : Good(k)}
<1>2. B \in Nat \ {0}
  BY WidthAssumption
<1>3. Good(0)
  <2>1. B * 0 = 0 /\ n[0] = 0 /\ Shift[0] = 1
    BY <1>1, <1>2, ShiftSteps
  <2>2. QED
    BY <2>1
<1>4. ASSUME NEW k \in 1 .. L, Good(k - 1) PROVE Good(k)
  <2> DEFINE h == B * (k - 1)
             x == n[k - 1]
             y == data[k]
  <2>1. h \in Nat /\ B * k = h + B
    BY <1>2
  <2>2. x \in Nat /\ x < Shift[h] /\ n[k] = x + y * Shift[h]
    BY <1>1, <1>4
  <2>3. y \in Nat /\ y < Shift[B]
    <3>1. y \in Byte /\ Shift[B] \in Nat
      BY <1>2, ShiftSteps
    <3> HIDE DEF y
    <3>2. QED
      BY <3>1 DEF Byte, B
  <2>4. Shift[h] \in Nat \ {0} /\ Shift[B] \in Nat \ {0} /\ Shift[h + B] = Shift[h] * Shift[B]
    BY <1>2, <2>1, ShiftSteps, ShiftSum
  <2>5. n[k] < Shift[B * k]
    <3>1. \A i, j, u, v \in Nat : i < u /\ j < v => i + j * u < u * v
      <4>1. SUFFICES ASSUME NEW i \in Nat, NEW j \in Nat, NEW u \in Nat, NEW v \in Nat, i < u, j < v
                     PROVE  i + j * u < u * v
        OBVIOUS
      <4>2. v - 1 - j \in Nat /\ v = (v - 1 - j) + j + 1
        BY <4>1
      <4> DEFINE m == v - 1 - j
      <4> HIDE DEF m
      <4>5. u * v = m * u + j * u + u
        <5>1. \A p, q, r \in Int : p * (q + r + 1) = q * p + r * p + p
          OBVIOUS
        <5>2. QED
          BY <4>2, <5>1 DEF m
      <4>3. m * u \in Nat /\ j * u \in Nat
        BY <4>2 DEF m
      <4>4. QED
        BY <4>1, <4>3, <4>5
    <3> HIDE DEF x, y, h, B
    <3>2. x + y * Shift[h] < Shift[h] * Shift[B]
      BY <2>2, <2>3, <2>4, <3>1
    <3>3. QED
      BY <2>1, <2>2, <2>4, <3>2
  <2>6. ASSUME NEW b \in Nat, b < h + B
        PROVE  BitOf(data, b) = (n[k] \div Shift[b]) % 2
    <3>1. CASE b < h
      <4>1. BitOf(data, b) = (x \div Shift[b]) % 2
        <5>1. b \in 0 .. B * (k - 1) - 1
          BY <1>2, <2>1, <3>1
        <5>2. QED
          BY <1>4, <5>1
      <4> HIDE DEF x, y, h, B
      <4>2. QED
        BY <2>1, <2>2, <2>3, <3>1, <4>1, LowBit
    <3>2. CASE h <= b
      <4> DEFINE r == b - h
      <4>1. r \in 0 .. B - 1 /\ b = h + r /\ r \in Nat
        BY <1>2, <2>1, <2>6, <3>2
      <4>2. b \div B = k - 1 /\ b % B = r
        <5> DEFINE j == k - 1
        <5>1. j \in Nat /\ h = B * j
          OBVIOUS
        <5> HIDE DEF B, r, h, j
        <5>2. b \div B = j /\ b % B = r
          <6>1. PlacedAt(b, B, j, r)
            BY ONLY <1>2, <4>1, <5>1 DEF PlacedAt
          <6>2. QED
            BY ONLY <6>1, BitPlace
        <5>3. QED
          BY <5>2 DEF j
      <4>3. BitOf(data, b) = (y \div Shift[r]) % 2
        BY <4>2 DEF BitOf
      <4> HIDE DEF x, y, h, B, r
      <4>4. n[k] \div Shift[b] = y \div Shift[r]
        BY <2>1, <2>2, <2>3, <4>1, HighBit
      <4>5. QED
        BY <4>3, <4>4
    <3>3. QED
      BY <2>1, <3>1, <3>2
  <2>8. \A b \in 0 .. B * k - 1 : b \in Nat /\ b < h + B
    <3>1. B * k \in Int
      BY <1>2
    <3> HIDE DEF h, B
    <3>2. QED
      BY <2>1, <3>1
  <2>7. QED
    BY <2>5, <2>6, <2>8
<1>5. L \in S
  <2>1. 0 \in S /\ \A k \in 1 .. L : k - 1 \in S => k \in S
    <3> HIDE DEF Good
    <3>1. QED
      BY <1>3, <1>4
  <2>2. L \in 0 .. L
    OBVIOUS
  <2> HIDE DEF S
  <2>3. \A k \in 0 .. L : k \in S
    BY <2>1, InductionUpTo
  <2>4. QED
    BY <2>2, <2>3
<1>6. QED
  BY <1>1, <1>5

(* extract_field's loop, with v its value before bit i.                      *)
ReadsBits(data, f) == \A i \in 1 .. f.size : BitOf(data, f.bit + i - 1) \in Nat

Accumulates(data, f, v) ==
    /\ v[0] = 0 /\ RawValue(data, f) = v[f.size]
    /\ \A i \in 1 .. f.size : v[i] = v[i - 1] + BitOf(data, f.bit + i - 1) * Shift[i - 1]

(* extract_field's raw value is built bit by bit.                            *)
LEMMA FieldNumber ==
  ASSUME NEW data, NEW f, f.size \in Nat, ReadsBits(data, f)
  PROVE  \E v \in [0 .. f.size -> Nat] : Accumulates(data, f, v)
<1> DEFINE T == Nat
           n == f.size
           Digit(i) == BitOf(data, f.bit + i - 1) * Shift[i - 1]
           step == [i \in 1 .. n |-> [w \in T |-> w + Digit(i)]]
<1>1. \A i \in 1 .. n : Digit(i) \in Nat
  <2>1. SUFFICES ASSUME NEW i \in 1 .. n PROVE Digit(i) \in Nat
    OBVIOUS
  <2>2. Shift[i - 1] \in Nat
    BY ShiftSteps
  <2>3. BitOf(data, f.bit + i - 1) \in Nat
    BY DEF ReadsBits
  <2>4. \A j, k \in Nat : j * k \in Nat
    OBVIOUS
  <2>5. QED
    BY <2>2, <2>3, <2>4
<1> HIDE DEF Digit
<1>2. 0 \in T /\ step \in [1 .. n -> [T -> T]] /\ n \in Nat
  BY <1>1
<1>3. \A i \in 1 .. n : \A w \in T : step[i][w] = w + Digit(i)
  OBVIOUS
<1> HIDE DEF T, step, n
<1>4. PICK g \in [0 .. n -> T] : g[0] = 0 /\ \A i \in 1 .. n : g[i] = step[i][g[i - 1]]
  BY ONLY <1>2, StepRecursion
<1>5. \A i \in 1 .. n : g[i] = g[i - 1] + Digit(i)
  <2>1. \A i \in 1 .. n : i - 1 \in 0 .. n
    BY <1>2
  <2>2. QED
    BY <1>3, <1>4, <2>1
<1>6. g = [i \in 0 .. n |-> IF i = 0 THEN 0 ELSE g[i - 1] + Digit(i)]
  <2>1. \A i \in 0 .. n : g[i] = IF i = 0 THEN 0 ELSE g[i - 1] + Digit(i)
    BY <1>2, <1>4, <1>5
  <2>2. g = [i \in 0 .. n |-> g[i]]
    BY <1>4
  <2>3. [i \in 0 .. n |-> g[i]] = [i \in 0 .. n |-> IF i = 0 THEN 0 ELSE g[i - 1] + Digit(i)]
    BY <2>1, Zenon
  <2>4. QED
    BY <2>2, <2>3, Zenon
<1> DEFINE value[i \in 0 .. n] == IF i = 0 THEN 0 ELSE value[i - 1] + Digit(i)
<1>7. value = [i \in 0 .. n |-> IF i = 0 THEN 0 ELSE value[i - 1] + Digit(i)]
  BY <1>6, Zenon
<1>8. RawValue(data, f) = value[n]
  BY DEF RawValue, Digit, n
<1> HIDE DEF value
<1>9. value[0] = 0 /\ \A i \in 1 .. n : value[i] = value[i - 1] + Digit(i)
  <2>1. \A i \in 1 .. n : i \in 0 .. n /\ i # 0
    BY <1>2
  <2>2. 0 \in 0 .. n
    BY <1>2
  <2>3. QED
    BY <1>7, <2>1, <2>2, Zenon
<1> DEFINE S == {i \in 0 .. n : value[i] \in Nat}
<1>10. 0 \in S /\ \A i \in 1 .. n : i - 1 \in S => i \in S
  BY <1>1, <1>2, <1>9
<1> HIDE DEF S
<1>11. \A i \in 0 .. n : value[i] \in Nat
  BY <1>2, <1>10, InductionUpTo DEF S
<1>12. value \in [0 .. n -> Nat]
  BY <1>7, <1>11
<1>13. QED
  BY <1>8, <1>9, <1>12 DEF n, Digit, Accumulates

(* The bits of a field, put together, are the digits of the number that the  *)
(* payload is.                                                               *)
LEMMA RawDigits ==
  ASSUME NEW L \in Nat, NEW data \in [1 .. L -> Byte], Len(data) = L,
         NEW f, f.size \in Nat, f.bit \in Nat, f.bit + f.size <= ByteBits * L
  PROVE  RawValue(data, f) = Digits(data, f) /\ Digits(data, f) \in 0 .. Shift[f.size] - 1
<1> DEFINE N == Number(data)
           M == N \div Shift[f.bit]
           n == f.size
           p == f.bit
<1>1. N \in Nat /\ \A b \in 0 .. ByteBits * L - 1 : BitOf(data, b) = (N \div Shift[b]) % 2
  BY NumberBits
<1>2. n \in Nat /\ p \in Nat
  OBVIOUS
<1>3. \A i \in Nat : Shift[i] \in Nat \ {0} /\ Shift[p + i] = Shift[p] * Shift[i]
  BY <1>2, ShiftSteps, ShiftSum
<1>4. M \in Nat
  <2>1. N \in Int /\ Shift[p] \in Nat \ {0}
    <3> HIDE DEF N, p
    <3>1. QED
      BY ONLY <1>1, <1>2, ShiftSteps
  <2> HIDE DEF N
  <2>2. QED
    BY <1>1, <2>1, Division
<1>5. ASSUME NEW i \in Nat, i < n
      PROVE  BitOf(data, p + i) = (M \div Shift[i]) % 2
  <2>1. p + i \in 0 .. ByteBits * L - 1
    <3>1. ByteBits * L \in Int
      BY WidthAssumption
    <3>2. QED
      BY <1>5, <3>1
  <2> HIDE DEF N, n, p
  <2>2. N \div (Shift[p] * Shift[i]) = (N \div Shift[p]) \div Shift[i]
    <3>1. N \in Int /\ Shift[p] \in Nat \ {0} /\ Shift[i] \in Nat \ {0}
      BY <1>1, <1>2, <1>3
    <3>2. QED
      BY <3>1, DivideTwice
  <2>3. BitOf(data, p + i) = (N \div (Shift[p] * Shift[i])) % 2
    BY <1>1, <1>3, <2>1
  <2>4. QED
    BY <2>2, <2>3 DEF p
<1> HIDE DEF N, M, n, p
<1>6. \A i \in 1 .. n : i - 1 \in Nat /\ i - 1 < n /\ p + i - 1 = p + (i - 1)
  BY <1>2
<1>7. \A i \in 1 .. n : BitOf(data, p + i - 1) = (M \div Shift[i - 1]) % 2
  BY <1>5, <1>6
<1>8. \A i \in 1 .. n : BitOf(data, p + i - 1) \in Nat
  <2>1. \A x \in Int : x % 2 \in Nat
    OBVIOUS
  <2>2. \A i \in 1 .. n : M \div Shift[i - 1] \in Int
    BY <1>3, <1>4, <1>6
  <2>3. QED
    BY <1>7, <2>1, <2>2
<1>9. PICK v \in [0 .. n -> Nat] :
          /\ v[0] = 0 /\ RawValue(data, f) = v[n]
          /\ \A i \in 1 .. n : v[i] = v[i - 1] + BitOf(data, p + i - 1) * Shift[i - 1]
  <2>1. ReadsBits(data, f)
    BY <1>8 DEF n, p, ReadsBits
  <2>2. \E v \in [0 .. f.size -> Nat] : Accumulates(data, f, v)
    BY <2>1, FieldNumber
  <2>3. QED
    BY <2>2, Zenon DEF n, p, Accumulates
<1> DEFINE S == {i \in 0 .. n : v[i] = M % Shift[i]}
<1>10. 0 \in S
  <2>1. M % 1 = 0
    BY <1>4
  <2>2. 0 \in 0 .. n
    BY <1>2
  <2>3. M % Shift[0] = 0
    BY <2>1, ShiftSteps
  <2>4. QED
    BY <1>9, <2>2, <2>3
<1>11. ASSUME NEW i \in 1 .. n, i - 1 \in S PROVE i \in S
  <2> DEFINE s == Shift[i - 1]
  <2>1. s \in Nat \ {0} /\ Shift[i] = 2 * s
    <3>1. (i - 1) + 1 = i /\ i - 1 \in Nat
      BY <1>6
    <3>2. QED
      BY <3>1, ShiftSteps
  <2>2. v[i] = (M % s) + ((M \div s) % 2) * s
    BY <1>7, <1>9, <1>11
  <2> HIDE DEF s
  <2>3. M % (s * 2) = (M % s) + ((M \div s) % 2) * s
    <3>1. M \in Int /\ 2 \in Nat \ {0}
      BY <1>4
    <3>2. QED
      BY <2>1, <3>1, DivideTwice
  <2>4. s * 2 = 2 * s
    BY <2>1
  <2>5. QED
    BY <2>1, <2>2, <2>3, <2>4
<1>12. v[n] = M % Shift[n]
  <2>1. n \in 0 .. n
    BY <1>2
  <2> HIDE DEF S
  <2>2. \A i \in 0 .. n : i \in S
    BY <1>2, <1>10, <1>11, InductionUpTo
  <2>3. QED
    BY <2>1, <2>2 DEF S
<1>13. M % Shift[n] \in 0 .. Shift[n] - 1
  <2>1. M \in Int /\ Shift[n] \in Nat \ {0}
    BY <1>2, <1>3, <1>4
  <2>2. QED
    BY <2>1, Division
<1>14. QED
  BY <1>9, <1>12, <1>13 DEF Digits, N, M, n, p

(* signed_bits, for a value of the field's width.                            *)
LEMMA SignedValue ==
  ASSUME NEW size \in 1 .. WordBits, NEW v \in 0 .. Shift[size] - 1
  PROVE  SignedBits(v, size) = IF v < Shift[size - 1] THEN v ELSE v - Shift[size]
<1>1. WordBits - 1 \in Nat /\ (WordBits - 1) + 1 = WordBits
  BY WidthAssumption
<1>2. size - 1 \in Nat /\ (size - 1) + 1 = size /\ size \in Nat
  BY WidthAssumption
<1> DEFINE s == Shift[size - 1]
           w == Shift[WordBits - 1]
<1>3. s \in Nat \ {0} /\ Shift[size] = 2 * s
  BY <1>2, ShiftSteps
<1>4. w \in Nat \ {0} /\ Shift[WordBits] = 2 * w
  BY <1>1, ShiftSteps
<1> HIDE DEF s, w
<1>5. v \in Nat /\ v < 2 * s
  BY <1>3
<1>6. IntMax = w - 1
  BY DEF IntMax, w
<1>7. CASE size = WordBits
  <2>1. s = w
    BY <1>7 DEF s, w
  <2>2. SignedBits(v, size) = IF v > w - 1 THEN v - 2 * w ELSE v
    BY <1>4, <1>6, <1>7 DEF SignedBits, ToSigned
  <2>3. QED
    BY <1>3, <1>4, <1>5, <2>1, <2>2 DEF s
<1>8. CASE size # WordBits
  <2>1. 2 * s <= w
    <3> DEFINE e == WordBits - 1 - size
    <3>1. e \in Nat /\ WordBits - 1 = size + e
      BY <1>2, <1>8, WidthAssumption
    <3> HIDE DEF e
    <3>2. w = Shift[size] * Shift[e] /\ Shift[e] \in Nat \ {0}
      <4>1. Shift[size + e] = Shift[size] * Shift[e]
        BY <1>2, <3>1, ShiftSum
      <4>2. w = Shift[size + e]
        BY <3>1 DEF w
      <4>3. QED
        BY <3>1, <4>1, <4>2, ShiftSteps
    <3>3. \A i, j \in Nat \ {0} : i <= i * j
      OBVIOUS
    <3>4. 2 * s \in Nat \ {0}
      BY <1>3
    <3>5. QED
      BY <1>3, <3>2, <3>3, <3>4
  <2>2. FlipBit(v, s) = IF v < s THEN v + s ELSE v - s
    <3>1. CASE v < s
      <4>1. v \div s = 0
        BY <1>3, <1>5, <3>1
      <4>2. QED
        BY <3>1, <4>1 DEF FlipBit
    <3>2. CASE ~(v < s)
      <4>1. v = 1 * s + (v - s) /\ v - s \in 0 .. s - 1 /\ v \in Int
        BY <1>3, <1>5, <3>2
      <4>2. v \div s = 1
        BY <1>3, <4>1, Quotient
      <4>3. QED
        BY <3>2, <4>2 DEF FlipBit
    <3>3. QED
      BY <3>1, <3>2
  <2>3. FlipBit(v, s) \in Nat /\ FlipBit(v, s) < 2 * s
    BY <1>3, <1>5, <2>2
  <2>4. ToSigned(FlipBit(v, s)) = FlipBit(v, s)
    <3>1. ~(FlipBit(v, s) > w - 1)
      BY <1>3, <1>4, <2>1, <2>3
    <3>2. QED
      BY <1>6, <3>1 DEF ToSigned
  <2>5. SignedBits(v, size) = FlipBit(v, s) - s
    BY <1>8, <2>4 DEF SignedBits, s
  <2>6. QED
    BY <1>3, <1>5, <2>2, <2>5 DEF s
<1>9. QED
  BY <1>7, <1>8

(* extract_field reads the number that the field's digits are.               *)
LEMMA ExtractsValue ==
  ASSUME NEW data, NEW f, f.size \in 1 .. WordBits, f.is_signed \in BOOLEAN,
         RawValue(data, f) = Digits(data, f), Digits(data, f) \in 0 .. Shift[f.size] - 1
  PROVE  /\ ExtractField(data, f) = RefValue(data, f)
         /\ RefValue(data, f) \in Int
         /\ ExtractField(data, f) # 0 <=> Digits(data, f) # 0
<1> DEFINE v == Digits(data, f)
           s == Shift[f.size - 1]
<1>1. f.size \in Nat /\ f.size - 1 \in Nat /\ (f.size - 1) + 1 = f.size
  BY WidthAssumption
<1>2. s \in Nat \ {0} /\ Shift[f.size] = 2 * s
  BY <1>1, ShiftSteps
<1>3. IntMax \in Nat \ {0}
  <2>1. WordBits - 2 \in Nat /\ (WordBits - 2) + 1 = WordBits - 1
    BY WidthAssumption
  <2>2. Shift[WordBits - 1] = 2 * Shift[WordBits - 2] /\ Shift[WordBits - 2] \in Nat \ {0}
    BY <2>1, ShiftSteps
  <2>3. QED
    BY <2>2 DEF IntMax
<1>4. v \in Nat /\ v < 2 * s /\ RawValue(data, f) = v
  BY <1>2
<1>5. SignedBits(v, f.size) = IF v < s THEN v ELSE v - 2 * s
  <2> HIDE DEF v
  <2>1. v \in 0 .. Shift[f.size] - 1
    BY DEF v
  <2>2. QED
    BY <1>2, <2>1, SignedValue
<1> HIDE DEF v, s
<1>6. CASE f.is_signed
  <2>1. ExtractField(data, f) = IF v < s THEN v ELSE v - 2 * s
    BY <1>4, <1>5, <1>6 DEF ExtractField
  <2>2. RefValue(data, f) = IF v < s THEN v ELSE v - 2 * s
    BY <1>2, <1>6 DEF RefValue, v, s
  <2>3. QED
    BY <1>2, <1>4, <2>1, <2>2 DEF v
<1>7. CASE ~f.is_signed
  <2>1. ExtractField(data, f) = IF v > IntMax THEN IntMax ELSE v
    BY <1>4, <1>7 DEF ExtractField
  <2>2. RefValue(data, f) = IF v <= IntMax THEN v ELSE IntMax
    BY <1>7 DEF RefValue, v
  <2>3. QED
    BY <1>3, <1>4, <2>1, <2>2 DEF v
<1>8. QED
  BY <1>6, <1>7

--------------------------------------------------------------------------------
(* Sums over finite sets.                                                    *)

(* SumFunction adds the values in some order, and in any order.              *)
LEMMA SumFunctionFacts ==
  ASSUME NEW S, IsFiniteSet(S), NEW g \in [S -> Int]
  PROVE  \E sum \in [SUBSET S -> Int] :
             /\ sum[{}] = 0
             /\ \A s \in SUBSET S : \A x \in s : sum[s] = g[x] + sum[s \ {x}]
             /\ SumFunction(g) = sum[S]
<1> DEFINE Pick(s) == CHOOSE x \in s : TRUE
           Eq(f, s) == f[s] = IF s = {} THEN 0 ELSE g[Pick(s)] + f[s \ {Pick(s)}]
<1>0. \A s \in SUBSET S : IsFiniteSet(s) /\ Cardinality(s) \in Nat
  BY FS_Subset, FS_CardinalityType
<1>1. \A s \in SUBSET S : \A x \in s :
          Cardinality(s \ {x}) = Cardinality(s) - 1 /\ s \ {x} \in SUBSET S
  BY <1>0, FS_RemoveElement
<1>2. \A s \in SUBSET S : s # {} => Pick(s) \in s /\ Cardinality(s) # 0
  BY <1>0, FS_EmptySet
<1>3. \E f \in [SUBSET S -> Int] : \A s \in SUBSET S : Eq(f, s)
  <2> DEFINE G == {n \in Nat : \E f \in [SUBSET S -> Int] :
                      \A s \in SUBSET S : Cardinality(s) <= n => Eq(f, s)}
  <2>1. 0 \in G
    <3> DEFINE f == [s \in SUBSET S |-> 0]
    <3>1. f \in [SUBSET S -> Int]
      OBVIOUS
    <3>2. ASSUME NEW s \in SUBSET S, Cardinality(s) <= 0 PROVE Eq(f, s)
      <4>1. s = {}
        BY <1>0, <1>2, <3>2
      <4>2. QED
        BY <4>1
    <3>3. QED
      BY <3>1, <3>2
  <2>2. ASSUME NEW n \in Nat, n \in G PROVE n + 1 \in G
    <3>1. PICK f \in [SUBSET S -> Int] : \A s \in SUBSET S : Cardinality(s) <= n => Eq(f, s)
      BY <2>2
    <3> DEFINE h == [s \in SUBSET S |-> IF Cardinality(s) = n + 1 THEN g[Pick(s)] + f[s \ {Pick(s)}]
                                        ELSE f[s]]
    <3>2. \A s \in SUBSET S : s # {} => g[Pick(s)] \in Int /\ f[s \ {Pick(s)}] \in Int
      BY <1>2
    <3>3. h \in [SUBSET S -> Int]
      <4>1. Cardinality({}) # n + 1
        BY FS_EmptySet
      <4>2. ASSUME NEW s \in SUBSET S
            PROVE  IF Cardinality(s) = n + 1 THEN g[Pick(s)] + f[s \ {Pick(s)}] \in Int
                   ELSE f[s] \in Int
        <5>1. CASE Cardinality(s) = n + 1
          <6>1. s # {}
            BY <4>1, <5>1
          <6>2. g[Pick(s)] \in Int /\ f[s \ {Pick(s)}] \in Int
            BY <3>2, <6>1
          <6> HIDE DEF Pick
          <6>3. QED
            BY <5>1, <6>2
        <5>2. CASE Cardinality(s) # n + 1
          BY <5>2
        <5>3. QED
          BY <5>1, <5>2
      <4> HIDE DEF Pick
      <4>3. QED
        BY <4>2
    <3>4. ASSUME NEW s \in SUBSET S, Cardinality(s) <= n + 1 PROVE Eq(h, s)
      <4>1. CASE s = {}
        <5>1. Cardinality(s) = 0
          BY <4>1, FS_EmptySet
        <5>2. h[s] = f[s] /\ Eq(f, s)
          BY <3>1, <5>1
        <5>3. QED
          BY <4>1, <5>2
      <4>2. CASE s # {}
        <5> DEFINE x == Pick(s)
        <5>1. x \in s /\ s \ {x} \in SUBSET S /\ Cardinality(s \ {x}) = Cardinality(s) - 1
          BY <1>1, <1>2, <4>2
        <5>2. Cardinality(s \ {x}) # n + 1
          BY <1>0, <3>4, <5>1
        <5>3. h[s \ {x}] = f[s \ {x}]
          BY <5>1, <5>2
        <5>4. CASE Cardinality(s) = n + 1
          BY <4>2, <5>3, <5>4
        <5>5. CASE Cardinality(s) # n + 1
          <6>1. Cardinality(s) <= n
            BY <1>0, <3>4, <5>5
          <6>2. Eq(f, s) /\ h[s] = f[s]
            BY <3>1, <5>5, <6>1
          <6>3. QED
            BY <4>2, <5>3, <6>2
        <5>6. QED
          BY <5>4, <5>5
      <4>3. QED
        BY <4>1, <4>2
    <3> HIDE DEF h
    <3>5. \E f0 \in [SUBSET S -> Int] : \A s \in SUBSET S : Cardinality(s) <= n + 1 => Eq(f0, s)
      BY <3>3, <3>4
    <3> HIDE DEF Eq
    <3>6. n + 1 \in Nat
      OBVIOUS
    <3>7. QED
      BY <3>5, <3>6
  <2>3. Cardinality(S) \in G
    <3> HIDE DEF G
    <3>1. QED
      BY <1>0, <2>1, <2>2, SetInduction
  <2>4. PICK f \in [SUBSET S -> Int] :
            \A s \in SUBSET S : Cardinality(s) <= Cardinality(S) => Eq(f, s)
    BY <2>3
  <2>5. \A s \in SUBSET S : Cardinality(s) <= Cardinality(S)
    BY FS_Subset
  <2>6. QED
    BY <2>4, <2>5
<1> DEFINE iter[s \in SUBSET S] == IF s = {} THEN 0 ELSE g[Pick(s)] + iter[s \ {Pick(s)}]
<1>4. \A s \in SUBSET S : Eq(iter, s)
  <2>1. PICK f \in [SUBSET S -> Int] : \A s \in SUBSET S : Eq(f, s)
    BY <1>3
  <2>2. f = [s \in SUBSET S |-> IF s = {} THEN 0 ELSE g[Pick(s)] + f[s \ {Pick(s)}]]
    BY <2>1
  <2> HIDE DEF Pick
  <2>3. iter = [s \in SUBSET S |-> IF s = {} THEN 0 ELSE g[Pick(s)] + iter[s \ {Pick(s)}]]
    BY <2>2, Zenon
  <2>4. QED
    BY <2>3
<1>5. SumFunction(g) = iter[S]
  BY DEF SumFunction, SumFunctionOnSet, FoldFunctionOnSet, MapThenFoldSet
<1>6. iter = [s \in SUBSET S |-> iter[s]]
  <2>1. PICK f \in [SUBSET S -> Int] : \A s \in SUBSET S : Eq(f, s)
    BY <1>3
  <2>2. f = [s \in SUBSET S |-> IF s = {} THEN 0 ELSE g[Pick(s)] + f[s \ {Pick(s)}]]
    BY <2>1
  <2> HIDE DEF Pick
  <2>3. iter = [s \in SUBSET S |-> IF s = {} THEN 0 ELSE g[Pick(s)] + iter[s \ {Pick(s)}]]
    BY <2>2, Zenon
  <2>4. QED
    BY <2>3
<1> HIDE DEF iter
<1> DEFINE G == {n \in Nat : \A s \in SUBSET S : Cardinality(s) <= n =>
                   iter[s] \in Int /\ \A x \in s : iter[s] = g[x] + iter[s \ {x}]}
<1>7. 0 \in G
  <2>1. ASSUME NEW s \in SUBSET S, Cardinality(s) <= 0 PROVE s = {} /\ iter[s] = 0
    <3>1. s = {}
      BY <1>0, <1>2, <2>1
    <3>2. QED
      BY <1>4, <3>1
  <2>2. QED
    BY <2>1
<1>8. ASSUME NEW n \in Nat, n \in G PROVE n + 1 \in G
  <2>0. SUFFICES ASSUME NEW s \in SUBSET S, Cardinality(s) <= n + 1
                 PROVE  iter[s] \in Int /\ \A x \in s : iter[s] = g[x] + iter[s \ {x}]
    OBVIOUS
  <2>1. SUFFICES ASSUME Cardinality(s) = n + 1
                 PROVE  iter[s] \in Int /\ \A x \in s : iter[s] = g[x] + iter[s \ {x}]
    BY <1>0, <1>8, <2>0
  <2> DEFINE y == Pick(s)
  <2>2. s # {}
    BY <2>1, FS_EmptySet
  <2>3. y \in s
    BY <1>2, <2>2
  <2>4. iter[s] = g[y] + iter[s \ {y}]
    BY <1>4, <2>2
  <2> HIDE DEF y, Pick
  <2>5. \A x \in s : s \ {x} \in SUBSET S /\ Cardinality(s \ {x}) = n
    BY <1>1, <2>1
  <2>6. \A x \in s : iter[s \ {x}] \in Int
               /\ \A z \in s \ {x} : iter[s \ {x}] = g[z] + iter[(s \ {x}) \ {z}]
    BY <1>8, <2>5
  <2>7. \A x \in s : g[x] \in Int
    OBVIOUS
  <2>8. iter[s] \in Int
    <3>1. g[y] \in Int /\ iter[s \ {y}] \in Int
      BY <2>3, <2>6, <2>7
    <3>2. QED
      BY <2>4, <3>1
  <2>9. ASSUME NEW x \in s, x # y PROVE iter[s] = g[x] + iter[s \ {x}]
    <3>1. (s \ {x}) \ {y} = (s \ {y}) \ {x}
      OBVIOUS
    <3> DEFINE rest == iter[(s \ {y}) \ {x}]
    <3>2. iter[s \ {y}] = g[x] + rest /\ iter[s \ {x}] = g[y] + rest
      BY <2>3, <2>6, <2>9, <3>1
    <3>3. rest \in Int
      <4>1. s \ {y} \in SUBSET S /\ x \in s \ {y} /\ n \in Nat /\ Cardinality(s \ {y}) = n
        BY <2>3, <2>5, <2>9
      <4>2. Cardinality((s \ {y}) \ {x}) = n - 1 /\ (s \ {y}) \ {x} \in SUBSET S
        BY <1>1, <4>1
      <4>3. QED
        BY <1>8, <4>1, <4>2 DEF rest
    <3> HIDE DEF rest
    <3>4. QED
      BY <2>3, <2>4, <2>7, <3>2, <3>3
  <2>10. QED
    BY <2>4, <2>8, <2>9
<1>9. \A s \in SUBSET S : iter[s] \in Int /\ \A x \in s : iter[s] = g[x] + iter[s \ {x}]
  <2> HIDE DEF G
  <2>1. Nat \subseteq G
    BY <1>7, <1>8, SetInduction
  <2>2. QED
    BY <1>0, <2>1 DEF G
<1>10. iter[{}] = 0
  BY <1>4
<1>11. QED
  BY <1>5, <1>6, <1>9, <1>10

--------------------------------------------------------------------------------
(* Words.                                                                    *)
LEMMA WordLimits == IntMax \in Nat \ {0} /\ IntMin \in Int /\ IntMin = -IntMax - 1
<1>1. WordBits - 1 \in Nat /\ WordBits - 2 \in Nat /\ (WordBits - 2) + 1 = WordBits - 1
  BY WidthAssumption
<1>2. Shift[WordBits - 1] = 2 * Shift[WordBits - 2] /\ Shift[WordBits - 2] \in Nat \ {0}
  BY <1>1, ShiftSteps
<1>3. QED
  BY <1>2 DEF IntMax, IntMin

(* Sums of any numbers, saturated, fit a word.                               *)
LEMMA SaturatedFits ==
  ASSUME NEW a \in Int, NEW b \in Int
  PROVE  AddSaturated(a, b) \in IntMin .. IntMax
BY WordLimits DEF AddSaturated

(* mouse_hid_decode's loop over the fields of one axis, by their first bits. *)
FieldsAt(own, bit) == {f \in own : f.bit = bit}

AddsInOrder(own, bits, data, sum) ==
    /\ sum[0] = 0
    /\ AddedInOrder(own, bits, data) = sum[bits]
    /\ \A b \in 1 .. bits :
           sum[b] = IF FieldsAt(own, b - 1) = {} THEN sum[b - 1]
                    ELSE AddSaturated(sum[b - 1],
                                      ExtractField(data, CHOOSE f \in FieldsAt(own, b - 1) : TRUE))

(* The loop over the bits gives a sum that fits a word after every one.      *)
LEMMA AxisLoop ==
  ASSUME NEW own, NEW bits \in Nat, NEW data, \A f \in own : ExtractField(data, f) \in Int
  PROVE  \E sum \in [0 .. bits -> IntMin .. IntMax] : AddsInOrder(own, bits, data, sum)
<1> DEFINE T == IntMin .. IntMax
           n == bits
           At(b) == FieldsAt(own, b - 1)
           Next1(b, v) == IF At(b) = {} THEN v
                          ELSE AddSaturated(v, ExtractField(data, CHOOSE f \in At(b) : TRUE))
           step == [b \in 1 .. n |-> [v \in T |-> Next1(b, v)]]
<1>1. ASSUME NEW b \in 1 .. n, NEW v \in T PROVE Next1(b, v) \in T
  <2>1. CASE At(b) = {}
    BY <2>1
  <2>2. CASE At(b) # {}
    <3>1. (CHOOSE f \in At(b) : TRUE) \in At(b)
      BY <2>2
    <3>2. \A f \in At(b) : f \in own
      BY DEF FieldsAt
    <3>3. ExtractField(data, CHOOSE f \in At(b) : TRUE) \in Int
      BY <3>1, <3>2
    <3>4. v \in Int
      BY WordLimits
    <3> HIDE DEF At
    <3>5. QED
      BY <2>2, <3>3, <3>4, SaturatedFits
  <2>3. QED
    BY <2>1, <2>2
<1> HIDE DEF Next1, T
<1>2. 0 \in T /\ step \in [1 .. n -> [T -> T]] /\ n \in Nat
  <2>1. 0 \in T
    BY WordLimits DEF T
  <2>2. QED
    BY <1>1, <2>1
<1>3. \A b \in 1 .. n : \A v \in T : step[b][v] = Next1(b, v)
  OBVIOUS
<1> HIDE DEF step, n
<1>4. PICK g \in [0 .. n -> T] : g[0] = 0 /\ \A b \in 1 .. n : g[b] = step[b][g[b - 1]]
  BY ONLY <1>2, StepRecursion
<1>5. \A b \in 1 .. n : g[b] = Next1(b, g[b - 1])
  <2>1. \A b \in 1 .. n : b - 1 \in 0 .. n
    BY <1>2
  <2>2. QED
    BY <1>3, <1>4, <2>1
<1>6. g = [b \in 0 .. n |-> IF b = 0 THEN 0 ELSE Next1(b, g[b - 1])]
  <2>1. \A b \in 0 .. n : g[b] = IF b = 0 THEN 0 ELSE Next1(b, g[b - 1])
    BY <1>2, <1>4, <1>5
  <2>2. g = [b \in 0 .. n |-> g[b]]
    BY <1>4
  <2>3. [b \in 0 .. n |-> g[b]] = [b \in 0 .. n |-> IF b = 0 THEN 0 ELSE Next1(b, g[b - 1])]
    BY <2>1, Zenon
  <2>4. QED
    BY <2>2, <2>3, Zenon
<1> DEFINE sum[b \in 0 .. n] == IF b = 0 THEN 0 ELSE Next1(b, sum[b - 1])
<1>7. sum = [b \in 0 .. n |-> IF b = 0 THEN 0 ELSE Next1(b, sum[b - 1])]
  BY <1>6, Zenon
<1>8. AddedInOrder(own, bits, data) = sum[n]
  BY DEF AddedInOrder, Next1, n, FieldsAt
<1> HIDE DEF sum
<1>9. sum[0] = 0 /\ \A b \in 1 .. n : sum[b] = Next1(b, sum[b - 1])
  <2>1. \A b \in 1 .. n : b \in 0 .. n /\ b # 0
    BY <1>2
  <2>2. 0 \in 0 .. n
    BY <1>2
  <2>3. QED
    BY <1>7, <2>1, <2>2, Zenon
<1> DEFINE S == {b \in 0 .. n : sum[b] \in T}
<1>10. 0 \in S /\ \A b \in 1 .. n : b - 1 \in S => b \in S
  BY <1>1, <1>2, <1>9
<1> HIDE DEF S
<1>11. \A b \in 0 .. n : sum[b] \in T
  BY <1>2, <1>10, InductionUpTo DEF S
<1>12. sum \in [0 .. n -> T]
  BY <1>7, <1>11
<1>13. QED
  BY <1>8, <1>9, <1>12 DEF n, Next1, T, AddsInOrder

(* The fields that begin below a bit.                                        *)
Below(own, b) == {f \in own : f.bit < b}

(* One bit further there is at most one field more.                          *)
LEMMA BelowNext ==
  ASSUME NEW own, \A f \in own : f.bit \in Nat, \A f, g \in own : f.bit = g.bit => f = g,
         NEW b \in Nat \ {0}
  PROVE  LET at == {f \in own : f.bit = b - 1} IN
         /\ at = {} => Below(own, b) = Below(own, b - 1)
         /\ \A f \in at : f \in Below(own, b) /\ Below(own, b) \ {f} = Below(own, b - 1)
<1> DEFINE at == {f \in own : f.bit = b - 1}
<1>1. \A f \in own : f.bit < b <=> (f.bit < b - 1 \/ f.bit = b - 1)
  OBVIOUS
<1>2. \A f \in own : ~(f.bit = b - 1 /\ f.bit < b - 1)
  OBVIOUS
<1>3. ASSUME at = {} PROVE Below(own, b) = Below(own, b - 1)
  BY <1>1, <1>3 DEF Below
<1>4. ASSUME NEW f \in at PROVE f \in Below(own, b) /\ Below(own, b) \ {f} = Below(own, b - 1)
  <2>1. \A g \in own : g.bit = b - 1 <=> g = f
    OBVIOUS
  <2>2. f \in Below(own, b)
    BY <1>1 DEF Below
  <2>3. Below(own, b) \ {f} = Below(own, b - 1)
    BY <1>1, <1>2, <2>1 DEF Below
  <2>4. QED
    BY <2>2, <2>3
<1>5. QED
  BY <1>3, <1>4

(* How the sums of numbers, and of their magnitudes, grow by one.            *)
SumOf(own, g, total) ==
    /\ total \in [SUBSET own -> Int]
    /\ total[{}] = 0
    /\ \A s \in SUBSET own : \A x \in s : total[s] = g[x] + total[s \ {x}]
    /\ SumFunction(g) = total[own]

(* Every finite sum of integers is built so.                                 *)
LEMMA SumOfExists ==
  ASSUME NEW own, IsFiniteSet(own), NEW g \in [own -> Int]
  PROVE  \E total : SumOf(own, g, total)
BY SumFunctionFacts DEF SumOf

(* What has been added below a bit, against the exact sum of the values and  *)
(* that of their magnitudes.                                                 *)
AddedSoFar(added, exact, size, pos, neg) ==
    /\ added \in Int /\ exact \in Int /\ size \in Nat /\ -size <= exact /\ exact <= size
    /\ size <= IntMax => added = exact
    /\ pos => exact >= 0 /\ added = IF exact > IntMax THEN IntMax ELSE exact
    /\ neg => exact <= 0 /\ added = IF exact < IntMin THEN IntMin ELSE exact

(* One more value, saturated, keeps what is known of the sum.                *)
LEMMA OneMore ==
  ASSUME NEW pos, NEW neg, NEW added, NEW exact, NEW size, AddedSoFar(added, exact, size, pos, neg),
         NEW v \in Int, pos => v >= 0, neg => v <= 0
  PROVE  AddedSoFar(AddSaturated(added, v), v + exact, Magnitude(v) + size, pos, neg)
BY WordLimits DEF AddedSoFar, AddSaturated, Magnitude

(* AddedInOrder is the sum of the values of an axis' fields, exactly when    *)
(* they fit a word together, and the limit when they exceed it on one side.  *)
LEMMA AxisSum ==
  ASSUME NEW own, IsFiniteSet(own), NEW bits \in Nat, NEW data, NEW value,
         \A f \in own : f.bit \in Nat /\ f.bit < bits,
         \A f, g \in own : f.bit = g.bit => f = g,
         value \in [own -> Int], \A f \in own : ExtractField(data, f) = value[f]
  PROVE  LET sum == SumFunction(value)
             size == SumFunction([f \in own |-> Magnitude(value[f])])
             decoded == AddedInOrder(own, bits, data) IN
         /\ decoded \in IntMin .. IntMax
         /\ size <= IntMax => decoded = sum
         /\ (\A f \in own : value[f] >= 0) /\ sum > IntMax => decoded = IntMax
         /\ (\A f \in own : value[f] <= 0) /\ sum < IntMin => decoded = IntMin
<1> DEFINE n == bits
           magnitude == [f \in own |-> Magnitude(value[f])]
           pos == \A f \in own : value[f] >= 0
           neg == \A f \in own : value[f] <= 0
<1>1. /\ magnitude \in [own -> Int]
      /\ \A f \in own : value[f] \in Int /\ magnitude[f] = Magnitude(value[f])
  BY DEF Magnitude
<1>2. PICK total : SumOf(own, value, total)
  BY SumOfExists
<1> HIDE DEF magnitude, pos, neg
<1>3. PICK sizes : SumOf(own, magnitude, sizes)
  BY <1>1, SumOfExists
<1>4. PICK sum \in [0 .. n -> IntMin .. IntMax] : AddsInOrder(own, bits, data, sum)
  <2>1. \A f \in own : ExtractField(data, f) \in Int
    OBVIOUS
  <2>2. QED
    BY <2>1, AxisLoop
<1> DEFINE Good(b) == AddedSoFar(sum[b], total[Below(own, b)], sizes[Below(own, b)], pos, neg)
<1>5. \A b \in Nat : Below(own, b) \in SUBSET own
  BY DEF Below
<1>6. Good(0)
  <2>1. Below(own, 0) = {}
    BY DEF Below
  <2>2. sum[0] = 0 /\ total[{}] = 0 /\ sizes[{}] = 0
    BY <1>2, <1>3, <1>4 DEF AddsInOrder, SumOf
  <2>3. AddedSoFar(0, 0, 0, pos, neg)
    BY WordLimits DEF AddedSoFar
  <2>4. QED
    BY <2>1, <2>2, <2>3
<1>7. ASSUME NEW b \in 1 .. n, Good(b - 1) PROVE Good(b)
  <2> DEFINE at == {f \in own : f.bit = b - 1}
  <2>1. FieldsAt(own, b - 1) = at
    BY DEF FieldsAt
  <2>2. sum[b] = IF at = {} THEN sum[b - 1]
                 ELSE AddSaturated(sum[b - 1], ExtractField(data, CHOOSE f \in at : TRUE))
    BY <1>4, <2>1 DEF AddsInOrder
  <2>3. /\ at = {} => Below(own, b) = Below(own, b - 1)
        /\ \A f \in at : f \in Below(own, b) /\ Below(own, b) \ {f} = Below(own, b - 1)
    <3>1. /\ \A f \in own : f.bit \in Nat
          /\ \A f, g \in own : f.bit = g.bit => f = g
          /\ b \in Nat \ {0}
      OBVIOUS
    <3>2. QED
      BY ONLY <3>1, BelowNext
  <2>4. CASE at = {}
    BY <1>7, <2>2, <2>3, <2>4
  <2>5. CASE at # {}
    <3> DEFINE f == CHOOSE f \in at : TRUE
               low == Below(own, b - 1)
    <3>1. f \in at /\ f \in own
      BY <2>5
    <3>2. sum[b] = AddSaturated(sum[b - 1], value[f])
      BY <2>2, <2>5, <3>1
    <3> HIDE DEF f, at
    <3>3. Below(own, b) \in SUBSET own /\ f \in Below(own, b) /\ Below(own, b) \ {f} = low
      <4>1. b \in Nat
        OBVIOUS
      <4>2. QED
        BY <1>5, <2>3, <3>1, <4>1
    <3> HIDE DEF low
    <3>4. total[Below(own, b)] = value[f] + total[low]
      BY <1>2, <3>3 DEF SumOf
    <3>5. sizes[Below(own, b)] = Magnitude(value[f]) + sizes[low]
      <4>1. sizes[Below(own, b)] = magnitude[f] + sizes[low]
        BY <1>3, <3>3 DEF SumOf
      <4>2. QED
        BY <1>1, <3>1, <4>1
    <3>6. value[f] \in Int /\ (pos => value[f] >= 0) /\ (neg => value[f] <= 0)
      BY <1>1, <3>1 DEF pos, neg
    <3>7. AddedSoFar(sum[b - 1], total[low], sizes[low], pos, neg)
      BY <1>7 DEF low
    <3>8. QED
      BY <3>2, <3>4, <3>5, <3>6, <3>7, OneMore
  <2>6. QED
    BY <2>4, <2>5
<1>8. Good(n)
  <2> DEFINE S == {b \in 0 .. n : Good(b)}
  <2>1. 0 \in S /\ \A b \in 1 .. n : b - 1 \in S => b \in S
    <3> HIDE DEF Good
    <3>1. QED
      BY <1>6, <1>7
  <2>2. n \in 0 .. n
    OBVIOUS
  <2> HIDE DEF S
  <2>3. \A b \in 0 .. n : b \in S
    BY <2>1, InductionUpTo
  <2>4. QED
    BY <2>2, <2>3 DEF S
<1>9. Below(own, n) = own
  BY DEF Below
<1>10. AddedSoFar(AddedInOrder(own, bits, data), SumFunction(value), SumFunction(magnitude),
                  pos, neg)
  BY <1>2, <1>3, <1>4, <1>8, <1>9 DEF AddsInOrder, SumOf
<1>11. AddedInOrder(own, bits, data) \in IntMin .. IntMax
  BY <1>4 DEF AddsInOrder
<1>12. QED
  BY <1>10, <1>11 DEF AddedSoFar, magnitude, pos, neg

--------------------------------------------------------------------------------
(* Decoded reports.                                                          *)

(* Nothing has been taken from a session's reports.                          *)
Quiet ==
    /\ output = NoOutput
    /\ latest = [c \in Characteristics |-> << >>]
    /\ buttons = [c \in Characteristics |-> {}]

(* What is kept of a characteristic is what its latest payload says.         *)
Kept(c) ==
    IF latest[c] = << >> THEN buttons[c] = {}
    ELSE Decodes(refs[c], latest[c]) /\ buttons[c] = DecodedButtons(refs[c], latest[c])

(* What was handed on is c's latest payload, with the buttons of all.        *)
HandedOn(c) ==
    /\ latest[c] # << >>
    /\ output = [from |-> <<c>>,
                 frame |-> [a \in Axes |-> DecodedAxis(refs[c], latest[c], a)],
                 physical |-> UNION {buttons[d] : d \in Characteristics}]

Reporting ==
    /\ refs \in [Characteristics -> scenario.ids \cup {0}]
    /\ latest \in [Characteristics -> {<< >>} \cup Payloads]
    /\ buttons \in [Characteristics -> SUBSET Buttons]
    /\ status # "ok" => Quiet
    /\ \A c \in Characteristics : Kept(c)
    /\ output = NoOutput \/ \E c \in Characteristics : HandedOn(c)

(* A session keeps its tables and characteristics.                           *)
LEMMA ScenarioKept ==
  ASSUME [ParserNext]_vars
  PROVE  scenario' = scenario
<1>1. ASSUME NEW err, Fail(err) PROVE scenario' = scenario
  BY <1>1 DEF Fail, Clear
<1>2. CASE UNCHANGED vars
  BY <1>2 DEF vars, mapVars
<1>3. CASE Parse \/ Truncated \/ End
  BY <1>1, <1>3 DEF Parse, Truncated, End, Clear, mapVars
<1>4. ASSUME NEW v, UsagePage(v) \/ ReportSize(v) \/ ReportId(v) \/ ReportCount(v)
      PROVE  scenario' = scenario
  BY <1>1, <1>4 DEF UsagePage, ReportSize, ReportId, ReportCount, SetGlobal, mapVars
<1>5. ASSUME NEW v, NEW bytes,
             \/ LogicalMinimum(v, bytes) \/ Usage(v, bytes)
             \/ UsageMinimum(v, bytes) \/ UsageMaximum(v, bytes)
      PROVE  scenario' = scenario
  BY <1>1, <1>5
     DEF LogicalMinimum, Usage, UsageMinimum, UsageMaximum, SetGlobal, SetLocal, mapVars
<1>6. CASE Push \/ Pop \/ Delimiter \/ OtherMain \/ EndCollection
  BY <1>1, <1>6 DEF Push, Pop, Delimiter, OtherMain, EndCollection, mapVars
<1>7. ASSUME NEW application, Collection(application) PROVE scenario' = scenario
  BY <1>1, <1>7 DEF Collection, mapVars
<1>8. ASSUME NEW flags, Input(flags) PROVE scenario' = scenario
  BY <1>1, <1>8 DEF Input
<1>9. QED
  BY <1>2, <1>3, <1>4, <1>5, <1>6, <1>7, <1>8 DEF ParserNext

(* A payload is a sequence of bytes.                                         *)
LEMMA PayloadBytes ==
  ASSUME NEW data \in Payloads
  PROVE  Len(data) \in Nat /\ data \in [1 .. Len(data) -> Byte]
<1>1. PICK n \in 0 .. MaxReportBytes : data \in [1 .. n -> Byte]
  BY DEF Payloads, Byte
<1>2. n \in Nat
  OBVIOUS
<1>3. data \in Seq(Byte)
  BY <1>1, <1>2, SeqDef
<1>4. Len(data) \in Nat /\ DOMAIN data = 1 .. Len(data) /\ DOMAIN data = 1 .. n
  BY <1>1, <1>3, LenProperties
<1>5. Len(data) = n
  <2> DEFINE m == Len(data)
  <2>1. m \in Nat /\ 1 .. m = 1 .. n
    BY <1>4
  <2> HIDE DEF m
  <2>2. m # 0 => m \in 1 .. n
    BY <2>1
  <2>3. n # 0 => n \in 1 .. m
    BY <1>2, <2>1
  <2>4. m = n
    BY <1>2, <2>1, <2>2, <2>3
  <2>5. QED
    BY <2>4 DEF m
<1>6. QED
  BY <1>1, <1>2, <1>5

(* A payload of a report's length holds all of its bits.                     *)
LEMMA BytesHoldBits ==
  ASSUME NEW bits \in Nat
  PROVE  Bytes(bits) \in Nat /\ bits <= ByteBits * Bytes(bits)
<1> DEFINE x == bits + ByteBits - 1
           q == x \div ByteBits
           r == x % ByteBits
<1>1. ByteBits \in Nat \ {0} /\ x \in Nat /\ x \in Int
  BY WidthAssumption
<1>2. q \in Nat /\ r \in 0 .. ByteBits - 1 /\ x = q * ByteBits + r
  <2> HIDE DEF x
  <2>1. QED
    BY <1>1, Division
<1>3. Bytes(bits) = q
  BY DEF Bytes
<1> HIDE DEF q, r
<1>4. bits <= q * ByteBits /\ q * ByteBits = ByteBits * q
  BY <1>1, <1>2
<1>5. QED
  BY <1>2, <1>3, <1>4

(* What is known of the fields of a report that a payload decodes by.        *)
LEMMA DecodedFields ==
  ASSUME Parsing, Layout, NEW id, NEW data \in Payloads, Decodes(id, data), NEW f \in FieldsOf(id)
  PROVE  /\ f.bit \in Nat /\ f.bit < reports[id].bits /\ f.size \in Nat \ {0}
         /\ ExtractField(data, f) = RefValue(data, f) /\ RefValue(data, f) \in Int
         /\ ExtractField(data, f) # 0 <=> Digits(data, f) # 0
<1>1. f \in fields /\ f.report = id /\ Tables /\ Rooms /\ Placed
  BY DEF FieldsOf, Layout
<1>2. f.bit \in Nat /\ f.size \in Nat \ {0} /\ f.bit + f.size <= reports[id].bits
  BY <1>1, FieldTypes, Sound
<1>3. f.size \in 1 .. WordBits /\ f.is_signed \in BOOLEAN
  <2>1. f \in FieldRecords(DOMAIN reports)
    BY <1>1 DEF Tables
  <2>2. QED
    BY <2>1 DEF FieldRecords
<1>4. reports[id].bits \in Nat
  <2>1. id \in DOMAIN reports
    BY DEF Decodes
  <2>2. reports[id] \in Reports /\ MaxBits \in Nat
    BY <1>1, <2>1, ScenarioTypes DEF Tables, Parsing
  <2>3. QED
    BY <2>2 DEF Reports
<1> DEFINE L == Len(data)
<1>5. L \in Nat /\ data \in [1 .. L -> Byte] /\ L = Bytes(reports[id].bits)
  BY PayloadBytes DEF Decodes
<1>6. f.bit + f.size <= ByteBits * L
  <2>1. reports[id].bits <= ByteBits * L
    BY <1>4, <1>5, BytesHoldBits
  <2>2. ByteBits * L \in Int
    BY <1>5, WidthAssumption
  <2>3. QED
    BY <1>2, <1>4, <2>1, <2>2
<1>7. f.size \in Nat
  BY <1>2
<1> HIDE DEF L
<1>8. RawValue(data, f) = Digits(data, f) /\ Digits(data, f) \in 0 .. Shift[f.size] - 1
  BY <1>2, <1>5, <1>6, <1>7, RawDigits DEF L
<1>9. QED
  BY <1>2, <1>3, <1>4, <1>8, ExtractsValue

(* A report that is decoded has a field, so it has a payload.                *)
LEMMA DecodedPayload ==
  ASSUME Parsing, Layout, NEW id, NEW data \in Payloads, Decodes(id, data)
  PROVE  /\ reports[id].bits \in Nat /\ data # << >>
         /\ \A axis \in Axes :
                LET own == {f \in FieldsOf(id) : f.usage = axis} IN
                IsFiniteSet(own) /\ \A f, g \in own : f.bit = g.bit => f = g
<1>1. id \in DOMAIN reports /\ reports[id].useful /\ Tables /\ SummaryAgrees /\ Apart
  BY DEF Decodes, Layout
<1>2. reports[id].bits \in Nat
  <2>1. reports[id] \in Reports /\ MaxBits \in Nat
    BY <1>1, ScenarioTypes DEF Tables, Parsing
  <2>2. QED
    BY <2>1 DEF Reports
<1>3. data # << >>
  <2>1. PICK f : f \in FieldsOf(id)
    BY <1>1 DEF SummaryAgrees, FieldsOf
  <2>2. f.bit \in Nat /\ f.bit < reports[id].bits
    BY <2>1, DecodedFields
  <2>3. Bytes(reports[id].bits) \in Nat /\ reports[id].bits <= ByteBits * Bytes(reports[id].bits)
    BY <1>2, BytesHoldBits
  <2>4. Bytes(reports[id].bits) # 0
    <3> DEFINE n == Bytes(reports[id].bits)
    <3>1. n = 0 => ByteBits * n = 0
      BY WidthAssumption
    <3> HIDE DEF n
    <3>2. n # 0
      BY <1>2, <2>2, <2>3, <3>1 DEF n
    <3>3. QED
      BY <3>2 DEF n
  <2>5. Len(<< >>) = 0
    OBVIOUS
  <2>6. QED
    BY <2>4, <2>5 DEF Decodes
<1>4. ASSUME NEW axis \in Axes
      PROVE  LET own == {f \in FieldsOf(id) : f.usage = axis} IN
             IsFiniteSet(own) /\ \A f, g \in own : f.bit = g.bit => f = g
  <2> DEFINE own == {f \in FieldsOf(id) : f.usage = axis}
  <2>1. own \subseteq fields /\ IsFiniteSet(fields)
    BY <1>1 DEF FieldsOf, Tables
  <2>2. IsFiniteSet(own)
    BY <2>1, FS_Subset
  <2>3. ASSUME NEW f \in own, NEW g \in own, f.bit = g.bit, f # g PROVE FALSE
    <3>1. f \in fields /\ g \in fields /\ f.report = g.report
      BY DEF FieldsOf
    <3>2. f.bit + f.size <= g.bit \/ g.bit + g.size <= f.bit
      BY <1>1, <2>3, <3>1 DEF Apart
    <3>3. f.bit \in Nat /\ f.size \in Nat \ {0} /\ g.bit \in Nat /\ g.size \in Nat \ {0}
      <4>1. f \in FieldsOf(id) /\ g \in FieldsOf(id)
        OBVIOUS
      <4>2. QED
        BY <4>1, DecodedFields
    <3>4. QED
      BY <2>3, <3>2, <3>3
  <2>4. QED
    BY <2>2, <2>3
<1>5. QED
  BY <1>2, <1>3, <1>4

(* The motion of a payload, against the reference.                           *)
LEMMA DecodedMotion ==
  ASSUME Parsing, Layout, NEW id, NEW data \in Payloads, Decodes(id, data), NEW axis \in Axes
  PROVE  LET own == {f \in FieldsOf(id) : f.usage = axis}
             value == [f \in own |-> RefValue(data, f)]
             sum == SumFunction(value)
             decoded == DecodedAxis(id, data, axis) IN
         /\ decoded \in IntMin .. IntMax
         /\ SumFunction([f \in own |-> Magnitude(value[f])]) <= IntMax => decoded = sum
         /\ (\A f \in own : value[f] >= 0) /\ sum > IntMax => decoded = IntMax
         /\ (\A f \in own : value[f] <= 0) /\ sum < IntMin => decoded = IntMin
<1> DEFINE own == {f \in FieldsOf(id) : f.usage = axis}
           value == [f \in own |-> RefValue(data, f)]
           bits == reports[id].bits
<1>1. IsFiniteSet(own) /\ bits \in Nat /\ \A f, g \in own : f.bit = g.bit => f = g
  BY DecodedPayload
<1>2. \A f \in own : /\ f.bit \in Nat /\ f.bit < bits
                      /\ ExtractField(data, f) = RefValue(data, f) /\ RefValue(data, f) \in Int
  BY DecodedFields
<1>3. value \in [own -> Int] /\ \A f \in own : ExtractField(data, f) = value[f]
  BY <1>2
<1>4. DecodedAxis(id, data, axis) = AddedInOrder(own, bits, data)
  BY DEF DecodedAxis
<1> HIDE DEF own, value, bits
<1>5. \A f \in own : f.bit \in Nat /\ f.bit < bits
  BY <1>2
<1>6. LET sum == SumFunction(value)
          size == SumFunction([f \in own |-> Magnitude(value[f])])
          decoded == AddedInOrder(own, bits, data) IN
      /\ decoded \in IntMin .. IntMax
      /\ size <= IntMax => decoded = sum
      /\ (\A f \in own : value[f] >= 0) /\ sum > IntMax => decoded = IntMax
      /\ (\A f \in own : value[f] <= 0) /\ sum < IntMin => decoded = IntMin
  BY ONLY <1>1, <1>3, <1>5, AxisSum
<1>7. QED
  BY <1>4, <1>6 DEF own, value

(* The buttons of a payload, against the reference.                          *)
LEMMA DecodedPressed ==
  ASSUME Parsing, Layout, NEW id, NEW data \in Payloads, Decodes(id, data)
  PROVE  DecodedButtons(id, data) =
             {b \in Buttons : \E f \in FieldsOf(id) :
                 f.usage = "button" /\ f.button = b /\ Digits(data, f) # 0}
<1>1. \A f \in FieldsOf(id) : ExtractField(data, f) # 0 <=> Digits(data, f) # 0
  BY DecodedFields
<1>2. QED
  BY <1>1 DEF DecodedButtons

(* The motion handed on is that of its characteristic's latest payload.      *)
LEMMA ReportingDecodes ==
  ASSUME Parsing, Layout, Reporting
  PROVE  DecodeInv
<1>1. ASSUME NEW c \in Characteristics, HandedOn(c)
      PROVE  latest[c] \in Payloads /\ Decodes(refs[c], latest[c])
  BY <1>1 DEF Reporting, HandedOn, Kept
<1>2. output.frame \in [Axes -> IntMin .. IntMax]
  <2>1. CASE output = NoOutput
    BY <2>1, WordLimits DEF NoOutput, NoFrame
  <2>2. ASSUME NEW c \in Characteristics, HandedOn(c)
        PROVE  output.frame \in [Axes -> IntMin .. IntMax]
    <3>1. \A a \in Axes : DecodedAxis(refs[c], latest[c], a) \in IntMin .. IntMax
      BY <1>1, <2>2, DecodedMotion
    <3>2. output.frame = [a \in Axes |-> DecodedAxis(refs[c], latest[c], a)]
      BY <2>2 DEF HandedOn
    <3>3. QED
      BY <3>1, <3>2
  <2>3. QED
    BY <2>1, <2>2 DEF Reporting
<1>3. output.physical \subseteq Buttons
  BY DEF Reporting, HandedOn, NoOutput
<1>4. ReportsTypeOK
  BY <1>2, <1>3 DEF ReportsTypeOK, Reporting
<1>5. MotionDecoded
  <2>1. SUFFICES ASSUME output.from # << >> PROVE MotionDecoded
    BY DEF MotionDecoded
  <2>2. PICK c \in Characteristics : HandedOn(c)
    BY <2>1 DEF Reporting, NoOutput
  <2>3. output.from[1] = c /\ output.frame = [a \in Axes |-> DecodedAxis(refs[c], latest[c], a)]
    BY <2>2 DEF HandedOn
  <2>4. ASSUME NEW a \in Axes
        PROVE  LET own == {f \in FieldsOf(refs[c]) : f.usage = a}
                   value == [f \in own |-> RefValue(latest[c], f)]
                   sum == SumFunction(value) IN
               /\ SumFunction([f \in own |-> Magnitude(value[f])]) <= IntMax =>
                      output.frame[a] = sum
               /\ (\A f \in own : value[f] >= 0) /\ sum > IntMax => output.frame[a] = IntMax
               /\ (\A f \in own : value[f] <= 0) /\ sum < IntMin => output.frame[a] = IntMin
    <3>1. output.frame[a] = DecodedAxis(refs[c], latest[c], a)
      BY <2>3
    <3>2. QED
      BY <1>1, <2>2, <3>1, DecodedMotion
  <2>5. QED
    BY <2>3, <2>4 DEF MotionDecoded
<1>6. QED
  BY <1>4, <1>5 DEF DecodeInv

(* The buttons handed on are those of every characteristic's latest payload. *)
LEMMA ReportingPhysical ==
  ASSUME Parsing, Layout, Reporting
  PROVE  PhysicalIsTrue
<1>1. SUFFICES ASSUME output.from # << >> PROVE PhysicalIsTrue
  BY DEF PhysicalIsTrue
<1>2. output.physical = UNION {buttons[d] : d \in Characteristics}
  BY <1>1 DEF Reporting, HandedOn, NoOutput
<1> DEFINE Shown(d, b) ==
             \E f \in FieldsOf(refs[d]) :
                 f.usage = "button" /\ f.button = b /\ Digits(latest[d], f) # 0
<1>3. ASSUME NEW d \in Characteristics
      PROVE  \A b : b \in buttons[d] <=> b \in Buttons /\ latest[d] # << >> /\ Shown(d, b)
  <2>1. CASE latest[d] = << >>
    BY <2>1 DEF Reporting, Kept
  <2>2. CASE latest[d] # << >>
    <3>1. latest[d] \in Payloads /\ Decodes(refs[d], latest[d])
          /\ buttons[d] = DecodedButtons(refs[d], latest[d])
      BY <2>2 DEF Reporting, Kept
    <3>2. buttons[d] = {b \in Buttons : Shown(d, b)}
      BY <3>1, DecodedPressed
    <3> HIDE DEF Shown
    <3>3. QED
      BY <2>2, <3>2
  <2>3. QED
    BY <2>1, <2>2
<1>4. PhysicalIsTrue <=>
        output.physical =
            {b \in Buttons : \E d \in Characteristics : latest[d] # << >> /\ Shown(d, b)}
  BY <1>1 DEF PhysicalIsTrue
<1> HIDE DEF Shown
<1>5. QED
  BY <1>2, <1>3, <1>4

(* The state of the reports is kept when nothing it depends on changes.      *)
LEMMA ReportingKept ==
  ASSUME Reporting, UNCHANGED allVars
  PROVE  Reporting'
<1>1. /\ refs' = refs /\ buttons' = buttons /\ output' = output /\ latest' = latest
      /\ scenario' = scenario /\ status' = status /\ reports' = reports /\ fields' = fields
  BY DEF allVars, reportVars, vars, mapVars, layoutVars
<1>2. Characteristics' = Characteristics /\ Payloads' = Payloads
  BY <1>1 DEF Characteristics, Payloads, MaxReportBytes
<1>3. ASSUME NEW c \in Characteristics PROVE Kept(c)'
  <2>1. Kept(c)
    BY DEF Reporting
  <2>2. QED
    BY <1>1, <2>1 DEF Kept, Decodes, DecodedButtons, FieldsOf
<1>4. (status # "ok" => Quiet)'
  BY <1>1, <1>2 DEF Reporting, Quiet
<1>5. ASSUME NEW c \in Characteristics, HandedOn(c) PROVE HandedOn(c)'
  BY <1>1, <1>2, <1>5 DEF HandedOn, DecodedAxis, FieldsOf
<1>6. (output = NoOutput \/ \E c \in Characteristics : HandedOn(c))'
  BY <1>1, <1>2, <1>5 DEF Reporting
<1>7. QED
  BY <1>1, <1>2, <1>3, <1>4, <1>6 DEF Reporting

(* Where nothing was taken from the reports, nothing is owed.                *)
LEMMA ReportingQuiet ==
  /\ refs \in [Characteristics -> scenario.ids \cup {0}]
  /\ Quiet
  => Reporting
<1>1. << >> \in {<< >>} \cup Payloads
  OBVIOUS
<1>2. ASSUME Quiet, NEW c \in Characteristics PROVE Kept(c)
  BY <1>2 DEF Quiet, Kept
<1>3. ASSUME Quiet
      PROVE  /\ latest \in [Characteristics -> {<< >>} \cup Payloads]
             /\ buttons \in [Characteristics -> SUBSET Buttons]
             /\ output = NoOutput
  BY <1>3 DEF Quiet
<1>4. QED
  BY <1>2, <1>3 DEF Reporting

(* The same of the next state.                                               *)
LEMMA ReportingQuietNext ==
  ((refs \in [Characteristics -> scenario.ids \cup {0}]) /\ Quiet)' => Reporting'
BY ReportingQuiet, PTL

(* A new session owes nothing to the one before.                             *)
LEMMA ReportingSession ==
  ASSUME Session
  PROVE  Reporting'
<1>1. scenario' = scenario
  BY ScenarioKept DEF Session, Parse, Clear
<1>2. /\ refs' \in [Characteristics -> scenario.ids \cup {0}]
      /\ output' = NoOutput
      /\ buttons' = [c \in Characteristics |-> {}]
      /\ latest' = [c \in Characteristics |-> << >>]
  BY DEF Session, ClearButtons
<1>3. Characteristics' = Characteristics
  BY <1>1 DEF Characteristics
<1>4. QED
  BY <1>1, <1>2, <1>3, ReportingQuietNext DEF Quiet

(* While the map is parsed nothing is taken from the reports.                *)
LEMMA ReportingParse ==
  ASSUME Reporting, status = "parsing", ParserNext, UNCHANGED reportVars
  PROVE  Reporting'
<1>1. scenario' = scenario
  BY ScenarioKept
<1>2. Quiet /\ refs \in [Characteristics -> scenario.ids \cup {0}]
  BY DEF Reporting
<1>3. Characteristics' = Characteristics
  BY <1>1 DEF Characteristics
<1>4. refs' = refs /\ buttons' = buttons /\ output' = output /\ latest' = latest
  BY DEF reportVars
<1>5. QED
  BY <1>1, <1>2, <1>3, <1>4, ReportingQuietNext DEF Quiet

(* notify_cb takes a payload's motion, and its buttons with all others'.     *)
LEMMA ReportingNotify ==
  ASSUME Parsing, Layout, Reporting, NEW c \in Characteristics, NEW data \in Payloads,
         Notify(c, data)
  PROVE  Reporting'
<1> DEFINE pressed == DecodedButtons(refs[c], data)
<1>1. /\ refs' = refs /\ scenario' = scenario /\ status' = status
      /\ reports' = reports /\ fields' = fields
  BY DEF Notify, vars, mapVars, layoutVars
<1>2. /\ status = "ok" /\ Decodes(refs[c], data)
      /\ buttons' = [buttons EXCEPT ![c] = pressed]
      /\ latest' = [latest EXCEPT ![c] = data]
      /\ output' = [from |-> <<c>>,
                    frame |-> [a \in Axes |-> DecodedAxis(refs[c], data, a)],
                    physical |-> Held(c, pressed)]
  BY DEF Notify
<1>3. Characteristics' = Characteristics /\ Payloads' = Payloads
  BY <1>1 DEF Characteristics, Payloads, MaxReportBytes
<1>4. pressed \subseteq Buttons /\ data # << >>
  BY <1>2, DecodedPayload DEF DecodedButtons
<1>5. /\ latest \in [Characteristics -> {<< >>} \cup Payloads]
      /\ buttons \in [Characteristics -> SUBSET Buttons]
      /\ refs \in [Characteristics -> scenario.ids \cup {0}]
  BY DEF Reporting
<1>6. /\ latest'[c] = data /\ buttons'[c] = pressed
      /\ \A d \in Characteristics \ {c} : latest'[d] = latest[d] /\ buttons'[d] = buttons[d]
  BY <1>2, <1>5
<1>7. /\ (Decodes(refs[c], latest[c]))'
      /\ (DecodedButtons(refs[c], latest[c]))' = pressed
      /\ \A a : (DecodedAxis(refs[c], latest[c], a))' = DecodedAxis(refs[c], data, a)
  BY <1>1, <1>2, <1>6 DEF Decodes, DecodedButtons, DecodedAxis, FieldsOf
<1>8. ASSUME NEW d \in Characteristics PROVE Kept(d)'
  <2>1. CASE d = c
    BY <1>4, <1>6, <1>7, <2>1 DEF Kept
  <2>2. CASE d # c
    <3>1. Kept(d)
      BY DEF Reporting
    <3>2. QED
      BY <1>1, <1>6, <2>2, <3>1 DEF Kept, Decodes, DecodedButtons, FieldsOf
  <2>3. QED
    BY <2>1, <2>2
<1>9. HandedOn(c)'
  <2>1. Held(c, pressed) = UNION {buttons'[d] : d \in Characteristics}
    <3> HIDE DEF pressed
    <3>1. QED
      BY <1>6 DEF Held
  <2>2. (latest[c] # << >>)'
    BY <1>4, <1>6
  <2>3. [a \in Axes |-> DecodedAxis(refs[c], data, a)]
          = [a \in Axes |-> (DecodedAxis(refs[c], latest[c], a))']
    BY <1>7
  <2>4. QED
    BY <1>2, <1>3, <2>1, <2>2, <2>3 DEF HandedOn
<1>10. /\ (latest \in [Characteristics -> {<< >>} \cup Payloads])'
       /\ (buttons \in [Characteristics -> SUBSET Buttons])'
       /\ (refs \in [Characteristics -> scenario.ids \cup {0}])'
       /\ (status # "ok" => Quiet)'
  BY <1>1, <1>2, <1>3, <1>4, <1>5
<1>11. QED
  BY <1>3, <1>8, <1>9, <1>10 DEF Reporting

(* What the reports owe is kept by every step of the client.                 *)
LEMMA ReportingNext ==
  ASSUME Parsing, Layout, Reporting, [ReportsNext]_allVars
  PROVE  (Parsing /\ Layout /\ Reporting)'
<1>1. [ParserNext]_vars
  BY DEF ReportsNext, Session, Notify, allVars, ParserNext
<1>2. Reporting'
  BY ReportingKept, ReportingSession, ReportingParse, ReportingNotify DEF ReportsNext
<1>3. QED
  BY <1>1, <1>2, ParsingNext, LayoutNext

(* mouse_hid_parse and notify_cb: the layout is sound, and what is kept of   *)
(* each characteristic is what its latest payload says, in every session.    *)
THEOREM ReportsInv == ReportsSpec => [](Parsing /\ Layout /\ Reporting)
<1>1. ReportsInit => Parsing /\ Layout /\ Reporting
  <2>1. Init => Parsing
    BY ParsingInit
  <2>2. Init => Layout
    BY EmptyLayout DEF Init, NothingTaken
  <2>3. ReportsInit => Reporting
    BY ReportingQuiet DEF ReportsInit, Quiet
  <2>4. QED
    BY <2>1, <2>2, <2>3 DEF ReportsInit
<1>2. Parsing /\ Layout /\ Reporting /\ [ReportsNext]_allVars => (Parsing /\ Layout /\ Reporting)'
  BY ReportingNext
<1>3. QED
  BY <1>1, <1>2, PTL DEF ReportsSpec

(* mouse_hid_decode, extract_field, signed_bits and add_saturated: the       *)
(* motion handed on is that of the payload's digits, in words and payloads   *)
(* of any width, exactly while the values fit a word together and at its     *)
(* limit when they exceed it on one side.                                    *)
THEOREM MotionIsDecoded == ReportsSpec => []DecodeInv
<1>1. Parsing /\ Layout /\ Reporting => DecodeInv
  BY ReportingDecodes
<1>2. QED
  BY <1>1, ReportsInv, PTL

(* notify_cb's loop over session.reports: the physical buttons are those     *)
(* that the latest payloads of this session show pressed, for any number of  *)
(* characteristics and reports.                                              *)
THEOREM ButtonsAreTrue == ReportsSpec => []PhysicalIsTrue
<1>1. Parsing /\ Layout /\ Reporting => PhysicalIsTrue
  BY ReportingPhysical
<1>2. QED
  BY <1>1, ReportsInv, PTL
================================================================================
