---------------------------- MODULE InterpProofs -----------------------------
(***************************************************************************)
(* The interpreter, for every width of bytes and words, every memory and   *)
(* every program: registers and memory stay numbers of their width, what   *)
(* the terminal shows is what the program's buffer holds, and each step is *)
(* one of the processor of module X86.                                     *)
(***************************************************************************)
EXTENDS Interp, SequenceTheorems, WellFoundedInduction, TLAPS
-----------------------------------------------------------------------------
(* Arithmetic *)

LEMMA DivisionFact ==
  ASSUME NEW a \in Int, NEW n \in Nat \ {0}
  PROVE  /\ a \div n \in Int /\ a % n \in 0 .. n - 1
         /\ a = (a \div n) * n + (a % n)
OBVIOUS

\* The remainder is the only one.
LEMMA RemainderIs ==
  ASSUME NEW q \in Int, NEW n \in Nat \ {0}, NEW r \in 0 .. n - 1
  PROVE  (q * n + r) % n = r /\ (q * n + r) \div n = q
OBVIOUS

\* Numbers that differ by a multiple have the same remainder.
LEMMA SameRemainder ==
  ASSUME NEW b \in Int, NEW q \in Int, NEW n \in Nat \ {0}
  PROVE  (b + q * n) % n = b % n
<1>1. PICK d \in Int, r \in 0 .. n - 1 : b = d * n + r
  BY DivisionFact
<1>2. b + q * n = (d + q) * n + r /\ d + q \in Int
  BY <1>1
<1>3. ((d + q) * n + r) % n = r
  BY <1>2, RemainderIs, Zenon
<1>4. (d * n + r) % n = r
  BY <1>1, RemainderIs, Zenon
<1>5. QED BY <1>1, <1>2, <1>3, <1>4, Zenon

LEMMA SmallRemainder ==
  ASSUME NEW n \in Nat \ {0}, NEW a \in 0 .. n - 1
  PROVE  a % n = a
OBVIOUS

LEMMA LeastOf ==
  ASSUME NEW S \in SUBSET Nat, S # {}
  PROVE  \E x \in S : \A y \in S : x <= y
<1>1. PICK x \in S : \A y \in S : ~(<<y, x>> \in OpToRel(<, Nat))
  BY NatLessThanWellFounded, WFMin, Zenon
<1>2. \A y \in S : x <= y
  <2>1. ASSUME NEW y \in S, y < x PROVE FALSE
    <3>1. <<y, x>> \in OpToRel(<, Nat)
      BY <2>1 DEF OpToRel
    <3>2. QED BY <1>1, <3>1
  <2>2. QED BY <2>1
<1>3. QED BY <1>2
-----------------------------------------------------------------------------
(* Widths *)

LEMMA Widths ==
  /\ BYTE \in Nat /\ BYTE >= 2 /\ BYTE % 2 = 0 /\ BYTE <= 256
  /\ W32 \in Nat \ {0} /\ W64 \in Nat \ {0} /\ W64 = 2 * W32
BY FormsAssumption

\* p holds the powers of BYTE up to n.
Powers(p, n) ==
  /\ p \in [0 .. n -> Nat \ {0}] /\ p[0] = 1
  /\ \A i \in 1 .. n : p[i] = BYTE * p[i - 1]

LEMMA PowersExist ==
  ASSUME NEW n \in Nat
  PROVE  \E p : Powers(p, n)
<1> DEFINE S == {k \in Nat : ~ \E p : Powers(p, k)}
<1>1. SUFFICES ASSUME S # {} PROVE FALSE
  OBVIOUS
<1>2. PICK m \in S : \A y \in S : m <= y
  BY <1>1, LeastOf
<1> HIDE DEF S
<1>3. m \in Nat /\ ~ \E p : Powers(p, m)
  BY <1>2 DEF S
<1>4. m # 0
  <2>1. PICK z : z = [i \in 0 .. 0 |-> 1]
    OBVIOUS
  <2>2. Powers(z, 0)
    BY <2>1 DEF Powers
  <2>3. QED BY <1>3, <2>2
<1>5. m - 1 \in Nat /\ m - 1 \notin S
  BY <1>2, <1>3, <1>4
<1>6. PICK g : Powers(g, m - 1)
  BY <1>5 DEF S
<1>7. g \in [0 .. m - 1 -> Nat \ {0}] /\ g[0] = 1 /\ \A i \in 1 .. m - 1 : g[i] = BYTE * g[i - 1]
  BY <1>6 DEF Powers
<1>8. PICK b \in Nat \ {0} : b = BYTE * g[m - 1]
  <2>1. g[m - 1] \in Nat \ {0}
    BY <1>3, <1>4, <1>7
  <2>2. PICK c \in Nat \ {0}, d \in Nat \ {0} : c = BYTE /\ d = g[m - 1]
    BY <2>1, Widths
  <2>3. c * d \in Nat \ {0}
    OBVIOUS
  <2>4. QED BY <2>2, <2>3, Zenon
<1>9. PICK h : h = [i \in 0 .. m |-> IF i = m THEN b ELSE g[i]]
  OBVIOUS
<1>10. h \in [0 .. m -> Nat \ {0}] /\ h[0] = 1 /\ h[m] = b
  BY <1>3, <1>4, <1>7, <1>9
<1>11. ASSUME NEW i \in 1 .. m PROVE h[i] = BYTE * h[i - 1]
  <2>1. h[i - 1] = g[i - 1]
    BY <1>3, <1>9
  <2>2. CASE i = m
    BY <1>8, <1>10, <2>1, <2>2, Zenon
  <2>3. CASE i # m
    <3>1. i \in 1 .. m - 1 /\ h[i] = g[i]
      BY <1>3, <1>9, <2>3
    <3>2. QED BY <1>7, <2>1, <3>1, Zenon
  <2>4. QED BY <2>2, <2>3
<1>12. Powers(h, m)
  BY <1>10, <1>11, Zenon DEF Powers
<1>13. QED BY <1>3, <1>12

LEMMA PowIs == Powers(Pow, W64)
<1>1. PICK n \in Nat : n = W64
  BY Widths
<1>2. PICK g : Powers(g, n)
  BY PowersExist
<1>3. g = [i \in 0 .. n |-> IF i = 0 THEN 1 ELSE BYTE * g[i - 1]]
  <2>1. g \in [0 .. n -> Nat \ {0}] /\ g[0] = 1 /\ \A i \in 1 .. n : g[i] = BYTE * g[i - 1]
    BY <1>2 DEF Powers
  <2>2. \A i \in 0 .. n : i # 0 => i \in 1 .. n
    OBVIOUS
  <2>3. \A i \in 0 .. n : g[i] = IF i = 0 THEN 1 ELSE BYTE * g[i - 1]
    BY <2>1, <2>2, Zenon
  <2>4. QED BY <2>1, <2>3
<1>4. Pow = [i \in 0 .. n |-> IF i = 0 THEN 1 ELSE BYTE * Pow[i - 1]]
  BY <1>1, <1>3, Zenon DEF Pow
<1>5. PICK t : t = Pow
  OBVIOUS
<1>6. t = [i \in 0 .. n |-> IF i = 0 THEN 1 ELSE BYTE * t[i - 1]]
  BY <1>4, <1>5, Zenon
<1>7. \A i \in 0 .. n : t[i] = g[i]
  <2> DEFINE S == {i \in 0 .. n : t[i] # g[i]}
  <2>1. SUFFICES ASSUME S # {} PROVE FALSE
    OBVIOUS
  <2>2. PICK m \in S : \A y \in S : m <= y
    <3>1. S \in SUBSET Nat
      OBVIOUS
    <3>2. QED BY <2>1, <3>1, LeastOf
  <2>3. m \in 0 .. n /\ t[m] # g[m]
    OBVIOUS
  <2>4. m # 0
    <3>1. t[0] = 1 /\ g[0] = 1
      BY <1>2, <1>6 DEF Powers
    <3>2. QED BY <2>3, <3>1
  <2>5. m - 1 \in 0 .. n /\ ~(m <= m - 1)
    BY <2>3, <2>4
  <2>6. t[m - 1] = g[m - 1]
    BY <2>2, <2>5
  <2>7. t[m] = BYTE * t[m - 1] /\ g[m] = BYTE * g[m - 1]
    <3>1. m \in 1 .. n
      BY <2>3, <2>4
    <3>2. t[m] = BYTE * t[m - 1]
      BY <1>6, <2>3, <2>4, Zenon
    <3>3. QED BY <1>2, <3>1, <3>2, Zenon DEF Powers
  <2>8. QED BY <2>3, <2>6, <2>7, Zenon
<1>8. t = g
  <2>1. g \in [0 .. n -> Nat \ {0}]
    BY <1>2 DEF Powers
  <2>2. QED BY <1>6, <1>7, <2>1
<1>9. QED BY <1>1, <1>2, <1>5, <1>8, Zenon

LEMMA DoublesAtLeast ==
  ASSUME NEW b \in Nat, b >= 2, b % 2 = 0, NEW x \in Nat \ {0}
  PROVE  b * x \in Nat \ {0} /\ b * x >= 2 * x /\ b * x > x /\ (b * x) % 2 = 0
<1>1. PICK c \in Nat : b = 2 * c
  BY DivisionFact
<1>2. c >= 1
  BY <1>1
<1>3. b * x = 2 * (c * x) /\ c * x \in Nat
  BY <1>1
<1>4. c * x >= x
  <2>1. PICK e \in Nat : c = 1 + e
    BY <1>2
  <2>2. c * x = x + e * x /\ e * x \in Nat
    BY <2>1
  <2>3. QED BY <2>2
<1>5. PICK y \in Nat : y = c * x
  BY <1>3
<1>6. b * x = 2 * y /\ y >= x
  BY <1>3, <1>4, <1>5
<1>7. 2 * y \in Nat \ {0} /\ 2 * y >= 2 * x /\ 2 * y > x /\ (2 * y) % 2 = 0
  BY <1>6
<1>8. QED BY <1>6, <1>7, Zenon

LEMMA PowStep ==
  ASSUME NEW k \in 1 .. W64
  PROVE  /\ Pow[k] \in Nat \ {0} /\ Pow[k - 1] \in Nat \ {0}
         /\ Pow[k] = BYTE * Pow[k - 1] /\ Pow[k] >= 2 * Pow[k - 1] /\ Pow[k] % 2 = 0
<1>1. k - 1 \in 0 .. W64 /\ k \in 0 .. W64
  BY Widths
<1>2. Pow[k] \in Nat \ {0} /\ Pow[k - 1] \in Nat \ {0} /\ Pow[k] = BYTE * Pow[k - 1]
  BY <1>1, PowIs DEF Powers
<1>3. PICK b \in Nat, x \in Nat \ {0} : b = BYTE /\ x = Pow[k - 1]
  BY <1>2, Widths
<1>4. b >= 2 /\ b % 2 = 0
  BY <1>3, Widths
<1>5. b * x >= 2 * x /\ (b * x) % 2 = 0
  BY <1>4, DoublesAtLeast
<1>6. Pow[k] = b * x
  BY <1>2, <1>3, Zenon
<1>7. QED BY <1>2, <1>3, <1>5, <1>6, Zenon

\* The powers grow, faster than their index.
LEMMA PowGrows ==
  ASSUME NEW j \in 0 .. W64, NEW k \in 0 .. W64, j <= k
  PROVE  Pow[j] \in Nat \ {0} /\ Pow[k] \in Nat \ {0} /\ Pow[j] <= Pow[k] /\ k < Pow[k]
<1>1. \A i \in 0 .. W64 : Pow[i] \in Nat \ {0}
  BY PowIs DEF Powers
<1>2. PICK w \in Nat : w = W64
  BY Widths
<1> DEFINE S == {i \in j .. w : ~(Pow[j] <= Pow[i])}
           T == {i \in 0 .. w : ~(i < Pow[i])}
<1>3. S = {}
  <2>1. SUFFICES ASSUME S # {} PROVE FALSE
    OBVIOUS
  <2>2. S \in SUBSET Nat
    OBVIOUS
  <2>3. PICK m \in S : \A y \in S : m <= y
    BY <2>1, <2>2, LeastOf
  <2>4. m \in j .. w /\ ~(Pow[j] <= Pow[m])
    OBVIOUS
  <2>5. m # j
    BY <1>1, <1>2, <2>4
  <2>6. m - 1 \in j .. w /\ m - 1 \notin S /\ m \in 1 .. w
    BY <1>2, <2>3, <2>4, <2>5
  <2>7. Pow[j] <= Pow[m - 1]
    BY <2>6
  <2>8. Pow[m] >= 2 * Pow[m - 1] /\ Pow[m] \in Nat /\ Pow[m - 1] \in Nat
    BY <1>2, <2>6, PowStep
  <2>9. QED BY <1>1, <2>4, <2>7, <2>8
<1>4. T = {}
  <2>1. SUFFICES ASSUME T # {} PROVE FALSE
    OBVIOUS
  <2>2. T \in SUBSET Nat
    OBVIOUS
  <2>3. PICK m \in T : \A y \in T : m <= y
    BY <2>1, <2>2, LeastOf
  <2>4. m \in 0 .. w /\ ~(m < Pow[m])
    OBVIOUS
  <2>5. m # 0
    BY <1>1, <1>2, <2>4
  <2>6. m - 1 \in 0 .. w /\ m - 1 \notin T /\ m \in 1 .. w
    BY <1>2, <2>3, <2>4, <2>5
  <2>7. m - 1 < Pow[m - 1]
    BY <2>6
  <2>8. Pow[m] >= 2 * Pow[m - 1] /\ Pow[m] \in Nat /\ Pow[m - 1] \in Nat
    BY <1>2, <2>6, PowStep
  <2>9. QED BY <2>4, <2>6, <2>7, <2>8
<1>5. k \in j .. w /\ k \in 0 .. w
  BY <1>2
<1>6. QED BY <1>1, <1>3, <1>4, <1>5

\* A word has an even number of values, and no fewer than a u32.
LEMMA WordSizes ==
  /\ U32 \in Nat \ {0} /\ U64 \in Nat \ {0} /\ U32 <= U64 /\ BYTE <= U32
  /\ U32 % 2 = 0 /\ U64 % 2 = 0 /\ W64 < U64
<1>1. 0 \in 0 .. W64 /\ 1 \in 1 .. W64 /\ 1 \in 0 .. W64 /\ W32 \in 1 .. W64 /\ W32 \in 0 .. W64
      /\ W64 \in 0 .. W64 /\ W64 \in 1 .. W64 /\ 1 <= W32 /\ W32 <= W64
  BY Widths
<1>2. Pow[1] = BYTE
  <2>1. Pow[1] = BYTE * Pow[1 - 1] /\ Pow[0] = 1
    BY <1>1, PowStep, PowIs DEF Powers
  <2>2. QED BY <2>1, Widths
<1>3. Pow[1] <= U32 /\ U32 \in Nat \ {0} /\ U32 <= U64 /\ U64 \in Nat \ {0} /\ W64 < U64
  <2>1. W64 <= W64
    BY Widths
  <2>2. QED BY <1>1, <2>1, PowGrows DEF U32, U64
<1>4. U32 % 2 = 0 /\ U64 % 2 = 0
  BY <1>1, PowStep DEF U32, U64
<1>5. QED BY <1>2, <1>3, <1>4

\* v holds the numbers in the highest 0, 1, ..., m of the n bytes of b.
Spells(v, b, n, m) ==
  /\ v \in [0 .. m -> Nat] /\ v[0] = 0 /\ v[m] < Pow[m]
  /\ \A k \in 1 .. m : v[k] = v[k - 1] * BYTE + b[n - k]

\* One more byte.
LEMMA NextDigit ==
  ASSUME NEW p \in Nat \ {0}, NEW c \in Nat \ {0}, NEW x \in Nat, x < p, NEW d \in 0 .. c - 1
  PROVE  x * c + d \in Nat /\ x * c + d < c * p
<1>1. PICK e \in Nat : p = x + 1 + e
  <2>1. p - x - 1 \in Nat /\ p = x + 1 + (p - x - 1)
    OBVIOUS
  <2>2. QED BY <2>1
<1>2. c * p = x * c + c + c * e /\ c * e \in Nat /\ x * c \in Nat
  BY <1>1
<1>3. QED BY <1>2

LEMMA SpellingExists ==
  ASSUME NEW n \in 0 .. W64, NEW b \in [0 .. n - 1 -> Byte], NEW m \in 0 .. n
  PROVE  \E v : Spells(v, b, n, m)
<1>1. n \in Nat /\ W64 \in Nat /\ n <= W64
  BY Widths
<1> DEFINE S == {k \in 0 .. n : ~ \E v : Spells(v, b, n, k)}
<1>2. SUFFICES ASSUME S # {} PROVE FALSE
  OBVIOUS
<1>3. PICK q \in S : \A y \in S : q <= y
  <2>1. S \in SUBSET Nat
    BY <1>1
  <2>2. QED BY <1>2, <2>1, LeastOf
<1> HIDE DEF S
<1>4. q \in 0 .. n /\ ~ \E v : Spells(v, b, n, q)
  BY <1>3 DEF S
<1>5. q # 0
  <2>1. PICK z : z = [i \in 0 .. 0 |-> 0]
    OBVIOUS
  <2>2. Pow[0] = 1
    BY PowIs DEF Powers
  <2>3. Spells(z, b, n, 0)
    BY <2>1, <2>2 DEF Spells
  <2>4. QED BY <1>4, <2>3
<1>6. q - 1 \in 0 .. n /\ q - 1 \notin S /\ q \in 1 .. W64 /\ n - q \in 0 .. n - 1
  BY <1>1, <1>3, <1>4, <1>5
<1>7. PICK g : Spells(g, b, n, q - 1)
  BY <1>6 DEF S
<1>8. /\ g \in [0 .. q - 1 -> Nat] /\ g[0] = 0 /\ g[q - 1] < Pow[q - 1]
      /\ \A k \in 1 .. q - 1 : g[k] = g[k - 1] * BYTE + b[n - k]
  BY <1>7 DEF Spells
<1>9. PICK t \in Nat : t = g[q - 1] * BYTE + b[n - q] /\ t < Pow[q]
  <2>1. g[q - 1] \in Nat /\ b[n - q] \in Byte
    BY <1>6, <1>8
  <2>2. Pow[q - 1] \in Nat \ {0} /\ Pow[q] = BYTE * Pow[q - 1]
    BY <1>6, PowStep
  <2>3. PICK p \in Nat \ {0}, c \in Nat \ {0}, x \in Nat :
          p = Pow[q - 1] /\ c = BYTE /\ x = g[q - 1]
    <3>1. BYTE \in Nat \ {0}
      BY Widths
    <3>2. QED BY <2>1, <2>2, <3>1, Zenon
  <2>4. PICK d \in 0 .. c - 1 : d = b[n - q]
    BY <2>1, <2>3 DEF Byte
  <2>5. x < p
    BY <1>8, <2>3, Zenon
  <2>6. x * c + d \in Nat /\ x * c + d < c * p
    BY <2>5, NextDigit
  <2>7. QED BY <2>2, <2>3, <2>4, <2>6, Zenon
<1>10. PICK h : h = [i \in 0 .. q |-> IF i = q THEN t ELSE g[i]]
  OBVIOUS
<1>11. h \in [0 .. q -> Nat] /\ h[0] = 0 /\ h[q] = t
  BY <1>4, <1>5, <1>8, <1>10
<1>12. ASSUME NEW k \in 1 .. q PROVE h[k] = h[k - 1] * BYTE + b[n - k]
  <2>1. h[k - 1] = g[k - 1]
    BY <1>4, <1>10
  <2>2. CASE k = q
    BY <1>9, <1>11, <2>1, <2>2, Zenon
  <2>3. CASE k # q
    <3>1. k \in 1 .. q - 1 /\ h[k] = g[k]
      BY <1>4, <1>10, <2>3
    <3>2. QED BY <1>8, <2>1, <3>1, Zenon
  <2>4. QED BY <2>2, <2>3
<1>13. Spells(h, b, n, q)
  BY <1>9, <1>11, <1>12, Zenon DEF Spells
<1>14. QED BY <1>4, <1>13

\* n bytes spell a number below the n-th power.
LEMMA LeNumber ==
  ASSUME NEW n \in 0 .. W64, NEW b \in [0 .. n - 1 -> Byte]
  PROVE  le_number(n, b) \in 0 .. Pow[n] - 1
<1>1. n \in Nat /\ n \in 0 .. n
  BY Widths
<1>2. PICK g : Spells(g, b, n, n)
  BY <1>1, SpellingExists
<1>3. /\ g \in [0 .. n -> Nat] /\ g[0] = 0 /\ g[n] < Pow[n]
      /\ \A k \in 1 .. n : g[k] = g[k - 1] * BYTE + b[n - k]
  BY <1>2 DEF Spells
<1>4. g = [k \in 0 .. n |-> IF k = 0 THEN 0 ELSE g[k - 1] * BYTE + b[n - k]]
  <2>1. \A k \in 0 .. n : k # 0 => k \in 1 .. n
    BY <1>1
  <2>2. \A k \in 0 .. n : g[k] = IF k = 0 THEN 0 ELSE g[k - 1] * BYTE + b[n - k]
    BY <1>3, <2>1, Zenon
  <2>3. QED BY <1>3, <2>2
<1>5. PICK t : /\ t = [k \in 0 .. n |-> IF k = 0 THEN 0 ELSE t[k - 1] * BYTE + b[n - k]]
               /\ le_number(n, b) = t[n]
  <2>1. PICK t : t = CHOOSE v : v = [k \in 0 .. n |-> IF k = 0 THEN 0 ELSE v[k - 1] * BYTE + b[n - k]]
    OBVIOUS
  <2>2. t = [k \in 0 .. n |-> IF k = 0 THEN 0 ELSE t[k - 1] * BYTE + b[n - k]]
    BY <1>4, <2>1, Zenon
  <2>3. le_number(n, b) = t[n]
    BY <2>1, Zenon DEF le_number
  <2>4. QED BY <2>2, <2>3, Zenon
<1>6. \A k \in 0 .. n : t[k] = g[k]
  <2> DEFINE S == {i \in 0 .. n : t[i] # g[i]}
  <2>1. SUFFICES ASSUME S # {} PROVE FALSE
    OBVIOUS
  <2>2. PICK m \in S : \A y \in S : m <= y
    <3>1. S \in SUBSET Nat
      OBVIOUS
    <3>2. QED BY <2>1, <3>1, LeastOf
  <2>3. m \in 0 .. n /\ t[m] # g[m]
    OBVIOUS
  <2>4. m # 0
    <3>1. t[0] = 0
      BY <1>1, <1>5
    <3>2. QED BY <1>3, <2>3, <3>1
  <2>5. m - 1 \in 0 .. n /\ ~(m <= m - 1) /\ m \in 1 .. n
    BY <2>3, <2>4
  <2>6. t[m - 1] = g[m - 1]
    BY <2>2, <2>5
  <2>7. t[m] = t[m - 1] * BYTE + b[n - m] /\ g[m] = g[m - 1] * BYTE + b[n - m]
    BY <1>3, <1>5, <2>3, <2>4, <2>5, Zenon
  <2>8. QED BY <2>3, <2>6, <2>7, Zenon
<1>7. t[n] = g[n] /\ g[n] \in Nat
  BY <1>1, <1>3, <1>6
<1>8. Pow[n] \in Nat
  BY PowIs DEF Powers
<1>9. g[n] \in 0 .. Pow[n] - 1
  BY <1>3, <1>7, <1>8
<1>10. QED BY <1>5, <1>7, <1>9, Zenon

LEMMA ByteOf ==
  ASSUME NEW v \in Nat, NEW j \in 0 .. W64
  PROVE  byte_of(v, j) \in Byte
<1>1. PICK p \in Nat \ {0}, c \in Nat \ {0} : p = Pow[j] /\ c = BYTE
  <2>1. BYTE \in Nat \ {0}
    BY Widths
  <2>2. Pow[j] \in Nat \ {0}
    BY PowIs DEF Powers
  <2>3. QED BY <2>1, <2>2, Zenon
<1>2. v \div p \in Int
  OBVIOUS
<1>3. (v \div p) % c \in 0 .. c - 1
  BY <1>2
<1>4. QED BY <1>1, <1>3, Zenon DEF byte_of, Byte
-----------------------------------------------------------------------------
(* Verdicts *)

Checks == Seq(BOOLEAN \X {"err", "panic"})

LEMMA MinIs ==
  ASSUME NEW S \in SUBSET Int, NEW x \in S, \A y \in S : x <= y
  PROVE  Min(S) = x
<1>1. Min(S) \in S /\ \A y \in S : Min(S) <= y
  BY Zenon DEF Min
<1>2. Min(S) <= x /\ x <= Min(S) /\ Min(S) \in Int
  BY <1>1
<1>3. QED BY <1>2

Failed(checks) == {k \in DOMAIN checks : checks[k][1]}

LEMMA VerdictIs ==
  ASSUME NEW s \in Checks
  PROVE  /\ Failed(s) = {} => Verdict(s) = "run"
         /\ \A m \in Failed(s) : (\A k \in Failed(s) : m <= k) => Verdict(s) = s[m][2]
<1>1. Failed(s) = {} => Verdict(s) = "run"
  BY Zenon DEF Verdict, Failed
<1>2. ASSUME NEW m \in Failed(s), \A k \in Failed(s) : m <= k PROVE Verdict(s) = s[m][2]
  <2>1. Failed(s) \in SUBSET Int
    BY DEF Failed, Checks
  <2>2. Min(Failed(s)) = m
    BY <1>2, <2>1, MinIs
  <2>3. QED BY <1>2, <2>2, Zenon DEF Verdict, Failed
<1>3. QED BY <1>1, <1>2

LEMMA VerdictNone == Verdict(<<>>) = "run" /\ <<>> \in Checks
<1>1. <<>> \in Checks /\ Failed(<<>>) = {}
  BY EmptySeq DEF Checks, Failed
<1>2. QED BY <1>1, VerdictIs, Zenon

LEMMA VerdictOne ==
  ASSUME NEW b \in BOOLEAN, NEW how \in {"err", "panic"}
  PROVE  /\ << <<b, how>> >> \in Checks
         /\ Verdict(<< <<b, how>> >>) = IF b THEN how ELSE "run"
<1>1. PICK s : s = << <<b, how>> >>
  OBVIOUS
<1>2. s \in Checks /\ DOMAIN s = {1} /\ s[1][1] = b /\ s[1][2] = how
  BY <1>1 DEF Checks
<1>3. CASE b
  <2>1. Failed(s) = {1}
    BY <1>2, <1>3, Zenon DEF Failed
  <2>2. 1 \in Failed(s) /\ \A k \in Failed(s) : 1 <= k
    BY <2>1
  <2>3. Verdict(s) = s[1][2]
    BY <1>2, <2>2, VerdictIs, Zenon
  <2>4. QED BY <1>1, <1>2, <1>3, <2>3, Zenon
<1>4. CASE ~b
  <2>1. Failed(s) = {}
    BY <1>2, <1>4, Zenon DEF Failed
  <2>2. QED BY <1>1, <1>2, <1>4, <2>1, VerdictIs, Zenon
<1>5. QED BY <1>3, <1>4

\* The checks of s come before those of t.
LEMMA VerdictJoin ==
  ASSUME NEW s \in Checks, NEW t \in Checks
  PROVE  /\ s \o t \in Checks
         /\ Verdict(s \o t) = IF Verdict(s) = "run" THEN Verdict(t) ELSE Verdict(s)
         /\ Verdict(s) \in {"run", "err", "panic"}
<1>1. PICK c : c = s \o t
  OBVIOUS
<1>2. PICK n \in Nat, m \in Nat : n = Len(s) /\ m = Len(t)
  BY LenProperties DEF Checks
<1>3. c \in Checks /\ Len(c) = n + m /\ DOMAIN s = 1 .. n /\ DOMAIN t = 1 .. m /\ DOMAIN c = 1 .. n + m
  BY <1>1, <1>2, ConcatProperties, LenProperties DEF Checks
<1>4. (\A k \in 1 .. n : c[k] = s[k]) /\ (\A k \in 1 .. m : c[n + k] = t[k])
  <2>1. \A k \in 1 .. n + m : c[k] = IF k <= n THEN s[k] ELSE t[k - n]
    BY <1>1, <1>2, ConcatProperties DEF Checks
  <2>2. QED BY <2>1
<1>5. (\A k \in 1 .. n : s[k] \in BOOLEAN \X {"err", "panic"})
  BY <1>2, ElementOfSeq DEF Checks
<1>6. Failed(s) \in SUBSET Nat /\ Failed(t) \in SUBSET Nat
  BY <1>3 DEF Failed
<1>7. CASE Failed(s) # {}
  <2>1. PICK k \in Failed(s) : \A y \in Failed(s) : k <= y
    BY <1>6, <1>7, LeastOf
  <2>2. Verdict(s) = s[k][2]
    BY <2>1, VerdictIs, Zenon
  <2>3. k \in 1 .. n /\ s[k][1]
    BY <1>3, <2>1, Zenon DEF Failed
  <2>4. c[k] = s[k] /\ k \in DOMAIN c
    BY <1>3, <1>4, <2>3
  <2>5. k \in Failed(c)
    BY <2>3, <2>4, Zenon DEF Failed
  <2>6. ASSUME NEW y \in Failed(c) PROVE k <= y
    <3>1. y \in 1 .. n + m /\ c[y][1]
      BY <1>3, <2>6, Zenon DEF Failed
    <3>2. CASE y \in 1 .. n
      <4>1. c[y] = s[y]
        BY <1>4, <3>2, Zenon
      <4>2. y \in Failed(s)
        BY <1>3, <3>1, <3>2, <4>1, Zenon DEF Failed
      <4>3. QED BY <2>1, <4>2, Zenon
    <3>3. CASE y \notin 1 .. n
      BY <2>3, <3>1, <3>3
    <3>4. QED BY <3>2, <3>3
  <2>7. Verdict(c) = c[k][2]
    BY <1>3, <2>5, <2>6, VerdictIs, Zenon
  <2>8. s[k][2] \in {"err", "panic"}
    BY <1>5, <2>3
  <2>9. Verdict(c) = Verdict(s) /\ Verdict(s) \in {"err", "panic"}
    BY <2>2, <2>4, <2>7, <2>8, Zenon
  <2>10. Verdict(s) # "run" /\ Verdict(s) \in {"run", "err", "panic"}
    BY <2>9
  <2>11. QED BY <1>1, <1>3, <2>9, <2>10, Zenon
<1>8. CASE Failed(s) = {}
  <2>1. Verdict(s) = "run"
    BY <1>8, VerdictIs, Zenon
  <2>2. ASSUME NEW y \in Failed(c) PROVE y \in Int /\ y - n \in Failed(t) /\ c[y] = t[y - n]
    <3>1. y \in 1 .. n + m /\ c[y][1]
      BY <1>3, <2>2, Zenon DEF Failed
    <3>2. y \notin 1 .. n
      <4>1. SUFFICES ASSUME y \in 1 .. n PROVE FALSE
        OBVIOUS
      <4>2. c[y] = s[y]
        BY <1>4, <4>1, Zenon
      <4>3. y \in Failed(s)
        BY <1>3, <3>1, <4>1, <4>2, Zenon DEF Failed
      <4>4. QED BY <1>8, <4>3, Zenon
    <3>3. PICK z \in 1 .. m : y = n + z /\ y - n = z
      <4>1. y - n \in 1 .. m /\ y = n + (y - n)
        BY <3>1, <3>2
      <4>2. QED BY <4>1
    <3>4. c[y] = t[z]
      BY <1>4, <3>3, Zenon
    <3>5. z \in Failed(t)
      BY <1>3, <3>1, <3>4, Zenon DEF Failed
    <3>6. y \in Int
      BY <3>1
    <3>7. QED BY <3>3, <3>4, <3>5, <3>6, Zenon
  <2>3. CASE Failed(t) = {}
    <3>1. Failed(c) = {}
      BY <2>2, <2>3, Zenon
    <3>2. Verdict(c) = "run" /\ Verdict(t) = "run"
      BY <1>3, <2>3, <3>1, VerdictIs, Zenon
    <3>3. QED BY <1>1, <1>3, <2>1, <3>2, Zenon
  <2>4. CASE Failed(t) # {}
    <3>1. PICK z \in Failed(t) : \A y \in Failed(t) : z <= y
      BY <1>6, <2>4, LeastOf
    <3>2. Verdict(t) = t[z][2]
      BY <3>1, VerdictIs, Zenon
    <3>3. z \in 1 .. m /\ t[z][1]
      BY <1>3, <3>1, Zenon DEF Failed
    <3>4. c[n + z] = t[z] /\ n + z \in DOMAIN c
      BY <1>3, <1>4, <3>3
    <3>5. n + z \in Failed(c)
      BY <3>3, <3>4, Zenon DEF Failed
    <3>6. ASSUME NEW y \in Failed(c) PROVE n + z <= y
      <4>1. y - n \in Failed(t) /\ y \in Int
        BY <2>2, <3>6, Zenon
      <4>2. z <= y - n
        BY <3>1, <4>1, Zenon
      <4>3. QED BY <3>3, <4>1, <4>2
    <3>7. Verdict(c) = c[n + z][2]
      BY <1>3, <3>5, <3>6, VerdictIs, Zenon
    <3>8. QED BY <1>1, <1>3, <2>1, <3>2, <3>4, <3>7, Zenon
  <2>5. QED BY <2>3, <2>4
<1>9. QED BY <1>7, <1>8

LEMMA SameNumbers ==
  /\ X!Pow = Pow /\ X!U32 = U32 /\ X!U64 = U64 /\ X!Byte = Byte /\ X!Word = Word
BY DEF X!Pow, X!U32, X!U64, X!Byte, X!Word, Pow, U32, U64, Byte, Word

LEMMA SameForms == X!Forms = Forms
<1>0. ASSUME NEW a, NEW b PROVE X!Plain(a, b) = Plain(a, b)
  BY DEF X!Plain, X!Form, Plain, Form
<1>00. ASSUME NEW a, NEW b, NEW c, NEW d, NEW e, NEW f, NEW g PROVE X!Form(a, b, c, d, e, f, g) = Form(a, b, c, d, e, f, g)
  BY DEF X!Form, Form
<1>1. X!SaveForms = SaveForms
  BY Zenon DEF X!SaveForms, SaveForms, X!Form, Form, X!Pushed, Pushed, X!Popped, Popped, X!Moved, Moved
<1>2. X!IndexedForms = IndexedForms
  BY Zenon DEF X!IndexedForms, IndexedForms, X!Form, Form
<1>3. X!FrameMoves = FrameMoves
  BY Zenon DEF X!FrameMoves, FrameMoves, X!Form, Form, X!Moved, Moved
<1>4. X!ArithForms = ArithForms
  BY DEF X!ArithForms, ArithForms, X!Form, Form, X!Gprs, Gprs, X!GPR, GPR
<1>5. X!ArgumentMoves = ArgumentMoves
  BY Zenon DEF X!ArgumentMoves, ArgumentMoves, X!Form, Form, X!Moved, Moved, X!Zeroed, Zeroed
<1>6. X!Load32Forms = Load32Forms
  BY DEF X!Load32Forms, Load32Forms, X!Form, Form, X!Gprs, Gprs, X!GPR, GPR
<1>7. X!LeaForms = LeaForms
  BY DEF X!LeaForms, LeaForms, X!Form, Form, X!Gprs, Gprs, X!GPR, GPR
<1>8. X!StackMoves = StackMoves
  BY Zenon DEF X!StackMoves, StackMoves, X!Form, Form, X!Pushed, Pushed, X!Popped, Popped, X!Moved, Moved
<1>9. X!ZeroForms = ZeroForms
  BY Zenon DEF X!ZeroForms, ZeroForms, X!Form, Form, X!Zeroed, Zeroed
<1>10. X!FlagForms = FlagForms
  BY Zenon DEF X!FlagForms, FlagForms, X!Form, Form
<1>11. X!ImmediateForms = ImmediateForms
  BY DEF X!ImmediateForms, ImmediateForms, X!Form, Form, X!Gprs, Gprs, X!GPR, GPR
<1>12. X!LeaRipForms = LeaRipForms
  BY DEF X!LeaRipForms, LeaRipForms, X!Form, Form
<1>13. X!StoreForms = StoreForms
  BY DEF X!StoreForms, StoreForms, X!Form, Form
<1>14. X!JumpForms = JumpForms
  BY DEF X!JumpForms, JumpForms, X!Form, Form
<1>15. QED BY <1>0, <1>1, <1>2, <1>3, <1>4, <1>5, <1>6, <1>7, <1>8, <1>9, <1>10, <1>11, <1>12, <1>13, <1>14, <1>00, Zenon DEF X!Forms, Forms
-----------------------------------------------------------------------------
(* The forms *)

LEMMA Registers ==
  /\ Gprs = {"rax", "rcx", "rdx", "rbx", "rsp", "rbp", "rsi", "rdi"}
  /\ Regs = {"rax", "rcx", "rdx", "rbx", "rsp", "rbp", "rsi", "rdi", "r8", "r9", "r10", "r12", "r13"}
<1>1. Gprs = {"rax", "rcx", "rdx", "rbx", "rsp", "rbp", "rsi", "rdi"}
  <2>1. 1 .. 8 = {1, 2, 3, 4, 5, 6, 7, 8}
    OBVIOUS
  <2>2. QED BY <2>1 DEF Gprs, GPR
<1>2. QED BY <1>1 DEF Regs

\* What every form is, and what the forms of each operation have in common.
Wellformed(i) ==
  /\ i.dst \in Regs /\ i.src \in Regs /\ i.disp \in Int /\ i.imm \in Int
  /\ i.len \in Nat /\ i.operand \in {0, 1, W32} /\ i.operand < i.len
  /\ -(U32 \div 2) <= i.imm /\ i.imm < U32 \div 2
Particular(i) ==
  /\ i.op \in {"lea8", "load8", "store8"} => i.dst = "rdi" /\ i.disp = W64
  /\ i.op = "load64" => i.dst = "rsi" /\ i.src = "rdi" /\ i.disp = 0
  /\ i.op = "loadal" => i.dst = "rax" /\ i.disp = -1
  /\ i.op = "cmovns" => i.dst = "rdx" /\ i.src = "rax"
  /\ i.op = "load32" => i.operand \in {0, 1} /\ (i.operand = 0 => i.disp = 0)
  /\ i.op \in {"nop", "push", "pop", "mov", "movsxd", "lea8", "load8", "store8", "zero", "load64",
               "loadal", "test", "cmovns", "syscall"} => i.operand = 0
  /\ i.op \in {"lea", "cmpal", "je"} => i.operand = 1
  /\ i.op = "load32" => i.dst \in Gprs
  /\ i.op \in {"lea", "movi32"} => i.dst \in Gprs \cup {"r8", "r9", "r10"}
  /\ i.op = "movi" => i.dst \in {"rax", "rdi", "rsi", "rdx"}
  /\ i.op \in {"movi", "movi32", "leaip", "storei", "call", "callm"} => i.operand = W32

LEMMA FormOf ==
  ASSUME NEW op, NEW dst, NEW src, NEW disp, NEW imm, NEW code, NEW operand
  PROVE  LET i == Form(op, dst, src, disp, imm, code, operand)
         IN i.op = op /\ i.dst = dst /\ i.src = src /\ i.disp = disp /\ i.imm = imm
            /\ i.len = code + operand /\ i.operand = operand
BY DEF Form

\* Immediates of a byte are immediates of a u32.
LEMMA Immediates ==
  /\ Imm8 \subseteq Int /\ Imm32 \subseteq Int
  /\ \A v \in Imm8 \cup Imm32 \cup {0} : -(U32 \div 2) <= v /\ v < U32 \div 2
  /\ \A v \in Imm8 : -(BYTE \div 2) <= v /\ v < BYTE \div 2
  /\ U32 \div 2 >= 1
<1>1. PICK c \in Nat : BYTE = 2 * c /\ c >= 1
  <2>1. PICK k \in 1 .. 128 : BYTE = 2 * k
    BY FormsAssumption
  <2>2. QED BY <2>1
<1>2. PICK u \in Nat : U32 = 2 * u
  <2>1. U32 \in Nat /\ U32 % 2 = 0
    BY WordSizes
  <2>2. QED BY <2>1
<1>3. BYTE \div 2 = c /\ U32 \div 2 = u
  BY <1>1, <1>2
<1>4. c <= u
  BY <1>1, <1>2, WordSizes
<1>5. Imm8 \subseteq -c .. c - 1 /\ Imm32 \subseteq -u .. u - 1
  BY <1>3, FormsAssumption, Zenon
<1>6. QED BY <1>1, <1>3, <1>4, <1>5

Shaped(i) == Wellformed(i) /\ Particular(i)

LEMMA FormShape ==
  ASSUME NEW i \in Forms
  PROVE  Shaped(i)
<1> USE Widths, Registers, Immediates, FormsAssumption DEF Shaped, Wellformed, Particular, Form
<1>1. ASSUME i \in SaveForms PROVE Shaped(i)
  BY <1>1 DEF SaveForms, Pushed, Popped, Moved
<1>2. ASSUME i \in IndexedForms PROVE Shaped(i)
  BY <1>2 DEF IndexedForms
<1>3. ASSUME i \in FrameMoves PROVE Shaped(i)
  BY <1>3 DEF FrameMoves, Moved
<1>4. ASSUME i \in ArithForms PROVE Shaped(i)
  BY <1>4 DEF ArithForms
<1>5. ASSUME i \in ArgumentMoves PROVE Shaped(i)
  BY <1>5 DEF ArgumentMoves, Moved, Zeroed
<1>6. ASSUME i \in Load32Forms PROVE Shaped(i)
  BY <1>6 DEF Load32Forms
<1>7. ASSUME i \in LeaForms PROVE Shaped(i)
  BY <1>7 DEF LeaForms
<1>8. ASSUME i \in StackMoves PROVE Shaped(i)
  BY <1>8 DEF StackMoves, Moved, Pushed, Popped
<1>9. ASSUME i \in ZeroForms PROVE Shaped(i)
  BY <1>9 DEF ZeroForms, Zeroed
<1>10. ASSUME i \in FlagForms PROVE Shaped(i)
  BY <1>10 DEF FlagForms
<1>11. ASSUME i \in ImmediateForms PROVE Shaped(i)
  BY <1>11 DEF ImmediateForms
<1>12. ASSUME i \in LeaRipForms PROVE Shaped(i)
  BY <1>12 DEF LeaRipForms
<1>13. ASSUME i \in StoreForms PROVE Shaped(i)
  BY <1>13 DEF StoreForms
<1>14. ASSUME i \in JumpForms PROVE Shaped(i)
  BY <1>14 DEF JumpForms
<1>15. ASSUME i \in {Plain("nop", 1), Plain("nop", 4), Plain("ret", 1), Plain("hlt", 1), Plain("syscall", 2), Plain("other", 1),
                  Form("load64", "rsi", "rdi", 0, 0, 3, 0)} PROVE Shaped(i)
  BY <1>15 DEF Plain
<1>16. QED
  BY <1>1, <1>2, <1>3, <1>4, <1>5, <1>6, <1>7, <1>8, <1>9, <1>10, <1>11, <1>12, <1>13, <1>14, <1>15, Zenon DEF Forms
-----------------------------------------------------------------------------
(* The machine *)

Machine ==
  /\ base \in Nat /\ MemLen \in Nat /\ base + MemLen < U64
  /\ reg \in [Regs -> Word] /\ rip \in Word /\ mem \in [0 .. MemLen - 1 -> Byte]

LEMMA MachineIs ==
  ASSUME TypeOK
  PROVE  Machine
BY InterpAssumption DEF TypeOK, Machine

LEMMA LeValue ==
  ASSUME Machine, NEW n \in 0 .. W64, NEW va \in Int
  PROVE  le_value(n, va) \in 0 .. Pow[n] - 1
<1>1. PICK b : b = [k \in 0 .. n - 1 |->
                      IF va_to_index(va) + k \in DOMAIN mem THEN mem[va_to_index(va) + k] ELSE 0]
  OBVIOUS
<1>2. b \in [0 .. n - 1 -> Byte]
  BY <1>1, Widths DEF Machine, Byte
<1>3. le_number(n, b) \in 0 .. Pow[n] - 1
  BY <1>2, LeNumber
<1>4. QED BY <1>1, <1>3, Zenon DEF le_value

LEMMA LoadedWords ==
  ASSUME Machine, NEW va \in Int
  PROVE  /\ le_value(W64, va) \in Word
         /\ le_value(W32, va) \in Word /\ le_value(W32, va) < U32
         /\ le_value(1, va) \in Word /\ le_value(1, va) \in Byte
<1>1. W64 \in 0 .. W64 /\ W32 \in 0 .. W64 /\ 1 \in 0 .. W64 /\ 1 \in 1 .. W64
  BY Widths
<1>2. Pow[1] = BYTE
  <2>1. Pow[1] = BYTE * Pow[1 - 1] /\ Pow[0] = 1
    BY <1>1, PowStep, PowIs DEF Powers
  <2>2. QED BY <2>1, Widths
<1>3. /\ le_value(W64, va) \in 0 .. U64 - 1
      /\ le_value(W32, va) \in 0 .. U32 - 1
      /\ le_value(1, va) \in 0 .. BYTE - 1
  BY <1>1, <1>2, LeValue DEF U64, U32
<1>4. QED BY <1>3, WordSizes, Widths DEF Word, Byte

LEMMA LeWrite ==
  ASSUME Machine, NEW n \in 0 .. W64, NEW va \in Int, NEW v \in Nat
  PROVE  le_write(n, va, v) \in [0 .. MemLen - 1 -> Byte]
<1>1. ASSUME NEW k \in 0 .. MemLen - 1, NEW j \in Int, j \in 0 .. n - 1 PROVE byte_of(v, j) \in Byte
  <2>1. j \in 0 .. W64
    BY <1>1, Widths
  <2>2. QED BY <2>1, ByteOf
<1>2. ASSUME NEW k \in 0 .. MemLen - 1
      PROVE (IF k - va_to_index(va) \in 0 .. n - 1 THEN byte_of(v, k - va_to_index(va)) ELSE mem[k]) \in Byte
  <2>1. k - va_to_index(va) \in Int
    BY DEF va_to_index, Machine
  <2>2. mem[k] \in Byte
    BY DEF Machine
  <2>3. QED BY <1>1, <2>1, <2>2
<1>3. DOMAIN mem = 0 .. MemLen - 1
  BY DEF Machine
<1>4. QED BY <1>2, <1>3 DEF le_write

LEMMA Wrapped ==
  ASSUME NEW v \in Int
  PROVE  Wrap(v) \in Word /\ v % U64 \in Word
<1>1. PICK u \in Nat \ {0} : u = U64
  BY WordSizes
<1>2. v % u \in 0 .. u - 1
  OBVIOUS
<1>3. QED BY <1>1, <1>2, Zenon DEF Wrap, Word
-----------------------------------------------------------------------------
(* The checks of the arms *)

LEMMA ReadsVerdict ==
  ASSUME Machine, NEW n \in Nat, NEW va \in Int
  PROVE  /\ Reads(n, va) \in Checks
         /\ Verdict(Reads(n, va)) = IF accessible(n, va) THEN "run" ELSE "err"
<1>0. (~accessible(n, va)) \in BOOLEAN /\ (va_to_index(va) + n > MemLen) \in BOOLEAN
  OBVIOUS
<1>1. PICK a \in BOOLEAN, b \in BOOLEAN : a = ~accessible(n, va) /\ b = (va_to_index(va) + n > MemLen)
  BY <1>0, Zenon
<1>2. ~a => ~b
  <2>1. accessible(n, va) => ~(va_to_index(va) + n > MemLen)
    BY DEF accessible, va_to_index, Machine
  <2>2. QED BY <1>1, <2>1, Zenon
<1>3. PICK s, t : s = << <<a, "err">> >> /\ t = << <<b, "panic">> >>
  OBVIOUS
<1>4. Reads(n, va) = s \o t
  BY <1>1, <1>3 DEF Reads, Err, Panic
<1>5. s \in Checks /\ t \in Checks /\ Verdict(s) = (IF a THEN "err" ELSE "run") /\ Verdict(t) = (IF b THEN "panic" ELSE "run")
  BY <1>3, VerdictOne
<1>6. s \o t \in Checks /\ Verdict(s \o t) = IF Verdict(s) = "run" THEN Verdict(t) ELSE Verdict(s)
  BY <1>5, VerdictJoin
<1>7. Verdict(s \o t) = IF a THEN "err" ELSE "run"
  BY <1>2, <1>5, <1>6
<1>8. QED BY <1>1, <1>4, <1>6, <1>7

LEMMA AdvancesVerdict ==
  ASSUME Machine, NEW i, i.len \in Nat
  PROVE  /\ after(i) \in Nat /\ Advances(i) \in Checks
         /\ Verdict(Advances(i)) = IF after(i) < U64 THEN "run" ELSE "panic"
<1>1. after(i) \in Nat
  BY DEF after, Machine, Word
<1>2. PICK b \in BOOLEAN : b = (after(i) >= U64)
  <2>1. (after(i) >= U64) \in BOOLEAN
    OBVIOUS
  <2>2. QED BY <2>1, Zenon
<1>3. Advances(i) = << <<b, "panic">> >>
  BY <1>2, Zenon DEF Advances, Panic
<1>4. Advances(i) \in Checks /\ Verdict(Advances(i)) = IF b THEN "panic" ELSE "run"
  BY <1>3, VerdictOne
<1>5. b <=> ~(after(i) < U64)
  <2>1. after(i) >= U64 <=> ~(after(i) < U64)
    BY <1>1, WordSizes
  <2>2. QED BY <1>2, <2>1, Zenon
<1>6. QED BY <1>1, <1>4, <1>5

LEMMA PushesVerdict ==
  ASSUME Machine
  PROVE  /\ pushes \in Checks
         /\ Verdict(pushes) = IF reg["rsp"] >= W64 /\ accessible(W64, reg["rsp"] - W64) THEN "run" ELSE "err"
<1>1. reg["rsp"] \in Nat /\ W64 \in Nat
  BY Registers, Widths DEF Machine, Word
<1>2. PICK b \in BOOLEAN : b = (reg["rsp"] < W64)
  <2>1. (reg["rsp"] < W64) \in BOOLEAN
    OBVIOUS
  <2>2. QED BY <2>1, Zenon
<1>3. PICK s, t : s = << <<b, "err">> >> /\ t = Reads(W64, reg["rsp"] - W64)
  OBVIOUS
<1>4. pushes = s \o t
  BY <1>2, <1>3, Zenon DEF pushes, Err
<1>5. s \in Checks /\ Verdict(s) = IF b THEN "err" ELSE "run"
  BY <1>3, VerdictOne
<1>6. t \in Checks /\ Verdict(t) = IF accessible(W64, reg["rsp"] - W64) THEN "run" ELSE "err"
  BY <1>1, <1>3, ReadsVerdict
<1>7. s \o t \in Checks /\ Verdict(s \o t) = IF Verdict(s) = "run" THEN Verdict(t) ELSE Verdict(s)
  BY <1>5, <1>6, VerdictJoin
<1>8. b <=> ~(reg["rsp"] >= W64)
  <2>1. reg["rsp"] < W64 <=> ~(reg["rsp"] >= W64)
    BY <1>1
  <2>2. QED BY <1>2, <2>1, Zenon
<1>9. QED BY <1>4, <1>5, <1>6, <1>7, <1>8

LEMMA ImmediateVerdict ==
  ASSUME Machine, NEW i, Wellformed(i), decodes(i)
  PROVE  /\ after(i) - W32 \in Int /\ Immediate(i) \in Checks
         /\ Verdict(Immediate(i)) = IF i.operand = W32 /\ ~accessible(W32, after(i) - W32) THEN "err" ELSE "run"
<1>1. after(i) \in Nat /\ W32 \in Nat
  BY Widths DEF after, Machine, Word, Wellformed
<1>2. CASE i.operand # W32
  <2>1. Immediate(i) = <<>>
    BY <1>2, Zenon DEF Immediate
  <2>2. QED BY <1>1, <1>2, <2>1, VerdictNone
<1>3. CASE i.operand = W32
  <2>0. PICK at \in Int : at = after(i) - W32
    BY <1>1
  <2>1. PICK b \in BOOLEAN : b = (at >= U64)
    <3>1. (at >= U64) \in BOOLEAN
      OBVIOUS
    <3>2. QED BY <3>1, Zenon
  <2>2. ~b
    <3>1. at = rip + (i.len - i.operand)
      BY <1>1, <1>3, <2>0 DEF after, Machine, Word, Wellformed
    <3>2. rip - base + (i.len - i.operand) <= MemLen
      BY DEF decodes, accessible, va_to_index
    <3>3. i.len \in Nat /\ i.operand \in Nat /\ rip \in Nat /\ base \in Nat
      BY <1>1, <1>3 DEF Wellformed, Machine, Word
    <3>4. ~(at >= U64)
      BY <3>1, <3>2, <3>3, WordSizes DEF Machine
    <3>5. QED BY <2>1, <3>4, Zenon
  <2>3. PICK s, t : s = << <<b, "panic">> >> /\ t = Reads(W32, at)
    OBVIOUS
  <2>4. Immediate(i) = s \o t
    BY <1>3, <2>0, <2>1, <2>3, Zenon DEF Immediate, Panic
  <2>5. s \in Checks /\ Verdict(s) = "run"
    BY <2>2, <2>3, VerdictOne
  <2>6. t \in Checks /\ Verdict(t) = IF accessible(W32, at) THEN "run" ELSE "err"
    BY <1>1, <2>3, ReadsVerdict
  <2>7. s \o t \in Checks /\ Verdict(s \o t) = IF Verdict(s) = "run" THEN Verdict(t) ELSE Verdict(s)
    BY <2>5, <2>6, VerdictJoin
  <2>8. QED BY <1>1, <1>3, <2>0, <2>4, <2>5, <2>6, <2>7
<1>4. QED BY <1>2, <1>3

LEMMA RelativeVerdict ==
  ASSUME Machine, NEW i, Wellformed(i)
  PROVE  /\ Relative(i) \in Checks
         /\ Verdict(Relative(i)) = IF after(i) < U64 /\ signed_add_ok(after(i) % U64, i.disp) THEN "run" ELSE "panic"
<1>0. PICK b \in BOOLEAN : b = ~signed_add_ok(after(i) % U64, i.disp)
  <2>1. (~signed_add_ok(after(i) % U64, i.disp)) \in BOOLEAN
    OBVIOUS
  <2>2. QED BY <2>1, Zenon
<1>1. PICK s, t : s = Advances(i) /\ t = << <<b, "panic">> >>
  OBVIOUS
<1>2. Relative(i) = s \o t
  BY <1>0, <1>1, Zenon DEF Relative, Panic
<1>3. s \in Checks /\ Verdict(s) = IF after(i) < U64 THEN "run" ELSE "panic"
  BY <1>1, AdvancesVerdict DEF Wellformed
<1>4. t \in Checks /\ Verdict(t) = IF b THEN "panic" ELSE "run"
  BY <1>1, VerdictOne
<1>5. s \o t \in Checks /\ Verdict(s \o t) = IF Verdict(s) = "run" THEN Verdict(t) ELSE Verdict(s)
  BY <1>3, <1>4, VerdictJoin
<1>6. QED BY <1>0, <1>2, <1>3, <1>4, <1>5
-----------------------------------------------------------------------------
(* How an arm ends *)

\* The step went through, was refused, or a number overflowed.
Ends(how, checks, r, p, m) ==
  \/ Verdict(checks) = "run" /\ status' = how /\ reg' = r /\ rip' = p /\ mem' = m
  \/ /\ Verdict(checks) \in {"err", "panic"}
     /\ status' = Verdict(checks) /\ reg' = reg /\ rip' = rip /\ mem' = mem

LEMMA FinishEnds ==
  ASSUME NEW how, NEW c \in Checks, NEW r, NEW p, NEW m, FinishAs(how, c, r, p, m)
  PROVE  Ends(how, c, r, p, m)
<1>1. Verdict(c) \in {"run", "err", "panic"}
  BY VerdictNone, VerdictJoin
<1>2. QED BY <1>1 DEF FinishAs, Ends

\* An arm that ends with rip += n.
Advanced(how, i, c, r, m) ==
  /\ zf' = zf /\ sf' = sf
  /\ \/ /\ Verdict(c) = "run" /\ after(i) < U64
        /\ status' = how /\ reg' = r /\ rip' = after(i) /\ mem' = m
     \/ /\ Verdict(c) \in {"err", "panic"} \/ (Verdict(c) = "run" /\ after(i) >= U64)
        /\ status' = IF Verdict(c) = "run" THEN "panic" ELSE Verdict(c)
        /\ reg' = reg /\ rip' = rip /\ mem' = mem

LEMMA FinishAdvances ==
  ASSUME Machine, NEW i, Wellformed(i), NEW how, NEW c \in Checks, NEW r, NEW m,
         FinishAs(how, c \o Advances(i), r, after(i), m), UNCHANGED <<zf, sf>>
  PROVE  Advanced(how, i, c, r, m)
<1>1. PICK t \in Checks : t = Advances(i) /\ Verdict(t) = IF after(i) < U64 THEN "run" ELSE "panic"
  BY AdvancesVerdict DEF Wellformed
<1>2. /\ c \o t \in Checks /\ Verdict(c) \in {"run", "err", "panic"}
      /\ Verdict(c \o t) = IF Verdict(c) = "run" THEN Verdict(t) ELSE Verdict(c)
  BY VerdictJoin
<1>3. Ends(how, c \o t, r, after(i), m)
  BY <1>1, <1>2, FinishEnds
<1>4. after(i) \in Nat
  BY AdvancesVerdict DEF Wellformed
<1>5. CASE Verdict(c) = "run" /\ after(i) < U64
  BY <1>1, <1>2, <1>3, <1>5 DEF Ends, Advanced
<1>6. CASE Verdict(c) = "run" /\ ~(after(i) < U64)
  BY <1>1, <1>2, <1>3, <1>4, <1>6, WordSizes DEF Ends, Advanced
<1>7. CASE Verdict(c) # "run"
  BY <1>1, <1>2, <1>3, <1>7 DEF Ends, Advanced
<1>8. QED BY <1>5, <1>6, <1>7

LEMMA ArmAdvances ==
  ASSUME Machine, NEW i, Wellformed(i), NEW c \in Checks, NEW r, NEW m, Arm(i, c, r, m)
  PROVE  Advanced("run", i, c, r, m)
BY FinishAdvances DEF Arm, Finish

\* What a step leaves is a machine again.
Kept ==
  /\ status' \in {"run", "end", "err", "panic"} /\ zf' \in BOOLEAN /\ sf' \in BOOLEAN
  /\ reg' \in [Regs -> Word] /\ rip' \in Word /\ mem' \in [0 .. MemLen - 1 -> Byte]

LEMMA AdvancedKept ==
  ASSUME TypeOK, NEW i, Wellformed(i), NEW how \in {"run", "end"}, NEW c, NEW r, NEW m, Advanced(how, i, c, r, m),
         Verdict(c) = "run" => r \in [Regs -> Word] /\ m \in [0 .. MemLen - 1 -> Byte]
  PROVE  Kept
<1>1. after(i) \in Nat
  BY MachineIs, AdvancesVerdict DEF Wellformed
<1>2. CASE Verdict(c) = "run" /\ after(i) < U64 /\ status' = how /\ reg' = r /\ rip' = after(i) /\ mem' = m
  <2>1. after(i) \in Word
    BY <1>1, <1>2, WordSizes DEF Word
  <2>2. QED BY <1>2, <2>1 DEF Kept, Advanced, TypeOK
<1>3. CASE status' \in {"err", "panic"} /\ reg' = reg /\ rip' = rip /\ mem' = mem
  BY <1>3 DEF Kept, Advanced, TypeOK
<1>4. QED BY <1>2, <1>3 DEF Advanced
-----------------------------------------------------------------------------
(* Every step leaves a machine *)

LEMMA SetReg ==
  ASSUME Machine, NEW r \in Regs, NEW v \in Word, NEW known
  PROVE  set_reg(r, v) \in [Regs -> Word] /\ assign(known, r, v) \in [Regs -> Word]
BY DEF Machine, set_reg, assign

LEMMA RegisterWords ==
  ASSUME Machine
  PROVE  \A r \in Regs : reg[r] \in Word /\ reg[r] \in Nat
BY DEF Machine, Word

\* What push_u64 leaves when it does not fail.
LEMMA Below ==
  ASSUME Machine, reg["rsp"] >= W64
  PROVE  below \in [Regs -> Word] /\ below = [reg EXCEPT !["rsp"] = reg["rsp"] - W64]
<1>1. reg["rsp"] \in Word /\ "rsp" \in Regs
  BY RegisterWords, Registers
<1>2. reg["rsp"] - W64 \in Word
  BY <1>1, Widths, WordSizes DEF Word
<1>3. QED BY <1>1, <1>2 DEF below, Machine

LEMMA Pushed64 ==
  ASSUME Machine, NEW v \in Nat
  PROVE  pushed(v) \in [0 .. MemLen - 1 -> Byte]
<1>1. reg["rsp"] - W64 \in Int /\ W64 \in 0 .. W64
  BY RegisterWords, Registers, Widths
<1>2. QED BY <1>1, LeWrite DEF pushed

LEMMA NopKept ==
  ASSUME TypeOK, NEW i \in Forms, Nop(i)
  PROVE  Kept
BY MachineIs, FormShape, VerdictNone, ArmAdvances, AdvancedKept DEF Nop, Shaped, TypeOK

LEMMA StopKept ==
  ASSUME TypeOK, NEW how \in {"end", "err", "panic"}, Stop(how)
  PROVE  Kept
BY DEF Stop, Kept, TypeOK, cpu

LEMMA PushKept ==
  ASSUME TypeOK, NEW i \in Forms, Push(i)
  PROVE  Kept
<1>1. Machine /\ Wellformed(i) /\ reg[i.dst] \in Nat
  BY MachineIs, FormShape, RegisterWords DEF Shaped, Wellformed
<1>2. pushes \in Checks
  BY <1>1, PushesVerdict
<1>3. Advanced("run", i, pushes, below, pushed(reg[i.dst]))
  BY <1>1, <1>2, ArmAdvances DEF Push
<1>4. Verdict(pushes) = "run" => below \in [Regs -> Word]
  BY <1>1, Below, PushesVerdict
<1>5. pushed(reg[i.dst]) \in [0 .. MemLen - 1 -> Byte]
  BY <1>1, Pushed64
<1>6. QED BY <1>1, <1>3, <1>4, <1>5, AdvancedKept

\* What pop checks: the word must be readable and rsp must not overflow.
LEMMA PopVerdict ==
  ASSUME Machine
  PROVE  LET c == Reads(W64, reg["rsp"]) \o <<Err(reg["rsp"] + W64 >= U64)>>
         IN /\ c \in Checks
            /\ Verdict(c) = IF accessible(W64, reg["rsp"]) THEN "run" ELSE "err"
<1>1. reg["rsp"] \in Nat /\ W64 \in Nat
  BY RegisterWords, Registers, Widths
<1>2. PICK b \in BOOLEAN : b = (reg["rsp"] + W64 >= U64)
  <2>1. (reg["rsp"] + W64 >= U64) \in BOOLEAN
    OBVIOUS
  <2>2. QED BY <2>1, Zenon
<1>3. accessible(W64, reg["rsp"]) => ~b
  <2>1. accessible(W64, reg["rsp"]) => ~(reg["rsp"] + W64 >= U64)
    <3>1. base \in Nat /\ MemLen \in Nat /\ U64 \in Nat /\ base + MemLen < U64
      BY WordSizes DEF Machine
    <3>2. accessible(W64, reg["rsp"]) => reg["rsp"] - base + W64 <= MemLen
      BY Zenon DEF accessible, va_to_index
    <3>3. QED BY <1>1, <3>1, <3>2
  <2>2. QED BY <1>2, <2>1, Zenon
<1>4. PICK s, t : s = Reads(W64, reg["rsp"]) /\ t = << <<b, "err">> >>
  OBVIOUS
<1>5. s \in Checks /\ Verdict(s) = IF accessible(W64, reg["rsp"]) THEN "run" ELSE "err"
  BY <1>1, <1>4, ReadsVerdict
<1>6. t \in Checks /\ Verdict(t) = IF b THEN "err" ELSE "run"
  BY <1>4, VerdictOne
<1>7. s \o t \in Checks /\ Verdict(s \o t) = IF Verdict(s) = "run" THEN Verdict(t) ELSE Verdict(s)
  BY <1>5, <1>6, VerdictJoin
<1>8. Verdict(s \o t) = IF accessible(W64, reg["rsp"]) THEN "run" ELSE "err"
  BY <1>3, <1>5, <1>6, <1>7
<1>9. QED BY <1>2, <1>4, <1>7, <1>8, Zenon DEF Err

LEMMA PopKept ==
  ASSUME TypeOK, NEW i \in Forms, Pop(i)
  PROVE  Kept
<1>1. Machine /\ Wellformed(i) /\ reg["rsp"] \in Nat /\ reg["rsp"] \in Word /\ "rsp" \in Regs
  BY MachineIs, FormShape, RegisterWords, Registers DEF Shaped
<1>2. PICK c : c = Reads(W64, reg["rsp"]) \o <<Err(reg["rsp"] + W64 >= U64)>>
  OBVIOUS
<1>3. c \in Checks /\ Verdict(c) = IF accessible(W64, reg["rsp"]) THEN "run" ELSE "err"
  BY <1>1, <1>2, PopVerdict
<1>4. PICK r : r = [[reg EXCEPT !["rsp"] = @ + W64] EXCEPT ![i.dst] = le_value(W64, reg["rsp"])]
  OBVIOUS
<1>5. Arm(i, c, r, mem)
  BY <1>2, <1>4 DEF Pop
<1>6. Advanced("run", i, c, r, mem)
  BY <1>1, <1>3, <1>5, ArmAdvances
<1>7. Verdict(c) = "run" => r \in [Regs -> Word]
  <2>1. SUFFICES ASSUME accessible(W64, reg["rsp"]) PROVE r \in [Regs -> Word]
    BY <1>3
  <2>2. reg["rsp"] + W64 \in Word
    BY <1>1, <2>1, Widths, WordSizes DEF accessible, inside, va_to_index, Machine, Word
  <2>3. le_value(W64, reg["rsp"]) \in Word
    BY <1>1, LoadedWords
  <2>4. QED BY <1>1, <1>4, <2>2, <2>3 DEF Machine, Wellformed
<1>8. QED BY <1>1, <1>6, <1>7, AdvancedKept DEF Machine

LEMMA PanicOn ==
  ASSUME NEW b \in BOOLEAN
  PROVE  <<Panic(b)>> \in Checks /\ Verdict(<<Panic(b)>>) = IF b THEN "panic" ELSE "run"
BY VerdictOne DEF Panic

LEMMA MoveKept ==
  ASSUME TypeOK, NEW i \in Forms, Move(i)
  PROVE  Kept
<1>1. Machine /\ Wellformed(i) /\ reg[i.src] \in Word
  BY MachineIs, FormShape, RegisterWords DEF Shaped, Wellformed
<1>2. Advanced("run", i, <<>>, set_reg(i.dst, reg[i.src]), mem)
  BY <1>1, VerdictNone, ArmAdvances DEF Move
<1>3. set_reg(i.dst, reg[i.src]) \in [Regs -> Word]
  BY <1>1, SetReg DEF Wellformed
<1>4. QED BY <1>1, <1>2, <1>3, AdvancedKept DEF Machine

\* The sign of a u32 fills a word.
LEMMA SignExtended ==
  ASSUME NEW v \in Nat
  PROVE  LET low == v % U32 IN (IF low >= U32 \div 2 THEN U64 - U32 + low ELSE low) \in Word
<1>1. PICK u \in Nat \ {0}, w \in Nat \ {0} : u = U32 /\ w = U64 /\ u <= w
  BY WordSizes
<1>2. PICK l \in Int : l = v % u /\ l \in 0 .. u - 1
  OBVIOUS
<1>3. (IF l >= u \div 2 THEN w - u + l ELSE l) \in 0 .. w - 1
  BY <1>1, <1>2
<1>4. QED BY <1>1, <1>2, <1>3, Zenon DEF Word

LEMMA SignExtendKept ==
  ASSUME TypeOK, NEW i \in Forms, SignExtend(i)
  PROVE  Kept
<1>1. Machine /\ Wellformed(i) /\ reg[i.src] \in Nat
  BY MachineIs, FormShape, RegisterWords DEF Shaped, Wellformed
<1>2. PICK v : v = LET low == reg[i.src] % U32 IN IF low >= U32 \div 2 THEN U64 - U32 + low ELSE low
  OBVIOUS
<1>3. v \in Word
  BY <1>1, <1>2, SignExtended, Zenon
<1>4. Arm(i, <<>>, set_reg(i.dst, v), mem)
  BY <1>2, Zenon DEF SignExtend
<1>5. Advanced("run", i, <<>>, set_reg(i.dst, v), mem)
  BY <1>1, <1>4, VerdictNone, ArmAdvances
<1>6. set_reg(i.dst, v) \in [Regs -> Word]
  BY <1>1, <1>3, SetReg DEF Wellformed
<1>7. QED BY <1>1, <1>5, <1>6, AdvancedKept DEF Machine

LEMMA Indexed ==
  ASSUME Machine
  PROVE  indexed \in Word /\ indexed \in Int
<1>1. PICK a \in Nat, d \in Nat, w \in Nat : a = reg["rax"] /\ d = reg["rdx"] /\ w = W64
  BY RegisterWords, Registers, Widths
<1>2. a * w \in Int
  OBVIOUS
<1>3. Wrap(a * w) \in Word
  BY <1>2, Wrapped
<1>4. d + Wrap(a * w) + w \in Int
  BY <1>3 DEF Word
<1>5. Wrap(d + Wrap(a * w) + w) \in Word
  BY <1>4, Wrapped
<1>6. indexed \in Word
  BY <1>1, <1>5, Zenon DEF indexed
<1>7. QED BY <1>6 DEF Word

LEMMA IndexingKept ==
  ASSUME TypeOK, NEW i \in Forms, Indexing(i)
  PROVE  Kept
<1>1. Machine /\ Wellformed(i) /\ "rdi" \in Regs /\ reg["rdi"] \in Nat /\ W64 \in Nat /\ W64 \in 0 .. W64
  BY MachineIs, FormShape, RegisterWords, Registers, Widths DEF Shaped
<1>2. indexed \in Word /\ indexed \in Int
  BY <1>1, Indexed
<1>3. PICK c : c = Reads(W64, indexed) /\ c \in Checks
  BY <1>1, <1>2, ReadsVerdict
<1>4. CASE Arm(i, <<>>, set_reg("rdi", indexed), mem)
  <2>1. Advanced("run", i, <<>>, set_reg("rdi", indexed), mem)
    BY <1>1, <1>4, VerdictNone, ArmAdvances
  <2>2. set_reg("rdi", indexed) \in [Regs -> Word]
    BY <1>1, <1>2, SetReg
  <2>3. QED BY <1>1, <2>1, <2>2, AdvancedKept DEF Machine
<1>5. CASE Arm(i, c, reg, le_write(W64, indexed, reg["rdi"]))
  <2>1. Advanced("run", i, c, reg, le_write(W64, indexed, reg["rdi"]))
    BY <1>1, <1>3, <1>5, ArmAdvances
  <2>2. le_write(W64, indexed, reg["rdi"]) \in [0 .. MemLen - 1 -> Byte]
    BY <1>1, <1>2, LeWrite
  <2>3. QED BY <1>1, <2>1, <2>2, AdvancedKept DEF Machine
<1>6. CASE Arm(i, c, set_reg("rdi", le_value(W64, indexed)), mem)
  <2>1. Advanced("run", i, c, set_reg("rdi", le_value(W64, indexed)), mem)
    BY <1>1, <1>3, <1>6, ArmAdvances
  <2>2. set_reg("rdi", le_value(W64, indexed)) \in [Regs -> Word]
    BY <1>1, <1>2, LoadedWords, SetReg
  <2>3. QED BY <1>1, <2>1, <2>2, AdvancedKept DEF Machine
<1>7. QED BY <1>3, <1>4, <1>5, <1>6 DEF Indexing

\* A sign-extended immediate is a word.
LEMMA ImmediateWord ==
  ASSUME NEW v \in Int, -(U32 \div 2) <= v, v < U32 \div 2
  PROVE  (IF v < 0 THEN U64 + v ELSE v) \in Word
<1>1. PICK u \in Nat \ {0}, w \in Nat \ {0} : u = U32 /\ w = U64 /\ u <= w
  BY WordSizes
<1>2. -(u \div 2) <= v /\ v < u \div 2
  BY <1>1, Zenon
<1>3. (IF v < 0 THEN w + v ELSE v) \in 0 .. w - 1
  BY <1>1, <1>2
<1>4. QED BY <1>1, <1>3, Zenon DEF Word

LEMMA ArithmeticKept ==
  ASSUME TypeOK, NEW i \in Forms, decodes(i), Arithmetic(i)
  PROVE  Kept
<1>1. Machine /\ Wellformed(i) /\ reg[i.dst] \in Word /\ reg[i.dst] \in Int /\ i.imm \in Int
  BY MachineIs, FormShape, RegisterWords DEF Shaped, Wellformed
<1>2. PICK m \in Word : m = IF i.imm < 0 THEN U64 + i.imm ELSE i.imm
  BY <1>1, ImmediateWord DEF Wellformed
<1>3. m \in Int
  BY <1>2 DEF Word
<1>4. PICK n : n = CASE i.op = "add" -> (reg[i.dst] + m) % U64
                     [] i.op = "or" -> bit_or(reg[i.dst], m)
                     [] i.op = "sub" -> (reg[i.dst] - m) % U64
                     [] i.op = "and" -> bit_and(reg[i.dst], m)
  OBVIOUS
<1>5. Arm(i, Immediate(i), set_reg(i.dst, n), mem)
  BY <1>2, <1>4, Zenon DEF Arithmetic
<1>6. n \in Word
  <2>1. (reg[i.dst] + m) % U64 \in Word /\ (reg[i.dst] - m) % U64 \in Word
    <3>1. reg[i.dst] + m \in Int /\ reg[i.dst] - m \in Int
      BY <1>1, <1>3
    <3>2. QED BY <3>1, Wrapped
  <2>2. bit_or(reg[i.dst], m) \in Word /\ bit_and(reg[i.dst], m) \in Word
    BY <1>1, <1>2, FormsAssumption, Zenon
  <2>3. i.op \in {"add", "or", "sub", "and"}
    BY DEF Arithmetic
  <2>4. QED BY <1>4, <2>1, <2>2, <2>3
<1>7. Immediate(i) \in Checks
  BY <1>1, ImmediateVerdict
<1>8. Advanced("run", i, Immediate(i), set_reg(i.dst, n), mem)
  BY <1>1, <1>5, <1>7, ArmAdvances
<1>9. set_reg(i.dst, n) \in [Regs -> Word]
  BY <1>1, <1>6, SetReg DEF Wellformed
<1>10. QED BY <1>1, <1>8, <1>9, AdvancedKept DEF Machine

LEMMA ZeroKept ==
  ASSUME TypeOK, NEW i \in Forms, Zero(i)
  PROVE  Kept
<1>1. Machine /\ Wellformed(i) /\ 0 \in Word
  BY MachineIs, FormShape, WordSizes DEF Shaped, Word
<1>2. Advanced("run", i, <<>>, set_reg(i.dst, 0), mem)
  BY <1>1, VerdictNone, ArmAdvances DEF Zero
<1>3. set_reg(i.dst, 0) \in [Regs -> Word]
  BY <1>1, SetReg DEF Wellformed
<1>4. QED BY <1>1, <1>2, <1>3, AdvancedKept DEF Machine

LEMMA Disp8 ==
  ASSUME Machine, NEW i, Wellformed(i)
  PROVE  disp8(i) \in Word /\ disp8(i) \in Int
<1>1. reg[i.src] + i.disp \in Int
  BY RegisterWords DEF Wellformed
<1>2. disp8(i) \in Word
  BY <1>1, Wrapped DEF disp8
<1>3. QED BY <1>2 DEF Word

LEMMA Load32Verdict ==
  ASSUME Machine, NEW i, Wellformed(i)
  PROVE  LET c == <<Panic(i.operand = 1 /\ ~disp8_ok(i))>> \o Reads(W32, disp8(i))
         IN /\ c \in Checks
            /\ Verdict(c) = IF i.operand = 1 /\ ~disp8_ok(i) THEN "panic"
                            ELSE IF accessible(W32, disp8(i)) THEN "run" ELSE "err"
<1>1. disp8(i) \in Int /\ W32 \in Nat
  BY Disp8, Widths
<1>2. PICK b \in BOOLEAN : b = (i.operand = 1 /\ ~disp8_ok(i))
  <2>1. (i.operand = 1 /\ ~disp8_ok(i)) \in BOOLEAN
    OBVIOUS
  <2>2. QED BY <2>1, Zenon
<1>3. PICK s, t : s = <<Panic(b)>> /\ t = Reads(W32, disp8(i))
  OBVIOUS
<1>4. s \in Checks /\ Verdict(s) = IF b THEN "panic" ELSE "run"
  BY <1>3, PanicOn
<1>5. t \in Checks /\ Verdict(t) = IF accessible(W32, disp8(i)) THEN "run" ELSE "err"
  BY <1>1, <1>3, ReadsVerdict
<1>6. s \o t \in Checks /\ Verdict(s \o t) = IF Verdict(s) = "run" THEN Verdict(t) ELSE Verdict(s)
  BY <1>4, <1>5, VerdictJoin
<1>7. Verdict(s \o t) = IF b THEN "panic" ELSE IF accessible(W32, disp8(i)) THEN "run" ELSE "err"
  BY <1>4, <1>5, <1>6
<1>8. QED BY <1>2, <1>3, <1>6, <1>7, Zenon

LEMMA Load32Kept ==
  ASSUME TypeOK, NEW i \in Forms, Load32(i)
  PROVE  Kept
<1>1. Machine /\ Wellformed(i)
  BY MachineIs, FormShape DEF Shaped
<1>2. PICK c \in Checks : c = <<Panic(i.operand = 1 /\ ~disp8_ok(i))>> \o Reads(W32, disp8(i))
  BY <1>1, Load32Verdict, Zenon
<1>3. PICK r : r = assign({"rax", "rcx", "rdx", "rsi", "rdi"}, i.dst, le_value(W32, disp8(i)))
  OBVIOUS
<1>4. Arm(i, c, r, mem)
  BY <1>2, <1>3, Zenon DEF Load32
<1>5. Advanced("run", i, c, r, mem)
  BY <1>1, <1>4, ArmAdvances
<1>6. r \in [Regs -> Word]
  BY <1>1, <1>3, Disp8, LoadedWords, SetReg DEF Wellformed
<1>7. QED BY <1>1, <1>5, <1>6, AdvancedKept DEF Machine

LEMMA LeaDisp8Kept ==
  ASSUME TypeOK, NEW i \in Forms, LeaDisp8(i)
  PROVE  Kept
<1>1. Machine /\ Wellformed(i)
  BY MachineIs, FormShape DEF Shaped
<1>2. PICK c \in Checks : c = <<Panic(~disp8_ok(i))>>
  <2>1. (~disp8_ok(i)) \in BOOLEAN
    OBVIOUS
  <2>2. QED BY <2>1, PanicOn, Zenon
<1>3. PICK r : r = assign({"rax", "rdx", "rbp", "rsi", "rdi", "r8", "r9"}, i.dst, disp8(i))
  OBVIOUS
<1>4. Arm(i, c, r, mem)
  BY <1>2, <1>3, Zenon DEF LeaDisp8
<1>5. Advanced("run", i, c, r, mem)
  BY <1>1, <1>4, ArmAdvances
<1>6. r \in [Regs -> Word]
  BY <1>1, <1>3, Disp8, SetReg DEF Wellformed
<1>7. QED BY <1>1, <1>5, <1>6, AdvancedKept DEF Machine

LEMMA Load64Kept ==
  ASSUME TypeOK, NEW i \in Forms, Load64(i)
  PROVE  Kept
<1>1. Machine /\ Wellformed(i) /\ reg["rdi"] \in Int /\ "rsi" \in Regs /\ W64 \in Nat
  BY MachineIs, FormShape, RegisterWords, Registers, Widths DEF Shaped
<1>2. Reads(W64, reg["rdi"]) \in Checks
  BY <1>1, ReadsVerdict
<1>3. Advanced("run", i, Reads(W64, reg["rdi"]), set_reg("rsi", le_value(W64, reg["rdi"])), mem)
  BY <1>1, <1>2, ArmAdvances DEF Load64
<1>4. set_reg("rsi", le_value(W64, reg["rdi"])) \in [Regs -> Word]
  BY <1>1, LoadedWords, SetReg
<1>5. QED BY <1>1, <1>3, <1>4, AdvancedKept DEF Machine

\* Another low byte makes another word.
LEMMA LowByte ==
  ASSUME NEW v \in Word, NEW b \in Byte
  PROVE  /\ (v - (v % BYTE)) + b \in Word
         /\ (v - (v % BYTE)) + b = (v \div BYTE) * BYTE + b
<1>1. W64 \in 1 .. W64
  BY Widths
<1>2. PICK c \in Nat \ {0}, p \in Nat \ {0} : c = BYTE /\ p = Pow[W64 - 1] /\ U64 = c * p
  <2>1. Pow[W64 - 1] \in Nat \ {0} /\ U64 = BYTE * Pow[W64 - 1]
    BY <1>1, PowStep DEF U64
  <2>2. BYTE \in Nat \ {0}
    BY Widths
  <2>3. QED BY <2>1, <2>2, Zenon
<1>3. v \in Nat /\ v < c * p
  <2>1. v \in Nat /\ v < U64
    BY WordSizes DEF Word
  <2>2. QED BY <1>2, <2>1, Zenon
<1>4. PICK q \in Int, r \in 0 .. c - 1 : q = v \div c /\ r = v % c /\ v = q * c + r
  <2>1. v \in Int
    BY <1>3
  <2>2. v \div c \in Int /\ v % c \in 0 .. c - 1 /\ v = (v \div c) * c + (v % c)
    BY <2>1, DivisionFact
  <2>3. QED BY <2>2, Zenon
<1>5. q \in Nat /\ q < p
  <2>1. q >= 0
    BY <1>3, <1>4
  <2>2. q < p
    <3>1. SUFFICES ASSUME q >= p PROVE FALSE
      BY <1>4
    <3>2. PICK e \in Nat : q = p + e
      BY <3>1, <1>4
    <3>3. q * c = c * p + e * c /\ e * c \in Nat /\ c * p \in Nat
      BY <3>2
    <3>4. QED BY <1>3, <1>4, <3>3
  <2>3. QED BY <1>4, <2>1, <2>2
<1>6. PICK d \in 0 .. c - 1 : d = b
  BY <1>2 DEF Byte
<1>7. q * c + d \in Nat /\ q * c + d < c * p
  BY <1>5, NextDigit
<1>8. (v - r) + d = q * c + d
  <2>1. q * c \in Int
    BY <1>4
  <2>2. QED BY <1>3, <1>4, <2>1
<1>9. q * c + d \in Word
  <2>1. PICK z \in Nat : z = q * c + d /\ z < U64
    BY <1>2, <1>7, Zenon
  <2>2. z \in Word
    BY <2>1, WordSizes DEF Word
  <2>3. QED BY <2>1, <2>2, Zenon
<1>10. QED BY <1>2, <1>4, <1>6, <1>8, <1>9, Zenon

LEMMA AlAddress ==
  ASSUME Machine
  PROVE  (reg["r9"] + reg["r8"] - 1) % U64 \in Word /\ (reg["r9"] + reg["r8"] - 1) % U64 \in Int
<1>1. reg["r9"] + reg["r8"] - 1 \in Int
  BY RegisterWords, Registers
<1>2. QED BY <1>1, Wrapped DEF Word

LEMMA LoadAlKept ==
  ASSUME TypeOK, NEW i \in Forms, LoadAl(i)
  PROVE  Kept
<1>1. Machine /\ Wellformed(i) /\ "rax" \in Regs /\ reg["rax"] \in Word
  BY MachineIs, FormShape, RegisterWords, Registers DEF Shaped
<1>2. PICK addr \in Int : addr = (reg["r9"] + reg["r8"] - 1) % U64
  BY <1>1, AlAddress
<1>3. Arm(i, Reads(1, addr), set_al(le_value(1, addr)), mem)
  BY <1>2, Zenon DEF LoadAl
<1>4. Reads(1, addr) \in Checks
  BY <1>1, ReadsVerdict
<1>5. Advanced("run", i, Reads(1, addr), set_al(le_value(1, addr)), mem)
  BY <1>1, <1>3, <1>4, ArmAdvances
<1>6. le_value(1, addr) \in Byte
  BY <1>1, LoadedWords
<1>7. (reg["rax"] - al) + le_value(1, addr) \in Word
  BY <1>1, <1>6, LowByte DEF al
<1>8. set_al(le_value(1, addr)) \in [Regs -> Word]
  BY <1>1, <1>7, SetReg DEF set_al
<1>9. QED BY <1>1, <1>5, <1>8, AdvancedKept DEF Machine

LEMMA SetFlagsKept ==
  ASSUME TypeOK, NEW i \in Forms, SetFlags(i)
  PROVE  Kept
<1>1. Machine /\ Wellformed(i)
  BY MachineIs, FormShape DEF Shaped
<1>2. zf' \in BOOLEAN /\ sf' \in BOOLEAN
  <2>1. /\ (reg[i.dst] = 0) \in BOOLEAN /\ (reg[i.dst] \div (U64 \div 2) # 0) \in BOOLEAN
        /\ (al = i.imm % BYTE) \in BOOLEAN /\ (Signed((Signed(al, BYTE) - i.imm) % BYTE, BYTE) < 0) \in BOOLEAN
    OBVIOUS
  <2>2. QED BY <2>1, Zenon DEF SetFlags
<1>3. Advances(i) \in Checks /\ after(i) \in Nat /\ Verdict(Advances(i)) = IF after(i) < U64 THEN "run" ELSE "panic"
  BY <1>1, AdvancesVerdict DEF Wellformed
<1>4. Ends("run", Advances(i), reg, after(i), mem)
  BY <1>3, FinishEnds DEF SetFlags, Finish
<1>5. after(i) < U64 => after(i) \in Word
  BY <1>3, WordSizes DEF Word
<1>6. QED BY <1>2, <1>3, <1>4, <1>5 DEF Ends, Kept, TypeOK

LEMMA CmovNsKept ==
  ASSUME TypeOK, NEW i \in Forms, CmovNs(i)
  PROVE  Kept
<1>1. Machine /\ Wellformed(i) /\ "rdx" \in Regs /\ reg["rax"] \in Word
  BY MachineIs, FormShape, RegisterWords, Registers DEF Shaped
<1>2. PICK r : r = IF sf THEN reg ELSE set_reg("rdx", reg["rax"])
  OBVIOUS
<1>3. Advanced("run", i, <<>>, r, mem)
  BY <1>1, <1>2, VerdictNone, ArmAdvances DEF CmovNs
<1>4. r \in [Regs -> Word]
  BY <1>1, <1>2, SetReg DEF Machine
<1>5. QED BY <1>1, <1>3, <1>4, AdvancedKept DEF Machine

LEMMA LowHalf ==
  ASSUME NEW v \in Int
  PROVE  v % U32 \in Word /\ v % U32 \in Nat
<1>1. PICK u \in Nat \ {0} : u = U32
  BY WordSizes
<1>2. v % u \in 0 .. u - 1
  OBVIOUS
<1>3. PICK z \in Nat : z = v % U32 /\ z < U32
  BY <1>1, <1>2
<1>4. QED BY <1>3, WordSizes DEF Word

LEMMA MovImmKept ==
  ASSUME TypeOK, NEW i \in Forms, decodes(i), MovImm(i)
  PROVE  Kept
<1>1. Machine /\ Wellformed(i) /\ i.imm \in Int /\ i.dst \in Regs
  BY MachineIs, FormShape DEF Shaped, Wellformed
<1>2. PICK r : r = assign({"rax", "rcx", "rdx", "rsp", "rbp", "rsi", "rdi", "r8", "r9"}, i.dst, i.imm % U32)
  OBVIOUS
<1>3. Immediate(i) \in Checks
  BY <1>1, ImmediateVerdict
<1>4. Advanced("run", i, Immediate(i), r, mem)
  BY <1>1, <1>2, <1>3, ArmAdvances DEF MovImm
<1>5. r \in [Regs -> Word]
  BY <1>1, <1>2, LowHalf, SetReg
<1>6. QED BY <1>1, <1>4, <1>5, AdvancedKept DEF Machine

LEMMA Target ==
  ASSUME Machine, NEW i, Wellformed(i)
  PROVE  target(i) \in Word /\ target(i) \in Int
<1>1. after(i) + i.disp \in Int
  BY AdvancesVerdict DEF Wellformed
<1>2. target(i) \in Word
  BY <1>1, Wrapped DEF target
<1>3. QED BY <1>2 DEF Word

\* An immediate operand, then a relative address.
LEMMA ImmediateRelative ==
  ASSUME Machine, NEW i, Wellformed(i), decodes(i)
  PROVE  LET c == Immediate(i) \o Relative(i)
         IN /\ c \in Checks
            /\ Verdict(c) = IF i.operand = W32 /\ ~accessible(W32, after(i) - W32) THEN "err"
                            ELSE IF after(i) < U64 /\ signed_add_ok(after(i) % U64, i.disp) THEN "run" ELSE "panic"
<1>1. PICK s, t : s = Immediate(i) /\ t = Relative(i)
  OBVIOUS
<1>2. s \in Checks /\ Verdict(s) = IF i.operand = W32 /\ ~accessible(W32, after(i) - W32) THEN "err" ELSE "run"
  BY <1>1, ImmediateVerdict
<1>3. t \in Checks /\ Verdict(t) = IF after(i) < U64 /\ signed_add_ok(after(i) % U64, i.disp) THEN "run" ELSE "panic"
  BY <1>1, RelativeVerdict
<1>4. s \o t \in Checks /\ Verdict(s \o t) = IF Verdict(s) = "run" THEN Verdict(t) ELSE Verdict(s)
  BY <1>2, <1>3, VerdictJoin
<1>5. Verdict(s \o t) = IF i.operand = W32 /\ ~accessible(W32, after(i) - W32) THEN "err"
                        ELSE IF after(i) < U64 /\ signed_add_ok(after(i) % U64, i.disp) THEN "run" ELSE "panic"
  BY <1>2, <1>3, <1>4
<1>6. QED BY <1>1, <1>4, <1>5, Zenon

LEMMA LeaRipKept ==
  ASSUME TypeOK, NEW i \in Forms, decodes(i), LeaRip(i)
  PROVE  Kept
<1>1. Machine /\ Wellformed(i)
  BY MachineIs, FormShape DEF Shaped
<1>2. PICK c \in Checks : c = Immediate(i) \o Relative(i)
  BY <1>1, ImmediateRelative, Zenon
<1>3. Advanced("run", i, c, set_reg(i.dst, target(i)), mem)
  BY <1>1, <1>2, ArmAdvances DEF LeaRip
<1>4. set_reg(i.dst, target(i)) \in [Regs -> Word]
  BY <1>1, Target, SetReg DEF Wellformed
<1>5. QED BY <1>1, <1>3, <1>4, AdvancedKept DEF Machine

LEMMA StoreVerdict ==
  ASSUME Machine, NEW i, Wellformed(i), decodes(i)
  PROVE  LET c == <<Panic(~disp8_ok(i))>> \o Immediate(i) \o Reads(W32, disp8(i))
         IN /\ c \in Checks
            /\ Verdict(c) = IF ~disp8_ok(i) THEN "panic"
                            ELSE IF i.operand = W32 /\ ~accessible(W32, after(i) - W32) THEN "err"
                            ELSE IF accessible(W32, disp8(i)) THEN "run" ELSE "err"
<1>1. PICK b \in BOOLEAN : b = ~disp8_ok(i)
  <2>1. (~disp8_ok(i)) \in BOOLEAN
    OBVIOUS
  <2>2. QED BY <2>1, Zenon
<1>2. PICK s, t, u : s = <<Panic(b)>> /\ t = Immediate(i) /\ u = Reads(W32, disp8(i))
  OBVIOUS
<1>3. s \in Checks /\ Verdict(s) = IF b THEN "panic" ELSE "run"
  BY <1>2, PanicOn
<1>4. t \in Checks /\ Verdict(t) = IF i.operand = W32 /\ ~accessible(W32, after(i) - W32) THEN "err" ELSE "run"
  BY <1>2, ImmediateVerdict
<1>5. u \in Checks /\ Verdict(u) = IF accessible(W32, disp8(i)) THEN "run" ELSE "err"
  BY <1>2, Disp8, Widths, ReadsVerdict
<1>6. s \o t \in Checks /\ Verdict(s \o t) = IF Verdict(s) = "run" THEN Verdict(t) ELSE Verdict(s)
  BY <1>3, <1>4, VerdictJoin
<1>7. s \o t \o u \in Checks /\ Verdict(s \o t \o u) = IF Verdict(s \o t) = "run" THEN Verdict(u) ELSE Verdict(s \o t)
  BY <1>5, <1>6, VerdictJoin
<1>8. Verdict(s \o t \o u) = IF b THEN "panic"
                             ELSE IF i.operand = W32 /\ ~accessible(W32, after(i) - W32) THEN "err"
                             ELSE IF accessible(W32, disp8(i)) THEN "run" ELSE "err"
  BY <1>3, <1>4, <1>5, <1>6, <1>7
<1>9. QED BY <1>1, <1>2, <1>7, <1>8, Zenon

LEMMA StoreImmKept ==
  ASSUME TypeOK, NEW i \in Forms, decodes(i), StoreImm(i)
  PROVE  Kept
<1>1. Machine /\ Wellformed(i) /\ i.imm \in Int /\ W32 \in 0 .. W64
  BY MachineIs, FormShape, Widths DEF Shaped, Wellformed
<1>2. PICK c \in Checks : c = <<Panic(~disp8_ok(i))>> \o Immediate(i) \o Reads(W32, disp8(i))
  BY <1>1, StoreVerdict, Zenon
<1>3. PICK m : m = le_write(W32, disp8(i), i.imm % U32)
  OBVIOUS
<1>4. Advanced("run", i, c, reg, m)
  BY <1>1, <1>2, <1>3, ArmAdvances DEF StoreImm
<1>5. m \in [0 .. MemLen - 1 -> Byte]
  BY <1>1, <1>3, Disp8, LowHalf, LeWrite
<1>6. QED BY <1>1, <1>4, <1>5, AdvancedKept DEF Machine

\* A branch: rip is given, the flags stay.
LEMMA EndsKept ==
  ASSUME TypeOK, NEW c, NEW r, NEW p, NEW m, Ends("run", c, r, p, m), UNCHANGED <<zf, sf>>,
         Verdict(c) = "run" => r \in [Regs -> Word] /\ p \in Word /\ m \in [0 .. MemLen - 1 -> Byte]
  PROVE  Kept
BY DEF Ends, Kept, TypeOK

LEMMA JumpKept ==
  ASSUME TypeOK, NEW i \in Forms, decodes(i), Jump(i)
  PROVE  Kept
<1>1. Machine /\ Wellformed(i) /\ target(i) \in Word /\ UNCHANGED <<zf, sf>>
  BY MachineIs, FormShape, Target DEF Shaped, Jump
<1>2. CASE Finish(Immediate(i) \o Relative(i), reg, target(i), mem)
  <2>1. PICK c \in Checks : c = Immediate(i) \o Relative(i)
    BY <1>1, ImmediateRelative, Zenon
  <2>2. Ends("run", c, reg, target(i), mem)
    BY <1>2, <2>1, FinishEnds DEF Finish
  <2>3. QED BY <1>1, <2>2, EndsKept DEF Machine
<1>3. CASE Finish(Relative(i), reg, target(i), mem)
  <2>1. Ends("run", Relative(i), reg, target(i), mem)
    BY <1>1, <1>3, RelativeVerdict, FinishEnds DEF Finish
  <2>2. QED BY <1>1, <2>1, EndsKept DEF Machine
<1>4. CASE Finish(Advances(i), reg, after(i), mem)
  <2>1. Advances(i) \in Checks /\ after(i) \in Nat /\ Verdict(Advances(i)) = IF after(i) < U64 THEN "run" ELSE "panic"
    BY <1>1, AdvancesVerdict DEF Wellformed
  <2>2. Ends("run", Advances(i), reg, after(i), mem)
    BY <1>4, <2>1, FinishEnds DEF Finish
  <2>3. Verdict(Advances(i)) = "run" => after(i) \in Word
    BY <2>1, WordSizes DEF Word
  <2>4. QED BY <1>1, <2>2, <2>3, EndsKept DEF Machine
<1>5. QED BY <1>2, <1>3, <1>4 DEF Jump

\* call rel32: the operand, the word pushed, then the target.
LEMMA CallVerdict ==
  ASSUME Machine, NEW i, Wellformed(i), decodes(i)
  PROVE  LET c == Immediate(i) \o Advances(i) \o pushes \o Relative(i)
         IN /\ c \in Checks
            /\ Verdict(c) = IF i.operand = W32 /\ ~accessible(W32, after(i) - W32) THEN "err"
                            ELSE IF ~(after(i) < U64) THEN "panic"
                            ELSE IF ~(reg["rsp"] >= W64 /\ accessible(W64, reg["rsp"] - W64)) THEN "err"
                            ELSE IF signed_add_ok(after(i) % U64, i.disp) THEN "run" ELSE "panic"
<1>1. PICK s, t, u, v : s = Immediate(i) /\ t = Advances(i) /\ u = pushes /\ v = Relative(i)
  OBVIOUS
<1>2. s \in Checks /\ Verdict(s) = IF i.operand = W32 /\ ~accessible(W32, after(i) - W32) THEN "err" ELSE "run"
  BY <1>1, ImmediateVerdict
<1>3. t \in Checks /\ Verdict(t) = IF after(i) < U64 THEN "run" ELSE "panic"
  BY <1>1, AdvancesVerdict DEF Wellformed
<1>4. u \in Checks /\ Verdict(u) = IF reg["rsp"] >= W64 /\ accessible(W64, reg["rsp"] - W64) THEN "run" ELSE "err"
  BY <1>1, PushesVerdict
<1>5. v \in Checks /\ Verdict(v) = IF after(i) < U64 /\ signed_add_ok(after(i) % U64, i.disp) THEN "run" ELSE "panic"
  BY <1>1, RelativeVerdict
<1>6. s \o t \in Checks /\ Verdict(s \o t) = IF Verdict(s) = "run" THEN Verdict(t) ELSE Verdict(s)
  BY <1>2, <1>3, VerdictJoin
<1>7. s \o t \o u \in Checks /\ Verdict(s \o t \o u) = IF Verdict(s \o t) = "run" THEN Verdict(u) ELSE Verdict(s \o t)
  BY <1>4, <1>6, VerdictJoin
<1>8. /\ s \o t \o u \o v \in Checks
      /\ Verdict(s \o t \o u \o v) = IF Verdict(s \o t \o u) = "run" THEN Verdict(v) ELSE Verdict(s \o t \o u)
  BY <1>5, <1>7, VerdictJoin
<1>9. Verdict(s \o t \o u \o v) =
        IF i.operand = W32 /\ ~accessible(W32, after(i) - W32) THEN "err"
        ELSE IF ~(after(i) < U64) THEN "panic"
        ELSE IF ~(reg["rsp"] >= W64 /\ accessible(W64, reg["rsp"] - W64)) THEN "err"
        ELSE IF signed_add_ok(after(i) % U64, i.disp) THEN "run" ELSE "panic"
  BY <1>2, <1>3, <1>4, <1>5, <1>6, <1>7, <1>8
<1>10. QED BY <1>1, <1>8, <1>9, Zenon

LEMMA CallKept ==
  ASSUME TypeOK, NEW i \in Forms, decodes(i), Call(i)
  PROVE  Kept
<1>1. Machine /\ Wellformed(i) /\ target(i) \in Word /\ after(i) \in Nat
  BY MachineIs, FormShape, Target, AdvancesVerdict DEF Shaped, Wellformed
<1>2. PICK c \in Checks : c = Immediate(i) \o Advances(i) \o pushes \o Relative(i)
                          /\ (Verdict(c) = "run" => reg["rsp"] >= W64)
  <2>1. PICK c : c = Immediate(i) \o Advances(i) \o pushes \o Relative(i)
    OBVIOUS
  <2>2. c \in Checks /\ (Verdict(c) = "run" => reg["rsp"] >= W64)
    BY <1>1, <2>1, CallVerdict
  <2>3. QED BY <2>1, <2>2
<1>3. Ends("run", c, below, target(i), pushed(after(i)))
  BY <1>2, FinishEnds DEF Call, Finish
<1>4. Verdict(c) = "run" => below \in [Regs -> Word]
  BY <1>1, <1>2, Below
<1>5. pushed(after(i)) \in [0 .. MemLen - 1 -> Byte]
  BY <1>1, Pushed64
<1>6. QED BY <1>1, <1>3, <1>4, <1>5, EndsKept DEF Call

LEMMA CallmVerdict ==
  ASSUME Machine, NEW i, Wellformed(i), decodes(i)
  PROVE  LET c == Immediate(i) \o Relative(i) \o Reads(W64, target(i))
         IN /\ c \in Checks /\ c \o pushes \in Checks
            /\ Verdict(c) = IF i.operand = W32 /\ ~accessible(W32, after(i) - W32) THEN "err"
                            ELSE IF ~(after(i) < U64 /\ signed_add_ok(after(i) % U64, i.disp)) THEN "panic"
                            ELSE IF accessible(W64, target(i)) THEN "run" ELSE "err"
            /\ Verdict(c \o pushes) =
                 IF Verdict(c) # "run" THEN Verdict(c)
                 ELSE IF reg["rsp"] >= W64 /\ accessible(W64, reg["rsp"] - W64) THEN "run" ELSE "err"
<1>1. PICK s, t, c, u : s = Immediate(i) \o Relative(i) /\ t = Reads(W64, target(i)) /\ u = pushes /\ c = s \o t
  OBVIOUS
<1>2. s \in Checks /\ Verdict(s) = IF i.operand = W32 /\ ~accessible(W32, after(i) - W32) THEN "err"
                        ELSE IF after(i) < U64 /\ signed_add_ok(after(i) % U64, i.disp) THEN "run" ELSE "panic"
  BY <1>1, ImmediateRelative, Zenon
<1>3. t \in Checks /\ Verdict(t) = IF accessible(W64, target(i)) THEN "run" ELSE "err"
  BY <1>1, Target, Widths, ReadsVerdict
<1>4. c \in Checks /\ Verdict(c) = IF Verdict(s) = "run" THEN Verdict(t) ELSE Verdict(s)
  BY <1>1, <1>2, <1>3, VerdictJoin
<1>5. u \in Checks /\ Verdict(u) = IF reg["rsp"] >= W64 /\ accessible(W64, reg["rsp"] - W64) THEN "run" ELSE "err"
  BY <1>1, PushesVerdict
<1>6. c \o u \in Checks /\ Verdict(c \o u) = IF Verdict(c) = "run" THEN Verdict(u) ELSE Verdict(c)
  BY <1>4, <1>5, VerdictJoin
<1>7. Verdict(c) = IF i.operand = W32 /\ ~accessible(W32, after(i) - W32) THEN "err"
                   ELSE IF ~(after(i) < U64 /\ signed_add_ok(after(i) % U64, i.disp)) THEN "panic"
                   ELSE IF accessible(W64, target(i)) THEN "run" ELSE "err"
  BY <1>2, <1>3, <1>4
<1>8. QED BY <1>1, <1>4, <1>5, <1>6, <1>7, Zenon

LEMMA CallIndirectKept ==
  ASSUME TypeOK, NEW i \in Forms, decodes(i), CallIndirect(i)
  PROVE  Kept
<1>1. Machine /\ Wellformed(i) /\ target(i) \in Int /\ after(i) \in Nat /\ reg["rdi"] \in Word
  BY MachineIs, FormShape, Target, AdvancesVerdict, RegisterWords, Registers DEF Shaped, Wellformed
<1>2. PICK c \in Checks : /\ c = Immediate(i) \o Relative(i) \o Reads(W64, target(i)) /\ c \o pushes \in Checks
                          /\ Verdict(c \o pushes) = "run" => reg["rsp"] >= W64
  <2>1. PICK c : c = Immediate(i) \o Relative(i) \o Reads(W64, target(i))
    OBVIOUS
  <2>2. c \in Checks /\ c \o pushes \in Checks /\ (Verdict(c \o pushes) = "run" => reg["rsp"] >= W64)
    BY <1>1, <2>1, CallmVerdict
  <2>3. QED BY <2>1, <2>2
<1>3. PICK to : to = le_value(W64, target(i)) /\ to \in Word
  BY <1>1, LoadedWords
<1>4. UNCHANGED <<zf, sf>>
  BY DEF CallIndirect
<1>5. CASE Finish(c, reg, reg["rdi"], mem)
  <2>1. Ends("run", c, reg, reg["rdi"], mem)
    BY <1>5, FinishEnds DEF Finish
  <2>2. QED BY <1>1, <1>4, <2>1, EndsKept DEF Machine
<1>6. CASE Finish(c \o pushes, below, to, pushed(after(i)))
  <2>1. Ends("run", c \o pushes, below, to, pushed(after(i)))
    BY <1>2, <1>6, FinishEnds DEF Finish
  <2>2. Verdict(c \o pushes) = "run" => below \in [Regs -> Word]
    BY <1>1, <1>2, Below
  <2>3. pushed(after(i)) \in [0 .. MemLen - 1 -> Byte]
    BY <1>1, Pushed64
  <2>4. QED BY <1>3, <1>4, <2>1, <2>2, <2>3, EndsKept
<1>7. QED BY <1>2, <1>3, <1>5, <1>6, Zenon DEF CallIndirect

LEMMA InstructionKept ==
  ASSUME TypeOK, NEW i \in Forms, decodes(i), Instruction(i)
  PROVE  Kept
BY NopKept, StopKept, PushKept, PopKept, MoveKept, SignExtendKept, IndexingKept, ArithmeticKept, ZeroKept,
   Load32Kept, LeaDisp8Kept, Load64Kept, LoadAlKept, SetFlagsKept, CmovNsKept, MovImmKept, LeaRipKept,
   StoreImmKept, JumpKept, CallKept, CallIndirectKept
   DEF Instruction, Halt, Unsupported
-----------------------------------------------------------------------------
(* System calls *)

\* The instruction lies inside the memory, so rip cannot overflow.
LEMMA SyscallFits ==
  ASSUME Machine, NEW i \in Forms, decodes(i), i.op = "syscall"
  PROVE  Wellformed(i) /\ i.operand = 0 /\ accessible(i.len, rip) /\ after(i) < U64
<1>1. Wellformed(i) /\ i.operand = 0 /\ i.len \in Nat
  BY FormShape DEF Shaped, Particular, Wellformed
<1>2. i.len - i.operand = i.len
  BY <1>1
<1>3. accessible(i.len, rip)
  BY <1>2 DEF decodes
<1>4. after(i) < U64
  BY <1>1, <1>3, WordSizes DEF accessible, va_to_index, after, Machine, Word
<1>5. QED BY <1>1, <1>3, <1>4

\* The answer goes to rax, unless a check fails.
Answered(how, c, v, m) ==
  /\ zf' = zf /\ sf' = sf
  /\ \/ Verdict(c) = "run" /\ status' = how /\ reg' = set_reg("rax", Wrap(v)) /\ mem' = m
     \/ Verdict(c) \in {"err", "panic"} /\ status' = Verdict(c) /\ reg' = reg /\ rip' = rip /\ mem' = mem

LEMMA AnswerIs ==
  ASSUME TypeOK, NEW i \in Forms, decodes(i), i.op = "syscall", NEW how \in {"run", "end"}, NEW c \in Checks,
         NEW v \in Int, NEW m \in [0 .. MemLen - 1 -> Byte], Answer(i, how, c, v, m)
  PROVE  Kept /\ Answered(how, c, v, m) /\ (Verdict(c) = "run" => rip' = after(i))
<1>1. Machine /\ Wellformed(i) /\ after(i) < U64 /\ "rax" \in Regs
  BY MachineIs, SyscallFits, Registers
<1>2. Advanced(how, i, c, set_reg("rax", Wrap(v)), m)
  BY <1>1, FinishAdvances DEF Answer
<1>3. set_reg("rax", Wrap(v)) \in [Regs -> Word]
  BY <1>1, Wrapped, SetReg
<1>4. Kept
  BY <1>1, <1>2, <1>3, AdvancedKept
<1>5. after(i) \in Nat
  BY <1>1, AdvancesVerdict DEF Wellformed
<1>6. ~(after(i) >= U64)
  BY <1>1, <1>5, WordSizes
<1>7. QED BY <1>2, <1>4, <1>6 DEF Advanced, Answered

\* Nothing is shown.
Quiet == tty' = <<>>

LEMMA QuietConsole ==
  ASSUME Quiet
  PROVE  tty' \in Seq(Byte) /\ ConsoleMatchesMemory'
BY EmptySeq DEF Quiet, ConsoleMatchesMemory

LEMMA SilentIs ==
  ASSUME TypeOK, NEW i \in Forms, decodes(i), i.op = "syscall", NEW how \in {"run", "end"}, NEW c \in Checks,
         NEW v \in Int, NEW m \in [0 .. MemLen - 1 -> Byte], Silent(i, how, c, v, m)
  PROVE  Kept /\ Quiet
BY AnswerIs DEF Silent, Quiet

LEMMA MinOfTwo ==
  ASSUME NEW a \in Int, NEW b \in Int
  PROVE  Min({a, b}) \in {a, b} /\ Min({a, b}) <= a /\ Min({a, b}) <= b
<1>1. CASE a <= b
  <2>1. Min({a, b}) = a
    <3>1. {a, b} \in SUBSET Int /\ a \in {a, b} /\ \A y \in {a, b} : a <= y
      BY <1>1
    <3>2. QED BY <3>1, MinIs
  <2>2. QED BY <1>1, <2>1
<1>2. CASE ~(a <= b)
  <2>1. Min({a, b}) = b
    <3>1. {a, b} \in SUBSET Int /\ b \in {a, b} /\ \A y \in {a, b} : b <= y
      BY <1>2
    <3>2. QED BY <3>1, MinIs
  <2>2. QED BY <1>2, <2>1
<1>3. QED BY <1>1, <1>2

LEMMA Cap ==
  ASSUME Machine, inside(reg["rsi"])
  PROVE  /\ cap \in Nat /\ cap <= reg["rdx"] /\ va_to_index(reg["rsi"]) \in 0 .. MemLen - 1
         /\ va_to_index(reg["rsi"]) + cap <= MemLen
<1>1. reg["rsi"] \in Nat /\ reg["rdx"] \in Nat
  BY RegisterWords, Registers
<1>2. PICK x \in Nat : x = va_to_index(reg["rsi"]) /\ x < MemLen
  BY <1>1 DEF inside, va_to_index, Machine
<1>3. MemLen - x \in Int /\ reg["rdx"] \in Int
  BY <1>1 DEF Machine
<1>4. Min({reg["rdx"], MemLen - x}) \in {reg["rdx"], MemLen - x} /\ Min({reg["rdx"], MemLen - x}) <= reg["rdx"]
      /\ Min({reg["rdx"], MemLen - x}) <= MemLen - x
  BY <1>3, MinOfTwo
<1>5. cap = Min({reg["rdx"], MemLen - x})
  BY <1>2, Zenon DEF cap
<1>6. QED BY <1>1, <1>2, <1>4, <1>5 DEF Machine

\* A line: no more than the buffer takes, up to the first line end, as a line feed.
Line(s, n) ==
  /\ s \in Seq(Byte) /\ Len(s) = n /\ n \in Nat /\ n <= cap
  /\ \A k \in 1 .. n : s[k] \in {LF, CR} => k = n /\ s[k] = LF

LEMMA TakenIsALine ==
  ASSUME Machine, inside(reg["rsi"]), NEW t \in Typed
  PROVE  \E n \in Nat : Line(taken(t), n)
<1>1. t \in Seq(Byte) /\ LF \in Byte /\ CR \in Byte
  BY InterpAssumption
<1>2. PICK l \in Nat : l = Len(t) /\ DOMAIN t = 1 .. l /\ \A k \in 1 .. l : t[k] \in Byte
  BY <1>1, LenProperties, ElementOfSeq
<1>3. PICK m : m = mapped(t)
  OBVIOUS
<1>4. /\ m \in Seq(Byte) /\ Len(m) = l
      /\ \A k \in 1 .. l : m[k] = IF t[k] = CR THEN LF ELSE t[k]
  BY <1>1, <1>2, <1>3 DEF mapped
<1>5. PICK S : S = {cap, Len(t)} \cup {k \in DOMAIN t : mapped(t)[k] = LF}
  OBVIOUS
<1>6. S \in SUBSET Nat /\ S # {} /\ cap \in S /\ l \in S /\ \A k \in 1 .. l : m[k] = LF => k \in S
  <2>1. cap \in Nat
    BY Cap
  <2>2. S = {cap, l} \cup {k \in 1 .. l : m[k] = LF}
    BY <1>2, <1>3, <1>5, Zenon
  <2>3. QED BY <2>1, <2>2
<1>7. PICK n \in S : \A y \in S : n <= y
  BY <1>6, LeastOf
<1>8. Min(S) = n
  <2>1. S \in SUBSET Int
    BY <1>6
  <2>2. QED BY <1>7, <2>1, MinIs
<1>9. n \in Nat /\ n <= cap /\ n <= l /\ \A k \in 1 .. l : m[k] = LF => n <= k
  BY <1>6, <1>7
<1>10. PICK s : s = SubSeq(m, 1, n)
  OBVIOUS
<1>11. taken(t) = s
  BY <1>3, <1>5, <1>8, <1>10, Zenon DEF taken
<1>12. s \in Seq(Byte) /\ Len(s) = n /\ \A k \in 1 .. n : s[k] = m[k]
  BY <1>4, <1>9, <1>10
<1>13. ASSUME NEW k \in 1 .. n, s[k] \in {LF, CR} PROVE k = n /\ s[k] = LF
  <2>1. s[k] = m[k] /\ k \in 1 .. l
    BY <1>2, <1>9, <1>12
  <2>2. m[k] = LF
    BY <1>4, <1>13, <2>1
  <2>3. n <= k
    BY <1>9, <2>1, <2>2
  <2>4. QED BY <1>9, <2>1, <2>2, <2>3
<1>14. Line(s, n)
  BY <1>9, <1>12, <1>13, Zenon DEF Line
<1>15. QED BY <1>9, <1>11, <1>14

LEMMA PutIs ==
  ASSUME Machine, NEW va \in Int, NEW bytes \in Seq(Byte)
  PROVE  /\ Put(va, bytes) \in [0 .. MemLen - 1 -> Byte]
         /\ \A k \in DOMAIN bytes : va_to_index(va) + k - 1 \in 0 .. MemLen - 1 =>
              Put(va, bytes)[va_to_index(va) + k - 1] = bytes[k]
<1>1. PICK x \in Int : x = va_to_index(va)
  BY DEF va_to_index, Machine
<1>2. PICK l \in Nat : l = Len(bytes) /\ DOMAIN bytes = 1 .. l /\ \A k \in 1 .. l : bytes[k] \in Byte
  BY LenProperties, ElementOfSeq
<1>3. DOMAIN mem = 0 .. MemLen - 1 /\ \A k \in 0 .. MemLen - 1 : mem[k] \in Byte
  BY DEF Machine
<1>4. PICK p : p = [k \in 0 .. MemLen - 1 |-> IF k - x + 1 \in 1 .. l THEN bytes[k - x + 1] ELSE mem[k]]
  OBVIOUS
<1>5. Put(va, bytes) = p
  BY <1>1, <1>2, <1>3, <1>4 DEF Put
<1>6. p \in [0 .. MemLen - 1 -> Byte]
  BY <1>2, <1>3, <1>4
<1>7. ASSUME NEW k \in 1 .. l, x + k - 1 \in 0 .. MemLen - 1 PROVE p[x + k - 1] = bytes[k]
  <2>1. PICK z \in 0 .. MemLen - 1 : z = x + k - 1
    BY <1>7
  <2>2. z - x + 1 = k
    BY <2>1
  <2>3. p[z] = bytes[k]
    BY <1>4, <2>2
  <2>4. QED BY <2>1, <2>3, Zenon
<1>8. QED BY <1>1, <1>2, <1>5, <1>6, <1>7, Zenon

\* Only rax changes among the registers.
LEMMA OtherRegisters ==
  ASSUME Machine, NEW v
  PROVE  /\ set_reg("rax", v)["rax"] = v
         /\ \A r \in Regs \ {"rax"} : set_reg("rax", v)[r] = reg[r]
BY Registers DEF Machine, set_reg

\* A call that keeps the machine and what is shown in step with memory.
Served == Kept /\ tty' \in Seq(Byte) /\ ConsoleMatchesMemory'

LEMMA SilentServed ==
  ASSUME TypeOK, NEW i \in Forms, decodes(i), i.op = "syscall", NEW how \in {"run", "end"}, NEW c \in Checks,
         NEW v \in Int, NEW m \in [0 .. MemLen - 1 -> Byte], Silent(i, how, c, v, m)
  PROVE  Served
BY SilentIs, QuietConsole DEF Served

LEMMA StopServed ==
  ASSUME TypeOK, NEW how \in {"end", "err", "panic"}, Stop(how), tty' = <<>>
  PROVE  Served
BY StopKept, QuietConsole DEF Served, Quiet

LEMMA KeyboardServed ==
  ASSUME TypeOK, NEW i \in Forms, decodes(i), i.op = "syscall", base' = base, inside(reg["rsi"]), NEW t \in Typed,
         Answer(i, "run", <<>>, Len(taken(t)), Put(reg["rsi"], taken(t))), tty' = taken(t)
  PROVE  Served
<1>1. Machine /\ reg["rsi"] \in Int /\ "rsi" \in Regs /\ "rdi" \in Regs
  BY MachineIs, RegisterWords, Registers
<1>2. PICK n \in Nat : Line(taken(t), n)
  BY <1>1, TakenIsALine
<1>3. PICK s : s = taken(t) /\ s \in Seq(Byte) /\ Len(s) = n /\ n <= cap /\ DOMAIN s = 1 .. n
               /\ \A k \in 1 .. n : s[k] \in {LF, CR} => k = n /\ s[k] = LF
  BY <1>2 DEF Line
<1>4. PICK m : m = Put(reg["rsi"], s) /\ m \in [0 .. MemLen - 1 -> Byte]
  BY <1>1, <1>3, PutIs
<1>5. Answer(i, "run", <<>>, n, m)
  BY <1>3, <1>4, Zenon
<1>6. Kept /\ Answered("run", <<>>, n, m)
  BY <1>4, <1>5, AnswerIs, VerdictNone
<1>7. reg' = set_reg("rax", Wrap(n)) /\ mem' = m
  BY <1>6, VerdictNone DEF Answered
<1>8. PICK x \in 0 .. MemLen - 1 : x = va_to_index(reg["rsi"]) /\ x + cap <= MemLen /\ cap \in Nat
  BY <1>1, Cap
<1>9. Wrap(n) = n /\ x + n <= MemLen
  <2>0. PICK d \in Nat : d = cap /\ n <= d /\ x + d <= MemLen
    BY <1>3, <1>8, Zenon
  <2>3. x + n <= MemLen
    BY <1>1, <2>0 DEF Machine
  <2>1. n < U64
    BY <1>1, <2>3, WordSizes DEF Machine
  <2>2. Wrap(n) = n
    BY <2>1, SmallRemainder, WordSizes DEF Wrap
  <2>4. QED BY <2>2, <2>3
<1>10. reg'["rax"] = n /\ reg'["rsi"] = reg["rsi"]
  BY <1>1, <1>7, <1>9, OtherRegisters
<1>11. va_to_index(reg["rsi"])' = x
  BY <1>8, <1>10 DEF va_to_index
<1>12. ASSUME NEW k \in 1 .. n PROVE m[x + k - 1] = s[k]
  <2>1. x + k - 1 \in 0 .. MemLen - 1
    BY <1>1, <1>9 DEF Machine
  <2>2. QED BY <1>1, <1>3, <1>4, <1>8, <2>1, PutIs
<1>13. ConsoleMatchesMemory'
  BY <1>3, <1>7, <1>10, <1>11, <1>12, Zenon DEF ConsoleMatchesMemory
<1>14. QED BY <1>3, <1>6, <1>13 DEF Served

LEMMA SysReadServed ==
  ASSUME TypeOK, NEW i \in Forms, decodes(i), base' = base, SysRead(i)
  PROVE  Served
<1>1. Machine /\ i.op = "syscall" /\ reg["rsi"] \in Int
  BY MachineIs, RegisterWords, Registers DEF SysRead, Nr
<1>2. mem \in [0 .. MemLen - 1 -> Byte] /\ 0 \in Int /\ -EBADF \in Int
  BY <1>1, InterpAssumption DEF Machine
<1>3. CASE ~inside(reg["rsi"])
  BY <1>3, StopServed DEF SysRead
<1>4. CASE Silent(i, "run", <<>>, 0, mem)
  BY <1>1, <1>2, <1>4, SilentServed, VerdictNone
<1>5. CASE inside(reg["rsi"]) /\ \E t \in Typed : Answer(i, "run", <<>>, Len(taken(t)), Put(reg["rsi"], taken(t))) /\ tty' = taken(t)
  BY <1>1, <1>5, KeyboardServed
<1>6. CASE Silent(i, "run", <<>>, -EBADF, mem)
  BY <1>1, <1>2, <1>6, SilentServed, VerdictNone
<1>7. CASE inside(reg["rsi"]) /\ \E n \in {0, Min({cap, TMP})}, b \in {0, BYTE - 1} :
                  Silent(i, "run", <<Panic(va_to_index(reg["rsi"]) + n > MemLen)>>, n,
                         Put(reg["rsi"], [k \in 1 .. n |-> b]))
  <2>1. PICK n \in {0, Min({cap, TMP})}, b \in {0, BYTE - 1} :
                  Silent(i, "run", <<Panic(va_to_index(reg["rsi"]) + n > MemLen)>>, n,
                         Put(reg["rsi"], [k \in 1 .. n |-> b]))
    BY <1>7
  <2>2. n \in Nat
    <3>1. cap \in Nat /\ TMP \in Nat
      BY <1>1, <1>7, Cap, InterpAssumption
    <3>2. Min({cap, TMP}) \in {cap, TMP}
      BY <3>1, MinOfTwo
    <3>3. QED BY <3>1, <3>2
  <2>3. b \in Byte
    BY Widths DEF Byte
  <2>4. [k \in 1 .. n |-> b] \in Seq(Byte)
    BY <2>2, <2>3
  <2>5. Put(reg["rsi"], [k \in 1 .. n |-> b]) \in [0 .. MemLen - 1 -> Byte]
    BY <1>1, <2>4, PutIs
  <2>6. <<Panic(va_to_index(reg["rsi"]) + n > MemLen)>> \in Checks
    <3>1. (va_to_index(reg["rsi"]) + n > MemLen) \in BOOLEAN
      OBVIOUS
    <3>2. QED BY <3>1, PanicOn, Zenon
  <2>7. QED BY <1>1, <2>1, <2>2, <2>5, <2>6, SilentServed
<1>8. QED BY <1>3, <1>4, <1>5, <1>6, <1>7, Zenon DEF SysRead

LEMMA JoinOnes ==
  ASSUME NEW e, NEW f
  PROVE  <<e>> \o <<f>> = <<e, f>>
<1>1. PICK s, t, u : s = <<e>> /\ t = <<f>> /\ u = <<e, f>>
  OBVIOUS
<1>2. /\ s \in Seq({e, f}) /\ t \in Seq({e, f}) /\ u \in Seq({e, f})
      /\ Len(s) = 1 /\ Len(t) = 1 /\ Len(u) = 2 /\ s[1] = e /\ t[1] = f /\ u[1] = e /\ u[2] = f
  BY <1>1
<1>3. /\ s \o t \in Seq({e, f}) /\ Len(s \o t) = 2 /\ (s \o t)[1] = e /\ (s \o t)[2] = f
  <2>1. /\ s \o t \in Seq({e, f}) /\ Len(s \o t) = Len(s) + Len(t)
        /\ \A k \in 1 .. Len(s) + Len(t) : (s \o t)[k] = IF k <= Len(s) THEN s[k] ELSE t[k - Len(s)]
    BY <1>2, ConcatProperties, Zenon
  <2>2. QED BY <1>2, <2>1
<1>4. \A k \in 1 .. Len(s \o t) : (s \o t)[k] = u[k]
  <2>1. \A k \in 1 .. 2 : k = 1 \/ k = 2
    OBVIOUS
  <2>2. QED BY <1>2, <1>3, <2>1, Zenon
<1>5. s \o t = u
  BY <1>2, <1>3, <1>4, SeqEqual
<1>6. QED BY <1>1, <1>5, Zenon

\* write checks that its buffer lies inside.
LEMMA WriteVerdict ==
  ASSUME Machine
  PROVE  LET c == <<Err(~inside(reg["rsi"])), Err(va_to_index(reg["rsi"]) + reg["rdx"] > MemLen)>>
         IN /\ c \in Checks
            /\ Verdict(c) = IF inside(reg["rsi"]) /\ va_to_index(reg["rsi"]) + reg["rdx"] <= MemLen THEN "run" ELSE "err"
<1>1. reg["rsi"] \in Int /\ reg["rdx"] \in Int /\ va_to_index(reg["rsi"]) \in Int
  BY RegisterWords, Registers DEF va_to_index, Machine
<1>2. (~inside(reg["rsi"])) \in BOOLEAN /\ (va_to_index(reg["rsi"]) + reg["rdx"] > MemLen) \in BOOLEAN
  OBVIOUS
<1>3. PICK a \in BOOLEAN, b \in BOOLEAN : a = ~inside(reg["rsi"]) /\ b = (va_to_index(reg["rsi"]) + reg["rdx"] > MemLen)
  BY <1>2, Zenon
<1>4. PICK s, t : s = << <<a, "err">> >> /\ t = << <<b, "err">> >>
  OBVIOUS
<1>5. s \in Checks /\ Verdict(s) = (IF a THEN "err" ELSE "run") /\ t \in Checks /\ Verdict(t) = (IF b THEN "err" ELSE "run")
  BY <1>4, VerdictOne
<1>6. s \o t \in Checks /\ Verdict(s \o t) = IF Verdict(s) = "run" THEN Verdict(t) ELSE Verdict(s)
  BY <1>5, VerdictJoin
<1>7. Verdict(s \o t) = IF ~a /\ ~b THEN "run" ELSE "err"
  BY <1>5, <1>6
<1>8. s \o t = << <<a, "err">>, <<b, "err">> >>
  BY <1>4, JoinOnes
<1>9. b <=> ~(va_to_index(reg["rsi"]) + reg["rdx"] <= MemLen)
  <2>1. va_to_index(reg["rsi"]) + reg["rdx"] > MemLen <=> ~(va_to_index(reg["rsi"]) + reg["rdx"] <= MemLen)
    BY <1>1 DEF Machine
  <2>2. QED BY <1>3, <2>1, Zenon
<1>10. Verdict(s \o t) = IF inside(reg["rsi"]) /\ va_to_index(reg["rsi"]) + reg["rdx"] <= MemLen THEN "run" ELSE "err"
  BY <1>3, <1>7, <1>9, Zenon
<1>11. QED BY <1>3, <1>6, <1>8, <1>10, Zenon DEF Err

LEMMA SysWriteServed ==
  ASSUME TypeOK, NEW i \in Forms, decodes(i), base' = base, SysWrite(i)
  PROVE  Served
<1>1. Machine /\ i.op = "syscall" /\ reg["rsi"] \in Nat /\ reg["rdx"] \in Nat /\ reg["rdx"] \in Word /\ EBADF \in Nat
      /\ "rsi" \in Regs /\ "rdi" \in Regs
  BY MachineIs, RegisterWords, Registers, InterpAssumption DEF SysWrite, Nr
<1>2. PICK c \in Checks :
        /\ c = <<Err(~inside(reg["rsi"])), Err(va_to_index(reg["rsi"]) + reg["rdx"] > MemLen)>>
        /\ Verdict(c) = IF inside(reg["rsi"]) /\ va_to_index(reg["rsi"]) + reg["rdx"] <= MemLen THEN "run" ELSE "err"
  BY <1>1, WriteVerdict, Zenon
<1>3. PICK v : v = IF reg["rdi"] \in {1, 2} THEN reg["rdx"] ELSE -EBADF
  OBVIOUS
<1>4. v \in Int
  BY <1>1, <1>3
<1>5. Answer(i, "run", c, v, mem)
  BY <1>2, <1>3, Zenon DEF SysWrite
<1>6. tty' = IF reg["rdi"] \in {1, 2} /\ Verdict(c) = "run" THEN Guest(reg["rsi"], reg["rdx"]) ELSE <<>>
  BY <1>2, Zenon DEF SysWrite
<1>7. Kept /\ Answered("run", c, v, mem)
  BY <1>1, <1>4, <1>5, AnswerIs DEF Machine
<1>8. CASE ~(reg["rdi"] \in {1, 2} /\ Verdict(c) = "run")
  <2>1. Quiet
    BY <1>6, <1>8, Zenon DEF Quiet
  <2>2. QED BY <1>7, <2>1, QuietConsole DEF Served
<1>9. CASE reg["rdi"] \in {1, 2} /\ Verdict(c) = "run"
  <2>1. PICK s : s = tty' /\ s = Guest(reg["rsi"], reg["rdx"])
    BY <1>6, <1>9, Zenon
  <2>2. PICK n \in Nat, x \in Nat : n = reg["rdx"] /\ x = va_to_index(reg["rsi"]) /\ x + n <= MemLen /\ n < U64
    <3>1. inside(reg["rsi"]) /\ va_to_index(reg["rsi"]) + reg["rdx"] <= MemLen
      BY <1>2, <1>9
    <3>2. va_to_index(reg["rsi"]) \in Nat
      BY <1>1, <3>1 DEF inside, va_to_index, Machine
    <3>3. reg["rdx"] < U64
      BY <1>1, WordSizes DEF Word
    <3>4. QED BY <1>1, <3>1, <3>2, <3>3
  <2>3. s = [k \in 1 .. n |-> mem[x + k - 1]]
    BY <2>1, <2>2, Zenon DEF Guest
  <2>4. \A k \in 1 .. n : mem[x + k - 1] \in Byte
    <3>1. \A k \in 1 .. n : x + k - 1 \in 0 .. MemLen - 1
      BY <1>1, <2>2 DEF Machine
    <3>2. QED BY <1>1, <3>1 DEF Machine
  <2>5. s \in Seq(Byte) /\ Len(s) = n /\ DOMAIN s = 1 .. n /\ \A k \in 1 .. n : s[k] = mem[x + k - 1]
    BY <2>3, <2>4
  <2>6. reg' = set_reg("rax", Wrap(n)) /\ mem' = mem
    BY <1>3, <1>7, <1>9, <2>2 DEF Answered
  <2>7. Wrap(n) = n
    BY <2>2, SmallRemainder, WordSizes DEF Wrap
  <2>8. reg'["rax"] = n /\ reg'["rsi"] = reg["rsi"] /\ reg'["rdi"] = reg["rdi"]
    BY <1>1, <2>6, <2>7, OtherRegisters
  <2>9. va_to_index(reg["rsi"])' = x
    BY <2>2, <2>8 DEF va_to_index
  <2>10. reg'["rdi"] # 0
    BY <1>9, <2>8
  <2>11. ConsoleMatchesMemory'
    BY <2>1, <2>5, <2>6, <2>8, <2>9, <2>10, Zenon DEF ConsoleMatchesMemory
  <2>12. QED BY <1>7, <2>1, <2>5, <2>11 DEF Served
<1>10. QED BY <1>8, <1>9

\* The checks of a vector, for whatever they find.
LEMMA VectorChecks ==
  ASSUME NEW va
  PROVE  vector_checks(va) \in Checks
<1>1. ASSUME NEW a \in BOOLEAN, NEW b \in BOOLEAN, NEW c \in BOOLEAN
      PROVE <<Panic(a), Err(b), Err(c)>> \in Checks
  BY DEF Checks, Panic, Err
<1>2. CASE va = 0
  BY <1>2, VerdictNone DEF vector_checks
<1>3. CASE va # 0
  BY <1>1, <1>3, Zenon DEF vector_checks
<1>4. QED BY <1>2, <1>3

LEMMA BreakWords == Breaks \subseteq Int
BY InterpAssumption DEF Word

\* What a call that is handed on may answer is a number.
LEMMA OtherAnswers ==
  ASSUME TypeOK
  PROVE  other_answers \subseteq Int
<1>1. {0, 1, PID, reg["rdi"], reg["rsi"]} \subseteq Int
  BY MachineIs, RegisterWords, Registers, InterpAssumption
<1>2. Counts \subseteq Int /\ Errors \subseteq Int
  BY InterpAssumption
<1>3. {-e : e \in Errors} \subseteq Int
  <2>1. \A e \in Errors : -e \in Int
    BY <1>2
  <2>2. QED BY <2>1, Zenon
<1>4. QED BY <1>1, <1>2, <1>3 DEF other_answers

LEMMA MaxOfTwo ==
  ASSUME NEW a \in Int, NEW b \in Int
  PROVE  Max({a, b}) \in {a, b}
<1>1. \E x \in {a, b} : \A y \in {a, b} : x >= y
  <2>1. CASE a >= b
    BY <2>1
  <2>2. CASE ~(a >= b)
    BY <2>2
  <2>3. QED BY <2>1, <2>2
<1>2. QED BY <1>1, Zenon DEF Max

\* The rounding of mmap overflows only within a page of the end of the words.
LEMMA MmapOverflow ==
  ASSUME TypeOK
  PROVE  mmap_ok \in BOOLEAN /\ (~mmap_ok => reg["rsi"] > U64 - PAGE)
<1>1. reg["rsi"] \in Int /\ PAGE \in Nat /\ PAGE # 0 /\ 2 * PAGE <= U64 /\ U64 \in Nat
  BY MachineIs, RegisterWords, Registers, InterpAssumption, WordSizes
<1>2. mmap_len \in {reg["rsi"], PAGE}
  BY <1>1, MaxOfTwo DEF mmap_len
<1>3. QED BY <1>1, <1>2 DEF mmap_ok

LEMMA MmapAnswers ==
  ASSUME TypeOK, NEW i, SysMmap(i)
  PROVE  \E c \in Checks, v \in Int :
           /\ Silent(i, "run", c, v, mem) /\ i.op = "syscall" /\ reg["rax"] = 9
           /\ Verdict(c) = IF mmap_ok THEN "run" ELSE "panic"
<1>1. PICK v \in {a \in Word : a % PAGE = 0} : Silent(i, "run", <<Panic(~mmap_ok)>>, v, mem)
  BY Zenon DEF SysMmap
<1>2. v \in Int /\ i.op = "syscall" /\ reg["rax"] = 9
  BY DEF SysMmap, Nr, Word
<1>3. PICK b \in BOOLEAN : b = ~mmap_ok
  BY MmapOverflow, Zenon
<1>4. /\ << <<b, "panic">> >> \in Checks
      /\ Verdict(<< <<b, "panic">> >>) = IF b THEN "panic" ELSE "run"
  BY VerdictOne
<1>5. <<Panic(~mmap_ok)>> = << <<b, "panic">> >>
  BY <1>3, Zenon DEF Panic
<1>6. Verdict(<< <<b, "panic">> >>) = IF mmap_ok THEN "run" ELSE "panic"
  BY <1>3, <1>4
<1>7. QED BY <1>1, <1>2, <1>4, <1>5, <1>6, Zenon

LEMMA OthersServed ==
  ASSUME TypeOK, NEW i \in Forms, decodes(i),
         SysGetpid(i) \/ SysBrk(i) \/ SysExit(i) \/ SysExecve(i) \/ SysMmap(i) \/ SysOther(i)
  PROVE  Served
<1>1. Machine /\ i.op = "syscall" /\ mem \in [0 .. MemLen - 1 -> Byte] /\ reg["rdi"] \in Int
  <2>1. i.op = "syscall"
    BY Zenon DEF SysGetpid, SysBrk, SysExit, SysExecve, SysMmap, SysOther, Nr
  <2>2. Machine /\ mem \in [0 .. MemLen - 1 -> Byte] /\ reg["rdi"] \in Int
    BY MachineIs, RegisterWords, Registers DEF Machine
  <2>3. QED BY <2>1, <2>2
<1>2. {PID, -EFAULT, -ENOENT, -ENOEXEC, 0} \subseteq Int
  BY InterpAssumption
<1>3. ASSUME NEW how \in {"run", "end"}, NEW v \in Int, Silent(i, how, <<>>, v, mem) PROVE Served
  BY <1>1, <1>3, VerdictNone, SilentServed
<1>4. CASE SysGetpid(i)
  BY <1>2, <1>3, <1>4 DEF SysGetpid
<1>5. CASE SysBrk(i)
  <2>1. PICK v \in Breaks : Silent(i, "run", <<>>, IF reg["rdi"] = 0 THEN v ELSE reg["rdi"], mem)
    BY <1>5 DEF SysBrk
  <2>2. (IF reg["rdi"] = 0 THEN v ELSE reg["rdi"]) \in Int
    BY <1>1, BreakWords
  <2>3. QED BY <1>3, <2>1, <2>2
<1>6. CASE SysExit(i)
  BY <1>2, <1>3, <1>6 DEF SysExit
<1>7. CASE SysExecve(i)
  <2>1. PICK path, c : /\ path = read_user_cstr(reg["rdi"])
                       /\ c = <<Err(path = "err")>> \o vector_checks(reg["rsi"]) \o vector_checks(reg["rdx"])
    OBVIOUS
  <2>2. c \in Checks
    <3>1. <<Err(path = "err")>> \in Checks
      <4>1. (path = "err") \in BOOLEAN
        OBVIOUS
      <4>2. PICK b \in BOOLEAN : b = (path = "err")
        BY <4>1, Zenon
      <4>3. << <<b, "err">> >> \in Checks
        BY VerdictOne
      <4>4. QED BY <4>2, <4>3, Zenon DEF Err
    <3>2. <<Err(path = "err")>> \o vector_checks(reg["rsi"]) \in Checks
      BY <3>1, VectorChecks, VerdictJoin
    <3>3. QED BY <2>1, <3>2, VectorChecks, VerdictJoin
  <2>3. \/ Silent(i, "run", <<>>, -EFAULT, mem)
        \/ (\E e \in {ENOENT, ENOEXEC} : Silent(i, "run", c, -e, mem))
        \/ Silent(i, "end", c, 0, mem)
    BY <1>7, <2>1, Zenon DEF SysExecve
  <2>4. CASE Silent(i, "run", <<>>, -EFAULT, mem)
    BY <1>2, <1>3, <2>4
  <2>5. CASE \E e \in {ENOENT, ENOEXEC} : Silent(i, "run", c, -e, mem)
    BY <1>1, <1>2, <2>2, <2>5, SilentServed
  <2>6. CASE Silent(i, "end", c, 0, mem)
    BY <1>1, <1>2, <2>2, <2>6, SilentServed
  <2>7. QED BY <2>3, <2>4, <2>5, <2>6
<1>8. CASE SysOther(i)
  <2>1. CASE \E v \in other_answers : Silent(i, "run", <<>>, v, mem)
    BY <1>3, <2>1, OtherAnswers
  <2>2. CASE Stop("panic") /\ tty' = <<>>
    BY <2>2, StopServed
  <2>3. QED BY <1>8, <2>1, <2>2 DEF SysOther
<1>9. CASE SysMmap(i)
  <2>1. PICK c \in Checks, v \in Int : Silent(i, "run", c, v, mem)
    BY <1>9, MmapAnswers
  <2>2. QED BY <1>1, <2>1, SilentServed
<1>10. QED BY <1>4, <1>5, <1>6, <1>7, <1>8, <1>9
-----------------------------------------------------------------------------
(* The invariant *)

LEMMA StepServed ==
  ASSUME InterpInv, [Next]_vars
  PROVE  InterpInv'
<1>1. TypeOK
  BY DEF InterpInv
<1>2. CASE exec_one
  <2>1. PICK i \in Forms : decodes(i) /\ ((Instruction(i) /\ tty' = <<>>) \/ handle_syscall(i)) /\ ins' = i
    BY <1>2 DEF exec_one
  <2>2. base' = base /\ steps' = steps + 1
    BY <1>2 DEF exec_one
  <2>3. Served
    <3>1. CASE Instruction(i) /\ tty' = <<>>
      BY <1>1, <2>1, <3>1, InstructionKept, QuietConsole DEF Served, Quiet
    <3>2. CASE handle_syscall(i)
      BY <1>1, <2>1, <2>2, <3>2, SysReadServed, SysWriteServed, OthersServed DEF handle_syscall
    <3>3. QED BY <2>1, <3>1, <3>2
  <2>4. QED BY <1>1, <2>1, <2>2, <2>3 DEF InterpInv, TypeOK, Served, Kept
<1>3. CASE fetch_fails
  <2>1. Served
    BY <1>1, <1>3, StopServed DEF fetch_fails
  <2>2. QED BY <1>1, <1>3, <2>1 DEF fetch_fails, InterpInv, TypeOK, Served, Kept
<1>4. CASE UNCHANGED vars
  BY <1>4 DEF vars, cpu, InterpInv, TypeOK, ConsoleMatchesMemory, va_to_index
<1>5. QED BY <1>2, <1>3, <1>4 DEF Next

LEMMA InitServed ==
  ASSUME Init
  PROVE  InterpInv
<1>1. base \in Bases /\ base \in Nat /\ base + MemLen < U64 /\ MemLen \in Nat /\ reg \in [Regs -> Word]
      /\ mem \in [0 .. MemLen - 1 -> Byte] /\ rip \in {base + s : s \in Starts} /\ Starts \subseteq 0 .. MemLen - 1
  BY InterpAssumption DEF Init
<1>2. rip \in Word
  BY <1>1, WordSizes DEF Word
<1>3. Plain("nop", 1) \in Forms
  BY Zenon DEF Forms
<1>4. QED BY <1>1, <1>2, <1>3, EmptySeq DEF Init, InterpInv, TypeOK, ConsoleMatchesMemory

\* Whatever the program, its registers and its memory hold numbers of their
\* width, and what the system calls showed stands in its memory.
THEOREM InterpInvariant == Spec => []InterpInv
<1>1. Init => InterpInv
  BY InitServed
<1>2. InterpInv /\ [Next]_vars => InterpInv'
  BY StepServed
<1>3. QED BY <1>1, <1>2, PTL DEF Spec

\* ConsoleMatchesMemory: after a read from the keyboard or a write to the
\* terminal, in programs of any length, the bytes shown are those of the
\* buffer at rsi, as many as rax answers, and a typed line ends at its first
\* line feed.
THEOREM ConsoleShowsMemory == Spec => []ConsoleMatchesMemory
BY InterpInvariant, PTL DEF InterpInv
-----------------------------------------------------------------------------
(* The machine as the processor sees it *)

LEMMA SameOperators ==
  /\ X!Regs = Regs /\ X!Gprs = Gprs
  /\ \A v : X!Wrap(v) = Wrap(v)
  /\ \A v, n : X!Signed(v, n) = Signed(v, n)
  /\ \A v, j : X!byte_of(v, j) = byte_of(v, j)
  /\ \A n, b : X!le_number(n, b) = le_number(n, b)
<1>1. X!Regs = Regs /\ X!Gprs = Gprs
  BY DEF X!Regs, X!Gprs, X!GPR, Regs, Gprs, GPR
<1>2. ASSUME NEW v PROVE X!Wrap(v) = Wrap(v)
  BY SameNumbers, Zenon DEF X!Wrap, Wrap
<1>3. ASSUME NEW v, NEW n PROVE X!Signed(v, n) = Signed(v, n)
  BY DEF X!Signed, Signed
<1>4. ASSUME NEW v, NEW j PROVE X!byte_of(v, j) = byte_of(v, j)
  BY SameNumbers, Zenon DEF X!byte_of, byte_of
<1>5. ASSUME NEW n, NEW b PROVE X!le_number(n, b) = le_number(n, b)
  BY Zenon DEF X!le_number, le_number
<1>6. QED BY <1>1, <1>2, <1>3, <1>4, <1>5, Zenon

LEMMA MappedIs ==
  ASSUME Machine, NEW n \in Nat \ {0}, NEW a \in Int
  PROVE  X!Mapped(n, a) <=> accessible(n, a)
BY DEF X!Mapped, accessible, inside, va_to_index, Machine

LEMMA InsideIs ==
  ASSUME Machine, NEW a \in Int
  PROVE  X!Mapped(1, a) <=> inside(a)
BY DEF X!Mapped, inside, va_to_index, Machine

LEMMA LoadIs ==
  ASSUME Machine, NEW n \in Nat \ {0}, NEW a \in Int, accessible(n, a)
  PROVE  X!Load(n, a) = le_value(n, a)
<1>1. PICK b, c : /\ b = [k \in 0 .. n - 1 |-> mem[a - base + k]]
                  /\ c = [k \in 0 .. n - 1 |->
                            IF va_to_index(a) + k \in DOMAIN mem THEN mem[va_to_index(a) + k] ELSE 0]
  OBVIOUS
<1>2. \A k \in 0 .. n - 1 : a - base + k \in DOMAIN mem /\ va_to_index(a) = a - base
  BY DEF accessible, inside, va_to_index, Machine
<1>3. b = c
  BY <1>1, <1>2
<1>4. X!Load(n, a) = le_number(n, b)
  BY <1>1, SameOperators, Zenon DEF X!Load
<1>5. le_value(n, a) = le_number(n, c)
  BY <1>1, Zenon DEF le_value
<1>6. QED BY <1>3, <1>4, <1>5, Zenon

LEMMA StoredIs ==
  ASSUME Machine, NEW n \in Nat, NEW a \in Int, NEW v
  PROVE  X!Stored(n, a, v) = le_write(n, a, v)
<1>1. \A k \in DOMAIN mem : /\ (k + base \in a .. a + n - 1) <=> (k - va_to_index(a) \in 0 .. n - 1)
                            /\ k + base - a = k - va_to_index(a)
  BY DEF va_to_index, Machine
<1>2. ASSUME NEW k \in DOMAIN mem
      PROVE (IF k + base \in a .. a + n - 1 THEN byte_of(v, k + base - a) ELSE mem[k])
            = (IF k - va_to_index(a) \in 0 .. n - 1 THEN byte_of(v, k - va_to_index(a)) ELSE mem[k])
  <2>1. PICK x, y : x = k + base - a /\ y = k - va_to_index(a)
    OBVIOUS
  <2>2. x = y /\ ((k + base \in a .. a + n - 1) <=> (y \in 0 .. n - 1))
    BY <1>1, <2>1, Zenon
  <2>3. QED BY <2>1, <2>2, Zenon
<1>3. X!Stored(n, a, v) = [k \in DOMAIN mem |-> IF k + base \in a .. a + n - 1 THEN byte_of(v, k + base - a) ELSE mem[k]]
  BY SameOperators, Zenon DEF X!Stored
<1>4. le_write(n, a, v) = [k \in DOMAIN mem |->
                             IF k - va_to_index(a) \in 0 .. n - 1 THEN byte_of(v, k - va_to_index(a)) ELSE mem[k]]
  BY Zenon DEF le_write
<1>5. QED BY <1>2, <1>3, <1>4, Zenon

LEMMA NextIs ==
  ASSUME Machine, NEW i, Wellformed(i), after(i) < U64
  PROVE  X!Next_(i) = after(i)
<1>1. after(i) \in Nat
  BY AdvancesVerdict DEF Wellformed
<1>2. Wrap(after(i)) = after(i)
  BY <1>1, SmallRemainder, WordSizes DEF Wrap
<1>3. QED BY <1>2, SameOperators, Zenon DEF X!Next_, after

\* Bytes that are missing at the end are those of the operand.
LEMMA FetchedIs ==
  ASSUME Machine, NEW i, Wellformed(i), decodes(i)
  PROVE  /\ i.operand = 0 => X!Fetched(i)
         /\ i.operand = W32 => (X!Fetched(i) <=> accessible(W32, after(i) - W32))
<1>1. i.len \in Nat \ {0} /\ i.operand \in Nat /\ rip \in Nat /\ i.operand < i.len /\ base \in Nat /\ MemLen \in Nat
  BY Widths DEF Wellformed, Machine, Word
<1>2. X!Fetched(i) <=> rip >= base /\ rip + i.len <= base + MemLen
  BY DEF X!Fetched, X!Mapped
<1>3. rip >= base /\ rip - base < MemLen /\ rip - base + (i.len - i.operand) <= MemLen
  BY DEF decodes, accessible, inside, va_to_index
<1>4. i.operand = 0 => X!Fetched(i)
  BY <1>1, <1>2, <1>3
<1>5. ASSUME i.operand = W32 PROVE X!Fetched(i) <=> accessible(W32, after(i) - W32)
  <2>1. accessible(W32, after(i) - W32) <=> X!Mapped(W32, after(i) - W32)
    BY <1>1, Widths, MappedIs DEF after
  <2>2. X!Mapped(W32, after(i) - W32) <=> rip + i.len - W32 >= base /\ rip + i.len <= base + MemLen
    BY <1>1, Widths DEF X!Mapped, after
  <2>3. rip + i.len - W32 >= base
    BY <1>1, <1>3, <1>5, Widths
  <2>4. QED BY <1>2, <1>3, <2>1, <2>2, <2>3
<1>6. QED BY <1>4, <1>5

LEMMA TopIs ==
  ASSUME Machine
  PROVE  /\ reg["rsp"] >= W64 => X!Top = reg["rsp"] - W64
         /\ X!Mapped(W64, X!Top) <=> reg["rsp"] >= W64 /\ accessible(W64, reg["rsp"] - W64)
<1>1. PICK s \in Nat, w \in Nat \ {0}, u \in Nat \ {0} : s = reg["rsp"] /\ w = W64 /\ u = U64 /\ s < u /\ w < u
  <2>1. reg["rsp"] \in Word /\ reg["rsp"] \in Nat
    BY RegisterWords, Registers
  <2>2. reg["rsp"] < U64
    BY <2>1, WordSizes DEF Word
  <2>3. W64 \in Nat \ {0} /\ U64 \in Nat \ {0} /\ W64 < U64
    BY Widths, WordSizes
  <2>4. QED BY <2>1, <2>2, <2>3, Zenon
<1>2. X!Top = (s - w) % u
  BY <1>1, SameOperators, Zenon DEF X!Top, Wrap
<1>3. CASE s >= w
  <2>1. (s - w) % u = s - w
    <3>1. s - w \in 0 .. u - 1
      BY <1>1, <1>3
    <3>2. QED BY <3>1, SmallRemainder
  <2>2. X!Top = reg["rsp"] - W64
    BY <1>1, <1>2, <2>1, Zenon
  <2>3. X!Mapped(W64, X!Top) <=> accessible(W64, reg["rsp"] - W64)
    <3>1. reg["rsp"] - W64 \in Int /\ W64 \in Nat \ {0}
      BY <1>1
    <3>2. QED BY <2>2, <3>1, MappedIs
  <2>4. reg["rsp"] >= W64
    BY <1>1, <1>3, Zenon
  <2>5. QED BY <2>2, <2>3, <2>4, Zenon
<1>4. CASE ~(s >= w)
  <2>1. (s - w) % u = (s - w + u) % u
    <3>1. PICK a \in Int, b \in Int, q \in Int : a = s - w + u /\ b = s - w /\ q = 1
      OBVIOUS
    <3>2. a = b + q * u
      BY <3>1
    <3>4. a % u = b % u
      BY <3>2, SameRemainder, Zenon
    <3>3. QED BY <3>1, <3>4, Zenon
  <2>2. (s - w + u) % u = s - w + u
    <3>1. s - w + u \in 0 .. u - 1
      BY <1>1, <1>4
    <3>2. QED BY <3>1, SmallRemainder
  <2>3. X!Top = s - w + u
    BY <1>2, <2>1, <2>2, Zenon
  <2>4. ~X!Mapped(w, s - w + u)
    BY <1>1 DEF X!Mapped, Machine
  <2>5. ~(reg["rsp"] >= W64)
    BY <1>1, <1>4, Zenon
  <2>6. QED BY <1>1, <2>3, <2>4, <2>5, Zenon
<1>5. QED BY <1>3, <1>4

LEMMA OperandOf ==
  ASSUME NEW i
  PROVE  /\ i.op \in {"lea8", "load8", "store8"} => X!Operand(i) = Wrap(reg["rdx"] + reg["rax"] * W64 + i.disp)
         /\ i.op = "loadal" => X!Operand(i) = Wrap(reg["r9"] + reg["r8"] + i.disp)
         /\ i.op \in {"leaip", "callm", "call", "jmp", "je"} => X!Operand(i) = target(i)
         /\ i.op \in {"load32", "lea", "storei", "load64"} => X!Operand(i) = disp8(i)
<1>1. PICK a, b, c, d : /\ a = reg["rdx"] + reg["rax"] * W64 + i.disp
                        /\ b = reg["r9"] + reg["r8"] + i.disp
                        /\ c = rip + i.len + i.disp /\ d = reg[i.src] + i.disp
  OBVIOUS
<1>2. X!Operand(i) = Wrap(CASE i.op \in {"lea8", "load8", "store8"} -> a
                            [] i.op = "loadal" -> b
                            [] i.op \in {"leaip", "callm", "call", "jmp", "je"} -> c
                            [] OTHER -> d)
  BY <1>1, SameOperators, Zenon DEF X!Operand
<1>3. target(i) = Wrap(c) /\ disp8(i) = Wrap(d)
  BY <1>1, Zenon DEF target, after, disp8
<1>4. QED BY <1>1, <1>2, <1>3

LEMMA ValueOf ==
  ASSUME NEW i
  PROVE  /\ i.op = "mov" => X!Value(i) = reg[i.src]
         /\ i.op = "movsxd" => X!Value(i) = Wrap(Signed(reg[i.src] % U32, U32))
         /\ i.op \in {"lea", "lea8", "leaip"} => X!Value(i) = X!Operand(i)
         /\ i.op = "add" => X!Value(i) = Wrap(reg[i.dst] + i.imm)
         /\ i.op = "sub" => X!Value(i) = Wrap(reg[i.dst] - i.imm)
         /\ i.op = "or" => X!Value(i) = bit_or(reg[i.dst], Wrap(i.imm))
         /\ i.op = "and" => X!Value(i) = bit_and(reg[i.dst], Wrap(i.imm))
         /\ i.op = "zero" => X!Value(i) = 0
         /\ i.op = "movi" => X!Value(i) = Wrap(i.imm)
         /\ i.op = "movi32" => X!Value(i) = i.imm % U32
         /\ i.op = "cmovns" => X!Value(i) = reg[IF sf THEN i.dst ELSE i.src]
         /\ i.op = "load32" => X!Value(i) = X!Load(W32, X!Operand(i))
         /\ i.op \in {"load8", "load64"} => X!Value(i) = X!Load(W64, X!Operand(i))
         /\ i.op = "loadal" => X!Value(i) = (reg["rax"] \div BYTE) * BYTE + X!Load(1, X!Operand(i))
<1>1. PICK a, b, c, d, e, f, g, h, j, k, l, m, n :
        /\ a = reg[i.src] /\ b = X!Wrap(X!Signed(reg[i.src] % X!U32, X!U32)) /\ c = X!Operand(i)
        /\ d = X!Wrap(reg[i.dst] + i.imm) /\ e = X!Wrap(reg[i.dst] - i.imm)
        /\ f = bit_or(reg[i.dst], X!Wrap(i.imm)) /\ g = bit_and(reg[i.dst], X!Wrap(i.imm))
        /\ h = X!Wrap(i.imm) /\ j = i.imm % X!U32 /\ k = reg[IF sf THEN i.dst ELSE i.src]
        /\ l = X!Load(W32, X!Operand(i)) /\ m = X!Load(W64, X!Operand(i))
        /\ n = (reg["rax"] \div BYTE) * BYTE + X!Load(1, X!Operand(i))
  OBVIOUS
<1>2. X!Value(i) = CASE i.op = "mov" -> a [] i.op = "movsxd" -> b [] i.op \in {"lea", "lea8", "leaip"} -> c
                     [] i.op = "add" -> d [] i.op = "sub" -> e [] i.op = "or" -> f [] i.op = "and" -> g
                     [] i.op = "zero" -> 0 [] i.op = "movi" -> h [] i.op = "movi32" -> j [] i.op = "cmovns" -> k
                     [] i.op = "load32" -> l [] i.op \in {"load8", "load64"} -> m [] i.op = "loadal" -> n
  BY <1>1, Zenon DEF X!Value
<1>3. /\ b = Wrap(Signed(reg[i.src] % U32, U32)) /\ d = Wrap(reg[i.dst] + i.imm) /\ e = Wrap(reg[i.dst] - i.imm)
      /\ f = bit_or(reg[i.dst], Wrap(i.imm)) /\ g = bit_and(reg[i.dst], Wrap(i.imm))
      /\ h = Wrap(i.imm) /\ j = i.imm % U32
  BY <1>1, SameNumbers, SameOperators, Zenon
<1>4. /\ i.op = "mov" => X!Value(i) = a
      /\ i.op = "movsxd" => X!Value(i) = b
      /\ i.op \in {"lea", "lea8", "leaip"} => X!Value(i) = c
      /\ i.op = "add" => X!Value(i) = d
      /\ i.op = "sub" => X!Value(i) = e
      /\ i.op = "or" => X!Value(i) = f
      /\ i.op = "and" => X!Value(i) = g
      /\ i.op = "zero" => X!Value(i) = 0
      /\ i.op = "movi" => X!Value(i) = h
      /\ i.op = "movi32" => X!Value(i) = j
      /\ i.op = "cmovns" => X!Value(i) = k
      /\ i.op = "load32" => X!Value(i) = l
      /\ i.op \in {"load8", "load64"} => X!Value(i) = m
      /\ i.op = "loadal" => X!Value(i) = n
  BY <1>2
<1>5. /\ i.op = "mov" => X!Value(i) = reg[i.src]
      /\ i.op = "movsxd" => X!Value(i) = Wrap(Signed(reg[i.src] % U32, U32))
      /\ i.op \in {"lea", "lea8", "leaip"} => X!Value(i) = X!Operand(i)
      /\ i.op = "add" => X!Value(i) = Wrap(reg[i.dst] + i.imm)
      /\ i.op = "sub" => X!Value(i) = Wrap(reg[i.dst] - i.imm)
  BY <1>1, <1>3, <1>4, Zenon
<1>6. /\ i.op = "or" => X!Value(i) = bit_or(reg[i.dst], Wrap(i.imm))
      /\ i.op = "and" => X!Value(i) = bit_and(reg[i.dst], Wrap(i.imm))
      /\ i.op = "movi" => X!Value(i) = Wrap(i.imm)
      /\ i.op = "movi32" => X!Value(i) = i.imm % U32
      /\ i.op = "cmovns" => X!Value(i) = reg[IF sf THEN i.dst ELSE i.src]
  BY <1>1, <1>3, <1>4, Zenon
<1>7. /\ i.op = "load32" => X!Value(i) = X!Load(W32, X!Operand(i))
      /\ i.op \in {"load8", "load64"} => X!Value(i) = X!Load(W64, X!Operand(i))
      /\ i.op = "loadal" => X!Value(i) = (reg["rax"] \div BYTE) * BYTE + X!Load(1, X!Operand(i))
  BY <1>1, <1>4, Zenon
<1>8. QED BY <1>4, <1>5, <1>6, <1>7, Zenon

LEMMA AccessesOf ==
  ASSUME NEW i
  PROVE  /\ i.op \in {"push", "call"} => X!Accesses(i) = {<<W64, X!Top>>}
         /\ i.op = "pop" => X!Accesses(i) = {<<W64, reg["rsp"]>>}
         /\ i.op \in {"load32", "storei"} => X!Accesses(i) = {<<W32, X!Operand(i)>>}
         /\ i.op \in {"load8", "load64", "store8"} => X!Accesses(i) = {<<W64, X!Operand(i)>>}
         /\ i.op = "loadal" => X!Accesses(i) = {<<1, X!Operand(i)>>}
         /\ i.op = "callm" => X!Accesses(i) = {<<W64, X!Operand(i)>>, <<W64, X!Top>>}
         /\ i.op \in {"nop", "mov", "movsxd", "lea", "lea8", "leaip", "add", "sub", "or", "and", "zero", "movi",
                      "movi32", "cmovns", "test", "cmpal", "jmp", "je"} => X!Accesses(i) = {}
<1>1. PICK a, b, c, d, e, f :
        /\ a = {<<W64, X!Top>>} /\ b = {<<W64, reg["rsp"]>>} /\ c = {<<W32, X!Operand(i)>>}
        /\ d = {<<W64, X!Operand(i)>>} /\ e = {<<1, X!Operand(i)>>} /\ f = {<<W64, X!Operand(i)>>, <<W64, X!Top>>}
  OBVIOUS
<1>2. X!Accesses(i) = CASE i.op \in {"push", "call"} -> a [] i.op = "pop" -> b [] i.op \in {"load32", "storei"} -> c
                        [] i.op \in {"load8", "load64", "store8"} -> d [] i.op = "loadal" -> e
                        [] i.op = "callm" -> f [] OTHER -> {}
  BY <1>1, Zenon DEF X!Accesses
<1>3. /\ i.op \in {"push", "call"} => X!Accesses(i) = a
      /\ i.op = "pop" => X!Accesses(i) = b
      /\ i.op \in {"load32", "storei"} => X!Accesses(i) = c
      /\ i.op \in {"load8", "load64", "store8"} => X!Accesses(i) = d
      /\ i.op = "loadal" => X!Accesses(i) = e
      /\ i.op = "callm" => X!Accesses(i) = f
      /\ i.op \in {"nop", "mov", "movsxd", "lea", "lea8", "leaip", "add", "sub", "or", "and", "zero", "movi",
                   "movi32", "cmovns", "test", "cmpal", "jmp", "je"} => X!Accesses(i) = {}
  BY <1>2
<1>4. QED BY <1>1, <1>3, Zenon

\* An instruction with one access, with two, or with none.
LEMMA AllowedIs ==
  ASSUME NEW i
  PROVE  /\ X!Accesses(i) = {} => (X!Allowed(i) <=> X!Fetched(i))
         /\ \A n, a : X!Accesses(i) = {<<n, a>>} => (X!Allowed(i) <=> X!Fetched(i) /\ X!Mapped(n, a))
         /\ \A n, a, b : X!Accesses(i) = {<<n, a>>, <<n, b>>} =>
              (X!Allowed(i) <=> X!Fetched(i) /\ X!Mapped(n, a) /\ X!Mapped(n, b))
<1>1. X!Accesses(i) = {} => (X!Allowed(i) <=> X!Fetched(i))
  BY DEF X!Allowed
<1>2. ASSUME NEW n, NEW a, NEW b, X!Accesses(i) = {<<n, a>>, <<n, b>>}
      PROVE  X!Allowed(i) <=> X!Fetched(i) /\ X!Mapped(n, a) /\ X!Mapped(n, b)
  <2>1. PICK s, t : s = <<n, a>> /\ t = <<n, b>>
    OBVIOUS
  <2>2. s[1] = n /\ s[2] = a /\ t[1] = n /\ t[2] = b
    BY <2>1
  <2>3. X!Accesses(i) = {s, t}
    BY <1>2, <2>1, Zenon
  <2>4. QED BY <2>2, <2>3, Zenon DEF X!Allowed
<1>3. ASSUME NEW n, NEW a, X!Accesses(i) = {<<n, a>>}
      PROVE  X!Allowed(i) <=> X!Fetched(i) /\ X!Mapped(n, a)
  <2>1. {<<n, a>>} = {<<n, a>>, <<n, a>>}
    BY Zenon
  <2>2. QED BY <1>2, <1>3, <2>1, Zenon
<1>4. QED BY <1>1, <1>2, <1>3, Zenon

\* What a step of an arm is to the processor.
LEMMA FaultStep ==
  ASSUME NEW i, status' = "err", ~X!Allowed(i), reg' = reg, rip' = rip, zf' = zf, sf' = sf, mem' = mem
  PROVE  X!Step(i)
BY Zenon DEF X!Step, X!Fault

LEMMA OverflowStep ==
  ASSUME NEW i, status' = "panic", X!Overflows(i)
  PROVE  X!Step(i)
BY Zenon DEF X!Step, X!Panic

LEMMA DifferenceStep ==
  ASSUME NEW i, status' # "panic", mem' = mem, X!Differs(i)
  PROVE  X!Step(i)
BY Zenon DEF X!Step, X!Difference

\* An arm that computes: refused, overflowing, incomplete or done.
LEMMA AdvancedStep ==
  ASSUME Machine, NEW i, Wellformed(i), NEW c, NEW r, NEW m, Advanced("run", i, c, r, m),
         Verdict(c) = "err" => ~X!Allowed(i),
         Verdict(c) = "panic" => X!Overflows(i),
         Verdict(c) = "run" /\ ~X!Fetched(i) => m = mem,
         Verdict(c) = "run" /\ X!Fetched(i) /\ after(i) < U64 /\ status' = "run" /\ reg' = r /\ rip' = X!Next_(i)
           /\ mem' = m /\ zf' = zf /\ sf' = sf => X!Step(i)
  PROVE  X!Step(i)
<1>1. CASE Verdict(c) = "run" /\ after(i) < U64 /\ status' = "run" /\ reg' = r /\ rip' = after(i) /\ mem' = m
  <2>1. CASE X!Fetched(i)
    BY <1>1, <2>1, NextIs DEF Advanced
  <2>2. CASE ~X!Fetched(i)
    <3>1. X!Differs(i) /\ mem' = mem /\ status' # "panic"
      BY <1>1, <2>2 DEF X!Differs
    <3>2. QED BY <3>1, DifferenceStep
  <2>3. QED BY <2>1, <2>2
<1>2. CASE Verdict(c) = "err" /\ status' = "err" /\ reg' = reg /\ rip' = rip /\ mem' = mem
  BY <1>2, FaultStep DEF Advanced
<1>3. CASE Verdict(c) = "panic" /\ status' = "panic"
  BY <1>3, OverflowStep
<1>4. CASE Verdict(c) = "run" /\ after(i) >= U64 /\ status' = "panic"
  <2>1. X!Overflows(i)
    BY <1>4, SameNumbers, Zenon DEF X!Overflows, after
  <2>2. QED BY <1>4, <2>1, OverflowStep
<1>5. QED BY <1>1, <1>2, <1>3, <1>4 DEF Advanced

\* An instruction that computes a register.
LEMMA ComputeStep ==
  ASSUME NEW i, i.op \in X!Computing, X!Allowed(i), status' = "run", reg' = [reg EXCEPT ![i.dst] = X!Value(i)],
         rip' = X!Next_(i), mem' = mem, zf' = zf, sf' = sf
  PROVE  X!Step(i)
BY Zenon DEF X!Step, X!Compute
-----------------------------------------------------------------------------
(* Each arm is a step of the processor *)

LEMMA WrapOf ==
  ASSUME NEW v \in Int
  PROVE  /\ v >= 0 /\ v < U64 => Wrap(v) = v
         /\ v < 0 /\ -U64 <= v => Wrap(v) = U64 + v
<1>1. PICK u \in Nat \ {0} : u = U64
  BY WordSizes
<1>2. ASSUME v >= 0, v < u PROVE v % u = v
  BY <1>2, SmallRemainder
<1>3. ASSUME v < 0, -u <= v PROVE v % u = u + v
  <2>1. PICK q \in Int, a \in Int : q = 1 /\ a = u + v
    OBVIOUS
  <2>2. v + q * u = a /\ a \in 0 .. u - 1
    BY <1>3, <2>1
  <2>3. (v + q * u) % u = v % u
    BY SameRemainder, Zenon
  <2>4. a % u = a
    BY <2>2, SmallRemainder
  <2>5. QED BY <2>1, <2>2, <2>3, <2>4, Zenon
<1>4. QED BY <1>1, <1>2, <1>3, Zenon DEF Wrap

\* A word more does not matter.
LEMMA WrapMore ==
  ASSUME NEW v \in Int, NEW q \in Int
  PROVE  Wrap(v + q * U64) = Wrap(v)
<1>1. PICK u \in Nat \ {0} : u = U64
  BY WordSizes
<1>2. (v + q * u) % u = v % u
  BY SameRemainder, Zenon
<1>3. QED BY <1>1, <1>2, Zenon DEF Wrap

LEMMA SignExtendedIs ==
  ASSUME NEW v \in Nat
  PROVE  LET low == v % U32
         IN Wrap(Signed(low, U32)) = IF low >= U32 \div 2 THEN U64 - U32 + low ELSE low
<1>1. PICK u \in Nat \ {0}, w \in Nat \ {0} : u = U32 /\ w = U64 /\ u <= w
  BY WordSizes
<1>2. PICK l \in 0 .. u - 1 : l = v % U32
  <2>1. v % u \in 0 .. u - 1
    OBVIOUS
  <2>2. QED BY <1>1, <2>1, Zenon
<1>3. CASE l < u \div 2
  <2>1. Signed(l, U32) = l
    BY <1>1, <1>3, Zenon DEF Signed
  <2>2. Wrap(l) = l
    BY <1>1, <1>2, WrapOf
  <2>3. ~(l >= u \div 2)
    BY <1>2, <1>3
  <2>4. QED BY <1>1, <1>2, <2>1, <2>2, <2>3, Zenon
<1>4. CASE ~(l < u \div 2)
  <2>1. Signed(l, U32) = l - u
    BY <1>1, <1>4, Zenon DEF Signed
  <2>2. PICK z \in Int : z = l - u /\ z < 0 /\ -w <= z
    BY <1>1, <1>2
  <2>3. Wrap(z) = U64 + z
    BY <1>1, <2>2, WrapOf, Zenon
  <2>4. w + z = w - u + l
    BY <1>1, <1>2, <2>2
  <2>5. l >= u \div 2
    BY <1>2, <1>4
  <2>6. QED BY <1>1, <1>2, <2>1, <2>2, <2>3, <2>4, <2>5, Zenon
<1>5. QED BY <1>3, <1>4

LEMMA UnfetchedRefused ==
  ASSUME NEW i, ~X!Fetched(i)
  PROVE  ~X!Allowed(i)
BY DEF X!Allowed

LEMMA NopStep ==
  ASSUME TypeOK, NEW i \in Forms, decodes(i), Nop(i)
  PROVE  X!Step(i)
<1>1. Machine /\ Wellformed(i) /\ i.op = "nop"
  BY MachineIs, FormShape DEF Shaped, Nop
<1>2. Advanced("run", i, <<>>, reg, mem)
  BY <1>1, VerdictNone, ArmAdvances DEF Nop
<1>3. X!Fetched(i) => X!Allowed(i)
  BY <1>1, AccessesOf, AllowedIs
<1>4. ASSUME X!Fetched(i), status' = "run", reg' = reg, rip' = X!Next_(i), mem' = mem, zf' = zf, sf' = sf
      PROVE X!Step(i)
  <2>1. X!SetFlags(i)
    BY <1>1, <1>4 DEF X!SetFlags
  <2>2. QED BY <1>3, <1>4, <2>1 DEF X!Step
<1>5. QED BY <1>1, <1>2, <1>4, VerdictNone, AdvancedStep

LEMMA StopStep ==
  ASSUME NEW i, Halt(i) \/ Unsupported(i)
  PROVE  X!Step(i)
<1>1. i.op \in {"ret", "hlt", "other"} /\ status' \in {"end", "err"} /\ mem' = mem
  BY DEF Halt, Unsupported, Stop
<1>2. QED BY <1>1, DifferenceStep DEF X!Differs

LEMMA PushStep ==
  ASSUME TypeOK, NEW i \in Forms, decodes(i), Push(i)
  PROVE  X!Step(i)
<1>1. Machine /\ Wellformed(i) /\ i.op = "push" /\ i.operand = 0
  BY MachineIs, FormShape DEF Shaped, Particular, Push
<1>2. pushes \in Checks /\ Verdict(pushes) = IF X!Mapped(W64, X!Top) THEN "run" ELSE "err"
  BY <1>1, PushesVerdict, TopIs
<1>3. Advanced("run", i, pushes, below, pushed(reg[i.dst]))
  BY <1>1, <1>2, ArmAdvances DEF Push
<1>4. X!Fetched(i) /\ (X!Allowed(i) <=> X!Mapped(W64, X!Top))
  BY <1>1, FetchedIs, AccessesOf, AllowedIs
<1>5. ASSUME Verdict(pushes) = "run", status' = "run", reg' = below, rip' = X!Next_(i), mem' = pushed(reg[i.dst]),
             zf' = zf, sf' = sf
      PROVE X!Step(i)
  <2>1. reg["rsp"] >= W64 /\ X!Top = reg["rsp"] - W64
    BY <1>1, <1>2, <1>5, TopIs
  <2>2. reg["rsp"] - W64 \in Int /\ W64 \in Nat
    BY <1>1, RegisterWords, Registers, Widths
  <2>3. pushed(reg[i.dst]) = X!Stored(W64, X!Top, reg[i.dst])
    BY <1>1, <2>1, <2>2, StoredIs DEF pushed
  <2>4. below = [reg EXCEPT !["rsp"] = X!Top]
    BY <1>1, <2>1, Below
  <2>5. X!Stack(i)
    BY <1>1, <1>5, <2>3, <2>4 DEF X!Stack
  <2>6. QED BY <1>2, <1>4, <1>5, <2>5 DEF X!Step
<1>6. QED BY <1>1, <1>2, <1>3, <1>4, <1>5, AdvancedStep

LEMMA PopStep ==
  ASSUME TypeOK, NEW i \in Forms, decodes(i), Pop(i)
  PROVE  X!Step(i)
<1>1. Machine /\ Wellformed(i) /\ i.op = "pop" /\ i.operand = 0
  BY MachineIs, FormShape DEF Shaped, Particular, Pop
<1>2. reg["rsp"] \in Nat /\ W64 \in Nat \ {0} /\ reg["rsp"] \in Int
  BY <1>1, RegisterWords, Registers, Widths
<1>3. PICK c : c = Reads(W64, reg["rsp"]) \o <<Err(reg["rsp"] + W64 >= U64)>>
  OBVIOUS
<1>4. c \in Checks /\ Verdict(c) = IF accessible(W64, reg["rsp"]) THEN "run" ELSE "err"
  BY <1>1, <1>3, PopVerdict
<1>5. PICK r : r = [[reg EXCEPT !["rsp"] = @ + W64] EXCEPT ![i.dst] = le_value(W64, reg["rsp"])]
  OBVIOUS
<1>6. Arm(i, c, r, mem)
  BY <1>3, <1>5 DEF Pop
<1>7. Advanced("run", i, c, r, mem)
  BY <1>1, <1>4, <1>6, ArmAdvances
<1>8. X!Fetched(i) /\ (X!Allowed(i) <=> accessible(W64, reg["rsp"]))
  BY <1>1, <1>2, FetchedIs, AccessesOf, AllowedIs, MappedIs
<1>9. ASSUME Verdict(c) = "run", status' = "run", reg' = r, rip' = X!Next_(i), mem' = mem, zf' = zf, sf' = sf
      PROVE X!Step(i)
  <2>1. accessible(W64, reg["rsp"])
    BY <1>4, <1>9
  <2>2. reg["rsp"] + W64 \in Int /\ reg["rsp"] + W64 >= 0 /\ reg["rsp"] + W64 < U64
    BY <1>1, <1>2, <2>1, WordSizes DEF accessible, inside, va_to_index, Machine
  <2>3. X!Wrap(reg["rsp"] + W64) = reg["rsp"] + W64
    BY <2>2, WrapOf, SameOperators
  <2>4. X!Load(W64, reg["rsp"]) = le_value(W64, reg["rsp"])
    BY <1>1, <1>2, <2>1, LoadIs
  <2>5. r = [[reg EXCEPT !["rsp"] = X!Wrap(@ + W64)] EXCEPT ![i.dst] = X!Load(W64, reg["rsp"])]
    BY <1>5, <2>3, <2>4
  <2>6. X!Stack(i)
    BY <1>1, <1>9, <2>5 DEF X!Stack
  <2>7. QED BY <1>8, <1>9, <2>1, <2>6 DEF X!Step
<1>10. QED BY <1>1, <1>4, <1>7, <1>8, <1>9, AdvancedStep

\* An arm that only computes a register.
LEMMA ComputesStep ==
  ASSUME Machine, NEW i \in Forms, decodes(i), NEW c \in Checks, NEW r, Arm(i, c, r, mem),
         i.op \in X!Computing,
         Verdict(c) = "err" => ~X!Allowed(i),
         Verdict(c) = "panic" => X!Overflows(i),
         Verdict(c) = "run" /\ X!Fetched(i) =>
           X!Differs(i) \/ (X!Allowed(i) /\ r = [reg EXCEPT ![i.dst] = X!Value(i)])
  PROVE  X!Step(i)
<1>1. Wellformed(i)
  BY FormShape DEF Shaped
<1>2. Advanced("run", i, c, r, mem)
  BY <1>1, ArmAdvances
<1>3. ASSUME Verdict(c) = "run", X!Fetched(i), status' = "run", reg' = r, rip' = X!Next_(i), mem' = mem,
             zf' = zf, sf' = sf
      PROVE X!Step(i)
  <2>1. CASE X!Differs(i)
    BY <1>3, <2>1, DifferenceStep
  <2>2. CASE X!Allowed(i) /\ r = [reg EXCEPT ![i.dst] = X!Value(i)]
    BY <1>3, <2>2, ComputeStep
  <2>3. QED BY <1>3, <2>1, <2>2
<1>4. QED BY <1>1, <1>2, <1>3, AdvancedStep

LEMMA MoveStep ==
  ASSUME TypeOK, NEW i \in Forms, decodes(i), Move(i)
  PROVE  X!Step(i)
<1>1. Machine /\ i.op = "mov" /\ Arm(i, <<>>, set_reg(i.dst, reg[i.src]), mem)
  BY MachineIs DEF Move
<1>2. X!Fetched(i) => X!Allowed(i) /\ set_reg(i.dst, reg[i.src]) = [reg EXCEPT ![i.dst] = X!Value(i)]
  BY <1>1, AccessesOf, AllowedIs, ValueOf DEF set_reg
<1>3. QED BY <1>1, <1>2, VerdictNone, ComputesStep DEF X!Computing

LEMMA SignExtendStep ==
  ASSUME TypeOK, NEW i \in Forms, decodes(i), SignExtend(i)
  PROVE  X!Step(i)
<1>1. Machine /\ i.op = "movsxd" /\ reg[i.src] \in Nat
  BY MachineIs, FormShape, RegisterWords DEF Shaped, Wellformed, SignExtend
<1>2. PICK v : v = LET low == reg[i.src] % U32 IN IF low >= U32 \div 2 THEN U64 - U32 + low ELSE low
  OBVIOUS
<1>3. Arm(i, <<>>, set_reg(i.dst, v), mem)
  BY <1>2, Zenon DEF SignExtend
<1>4. X!Value(i) = v
  <2>1. X!Value(i) = Wrap(Signed(reg[i.src] % U32, U32))
    BY <1>1, ValueOf
  <2>2. QED BY <1>1, <1>2, <2>1, SignExtendedIs, Zenon
<1>5. X!Fetched(i) => X!Allowed(i) /\ set_reg(i.dst, v) = [reg EXCEPT ![i.dst] = X!Value(i)]
  BY <1>1, <1>4, AccessesOf, AllowedIs DEF set_reg
<1>6. QED BY <1>1, <1>3, <1>5, VerdictNone, ComputesStep DEF X!Computing

LEMMA ZeroStep ==
  ASSUME TypeOK, NEW i \in Forms, decodes(i), Zero(i)
  PROVE  X!Step(i)
<1>1. Machine /\ i.op = "zero" /\ Arm(i, <<>>, set_reg(i.dst, 0), mem)
  BY MachineIs DEF Zero
<1>2. X!Fetched(i) => X!Allowed(i) /\ set_reg(i.dst, 0) = [reg EXCEPT ![i.dst] = X!Value(i)]
  BY <1>1, AccessesOf, AllowedIs, ValueOf DEF set_reg
<1>3. QED BY <1>1, <1>2, VerdictNone, ComputesStep DEF X!Computing

\* Wrapping early or late makes no difference.
LEMMA IndexedIs ==
  ASSUME Machine, NEW i \in Forms, i.op \in {"lea8", "load8", "store8"}
  PROVE  X!Operand(i) = indexed
<1>1. PICK a \in Nat, d \in Nat, w \in Nat, u \in Nat \ {0} : a = reg["rax"] /\ d = reg["rdx"] /\ w = W64 /\ u = U64
  BY RegisterWords, Registers, Widths, WordSizes
<1>2. i.disp = w
  BY <1>1, FormShape DEF Shaped, Particular
<1>3. X!Operand(i) = Wrap(d + a * w + w)
  BY <1>1, <1>2, OperandOf, Zenon
<1>4. indexed = Wrap(d + Wrap(a * w) + w)
  BY <1>1, Zenon DEF indexed
<1>5. PICK p \in Int : p = a * w
  BY <1>1
<1>6. PICK q \in Int, r \in 0 .. u - 1 : p = q * u + r /\ r = p % u
  BY DivisionFact
<1>7. Wrap(p) = r
  BY <1>1, <1>6, Zenon DEF Wrap
<1>8. PICK b \in Int : b = d + r + w
  BY <1>1, <1>6
<1>9. d + p + w = b + q * u
  BY <1>1, <1>6, <1>8
<1>10. Wrap(b + q * U64) = Wrap(b)
  BY WrapMore
<1>11. QED BY <1>1, <1>3, <1>4, <1>5, <1>7, <1>8, <1>9, <1>10, Zenon

LEMMA IndexingStep ==
  ASSUME TypeOK, NEW i \in Forms, decodes(i), Indexing(i)
  PROVE  X!Step(i)
<1>1. Machine /\ Wellformed(i) /\ i.op \in {"lea8", "load8", "store8"} /\ i.dst = "rdi" /\ i.operand = 0
  BY MachineIs, FormShape DEF Shaped, Particular, Indexing
<1>2. X!Operand(i) = indexed /\ indexed \in Int /\ W64 \in Nat \ {0} /\ X!Fetched(i)
  BY <1>1, IndexedIs, Indexed, Widths, FetchedIs
<1>3. PICK c \in Checks : c = Reads(W64, indexed) /\ Verdict(c) = IF accessible(W64, indexed) THEN "run" ELSE "err"
  BY <1>1, <1>2, ReadsVerdict
<1>4. i.op \in {"load8", "store8"} => (X!Allowed(i) <=> accessible(W64, indexed))
  BY <1>1, <1>2, AccessesOf, AllowedIs, MappedIs
<1>5. CASE i.op = "lea8" /\ Arm(i, <<>>, set_reg("rdi", indexed), mem)
  <2>1. X!Allowed(i) /\ set_reg("rdi", indexed) = [reg EXCEPT ![i.dst] = X!Value(i)]
    BY <1>1, <1>2, <1>5, AccessesOf, AllowedIs, ValueOf DEF set_reg
  <2>2. QED BY <1>1, <1>5, <2>1, VerdictNone, ComputesStep DEF X!Computing
<1>6. CASE i.op = "load8" /\ Arm(i, c, set_reg("rdi", le_value(W64, indexed)), mem)
  <2>1. Verdict(c) = "run" => set_reg("rdi", le_value(W64, indexed)) = [reg EXCEPT ![i.dst] = X!Value(i)]
    BY <1>1, <1>2, <1>3, <1>6, LoadIs, ValueOf DEF set_reg
  <2>2. QED BY <1>1, <1>3, <1>4, <1>6, <2>1, ComputesStep DEF X!Computing
<1>7. CASE i.op = "store8" /\ Arm(i, c, reg, le_write(W64, indexed, reg["rdi"]))
  <2>1. Advanced("run", i, c, reg, le_write(W64, indexed, reg["rdi"]))
    BY <1>1, <1>3, <1>7, ArmAdvances
  <2>2. le_write(W64, indexed, reg["rdi"]) = X!Stored(W64, X!Operand(i), reg[i.dst])
    BY <1>1, <1>2, StoredIs
  <2>3. ASSUME Verdict(c) = "run", status' = "run", reg' = reg, rip' = X!Next_(i),
               mem' = le_write(W64, indexed, reg["rdi"]), zf' = zf, sf' = sf
        PROVE X!Step(i)
    <3>1. X!Store(i)
      BY <1>7, <2>2, <2>3 DEF X!Store
    <3>2. QED BY <1>3, <1>4, <1>7, <2>3, <3>1 DEF X!Step
  <2>4. QED BY <1>1, <1>2, <1>3, <1>4, <1>7, <2>1, <2>3, AdvancedStep
<1>8. QED BY <1>3, <1>5, <1>6, <1>7 DEF Indexing

\* A sign-extended immediate is the immediate, wrapped.
LEMMA ImmediateWraps ==
  ASSUME NEW v \in Int, -(U32 \div 2) <= v, v < U32 \div 2
  PROVE  /\ Wrap(v) = IF v < 0 THEN U64 + v ELSE v
         /\ v >= 0 => v % U32 = v
<1>1. PICK u \in Nat \ {0}, w \in Nat \ {0} : u = U32 /\ w = U64 /\ u <= w
  BY WordSizes
<1>2. -(u \div 2) <= v /\ v < u \div 2
  BY <1>1, Zenon
<1>3. (v < 0 => -w <= v) /\ (~(v < 0) => v >= 0 /\ v < w) /\ v < u
  BY <1>1, <1>2
<1>4. v >= 0 => v % u = v
  BY <1>3, SmallRemainder
<1>5. QED BY <1>1, <1>3, <1>4, WrapOf, Zenon

LEMMA ArithmeticStep ==
  ASSUME TypeOK, NEW i \in Forms, decodes(i), Arithmetic(i)
  PROVE  X!Step(i)
<1>1. Machine /\ Wellformed(i) /\ reg[i.dst] \in Int /\ i.imm \in Int /\ i.op \in {"add", "or", "sub", "and"}
  BY MachineIs, FormShape, RegisterWords DEF Shaped, Wellformed, Arithmetic
<1>2. PICK m \in Int : m = (IF i.imm < 0 THEN U64 + i.imm ELSE i.imm) /\ m = Wrap(i.imm)
  <2>1. Wrap(i.imm) = IF i.imm < 0 THEN U64 + i.imm ELSE i.imm
    BY <1>1, ImmediateWraps DEF Wellformed
  <2>2. Wrap(i.imm) \in Int
    BY <1>1, Wrapped DEF Word
  <2>3. QED BY <2>1, <2>2, Zenon
<1>3. PICK n : n = CASE i.op = "add" -> (reg[i.dst] + m) % U64
                     [] i.op = "or" -> bit_or(reg[i.dst], m)
                     [] i.op = "sub" -> (reg[i.dst] - m) % U64
                     [] i.op = "and" -> bit_and(reg[i.dst], m)
  OBVIOUS
<1>4. Arm(i, Immediate(i), set_reg(i.dst, n), mem)
  BY <1>2, <1>3, Zenon DEF Arithmetic
<1>5. PICK x \in Int, y \in Int, u \in Nat \ {0} : x = reg[i.dst] /\ y = i.imm /\ u = U64
  BY <1>1, WordSizes
<1>6. (x + m) % U64 = Wrap(x + y) /\ (x - m) % U64 = Wrap(x - y)
  <2>1. CASE i.imm < 0
    <3>1. PICK a \in Int, b \in Int, p \in Int, q \in Int : a = x + y /\ b = x - y /\ p = 1 /\ q = -1
      OBVIOUS
    <3>2. x + m = a + p * u /\ x - m = b + q * u
      BY <1>2, <1>5, <2>1, <3>1
    <3>3. Wrap(a + p * U64) = Wrap(a) /\ Wrap(b + q * U64) = Wrap(b)
      BY WrapMore
    <3>4. QED BY <1>5, <3>1, <3>2, <3>3, Zenon DEF Wrap
  <2>2. CASE ~(i.imm < 0)
    BY <1>2, <1>5, <2>2, Zenon DEF Wrap
  <2>3. QED BY <2>1, <2>2
<1>7. n = X!Value(i)
  <2>1. PICK e, f, g, h : /\ e = (reg[i.dst] + m) % U64 /\ f = bit_or(reg[i.dst], m)
                          /\ g = (reg[i.dst] - m) % U64 /\ h = bit_and(reg[i.dst], m)
    OBVIOUS
  <2>2. n = CASE i.op = "add" -> e [] i.op = "or" -> f [] i.op = "sub" -> g [] i.op = "and" -> h
    BY <1>3, <2>1, Zenon
  <2>3. /\ i.op = "add" => X!Value(i) = e
        /\ i.op = "or" => X!Value(i) = f
        /\ i.op = "sub" => X!Value(i) = g
        /\ i.op = "and" => X!Value(i) = h
    BY <1>2, <1>5, <1>6, <2>1, ValueOf, Zenon
  <2>4. QED BY <1>1, <2>2, <2>3
<1>8. Immediate(i) \in Checks /\ Verdict(Immediate(i)) \in {"run", "err"}
      /\ (Verdict(Immediate(i)) = "err" => ~X!Allowed(i))
  BY <1>1, ImmediateVerdict, FetchedIs, UnfetchedRefused
<1>9. X!Fetched(i) => X!Allowed(i)
  BY <1>1, AccessesOf, AllowedIs
<1>10. set_reg(i.dst, n) = [reg EXCEPT ![i.dst] = X!Value(i)]
  BY <1>7 DEF set_reg
<1>11. i.op \in X!Computing
  BY <1>1 DEF X!Computing
<1>12. QED BY <1>1, <1>4, <1>8, <1>9, <1>10, <1>11, ComputesStep

\* The addition that panics is the one the processor would wrap.
LEMMA DispOverflows ==
  ASSUME NEW i, i.op \in {"load32", "lea", "storei"}, ~disp8_ok(i)
  PROVE  X!Overflows(i)
BY SameNumbers, SameOperators, Zenon DEF X!Overflows, disp8_ok, signed_add_ok

LEMMA Load32Step ==
  ASSUME TypeOK, NEW i \in Forms, decodes(i), Load32(i)
  PROVE  X!Step(i)
<1>1. Machine /\ Wellformed(i) /\ i.op = "load32" /\ i.dst \in Gprs /\ W32 \in Nat \ {0}
  BY MachineIs, FormShape, Widths DEF Shaped, Particular, Load32
<1>2. PICK c \in Checks :
        /\ c = <<Panic(i.operand = 1 /\ ~disp8_ok(i))>> \o Reads(W32, disp8(i))
        /\ Verdict(c) = IF i.operand = 1 /\ ~disp8_ok(i) THEN "panic"
                        ELSE IF accessible(W32, disp8(i)) THEN "run" ELSE "err"
  BY <1>1, Load32Verdict, Zenon
<1>3. PICK r : r = assign({"rax", "rcx", "rdx", "rsi", "rdi"}, i.dst, le_value(W32, disp8(i)))
  OBVIOUS
<1>4. Arm(i, c, r, mem)
  BY <1>2, <1>3, Zenon DEF Load32
<1>5. X!Operand(i) = disp8(i) /\ disp8(i) \in Int
  BY <1>1, OperandOf, Disp8
<1>6. X!Allowed(i) <=> X!Fetched(i) /\ accessible(W32, disp8(i))
  BY <1>1, <1>5, AccessesOf, AllowedIs, MappedIs
<1>7. Verdict(c) = "panic" => X!Overflows(i)
  BY <1>1, <1>2, DispOverflows
<1>8. ASSUME Verdict(c) = "run", X!Fetched(i)
      PROVE X!Differs(i) \/ (X!Allowed(i) /\ r = [reg EXCEPT ![i.dst] = X!Value(i)])
  <2>1. accessible(W32, disp8(i))
    BY <1>2, <1>8
  <2>2. CASE i.dst \in {"rbx", "rsp", "rbp"}
    BY <1>1, <2>2 DEF X!Differs
  <2>3. CASE i.dst \notin {"rbx", "rsp", "rbp"}
    <3>1. i.dst \in {"rax", "rcx", "rdx", "rsi", "rdi"}
      BY <1>1, <2>3, Registers
    <3>2. X!Value(i) = le_value(W32, disp8(i))
      BY <1>1, <1>5, <2>1, LoadIs, ValueOf
    <3>3. QED BY <1>3, <1>6, <1>8, <2>1, <3>1, <3>2 DEF assign, set_reg
  <2>4. QED BY <2>2, <2>3
<1>9. Verdict(c) = "err" => ~X!Allowed(i)
  BY <1>2, <1>6
<1>10. i.op \in X!Computing
  BY <1>1 DEF X!Computing
<1>11. QED BY <1>1, <1>4, <1>7, <1>8, <1>9, <1>10, ComputesStep

LEMMA LeaDisp8Step ==
  ASSUME TypeOK, NEW i \in Forms, decodes(i), LeaDisp8(i)
  PROVE  X!Step(i)
<1>1. Machine /\ Wellformed(i) /\ i.op = "lea" /\ i.dst \in Gprs \cup {"r8", "r9", "r10"}
  BY MachineIs, FormShape DEF Shaped, Particular, LeaDisp8
<1>2. PICK c \in Checks : c = <<Panic(~disp8_ok(i))>> /\ Verdict(c) = IF ~disp8_ok(i) THEN "panic" ELSE "run"
  <2>1. (~disp8_ok(i)) \in BOOLEAN
    OBVIOUS
  <2>2. QED BY <2>1, PanicOn, Zenon
<1>3. PICK r : r = assign({"rax", "rdx", "rbp", "rsi", "rdi", "r8", "r9"}, i.dst, disp8(i))
  OBVIOUS
<1>4. Arm(i, c, r, mem)
  BY <1>2, <1>3, Zenon DEF LeaDisp8
<1>5. X!Value(i) = disp8(i)
  BY <1>1, OperandOf, ValueOf
<1>6. X!Fetched(i) => X!Allowed(i)
  BY <1>1, AccessesOf, AllowedIs
<1>7. Verdict(c) = "panic" => X!Overflows(i)
  BY <1>1, <1>2, DispOverflows
<1>8. X!Differs(i) \/ r = [reg EXCEPT ![i.dst] = X!Value(i)]
  <2>1. CASE i.dst \in {"rcx", "rbx", "rsp", "r10"}
    BY <1>1, <2>1 DEF X!Differs
  <2>2. CASE i.dst \notin {"rcx", "rbx", "rsp", "r10"}
    <3>1. i.dst \in {"rax", "rdx", "rbp", "rsi", "rdi", "r8", "r9"}
      BY <1>1, <2>2, Registers
    <3>2. QED BY <1>3, <1>5, <3>1 DEF assign, set_reg
  <2>3. QED BY <2>1, <2>2
<1>9. i.op \in X!Computing /\ Verdict(c) # "err"
  BY <1>1, <1>2 DEF X!Computing
<1>10. QED BY <1>1, <1>4, <1>6, <1>7, <1>8, <1>9, ComputesStep

LEMMA Load64Step ==
  ASSUME TypeOK, NEW i \in Forms, decodes(i), Load64(i)
  PROVE  X!Step(i)
<1>1. Machine /\ Wellformed(i) /\ i.op = "load64" /\ i.dst = "rsi" /\ i.src = "rdi" /\ i.disp = 0 /\ i.operand = 0
  BY MachineIs, FormShape DEF Shaped, Particular, Load64
<1>2. reg["rdi"] \in Nat /\ reg["rdi"] \in Int /\ reg["rdi"] < U64 /\ W64 \in Nat \ {0}
  BY <1>1, RegisterWords, Registers, Widths, WordSizes DEF Word
<1>3. X!Operand(i) = reg["rdi"]
  <2>1. reg[i.src] + i.disp = reg["rdi"]
    BY <1>1, <1>2
  <2>2. disp8(i) = reg["rdi"]
    BY <1>2, <2>1, WrapOf DEF disp8
  <2>3. QED BY <1>1, <2>2, OperandOf
<1>4. PICK c \in Checks : c = Reads(W64, reg["rdi"]) /\ Verdict(c) = IF accessible(W64, reg["rdi"]) THEN "run" ELSE "err"
  BY <1>1, <1>2, ReadsVerdict
<1>5. Arm(i, c, set_reg("rsi", le_value(W64, reg["rdi"])), mem)
  BY <1>4 DEF Load64
<1>6. X!Fetched(i) /\ (X!Allowed(i) <=> accessible(W64, reg["rdi"]))
  BY <1>1, <1>2, <1>3, FetchedIs, AccessesOf, AllowedIs, MappedIs
<1>7. Verdict(c) = "run" => set_reg("rsi", le_value(W64, reg["rdi"])) = [reg EXCEPT ![i.dst] = X!Value(i)]
  BY <1>1, <1>2, <1>3, <1>4, LoadIs, ValueOf DEF set_reg
<1>8. i.op \in X!Computing
  BY <1>1 DEF X!Computing
<1>9. QED BY <1>1, <1>4, <1>5, <1>6, <1>7, <1>8, ComputesStep

LEMMA LoadAlStep ==
  ASSUME TypeOK, NEW i \in Forms, decodes(i), LoadAl(i)
  PROVE  X!Step(i)
<1>1. Machine /\ Wellformed(i) /\ i.op = "loadal" /\ i.dst = "rax" /\ i.disp = -1 /\ i.operand = 0
  BY MachineIs, FormShape DEF Shaped, Particular, LoadAl
<1>2. PICK addr \in Int : addr = (reg["r9"] + reg["r8"] - 1) % U64
  BY <1>1, AlAddress
<1>3. X!Operand(i) = addr
  <2>1. reg["r9"] + reg["r8"] + i.disp = reg["r9"] + reg["r8"] - 1
    BY <1>1, RegisterWords, Registers
  <2>2. QED BY <1>1, <1>2, <2>1, OperandOf, Zenon DEF Wrap
<1>4. PICK c \in Checks : c = Reads(1, addr) /\ Verdict(c) = IF accessible(1, addr) THEN "run" ELSE "err"
  BY <1>1, ReadsVerdict
<1>5. Arm(i, c, set_al(le_value(1, addr)), mem)
  BY <1>2, <1>4, Zenon DEF LoadAl
<1>6. X!Fetched(i) /\ (X!Allowed(i) <=> accessible(1, addr))
  BY <1>1, <1>3, FetchedIs, AccessesOf, AllowedIs, MappedIs
<1>7. ASSUME Verdict(c) = "run" PROVE set_al(le_value(1, addr)) = [reg EXCEPT ![i.dst] = X!Value(i)]
  <2>1. PICK b : b = le_value(1, addr) /\ b \in Byte
    BY <1>1, LoadedWords
  <2>2. X!Load(1, addr) = b
    BY <1>1, <1>4, <1>7, <2>1, LoadIs
  <2>3. X!Value(i) = (reg["rax"] \div BYTE) * BYTE + b
    BY <1>1, <1>3, <2>2, ValueOf, Zenon
  <2>4. reg["rax"] \in Word
    BY <1>1, RegisterWords, Registers
  <2>5. (reg["rax"] - al) + b = (reg["rax"] \div BYTE) * BYTE + b
    BY <2>1, <2>4, LowByte, Zenon DEF al
  <2>6. QED BY <1>1, <2>1, <2>3, <2>5, Zenon DEF set_al, set_reg
<1>8. i.op \in X!Computing
  BY <1>1 DEF X!Computing
<1>9. QED BY <1>1, <1>4, <1>5, <1>6, <1>7, <1>8, ComputesStep

\* The sign of a word is its upper half.
LEMMA UpperHalf ==
  ASSUME NEW v \in Word
  PROVE  v \div (U64 \div 2) # 0 <=> v >= U64 \div 2
<1>1. PICK u \in Nat \ {0} : u = U64 /\ u % 2 = 0
  BY WordSizes
<1>2. PICK h \in Nat \ {0} : h = u \div 2 /\ u = 2 * h
  BY <1>1
<1>3. v \in Nat
  BY DEF Word
<1>4. PICK q \in Int, r \in 0 .. h - 1 : q = v \div h /\ v = q * h + r
  <2>1. v \in Int
    BY <1>3
  <2>2. v \div h \in Int /\ v % h \in 0 .. h - 1 /\ v = (v \div h) * h + (v % h)
    BY <2>1, DivisionFact
  <2>3. QED BY <2>2, Zenon
<1>5. q = 0 => v < h
  BY <1>4
<1>6. v < h => q = 0
  <2>1. ASSUME v < h PROVE v \div h = 0
    BY <1>3, <2>1
  <2>2. QED BY <1>4, <2>1, Zenon
<1>7. v >= h <=> ~(v < h)
  BY <1>3
<1>8. QED BY <1>1, <1>2, <1>4, <1>5, <1>6, <1>7, Zenon

\* cmp al, imm8 on signed numbers of a byte and on their difference.
LEMMA CompareBytes ==
  ASSUME NEW x \in Nat, NEW y \in Int
  PROVE  LET a == x % BYTE
             d == (x - y) % BYTE
         IN /\ (a = y % BYTE) <=> (d = 0)
            /\ (Signed((Signed(a, BYTE) - y) % BYTE, BYTE) < 0) <=> (d >= BYTE \div 2)
<1>1. PICK c \in Nat \ {0}, h \in Nat : c = BYTE /\ c = 2 * h /\ h = c \div 2
  <2>1. BYTE \in Nat \ {0} /\ BYTE = 2 * (BYTE \div 2) /\ BYTE \div 2 \in Nat
    BY Widths
  <2>2. QED BY <2>1, Zenon
<1>2. PICK q \in Int, a \in 0 .. c - 1 : a = x % c /\ x = q * c + a
  <2>1. x \in Int
    OBVIOUS
  <2>2. x \div c \in Int /\ x % c \in 0 .. c - 1 /\ x = (x \div c) * c + (x % c)
    BY <2>1, DivisionFact
  <2>3. QED BY <2>2, Zenon
<1>3. PICK p \in Int, s \in 0 .. c - 1 : s = y % c /\ y = p * c + s
  <2>1. y \div c \in Int /\ y % c \in 0 .. c - 1 /\ y = (y \div c) * c + (y % c)
    BY DivisionFact
  <2>2. QED BY <2>1, Zenon
<1>4. PICK z \in Int, d \in 0 .. c - 1 : z = x - y /\ d = z % c
  OBVIOUS
<1>5. PICK e \in Int, k \in Int : e = a - s /\ k = q - p
  <2>1. a - s \in Int /\ q - p \in Int
    OBVIOUS
  <2>2. QED BY <2>1, Zenon
<1>6. z = e + k * c
  <2>1. k * c = q * c - p * c
    BY <1>5
  <2>2. PICK m \in Int, n \in Int : m = q * c /\ n = p * c
    OBVIOUS
  <2>3. x = m + a /\ y = n + s /\ k * c = m - n
    BY <1>2, <1>3, <2>1, <2>2, Zenon
  <2>4. z = e + (m - n)
    BY <1>4, <1>5, <2>3
  <2>5. QED BY <2>3, <2>4, Zenon
<1>7. d = e % c
  <2>1. (e + k * c) % c = e % c
    BY SameRemainder, Zenon
  <2>2. QED BY <1>4, <1>6, <2>1, Zenon
<1>8. a = s <=> d = 0
  <2>1. CASE a >= s
    <3>0. e \in 0 .. c - 1
      BY <1>5, <2>1
    <3>1. e % c = e
      BY <3>0, SmallRemainder
    <3>2. QED BY <1>5, <1>7, <3>1
  <2>2. CASE ~(a >= s)
    <3>1. PICK f \in Int, g \in Int : g = 1 /\ f = e + c
      OBVIOUS
    <3>2. f = e + g * c /\ f \in 0 .. c - 1 /\ f # 0
      BY <1>2, <1>3, <1>5, <2>2, <3>1
    <3>3. (e + g * c) % c = e % c
      BY SameRemainder, Zenon
    <3>4. f % c = f
      BY <3>2, SmallRemainder
    <3>5. d = f
      BY <1>7, <3>2, <3>3, <3>4, Zenon
    <3>6. QED BY <2>2, <3>2, <3>5
  <2>3. QED BY <2>1, <2>2
<1>9. (Signed(a, c) - y) % c = d
  <2>1. PICK g \in Int : g = IF a < c \div 2 THEN -q ELSE -q - 1
    BY <1>2
  <2>2. Signed(a, c) = IF a < c \div 2 THEN a ELSE a - c
    BY DEF Signed
  <2>3. Signed(a, c) - y = z + g * c
    <3>1. CASE a < c \div 2
      BY <1>2, <1>4, <2>1, <2>2, <3>1
    <3>2. CASE ~(a < c \div 2)
      BY <1>2, <1>4, <2>1, <2>2, <3>2
    <3>3. QED BY <3>1, <3>2
  <2>4. (z + g * c) % c = z % c
    BY SameRemainder, Zenon
  <2>5. QED BY <1>4, <2>3, <2>4, Zenon
<1>10. Signed(d, c) < 0 <=> d >= c \div 2
  BY <1>1, <1>4 DEF Signed
<1>11. QED BY <1>1, <1>2, <1>3, <1>4, <1>8, <1>9, <1>10, Zenon

LEMMA SetFlagsStep ==
  ASSUME TypeOK, NEW i \in Forms, decodes(i), SetFlags(i)
  PROVE  X!Step(i)
<1>1. Machine /\ Wellformed(i) /\ i.op \in {"test", "cmpal"} /\ reg[i.dst] \in Word /\ reg["rax"] \in Nat /\ i.imm \in Int
  BY MachineIs, FormShape, RegisterWords, Registers DEF Shaped, Wellformed, SetFlags
<1>2. Advances(i) \in Checks /\ after(i) \in Nat /\ Verdict(Advances(i)) = IF after(i) < U64 THEN "run" ELSE "panic"
  BY <1>1, AdvancesVerdict DEF Wellformed
<1>3. Ends("run", Advances(i), reg, after(i), mem)
  BY <1>2, FinishEnds DEF SetFlags, Finish
<1>4. CASE ~(after(i) < U64)
  <2>1. after(i) >= U64 /\ status' = "panic"
    BY <1>2, <1>3, <1>4, WordSizes DEF Ends
  <2>2. X!Overflows(i)
    BY <2>1, SameNumbers, Zenon DEF X!Overflows, after
  <2>3. QED BY <2>1, <2>2, OverflowStep
<1>5. CASE after(i) < U64 /\ ~X!Fetched(i)
  <2>1. status' = "run" /\ mem' = mem
    BY <1>2, <1>3, <1>5 DEF Ends
  <2>2. QED BY <1>5, <2>1, DifferenceStep DEF X!Differs
<1>6. CASE after(i) < U64 /\ X!Fetched(i)
  <2>1. status' = "run" /\ reg' = reg /\ rip' = X!Next_(i) /\ mem' = mem
    BY <1>1, <1>2, <1>3, <1>6, NextIs DEF Ends
  <2>2. X!Allowed(i)
    BY <1>1, <1>6, AccessesOf, AllowedIs
  <2>3. CASE i.op = "test"
    <3>1. zf' = (reg[i.dst] = 0) /\ sf' = (reg[i.dst] \div (U64 \div 2) # 0)
      BY <2>3 DEF SetFlags
    <3>2. (reg[i.dst] \div (U64 \div 2) # 0) <=> (reg[i.dst] >= X!U64 \div 2)
      BY <1>1, UpperHalf, SameNumbers
    <3>3. (reg[i.dst] \div (U64 \div 2) # 0) = (reg[i.dst] >= X!U64 \div 2)
      BY <3>2
    <3>4. zf' = (reg[i.dst] = 0) /\ sf' = (reg[i.dst] >= X!U64 \div 2)
      BY <3>1, <3>3, Zenon
    <3>5. X!SetFlags(i)
      BY <2>1, <2>3, <3>4 DEF X!SetFlags
    <3>6. QED BY <2>1, <2>2, <3>5 DEF X!Step
  <2>4. CASE i.op = "cmpal"
    <3>1. PICK d : d = (reg["rax"] - i.imm) % BYTE
      OBVIOUS
    <3>2. zf' = (al = i.imm % BYTE) /\ sf' = (Signed((Signed(al, BYTE) - i.imm) % BYTE, BYTE) < 0)
      BY <2>4 DEF SetFlags
    <3>3. /\ (al = i.imm % BYTE) <=> (d = 0)
          /\ (Signed((Signed(al, BYTE) - i.imm) % BYTE, BYTE) < 0) <=> (d >= BYTE \div 2)
      BY <1>1, <3>1, CompareBytes, Zenon DEF al
    <3>4. (al = i.imm % BYTE) = (d = 0) /\ (Signed((Signed(al, BYTE) - i.imm) % BYTE, BYTE) < 0) = (d >= BYTE \div 2)
      BY <3>3
    <3>5. zf' = (d = 0) /\ sf' = (d >= BYTE \div 2)
      BY <3>2, <3>4, Zenon
    <3>6. X!SetFlags(i)
      BY <2>1, <2>4, <3>1, <3>5 DEF X!SetFlags
    <3>7. QED BY <2>1, <2>2, <3>6 DEF X!Step
  <2>5. QED BY <1>1, <2>3, <2>4
<1>7. QED BY <1>4, <1>5, <1>6

LEMMA CmovNsStep ==
  ASSUME TypeOK, NEW i \in Forms, decodes(i), CmovNs(i)
  PROVE  X!Step(i)
<1>1. Machine /\ i.op = "cmovns" /\ i.dst = "rdx" /\ i.src = "rax"
  BY MachineIs, FormShape DEF Shaped, Particular, CmovNs
<1>2. PICK r : r = IF sf THEN reg ELSE set_reg("rdx", reg["rax"])
  OBVIOUS
<1>3. Arm(i, <<>>, r, mem)
  BY <1>2 DEF CmovNs
<1>4. X!Value(i) = reg[IF sf THEN "rdx" ELSE "rax"]
  BY <1>1, ValueOf, Zenon
<1>5. r = [reg EXCEPT ![i.dst] = X!Value(i)]
  <2>1. CASE sf
    <3>1. r = reg /\ X!Value(i) = reg["rdx"]
      BY <1>2, <1>4, <2>1, Zenon
    <3>2. QED BY <1>1, <3>1 DEF Machine
  <2>2. CASE ~sf
    BY <1>1, <1>2, <1>4, <2>2, Zenon DEF set_reg
  <2>3. QED BY <2>1, <2>2
<1>6. X!Fetched(i) => X!Allowed(i)
  BY <1>1, AccessesOf, AllowedIs
<1>7. i.op \in X!Computing
  BY <1>1 DEF X!Computing
<1>8. QED BY <1>1, <1>3, <1>5, <1>6, <1>7, VerdictNone, ComputesStep

LEMMA MovImmStep ==
  ASSUME TypeOK, NEW i \in Forms, decodes(i), MovImm(i)
  PROVE  X!Step(i)
<1>1. Machine /\ Wellformed(i) /\ i.op \in {"movi", "movi32"} /\ Particular(i)
  BY MachineIs, FormShape DEF Shaped, MovImm
<1>2. PICK r : r = assign({"rax", "rcx", "rdx", "rsp", "rbp", "rsi", "rdi", "r8", "r9"}, i.dst, i.imm % U32)
  OBVIOUS
<1>3. Immediate(i) \in Checks /\ Verdict(Immediate(i)) \in {"run", "err"}
      /\ (Verdict(Immediate(i)) = "err" => ~X!Allowed(i))
  BY <1>1, ImmediateVerdict, FetchedIs, UnfetchedRefused
<1>4. Arm(i, Immediate(i), r, mem)
  BY <1>2 DEF MovImm
<1>5. X!Fetched(i) => X!Allowed(i)
  BY <1>1, AccessesOf, AllowedIs
<1>6. X!Differs(i) \/ r = [reg EXCEPT ![i.dst] = X!Value(i)]
  <2>1. CASE i.op = "movi" /\ i.imm < 0
    BY <2>1 DEF X!Differs
  <2>2. CASE i.op = "movi" /\ ~(i.imm < 0)
    <3>1. i.imm \in Int /\ i.imm >= 0 /\ -(U32 \div 2) <= i.imm /\ i.imm < U32 \div 2
      BY <1>1, <2>2 DEF Wellformed
    <3>2. Wrap(i.imm) = i.imm % U32
      BY <2>2, <3>1, ImmediateWraps, Zenon
    <3>3. X!Value(i) = i.imm % U32
      BY <2>2, <3>2, ValueOf, Zenon
    <3>4. i.dst \in {"rax", "rcx", "rdx", "rsp", "rbp", "rsi", "rdi", "r8", "r9"}
      BY <1>1, <2>2 DEF Particular
    <3>5. QED BY <1>2, <3>3, <3>4, Zenon DEF assign, set_reg
  <2>3. CASE i.op = "movi32" /\ i.dst \in {"rbx", "r10"}
    BY <2>3 DEF X!Differs
  <2>4. CASE i.op = "movi32" /\ i.dst \notin {"rbx", "r10"}
    <3>1. i.dst \in {"rax", "rcx", "rdx", "rsp", "rbp", "rsi", "rdi", "r8", "r9"}
      BY <1>1, <2>4, Registers DEF Particular
    <3>2. X!Value(i) = i.imm % U32
      BY <2>4, ValueOf, Zenon
    <3>3. QED BY <1>2, <3>1, <3>2, Zenon DEF assign, set_reg
  <2>5. QED BY <1>1, <2>1, <2>2, <2>3, <2>4
<1>7. i.op \in X!Computing
  BY <1>1 DEF X!Computing
<1>8. QED BY <1>1, <1>3, <1>4, <1>5, <1>6, <1>7, ComputesStep

\* A relative address that panics.
LEMMA RelativeOverflows ==
  ASSUME Machine, NEW i, Wellformed(i), i.op \in {"leaip", "call", "jmp", "je", "callm"},
         ~(after(i) < U64 /\ signed_add_ok(after(i) % U64, i.disp))
  PROVE  X!Overflows(i)
<1>1. after(i) \in Nat
  BY AdvancesVerdict DEF Wellformed
<1>2. CASE ~(after(i) < U64)
  <2>1. after(i) >= U64
    BY <1>1, <1>2, WordSizes
  <2>2. QED BY <2>1, SameNumbers, Zenon DEF X!Overflows, after
<1>3. CASE after(i) < U64 /\ ~signed_add_ok(after(i) % U64, i.disp)
  <2>1. after(i) % U64 = after(i)
    BY <1>1, <1>3, SmallRemainder, WordSizes
  <2>2. ~signed_add_ok(after(i), i.disp)
    BY <1>3, <2>1, Zenon
  <2>3. QED BY <2>2, SameNumbers, SameOperators, Zenon DEF X!Overflows, after, signed_add_ok
<1>4. QED BY <1>2, <1>3

LEMMA LeaRipStep ==
  ASSUME TypeOK, NEW i \in Forms, decodes(i), LeaRip(i)
  PROVE  X!Step(i)
<1>1. Machine /\ Wellformed(i) /\ i.op = "leaip"
  BY MachineIs, FormShape DEF Shaped, LeaRip
<1>2. PICK c : c = Immediate(i) \o Relative(i)
  OBVIOUS
<1>3. c \in Checks /\ Verdict(c) = IF i.operand = W32 /\ ~accessible(W32, after(i) - W32) THEN "err"
                        ELSE IF after(i) < U64 /\ signed_add_ok(after(i) % U64, i.disp) THEN "run" ELSE "panic"
  BY <1>1, <1>2, ImmediateRelative, Zenon
<1>4. Arm(i, c, set_reg(i.dst, target(i)), mem)
  BY <1>2, Zenon DEF LeaRip
<1>5. Verdict(c) = "err" => ~X!Allowed(i)
  BY <1>1, <1>3, FetchedIs, UnfetchedRefused
<1>6. Verdict(c) = "panic" => X!Overflows(i)
  BY <1>1, <1>3, RelativeOverflows
<1>7. X!Fetched(i) => X!Allowed(i)
  BY <1>1, AccessesOf, AllowedIs
<1>8. set_reg(i.dst, target(i)) = [reg EXCEPT ![i.dst] = X!Value(i)]
  BY <1>1, OperandOf, ValueOf DEF set_reg
<1>9. i.op \in X!Computing
  BY <1>1 DEF X!Computing
<1>10. QED BY <1>1, <1>3, <1>4, <1>5, <1>6, <1>7, <1>8, <1>9, ComputesStep

LEMMA StoreImmStep ==
  ASSUME TypeOK, NEW i \in Forms, decodes(i), StoreImm(i)
  PROVE  X!Step(i)
<1>1. Machine /\ Wellformed(i) /\ i.op = "storei" /\ i.operand = W32 /\ W32 \in Nat \ {0} /\ W32 \in Nat
  BY MachineIs, FormShape, Widths DEF Shaped, Particular, StoreImm
<1>2. PICK c : c = <<Panic(~disp8_ok(i))>> \o Immediate(i) \o Reads(W32, disp8(i))
  OBVIOUS
<1>3. c \in Checks /\ Verdict(c) = IF ~disp8_ok(i) THEN "panic"
                            ELSE IF i.operand = W32 /\ ~accessible(W32, after(i) - W32) THEN "err"
                            ELSE IF accessible(W32, disp8(i)) THEN "run" ELSE "err"
  BY <1>1, <1>2, StoreVerdict, Zenon
<1>4. PICK m : m = le_write(W32, disp8(i), i.imm % U32)
  OBVIOUS
<1>5. Advanced("run", i, c, reg, m)
  BY <1>1, <1>2, <1>3, <1>4, ArmAdvances DEF StoreImm
<1>6. X!Operand(i) = disp8(i) /\ disp8(i) \in Int
  BY <1>1, OperandOf, Disp8
<1>7. X!Fetched(i) <=> accessible(W32, after(i) - W32)
  BY <1>1, FetchedIs
<1>8. X!Allowed(i) <=> X!Fetched(i) /\ accessible(W32, disp8(i))
  BY <1>1, <1>6, AccessesOf, AllowedIs, MappedIs
<1>9. Verdict(c) = "panic" => X!Overflows(i)
  BY <1>1, <1>3, DispOverflows
<1>10. Verdict(c) = "err" => ~X!Allowed(i)
  BY <1>3, <1>7, <1>8
<1>11. Verdict(c) = "run" => X!Fetched(i) /\ X!Allowed(i)
  BY <1>1, <1>3, <1>7, <1>8
<1>12. m = X!Stored(W32, X!Operand(i), i.imm % X!U32)
  <2>1. X!Stored(W32, disp8(i), i.imm % U32) = le_write(W32, disp8(i), i.imm % U32)
    BY <1>1, <1>6, StoredIs
  <2>2. QED BY <1>4, <1>6, <2>1, SameNumbers, Zenon
<1>13. ASSUME Verdict(c) = "run", status' = "run", reg' = reg, rip' = X!Next_(i), mem' = m, zf' = zf, sf' = sf
       PROVE X!Step(i)
  <2>1. X!Store(i)
    BY <1>1, <1>12, <1>13 DEF X!Store
  <2>2. QED BY <1>11, <1>13, <2>1 DEF X!Step
<1>14. QED BY <1>1, <1>5, <1>9, <1>10, <1>11, <1>13, AdvancedStep

\* A branch that is refused or whose target overflows.
LEMMA EndsStep ==
  ASSUME NEW i, NEW c, NEW r, NEW p, NEW m, Ends("run", c, r, p, m), zf' = zf, sf' = sf,
         Verdict(c) = "err" => ~X!Allowed(i),
         Verdict(c) = "panic" => X!Overflows(i),
         Verdict(c) = "run" /\ status' = "run" /\ reg' = r /\ rip' = p /\ mem' = m => X!Step(i)
  PROVE  X!Step(i)
BY FaultStep, OverflowStep DEF Ends

\* A jump or an untaken je.
LEMMA JumpsStep ==
  ASSUME Machine, NEW i, i.op \in {"jmp", "je"}, status' = "run", reg' = reg, mem' = mem, zf' = zf, sf' = sf,
         rip' = IF i.op = "je" /\ ~zf THEN X!Next_(i) ELSE X!Operand(i)
  PROVE  X!Step(i)
<1>1. CASE ~X!Fetched(i)
  BY <1>1, DifferenceStep DEF X!Differs
<1>2. CASE X!Fetched(i)
  <2>1. X!Allowed(i)
    BY <1>2, AccessesOf, AllowedIs
  <2>2. X!Branch(i)
    <3>1. PICK a, b, d : a = X!Load(W64, X!Operand(i)) /\ b = X!Next_(i) /\ d = X!Operand(i)
      OBVIOUS
    <3>2. rip' = CASE i.op = "callm" -> a [] i.op = "je" /\ ~zf -> b [] OTHER -> d
      BY <3>1
    <3>3. rip' = CASE i.op = "callm" -> X!Load(W64, X!Operand(i)) [] i.op = "je" /\ ~zf -> X!Next_(i)
                   [] OTHER -> X!Operand(i)
      BY <3>1, <3>2, Zenon
    <3>4. i.op \in {"jmp", "je", "call", "callm"} /\ i.op \notin {"call", "callm"}
      OBVIOUS
    <3>5. QED BY <3>3, <3>4, Zenon DEF X!Branch
  <2>3. QED BY <2>1, <2>2 DEF X!Step
<1>3. QED BY <1>1, <1>2

LEMMA JumpStep ==
  ASSUME TypeOK, NEW i \in Forms, decodes(i), Jump(i)
  PROVE  X!Step(i)
<1>1. Machine /\ Wellformed(i) /\ i.op \in {"jmp", "je"} /\ zf' = zf /\ sf' = sf
  BY MachineIs, FormShape DEF Shaped, Jump
<1>2. X!Operand(i) = target(i)
  BY <1>1, OperandOf
<1>3. CASE i.op = "jmp" /\ Finish(Immediate(i) \o Relative(i), reg, target(i), mem)
  <2>1. PICK c : c = Immediate(i) \o Relative(i)
    OBVIOUS
  <2>2. c \in Checks /\ Verdict(c) = IF i.operand = W32 /\ ~accessible(W32, after(i) - W32) THEN "err"
                          ELSE IF after(i) < U64 /\ signed_add_ok(after(i) % U64, i.disp) THEN "run" ELSE "panic"
    BY <1>1, <2>1, ImmediateRelative, Zenon
  <2>3. Ends("run", c, reg, target(i), mem)
    BY <1>3, <2>1, <2>2, FinishEnds DEF Finish
  <2>4. Verdict(c) = "err" => ~X!Allowed(i)
    BY <1>1, <2>2, FetchedIs, UnfetchedRefused
  <2>5. Verdict(c) = "panic" => X!Overflows(i)
    BY <1>1, <2>2, RelativeOverflows
  <2>6. status' = "run" /\ reg' = reg /\ rip' = target(i) /\ mem' = mem => X!Step(i)
    BY <1>1, <1>2, <1>3, JumpsStep
  <2>7. QED BY <1>1, <2>3, <2>4, <2>5, <2>6, EndsStep
<1>4. CASE i.op = "je" /\ zf /\ Finish(Relative(i), reg, target(i), mem)
  <2>1. Relative(i) \in Checks
        /\ Verdict(Relative(i)) = IF after(i) < U64 /\ signed_add_ok(after(i) % U64, i.disp) THEN "run" ELSE "panic"
    BY <1>1, RelativeVerdict
  <2>2. Ends("run", Relative(i), reg, target(i), mem)
    BY <1>4, <2>1, FinishEnds DEF Finish
  <2>3. Verdict(Relative(i)) # "err" /\ (Verdict(Relative(i)) = "panic" => X!Overflows(i))
    BY <1>1, <2>1, RelativeOverflows
  <2>4. status' = "run" /\ reg' = reg /\ rip' = target(i) /\ mem' = mem => X!Step(i)
    BY <1>1, <1>2, <1>4, JumpsStep
  <2>5. QED BY <1>1, <2>2, <2>3, <2>4, EndsStep
<1>5. CASE i.op = "je" /\ ~zf /\ Finish(Advances(i), reg, after(i), mem)
  <2>1. Advances(i) \in Checks /\ Verdict(Advances(i)) = IF after(i) < U64 THEN "run" ELSE "panic"
    BY <1>1, AdvancesVerdict DEF Wellformed
  <2>2. Ends("run", Advances(i), reg, after(i), mem)
    BY <1>5, <2>1, FinishEnds DEF Finish
  <2>3. Verdict(Advances(i)) # "err" /\ (Verdict(Advances(i)) = "panic" => X!Overflows(i))
    BY <1>1, <2>1, RelativeOverflows
  <2>4. Verdict(Advances(i)) = "run" => after(i) = X!Next_(i)
    BY <1>1, <2>1, NextIs
  <2>5. Verdict(Advances(i)) = "run" /\ status' = "run" /\ reg' = reg /\ rip' = after(i) /\ mem' = mem => X!Step(i)
    BY <1>1, <1>5, <2>4, JumpsStep
  <2>6. QED BY <1>1, <2>2, <2>3, <2>5, EndsStep
<1>6. QED BY <1>3, <1>4, <1>5 DEF Jump

\* A call: the return address on the stack, and where it goes.
LEMMA CallsStep ==
  ASSUME Machine, NEW i, Wellformed(i), i.op \in {"call", "callm"}, X!Allowed(i), after(i) < U64,
         reg["rsp"] >= W64, status' = "run", reg' = below, mem' = pushed(after(i)), zf' = zf, sf' = sf,
         rip' = IF i.op = "callm" THEN X!Load(W64, X!Operand(i)) ELSE X!Operand(i)
  PROVE  X!Step(i)
<1>1. X!Next_(i) = after(i) /\ X!Top = reg["rsp"] - W64
  BY NextIs, TopIs
<1>2. reg["rsp"] - W64 \in Int /\ W64 \in Nat
  BY RegisterWords, Registers, Widths
<1>3. pushed(after(i)) = X!Stored(W64, X!Top, X!Next_(i))
  BY <1>1, <1>2, StoredIs DEF pushed
<1>4. below = [reg EXCEPT !["rsp"] = X!Top]
  BY <1>1, Below
<1>5. PICK a, b, d : a = X!Load(W64, X!Operand(i)) /\ b = X!Next_(i) /\ d = X!Operand(i)
  OBVIOUS
<1>6. rip' = CASE i.op = "callm" -> a [] i.op = "je" /\ ~zf -> b [] OTHER -> d
  BY <1>5
<1>7. rip' = CASE i.op = "callm" -> X!Load(W64, X!Operand(i)) [] i.op = "je" /\ ~zf -> X!Next_(i)
               [] OTHER -> X!Operand(i)
  BY <1>5, <1>6, Zenon
<1>8. i.op \in {"jmp", "je", "call", "callm"}
  OBVIOUS
<1>9. X!Branch(i)
  BY <1>3, <1>4, <1>7, <1>8, Zenon DEF X!Branch
<1>10. QED BY <1>9 DEF X!Step

LEMMA CallStep ==
  ASSUME TypeOK, NEW i \in Forms, decodes(i), Call(i)
  PROVE  X!Step(i)
<1>1. Machine /\ Wellformed(i) /\ i.op = "call" /\ i.operand = W32 /\ zf' = zf /\ sf' = sf
  BY MachineIs, FormShape DEF Shaped, Particular, Call
<1>2. PICK c : c = Immediate(i) \o Advances(i) \o pushes \o Relative(i)
  OBVIOUS
<1>3. c \in Checks /\ Verdict(c) = IF i.operand = W32 /\ ~accessible(W32, after(i) - W32) THEN "err"
                            ELSE IF ~(after(i) < U64) THEN "panic"
                            ELSE IF ~(reg["rsp"] >= W64 /\ accessible(W64, reg["rsp"] - W64)) THEN "err"
                            ELSE IF signed_add_ok(after(i) % U64, i.disp) THEN "run" ELSE "panic"
  BY <1>1, <1>2, CallVerdict, Zenon
<1>4. Ends("run", c, below, target(i), pushed(after(i)))
  BY <1>2, <1>3, FinishEnds DEF Call, Finish
<1>5. /\ X!Fetched(i) <=> accessible(W32, after(i) - W32)
      /\ X!Mapped(W64, X!Top) <=> reg["rsp"] >= W64 /\ accessible(W64, reg["rsp"] - W64)
      /\ X!Allowed(i) <=> X!Fetched(i) /\ X!Mapped(W64, X!Top)
  BY <1>1, FetchedIs, TopIs, AccessesOf, AllowedIs
<1>6. Verdict(c) = "err" => ~X!Allowed(i)
  BY <1>1, <1>3, <1>5
<1>7. Verdict(c) = "panic" => X!Overflows(i)
  BY <1>1, <1>3, RelativeOverflows
<1>8. Verdict(c) = "run" => X!Allowed(i) /\ after(i) < U64 /\ reg["rsp"] >= W64
  BY <1>1, <1>3, <1>5
<1>9. X!Operand(i) = target(i)
  BY <1>1, OperandOf
<1>10. Verdict(c) = "run" /\ status' = "run" /\ reg' = below /\ rip' = target(i) /\ mem' = pushed(after(i)) => X!Step(i)
  BY <1>1, <1>8, <1>9, CallsStep
<1>11. QED BY <1>1, <1>4, <1>6, <1>7, <1>10, EndsStep

LEMMA CallIndirectStep ==
  ASSUME TypeOK, NEW i \in Forms, decodes(i), CallIndirect(i)
  PROVE  X!Step(i)
<1>1. Machine /\ Wellformed(i) /\ i.op = "callm" /\ i.operand = W32 /\ zf' = zf /\ sf' = sf /\ W64 \in Nat \ {0}
  BY MachineIs, FormShape, Widths DEF Shaped, Particular, CallIndirect
<1>2. PICK c : c = Immediate(i) \o Relative(i) \o Reads(W64, target(i))
  OBVIOUS
<1>3. /\ c \in Checks /\ c \o pushes \in Checks
      /\ Verdict(c) = IF i.operand = W32 /\ ~accessible(W32, after(i) - W32) THEN "err"
                      ELSE IF ~(after(i) < U64 /\ signed_add_ok(after(i) % U64, i.disp)) THEN "panic"
                      ELSE IF accessible(W64, target(i)) THEN "run" ELSE "err"
      /\ Verdict(c \o pushes) =
           IF Verdict(c) # "run" THEN Verdict(c)
           ELSE IF reg["rsp"] >= W64 /\ accessible(W64, reg["rsp"] - W64) THEN "run" ELSE "err"
  BY <1>1, <1>2, CallmVerdict, Zenon
<1>4. PICK to : to = le_value(W64, target(i))
  OBVIOUS
<1>5. X!Operand(i) = target(i) /\ target(i) \in Int
  BY <1>1, OperandOf, Target
<1>6. to \in Int
  BY <1>1, <1>4, <1>5, LoadedWords DEF Word
<1>7. /\ X!Fetched(i) <=> accessible(W32, after(i) - W32)
      /\ X!Mapped(W64, X!Top) <=> reg["rsp"] >= W64 /\ accessible(W64, reg["rsp"] - W64)
      /\ X!Mapped(W64, X!Operand(i)) <=> accessible(W64, target(i))
      /\ X!Allowed(i) <=> X!Fetched(i) /\ X!Mapped(W64, X!Operand(i)) /\ X!Mapped(W64, X!Top)
  BY <1>1, <1>5, FetchedIs, TopIs, AccessesOf, AllowedIs, MappedIs
<1>8. accessible(W64, target(i)) => X!Load(W64, X!Operand(i)) = to
  BY <1>1, <1>4, <1>5, LoadIs
<1>9. Verdict(c) = "err" => ~X!Allowed(i)
  BY <1>1, <1>3, <1>7
<1>10. Verdict(c) = "panic" => X!Overflows(i)
  BY <1>1, <1>3, RelativeOverflows
<1>11. Verdict(c) \in {"run", "err", "panic"} /\ (Verdict(c) = "run" => accessible(W64, target(i)) /\ X!Fetched(i) /\ after(i) < U64)
  BY <1>1, <1>3, <1>7
<1>12. CASE ~inside(to) /\ Finish(c, reg, reg["rdi"], mem)
  <2>1. Ends("run", c, reg, reg["rdi"], mem)
    BY <1>3, <1>12, FinishEnds DEF Finish
  <2>2. Verdict(c) = "run" => X!Differs(i)
    BY <1>1, <1>6, <1>7, <1>8, <1>11, <1>12, InsideIs DEF X!Differs
  <2>3. Verdict(c) = "run" /\ status' = "run" /\ mem' = mem => X!Step(i)
    BY <2>2, DifferenceStep
  <2>4. QED BY <1>1, <1>9, <1>10, <2>1, <2>3, EndsStep
<1>13. CASE Finish(c \o pushes, below, to, pushed(after(i)))
  <2>1. Ends("run", c \o pushes, below, to, pushed(after(i)))
    BY <1>3, <1>13, FinishEnds DEF Finish
  <2>2. Verdict(c \o pushes) = "err" => ~X!Allowed(i)
    BY <1>3, <1>7, <1>9, <1>11
  <2>3. Verdict(c \o pushes) = "panic" => X!Overflows(i)
    BY <1>3, <1>10, <1>11
  <2>4. Verdict(c \o pushes) = "run" => /\ X!Allowed(i) /\ after(i) < U64 /\ reg["rsp"] >= W64
                                        /\ X!Load(W64, X!Operand(i)) = to
    BY <1>3, <1>7, <1>8, <1>11
  <2>5. Verdict(c \o pushes) = "run" /\ status' = "run" /\ reg' = below /\ rip' = to /\ mem' = pushed(after(i)) => X!Step(i)
    BY <1>1, <2>4, CallsStep
  <2>6. QED BY <1>1, <2>1, <2>2, <2>3, <2>5, EndsStep
<1>14. QED BY <1>2, <1>4, <1>12, <1>13, Zenon DEF CallIndirect

LEMMA InstructionStep ==
  ASSUME TypeOK, NEW i \in Forms, decodes(i), Instruction(i)
  PROVE  X!Step(i)
BY NopStep, StopStep, PushStep, PopStep, MoveStep, SignExtendStep, IndexingStep, ArithmeticStep, ZeroStep,
   Load32Step, LeaDisp8Step, Load64Step, LoadAlStep, SetFlagsStep, CmovNsStep, MovImmStep, LeaRipStep,
   StoreImmStep, JumpStep, CallStep, CallIndirectStep, Zenon
   DEF Instruction
-----------------------------------------------------------------------------
(* The system calls as the processor sees them *)

LEMMA AnswerStep ==
  ASSUME TypeOK, NEW i \in Forms, decodes(i), i.op = "syscall", NEW how \in {"run", "end"}, NEW c \in Checks,
         NEW v \in Int, NEW m \in [0 .. MemLen - 1 -> Byte], Answer(i, how, c, v, m),
         how = "end" => reg["rax"] \in {59, 60, 231},
         Verdict(c) # "panic", Verdict(c) = "err" => X!CallStops,
         \A k \in 0 .. MemLen - 1 : m[k] # mem[k] =>
           reg["rax"] = 0 /\ k + base \in reg["rsi"] .. reg["rsi"] + reg["rdx"] - 1
  PROVE  X!Step(i)
<1>1. Machine /\ Wellformed(i) /\ after(i) < U64
  BY MachineIs, SyscallFits
<1>2. Answered(how, c, v, m) /\ (Verdict(c) = "run" => rip' = after(i))
  BY AnswerIs
<1>3. CASE Verdict(c) = "run" /\ status' = how /\ reg' = set_reg("rax", Wrap(v)) /\ mem' = m
  <2>1. rip' = X!Next_(i)
    BY <1>1, <1>2, <1>3, NextIs
  <2>2. reg'["rax"] = Wrap(v)
    BY <1>1, <1>3, OtherRegisters
  <2>3. reg' = [reg EXCEPT !["rax"] = reg'["rax"]]
    BY <1>3, <2>2, Zenon DEF set_reg
  <2>4. status' \in {"run", "end"} /\ (status' = "end" => reg["rax"] \in {59, 60, 231})
    BY <1>3
  <2>5. \A k \in DOMAIN mem : mem'[k] # mem[k] =>
           reg["rax"] = 0 /\ k + base \in reg["rsi"] .. reg["rsi"] + reg["rdx"] - 1
    BY <1>1, <1>3 DEF Machine
  <2>6. zf' = zf /\ sf' = sf
    BY <1>2 DEF Answered
  <2>7. QED BY <2>1, <2>3, <2>4, <2>5, <2>6, Zenon DEF X!Step, X!SystemCall
<1>4. CASE Verdict(c) = "err" /\ status' = Verdict(c) /\ reg' = reg /\ rip' = rip /\ mem' = mem
  <2>1. zf' = zf /\ sf' = sf /\ status' = "err" /\ X!CallStops
    BY <1>2, <1>4 DEF Answered
  <2>2. QED BY <1>4, <2>1, Zenon DEF X!Step, X!SystemCall
<1>5. QED BY <1>2, <1>3, <1>4 DEF Answered

\* A call that leaves memory alone.
LEMMA SameMemoryStep ==
  ASSUME TypeOK, NEW i \in Forms, decodes(i), i.op = "syscall", NEW how \in {"run", "end"}, NEW c \in Checks,
         NEW v \in Int, Answer(i, how, c, v, mem),
         how = "end" => reg["rax"] \in {59, 60, 231},
         Verdict(c) # "panic", Verdict(c) = "err" => X!CallStops
  PROVE  X!Step(i)
<1>1. Machine /\ Wellformed(i) /\ after(i) < U64 /\ mem \in [0 .. MemLen - 1 -> Byte]
  BY MachineIs, SyscallFits DEF Machine
<1>2. Answered(how, c, v, mem) /\ (Verdict(c) = "run" => rip' = after(i))
  BY <1>1, AnswerIs
<1>3. CASE Verdict(c) = "run" /\ status' = how /\ reg' = set_reg("rax", Wrap(v)) /\ mem' = mem
  <2>1. rip' = X!Next_(i)
    BY <1>1, <1>2, <1>3, NextIs
  <2>2. reg'["rax"] = Wrap(v)
    BY <1>1, <1>3, OtherRegisters
  <2>3. reg' = [reg EXCEPT !["rax"] = reg'["rax"]]
    BY <1>3, <2>2, Zenon DEF set_reg
  <2>4. status' \in {"run", "end"} /\ (status' = "end" => reg["rax"] \in {59, 60, 231})
    BY <1>3
  <2>5. zf' = zf /\ sf' = sf
    BY <1>2 DEF Answered
  <2>6. QED BY <1>3, <2>1, <2>3, <2>4, <2>5, Zenon DEF X!Step, X!SystemCall
<1>4. CASE Verdict(c) = "err" /\ status' = Verdict(c) /\ reg' = reg /\ rip' = rip /\ mem' = mem
  <2>1. zf' = zf /\ sf' = sf /\ status' = "err" /\ X!CallStops
    BY <1>2, <1>4 DEF Answered
  <2>2. QED BY <1>4, <2>1, Zenon DEF X!Step, X!SystemCall
<1>5. QED BY <1>2, <1>3, <1>4 DEF Answered

\* A call that fails no check and leaves memory alone.
LEMMA PlainAnswerStep ==
  ASSUME TypeOK, NEW i \in Forms, decodes(i), i.op = "syscall", NEW how \in {"run", "end"}, NEW v \in Int,
         Silent(i, how, <<>>, v, mem), how = "end" => reg["rax"] \in {59, 60, 231}
  PROVE  X!Step(i)
<1>2. PICK c \in Checks : c = <<>> /\ Verdict(c) = "run"
  BY VerdictNone
<1>3. Answer(i, how, c, v, mem)
  BY <1>2, Zenon DEF Silent
<1>4. Verdict(c) # "panic" /\ (Verdict(c) = "err" => X!CallStops)
  BY <1>2
<1>5. QED BY <1>3, <1>4, SameMemoryStep

LEMMA StopsOf ==
  /\ reg["rax"] = 0 /\ ~X!Mapped(1, reg["rsi"]) => X!CallStops
  /\ reg["rax"] = 1 /\ (~X!Mapped(1, reg["rsi"]) \/ reg["rsi"] + reg["rdx"] > base + MemLen) => X!CallStops
  /\ reg["rax"] = 59 /\ reg["rdi"] # 0
       /\ ~(X!String(reg["rdi"]) /\ X!Vector(reg["rsi"]) /\ X!Vector(reg["rdx"])) => X!CallStops
BY DEF X!CallStops

\* What is put into the buffer stays inside it.
LEMMA PutInside ==
  ASSUME Machine, inside(reg["rsi"]), NEW n \in Nat, n <= cap, NEW bytes, DOMAIN bytes = 1 .. n,
         NEW k \in 0 .. MemLen - 1, Put(reg["rsi"], bytes)[k] # mem[k]
  PROVE  k + base \in reg["rsi"] .. reg["rsi"] + reg["rdx"] - 1
<1>1. reg["rsi"] \in Int /\ reg["rdx"] \in Int /\ base \in Int /\ cap \in Int /\ cap <= reg["rdx"]
  <2>1. reg["rsi"] \in Int /\ reg["rdx"] \in Int
    BY RegisterWords, Registers
  <2>2. cap \in Nat /\ cap <= reg["rdx"]
    BY Cap
  <2>3. base \in Int
    BY DEF Machine
  <2>4. QED BY <2>1, <2>2, <2>3
<1>2. PICK j \in Int : j = k - va_to_index(reg["rsi"]) + 1
  BY <1>1 DEF va_to_index
<1>3. Put(reg["rsi"], bytes)[k] = IF j \in DOMAIN bytes THEN bytes[j] ELSE mem[k]
  <2>1. k \in DOMAIN mem
    BY DEF Machine
  <2>2. QED BY <1>2, <2>1, Zenon DEF Put
<1>4. j \in 1 .. n
  BY <1>3
<1>5. PICK r \in Int, d \in Int, b \in Int : r = reg["rsi"] /\ d = reg["rdx"] /\ b = base
  BY <1>1
<1>6. 1 <= j /\ j <= d
  BY <1>1, <1>4, <1>5
<1>7. j = k - (r - b) + 1
  BY <1>2, <1>5, Zenon DEF va_to_index
<1>8. k + b \in r .. r + d - 1
  BY <1>6, <1>7
<1>9. QED BY <1>5, <1>8, Zenon

LEMMA SysReadStep ==
  ASSUME TypeOK, NEW i \in Forms, decodes(i), SysRead(i)
  PROVE  X!Step(i)
<1>1. Machine /\ i.op = "syscall" /\ reg["rax"] = 0 /\ reg["rsi"] \in Int /\ EBADF \in Nat
  BY MachineIs, RegisterWords, Registers, InterpAssumption DEF SysRead, Nr
<1>2. CASE ~inside(reg["rsi"]) /\ Stop("err")
  <2>1. X!CallStops
    BY <1>1, <1>2, InsideIs, StopsOf
  <2>2. status' = "err" /\ reg' = reg /\ rip' = rip /\ zf' = zf /\ sf' = sf /\ mem' = mem
    BY <1>2 DEF Stop, cpu
  <2>3. QED BY <1>1, <2>1, <2>2, Zenon DEF X!Step, X!SystemCall
<1>3. CASE Silent(i, "run", <<>>, 0, mem)
  BY <1>1, <1>3, PlainAnswerStep
<1>4. CASE Silent(i, "run", <<>>, -EBADF, mem)
  BY <1>1, <1>4, PlainAnswerStep
<1>5. ASSUME inside(reg["rsi"]), NEW t \in Typed,
             Answer(i, "run", <<>>, Len(taken(t)), Put(reg["rsi"], taken(t)))
      PROVE  X!Step(i)
  <2>1. PICK n \in Nat : Line(taken(t), n)
    BY <1>1, <1>5, TakenIsALine
  <2>2. taken(t) \in Seq(Byte) /\ Len(taken(t)) = n /\ n <= cap /\ DOMAIN taken(t) = 1 .. n
    BY <2>1, LenProperties DEF Line
  <2>3. Put(reg["rsi"], taken(t)) \in [0 .. MemLen - 1 -> Byte]
    BY <1>1, <2>2, PutIs
  <2>4. \A k \in 0 .. MemLen - 1 : Put(reg["rsi"], taken(t))[k] # mem[k] =>
          k + base \in reg["rsi"] .. reg["rsi"] + reg["rdx"] - 1
    BY <1>1, <1>5, <2>2, PutInside
  <2>5. Len(taken(t)) \in Int
    BY <2>2
  <2>6. <<>> \in Checks /\ Verdict(<<>>) = "run"
    BY VerdictNone
  <2>7. QED BY <1>1, <1>5, <2>3, <2>4, <2>5, <2>6, AnswerStep
<1>6. ASSUME inside(reg["rsi"]), NEW n \in {0, Min({cap, TMP})}, NEW b \in {0, BYTE - 1},
             Silent(i, "run", <<Panic(va_to_index(reg["rsi"]) + n > MemLen)>>, n,
                    Put(reg["rsi"], [k \in 1 .. n |-> b]))
      PROVE  X!Step(i)
  <2>1. n \in Nat /\ n <= cap
    <3>1. cap \in Nat /\ TMP \in Nat
      BY <1>1, <1>6, Cap, InterpAssumption
    <3>2. Min({cap, TMP}) \in {cap, TMP} /\ Min({cap, TMP}) <= cap
      <4>1. cap \in Int /\ TMP \in Int
        BY <3>1
      <4>2. QED BY <4>1, MinOfTwo, Zenon
    <3>3. QED BY <3>1, <3>2
  <2>2. PICK s : s = [k \in 1 .. n |-> b]
    OBVIOUS
  <2>3. s \in Seq(Byte) /\ DOMAIN s = 1 .. n
    BY <2>1, <2>2, Widths DEF Byte
  <2>4. Put(reg["rsi"], s) \in [0 .. MemLen - 1 -> Byte]
    BY <1>1, <2>3, PutIs
  <2>5. \A k \in 0 .. MemLen - 1 : Put(reg["rsi"], s)[k] # mem[k] =>
          k + base \in reg["rsi"] .. reg["rsi"] + reg["rdx"] - 1
    BY <1>1, <1>6, <2>1, <2>3, PutInside
  <2>6. ~(va_to_index(reg["rsi"]) + n > MemLen)
    BY <1>1, <1>6, <2>1, Cap DEF Machine
  <2>7. PICK c : c = <<Panic(va_to_index(reg["rsi"]) + n > MemLen)>>
    OBVIOUS
  <2>8. c = << <<FALSE, "panic">> >>
    <3>1. (va_to_index(reg["rsi"]) + n > MemLen) \in BOOLEAN
      OBVIOUS
    <3>2. PICK f \in BOOLEAN : f = (va_to_index(reg["rsi"]) + n > MemLen)
      BY <3>1, Zenon
    <3>3. f = FALSE
      BY <2>6, <3>2, Zenon
    <3>4. QED BY <2>7, <3>2, <3>3, Zenon DEF Panic
  <2>9. c \in Checks /\ Verdict(c) = "run"
    BY <2>8, VerdictOne
  <2>10. Answer(i, "run", c, n, Put(reg["rsi"], s))
    BY <1>6, <2>2, <2>7, Zenon DEF Silent
  <2>11. QED BY <1>1, <2>1, <2>4, <2>5, <2>9, <2>10, AnswerStep
<1>7. QED BY <1>2, <1>3, <1>4, <1>5, <1>6, Zenon DEF SysRead

LEMMA SysWriteStep ==
  ASSUME TypeOK, NEW i \in Forms, decodes(i), SysWrite(i)
  PROVE  X!Step(i)
<1>1. Machine /\ i.op = "syscall" /\ reg["rax"] = 1 /\ reg["rsi"] \in Int /\ reg["rdx"] \in Int /\ EBADF \in Nat
      /\ mem \in [0 .. MemLen - 1 -> Byte]
  <2>1. Machine /\ reg["rsi"] \in Int /\ reg["rdx"] \in Int /\ EBADF \in Nat
    BY MachineIs, RegisterWords, Registers, InterpAssumption
  <2>2. i.op = "syscall" /\ reg["rax"] = 1
    BY Zenon DEF SysWrite, Nr
  <2>3. QED BY <2>1, <2>2 DEF Machine
<1>2. PICK c \in Checks :
        /\ c = <<Err(~inside(reg["rsi"])), Err(va_to_index(reg["rsi"]) + reg["rdx"] > MemLen)>>
        /\ Verdict(c) = IF inside(reg["rsi"]) /\ va_to_index(reg["rsi"]) + reg["rdx"] <= MemLen THEN "run" ELSE "err"
  BY <1>1, WriteVerdict, Zenon
<1>3. PICK v : v = IF reg["rdi"] \in {1, 2} THEN reg["rdx"] ELSE -EBADF
  OBVIOUS
<1>4. v \in Int
  BY <1>1, <1>3
<1>5. Answer(i, "run", c, v, mem)
  BY <1>2, <1>3, Zenon DEF SysWrite
<1>6. Verdict(c) # "panic"
  BY <1>2
<1>7. Verdict(c) = "err" => X!CallStops
  <2>1. ASSUME Verdict(c) = "err"
        PROVE ~inside(reg["rsi"]) \/ ~(va_to_index(reg["rsi"]) + reg["rdx"] <= MemLen)
    BY <1>2, <2>1
  <2>2. ~(va_to_index(reg["rsi"]) + reg["rdx"] <= MemLen) => reg["rsi"] + reg["rdx"] > base + MemLen
    BY <1>1 DEF va_to_index, Machine
  <2>3. QED BY <1>1, <2>1, <2>2, InsideIs, StopsOf
<1>8. QED BY <1>1, <1>4, <1>5, <1>6, <1>7, AnswerStep

LEMMA TripleVerdict ==
  ASSUME NEW a \in BOOLEAN, NEW b \in BOOLEAN, NEW c \in BOOLEAN
  PROVE  Verdict(<<Panic(a), Err(b), Err(c)>>) = IF a THEN "panic" ELSE IF b \/ c THEN "err" ELSE "run"
<1>1. PICK r, s, t, u : r = << <<a, "panic">> >> /\ s = << <<b, "err">> >> /\ t = << <<c, "err">> >> /\ u = s \o t
  OBVIOUS
<1>2. /\ r \in Checks /\ Verdict(r) = IF a THEN "panic" ELSE "run"
      /\ s \in Checks /\ Verdict(s) = IF b THEN "err" ELSE "run"
      /\ t \in Checks /\ Verdict(t) = IF c THEN "err" ELSE "run"
  BY <1>1, VerdictOne
<1>3. u \in Checks /\ Verdict(u) = IF Verdict(s) = "run" THEN Verdict(t) ELSE Verdict(s)
  BY <1>1, <1>2, VerdictJoin
<1>4. Verdict(r \o u) = IF Verdict(r) = "run" THEN Verdict(u) ELSE Verdict(r)
  BY <1>2, <1>3, VerdictJoin
<1>5. Verdict(r \o u) = IF a THEN "panic" ELSE IF b \/ c THEN "err" ELSE "run"
  BY <1>2, <1>3, <1>4
<1>6. r \o u = << <<a, "panic">>, <<b, "err">>, <<c, "err">> >>
  <2>1. ASSUME NEW e, NEW f, NEW g PROVE <<e>> \o <<f, g>> = <<e, f, g>>
    <3>1. PICK S : S = {e, f, g}
      OBVIOUS
    <3>2. PICK x, y, z : x = <<e>> /\ y = <<f, g>> /\ z = <<e, f, g>>
      OBVIOUS
    <3>3. x \in Seq(S) /\ y \in Seq(S) /\ z \in Seq(S) /\ Len(x) = 1 /\ Len(y) = 2 /\ Len(z) = 3
          /\ x[1] = e /\ y[1] = f /\ y[2] = g /\ z[1] = e /\ z[2] = f /\ z[3] = g
      BY <3>1, <3>2
    <3>4. /\ x \o y \in Seq(S) /\ Len(x \o y) = 3 /\ (x \o y)[1] = e /\ (x \o y)[2] = f /\ (x \o y)[3] = g
      <4>1. /\ x \o y \in Seq(S) /\ Len(x \o y) = Len(x) + Len(y)
            /\ \A k \in 1 .. Len(x) + Len(y) : (x \o y)[k] = IF k <= Len(x) THEN x[k] ELSE y[k - Len(x)]
        BY <3>3, ConcatProperties, Zenon
      <4>2. Len(x) + Len(y) = 3 /\ 1 \in 1 .. 3 /\ 2 \in 1 .. 3 /\ 3 \in 1 .. 3 /\ 1 <= Len(x) /\ ~(2 <= Len(x)) /\ ~(3 <= Len(x))
            /\ 2 - Len(x) = 1 /\ 3 - Len(x) = 2
        BY <3>3
      <4>3. QED BY <3>3, <4>1, <4>2, Zenon
    <3>5. \A k \in 1 .. Len(x \o y) : (x \o y)[k] = z[k]
      <4>1. \A k \in 1 .. 3 : k = 1 \/ k = 2 \/ k = 3
        OBVIOUS
      <4>2. QED BY <3>3, <3>4, <4>1, Zenon
    <3>6. x \o y = z
      BY <3>3, <3>4, <3>5, SeqEqual
    <3>7. QED BY <3>2, <3>6, Zenon
  <2>2. u = << <<b, "err">>, <<c, "err">> >>
    BY <1>1, JoinOnes
  <2>3. QED BY <1>1, <2>1, <2>2, Zenon
<1>7. QED BY <1>5, <1>6, Zenon DEF Panic, Err

\* A string that the processor's kernel could read is read.
LEMMA StringIs ==
  ASSUME Machine, NEW va \in Word, X!String(va)
  PROVE  va # 0 /\ read_user_cstr(va) = "some"
<1> DEFINE at(k) == Wrap(va + k)
           stops == {k \in 0 .. CSTR_MAX - 1 : ~inside(at(k)) \/ le_value(1, at(k)) = 0}
<1>1. PICK n \in 0 .. CSTR_MAX - 1 :
        /\ X!Mapped(n + 1, va) /\ X!Load(1, va + n) = 0 /\ \A k \in 0 .. n - 1 : X!Load(1, va + k) # 0
        /\ utf8([k \in 0 .. n - 1 |-> X!Load(1, va + k)]) /\ va # 0
  BY Zenon DEF X!String
<1>2. n \in Nat /\ va \in Nat /\ CSTR_MAX \in Nat /\ va >= base /\ va + n + 1 <= base + MemLen /\ va # 0
  BY <1>1, InterpAssumption, WordSizes DEF X!Mapped, Machine, Word
<1>3. ASSUME NEW k \in 0 .. n
      PROVE at(k) = va + k /\ inside(at(k)) /\ X!Load(1, va + k) = le_value(1, at(k))
  <2>1. va + k \in 0 .. U64 - 1 /\ va + k \in Int /\ U64 \in Nat \ {0} /\ accessible(1, va + k) /\ inside(va + k)
    BY <1>2, WordSizes DEF Machine, accessible, inside, va_to_index
  <2>2. at(k) = va + k
    BY <2>1, SmallRemainder, Zenon DEF Wrap
  <2>3. X!Load(1, va + k) = le_value(1, va + k)
    BY <2>1, LoadIs
  <2>4. QED BY <2>1, <2>2, <2>3, Zenon
<1>4. n \in stops
  BY <1>1, <1>2, <1>3
<1>5. ASSUME NEW k \in 0 .. n - 1 PROVE k \notin stops /\ X!Load(1, va + k) = le_value(1, at(k))
  <2>1. k \in 0 .. n
    BY <1>2
  <2>2. inside(at(k)) /\ X!Load(1, va + k) = le_value(1, at(k))
    BY <1>3, <2>1
  <2>3. le_value(1, at(k)) # 0
    BY <1>1, <2>2
  <2>4. QED BY <2>2, <2>3
<1>6. Min(stops) = n
  <2>1. stops \in SUBSET Int
    BY <1>2
  <2>2. \A k \in stops : n <= k
    <3>1. ASSUME NEW k \in stops, k < n PROVE FALSE
      <4>1. k \in 0 .. n - 1
        BY <1>2, <3>1
      <4>2. QED BY <1>5, <3>1, <4>1
    <3>2. QED BY <1>2, <2>1, <3>1
  <2>3. QED BY <1>4, <2>1, <2>2, MinIs
<1>7. inside(at(n))
  BY <1>2, <1>3
<1>8. utf8([k \in 0 .. Min(stops) - 1 |-> le_value(1, at(k))])
  <2>1. [k \in 0 .. n - 1 |-> X!Load(1, va + k)] = [k \in 0 .. n - 1 |-> le_value(1, at(k))]
    BY <1>5
  <2>2. QED BY <1>1, <1>6, <2>1, Zenon
<1>9. stops # {} /\ inside(at(Min(stops)))
  BY <1>4, <1>6, <1>7
<1>10. read_user_cstr(va) =
         CASE va = 0 \/ stops = {} -> "none"
           [] va # 0 /\ stops # {} /\ ~inside(at(Min(stops))) -> "err"
           [] OTHER -> IF utf8([k \in 0 .. Min(stops) - 1 |-> le_value(1, at(k))]) THEN "some" ELSE "none"
  BY Zenon DEF read_user_cstr
<1> HIDE DEF stops, at
<1>11. QED BY <1>2, <1>8, <1>9, <1>10

\* The pointers of a vector: the address of one never overflows, and a vector
\* that could be read is read.
LEMMA VectorIs ==
  ASSUME Machine, NEW va \in Word
  PROVE  /\ Verdict(vector_checks(va)) \in {"run", "err"}
         /\ X!Vector(va) => Verdict(vector_checks(va)) = "run"
<1> DEFINE at(k) == va + k * W64
           stops == {k \in 0 .. VEC_MAX - 1 : ~accessible(W64, at(k)) \/ le_value(W64, at(k)) = 0}
<1>1. CASE va = 0
  <2>1. vector_checks(va) = <<>>
    BY <1>1, Zenon DEF vector_checks
  <2>2. QED BY <2>1, VerdictNone
<1>2. CASE va # 0
  <2>1. va \in Nat /\ VEC_MAX \in Nat /\ W64 \in Nat \ {0} /\ va < U64 /\ U64 \in Nat
    BY InterpAssumption, WordSizes, Widths DEF Word
  <2>2. PICK n \in stops \cup {VEC_MAX} : \A k \in stops \cup {VEC_MAX} : n <= k
    <3>1. stops \cup {VEC_MAX} \in SUBSET Nat /\ stops \cup {VEC_MAX} # {}
      BY <2>1
    <3>2. QED BY <3>1, LeastOf
  <2>3. n \in Nat /\ n <= VEC_MAX /\ \A k \in 0 .. n - 1 : k \notin stops /\ k \in 0 .. VEC_MAX - 1
    <3>1. stops \in SUBSET (0 .. VEC_MAX - 1)
      OBVIOUS
    <3>2. PICK S \in SUBSET (0 .. VEC_MAX - 1) : S = stops /\ n \in S \cup {VEC_MAX} /\ \A k \in S \cup {VEC_MAX} : n <= k
      BY <2>2, <3>1, Zenon
    <3>3. n \in Nat /\ n <= VEC_MAX
      BY <2>1, <3>2
    <3>4. ASSUME NEW k \in 0 .. n - 1 PROVE k \notin S /\ k \in 0 .. VEC_MAX - 1
      <4>1. k \in Int /\ k < n /\ k \in 0 .. VEC_MAX - 1
        BY <2>1, <3>3
      <4>2. ASSUME k \in S PROVE FALSE
        <5>1. n <= k
          BY <3>2, <4>2, Zenon
        <5>2. QED BY <3>3, <4>1, <5>1
      <4>3. QED BY <4>1, <4>2
    <3>5. QED BY <3>2, <3>3, <3>4, Zenon
  <2>4. Min(stops \cup {VEC_MAX}) = n
    <3>1. stops \cup {VEC_MAX} \in SUBSET Int
      BY <2>1
    <3>2. QED BY <2>2, <3>1, MinIs
  <2>5. \A k \in 0 .. n - 1 : accessible(W64, at(k)) /\ le_value(W64, at(k)) # 0
    BY <2>3
  <2>6. at(n) < U64
    <3>1. CASE n = 0
      <4>1. at(n) = va
        BY <2>1, <3>1
      <4>2. QED BY <2>1, <4>1
    <3>2. CASE n # 0
      <4>1. PICK p \in 0 .. n - 1 : n = p + 1
        BY <2>3, <3>2
      <4>2. accessible(W64, at(p))
        BY <2>5, <4>1
      <4>3. PICK x \in Int, y \in Int : x = at(p) /\ y = at(n) /\ y = x + W64
        BY <2>1, <2>3, <4>1
      <4>4. x + W64 <= base + MemLen
        BY <2>1, <4>2, <4>3 DEF accessible, va_to_index, Machine
      <4>5. y < U64
        BY <2>1, <4>3, <4>4 DEF Machine
      <4>6. QED BY <4>3, <4>5, Zenon
    <3>3. QED BY <3>1, <3>2
  <2>7. PICK a \in BOOLEAN, b \in BOOLEAN, c \in BOOLEAN :
          /\ a = (n < VEC_MAX /\ at(n) >= U64)
          /\ b = (n < VEC_MAX /\ ~accessible(W64, at(n)))
          /\ c = \E k \in 0 .. n - 1 : read_user_cstr(le_value(W64, at(k))) # "some"
    <3>1. /\ (n < VEC_MAX /\ at(n) >= U64) \in BOOLEAN
          /\ (n < VEC_MAX /\ ~accessible(W64, at(n))) \in BOOLEAN
          /\ (\E k \in 0 .. n - 1 : read_user_cstr(le_value(W64, at(k))) # "some") \in BOOLEAN
      OBVIOUS
    <3>2. QED BY <3>1, Zenon
  <2>8. vector_checks(va) = <<Panic(a), Err(b), Err(c)>>
    BY <1>2, <2>4, <2>7, Zenon DEF vector_checks
  <2>9. ~a
    <3>1. ~(at(n) >= U64)
      <4>1. PICK y \in Int : y = at(n)
        BY <2>1, <2>3
      <4>2. y < U64
        BY <2>6, <4>1, Zenon
      <4>3. ~(y >= U64)
        BY <2>1, <4>2
      <4>4. QED BY <4>1, <4>3, Zenon
    <3>2. QED BY <2>7, <3>1, Zenon
  <2>10. Verdict(vector_checks(va)) = IF b \/ c THEN "err" ELSE "run"
    BY <2>8, <2>9, TripleVerdict
  <2>11. ASSUME X!Vector(va) PROVE ~b /\ ~c
    <3>1. PICK w \in 0 .. VEC_MAX :
            /\ \A k \in 0 .. w - 1 : X!Mapped(W64, va + k * W64) /\ X!String(X!Load(W64, va + k * W64))
            /\ w = VEC_MAX \/ (X!Mapped(W64, va + w * W64) /\ X!Load(W64, va + w * W64) = 0)
      BY <1>2, <2>11, Zenon DEF X!Vector
    <3>2. ASSUME NEW k \in Nat PROVE at(k) \in Int
      BY <2>1
    <3>3. ASSUME NEW k \in Nat, X!Mapped(W64, at(k))
          PROVE accessible(W64, at(k)) /\ X!Load(W64, at(k)) = le_value(W64, at(k)) /\ le_value(W64, at(k)) \in Word
      <4>1. PICK y \in Int : y = at(k)
        BY <3>2, <3>3
      <4>2. X!Mapped(W64, y)
        BY <3>3, <4>1, Zenon
      <4>3. accessible(W64, y) /\ X!Load(W64, y) = le_value(W64, y) /\ le_value(W64, y) \in Word
        BY <2>1, <4>2, MappedIs, LoadIs, LoadedWords
      <4>4. QED BY <4>1, <4>3, Zenon
    <3>4. ASSUME NEW k \in 0 .. w - 1
          PROVE k \in Nat /\ accessible(W64, at(k)) /\ le_value(W64, at(k)) # 0 /\ read_user_cstr(le_value(W64, at(k))) = "some"
      <4>1. k \in Nat
        BY <2>1, <3>1
      <4>2. X!Mapped(W64, at(k)) /\ X!String(X!Load(W64, at(k)))
        BY <3>1, Zenon
      <4>3. accessible(W64, at(k)) /\ X!Load(W64, at(k)) = le_value(W64, at(k)) /\ le_value(W64, at(k)) \in Word
        BY <3>3, <4>1, <4>2, Zenon
      <4>4. PICK u \in Word : u = le_value(W64, at(k)) /\ X!String(u)
        BY <4>2, <4>3, Zenon
      <4>5. u # 0 /\ read_user_cstr(u) = "some"
        BY <4>4, StringIs
      <4>6. QED BY <4>1, <4>3, <4>4, <4>5, Zenon
    <3>5. w \in stops \cup {VEC_MAX}
      <4>1. CASE w = VEC_MAX
        BY <4>1
      <4>2. CASE w # VEC_MAX
        <5>1. X!Mapped(W64, at(w)) /\ X!Load(W64, at(w)) = 0 /\ w \in Nat
          BY <2>1, <3>1, <4>2
        <5>2. le_value(W64, at(w)) = 0
          BY <3>3, <5>1, Zenon
        <5>3. w \in 0 .. VEC_MAX - 1
          BY <2>1, <4>2
        <5>4. QED BY <5>2, <5>3, Zenon
      <4>3. QED BY <4>1, <4>2
    <3>6. n = w
      <4>1. n <= w /\ w \in Nat
        BY <2>1, <2>2, <3>5
      <4>2. ASSUME n < w PROVE FALSE
        <5>1. n \in 0 .. w - 1 /\ n # VEC_MAX
          BY <2>1, <2>3, <4>1, <4>2
        <5>2. n \in stops
          BY <2>2, <5>1, Zenon
        <5>3. QED BY <3>4, <5>1, <5>2, Zenon
      <4>3. QED BY <2>3, <4>1, <4>2
    <3>7. ~c
      BY <2>7, <3>4, <3>6, Zenon
    <3>8. ~b
      <4>1. ASSUME n < VEC_MAX PROVE accessible(W64, at(n))
        <5>1. w # VEC_MAX /\ w \in Nat
          BY <2>1, <3>6, <4>1
        <5>2. X!Mapped(W64, at(w))
          BY <3>1, <5>1, Zenon
        <5>3. QED BY <3>3, <3>6, <5>1, <5>2, Zenon
      <4>2. QED BY <2>7, <4>1, Zenon
    <3>9. QED BY <3>7, <3>8
  <2>12. QED BY <2>10, <2>11
<1>3. QED BY <1>1, <1>2

LEMMA SysExecveStep ==
  ASSUME TypeOK, NEW i \in Forms, decodes(i), SysExecve(i)
  PROVE  X!Step(i)
<1>1. /\ Machine /\ i.op = "syscall" /\ reg["rax"] = 59 /\ mem \in [0 .. MemLen - 1 -> Byte]
      /\ reg["rdi"] \in Word /\ reg["rsi"] \in Word /\ reg["rdx"] \in Word
  <2>1. Machine /\ reg["rdi"] \in Word /\ reg["rsi"] \in Word /\ reg["rdx"] \in Word
    BY MachineIs, RegisterWords, Registers
  <2>2. i.op = "syscall" /\ reg["rax"] = 59
    BY Zenon DEF SysExecve, Nr
  <2>3. QED BY <2>1, <2>2 DEF Machine
<1>2. -EFAULT \in Int /\ -ENOENT \in Int /\ -ENOEXEC \in Int /\ 0 \in Int
  BY InterpAssumption
<1>3. PICK path, c, s, t, u :
        /\ path = read_user_cstr(reg["rdi"]) /\ s = <<Err(path = "err")>>
        /\ t = vector_checks(reg["rsi"]) /\ u = vector_checks(reg["rdx"]) /\ c = s \o t \o u
  OBVIOUS
<1>4. s \in Checks /\ Verdict(s) = IF path = "err" THEN "err" ELSE "run"
  <2>1. (path = "err") \in BOOLEAN
    OBVIOUS
  <2>2. PICK b \in BOOLEAN : b = (path = "err")
    BY <2>1, Zenon
  <2>3. s = << <<b, "err">> >>
    BY <1>3, <2>2, Zenon DEF Err
  <2>4. s \in Checks /\ Verdict(s) = IF b THEN "err" ELSE "run"
    BY <2>3, VerdictOne
  <2>5. QED BY <2>2, <2>4, Zenon
<1>5. t \in Checks /\ u \in Checks
  BY <1>3, VectorChecks
<1>6. /\ Verdict(t) \in {"run", "err"} /\ (X!Vector(reg["rsi"]) => Verdict(t) = "run")
      /\ Verdict(u) \in {"run", "err"} /\ (X!Vector(reg["rdx"]) => Verdict(u) = "run")
  BY <1>1, <1>3, VectorIs
<1>7. s \o t \in Checks /\ Verdict(s \o t) = IF Verdict(s) = "run" THEN Verdict(t) ELSE Verdict(s)
  BY <1>4, <1>5, VerdictJoin
<1>8. c \in Checks /\ Verdict(c) = IF Verdict(s \o t) = "run" THEN Verdict(u) ELSE Verdict(s \o t)
  BY <1>3, <1>5, <1>7, VerdictJoin
<1>9. X!String(reg["rdi"]) => path = "some"
  BY <1>1, <1>3, StringIs
<1>10. path # "none" => reg["rdi"] # 0
  BY <1>3, Zenon DEF read_user_cstr
<1>11. Verdict(c) # "panic" /\ (path # "none" /\ Verdict(c) = "err" => X!CallStops)
  <2>1. Verdict(c) # "panic"
    BY <1>4, <1>6, <1>7, <1>8
  <2>2. X!String(reg["rdi"]) /\ X!Vector(reg["rsi"]) /\ X!Vector(reg["rdx"]) => Verdict(c) = "run"
    BY <1>4, <1>6, <1>7, <1>8, <1>9
  <2>3. QED BY <1>1, <1>10, <2>1, <2>2, StopsOf
<1>12. CASE path = "none"
  <2>1. Silent(i, "run", <<>>, -EFAULT, mem)
    BY <1>3, <1>12, Zenon DEF SysExecve
  <2>2. QED BY <1>1, <1>2, <2>1, PlainAnswerStep
<1>13. CASE path # "none"
  <2>1. \/ (\E e \in {ENOENT, ENOEXEC} : Silent(i, "run", c, -e, mem))
        \/ Silent(i, "end", c, 0, mem)
    BY <1>3, <1>13, Zenon DEF SysExecve
  <2>2. PICK how \in {"run", "end"}, v \in Int : Answer(i, how, c, v, mem)
    BY <1>2, <2>1, Zenon DEF Silent
  <2>3. reg["rax"] \in {59, 60, 231}
    BY <1>1
  <2>4. QED BY <1>1, <1>8, <1>11, <1>13, <2>2, <2>3, SameMemoryStep
<1>14. QED BY <1>12, <1>13

LEMMA OthersStep ==
  ASSUME TypeOK, NEW i \in Forms, decodes(i),
         SysGetpid(i) \/ SysBrk(i) \/ SysExit(i) \/ SysMmap(i) \/ SysOther(i)
  PROVE  X!Step(i)
<1>1. i.op = "syscall" /\ reg["rdi"] \in Int
  <2>1. i.op = "syscall"
    BY Zenon DEF SysGetpid, SysBrk, SysExit, SysMmap, SysOther, Nr
  <2>2. reg["rdi"] \in Int
    BY MachineIs, RegisterWords, Registers
  <2>3. QED BY <2>1, <2>2
<1>2. {PID, 0} \subseteq Int
  BY InterpAssumption
<1>3. ASSUME NEW v \in Int, Silent(i, "run", <<>>, v, mem) PROVE X!Step(i)
  BY <1>1, <1>3, PlainAnswerStep
<1>4. CASE SysGetpid(i)
  BY <1>2, <1>3, <1>4 DEF SysGetpid
<1>5. CASE SysBrk(i)
  <2>1. PICK v \in Breaks : Silent(i, "run", <<>>, IF reg["rdi"] = 0 THEN v ELSE reg["rdi"], mem)
    BY <1>5 DEF SysBrk
  <2>2. (IF reg["rdi"] = 0 THEN v ELSE reg["rdi"]) \in Int
    BY <1>1, BreakWords
  <2>3. QED BY <1>3, <2>1, <2>2
<1>6. CASE SysExit(i)
  <2>1. Silent(i, "end", <<>>, 0, mem) /\ reg["rax"] \in {59, 60, 231}
    BY <1>6, Zenon DEF SysExit, Nr
  <2>2. QED BY <1>1, <1>2, <2>1, PlainAnswerStep
<1>7. CASE SysOther(i)
  <2>1. CASE \E v \in other_answers : Silent(i, "run", <<>>, v, mem)
    BY <1>3, <2>1, OtherAnswers
  <2>2. CASE /\ (reg["rax"] \in RdiPointer /\ reg["rdi"] # 0) \/ (reg["rax"] \in RsiPointer /\ reg["rsi"] # 0)
             /\ Stop("panic")
    <3>1. \E w \in X!Untranslated : reg["rax"] = w[1] /\ reg[w[2]] # 0
      <4>1. CASE reg["rax"] \in RdiPointer /\ reg["rdi"] # 0
        <5>1. <<reg["rax"], "rdi">> \in X!Untranslated
          BY <4>1 DEF RdiPointer, X!Untranslated
        <5>2. QED BY <4>1, <5>1
      <4>2. CASE reg["rax"] \in RsiPointer /\ reg["rsi"] # 0
        <5>1. <<reg["rax"], "rsi">> \in X!Untranslated
          BY <4>2 DEF RsiPointer, X!Untranslated
        <5>2. QED BY <4>2, <5>1
      <4>3. QED BY <2>2, <4>1, <4>2
    <3>2. status' = "panic"
      BY <2>2 DEF Stop
    <3>3. QED BY <1>1, <3>1, <3>2, Zenon DEF X!Step, X!Panic
  <2>3. QED BY <1>7, <2>1, <2>2 DEF SysOther
<1>8. CASE SysMmap(i)
  <2>1. PICK c \in Checks, v \in Int :
          /\ Silent(i, "run", c, v, mem) /\ reg["rax"] = 9 /\ Verdict(c) = IF mmap_ok THEN "run" ELSE "panic"
    BY <1>8, MmapAnswers
  <2>2. Answer(i, "run", c, v, mem)
    BY <2>1 DEF Silent
  <2>3. CASE mmap_ok
    BY <1>1, <2>1, <2>2, <2>3, SameMemoryStep
  <2>4. CASE ~mmap_ok
    <3>1. status' = "panic"
      <4>1. mem \in [0 .. MemLen - 1 -> Byte]
        BY DEF TypeOK
      <4>2. QED BY <1>1, <2>1, <2>2, <2>4, <4>1, AnswerIs DEF Answered
    <3>2. reg["rsi"] > U64 - PAGE
      BY <2>4, MmapOverflow
    <3>3. reg["rsi"] > X!U64 - PAGE
      BY <3>2, SameNumbers, Zenon
    <3>4. QED BY <1>1, <2>1, <3>1, <3>3, Zenon DEF X!Step, X!Panic
  <2>5. QED BY <2>3, <2>4
<1>9. QED BY <1>4, <1>5, <1>6, <1>7, <1>8
-----------------------------------------------------------------------------
(* The refinement *)

LEMMA StepIs ==
  ASSUME TypeOK, [Next]_vars
  PROVE  [X!Next]_X!vars
<1>1. CASE exec_one
  <2>1. PICK i \in Forms : decodes(i) /\ (Instruction(i) \/ handle_syscall(i)) /\ ins' = i
    BY <1>1, Zenon DEF exec_one
  <2>2. X!Step(i)
    BY <2>1, InstructionStep, SysReadStep, SysWriteStep, SysExecveStep, OthersStep, Zenon DEF handle_syscall
  <2>3. status = "run" /\ base' = base
    BY <1>1 DEF exec_one
  <2>4. ins' \in X!Forms /\ X!Step(ins')
    BY <2>1, <2>2, SameForms, Zenon
  <2>5. QED BY <2>3, <2>4, Zenon DEF X!Next
<1>2. CASE fetch_fails
  <2>1. status = "run" /\ base' = base /\ ins' = ins /\ ~inside(rip) /\ status' = "err"
        /\ reg' = reg /\ rip' = rip /\ zf' = zf /\ sf' = sf /\ mem' = mem
    BY <1>2 DEF fetch_fails, Stop, cpu
  <2>2. Machine /\ Wellformed(ins) /\ ins \in Forms
    BY MachineIs, FormShape DEF TypeOK, Shaped
  <2>3. ~X!Fetched(ins)
    <3>1. ins.len \in Nat \ {0} /\ rip \in Int
      BY <2>2, Widths DEF Wellformed, Machine, Word
    <3>2. QED BY <2>1, <2>2, <3>1, MappedIs DEF X!Fetched, accessible
  <2>4. ~X!Allowed(ins)
    BY <2>3, Zenon DEF X!Allowed
  <2>5. X!Step(ins)
    BY <2>1, <2>4, FaultStep
  <2>6. QED BY <2>1, <2>2, <2>5, SameForms, Zenon DEF X!Next
<1>3. CASE UNCHANGED vars
  BY <1>3 DEF vars, cpu, X!vars
<1>4. QED BY <1>1, <1>2, <1>3 DEF Next

\* ImplementsX86: a program of any length that the interpreter runs sees, at
\* each instruction and each system call, what the processor of X86 would do
\* or one of the differences listed there, whatever the widths of bytes and
\* words, the memory, the registers it starts with and what is typed.
THEOREM InterpreterImplementsX86 == Spec => ImplementsX86
<1>1. Init => X!Init
  <2>1. ASSUME Init PROVE X!Init
    <3>1. status = "run" /\ rip \in Word /\ reg \in [Regs -> Word]
      BY <2>1, InitServed DEF Init, InterpInv, TypeOK
    <3>2. X!Word = Word
      BY SameNumbers, Zenon DEF X!Word, Word
    <3>3. QED BY <3>1, <3>2, SameOperators, Zenon DEF X!Init
  <2>2. QED BY <2>1
<1>2. InterpInv /\ [Next]_vars => [X!Next]_X!vars
  BY StepIs DEF InterpInv
<1>3. QED BY <1>1, <1>2, InterpInvariant, PTL DEF Spec, ImplementsX86, X!Spec
=============================================================================
