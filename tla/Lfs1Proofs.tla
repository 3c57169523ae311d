----------------------------- MODULE Lfs1Proofs ------------------------------
(***************************************************************************)
(* The LFS1 image, for every catalog, every size of a byte, every cut and  *)
(* every wrong byte: what build.rs writes and what fs.rs makes of it.      *)
(***************************************************************************)
EXTENDS Lfs1, SequenceTheorems, WellFoundedInduction, TLAPS
-----------------------------------------------------------------------------
(* Numbers as bytes *)

LEMMA Division ==
  ASSUME NEW a \in Int, NEW n \in Nat \ {0}
  PROVE  /\ a \div n \in Int /\ a % n \in 0 .. n - 1
         /\ a = (a \div n) * n + (a % n)
OBVIOUS

LEMMA QuotientBelow ==
  ASSUME NEW a \in Nat, NEW n \in Nat \ {0}, NEW m \in Nat, a < m * n
  PROVE  a \div n \in 0 .. m - 1
<1>1. PICK q \in Int : q = a \div n
  BY Division
<1>2. PICK r \in 0 .. n - 1 : a = q * n + r
  <2>1. a % n \in 0 .. n - 1 /\ a = q * n + (a % n)
    BY <1>1, Division
  <2>2. QED BY <2>1, Zenon
<1>3. q >= 0
  <2>1. ASSUME q <= -1 PROVE FALSE
    <3>1. q * n <= (-1) * n
      BY <2>1
    <3>2. QED BY <3>1, <1>2
  <2>2. QED BY <2>1
<1>4. q < m
  <2>1. ASSUME q >= m PROVE FALSE
    <3>1. q * n >= m * n /\ q * n \in Int /\ m * n \in Int
      BY <2>1
    <3>2. QED BY <3>1, <1>2
  <2>2. QED BY <2>1
<1>5. QED BY <1>1, <1>3, <1>4

\* BYTE is a number above 1, and so are its powers.
LEMMA Sizes ==
  /\ BYTE \in Nat \ {0, 1} /\ BYTE * BYTE \in Nat \ {0} /\ BYTE * BYTE > 48
  /\ (BYTE * BYTE) * (BYTE * BYTE) \in Nat
<1>1. BYTE \in Nat /\ BYTE * BYTE > 48
  BY Lfs1Assumption DEF NAME_CAP
<1>2. BYTE # 0 /\ BYTE # 1
  BY <1>1
<1>3. BYTE * BYTE \in Nat
  BY <1>1
<1>4. (BYTE * BYTE) * (BYTE * BYTE) \in Nat
  BY <1>3
<1>5. QED BY <1>1, <1>2, <1>3, <1>4

\* The bytes of a number are bytes.
LEMMA TwoBytes ==
  ASSUME NEW v \in Int
  PROVE  /\ le16(v) \in Seq(Bytes) /\ Len(le16(v)) = 2
         /\ le16(v)[1] = v % BYTE /\ le16(v)[2] = (v \div BYTE) % BYTE
<1>1. v % BYTE \in Bytes /\ v \div BYTE \in Int
  BY Sizes, Division DEF Bytes
<1>2. (v \div BYTE) % BYTE \in Bytes
  BY <1>1, Sizes, Division DEF Bytes
<1>3. QED BY <1>1, <1>2 DEF le16

LEMMA FourBytes ==
  ASSUME NEW v \in Int
  PROVE  /\ le32(v) \in Seq(Bytes) /\ Len(le32(v)) = 4
         /\ \A k \in 1 .. 2 : /\ le32(v)[k] = le16(v)[k]
                              /\ le32(v)[2 + k] = le16(v \div (BYTE * BYTE))[k]
<1> DEFINE w == v \div (BYTE * BYTE)
<1>1. w \in Int
  BY Sizes, Division
<1> HIDE DEF w
<1>2. /\ le16(v) \in Seq(Bytes) /\ Len(le16(v)) = 2
      /\ le16(w) \in Seq(Bytes) /\ Len(le16(w)) = 2
  BY <1>1, TwoBytes
<1>3. le32(v) = le16(v) \o le16(w)
  BY DEF le32, w
<1>4. /\ le32(v) \in Seq(Bytes) /\ Len(le32(v)) = 4
      /\ \A i \in 1 .. 4 : le32(v)[i] = IF i <= 2 THEN le16(v)[i] ELSE le16(w)[i - 2]
  <2>1. /\ le16(v) \o le16(w) \in Seq(Bytes)
        /\ Len(le16(v) \o le16(w)) = Len(le16(v)) + Len(le16(w))
        /\ \A i \in 1 .. Len(le16(v)) + Len(le16(w)) : (le16(v) \o le16(w))[i] =
                     IF i <= Len(le16(v)) THEN le16(v)[i] ELSE le16(w)[i - Len(le16(v))]
    BY <1>2, ConcatProperties, Zenon
  <2>2. 2 + 2 = 4
    OBVIOUS
  <2>3. QED BY <1>2, <1>3, <2>1, <2>2, Zenon
<1>5. QED BY <1>4 DEF w

\* What two bytes say, for a number that fits them.
LEMMA ReadsTwo ==
  ASSUME NEW v \in Nat, v < BYTE * BYTE
  PROVE  le16(v)[1] + le16(v)[2] * BYTE = v
<1>1. v \div BYTE \in 0 .. BYTE - 1
  BY Sizes, QuotientBelow
<1>2. (v \div BYTE) % BYTE = v \div BYTE
  BY <1>1, Sizes
<1>3. v = (v \div BYTE) * BYTE + (v % BYTE) /\ v % BYTE \in Int
  BY Sizes, Division
<1>4. le16(v)[1] = v % BYTE /\ le16(v)[2] = v \div BYTE
  BY <1>2, TwoBytes
<1>5. PICK q \in Int, r \in Int, B \in Int : q = v \div BYTE /\ r = v % BYTE /\ B = BYTE
  BY <1>1, <1>3, Sizes
<1>6. v = q * B + r
  BY <1>3, <1>5, Zenon
<1>7. r + q * B = v
  BY <1>6
<1>8. QED BY <1>4, <1>5, <1>7, Zenon

LEMMA LowDigits ==
  ASSUME NEW v \in Nat, NEW B \in Nat \ {0}, B * B \in Nat \ {0}
  PROVE  (v % B) + ((v \div B) % B) * B = v % (B * B)
<1>1. PICK q \in Int, r \in 0 .. B - 1 : q = v \div B /\ r = v % B /\ v = q * B + r
  BY Division
<1>2. PICK p \in Int, t \in 0 .. B - 1 : p = q \div B /\ t = q % B /\ q = p * B + t
  BY Division
<1>3. v = p * (B * B) + (t * B + r)
  <2>1. (p * B + t) * B = p * (B * B) + t * B
    OBVIOUS
  <2>2. v = (p * B + t) * B + r
    BY <1>1, <1>2, Zenon
  <2>3. p * (B * B) \in Int /\ t * B \in Int
    OBVIOUS
  <2>4. QED BY <2>1, <2>2, <2>3
<1>4. t * B + r \in 0 .. (B * B) - 1
  <2>1. t * B <= (B - 1) * B /\ t * B >= 0 /\ (B - 1) * B = B * B - B /\ t * B \in Int
    OBVIOUS
  <2>2. QED BY <2>1
<1>5. PICK m \in Nat \ {0} : m = B * B
  OBVIOUS
<1>6. PICK s \in 0 .. m - 1 : s = t * B + r
  BY <1>4, <1>5
<1>7. v = p * m + s
  BY <1>3, <1>5, <1>6
<1>8. v % m = s
  BY <1>7
<1>9. r + t * B = s
  BY <1>6
<1>10. QED BY <1>1, <1>2, <1>5, <1>8, <1>9, Zenon

\* What four bytes say.
LEMMA ReadsFour ==
  ASSUME NEW v \in Nat, v < (BYTE * BYTE) * (BYTE * BYTE)
  PROVE  (le32(v)[1] + le32(v)[2] * BYTE) + (le32(v)[3] + le32(v)[4] * BYTE) * (BYTE * BYTE) = v
<1>1. PICK m \in Nat \ {0} : m = BYTE * BYTE
  BY Sizes
<1>2. v < m * m
  BY <1>1
<1>3. v \div m \in 0 .. m - 1
  BY <1>2, QuotientBelow
<1>4. PICK w \in Nat : w = v \div m
  BY <1>3
<1>5. w < m
  BY <1>3, <1>4
<1>6. le16(w)[1] + le16(w)[2] * BYTE = w
  BY <1>1, <1>5, ReadsTwo
<1>7. le16(v)[1] + le16(v)[2] * BYTE = v % m
  <2>1. (v % BYTE) + ((v \div BYTE) % BYTE) * BYTE = v % (BYTE * BYTE)
    BY Sizes, LowDigits
  <2>2. QED BY <1>1, <2>1, TwoBytes
<1>8. /\ le32(v)[1] = le16(v)[1] /\ le32(v)[2] = le16(v)[2]
      /\ le32(v)[3] = le16(w)[1] /\ le32(v)[4] = le16(w)[2]
  <2>1. \A k \in 1 .. 2 : le32(v)[k] = le16(v)[k] /\ le32(v)[2 + k] = le16(w)[k]
    <3>1. v \in Int /\ v \div (BYTE * BYTE) = w
      BY <1>1, <1>4
    <3>2. QED BY <3>1, FourBytes, Zenon
  <2>2. 1 \in 1 .. 2 /\ 2 \in 1 .. 2 /\ 2 + 1 = 3 /\ 2 + 2 = 4
    OBVIOUS
  <2>3. QED BY <2>1, <2>2, Zenon
<1>9. v = w * m + (v % m) /\ v % m \in Int
  BY <1>4, Division
<1>10. (v % m) + w * m = v
  BY <1>9
<1>11. QED BY <1>1, <1>6, <1>7, <1>8, <1>10, Zenon
-----------------------------------------------------------------------------
(* The least of a set *)

LEMMA LeastOf ==
  ASSUME NEW S \in SUBSET Nat, S # {}
  PROVE  First(S) \in S /\ \A y \in S : First(S) <= y
<1>1. PICK x \in S : \A y \in S : ~(<<y, x>> \in OpToRel(<, Nat))
  BY NatLessThanWellFounded, WFMin, Zenon
<1>2. \A y \in S : x <= y
  <2>1. ASSUME NEW y \in S, y < x PROVE FALSE
    <3>1. y \in Nat /\ x \in Nat /\ ~(<<y, x>> \in OpToRel(<, Nat))
      BY <1>1
    <3>2. <<y, x>> \in OpToRel(<, Nat)
      BY <2>1, <3>1 DEF OpToRel
    <3>3. QED BY <3>1, <3>2
  <2>2. QED BY <2>1
<1>3. QED BY <1>2 DEF First

LEMMA FirstIs ==
  ASSUME NEW S \in SUBSET Nat, NEW x \in S, \A y \in S : x <= y
  PROVE  First(S) = x
<1>1. First(S) \in S /\ \A y \in S : First(S) <= y
  BY LeastOf
<1>2. First(S) <= x /\ x <= First(S) /\ First(S) \in Nat /\ x \in Nat
  BY <1>1
<1>3. QED BY <1>2
-----------------------------------------------------------------------------
(* What the image holds, and what writing, cutting and damage leave of it *)

LEMMA PutBytes ==
  ASSUME NEW s \in Seq(Bytes), NEW at \in Nat, NEW b \in Seq(Bytes), at + Len(b) <= Len(s)
  PROVE  /\ put(s, at, b) \in Seq(Bytes) /\ Len(put(s, at, b)) = Len(s)
         /\ \A k \in 1 .. Len(s) :
              put(s, at, b)[k] = IF k - at \in 1 .. Len(b) THEN b[k - at] ELSE s[k]
<1>1. /\ Len(s) \in Nat /\ DOMAIN s = 1 .. Len(s) /\ \A k \in 1 .. Len(s) : s[k] \in Bytes
      /\ Len(b) \in Nat /\ DOMAIN b = 1 .. Len(b) /\ \A k \in 1 .. Len(b) : b[k] \in Bytes
  BY LenProperties, ElementOfSeq
<1>2. put(s, at, b) =
        [k \in 1 .. Len(s) |-> IF k - at \in 1 .. Len(b) THEN b[k - at] ELSE s[k]]
  BY <1>1 DEF put
<1>3. \A k \in 1 .. Len(s) : (IF k - at \in 1 .. Len(b) THEN b[k - at] ELSE s[k]) \in Bytes
  BY <1>1
<1>4. QED BY <1>1, <1>2, <1>3

LEMMA PutType ==
  ASSUME NEW s \in Seq(Bytes), NEW at \in Nat, NEW b \in Seq(Bytes), at + Len(b) <= Len(s)
  PROVE  put(s, at, b) \in Seq(Bytes) /\ Len(put(s, at, b)) = Len(s)
BY PutBytes

LEMMA PutHolds ==
  ASSUME NEW s \in Seq(Bytes), NEW at \in Nat, NEW b \in Seq(Bytes), at + Len(b) <= Len(s), NEW h
  PROVE  Holds(put(s, at, b), h, at, b)
<1>1. Len(s) \in Nat /\ Len(b) \in Nat
  BY LenProperties
<1>2. SUFFICES ASSUME NEW k \in 1 .. Len(b) PROVE put(s, at, b)[at + k] = b[k]
  BY DEF Holds
<1>3. at + k \in 1 .. Len(s) /\ (at + k) - at = k
  BY <1>1
<1>4. QED BY <1>3, PutBytes

LEMMA PutKeeps ==
  ASSUME NEW s \in Seq(Bytes), NEW at \in Nat, NEW b \in Seq(Bytes), at + Len(b) <= Len(s),
         NEW h, NEW q \in Nat, NEW c \in Seq(Bytes), Holds(s, h, q, c),
         q + Len(c) <= at \/ at + Len(b) <= q
  PROVE  Holds(put(s, at, b), h, q, c)
<1>1. Len(s) \in Nat /\ Len(b) \in Nat /\ Len(c) \in Nat /\ Len(put(s, at, b)) = Len(s)
  BY LenProperties, PutBytes
<1>2. SUFFICES ASSUME NEW k \in 1 .. Len(c), q + k <= Len(s), q + k # h + 1
               PROVE  put(s, at, b)[q + k] = c[k]
  BY <1>1 DEF Holds
<1>3. q + k \in 1 .. Len(s) /\ ~((q + k) - at \in 1 .. Len(b))
  BY <1>1, <1>2
<1>4. put(s, at, b)[q + k] = s[q + k]
  BY <1>3, PutBytes
<1>5. s[q + k] = c[k]
  BY <1>2 DEF Holds
<1>6. QED BY <1>4, <1>5

LEMMA ConcatHolds ==
  ASSUME NEW s \in Seq(Bytes), NEW d \in Seq(Bytes), NEW h
  PROVE  Holds(s \o d, h, Len(s), d)
<1>1. Len(s) \in Nat /\ Len(d) \in Nat
  BY LenProperties
<1>2. SUFFICES ASSUME NEW k \in 1 .. Len(d) PROVE (s \o d)[Len(s) + k] = d[k]
  BY DEF Holds
<1>3. Len(s) + k \in 1 .. Len(s) + Len(d) /\ ~(Len(s) + k <= Len(s)) /\ (Len(s) + k) - Len(s) = k
  BY <1>1
<1>4. QED BY <1>3, ConcatProperties

LEMMA ConcatKeeps ==
  ASSUME NEW s \in Seq(Bytes), NEW d \in Seq(Bytes), NEW h,
         NEW q \in Nat, NEW c \in Seq(Bytes), Holds(s, h, q, c), q + Len(c) <= Len(s)
  PROVE  Holds(s \o d, h, q, c)
<1>1. Len(s) \in Nat /\ Len(d) \in Nat /\ Len(c) \in Nat
  BY LenProperties
<1>2. SUFFICES ASSUME NEW k \in 1 .. Len(c), q + k # h + 1
               PROVE  (s \o d)[q + k] = c[k]
  BY DEF Holds
<1>3. q + k \in 1 .. Len(s) + Len(d) /\ q + k <= Len(s)
  BY <1>1, <1>2
<1>4. (s \o d)[q + k] = s[q + k]
  BY <1>3, ConcatProperties
<1>5. s[q + k] = c[k]
  BY <1>2, <1>3 DEF Holds
<1>6. QED BY <1>4, <1>5

LEMMA CutKeeps ==
  ASSUME NEW s \in Seq(Bytes), NEW n \in 0 .. Len(s), NEW h,
         NEW q \in Nat, NEW c \in Seq(Bytes), Holds(s, h, q, c)
  PROVE  Holds(SubSeq(s, 1, n), h, q, c)
<1>1. Len(s) \in Nat /\ Len(c) \in Nat /\ n \in Nat /\ \A i \in 1 .. n : s[i] \in Bytes
  BY LenProperties, ElementOfSeq
<1>2. Len(SubSeq(s, 1, n)) = n /\ \A i \in 1 .. n : SubSeq(s, 1, n)[i] = s[i]
  BY <1>1, SubSeqProperties
<1>3. SUFFICES ASSUME NEW k \in 1 .. Len(c), q + k <= n, q + k # h + 1
               PROVE  SubSeq(s, 1, n)[q + k] = c[k]
  BY <1>2 DEF Holds
<1>4. q + k \in 1 .. n /\ q + k <= Len(s)
  BY <1>1, <1>3
<1>5. s[q + k] = c[k]
  BY <1>3, <1>4 DEF Holds
<1>6. QED BY <1>2, <1>4, <1>5

LEMMA DamageKeeps ==
  ASSUME NEW s \in Seq(Bytes), NEW p \in Nat, p < Len(s), NEW v \in Bytes,
         NEW q \in Nat, NEW c \in Seq(Bytes), Holds(s, -1, q, c)
  PROVE  Holds([s EXCEPT ![p + 1] = v], p, q, c)
<1>1. Len(s) \in Nat /\ Len(c) \in Nat /\ p + 1 \in 1 .. Len(s)
  BY LenProperties
<1>2. /\ Len([s EXCEPT ![p + 1] = v]) = Len(s)
      /\ \A j \in 1 .. Len(s) : [s EXCEPT ![p + 1] = v][j] = IF j = p + 1 THEN v ELSE s[j]
  BY <1>1, ExceptSeq
<1>3. SUFFICES ASSUME NEW k \in 1 .. Len(c), q + k <= Len(s), q + k # p + 1
               PROVE  [s EXCEPT ![p + 1] = v][q + k] = c[k]
  BY <1>2 DEF Holds
<1>4. q + k \in 1 .. Len(s) /\ q + k # -1 + 1
  BY <1>1, <1>3
<1>5. s[q + k] = c[k]
  BY <1>3, <1>4 DEF Holds
<1>6. QED BY <1>2, <1>3, <1>4, <1>5
-----------------------------------------------------------------------------
(* The writer *)

LEMMA FileFields ==
  ASSUME NEW f \in BuildFiles
  PROVE  /\ f.name \in Seq(Bytes) /\ Len(f.name) \in 1 .. 48 /\ from_utf8(f.name)
         /\ f.mode \in Nat /\ f.mode < BYTE * BYTE
         /\ f.data \in Seq(Bytes) /\ Len(f.data) \in Nat
<1>1. f \in [name: Seq(Bytes), mode: 0 .. BYTE * BYTE - 1, data: Seq(Bytes)]
      /\ Len(f.name) \in 1 .. 48 /\ from_utf8(f.name)
  BY DEF BuildFiles, NAME_CAP
<1>2. f.name \in Seq(Bytes) /\ f.data \in Seq(Bytes) /\ f.mode \in 0 .. BYTE * BYTE - 1
  BY <1>1
<1>3. Len(f.data) \in Nat
  BY <1>2, LenProperties
<1>4. f.mode \in Nat /\ f.mode < BYTE * BYTE
  BY <1>2, Sizes
<1>5. QED BY <1>1, <1>2, <1>3, <1>4

LEMMA PutField ==
  ASSUME NEW s \in Seq(Bytes), NEW n, Len(s) = n, NEW at \in Nat, NEW b \in Seq(Bytes),
         at + Len(b) <= n, NEW h
  PROVE  put(s, at, b) \in Seq(Bytes) /\ Len(put(s, at, b)) = n /\ Holds(put(s, at, b), h, at, b)
<1>1. at + Len(b) <= Len(s)
  OBVIOUS
<1>2. put(s, at, b) \in Seq(Bytes) /\ Len(put(s, at, b)) = Len(s)
  BY <1>1, PutBytes
<1>3. Holds(put(s, at, b), h, at, b)
  BY <1>1, PutHolds
<1>4. QED BY <1>2, <1>3, Zenon

LEMMA PutKept ==
  ASSUME NEW s \in Seq(Bytes), NEW n, Len(s) = n, NEW at \in Nat, NEW b \in Seq(Bytes),
         at + Len(b) <= n, NEW h, NEW q \in Nat, NEW c \in Seq(Bytes), Holds(s, h, q, c),
         q + Len(c) <= at \/ at + Len(b) <= q
  PROVE  Holds(put(s, at, b), h, q, c)
BY PutKeeps

\* w is s but for the entry at a place.
NewEntry(w, s, h, at, f, offset) ==
  /\ w \in Seq(Bytes) /\ Len(w) = Len(s) /\ EntryIn(w, h, at, f, offset)
  /\ \A q \in Nat : \A c \in Seq(Bytes) :
       Holds(s, h, q, c) /\ (q + Len(c) <= at \/ at + 64 <= q) => Holds(w, h, q, c)

\* Five fields are written and nothing outside the entry is touched.
LEMMA EntryWritten ==
  ASSUME NEW s \in Seq(Bytes), NEW at \in Nat, at + 64 <= Len(s), NEW f \in BuildFiles,
         NEW offset \in Nat, NEW h, NEW w, w = with_entry(s, at, f, offset)
  PROVE  NewEntry(w, s, h, at, f, offset)
<1> DEFINE b1 == le16(Len(f.name))
           b2 == le32(offset)
           b3 == le32(Len(f.data))
           b4 == le16(f.mode)
           b5 == f.name
           s1 == put(s, at, b1)
           s2 == put(s1, at + 4, b2)
           s3 == put(s2, at + 8, b3)
           s4 == put(s3, at + 12, b4)
           s5 == put(s4, at + 16, b5)
<1>1. w = s5
  BY DEF with_entry
<1>2. /\ b1 \in Seq(Bytes) /\ Len(b1) = 2 /\ b2 \in Seq(Bytes) /\ Len(b2) = 4
      /\ b3 \in Seq(Bytes) /\ Len(b3) = 4 /\ b4 \in Seq(Bytes) /\ Len(b4) = 2
      /\ b5 \in Seq(Bytes) /\ Len(b5) \in 1 .. 48
  <2>1. Len(f.name) \in Int /\ Len(f.data) \in Int /\ f.mode \in Int /\ offset \in Int
    BY FileFields
  <2>2. QED BY <2>1, FileFields, TwoBytes, FourBytes, Zenon
<1>3. /\ at + 4 \in Nat /\ at + 8 \in Nat /\ at + 12 \in Nat /\ at + 16 \in Nat /\ Len(s) \in Nat
      /\ at + Len(b1) <= Len(s) /\ (at + 4) + Len(b2) <= Len(s) /\ (at + 8) + Len(b3) <= Len(s)
      /\ (at + 12) + Len(b4) <= Len(s) /\ (at + 16) + Len(b5) <= Len(s)
  <2>1. Len(s) \in Nat
    BY LenProperties
  <2> HIDE DEF b1, b2, b3, b4, b5
  <2>2. PICK n \in Nat : n = Len(s)
    BY <2>1
  <2>3. PICK l \in 1 .. 48 : l = Len(b5)
    BY <1>2, Zenon
  <2>4. /\ at + 4 \in Nat /\ at + 8 \in Nat /\ at + 12 \in Nat /\ at + 16 \in Nat
        /\ at + 2 <= n /\ (at + 4) + 4 <= n /\ (at + 8) + 4 <= n /\ (at + 12) + 2 <= n
        /\ (at + 16) + l <= n
    <3>1. at + 64 <= n
      BY <2>2
    <3>2. QED BY <3>1
  <2>5. QED BY <1>2, <2>1, <2>2, <2>3, <2>4, Zenon
<1> HIDE DEF b1, b2, b3, b4, b5
<1>4. s1 \in Seq(Bytes) /\ Len(s1) = Len(s) /\ Holds(s1, h, at, b1)
  BY <1>2, <1>3, PutField, Zenon
<1> HIDE DEF s1
<1>5. s2 \in Seq(Bytes) /\ Len(s2) = Len(s) /\ Holds(s2, h, at + 4, b2)
  BY <1>2, <1>3, <1>4, PutField, Zenon
<1> HIDE DEF s2
<1>6. s3 \in Seq(Bytes) /\ Len(s3) = Len(s) /\ Holds(s3, h, at + 8, b3)
  BY <1>2, <1>3, <1>5, PutField, Zenon
<1> HIDE DEF s3
<1>7. s4 \in Seq(Bytes) /\ Len(s4) = Len(s) /\ Holds(s4, h, at + 12, b4)
  BY <1>2, <1>3, <1>6, PutField, Zenon
<1> HIDE DEF s4
<1>8. s5 \in Seq(Bytes) /\ Len(s5) = Len(s) /\ Holds(s5, h, at + 16, b5)
  BY <1>2, <1>3, <1>7, PutField, Zenon
<1> HIDE DEF s5
<1>9. ASSUME NEW q \in Nat, NEW c \in Seq(Bytes)
      PROVE  /\ Holds(s, h, q, c) /\ (q + Len(c) <= at \/ at + 2 <= q) => Holds(s1, h, q, c)
             /\ Holds(s1, h, q, c) /\ (q + Len(c) <= at + 4 \/ at + 8 <= q) => Holds(s2, h, q, c)
             /\ Holds(s2, h, q, c) /\ (q + Len(c) <= at + 8 \/ at + 12 <= q) => Holds(s3, h, q, c)
             /\ Holds(s3, h, q, c) /\ (q + Len(c) <= at + 12 \/ at + 14 <= q) => Holds(s4, h, q, c)
             /\ Holds(s4, h, q, c) /\ (q + Len(c) <= at + 16 \/ at + 64 <= q) => Holds(s5, h, q, c)
  <2>1. /\ at + Len(b1) = at + 2 /\ (at + 4) + Len(b2) = at + 8 /\ (at + 8) + Len(b3) = at + 12
        /\ (at + 12) + Len(b4) = at + 14
        /\ at + 64 <= q => (at + 16) + Len(b5) <= q
    <3>1. PICK l \in 1 .. 48 : l = Len(b5)
      BY <1>2, Zenon
    <3>2. /\ (at + 4) + 4 = at + 8 /\ (at + 8) + 4 = at + 12 /\ (at + 12) + 2 = at + 14
          /\ at + 64 <= q => (at + 16) + l <= q
      OBVIOUS
    <3>3. QED BY <1>2, <3>1, <3>2, Zenon
  <2>2. Holds(s, h, q, c) /\ (q + Len(c) <= at \/ at + 2 <= q) => Holds(s1, h, q, c)
    BY <1>2, <1>3, <2>1, PutKept, Zenon DEF s1
  <2>3. Holds(s1, h, q, c) /\ (q + Len(c) <= at + 4 \/ at + 8 <= q) => Holds(s2, h, q, c)
    BY <1>2, <1>3, <1>4, <2>1, PutKept, Zenon DEF s2
  <2>4. Holds(s2, h, q, c) /\ (q + Len(c) <= at + 8 \/ at + 12 <= q) => Holds(s3, h, q, c)
    BY <1>2, <1>3, <1>5, <2>1, PutKept, Zenon DEF s3
  <2>5. Holds(s3, h, q, c) /\ (q + Len(c) <= at + 12 \/ at + 14 <= q) => Holds(s4, h, q, c)
    BY <1>2, <1>3, <1>6, <2>1, PutKept, Zenon DEF s4
  <2>6. Holds(s4, h, q, c) /\ (q + Len(c) <= at + 16 \/ at + 64 <= q) => Holds(s5, h, q, c)
    BY <1>2, <1>3, <1>7, <2>1, PutKept, Zenon DEF s5
  <2>7. QED BY <2>2, <2>3, <2>4, <2>5, <2>6
<1>10. Holds(s5, h, at, b1)
  <2>1. at + Len(b1) <= at + 4 /\ at + Len(b1) <= at + 8 /\ at + Len(b1) <= at + 12
        /\ at + Len(b1) <= at + 16
    BY <1>2
  <2>2. QED BY <1>2, <1>4, <1>9, <2>1, Zenon
<1>11. Holds(s5, h, at + 4, b2)
  <2>1. (at + 4) + Len(b2) <= at + 8 /\ (at + 4) + Len(b2) <= at + 12 /\ (at + 4) + Len(b2) <= at + 16
    BY <1>2
  <2>2. QED BY <1>2, <1>3, <1>5, <1>9, <2>1, Zenon
<1>12. Holds(s5, h, at + 8, b3)
  <2>1. (at + 8) + Len(b3) <= at + 12 /\ (at + 8) + Len(b3) <= at + 16
    BY <1>2
  <2>2. QED BY <1>2, <1>3, <1>6, <1>9, <2>1, Zenon
<1>13. Holds(s5, h, at + 12, b4)
  <2>1. (at + 12) + Len(b4) <= at + 16
    BY <1>2
  <2>2. QED BY <1>2, <1>3, <1>7, <1>9, <2>1, Zenon
<1>14. ASSUME NEW q \in Nat, NEW c \in Seq(Bytes), Holds(s, h, q, c), q + Len(c) <= at \/ at + 64 <= q
       PROVE  Holds(s5, h, q, c)
  <2>1. Len(c) \in Nat
    BY LenProperties
  <2>2. /\ q + Len(c) <= at \/ at + 2 <= q
        /\ q + Len(c) <= at + 4 \/ at + 8 <= q
        /\ q + Len(c) <= at + 8 \/ at + 12 <= q
        /\ q + Len(c) <= at + 12 \/ at + 14 <= q
        /\ q + Len(c) <= at + 16 \/ at + 64 <= q
    BY <1>14, <2>1
  <2>3. QED BY <1>9, <1>14, <2>2, Zenon
<1>15. EntryIn(s5, h, at, f, offset)
  BY <1>8, <1>10, <1>11, <1>12, <1>13, Zenon DEF EntryIn, b1, b2, b3, b4, b5
<1>16. QED BY <1>1, <1>8, <1>14, <1>15, Zenon DEF NewEntry
-----------------------------------------------------------------------------
(* The inductive invariant *)

LEMMA InitLfs1Inv == Init => Lfs1Inv
<1> SUFFICES ASSUME Init PROVE Lfs1Inv
  OBVIOUS
<1>1. files \in Seq(BuildFiles) /\ image \in Seq(Bytes) /\ starts \in Seq(Nat)
  BY EmptySeq DEF Init
<1>2. TypeOK
  BY <1>1 DEF Init, TypeOK
<1>3. QED BY <1>2 DEF Init, Lfs1Inv

\* The catalog's names and data make files of the right form.
LEMMA Collected ==
  ASSUME NEW i \in DOMAIN Catalog, NEW j \in DOMAIN Catalog[i].names
  PROVE  [name |-> Catalog[i].names[j], mode |-> Catalog[i].mode, data |-> Catalog[i].data]
           \in BuildFiles
<1>1. Catalog[i] \in Candidates
  BY Lfs1Assumption, LenProperties, ElementOfSeq
<1>2. /\ Catalog[i].names \in Seq(Seq(Bytes)) /\ Catalog[i].mode \in 0 .. BYTE * BYTE - 1
      /\ Catalog[i].data \in Seq(Bytes)
  BY <1>1 DEF Candidates
<1>3. Catalog[i].names[j] \in Seq(Bytes)
  BY <1>2, LenProperties, ElementOfSeq
<1>4. Len(Catalog[i].names[j]) \in 1 .. NAME_CAP /\ from_utf8(Catalog[i].names[j])
  BY Lfs1Assumption, Zenon DEF from_utf8
<1>5. QED BY <1>2, <1>3, <1>4 DEF BuildFiles

LEMMA CollectKeepsInv ==
  ASSUME Lfs1Inv, collect
  PROVE  Lfs1Inv'
<1>1. phase = "collect" /\ next \in DOMAIN Catalog /\ TypeOK /\ starts = <<>> /\ hit = -1
  BY DEF collect, Lfs1Inv
<1>2. UNCHANGED <<phase, cursor, image, starts, cut, hit>> /\ next' = next + 1
  BY DEF collect
<1>3. files' \in Seq(BuildFiles)
  <2> DEFINE c == Catalog[next]
             more == [j \in DOMAIN c.names |-> [name |-> c.names[j], mode |-> c.mode, data |-> c.data]]
  <2>1. files' = files \/ files' = files \o more
    BY DEF collect, maybe_add_file
  <2>2. DOMAIN c.names = 1 .. Len(c.names) /\ Len(c.names) \in Nat
    <3>1. c \in Candidates
      BY <1>1, Lfs1Assumption, LenProperties, ElementOfSeq
    <3>2. c.names \in Seq(Seq(Bytes))
      BY <3>1 DEF Candidates
    <3>3. QED BY <3>2, LenProperties
  <2>3. \A j \in DOMAIN c.names : more[j] \in BuildFiles
    BY <1>1, Collected
  <2>4. more \in [1 .. Len(c.names) -> BuildFiles]
    BY <2>2, <2>3
  <2>5. more \in Seq(BuildFiles)
    BY <2>2, <2>4
  <2> HIDE DEF more
  <2>6. files \o more \in Seq(BuildFiles)
    BY <1>1, <2>5, ConcatProperties DEF TypeOK
  <2>7. QED BY <1>1, <2>1, <2>6 DEF TypeOK
<1>4. TypeOK'
  BY <1>1, <1>2, <1>3 DEF TypeOK
<1>5. QED BY <1>1, <1>2, <1>4 DEF Lfs1Inv

LEMMA TableEnd ==
  ASSUME TypeOK
  PROVE  /\ table_end \in Nat /\ Len(files) \in Nat /\ table_end = 12 + Len(files) * 64
         /\ table_end >= 12 /\ DOMAIN files = 1 .. Len(files)
<1>1. Len(files) \in Nat /\ DOMAIN files = 1 .. Len(files)
  BY LenProperties DEF TypeOK
<1>2. QED BY <1>1 DEF table_end, HEADER_SIZE, ENTRY_SIZE

LEMMA HeaderWritten ==
  ASSUME NEW n \in Nat, n >= 12, NEW m \in Int, NEW h, NEW w,
         w = put(put(put([k \in 1 .. n |-> 0], 0, MAGIC), 4, le16(VERSION)), 6, le16(m))
  PROVE  /\ w \in Seq(Bytes) /\ Len(w) = n
         /\ Holds(w, h, 0, MAGIC) /\ Holds(w, h, 4, le16(VERSION)) /\ Holds(w, h, 6, le16(m))
<1> DEFINE blank == [k \in 1 .. n |-> 0]
           b1 == MAGIC
           b2 == le16(VERSION)
           b3 == le16(m)
           s1 == put(blank, 0, b1)
           s2 == put(s1, 4, b2)
           s3 == put(s2, 6, b3)
<1>1. w = s3
  OBVIOUS
<1>2. blank \in Seq(Bytes) /\ Len(blank) = n
  <2>1. 0 \in Bytes
    BY Sizes DEF Bytes
  <2>2. QED BY <2>1
<1>3. /\ b1 \in Seq(Bytes) /\ Len(b1) = 4 /\ b2 \in Seq(Bytes) /\ Len(b2) = 2
      /\ b3 \in Seq(Bytes) /\ Len(b3) = 2
  <2>1. MAGIC \in Seq(Bytes) /\ Len(MAGIC) = 4
    BY Lfs1Assumption
  <2>2. VERSION \in Int
    BY DEF VERSION
  <2>3. QED BY <2>1, <2>2, TwoBytes, Zenon
<1>4. 0 + Len(b1) <= n /\ 4 + Len(b2) <= n /\ 6 + Len(b3) <= n
      /\ 0 + Len(b1) <= 4 /\ 0 + Len(b1) <= 6 /\ 4 + Len(b2) <= 6
      /\ 0 \in Nat /\ 4 \in Nat /\ 6 \in Nat
  <2>1. 0 + 4 <= n /\ 4 + 2 <= n /\ 6 + 2 <= n /\ 0 + 4 <= 4 /\ 0 + 4 <= 6 /\ 4 + 2 <= 6
        /\ 0 \in Nat /\ 4 \in Nat /\ 6 \in Nat
    OBVIOUS
  <2>2. QED BY <1>3, <2>1, Zenon
<1> HIDE DEF blank, b1, b2, b3
<1>5. s1 \in Seq(Bytes) /\ Len(s1) = n /\ Holds(s1, h, 0, b1)
  <2>1. 0 + Len(b1) <= Len(blank)
    BY <1>2, <1>4, Zenon
  <2>2. s1 \in Seq(Bytes) /\ Len(s1) = Len(blank)
    BY <1>2, <1>3, <1>4, <2>1, PutType, Zenon
  <2>3. Holds(s1, h, 0, b1)
    BY <1>2, <1>3, <1>4, <2>1, PutHolds, Zenon
  <2>4. QED BY <1>2, <2>2, <2>3, Zenon
<1> HIDE DEF s1
<1>6. s2 \in Seq(Bytes) /\ Len(s2) = n /\ Holds(s2, h, 4, b2)
  <2>1. 4 + Len(b2) <= Len(s1)
    BY <1>4, <1>5, Zenon
  <2>2. s2 \in Seq(Bytes) /\ Len(s2) = Len(s1)
    BY <1>3, <1>4, <1>5, <2>1, PutType, Zenon
  <2>3. Holds(s2, h, 4, b2)
    BY <1>3, <1>4, <1>5, <2>1, PutHolds, Zenon
  <2>4. QED BY <1>5, <2>2, <2>3, Zenon
<1>7. Holds(s2, h, 0, b1)
  BY <1>3, <1>4, <1>5, PutKept, Zenon
<1> HIDE DEF s2
<1>8. s3 \in Seq(Bytes) /\ Len(s3) = n /\ Holds(s3, h, 6, b3)
  <2>1. 6 + Len(b3) <= Len(s2)
    BY <1>4, <1>6, Zenon
  <2>2. s3 \in Seq(Bytes) /\ Len(s3) = Len(s2)
    BY <1>3, <1>4, <1>6, <2>1, PutType, Zenon
  <2>3. Holds(s3, h, 6, b3)
    BY <1>3, <1>4, <1>6, <2>1, PutHolds, Zenon
  <2>4. QED BY <1>6, <2>2, <2>3, Zenon
<1>9. Holds(s3, h, 0, b1)
  BY <1>3, <1>4, <1>6, <1>7, PutKept, Zenon
<1>10. Holds(s3, h, 4, b2)
  BY <1>3, <1>4, <1>6, PutKept, Zenon
<1> HIDE DEF s3
<1>11. QED BY <1>1, <1>8, <1>9, <1>10, Zenon DEF b1, b2, b3

LEMMA BeginKeepsInv ==
  ASSUME Lfs1Inv, begin
  PROVE  Lfs1Inv'
<1>1. TypeOK /\ starts = <<>> /\ hit = -1
  BY DEF begin, Lfs1Inv
<1>2. /\ image' = put(put(put([k \in 1 .. table_end |-> 0], 0, MAGIC), 4, le16(VERSION)),
                      6, le16(Len(files)))
      /\ cursor' = table_end /\ next' = 1 /\ phase' = "write"
      /\ UNCHANGED <<files, starts, cut, hit>>
  BY DEF begin
<1>3. table_end \in Nat /\ Len(files) \in Nat /\ table_end >= 12 /\ table_end' = table_end
  BY <1>1, <1>2, TableEnd DEF table_end
<1>4. /\ image' \in Seq(Bytes) /\ Len(image') = table_end
      /\ Holds(image', hit, 0, MAGIC) /\ Holds(image', hit, 4, le16(VERSION))
      /\ Holds(image', hit, 6, le16(Len(files)))
  <2>1. Len(files) \in Int
    BY <1>3
  <2>2. PICK n \in Nat : n = table_end
    BY <1>3
  <2>3. PICK m \in Int : m = Len(files)
    BY <2>1
  <2>4. PICK w : w = image'
    OBVIOUS
  <2>5. w = put(put(put([k \in 1 .. n |-> 0], 0, MAGIC), 4, le16(VERSION)), 6, le16(m))
    BY <1>2, <2>2, <2>3, <2>4, Zenon
  <2>6. n >= 12
    BY <1>3, <2>2
  <2>7. /\ w \in Seq(Bytes) /\ Len(w) = n
        /\ Holds(w, hit, 0, MAGIC) /\ Holds(w, hit, 4, le16(VERSION)) /\ Holds(w, hit, 6, le16(m))
    BY <2>5, <2>6, HeaderWritten, Zenon
  <2>8. QED BY <2>2, <2>3, <2>4, <2>7, Zenon
<1>5. TypeOK'
  BY <1>1, <1>2, <1>3, <1>4 DEF TypeOK
<1>6. HeaderHolds'
  BY <1>2, <1>4, Zenon DEF HeaderHolds
<1>7. starts' = <<>> /\ Len(starts') = 0
  BY <1>1, <1>2
<1>8. Written(cursor)'
  BY <1>6, <1>7 DEF Written, InOrder
<1>9. QED BY <1>1, <1>2, <1>3, <1>4, <1>5, <1>7, <1>8 DEF Lfs1Inv

\* What keeps every byte of an entry keeps the entry.
LEMMA EntryMoves ==
  ASSUME NEW s, NEW h, NEW t, NEW g, NEW at \in Nat, NEW f \in BuildFiles, NEW start \in Nat,
         EntryIn(s, h, at, f, start),
         \A q \in Nat : \A c \in Seq(Bytes) :
           Holds(s, h, q, c) /\ at <= q /\ q + Len(c) <= at + 64 => Holds(t, g, q, c)
  PROVE  EntryIn(t, g, at, f, start)
<1> DEFINE b1 == le16(Len(f.name))
           b2 == le32(start)
           b3 == le32(Len(f.data))
           b4 == le16(f.mode)
           b5 == f.name
<1>1. /\ b1 \in Seq(Bytes) /\ Len(b1) = 2 /\ b2 \in Seq(Bytes) /\ Len(b2) = 4
      /\ b3 \in Seq(Bytes) /\ Len(b3) = 4 /\ b4 \in Seq(Bytes) /\ Len(b4) = 2
      /\ b5 \in Seq(Bytes) /\ Len(b5) \in 1 .. 48
  <2>1. Len(f.name) \in Int /\ Len(f.data) \in Int /\ f.mode \in Int /\ start \in Int
    BY FileFields
  <2>2. QED BY <2>1, FileFields, TwoBytes, FourBytes, Zenon
<1>2. /\ Holds(s, h, at, b1) /\ Holds(s, h, at + 4, b2) /\ Holds(s, h, at + 8, b3)
      /\ Holds(s, h, at + 12, b4) /\ Holds(s, h, at + 16, b5)
  BY DEF EntryIn
<1> HIDE DEF b1, b2, b3, b4, b5
<1>3. /\ at + 4 \in Nat /\ at + 8 \in Nat /\ at + 12 \in Nat /\ at + 16 \in Nat
      /\ at <= at /\ at <= at + 4 /\ at <= at + 8 /\ at <= at + 12 /\ at <= at + 16
      /\ at + Len(b1) <= at + 64 /\ (at + 4) + Len(b2) <= at + 64 /\ (at + 8) + Len(b3) <= at + 64
      /\ (at + 12) + Len(b4) <= at + 64 /\ (at + 16) + Len(b5) <= at + 64
  <2>1. PICK l \in 1 .. 48 : l = Len(b5)
    BY <1>1, Zenon
  <2>2. /\ at + 4 \in Nat /\ at + 8 \in Nat /\ at + 12 \in Nat /\ at + 16 \in Nat
        /\ at <= at /\ at <= at + 4 /\ at <= at + 8 /\ at <= at + 12 /\ at <= at + 16
        /\ at + 2 <= at + 64 /\ (at + 4) + 4 <= at + 64 /\ (at + 8) + 4 <= at + 64
        /\ (at + 12) + 2 <= at + 64 /\ (at + 16) + l <= at + 64
    OBVIOUS
  <2>3. QED BY <1>1, <2>1, <2>2, Zenon
<1>4. /\ Holds(t, g, at, b1) /\ Holds(t, g, at + 4, b2) /\ Holds(t, g, at + 8, b3)
      /\ Holds(t, g, at + 12, b4) /\ Holds(t, g, at + 16, b5)
  BY <1>1, <1>2, <1>3, Zenon
<1>5. QED BY <1>4, Zenon DEF EntryIn, b1, b2, b3, b4, b5

LEMMA HeaderBytes ==
  ASSUME TypeOK
  PROVE  /\ MAGIC \in Seq(Bytes) /\ Len(MAGIC) = 4
         /\ le16(VERSION) \in Seq(Bytes) /\ Len(le16(VERSION)) = 2
         /\ le16(Len(files)) \in Seq(Bytes) /\ Len(le16(Len(files))) = 2
<1>1. MAGIC \in Seq(Bytes) /\ Len(MAGIC) = 4
  BY Lfs1Assumption
<1>2. VERSION \in Int /\ Len(files) \in Int
  BY TableEnd DEF VERSION
<1>3. QED BY <1>1, <1>2, TwoBytes, Zenon

\* So is the header, which ends before the table.
LEMMA HeaderMoves ==
  ASSUME TypeOK, HeaderHolds, NEW t, NEW g,
         \A q \in Nat : \A c \in Seq(Bytes) :
           Holds(image, hit, q, c) /\ q + Len(c) <= 12 => Holds(t, g, q, c)
  PROVE  Holds(t, g, 0, MAGIC) /\ Holds(t, g, 4, le16(VERSION)) /\ Holds(t, g, 6, le16(Len(files)))
<1>1. 0 + Len(MAGIC) <= 12 /\ 4 + Len(le16(VERSION)) <= 12 /\ 6 + Len(le16(Len(files))) <= 12
      /\ 0 \in Nat /\ 4 \in Nat /\ 6 \in Nat
  <2>1. 0 + 4 <= 12 /\ 4 + 2 <= 12 /\ 6 + 2 <= 12 /\ 0 \in Nat /\ 4 \in Nat /\ 6 \in Nat
    OBVIOUS
  <2>2. QED BY <2>1, HeaderBytes, Zenon
<1>2. QED BY <1>1, HeaderBytes, Zenon DEF HeaderHolds

LEMMA EntryPlace ==
  ASSUME TypeOK, NEW i \in 1 .. Len(files)
  PROVE  /\ HEADER_SIZE + (i - 1) * ENTRY_SIZE = 12 + (i - 1) * 64
         /\ 12 + (i - 1) * 64 \in Nat /\ 12 + (i - 1) * 64 + 64 <= table_end
         /\ files[i] \in BuildFiles
<1>1. Len(files) \in Nat /\ table_end = 12 + Len(files) * 64
  BY TableEnd
<1>2. files[i] \in BuildFiles
  BY ElementOfSeq DEF TypeOK
<1>3. QED BY <1>1, <1>2 DEF HEADER_SIZE, ENTRY_SIZE

\* What write_file does to the bytes: the entry and the data are new, the rest stays.
NewFile(t, s, h, at, f) ==
  /\ t \in Seq(Bytes) /\ Len(t) = Len(s) + Len(f.data)
  /\ EntryIn(t, h, at, f, Len(s)) /\ Holds(t, h, Len(s), f.data)
  /\ \A q \in Nat : \A c \in Seq(Bytes) :
       /\ Holds(s, h, q, c) /\ q + Len(c) <= Len(s)
       /\ q + Len(c) <= at \/ at + 64 <= q
       => Holds(t, h, q, c)

LEMMA Appended ==
  ASSUME NEW s \in Seq(Bytes), NEW at \in Nat, at + 64 <= Len(s), NEW f \in BuildFiles,
         NEW h, NEW t, t = with_entry(s, at, f, Len(s)) \o f.data
  PROVE  NewFile(t, s, h, at, f)
<1>1. PICK w : w = with_entry(s, at, f, Len(s))
  OBVIOUS
<1>2. Len(s) \in Nat /\ f.data \in Seq(Bytes)
  BY LenProperties, FileFields
<1>3. /\ w \in Seq(Bytes) /\ Len(w) = Len(s)
      /\ EntryIn(w, h, at, f, Len(s))
      /\ \A q \in Nat : \A c \in Seq(Bytes) :
           Holds(s, h, q, c) /\ (q + Len(c) <= at \/ at + 64 <= q) => Holds(w, h, q, c)
  <2>1. NewEntry(w, s, h, at, f, Len(s))
    BY <1>1, <1>2, EntryWritten, Zenon
  <2>2. QED BY <2>1, Zenon DEF NewEntry
<1>4. t = w \o f.data
  BY <1>1
<1>5. t \in Seq(Bytes) /\ Len(t) = Len(w) + Len(f.data)
  <2>1. w \o f.data \in Seq(Bytes) /\ Len(w \o f.data) = Len(w) + Len(f.data)
    BY <1>2, <1>3, ConcatProperties
  <2>2. QED BY <1>4, <2>1, Zenon
<1>6. Holds(t, h, Len(w), f.data)
  BY <1>2, <1>3, <1>4, ConcatHolds, Zenon
<1>7. ASSUME NEW q \in Nat, NEW c \in Seq(Bytes), Holds(w, h, q, c), q + Len(c) <= Len(w)
      PROVE  Holds(t, h, q, c)
  BY <1>2, <1>3, <1>4, <1>7, ConcatKeeps, Zenon
<1>8. EntryIn(t, h, at, f, Len(s))
  <2>1. ASSUME NEW q \in Nat, NEW c \in Seq(Bytes), Holds(w, h, q, c), at <= q, q + Len(c) <= at + 64
        PROVE  Holds(t, h, q, c)
    <3>1. q + Len(c) <= Len(w)
      <4>1. Len(c) \in Nat
        BY LenProperties
      <4>2. QED BY <1>2, <1>3, <2>1, <4>1
    <3>2. QED BY <1>7, <2>1, <3>1, Zenon
  <2>2. QED BY <1>2, <1>3, <2>1, EntryMoves, Zenon
<1>9. QED BY <1>3, <1>5, <1>6, <1>7, <1>8, Zenon DEF NewFile

LEMMA WriteKeepsInv ==
  ASSUME Lfs1Inv, write_file
  PROVE  Lfs1Inv'
<1> DEFINE f == files[next]
           at == 12 + (next - 1) * 64
           n == Len(image)
<1>1. /\ TypeOK /\ phase = "write" /\ next \in DOMAIN files /\ Len(starts) = next - 1 /\ hit = -1
      /\ cursor = Len(image) /\ table_end <= cursor /\ Written(cursor)
  BY DEF write_file, Lfs1Inv
<1>2. /\ table_end \in Nat /\ Len(files) \in Nat /\ DOMAIN files = 1 .. Len(files)
      /\ next \in 1 .. Len(files) /\ n \in Nat /\ image \in Seq(Bytes)
  BY <1>1, TableEnd, LenProperties DEF TypeOK
<1>3. at \in Nat /\ at + 64 <= table_end /\ at + 64 <= n /\ f \in BuildFiles
      /\ HEADER_SIZE + (next - 1) * ENTRY_SIZE = at
  <2>1. at \in Nat /\ at + 64 <= table_end /\ f \in BuildFiles
        /\ HEADER_SIZE + (next - 1) * ENTRY_SIZE = at
    BY <1>1, <1>2, EntryPlace
  <2> HIDE DEF at
  <2>2. QED BY <1>1, <1>2, <2>1
<1>4. f.data \in Seq(Bytes) /\ Len(f.data) \in Nat
  BY <1>3, FileFields
<1>5. /\ image' = with_entry(image, at, f, n) \o f.data
      /\ cursor' = cursor + Len(f.data) /\ starts' = Append(starts, n) /\ next' = next + 1
      /\ UNCHANGED <<phase, files, cut, hit>>
  BY <1>1, <1>3 DEF write_file, offset_of
<1> HIDE DEF f, at, n
<1>6. /\ image' \in Seq(Bytes) /\ Len(image') = n + Len(f.data)
      /\ EntryIn(image', hit, at, f, n) /\ Holds(image', hit, n, f.data)
      /\ \A q \in Nat : \A c \in Seq(Bytes) :
           /\ Holds(image, hit, q, c) /\ q + Len(c) <= n
           /\ q + Len(c) <= at \/ at + 64 <= q
           => Holds(image', hit, q, c)
  <2>1. PICK s \in Seq(Bytes) : s = image
    BY <1>2
  <2>2. PICK t : t = image'
    OBVIOUS
  <2>3. t = with_entry(s, at, f, Len(s)) \o f.data /\ at + 64 <= Len(s) /\ Len(s) = n
    BY <1>3, <1>5, <2>1, <2>2, Zenon DEF n
  <2>4. NewFile(t, s, hit, at, f)
    BY <1>3, <2>3, Appended, Zenon
  <2>5. QED BY <2>1, <2>2, <2>3, <2>4, Zenon DEF NewFile
<1>7. /\ starts' \in Seq(Nat) /\ Len(starts') = next /\ starts'[next] = n
      /\ \A i \in 1 .. next - 1 : starts'[i] = starts[i] /\ starts[i] \in Nat
  <2>1. starts \in Seq(Nat) /\ Len(starts) = next - 1
    BY <1>1 DEF TypeOK
  <2>2. Len(starts) + 1 = next
    BY <1>2, <2>1
  <2>3. QED BY <1>2, <1>5, <2>1, <2>2, AppendProperties, ElementOfSeq
<1>8. TypeOK'
  BY <1>1, <1>2, <1>4, <1>5, <1>6, <1>7 DEF TypeOK
<1>9. table_end' = table_end /\ files' = files /\ hit' = hit /\ cursor' = n + Len(f.data)
      /\ cursor = n
  BY <1>1, <1>5 DEF table_end, n
<1>10. HeaderHolds'
  <2>1. ASSUME NEW q \in Nat, NEW c \in Seq(Bytes), Holds(image, hit, q, c), q + Len(c) <= 12
        PROVE  Holds(image', hit, q, c)
    <3>1. 12 <= at
      BY <1>2 DEF at
    <3>2. q + Len(c) <= at /\ q + Len(c) <= n
      <4>1. Len(c) \in Nat
        BY LenProperties
      <4>2. QED BY <1>2, <1>3, <2>1, <3>1, <4>1
    <3>3. QED BY <1>6, <2>1, <3>2, Zenon
  <2>2. HeaderHolds
    BY <1>1 DEF Written
  <2>3. /\ Holds(image', hit, 0, MAGIC) /\ Holds(image', hit, 4, le16(VERSION))
        /\ Holds(image', hit, 6, le16(Len(files)))
    BY <1>1, <2>1, <2>2, HeaderMoves, Zenon
  <2>4. QED BY <1>9, <2>3, Zenon DEF HeaderHolds
<1>11. ASSUME NEW i \in 1 .. next - 1
       PROVE  /\ EntryHolds(i)' /\ Laid(i, cursor)' /\ Holds(image', hit', starts'[i], files'[i].data)
  <2> DEFINE a == 12 + (i - 1) * 64
  <2>1. i \in 1 .. Len(starts) /\ i \in 1 .. Len(files) /\ i <= next - 1
    BY <1>1, <1>2
  <2>2. EntryHolds(i) /\ Laid(i, cursor) /\ Holds(image, hit, starts[i], files[i].data)
    BY <1>1, <2>1 DEF Written
  <2>3. HEADER_SIZE + (i - 1) * ENTRY_SIZE = a /\ a \in Nat /\ files[i] \in BuildFiles
    BY <1>1, <2>1, EntryPlace
  <2>4. a + 64 <= at
    BY <1>2, <2>1 DEF at
  <2> HIDE DEF a
  <2>5. files[i].data \in Seq(Bytes) /\ Len(files[i].data) \in Nat
    BY <2>3, FileFields
  <2>6. ASSUME NEW q \in Nat, NEW c \in Seq(Bytes), Holds(image, hit, q, c), a <= q,
               q + Len(c) <= a + 64
        PROVE  Holds(image', hit, q, c)
    <3>1. q + Len(c) <= at /\ q + Len(c) <= n
      <4>1. Len(c) \in Nat
        BY LenProperties
      <4>2. QED BY <1>2, <1>3, <2>3, <2>4, <2>6, <4>1
    <3>2. QED BY <1>6, <2>6, <3>1, Zenon
  <2>7. EntryIn(image', hit, a, files[i], starts[i])
    <3>1. EntryIn(image, hit, a, files[i], starts[i])
      BY <2>2, <2>3, Zenon DEF EntryHolds
    <3>2. starts[i] \in Nat
      BY <1>7
    <3>3. PICK fi \in BuildFiles : fi = files[i]
      BY <2>3
    <3>4. PICK st \in Nat : st = starts[i]
      BY <3>2
    <3>5. EntryIn(image', hit, a, fi, st)
      BY <2>3, <2>6, <3>1, <3>3, <3>4, EntryMoves, Zenon
    <3>6. QED BY <3>3, <3>4, <3>5, Zenon
  <2>8. EntryHolds(i)'
    BY <1>7, <1>9, <2>3, <2>7 DEF EntryHolds, HEADER_SIZE, ENTRY_SIZE
  <2>9. starts[i] >= table_end /\ starts[i] + Len(files[i].data) <= n /\ starts[i] \in Nat
    BY <1>7, <1>9, <2>2 DEF Laid
  <2>10. Laid(i, cursor)'
    BY <1>2, <1>4, <1>7, <1>9, <2>5, <2>9 DEF Laid
  <2>11. Holds(image', hit, starts[i], files[i].data)
    <3>1. at + 64 <= starts[i]
      BY <1>2, <1>3, <2>9
    <3>2. QED BY <1>6, <2>2, <2>5, <2>9, <3>1, Zenon
  <2>12. QED BY <1>7, <1>9, <2>8, <2>10, <2>11
<1>12. PICK k \in 1 .. Len(files) : k = next
  BY <1>2
<1>13. EntryHolds(k)' /\ Laid(k, cursor)' /\ Holds(image', hit', starts'[k], files'[k].data)
  <2>1. files'[k] = f /\ starts'[k] = n /\ HEADER_SIZE + (k - 1) * ENTRY_SIZE = at
    BY <1>3, <1>7, <1>9, <1>12, Zenon DEF f
  <2>2. EntryHolds(k)'
    BY <1>6, <1>9, <2>1, Zenon DEF EntryHolds, HEADER_SIZE, ENTRY_SIZE
  <2>3. Laid(k, cursor)'
    BY <1>1, <1>2, <1>4, <1>9, <2>1 DEF Laid
  <2>4. QED BY <1>6, <1>9, <2>1, <2>2, <2>3, Zenon
<1>14. InOrder'
  <2> SUFFICES ASSUME NEW i \in 1 .. Len(starts'), NEW j \in 1 .. Len(starts'), i < j
               PROVE  starts'[i] + Len(files'[i].data) <= starts'[j]
    BY DEF InOrder
  <2>1. i \in 1 .. next - 1 /\ i \in 1 .. Len(starts)
    BY <1>1, <1>2, <1>7
  <2>2. CASE j = next
    <3>1. Laid(i, cursor)
      BY <1>1, <2>1 DEF Written
    <3>2. starts[i] + Len(files[i].data) <= n
      BY <1>9, <3>1 DEF Laid
    <3>3. QED BY <1>7, <1>9, <2>1, <2>2, <3>2, Zenon
  <2>3. CASE j \in 1 .. next - 1
    <3>1. starts[i] + Len(files[i].data) <= starts[j]
      BY <1>1, <2>1, <2>3 DEF Written, InOrder
    <3>2. QED BY <1>7, <1>9, <2>1, <2>3, <3>1, Zenon
  <2>4. QED BY <1>2, <1>7, <2>2, <2>3
<1>15. Written(cursor)'
  <2>1. \A i \in 1 .. Len(starts') : i \in 1 .. next - 1 \/ i = k
    BY <1>2, <1>7, <1>12
  <2>2. ASSUME NEW i \in 1 .. Len(starts')
        PROVE  EntryHolds(i)' /\ Laid(i, cursor)' /\ Holds(image', hit', starts'[i], files'[i].data)
    <3>1. CASE i \in 1 .. next - 1
      BY <1>11, <3>1
    <3>2. CASE i = k
      BY <1>13, <3>2
    <3>3. QED BY <2>1, <3>1, <3>2
  <2>3. QED BY <1>10, <1>14, <2>2 DEF Written
<1>16. Len(starts') = next' - 1 /\ next' <= Len(files') + 1 /\ cursor' = Len(image')
       /\ table_end' <= cursor' /\ phase' = "write" /\ hit' = -1
  BY <1>1, <1>2, <1>4, <1>5, <1>6, <1>7, <1>9
<1>17. QED BY <1>8, <1>15, <1>16 DEF Lfs1Inv

LEMMA FinishKeepsInv ==
  ASSUME Lfs1Inv, finish
  PROVE  Lfs1Inv'
<1>1. /\ TypeOK /\ phase = "write" /\ next \notin DOMAIN files /\ Len(starts) = next - 1
      /\ next <= Len(files) + 1 /\ cursor = Len(image) /\ table_end <= cursor /\ Written(cursor)
  BY DEF finish, Lfs1Inv
<1>2. phase' = "ready" /\ cut' = Len(image) /\ UNCHANGED <<next, files, cursor, image, starts, hit>>
  BY DEF finish
<1>3. Len(files) \in Nat /\ DOMAIN files = 1 .. Len(files) /\ next \in Nat \ {0} /\ Len(image) \in Nat
  BY <1>1, TableEnd, LenProperties DEF TypeOK
<1>4. Len(starts) = Len(files)
  BY <1>1, <1>3
<1>5. TypeOK'
  BY <1>1, <1>2, <1>3 DEF TypeOK
<1>6. Written(cut)'
  BY <1>1, <1>2 DEF Written, HeaderHolds, InOrder, EntryHolds, Laid, table_end
<1>7. table_end' <= cut' /\ Len(image') <= cut' /\ Len(starts') = Len(files')
  BY <1>1, <1>2, <1>3, <1>4 DEF table_end
<1>8. QED BY <1>2, <1>5, <1>6, <1>7 DEF Lfs1Inv

\* A change of the image that keeps all that is held keeps the invariant.
LEMMA ImageMoves ==
  ASSUME Lfs1Inv, phase = "ready", TypeOK', Len(image') <= cut,
         UNCHANGED <<phase, files, starts, cut>>,
         \A q \in Nat : \A c \in Seq(Bytes) : Holds(image, hit, q, c) => Holds(image', hit', q, c)
  PROVE  Lfs1Inv'
<1>1. TypeOK /\ Len(starts) = Len(files) /\ table_end <= cut /\ Written(cut)
  BY DEF Lfs1Inv
<1>2. table_end' = table_end /\ files' = files /\ starts' = starts /\ cut' = cut
  BY DEF table_end
<1>3. HeaderHolds'
  <2>1. HeaderHolds
    BY <1>1 DEF Written
  <2>2. /\ Holds(image', hit', 0, MAGIC) /\ Holds(image', hit', 4, le16(VERSION))
        /\ Holds(image', hit', 6, le16(Len(files)))
    BY <1>1, <2>1, HeaderMoves, Zenon
  <2>3. QED BY <1>2, <2>2, Zenon DEF HeaderHolds
<1>4. ASSUME NEW i \in 1 .. Len(starts)
      PROVE  EntryHolds(i)' /\ Laid(i, cut)' /\ Holds(image', hit', starts[i], files[i].data)
  <2> DEFINE a == HEADER_SIZE + (i - 1) * ENTRY_SIZE
  <2>1. EntryHolds(i) /\ Laid(i, cut) /\ Holds(image, hit, starts[i], files[i].data)
    BY <1>1 DEF Written
  <2>2. i \in 1 .. Len(files)
    BY <1>1, Zenon
  <2>3. a \in Nat /\ files[i] \in BuildFiles
    BY <1>1, <2>2, EntryPlace
  <2>4. starts[i] \in Nat /\ files[i].data \in Seq(Bytes)
    BY <1>1, <2>3, FileFields, ElementOfSeq DEF TypeOK
  <2>5. EntryIn(image, hit, a, files[i], starts[i])
    BY <2>1 DEF EntryHolds
  <2> HIDE DEF a
  <2>6. PICK fi \in BuildFiles : fi = files[i]
    BY <2>3
  <2>7. PICK st \in Nat : st = starts[i]
    BY <2>4
  <2>8. EntryIn(image', hit', a, fi, st)
    BY <2>3, <2>5, <2>6, <2>7, EntryMoves, Zenon
  <2>9. EntryHolds(i)'
    BY <1>2, <2>6, <2>7, <2>8, Zenon DEF EntryHolds, a, HEADER_SIZE, ENTRY_SIZE
  <2>10. QED BY <1>2, <2>1, <2>4, <2>9 DEF Laid
<1>5. InOrder'
  BY <1>1, <1>2 DEF Written, InOrder
<1>6. Written(cut)'
  BY <1>2, <1>3, <1>4, <1>5 DEF Written
<1>7. QED BY <1>1, <1>2, <1>6 DEF Lfs1Inv

LEMMA TruncateKeepsInv ==
  ASSUME Lfs1Inv, NEW n \in 0 .. cut, truncate(n)
  PROVE  Lfs1Inv'
<1>1. TypeOK /\ phase = "ready" /\ n \in 0 .. Len(image) /\ image \in Seq(Bytes)
  BY DEF truncate, Lfs1Inv, TypeOK
<1>2. image' = SubSeq(image, 1, n) /\ UNCHANGED <<phase, next, files, cursor, starts, cut, hit>>
  BY DEF truncate
<1>3. image' \in Seq(Bytes) /\ Len(image') = n
  <2>1. n \in Nat /\ \A i \in 1 .. n : image[i] \in Bytes
    BY <1>1, LenProperties, ElementOfSeq
  <2>2. SubSeq(image, 1, n) \in Seq(Bytes) /\ Len(SubSeq(image, 1, n)) = n
    BY <2>1, SubSeqProperties
  <2>3. QED BY <1>2, <2>2, Zenon
<1>4. TypeOK'
  BY <1>1, <1>2, <1>3 DEF TypeOK
<1>5. ASSUME NEW q \in Nat, NEW c \in Seq(Bytes), Holds(image, hit, q, c)
      PROVE  Holds(image', hit', q, c)
  <2>1. PICK m \in 0 .. Len(image) : m = n
    BY <1>1
  <2>2. Holds(SubSeq(image, 1, m), hit, q, c)
    BY <1>1, <1>5, CutKeeps, Zenon
  <2>3. QED BY <1>2, <2>1, <2>2, Zenon
<1>6. Len(image') <= cut
  BY <1>1, <1>3 DEF TypeOK
<1>7. QED BY <1>1, <1>2, <1>4, <1>5, <1>6, ImageMoves

LEMMA DamageKeepsInv ==
  ASSUME Lfs1Inv, NEW p \in 0 .. cut, NEW v \in Wrong, damage(p, v)
  PROVE  Lfs1Inv'
<1>1. /\ TypeOK /\ phase = "ready" /\ hit = -1 /\ p \in Nat /\ p < Len(image) /\ image \in Seq(Bytes)
      /\ v \in Bytes /\ Len(image) \in Nat /\ p + 1 \in 1 .. Len(image) /\ Len(image) <= cut
  BY Lfs1Assumption, LenProperties DEF damage, Lfs1Inv, TypeOK
<1>2. image' = [image EXCEPT ![p + 1] = v] /\ hit' = p
      /\ UNCHANGED <<phase, next, files, cursor, starts, cut>>
  BY DEF damage
<1>3. image' \in Seq(Bytes) /\ Len(image') = Len(image)
  BY <1>1, <1>2, ExceptSeq
<1>4. TypeOK'
  BY <1>1, <1>2, <1>3 DEF TypeOK
<1>5. ASSUME NEW q \in Nat, NEW c \in Seq(Bytes), Holds(image, hit, q, c)
      PROVE  Holds(image', hit', q, c)
  <2>1. Holds(image, -1, q, c)
    BY <1>1, <1>5, Zenon
  <2>2. Holds([image EXCEPT ![p + 1] = v], p, q, c)
    BY <1>1, <2>1, DamageKeeps, Zenon
  <2>3. QED BY <1>2, <2>2, Zenon
<1>6. Len(image') <= cut
  BY <1>1, <1>3, Zenon
<1>7. QED BY <1>1, <1>2, <1>4, <1>5, <1>6, ImageMoves

LEMMA NextLfs1Inv == Lfs1Inv /\ [Next]_vars => Lfs1Inv'
<1> SUFFICES ASSUME Lfs1Inv, [Next]_vars PROVE Lfs1Inv'
  OBVIOUS
<1>1. CASE collect
  BY <1>1, CollectKeepsInv
<1>2. CASE begin
  BY <1>2, BeginKeepsInv
<1>3. CASE write_file
  BY <1>3, WriteKeepsInv
<1>4. CASE finish
  BY <1>4, FinishKeepsInv
<1>5. ASSUME NEW p \in 0 .. cut, NEW v \in Wrong, damage(p, v) PROVE Lfs1Inv'
  BY <1>5, DamageKeepsInv
<1>6. ASSUME NEW n \in 0 .. cut, truncate(n) PROVE Lfs1Inv'
  BY <1>6, TruncateKeepsInv
<1>7. CASE UNCHANGED vars
  BY <1>7 DEF vars, Lfs1Inv, TypeOK, Written, HeaderHolds, InOrder, EntryHolds, Laid, table_end
<1>8. QED BY <1>1, <1>2, <1>3, <1>4, <1>5, <1>6, <1>7 DEF Next

\* Everything build.rs has written stays where it was put, except for what was cut off
\* and the byte that was damaged.
THEOREM ImageInvariant == Spec => []Lfs1Inv
BY InitLfs1Inv, NextLfs1Inv, PTL DEF Spec
-----------------------------------------------------------------------------
(* The reader *)

LEMMA Undamaged ==
  ASSUME NEW s \in Seq(Bytes), NEW at \in Nat, NEW h \in Int, NEW c \in Seq(Bytes),
         Holds(s, h, at, c), at + Len(c) <= Len(s), h \notin at .. at + Len(c) - 1
  PROVE  \A k \in 1 .. Len(c) : s[at + k] = c[k]
<1>1. Len(c) \in Nat /\ Len(s) \in Nat
  BY LenProperties
<1>2. ASSUME NEW k \in 1 .. Len(c) PROVE s[at + k] = c[k]
  <2>1. at + k <= Len(s) /\ at + k # h + 1
    BY <1>1
  <2>2. QED BY <2>1 DEF Holds
<1>3. QED BY <1>2

LEMMA ReadU16 ==
  ASSUME NEW s \in Seq(Bytes), NEW at \in Nat, NEW h \in Int, NEW v \in Nat, v < BYTE * BYTE,
         Holds(s, h, at, le16(v)), at + 2 <= Len(s), h \notin at .. at + 1
  PROVE  u16(s, at) = v
<1>1. v \in Int /\ le16(v) \in Seq(Bytes) /\ Len(le16(v)) = 2
  BY TwoBytes
<1>2. at + Len(le16(v)) <= Len(s) /\ h \notin at .. at + Len(le16(v)) - 1
  <2>1. at + 2 - 1 = at + 1
    OBVIOUS
  <2>2. QED BY <1>1, <2>1, Zenon
<1>3. \A k \in 1 .. 2 : s[at + k] = le16(v)[k]
  <2>1. \A k \in 1 .. Len(le16(v)) : s[at + k] = le16(v)[k]
    BY <1>1, <1>2, Undamaged, Zenon
  <2>2. QED BY <1>1, <2>1, Zenon
<1>4. s[at + 1] = le16(v)[1] /\ s[at + 2] = le16(v)[2]
  BY <1>3
<1>5. le16(v)[1] + le16(v)[2] * BYTE = v
  BY ReadsTwo
<1>6. QED BY <1>4, <1>5, Zenon DEF u16

LEMMA ReadU32 ==
  ASSUME NEW s \in Seq(Bytes), NEW at \in Nat, NEW h \in Int,
         NEW v \in Nat, v < (BYTE * BYTE) * (BYTE * BYTE),
         Holds(s, h, at, le32(v)), at + 4 <= Len(s), h \notin at .. at + 3
  PROVE  u32(s, at) = v
<1>1. v \in Int /\ le32(v) \in Seq(Bytes) /\ Len(le32(v)) = 4
  BY FourBytes
<1>2. at + Len(le32(v)) <= Len(s) /\ h \notin at .. at + Len(le32(v)) - 1
  <2>1. at + 4 - 1 = at + 3
    OBVIOUS
  <2>2. QED BY <1>1, <2>1, Zenon
<1>3. \A k \in 1 .. 4 : s[at + k] = le32(v)[k]
  <2>1. \A k \in 1 .. Len(le32(v)) : s[at + k] = le32(v)[k]
    BY <1>1, <1>2, Undamaged, Zenon
  <2>2. QED BY <1>1, <2>1, Zenon
<1>4. /\ s[at + 1] = le32(v)[1] /\ s[at + 2] = le32(v)[2]
      /\ s[(at + 2) + 1] = le32(v)[3] /\ s[(at + 2) + 2] = le32(v)[4]
  <2>1. (at + 2) + 1 = at + 3 /\ (at + 2) + 2 = at + 4
    OBVIOUS
  <2>2. QED BY <1>3, <2>1
<1>5. (le32(v)[1] + le32(v)[2] * BYTE) + (le32(v)[3] + le32(v)[4] * BYTE) * (BYTE * BYTE) = v
  BY ReadsFour
<1>6. QED BY <1>4, <1>5, Zenon DEF u16, u32

LEMMA SliceIs ==
  ASSUME NEW s \in Seq(Bytes), NEW at \in Nat, NEW n \in Nat, at + n <= Len(s)
  PROVE  /\ SubSeq(s, at + 1, at + n) \in Seq(Bytes) /\ Len(SubSeq(s, at + 1, at + n)) = n
         /\ \A i \in 1 .. n : SubSeq(s, at + 1, at + n)[i] = s[at + i]
<1>1. Len(s) \in Nat /\ \A k \in 1 .. Len(s) : s[k] \in Bytes
  BY LenProperties, ElementOfSeq
<1>2. PICK a \in Int, b \in Int : a = at + 1 /\ b = at + n
  OBVIOUS
<1>3. \A i \in a .. b : s[i] \in Bytes
  BY <1>1, <1>2
<1>4. PICK t : t = SubSeq(s, a, b)
  OBVIOUS
<1>5. t \in Seq(Bytes) /\ Len(t) = IF a <= b THEN b - a + 1 ELSE 0
  BY <1>3, <1>4, SubSeqProperties
<1>6. \A i \in 1 .. b - a + 1 : t[i] = s[a + i - 1]
  BY <1>3, <1>4, SubSeqProperties
<1>7. Len(t) = n
  BY <1>2, <1>5
<1>8. \A i \in 1 .. n : t[i] = s[at + i]
  <2>1. b - a + 1 = n /\ \A i \in 1 .. n : a + i - 1 = at + i
    BY <1>2
  <2>2. QED BY <1>6, <2>1, Zenon
<1>9. QED BY <1>2, <1>4, <1>5, <1>7, <1>8, Zenon

LEMMA ReadSlice ==
  ASSUME NEW s \in Seq(Bytes), NEW at \in Nat, NEW h \in Int, NEW c \in Seq(Bytes),
         Holds(s, h, at, c), at + Len(c) <= Len(s), h \notin at .. at + Len(c) - 1
  PROVE  SubSeq(s, at + 1, at + Len(c)) = c
<1>1. \A k \in 1 .. Len(c) : s[at + k] = c[k]
  BY Undamaged
<1>2. Len(c) \in Nat /\ Len(s) \in Nat /\ \A k \in 1 .. Len(s) : s[k] \in Bytes
  BY LenProperties, ElementOfSeq
<1>4. PICK t : t = SubSeq(s, at + 1, at + Len(c))
  OBVIOUS
<1>5. /\ t \in Seq(Bytes) /\ Len(t) = Len(c)
      /\ \A i \in 1 .. Len(c) : t[i] = s[at + i]
  BY <1>2, <1>4, SliceIs, Zenon
<1>6. \A i \in 1 .. Len(t) : t[i] = c[i]
  BY <1>1, <1>5
<1>7. t = c
  BY <1>5, <1>6, SeqEqual
<1>8. QED BY <1>4, <1>7

\* The 64 bytes of an entry hold what the image held there.
EntrySlice(e, s, h, at) ==
  /\ e \in Seq(Bytes) /\ Len(e) = 64
  /\ \A q \in Nat : \A c \in Seq(Bytes) :
       Holds(s, h, at + q, c) /\ q + Len(c) <= 64 => Holds(e, -1, q, c)

LEMMA SliceHolds ==
  ASSUME NEW s \in Seq(Bytes), NEW at \in Nat, at + 64 <= Len(s), NEW h \in Int,
         h \notin at .. at + 63, NEW e, e = SubSeq(s, at + 1, at + 64)
  PROVE  EntrySlice(e, s, h, at)
<1>1. Len(s) \in Nat /\ \A k \in 1 .. Len(s) : s[k] \in Bytes
  BY LenProperties, ElementOfSeq
<1>2. /\ e \in Seq(Bytes) /\ Len(e) = 64
      /\ \A i \in 1 .. 64 : e[i] = s[at + i]
  <2>1. PICK n \in Nat : n = 64
    OBVIOUS
  <2>2. at + n <= Len(s) /\ e = SubSeq(s, at + 1, at + n)
    BY <2>1, Zenon
  <2>3. e \in Seq(Bytes) /\ Len(e) = n /\ \A i \in 1 .. n : e[i] = s[at + i]
    <3>1. PICK t : t = SubSeq(s, at + 1, at + n)
      OBVIOUS
    <3>2. t \in Seq(Bytes) /\ Len(t) = n /\ \A i \in 1 .. n : t[i] = s[at + i]
      BY <2>2, <3>1, SliceIs, SMT
    <3>3. QED BY <2>2, <3>1, <3>2, Zenon
  <2>4. QED BY <2>1, <2>3, Zenon
<1>3. ASSUME NEW q \in Nat, NEW c \in Seq(Bytes), Holds(s, h, at + q, c), q + Len(c) <= 64
      PROVE  Holds(e, -1, q, c)
  <2>1. Len(c) \in Nat
    BY LenProperties
  <2>2. SUFFICES ASSUME NEW k \in 1 .. Len(c) PROVE e[q + k] = c[k]
    BY DEF Holds
  <2>3. q + k \in 1 .. 64 /\ (at + q) + k <= Len(s) /\ (at + q) + k # h + 1
        /\ at + (q + k) = (at + q) + k
    BY <1>1, <1>3, <2>1
  <2>4. s[(at + q) + k] = c[k]
    BY <1>3, <2>3, Zenon DEF Holds
  <2>5. QED BY <1>2, <2>3, <2>4, Zenon
<1>4. QED BY <1>2, <1>3, Zenon DEF EntrySlice

EntryFields(e, f, st) ==
  /\ u16(e, 0) = Len(f.name) /\ u32(e, 4) = st /\ u32(e, 8) = Len(f.data)
  /\ u16(e, 12) = f.mode /\ SubSeq(e, 17, 16 + Len(f.name)) = f.name

LEMMA DecodeFields ==
  ASSUME NEW s \in Seq(Bytes), NEW at \in Nat, at + 64 <= Len(s), NEW h \in Int,
         h \notin at .. at + 63, NEW e, e = SubSeq(s, at + 1, at + 64),
         NEW f \in BuildFiles, NEW st \in Nat, st < (BYTE * BYTE) * (BYTE * BYTE),
         Len(f.data) < (BYTE * BYTE) * (BYTE * BYTE), EntryIn(s, h, at, f, st)
  PROVE  EntryFields(e, f, st)
<1>1. /\ e \in Seq(Bytes) /\ Len(e) = 64
      /\ \A q \in Nat : \A c \in Seq(Bytes) :
           Holds(s, h, at + q, c) /\ q + Len(c) <= 64 => Holds(e, -1, q, c)
  <2>1. EntrySlice(e, s, h, at)
    BY SliceHolds, Zenon
  <2>2. QED BY <2>1, Zenon DEF EntrySlice
<1>2. /\ Len(f.name) \in 1 .. 48 /\ f.name \in Seq(Bytes) /\ Len(f.data) \in Nat
      /\ f.mode \in Nat /\ f.mode < BYTE * BYTE /\ Len(f.name) \in Nat /\ Len(f.name) < BYTE * BYTE
  <2>1. Len(f.name) \in 1 .. 48
    BY FileFields
  <2>2. PICK l \in 1 .. 48, m \in Nat : l = Len(f.name) /\ m = BYTE * BYTE /\ m > 48
    BY <2>1, Sizes
  <2>3. l \in Nat /\ l < m
    <3>1. \A a \in 1 .. 48, b \in Nat : b > 48 => a \in Nat /\ a < b
      OBVIOUS
    <3>2. QED BY <2>2, <3>1, Zenon
  <2>4. QED BY <2>2, <2>3, FileFields, Zenon
<1>3. /\ le16(Len(f.name)) \in Seq(Bytes) /\ Len(le16(Len(f.name))) = 2
      /\ le32(st) \in Seq(Bytes) /\ Len(le32(st)) = 4
      /\ le32(Len(f.data)) \in Seq(Bytes) /\ Len(le32(Len(f.data))) = 4
      /\ le16(f.mode) \in Seq(Bytes) /\ Len(le16(f.mode)) = 2
  <2>1. Len(f.name) \in Int /\ Len(f.data) \in Int /\ f.mode \in Int /\ st \in Int
    BY <1>2
  <2>2. QED BY <2>1, TwoBytes, FourBytes, Zenon
<1>4. /\ Holds(s, h, at + 0, le16(Len(f.name))) /\ Holds(s, h, at + 4, le32(st))
      /\ Holds(s, h, at + 8, le32(Len(f.data))) /\ Holds(s, h, at + 12, le16(f.mode))
      /\ Holds(s, h, at + 16, f.name)
  <2>1. at + 0 = at
    OBVIOUS
  <2>2. QED BY <2>1, Zenon DEF EntryIn
<1>5. /\ 0 + Len(le16(Len(f.name))) <= 64 /\ 4 + Len(le32(st)) <= 64
      /\ 8 + Len(le32(Len(f.data))) <= 64 /\ 12 + Len(le16(f.mode)) <= 64 /\ 16 + Len(f.name) <= 64
      /\ 0 \in Nat /\ 4 \in Nat /\ 8 \in Nat /\ 12 \in Nat /\ 16 \in Nat
  <2>1. 0 + 2 <= 64 /\ 4 + 4 <= 64 /\ 8 + 4 <= 64 /\ 12 + 2 <= 64
        /\ 0 \in Nat /\ 4 \in Nat /\ 8 \in Nat /\ 12 \in Nat /\ 16 \in Nat
    OBVIOUS
  <2>2. 16 + Len(f.name) <= 64
    <3>1. PICK l \in 1 .. 48 : l = Len(f.name)
      BY <1>2, Zenon
    <3>2. 16 + l <= 64
      OBVIOUS
    <3>3. QED BY <3>1, <3>2, Zenon
  <2>3. QED BY <1>3, <2>1, <2>2, Zenon
<1>6. /\ Holds(e, -1, 0, le16(Len(f.name))) /\ Holds(e, -1, 4, le32(st))
      /\ Holds(e, -1, 8, le32(Len(f.data))) /\ Holds(e, -1, 12, le16(f.mode))
      /\ Holds(e, -1, 16, f.name)
  BY <1>1, <1>2, <1>3, <1>4, <1>5, Zenon
<1>7. -1 \in Int /\ 0 + 2 <= Len(e) /\ 4 + 4 <= Len(e) /\ 8 + 4 <= Len(e) /\ 12 + 2 <= Len(e)
      /\ -1 \notin 0 .. 0 + 1 /\ -1 \notin 4 .. 4 + 3 /\ -1 \notin 8 .. 8 + 3 /\ -1 \notin 12 .. 12 + 1
  BY <1>1
<1>8. u16(e, 0) = Len(f.name)
  BY <1>1, <1>2, <1>5, <1>6, <1>7, ReadU16, Zenon
<1>9. u32(e, 4) = st
  BY <1>1, <1>2, <1>5, <1>6, <1>7, ReadU32, Zenon
<1>10. u32(e, 8) = Len(f.data)
  BY <1>1, <1>2, <1>5, <1>6, <1>7, ReadU32, Zenon
<1>11. u16(e, 12) = f.mode
  BY <1>1, <1>2, <1>5, <1>6, <1>7, ReadU16, Zenon
<1>12. SubSeq(e, 17, 16 + Len(f.name)) = f.name
  <2>1. 16 + Len(f.name) <= Len(e)
    BY <1>1, <1>5, Zenon
  <2>2. -1 \notin 16 .. 16 + Len(f.name) - 1 /\ 16 + 1 = 17
    OBVIOUS
  <2>3. SubSeq(e, 16 + 1, 16 + Len(f.name)) = f.name
    <3>1. PICK a \in Nat : a = 16
      OBVIOUS
    <3>2. PICK c \in Seq(Bytes) : c = f.name
      BY <1>2
    <3>3. Holds(e, -1, a, c) /\ a + Len(c) <= Len(e) /\ -1 \notin a .. a + Len(c) - 1
      BY <1>6, <2>1, <2>2, <3>1, <3>2, Zenon
    <3>4. SubSeq(e, a + 1, a + Len(c)) = c
      BY <1>1, <1>7, <3>3, ReadSlice, Zenon
    <3>5. QED BY <3>1, <3>2, <3>4, Zenon
  <2>4. QED BY <2>2, <2>3, Zenon
<1>13. QED BY <1>8, <1>9, <1>10, <1>11, <1>12 DEF EntryFields

LEMMA ReadyFile ==
  ASSUME Lfs1Inv, Ready, Fits, NEW i \in 1 .. Len(files)
  PROVE  /\ starts[i] \in Nat /\ starts[i] < (BYTE * BYTE) * (BYTE * BYTE)
         /\ files[i] \in BuildFiles /\ files[i].data \in Seq(Bytes) /\ Len(files[i].data) \in Nat
         /\ Len(files[i].data) < (BYTE * BYTE) * (BYTE * BYTE)
         /\ starts[i] >= table_end /\ starts[i] + Len(files[i].data) <= cut
         /\ EntryIn(image, hit, HEADER_SIZE + (i - 1) * ENTRY_SIZE, files[i], starts[i])
         /\ Holds(image, hit, starts[i], files[i].data)
         /\ \A j \in 1 .. i : starts[j] + Len(files[j].data) <= starts[i] + Len(files[i].data)
<1>1. TypeOK /\ Len(starts) = Len(files) /\ Written(cut)
  BY DEF Lfs1Inv, Ready
<1>2. i \in 1 .. Len(starts)
  BY <1>1, Zenon
<1>3. EntryHolds(i) /\ Laid(i, cut) /\ Holds(image, hit, starts[i], files[i].data) /\ InOrder
  BY <1>1, <1>2 DEF Written
<1>4. starts[i] \in Nat /\ cut \in Nat /\ table_end \in Nat /\ Len(files) \in Nat
  BY <1>1, <1>2, TableEnd, ElementOfSeq DEF TypeOK
<1>5. files[i] \in BuildFiles
  BY <1>1, EntryPlace
<1>6. files[i].data \in Seq(Bytes) /\ Len(files[i].data) \in Nat
  BY <1>5, FileFields
<1>7. starts[i] >= table_end /\ starts[i] + Len(files[i].data) <= cut
  BY <1>3 DEF Laid
<1>8. PICK m \in Nat : m = (BYTE * BYTE) * (BYTE * BYTE) /\ cut < m
  BY Sizes DEF Fits
<1>9. starts[i] < m /\ Len(files[i].data) < m
  BY <1>4, <1>6, <1>7, <1>8
<1>10. ASSUME NEW j \in 1 .. i
       PROVE  starts[j] + Len(files[j].data) <= starts[i] + Len(files[i].data)
  <2>1. CASE j = i
    BY <1>4, <1>6, <2>1
  <2>2. CASE j # i
    <3>1. j \in 1 .. Len(starts) /\ j < i /\ j \in 1 .. Len(files)
      BY <1>1, <1>4, <2>2
    <3>2. starts[j] + Len(files[j].data) <= starts[i]
      BY <1>2, <1>3, <3>1 DEF InOrder
    <3>3. files[j] \in BuildFiles
      BY <1>1, <3>1, EntryPlace
    <3>4. starts[j] \in Nat /\ Len(files[j].data) \in Nat
      BY <1>1, <3>1, <3>3, FileFields, ElementOfSeq DEF TypeOK
    <3>5. QED BY <1>4, <1>6, <3>2, <3>4
  <2>3. QED BY <2>1, <2>2
<1>11. QED BY <1>3, <1>4, <1>5, <1>6, <1>7, <1>8, <1>9, <1>10 DEF EntryHolds

\* entry_at, from the start of the entry and its bytes.
Decode(start, e) ==
  IF start + 64 > Len(image) THEN Err("OutOfBounds")
  ELSE IF ~name_len_ok(u16(e, 0)) THEN Err("InvalidName")
  ELSE IF 16 + u16(e, 0) > 64 THEN Err("panic")
  ELSE IF ~from_utf8(SubSeq(e, 17, 16 + u16(e, 0))) THEN Err("InvalidName")
  ELSE IF u32(e, 4) + u32(e, 8) > Len(image) THEN Err("OutOfBounds")
  ELSE Result("", SubSeq(e, 17, 16 + u16(e, 0)), u16(e, 12),
              SubSeq(image, u32(e, 4) + 1, u32(e, 4) + u32(e, 8)))

LEMMA EntryAtIs ==
  ASSUME NEW idx
  PROVE  entry_at(idx) = Decode(HEADER_SIZE + idx * ENTRY_SIZE,
                                SubSeq(image, HEADER_SIZE + idx * ENTRY_SIZE + 1,
                                       HEADER_SIZE + idx * ENTRY_SIZE + 64))
BY Zenon DEF entry_at, Decode, ENTRY_SIZE, data_end

\* An entry the damage has missed decodes to its file, if the data are still there.
LEMMA DecodeFile ==
  ASSUME Lfs1Inv, Ready, Fits, NEW i \in 1 .. Len(files), table_end <= Len(image),
         hit \notin 12 + (i - 1) * 64 .. 12 + (i - 1) * 64 + 63
  PROVE  entry_at(i - 1) =
           IF starts[i] + Len(files[i].data) <= Len(image)
           THEN Result("", files[i].name, files[i].mode,
                       SubSeq(image, starts[i] + 1, starts[i] + Len(files[i].data)))
           ELSE Err("OutOfBounds")
<1>1. TypeOK
  BY DEF Lfs1Inv
<1>2. PICK at \in Nat : at = 12 + (i - 1) * 64
  BY <1>1, EntryPlace
<1>3. HEADER_SIZE + (i - 1) * ENTRY_SIZE = at /\ at + 64 <= Len(image) /\ hit \notin at .. at + 63
  <2>1. at + 64 <= table_end /\ HEADER_SIZE + (i - 1) * ENTRY_SIZE = at
    BY <1>1, <1>2, EntryPlace
  <2>2. table_end \in Nat /\ Len(image) \in Nat
    BY <1>1, TableEnd, LenProperties DEF TypeOK
  <2>3. at + 64 <= Len(image)
    BY <2>1, <2>2
  <2>4. QED BY <1>2, <2>1, <2>3, Zenon
<1>4. image \in Seq(Bytes) /\ hit \in Int
  BY <1>1 DEF TypeOK
<1>5. PICK f \in BuildFiles : f = files[i]
  BY ReadyFile
<1>6. PICK st \in Nat : st = starts[i]
  BY ReadyFile
<1>7. PICK e : e = SubSeq(image, at + 1, at + 64)
  OBVIOUS
<1>8. /\ st < (BYTE * BYTE) * (BYTE * BYTE) /\ Len(f.data) < (BYTE * BYTE) * (BYTE * BYTE)
      /\ EntryIn(image, hit, at, f, st)
  BY <1>3, <1>5, <1>6, ReadyFile
<1>9. /\ u16(e, 0) = Len(f.name) /\ u32(e, 4) = st /\ u32(e, 8) = Len(f.data)
      /\ u16(e, 12) = f.mode /\ SubSeq(e, 17, 16 + Len(f.name)) = f.name
  <2>1. EntryFields(e, f, st)
    BY <1>3, <1>4, <1>7, <1>8, DecodeFields, Zenon
  <2>2. QED BY <2>1, Zenon DEF EntryFields
<1>10. name_len_ok(Len(f.name)) /\ ~(16 + Len(f.name) > 64) /\ from_utf8(f.name)
  <2>1. PICK l \in 1 .. 48 : l = Len(f.name)
    BY FileFields
  <2>2. l # 0 /\ l <= 48 /\ ~(16 + l > 64)
    OBVIOUS
  <2>3. QED BY <2>1, <2>2, FileFields, Zenon DEF name_len_ok, NAME_CAP
<1>11. ~(at + 64 > Len(image))
  <2>1. Len(image) \in Nat
    BY <1>4, LenProperties
  <2>2. QED BY <1>3, <2>1
<1>12. entry_at(i - 1) =
         IF at + 64 > Len(image) THEN Err("OutOfBounds")
         ELSE IF ~name_len_ok(u16(e, 0)) THEN Err("InvalidName")
         ELSE IF 16 + u16(e, 0) > 64 THEN Err("panic")
         ELSE IF ~from_utf8(SubSeq(e, 17, 16 + u16(e, 0))) THEN Err("InvalidName")
         ELSE IF u32(e, 4) + u32(e, 8) > Len(image) THEN Err("OutOfBounds")
         ELSE Result("", SubSeq(e, 17, 16 + u16(e, 0)), u16(e, 12),
                     SubSeq(image, u32(e, 4) + 1, u32(e, 4) + u32(e, 8)))
  <2>1. entry_at(i - 1) = Decode(at, e)
    BY <1>3, <1>7, EntryAtIs, Zenon
  <2>2. QED BY <2>1, Zenon DEF Decode
<1>13. entry_at(i - 1) =
         IF st + Len(f.data) > Len(image) THEN Err("OutOfBounds")
         ELSE Result("", f.name, f.mode, SubSeq(image, st + 1, st + Len(f.data)))
  BY <1>9, <1>10, <1>11, <1>12, Zenon
<1>14. st + Len(f.data) > Len(image) <=> ~(st + Len(f.data) <= Len(image))
  <2>1. Len(image) \in Nat /\ Len(f.data) \in Nat
    BY <1>4, LenProperties, FileFields
  <2>2. QED BY <2>1
<1>15. QED BY <1>5, <1>6, <1>13, <1>14, Zenon

\* Data the damage has missed come back as they were.
LEMMA DataBack ==
  ASSUME Lfs1Inv, Ready, Fits, NEW i \in 1 .. Len(files),
         starts[i] + Len(files[i].data) <= Len(image),
         hit \notin starts[i] .. starts[i] + Len(files[i].data) - 1
  PROVE  SubSeq(image, starts[i] + 1, starts[i] + Len(files[i].data)) = files[i].data
<1>1. image \in Seq(Bytes) /\ hit \in Int
  BY DEF Lfs1Inv, TypeOK
<1>2. PICK st \in Nat : st = starts[i]
  BY ReadyFile
<1>3. PICK c \in Seq(Bytes) : c = files[i].data
  BY ReadyFile
<1>4. Holds(image, hit, st, c)
  BY <1>2, <1>3, ReadyFile
<1>5. SubSeq(image, st + 1, st + Len(c)) = c
  BY <1>1, <1>2, <1>3, <1>4, ReadSlice, Zenon
<1>6. QED BY <1>2, <1>3, <1>5, Zenon

LEMMA HeaderRead ==
  ASSUME Lfs1Inv, Ready, Fits, hit \notin 0 .. 11
  PROVE  /\ table_end <= Len(image) => header = Header("", Len(files))
         /\ ~(table_end <= Len(image)) => header.err # ""
<1>1. /\ TypeOK /\ HeaderHolds /\ image \in Seq(Bytes) /\ hit \in Int /\ Len(image) \in Nat
      /\ Len(files) \in Nat /\ Len(files) < BYTE * BYTE /\ table_end \in Nat /\ table_end >= 12
      /\ table_end = 12 + Len(files) * 64
  BY TableEnd, LenProperties DEF Lfs1Inv, TypeOK, Ready, Fits, Written
<1>2. CASE Len(image) < 12
  <2>1. header = Header("TooSmall", 0)
    BY <1>2 DEF header, HEADER_SIZE
  <2>2. header.err = "TooSmall"
    BY <2>1 DEF Header
  <2>3. ~(table_end <= Len(image))
    BY <1>1, <1>2
  <2>4. header.err # ""
    BY <2>2
  <2>5. QED BY <2>3, <2>4, Zenon
<1>3. CASE ~(Len(image) < 12)
  <2>1. SubSeq(image, 1, 4) = MAGIC
    <3>1. MAGIC \in Seq(Bytes) /\ Len(MAGIC) = 4 /\ Holds(image, hit, 0, MAGIC)
      BY <1>1, HeaderBytes DEF HeaderHolds
    <3>2. PICK a \in Nat : a = 0
      OBVIOUS
    <3>3. a + 4 <= Len(image) /\ hit \notin a .. a + 4 - 1 /\ a + 1 = 1 /\ a + 4 = 4
      BY <1>1, <1>3, <3>2
    <3>4. SubSeq(image, a + 1, a + Len(MAGIC)) = MAGIC
      BY <1>1, <3>1, <3>2, <3>3, ReadSlice, Zenon
    <3>5. QED BY <3>1, <3>3, <3>4, Zenon
  <2>2. u16(image, 4) = VERSION
    <3>1. VERSION \in Nat /\ VERSION < BYTE * BYTE
      BY Sizes DEF VERSION
    <3>2. 4 + 2 <= Len(image) /\ hit \notin 4 .. 4 + 1 /\ 4 \in Nat
      BY <1>1, <1>3
    <3>3. Holds(image, hit, 4, le16(VERSION))
      BY <1>1 DEF HeaderHolds
    <3>4. QED BY <1>1, <3>1, <3>2, <3>3, ReadU16, Zenon
  <2>3. u16(image, 6) = Len(files)
    <3>1. 6 + 2 <= Len(image) /\ hit \notin 6 .. 6 + 1 /\ 6 \in Nat
      BY <1>1, <1>3
    <3>2. Holds(image, hit, 6, le16(Len(files)))
      BY <1>1 DEF HeaderHolds
    <3>3. QED BY <1>1, <3>1, <3>2, ReadU16, Zenon
  <2>4. header = IF table_end > Len(image) THEN Header("OutOfBounds", 0) ELSE Header("", Len(files))
    BY <1>3, <2>1, <2>2, <2>3, Zenon DEF header, table_end, HEADER_SIZE
  <2>5. table_end > Len(image) <=> ~(table_end <= Len(image))
    BY <1>1
  <2>6. Header("OutOfBounds", 0).err # ""
    BY DEF Header
  <2>7. ASSUME table_end <= Len(image) PROVE header = Header("", Len(files))
    BY <2>4, <2>5, <2>7, Zenon
  <2>8. ASSUME ~(table_end <= Len(image)) PROVE header.err # ""
    <3>1. header = Header("OutOfBounds", 0)
      BY <2>4, <2>5, <2>8, Zenon
    <3>2. QED BY <2>6, <3>1, Zenon
  <2>9. QED BY <2>7, <2>8, Zenon
<1>4. QED BY <1>2, <1>3

\* The header announces n files.
Announces(n) == header = Header("", n)

\* fs::open returns the first entry that does not decode or has the name.
StopsAt(i, wanted) == entry_at(i).err # "" \/ entry_at(i).name = wanted

LEMMA OpenStops ==
  ASSUME NEW wanted, NEW n \in Nat, Announces(n), NEW k \in 0 .. n - 1, StopsAt(k, wanted)
  PROVE  \E i \in 0 .. k : open(wanted) = entry_at(i) /\ StopsAt(i, wanted)
                           /\ \A j \in 0 .. i - 1 : ~StopsAt(j, wanted)
<1>1. header.err = "" /\ header.file_count = n
  BY DEF Header, Announces
<1>2. Indices = 0 .. n - 1
  BY <1>1 DEF Indices
<1> DEFINE S == Stops(wanted)
<1>3. S = {i \in 0 .. n - 1 : StopsAt(i, wanted)}
  BY <1>2, Zenon DEF Stops, StopsAt
<1>4. open(wanted) = IF S = {} THEN Err("NotFound") ELSE entry_at(First(S))
  BY <1>1, Zenon DEF open
<1> HIDE DEF S
<1>5. S \in SUBSET Nat /\ k \in S
  BY <1>3
<1>6. First(S) \in S /\ \A y \in S : First(S) <= y
  BY <1>5, LeastOf
<1>7. PICK i : i = First(S)
  OBVIOUS
<1>8. i \in S /\ \A y \in S : i <= y
  BY <1>6, <1>7, Zenon
<1>9. i \in 0 .. n - 1 /\ i <= k /\ StopsAt(i, wanted)
  BY <1>3, <1>5, <1>8
<1>10. \A j \in 0 .. i - 1 : ~StopsAt(j, wanted)
  <2>1. ASSUME NEW j \in 0 .. i - 1 PROVE j \notin S /\ j \in 0 .. n - 1
    BY <1>8, <1>9
  <2>2. QED BY <1>3, <2>1, Zenon
<1>11. i \in 0 .. k
  BY <1>9
<1>12. open(wanted) = entry_at(i)
  BY <1>4, <1>5, <1>7, Zenon
<1>13. QED BY <1>9, <1>10, <1>11, <1>12, Zenon

\* It misses a name only when every entry decodes and none has it.
LEMMA OpenMisses ==
  ASSUME NEW wanted, NEW n \in Nat, Announces(n),
         \A j \in 0 .. n - 1 : ~StopsAt(j, wanted)
  PROVE  open(wanted) = Err("NotFound")
<1>1. header.err = "" /\ header.file_count = n
  BY DEF Header, Announces
<1>2. Indices = 0 .. n - 1
  BY <1>1 DEF Indices
<1>3. Stops(wanted) = {}
  BY <1>2, Zenon DEF Stops, StopsAt
<1>4. QED BY <1>1, <1>3, Zenon DEF open

LEMMA Fields ==
  ASSUME NEW e, NEW n, NEW m, NEW d
  PROVE  /\ Result(e, n, m, d).err = e /\ Result(e, n, m, d).name = n
         /\ Err(e).err = e
BY DEF Result, Err

LEMMA FileOfIs ==
  ASSUME TypeOK, NEW n, InFiles(n)
  PROVE  /\ FileOf(n) \in 1 .. Len(files) /\ files[FileOf(n)].name = n
         /\ \A j \in 1 .. Len(files) : files[j].name = n => FileOf(n) <= j
<1> DEFINE S == {i \in DOMAIN files : files[i].name = n}
<1>1. DOMAIN files = 1 .. Len(files) /\ Len(files) \in Nat
  BY TableEnd
<1>2. S \in SUBSET Nat /\ S # {}
  BY <1>1 DEF InFiles
<1>3. FileOf(n) = First(S)
  BY DEF FileOf
<1>4. S = {i \in 1 .. Len(files) : files[i].name = n}
  BY <1>1
<1> HIDE DEF S
<1>5. First(S) \in S /\ \A y \in S : First(S) <= y
  BY <1>2, LeastOf
<1>6. QED BY <1>3, <1>4, <1>5, Zenon

\* Behind entries that decode, open finds the file FileOf names.
NamesFile(j) == entry_at(j - 1).err = "" /\ entry_at(j - 1).name = files[j].name

LEMMA OpenFile ==
  ASSUME TypeOK, NEW n, InFiles(n), Announces(Len(files)),
         \A j \in 1 .. FileOf(n) : NamesFile(j)
  PROVE  open(n) = entry_at(FileOf(n) - 1)
<1>1. PICK k \in 1 .. Len(files) : k = FileOf(n)
  BY FileOfIs
<1>2. Len(files) \in Nat
  BY TableEnd
<1>3. k - 1 \in 0 .. Len(files) - 1 /\ k \in 1 .. k
  BY <1>2
<1>4. StopsAt(k - 1, n)
  BY <1>1, <1>3, FileOfIs, Zenon DEF StopsAt, NamesFile
<1>5. PICK i \in 0 .. k - 1 : open(n) = entry_at(i) /\ StopsAt(i, n)
  BY <1>2, <1>3, <1>4, OpenStops, Zenon
<1>6. i + 1 \in 1 .. k /\ (i + 1) - 1 = i /\ i + 1 \in 1 .. Len(files)
  BY <1>2
<1>7. files[i + 1].name = n
  BY <1>1, <1>5, <1>6, Zenon DEF StopsAt, NamesFile
<1>8. k <= i + 1
  BY <1>1, <1>6, <1>7, FileOfIs, Zenon
<1>9. i = k - 1
  BY <1>2, <1>8
<1>10. QED BY <1>1, <1>5, <1>9, Zenon

LEMMA FoundFile ==
  ASSUME Lfs1Inv, Ready, Fits, NEW i \in 1 .. Len(files), table_end <= Len(image),
         starts[i] + Len(files[i].data) <= Len(image),
         hit \notin 12 + (i - 1) * 64 .. 12 + (i - 1) * 64 + 63
  PROVE  /\ NamesFile(i)
         /\ hit \notin starts[i] .. starts[i] + Len(files[i].data) - 1 => Same(entry_at(i - 1), i)
<1>1. entry_at(i - 1) = Result("", files[i].name, files[i].mode,
                               SubSeq(image, starts[i] + 1, starts[i] + Len(files[i].data)))
  BY DecodeFile, Zenon
<1>2. NamesFile(i)
  <2>1. entry_at(i - 1).err = "" /\ entry_at(i - 1).name = files[i].name
    <3>1. PICK e, nm, m, d : e = "" /\ nm = files[i].name /\ entry_at(i - 1) = Result(e, nm, m, d)
      BY <1>1, Zenon
    <3>2. PICK x : x = entry_at(i - 1)
      OBVIOUS
    <3>3. x = Result(e, nm, m, d)
      BY <3>1, <3>2, Zenon
    <3>4. x.err = e
      BY <3>3 DEF Result
    <3>5. x.name = nm
      BY <3>3 DEF Result
    <3>6. QED BY <3>1, <3>2, <3>4, <3>5, Zenon
  <2>2. QED BY <2>1, Zenon DEF NamesFile
<1>3. ASSUME hit \notin starts[i] .. starts[i] + Len(files[i].data) - 1
      PROVE  Same(entry_at(i - 1), i)
  <2>1. SubSeq(image, starts[i] + 1, starts[i] + Len(files[i].data)) = files[i].data
    BY <1>3, DataBack, Zenon
  <2>2. QED BY <1>1, <2>1, Zenon DEF Same
<1>4. QED BY <1>2, <1>3, Zenon

LEMMA LostFile ==
  ASSUME Lfs1Inv, Ready, Fits, NEW i \in 1 .. Len(files), table_end <= Len(image),
         ~(starts[i] + Len(files[i].data) <= Len(image)),
         hit \notin 12 + (i - 1) * 64 .. 12 + (i - 1) * 64 + 63
  PROVE  entry_at(i - 1).err # ""
<1>1. entry_at(i - 1) = Err("OutOfBounds")
  BY DecodeFile, Zenon
<1>2. entry_at(i - 1).err = "OutOfBounds"
  BY <1>1, Fields, Zenon
<1>3. QED BY <1>2

LEMMA ReadyFacts ==
  ASSUME Lfs1Inv, Ready
  PROVE  /\ TypeOK /\ table_end \in Nat /\ table_end >= 12 /\ Len(files) \in Nat
         /\ Len(image) \in Nat /\ cut \in Nat /\ table_end <= cut /\ hit \in Int
         /\ DOMAIN files = 1 .. Len(files)
<1>1. TypeOK /\ table_end <= cut
  BY DEF Lfs1Inv, Ready
<1>2. QED BY <1>1, TableEnd, LenProperties DEF TypeOK

LEMMA HeaderAnnounces ==
  ASSUME Lfs1Inv, Ready, Fits, hit \notin 0 .. 11
  PROVE  /\ table_end <= Len(image) => Announces(Len(files))
         /\ ~(table_end <= Len(image)) => header.err # ""
BY HeaderRead, Zenon DEF Announces

\* A cut image: the data are all there or the file is not found.
LEMMA CutFile ==
  ASSUME Lfs1Inv, Ready, Fits, hit = -1, NEW n, InFiles(n)
  PROVE  IF starts[FileOf(n)] + Len(files[FileOf(n)].data) <= Len(image)
         THEN Same(open(n), FileOf(n)) ELSE open(n).err # ""
<1>1. /\ TypeOK /\ table_end \in Nat /\ Len(files) \in Nat /\ Len(image) \in Nat
      /\ DOMAIN files = 1 .. Len(files)
  BY ReadyFacts
<1>2. PICK k \in 1 .. Len(files) : k = FileOf(n)
  BY <1>1, FileOfIs
<1>3. hit \notin 0 .. 11 /\ \A j \in 1 .. k :
        hit \notin 12 + (j - 1) * 64 .. 12 + (j - 1) * 64 + 63
  OBVIOUS
<1>4. /\ starts[k] \in Nat /\ Len(files[k].data) \in Nat /\ starts[k] >= table_end
      /\ \A j \in 1 .. k : starts[j] + Len(files[j].data) <= starts[k] + Len(files[k].data)
  BY ReadyFile
<1>5. CASE starts[k] + Len(files[k].data) <= Len(image)
  <2>1. table_end <= Len(image)
    BY <1>1, <1>4, <1>5
  <2>2. ASSUME NEW j \in 1 .. k
        PROVE  j \in 1 .. Len(files) /\ starts[j] + Len(files[j].data) <= Len(image)
    <3>1. j \in 1 .. Len(files)
      BY <1>1
    <3>2. starts[j] \in Nat /\ Len(files[j].data) \in Nat
      BY <3>1, ReadyFile
    <3>3. starts[j] + Len(files[j].data) <= starts[k] + Len(files[k].data)
      BY <1>4
    <3>4. starts[j] + Len(files[j].data) <= Len(image)
      BY <1>1, <1>4, <1>5, <3>2, <3>3
    <3>5. QED BY <3>1, <3>4
  <2>3. \A j \in 1 .. k : NamesFile(j)
    BY <1>3, <2>1, <2>2, FoundFile, Zenon
  <2>4. Announces(Len(files))
    BY <1>3, <2>1, HeaderAnnounces, Zenon
  <2>5. open(n) = entry_at(k - 1)
    BY <1>1, <1>2, <2>3, <2>4, OpenFile, Zenon
  <2>6. k \in 1 .. k /\ hit \notin starts[k] .. starts[k] + Len(files[k].data) - 1
    BY <1>1, <1>4
  <2>7. Same(entry_at(k - 1), k)
    BY <1>3, <1>5, <2>1, <2>6, FoundFile, Zenon
  <2>8. QED BY <1>2, <1>5, <2>5, <2>7, Zenon
<1>6. CASE ~(starts[k] + Len(files[k].data) <= Len(image))
  <2>1. CASE ~(table_end <= Len(image))
    <3>1. header.err # ""
      BY <1>3, <2>1, HeaderAnnounces, Zenon
    <3>2. open(n).err # ""
      BY <3>1, Fields, Zenon DEF open
    <3>3. QED BY <1>2, <1>6, <3>2, Zenon
  <2>2. CASE table_end <= Len(image)
    <3>1. Announces(Len(files))
      BY <1>3, <2>2, HeaderAnnounces, Zenon
    <3>2. k - 1 \in 0 .. Len(files) - 1 /\ k \in 1 .. k
      BY <1>1
    <3>3. StopsAt(k - 1, n)
      BY <1>3, <1>6, <2>2, <3>2, LostFile, Zenon DEF StopsAt
    <3>4. PICK i \in 0 .. k - 1 : open(n) = entry_at(i) /\ StopsAt(i, n)
      BY <1>1, <3>1, <3>2, <3>3, OpenStops, Zenon
    <3>5. i + 1 \in 1 .. k /\ (i + 1) - 1 = i /\ i + 1 \in 1 .. Len(files)
      BY <1>1
    <3>6. CASE starts[i + 1] + Len(files[i + 1].data) <= Len(image)
      <4>1. NamesFile(i + 1)
        BY <1>3, <2>2, <3>5, <3>6, FoundFile, Zenon
      <4>2. files[i + 1].name = n
        BY <3>4, <3>5, <4>1, Zenon DEF NamesFile, StopsAt
      <4>3. k <= i + 1
        BY <1>1, <1>2, <3>5, <4>2, FileOfIs, Zenon
      <4>4. i + 1 = k
        BY <1>1, <3>5, <4>3
      <4>5. QED BY <1>6, <3>6, <4>4, Zenon
    <3>7. CASE ~(starts[i + 1] + Len(files[i + 1].data) <= Len(image))
      <4>1. open(n).err # ""
        BY <1>3, <2>2, <3>4, <3>5, <3>7, LostFile, Zenon
      <4>2. QED BY <1>2, <1>6, <4>1, Zenon
    <3>8. QED BY <3>6, <3>7, Zenon
  <2>3. QED BY <2>1, <2>2, Zenon
<1>7. QED BY <1>5, <1>6, Zenon

\* For every catalog and every cut: a file whose data are all in the image is found with
\* its name, mode and bytes, and any other file is not found.
THEOREM CutImagesAreSafe == Spec => []CutIsAllOrNothing
<1>1. Lfs1Inv => CutIsAllOrNothing
  BY CutFile, Zenon DEF CutIsAllOrNothing
<1>2. QED BY <1>1, ImageInvariant, PTL

\* One wrong byte: whatever is before it in the table, and outside it in the data.
LEMMA DamagedFile ==
  ASSUME Lfs1Inv, Ready, Fits, Len(image) = cut, hit >= 0, NEW n, InFiles(n),
         hit \notin 0 .. 12 + FileOf(n) * 64 - 1,
         hit \notin starts[FileOf(n)] .. starts[FileOf(n)] + Len(files[FileOf(n)].data) - 1
  PROVE  Same(open(n), FileOf(n))
<1>1. /\ TypeOK /\ table_end \in Nat /\ Len(files) \in Nat /\ Len(image) \in Nat /\ hit \in Int
      /\ table_end <= Len(image) /\ DOMAIN files = 1 .. Len(files)
  BY ReadyFacts
<1>2. PICK k \in 1 .. Len(files) : k = FileOf(n)
  BY <1>1, FileOfIs
<1>3. hit \notin 0 .. 12 + k * 64 - 1
      /\ hit \notin starts[k] .. starts[k] + Len(files[k].data) - 1
  BY <1>2, Zenon
<1>4. hit \notin 0 .. 11 /\ k \in 1 .. k
  BY <1>1, <1>3
<1>5. ASSUME NEW j \in 1 .. k
      PROVE  /\ j \in 1 .. Len(files) /\ starts[j] + Len(files[j].data) <= Len(image)
             /\ hit \notin 12 + (j - 1) * 64 .. 12 + (j - 1) * 64 + 63
  <2>1. j \in 1 .. Len(files)
    BY <1>1
  <2>2. starts[j] + Len(files[j].data) <= Len(image)
    BY <2>1, ReadyFile, Zenon
  <2>3. hit >= 12 + k * 64
    BY <1>1, <1>3
  <2>4. hit \notin 12 + (j - 1) * 64 .. 12 + (j - 1) * 64 + 63
    BY <1>1, <2>3
  <2>5. QED BY <2>1, <2>2, <2>4
<1>6. \A j \in 1 .. k : NamesFile(j)
  BY <1>1, <1>5, FoundFile, Zenon
<1>7. Announces(Len(files))
  BY <1>1, <1>4, HeaderAnnounces, Zenon
<1>8. open(n) = entry_at(k - 1)
  BY <1>1, <1>2, <1>6, <1>7, OpenFile, Zenon
<1>9. Same(entry_at(k - 1), k)
  BY <1>1, <1>3, <1>4, <1>5, FoundFile, Zenon
<1>10. QED BY <1>2, <1>8, <1>9, Zenon

\* For every catalog, position and wrong value: a file is found unchanged unless the
\* wrong byte is in the header, in an entry up to its own or in its data.
THEOREM DamageStaysLocal == Spec => []DamageIsContained
<1>1. Lfs1Inv => DamageIsContained
  <2> SUFFICES ASSUME Lfs1Inv, Ready, Fits, Len(image) = cut, hit >= 0, NEW n \in Names, InFiles(n),
                      hit \notin 0 .. 12 + FileOf(n) * 64 - 1,
                      hit \notin starts[FileOf(n)] ..
                                   starts[FileOf(n)] + Len(files[FileOf(n)].data) - 1
               PROVE  Same(open(n), FileOf(n))
    BY Zenon DEF DamageIsContained, HEADER_SIZE, ENTRY_SIZE
  <2>1. QED BY DamagedFile, Zenon
<1>2. QED BY <1>1, ImageInvariant, PTL

LEMMA WholeFiles ==
  ASSUME Lfs1Inv, Whole, NEW i \in 1 .. Len(files)
  PROVE  NamesFile(i) /\ Same(entry_at(i - 1), i)
<1>1. Ready /\ Fits /\ hit = -1 /\ Len(image) = cut
  BY DEF Whole
<1>2. table_end <= Len(image) /\ starts[i] \in Nat /\ Len(files[i].data) \in Nat
      /\ starts[i] + Len(files[i].data) <= Len(image) /\ Len(files) \in Nat
  BY <1>1, ReadyFacts, ReadyFile
<1>3. hit \notin 12 + (i - 1) * 64 .. 12 + (i - 1) * 64 + 63
      /\ hit \notin starts[i] .. starts[i] + Len(files[i].data) - 1
  BY <1>1, <1>2
<1>4. QED BY <1>1, <1>2, <1>3, FoundFile, Zenon

LEMMA WholeHeader ==
  ASSUME Lfs1Inv, Whole
  PROVE  /\ Announces(Len(files)) /\ header.err = "" /\ header.file_count = Len(files)
         /\ Indices = 0 .. Len(files) - 1
<1>1. Ready /\ Fits /\ hit = -1 /\ Len(image) = cut
  BY DEF Whole
<1>2. table_end <= Len(image) /\ hit \notin 0 .. 11
  BY <1>1, ReadyFacts
<1>3. Announces(Len(files))
  BY <1>1, <1>2, HeaderAnnounces, Zenon
<1>4. QED BY <1>3 DEF Announces, Header, Indices

LEMMA WholeRoundTrip ==
  ASSUME Lfs1Inv, Whole
  PROVE  /\ header = Header("", Len(files))
         /\ \A i \in DOMAIN files : Same(entry(i - 1), i)
         /\ \A n \in Names : IF InFiles(n) THEN Same(open(n), FileOf(n)) ELSE open(n) = Err("NotFound")
         /\ list = [i \in DOMAIN files |-> files[i].name]
<1>1. Ready /\ Fits /\ hit = -1 /\ Len(image) = cut
  BY DEF Whole
<1>2. TypeOK /\ Len(files) \in Nat /\ DOMAIN files = 1 .. Len(files)
  BY <1>1, ReadyFacts
<1>3. header = Header("", Len(files))
  BY WholeHeader DEF Announces
<1>4. ASSUME NEW i \in DOMAIN files PROVE Same(entry(i - 1), i)
  <2>1. i \in 1 .. Len(files)
    BY <1>2
  <2>2. ~(i - 1 >= Len(files))
    BY <1>2, <2>1
  <2>3. entry(i - 1) = entry_at(i - 1)
    BY <2>2, WholeHeader, Zenon DEF entry
  <2>4. QED BY <2>1, <2>3, WholeFiles, Zenon
<1>5. ASSUME NEW n, InFiles(n) PROVE Same(open(n), FileOf(n))
  <2>1. FileOf(n) \in 1 .. Len(files)
    BY <1>2, <1>5, FileOfIs
  <2>2. starts[FileOf(n)] + Len(files[FileOf(n)].data) <= Len(image)
    BY <1>1, <2>1, ReadyFile, Zenon
  <2>3. QED BY <1>1, <1>5, <2>2, CutFile, Zenon
<1>6. ASSUME NEW n, ~InFiles(n) PROVE open(n) = Err("NotFound")
  <2>1. ASSUME NEW j \in 0 .. Len(files) - 1 PROVE ~StopsAt(j, n)
    <3>1. j + 1 \in 1 .. Len(files) /\ (j + 1) - 1 = j
      BY <1>2
    <3>2. NamesFile(j + 1)
      BY <3>1, WholeFiles, Zenon
    <3>3. files[j + 1].name # n
      BY <1>2, <1>6, <3>1, Zenon DEF InFiles
    <3>4. QED BY <3>1, <3>2, <3>3, Zenon DEF NamesFile, StopsAt
  <2>2. QED BY <1>2, <2>1, WholeHeader, OpenMisses, Zenon
<1>7. list = [i \in DOMAIN files |-> files[i].name]
  <2>1. {i \in Indices : entry_at(i).err # ""} = {}
    <3>1. ASSUME NEW j \in Indices PROVE entry_at(j).err = ""
      <4>1. j \in 0 .. Len(files) - 1
        BY WholeHeader, Zenon
      <4>2. j + 1 \in 1 .. Len(files) /\ (j + 1) - 1 = j
        BY <1>2, <4>1
      <4>3. NamesFile(j + 1)
        BY <4>2, WholeFiles, Zenon
      <4>4. QED BY <4>2, <4>3, Zenon DEF NamesFile
    <3>2. QED BY <3>1, Zenon
  <2>2. list = [k \in 1 .. Len(files) |-> entry_at(k - 1).name]
    BY <2>1, WholeHeader, Zenon DEF list
  <2>3. \A k \in 1 .. Len(files) : entry_at(k - 1).name = files[k].name
    BY WholeFiles, Zenon DEF NamesFile
  <2>4. QED BY <1>2, <2>2, <2>3, Zenon
<1>8. QED BY <1>3, <1>4, <1>5, <1>6, <1>7, Zenon

\* For every catalog: what build_lfs1 has written, fs.rs reads back, every file and
\* nothing else.
THEOREM ImageRoundTrip == Spec => []RoundTrip
<1>1. Lfs1Inv => RoundTrip
  BY WholeRoundTrip, Zenon DEF RoundTrip
<1>2. QED BY <1>1, ImageInvariant, PTL
-----------------------------------------------------------------------------
(* The decoded table, whatever the bytes are *)

LEMMA U16Nat ==
  ASSUME NEW s \in Seq(Bytes), NEW at \in Nat, at + 2 <= Len(s)
  PROVE  u16(s, at) \in Nat
<1>1. Len(s) \in Nat
  BY LenProperties
<1>2. at + 1 \in 1 .. Len(s) /\ at + 2 \in 1 .. Len(s)
  BY <1>1
<1>3. s[at + 1] \in Bytes /\ s[at + 2] \in Bytes
  BY <1>2, ElementOfSeq
<1>4. PICK a \in Nat, b \in Nat : a = s[at + 1] /\ b = s[at + 2]
  BY <1>3 DEF Bytes
<1>5. PICK B \in Nat : B = BYTE
  BY Sizes
<1>6. b * B \in Nat
  OBVIOUS
<1>7. a + b * B \in Nat
  BY <1>6
<1>8. QED BY <1>4, <1>5, <1>7, Zenon DEF u16

\* The header is refused, with no files, or it announces some number of them.
Refused == header.err \in {"TooSmall", "BadMagic", "BadVersion", "OutOfBounds"} /\ header.file_count = 0

LEMMA HeaderShape ==
  ASSUME TypeOK
  PROVE  Refused \/ \E n \in Nat : Announces(n)
<1>1. image \in Seq(Bytes) /\ Len(image) \in Nat
  BY LenProperties DEF TypeOK
<1>2. ASSUME NEW e \in {"TooSmall", "BadMagic", "BadVersion", "OutOfBounds"}, header = Header(e, 0)
      PROVE  Refused
  BY <1>2 DEF Header, Refused
<1>3. CASE Len(image) < HEADER_SIZE
  BY <1>2, <1>3, Zenon DEF header
<1>4. CASE ~(Len(image) < HEADER_SIZE)
  <2>1. 6 + 2 <= Len(image) /\ 6 \in Nat
    BY <1>1, <1>4 DEF HEADER_SIZE
  <2>2. u16(image, 6) \in Nat
    BY <1>1, <2>1, U16Nat, Zenon
  <2>3. \/ header = Header("BadMagic", 0) \/ header = Header("BadVersion", 0)
        \/ header = Header("OutOfBounds", 0) \/ header = Header("", u16(image, 6))
    BY <1>4, Zenon DEF header
  <2>4. QED BY <1>2, <2>2, <2>3, Zenon DEF Announces
<1>5. QED BY <1>3, <1>4

\* fs::entry_at never slices outside an entry: the length of a name is checked first.
LEMMA EntryNeverPanics ==
  ASSUME TypeOK, NEW idx \in Nat
  PROVE  entry_at(idx).err # "panic"
<1>1. image \in Seq(Bytes) /\ Len(image) \in Nat
  BY LenProperties DEF TypeOK
<1>2. PICK at \in Nat : at = HEADER_SIZE + idx * ENTRY_SIZE
  BY DEF HEADER_SIZE, ENTRY_SIZE
<1>3. PICK e : e = SubSeq(image, at + 1, at + 64)
  OBVIOUS
<1>4. entry_at(idx) = Decode(at, e)
  BY <1>2, <1>3, EntryAtIs, Zenon
<1>5. ASSUME NEW x \in {"OutOfBounds", "InvalidName"} PROVE Err(x).err # "panic"
  <2>1. Err(x).err = x
    BY Fields, Zenon
  <2>2. x # "panic"
    OBVIOUS
  <2>3. QED BY <2>1, <2>2, Zenon
<1>6. CASE at + 64 > Len(image)
  BY <1>4, <1>5, <1>6, Zenon DEF Decode
<1>7. CASE ~(at + 64 > Len(image))
  <2>1. PICK n \in Nat : n = 64
    OBVIOUS
  <2>2. at + n <= Len(image)
    BY <1>1, <1>7, <2>1
  <2>3. SubSeq(image, at + 1, at + n) \in Seq(Bytes) /\ Len(SubSeq(image, at + 1, at + n)) = n
    BY <1>1, <2>2, SliceIs, Zenon
  <2>4. e \in Seq(Bytes) /\ Len(e) = 64
    BY <1>3, <2>1, <2>3, Zenon
  <2>5. 0 + 2 <= Len(e) /\ 0 \in Nat
    BY <2>4
  <2>6. u16(e, 0) \in Nat
    BY <2>4, <2>5, U16Nat, Zenon
  <2>7. name_len_ok(u16(e, 0)) => ~(16 + u16(e, 0) > 64)
    <3>1. PICK l \in Nat : l = u16(e, 0)
      BY <2>6
    <3>2. l <= 48 => ~(16 + l > 64)
      OBVIOUS
    <3>3. QED BY <3>1, <3>2, Zenon DEF name_len_ok, NAME_CAP
  <2>8. \/ entry_at(idx) = Err("InvalidName") \/ entry_at(idx) = Err("OutOfBounds")
        \/ \E a, b, c : entry_at(idx) = Result("", a, b, c)
    BY <1>4, <1>7, <2>7, Zenon DEF Decode
  <2>9. ASSUME NEW a, NEW b, NEW c PROVE Result("", a, b, c).err # "panic"
    <3>1. Result("", a, b, c).err = ""
      BY Zenon DEF Result
    <3>2. "" # "panic"
      BY Zenon
    <3>3. QED BY <3>1, <3>2, Zenon
  <2>10. QED BY <1>5, <2>8, <2>9, Zenon
<1>8. QED BY <1>6, <1>7

LEMMA NoPanic ==
  ASSUME TypeOK, NEW i \in Nat
  PROVE  entry(i).err # "panic"
<1>1. entry_at(i).err # "panic"
  BY EntryNeverPanics
<1>2. header.err # "panic"
  <2>1. CASE Refused
    BY <2>1 DEF Refused
  <2>2. ASSUME NEW n \in Nat, Announces(n) PROVE header.err # "panic"
    <3>1. header.err = ""
      BY <2>2 DEF Announces, Header
    <3>2. "" # "panic"
      BY Zenon
    <3>3. QED BY <3>1, <3>2, Zenon
  <2>3. QED BY <2>1, <2>2, HeaderShape, Zenon
<1>3. Err(header.err).err = header.err /\ Err("NotFound").err = "NotFound"
  BY Fields, Zenon
<1>4. "NotFound" # "panic"
  OBVIOUS
<1>5. QED BY <1>1, <1>2, <1>3, <1>4, Zenon DEF entry

\* The entry of index i decodes.
DecodesAt(i) == entry_at(i).err = ""

\* RootFs's table is the decoded one.
LEMMA TableIs ==
  ASSUME NEW n \in Nat, header.file_count = n
  PROVE  /\ DOMAIN Decoded = 1 .. n /\ R!file_count = n
         /\ \A i \in 1 .. n : /\ Decoded[i].ok <=> DecodesAt(i - 1)
                              /\ Decoded[i].name = entry_at(i - 1).name
<1>1. Decoded = [i \in 1 .. n |->
                   [name |-> entry_at(i - 1).name, nlen |-> Len(entry_at(i - 1).name),
                    len |-> Len(entry_at(i - 1).data), ok |-> DecodesAt(i - 1)]]
  BY Zenon DEF Decoded, DecodesAt
<1>2. DOMAIN Decoded = 1 .. n
  BY <1>1
<1>3. Len(Decoded) = n
  BY <1>1
<1>4. ASSUME NEW i \in 1 .. n
      PROVE  (Decoded[i].ok <=> DecodesAt(i - 1)) /\ Decoded[i].name = entry_at(i - 1).name
  <2>1. PICK a, b, c, o : /\ a = entry_at(i - 1).name /\ b = Len(entry_at(i - 1).name)
                          /\ c = Len(entry_at(i - 1).data) /\ o = DecodesAt(i - 1)
    OBVIOUS
  <2>2. Decoded[i] = [name |-> a, nlen |-> b, len |-> c, ok |-> o]
    BY <1>1, <2>1, Zenon
  <2>3. Decoded[i].ok = o /\ Decoded[i].name = a
    BY <2>2
  <2>4. QED BY <2>1, <2>3, Zenon
<1>5. QED BY <1>2, <1>3, <1>4 DEF R!file_count

LEMMA ReachableIs ==
  ASSUME NEW n \in Nat, header.file_count = n, NEW i \in 1 .. n
  PROVE  R!reachable(i) <=> \A j \in 0 .. i - 1 : DecodesAt(j)
<1>1. \A j \in 1 .. i : R!entry_ok(j) <=> DecodesAt(j - 1)
  <2>1. \A j \in 1 .. i : j \in 1 .. n
    OBVIOUS
  <2>2. QED BY <2>1, TableIs, Zenon DEF R!entry_ok
<1>2. R!reachable(i) <=> \A j \in 1 .. i : DecodesAt(j - 1)
  BY <1>1, Zenon DEF R!reachable
<1>3. ASSUME \A j \in 1 .. i : DecodesAt(j - 1), NEW j \in 0 .. i - 1 PROVE DecodesAt(j)
  <2>1. j + 1 \in 1 .. i /\ (j + 1) - 1 = j
    OBVIOUS
  <2>2. QED BY <1>3, <2>1, Zenon
<1>4. ASSUME \A j \in 0 .. i - 1 : DecodesAt(j), NEW j \in 1 .. i PROVE DecodesAt(j - 1)
  <2>1. j - 1 \in 0 .. i - 1
    OBVIOUS
  <2>2. QED BY <1>4, <2>1, Zenon
<1>5. QED BY <1>2, <1>3, <1>4, Zenon

LEMMA HitsAre ==
  ASSUME NEW n \in Nat, header.file_count = n, NEW w, NEW i
  PROVE  i \in R!hits(w) <=> /\ i \in 1 .. n /\ entry_at(i - 1).name = w
                             /\ \A j \in 0 .. i - 1 : DecodesAt(j)
<1>1. R!hits(w) = {k \in 1 .. n : R!reachable(k) /\ Decoded[k].name = w}
  BY TableIs, Zenon DEF R!hits
<1>2. QED BY <1>1, TableIs, ReachableIs, Zenon

\* A search of the bytes that succeeds stops where RootFs's does.
LEMMA OpenAgrees ==
  ASSUME NEW n \in Nat, Announces(n), NEW w,
         NEW k \in 0 .. n - 1, open(w) = entry_at(k), StopsAt(k, w), DecodesAt(k),
         \A j \in 0 .. k - 1 : ~StopsAt(j, w)
  PROVE  R!open(w, k + 1)
<1>1. header.file_count = n
  BY DEF Announces, Header
<1>2. \A j \in 0 .. k - 1 : DecodesAt(j)
  BY Zenon DEF StopsAt, DecodesAt
<1>3. entry_at(k).name = w
  BY Zenon DEF StopsAt, DecodesAt
<1>4. k + 1 \in 1 .. n /\ (k + 1) - 1 = k /\ \A j \in 0 .. k : j \in 0 .. k - 1 \/ j = k
  OBVIOUS
<1>5. k + 1 \in R!hits(w)
  BY <1>1, <1>2, <1>3, <1>4, HitsAre, Zenon
<1>6. ASSUME NEW j \in R!hits(w) PROVE k + 1 <= j
  <2>1. j \in 1 .. n /\ entry_at(j - 1).name = w
    BY <1>1, <1>6, HitsAre, Zenon
  <2>2. StopsAt(j - 1, w)
    BY <2>1, Zenon DEF StopsAt
  <2>3. ~(j - 1 \in 0 .. k - 1)
    BY <2>2, Zenon
  <2>4. QED BY <2>1, <2>3
<1>7. QED BY <1>5, <1>6, Zenon DEF R!open

\* One that fails has met an entry that does not decode, or nothing.
LEMMA OpenRefuses ==
  ASSUME NEW n \in Nat, Announces(n), NEW w, NEW i, R!open(w, i)
  PROVE  open(w).err = ""
<1>1. header.file_count = n
  BY DEF Announces, Header
<1>2. i \in 1 .. n /\ entry_at(i - 1).name = w /\ \A j \in 0 .. i - 1 : DecodesAt(j)
  BY <1>1, HitsAre, Zenon DEF R!open
<1>3. i - 1 \in 0 .. n - 1
  BY <1>2
<1>4. StopsAt(i - 1, w)
  BY <1>2, Zenon DEF StopsAt
<1>5. PICK k \in 0 .. i - 1 : open(w) = entry_at(k)
  BY <1>3, <1>4, OpenStops, Zenon
<1>6. DecodesAt(k)
  BY <1>2, <1>5, Zenon
<1>7. QED BY <1>5, <1>6, Zenon DEF DecodesAt

\* fs::open and RootFs!open find the same entry, or neither finds one.
SameSearch(w) ==
  IF open(w).err = "" THEN \E i \in DOMAIN Decoded : R!open(w, i) /\ entry_at(i - 1) = open(w)
  ELSE \A i \in DOMAIN Decoded : ~R!open(w, i)

LEMMA SearchesAgree ==
  ASSUME NEW n \in Nat, Announces(n), NEW w
  PROVE  SameSearch(w)
<1>1. header.file_count = n
  BY DEF Announces, Header
<1>2. CASE open(w).err = ""
  <2>1. \E i \in 0 .. n - 1 : StopsAt(i, w)
    <3>1. SUFFICES ASSUME \A i \in 0 .. n - 1 : ~StopsAt(i, w) PROVE FALSE
      BY Zenon
    <3>2. open(w) = Err("NotFound")
      BY <3>1, OpenMisses, Zenon
    <3>3. Err("NotFound").err = "NotFound"
      BY Fields, Zenon
    <3>4. "NotFound" # ""
      BY Zenon
    <3>5. QED BY <1>2, <3>2, <3>3, <3>4, Zenon
  <2>2. PICK i \in 0 .. n - 1 : StopsAt(i, w)
    BY <2>1
  <2>3. PICK k \in 0 .. i : /\ open(w) = entry_at(k) /\ StopsAt(k, w)
                            /\ \A j \in 0 .. k - 1 : ~StopsAt(j, w)
    BY <2>2, OpenStops, Zenon
  <2>4. k \in 0 .. n - 1 /\ k + 1 \in 1 .. n /\ (k + 1) - 1 = k
    BY <2>2
  <2>5. DecodesAt(k)
    BY <1>2, <2>3, Zenon DEF DecodesAt
  <2>6. R!open(w, k + 1)
    BY <2>3, <2>4, <2>5, OpenAgrees, Zenon
  <2>7. k + 1 \in DOMAIN Decoded
    BY <1>1, <2>4, TableIs, Zenon
  <2>8. entry_at((k + 1) - 1) = open(w)
    BY <2>3, <2>4, Zenon
  <2>9. QED BY <1>2, <2>6, <2>7, <2>8, Zenon DEF SameSearch
<1>3. CASE ~(open(w).err = "")
  BY <1>3, OpenRefuses, Zenon DEF SameSearch
<1>4. QED BY <1>2, <1>3

\* fs::list shows the entries before the first that does not decode.
LEMMA ListShows ==
  ASSUME NEW n \in Nat, Announces(n), NEW i \in 1 .. n
  PROVE  R!reachable(i) <=> i \in DOMAIN list
<1>1. header.file_count = n /\ header.err = ""
  BY DEF Announces, Header
<1>2. Indices = 0 .. n - 1
  BY <1>1, Zenon DEF Indices
<1>3. PICK bad : bad = {j \in Indices : entry_at(j).err # ""}
  OBVIOUS
<1>4. \A j \in 0 .. n - 1 : j \in bad <=> ~DecodesAt(j)
  BY <1>2, <1>3, Zenon DEF DecodesAt
<1>5. \A j \in bad : j \in 0 .. n - 1
  BY <1>2, <1>3, Zenon
<1>6. PICK m : m = IF bad = {} THEN n ELSE First(bad)
  OBVIOUS
<1>7. list = [k \in 1 .. m |-> entry_at(k - 1).name]
  BY <1>1, <1>3, <1>6, Zenon DEF list
<1>8. DOMAIN list = 1 .. m
  BY <1>7
<1>9. R!reachable(i) <=> \A j \in 0 .. i - 1 : DecodesAt(j)
  BY <1>1, ReachableIs, Zenon
<1>10. \A j \in 0 .. i - 1 : j \in 0 .. n - 1
  OBVIOUS
<1>11. CASE bad = {}
  <2>1. i \in DOMAIN list
    BY <1>6, <1>8, <1>11, Zenon
  <2>2. QED BY <1>4, <1>9, <1>10, <1>11, <2>1, Zenon
<1>12. CASE bad # {}
  <2>1. bad \in SUBSET Nat
    BY <1>5
  <2>2. m = First(bad)
    BY <1>6, <1>12, Zenon
  <2>3. m \in bad /\ \A y \in bad : m <= y
    BY <1>12, <2>1, <2>2, LeastOf, Zenon
  <2>4. m \in 0 .. n - 1 /\ ~DecodesAt(m)
    BY <1>4, <1>5, <2>3, Zenon
  <2>5. CASE i <= m
    <3>1. \A j \in 0 .. i - 1 : ~(m <= j)
      BY <2>4, <2>5
    <3>2. \A j \in 0 .. i - 1 : DecodesAt(j)
      BY <1>4, <1>10, <2>3, <3>1, Zenon
    <3>3. i \in 1 .. m
      BY <2>4, <2>5
    <3>4. QED BY <1>8, <1>9, <3>2, <3>3, Zenon
  <2>6. CASE ~(i <= m)
    <3>1. m \in 0 .. i - 1 /\ ~(i \in 1 .. m)
      BY <2>4, <2>6
    <3>2. QED BY <1>8, <1>9, <2>4, <3>1, Zenon
  <2>7. QED BY <2>5, <2>6
<1>13. QED BY <1>11, <1>12

\* Whatever the bytes of the image are, the readers of fs.rs do what RootFs says of
\* the table they decode.
LEMMA ReadersFollowRootFs ==
  ASSUME TypeOK
  PROVE  /\ \A w : SameSearch(w)
         /\ header.err = "" => \A i \in DOMAIN Decoded : R!reachable(i) <=> i \in DOMAIN list
<1>1. CASE Refused
  <2>1. header.file_count = 0 /\ header.err # ""
    <3>1. header.err \in {"TooSmall", "BadMagic", "BadVersion", "OutOfBounds"}
      BY <1>1, Zenon DEF Refused
    <3>2. \A x \in {"TooSmall", "BadMagic", "BadVersion", "OutOfBounds"} : x # ""
      BY Zenon
    <3>3. QED BY <1>1, <3>1, <3>2, Zenon DEF Refused
  <2>2. PICK n \in Nat : n = 0
    OBVIOUS
  <2>3. DOMAIN Decoded = 1 .. n
    BY <2>1, <2>2, TableIs, Zenon
  <2>4. \A i \in 1 .. n : FALSE
    BY <2>2
  <2>5. \A w : open(w).err # ""
    <3>1. \A w : open(w) = Err(header.err)
      BY <2>1, Zenon DEF open
    <3>2. Err(header.err).err = header.err
      BY Fields, Zenon
    <3>3. QED BY <2>1, <3>1, <3>2, Zenon
  <2>6. QED BY <2>1, <2>3, <2>4, <2>5, Zenon DEF SameSearch
<1>2. ASSUME NEW n \in Nat, Announces(n)
      PROVE  /\ \A w : SameSearch(w)
             /\ \A i \in DOMAIN Decoded : R!reachable(i) <=> i \in DOMAIN list
  <2>1. DOMAIN Decoded = 1 .. n
    <3>1. header.file_count = n
      BY <1>2 DEF Announces, Header
    <3>2. QED BY <3>1, TableIs, Zenon
  <2>2. QED BY <1>2, <2>1, SearchesAgree, ListShows, Zenon
<1>3. QED BY <1>1, <1>2, HeaderShape, Zenon

\* Whatever was cut off the image or damaged in it, no reader of fs.rs slices outside
\* its bytes, fs::open finds what RootFs!open finds in the decoded table, and fs::list
\* shows exactly the entries RootFs calls reachable.
THEOREM ReadersImplementRootFs == Spec => []ImplementsRootFs
<1>1. Lfs1Inv => ImplementsRootFs
  <2>1. SUFFICES ASSUME Lfs1Inv PROVE ImplementsRootFs
    OBVIOUS
  <2>2. TypeOK
    BY <2>1, Zenon DEF Lfs1Inv
  <2>3. \A i \in 0 .. Len(files) + 1 : entry(i).err # "panic"
    <3>1. Len(files) \in Nat
      BY <2>2, LenProperties DEF TypeOK
    <3>2. \A i \in 0 .. Len(files) + 1 : i \in Nat
      BY <3>1
    <3>3. QED BY <2>2, <3>2, NoPanic, Zenon
  <2>4. QED BY <2>2, <2>3, ReadersFollowRootFs, Zenon DEF ImplementsRootFs, SameSearch
<1>2. QED BY <1>1, ImageInvariant, PTL
=============================================================================
