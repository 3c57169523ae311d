---------------------------- MODULE LoaderProofs -----------------------------
(***************************************************************************)
(* Loading a program, for every file, every size and address, every list   *)
(* of arguments and every page table: where the parser reads, what the     *)
(* initial stack holds, which pages become executable, and how it ends.    *)
(***************************************************************************)
EXTENDS Loader, SequenceTheorems, FiniteSetTheorems, WellFoundedInduction, TLAPS

(* Numbers *)

LEMMA Sizes ==
  /\ ADDR_MAX \in Nat /\ EHDR \in Nat /\ PHDR \in Nat /\ HeapBase \in Nat /\ MAX_SEGMENTS \in Nat
  /\ WORD \in Nat \ {0} /\ ALIGN \in Nat \ {0} /\ PAGE \in Nat \ {0}
  /\ \A r \in Runners : /\ STACK_SIZE[r] \in Nat /\ MAX_MEM[r] \in Nat /\ STACK_SIZE[r] >= ALIGN
                        /\ HeapBase + MAX_MEM[r] + STACK_SIZE[r] <= ADDR_MAX
BY LoaderAssumption

LEMMA Quotient ==
  ASSUME NEW q \in Int, NEW n \in Nat \ {0}, NEW r \in 0 .. n - 1
  PROVE  (q * n + r) \div n = q /\ (q * n + r) % n = r
<1>1. (q * n + r) \div n = q
  OBVIOUS
<1>2. (q * n + r) % n = r
  OBVIOUS
<1>3. QED BY <1>1, <1>2

LEMMA QuotientMonotonic ==
  ASSUME NEW a \in Int, NEW b \in Int, NEW n \in Nat \ {0}, a <= b
  PROVE  a \div n <= b \div n
OBVIOUS

LEMMA Division ==
  ASSUME NEW a \in Int, NEW n \in Nat \ {0}
  PROVE  /\ a \div n \in Int /\ a % n \in 0 .. n - 1
         /\ a = (a \div n) * n + (a % n)
OBVIOUS

LEMMA AlignedDown ==
  ASSUME NEW a \in Int
  PROVE  aligned(a) \in Int /\ aligned(a) <= a
<1>1. a % ALIGN \in 0 .. ALIGN - 1
  BY Sizes, Division
<1>2. QED BY <1>1, Sizes DEF aligned

\* A set of natural numbers has a least element.
LEMMA LeastOf ==
  ASSUME NEW S \in SUBSET Nat, S # {}
  PROVE  Min(S) \in S /\ \A y \in S : Min(S) <= y
<1>1. PICK x \in S : \A y \in S : ~(<<y, x>> \in OpToRel(<, Nat))
  BY NatLessThanWellFounded, WFMin, Zenon
<1>2. \A y \in S : x <= y
  <2>1. ASSUME NEW y \in S, y < x PROVE FALSE
    <3>1. y \in Nat /\ x \in Nat /\ ~(<<y, x>> \in OpToRel(<, Nat))
      BY <1>1
    <3>2. <<y, x>> \in OpToRel(<, Nat)
      BY <2>1, <3>1 DEF OpToRel
    <3>3. QED BY <3>1, <3>2
  <2>2. QED BY <2>1
<1>3. QED BY <1>2 DEF Min

\* A bounded one has a greatest.
LEMMA GreatestOf ==
  ASSUME NEW b \in Nat, NEW S \in SUBSET (0 .. b), S # {}
  PROVE  Max(S) \in S /\ \A y \in S : y <= Max(S)
<1> DEFINE T == {b - x : x \in S}
<1>0. ASSUME NEW x \in S PROVE b - x \in Nat
  <2>1. x \in 0 .. b
    OBVIOUS
  <2>2. QED BY <2>1
<1>1. T \in SUBSET Nat /\ T # {}
  BY <1>0
<1>2. Min(T) \in T /\ \A y \in T : Min(T) <= y
  BY <1>1, LeastOf
<1>3. PICK x \in S : Min(T) = b - x
  BY <1>2
<1>4. \A y \in S : y <= x
  <2>1. ASSUME NEW y \in S PROVE y <= x
    <3>1. b - y \in T /\ x \in Int /\ y \in Int
      OBVIOUS
    <3>2. b - x <= b - y
      BY <1>2, <1>3, <3>1
    <3>3. QED BY <3>1, <3>2
  <2>2. QED BY <2>1
<1>5. QED BY <1>4 DEF Max

LEMMA SaturatingAdd ==
  ASSUME NEW a \in Nat, NEW b \in Nat
  PROVE  /\ saturating_add(a, b) \in 0 .. ADDR_MAX
         /\ a + b <= ADDR_MAX => saturating_add(a, b) = a + b
<1>1. {a + b, ADDR_MAX} \in SUBSET Nat /\ {a + b, ADDR_MAX} # {}
  BY Sizes
<1>2. /\ Min({a + b, ADDR_MAX}) \in {a + b, ADDR_MAX}
      /\ \A y \in {a + b, ADDR_MAX} : Min({a + b, ADDR_MAX}) <= y
  BY <1>1, LeastOf
<1>3. QED BY <1>2, Sizes DEF saturating_add

\* What the scan computes.
LEMMA Extent ==
  ASSUME NEW segs \in Seq(Phdrs), segs # <<>>
  PROVE  /\ min_of(segs) \in 0 .. ADDR_MAX /\ max_of(segs) \in 0 .. ADDR_MAX
         /\ \A i \in DOMAIN segs :
              /\ min_of(segs) <= segs[i].vaddr
              /\ saturating_add(segs[i].vaddr, segs[i].mem_size) <= max_of(segs)
<1> DEFINE V == {segs[i].vaddr : i \in DOMAIN segs}
           E == {saturating_add(segs[i].vaddr, segs[i].mem_size) : i \in DOMAIN segs}
<1>1. 1 \in DOMAIN segs
  BY LenProperties, EmptySeq
<1>2. ASSUME NEW i \in DOMAIN segs
      PROVE  /\ segs[i].vaddr \in 0 .. ADDR_MAX
             /\ saturating_add(segs[i].vaddr, segs[i].mem_size) \in 0 .. ADDR_MAX
  <2>1. segs[i] \in Phdrs
    BY ElementOfSeq, LenProperties
  <2>2. segs[i].vaddr \in 0 .. ADDR_MAX /\ segs[i].mem_size \in 0 .. ADDR_MAX
    BY <2>1 DEF Phdrs
  <2>3. segs[i].vaddr \in Nat /\ segs[i].mem_size \in Nat
    BY <2>2, Sizes
  <2>4. QED BY <2>2, <2>3, SaturatingAdd, Zenon
<1>3. V \in SUBSET (0 .. ADDR_MAX) /\ V \in SUBSET Nat /\ E \in SUBSET (0 .. ADDR_MAX)
  BY <1>2
<1>4. V # {} /\ E # {}
  BY <1>1
<1>5. Min(V) \in V /\ \A y \in V : Min(V) <= y
  BY <1>3, <1>4, LeastOf
<1>6. Max(E) \in E /\ \A y \in E : y <= Max(E)
  BY <1>3, <1>4, GreatestOf, Sizes
<1>7. min_of(segs) = Min(V) /\ max_of(segs) = Max(E)
  BY <1>4 DEF min_of, max_of, Lowest, Highest
<1>8. QED BY <1>3, <1>5, <1>6, <1>7

LEMMA MemLen ==
  ASSUME MemoryShape, runner \in Runners
  PROVE  /\ mem_len = span + STACK_SIZE[runner] /\ mem_len \in Nat \ {0}
         /\ DOMAIN mem = 0 .. mem_len - 1 /\ STACK_SIZE[runner] \in Nat
<1>1. PICK n : n = span + STACK_SIZE[runner]
  OBVIOUS
<1>2. n \in Nat \ {0} /\ DOMAIN mem = 0 .. n - 1 /\ STACK_SIZE[runner] \in Nat
  BY <1>1, Sizes DEF MemoryShape
<1>3. Cardinality(0 .. n - 1) = n
  BY <1>2, FS_Interval
<1>4. mem_len = n
  BY <1>2, <1>3 DEF mem_len
<1>5. QED BY <1>1, <1>2, <1>4
-----------------------------------------------------------------------------
(* Strings and words on the stack *)

\* A write below the stack pointer leaves the strings that were pushed alone.
LEMMA PushedKept ==
  ASSUME NEW list, NEW strings, NEW ptrs, NEW k
  PROVE  /\ Pushed(list, strings, ptrs, k) /\ strings \in Seq(Nat) /\ k \in 0 .. Len(strings)
         /\ base \in Int /\ sp \in Int /\ base' = base /\ sp' \in Int /\ sp' <= sp
         /\ DOMAIN mem' = DOMAIN mem
         /\ \A j \in DOMAIN mem : j \in Int /\ (j >= sp - base => mem'[j] = mem[j])
         => Pushed(list, strings, ptrs, k)'
<1>1. SUFFICES
        ASSUME Pushed(list, strings, ptrs, k), strings \in Seq(Nat), k \in 0 .. Len(strings),
               base \in Int, sp \in Int, base' = base, sp' \in Int, sp' <= sp,
               DOMAIN mem' = DOMAIN mem,
               \A j \in DOMAIN mem : j \in Int /\ (j >= sp - base => mem'[j] = mem[j])
        PROVE  Pushed(list, strings, ptrs, k)'
  OBVIOUS
<1>2. base \in Int /\ sp \in Int /\ sp' \in Int /\ sp' <= sp /\ base' = base /\ DOMAIN mem' = DOMAIN mem
  BY <1>1
<1>3. ptrs \in Seq(Int) /\ Len(ptrs) = Len(strings) - k /\ Len(strings) \in Nat /\ k \in Nat
  BY <1>1, LenProperties DEF Pushed
<1>4. ASSUME NEW i \in 1 .. Len(ptrs)
      PROVE  ptrs[i] >= sp' /\ CString(ptrs[i], StringOf(list, k + i, strings[k + i]))'
  <2>1. PICK a \in Int : a = ptrs[i]
    BY <1>3, ElementOfSeq
  <2>2. PICK n \in Nat : n = strings[k + i]
    <3>1. k + i \in 1 .. Len(strings)
      BY <1>3
    <3>2. strings[k + i] \in Nat
      BY <1>1, <3>1, ElementOfSeq
    <3>3. QED BY <3>2
  <2>3. PICK t : t = StringOf(list, k + i, n)
    OBVIOUS
  <2>4. DOMAIN t = 1 .. n /\ Len(t) = n
    BY <2>3 DEF StringOf
  <2>5. CString(a, t) /\ a >= sp
    BY <1>1, <2>1, <2>2, <2>3 DEF Pushed
  <2>6. ASSUME NEW j \in DOMAIN mem, NEW d \in Nat, j = a + d - base PROVE mem'[j] = mem[j]
    <3>1. j >= sp - base
      BY <1>2, <2>5, <2>6
    <3>2. QED BY <1>1, <3>1
  <2>7. ASSUME NEW q \in DOMAIN t
        PROVE  a + q - 1 - base \in DOMAIN mem' /\ mem'[a + q - 1 - base] = t[q]
    <3>1. a + q - 1 - base \in DOMAIN mem /\ mem[a + q - 1 - base] = t[q]
      BY <2>5 DEF CString
    <3>2. PICK d \in Nat : d = q - 1
      BY <2>4
    <3>3. a + q - 1 - base = a + d - base
      BY <1>2, <2>4, <3>2
    <3>4. QED BY <1>2, <2>6, <3>1, <3>3
  <2>8. a + Len(t) - base \in DOMAIN mem' /\ mem'[a + Len(t) - base] = Zero
    BY <1>2, <2>4, <2>5, <2>6 DEF CString
  <2>9. CString(a, t)'
    BY <1>2, <2>7, <2>8 DEF CString
  <2>10. a >= sp'
    BY <1>2, <2>5
  <2>11. QED BY <2>1, <2>2, <2>3, <2>9, <2>10
<1>5. QED BY <1>3, <1>4 DEF Pushed

\* push_cstr adds one string below the others.
LEMMA PushOne ==
  ASSUME NEW list, NEW strings, NEW ptrs, NEW n, NEW to
  PROVE  /\ strings \in Seq(Nat) /\ n \in 1 .. Len(strings)
         /\ Pushed(list, strings, ptrs, n) /\ MemoryShape /\ runner \in Runners
         /\ sp \in Int /\ to = sp - (strings[n] + 1) /\ to >= base
         /\ to - base + strings[n] + 1 <= mem_len
         /\ base' = base /\ sp' = to /\ mem' = with_cstr(to - base, list, n, strings[n])
         => /\ Pushed(list, strings, <<to>> \o ptrs, n - 1)'
            /\ DOMAIN mem' = DOMAIN mem /\ to \in Int /\ to <= sp
            /\ \A j \in DOMAIN mem : j \in Int /\ (j >= sp - base => mem'[j] = mem[j])
<1>0. SUFFICES
        ASSUME strings \in Seq(Nat), n \in 1 .. Len(strings),
               Pushed(list, strings, ptrs, n), MemoryShape, runner \in Runners,
               sp \in Int, to = sp - (strings[n] + 1), to >= base,
               to - base + strings[n] + 1 <= mem_len,
               base' = base, sp' = to, mem' = with_cstr(to - base, list, n, strings[n])
        PROVE  /\ Pushed(list, strings, <<to>> \o ptrs, n - 1)'
               /\ DOMAIN mem' = DOMAIN mem /\ to \in Int /\ to <= sp
               /\ \A j \in DOMAIN mem : j \in Int /\ (j >= sp - base => mem'[j] = mem[j])
  BY Zenon
<1>1. PICK len \in Nat : len = strings[n]
  BY <1>0, ElementOfSeq
<1>2. base \in Int /\ DOMAIN mem = 0 .. mem_len - 1 /\ mem_len \in Nat
  BY <1>0, MemLen DEF MemoryShape
<1>3. PICK o : o = to - base
  OBVIOUS
<1>3a. to = sp - (len + 1) /\ to >= base /\ to - base + len + 1 <= mem_len /\ sp \in Int
  BY <1>0, <1>1, Zenon
<1>4. o \in Nat /\ to \in Int /\ to <= sp /\ o + len + 1 <= mem_len /\ o + len + 1 = sp - base
  BY <1>2, <1>3, <1>3a
<1>5. mem' = [j \in DOMAIN mem |-> IF j \in o .. o + len - 1 THEN StringByte(list, n, j - o)
                                   ELSE IF j = o + len THEN Zero ELSE mem[j]]
  BY <1>0, <1>1, <1>3, Zenon DEF with_cstr
<1>6. DOMAIN mem' = DOMAIN mem
  BY <1>5
<1>7. ASSUME NEW j \in DOMAIN mem PROVE j \in Int /\ (j >= sp - base => mem'[j] = mem[j])
  BY <1>2, <1>4, <1>5
<1>8. n \in Int /\ n \in 0 .. Len(strings) /\ Len(strings) \in Nat
  BY <1>0, LenProperties
<1>9. Pushed(list, strings, ptrs, n)'
  <2>1. base \in Int /\ sp' \in Int /\ sp' <= sp
    BY <1>0, <1>2, <1>4
  <2>2. QED BY <1>0, <1>6, <1>7, <1>8, <2>1, PushedKept, Zenon
<1>10. ptrs \in Seq(Int) /\ Len(ptrs) = Len(strings) - n /\ Len(ptrs) \in Nat
  BY <1>0, <1>8, LenProperties DEF Pushed
<1>11. PICK new : new = <<to>> \o ptrs
  OBVIOUS
<1>12. /\ new \in Seq(Int) /\ Len(new) = Len(ptrs) + 1 /\ new[1] = to
       /\ \A i \in 1 .. Len(ptrs) : new[i + 1] = ptrs[i]
  <2>1. <<to>> \in Seq(Int) /\ Len(<<to>>) = 1 /\ <<to>>[1] = to
    BY <1>4
  <2>2. /\ new \in Seq(Int) /\ Len(new) = 1 + Len(ptrs)
        /\ \A i \in 1 .. 1 + Len(ptrs) : new[i] = IF i <= 1 THEN <<to>>[i] ELSE ptrs[i - 1]
    BY <1>10, <1>11, <2>1, ConcatProperties
  <2>3. new[1] = to
    BY <1>10, <2>1, <2>2
  <2>4. ASSUME NEW i \in 1 .. Len(ptrs) PROVE new[i + 1] = ptrs[i]
    <3>1. i + 1 \in 1 .. 1 + Len(ptrs) /\ ~(i + 1 <= 1) /\ (i + 1) - 1 = i
      BY <1>10
    <3>2. QED BY <2>2, <3>1
  <2>5. QED BY <1>10, <2>2, <2>3, <2>4
<1>13. CString(to, StringOf(list, n, len))'
  <2>1. PICK t : t = StringOf(list, n, len)
    OBVIOUS
  <2>2. DOMAIN t = 1 .. len /\ Len(t) = len /\ \A q \in 1 .. len : t[q] = StringByte(list, n, q - 1)
    BY <2>1 DEF StringOf
  <2>3. ASSUME NEW q \in 1 .. len
        PROVE  to + q - 1 - base \in DOMAIN mem /\ mem'[to + q - 1 - base] = StringByte(list, n, q - 1)
    <3>1. PICK j : j = o + (q - 1)
      OBVIOUS
    <3>2. j \in DOMAIN mem /\ j \in o .. o + len - 1 /\ j - o = q - 1
      BY <1>2, <1>4, <3>1
    <3>3. mem'[j] = StringByte(list, n, q - 1)
      BY <1>5, <3>2
    <3>4. to + q - 1 - base = j
      BY <1>2, <1>3, <1>4, <3>1
    <3>5. QED BY <3>2, <3>3, <3>4
  <2>4. to + len - base \in DOMAIN mem /\ mem'[to + len - base] = Zero
    <3>1. o + len \in DOMAIN mem /\ o + len \notin o .. o + len - 1
      BY <1>2, <1>4
    <3>2. mem'[o + len] = Zero
      BY <1>5, <3>1
    <3>3. to + len - base = o + len
      BY <1>2, <1>3, <1>4
    <3>4. QED BY <3>1, <3>2, <3>3
  <2>5. CString(to, t)'
    BY <1>0, <1>6, <2>2, <2>3, <2>4 DEF CString
  <2>6. QED BY <2>1, <2>5
<1>14. ASSUME NEW i \in 1 .. Len(new)
       PROVE  new[i] >= sp' /\ CString(new[i], StringOf(list, n - 1 + i, strings[n - 1 + i]))'
  <2>1. CASE i = 1
    <3>1. n - 1 + i = n
      BY <1>8, <2>1
    <3>2. QED BY <1>0, <1>1, <1>4, <1>12, <1>13, <2>1, <3>1
  <2>2. CASE i # 1
    <3>1. PICK h \in 1 .. Len(ptrs) : i = h + 1
      <4>1. i - 1 \in 1 .. Len(ptrs)
        BY <1>10, <1>12, <2>2
      <4>2. QED BY <4>1
    <3>2. new[i] = ptrs[h] /\ n - 1 + i = n + h
      BY <1>8, <1>12, <3>1
    <3>3. ptrs[h] >= sp' /\ CString(ptrs[h], StringOf(list, n + h, strings[n + h]))'
      BY <1>9 DEF Pushed
    <3>4. QED BY <3>2, <3>3
  <2>3. QED BY <2>1, <2>2
<1>15. Pushed(list, strings, new, n - 1)'
  <2>1. Len(new) = Len(strings) - (n - 1)
    BY <1>8, <1>10, <1>12
  <2>2. QED BY <1>12, <1>14, <2>1 DEF Pushed
<1>16. QED BY <1>4, <1>6, <1>7, <1>11, <1>15

LEMMA ProductMonotonic ==
  ASSUME NEW m \in Nat, NEW n \in Nat, NEW w \in Nat, m <= n
  PROVE  m * w <= n * w /\ m * w \in Nat /\ n * w \in Nat
OBVIOUS

LEMMA InsideProduct ==
  ASSUME NEW n \in Nat, NEW w \in Nat \ {0}, NEW m \in 1 .. n, NEW r \in 0 .. w - 1
  PROVE  /\ (m - 1) * w \in Nat /\ n * w \in Nat
         /\ (m - 1) * w + r \in 0 .. n * w - 1
<1>1. (m - 1) * w \in Nat /\ n * w \in Nat /\ (m - 1) * w + w = m * w /\ m * w \in Nat
  OBVIOUS
<1>2. m * w <= n * w
  OBVIOUS
<1>3. QED BY <1>1, <1>2

\* The words below the strings, each in its place.
LEMMA WordsInPlace ==
  ASSUME NEW w, NEW n, NEW o
  PROVE  /\ n = Len(w) /\ n \in Nat /\ MemoryShape /\ runner \in Runners
         /\ o \in Nat /\ o + n * WORD <= mem_len /\ base' = base /\ sp' = base + o
         /\ mem' = [j \in DOMAIN mem |->
                      LET k == j - o
                      IN IF k \in 0 .. n * WORD - 1
                         THEN WordByte(w[k \div WORD + 1], k % WORD) ELSE mem[j]]
         => \A m \in 1 .. n : WordAt(sp + (m - 1) * WORD, w[m])'
<1>0. SUFFICES
        ASSUME n = Len(w), n \in Nat, MemoryShape, runner \in Runners,
               o \in Nat, o + n * WORD <= mem_len, base' = base, sp' = base + o,
               mem' = [j \in DOMAIN mem |->
                         LET k == j - o
                         IN IF k \in 0 .. n * WORD - 1
                            THEN WordByte(w[k \div WORD + 1], k % WORD) ELSE mem[j]],
               NEW m \in 1 .. n
        PROVE  WordAt(sp + (m - 1) * WORD, w[m])'
  BY Zenon
<1>1. base \in Int /\ DOMAIN mem = 0 .. mem_len - 1 /\ mem_len \in Nat
  BY <1>0, MemLen DEF MemoryShape
<1>2. WORD \in Nat \ {0} /\ n \in Nat /\ o \in Nat /\ m \in Int
  BY <1>0, Sizes
<1>3. PICK x \in Nat : x = (m - 1) * WORD
  <2>1. 0 \in 0 .. WORD - 1
    BY <1>2
  <2>2. QED BY <1>0, <1>2, <2>1, InsideProduct
<1>4. PICK z \in Nat : z = n * WORD /\ o + z <= mem_len
  <2>1. n * WORD \in Nat
    BY <1>2
  <2>2. QED BY <1>0, <2>1
<1>5. ASSUME NEW r \in 0 .. WORD - 1
      PROVE  mem'[o + (x + r)] = WordByte(w[m], r)
  <2>1. x + r \in 0 .. z - 1
    BY <1>0, <1>2, <1>3, <1>4, InsideProduct, Zenon
  <2>2. m - 1 \in Int
    BY <1>2
  <2>3. (x + r) \div WORD = m - 1 /\ (x + r) % WORD = r
    BY <1>2, <1>3, <2>2, Quotient, Zenon
  <2>4. PICK j : j = o + (x + r)
    OBVIOUS
  <2>5. j \in DOMAIN mem /\ j - o = x + r
    BY <1>1, <1>2, <1>4, <2>1, <2>4
  <2>6. mem'[j] = WordByte(w[(x + r) \div WORD + 1], (x + r) % WORD)
    BY <1>0, <1>4, <2>1, <2>5, Zenon
  <2>7. (m - 1) + 1 = m
    BY <1>2
  <2>8. QED BY <2>3, <2>4, <2>6, <2>7, Zenon
<1>6. ASSUME NEW r \in 0 .. WORD - 1
      PROVE  ((base + o) + x) - base + r = o + (x + r)
  BY <1>1, <1>2, <1>3
<1>7. \A r \in 0 .. WORD - 1 : mem'[(sp' + (m - 1) * WORD) - base' + r] = WordByte(w[m], r)
  BY <1>0, <1>3, <1>5, <1>6, Zenon
<1>8. QED BY <1>7, Zenon DEF WordAt

\* c is s followed by t, of lengths n and m.
Joins(c, s, t, n, m) ==
  /\ c \in Seq(Int) /\ Len(c) = n + m
  /\ \A i \in 1 .. n : c[i] = s[i]
  /\ \A i \in 1 .. m : c[n + i] = t[i]

LEMMA Joined ==
  ASSUME NEW s \in Seq(Int), NEW t \in Seq(Int)
  PROVE  Joins(s \o t, s, t, Len(s), Len(t))
<1>1. PICK n, m, c : n = Len(s) /\ m = Len(t) /\ c = s \o t
  OBVIOUS
<1>2. n \in Nat /\ m \in Nat
  BY <1>1, LenProperties
<1>4. c \in Seq(Int) /\ Len(c) = n + m /\ \A i \in 1 .. n + m : c[i] = IF i <= n THEN s[i] ELSE t[i - n]
  BY <1>1, ConcatProperties, Zenon
<1>5. ASSUME NEW i \in 1 .. n PROVE c[i] = s[i]
  <2>1. i \in 1 .. n + m /\ i <= n
    BY <1>2
  <2>2. QED BY <1>4, <2>1, Zenon
<1>6. ASSUME NEW i \in 1 .. m PROVE c[n + i] = t[i]
  <2>1. n + i \in 1 .. n + m /\ ~(n + i <= n) /\ (n + i) - n = i
    BY <1>2
  <2>2. QED BY <1>4, <2>1, Zenon
<1>7. QED BY <1>1, <1>4, <1>5, <1>6, Zenon DEF Joins

\* w holds the lists a and e of lengths n and m the way the initial stack does.
Lists(w, a, e, n, m) ==
  /\ n \in Nat /\ m \in Nat /\ Len(w) = n + m + 7 /\ w[1] = n
  /\ \A i \in 1 .. n : w[1 + i] = a[i]
  /\ w[n + 2] = 0
  /\ \A i \in 1 .. m : w[(n + 2) + i] = e[i]
  /\ w[n + m + 3] = 0

AuxWords == <<6, 4096, 0, 0>>

\* Where each word of the initial stack is.
LEMMA WordPlaces ==
  ASSUME NEW a \in Seq(Int), NEW e \in Seq(Int), NEW v \in Seq(Int), Len(v) = 4
  PROVE  Lists(<<Len(a)>> \o a \o <<0>> \o e \o <<0>> \o v, a, e, Len(a), Len(e))
<1>0. PICK w, n, m : /\ n = Len(a) /\ m = Len(e)
                     /\ w = <<Len(a)>> \o a \o <<0>> \o e \o <<0>> \o v
  OBVIOUS
<1>1. n \in Nat /\ m \in Nat
  BY <1>0, LenProperties
<1>2. PICK h : h = <<n>>
  OBVIOUS
<1>3. PICK z : z = <<0>>
  OBVIOUS
<1>5. /\ h \in Seq(Int) /\ Len(h) = 1 /\ h[1] = n
      /\ z \in Seq(Int) /\ Len(z) = 1 /\ z[1] = 0
  BY <1>1, <1>2, <1>3
<1>6. PICK s1 : s1 = h \o a
  OBVIOUS
<1>7. PICK s2 : s2 = s1 \o z
  OBVIOUS
<1>8. PICK s3 : s3 = s2 \o e
  OBVIOUS
<1>9. PICK s4 : s4 = s3 \o z
  OBVIOUS
<1>10. w = s4 \o v
  BY <1>0, <1>2, <1>3, <1>6, <1>7, <1>8, <1>9
<1>11. Joins(s1, h, a, 1, n) /\ s1 \in Seq(Int) /\ Len(s1) = 1 + n
  <2>1. Joins(h \o a, h, a, Len(h), Len(a))
    BY <1>0, <1>5, Joined, Zenon
  <2>2. Joins(s1, h, a, 1, n)
    BY <1>0, <1>5, <1>6, <2>1, Zenon
  <2>3. QED BY <2>2, Zenon DEF Joins
<1>12. Joins(s2, s1, z, 1 + n, 1) /\ s2 \in Seq(Int) /\ Len(s2) = n + 2
  <2>1. Joins(s1 \o z, s1, z, Len(s1), Len(z))
    BY <1>5, <1>11, Joined, Zenon
  <2>2. Joins(s2, s1, z, 1 + n, 1)
    BY <1>5, <1>7, <1>11, <2>1, Zenon
  <2>3. s2 \in Seq(Int) /\ Len(s2) = (1 + n) + 1
    BY <2>2, Zenon DEF Joins
  <2>4. QED BY <1>1, <2>2, <2>3
<1>13. Joins(s3, s2, e, n + 2, m) /\ s3 \in Seq(Int) /\ Len(s3) = (n + 2) + m
  <2>1. Joins(s2 \o e, s2, e, Len(s2), Len(e))
    BY <1>0, <1>12, Joined, Zenon
  <2>2. Joins(s3, s2, e, n + 2, m)
    BY <1>0, <1>8, <1>12, <2>1, Zenon
  <2>3. QED BY <2>2, Zenon DEF Joins
<1>14. Joins(s4, s3, z, (n + 2) + m, 1) /\ s4 \in Seq(Int) /\ Len(s4) = n + m + 3
  <2>1. Joins(s3 \o z, s3, z, Len(s3), Len(z))
    BY <1>5, <1>13, Joined, Zenon
  <2>2. Joins(s4, s3, z, (n + 2) + m, 1)
    BY <1>5, <1>9, <1>13, <2>1, Zenon
  <2>3. s4 \in Seq(Int) /\ Len(s4) = ((n + 2) + m) + 1
    BY <2>2, Zenon DEF Joins
  <2>4. QED BY <1>1, <2>2, <2>3
<1>15. Joins(w, s4, v, n + m + 3, 4)
  <2>1. Joins(s4 \o v, s4, v, Len(s4), Len(v))
    BY <1>0, <1>14, Joined, Zenon
  <2>2. QED BY <1>0, <1>10, <1>14, <2>1, Zenon
<1>16. /\ \A i \in 1 .. 1 : s1[i] = h[i]
       /\ \A i \in 1 .. n : s1[1 + i] = a[i]
       /\ \A i \in 1 .. 1 + n : s2[i] = s1[i]
       /\ \A i \in 1 .. 1 : s2[(1 + n) + i] = z[i]
       /\ \A i \in 1 .. n + 2 : s3[i] = s2[i]
       /\ \A i \in 1 .. m : s3[(n + 2) + i] = e[i]
       /\ \A i \in 1 .. (n + 2) + m : s4[i] = s3[i]
       /\ \A i \in 1 .. 1 : s4[((n + 2) + m) + i] = z[i]
  BY <1>11, <1>12, <1>13, <1>14, Zenon DEF Joins
<1>17. Len(w) = (n + m + 3) + 4 /\ \A i \in 1 .. n + m + 3 : w[i] = s4[i]
  BY <1>15, Zenon DEF Joins
<1>18. ASSUME NEW i \in 1 .. n + 2 PROVE w[i] = s2[i]
  <2>1. i \in 1 .. n + m + 3 /\ i \in 1 .. (n + 2) + m
    BY <1>1
  <2>2. QED BY <1>16, <1>17, <2>1, Zenon
<1>19. ASSUME NEW i \in 1 .. 1 + n PROVE w[i] = s1[i]
  <2>1. i \in 1 .. n + 2
    BY <1>1
  <2>2. QED BY <1>16, <1>18, <2>1, Zenon
<1>20. w[1] = n
  <2>1. 1 \in 1 .. 1 + n /\ 1 \in 1 .. 1
    BY <1>1
  <2>2. w[1] = s1[1] /\ s1[1] = h[1]
    BY <1>16, <1>19, <2>1
  <2>3. QED BY <1>5, <2>2
<1>21. ASSUME NEW i \in 1 .. n PROVE w[1 + i] = a[i]
  <2>1. 1 + i \in 1 .. 1 + n /\ 1 \in 1 .. 1
    BY <1>1
  <2>2. QED BY <1>16, <1>19, <2>1, Zenon
<1>22. w[n + 2] = 0
  <2>1. n + 2 \in 1 .. n + 2 /\ 1 \in 1 .. 1
    BY <1>1
  <2>2. w[n + 2] = s2[n + 2]
    BY <1>18, <2>1, Zenon
  <2>3. s2[(1 + n) + 1] = 0
    BY <1>5, <1>16, <2>1, Zenon
  <2>4. n + 2 = (1 + n) + 1
    BY <1>1
  <2>5. QED BY <2>2, <2>3, <2>4, Zenon
<1>23. ASSUME NEW i \in 1 .. m PROVE w[(n + 2) + i] = e[i]
  <2>1. (n + 2) + i \in 1 .. n + m + 3 /\ (n + 2) + i \in 1 .. (n + 2) + m
    BY <1>1
  <2>2. QED BY <1>16, <1>17, <2>1, Zenon
<1>24. w[n + m + 3] = 0
  <2>1. n + m + 3 \in 1 .. n + m + 3 /\ 1 \in 1 .. 1
    BY <1>1
  <2>2. s4[((n + 2) + m) + 1] = 0
    BY <1>5, <1>16, <2>1, Zenon
  <2>3. ((n + 2) + m) + 1 = n + m + 3
    BY <1>1
  <2>4. QED BY <1>17, <2>1, <2>2, <2>3, Zenon
<1>25. (n + m + 3) + 4 = n + m + 7
  BY <1>1
<1>26. Lists(w, a, e, n, m)
  BY <1>1, <1>17, <1>20, <1>21, <1>22, <1>23, <1>24, <1>25, Zenon DEF Lists
<1>27. QED BY <1>0, <1>26, Zenon
-----------------------------------------------------------------------------
(* The steps of the loader *)

LEMMA InitLoaderInv == Init => LoaderInv
<1> SUFFICES ASSUME Init PROVE LoaderInv
  OBVIOUS
<1>1. /\ stage = "parse" /\ runner \in Runners /\ file \in Files /\ args \in Args /\ headers = {}
      /\ segments = <<>> /\ arg_ptrs = <<>> /\ env_ptrs = <<>> /\ pages \in PageTables
  BY DEF Init
<1>2. pages \in PageTableType
  BY <1>1, LoaderAssumption
<1>3. segments \in Seq(Phdrs)
  BY <1>1, EmptySeq
<1>4. HeadersInsideFile
  BY <1>1 DEF HeadersInsideFile
<1>5. StackBuilt /\ PagesDone
  BY <1>1 DEF StackBuilt, PagesDone
<1>6. QED BY <1>1, <1>2, <1>3, <1>4, <1>5 DEF LoaderInv, InMemory

\* What no step changes.
LEMMA InputKept ==
  ASSUME LoaderInv, UNCHANGED input, UNCHANGED headers, UNCHANGED segments
  PROVE  /\ runner' \in Runners /\ file' \in Files /\ args' \in Args
         /\ segments' \in Seq(Phdrs) /\ HeadersInsideFile'
BY DEF LoaderInv, input, HeadersInsideFile

LEMMA FailKeepsInv ==
  ASSUME LoaderInv, NEW how \in Failed, Fail(how)
  PROVE  LoaderInv'
<1>1. stage' = how /\ UNCHANGED input /\ UNCHANGED headers /\ UNCHANGED segments /\ pages' = pages
  BY DEF Fail, layout
<1>2. how \notin InMemory /\ how \notin {"parse", "phdrs", "scan"}
  BY DEF Failed, InMemory
<1>3. StackBuilt' /\ PagesDone'
  BY <1>1, <1>2 DEF StackBuilt, PagesDone, InMemory
<1>4. pages' \in PageTableType
  BY <1>1 DEF LoaderInv
<1>5. QED BY <1>1, <1>2, <1>3, <1>4, InputKept DEF LoaderInv

\* The memory and the pushed strings stay when nothing of them changes.
LEMMA ShapeKept ==
  ASSUME MemoryShape, UNCHANGED <<span, base, mem, runner>>
  PROVE  MemoryShape' /\ mem_len' = mem_len
BY DEF MemoryShape, mem_len

LEMMA StringsKept ==
  ASSUME NEW list, NEW strings, NEW ptrs, NEW k,
         Pushed(list, strings, ptrs, k), UNCHANGED <<mem, base, sp>>
  PROVE  Pushed(list, strings, ptrs, k)'
<1>1. ASSUME NEW a, NEW t, CString(a, t) PROVE CString(a, t)'
  BY <1>1 DEF CString
<1>2. QED BY <1>1 DEF Pushed

LEMMA BothStringsKept ==
  ASSUME UNCHANGED <<mem, base, sp, args, arg_ptrs, env_ptrs>>, NEW k
  PROVE  /\ Pushed("argv", args.argv, arg_ptrs, k) => Pushed("argv", args.argv, arg_ptrs, k)'
         /\ Pushed("envp", args.envp, env_ptrs, k) => Pushed("envp", args.envp, env_ptrs, k)'
<1>1. PICK a, p, e, q : a = args.argv /\ p = arg_ptrs /\ e = args.envp /\ q = env_ptrs
  OBVIOUS
<1>2. args'.argv = a /\ arg_ptrs' = p /\ args'.envp = e /\ env_ptrs' = q
  BY <1>1
<1>3. Pushed("argv", a, p, k) => Pushed("argv", a, p, k)'
  BY StringsKept
<1>4. Pushed("envp", e, q, k) => Pushed("envp", e, q, k)'
  BY StringsKept
<1>5. QED BY <1>1, <1>2, <1>3, <1>4

LEMMA WordsKept ==
  ASSUME WordsWritten, UNCHANGED <<mem, base, arg_ptrs, env_ptrs>>, user_rsp' = user_rsp
  PROVE  WordsWritten'
<1>1. words' = words
  BY DEF words
<1>2. QED BY <1>1 DEF WordsWritten, WordAt

LEMMA StutterKeepsInv ==
  ASSUME LoaderInv, UNCHANGED vars
  PROVE  LoaderInv'
<1>1. /\ UNCHANGED <<stage, runner, file, args, headers, segments, span, base, mem, next, sp>>
      /\ UNCHANGED <<arg_ptrs, env_ptrs, pages>>
  BY DEF vars
<1>2. UNCHANGED input
  BY <1>1 DEF input
<1>3. PICK n : n = next
  OBVIOUS
<1>4. stage \in InMemory => MemoryShape' /\ mem_len' = mem_len
  BY <1>1, ShapeKept DEF LoaderInv
<1>5. StackBuilt'
  <2>1. /\ Pushed("argv", args.argv, arg_ptrs, 0) => Pushed("argv", args.argv, arg_ptrs, 0)'
        /\ Pushed("envp", args.envp, env_ptrs, 0) => Pushed("envp", args.envp, env_ptrs, 0)'
        /\ Pushed("argv", args.argv, arg_ptrs, n) => Pushed("argv", args.argv, arg_ptrs, n)'
        /\ Pushed("envp", args.envp, env_ptrs, n) => Pushed("envp", args.envp, env_ptrs, n)'
    BY <1>1, BothStringsKept
  <2>2. next' = n
    BY <1>1, <1>3
  <2>2a. /\ WordsWritten => WordsWritten'
         /\ words' = words /\ (ReturnAt(sp) => ReturnAt(sp)')
    <3>1. user_rsp' = user_rsp
      BY <1>1 DEF user_rsp
    <3>2. QED BY <1>1, <3>1, WordsKept DEF words, ReturnAt
  <2>3. StackBuilt
    BY DEF LoaderInv
  <2>4. /\ Pushed("argv", args.argv, arg_ptrs, next) => Pushed("argv", args.argv, arg_ptrs, next)'
        /\ Pushed("envp", args.envp, env_ptrs, next) => Pushed("envp", args.envp, env_ptrs, next)'
    BY <1>3, <2>1, <2>2
  <2>5. QED BY <1>1, <1>4, <2>1, <2>2a, <2>3, <2>4 DEF StackBuilt, InMemory
<1>6. PagesDone'
  BY <1>1 DEF LoaderInv, PagesDone, Page, last_page, mem_len
<1>7. QED BY <1>1, <1>2, <1>4, <1>5, <1>6, InputKept DEF LoaderInv, TableInside, phnum

\* Before there is any memory.
LEMMA EarlyInv ==
  ASSUME LoaderInv, stage' \in {"phdrs", "scan"}, UNCHANGED input, pages' = pages,
         UNCHANGED <<arg_ptrs, env_ptrs>>, arg_ptrs = <<>>, env_ptrs = <<>>,
         segments' \in Seq(Phdrs), HeadersInsideFile',
         stage' = "phdrs" => next' \in Nat \ {0} /\ TableInside'
  PROVE  LoaderInv'
<1>1. StackBuilt' /\ PagesDone' /\ stage' \notin InMemory
  BY DEF StackBuilt, PagesDone, InMemory
<1>2. QED BY <1>1 DEF LoaderInv, input

LEMMA ParseKeepsInv ==
  ASSUME LoaderInv, parse_elf64 \/ parsed
  PROVE  LoaderInv'
<1>1. CASE Fail("Err")
  BY <1>1, FailKeepsInv DEF Failed
<1>2. CASE ~Fail("Err")
  <2>1. /\ stage \in {"parse", "phdrs"} /\ stage' \in {"phdrs", "scan"} /\ UNCHANGED <<input, layout, stack>>
        /\ pages' = pages /\ (stage' = "phdrs" => next' = 1 /\ TableInside)
    BY <1>2 DEF parse_elf64, parsed
  <2>2. arg_ptrs = <<>> /\ env_ptrs = <<>> /\ UNCHANGED <<arg_ptrs, env_ptrs>>
    BY <2>1 DEF LoaderInv, StackBuilt, stack
  <2>3. segments' \in Seq(Phdrs) /\ HeadersInsideFile'
    BY <2>1, InputKept DEF layout
  <2>4. TableInside' = TableInside
    BY <2>1 DEF TableInside, phnum, input
  <2>5. QED BY <2>1, <2>2, <2>3, <2>4, EarlyInv
<1>3. QED BY <1>1, <1>2

\* parse_elf64 reads one more program header, inside the file.
LEMMA ReadPhdrKeepsInv ==
  ASSUME LoaderInv, read_phdr
  PROVE  LoaderInv'
<1>1. /\ stage = "phdrs" /\ stage' = "phdrs" /\ next \in DOMAIN file.phdrs /\ next' = next + 1
      /\ UNCHANGED <<input, stack, pages>> /\ headers' = headers \cup {file.phoff + (next - 1) * PHDR}
      /\ segments' = IF file.phdrs[next].load THEN Append(segments, file.phdrs[next]) ELSE segments
  BY DEF read_phdr
<1>2. file \in FileType /\ file' = file
  BY <1>1, LoaderAssumption DEF LoaderInv, input
<1>3. file.phdrs \in Seq(Phdrs) /\ file.phoff \in 0 .. ADDR_MAX /\ file.len \in 0 .. ADDR_MAX
  BY <1>2 DEF FileType
<1>4. next \in 1 .. Len(file.phdrs) /\ Len(file.phdrs) \in Nat /\ file.phdrs[next] \in Phdrs
  BY <1>1, <1>3, LenProperties, ElementOfSeq
<1>5. segments' \in Seq(Phdrs)
  BY <1>1, <1>4, AppendProperties DEF LoaderInv
<1>6. TableInside /\ next \in Nat \ {0}
  BY <1>1 DEF LoaderInv
<1>7. HeadersInsideFile'
  <2>1. PICK n \in Nat, m \in Nat \ {0}, l \in Nat, f \in Nat :
          n = Len(file.phdrs) /\ m = next /\ l = file.len /\ f = file.phoff /\ m <= n
    BY <1>3, <1>4, Sizes
  <2>2. f + n * PHDR <= l
    BY <1>6, <2>1 DEF TableInside, phnum
  <2>3. f + (m - 1) * PHDR >= 0 /\ (f + (m - 1) * PHDR) + PHDR <= l
    <3>1. (m - 1) * PHDR \in Nat /\ (m - 1) * PHDR + PHDR = m * PHDR /\ m * PHDR \in Nat
      BY Sizes
    <3>2. m * PHDR <= n * PHDR /\ n * PHDR \in Nat
      BY <2>1, ProductMonotonic, Sizes
    <3>3. QED BY <2>2, <3>1, <3>2, Sizes
  <2>4. ASSUME NEW off \in headers PROVE off >= 0 /\ off + PHDR <= file.len
    BY DEF LoaderInv, HeadersInsideFile
  <2>5. QED BY <1>1, <1>2, <2>1, <2>3, <2>4 DEF HeadersInsideFile
<1>8. TableInside' /\ next' \in Nat \ {0}
  BY <1>1, <1>2, <1>6 DEF TableInside, phnum
<1>9. arg_ptrs = <<>> /\ env_ptrs = <<>> /\ UNCHANGED <<arg_ptrs, env_ptrs>>
  BY <1>1 DEF LoaderInv, StackBuilt, stack
<1>10. QED BY <1>1, <1>5, <1>7, <1>8, <1>9, EarlyInv

\* The image is in memory, the stack is not begun.
LEMMA MemoryInv ==
  ASSUME LoaderInv, stage' \in {"copy", "stack"}, UNCHANGED input, pages' = pages,
         UNCHANGED <<headers, segments, arg_ptrs, env_ptrs>>, arg_ptrs = <<>>, env_ptrs = <<>>,
         MemoryShape'
  PROVE  LoaderInv'
<1>1. StackBuilt' /\ PagesDone' /\ stage' # "phdrs"
  BY DEF StackBuilt, PagesDone
<1>2. pages' \in PageTableType
  BY DEF LoaderInv
<1>3. QED BY <1>1, <1>2, InputKept DEF LoaderInv

LEMMA ScanKeepsInv ==
  ASSUME LoaderInv, scan
  PROVE  LoaderInv'
<1>1. PICK lo : lo = min_of(segments)
  OBVIOUS
<1>2. PICK hi : hi = max_of(segments)
  OBVIOUS
<1>3. CASE Fail("Err") \/ Fail("FixedVaddrUnsupported")
  BY <1>3, FailKeepsInv DEF Failed
<1>4. CASE ~(Fail("Err") \/ Fail("FixedVaddrUnsupported"))
  <2>1. /\ stage = "scan" /\ segments # <<>> /\ ~(hi <= lo \/ hi - lo > MAX_MEM[runner])
        /\ span' = hi - lo /\ base' = (IF runner = "native" THEN HeapBase ELSE lo)
        /\ mem' = [i \in 0 .. (hi - lo + STACK_SIZE[runner]) - 1 |-> Zero]
        /\ stage' = "copy" /\ UNCHANGED <<input, headers, segments, stack, pages>>
    BY <1>1, <1>2, <1>4 DEF scan
  <2>2. lo \in 0 .. ADDR_MAX /\ hi \in 0 .. ADDR_MAX
    BY <1>1, <1>2, <2>1, Extent DEF LoaderInv
  <2>3. runner \in Runners /\ runner' = runner
    BY <2>1 DEF LoaderInv, input
  <2>4. STACK_SIZE[runner] \in Nat /\ MAX_MEM[runner] \in Nat /\ HeapBase \in Nat /\ ADDR_MAX \in Nat
    BY <2>3, Sizes
  <2>5. MemoryShape'
    <3>1. span' \in Nat \ {0} /\ base' \in Nat
      BY <2>1, <2>2, <2>4
    <3>2. DOMAIN mem' = 0 .. span' + STACK_SIZE[runner'] - 1
      <4>1. DOMAIN mem' = 0 .. (hi - lo + STACK_SIZE[runner]) - 1
        BY <2>1
      <4>2. PICK d \in Nat, z \in Nat : d = hi - lo /\ z = STACK_SIZE[runner]
        <5>1. ~(hi <= lo)
          BY <2>1
        <5>2. hi - lo \in Nat
          BY <2>2, <5>1, Sizes
        <5>3. QED BY <2>4, <5>2
      <4>3. span' = d /\ STACK_SIZE[runner'] = z
        BY <2>1, <2>3, <4>2
      <4>4. DOMAIN mem' = 0 .. (d + z) - 1
        BY <4>1, <4>2
      <4>5. QED BY <4>3, <4>4
    <3>3. runner' = "native" => base' = HeapBase /\ span' <= MAX_MEM[runner']
      BY <2>1, <2>2, <2>3, <2>4
    <3>4. QED BY <3>1, <3>2, <3>3 DEF MemoryShape
  <2>6. arg_ptrs = <<>> /\ env_ptrs = <<>> /\ UNCHANGED <<arg_ptrs, env_ptrs>>
    BY <2>1 DEF LoaderInv, StackBuilt, stack
  <2>7. QED BY <2>1, <2>5, <2>6, MemoryInv
<1>5. QED BY <1>3, <1>4

LEMMA CopyKeepsInv ==
  ASSUME LoaderInv, copy_segment \/ copied
  PROVE  LoaderInv'
<1>1. CASE Fail("Err") \/ Fail("Halt")
  BY <1>1, FailKeepsInv DEF Failed
<1>2. CASE ~(Fail("Err") \/ Fail("Halt"))
  <2>1. /\ stage = "copy" /\ stage' \in {"copy", "stack"} /\ UNCHANGED <<input, layout, stack, pages>>
        /\ DOMAIN mem' = DOMAIN mem
    BY <1>2 DEF copy_segment, copied
  <2>2. MemoryShape
    BY <2>1 DEF LoaderInv, InMemory
  <2>3. MemoryShape'
    BY <2>1, <2>2 DEF MemoryShape, layout, input
  <2>4. arg_ptrs = <<>> /\ env_ptrs = <<>> /\ UNCHANGED <<arg_ptrs, env_ptrs>>
    BY <2>1 DEF LoaderInv, StackBuilt, stack
  <2>5. QED BY <2>1, <2>3, <2>4, MemoryInv DEF layout
<1>3. QED BY <1>1, <1>2

\* The steps that build the stack.
LEMMA ListsAreStrings ==
  ASSUME LoaderInv
  PROVE  /\ args.argv \in Seq(Nat) /\ args.envp \in Seq(Nat)
         /\ Len(args.argv) \in Nat /\ Len(args.envp) \in Nat
<1>1. args.argv \in Seq(Nat) /\ args.envp \in Seq(Nat)
  BY LoaderAssumption DEF LoaderInv
<1>2. QED BY <1>1, LenProperties

LEMMA StackInv ==
  ASSUME LoaderInv, stage \in InMemory, stage' \in InMemory, UNCHANGED <<input, layout, pages>>,
         DOMAIN mem' = DOMAIN mem, StackBuilt', PagesDone'
  PROVE  LoaderInv'
<1>1. MemoryShape'
  BY DEF LoaderInv, MemoryShape, layout, input
<1>2. pages' \in PageTableType /\ stage' # "phdrs"
  BY DEF LoaderInv, InMemory
<1>3. QED BY <1>1, <1>2, InputKept DEF LoaderInv, layout

LEMMA StartKeepsInv ==
  ASSUME LoaderInv, start_stack
  PROVE  LoaderInv'
<1>1. CASE Fail("Halt")
  BY <1>1, FailKeepsInv DEF Failed
<1>2. CASE ~Fail("Halt")
  <2>1. /\ stage = "stack" /\ stage' = "argv" /\ sp' = aligned(base + mem_len - ALIGN)
        /\ next' = Len(args.argv) /\ UNCHANGED <<input, layout, mem, arg_ptrs, env_ptrs, pages>>
    BY <1>2 DEF start_stack
  <2>2. MemoryShape /\ runner \in Runners /\ arg_ptrs = <<>> /\ env_ptrs = <<>>
    BY <2>1 DEF LoaderInv, InMemory, StackBuilt
  <2>3. base \in Int /\ mem_len \in Nat /\ mem_len' = mem_len /\ base' = base /\ ALIGN \in Nat
    BY <2>1, <2>2, MemLen, Sizes DEF MemoryShape, layout, mem_len
  <2>4. sp' \in Int /\ sp' <= base' + mem_len' - ALIGN
    <3>1. PICK x \in Int : x = base + mem_len - ALIGN
      BY <2>3
    <3>2. sp' = aligned(x)
      BY <2>1, <3>1
    <3>3. QED BY <2>3, <3>1, <3>2, AlignedDown
  <2>5. args' = args /\ arg_ptrs' = <<>> /\ env_ptrs' = <<>>
    BY <2>1, <2>2 DEF input
  <2>6. next' \in 0 .. Len(args'.argv)
    BY <2>1, <2>5, ListsAreStrings
  <2>7. Pushed("argv", args.argv, arg_ptrs, next)'
    <3>1. PICK n \in Nat : n = Len(args.argv)
      BY ListsAreStrings
    <3>2. next' = n /\ Len(args'.argv) = n /\ n - n = 0
      BY <2>1, <2>5, <3>1
    <3>3. <<>> \in Seq(Int) /\ Len(<<>>) = 0 /\ 1 .. 0 = {}
      BY EmptySeq
    <3>4. QED BY <2>5, <3>2, <3>3 DEF Pushed
  <2>8. StackBuilt' /\ PagesDone'
    BY <2>1, <2>4, <2>5, <2>6, <2>7 DEF StackBuilt, PagesDone
  <2>9. QED BY <2>1, <2>8, StackInv DEF InMemory
<1>3. QED BY <1>1, <1>2

LEMMA PushArgvKeepsInv ==
  ASSUME LoaderInv, push_argv
  PROVE  LoaderInv'
<1>1. CASE Fail("Err")
  BY <1>1, FailKeepsInv DEF Failed
<1>2. CASE ~Fail("Err")
  <2>1. stage = "argv" /\ MemoryShape /\ runner \in Runners
    BY DEF push_argv, LoaderInv, InMemory
  <2>2. /\ next \in 0 .. Len(args.argv) /\ env_ptrs = <<>> /\ Pushed("argv", args.argv, arg_ptrs, next)
        /\ sp \in Int /\ sp <= base + mem_len - ALIGN
    BY <2>1 DEF LoaderInv, StackBuilt
  <2>3. base \in Int /\ mem_len \in Nat /\ DOMAIN mem = 0 .. mem_len - 1 /\ ALIGN \in Nat
    BY <2>1, MemLen, Sizes DEF MemoryShape
  <2>4. CASE next > 0
    <3>1. PICK a, n, t, p : a = args.argv /\ n = next /\ t = sp - (a[n] + 1) /\ p = arg_ptrs
      OBVIOUS
    <3>2. /\ ~(t < base) /\ ~(t - base + a[n] + 1 > mem_len)
          /\ mem' = with_cstr(t - base, "argv", n, a[n]) /\ sp' = t /\ next' = n - 1
          /\ arg_ptrs' = <<t>> \o p /\ env_ptrs' = env_ptrs
          /\ UNCHANGED <<stage, input, layout, pages>>
      BY <1>2, <2>4, <3>1 DEF push_argv, push_cstr, listed
    <3>3. a \in Seq(Nat) /\ n \in 1 .. Len(a) /\ Len(a) \in Nat
      BY <2>2, <2>4, <3>1, ListsAreStrings
    <3>4. a[n] \in Nat
      BY <3>3, ElementOfSeq
    <3>5. t \in Int /\ t >= base /\ t - base + a[n] + 1 <= mem_len
      <4>1. PICK len \in Nat : len = a[n]
        BY <3>4
      <4>2. t = sp - (len + 1) /\ ~(t < base) /\ ~(t - base + len + 1 > mem_len)
        BY <3>1, <3>2, <4>1
      <4>3. t \in Int /\ t >= base /\ t - base + len + 1 <= mem_len
        BY <2>2, <2>3, <4>2
      <4>4. QED BY <4>1, <4>3
    <3>6. base' = base /\ args'.argv = a
      BY <3>1, <3>2 DEF layout, input
    <3>7. Pushed("argv", a, p, n)
      BY <2>2, <3>1
    <3>8. /\ Pushed("argv", a, <<t>> \o p, n - 1)'
          /\ DOMAIN mem' = DOMAIN mem /\ t <= sp
      BY <2>1, <2>2, <3>1, <3>2, <3>3, <3>5, <3>6, <3>7, PushOne, Zenon
    <3>9. Pushed("argv", args.argv, arg_ptrs, next)'
      BY <3>2, <3>6, <3>8, Zenon
    <3>10. mem_len' = mem_len /\ next' \in 0 .. Len(args'.argv)
      BY <3>2, <3>3, <3>6, <3>8 DEF mem_len
    <3>11. sp' \in Int /\ sp' <= base' + mem_len' - ALIGN
      BY <2>2, <2>3, <3>2, <3>5, <3>6, <3>8, <3>10
    <3>12. stage' = "argv" /\ env_ptrs' = <<>>
      BY <2>1, <2>2, <3>2
    <3>13. StackBuilt' /\ PagesDone'
      BY <3>9, <3>10, <3>11, <3>12 DEF StackBuilt, PagesDone
    <3>14. QED BY <2>1, <3>2, <3>8, <3>12, <3>13, StackInv DEF InMemory
  <2>5. CASE ~(next > 0)
    <3>1. stage' = "envp" /\ next' = Len(args.envp) /\ UNCHANGED <<input, layout, mem, stack, pages>>
      BY <2>5 DEF push_argv
    <3>2. next = 0
      BY <2>2, <2>5, ListsAreStrings
    <3>3. UNCHANGED <<mem, base, sp, args, arg_ptrs, env_ptrs>>
      BY <3>1 DEF input, layout, stack
    <3>4. Pushed("argv", args.argv, arg_ptrs, 0)'
      BY <2>2, <3>2, <3>3, BothStringsKept
    <3>5. Pushed("envp", args.envp, env_ptrs, next)'
      <4>1. PICK n \in Nat : n = Len(args.envp)
        BY ListsAreStrings
      <4>2. next' = n /\ Len(args'.envp) = n /\ n - n = 0 /\ env_ptrs' = <<>>
        BY <2>2, <3>1, <3>3, <4>1
      <4>3. <<>> \in Seq(Int) /\ Len(<<>>) = 0 /\ 1 .. 0 = {}
        BY EmptySeq
      <4>4. QED BY <4>2, <4>3 DEF Pushed
    <3>6. mem_len' = mem_len /\ next' \in 0 .. Len(args'.envp)
      BY <3>1, <3>3, ListsAreStrings DEF mem_len
    <3>7. StackBuilt' /\ PagesDone'
      BY <2>2, <3>1, <3>3, <3>4, <3>5, <3>6 DEF StackBuilt, PagesDone
    <3>8. QED BY <2>1, <3>1, <3>7, StackInv DEF InMemory
  <2>6. QED BY <2>4, <2>5
<1>3. QED BY <1>1, <1>2

LEMMA PushEnvpKeepsInv ==
  ASSUME LoaderInv, push_envp
  PROVE  LoaderInv'
<1>1. CASE Fail("Err")
  BY <1>1, FailKeepsInv DEF Failed
<1>2. CASE ~Fail("Err")
  <2>1. stage = "envp" /\ MemoryShape /\ runner \in Runners
    BY DEF push_envp, LoaderInv, InMemory
  <2>2. /\ next \in 0 .. Len(args.envp) /\ Pushed("envp", args.envp, env_ptrs, next)
        /\ Pushed("argv", args.argv, arg_ptrs, 0)
        /\ sp \in Int /\ sp <= base + mem_len - ALIGN
    BY <2>1 DEF LoaderInv, StackBuilt
  <2>3. base \in Int /\ mem_len \in Nat /\ DOMAIN mem = 0 .. mem_len - 1 /\ ALIGN \in Nat
    BY <2>1, MemLen, Sizes DEF MemoryShape
  <2>4. CASE next > 0
    <3>1. PICK a, n, t, p : a = args.envp /\ n = next /\ t = sp - (a[n] + 1) /\ p = env_ptrs
      OBVIOUS
    <3>2. /\ ~(t < base) /\ ~(t - base + a[n] + 1 > mem_len)
          /\ mem' = with_cstr(t - base, "envp", n, a[n]) /\ sp' = t /\ next' = n - 1
          /\ env_ptrs' = <<t>> \o p /\ arg_ptrs' = arg_ptrs
          /\ UNCHANGED <<stage, input, layout, pages>>
      BY <1>2, <2>4, <3>1 DEF push_envp, push_cstr, listed
    <3>3. a \in Seq(Nat) /\ n \in 1 .. Len(a) /\ Len(a) \in Nat
      BY <2>2, <2>4, <3>1, ListsAreStrings
    <3>4. a[n] \in Nat
      BY <3>3, ElementOfSeq
    <3>5. t \in Int /\ t >= base /\ t - base + a[n] + 1 <= mem_len
      <4>1. PICK len \in Nat : len = a[n]
        BY <3>4
      <4>2. t = sp - (len + 1) /\ ~(t < base) /\ ~(t - base + len + 1 > mem_len)
        BY <3>1, <3>2, <4>1
      <4>3. t \in Int /\ t >= base /\ t - base + len + 1 <= mem_len
        BY <2>2, <2>3, <4>2
      <4>4. QED BY <4>1, <4>3
    <3>6. base' = base /\ args' = args /\ args'.envp = a
      BY <3>1, <3>2 DEF layout, input
    <3>7. Pushed("envp", a, p, n)
      BY <2>2, <3>1
    <3>8. /\ Pushed("envp", a, <<t>> \o p, n - 1)'
          /\ DOMAIN mem' = DOMAIN mem /\ t <= sp
          /\ \A j \in DOMAIN mem : j \in Int /\ (j >= sp - base => mem'[j] = mem[j])
      BY <2>1, <2>2, <3>1, <3>2, <3>3, <3>5, <3>6, <3>7, PushOne, Zenon
    <3>9. Pushed("envp", args.envp, env_ptrs, next)'
      BY <3>2, <3>6, <3>8, Zenon
    <3>10. mem_len' = mem_len /\ next' \in 0 .. Len(args'.envp)
      BY <3>2, <3>3, <3>6, <3>8 DEF mem_len
    <3>11. sp' \in Int /\ sp' <= base' + mem_len' - ALIGN
      BY <2>2, <2>3, <3>2, <3>5, <3>6, <3>8, <3>10
    <3>12. Pushed("argv", args.argv, arg_ptrs, 0)'
      <4>1. PICK b, q : b = args.argv /\ q = arg_ptrs
        OBVIOUS
      <4>2. Pushed("argv", b, q, 0) /\ b \in Seq(Nat) /\ 0 \in 0 .. Len(b)
        BY <2>2, <4>1, ListsAreStrings
      <4>3. sp' \in Int /\ sp' <= sp
        BY <3>2, <3>5, <3>8
      <4>4. Pushed("argv", b, q, 0)'
        BY <2>2, <2>3, <3>6, <3>8, <4>2, <4>3, PushedKept, Zenon
      <4>5. args'.argv = b /\ arg_ptrs' = q
        BY <3>2, <3>6, <4>1
      <4>6. QED BY <4>4, <4>5, Zenon
    <3>13. stage' = "envp"
      BY <2>1, <3>2
    <3>14. StackBuilt' /\ PagesDone'
      BY <3>9, <3>10, <3>11, <3>12, <3>13 DEF StackBuilt, PagesDone
    <3>15. QED BY <2>1, <3>2, <3>8, <3>13, <3>14, StackInv DEF InMemory
  <2>5. CASE ~(next > 0)
    <3>1. stage' = "words" /\ UNCHANGED <<input, layout, mem, next, stack, pages>>
      BY <2>5 DEF push_envp
    <3>2. next = 0
      BY <2>2, <2>5, ListsAreStrings
    <3>3. UNCHANGED <<mem, base, sp, args, arg_ptrs, env_ptrs>>
      BY <3>1 DEF input, layout, stack
    <3>4. Pushed("argv", args.argv, arg_ptrs, 0)' /\ Pushed("envp", args.envp, env_ptrs, 0)'
      BY <2>2, <3>2, <3>3, BothStringsKept
    <3>5. mem_len' = mem_len
      BY <3>3 DEF mem_len
    <3>6. StackBuilt' /\ PagesDone'
      BY <2>2, <3>1, <3>3, <3>4, <3>5 DEF StackBuilt, PagesDone
    <3>7. QED BY <2>1, <3>1, <3>6, StackInv DEF InMemory
  <2>6. QED BY <2>4, <2>5
<1>3. QED BY <1>1, <1>2

LEMMA StackWords ==
  ASSUME arg_ptrs \in Seq(Int), env_ptrs \in Seq(Int)
  PROVE  Lists(words, arg_ptrs, env_ptrs, Len(arg_ptrs), Len(env_ptrs))
<1>1. AuxWords \in Seq(Int) /\ Len(AuxWords) = 4
  BY DEF AuxWords
<1>2. words = <<Len(arg_ptrs)>> \o arg_ptrs \o <<0>> \o env_ptrs \o <<0>> \o AuxWords
  BY DEF words, AuxWords
<1>3. QED BY <1>1, <1>2, WordPlaces, Zenon

LEMMA WriteWordsKeepsInv ==
  ASSUME LoaderInv, write_words
  PROVE  LoaderInv'
<1>1. CASE Fail("Err")
  BY <1>1, FailKeepsInv DEF Failed
<1>2. CASE ~Fail("Err")
  <2>1. stage = "words" /\ MemoryShape /\ runner \in Runners
    BY DEF write_words, LoaderInv, InMemory
  <2>2. /\ Pushed("argv", args.argv, arg_ptrs, 0) /\ Pushed("envp", args.envp, env_ptrs, 0)
        /\ sp \in Int /\ sp <= base + mem_len - ALIGN
    BY <2>1 DEF LoaderInv, StackBuilt
  <2>3. base \in Int /\ mem_len \in Nat /\ DOMAIN mem = 0 .. mem_len - 1 /\ ALIGN \in Nat
    BY <2>1, MemLen, Sizes DEF MemoryShape
  <2>4. PICK w, n, z, t, o : /\ w = words /\ n = Len(w) /\ z = n * WORD
                             /\ t = aligned(sp) - z /\ o = t - base
    OBVIOUS
  <2>5. /\ ~(t < base) /\ sp' = t /\ stage' = "entry"
        /\ mem' = [j \in DOMAIN mem |->
                     LET k == j - o
                     IN IF k \in 0 .. n * WORD - 1
                        THEN WordByte(w[k \div WORD + 1], k % WORD) ELSE mem[j]]
        /\ UNCHANGED <<input, layout, arg_ptrs, env_ptrs, pages>>
    BY <1>2, <2>4, Zenon DEF write_words
  <2>6. n \in Nat
    <3>1. arg_ptrs \in Seq(Int) /\ env_ptrs \in Seq(Int)
      BY <2>2 DEF Pushed
    <3>2. Lists(words, arg_ptrs, env_ptrs, Len(arg_ptrs), Len(env_ptrs))
      BY <3>1, StackWords
    <3>3. Len(words) = Len(arg_ptrs) + Len(env_ptrs) + 7 /\ Len(arg_ptrs) \in Nat /\ Len(env_ptrs) \in Nat
      BY <3>2, Zenon DEF Lists
    <3>4. QED BY <2>4, <3>3
  <2>7. z \in Nat
    BY <2>4, <2>6, Sizes
  <2>8. PICK y \in Int : y = aligned(sp) /\ y <= sp
    BY <2>2, AlignedDown
  <2>9. t \in Int /\ o \in Nat /\ t <= sp /\ o + z <= sp - base /\ o + z <= mem_len /\ t = base + o
    <3>1. ~(t < base) /\ t = y - z /\ o = t - base /\ sp \in Int /\ sp <= base + mem_len - ALIGN
      BY <2>2, <2>4, <2>5, <2>8, Zenon
    <3>2. y \in Int /\ y <= sp /\ base \in Int /\ mem_len \in Int /\ ALIGN \in Nat
      BY <2>3, <2>8
    <3>3. t \in Int /\ t = base + o /\ o \in Nat
      BY <2>7, <3>1, <3>2
    <3>4. o + z = y - base
      BY <2>7, <3>1, <3>2
    <3>5. QED BY <2>7, <3>1, <3>2, <3>3, <3>4
  <2>10. base' = base /\ args' = args /\ DOMAIN mem' = DOMAIN mem
    BY <2>5 DEF layout, input
  <2>11. ASSUME NEW j \in DOMAIN mem PROVE j \in Int /\ (j >= sp - base => mem'[j] = mem[j])
    <3>1. j \in Int
      BY <2>3
    <3>2. ASSUME j >= sp - base PROVE mem'[j] = mem[j]
      <4>1. j - o \notin 0 .. z - 1
        BY <2>2, <2>3, <2>7, <2>9, <3>1, <3>2
      <4>2. QED BY <2>4, <2>5, <4>1, Zenon
    <3>3. QED BY <3>1, <3>2
  <2>12. Pushed("argv", args.argv, arg_ptrs, 0)' /\ Pushed("envp", args.envp, env_ptrs, 0)'
    <3>1. PICK b, q, e, r : b = args.argv /\ q = arg_ptrs /\ e = args.envp /\ r = env_ptrs
      OBVIOUS
    <3>2. b \in Seq(Nat) /\ 0 \in 0 .. Len(b) /\ e \in Seq(Nat) /\ 0 \in 0 .. Len(e)
      BY <3>1, ListsAreStrings
    <3>3. Pushed("argv", b, q, 0) /\ Pushed("envp", e, r, 0)
      BY <2>2, <3>1
    <3>4. sp' \in Int /\ sp' <= sp
      BY <2>5, <2>9
    <3>5. Pushed("argv", b, q, 0)'
      BY <2>2, <2>3, <2>10, <2>11, <3>2, <3>3, <3>4, PushedKept, Zenon
    <3>6. Pushed("envp", e, r, 0)'
      BY <2>2, <2>3, <2>10, <2>11, <3>2, <3>3, <3>4, PushedKept, Zenon
    <3>7. args'.argv = b /\ arg_ptrs' = q /\ args'.envp = e /\ env_ptrs' = r
      BY <2>5, <2>10, <3>1
    <3>8. QED BY <3>5, <3>6, <3>7, Zenon
  <2>13. WordsWritten'
    <3>1. \A m \in 1 .. n : WordAt(sp + (m - 1) * WORD, w[m])'
      <4>1. sp' = base + o /\ o + n * WORD <= mem_len
        BY <2>4, <2>5, <2>9, Zenon
      <4>2. QED BY <2>1, <2>4, <2>5, <2>6, <2>9, <2>10, <4>1, WordsInPlace, Zenon
    <3>2. words' = w
      BY <2>4, <2>5, Zenon DEF words
    <3>3. user_rsp' = sp'
      BY <2>5 DEF user_rsp
    <3>4. QED BY <2>4, <3>1, <3>2, <3>3, Zenon DEF WordsWritten
  <2>14. sp' \in Int /\ base' <= sp' /\ sp' + Len(words') * WORD <= base' + mem_len'
    <3>1. words' = w /\ mem_len' = mem_len
      BY <2>4, <2>5, <2>10 DEF words, mem_len
    <3>2. t \in Int /\ base <= t /\ t + z <= base + mem_len
      BY <2>3, <2>7, <2>9
    <3>3. QED BY <2>4, <2>5, <2>10, <3>1, <3>2
  <2>15. StackBuilt' /\ PagesDone'
    BY <2>5, <2>12, <2>13, <2>14 DEF StackBuilt, PagesDone
  <2>16. QED BY <2>1, <2>5, <2>10, <2>15, StackInv DEF InMemory
<1>3. QED BY <1>1, <1>2

\* The steps to the entry point, and the pages of the memory.
LEMMA BuiltKept ==
  ASSUME LoaderInv, stage \in {"entry", "exec"}, stage' \in {"exec", "enter", "Run"},
         stage' = "Run" => runner = "interp",
         UNCHANGED <<mem, base, sp, args, arg_ptrs, env_ptrs, runner>>
  PROVE  StackBuilt'
<1>1. /\ Pushed("argv", args.argv, arg_ptrs, 0) /\ Pushed("envp", args.envp, env_ptrs, 0)
      /\ sp \in Int /\ WordsWritten
      /\ base <= sp /\ sp + Len(words) * WORD <= base + mem_len
  BY DEF LoaderInv, StackBuilt
<1>2. user_rsp' = user_rsp /\ words' = words /\ mem_len' = mem_len
  BY DEF user_rsp, words, mem_len
<1>3. /\ Pushed("argv", args.argv, arg_ptrs, 0)' /\ Pushed("envp", args.envp, env_ptrs, 0)'
      /\ sp' \in Int /\ WordsWritten'
  BY <1>1, <1>2, BothStringsKept, WordsKept
<1>4. QED BY <1>1, <1>2, <1>3 DEF StackBuilt

LEMMA PageRange ==
  ASSUME MemoryShape, runner = "native"
  PROVE  /\ Page(base) \in Int /\ last_page \in Int /\ Page(base) <= last_page
         /\ Page(base) .. last_page \subseteq 0 .. ADDR_MAX \div PAGE
<1>1. runner \in Runners
  BY DEF Runners
<1>2. PICK n \in Nat, t \in Nat : n = span + t /\ n = mem_len /\ t = STACK_SIZE[runner]
  BY <1>1, MemLen
<1>3. mem_len \in Nat \ {0}
  BY <1>1, MemLen
<1>4. base = HeapBase /\ span <= MAX_MEM[runner] /\ span \in Nat /\ base \in Nat
  BY DEF MemoryShape
<1>5. /\ MAX_MEM[runner] \in Nat /\ HeapBase + MAX_MEM[runner] + t <= ADDR_MAX
      /\ ADDR_MAX \in Nat /\ PAGE \in Nat \ {0}
  BY <1>1, <1>2, Sizes
<1>6. PICK b \in Int, e \in Int : b = base /\ e = base + mem_len - 1 /\ 0 <= b /\ b <= e /\ e <= ADDR_MAX
  <2>1. base + n - 1 \in Int /\ base <= base + n - 1 /\ base + n - 1 <= ADDR_MAX
    BY <1>2, <1>3, <1>4, <1>5
  <2>2. QED BY <1>2, <1>4, <2>1
<1>7. Page(base) = b \div PAGE /\ last_page = e \div PAGE
  BY <1>6 DEF Page, last_page
<1>8. b \div PAGE \in Int /\ e \div PAGE \in Int /\ ADDR_MAX \div PAGE \in Int
  BY <1>5, Division
<1>9. b \div PAGE <= e \div PAGE /\ e \div PAGE <= ADDR_MAX \div PAGE /\ 0 <= b \div PAGE
  <2>1. b \div PAGE <= e \div PAGE /\ e \div PAGE <= ADDR_MAX \div PAGE
    BY <1>5, <1>6, QuotientMonotonic
  <2>2. 0 \div PAGE <= b \div PAGE
    BY <1>5, <1>6, QuotientMonotonic
  <2>3. 0 \div PAGE = 0
    BY <1>5
  <2>4. QED BY <2>1, <2>2, <2>3
<1>10. QED BY <1>7, <1>8, <1>9

LEMMA EntryKeepsInv ==
  ASSUME LoaderInv, native_entry \/ interp_entry
  PROVE  LoaderInv'
<1>1. CASE Fail("Err") \/ Fail("Halt")
  BY <1>1, FailKeepsInv DEF Failed
<1>2. CASE ~(Fail("Err") \/ Fail("Halt"))
  <2>1. /\ stage = "entry" /\ stage' \in {"exec", "Run"} /\ UNCHANGED <<input, layout, mem, stack, pages>>
        /\ stage' = "exec" => runner = "native" /\ next' = base \div PAGE
        /\ stage' = "Run" => runner = "interp"
    BY <1>2 DEF native_entry, interp_entry
  <2>2. UNCHANGED <<mem, base, sp, args, arg_ptrs, env_ptrs, runner>>
    BY <2>1 DEF input, layout, stack
  <2>3. StackBuilt'
    BY <2>1, <2>2, BuiltKept
  <2>4. MemoryShape
    BY <2>1 DEF LoaderInv, InMemory
  <2>5. PagesDone'
    <3>1. SUFFICES ASSUME stage' = "exec"
                   PROVE  /\ runner' = "native" /\ next' \in Page(base') .. last_page' + 1
                          /\ \A p \in Page(base') .. next' - 1 : pages'.flags[p] = "x"
      BY <2>1 DEF PagesDone
    <3>2. runner = "native" /\ next' = Page(base) /\ Page(base') = Page(base) /\ last_page' = last_page
      BY <2>1, <2>2, <3>1 DEF Page, last_page, mem_len
    <3>3. Page(base) \in Int /\ last_page \in Int /\ Page(base) <= last_page
      BY <2>4, <3>2, PageRange
    <3>4. Page(base) \in Page(base) .. last_page + 1 /\ Page(base) .. Page(base) - 1 = {}
      BY <3>3
    <3>5. QED BY <2>2, <3>2, <3>4
  <2>6. QED BY <2>1, <2>3, <2>5, StackInv DEF InMemory
<1>3. QED BY <1>1, <1>2

\* What the loop over the pages knows.
LEMMA PageLoop ==
  ASSUME LoaderInv, stage \in {"exec", "enter"}
  PROVE  /\ MemoryShape /\ runner = "native" /\ next \in Int /\ last_page \in Int /\ Page(base) \in Int
         /\ Page(base) <= next /\ next <= last_page + 1
         /\ Page(base) .. last_page \subseteq DOMAIN pages.flags
         /\ DOMAIN pages.flags = 0 .. ADDR_MAX \div PAGE
         /\ \A p \in Page(base) .. next - 1 : pages.flags[p] = "x"
         /\ stage = "enter" => next = last_page + 1
<1>1. /\ MemoryShape /\ runner = "native" /\ next \in Page(base) .. last_page + 1
      /\ \A p \in Page(base) .. next - 1 : pages.flags[p] = "x"
      /\ stage = "enter" => next = last_page + 1
  BY DEF LoaderInv, InMemory, PagesDone
<1>2. /\ Page(base) \in Int /\ last_page \in Int
      /\ Page(base) .. last_page \subseteq 0 .. ADDR_MAX \div PAGE
  BY <1>1, PageRange
<1>3. DOMAIN pages.flags = 0 .. ADDR_MAX \div PAGE
  BY DEF LoaderInv, PageTableType
<1>4. QED BY <1>1, <1>2, <1>3

LEMMA ExecutableKeepsInv ==
  ASSUME LoaderInv, make_executable
  PROVE  LoaderInv'
<1>1. CASE Fail("Err")
  BY <1>1, FailKeepsInv DEF Failed
<1>2. CASE ~Fail("Err") /\ next > last_page
  <2>1. stage = "exec" /\ stage' = "enter" /\ UNCHANGED <<input, layout, mem, next, stack, pages>>
    BY <1>2 DEF make_executable
  <2>2. UNCHANGED <<mem, base, sp, args, arg_ptrs, env_ptrs, runner>>
    BY <2>1 DEF input, layout, stack
  <2>3. StackBuilt'
    BY <2>1, <2>2, BuiltKept
  <2>4. Page(base') = Page(base) /\ last_page' = last_page
    BY <2>2 DEF Page, last_page, mem_len
  <2>5. next = last_page + 1
    BY <1>2, <2>1, PageLoop
  <2>6. PagesDone'
    BY <2>1, <2>2, <2>4, <2>5 DEF LoaderInv, PagesDone
  <2>7. QED BY <2>1, <2>3, <2>6, StackInv DEF InMemory
<1>3. CASE ~Fail("Err") /\ ~(next > last_page)
  <2>1. /\ stage = "exec" /\ stage' = "exec" /\ pages' = [pages EXCEPT !.flags[next] = "x"]
        /\ next' = next + 1 /\ UNCHANGED <<input, layout, mem, stack>>
    BY <1>3 DEF make_executable
  <2>2. UNCHANGED <<mem, base, span, sp, args, arg_ptrs, env_ptrs, runner, headers, segments>>
    BY <2>1 DEF input, layout, stack
  <2>3. StackBuilt'
    BY <2>1, <2>2, BuiltKept
  <2>4. MemoryShape'
    BY <2>1, <2>2, PageLoop, ShapeKept
  <2>5. next \in Page(base) .. last_page /\ next \in DOMAIN pages.flags
    BY <1>3, <2>1, PageLoop
  <2>6. pages \in PageTableType
    BY DEF LoaderInv
  <2>7. pages' \in PageTableType
    BY <2>1, <2>6 DEF PageTableType, PageFlags
  <2>8. \A p \in DOMAIN pages.flags : pages'.flags[p] = IF p = next THEN "x" ELSE pages.flags[p]
    BY <2>1, <2>6 DEF PageTableType
  <2>9. PagesDone'
    <3>1. Page(base') = Page(base) /\ last_page' = last_page
      BY <2>2 DEF Page, last_page, mem_len
    <3>2. next' \in Page(base) .. last_page + 1
      BY <2>1, <2>5, PageLoop
    <3>3. ASSUME NEW p \in Page(base) .. next' - 1 PROVE pages'.flags[p] = "x"
      <4>1. p \in Page(base) .. last_page /\ (p = next \/ p \in Page(base) .. next - 1)
        BY <2>1, <2>5, PageLoop
      <4>2. p \in DOMAIN pages.flags
        BY <2>1, <4>1, PageLoop
      <4>3. QED BY <2>1, <2>8, <4>1, <4>2, PageLoop
    <3>4. QED BY <2>1, <2>2, <3>1, <3>2, <3>3, PageLoop DEF PagesDone
  <2>10. runner' \in Runners /\ file' \in Files /\ args' \in Args /\ segments' \in Seq(Phdrs) /\ HeadersInsideFile'
    BY <2>1, <2>2, InputKept
  <2>11. QED BY <2>1, <2>3, <2>4, <2>7, <2>9, <2>10 DEF LoaderInv
<1>4. QED BY <1>1, <1>2, <1>3

\* The call of the entry point writes below the stack that was built.
LEMMA ReturnBelow ==
  ASSUME LoaderInv, native_enter
  PROVE  /\ base \in Int /\ sp \in Int /\ mem_len \in Nat /\ DOMAIN mem = 0 .. mem_len - 1
         /\ base' = base /\ sp' = sp - WORD /\ DOMAIN mem' = DOMAIN mem
         /\ base <= sp /\ sp <= base + mem_len
         /\ \A j \in DOMAIN mem :
              /\ j >= sp - base => mem'[j] = mem[j]
              /\ j < sp - base - WORD => mem'[j] = mem[j]
              /\ \A k \in 0 .. WORD - 1 : j = sp - WORD - base + k => mem'[j] = ReturnByte(k)
<1>1. /\ stage = "enter" /\ sp' = sp - WORD /\ mem' = with_return(sp - WORD - base)
      /\ UNCHANGED <<input, layout, arg_ptrs, env_ptrs>>
  BY DEF native_enter
<1>2. MemoryShape /\ runner \in Runners
  BY <1>1 DEF LoaderInv, InMemory
<1>3. /\ Pushed("argv", args.argv, arg_ptrs, 0) /\ Pushed("envp", args.envp, env_ptrs, 0)
      /\ sp \in Int /\ base <= sp /\ sp + Len(words) * WORD <= base + mem_len
  BY <1>1 DEF LoaderInv, StackBuilt
<1>4. base \in Int /\ mem_len \in Nat /\ DOMAIN mem = 0 .. mem_len - 1 /\ base' = base
  BY <1>1, <1>2, MemLen DEF MemoryShape, layout
<1>5. Len(words) * WORD \in Nat
  <2>1. arg_ptrs \in Seq(Int) /\ env_ptrs \in Seq(Int)
    BY <1>3 DEF Pushed
  <2>2. Lists(words, arg_ptrs, env_ptrs, Len(arg_ptrs), Len(env_ptrs))
    BY <2>1, StackWords
  <2>3. Len(words) \in Nat
    <3>1. Len(words) = Len(arg_ptrs) + Len(env_ptrs) + 7 /\ Len(arg_ptrs) \in Nat /\ Len(env_ptrs) \in Nat
      BY <2>2, Zenon DEF Lists
    <3>2. QED BY <3>1
  <2>4. QED BY <2>3, Sizes
<1>6. sp <= base + mem_len
  <2>1. PICK z \in Nat : z = Len(words) * WORD
    BY <1>5
  <2>2. sp + z <= base + mem_len
    BY <1>3, <2>1
  <2>3. QED BY <1>3, <1>4, <2>2
<1>7. PICK a \in Int : a = sp - WORD - base
  BY <1>3, <1>4, Sizes
<1>8. mem' = [j \in DOMAIN mem |-> IF j \in a .. a + WORD - 1 THEN ReturnByte(j - a) ELSE mem[j]]
  BY <1>1, <1>7 DEF with_return
<1>9. ASSUME NEW j \in DOMAIN mem
      PROVE  /\ j >= sp - base => mem'[j] = mem[j]
             /\ j < sp - base - WORD => mem'[j] = mem[j]
             /\ \A k \in 0 .. WORD - 1 : j = sp - WORD - base + k => mem'[j] = ReturnByte(k)
  <2>1. j \in Int /\ WORD \in Nat \ {0}
    BY <1>4, Sizes
  <2>2. j >= sp - base => j \notin a .. a + WORD - 1
    BY <1>3, <1>4, <1>7, <2>1
  <2>3. j < sp - base - WORD => j \notin a .. a + WORD - 1
    BY <1>3, <1>4, <1>7, <2>1
  <2>4. ASSUME NEW k \in 0 .. WORD - 1, j = sp - WORD - base + k
        PROVE  j \in a .. a + WORD - 1 /\ j - a = k
    <3>1. j = a + k
      BY <1>7, <2>4
    <3>2. QED BY <2>1, <3>1
  <2>5. QED BY <1>8, <2>2, <2>3, <2>4
<1>10. QED BY <1>1, <1>3, <1>4, <1>6, <1>8, <1>9

LEMMA EnterKeepsInv ==
  ASSUME LoaderInv, native_enter
  PROVE  LoaderInv'
<1>1. /\ stage = "enter" /\ stage' = "Run" /\ sp' = sp - WORD
      /\ UNCHANGED <<input, layout, next, arg_ptrs, env_ptrs, pages>>
  BY DEF native_enter
<1>2. args' = args /\ runner' = runner /\ runner = "native"
  BY <1>1 DEF input, LoaderInv, PagesDone
<1>3. /\ Pushed("argv", args.argv, arg_ptrs, 0) /\ Pushed("envp", args.envp, env_ptrs, 0)
      /\ WordsWritten /\ sp + Len(words) * WORD <= base + mem_len
  BY <1>1 DEF LoaderInv, StackBuilt
<1>4. /\ base \in Int /\ sp \in Int /\ mem_len \in Nat /\ DOMAIN mem = 0 .. mem_len - 1
      /\ base' = base /\ DOMAIN mem' = DOMAIN mem /\ base <= sp /\ sp <= base + mem_len
  BY ReturnBelow
<1>5. sp' \in Int /\ sp' <= sp /\ WORD \in Nat \ {0}
  BY <1>1, <1>4, Sizes
<1>6. \A j \in DOMAIN mem : j \in Int /\ (j >= sp - base => mem'[j] = mem[j])
  BY <1>4, ReturnBelow
<1>7. Pushed("argv", args.argv, arg_ptrs, 0)' /\ Pushed("envp", args.envp, env_ptrs, 0)'
  <2>1. PICK b, q, e, r : b = args.argv /\ q = arg_ptrs /\ e = args.envp /\ r = env_ptrs
    OBVIOUS
  <2>2. b \in Seq(Nat) /\ 0 \in 0 .. Len(b) /\ e \in Seq(Nat) /\ 0 \in 0 .. Len(e)
    BY <2>1, ListsAreStrings
  <2>3. Pushed("argv", b, q, 0) /\ Pushed("envp", e, r, 0)
    BY <1>3, <2>1
  <2>4. Pushed("argv", b, q, 0)' /\ Pushed("envp", e, r, 0)'
    BY <1>4, <1>5, <1>6, <2>2, <2>3, PushedKept, Zenon
  <2>5. args'.argv = b /\ arg_ptrs' = q /\ args'.envp = e /\ env_ptrs' = r
    BY <1>1, <1>2, <2>1
  <2>6. QED BY <2>4, <2>5, Zenon
<1>8. WordsWritten'
  <2>1. user_rsp = sp /\ user_rsp' = sp
    BY <1>1, <1>2, <1>4, <1>5 DEF user_rsp
  <2>2. words' = words
    BY <1>1 DEF words
  <2>3. PICK w, n : w = words /\ n = Len(words)
    OBVIOUS
  <2>4. n \in Nat
    <3>1. arg_ptrs \in Seq(Int) /\ env_ptrs \in Seq(Int)
      BY <1>3 DEF Pushed
    <3>2. Lists(words, arg_ptrs, env_ptrs, Len(arg_ptrs), Len(env_ptrs))
      BY <3>1, StackWords
    <3>3. Len(words) = Len(arg_ptrs) + Len(env_ptrs) + 7 /\ Len(arg_ptrs) \in Nat /\ Len(env_ptrs) \in Nat
      BY <3>2, Zenon DEF Lists
    <3>4. QED BY <2>3, <3>3
  <2>5. PICK r \in Int : r = sp
    BY <1>4
  <2>6. ASSUME NEW m \in 1 .. n PROVE WordAt(r + (m - 1) * WORD, w[m])'
    <3>1. WordAt(r + (m - 1) * WORD, w[m])
      BY <1>3, <2>1, <2>3, <2>5 DEF WordsWritten
    <3>2. ASSUME NEW k \in 0 .. WORD - 1
          PROVE  mem'[(r + (m - 1) * WORD) - base + k] = WordByte(w[m], k)
      <4>1. PICK x \in Nat, z \in Nat : x = (m - 1) * WORD /\ z = n * WORD /\ x + k \in 0 .. z - 1
        BY <1>5, <2>4, InsideProduct
      <4>2. r + z <= base + mem_len
        BY <1>3, <2>3, <2>5, <4>1
      <4>3. PICK j : j = (r + x) - base + k
        OBVIOUS
      <4>4. j \in 0 .. mem_len - 1 /\ j >= r - base
        <5>1. x \in Nat /\ z \in Nat /\ x + k \in 0 .. z - 1 /\ k \in Int
          BY <1>5, <4>1
        <5>2. base \in Int /\ mem_len \in Nat /\ base <= r
          BY <1>4, <2>5
        <5>3. QED BY <4>2, <4>3, <5>1, <5>2
      <4>5. mem'[j] = mem[j]
        BY <1>4, <1>6, <2>5, <4>4
      <4>6. mem[j] = WordByte(w[m], k)
        BY <3>1, <4>1, <4>3, Zenon DEF WordAt
      <4>7. QED BY <4>1, <4>3, <4>5, <4>6, Zenon
    <3>3. QED BY <1>4, <3>2, Zenon DEF WordAt
  <2>7. QED BY <2>1, <2>2, <2>3, <2>5, <2>6, Zenon DEF WordsWritten
<1>9. sp' >= base' => ReturnAt(sp)'
  <2>1. SUFFICES ASSUME sp' >= base', NEW k \in 0 .. WORD - 1
                 PROVE  mem'[sp' - base' + k] = ReturnByte(k)
    BY DEF ReturnAt
  <2>2. PICK j : j = sp - WORD - base + k
    OBVIOUS
  <2>3. j \in DOMAIN mem
    BY <1>1, <1>4, <1>5, <2>1, <2>2
  <2>4. mem'[j] = ReturnByte(k)
    BY <2>2, <2>3, ReturnBelow
  <2>5. sp' - base' + k = j
    BY <1>1, <1>4, <1>5, <2>2
  <2>6. QED BY <2>4, <2>5
<1>10. StackBuilt' /\ PagesDone'
  BY <1>1, <1>5, <1>7, <1>8, <1>9 DEF StackBuilt, PagesDone
<1>11. QED BY <1>1, <1>4, <1>10, StackInv DEF InMemory

LEMMA NextLoaderInv == LoaderInv /\ [Next]_vars => LoaderInv'
<1> SUFFICES ASSUME LoaderInv, [Next]_vars PROVE LoaderInv'
  OBVIOUS
<1>1. CASE parse_elf64 \/ parsed
  BY <1>1, ParseKeepsInv
<1>2. CASE read_phdr
  BY <1>2, ReadPhdrKeepsInv
<1>3. CASE scan
  BY <1>3, ScanKeepsInv
<1>4. CASE copy_segment \/ copied
  BY <1>4, CopyKeepsInv
<1>5. CASE start_stack
  BY <1>5, StartKeepsInv
<1>6. CASE push_argv
  BY <1>6, PushArgvKeepsInv
<1>7. CASE push_envp
  BY <1>7, PushEnvpKeepsInv
<1>8. CASE write_words
  BY <1>8, WriteWordsKeepsInv
<1>9. CASE native_entry \/ interp_entry
  BY <1>9, EntryKeepsInv
<1>10. CASE make_executable
  BY <1>10, ExecutableKeepsInv
<1>11. CASE native_enter
  BY <1>11, EnterKeepsInv
<1>12. CASE Done \/ UNCHANGED vars
  BY <1>12, StutterKeepsInv DEF Done
<1>13. QED BY <1>1, <1>2, <1>3, <1>4, <1>5, <1>6, <1>7, <1>8, <1>9, <1>10, <1>11, <1>12 DEF Next

\* The inductive invariant of the loader holds in every reachable state.
THEOREM LoaderInvariant == Spec => []LoaderInv
<1>1. LoaderInv /\ [Next]_vars => LoaderInv'
  BY NextLoaderInv
<1>2. QED BY InitLoaderInv, <1>1, PTL DEF Spec

\* Whatever e_phoff and e_phnum a file claims, parse_elf64 reads no program header that
\* is not wholly inside it.
THEOREM ParserReadsInside == Spec => []HeadersInsideFile
<1>1. LoaderInv => HeadersInsideFile
  BY DEF LoaderInv
<1>2. QED BY <1>1, LoaderInvariant, PTL

LEMMA StringsRead ==
  ASSUME NEW list, NEW strings \in Seq(Nat), NEW ptrs, Pushed(list, strings, ptrs, 0)
  PROVE  /\ ptrs \in Seq(Int) /\ Len(ptrs) = Len(strings) /\ Len(strings) \in Nat
         /\ \A i \in 1 .. Len(strings) : CString(ptrs[i], StringOf(list, i, strings[i]))
<1>1. Len(strings) \in Nat /\ ptrs \in Seq(Int) /\ Len(ptrs) = Len(strings) - 0
  BY LenProperties DEF Pushed
<1>2. Len(ptrs) = Len(strings)
  BY <1>1
<1>3. ASSUME NEW i \in 1 .. Len(strings) PROVE CString(ptrs[i], StringOf(list, i, strings[i]))
  <2>1. 0 + i = i
    BY <1>1
  <2>2. CString(ptrs[i], StringOf(list, 0 + i, strings[0 + i]))
    BY <1>2 DEF Pushed
  <2>3. QED BY <2>1, <2>2
<1>4. QED BY <1>1, <1>2, <1>3

\* The addresses at which a program looks for its n arguments and m variables.
Addresses(s, n, m, w) ==
  /\ s + (1 - 1) * w = s /\ s + ((n + 2) - 1) * w = s + (n + 1) * w
  /\ s + (n + 2) * w + m * w = s + ((n + m + 3) - 1) * w
  /\ \A i \in 1 .. n : (1 + i) - 1 = i
  /\ \A i \in 1 .. m : s + (n + 2) * w + (i - 1) * w = s + (((n + 2) + i) - 1) * w

LEMMA Scaled ==
  ASSUME NEW s \in Int, NEW n \in Nat, NEW m \in Nat, NEW w \in Nat
  PROVE  Addresses(s, n, m, w)
<1>1. s + (1 - 1) * w = s /\ s + ((n + 2) - 1) * w = s + (n + 1) * w
  OBVIOUS
<1>2. s + (n + 2) * w + m * w = s + ((n + m + 3) - 1) * w
  OBVIOUS
<1>3. ASSUME NEW i \in 1 .. m PROVE s + (n + 2) * w + (i - 1) * w = s + (((n + 2) + i) - 1) * w
  OBVIOUS
<1>4. \A i \in 1 .. n : (1 + i) - 1 = i
  OBVIOUS
<1>5. QED BY <1>1, <1>2, <1>3, <1>4, Zenon DEF Addresses

LEMMA Positions ==
  ASSUME NEW n \in Nat, NEW m \in Nat
  PROVE  /\ 1 \in 1 .. n + m + 7 /\ n + 2 \in 1 .. n + m + 7 /\ n + m + 3 \in 1 .. n + m + 7
         /\ \A i \in 1 .. n : 1 + i \in 1 .. n + m + 7
         /\ \A i \in 1 .. m : (n + 2) + i \in 1 .. n + m + 7
OBVIOUS

\* An interpreted program finds argc at its stack pointer; a native one finds there the
\* return address leonos3_native_enter has pushed, and argc one word above.  Both read
\* back their argument pointers, environment pointers and every string as
\* build_initial_stack was given them, for lists and memories of any size: the pushes
\* that reach the end, and the call, have damaged nothing.
THEOREM StackIsReadBack == Spec => []StackReadsBack
<1>1. LoaderInv => StackReadsBack
  <2>1. SUFFICES ASSUME LoaderInv, stage = "Run" PROVE StackReadsBack
    BY Zenon DEF StackReadsBack
  <2>2. /\ Pushed("argv", args.argv, arg_ptrs, 0) /\ Pushed("envp", args.envp, env_ptrs, 0)
        /\ sp \in Int /\ WordsWritten /\ (runner = "native" /\ sp >= base => ReturnAt(sp))
    BY <2>1 DEF LoaderInv, StackBuilt
  <2>3. args.argv \in Seq(Nat) /\ args.envp \in Seq(Nat)
    BY <2>1, ListsAreStrings
  <2>4. PICK n \in Nat, m \in Nat : n = Len(args.argv) /\ m = Len(args.envp)
    BY <2>1, ListsAreStrings
  <2>4a. WORD \in Nat
    BY Sizes
  <2>4b. PICK a \in Int : a = (IF runner = "native" THEN sp + WORD ELSE sp) /\ a = user_rsp
    BY <2>1, <2>2, <2>4a DEF user_rsp
  <2>5. /\ arg_ptrs \in Seq(Int) /\ Len(arg_ptrs) = n
        /\ \A i \in 1 .. n : CString(arg_ptrs[i], StringOf("argv", i, args.argv[i]))
    BY <2>2, <2>3, <2>4, StringsRead, Zenon
  <2>6. /\ env_ptrs \in Seq(Int) /\ Len(env_ptrs) = m
        /\ \A i \in 1 .. m : CString(env_ptrs[i], StringOf("envp", i, args.envp[i]))
    BY <2>2, <2>3, <2>4, StringsRead, Zenon
  <2>7. Lists(words, arg_ptrs, env_ptrs, n, m)
    BY <2>5, <2>6, StackWords, Zenon
  <2>8. /\ Len(words) = n + m + 7 /\ words[1] = n
        /\ \A i \in 1 .. n : words[1 + i] = arg_ptrs[i]
        /\ words[n + 2] = 0
        /\ \A i \in 1 .. m : words[(n + 2) + i] = env_ptrs[i]
        /\ words[n + m + 3] = 0
    BY <2>7, Zenon DEF Lists
  <2>9. \A k \in 1 .. n + m + 7 : WordAt(a + (k - 1) * WORD, words[k])
    BY <2>2, <2>4b, <2>8, Zenon DEF WordsWritten
  <2>10. /\ a + (1 - 1) * WORD = a /\ a + ((n + 2) - 1) * WORD = a + (n + 1) * WORD
         /\ a + (n + 2) * WORD + m * WORD = a + ((n + m + 3) - 1) * WORD
         /\ \A i \in 1 .. n : (1 + i) - 1 = i
         /\ \A i \in 1 .. m :
              a + (n + 2) * WORD + (i - 1) * WORD = a + (((n + 2) + i) - 1) * WORD
    <3>1. Addresses(a, n, m, WORD)
      BY <2>4, <2>4a, <2>4b, Scaled, Zenon
    <3>2. QED BY <3>1, Zenon DEF Addresses
  <2>11. /\ 1 \in 1 .. n + m + 7 /\ n + 2 \in 1 .. n + m + 7 /\ n + m + 3 \in 1 .. n + m + 7
         /\ \A i \in 1 .. n : 1 + i \in 1 .. n + m + 7
         /\ \A i \in 1 .. m : (n + 2) + i \in 1 .. n + m + 7
    BY <2>4, Positions, Zenon
  <2>12. WordAt(a, n)
    BY <2>8, <2>9, <2>10, <2>11, Zenon
  <2>13. ASSUME NEW i \in 1 .. n PROVE WordAt(a + i * WORD, arg_ptrs[i])
    BY <2>8, <2>9, <2>10, <2>11, Zenon
  <2>14. WordAt(a + (n + 1) * WORD, 0)
    BY <2>8, <2>9, <2>10, <2>11, Zenon
  <2>15. ASSUME NEW i \in 1 .. m PROVE WordAt(a + (n + 2) * WORD + (i - 1) * WORD, env_ptrs[i])
    BY <2>8, <2>9, <2>10, <2>11, Zenon
  <2>16. WordAt(a + (n + 2) * WORD + m * WORD, 0)
    BY <2>8, <2>9, <2>10, <2>11, Zenon
  <2>17. DOMAIN args.envp = 1 .. m
    BY <2>3, <2>4, LenProperties
  <2>18. QED BY <2>2, <2>4, <2>4b, <2>5, <2>6, <2>12, <2>13, <2>14, <2>15, <2>16, <2>17, Zenon DEF StackReadsBack
<1>2. QED BY <1>1, LoaderInvariant, PTL

\* The pages with a byte of the memory are the ones the loop goes through.
LEMMA RegionIsRange ==
  ASSUME MemoryShape, runner = "native"
  PROVE  RegionPages = Page(base) .. last_page
<1>1. runner \in Runners
  BY DEF Runners
<1>2. PICK n \in Nat \ {0} : n = mem_len /\ DOMAIN mem = 0 .. n - 1
  BY <1>1, MemLen
<1>3. PICK b \in Nat : b = base
  BY DEF MemoryShape
<1>4. PAGE \in Nat \ {0}
  BY Sizes
<1>5. last_page = (b + n - 1) \div PAGE /\ Page(base) = b \div PAGE
  BY <1>2, <1>3 DEF last_page, Page
<1>6. ASSUME NEW i \in 0 .. n - 1 PROVE (b + i) \div PAGE \in b \div PAGE .. (b + n - 1) \div PAGE
  <2>1. b + i \in Int /\ b <= b + i /\ b + i <= b + n - 1 /\ b + n - 1 \in Int
    OBVIOUS
  <2>2. b \div PAGE <= (b + i) \div PAGE /\ (b + i) \div PAGE <= (b + n - 1) \div PAGE
    BY <1>4, <2>1, QuotientMonotonic
  <2>3. b \div PAGE \in Int /\ (b + i) \div PAGE \in Int /\ (b + n - 1) \div PAGE \in Int
    BY <1>4, <2>1, Division
  <2>4. QED BY <2>2, <2>3
<1>7. ASSUME NEW p \in b \div PAGE .. (b + n - 1) \div PAGE
      PROVE  \E i \in 0 .. n - 1 : p = (b + i) \div PAGE
  <2>1. PICK f \in Int, g \in 0 .. PAGE - 1 : f = b \div PAGE /\ g = b % PAGE /\ b = f * PAGE + g
    BY <1>4, Division
  <2>2. CASE p = f
    <3>1. 0 \in 0 .. n - 1 /\ b + 0 = b
      OBVIOUS
    <3>2. QED BY <2>1, <2>2, <3>1
  <2>3. CASE p # f
    <3>1. PICK l \in Int, h \in 0 .. PAGE - 1 :
            l = (b + n - 1) \div PAGE /\ b + n - 1 = l * PAGE + h
      BY <1>4, Division
    <3>2. p \in Int /\ f + 1 <= p /\ p <= l
      BY <2>1, <2>3, <3>1
    <3>3. p * PAGE \in Int /\ l * PAGE \in Int /\ f * PAGE \in Int
      BY <1>4, <2>1, <3>1, <3>2
    <3>4. p * PAGE <= l * PAGE
      BY <1>4, <3>1, <3>2
    <3>5. f * PAGE + PAGE <= p * PAGE
      <4>1. (f + 1) * PAGE <= p * PAGE
        BY <1>4, <2>1, <3>2
      <4>2. (f + 1) * PAGE = f * PAGE + PAGE
        BY <1>4, <2>1
      <4>3. QED BY <4>1, <4>2
    <3>6. p * PAGE - b \in 0 .. n - 1 /\ b + (p * PAGE - b) = p * PAGE
      BY <1>4, <2>1, <3>1, <3>3, <3>4, <3>5
    <3>7. (p * PAGE) \div PAGE = p
      <4>1. 0 \in 0 .. PAGE - 1 /\ p * PAGE + 0 = p * PAGE
        BY <1>4, <3>3
      <4>2. (p * PAGE + 0) \div PAGE = p
        BY <1>4, <3>2, <4>1, Quotient
      <4>3. QED BY <4>1, <4>2
    <3>8. QED BY <3>6, <3>7
  <2>4. QED BY <2>2, <2>3
<1>8. RegionPages = {(b + i) \div PAGE : i \in 0 .. n - 1}
  BY <1>2, <1>3 DEF RegionPages, Page
<1>9. QED BY <1>5, <1>6, <1>7, <1>8

\* ensure_region_executable reaches every page that holds a byte of the memory and no
\* other, wherever the heap has put the memory and whatever the boot loader has mapped.
THEOREM RegionIsExecutable == Spec => RegionExecutable
<1>1. LoaderInv /\ [Next]_vars =>
        [/\ stage' = "Run" /\ runner = "native" =>
              \A p \in RegionPages' : pages'.flags[p] = "x"
         /\ \A p \in DOMAIN pages.flags :
              pages'.flags[p] # pages.flags[p] => p \in RegionPages]_vars
  <2>0. SUFFICES
          ASSUME LoaderInv, Next, ~(UNCHANGED vars)
          PROVE  /\ stage' = "Run" /\ runner = "native" =>
                      \A p \in RegionPages' : pages'.flags[p] = "x"
                 /\ \A p \in DOMAIN pages.flags :
                      pages'.flags[p] # pages.flags[p] => p \in RegionPages
    OBVIOUS
  <2>1. CASE make_executable
    <3>1. stage = "exec" /\ UNCHANGED <<base, mem>>
      BY <2>1 DEF make_executable, Fail, layout
    <3>2. /\ RegionPages = Page(base) .. last_page /\ RegionPages' = RegionPages
          /\ next \in Int /\ last_page \in Int /\ Page(base) \in Int
          /\ Page(base) <= next /\ next <= last_page + 1
          /\ \A p \in Page(base) .. next - 1 : pages.flags[p] = "x"
      BY <2>0, <3>1, PageLoop, RegionIsRange DEF RegionPages
    <3>3. CASE Fail("Err")
      BY <3>3 DEF Fail
    <3>4. CASE ~Fail("Err") /\ next > last_page
      <4>1. pages' = pages
        BY <2>1, <3>4 DEF make_executable
      <4>2. Page(base) .. next - 1 = Page(base) .. last_page
        BY <3>2, <3>4
      <4>3. QED BY <3>2, <4>1, <4>2
    <3>5. CASE ~Fail("Err") /\ ~(next > last_page)
      <4>1. stage' = "exec" /\ pages' = [pages EXCEPT !.flags[next] = "x"]
        BY <2>1, <3>5 DEF make_executable
      <4>2. pages \in PageTableType
        BY <2>0 DEF LoaderInv
      <4>3. \A p \in DOMAIN pages.flags : p # next => pages'.flags[p] = pages.flags[p]
        BY <4>1, <4>2 DEF PageTableType
      <4>4. next \in RegionPages
        BY <3>2, <3>5
      <4>5. QED BY <4>1, <4>3, <4>4
    <3>6. QED BY <3>3, <3>4, <3>5
  <2>2. CASE native_enter
    <3>1. stage = "enter" /\ pages' = pages /\ base' = base /\ DOMAIN mem' = DOMAIN mem
      BY <2>0, <2>2, ReturnBelow DEF native_enter
    <3>2. RegionPages' = RegionPages
      BY <3>1 DEF RegionPages
    <3>3. /\ RegionPages = Page(base) .. last_page
          /\ \A p \in Page(base) .. next - 1 : pages.flags[p] = "x"
          /\ next = last_page + 1 /\ last_page \in Int
      BY <2>0, <3>1, PageLoop, RegionIsRange
    <3>4. next - 1 = last_page
      BY <3>3
    <3>5. QED BY <3>1, <3>2, <3>3, <3>4
  <2>3. CASE ~make_executable /\ ~native_enter
    <3>1. pages' = pages /\ ~(stage' = "Run" /\ runner = "native")
      BY <2>0, <2>3 DEF Next, Done, parse_elf64, read_phdr, parsed, scan, copy_segment, copied,
         start_stack, push_argv, push_envp, push_cstr, write_words, native_entry, interp_entry, Fail
    <3>2. QED BY <3>1
  <2>4. QED BY <2>1, <2>2, <2>3
<1>2. QED BY <1>1, LoaderInvariant, PTL DEF Spec, RegionExecutable
-----------------------------------------------------------------------------
(* The image, and the room for the stack above it *)

\* bytes adds up the strings of a list of n, each with its zero.
AddsUp(bytes, strings, n) ==
  /\ bytes \in [0 .. n -> Nat] /\ bytes[0] = 0
  /\ \A i \in 1 .. n : bytes[i] = bytes[i - 1] + strings[i] + 1

LEMMA Summable ==
  ASSUME NEW s \in Seq(Nat), NEW n \in 0 .. Len(s)
  PROVE  \E g : AddsUp(g, s, n)
<1>1. Len(s) \in Nat /\ \A i \in 1 .. Len(s) : s[i] \in Nat
  BY LenProperties, ElementOfSeq
<1> DEFINE S == {k \in 0 .. Len(s) : ~ \E g : AddsUp(g, s, k)}
<1>2. SUFFICES ASSUME S # {} PROVE FALSE
  OBVIOUS
<1>3. S \in SUBSET Nat
  BY <1>1
<1>4. PICK m \in S : \A y \in S : m <= y
  BY <1>2, <1>3, LeastOf
<1> HIDE DEF S
<1>5. m \in 0 .. Len(s) /\ ~ \E g : AddsUp(g, s, m)
  BY <1>4 DEF S
<1>6. m # 0
  <2>1. PICK z : z = [i \in 0 .. 0 |-> 0]
    OBVIOUS
  <2>2. AddsUp(z, s, 0)
    BY <2>1 DEF AddsUp
  <2>3. QED BY <1>5, <2>2
<1>7. m - 1 \in 0 .. Len(s) /\ m - 1 \notin S
  BY <1>1, <1>4, <1>5, <1>6
<1>8. PICK g : AddsUp(g, s, m - 1)
  BY <1>7 DEF S
<1>9. g \in [0 .. m - 1 -> Nat] /\ g[0] = 0 /\ \A i \in 1 .. m - 1 : g[i] = g[i - 1] + s[i] + 1
  BY <1>8 DEF AddsUp
<1>10. PICK h : h = [i \in 0 .. m |-> IF i = m THEN g[m - 1] + s[m] + 1 ELSE g[i]]
  OBVIOUS
<1>11. s[m] \in Nat /\ g[m - 1] \in Nat /\ m \in Nat
  BY <1>1, <1>5, <1>6, <1>9
<1>12. h \in [0 .. m -> Nat]
  BY <1>9, <1>10, <1>11
<1>13. h[0] = 0
  BY <1>6, <1>9, <1>10, <1>11
<1>14. ASSUME NEW i \in 1 .. m PROVE h[i] = h[i - 1] + s[i] + 1
  <2>1. h[i - 1] = g[i - 1]
    BY <1>10, <1>11
  <2>2. CASE i = m
    BY <1>10, <1>11, <2>1, <2>2
  <2>3. CASE i # m
    <3>1. i \in 1 .. m - 1 /\ h[i] = g[i]
      BY <1>10, <1>11, <2>3
    <3>2. QED BY <1>9, <2>1, <3>1
  <2>4. QED BY <2>2, <2>3
<1>15. AddsUp(h, s, m)
  BY <1>12, <1>13, <1>14 DEF AddsUp
<1>16. QED BY <1>5, <1>15

\* What BytesUpTo computes.
LEMMA BytesAddUp ==
  ASSUME NEW s \in Seq(Nat)
  PROVE  AddsUp(BytesUpTo(s), s, Len(s)) /\ Bytes(s) \in Nat
<1>1. PICK n \in Nat : n = Len(s)
  BY LenProperties
<1>2. PICK g : AddsUp(g, s, n)
  <2>1. n \in 0 .. Len(s)
    BY <1>1
  <2>2. QED BY <2>1, Summable
<1>3. g = [i \in 0 .. n |-> IF i = 0 THEN 0 ELSE g[i - 1] + s[i] + 1]
  <2>1. \A i \in 0 .. n : i # 0 => i \in 1 .. n
    BY <1>1
  <2>2. QED BY <1>1, <1>2, <2>1 DEF AddsUp
<1>4. PICK t : t = BytesUpTo(s)
  OBVIOUS
<1>5. t = [i \in 0 .. n |-> IF i = 0 THEN 0 ELSE t[i - 1] + s[i] + 1]
  BY <1>1, <1>3, <1>4, Zenon DEF BytesUpTo
<1>6. \A i \in 0 .. n : t[i] = g[i]
  <2> DEFINE S == {i \in 0 .. n : t[i] # g[i]}
  <2>1. SUFFICES ASSUME S # {} PROVE FALSE
    OBVIOUS
  <2>2. PICK m \in S : \A y \in S : m <= y
    <3>1. S \in SUBSET Nat
      OBVIOUS
    <3>2. QED BY <2>1, <3>1, LeastOf
  <2>3. m \in 0 .. n /\ t[m] # g[m]
    OBVIOUS
  <2>4. m # 0
    <3>1. t[0] = 0 /\ g[0] = 0
      BY <1>2, <1>5 DEF AddsUp
    <3>2. QED BY <2>3, <3>1
  <2>5. m - 1 \in 0 .. n /\ ~(m <= m - 1)
    BY <2>3, <2>4
  <2>6. t[m - 1] = g[m - 1]
    BY <2>2, <2>5
  <2>7. t[m] = t[m - 1] + s[m] + 1 /\ g[m] = g[m - 1] + s[m] + 1
    <3>1. m \in 1 .. n
      BY <2>3, <2>4
    <3>2. t[m] = t[m - 1] + s[m] + 1
      BY <1>5, <2>3, <2>4, Zenon
    <3>3. QED BY <1>2, <3>1, <3>2 DEF AddsUp
  <2>8. QED BY <2>3, <2>6, <2>7
<1>7. t = g
  BY <1>2, <1>5, <1>6 DEF AddsUp
<1>8. AddsUp(t, s, n) /\ t[n] \in Nat
  BY <1>1, <1>2, <1>7 DEF AddsUp
<1>9. QED BY <1>1, <1>4, <1>8 DEF Bytes

\* A segment of a well-formed file lies at a of the image, m bytes of which f are in the file.
Lies(i, a, m, f) ==
  /\ a = segments[i].vaddr - min_vaddr /\ m = segments[i].mem_size /\ f = segments[i].file_size
  /\ a \in Nat /\ m \in Nat /\ f \in Nat /\ f <= m /\ a + m <= span
  /\ FilePart(i) = a .. a + f - 1

Extents ==
  /\ segments \in Seq(Phdrs) /\ segments # <<>> /\ min_vaddr = min_of(segments)
  /\ span = max_of(segments) - min_vaddr /\ span \in Nat

LEMMA SegmentLies ==
  ASSUME Extents, WellFormed, NEW i \in DOMAIN segments
  PROVE  \E a, m, f : Lies(i, a, m, f)
<1>1. segments[i] \in Phdrs
  BY ElementOfSeq, LenProperties DEF Extents
<1>2. PICK v \in Nat, m \in Nat, f \in Nat :
        v = segments[i].vaddr /\ m = segments[i].mem_size /\ f = segments[i].file_size
  BY <1>1, Sizes DEF Phdrs
<1>3. f <= m /\ v + m <= ADDR_MAX
  BY <1>2 DEF WellFormed
<1>4. saturating_add(v, m) = v + m
  BY <1>3, SaturatingAdd
<1>5. min_of(segments) <= v /\ v + m <= max_of(segments)
  BY <1>2, <1>4, Extent DEF Extents
<1>6. min_of(segments) \in Int /\ max_of(segments) \in Int
  BY Extent, Sizes DEF Extents
<1>7. PICK lo \in Int, hi \in Int : lo = min_vaddr /\ hi = max_of(segments) /\ span = hi - lo /\ lo <= v /\ v + m <= hi
  BY <1>5, <1>6 DEF Extents
<1>8. PICK a : a = v - lo
  OBVIOUS
<1>9. a \in Nat /\ a + m <= span
  BY <1>7, <1>8
<1>10. FilePart(i) = a .. a + f - 1
  BY <1>2, <1>7, <1>8 DEF FilePart
<1>11. Lies(i, a, m, f)
  BY <1>2, <1>3, <1>7, <1>8, <1>9, <1>10 DEF Lies
<1>12. QED BY <1>11

\* No two segments of a well-formed file share a byte.
LEMMA SegmentsApart ==
  ASSUME Extents, WellFormed, NEW i \in DOMAIN segments, NEW h \in DOMAIN segments, i # h,
         NEW a, NEW m, NEW f, Lies(i, a, m, f), NEW j \in a .. a + m - 1
  PROVE  j \notin FilePart(h)
<1>1. PICK b, n, g : Lies(h, b, n, g)
  BY SegmentLies
<1>2. \/ segments[i].vaddr + segments[i].mem_size <= segments[h].vaddr
      \/ segments[h].vaddr + segments[h].mem_size <= segments[i].vaddr
  BY DEF WellFormed
<1>3. PICK lo \in Int : lo = min_vaddr
  <2>1. min_of(segments) \in Int
    BY Extent, Sizes DEF Extents
  <2>2. QED BY <2>1 DEF Extents
<1>4. segments[i] \in Phdrs /\ segments[h] \in Phdrs
  BY ElementOfSeq, LenProperties DEF Extents
<1>5. PICK v \in Int, w \in Int : v = segments[i].vaddr /\ w = segments[h].vaddr
  BY <1>4, Sizes DEF Phdrs
<1>6. a = v - lo /\ b = w - lo /\ (v + m <= w \/ w + n <= v)
  BY <1>1, <1>2, <1>3, <1>5 DEF Lies
<1>7. m \in Nat /\ n \in Nat /\ g \in Nat /\ g <= n /\ FilePart(h) = b .. b + g - 1
  BY <1>1 DEF Lies
<1>8. a + m <= b \/ b + n <= a
  <2>1. m \in Nat /\ n \in Nat
    BY <1>7
  <2>2. CASE v + m <= w
    BY <1>3, <1>5, <1>6, <2>1, <2>2
  <2>3. CASE w + n <= v
    BY <1>3, <1>5, <1>6, <2>1, <2>3
  <2>4. QED BY <1>6, <2>2, <2>3
<1>9. a \in Int /\ b \in Int
  BY <1>3, <1>5, <1>6
<1>10. QED BY <1>7, <1>8, <1>9

LEMMA ExtentsHold ==
  ASSUME LoaderInv, ImageBuilt, stage \in InMemory
  PROVE  /\ Extents /\ MemoryShape /\ runner \in Runners /\ base \in Nat /\ span \in Nat
         /\ DOMAIN mem = 0 .. mem_len - 1 /\ mem_len \in Nat /\ span + 1 <= mem_len
         /\ DOMAIN segments = 1 .. Len(segments) /\ Len(segments) \in Nat
<1>1. MemoryShape /\ runner \in Runners /\ segments \in Seq(Phdrs)
  BY DEF LoaderInv
<1>2. base \in Nat /\ span \in Nat
  BY <1>1 DEF MemoryShape
<1>3. Extents
  BY <1>1, <1>2 DEF ImageBuilt, Extents
<1>4. mem_len = span + STACK_SIZE[runner] /\ mem_len \in Nat /\ DOMAIN mem = 0 .. mem_len - 1
  BY <1>1, MemLen
<1>5. STACK_SIZE[runner] \in Nat /\ STACK_SIZE[runner] >= ALIGN /\ ALIGN \in Nat \ {0}
  BY <1>1, Sizes
<1>6. span + 1 <= mem_len
  BY <1>2, <1>4, <1>5
<1>7. DOMAIN segments = 1 .. Len(segments) /\ Len(segments) \in Nat
  BY <1>1, LenProperties
<1>8. QED BY <1>1, <1>2, <1>3, <1>4, <1>6, <1>7

\* What lies below the stack stays.
LEMMA CopiedKept ==
  ASSUME Extents, WellFormed, NEW k, k \in 0 .. Len(segments), Copied(k),
         UNCHANGED <<segments, min_vaddr, span>>, \A j \in 0 .. span - 1 : mem'[j] = mem[j]
  PROVE  Copied(k)'
<1>1. \A i : FilePart(i)' = FilePart(i)
  BY DEF FilePart
<1>2. ASSUME NEW i \in 1 .. k, NEW j \in FilePart(i)
      PROVE  mem'[j] = FileByte(segments[i].file_offset + (j - (segments[i].vaddr - min_vaddr)))
  <2>1. i \in DOMAIN segments
    BY LenProperties DEF Extents
  <2>2. PICK a, m, f : Lies(i, a, m, f)
    BY <2>1, SegmentLies
  <2>3. j \in 0 .. span - 1
    <3>1. a \in Nat /\ m \in Nat /\ f \in Nat /\ f <= m /\ a + m <= span /\ j \in a .. a + f - 1
      BY <2>2 DEF Lies
    <3>2. span \in Nat
      BY DEF Extents
    <3>3. QED BY <3>1, <3>2
  <2>4. QED BY <2>3 DEF Copied
<1>3. ASSUME NEW j \in 0 .. span - 1, \A i \in 1 .. k : j \notin FilePart(i) PROVE mem'[j] = Zero
  BY <1>3 DEF Copied
<1>4. QED BY <1>1, <1>2, <1>3 DEF Copied

LEMMA WellFormedKept ==
  ASSUME UNCHANGED segments
  PROVE  WellFormed' = WellFormed
BY DEF WellFormed

LEMMA EarlyImageInv ==
  ASSUME stage \notin InMemory
  PROVE  ImageInv
BY DEF ImageInv, ImageBuilt, StackRoom, InMemory

LEMMA FailedImageInv ==
  ASSUME NEW how \in Failed, Fail(how)
  PROVE  ImageInv'
<1>1. stage' \notin InMemory
  BY DEF Fail, Failed, InMemory
<1>2. QED BY <1>1 DEF ImageInv, ImageBuilt, StackRoom, InMemory

LEMMA ScanImage ==
  ASSUME LoaderInv, scan
  PROVE  ImageInv'
<1>1. CASE Fail("Err") \/ Fail("FixedVaddrUnsupported")
  BY <1>1, FailedImageInv DEF Failed
<1>2. CASE ~(Fail("Err") \/ Fail("FixedVaddrUnsupported"))
  <2>0. PICK lo, hi : lo = min_of(segments) /\ hi = max_of(segments)
    OBVIOUS
  <2>1. /\ segments # <<>> /\ segments' = segments /\ min_vaddr' = lo /\ span' = hi - lo
        /\ mem' = [i \in 0 .. (hi - lo + STACK_SIZE[runner]) - 1 |-> Zero]
        /\ stage' = "copy" /\ next' = 1 /\ runner' = runner /\ ~(hi <= lo)
    BY <1>2, <2>0 DEF scan, input
  <2>2. /\ segments' # <<>> /\ min_vaddr' = min_of(segments') /\ span' = max_of(segments') - min_vaddr'
    BY <2>0, <2>1
  <2>3. ASSUME NEW j \in DOMAIN mem' PROVE mem'[j] = Zero
    BY <2>1
  <2>4. Zero[1] # "file"
    BY DEF Zero
  <2>5. 0 .. span' - 1 \subseteq DOMAIN mem'
    <3>1. lo \in 0 .. ADDR_MAX /\ hi \in 0 .. ADDR_MAX
      BY <2>0, <2>1, Extent DEF LoaderInv
    <3>2. STACK_SIZE[runner] \in Nat /\ ADDR_MAX \in Nat
      BY Sizes DEF LoaderInv
    <3>3. PICK n : n = (hi - lo + STACK_SIZE[runner]) - 1
      OBVIOUS
    <3>4. (hi - lo) - 1 <= n /\ n \in Int /\ hi - lo \in Int
      BY <3>1, <3>2, <3>3
    <3>5. DOMAIN mem' = 0 .. n
      BY <2>1, <3>3
    <3>6. QED BY <2>1, <3>4, <3>5
  <2>6. Copied(next - 1)'
    <3>1. next' - 1 = 0
      BY <2>1
    <3>2. Copied(0)'
      BY <2>3, <2>5 DEF Copied
    <3>3. QED BY <3>1, <3>2
  <2>7. next' \in 1 .. Len(segments') + 1
    BY <2>1, LenProperties DEF LoaderInv
  <2>8. ImageBuilt'
    BY <2>1, <2>2, <2>3, <2>4, <2>6, <2>7 DEF ImageBuilt
  <2>9. StackRoom'
    BY <2>1 DEF StackRoom
  <2>10. QED BY <2>8, <2>9 DEF ImageInv
<1>3. QED BY <1>1, <1>2

\* One more segment is in its place, and no other is touched.
LEMMA CopyImage ==
  ASSUME LoaderInv, ImageInv, copy_segment
  PROVE  ImageInv'
<1>1. CASE Fail("Err") \/ Fail("Halt")
  BY <1>1, FailedImageInv DEF Failed
<1>2. CASE ~(Fail("Err") \/ Fail("Halt"))
  <2>1. /\ stage = "copy" /\ stage' = "copy" /\ next \in DOMAIN segments /\ next' = next + 1
        /\ UNCHANGED <<input, layout>>
        /\ mem' = [x \in DOMAIN mem |->
                     IF x \in FilePart(next)
                     THEN FileByte(segments[next].file_offset + (x - (segments[next].vaddr - min_vaddr)))
                     ELSE mem[x]]
    BY <1>2 DEF copy_segment, file_len, FilePart
  <2>2. UNCHANGED <<segments, min_vaddr, span>> /\ (WellFormed' = WellFormed)
    BY <2>1, WellFormedKept DEF layout
  <2>3. ImageBuilt /\ stage \in InMemory
    BY <2>1 DEF ImageInv, InMemory
  <2>4. /\ Extents /\ span \in Nat /\ DOMAIN mem = 0 .. mem_len - 1 /\ mem_len \in Nat
        /\ span + 1 <= mem_len
        /\ DOMAIN segments = 1 .. Len(segments) /\ Len(segments) \in Nat
    BY <2>3, ExtentsHold
  <2>5. PICK n \in 1 .. Len(segments) : n = next
    BY <2>1, <2>4
  <2>6. next' \in 1 .. Len(segments') + 1 /\ next' - 1 = n
    BY <2>1, <2>2, <2>4, <2>5
  <2>7. \A i : FilePart(i)' = FilePart(i)
    BY <2>2 DEF FilePart
  <2>8. ASSUME WellFormed PROVE Copied(n)'
    <3>1. Copied(n - 1)
      BY <2>1, <2>3, <2>5, <2>8 DEF ImageBuilt
    <3>2. PICK a, m, f : Lies(n, a, m, f)
      BY <2>1, <2>4, <2>5, <2>8, SegmentLies
    <3>3. FilePart(n) = a .. a + f - 1 /\ a \in Nat /\ f \in Nat /\ m \in Nat /\ f <= m /\ a + m <= span
      BY <3>2 DEF Lies
    <3>4. FilePart(n) \subseteq DOMAIN mem /\ 0 .. span - 1 \subseteq DOMAIN mem
      BY <2>4, <3>3
    <3>5. ASSUME NEW i \in 1 .. n, NEW j \in FilePart(i)
          PROVE  mem'[j] = FileByte(segments[i].file_offset + (j - (segments[i].vaddr - min_vaddr)))
      <4>1. CASE i = n
        BY <2>1, <2>5, <3>4, <4>1
      <4>2. CASE i # n
        <5>1. i \in 1 .. n - 1 /\ i \in DOMAIN segments /\ n \in DOMAIN segments
          BY <2>4, <4>2
        <5>2. PICK b, p, g : Lies(i, b, p, g)
          BY <2>4, <2>8, <5>1, SegmentLies
        <5>3. FilePart(i) = b .. b + g - 1 /\ b \in Nat /\ g \in Nat /\ p \in Nat /\ g <= p /\ b + p <= span
          BY <5>2 DEF Lies
        <5>4. j \in b .. b + p - 1 /\ j \in DOMAIN mem
          BY <2>4, <5>3
        <5>5. j \notin FilePart(n)
          BY <2>4, <2>8, <4>2, <5>1, <5>2, <5>4, SegmentsApart
        <5>6. mem'[j] = mem[j]
          BY <2>1, <2>5, <5>4, <5>5
        <5>7. QED BY <3>1, <5>1, <5>6 DEF Copied
      <4>3. QED BY <4>1, <4>2
    <3>6. ASSUME NEW j \in 0 .. span - 1, \A i \in 1 .. n : j \notin FilePart(i) PROVE mem'[j] = Zero
      <4>1. j \notin FilePart(n) /\ \A i \in 1 .. n - 1 : j \notin FilePart(i)
        BY <3>6
      <4>2. mem'[j] = mem[j]
        BY <2>1, <2>5, <3>4, <4>1
      <4>3. QED BY <3>1, <4>1, <4>2 DEF Copied
    <3>7. QED BY <2>2, <2>7, <3>5, <3>6 DEF Copied
  <2>9. ASSUME WellFormed, NEW j \in DOMAIN mem', j >= span' PROVE mem'[j][1] # "file"
    <3>1. PICK a, m, f : Lies(n, a, m, f)
      BY <2>1, <2>4, <2>5, <2>9, SegmentLies
    <3>2. FilePart(n) = a .. a + f - 1 /\ a \in Nat /\ f \in Nat /\ m \in Nat /\ f <= m /\ a + m <= span
      BY <3>1 DEF Lies
    <3>3. j \in DOMAIN mem
      BY <2>1
    <3>4. j \notin FilePart(n)
      BY <2>2, <2>4, <2>9, <3>2, <3>3
    <3>5. mem'[j] = mem[j]
      BY <2>1, <2>5, <3>3, <3>4
    <3>6. QED BY <2>2, <2>3, <2>9, <3>3, <3>5 DEF ImageBuilt
  <2>10. ImageBuilt'
    <3>1. Copied(n)' => Copied(next - 1)'
      BY <2>6
    <3>2. segments' # <<>> /\ min_vaddr' = min_of(segments') /\ span' = max_of(segments') - min_vaddr'
      BY <2>2, <2>4 DEF Extents
    <3>3. QED BY <2>1, <2>2, <2>6, <2>8, <2>9, <3>1, <3>2 DEF ImageBuilt
  <2>11. StackRoom'
    BY <2>1 DEF StackRoom
  <2>12. QED BY <2>10, <2>11 DEF ImageInv
<1>3. QED BY <1>1, <1>2

LEMMA BelowStack ==
  ASSUME NEW s \in Int, NEW b \in Nat, NEW n \in Nat, NEW j \in 0 .. n - 1, s >= b + n
  PROVE  j < s - b
OBVIOUS

\* The steps behind the copying keep the image as long as they write above it.
LEMMA StackStepImage ==
  ASSUME LoaderInv, ImageBuilt, stage \in InMemory \ {"copy"},
         stage' \in InMemory \ {"copy", "stack"},
         UNCHANGED <<input, layout>>, DOMAIN mem' = DOMAIN mem, sp' \in Int,
         stage # "stack" => sp \in Int /\ sp' <= sp,
         \A j \in DOMAIN mem : /\ mem'[j] = mem[j] \/ mem'[j][1] # "file"
                               /\ j < sp' - base => mem'[j] = mem[j],
         stage' \in {"exec", "enter", "Run"} /\ runner = "native" /\ WellFormed =>
           entry' - base \in DOMAIN mem
  PROVE  ImageBuilt'
<1>1. /\ UNCHANGED <<segments, min_vaddr, span, base, runner>> /\ (WellFormed' = WellFormed)
  BY WellFormedKept DEF layout, input
<1>2. stage \in InMemory /\ stage' \in InMemory
  BY DEF InMemory
<1>3. /\ Extents /\ span \in Nat /\ base \in Nat /\ DOMAIN mem = 0 .. mem_len - 1 /\ mem_len \in Nat
      /\ span + 1 <= mem_len /\ Len(segments) \in Nat
  BY <1>2, ExtentsHold
<1>4. ASSUME WellFormed, NEW j \in DOMAIN mem', j >= span' PROVE mem'[j][1] # "file"
  <2>1. mem[j][1] # "file"
    BY <1>1, <1>2, <1>4 DEF ImageBuilt
  <2>2. QED BY <1>4, <2>1
<1>5. ASSUME WellFormed, sp' >= base' + span' PROVE Copied(Len(segments))'
  <2>1. stage = "stack" \/ sp >= base + span
    BY <1>1, <1>3, <1>5
  <2>2. Copied(Len(segments))
    BY <1>5, <2>1 DEF ImageBuilt, InMemory
  <2>3. ASSUME NEW j \in 0 .. span - 1 PROVE mem'[j] = mem[j]
    <3>1. j \in DOMAIN mem
      BY <1>3
    <3>2. j < sp' - base
      <4>1. sp' >= base + span
        BY <1>1, <1>5
      <4>2. QED BY <1>3, <4>1, BelowStack, Zenon
    <3>3. QED BY <3>1, <3>2
  <2>4. PICK k : k = Len(segments)
    OBVIOUS
  <2>5. k \in 0 .. Len(segments) /\ Len(segments') = k
    BY <1>1, <1>3, <2>4
  <2>6. Copied(k)'
    BY <1>1, <1>3, <1>5, <2>2, <2>3, <2>4, <2>5, CopiedKept
  <2>7. QED BY <2>5, <2>6
<1>6. segments' # <<>> /\ min_vaddr' = min_of(segments') /\ span' = max_of(segments') - min_vaddr'
  BY <1>1, <1>3 DEF Extents
<1>7. QED BY <1>1, <1>2, <1>4, <1>5, <1>6 DEF ImageBuilt

LEMMA CopiedImage ==
  ASSUME LoaderInv, ImageInv, copied
  PROVE  ImageInv'
<1>1. /\ stage = "copy" /\ stage' = "stack" /\ next \notin DOMAIN segments
      /\ UNCHANGED <<segments, min_vaddr, span, mem>>
  BY DEF copied, layout
<1>2. ImageBuilt /\ stage \in InMemory
  BY <1>1 DEF ImageInv, InMemory
<1>3. Extents /\ span \in Nat /\ DOMAIN segments = 1 .. Len(segments) /\ Len(segments) \in Nat
  BY <1>2, ExtentsHold
<1>4. next \in 1 .. Len(segments) + 1 /\ next - 1 = Len(segments)
  <2>1. next \in 1 .. Len(segments) + 1
    BY <1>1, <1>2 DEF ImageBuilt
  <2>2. QED BY <1>1, <1>3, <2>1
<1>5. WellFormed' = WellFormed
  BY <1>1, WellFormedKept
<1>6. ASSUME WellFormed PROVE Copied(Len(segments))'
  <2>1. PICK k : k = Len(segments)
    OBVIOUS
  <2>2. Copied(k)
    BY <1>1, <1>2, <1>4, <1>6, <2>1 DEF ImageBuilt
  <2>3. k \in 0 .. Len(segments) /\ Len(segments') = k
    BY <1>1, <1>3, <2>1
  <2>4. Copied(k)'
    BY <1>1, <1>3, <1>6, <2>2, <2>3, CopiedKept
  <2>5. QED BY <2>3, <2>4
<1>7. ImageBuilt'
  BY <1>1, <1>2, <1>5, <1>6 DEF ImageBuilt, InMemory
<1>8. StackRoom'
  BY <1>1 DEF StackRoom
<1>9. QED BY <1>7, <1>8 DEF ImageInv

\* What the room invariant says of lists a and e at each stage, in numbers.
LEMMA ListBytes ==
  ASSUME LoaderInv
  PROVE  /\ AddsUp(BytesUpTo(args.argv), args.argv, Len(args.argv)) /\ Bytes(args.argv) \in Nat
         /\ AddsUp(BytesUpTo(args.envp), args.envp, Len(args.envp)) /\ Bytes(args.envp) \in Nat
         /\ Bytes(args.argv) = BytesUpTo(args.argv)[Len(args.argv)]
         /\ Bytes(args.envp) = BytesUpTo(args.envp)[Len(args.envp)]
         /\ BytesUpTo(args.argv)[0] = 0 /\ BytesUpTo(args.envp)[0] = 0
<1>1. args.argv \in Seq(Nat) /\ args.envp \in Seq(Nat)
  BY ListsAreStrings
<1>2. /\ AddsUp(BytesUpTo(args.argv), args.argv, Len(args.argv)) /\ Bytes(args.argv) \in Nat
      /\ AddsUp(BytesUpTo(args.envp), args.envp, Len(args.envp)) /\ Bytes(args.envp) \in Nat
  BY <1>1, BytesAddUp
<1>3. QED BY <1>2 DEF AddsUp, Bytes

LEMMA AlignedAbove ==
  ASSUME NEW a \in Int
  PROVE  aligned(a) \in Int /\ aligned(a) > a - ALIGN
<1>1. a % ALIGN \in 0 .. ALIGN - 1
  BY Sizes, Division
<1>2. QED BY <1>1, Sizes DEF aligned

LEMMA TwiceBelow ==
  ASSUME NEW t \in Int, NEW b \in Nat, NEW d \in Nat, NEW z \in Nat, t > (b + d - z) - z
  PROVE  t + 0 > b + d - 2 * z
OBVIOUS

LEMMA StartImage ==
  ASSUME LoaderInv, ImageInv, start_stack
  PROVE  ImageInv'
<1>1. CASE Fail("Halt")
  BY <1>1, FailedImageInv DEF Failed
<1>2. CASE ~Fail("Halt")
  <2>1. /\ stage = "stack" /\ stage' = "argv" /\ sp' = aligned(base + mem_len - ALIGN)
        /\ next' = Len(args.argv) /\ UNCHANGED <<input, layout, mem>>
    BY <1>2 DEF start_stack
  <2>2. ImageBuilt /\ stage \in InMemory
    BY <2>1 DEF ImageInv, InMemory
  <2>3. base \in Nat /\ mem_len \in Nat
    BY <2>2, ExtentsHold
  <2>4. PICK x \in Int : x = base + mem_len - ALIGN
    BY <2>3, Sizes
  <2>5. sp' \in Int /\ sp' > x - ALIGN
    BY <2>1, <2>4, AlignedAbove
  <2>6. ImageBuilt'
    BY <2>1, <2>2, <2>5, StackStepImage DEF InMemory
  <2>7. StackRoom'
    <3>1. args' = args /\ base' = base /\ mem_len' = mem_len
      BY <2>1 DEF input, layout, mem_len
    <3>2. Bytes(args'.argv) - BytesUpTo(args'.argv)[next'] = 0
      BY <2>1, <3>1, ListBytes
    <3>3. sp' + 0 > base + mem_len - 2 * ALIGN
      <4>1. PICK z \in Nat, d \in Nat, b \in Nat, t \in Int :
              z = ALIGN /\ d = mem_len /\ b = base /\ t = sp' /\ t > (b + d - z) - z
        BY <2>3, <2>4, <2>5, Sizes
      <4>2. t + 0 > b + d - 2 * z
        BY <4>1, TwiceBelow, Zenon
      <4>3. QED BY <4>1, <4>2, Zenon
    <3>4. sp' + (Bytes(args'.argv) - BytesUpTo(args'.argv)[next']) > base' + mem_len' - 2 * ALIGN
      BY <3>1, <3>2, <3>3
    <3>5. QED BY <2>1, <3>4 DEF StackRoom
  <2>8. QED BY <2>6, <2>7 DEF ImageInv
<1>3. QED BY <1>1, <1>2

\* A push writes no byte of the file, and nothing below the new stack pointer.
LEMMA PushCells ==
  ASSUME NEW list \in {"argv", "envp"}, NEW i, NEW len, NEW to, NEW o
  PROVE  /\ mem' = with_cstr(o, list, i, len) /\ len \in Nat /\ o \in Int /\ o = to - base
         /\ \A j \in DOMAIN mem : j \in Int
         => /\ DOMAIN mem' = DOMAIN mem
            /\ \A j \in DOMAIN mem : /\ mem'[j] = mem[j] \/ mem'[j][1] # "file"
                                     /\ j < to - base => mem'[j] = mem[j]
<1>1. SUFFICES ASSUME mem' = with_cstr(o, list, i, len), len \in Nat, o \in Int, o = to - base,
                      \A j \in DOMAIN mem : j \in Int
               PROVE  /\ DOMAIN mem' = DOMAIN mem
                      /\ \A j \in DOMAIN mem : /\ mem'[j] = mem[j] \/ mem'[j][1] # "file"
                                               /\ j < to - base => mem'[j] = mem[j]
  BY Zenon
<1>2. mem' = [j \in DOMAIN mem |-> IF j \in o .. o + len - 1 THEN StringByte(list, i, j - o)
                                   ELSE IF j = o + len THEN Zero ELSE mem[j]]
  BY <1>1 DEF with_cstr
<1>3. \A k : StringByte(list, i, k)[1] # "file"
  BY DEF StringByte
<1>4. Zero[1] # "file"
  BY DEF Zero
<1>5. ASSUME NEW j \in DOMAIN mem
      PROVE  /\ mem'[j] = mem[j] \/ mem'[j][1] # "file"
             /\ j < o => mem'[j] = mem[j]
  <2>1. mem'[j] = mem[j] \/ mem'[j][1] # "file"
    BY <1>2, <1>3, <1>4
  <2>2. ASSUME j < o PROVE mem'[j] = mem[j]
    <3>1. j \notin o .. o + len - 1 /\ j # o + len
      BY <1>1, <2>2
    <3>2. QED BY <1>2, <3>1
  <2>3. QED BY <2>1, <2>2
<1>6. QED BY <1>1, <1>2, <1>5

\* With the stack pointer at s, the strings pushed of a list (all - t bytes) and of the
\* list before it (x bytes) reach up beyond top.
Room(s, x, all, t, top) == s + x + (all - t) > top

LEMMA RoomAfterPush ==
  ASSUME NEW s \in Int, NEW top \in Int, NEW x \in Nat, NEW all \in Nat, NEW t \in Nat, NEW u \in Nat,
         NEW len \in Nat, t = u + len + 1, Room(s, x, all, t, top)
  PROVE  Room(s - (len + 1), x, all, u, top)
BY DEF Room

LEMMA RoomOfFirst ==
  ASSUME NEW s \in Int, NEW top \in Int, NEW all \in Nat, NEW t \in Nat
  PROVE  Room(s, 0, all, t, top) <=> s + (all - t) > top
BY DEF Room

LEMMA PushArgvImage ==
  ASSUME LoaderInv, ImageInv, push_argv
  PROVE  ImageInv'
<1>1. CASE Fail("Err")
  BY <1>1, FailedImageInv DEF Failed
<1>2. CASE ~Fail("Err")
  <2>1. stage = "argv" /\ ImageBuilt /\ stage \in InMemory
    BY DEF push_argv, ImageInv, InMemory
  <2>2. next \in 0 .. Len(args.argv) /\ sp \in Int
    BY <2>1 DEF LoaderInv, StackBuilt
  <2>3. base \in Nat /\ mem_len \in Nat /\ DOMAIN mem = 0 .. mem_len - 1
    BY <2>1, ExtentsHold
  <2>4. PICK top \in Int : top = base + mem_len - 2 * ALIGN
    BY <2>3, Sizes
  <2>5. sp + (Bytes(args.argv) - BytesUpTo(args.argv)[next]) > top
    BY <2>1, <2>4 DEF ImageInv, StackRoom
  <2>6. PICK a \in Seq(Nat) : a = args.argv
    BY ListsAreStrings
  <2>7. PICK all \in Nat : all = Bytes(args.argv)
    BY ListBytes
  <2>8. PICK b : b = BytesUpTo(a) /\ AddsUp(b, a, Len(a)) /\ b[0] = 0
    BY <2>6, ListBytes
  <2>9. CASE next > 0
    <3>1. PICK n, len : n = next /\ len = a[n]
      OBVIOUS
    <3>2. n \in 1 .. Len(a) /\ Len(a) \in Nat
      BY <2>2, <2>6, <2>9, <3>1, LenProperties
    <3>3. len \in Nat
      BY <3>1, <3>2, ElementOfSeq
    <3>4. PICK t : t = sp - (len + 1)
      OBVIOUS
    <3>5. /\ mem' = with_cstr(t - base, "argv", n, len) /\ sp' = t /\ next' = n - 1
          /\ UNCHANGED <<stage, input, layout>>
      BY <1>2, <2>6, <2>9, <3>1, <3>4 DEF push_argv, push_cstr
    <3>6. t \in Int /\ t <= sp
      BY <2>2, <3>3, <3>4
    <3>7. /\ DOMAIN mem' = DOMAIN mem
          /\ \A j \in DOMAIN mem : /\ mem'[j] = mem[j] \/ mem'[j][1] # "file"
                                   /\ j < t - base => mem'[j] = mem[j]
      <4>1. PICK o : o = t - base
        OBVIOUS
      <4>2. o \in Int /\ \A j \in DOMAIN mem : j \in Int
        BY <2>3, <3>6, <4>1
      <4>3. "argv" \in {"argv", "envp"} /\ mem' = with_cstr(o, "argv", n, len)
        BY <3>5, <4>1
      <4>4. QED BY <3>3, <4>1, <4>2, <4>3, PushCells, Zenon
    <3>8. ImageBuilt'
      <4>1. stage' = "argv" /\ sp' \in Int /\ sp' <= sp
        BY <2>1, <3>5, <3>6
      <4>2. QED BY <2>1, <2>2, <3>5, <3>7, <4>1, StackStepImage
    <3>9. b[n] = b[n - 1] + len + 1 /\ b[n] \in Nat /\ b[n - 1] \in Nat
      <4>1. n \in 0 .. Len(a) /\ n - 1 \in 0 .. Len(a)
        BY <3>2
      <4>2. QED BY <2>8, <3>1, <3>2, <4>1 DEF AddsUp
    <3>10. sp + (all - b[n]) > top
      BY <2>5, <2>6, <2>7, <2>8, <3>1
    <3>11. t + (all - b[n - 1]) > top
      <4>1. PICK v \in Nat, u \in Nat : v = b[n] /\ u = b[n - 1] /\ v = u + len + 1
        BY <3>9
      <4>2. Room(sp, 0, all, v, top)
        BY <2>2, <2>4, <2>7, <3>10, <4>1, RoomOfFirst, Zenon
      <4>3. 0 \in Nat
        OBVIOUS
      <4>4. Room(t, 0, all, u, top)
        BY <2>2, <2>4, <2>7, <3>3, <3>4, <4>1, <4>2, <4>3, RoomAfterPush, Zenon
      <4>5. QED BY <2>4, <2>7, <3>6, <4>1, <4>4, RoomOfFirst, Zenon
    <3>12. args' = args /\ base' = base /\ mem_len' = mem_len
      BY <3>5, <3>7 DEF input, layout, mem_len
    <3>13. sp' + (Bytes(args'.argv) - BytesUpTo(args'.argv)[next']) > base' + mem_len' - 2 * ALIGN
      BY <2>4, <2>6, <2>7, <2>8, <3>5, <3>11, <3>12, Zenon
    <3>14. StackRoom'
      BY <2>1, <3>5, <3>13 DEF StackRoom
    <3>15. QED BY <3>8, <3>14 DEF ImageInv
  <2>10. CASE ~(next > 0)
    <3>1. stage' = "envp" /\ next' = Len(args.envp) /\ UNCHANGED <<input, layout, mem, stack>>
      BY <2>10 DEF push_argv
    <3>2. next = 0
      BY <2>2, <2>10, ListsAreStrings
    <3>3. args' = args /\ base' = base /\ mem_len' = mem_len /\ sp' = sp /\ mem' = mem
      BY <3>1 DEF input, layout, stack, mem_len
    <3>4. ImageBuilt'
      <4>1. sp' \in Int /\ sp' <= sp
        BY <2>2, <3>3
      <4>2. QED BY <2>1, <2>2, <3>1, <3>3, <4>1, StackStepImage DEF InMemory
    <3>5. Bytes(args'.envp) - BytesUpTo(args'.envp)[next'] = 0
      BY <3>1, <3>3, ListBytes
    <3>6. sp + all + 0 > top
      <4>1. sp + (all - 0) > top
        BY <2>5, <2>6, <2>7, <2>8, <3>2
      <4>2. QED BY <2>2, <2>4, <2>7, <4>1
    <3>7. sp' + Bytes(args'.argv) + (Bytes(args'.envp) - BytesUpTo(args'.envp)[next'])
            > base' + mem_len' - 2 * ALIGN
      BY <2>4, <2>7, <3>3, <3>5, <3>6, Zenon
    <3>8. StackRoom'
      BY <3>1, <3>7 DEF StackRoom
    <3>9. QED BY <3>4, <3>8 DEF ImageInv
  <2>11. QED BY <2>9, <2>10
<1>3. QED BY <1>1, <1>2

LEMMA PushEnvpImage ==
  ASSUME LoaderInv, ImageInv, push_envp
  PROVE  ImageInv'
<1>1. CASE Fail("Err")
  BY <1>1, FailedImageInv DEF Failed
<1>2. CASE ~Fail("Err")
  <2>1. stage = "envp" /\ ImageBuilt /\ stage \in InMemory
    BY DEF push_envp, ImageInv, InMemory
  <2>2. next \in 0 .. Len(args.envp) /\ sp \in Int
    BY <2>1 DEF LoaderInv, StackBuilt
  <2>3. base \in Nat /\ mem_len \in Nat /\ DOMAIN mem = 0 .. mem_len - 1
    BY <2>1, ExtentsHold
  <2>4. PICK top \in Int : top = base + mem_len - 2 * ALIGN
    BY <2>3, Sizes
  <2>5. sp + Bytes(args.argv) + (Bytes(args.envp) - BytesUpTo(args.envp)[next]) > top
    BY <2>1, <2>4 DEF ImageInv, StackRoom
  <2>6. PICK a \in Seq(Nat) : a = args.envp
    BY ListsAreStrings
  <2>7. PICK all \in Nat, x \in Nat : all = Bytes(args.envp) /\ x = Bytes(args.argv)
    BY ListBytes
  <2>8. PICK b : b = BytesUpTo(a) /\ AddsUp(b, a, Len(a)) /\ b[0] = 0
    BY <2>6, ListBytes
  <2>9. CASE next > 0
    <3>1. PICK n, len : n = next /\ len = a[n]
      OBVIOUS
    <3>2. n \in 1 .. Len(a) /\ Len(a) \in Nat
      BY <2>2, <2>6, <2>9, <3>1, LenProperties
    <3>3. len \in Nat
      BY <3>1, <3>2, ElementOfSeq
    <3>4. PICK t : t = sp - (len + 1)
      OBVIOUS
    <3>5. /\ mem' = with_cstr(t - base, "envp", n, len) /\ sp' = t /\ next' = n - 1
          /\ UNCHANGED <<stage, input, layout>>
      BY <1>2, <2>6, <2>9, <3>1, <3>4 DEF push_envp, push_cstr
    <3>6. t \in Int /\ t <= sp
      BY <2>2, <3>3, <3>4
    <3>7. /\ DOMAIN mem' = DOMAIN mem
          /\ \A j \in DOMAIN mem : /\ mem'[j] = mem[j] \/ mem'[j][1] # "file"
                                   /\ j < t - base => mem'[j] = mem[j]
      <4>1. PICK o : o = t - base
        OBVIOUS
      <4>2. o \in Int /\ \A j \in DOMAIN mem : j \in Int
        BY <2>3, <3>6, <4>1
      <4>3. "envp" \in {"argv", "envp"} /\ mem' = with_cstr(o, "envp", n, len)
        BY <3>5, <4>1
      <4>4. QED BY <3>3, <4>1, <4>2, <4>3, PushCells, Zenon
    <3>8. ImageBuilt'
      <4>1. stage' = "envp" /\ sp' \in Int /\ sp' <= sp
        BY <2>1, <3>5, <3>6
      <4>2. QED BY <2>1, <2>2, <3>5, <3>7, <4>1, StackStepImage
    <3>9. b[n] = b[n - 1] + len + 1 /\ b[n] \in Nat /\ b[n - 1] \in Nat
      <4>1. n \in 0 .. Len(a) /\ n - 1 \in 0 .. Len(a)
        BY <3>2
      <4>2. QED BY <2>8, <3>1, <3>2, <4>1 DEF AddsUp
    <3>10. sp + x + (all - b[n]) > top
      BY <2>5, <2>6, <2>7, <2>8, <3>1
    <3>11. t + x + (all - b[n - 1]) > top
      <4>1. PICK v \in Nat, u \in Nat : v = b[n] /\ u = b[n - 1] /\ v = u + len + 1
        BY <3>9
      <4>2. Room(sp, x, all, v, top)
        BY <3>10, <4>1, Zenon DEF Room
      <4>3. Room(t, x, all, u, top)
        BY <2>2, <2>4, <2>7, <3>3, <3>4, <4>1, <4>2, RoomAfterPush, Zenon
      <4>4. QED BY <4>1, <4>3, Zenon DEF Room
    <3>12. args' = args /\ base' = base /\ mem_len' = mem_len
      BY <3>5, <3>7 DEF input, layout, mem_len
    <3>13. sp' + Bytes(args'.argv) + (Bytes(args'.envp) - BytesUpTo(args'.envp)[next'])
             > base' + mem_len' - 2 * ALIGN
      BY <2>4, <2>6, <2>7, <2>8, <3>5, <3>11, <3>12, Zenon
    <3>14. StackRoom'
      BY <2>1, <3>5, <3>13 DEF StackRoom
    <3>15. QED BY <3>8, <3>14 DEF ImageInv
  <2>10. CASE ~(next > 0)
    <3>1. stage' = "words" /\ UNCHANGED <<input, layout, mem, stack>>
      BY <2>10 DEF push_envp
    <3>2. next = 0
      BY <2>2, <2>10, ListsAreStrings
    <3>3. args' = args /\ base' = base /\ mem_len' = mem_len /\ sp' = sp /\ mem' = mem
      BY <3>1 DEF input, layout, stack, mem_len
    <3>4. ImageBuilt'
      <4>1. sp' \in Int /\ sp' <= sp
        BY <2>2, <3>3
      <4>2. QED BY <2>1, <2>2, <3>1, <3>3, <4>1, StackStepImage DEF InMemory
    <3>5. sp + (x + all) > top
      <4>1. sp + x + (all - 0) > top
        BY <2>5, <2>6, <2>7, <2>8, <3>2
      <4>2. QED BY <2>2, <2>4, <2>7, <4>1
    <3>6. sp' + (Bytes(args'.argv) + Bytes(args'.envp)) > base' + mem_len' - 2 * ALIGN
      BY <2>4, <2>7, <3>3, <3>5, Zenon
    <3>7. StackRoom'
      BY <3>1, <3>6 DEF StackRoom
    <3>8. QED BY <3>4, <3>7 DEF ImageInv
  <2>11. QED BY <2>9, <2>10
<1>3. QED BY <1>1, <1>2

LEMMA RoomAfterWords ==
  ASSUME NEW s \in Int, NEW y \in Int, NEW x \in Nat, NEW z \in Nat, NEW al \in Nat, NEW top \in Int,
         s + x > top, y > s - al
  PROVE  (y - z) + x + z > top - al
OBVIOUS

LEMMA WriteWordsImage ==
  ASSUME LoaderInv, ImageInv, write_words
  PROVE  ImageInv'
<1>1. CASE Fail("Err")
  BY <1>1, FailedImageInv DEF Failed
<1>2. CASE ~Fail("Err")
  <2>1. stage = "words" /\ ImageBuilt /\ stage \in InMemory
    BY DEF write_words, ImageInv, InMemory
  <2>2. /\ Pushed("argv", args.argv, arg_ptrs, 0) /\ Pushed("envp", args.envp, env_ptrs, 0)
        /\ sp \in Int
    BY <2>1 DEF LoaderInv, StackBuilt
  <2>3. base \in Nat /\ mem_len \in Nat /\ DOMAIN mem = 0 .. mem_len - 1
    BY <2>1, ExtentsHold
  <2>4. PICK w, n, z, y, t, o : /\ w = words /\ n = Len(w) /\ z = n * WORD /\ y = aligned(sp)
                                /\ t = y - z /\ o = t - base
    OBVIOUS
  <2>5. /\ sp' = t /\ stage' = "entry"
        /\ mem' = [j \in DOMAIN mem |->
                     LET k == j - o
                     IN IF k \in 0 .. n * WORD - 1
                        THEN WordByte(w[k \div WORD + 1], k % WORD) ELSE mem[j]]
        /\ UNCHANGED <<input, layout>>
    BY <1>2, <2>4, Zenon DEF write_words
  <2>6. n = Len(args.argv) + Len(args.envp) + 7 /\ n \in Nat
    <3>1. args.argv \in Seq(Nat) /\ args.envp \in Seq(Nat)
      BY ListsAreStrings
    <3>2. /\ arg_ptrs \in Seq(Int) /\ Len(arg_ptrs) = Len(args.argv)
          /\ env_ptrs \in Seq(Int) /\ Len(env_ptrs) = Len(args.envp)
      BY <2>2, <3>1, StringsRead, Zenon
    <3>3. Lists(words, arg_ptrs, env_ptrs, Len(arg_ptrs), Len(env_ptrs))
      BY <3>2, StackWords
    <3>4. n = Len(args.argv) + Len(args.envp) + 7
      BY <2>4, <3>2, <3>3, Zenon DEF Lists
    <3>5. PICK p \in Nat, q \in Nat : p = Len(args.argv) /\ q = Len(args.envp)
      BY ListsAreStrings
    <3>6. p + q + 7 \in Nat
      OBVIOUS
    <3>7. QED BY <3>4, <3>5, <3>6, Zenon
  <2>7. z \in Nat
    <3>1. PICK p \in Nat, q \in Nat : p = n /\ q = WORD
      BY <2>6, Sizes
    <3>2. p * q \in Nat
      OBVIOUS
    <3>3. QED BY <2>4, <3>1, <3>2, Zenon
  <2>8. y \in Int /\ y <= sp /\ y > sp - ALIGN
    BY <2>2, <2>4, AlignedDown, AlignedAbove
  <2>9. t \in Int /\ t <= sp /\ o \in Int
    <3>1. t = y - z /\ o = t - base
      BY <2>4
    <3>2. QED BY <2>2, <2>3, <2>7, <2>8, <3>1
  <2>10. DOMAIN mem' = DOMAIN mem
    BY <2>5
  <2>11. ASSUME NEW j \in DOMAIN mem
         PROVE  /\ mem'[j] = mem[j] \/ mem'[j][1] # "file"
                /\ j < t - base => mem'[j] = mem[j]
    <3>1. ASSUME NEW v, NEW k PROVE WordByte(v, k)[1] # "file"
      BY DEF WordByte
    <3>2. mem'[j] = mem[j] \/ \E v, k : mem'[j] = WordByte(v, k)
      BY <2>5, Zenon
    <3>3. ASSUME j < o PROVE mem'[j] = mem[j]
      <4>1. j \in Int
        BY <2>3
      <4>2. j - o \notin 0 .. z - 1
        BY <2>7, <2>9, <3>3, <4>1
      <4>3. QED BY <2>4, <2>5, <4>2, Zenon
    <3>4. mem'[j] = mem[j] \/ mem'[j][1] # "file"
      BY <3>1, <3>2
    <3>5. QED BY <2>4, <3>3, <3>4, Zenon
  <2>12. ImageBuilt'
    <3>1. sp' \in Int /\ sp' <= sp
      BY <2>5, <2>9
    <3>2. \A j \in DOMAIN mem : /\ mem'[j] = mem[j] \/ mem'[j][1] # "file"
                                /\ j < sp' - base => mem'[j] = mem[j]
      BY <2>5, <2>11
    <3>3. UNCHANGED <<input, layout>> /\ stage' = "entry"
      BY <2>5
    <3>4. QED BY <2>1, <2>2, <2>10, <3>1, <3>2, <3>3, StackStepImage DEF InMemory
  <2>13. StackRoom'
    <3>1. PICK top \in Int : top = base + mem_len - 2 * ALIGN
      BY <2>3, Sizes
    <3>2. PICK x \in Nat : x = Bytes(args.argv) + Bytes(args.envp)
      BY ListBytes
    <3>3. sp + x > top
      BY <2>1, <3>1, <3>2 DEF ImageInv, StackRoom
    <3>4. ALIGN \in Nat
      BY Sizes
    <3>5. (y - z) + x + z > top - ALIGN
      BY <2>2, <2>7, <2>8, <3>1, <3>2, <3>3, <3>4, RoomAfterWords, Zenon
    <3>6. args' = args /\ base' = base /\ mem_len' = mem_len
      BY <2>5, <2>10 DEF input, layout, mem_len
    <3>7. sp' + (Bytes(args'.argv) + Bytes(args'.envp)) + (Len(args'.argv) + Len(args'.envp) + 7) * WORD
            > (base' + mem_len' - 2 * ALIGN) - ALIGN
      BY <2>4, <2>5, <2>6, <3>1, <3>2, <3>5, <3>6, Zenon
    <3>8. stage' = "entry"
      BY <2>5
    <3>9. user_rsp' = sp'
      BY <3>8 DEF user_rsp
    <3>10. QED BY <3>7, <3>8, <3>9 DEF StackRoom
  <2>14. QED BY <2>12, <2>13 DEF ImageInv
<1>3. QED BY <1>1, <1>2

\* The last steps change neither the memory nor the stack.
LEMMA QuietImage ==
  ASSUME LoaderInv, ImageInv, stage \in {"entry", "exec"}, stage' \in {"exec", "enter", "Run"},
         UNCHANGED <<input, layout, mem, stack>>,
         stage' = "Run" => runner = "interp",
         runner = "native" /\ WellFormed => entry' - base \in DOMAIN mem
  PROVE  ImageInv'
<1>1. UNCHANGED <<sp, mem, base, args, mem_len>> /\ sp \in Int /\ ImageBuilt
  BY DEF stack, layout, input, mem_len, LoaderInv, StackBuilt, ImageInv
<1>2. ImageBuilt'
  <2>1. sp' \in Int /\ sp' <= sp
    BY <1>1
  <2>2. QED BY <1>1, <2>1, StackStepImage DEF InMemory
<1>3. user_rsp' = user_rsp
  BY <1>1 DEF user_rsp, input
<1>4. StackRoom'
  BY <1>1, <1>3 DEF ImageInv, StackRoom
<1>5. QED BY <1>2, <1>4 DEF ImageInv

LEMMA EntryImage ==
  ASSUME LoaderInv, ImageInv, native_entry \/ interp_entry
  PROVE  ImageInv'
<1>1. CASE Fail("Err") \/ Fail("Halt")
  BY <1>1, FailedImageInv DEF Failed
<1>2. CASE interp_entry
  <2>1. stage = "entry" /\ runner = "interp" /\ stage' = "Run" /\ UNCHANGED <<input, layout, mem, stack>>
    BY <1>2 DEF interp_entry
  <2>2. QED BY <2>1, QuietImage
<1>3. CASE native_entry /\ ~(Fail("Err") \/ Fail("Halt"))
  <2>1. PICK at : at = file.entry - min_vaddr
    OBVIOUS
  <2>2. /\ stage = "entry" /\ at \in DOMAIN mem /\ stage' = "exec" /\ UNCHANGED <<input, layout, mem, stack>>
        /\ entry' = base + at + (IF IsEndbr(mem[at]) THEN 1 ELSE 0)
    BY <1>3, <2>1 DEF native_entry
  <2>3. stage \in InMemory /\ ImageBuilt
    BY <2>2 DEF InMemory, ImageInv
  <2>4. /\ base \in Nat /\ span \in Nat /\ mem_len \in Nat /\ DOMAIN mem = 0 .. mem_len - 1
        /\ span + 1 <= mem_len
    BY <2>3, ExtentsHold
  <2>5. ASSUME WellFormed PROVE entry' - base \in DOMAIN mem
    <3>1. CASE IsEndbr(mem[at])
      <4>1. mem[at][1] = "file"
        BY <3>1 DEF IsEndbr
      <4>2. ~(at >= span)
        BY <2>2, <2>3, <2>5, <4>1 DEF ImageBuilt
      <4>3. entry' = base + at + 1
        BY <2>2, <3>1
      <4>4. at \in Int
        BY <2>2, <2>4
      <4>5. (base + at + 1) - base \in 0 .. mem_len - 1
        BY <2>2, <2>4, <4>2, <4>4
      <4>6. QED BY <2>4, <4>3, <4>5
    <3>2. CASE ~IsEndbr(mem[at])
      <4>1. entry' = base + at + 0
        BY <2>2, <3>2
      <4>2. at \in Int
        BY <2>2, <2>4
      <4>3. (base + at + 0) - base = at
        BY <2>4, <4>2
      <4>4. QED BY <2>2, <4>1, <4>3
    <3>3. QED BY <3>1, <3>2
  <2>6. QED BY <2>2, <2>5, QuietImage
<1>4. QED BY <1>1, <1>2, <1>3

LEMMA ExecutableImage ==
  ASSUME LoaderInv, ImageInv, make_executable
  PROVE  ImageInv'
<1>1. CASE Fail("Err")
  BY <1>1, FailedImageInv DEF Failed
<1>2. CASE ~Fail("Err")
  <2>1. stage = "exec" /\ stage' \in {"exec", "enter"} /\ UNCHANGED <<input, layout, mem, stack, entry>>
    BY <1>2 DEF make_executable
  <2>2. runner = "native" /\ WellFormed => entry - base \in DOMAIN mem
    BY <2>1 DEF ImageInv, ImageBuilt
  <2>3. QED BY <2>1, <2>2, QuietImage
<1>3. QED BY <1>1, <1>2

LEMMA EnterImage ==
  ASSUME LoaderInv, ImageInv, native_enter
  PROVE  ImageInv'
<1>1. /\ stage = "enter" /\ stage' = "Run" /\ UNCHANGED <<input, layout, entry>>
      /\ mem' = with_return(sp - WORD - base)
  BY DEF native_enter
<1>2. /\ base \in Int /\ sp \in Int /\ DOMAIN mem = 0 .. mem_len - 1 /\ base' = base
      /\ sp' = sp - WORD /\ DOMAIN mem' = DOMAIN mem /\ mem_len \in Nat
      /\ \A j \in DOMAIN mem : j < sp - base - WORD => mem'[j] = mem[j]
  BY ReturnBelow
<1>3. WORD \in Nat /\ sp' \in Int /\ sp' <= sp
  BY <1>2, Sizes
<1>4. ASSUME NEW j \in DOMAIN mem
      PROVE  /\ mem'[j] = mem[j] \/ mem'[j][1] # "file"
             /\ j < sp' - base => mem'[j] = mem[j]
  <2>1. ASSUME NEW k PROVE ReturnByte(k)[1] # "file"
    BY DEF ReturnByte
  <2>2. mem'[j] = mem[j] \/ \E k : mem'[j] = ReturnByte(k)
    BY <1>1, Zenon DEF with_return
  <2>3. sp' - base = sp - base - WORD
    BY <1>2, <1>3
  <2>4. QED BY <1>2, <2>1, <2>2, <2>3
<1>5. runner = "native" /\ ImageBuilt /\ (WellFormed => entry' - base \in DOMAIN mem)
  BY <1>1 DEF LoaderInv, PagesDone, ImageInv, ImageBuilt
<1>6. ImageBuilt'
  BY <1>1, <1>2, <1>3, <1>4, <1>5, StackStepImage DEF InMemory
<1>7. user_rsp = sp /\ user_rsp' = sp
  <2>1. (sp - WORD) + WORD = sp
    BY <1>2, <1>3
  <2>2. QED BY <1>1, <1>2, <1>5, <2>1 DEF user_rsp, input
<1>8. StackRoom'
  <2>1. args' = args /\ mem_len' = mem_len
    BY <1>1, <1>2 DEF input, mem_len
  <2>2. QED BY <1>1, <1>2, <1>7, <2>1 DEF ImageInv, StackRoom
<1>9. QED BY <1>6, <1>8 DEF ImageInv

LEMMA StutterImage ==
  ASSUME ImageInv, UNCHANGED vars
  PROVE  ImageInv'
<1>1. /\ UNCHANGED <<stage, runner, args, segments, min_vaddr, span, base, mem, next, sp, entry>>
      /\ (WellFormed' = WellFormed) /\ mem_len' = mem_len
  BY WellFormedKept DEF vars, mem_len
<1>2. \A k : Copied(k)' = Copied(k)
  BY <1>1 DEF Copied, FilePart
<1>3. ImageBuilt'
  <2>1. PICK n, l : n = next /\ l = Len(segments)
    OBVIOUS
  <2>2. /\ Copied(n - 1) => Copied(n - 1)'
        /\ Copied(l) => Copied(l)'
    BY <1>2
  <2>3. next' = n /\ Len(segments') = l
    BY <1>1, <2>1
  <2>4. Copied(next - 1) => Copied(next - 1)'
    BY <2>1, <2>2, <2>3
  <2>5. Copied(Len(segments)) => Copied(Len(segments))'
    BY <2>1, <2>2, <2>3
  <2>6. QED BY <1>1, <2>4, <2>5 DEF ImageInv, ImageBuilt
<1>4. StackRoom'
  BY <1>1 DEF ImageInv, StackRoom, user_rsp
<1>5. QED BY <1>3, <1>4 DEF ImageInv

LEMMA NextImageInv == LoaderInv /\ ImageInv /\ [Next]_vars => ImageInv'
<1> SUFFICES ASSUME LoaderInv, ImageInv, [Next]_vars PROVE ImageInv'
  OBVIOUS
<1>1. CASE parse_elf64 \/ read_phdr \/ parsed
  <2>1. stage' \notin InMemory
    BY <1>1 DEF parse_elf64, read_phdr, parsed, Fail, InMemory
  <2>2. QED BY <2>1 DEF ImageInv, ImageBuilt, StackRoom, InMemory
<1>2. CASE scan
  BY <1>2, ScanImage
<1>3. CASE copy_segment
  BY <1>3, CopyImage
<1>4. CASE copied
  BY <1>4, CopiedImage
<1>5. CASE start_stack
  BY <1>5, StartImage
<1>6. CASE push_argv
  BY <1>6, PushArgvImage
<1>7. CASE push_envp
  BY <1>7, PushEnvpImage
<1>8. CASE write_words
  BY <1>8, WriteWordsImage
<1>9. CASE native_entry \/ interp_entry
  BY <1>9, EntryImage
<1>10. CASE make_executable
  BY <1>10, ExecutableImage
<1>11. CASE native_enter
  BY <1>11, EnterImage
<1>12. CASE Done \/ UNCHANGED vars
  BY <1>12, StutterImage DEF Done
<1>13. QED BY <1>1, <1>2, <1>3, <1>4, <1>5, <1>6, <1>7, <1>8, <1>9, <1>10, <1>11, <1>12 DEF Next

LEMMA EnoughRoom ==
  ASSUME NEW s \in Int, NEW r \in Int, NEW w \in Nat, r <= s + w,
         NEW b \in Nat, NEW d \in Nat, NEW t \in Nat, NEW x \in Nat, NEW z \in Nat,
         NEW al \in Nat, NEW need, NEW len,
         r + x + z > (b + len - 2 * al) - al, need = x + (z + w) + 3 * al, need <= t, len = d + t
  PROVE  s >= b + d
OBVIOUS

\* Lists that fit keep the stack above the image.
LEMMA StackAboveImage ==
  ASSUME LoaderInv, ImageInv, stage = "Run", StackNeed <= STACK_SIZE[runner]
  PROVE  sp >= base + span
<1>1. MemoryShape /\ runner \in Runners /\ base \in Nat /\ span \in Nat
  BY DEF LoaderInv, InMemory, MemoryShape
<1>2. mem_len = span + STACK_SIZE[runner] /\ STACK_SIZE[runner] \in Nat
  BY <1>1, MemLen
<1>3. sp \in Int
  BY DEF LoaderInv, StackBuilt
<1>4. PICK x \in Nat : x = Bytes(args.argv) + Bytes(args.envp)
  BY ListBytes
<1>5. PICK z \in Nat : /\ z = (Len(args.argv) + Len(args.envp) + 7) * WORD
                       /\ z + WORD = (Len(args.argv) + Len(args.envp) + 8) * WORD
  <2>1. PICK p \in Nat, q \in Nat, w \in Nat : p = Len(args.argv) /\ q = Len(args.envp) /\ w = WORD
    BY ListsAreStrings, Sizes
  <2>2. (p + q + 7) * w \in Nat /\ (p + q + 7) * w + w = (p + q + 8) * w
    OBVIOUS
  <2>3. QED BY <2>1, <2>2, Zenon
<1>6. user_rsp + x + z > (base + mem_len - 2 * ALIGN) - ALIGN
  BY <1>4, <1>5, Zenon DEF ImageInv, StackRoom
<1>7. StackNeed = x + (z + WORD) + 3 * ALIGN
  BY <1>4, <1>5, Zenon DEF StackNeed
<1>8. ALIGN \in Nat /\ WORD \in Nat
  BY Sizes
<1>9. user_rsp \in Int /\ user_rsp <= sp + WORD
  BY <1>3, <1>8 DEF user_rsp
<1>10. PICK r \in Int, t \in Nat, need \in Nat : r = user_rsp /\ t = STACK_SIZE[runner] /\ need = StackNeed
  <2>1. x + (z + WORD) + 3 * ALIGN \in Nat
    BY <1>8
  <2>2. StackNeed \in Nat
    BY <1>7, <2>1, Zenon
  <2>3. QED BY <1>2, <1>9, <2>2
<1>11. /\ r <= sp + WORD /\ r + x + z > (base + mem_len - 2 * ALIGN) - ALIGN
       /\ need = x + (z + WORD) + 3 * ALIGN /\ need <= t /\ mem_len = span + t
  BY <1>2, <1>6, <1>7, <1>9, <1>10
<1>12. QED BY <1>1, <1>3, <1>8, <1>11

\* j is byte k of a segment at a, of m bytes, f of them from the file, in an image of n.
Byte(j, a, m, f, n, k) ==
  /\ j \in a .. a + m - 1 /\ j \in 0 .. n - 1 /\ j - a = k
  /\ k < f <=> j \in a .. a + f - 1

LEMMA ByteOfSegment ==
  ASSUME NEW a \in Nat, NEW m \in Nat, NEW f \in Nat, NEW n \in Nat, NEW k \in 0 .. m - 1,
         f <= m, a + m <= n
  PROVE  Byte(a + k, a, m, f, n, k)
BY DEF Byte

\* The image a program starts with is the one its file describes, for every well-formed
\* file, with lists that fit into the stack or with a stack that ended above the image;
\* a native program starts inside its memory.
THEOREM ImageIsIntact == Spec => []ImageIntact
<1>1. LoaderInv /\ ImageInv => ImageIntact
  <2>1. SUFFICES ASSUME LoaderInv, ImageInv, stage = "Run", WellFormed,
                        StackNeed <= STACK_SIZE[runner] \/ sp >= base + span
                 PROVE  /\ \A i \in DOMAIN segments : \A k \in 0 .. segments[i].mem_size - 1 :
                             mem[segments[i].vaddr - min_vaddr + k] =
                               IF k < segments[i].file_size
                               THEN FileByte(segments[i].file_offset + k) ELSE Zero
                        /\ runner = "native" => entry - base \in DOMAIN mem
    BY Zenon DEF ImageIntact
  <2>2. sp >= base + span
    BY <2>1, StackAboveImage
  <2>3. stage \in InMemory /\ ImageBuilt
    BY <2>1 DEF InMemory, ImageInv
  <2>4. Extents /\ span \in Nat /\ DOMAIN segments = 1 .. Len(segments) /\ Len(segments) \in Nat
    BY <2>1, <2>3, ExtentsHold
  <2>5. Copied(Len(segments)) /\ (runner = "native" => entry - base \in DOMAIN mem)
    BY <2>1, <2>2, <2>3 DEF ImageBuilt
  <2>6. ASSUME NEW i \in DOMAIN segments, NEW k \in 0 .. segments[i].mem_size - 1
        PROVE  mem[segments[i].vaddr - min_vaddr + k] =
                 IF k < segments[i].file_size THEN FileByte(segments[i].file_offset + k) ELSE Zero
    <3>1. PICK a, m, f : Lies(i, a, m, f)
      BY <2>1, <2>4, SegmentLies
    <3>2. /\ a = segments[i].vaddr - min_vaddr /\ m = segments[i].mem_size /\ f = segments[i].file_size
          /\ a \in Nat /\ m \in Nat /\ f \in Nat /\ f <= m /\ a + m <= span /\ FilePart(i) = a .. a + f - 1
      BY <3>1 DEF Lies
    <3>3. PICK j : j = a + k
      OBVIOUS
    <3>4. k \in 0 .. m - 1
      BY <3>2
    <3>5. /\ j \in a .. a + m - 1 /\ j \in 0 .. span - 1 /\ j - a = k
          /\ k < f <=> j \in a .. a + f - 1
      <4>1. Byte(a + k, a, m, f, span, k)
        BY <2>4, <3>2, <3>4, ByteOfSegment, Zenon
      <4>2. QED BY <3>3, <4>1, Zenon DEF Byte
    <3>6. CASE k < f
      <4>1. j \in FilePart(i)
        BY <3>2, <3>5, <3>6, Zenon
      <4>2. mem[j] = FileByte(segments[i].file_offset + (j - a))
        BY <2>4, <2>5, <3>2, <4>1, Zenon DEF Copied
      <4>3. QED BY <3>2, <3>3, <3>5, <3>6, <4>2, Zenon
    <3>7. CASE ~(k < f)
      <4>1. ASSUME NEW h \in 1 .. Len(segments) PROVE j \notin FilePart(h)
        <5>1. CASE h = i
          BY <3>2, <3>5, <3>7, <5>1, Zenon
        <5>2. CASE h # i
          BY <2>1, <2>4, <3>1, <3>5, <5>2, SegmentsApart
        <5>3. QED BY <5>1, <5>2
      <4>2. mem[j] = Zero
        BY <2>5, <3>5, <4>1, Zenon DEF Copied
      <4>3. QED BY <3>2, <3>3, <3>7, <4>2, Zenon
    <3>8. QED BY <3>6, <3>7
  <2>7. QED BY <2>5, <2>6, Zenon
<1>2. Init => ImageInv
  BY EarlyImageInv DEF Init, InMemory
<1>3. LoaderInv /\ ImageInv /\ [Next]_vars => ImageInv'
  BY NextImageInv
<1>4. QED BY <1>1, <1>2, <1>3, LoaderInvariant, PTL DEF Spec
-----------------------------------------------------------------------------
(* The outcome *)

\* The loaders of Process on an image that they place, or refuse before.
Fits(i, max) == i.span \in 1 .. max /\ i.segments <= MAX_SEGMENTS

LEMMA NativeRefuses ==
  ASSUME NEW x \in BOOLEAN, NEW i
  PROVE  /\ ~(i.parsed /\ i.segments > 0) => P(x)!native_load(i) = "Err"
         /\ i.parsed /\ i.segments > 0 =>
              /\ i.e_type = "ET_EXEC" => P(x)!native_load(i) = "FixedVaddrUnsupported"
              /\ i.e_type # "ET_EXEC" /\ ~Fits(i, MAX_MEM["native"]) => P(x)!native_load(i) = "Err"
BY DEF P!native_load, P!WellFormed, P!Sized, P!native_rest, Fits

\* What becomes of an image whose segments are copied.
Rest(i, x) ==
  IF i.entry = "panics" THEN "Halt" ELSE IF i.entry = "inside" /\ x THEN "Run" ELSE "Err"

LEMMA NativePlaces ==
  ASSUME NEW x \in BOOLEAN, NEW i, i.parsed, i.segments > 0, i.e_type # "ET_EXEC", Fits(i, MAX_MEM["native"]),
         ~(i.span + STACK_SIZE["native"] > 2 * ADDR_MAX)
  PROVE  /\ i.copy.native = "panics" => P(x)!native_load(i) = "Halt"
         /\ i.copy.native = "outside" => P(x)!native_load(i) = "Err"
         /\ i.copy.native = "fits" => P(x)!native_load(i) = Rest(i, x)
BY DEF P!native_load, P!WellFormed, P!Sized, P!placed, P!native_rest, Fits, Rest

LEMMA InterpRefuses ==
  ASSUME NEW f \in BOOLEAN, NEW i, ~(i.parsed /\ i.segments > 0 /\ Fits(i, MAX_MEM["interp"]))
  PROVE  P(TRUE)!interp_load(i, f) = "Err"
BY DEF P!interp_load, P!WellFormed, P!Sized, Fits

LEMMA InterpPlaces ==
  ASSUME NEW f \in BOOLEAN, NEW i, i.parsed, i.segments > 0, Fits(i, MAX_MEM["interp"]),
         ~(i.span + STACK_SIZE["interp"] > 2 * ADDR_MAX)
  PROVE  /\ i.copy.interp = "panics" => P(TRUE)!interp_load(i, f) = "Halt"
         /\ i.copy.interp = "outside" => P(TRUE)!interp_load(i, f) = "Err"
         /\ i.copy.interp = "fits" => P(TRUE)!interp_load(i, f) = IF f THEN "Run" ELSE "Err"
BY DEF P!interp_load, P!WellFormed, P!Sized, P!placed, Fits

\* The verdict depends on what was read and on the pages.
LEMMA VerdictKept ==
  ASSUME UNCHANGED <<input, segments, min_vaddr, span, base, pages>>, DOMAIN mem' = DOMAIN mem,
         NEW how, Verdict(how)
  PROVE  Verdict(how)'
<1>1. UNCHANGED <<runner, file, args, segments, min_vaddr, span, base, pages>> /\ DOMAIN mem' = DOMAIN mem
  BY DEF input
<1>2. StackNeed' = StackNeed
  BY <1>1 DEF StackNeed
<1>3. PagesUsable' = PagesUsable
  BY <1>1 DEF PagesUsable, RegionPages, Page
<1>4. ASSUME NEW r PROVE CopyVerdict(r)' = CopyVerdict(r)
  <2>1. ASSUME NEW len PROVE CopyStops(len)' = CopyStops(len)
    BY <1>1 DEF CopyStops, Outside, Panics
  <2>2. PICK len : len = span + STACK_SIZE[r]
    OBVIOUS
  <2>3. CopyStops(len)' = CopyStops(len)
    BY <2>1
  <2>4. QED BY <1>1, <2>2, <2>3 DEF CopyVerdict, Outside
<1>5. AbstractImage' = AbstractImage
  BY <1>1, <1>4 DEF AbstractImage, EntryPlace, TableInside, phnum
<1>6. \A x : (P(x)!native_load(AbstractImage))' = P(x)!native_load(AbstractImage)
  BY <1>5 DEF P!native_load, P!WellFormed, P!Sized, P!placed, P!native_rest
<1>7. \A f : (P(TRUE)!interp_load(AbstractImage, f))' = P(TRUE)!interp_load(AbstractImage, f)
  BY <1>5 DEF P!interp_load, P!WellFormed, P!Sized, P!placed
<1>8. QED BY <1>1, <1>2, <1>3, <1>6, <1>7 DEF Verdict

\* The parts of StackNeed.
LEMMA NeedParts ==
  ASSUME LoaderInv
  PROVE  \E x, y, z \in Nat :
           /\ x = Bytes(args.argv) /\ y = Bytes(args.envp)
           /\ z = (Len(args.argv) + Len(args.envp) + 8) * WORD
           /\ StackNeed = x + y + z + 3 * ALIGN
<1>1. PICK x \in Nat, y \in Nat : x = Bytes(args.argv) /\ y = Bytes(args.envp)
  BY ListBytes
<1>2. PICK z \in Nat : z = (Len(args.argv) + Len(args.envp) + 8) * WORD
  <2>1. PICK p \in Nat, q \in Nat, w \in Nat : p = Len(args.argv) /\ q = Len(args.envp) /\ w = WORD
    BY ListsAreStrings, Sizes
  <2>2. (p + q + 8) * w \in Nat
    OBVIOUS
  <2>3. QED BY <2>1, <2>2, Zenon
<1>3. StackNeed = x + y + z + 3 * ALIGN
  BY <1>1, <1>2, Zenon DEF StackNeed
<1>4. QED BY <1>1, <1>2, <1>3, Zenon

LEMMA NeedIsNat ==
  ASSUME LoaderInv
  PROVE  StackNeed \in Nat
<1>1. PICK x, y, z \in Nat : StackNeed = x + y + z + 3 * ALIGN
  BY NeedParts
<1>2. QED BY <1>1, Sizes

LEMMA NativeVerdict ==
  ASSUME LoaderInv, runner = "native", NEW how,
         PagesUsable => P(TRUE)!native_load(AbstractImage) = how,
         ~PagesUsable => P(FALSE)!native_load(AbstractImage) = how
  PROVE  Verdict(how)
<1>1. StackNeed \in Nat /\ STACK_SIZE["native"] \in Nat
  BY NeedIsNat, Sizes DEF Runners
<1>2. StackNeed <= STACK_SIZE["native"] \/ StackNeed > STACK_SIZE["native"]
  BY <1>1
<1>3. how = IF PagesUsable THEN P(TRUE)!native_load(AbstractImage)
            ELSE P(FALSE)!native_load(AbstractImage)
  OBVIOUS
<1>4. QED BY <1>2, <1>3, Zenon DEF Verdict

LEMMA InterpVerdict ==
  ASSUME runner = "interp", NEW how, NEW f \in BOOLEAN,
         P(TRUE)!interp_load(AbstractImage, f) = how, StackNeed <= STACK_SIZE["interp"] => f
  PROVE  Verdict(how)
BY Zenon DEF Verdict

\* The fields of the abstract image.
LEMMA ImageFields ==
  /\ AbstractImage.parsed = (file.len >= EHDR /\ file.ident /\ TableInside)
  /\ AbstractImage.e_type = file.e_type /\ AbstractImage.segments = Len(segments)
  /\ AbstractImage.span = Max({0, max_of(segments) - min_of(segments)})
  /\ AbstractImage.copy.native = CopyVerdict("native")
  /\ AbstractImage.copy.interp = CopyVerdict("interp")
  /\ AbstractImage.entry = EntryPlace
BY DEF AbstractImage

LEMMA PositivePart ==
  ASSUME NEW d \in Int
  PROVE  Max({0, d}) = IF d > 0 THEN d ELSE 0
<1>1. CASE d > 0
  <2>1. d \in {0, d} /\ \A y \in {0, d} : d >= y
    BY <1>1
  <2>2. \A z \in {0, d} : (\A y \in {0, d} : z >= y) => z = d
    BY <1>1
  <2>3. QED BY <1>1, <2>1, <2>2 DEF Max
<1>2. CASE ~(d > 0)
  <2>1. 0 \in {0, d} /\ \A y \in {0, d} : 0 >= y
    BY <1>2
  <2>2. \A z \in {0, d} : (\A y \in {0, d} : z >= y) => z = 0
    BY <1>2
  <2>3. QED BY <1>2, <2>1, <2>2 DEF Max
<1>3. QED BY <1>1, <1>2

\* Files both runners refuse with the same words.
LEMMA RefusedVerdict ==
  ASSUME LoaderInv,
         \/ ~(AbstractImage.parsed /\ AbstractImage.segments > 0)
         \/ AbstractImage.e_type # "ET_EXEC" /\ ~Fits(AbstractImage, MAX_MEM[runner])
         \/ runner = "interp" /\ ~Fits(AbstractImage, MAX_MEM[runner])
  PROVE  Verdict("Err")
<1>1. CASE runner = "native"
  <2>1. \A x \in BOOLEAN : P(x)!native_load(AbstractImage) = "Err"
    BY <1>1, NativeRefuses
  <2>2. QED BY <1>1, <2>1, NativeVerdict
<1>2. CASE runner = "interp"
  <2>1. ~(AbstractImage.parsed /\ AbstractImage.segments > 0 /\ Fits(AbstractImage, MAX_MEM["interp"]))
    BY <1>2, Zenon
  <2>2. P(TRUE)!interp_load(AbstractImage, TRUE) = "Err"
    BY <2>1, InterpRefuses, Zenon
  <2>3. QED BY <1>2, <2>2, InterpVerdict
<1>3. QED BY <1>1, <1>2 DEF LoaderInv, Runners

LEMMA FailVerdict ==
  ASSUME NEW how \in Failed, Fail(how), Verdict(how)
  PROVE  VerdictInv'
<1>1. UNCHANGED <<input, segments, min_vaddr, span, base, mem, pages>> /\ stage' = how
  BY DEF Fail, layout
<1>2. Verdict(how)'
  BY <1>1, VerdictKept
<1>3. Verdict(stage)'
  BY <1>1, <1>2, Zenon DEF Verdict
<1>4. stage' \notin {"phdrs", "scan"} \cup InMemory
  BY <1>1 DEF Failed, InMemory
<1>5. QED BY <1>3, <1>4 DEF VerdictInv, OutcomeIsAbstract, InMemory

LEMMA ParseVerdict ==
  ASSUME LoaderInv, VerdictInv, parse_elf64 \/ read_phdr \/ parsed
  PROVE  VerdictInv'
<1>1. CASE parse_elf64 /\ stage' = "Err"
  <2>1. Fail("Err") /\ (file.len < EHDR \/ ~file.ident \/ ~TableInside)
    BY <1>1 DEF parse_elf64
  <2>2. ~(file.len >= EHDR /\ file.ident /\ TableInside)
    <3>1. file.len \in Nat /\ EHDR \in Nat
      BY Sizes, LoaderAssumption DEF LoaderInv, FileType
    <3>2. QED BY <2>1, <3>1
  <2>3. ~AbstractImage.parsed
    BY <2>2, ImageFields, Zenon
  <2>4. Verdict("Err")
    BY <2>3, RefusedVerdict
  <2>5. QED BY <2>1, <2>4, FailVerdict DEF Failed
<1>2. CASE ~(parse_elf64 /\ stage' = "Err")
  <2>1. stage' \in {"phdrs", "scan"} /\ file' = file
    BY <1>2 DEF parse_elf64, read_phdr, parsed, Fail, input
  <2>2. file.len >= EHDR /\ file.ident /\ TableInside
    <3>1. file.len \in Nat /\ EHDR \in Nat
      BY Sizes, LoaderAssumption DEF LoaderInv, FileType
    <3>2. CASE parse_elf64
      BY <1>2, <3>1, <3>2 DEF parse_elf64, Fail
    <3>3. CASE read_phdr \/ parsed
      BY <3>3 DEF VerdictInv, read_phdr, parsed
    <3>4. QED BY <3>2, <3>3
  <2>3. (file.len >= EHDR /\ file.ident /\ TableInside)'
    BY <2>1, <2>2 DEF TableInside, phnum
  <2>4. QED BY <2>1, <2>3 DEF VerdictInv, OutcomeIsAbstract, InMemory, Failed
<1>3. QED BY <1>1, <1>2

LEMMA ScanVerdict ==
  ASSUME LoaderInv, VerdictInv, scan
  PROVE  VerdictInv'
<1>1. /\ runner \in Runners /\ segments \in Seq(Phdrs) /\ Len(segments) \in Nat
      /\ file.e_type \in {"ET_EXEC", "ET_DYN"} /\ MAX_MEM[runner] \in Nat /\ MAX_SEGMENTS \in Nat
      /\ stage = "scan" /\ file.len >= EHDR /\ file.ident /\ TableInside
  BY Sizes, LoaderAssumption DEF LoaderInv, FileType, VerdictInv, scan
<1>2. AbstractImage.parsed /\ AbstractImage.segments = Len(segments) /\ AbstractImage.e_type = file.e_type
  BY <1>1, ImageFields, Zenon
<1>3. CASE segments = <<>>
  <2>1. Fail("Err")
    BY <1>3 DEF scan
  <2>2. ~(AbstractImage.segments > 0)
    BY <1>2, <1>3
  <2>3. QED BY <2>1, <2>2, RefusedVerdict, FailVerdict DEF Failed
<1>4. CASE segments # <<>> /\ runner = "native" /\ file.e_type = "ET_EXEC"
  <2>1. Fail("FixedVaddrUnsupported")
    BY <1>4 DEF scan
  <2>2. AbstractImage.segments > 0
    BY <1>1, <1>2, <1>4
  <2>3. \A x \in BOOLEAN : P(x)!native_load(AbstractImage) = "FixedVaddrUnsupported"
    BY <1>2, <1>4, <2>2, NativeRefuses
  <2>4. Verdict("FixedVaddrUnsupported")
    BY <1>4, <2>3, NativeVerdict
  <2>5. QED BY <2>1, <2>4, FailVerdict DEF Failed
<1>5. CASE segments # <<>> /\ ~(runner = "native" /\ file.e_type = "ET_EXEC")
  <2>1. PICK min \in Nat, max \in Nat : min = min_of(segments) /\ max = max_of(segments)
    BY <1>1, <1>5, Extent
  <2>2. AbstractImage.span = IF max - min > 0 THEN max - min ELSE 0
    <3>1. PICK d \in Int : d = max - min
      OBVIOUS
    <3>2. Max({0, d}) = IF d > 0 THEN d ELSE 0
      BY PositivePart
    <3>3. AbstractImage.span = Max({0, d})
      BY <2>1, <3>1, ImageFields, Zenon
    <3>4. QED BY <3>1, <3>2, <3>3, Zenon
  <2>3. CASE max <= min \/ max - min > MAX_MEM[runner] \/ Len(segments) > MAX_SEGMENTS
    <3>1. Fail("Err")
      BY <1>5, <2>1, <2>3 DEF scan
    <3>2. ~Fits(AbstractImage, MAX_MEM[runner])
      BY <1>1, <1>2, <2>2, <2>3 DEF Fits
    <3>3. AbstractImage.e_type # "ET_EXEC" \/ runner = "interp"
      BY <1>1, <1>2, <1>5 DEF Runners
    <3>4. Verdict("Err")
      BY <3>2, <3>3, RefusedVerdict
    <3>5. QED BY <3>1, <3>4, FailVerdict DEF Failed
  <2>4. CASE ~(max <= min \/ max - min > MAX_MEM[runner] \/ Len(segments) > MAX_SEGMENTS)
    <3>1. /\ min_vaddr' = min /\ span' = max - min /\ next' = 1 /\ stage' = "copy"
          /\ base' = IF runner = "native" THEN HeapBase ELSE min
          /\ UNCHANGED <<runner, file, segments>>
      BY <1>5, <2>1, <2>4 DEF scan, input
    <3>2. span' <= MAX_MEM[runner]' /\ Len(segments)' <= MAX_SEGMENTS
      BY <1>1, <2>4, <3>1
    <3>3. (runner = "native" => file.e_type = "ET_DYN")' /\ (runner = "interp" => base = min_vaddr)'
      BY <1>1, <1>5, <3>1
    <3>4. (file.len >= EHDR /\ file.ident /\ TableInside)'
      BY <1>1, <3>1 DEF TableInside, phnum
    <3>5. (\A i \in 1 .. next - 1 : i \notin CopyStops(mem_len))'
      <4>1. 1 .. next' - 1 = {}
        BY <3>1
      <4>2. QED BY <4>1, Zenon
    <3>6. QED BY <3>1, <3>2, <3>3, <3>4, <3>5 DEF VerdictInv, OutcomeIsAbstract, InMemory, Failed
  <2>5. QED BY <2>3, <2>4
<1>6. QED BY <1>3, <1>4, <1>5

\* What is known of an image in memory.
Placed ==
  /\ AbstractImage.parsed /\ AbstractImage.segments > 0
  /\ runner = "native" => AbstractImage.e_type # "ET_EXEC"
  /\ Fits(AbstractImage, MAX_MEM[runner])
  /\ ~(AbstractImage.span + STACK_SIZE[runner] > 2 * ADDR_MAX)
  /\ AbstractImage.entry = EntryPlace
  /\ AbstractImage.copy.native = CopyVerdict("native")
  /\ AbstractImage.copy.interp = CopyVerdict("interp")

LEMMA ImagePlaced ==
  ASSUME LoaderInv, ImageBuilt, VerdictInv, stage \in InMemory
  PROVE  Placed
<1>1. /\ runner \in Runners /\ segments \in Seq(Phdrs) /\ segments # <<>> /\ MemoryShape
      /\ min_vaddr = min_of(segments) /\ span = max_of(segments) - min_vaddr
      /\ file.len >= EHDR /\ file.ident /\ TableInside /\ (runner = "native" => file.e_type = "ET_DYN")
      /\ span <= MAX_MEM[runner] /\ Len(segments) <= MAX_SEGMENTS
  BY DEF LoaderInv, ImageBuilt, VerdictInv
<1>2. span \in Nat \ {0} /\ MAX_MEM[runner] \in Nat /\ STACK_SIZE[runner] \in Nat /\ ADDR_MAX \in Nat
      /\ HeapBase \in Nat /\ HeapBase + MAX_MEM[runner] + STACK_SIZE[runner] <= ADDR_MAX
  BY <1>1, Sizes DEF MemoryShape
<1>3. AbstractImage.span = span
  <2>1. Max({0, span}) = span
    BY <1>2, PositivePart
  <2>2. QED BY <1>1, <2>1, ImageFields, Zenon
<1>4. Fits(AbstractImage, MAX_MEM[runner])
  BY <1>1, <1>2, <1>3, ImageFields DEF Fits
<1>5. ~(AbstractImage.span + STACK_SIZE[runner] > 2 * ADDR_MAX)
  BY <1>1, <1>2, <1>3
<1>6. AbstractImage.segments > 0
  BY <1>1, ImageFields
<1>7. AbstractImage.parsed
  BY <1>1, ImageFields, Zenon
<1>8. runner = "native" => AbstractImage.e_type # "ET_EXEC"
  BY <1>1, ImageFields
<1>9. QED BY <1>4, <1>5, <1>6, <1>7, <1>8, ImageFields, Zenon DEF Placed

\* The outcome of an image in memory, from what becomes of its segments.
LEMMA PlacedVerdict ==
  ASSUME LoaderInv, Placed
  PROVE  /\ CopyVerdict(runner) = "panics" => Verdict("Halt")
         /\ CopyVerdict(runner) = "outside" => Verdict("Err")
         /\ CopyVerdict(runner) = "fits" /\ runner = "native" =>
              /\ EntryPlace = "panics" => Verdict("Halt")
              /\ EntryPlace = "outside" \/ (EntryPlace = "inside" /\ ~PagesUsable) => Verdict("Err")
              /\ EntryPlace = "inside" /\ PagesUsable => Verdict("Run")
         /\ CopyVerdict(runner) = "fits" /\ runner = "interp" =>
              /\ Verdict("Run")
              /\ StackNeed > STACK_SIZE["interp"] => Verdict("Err")
<1>1. CASE runner = "native"
  <2>1. ASSUME NEW x \in BOOLEAN
        PROVE  /\ CopyVerdict("native") = "panics" => P(x)!native_load(AbstractImage) = "Halt"
               /\ CopyVerdict("native") = "outside" => P(x)!native_load(AbstractImage) = "Err"
               /\ CopyVerdict("native") = "fits" =>
                    P(x)!native_load(AbstractImage) = Rest(AbstractImage, x)
    <3>1. PICK i : i = AbstractImage
      OBVIOUS
    <3>2. /\ i.parsed /\ i.segments > 0 /\ i.e_type # "ET_EXEC" /\ Fits(i, MAX_MEM["native"])
          /\ ~(i.span + STACK_SIZE["native"] > 2 * ADDR_MAX) /\ i.copy.native = CopyVerdict("native")
      BY <1>1, <3>1 DEF Placed
    <3>3. /\ i.copy.native = "panics" => P(x)!native_load(i) = "Halt"
          /\ i.copy.native = "outside" => P(x)!native_load(i) = "Err"
          /\ i.copy.native = "fits" => P(x)!native_load(i) = Rest(i, x)
      BY <3>2, NativePlaces
    <3>4. QED BY <3>1, <3>2, <3>3
  <2>2. CASE CopyVerdict("native") = "panics"
    BY <1>1, <2>1, <2>2, NativeVerdict
  <2>3. CASE CopyVerdict("native") = "outside"
    BY <1>1, <2>1, <2>3, NativeVerdict
  <2>4. CASE CopyVerdict("native") = "fits"
    <3>0. /\ AbstractImage.entry = EntryPlace
          /\ \A x \in BOOLEAN : P(x)!native_load(AbstractImage) =
               IF EntryPlace = "panics" THEN "Halt"
               ELSE IF EntryPlace = "inside" /\ x THEN "Run" ELSE "Err"
      BY <2>1, <2>4, Zenon DEF Placed, Rest
    <3>1. ASSUME EntryPlace = "inside", PagesUsable PROVE Verdict("Run")
      BY <1>1, <3>0, <3>1, NativeVerdict
    <3>2. ASSUME EntryPlace = "panics" PROVE Verdict("Halt")
      BY <1>1, <3>0, <3>2, NativeVerdict
    <3>3. ASSUME EntryPlace = "outside" \/ (EntryPlace = "inside" /\ ~PagesUsable) PROVE Verdict("Err")
      <4>1. P(FALSE)!native_load(AbstractImage) = "Err"
        BY <3>0, <3>3
      <4>2. PagesUsable => P(TRUE)!native_load(AbstractImage) = "Err"
        BY <3>0, <3>3
      <4>3. QED BY <1>1, <4>1, <4>2, NativeVerdict
    <3>4. QED BY <1>1, <2>4, <3>1, <3>2, <3>3
  <2>5. QED BY <1>1, <2>2, <2>3, <2>4
<1>2. CASE runner = "interp"
  <2>1. ASSUME NEW f \in BOOLEAN
        PROVE  /\ CopyVerdict("interp") = "panics" => P(TRUE)!interp_load(AbstractImage, f) = "Halt"
               /\ CopyVerdict("interp") = "outside" => P(TRUE)!interp_load(AbstractImage, f) = "Err"
               /\ CopyVerdict("interp") = "fits" =>
                    P(TRUE)!interp_load(AbstractImage, f) = IF f THEN "Run" ELSE "Err"
    <3>1. PICK i : i = AbstractImage
      OBVIOUS
    <3>2. /\ i.parsed /\ i.segments > 0 /\ Fits(i, MAX_MEM["interp"])
          /\ ~(i.span + STACK_SIZE["interp"] > 2 * ADDR_MAX) /\ i.copy.interp = CopyVerdict("interp")
      BY <1>2, <3>1 DEF Placed
    <3>3. /\ i.copy.interp = "panics" => P(TRUE)!interp_load(i, f) = "Halt"
          /\ i.copy.interp = "outside" => P(TRUE)!interp_load(i, f) = "Err"
          /\ i.copy.interp = "fits" => P(TRUE)!interp_load(i, f) = IF f THEN "Run" ELSE "Err"
      BY <3>2, InterpPlaces
    <3>4. QED BY <3>1, <3>2, <3>3
  <2>2. CASE CopyVerdict("interp") = "panics"
    BY <1>2, <2>1, <2>2, InterpVerdict
  <2>3. CASE CopyVerdict("interp") = "outside"
    BY <1>2, <2>1, <2>3, InterpVerdict
  <2>4. CASE CopyVerdict("interp") = "fits"
    <3>1. Verdict("Run")
      BY <1>2, <2>1, <2>4, InterpVerdict
    <3>2. ASSUME StackNeed > STACK_SIZE["interp"] PROVE Verdict("Err")
      <4>1. ~(StackNeed <= STACK_SIZE["interp"])
        BY <3>2, NeedIsNat, Sizes DEF Runners
      <4>2. P(TRUE)!interp_load(AbstractImage, FALSE) = "Err"
        BY <2>1, <2>4
      <4>3. QED BY <1>2, <4>1, <4>2, InterpVerdict
    <3>3. QED BY <1>2, <2>4, <3>1, <3>2
  <2>5. QED BY <1>2, <2>2, <2>3, <2>4
<1>3. QED BY <1>1, <1>2 DEF LoaderInv, Runners

LEMMA CopyVerdictIs ==
  ASSUME LoaderInv, MemoryShape
  PROVE  /\ CopyStops(mem_len) # {} =>
              CopyVerdict(runner) = IF Outside(segments[Min(CopyStops(mem_len))], mem_len)
                                    THEN "outside" ELSE "panics"
         /\ CopyStops(mem_len) = {} =>
              CopyVerdict(runner) = IF runner = "interp" /\ min_vaddr + mem_len > ADDR_MAX
                                    THEN "panics" ELSE "fits"
<1>1. mem_len = span + STACK_SIZE[runner]
  BY MemLen DEF LoaderInv
<1>2. PICK len : len = mem_len
  OBVIOUS
<1>3. len = span + STACK_SIZE[runner]
  BY <1>1, <1>2
<1>4. QED BY <1>2, <1>3, Zenon DEF CopyVerdict

\* The stages from the copy on, when a step changes neither the image's place nor its size.
LEMMA StepVerdict ==
  ASSUME LoaderInv, VerdictInv, stage \in InMemory, stage' \in InMemory \ {"Run"},
         UNCHANGED <<input, layout>>, DOMAIN mem' = DOMAIN mem,
         stage' = "copy" => \A i \in 1 .. next' - 1 : i \notin CopyStops(mem_len),
         stage' # "copy" => CopyStops(mem_len) = {},
         stage' \notin {"copy", "stack"} => base + mem_len <= ADDR_MAX,
         stage' \in {"exec", "enter"} => file.entry - min_vaddr \in DOMAIN mem,
         stage' = "enter" => PagesUsable'
  PROVE  VerdictInv'
<1>1. UNCHANGED <<runner, file, args, segments, min_vaddr, span, base>>
  BY DEF input, layout
<1>2. mem_len' = mem_len
  BY DEF mem_len
<1>3. CopyStops(mem_len)' = CopyStops(mem_len)
  BY <1>1, <1>2 DEF CopyStops, Outside, Panics
<1>4. (file.len >= EHDR /\ file.ident /\ TableInside)'
  BY <1>1 DEF VerdictInv, TableInside, phnum
<1>5. /\ (runner = "native" => file.e_type = "ET_DYN")' /\ (runner = "interp" => base = min_vaddr)'
      /\ (span <= MAX_MEM[runner] /\ Len(segments) <= MAX_SEGMENTS)'
  BY <1>1 DEF VerdictInv
<1>6. OutcomeIsAbstract'
  BY DEF OutcomeIsAbstract, InMemory, Failed
<1>7. (stage = "copy" => \A i \in 1 .. next - 1 : i \notin CopyStops(mem_len))'
  BY <1>3
<1>8. (stage \in InMemory \ {"copy"} => CopyStops(mem_len) = {})'
  BY <1>3
<1>9. (stage \in InMemory \ {"copy", "stack"} => base + mem_len <= ADDR_MAX)'
  BY <1>1, <1>2
<1>10. (stage \in {"exec", "enter"} => file.entry - min_vaddr \in DOMAIN mem)'
  BY <1>1
<1>11. QED BY <1>4, <1>5, <1>6, <1>7, <1>8, <1>9, <1>10, Zenon DEF VerdictInv

LEMMA CopyStepVerdict ==
  ASSUME LoaderInv, ImageInv, VerdictInv, copy_segment
  PROVE  VerdictInv'
<1>1. /\ stage = "copy" /\ stage \in InMemory /\ next \in DOMAIN segments /\ runner \in Runners
      /\ segments \in Seq(Phdrs) /\ MemoryShape /\ next \in 1 .. Len(segments) + 1 /\ ImageBuilt
      /\ Len(segments) \in Nat
  BY DEF copy_segment, InMemory, LoaderInv, ImageInv, ImageBuilt
<1>2. copies_outside(segments[next]) = Outside(segments[next], mem_len)
  BY DEF copies_outside, Outside
<1>3. (segments[next].vaddr - min_vaddr + file_len(segments[next]) > mem_len) = Panics(segments[next], mem_len)
  BY DEF Panics, file_len
<1>4. CASE next \in CopyStops(mem_len)
  <2>1. Min(CopyStops(mem_len)) = next
    <3>1. CopyStops(mem_len) \in SUBSET Nat /\ CopyStops(mem_len) \subseteq 1 .. Len(segments)
      BY <1>1 DEF CopyStops
    <3>2. \A i \in 1 .. next - 1 : i \notin CopyStops(mem_len)
      BY <1>1 DEF VerdictInv
    <3>3. PICK S : S = CopyStops(mem_len)
      OBVIOUS
    <3>4. Min(S) \in S /\ \A y \in S : Min(S) <= y
      BY <1>4, <3>1, <3>3, LeastOf
    <3>5. PICK m : m = Min(S)
      OBVIOUS
    <3>6. m \in 1 .. Len(segments) /\ m \notin 1 .. next - 1 /\ m <= next
      BY <1>4, <3>1, <3>2, <3>3, <3>4, <3>5
    <3>7. m = next
      BY <1>1, <3>6
    <3>8. QED BY <3>3, <3>5, <3>7
  <2>2. CopyVerdict(runner) = IF Outside(segments[next], mem_len) THEN "outside" ELSE "panics"
    BY <1>1, <1>4, <2>1, CopyVerdictIs
  <2>3. Placed
    BY <1>1, ImagePlaced
  <2>4. CASE Outside(segments[next], mem_len)
    <3>1. Fail("Err")
      BY <1>2, <2>4 DEF copy_segment
    <3>2. QED BY <2>2, <2>3, <2>4, <3>1, PlacedVerdict, FailVerdict DEF Failed
  <2>5. CASE ~Outside(segments[next], mem_len)
    <3>1. Panics(segments[next], mem_len)
      BY <1>4, <2>5 DEF CopyStops
    <3>2. Fail("Halt")
      BY <1>2, <1>3, <2>5, <3>1 DEF copy_segment
    <3>3. QED BY <2>2, <2>3, <2>5, <3>2, PlacedVerdict, FailVerdict DEF Failed
  <2>6. QED BY <2>4, <2>5
<1>5. CASE next \notin CopyStops(mem_len)
  <2>1. ~Outside(segments[next], mem_len) /\ ~Panics(segments[next], mem_len)
    BY <1>1, <1>5 DEF CopyStops
  <2>2. /\ DOMAIN mem' = DOMAIN mem /\ next' = next + 1 /\ stage' = stage
        /\ UNCHANGED <<input, layout>>
    BY <1>2, <1>3, <2>1 DEF copy_segment
  <2>3. ASSUME NEW i \in 1 .. next' - 1 PROVE i \notin CopyStops(mem_len)
    <3>1. i \in 1 .. next - 1 \/ i = next
      BY <1>1, <2>2
    <3>2. QED BY <1>1, <1>5, <3>1 DEF VerdictInv
  <2>4. stage' \in InMemory \ {"Run"} /\ stage' = "copy" /\ stage' \notin {"exec", "enter"}
    BY <1>1, <2>2 DEF InMemory
  <2>5. QED BY <1>1, <2>2, <2>3, <2>4, StepVerdict
<1>6. QED BY <1>4, <1>5

LEMMA CopiedVerdict ==
  ASSUME LoaderInv, ImageInv, VerdictInv, copied
  PROVE  VerdictInv'
<1>1. /\ stage = "copy" /\ stage \in InMemory /\ stage' = "stack" /\ next \notin DOMAIN segments
      /\ UNCHANGED <<input, layout, mem>>
      /\ segments \in Seq(Phdrs) /\ next \in 1 .. Len(segments) + 1
  BY DEF copied, InMemory, LoaderInv, ImageInv, ImageBuilt
<1>2. CopyStops(mem_len) = {}
  <2>1. next - 1 = Len(segments) /\ DOMAIN segments = 1 .. Len(segments)
    BY <1>1
  <2>2. \A i \in DOMAIN segments : i \notin CopyStops(mem_len)
    BY <1>1, <2>1 DEF VerdictInv
  <2>3. QED BY <2>2 DEF CopyStops
<1>3. stage' \in InMemory \ {"Run"} /\ stage' \in {"copy", "stack"} /\ stage' # "copy" /\ stage' \notin {"exec", "enter"}
  BY <1>1 DEF InMemory
<1>4. QED BY <1>1, <1>2, <1>3, StepVerdict

LEMMA StartVerdict ==
  ASSUME LoaderInv, ImageInv, VerdictInv, start_stack
  PROVE  VerdictInv'
<1>1. /\ stage = "stack" /\ stage \in InMemory /\ ImageBuilt /\ MemoryShape /\ CopyStops(mem_len) = {}
      /\ runner \in Runners /\ base \in Nat /\ mem_len \in Nat /\ ADDR_MAX \in Nat
      /\ (runner = "interp" => base = min_vaddr)
  BY MemLen, Sizes DEF start_stack, InMemory, LoaderInv, ImageInv, VerdictInv, MemoryShape
<1>2. CASE base + mem_len > ADDR_MAX
  <2>1. Fail("Halt")
    BY <1>2 DEF start_stack
  <2>2. runner = "interp"
    <3>1. ASSUME runner = "native" PROVE FALSE
      <4>1. /\ base = HeapBase /\ span <= MAX_MEM[runner] /\ span \in Nat
            /\ mem_len = span + STACK_SIZE[runner]
        BY <1>1, <3>1, MemLen DEF MemoryShape
      <4>2. /\ HeapBase + MAX_MEM[runner] + STACK_SIZE[runner] <= ADDR_MAX /\ HeapBase \in Nat
            /\ STACK_SIZE[runner] \in Nat /\ MAX_MEM[runner] \in Nat
        BY <1>1, Sizes
      <4>3. QED BY <1>1, <1>2, <4>1, <4>2
    <3>2. QED BY <1>1, <3>1 DEF Runners
  <2>3. CopyVerdict(runner) = "panics"
    BY <1>1, <1>2, <2>2, CopyVerdictIs
  <2>4. Verdict("Halt")
    BY <1>1, <2>3, ImagePlaced, PlacedVerdict
  <2>5. QED BY <2>1, <2>4, FailVerdict DEF Failed
<1>3. CASE ~(base + mem_len > ADDR_MAX)
  <2>1. stage' = "argv" /\ UNCHANGED <<input, layout, mem>>
    BY <1>3 DEF start_stack
  <2>2. stage' \in InMemory \ {"Run"} /\ stage' # "copy" /\ stage' \notin {"exec", "enter"} /\ base + mem_len <= ADDR_MAX
    BY <1>1, <1>3, <2>1 DEF InMemory
  <2>3. QED BY <1>1, <2>1, <2>2, StepVerdict
<1>4. QED BY <1>2, <1>3

\* Behind the copy, the segments fit.
LEMMA SegmentsFit ==
  ASSUME LoaderInv, VerdictInv, stage \in InMemory \ {"copy", "stack"}
  PROVE  CopyVerdict(runner) = "fits"
<1>1. /\ MemoryShape /\ CopyStops(mem_len) = {} /\ base + mem_len <= ADDR_MAX
      /\ runner \in Runners /\ (runner = "interp" => base = min_vaddr) /\ base \in Nat
  BY DEF LoaderInv, VerdictInv, MemoryShape
<1>2. mem_len \in Nat /\ ADDR_MAX \in Nat
  BY <1>1, MemLen, Sizes
<1>3. ~(runner = "interp" /\ min_vaddr + mem_len > ADDR_MAX)
  BY <1>1, <1>2
<1>4. QED BY <1>1, <1>3, CopyVerdictIs

\* A loader that gives up on the stack was given lists that do not fit.
LEMMA TooLongVerdict ==
  ASSUME LoaderInv, ImageInv, VerdictInv, stage \in {"argv", "envp", "words"}, Fail("Err"),
         StackNeed > STACK_SIZE[runner]
  PROVE  VerdictInv'
<1>1. stage \in InMemory \ {"copy", "stack"} /\ ImageBuilt /\ runner \in Runners
  BY DEF InMemory, ImageInv, LoaderInv
<1>2. CASE runner = "native"
  <2>1. Verdict("Err")
    BY <1>2, Zenon DEF Verdict
  <2>2. QED BY <2>1, FailVerdict DEF Failed
<1>3. CASE runner = "interp"
  <2>1. Verdict("Err")
    BY <1>1, <1>3, SegmentsFit, ImagePlaced, PlacedVerdict
  <2>2. QED BY <2>1, FailVerdict DEF Failed
<1>4. QED BY <1>1, <1>2, <1>3 DEF Runners

LEMMA NoRoomForString ==
  ASSUME NEW s \in Int, NEW b \in Nat, NEW d \in Nat, NEW st \in Nat, NEW al \in Nat, NEW x \in Nat,
         NEW all \in Nat, NEW t \in Nat, NEW u \in Nat, NEW len \in Nat, NEW z \in Nat, NEW m, NEW need,
         m = d + st, need = z + x + all + 3 * al, t = u + len + 1,
         Room(s, x, all, t, b + m - 2 * al), s <= b + m - al,
         s - (len + 1) < b \/ s - (len + 1) - b + len + 1 > m
  PROVE  need > st
BY DEF Room

\* What the stages that push know.
LEMMA PushFacts ==
  ASSUME LoaderInv, ImageInv, VerdictInv, stage \in {"argv", "envp", "words"}
  PROVE  /\ stage \in InMemory \ {"copy", "stack"} /\ runner \in Runners /\ sp \in Int
         /\ base \in Nat /\ span \in Nat /\ STACK_SIZE[runner] \in Nat /\ ALIGN \in Nat
         /\ mem_len = span + STACK_SIZE[runner] /\ sp <= base + mem_len - ALIGN
         /\ CopyStops(mem_len) = {} /\ base + mem_len <= ADDR_MAX
<1>1. stage \in InMemory \ {"copy", "stack"} /\ MemoryShape /\ runner \in Runners /\ base \in Nat
  BY DEF InMemory, LoaderInv, MemoryShape
<1>2. sp \in Int /\ sp <= base + mem_len - ALIGN
  BY DEF LoaderInv, StackBuilt
<1>3. CopyStops(mem_len) = {} /\ base + mem_len <= ADDR_MAX
  BY <1>1 DEF VerdictInv
<1>4. span \in Nat /\ STACK_SIZE[runner] \in Nat /\ ALIGN \in Nat /\ mem_len = span + STACK_SIZE[runner]
  BY <1>1, MemLen, Sizes DEF MemoryShape
<1>5. QED BY <1>1, <1>2, <1>3, <1>4

LEMMA PushArgvVerdict ==
  ASSUME LoaderInv, ImageInv, VerdictInv, push_argv
  PROVE  VerdictInv'
<1>1. stage = "argv"
  BY DEF push_argv
<1>2. CASE Fail("Err")
  <2>1. next > 0
    BY <1>2 DEF push_argv, Fail
  <2>2. next \in 0 .. Len(args.argv)
    BY <1>1 DEF LoaderInv, StackBuilt
  <2>3. PICK a \in Seq(Nat) : a = args.argv
    BY ListsAreStrings
  <2>4. PICK n, len : n = next /\ len = a[n]
    OBVIOUS
  <2>5. n \in 1 .. Len(a) /\ Len(a) \in Nat
    BY <2>1, <2>2, <2>3, <2>4, LenProperties
  <2>6. len \in Nat
    BY <2>4, <2>5, ElementOfSeq
  <2>7. PICK b : b = BytesUpTo(a) /\ AddsUp(b, a, Len(a))
    BY <2>3, ListBytes
  <2>8. PICK t \in Nat, u \in Nat : t = b[n] /\ t = u + len + 1
    <3>1. n \in 0 .. Len(a) /\ n - 1 \in 0 .. Len(a)
      BY <2>5
    <3>2. b[n] = b[n - 1] + len + 1 /\ b[n] \in Nat /\ b[n - 1] \in Nat
      BY <2>4, <2>5, <2>7, <3>1 DEF AddsUp
    <3>3. QED BY <3>2
  <2>9. PICK x, y, z \in Nat : /\ x = Bytes(args.argv) /\ y = Bytes(args.envp)
                               /\ StackNeed = x + y + z + 3 * ALIGN
    BY NeedParts
  <2>10. sp - (len + 1) < base \/ sp - (len + 1) - base + len + 1 > mem_len
    <3>1. ASSUME ~(sp - (len + 1) < base \/ sp - (len + 1) - base + len + 1 > mem_len) PROVE FALSE
      <4>1. next' = next - 1
        BY <2>1, <2>3, <2>4, <3>1 DEF push_argv, push_cstr
      <4>2. QED BY <1>2, <2>2, <4>1 DEF Fail
    <3>2. QED BY <3>1
  <2>11. Room(sp, 0, x, t, base + mem_len - 2 * ALIGN)
    <3>1. sp + (x - t) > base + mem_len - 2 * ALIGN
      BY <1>1, <2>3, <2>4, <2>7, <2>8, <2>9, Zenon DEF ImageInv, StackRoom
    <3>2. base + mem_len - 2 * ALIGN \in Int
      BY <1>1, PushFacts
    <3>3. QED BY <1>1, <2>8, <2>9, <3>1, <3>2, PushFacts, RoomOfFirst, Zenon
  <2>12. StackNeed > STACK_SIZE[runner]
    <3>1. PICK w \in Nat : w = y + z
      OBVIOUS
    <3>2. StackNeed = w + 0 + x + 3 * ALIGN
      <4>1. PICK al \in Nat : al = ALIGN
        BY <1>1, PushFacts
      <4>2. x + y + z + 3 * al = w + 0 + x + 3 * al
        BY <3>1
      <4>3. QED BY <2>9, <4>1, <4>2, Zenon
    <3>3. 0 \in Nat
      OBVIOUS
    <3>4. QED BY <1>1, <2>6, <2>8, <2>9, <2>10, <2>11, <3>1, <3>2, <3>3, PushFacts, NoRoomForString, Zenon
  <2>13. QED BY <1>1, <1>2, <2>12, TooLongVerdict
<1>3. CASE ~Fail("Err")
  <2>1. stage' \in {"argv", "envp"} /\ UNCHANGED <<input, layout>> /\ DOMAIN mem' = DOMAIN mem
    BY <1>1, <1>3 DEF push_argv, push_cstr, with_cstr
  <2>2. /\ stage' \in InMemory \ {"Run"} /\ stage' # "copy" /\ stage' \notin {"exec", "enter"}
        /\ stage \in InMemory
    BY <1>1, <2>1 DEF InMemory
  <2>3. CopyStops(mem_len) = {} /\ base + mem_len <= ADDR_MAX
    BY <1>1, PushFacts
  <2>4. QED BY <2>1, <2>2, <2>3, StepVerdict
<1>4. QED BY <1>2, <1>3

LEMMA PushEnvpVerdict ==
  ASSUME LoaderInv, ImageInv, VerdictInv, push_envp
  PROVE  VerdictInv'
<1>1. stage = "envp"
  BY DEF push_envp
<1>2. CASE Fail("Err")
  <2>1. next > 0
    BY <1>2 DEF push_envp, Fail
  <2>2. next \in 0 .. Len(args.envp)
    BY <1>1 DEF LoaderInv, StackBuilt
  <2>3. PICK a \in Seq(Nat) : a = args.envp
    BY ListsAreStrings
  <2>4. PICK n, len : n = next /\ len = a[n]
    OBVIOUS
  <2>5. n \in 1 .. Len(a) /\ Len(a) \in Nat
    BY <2>1, <2>2, <2>3, <2>4, LenProperties
  <2>6. len \in Nat
    BY <2>4, <2>5, ElementOfSeq
  <2>7. PICK b : b = BytesUpTo(a) /\ AddsUp(b, a, Len(a))
    BY <2>3, ListBytes
  <2>8. PICK t \in Nat, u \in Nat : t = b[n] /\ t = u + len + 1
    <3>1. n \in 0 .. Len(a) /\ n - 1 \in 0 .. Len(a)
      BY <2>5
    <3>2. b[n] = b[n - 1] + len + 1 /\ b[n] \in Nat /\ b[n - 1] \in Nat
      BY <2>4, <2>5, <2>7, <3>1 DEF AddsUp
    <3>3. QED BY <3>2
  <2>9. PICK x, y, z \in Nat : /\ x = Bytes(args.argv) /\ y = Bytes(args.envp)
                               /\ StackNeed = x + y + z + 3 * ALIGN
    BY NeedParts
  <2>10. sp - (len + 1) < base \/ sp - (len + 1) - base + len + 1 > mem_len
    <3>1. ASSUME ~(sp - (len + 1) < base \/ sp - (len + 1) - base + len + 1 > mem_len) PROVE FALSE
      <4>1. next' = next - 1
        BY <2>1, <2>3, <2>4, <3>1 DEF push_envp, push_cstr
      <4>2. QED BY <1>2, <2>2, <4>1 DEF Fail
    <3>2. QED BY <3>1
  <2>11. Room(sp, x, y, t, base + mem_len - 2 * ALIGN)
    BY <1>1, <2>3, <2>4, <2>7, <2>8, <2>9, Zenon DEF ImageInv, StackRoom, Room
  <2>12. StackNeed > STACK_SIZE[runner]
    <3>1. StackNeed = z + x + y + 3 * ALIGN
      <4>1. PICK al \in Nat : al = ALIGN
        BY <1>1, PushFacts
      <4>2. x + y + z + 3 * al = z + x + y + 3 * al
        OBVIOUS
      <4>3. QED BY <2>9, <4>1, <4>2, Zenon
    <3>2. QED BY <1>1, <2>6, <2>8, <2>9, <2>10, <2>11, <3>1, PushFacts, NoRoomForString, Zenon
  <2>13. QED BY <1>1, <1>2, <2>12, TooLongVerdict
<1>3. CASE ~Fail("Err")
  <2>1. stage' \in {"envp", "words"} /\ UNCHANGED <<input, layout>> /\ DOMAIN mem' = DOMAIN mem
    BY <1>1, <1>3 DEF push_envp, push_cstr, with_cstr
  <2>2. /\ stage' \in InMemory \ {"Run"} /\ stage' # "copy" /\ stage' \notin {"exec", "enter"}
        /\ stage \in InMemory
    BY <1>1, <2>1 DEF InMemory
  <2>3. CopyStops(mem_len) = {} /\ base + mem_len <= ADDR_MAX
    BY <1>1, PushFacts
  <2>4. QED BY <2>1, <2>2, <2>3, StepVerdict
<1>4. QED BY <1>2, <1>3

LEMMA WriteWordsVerdict ==
  ASSUME LoaderInv, ImageInv, VerdictInv, write_words
  PROVE  VerdictInv'
<1>1. stage = "words"
  BY DEF write_words
<1>2. CASE Fail("Err")
  <2>1. Len(words) = Len(args.argv) + Len(args.envp) + 7
    <3>1. args.argv \in Seq(Nat) /\ args.envp \in Seq(Nat)
      BY ListsAreStrings
    <3>2. Pushed("argv", args.argv, arg_ptrs, 0) /\ Pushed("envp", args.envp, env_ptrs, 0)
      BY <1>1 DEF LoaderInv, StackBuilt
    <3>3. /\ arg_ptrs \in Seq(Int) /\ Len(arg_ptrs) = Len(args.argv)
          /\ env_ptrs \in Seq(Int) /\ Len(env_ptrs) = Len(args.envp)
      BY <3>1, <3>2, StringsRead, Zenon
    <3>4. Lists(words, arg_ptrs, env_ptrs, Len(arg_ptrs), Len(env_ptrs))
      BY <3>3, StackWords
    <3>5. QED BY <3>3, <3>4, Zenon DEF Lists
  <2>1a. PICK x, y, o \in Nat : /\ x = Bytes(args.argv) /\ y = Bytes(args.envp)
                               /\ o = (Len(args.argv) + Len(args.envp) + 8) * WORD
                               /\ StackNeed = x + y + o + 3 * ALIGN
    BY NeedParts
  <2>2. PICK z \in Nat : z = (Len(args.argv) + Len(args.envp) + 7) * WORD /\ z <= o
    <3>1. PICK p \in Nat, q \in Nat, w \in Nat : p = Len(args.argv) /\ q = Len(args.envp) /\ w = WORD
      BY ListsAreStrings, Sizes
    <3>2. (p + q + 7) * w \in Nat /\ (p + q + 7) * w <= (p + q + 8) * w
      OBVIOUS
    <3>3. QED BY <2>1a, <3>1, <3>2, Zenon
  <2>3. PICK v : v = aligned(sp)
    OBVIOUS
  <2>4. v \in Int /\ v > sp - ALIGN
    BY <1>1, <2>3, PushFacts, AlignedAbove
  <2>5. v - z < base
    <3>1. stage' # "entry"
      BY <1>2 DEF Fail
    <3>2. aligned(sp) - Len(words) * WORD < base
      BY <3>1, Zenon DEF write_words
    <3>3. QED BY <2>1, <2>2, <2>3, <3>2, Zenon
  <2>6. PICK s \in Nat : s = x + y
    OBVIOUS
  <2>7. sp + s > base + mem_len - 2 * ALIGN
    BY <1>1, <2>1a, <2>6, Zenon DEF ImageInv, StackRoom
  <2>8. StackNeed = s + o + 3 * ALIGN
    BY <2>1a, <2>6, Zenon
  <2>9. StackNeed > STACK_SIZE[runner]
    <3>1. /\ sp \in Int /\ base \in Nat /\ span \in Nat /\ STACK_SIZE[runner] \in Nat /\ ALIGN \in Nat
          /\ mem_len = span + STACK_SIZE[runner]
      BY <1>1, PushFacts
    <3>2. s \in Nat /\ z \in Nat /\ o \in Nat /\ z <= o
      BY <2>2, <2>6
    <3>3. QED BY <2>4, <2>5, <2>7, <2>8, <3>1, <3>2
  <2>10. QED BY <1>1, <1>2, <2>9, TooLongVerdict
<1>3. CASE ~Fail("Err")
  <2>1. stage' = "entry" /\ UNCHANGED <<input, layout>> /\ DOMAIN mem' = DOMAIN mem
    BY <1>1, <1>3, Zenon DEF write_words
  <2>2. /\ stage' \in InMemory \ {"Run"} /\ stage' # "copy" /\ stage' \notin {"exec", "enter"}
        /\ stage \in InMemory
    BY <1>1, <2>1 DEF InMemory
  <2>3. CopyStops(mem_len) = {} /\ base + mem_len <= ADDR_MAX
    BY <1>1, PushFacts
  <2>4. QED BY <2>1, <2>2, <2>3, StepVerdict
<1>4. QED BY <1>2, <1>3

\* A program that starts.
LEMMA RunVerdict ==
  ASSUME LoaderInv, VerdictInv, stage \in {"entry", "enter"}, stage' = "Run", Verdict("Run"),
         UNCHANGED <<input, layout, pages>>, DOMAIN mem' = DOMAIN mem
  PROVE  VerdictInv'
<1>1. UNCHANGED <<runner, file, args, segments, min_vaddr, span, base, pages>> /\ DOMAIN mem' = DOMAIN mem
  BY DEF input, layout
<1>2. Verdict("Run")'
  BY <1>1, VerdictKept DEF input
<1>3. OutcomeIsAbstract'
  BY <1>2, Zenon DEF OutcomeIsAbstract, Verdict
<1>4. mem_len' = mem_len /\ stage \in InMemory \ {"copy", "stack"}
  BY <1>1 DEF mem_len, InMemory
<1>5. CopyStops(mem_len)' = CopyStops(mem_len)
  BY <1>1, <1>4 DEF CopyStops, Outside, Panics
<1>6. CopyStops(mem_len)' = {} /\ base' + mem_len' <= ADDR_MAX
  BY <1>1, <1>4, <1>5 DEF VerdictInv
<1>7. (file.len >= EHDR /\ file.ident /\ TableInside)'
  BY <1>1, <1>4 DEF VerdictInv, TableInside, phnum
<1>8. /\ (runner = "native" => file.e_type = "ET_DYN")' /\ (runner = "interp" => base = min_vaddr)'
      /\ (span <= MAX_MEM[runner] /\ Len(segments) <= MAX_SEGMENTS)'
  BY <1>1, <1>4 DEF VerdictInv
<1>9. QED BY <1>3, <1>6, <1>7, <1>8 DEF VerdictInv

LEMMA EntryVerdict ==
  ASSUME LoaderInv, ImageInv, VerdictInv, native_entry \/ interp_entry
  PROVE  VerdictInv'
<1>1. /\ stage = "entry" /\ stage \in InMemory \ {"copy", "stack"} /\ stage \in InMemory
      /\ runner \in Runners /\ ImageBuilt /\ MemoryShape
  BY DEF native_entry, interp_entry, InMemory, ImageInv, LoaderInv
<1>2. CopyVerdict(runner) = "fits" /\ Placed
  BY <1>1, SegmentsFit, ImagePlaced
<1>3. CASE interp_entry
  <2>1. stage' = "Run" /\ runner = "interp" /\ UNCHANGED <<input, layout, mem, pages>>
    BY <1>3 DEF interp_entry
  <2>2. Verdict("Run")
    BY <1>2, <2>1, PlacedVerdict
  <2>3. QED BY <1>1, <2>1, <2>2, RunVerdict
<1>4. CASE native_entry
  <2>1. PICK at : at = file.entry - min_vaddr
    OBVIOUS
  <2>2. runner = "native" /\ base = HeapBase /\ DOMAIN mem = 0 .. span + STACK_SIZE["native"] - 1
    BY <1>1, <1>4 DEF native_entry, MemoryShape
  <2>3. EntryPlace = IF at >= 0 /\ base + at > ADDR_MAX THEN "panics"
                     ELSE IF at \in DOMAIN mem THEN "inside" ELSE "outside"
    BY <2>1, <2>2, Zenon DEF EntryPlace
  <2>4. CASE at >= 0 /\ base + at > ADDR_MAX
    <3>1. Fail("Halt")
      BY <1>4, <2>1, <2>4 DEF native_entry
    <3>2. Verdict("Halt")
      BY <1>2, <2>2, <2>3, <2>4, PlacedVerdict
    <3>3. QED BY <3>1, <3>2, FailVerdict DEF Failed
  <2>5. CASE ~(at >= 0 /\ base + at > ADDR_MAX) /\ at \notin DOMAIN mem
    <3>1. Fail("Err")
      BY <1>4, <2>1, <2>5 DEF native_entry
    <3>2. Verdict("Err")
      BY <1>2, <2>2, <2>3, <2>5, PlacedVerdict
    <3>3. QED BY <3>1, <3>2, FailVerdict DEF Failed
  <2>6. CASE ~(at >= 0 /\ base + at > ADDR_MAX) /\ at \in DOMAIN mem
    <3>1. stage' = "exec" /\ UNCHANGED <<input, layout, mem>>
      BY <1>4, <2>1, <2>6 DEF native_entry
    <3>2. stage' \in InMemory \ {"Run"} /\ stage' # "copy"
      BY <3>1 DEF InMemory
    <3>3. CopyStops(mem_len) = {} /\ base + mem_len <= ADDR_MAX /\ file.entry - min_vaddr \in DOMAIN mem
      BY <1>1, <2>1, <2>6 DEF VerdictInv
    <3>4. QED BY <1>1, <3>1, <3>2, <3>3, StepVerdict
  <2>7. QED BY <2>4, <2>5, <2>6
<1>5. QED BY <1>3, <1>4

\* An entry point in the memory of a native program does not overflow.
LEMMA EntryInside ==
  ASSUME LoaderInv, VerdictInv, stage \in {"exec", "enter"}
  PROVE  EntryPlace = "inside"
<1>1. /\ MemoryShape /\ runner = "native" /\ file.entry - min_vaddr \in DOMAIN mem
      /\ base + mem_len <= ADDR_MAX
  BY DEF LoaderInv, InMemory, PagesDone, VerdictInv
<1>2. PICK at : at = file.entry - min_vaddr
  OBVIOUS
<1>3. /\ mem_len \in Nat /\ DOMAIN mem = 0 .. mem_len - 1 /\ base = HeapBase /\ base \in Nat
      /\ DOMAIN mem = 0 .. span + STACK_SIZE["native"] - 1
  BY <1>1, MemLen DEF MemoryShape, Runners
<1>4. at \in 0 .. mem_len - 1 /\ ~(base + at > ADDR_MAX)
  BY <1>1, <1>2, <1>3, Sizes
<1>5. QED BY <1>2, <1>3, <1>4 DEF EntryPlace

LEMMA ExecutableVerdict ==
  ASSUME LoaderInv, ImageInv, VerdictInv, make_executable
  PROVE  VerdictInv'
<1>1. /\ stage = "exec" /\ stage \in InMemory \ {"copy", "stack"} /\ stage \in InMemory
      /\ runner \in Runners /\ ImageBuilt /\ MemoryShape
  BY DEF make_executable, InMemory, ImageInv, LoaderInv
<1>2. CopyVerdict(runner) = "fits" /\ Placed
  BY <1>1, SegmentsFit, ImagePlaced
<1>3. /\ runner = "native" /\ next \in Int /\ last_page \in Int /\ Page(base) \in Int
      /\ Page(base) <= next /\ next <= last_page + 1
      /\ \A p \in Page(base) .. next - 1 : pages.flags[p] = "x"
  BY <1>1, PageLoop
<1>4. RegionPages = Page(base) .. last_page
  BY <1>1, <1>3, RegionIsRange
<1>5. EntryPlace = "inside"
  BY <1>1, EntryInside
<1>6. CASE ~pages.offset \/ (next <= last_page /\ pages.flags[next] \in {"absent", "huge_nx"})
  <2>1. Fail("Err")
    BY <1>6 DEF make_executable
  <2>2. ~PagesUsable
    <3>1. CASE ~pages.offset
      BY <3>1 DEF PagesUsable
    <3>2. CASE next <= last_page /\ pages.flags[next] \in {"absent", "huge_nx"}
      <4>1. next \in RegionPages
        BY <1>3, <1>4, <3>2
      <4>2. pages.flags[next] \notin {"x", "nx"}
        BY <3>2
      <4>3. QED BY <4>1, <4>2 DEF PagesUsable
    <3>3. QED BY <1>6, <3>1, <3>2
  <2>3. Verdict("Err")
    BY <1>2, <1>3, <1>5, <2>2, PlacedVerdict
  <2>4. QED BY <2>1, <2>3, FailVerdict DEF Failed
<1>7. CASE /\ ~(~pages.offset \/ (next <= last_page /\ pages.flags[next] \in {"absent", "huge_nx"}))
           /\ next > last_page
  <2>1. stage' = "enter" /\ UNCHANGED <<input, layout, mem, pages>>
    BY <1>7 DEF make_executable
  <2>2. PagesUsable
    <3>1. last_page = next - 1
      BY <1>3, <1>7
    <3>2. \A p \in RegionPages : pages.flags[p] = "x"
      BY <1>3, <1>4, <3>1
    <3>3. QED BY <1>7, <3>2 DEF PagesUsable
  <2>3. PagesUsable'
    BY <2>1, <2>2 DEF PagesUsable, RegionPages, Page, layout
  <2>4. stage' \in InMemory \ {"Run"} /\ stage' # "copy"
    BY <2>1 DEF InMemory
  <2>5. CopyStops(mem_len) = {} /\ base + mem_len <= ADDR_MAX /\ file.entry - min_vaddr \in DOMAIN mem
    BY <1>1 DEF VerdictInv
  <2>6. QED BY <1>1, <2>1, <2>3, <2>4, <2>5, StepVerdict
<1>8. CASE /\ ~(~pages.offset \/ (next <= last_page /\ pages.flags[next] \in {"absent", "huge_nx"}))
           /\ ~(next > last_page)
  <2>1. stage' = stage /\ UNCHANGED <<input, layout, mem>>
    BY <1>8 DEF make_executable
  <2>2. stage' \in InMemory \ {"Run"} /\ stage' # "copy" /\ stage' # "enter"
    BY <1>1, <2>1 DEF InMemory
  <2>3. CopyStops(mem_len) = {} /\ base + mem_len <= ADDR_MAX /\ file.entry - min_vaddr \in DOMAIN mem
    BY <1>1 DEF VerdictInv
  <2>4. QED BY <1>1, <2>1, <2>2, <2>3, StepVerdict
<1>9. QED BY <1>6, <1>7, <1>8

LEMMA EnterVerdict ==
  ASSUME LoaderInv, ImageInv, VerdictInv, native_enter
  PROVE  VerdictInv'
<1>1. /\ stage = "enter" /\ stage' = "Run" /\ UNCHANGED <<input, layout, pages>>
      /\ stage \in InMemory \ {"copy", "stack"} /\ stage \in InMemory
      /\ ImageBuilt /\ PagesUsable /\ runner = "native"
  BY DEF native_enter, InMemory, ImageInv, VerdictInv, LoaderInv, PagesDone
<1>2. CopyVerdict(runner) = "fits" /\ Placed /\ EntryPlace = "inside"
  BY <1>1, SegmentsFit, ImagePlaced, EntryInside
<1>3. Verdict("Run")
  BY <1>1, <1>2, PlacedVerdict
<1>4. DOMAIN mem' = DOMAIN mem
  BY ReturnBelow
<1>5. QED BY <1>1, <1>3, <1>4, RunVerdict

LEMMA StutterVerdict ==
  ASSUME VerdictInv, UNCHANGED vars
  PROVE  VerdictInv'
<1>1. UNCHANGED <<input, segments, min_vaddr, span, base, mem, pages>> /\ UNCHANGED <<stage, next>>
  BY DEF vars, input
<1>2. UNCHANGED <<runner, file, args>> /\ mem_len' = mem_len
  BY <1>1 DEF input, mem_len
<1>3. CopyStops(mem_len)' = CopyStops(mem_len)
  BY <1>1, <1>2 DEF CopyStops, Outside, Panics
<1>4. ASSUME OutcomeIsAbstract PROVE OutcomeIsAbstract'
  <2>1. ASSUME stage \in {"Run"} \cup Failed PROVE Verdict(stage)'
    <3>1. PICK how : how = stage
      OBVIOUS
    <3>2. Verdict(how)
      BY <1>4, <2>1, <3>1, Zenon DEF OutcomeIsAbstract
    <3>3. Verdict(how)'
      BY <1>1, <3>2, VerdictKept
    <3>4. stage' = how
      BY <1>1, <3>1
    <3>5. QED BY <3>3, <3>4, Zenon DEF Verdict
  <2>2. QED BY <1>1, <2>1 DEF OutcomeIsAbstract
<1>5. TableInside' = TableInside /\ PagesUsable' = PagesUsable
  BY <1>1, <1>2 DEF TableInside, phnum, PagesUsable, RegionPages, Page
<1>6. OutcomeIsAbstract'
  BY <1>4, Zenon DEF VerdictInv
<1>7. QED BY <1>1, <1>2, <1>3, <1>5, <1>6 DEF VerdictInv

LEMMA NextVerdictInv == LoaderInv /\ ImageInv /\ VerdictInv /\ [Next]_vars => VerdictInv'
<1> SUFFICES ASSUME LoaderInv, ImageInv, VerdictInv, [Next]_vars PROVE VerdictInv'
  OBVIOUS
<1>1. CASE parse_elf64 \/ read_phdr \/ parsed
  BY <1>1, ParseVerdict
<1>2. CASE scan
  BY <1>2, ScanVerdict
<1>3. CASE copy_segment
  BY <1>3, CopyStepVerdict
<1>4. CASE copied
  BY <1>4, CopiedVerdict
<1>5. CASE start_stack
  BY <1>5, StartVerdict
<1>6. CASE push_argv
  BY <1>6, PushArgvVerdict
<1>7. CASE push_envp
  BY <1>7, PushEnvpVerdict
<1>8. CASE write_words
  BY <1>8, WriteWordsVerdict
<1>9. CASE native_entry \/ interp_entry
  BY <1>9, EntryVerdict
<1>10. CASE make_executable
  BY <1>10, ExecutableVerdict
<1>11. CASE native_enter
  BY <1>11, EnterVerdict
<1>12. CASE Done \/ UNCHANGED vars
  BY <1>12, StutterVerdict DEF Done
<1>13. QED BY <1>1, <1>2, <1>3, <1>4, <1>5, <1>6, <1>7, <1>8, <1>9, <1>10, <1>11, <1>12 DEF Next

\* Whatever the file, the lists and the page tables, a loader that has ended has ended
\* the way module Process reads off the abstract image of the file: the model of the
\* program lifecycle assumes nothing of the loaders that they do not do.
THEOREM OutcomeMatchesProcess == Spec => []OutcomeIsAbstract
<1>1. Init => ImageInv /\ VerdictInv
  <2>1. ASSUME Init PROVE stage \notin InMemory /\ stage \notin {"phdrs", "scan", "Run"} \cup Failed
    BY <2>1 DEF Init, InMemory, Failed
  <2>2. QED BY <2>1, EarlyImageInv DEF VerdictInv, OutcomeIsAbstract, InMemory
<1>2. LoaderInv /\ ImageInv /\ VerdictInv /\ [Next]_vars => ImageInv' /\ VerdictInv'
  BY NextImageInv, NextVerdictInv
<1>3. VerdictInv => OutcomeIsAbstract
  BY DEF VerdictInv
<1>4. QED BY <1>1, <1>2, <1>3, LoaderInvariant, PTL DEF Spec
=============================================================================
