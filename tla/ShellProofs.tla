----------------------------- MODULE ShellProofs -----------------------------
(***************************************************************************)
(* The shell and its keyboard, for every line length, every number of scan *)
(* codes in flight, every set of letter keys and every table of commands.  *)
(***************************************************************************)
EXTENDS Shell, SequenceTheorems, TLAPS

USE ShellAssumption
-----------------------------------------------------------------------------
(* Types *)

LEMMA CodeFields ==
  ASSUME NEW c \in Codes
  PROVE  /\ c.code \in MakeCodes /\ c.make \in BOOLEAN
         /\ c.shift \in BOOLEAN /\ c.known \in BOOLEAN
BY DEF Codes

\* What is sent is a code.
LEMMA SentCode ==
  ASSUME NEW k \in MakeCodes, NEW m \in BOOLEAN, NEW s \in BOOLEAN, NEW n \in BOOLEAN
  PROVE  [code |-> k, make |-> m, shift |-> s, known |-> n] \in Codes
BY DEF Codes

\* Reading takes the oldest code out of the port and leaves a valid shift state.
LEMMA ReadTypes ==
  ASSUME TypeOK, read_scancode
  PROVE  /\ port # <<>> /\ Head(port) \in Codes /\ port' \in Seq(Codes)
         /\ SHIFT_DOWN' \in BOOLEAN /\ misread' \in BOOLEAN
         /\ held' = held /\ strayed' = strayed
<1>1. port # <<>> /\ port \in Seq(Codes) /\ port' = Tail(port)
  BY DEF read_scancode, TypeOK
<1>2. Head(port) \in Codes /\ port' \in Seq(Codes)
  BY <1>1, HeadTailProperties
<1>3. SHIFT_DOWN' \in BOOLEAN
  <2>1. SHIFT_DOWN' = shift_after(Head(port))
    BY DEF read_scancode
  <2>2. Head(port).make \in BOOLEAN /\ SHIFT_DOWN \in BOOLEAN
    BY <1>2, CodeFields DEF TypeOK
  <2>3. QED BY <2>1, <2>2, Zenon DEF shift_after
<1>4. misread' \in BOOLEAN
  BY Zenon DEF read_scancode
<1>5. QED BY <1>1, <1>2, <1>3, <1>4 DEF read_scancode, keyboard

\* The character a mapped code gives.
LEMMA ByteType ==
  ASSUME TypeOK, GotByte
  PROVE  byte \in Chars
<1>1. Head(port).code \in Keys
  BY DEF GotByte, Mapped
<1>2. (SHIFT_DOWN /\ Head(port).code \in Letters) \in BOOLEAN
  BY Zenon
<1>3. QED BY <1>1, <1>2 DEF byte, scancode_to_ascii, Char, Chars

LEMMA ErasedType ==
  ASSUME NEW s \in Seq(Chars), Len(s) > 0
  PROVE  Erased(s) \in Seq(Chars) /\ Len(Erased(s)) = Len(s) - 1
<1> DEFINE n == Len(s) - 1
<1>1. n \in Nat /\ \A i \in 1 .. n : s[i] \in Chars
  BY LenProperties, ElementOfSeq
<1> HIDE DEF n
<1>2. /\ SubSeq(s, 1, n) \in Seq(Chars)
      /\ Len(SubSeq(s, 1, n)) = IF 1 <= n THEN n - 1 + 1 ELSE 0
  BY <1>1, SubSeqProperties
<1>3. SubSeq(s, 1, n) \in Seq(Chars) /\ Len(SubSeq(s, 1, n)) = n
  BY <1>1, <1>2
<1>4. QED BY <1>3 DEF Erased, n

\* Whatever was typed, the shell's answer is one of those listed.
LEMMA AnswerType ==
  ASSUME NEW cmd
  PROVE  answer(cmd) \in Outs
BY Zenon DEF answer, Outs
-----------------------------------------------------------------------------
LEMMA InitShellInv == Init => ShellInv
<1> SUFFICES ASSUME Init PROVE ShellInv
  OBVIOUS
<1>1. port = <<>> /\ Len(port) = 0 /\ port \in Seq(Codes)
  BY EmptySeq DEF Init
<1>2. /\ line = <<>> /\ screen = <<>> /\ buf = <<>> /\ Len(line) = 0 /\ Len(buf) = 0
      /\ line \in Seq(Chars) /\ screen \in Seq(Chars) /\ buf \in Seq(Chars)
  BY EmptySeq DEF Init
<1>3. SHIFT_DOWN \in BOOLEAN /\ strayed \in BOOLEAN /\ misread \in BOOLEAN
  BY Zenon DEF Init
<1>4. TypeOK
  BY <1>1, <1>2, <1>3 DEF Init, TypeOK, Outs
<1>5. ReadInv
  BY <1>2 DEF Init, ReadInv, ReadStopsAtEnter
<1>6. ShiftInv
  BY <1>1 DEF Init, ShiftInv, ShiftKept, ShiftBefore
<1>7. QED BY <1>2, <1>4, <1>5, <1>6 DEF ShellInv
-----------------------------------------------------------------------------
(* The line, the screen and the read of a program *)

\* What a key of the user leaves alone.
LEMMA UserLeaves ==
  ASSUME User
  PROVE  UNCHANGED kernel
BY DEF User, press, release_shift, release_key

\* The user's steps keep the types.
LEMMA UserTypes ==
  ASSUME TypeOK, User
  PROVE  TypeOK'
<1>1. UNCHANGED <<SHIFT_DOWN, mode, line, screen, out, buf, want, misread>>
  BY UserLeaves DEF kernel, program
<1>2. ASSUME NEW k \in MakeCodes, NEW m \in BOOLEAN, Send(k, m)
      PROVE  port' \in Seq(Codes)
  <2> DEFINE c == [code |-> k, make |-> m, shift |-> k \in Letters /\ held # {},
                   known |-> k \in Letters /\ ~strayed]
  <2>1. (k \in Letters /\ held # {}) \in BOOLEAN /\ (k \in Letters /\ ~strayed) \in BOOLEAN
    BY Zenon
  <2>2. c \in Codes
    BY <2>1, SentCode, Zenon
  <2>3. port' = Append(port, c)
    BY <1>2 DEF Send
  <2>4. QED BY <2>2, <2>3, AppendProperties DEF TypeOK
<1>3. ASSUME NEW k \in MakeCodes, press(k)
      PROVE  port' \in Seq(Codes) /\ held' \subseteq Shifts /\ strayed' \in BOOLEAN
  <2>1. port' \in Seq(Codes)
    BY <1>2, <1>3, Zenon DEF press
  <2>2. held' \subseteq Shifts
    BY <1>3 DEF press, TypeOK
  <2>3. strayed' \in BOOLEAN
    BY <1>3, Zenon DEF press, TypeOK
  <2>4. QED BY <2>1, <2>2, <2>3
<1>4. ASSUME NEW k \in Shifts, release_shift(k)
      PROVE  port' \in Seq(Codes) /\ held' \subseteq Shifts /\ strayed' \in BOOLEAN
  <2>1. port' \in Seq(Codes)
    BY <1>2, <1>4, Zenon DEF release_shift, MakeCodes
  <2>2. held' \subseteq Shifts
    BY <1>4 DEF release_shift, TypeOK
  <2>3. strayed' \in BOOLEAN
    BY <1>4, Zenon DEF release_shift
  <2>4. QED BY <2>1, <2>2, <2>3
<1>5. ASSUME release_key
      PROVE  port' \in Seq(Codes) /\ held' \subseteq Shifts /\ strayed' \in BOOLEAN
  <2>1. "Unmapped" \in MakeCodes
    BY DEF MakeCodes, Keys, OtherKeys
  <2>2. port' \in Seq(Codes)
    BY <1>2, <1>5, <2>1, Zenon DEF release_key
  <2>3. QED BY <1>5, <2>2 DEF release_key, keyboard, TypeOK
<1>6. port' \in Seq(Codes) /\ held' \subseteq Shifts /\ strayed' \in BOOLEAN
  BY <1>3, <1>4, <1>5 DEF User
<1>7. QED BY <1>1, <1>6 DEF TypeOK

\* The steps that read no scan code and are not the user's.
LEMMA ProgramKeeps ==
  ASSUME ShellInv, Program
  PROVE  TypeOK' /\ screen' = line' /\ ReadInv' /\ UNCHANGED input
<1>0. TypeOK /\ screen = line /\ ReadInv
  BY DEF ShellInv
<1>1. <<>> \in Seq(Chars) /\ Len(<<>>) = 0
  BY EmptySeq
<1>2. ASSUME NEW n \in 1 .. READ_MAX, read_begin(n)
      PROVE  TypeOK' /\ screen' = line' /\ ReadInv' /\ UNCHANGED input
  <2>1. /\ UNCHANGED <<input, held, port, SHIFT_DOWN, strayed, misread, line, screen, out>>
        /\ mode' = "read" /\ buf' = <<>> /\ want' = n /\ n \in Nat /\ n > 0
    BY <1>2 DEF read_begin, input
  <2>2. TypeOK'
    <3>1. buf' \in Seq(Chars) /\ Len(buf') <= want' /\ want' \in Nat
      BY <1>1, <2>1
    <3>2. UNCHANGED <<held, port, SHIFT_DOWN, strayed, misread, line, screen, out>>
      BY <2>1
    <3>3. mode' \in {"edit", "program", "read", "halted"}
      BY <2>1
    <3>4. QED BY <1>0, <3>1, <3>2, <3>3 DEF TypeOK
  <2>3. ReadInv'
    BY <1>1, <2>1 DEF ReadInv, ReadStopsAtEnter
  <2>4. QED BY <1>0, <2>1, <2>2, <2>3
<1>3. CASE program_returns
  <2>1. /\ UNCHANGED <<input, held, port, SHIFT_DOWN, strayed, misread, buf, want>>
        /\ mode' = "edit" /\ line' = <<>> /\ screen' = <<>> /\ out' = "reply"
    BY <1>3 DEF program_returns, input, program
  <2>2. TypeOK'
    <3>1. /\ line' \in Seq(Chars) /\ Len(line') <= LINE_MAX /\ screen' \in Seq(Chars)
          /\ out' \in Outs /\ mode' \in {"edit", "program", "read", "halted"}
      BY <1>1, <2>1 DEF Outs
    <3>2. UNCHANGED <<held, port, SHIFT_DOWN, strayed, misread, buf, want>>
      BY <2>1
    <3>3. QED BY <1>0, <3>1, <3>2 DEF TypeOK
  <2>3. ReadInv'
    BY <1>0, <2>1 DEF ReadInv, ReadStopsAtEnter
  <2>4. QED BY <2>1, <2>2, <2>3
<1>4. CASE program_halts
  <2>1. /\ UNCHANGED <<input, held, port, SHIFT_DOWN, strayed, misread, line, screen, out,
                       buf, want>>
        /\ mode' = "halted"
    BY <1>4 DEF program_halts, input, program
  <2>2. TypeOK'
    BY <1>0, <2>1 DEF TypeOK
  <2>3. ReadInv'
    BY <1>0, <2>1 DEF ReadInv, ReadStopsAtEnter
  <2>4. QED BY <1>0, <2>1, <2>2, <2>3
<1>5. QED BY <1>2, <1>3, <1>4 DEF Program

\* The polling loop of the shell.
LEMMA ShellPollKeeps ==
  ASSUME ShellInv, ShellPoll
  PROVE  TypeOK' /\ screen' = line' /\ ReadInv' /\ read_scancode
<1>0. TypeOK /\ screen = line /\ ReadInv
  BY DEF ShellInv
<1>1. read_scancode /\ mode = "edit" /\ UNCHANGED <<buf, want>> /\ mode' \in {"edit", "program", "halted"}
  BY DEF ShellPoll, shell_idle, shell_char, shell_backspace, shell_enter, shell_run, shell_halt,
         Enter, program
<1>2. /\ port' \in Seq(Codes) /\ SHIFT_DOWN' \in BOOLEAN /\ misread' \in BOOLEAN
      /\ held' = held /\ strayed' = strayed
  BY <1>0, <1>1, ReadTypes
<1>3. line \in Seq(Chars) /\ Len(line) \in Nat /\ Len(line) <= LINE_MAX
  BY <1>0, LenProperties DEF TypeOK
<1>4. <<>> \in Seq(Chars) /\ Len(<<>>) = 0
  BY EmptySeq
<1>5. line' \in Seq(Chars) /\ Len(line') <= LINE_MAX /\ screen' = line' /\ out' \in Outs
  <2>1. CASE shell_idle
    BY <1>0, <1>3, <2>1 DEF shell_idle, Outs
  <2>2. CASE shell_char
    <3>1. byte \in Chars
      BY <1>0, <2>2, ByteType DEF shell_char
    <3>2. Append(line, byte) \in Seq(Chars) /\ Len(Append(line, byte)) = Len(line) + 1
      BY <1>3, <3>1, AppendProperties
    <3>3. QED BY <1>0, <1>3, <2>2, <3>2 DEF shell_char, Outs
  <2>3. CASE shell_backspace
    <3>1. Len(line) > 0 => Erased(line) \in Seq(Chars) /\ Len(Erased(line)) = Len(line) - 1
      BY <1>3, ErasedType
    <3>2. QED BY <1>0, <1>3, <2>3, <3>1 DEF shell_backspace, Outs
  <2>4. CASE shell_enter
    BY <1>4, <2>4, AnswerType DEF shell_enter
  <2>5. CASE shell_run \/ shell_halt
    BY <1>0, <1>3, <2>5 DEF shell_run, shell_halt, Outs
  <2>6. QED BY <2>1, <2>2, <2>3, <2>4, <2>5 DEF ShellPoll
<1>6. TypeOK'
  BY <1>0, <1>1, <1>2, <1>5 DEF TypeOK
<1>7. ReadInv'
  BY <1>0, <1>1 DEF ReadInv, ReadStopsAtEnter
<1>8. QED BY <1>1, <1>5, <1>6, <1>7

\* The polling loop of a blocked read.
LEMMA ReadPollKeeps ==
  ASSUME ShellInv, ReadPoll
  PROVE  TypeOK' /\ screen' = line' /\ ReadInv' /\ read_scancode
<1>0. TypeOK /\ screen = line /\ ReadInv
  BY DEF ShellInv
<1>1. read_scancode /\ mode = "read" /\ UNCHANGED <<line, screen, out, want>>
  BY DEF ReadPoll, read_idle, read_byte, program
<1>2. /\ port' \in Seq(Codes) /\ SHIFT_DOWN' \in BOOLEAN /\ misread' \in BOOLEAN
      /\ held' = held /\ strayed' = strayed
  BY <1>0, <1>1, ReadTypes
<1>3. /\ buf \in Seq(Chars) /\ Len(buf) \in Nat /\ want \in Nat /\ Len(buf) < want
      /\ \A i \in 1 .. Len(buf) : buf[i].key # "Enter"
  BY <1>0, <1>1, LenProperties DEF TypeOK, ReadInv
<1>4. CASE read_idle
  <2>1. mode' = mode /\ buf' = buf
    BY <1>4 DEF read_idle, program
  <2>2. TypeOK'
    BY <1>0, <1>1, <1>2, <2>1 DEF TypeOK
  <2>3. ReadInv'
    BY <1>0, <1>1, <2>1 DEF ReadInv, ReadStopsAtEnter
  <2>4. QED BY <1>0, <1>1, <2>2, <2>3
<1>5. CASE read_byte
  <2>1. byte \in Chars
    BY <1>0, <1>5, ByteType DEF read_byte
  <2>2. /\ buf' = Append(buf, byte)
        /\ mode' = IF byte.key = "Enter" \/ Len(buf) + 1 = want THEN "program" ELSE "read"
    BY <1>5 DEF read_byte
  <2>3. /\ buf' \in Seq(Chars) /\ Len(buf') = Len(buf) + 1
        /\ \A i \in 1 .. Len(buf) : buf'[i] = buf[i]
        /\ buf'[Len(buf) + 1] = byte
    BY <1>3, <2>1, <2>2, AppendProperties
  <2>4. TypeOK'
    BY <1>0, <1>1, <1>2, <1>3, <2>2, <2>3 DEF TypeOK
  <2>5. ReadStopsAtEnter'
    BY <1>3, <2>3 DEF ReadStopsAtEnter
  <2>6. mode' = "read" => Len(buf') < want' /\ \A i \in 1 .. Len(buf') : buf'[i].key # "Enter"
    BY <1>1, <1>3, <2>2, <2>3
  <2>7. QED BY <1>0, <1>1, <2>4, <2>5, <2>6 DEF ReadInv
<1>6. QED BY <1>4, <1>5 DEF ReadPoll
-----------------------------------------------------------------------------
(* Shift: what the scan codes in flight will make of SHIFT_DOWN *)

\* Reading the oldest code moves every other one forward by one.
LEMMA ShiftAfterRead ==
  ASSUME TypeOK, ShiftInv, read_scancode
  PROVE  ShiftInv'
<1>1. /\ port # <<>> /\ Head(port) \in Codes /\ port' \in Seq(Codes)
      /\ held' = held /\ strayed' = strayed
  BY ReadTypes
<1>2. /\ port \in Seq(Codes) /\ Len(port) \in Nat /\ Len(port) > 0 /\ Head(port) = port[1]
      /\ Len(port') = Len(port) - 1
      /\ \A i \in 1 .. Len(port) - 1 : port'[i] = port[i + 1]
  BY <1>1, HeadTailProperties, EmptySeq, LenProperties DEF TypeOK, read_scancode
<1>3. SHIFT_DOWN' = IF port[1].code \in Shifts THEN port[1].make ELSE SHIFT_DOWN
  BY <1>2 DEF read_scancode, shift_after
<1>4. ASSUME NEW i \in 1 .. Len(port), NEW s, ShiftBefore(i + 1, s)
      PROVE  ShiftBefore(i, s)'
  <2>1. ASSUME NEW j \in 1 .. i - 1, port'[j].code \in Shifts,
               \A k \in j + 1 .. i - 1 : port'[k].code \notin Shifts
        PROVE  port'[j].make <=> s
    <3>1. j + 1 \in 1 .. i /\ port'[j] = port[j + 1]
      BY <1>2, <2>1
    <3>2. \A k \in (j + 1) + 1 .. i : port[k].code \notin Shifts
      <4>1. SUFFICES ASSUME NEW k \in (j + 1) + 1 .. i PROVE port[k].code \notin Shifts
        OBVIOUS
      <4>2. k - 1 \in j + 1 .. i - 1 /\ k - 1 \in 1 .. Len(port) - 1 /\ (k - 1) + 1 = k
        BY <1>2
      <4>3. port'[k - 1] = port[k]
        BY <1>2, <4>2
      <4>4. QED BY <2>1, <4>2, <4>3
    <3>3. QED BY <1>4, <2>1, <3>1, <3>2 DEF ShiftBefore
  <2>2. ASSUME \A k \in 1 .. i - 1 : port'[k].code \notin Shifts
        PROVE  SHIFT_DOWN' <=> s
    <3>1. \A k \in 2 .. i : port[k].code \notin Shifts
      <4>1. SUFFICES ASSUME NEW k \in 2 .. i PROVE port[k].code \notin Shifts
        OBVIOUS
      <4>2. k - 1 \in 1 .. i - 1 /\ k - 1 \in 1 .. Len(port) - 1 /\ (k - 1) + 1 = k
        BY <1>2
      <4>3. port'[k - 1] = port[k]
        BY <1>2, <4>2
      <4>4. QED BY <2>2, <4>2, <4>3
    <3>2. CASE port[1].code \in Shifts
      <4>1. 1 \in 1 .. (i + 1) - 1 /\ \A k \in 1 + 1 .. (i + 1) - 1 : port[k].code \notin Shifts
        BY <3>1
      <4>2. port[1].make <=> s
        BY <1>4, <3>2, <4>1 DEF ShiftBefore
      <4>3. QED BY <1>3, <3>2, <4>2
    <3>3. CASE port[1].code \notin Shifts
      <4>1. \A k \in 1 .. (i + 1) - 1 : port[k].code \notin Shifts
        BY <3>1, <3>3
      <4>2. SHIFT_DOWN <=> s
        BY <1>4, <4>1 DEF ShiftBefore
      <4>3. QED BY <1>3, <3>3, <4>2
    <3>4. QED BY <3>2, <3>3
  <2>3. QED BY <2>1, <2>2 DEF ShiftBefore
<1>5. ASSUME NEW i \in 1 .. Len(port'), port'[i].known
      PROVE  ShiftBefore(i, port[i].shift)'
  <2>1. PICK s : s = port'[i].shift
    OBVIOUS
  <2>2. i + 1 \in 1 .. Len(port) /\ port'[i] = port[i + 1] /\ i \in 1 .. Len(port)
    BY <1>2
  <2>3. ShiftBefore(i + 1, s)
    BY <1>5, <2>1, <2>2 DEF ShiftInv
  <2>4. ShiftBefore(i, s)'
    BY <1>4, <2>2, <2>3
  <2>5. QED BY <2>1, <2>4 DEF ShiftBefore
<1>6. ASSUME ~strayed'
      PROVE  ShiftBefore(Len(port) + 1, held # {})'
  <2>1. PICK s : s = (held # {})
    OBVIOUS
  <2>2. PICK n : n = Len(port)
    OBVIOUS
  <2>3. ShiftBefore(n + 1, s)
    BY <1>1, <1>6, <2>1, <2>2 DEF ShiftInv
  <2>4. ShiftBefore(n, s)'
    BY <1>2, <1>4, <2>2, <2>3
  <2>5. n = Len(port') + 1 /\ s = (held' # {})
    BY <1>1, <1>2, <2>1, <2>2
  <2>6. QED BY <2>4, <2>5 DEF ShiftBefore
<1>7. ShiftKept'
  <2>1. ASSUME port[1].known PROVE SHIFT_DOWN = port[1].shift
    <3>1. ShiftBefore(1, port[1].shift)
      BY <1>2, <2>1 DEF ShiftInv
    <3>2. SHIFT_DOWN <=> port[1].shift
      BY <3>1 DEF ShiftBefore
    <3>3. port[1].shift \in BOOLEAN /\ SHIFT_DOWN \in BOOLEAN
      BY <1>1, <1>2, CodeFields DEF TypeOK
    <3>4. QED BY <3>2, <3>3
  <2>2. QED BY <1>2, <2>1 DEF read_scancode, ShiftKept
<1>8. QED BY <1>5, <1>6, <1>7 DEF ShiftInv

\* A code that is sent goes behind the others: it is the last to change SHIFT_DOWN,
\* if it is a shift key's, and leaves it otherwise as the others will.
LEMMA ShiftBeforeSent ==
  ASSUME TypeOK, NEW c \in Codes, port' = Append(port, c), SHIFT_DOWN' = SHIFT_DOWN
  PROVE  /\ \A i \in 1 .. Len(port) + 1 : \A s : ShiftBefore(i, s) => ShiftBefore(i, s)'
         /\ \A n : n = Len(port) /\ c.code \in Shifts => ShiftBefore(n + 2, c.make)'
         /\ \A n, s : n = Len(port) /\ c.code \notin Shifts /\ ShiftBefore(n + 1, s)
                      => ShiftBefore(n + 2, s)'
<1>1. /\ Len(port) \in Nat /\ Len(port') = Len(port) + 1
      /\ \A i \in 1 .. Len(port) : port'[i] = port[i]
      /\ port'[Len(port) + 1] = c
  BY AppendProperties, LenProperties DEF TypeOK
<1>2. ASSUME NEW i \in 1 .. Len(port) + 1, NEW s, ShiftBefore(i, s)
      PROVE  ShiftBefore(i, s)'
  <2>1. \A j \in 1 .. i - 1 : port'[j] = port[j]
    BY <1>1
  <2>2. QED BY <1>1, <1>2, <2>1 DEF ShiftBefore
<1>3. ASSUME NEW n, n = Len(port), c.code \in Shifts
      PROVE  ShiftBefore(n + 2, c.make)'
  <2>1. n + 1 \in 1 .. (n + 2) - 1 /\ port'[n + 1] = c
    BY <1>1, <1>3
  <2>2. ASSUME NEW j \in 1 .. (n + 2) - 1, port'[j].code \in Shifts,
               \A k \in j + 1 .. (n + 2) - 1 : port'[k].code \notin Shifts
        PROVE  port'[j].make <=> c.make
    <3>1. j = n + 1
      BY <1>1, <1>3, <2>1, <2>2
    <3>2. QED BY <1>3, <2>1, <3>1
  <2>3. QED BY <1>3, <2>1, <2>2 DEF ShiftBefore
<1>4. ASSUME NEW n, NEW s, n = Len(port), c.code \notin Shifts, ShiftBefore(n + 1, s)
      PROVE  ShiftBefore(n + 2, s)'
  <2>1. n \in Nat /\ n + 1 \in 1 .. (n + 2) - 1 /\ port'[n + 1] = c
        /\ \A j \in 1 .. n : port'[j] = port[j]
    BY <1>1, <1>4
  <2>2. ASSUME NEW j \in 1 .. (n + 2) - 1, port'[j].code \in Shifts,
               \A k \in j + 1 .. (n + 2) - 1 : port'[k].code \notin Shifts
        PROVE  port'[j].make <=> s
    <3>1. j \in 1 .. n /\ port'[j] = port[j]
      BY <1>4, <2>1, <2>2
    <3>2. \A k \in j + 1 .. (n + 1) - 1 : port[k].code \notin Shifts
      <4>1. SUFFICES ASSUME NEW k \in j + 1 .. (n + 1) - 1 PROVE port[k].code \notin Shifts
        OBVIOUS
      <4>2. k \in j + 1 .. (n + 2) - 1 /\ k \in 1 .. n
        BY <2>1, <3>1
      <4>3. port'[k] = port[k]
        BY <2>1, <4>2
      <4>4. QED BY <2>2, <4>2, <4>3
    <3>3. QED BY <1>4, <2>1, <2>2, <3>1, <3>2 DEF ShiftBefore
  <2>3. ASSUME \A k \in 1 .. (n + 2) - 1 : port'[k].code \notin Shifts
        PROVE  SHIFT_DOWN' <=> s
    <3>1. \A k \in 1 .. (n + 1) - 1 : port[k].code \notin Shifts
      <4>1. SUFFICES ASSUME NEW k \in 1 .. (n + 1) - 1 PROVE port[k].code \notin Shifts
        OBVIOUS
      <4>2. k \in 1 .. (n + 2) - 1 /\ k \in 1 .. n
        BY <2>1
      <4>3. port'[k] = port[k]
        BY <2>1, <4>2
      <4>4. QED BY <2>3, <4>2, <4>3
    <3>2. QED BY <1>4, <3>1 DEF ShiftBefore
  <2>4. QED BY <2>2, <2>3 DEF ShiftBefore
<1>5. QED BY <1>2, <1>3, <1>4

\* The user's steps keep ShiftInv.
LEMMA ShiftAfterUser ==
  ASSUME TypeOK, ShiftInv, User
  PROVE  ShiftInv'
<1>1. SHIFT_DOWN' = SHIFT_DOWN /\ misread' = misread
  BY UserLeaves DEF kernel
<1>2. ASSUME NEW k \in MakeCodes, NEW m \in BOOLEAN, Send(k, m),
             k \notin Shifts => UNCHANGED keyboard,
             k \in Shifts /\ ~strayed' => (m <=> held' # {})
      PROVE  ShiftInv'
  <2>1. PICK sh \in BOOLEAN : sh = (k \in Letters /\ held # {})
    BY Zenon
  <2>2. PICK kn \in BOOLEAN : kn = (k \in Letters /\ ~strayed)
    BY Zenon
  <2>3. PICK c : c = [code |-> k, make |-> m, shift |-> sh, known |-> kn]
    OBVIOUS
  <2>4. c \in Codes /\ c.code = k /\ c.make = m /\ c.shift = sh /\ c.known = kn
    BY <2>3, SentCode
  <2>5. port' = Append(port, c)
    BY <1>2, <2>1, <2>2, <2>3 DEF Send
  <2>6. /\ Len(port) \in Nat /\ Len(port') = Len(port) + 1
        /\ \A i \in 1 .. Len(port) : port'[i] = port[i]
        /\ port'[Len(port) + 1] = c
    BY <2>4, <2>5, AppendProperties, LenProperties DEF TypeOK
  <2>7. PICK n \in Nat : n = Len(port)
    BY <2>6
  <2>8. /\ \A i \in 1 .. n + 1 : \A s : ShiftBefore(i, s) => ShiftBefore(i, s)'
        /\ k \in Shifts => ShiftBefore(n + 2, m)'
        /\ \A s : k \notin Shifts /\ ShiftBefore(n + 1, s) => ShiftBefore(n + 2, s)'
    <3>1. /\ \A i \in 1 .. Len(port) + 1 : \A s : ShiftBefore(i, s) => ShiftBefore(i, s)'
          /\ c.code \in Shifts => ShiftBefore(n + 2, c.make)'
          /\ \A s : c.code \notin Shifts /\ ShiftBefore(n + 1, s) => ShiftBefore(n + 2, s)'
      <4>1. \A i \in 1 .. Len(port) + 1 : \A s : ShiftBefore(i, s) => ShiftBefore(i, s)'
        BY <1>1, <2>4, <2>5, ShiftBeforeSent, Zenon
      <4>2. c.code \in Shifts => ShiftBefore(n + 2, c.make)'
        BY <1>1, <2>4, <2>5, <2>7, ShiftBeforeSent, Zenon
      <4>3. \A s : c.code \notin Shifts /\ ShiftBefore(n + 1, s) => ShiftBefore(n + 2, s)'
        BY <1>1, <2>4, <2>5, <2>7, ShiftBeforeSent, Zenon
      <4>4. QED BY <4>1, <4>2, <4>3
    <3>2. QED BY <2>4, <2>7, <3>1
  <2>9. ASSUME NEW i \in 1 .. Len(port'), port'[i].known
        PROVE  ShiftBefore(i, port[i].shift)'
    <3>1. PICK s : s = port'[i].shift
      OBVIOUS
    <3>2. i \in 1 .. n + 1
      BY <2>6, <2>7
    <3>3. ShiftBefore(i, s)
      <4>1. CASE i \in 1 .. n
        <5>1. port'[i] = port[i]
          BY <2>6, <2>7, <4>1
        <5>2. QED BY <2>7, <2>9, <3>1, <4>1, <5>1 DEF ShiftInv
      <4>2. CASE i = n + 1
        <5>1. port'[i] = c
          BY <2>6, <2>7, <4>2
        <5>2. k \in Letters /\ ~strayed
          BY <2>2, <2>4, <2>9, <5>1
        <5>3. s = (held # {})
          BY <2>1, <2>4, <3>1, <5>1, <5>2
        <5>4. QED BY <2>7, <4>2, <5>2, <5>3 DEF ShiftInv
      <4>3. QED BY <3>2, <4>1, <4>2
    <3>4. ShiftBefore(i, s)'
      BY <2>8, <3>2, <3>3
    <3>5. QED BY <3>1, <3>4 DEF ShiftBefore
  <2>10. ASSUME ~strayed'
         PROVE  ShiftBefore(Len(port) + 1, held # {})'
    <3>1. PICK s : s = (held' # {})
      OBVIOUS
    <3>4. ShiftBefore(n + 2, s)'
      <4>1. CASE k \in Shifts
        BY <1>2, <2>8, <2>10, <3>1, <4>1 DEF ShiftBefore
      <4>2. CASE k \notin Shifts
        <5>1. ~strayed /\ s = (held # {})
          BY <1>2, <2>10, <3>1, <4>2 DEF keyboard
        <5>2. ShiftBefore(n + 1, s)
          BY <2>7, <5>1 DEF ShiftInv
        <5>3. QED BY <2>8, <4>2, <5>2
      <4>3. QED BY <4>1, <4>2
    <3>5. n + 2 = Len(port') + 1
      BY <2>6, <2>7
    <3>6. QED BY <3>1, <3>4, <3>5 DEF ShiftBefore
  <2>11. ShiftKept'
    BY <1>1 DEF ShiftInv, ShiftKept
  <2>12. QED BY <2>9, <2>10, <2>11 DEF ShiftInv
<1>3. ASSUME NEW k \in MakeCodes, press(k) PROVE ShiftInv'
  <2>1. Send(k, TRUE) /\ (k \notin Shifts => UNCHANGED keyboard)
    BY <1>3 DEF press, keyboard
  <2>2. k \in Shifts => held' # {}
    BY <1>3 DEF press
  <2>3. QED BY <1>2, <2>1, <2>2
<1>4. ASSUME NEW k \in Shifts, release_shift(k) PROVE ShiftInv'
  <2>1. k \in MakeCodes /\ Send(k, FALSE)
    BY <1>4 DEF release_shift, MakeCodes
  <2>2. ~strayed' => held' = {}
    BY <1>4 DEF release_shift
  <2>3. QED BY <1>2, <2>1, <2>2
<1>5. ASSUME release_key PROVE ShiftInv'
  <2>1. "Unmapped" \in MakeCodes /\ "Unmapped" \notin Shifts
    BY DEF MakeCodes, Keys, OtherKeys, Shifts
  <2>2. QED BY <1>2, <1>5, <2>1 DEF release_key
<1>6. QED BY <1>3, <1>4, <1>5 DEF User
-----------------------------------------------------------------------------
LEMMA NextShellInv == ShellInv /\ [Next]_vars => ShellInv'
<1> SUFFICES ASSUME ShellInv, [Next]_vars PROVE ShellInv'
  OBVIOUS
<1>0. TypeOK /\ screen = line /\ ReadInv /\ ShiftInv
  BY DEF ShellInv
<1>1. CASE User
  <2>1. UNCHANGED <<mode, line, screen, buf, want>>
    BY <1>1, UserLeaves DEF kernel, program
  <2>2. ReadInv'
    BY <1>0, <2>1 DEF ReadInv, ReadStopsAtEnter
  <2>3. TypeOK' /\ ShiftInv'
    BY <1>0, <1>1, UserTypes, ShiftAfterUser
  <2>4. QED BY <1>0, <2>1, <2>2, <2>3 DEF ShellInv
<1>2. CASE ShellPoll \/ ReadPoll
  <2>1. TypeOK' /\ screen' = line' /\ ReadInv' /\ read_scancode
    BY <1>2, ShellPollKeeps, ReadPollKeeps
  <2>2. ShiftInv'
    BY <1>0, <2>1, ShiftAfterRead
  <2>3. QED BY <2>1, <2>2 DEF ShellInv
<1>3. CASE Program
  <2>1. TypeOK' /\ screen' = line' /\ ReadInv' /\ UNCHANGED input
    BY <1>3, ProgramKeeps
  <2>2. ShiftInv'
    BY <1>0, <2>1 DEF input, ShiftInv, ShiftKept, ShiftBefore
  <2>3. QED BY <2>1, <2>2 DEF ShellInv
<1>4. CASE UNCHANGED vars
  <2>1. TypeOK'
    BY <1>0, <1>4 DEF vars, TypeOK
  <2>2. ReadInv'
    BY <1>0, <1>4 DEF vars, ReadInv, ReadStopsAtEnter
  <2>3. ShiftInv'
    BY <1>0, <1>4 DEF vars, ShiftInv, ShiftKept, ShiftBefore
  <2>4. QED BY <1>0, <1>4, <2>1, <2>2, <2>3 DEF vars, ShellInv
<1>5. QED BY <1>1, <1>2, <1>3, <1>4 DEF Next

\* However the user, the shell and a program reading its standard input
\* interleave, the inductive invariant holds.
THEOREM ShellInvariant == Spec => []ShellInv
<1>1. QED BY InitShellInv, NextShellInv, PTL DEF Spec

\* The line never outgrows run_shell's buffer, nor a read the count it was
\* given, for every buffer length and every count.
THEOREM ShellTypes == Spec => []TypeOK
<1>1. ShellInv => TypeOK
  BY DEF ShellInv
<1>2. QED BY <1>1, ShellInvariant, PTL

\* The terminal shows after the prompt exactly what Enter would execute.
THEOREM ShellShowsLine == Spec => []ScreenShowsLine
<1>1. ShellInv => ScreenShowsLine
  BY DEF ShellInv, ScreenShowsLine
<1>2. QED BY <1>1, ShellInvariant, PTL

\* Whoever reads a letter's scan code, and however many codes are in flight, the
\* static SHIFT_DOWN then says what the user held when it was typed.
THEOREM ShellKeepsShift == Spec => []ShiftKept
<1>1. ShellInv => ShiftKept
  BY DEF ShellInv, ShiftInv
<1>2. QED BY <1>1, ShellInvariant, PTL

\* A blocked read takes nothing typed after Enter.
THEOREM ShellReadStops == Spec => []ReadStopsAtEnter
<1>1. ShellInv => ReadStopsAtEnter
  BY DEF ShellInv, ReadInv
<1>2. QED BY <1>1, ShellInvariant, PTL
=============================================================================
