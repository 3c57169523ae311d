-------------------------------- MODULE Shell --------------------------------
(***************************************************************************)
(* The Leon shell and the keyboard it shares with the programs it starts:  *)
(* keyboard_read_ascii_nonblocking and handle_custom_command of            *)
(* kernel/src/main.rs, kernel/src/shell.rs, and the blocking reads of      *)
(* kernel/src/posix.rs and of both runners.  What a program does besides   *)
(* reading its standard input is module Process.                           *)
(***************************************************************************)
EXTENDS Integers, Sequences, FiniteSetsExt

CONSTANTS
  Letters,    \* keys that give two characters, one of them with shift
  LINE_MAX,   \* length of the shell's line buffer (256)
  PORT_MAX,   \* bound: scan codes the keyboard controller holds back
  READ_MAX,   \* bound: the longest read a program asks for
  Meaning,    \* what the commands the shell knows do, by their text
  RAMDISK     \* the boot loader passed a ramdisk

Shifts == {"LShift", "RShift"}
OtherKeys == {"Enter", "Backspace", "Space", "Unmapped"}
Keys == Letters \cup OtherKeys

\* A character: the key that gives it, and whether it is the shifted one.
Chars == [key: Keys, shift: BOOLEAN]
Char(k, s) == [key |-> k, shift |-> s]
Space == Char("Space", FALSE)

Effects == {"reply", "disk", "run", "halt"}

ASSUME ShellAssumption ==
  /\ Letters \cap (OtherKeys \cup Shifts) = {}
  /\ LINE_MAX \in Nat /\ PORT_MAX \in Nat /\ READ_MAX \in Nat
  /\ DOMAIN Meaning \subseteq Seq(Chars) \ {<<>>}
  /\ \A text \in DOMAIN Meaning : Meaning[text] \in Effects
  /\ RAMDISK \in BOOLEAN

VARIABLES
  held,        \* external: shift keys the user holds down
  port,        \* external: scan codes not read yet, oldest first
  SHIFT_DOWN,
  mode,        \* "edit", or where the program started by `run` is, or "halted"
  line,        \* line[..len]
  screen,      \* what the terminal shows after the last prompt
  out,         \* what the shell answered in its last step
  buf, want,   \* the program's read(0): bytes so far, bytes asked for
  strayed,     \* auxiliary: one of two held shift keys was released last
  misread      \* auxiliary: the last character had the wrong shift state
vars == <<held, port, SHIFT_DOWN, mode, line, screen, out, buf, want, strayed, misread>>
keyboard == <<held, strayed>>
program == <<buf, want>>

\* A scan code, a make code or the break code of a release.  For a letter also
\* the shift state the user gave it, and whether it is known from the scan codes
\* sent before it.
MakeCodes == Keys \cup Shifts
Codes == [code: MakeCodes, make: BOOLEAN, shift: BOOLEAN, known: BOOLEAN]
Outs == {"none", "prompt", "reply", "ramdisk not loaded", "run: ramdisk not loaded"}

\* Every variable has its type; the line fits its buffer and the read its count.
TypeOK ==
  /\ held \subseteq Shifts
  /\ port \in Seq(Codes)
  /\ SHIFT_DOWN \in BOOLEAN
  /\ mode \in {"edit", "program", "read", "halted"}
  /\ line \in Seq(Chars) /\ Len(line) <= LINE_MAX
  /\ screen \in Seq(Chars)
  /\ out \in Outs
  /\ want \in Nat /\ buf \in Seq(Chars) /\ Len(buf) <= want
  /\ strayed \in BOOLEAN /\ misread \in BOOLEAN

Init ==
  /\ held = {} /\ port = <<>> /\ SHIFT_DOWN = FALSE
  /\ mode = "edit" /\ line = <<>> /\ screen = <<>> /\ out = "prompt"
  /\ buf = <<>> /\ want = 0
  /\ strayed = FALSE /\ misread = FALSE
-----------------------------------------------------------------------------
(* The user at the keyboard *)

Send(k, make) ==
  /\ Len(port) < PORT_MAX
  /\ port' = Append(port, [code |-> k, make |-> make,
                           shift |-> k \in Letters /\ held # {},
                           known |-> k \in Letters /\ ~strayed])

kernel == <<SHIFT_DOWN, mode, line, screen, out, program, misread>>

\* A key goes down, or repeats while it is held.
press(k) ==
  /\ Send(k, TRUE)
  /\ held' = IF k \in Shifts THEN held \cup {k} ELSE held
  /\ strayed' = IF k \in Shifts THEN FALSE ELSE strayed
  /\ UNCHANGED kernel

release_shift(k) ==
  /\ k \in held
  /\ Send(k, FALSE)
  /\ held' = held \ {k}
  /\ strayed' = (held \ {k} # {})
  /\ UNCHANGED kernel

\* The break code of any other key: which one makes no difference.
release_key ==
  /\ Send("Unmapped", FALSE)
  /\ UNCHANGED <<keyboard, kernel>>
-----------------------------------------------------------------------------
(* keyboard_read_ascii_nonblocking, called with a scan code in the port *)

\* scancode_to_ascii gives a character for this code.
Mapped(c) == c.make /\ c.code \in Keys \ {"Unmapped"}

scancode_to_ascii(k, shift) == Char(k, shift /\ k \in Letters)

\* Mutant of shift_after: a key release of any kind lets go of shift.
shift_after_any(c) ==
  IF c.code \in Shifts \/ ~c.make THEN c.make ELSE SHIFT_DOWN

shift_after(c) == IF c.code \in Shifts THEN c.make ELSE SHIFT_DOWN

read_scancode ==
  LET c == Head(port) IN
    /\ port # <<>>
    /\ port' = Tail(port)
    /\ SHIFT_DOWN' = shift_after(c)
    /\ misread' = (Mapped(c) /\ c.known /\ SHIFT_DOWN # c.shift)
    /\ UNCHANGED keyboard

\* The byte returned, when one is.
byte == scancode_to_ascii(Head(port).code, SHIFT_DOWN)
GotByte == port # <<>> /\ Mapped(Head(port))
GotNone == port # <<>> /\ ~Mapped(Head(port))
Printable(ch) == ch.key \in Letters \cup {"Space"}
-----------------------------------------------------------------------------
(* run_shell *)

Erased(s) == SubSeq(s, 1, Len(s) - 1)

\* No character: poll again.
shell_idle ==
  /\ mode = "edit" /\ GotNone /\ read_scancode
  /\ out' = "none"
  /\ UNCHANGED <<mode, line, screen, program>>

\* Mutant of shell_char: echoes what the full buffer does not take.
shell_char_echoing ==
  /\ mode = "edit" /\ GotByte /\ Printable(byte) /\ read_scancode
  /\ line' = IF Len(line) < LINE_MAX THEN Append(line, byte) ELSE line
  /\ screen' = Append(screen, byte)
  /\ out' = "none"
  /\ UNCHANGED <<mode, program>>

\* Mutant of shell_char: the last slot test is off by one.
shell_char_past_end ==
  /\ mode = "edit" /\ GotByte /\ Printable(byte) /\ read_scancode
  /\ IF Len(line) <= LINE_MAX
     THEN line' = Append(line, byte) /\ screen' = Append(screen, byte)
     ELSE UNCHANGED <<line, screen>>
  /\ out' = "none"
  /\ UNCHANGED <<mode, program>>

shell_char ==
  /\ mode = "edit" /\ GotByte /\ Printable(byte) /\ read_scancode
  /\ IF Len(line) < LINE_MAX
     THEN line' = Append(line, byte) /\ screen' = Append(screen, byte)
     ELSE UNCHANGED <<line, screen>>
  /\ out' = "none"
  /\ UNCHANGED <<mode, program>>

shell_backspace ==
  /\ mode = "edit" /\ GotByte /\ byte.key = "Backspace" /\ read_scancode
  /\ IF Len(line) > 0
     THEN line' = Erased(line) /\ screen' = Erased(screen)
     ELSE UNCHANGED <<line, screen>>
  /\ out' = "none"
  /\ UNCHANGED <<mode, program>>

\* str::trim.
trim(s) ==
  LET solid == {i \in 1 .. Len(s) : s[i] # Space}
  IN  IF solid = {} THEN <<>> ELSE SubSeq(s, Min(solid), Max(solid))

\* exec_command and handle_custom_command: what they print, if they return.
\* A text no handler matches reaches the else of handle_custom_command's last
\* if, which belongs to `run`; `run` itself prints nothing without a ramdisk.
answer(cmd) ==
  IF cmd = <<>> THEN "prompt"
  ELSE IF cmd \notin DOMAIN Meaning THEN "run: ramdisk not loaded"
  ELSE IF Meaning[cmd] = "disk" /\ ~RAMDISK THEN "ramdisk not loaded"
  ELSE IF Meaning[cmd] = "run" THEN "prompt"
  ELSE "reply"

Does(cmd, effect) == cmd \in DOMAIN Meaning /\ Meaning[cmd] = effect
Starts(cmd) == Does(cmd, "run") /\ RAMDISK

Enter == mode = "edit" /\ GotByte /\ byte.key = "Enter"

\* Mutant of shell_enter: a full buffer swallows Enter like any other key.
shell_enter_unless_full ==
  /\ Enter /\ read_scancode
  /\ ~Starts(trim(line)) /\ ~Does(trim(line), "halt")
  /\ IF Len(line) < LINE_MAX
     THEN out' = answer(trim(line)) /\ line' = <<>> /\ screen' = <<>>
     ELSE out' = "none" /\ UNCHANGED <<line, screen>>
  /\ UNCHANGED <<mode, program>>

\* Enter: the command is executed and a new prompt printed.
shell_enter ==
  /\ Enter /\ read_scancode
  /\ ~Starts(trim(line)) /\ ~Does(trim(line), "halt")
  /\ out' = answer(trim(line))
  /\ line' = <<>> /\ screen' = <<>>
  /\ UNCHANGED <<mode, program>>

\* Enter: a program gets the CPU; the line is cleared when it is done.
shell_run ==
  /\ Enter /\ read_scancode
  /\ Starts(trim(line))
  /\ mode' = "program" /\ out' = "none"
  /\ UNCHANGED <<line, screen, program>>

shell_halt ==
  /\ Enter /\ read_scancode
  /\ Does(trim(line), "halt")
  /\ mode' = "halted" /\ out' = "reply"
  /\ UNCHANGED <<line, screen, program>>
-----------------------------------------------------------------------------
(* The program started by run *)

input == <<held, port, SHIFT_DOWN, strayed, misread>>

\* read(0, p, n) with n > 0.
read_begin(n) ==
  /\ mode = "program"
  /\ mode' = "read" /\ buf' = <<>> /\ want' = n
  /\ UNCHANGED <<input, line, screen, out>>

\* read_stdin_byte_blocking spins over codes that give no character.
read_idle ==
  /\ mode = "read" /\ GotNone /\ read_scancode
  /\ UNCHANGED <<mode, line, screen, out, program>>

\* Mutant of read_byte: a newline does not end the read.
read_byte_on ==
  /\ mode = "read" /\ GotByte /\ read_scancode
  /\ buf' = Append(buf, byte)
  /\ mode' = IF Len(buf) + 1 = want THEN "program" ELSE "read"
  /\ UNCHANGED <<line, screen, out, want>>

read_byte ==
  /\ mode = "read" /\ GotByte /\ read_scancode
  /\ buf' = Append(buf, byte)
  /\ mode' = IF byte.key = "Enter" \/ Len(buf) + 1 = want THEN "program" ELSE "read"
  /\ UNCHANGED <<line, screen, out, want>>

\* The run command returns to the loop of run_shell.
program_returns ==
  /\ mode = "program"
  /\ mode' = "edit" /\ line' = <<>> /\ screen' = <<>>
  /\ out' = "reply"
  /\ UNCHANGED <<input, program>>

\* A fault, a panic, or no heap left.
program_halts ==
  /\ mode = "program"
  /\ mode' = "halted"
  /\ UNCHANGED <<input, line, screen, out, program>>
-----------------------------------------------------------------------------
User ==
  \/ \E k \in MakeCodes : press(k)
  \/ \E k \in Shifts : release_shift(k)
  \/ release_key

ShellPoll ==
  shell_idle \/ shell_char \/ shell_backspace \/ shell_enter \/ shell_run \/ shell_halt

ReadPoll == read_idle \/ read_byte

Program == (\E n \in 1 .. READ_MAX : read_begin(n)) \/ program_returns \/ program_halts

Next == User \/ ShellPoll \/ ReadPoll \/ Program

Spec == Init /\ [][Next]_vars

\* The polling loops run on the only core with interrupts off.  The user may
\* stop typing and a program may compute for ever.
FairSpec == Spec /\ WF_vars(ShellPoll) /\ WF_vars(ReadPoll)
-----------------------------------------------------------------------------
(* Properties *)

\* While the line is edited the terminal shows after the prompt exactly what
\* Enter would execute: at the full buffer and at the empty one, too, and
\* after a program has taken keys of its own.
ScreenShowsLine == mode = "edit" => screen = line

\* A character has the shift state it was typed with, however late the kernel
\* reads its scan code and whoever reads it; only after one of two held shift
\* keys was released does SHIFT_DOWN not say what the user holds.
ShiftKept == ~misread

\* A read ends with the line: a byte typed after Enter stays in the keyboard
\* for the next reader, the shell included.
ReadStopsAtEnter == \A i \in 1 .. Len(buf) - 1 : buf[i].key # "Enter"

\* Enter typed at the prompt gets an answer or starts a program: no key before
\* it and no state of the line buffer makes the shell swallow it.
EnterPending == \E i \in 1 .. Len(port) : port[i].make /\ port[i].code = "Enter"
EnterAnswered == (mode = "edit" /\ EnterPending) ~> (mode # "edit" \/ out # "none")
-----------------------------------------------------------------------------
(* The inductive invariant *)

\* A read that goes on has room and has seen no Enter.
ReadInv ==
  /\ ReadStopsAtEnter
  /\ mode = "read" => Len(buf) < want /\ \A i \in 1 .. Len(buf) : buf[i].key # "Enter"

\* When the codes before the i-th have been read, SHIFT_DOWN will be s: the last of
\* them that is a shift key's says so, or there is none and it is so already.
ShiftBefore(i, s) ==
  /\ \A j \in 1 .. i - 1 :
       port[j].code \in Shifts /\ (\A k \in j + 1 .. i - 1 : port[k].code \notin Shifts)
         => (port[j].make <=> s)
  /\ (\A k \in 1 .. i - 1 : port[k].code \notin Shifts) => (SHIFT_DOWN <=> s)

\* A letter whose shift state is known is read with it, and so will be the next one
\* that is typed, unless one of two held shift keys was released last.
ShiftInv ==
  /\ ShiftKept
  /\ \A i \in 1 .. Len(port) : port[i].known => ShiftBefore(i, port[i].shift)
  /\ ~strayed => ShiftBefore(Len(port) + 1, held # {})

ShellInv == TypeOK /\ screen = line /\ ReadInv /\ ShiftInv
=============================================================================
