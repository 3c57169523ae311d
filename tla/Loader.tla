------------------------------- MODULE Loader --------------------------------
(***************************************************************************)
(* From the bytes of an ELF file to a program that can run: parse_elf64    *)
(* (elf.rs), and scanning, copying the segments and building the initial   *)
(* stack, which native_runner.rs and elf_runner.rs each have a copy of.    *)
(* Sizes are scaled down by constants; sums keep their width, so that what *)
(* saturates, what is checked and what panics stay apart.                  *)
(***************************************************************************)
EXTENDS Integers, Sequences, FiniteSets, FiniteSetsExt

CONSTANTS
  Files,              \* the files that may be loaded, see FileType
  Args,               \* argument and environment lists, each a sequence of string lengths
  ADDR_MAX,           \* u64::MAX
  EHDR, PHDR,         \* sizes of the ELF header and of a program header
  WORD, ALIGN,        \* 8 and 16: a machine word, the alignment of the stack
  STACK_SIZE,         \* [native, interp], the bytes added for the stack
  MAX_MEM,            \* [native, interp]
  MAX_SEGMENTS,
  HeapBase,           \* where vec![0u8; total_len] of the native runner lies
  PAGE,               \* 4096
  PageTables          \* what the boot loader may have mapped, see PageTableType

Runners == {"native", "interp"}
Phdrs == [load: BOOLEAN, vaddr: 0 .. ADDR_MAX, mem_size: 0 .. ADDR_MAX,
          file_offset: 0 .. ADDR_MAX, file_size: 0 .. ADDR_MAX]
FileType == [len: 0 .. ADDR_MAX, ident: BOOLEAN,    \* magic, class, order, machine, entry size
             e_type: {"ET_EXEC", "ET_DYN"}, entry: 0 .. ADDR_MAX,
             phoff: 0 .. ADDR_MAX, phdrs: Seq(Phdrs),
             endbr: SUBSET Nat]                     \* offsets of ENDBR64 instructions

\* A page is absent, or mapped executable or not; flags of a huge page cannot be
\* changed through the 4 KiB mapper.  offset: PHYSICAL_MEMORY_OFFSET is known.
PageFlags == {"absent", "x", "nx", "huge_nx"}
PageTableType == [offset: BOOLEAN, flags: [0 .. ADDR_MAX \div PAGE -> PageFlags]]

ASSUME LoaderAssumption ==
  /\ {ADDR_MAX, EHDR, PHDR, HeapBase, MAX_SEGMENTS} \subseteq Nat
  /\ Files \subseteq FileType
  /\ \A a \in Args : a.argv \in Seq(Nat) /\ a.envp \in Seq(Nat)
  /\ WORD \in Nat \ {0} /\ ALIGN = 2 * WORD
  /\ PAGE \in Nat \ {0} /\ PageTables \subseteq PageTableType
  /\ STACK_SIZE \in [Runners -> Nat] /\ MAX_MEM \in [Runners -> Nat]
  /\ \A r \in Runners :
       STACK_SIZE[r] >= ALIGN /\ HeapBase + MAX_MEM[r] + STACK_SIZE[r] <= ADDR_MAX

VARIABLES
  stage,              \* where the loader is
  runner, file, args, \* its caller, and what it was called with
  headers,            \* auxiliary: where the program headers were read from
  segments, min_vaddr, span, base,
  mem,                \* the image memory, one cell per byte
  next,               \* the loop counter
  sp,                 \* the stack pointer, in the end the one the program starts with
  arg_ptrs, env_ptrs,
  entry,              \* the address the program starts at
  pages               \* the active page table
vars == <<stage, runner, file, args, headers, segments, min_vaddr, span, base, mem,
          next, sp, arg_ptrs, env_ptrs, entry, pages>>
input == <<runner, file, args>>
layout == <<headers, segments, min_vaddr, span, base>>
stack == <<sp, arg_ptrs, env_ptrs>>

Failed == {"Err", "FixedVaddrUnsupported", "Halt"}

\* A cell: a byte of the file, of an argument, of a word or of the return address
\* of leonos3_native_enter, or zero.
Zero == <<"zero", 0, 0>>
FileByte(k) == <<"file", k, 0>>
StringByte(list, i, k) == <<list, i, k>>
WordByte(v, k) == <<"word", v, k>>
ReturnByte(k) == <<"return", 0, k>>

Init ==
  /\ stage = "parse"
  /\ runner \in Runners /\ file \in Files /\ args \in Args
  /\ headers = {} /\ segments = <<>> /\ min_vaddr = 0 /\ span = 0 /\ base = 0
  /\ mem = <<>> /\ next = 0 /\ sp = 0 /\ arg_ptrs = <<>> /\ env_ptrs = <<>> /\ entry = 0
  /\ pages \in PageTables

saturating_add(a, b) == Min({a + b, ADDR_MAX})
Lowest(S) == IF S = {} THEN ADDR_MAX ELSE Min(S)
Highest(S) == IF S = {} THEN 0 ELSE Max(S)
Fail(how) == /\ stage' = how
             /\ UNCHANGED <<input, layout, mem, next, stack, entry, pages>>
-----------------------------------------------------------------------------
(* parse_elf64 *)

phnum == Len(file.phdrs)

\* Mutant of TableInside: the offset alone is compared with the length.
TableInsideOffset == file.phoff <= file.len

TableInside == file.phoff + phnum * PHDR <= file.len

parse_elf64 ==
  /\ stage = "parse"
  /\ IF file.len < EHDR \/ ~file.ident \/ ~TableInside THEN Fail("Err")
     ELSE /\ next' = 1 /\ stage' = "phdrs"
          /\ UNCHANGED <<input, layout, mem, stack, entry, pages>>

\* One turn of its loop.
read_phdr ==
  /\ stage = "phdrs" /\ next \in DOMAIN file.phdrs
  /\ headers' = headers \cup {file.phoff + (next - 1) * PHDR}
  /\ segments' = IF file.phdrs[next].load THEN Append(segments, file.phdrs[next]) ELSE segments
  /\ next' = next + 1
  /\ UNCHANGED <<stage, input, min_vaddr, span, base, mem, stack, entry, pages>>

parsed ==
  /\ stage = "phdrs" /\ next \notin DOMAIN file.phdrs
  /\ stage' = "scan" /\ UNCHANGED <<input, layout, mem, next, stack, entry, pages>>
-----------------------------------------------------------------------------
(* Size and memory of the image *)

min_of(segs) == Lowest({segs[i].vaddr : i \in DOMAIN segs})
max_of(segs) == Highest({saturating_add(segs[i].vaddr, segs[i].mem_size) : i \in DOMAIN segs})

scan ==
  /\ stage = "scan"
  /\ LET min == min_of(segments)
         max == max_of(segments)
         len == max - min + STACK_SIZE[runner]
     IN IF segments = <<>> THEN Fail("Err")
        ELSE IF runner = "native" /\ file.e_type = "ET_EXEC" THEN Fail("FixedVaddrUnsupported")
        ELSE IF max <= min \/ max - min > MAX_MEM[runner] \/ Len(segments) > MAX_SEGMENTS
        THEN Fail("Err")
        ELSE /\ min_vaddr' = min /\ span' = max - min
             /\ base' = IF runner = "native" THEN HeapBase ELSE min
             /\ mem' = [i \in 0 .. len - 1 |-> Zero]
             /\ next' = 1 /\ stage' = "copy"
             /\ UNCHANGED <<input, headers, segments, stack, entry, pages>>

mem_len == Cardinality(DOMAIN mem)

copies_outside(seg) ==
  \/ saturating_add(seg.vaddr - min_vaddr, seg.mem_size) > mem_len
  \/ saturating_add(seg.file_offset, seg.file_size) > file.len

\* Mutant of file_len: the rest of the segment is filled from the file as well.
file_len_mem(seg) == Max({seg.file_size, Min({seg.mem_size, file.len - seg.file_offset})})

file_len(seg) == seg.file_size

\* mem[dst_start..dst_start + file_len]: the slice panics behind the memory.
copy_segment ==
  /\ stage = "copy" /\ next \in DOMAIN segments
  /\ LET seg == segments[next]
         dst == seg.vaddr - min_vaddr
     IN IF copies_outside(seg) THEN Fail("Err")
        ELSE IF dst + file_len(seg) > mem_len THEN Fail("Halt")
        ELSE /\ mem' = [i \in DOMAIN mem |->
                          IF i \in dst .. dst + file_len(seg) - 1
                          THEN FileByte(seg.file_offset + (i - dst)) ELSE mem[i]]
             /\ next' = next + 1
             /\ UNCHANGED <<stage, input, layout, stack, entry, pages>>

copied ==
  /\ stage = "copy" /\ next \notin DOMAIN segments
  /\ stage' = "stack" /\ UNCHANGED <<input, layout, mem, next, stack, entry, pages>>
-----------------------------------------------------------------------------
(* build_initial_stack *)

aligned(a) == a - (a % ALIGN)

\* base + mem.len() - 0x10, whose sum overflows when the image is that high.
start_stack ==
  /\ stage = "stack"
  /\ IF base + mem_len > ADDR_MAX THEN Fail("Halt")
     ELSE /\ sp' = aligned(base + mem_len - ALIGN)
          /\ next' = Len(args.argv) /\ stage' = "argv"
          /\ UNCHANGED <<input, layout, mem, arg_ptrs, env_ptrs, entry, pages>>

with_cstr(to, list, i, len) ==
  [j \in DOMAIN mem |->
     IF j \in to .. to + len - 1 THEN StringByte(list, i, j - to)
     ELSE IF j = to + len THEN Zero ELSE mem[j]]

\* Mutant of listed: the lists are not reversed after the loop.
listed_backwards(p, ptrs) == Append(ptrs, p)

\* The lists are built from the last string to the first, then reversed.
listed(p, ptrs) == <<p>> \o ptrs

\* push_cstr of one string of a list: refused only when it leaves the memory.
push_cstr(list, strings, ptrs) ==
  LET len == strings[next]
      new_sp == sp - (len + 1)
  IN IF new_sp < base \/ new_sp - base + len + 1 > mem_len THEN Fail("Err")
     ELSE /\ mem' = with_cstr(new_sp - base, list, next, len)
          /\ sp' = new_sp /\ next' = next - 1
          /\ arg_ptrs' = IF list = "argv" THEN listed(new_sp, ptrs) ELSE arg_ptrs
          /\ env_ptrs' = IF list = "envp" THEN listed(new_sp, ptrs) ELSE env_ptrs
          /\ UNCHANGED <<stage, input, layout, entry, pages>>

push_argv ==
  /\ stage = "argv"
  /\ IF next > 0 THEN push_cstr("argv", args.argv, arg_ptrs)
     ELSE /\ stage' = "envp" /\ next' = Len(args.envp)
          /\ UNCHANGED <<input, layout, mem, stack, entry, pages>>

push_envp ==
  /\ stage = "envp"
  /\ IF next > 0 THEN push_cstr("envp", args.envp, env_ptrs)
     ELSE stage' = "words" /\ UNCHANGED <<input, layout, mem, next, stack, entry, pages>>

\* argc, the two lists and the auxiliary vector (AT_PAGESZ 4096, AT_NULL 0).
words ==
  <<Len(arg_ptrs)>> \o arg_ptrs \o <<0>> \o env_ptrs \o <<0>> \o <<6, 4096, 0, 0>>

write_words ==
  /\ stage = "words"
  /\ LET new_sp == aligned(sp) - Len(words) * WORD
     IN IF new_sp < base THEN Fail("Err")
        ELSE /\ sp' = new_sp
             /\ mem' = [j \in DOMAIN mem |->
                          LET k == j - (new_sp - base)
                          IN IF k \in 0 .. Len(words) * WORD - 1
                             THEN WordByte(words[k \div WORD + 1], k % WORD) ELSE mem[j]]
             /\ stage' = "entry"
             /\ UNCHANGED <<input, layout, next, arg_ptrs, env_ptrs, entry, pages>>
-----------------------------------------------------------------------------
(* The entry point *)

IsEndbr(cell) == cell[1] = "file" /\ cell[2] \in file.endbr

\* Mutant of native_entry: the relocated entry is added with saturation.
native_entry_saturating ==
  /\ stage = "entry" /\ runner = "native"
  /\ LET at == file.entry - min_vaddr
     IN IF at \notin DOMAIN mem THEN Fail("Err")
        ELSE /\ entry' = base + at + (IF IsEndbr(mem[at]) THEN 1 ELSE 0)
             /\ next' = base \div PAGE /\ stage' = "exec"
             /\ UNCHANGED <<input, layout, mem, stack, pages>>

\* Relocated by a plain addition, then looked for inside the memory, and moved
\* behind a leading ENDBR64.
native_entry ==
  /\ stage = "entry" /\ runner = "native"
  /\ LET at == file.entry - min_vaddr
     IN IF at >= 0 /\ base + at > ADDR_MAX THEN Fail("Halt")
        ELSE IF at \notin DOMAIN mem THEN Fail("Err")
        ELSE /\ entry' = base + at + (IF IsEndbr(mem[at]) THEN 1 ELSE 0)
             /\ next' = base \div PAGE /\ stage' = "exec"
             /\ UNCHANGED <<input, layout, mem, stack, pages>>

\* The interpreter starts at the address of the file, which its first fetch checks.
interp_entry ==
  /\ stage = "entry" /\ runner = "interp"
  /\ entry' = file.entry /\ stage' = "Run"
  /\ UNCHANGED <<input, layout, mem, next, stack, pages>>

\* Mutant of last_page: rounded down from the length alone.
last_page_of_length == (base \div PAGE) + (mem_len \div PAGE) - 1

last_page == (base + mem_len - 1) \div PAGE

\* ensure_region_executable: page by page, and what it changed stays changed when a
\* later page stops it.
make_executable ==
  /\ stage = "exec"
  /\ IF ~pages.offset \/ (next <= last_page /\ pages.flags[next] \in {"absent", "huge_nx"})
     THEN Fail("Err")
     ELSE IF next > last_page
     THEN stage' = "enter" /\ UNCHANGED <<input, layout, mem, next, stack, entry, pages>>
     ELSE /\ pages' = [pages EXCEPT !.flags[next] = "x"]
          /\ next' = next + 1
          /\ UNCHANGED <<stage, input, layout, mem, stack, entry>>

with_return(at) ==
  [j \in DOMAIN mem |-> IF j \in at .. at + WORD - 1 THEN ReturnByte(j - at) ELSE mem[j]]

\* leonos3_native_enter: mov rsp, rsi and call rdi, which pushes the return address
\* below what build_initial_stack returned, whatever is there.  What it hits below
\* the memory is not part of the model.
native_enter ==
  /\ stage = "enter" /\ stage' = "Run"
  /\ sp' = sp - WORD /\ mem' = with_return(sp - WORD - base)
  /\ UNCHANGED <<input, layout, next, arg_ptrs, env_ptrs, entry, pages>>

Done == stage \in {"Run"} \cup Failed /\ UNCHANGED vars

Next ==
  \/ parse_elf64 \/ read_phdr \/ parsed \/ scan \/ copy_segment \/ copied
  \/ start_stack \/ push_argv \/ push_envp \/ write_words
  \/ native_entry \/ make_executable \/ native_enter \/ interp_entry
  \/ Done
Spec == Init /\ [][Next]_vars
-----------------------------------------------------------------------------
(* Properties *)

\* parse_elf64 reads unaligned structures through raw pointers: every program header
\* it reads lies wholly inside the file.
HeadersInsideFile == \A off \in headers : off >= 0 /\ off + PHDR <= file.len

\* The headers of a file that a linker writes: sizes in order, nothing over the end
\* of the address space, and no two segments at the same place.
WellFormed ==
  /\ \A i \in DOMAIN segments :
       /\ segments[i].file_size <= segments[i].mem_size
       /\ segments[i].vaddr + segments[i].mem_size <= ADDR_MAX
  /\ \A i, j \in DOMAIN segments :
       i # j => \/ segments[i].vaddr + segments[i].mem_size <= segments[j].vaddr
                \/ segments[j].vaddr + segments[j].mem_size <= segments[i].vaddr

\* The bytes of the first i strings of a list, with their zeros.
BytesUpTo(strings) ==
  LET bytes[i \in 0 .. Len(strings)] == IF i = 0 THEN 0 ELSE bytes[i - 1] + strings[i] + 1
  IN bytes
Bytes(strings) == BytesUpTo(strings)[Len(strings)]

\* Bytes the initial stack takes at most, with the return address.
StackNeed ==
  Bytes(args.argv) + Bytes(args.envp) + (Len(args.argv) + Len(args.envp) + 8) * WORD + 3 * ALIGN

\* The image of a well-formed file is in memory when the program starts, each byte of
\* the file at its address and zeros behind, and a native program starts inside its
\* memory, also behind an ENDBR64 that ends a segment.  So it is with lists that fit,
\* as those of the run command do, and with others as long as the stack pointer stays
\* above the image: neither push_cstr nor the call of the entry stops there.
ImageIntact ==
  stage = "Run" /\ WellFormed /\ (StackNeed <= STACK_SIZE[runner] \/ sp >= base + span) =>
    /\ \A i \in DOMAIN segments : \A k \in 0 .. segments[i].mem_size - 1 :
         mem[segments[i].vaddr - min_vaddr + k] =
           IF k < segments[i].file_size THEN FileByte(segments[i].file_offset + k) ELSE Zero
    /\ runner = "native" => entry - base \in DOMAIN mem

\* The string that starts at an address, read up to its zero as the program will.
CString(a, s) ==
  /\ \A k \in DOMAIN s : a + k - 1 - base \in DOMAIN mem /\ mem[a + k - 1 - base] = s[k]
  /\ a + Len(s) - base \in DOMAIN mem /\ mem[a + Len(s) - base] = Zero
WordAt(a, v) == \A k \in 0 .. WORD - 1 : mem[a - base + k] = WordByte(v, k)
StringOf(list, i, len) == [k \in 1 .. len |-> StringByte(list, i, k - 1)]

ReturnAt(a) == \A k \in 0 .. WORD - 1 : mem[a - base + k] = ReturnByte(k)

\* What build_initial_stack returned.
user_rsp == IF stage = "Run" /\ runner = "native" THEN sp + WORD ELSE sp

\* An interpreted program starts with argc at its stack pointer, as the System V ABI
\* has it.  A native one starts with the return address of leonos3_native_enter there
\* and finds argc one word above.  Then follow the pointers of the arguments and of
\* the environment in their order, each list closed by a null pointer and each pointer
\* leading to its zero-terminated string: no later push damaged an earlier one.
StackReadsBack ==
  stage = "Run" =>
    LET argc == Len(args.argv)
        argc_at == IF runner = "native" THEN sp + WORD ELSE sp
        envp == argc_at + (argc + 2) * WORD
    IN /\ runner = "native" /\ sp >= base => ReturnAt(sp)
       /\ WordAt(argc_at, argc)
       /\ \A i \in 1 .. argc :
            /\ WordAt(argc_at + i * WORD, arg_ptrs[i])
            /\ CString(arg_ptrs[i], StringOf("argv", i, args.argv[i]))
       /\ WordAt(argc_at + (argc + 1) * WORD, 0)
       /\ \A i \in DOMAIN args.envp :
            /\ WordAt(envp + (i - 1) * WORD, env_ptrs[i])
            /\ CString(env_ptrs[i], StringOf("envp", i, args.envp[i]))
       /\ WordAt(envp + Len(args.envp) * WORD, 0)

Page(a) == a \div PAGE
RegionPages == {Page(base + i) : i \in DOMAIN mem}

\* A native program may execute every byte of its memory, wherever in its first and
\* last page the heap has put it, and no page without such a byte is made executable.
RegionExecutable ==
  [][/\ stage' = "Run" /\ runner = "native" =>
          \A p \in RegionPages' : pages'.flags[p] = "x"
     /\ \A p \in DOMAIN pages.flags :
          pages'.flags[p] # pages.flags[p] => p \in RegionPages]_vars
-----------------------------------------------------------------------------
(* What Process assumes of the loaders *)

\* The first segment the copy loop stops at decides; the interpreter's image may
\* also lie too high for its stack.
Outside(seg, len) ==
  \/ saturating_add(seg.vaddr - min_vaddr, seg.mem_size) > len
  \/ saturating_add(seg.file_offset, seg.file_size) > file.len
Panics(seg, len) == seg.vaddr - min_vaddr + seg.file_size > len
CopyStops(len) ==
  {i \in DOMAIN segments : Outside(segments[i], len) \/ Panics(segments[i], len)}
CopyVerdict(r) ==
  LET len == span + STACK_SIZE[r]
  IN IF CopyStops(len) # {}
     THEN IF Outside(segments[Min(CopyStops(len))], len) THEN "outside" ELSE "panics"
     ELSE IF r = "interp" /\ min_vaddr + len > ADDR_MAX THEN "panics" ELSE "fits"

\* The plain addition that relocates the entry point comes before the range check.
EntryPlace ==
  LET at == file.entry - min_vaddr
  IN IF at >= 0 /\ HeapBase + at > ADDR_MAX THEN "panics"
     ELSE IF at \in 0 .. span + STACK_SIZE["native"] - 1 THEN "inside" ELSE "outside"

AbstractImage ==
  [parsed |-> file.len >= EHDR /\ file.ident /\ TableInside,
   e_type |-> file.e_type,
   segments |-> Len(segments),
   span |-> Max({0, max_of(segments) - min_of(segments)}),
   copy |-> [native |-> CopyVerdict("native"), interp |-> CopyVerdict("interp")],
   entry |-> EntryPlace]

PagesUsable ==
  pages.offset /\ \A p \in RegionPages : pages.flags[p] \in {"x", "nx"}

P(exec) == INSTANCE Process WITH
       Names <- {}, Programs <- <<>>, NotFound <- 0, Codes <- {0}, HEAP_SIZE <- 2 * ADDR_MAX,
       NATIVE_STACK <- STACK_SIZE["native"], INTERP_STACK <- STACK_SIZE["interp"],
       MAX_NATIVE_MEM <- MAX_MEM["native"], MAX_INTERP_MEM <- MAX_MEM["interp"],
       MAX_STEPS <- 0, Executable <- exec,
       mode <- "shell", frames <- <<>>, result <- "none", LAST_EXIT <- 0, EXIT_WAITABLE <- FALSE,
       OUT_FN <- FALSE, SYSCALL_READY <- FALSE, heap_free <- 2 * ADDR_MAX, report <- <<>>,
       waited <- <<>>, hist <- <<>>

\* The outcomes Process reads off the abstract image: with room in the heap, and with
\* lists that fit, or that the interpreter alone refuses.
Verdict(outcome) ==
  \/ runner = "native" /\ StackNeed <= STACK_SIZE["native"]
       /\ outcome = IF PagesUsable THEN P(TRUE)!native_load(AbstractImage)
                    ELSE P(FALSE)!native_load(AbstractImage)
  \/ runner = "native" /\ StackNeed > STACK_SIZE["native"]
  \/ runner = "interp" /\ \E fits \in BOOLEAN :
       /\ outcome = P(TRUE)!interp_load(AbstractImage, fits)
       /\ StackNeed <= STACK_SIZE["interp"] => fits

\* What the loaders do with the bytes of a file is what Process assumes of them.
OutcomeIsAbstract == stage \in {"Run"} \cup Failed => Verdict(stage)
-----------------------------------------------------------------------------
(* The inductive invariant *)

\* The stages in which the memory of the image exists.
InMemory == {"copy", "stack", "argv", "envp", "words", "entry", "exec", "enter", "Run"}

\* The memory is the image and the stack above it.
MemoryShape ==
  /\ span \in Nat \ {0} /\ base \in Nat
  /\ DOMAIN mem = 0 .. span + STACK_SIZE[runner] - 1
  /\ runner = "native" => base = HeapBase /\ span <= MAX_MEM[runner]

\* The strings of a list from k + 1 on are pushed and lie above the stack pointer.
Pushed(list, strings, ptrs, k) ==
  /\ ptrs \in Seq(Int) /\ Len(ptrs) = Len(strings) - k
  /\ \A i \in 1 .. Len(ptrs) :
       ptrs[i] >= sp /\ CString(ptrs[i], StringOf(list, k + i, strings[k + i]))

WordsWritten == \A m \in 1 .. Len(words) : WordAt(user_rsp + (m - 1) * WORD, words[m])

\* What has been pushed at each stage.
StackBuilt ==
  /\ stage \in {"parse", "phdrs", "scan", "copy", "stack"} => arg_ptrs = <<>> /\ env_ptrs = <<>>
  /\ stage \in {"argv", "envp", "words"} => sp \in Int /\ sp <= base + mem_len - ALIGN
  /\ stage = "argv" => /\ next \in 0 .. Len(args.argv) /\ env_ptrs = <<>>
                       /\ Pushed("argv", args.argv, arg_ptrs, next)
  /\ stage \in {"envp", "words", "entry", "exec", "enter", "Run"} => Pushed("argv", args.argv, arg_ptrs, 0)
  /\ stage = "envp" => /\ next \in 0 .. Len(args.envp)
                       /\ Pushed("envp", args.envp, env_ptrs, next)
  /\ stage \in {"words", "entry", "exec", "enter", "Run"} => Pushed("envp", args.envp, env_ptrs, 0)
  /\ stage \in {"entry", "exec", "enter", "Run"} => sp \in Int /\ WordsWritten
  /\ stage \in {"entry", "exec", "enter"} => base <= sp /\ sp + Len(words) * WORD <= base + mem_len
  /\ stage = "Run" /\ runner = "native" /\ sp >= base => ReturnAt(sp)

\* The pages behind the loop counter are done, all of them before the jump.
PagesDone ==
  /\ stage \in {"exec", "enter"} =>
       /\ runner = "native" /\ next \in Page(base) .. last_page + 1
       /\ \A p \in Page(base) .. next - 1 : pages.flags[p] = "x"
  /\ stage = "enter" => next = last_page + 1

LoaderInv ==
  /\ runner \in Runners /\ file \in Files /\ args \in Args /\ pages \in PageTableType
  /\ segments \in Seq(Phdrs) /\ HeadersInsideFile
  /\ stage = "phdrs" => next \in Nat \ {0} /\ TableInside
  /\ stage \in InMemory => MemoryShape
  /\ StackBuilt /\ PagesDone

\* The first k segments of a well-formed file are copied; the rest of the image is zero.
FilePart(i) ==
  segments[i].vaddr - min_vaddr .. segments[i].vaddr - min_vaddr + segments[i].file_size - 1
Copied(k) ==
  /\ \A i \in 1 .. k : \A j \in FilePart(i) :
       mem[j] = FileByte(segments[i].file_offset + (j - (segments[i].vaddr - min_vaddr)))
  /\ \A j \in 0 .. span - 1 : (\A i \in 1 .. k : j \notin FilePart(i)) => mem[j] = Zero

\* The image, as long as the stack stays above it.
ImageBuilt ==
  /\ stage \in InMemory => /\ segments # <<>> /\ min_vaddr = min_of(segments)
                           /\ span = max_of(segments) - min_vaddr
  /\ stage \in InMemory /\ WellFormed => \A j \in DOMAIN mem : j >= span => mem[j][1] # "file"
  /\ stage = "copy" => next \in 1 .. Len(segments) + 1 /\ (WellFormed => Copied(next - 1))
  /\ stage = "stack" /\ WellFormed => Copied(Len(segments))
  /\ stage \in {"argv", "envp", "words", "entry", "exec", "enter", "Run"} /\ WellFormed /\ sp >= base + span =>
       Copied(Len(segments))
  /\ stage \in {"exec", "enter", "Run"} /\ runner = "native" /\ WellFormed => entry - base \in DOMAIN mem

\* How far down the stack can have come.
StackRoom ==
  LET argv == BytesUpTo(args.argv)
      envp == BytesUpTo(args.envp)
      strings == Bytes(args.argv) + Bytes(args.envp)
      top == base + mem_len - 2 * ALIGN
  IN /\ stage = "argv" => sp + (Bytes(args.argv) - argv[next]) > top
     /\ stage = "envp" => sp + Bytes(args.argv) + (Bytes(args.envp) - envp[next]) > top
     /\ stage = "words" => sp + strings > top
     /\ stage \in {"entry", "exec", "enter", "Run"} =>
          user_rsp + strings + (Len(args.argv) + Len(args.envp) + 7) * WORD > top - ALIGN

ImageInv == ImageBuilt /\ StackRoom

\* What is decided of the outcome at each stage.
VerdictInv ==
  /\ stage \in {"phdrs", "scan"} \cup InMemory => file.len >= EHDR /\ file.ident /\ TableInside
  /\ stage \in InMemory =>
       /\ runner = "native" => file.e_type = "ET_DYN"
       /\ runner = "interp" => base = min_vaddr
       /\ span <= MAX_MEM[runner] /\ Len(segments) <= MAX_SEGMENTS
  /\ stage = "copy" => \A i \in 1 .. next - 1 : i \notin CopyStops(mem_len)
  /\ stage \in InMemory \ {"copy"} => CopyStops(mem_len) = {}
  /\ stage \in InMemory \ {"copy", "stack"} => base + mem_len <= ADDR_MAX
  /\ stage \in {"exec", "enter"} => file.entry - min_vaddr \in DOMAIN mem
  /\ stage = "enter" => PagesUsable
  /\ OutcomeIsAbstract
=============================================================================
