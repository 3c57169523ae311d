------------------------------ MODULE MCLoader -------------------------------
(* Small files for Loader.  An ELF header takes 2 bytes, a program header 1, *)
(* and addresses end at 63.                                                  *)
EXTENDS Loader

Segment == [load: {TRUE}, vaddr: {0, 3, 60}, mem_size: {0, 2, 5, 63},
            file_offset: {0, 2}, file_size: {0, 2, 5}]
Note == [load |-> FALSE, vaddr |-> 1, mem_size |-> 1, file_offset |-> 0, file_size |-> 0]
Small == {s \in Segment : s.mem_size \in {2, 5} /\ s.vaddr # 60}

Pie(phdrs, at) ==
  [len |-> 6, ident |-> TRUE, e_type |-> "ET_DYN", entry |-> at, phoff |-> 2,
   phdrs |-> phdrs, endbr |-> {0, 5}]

\* Every single segment and every pair of small ones ...
Sound ==
  {Pie(<<s>>, at) : s \in Segment, at \in {0, 4}}
  \cup {Pie(<<s, t>>, 3) : s \in Small, t \in Small}
\* ... and files refused for their identification, table, type or segment count.
Odd ==
  LET s == [load |-> TRUE, vaddr |-> 0, mem_size |-> 5, file_offset |-> 0, file_size |-> 5]
      top == [s EXCEPT !.vaddr = 60, !.mem_size = 3, !.file_size = 0]
      pie == Pie(<<Note, s>>, 4)
      long(n) == [s EXCEPT !.mem_size = 2, !.file_size = n]      \* file_size > mem_size
  IN {[Pie(<<long(n)>>, 0) EXCEPT !.len = 60] : n \in {30, 42, 50}} \cup
     {pie, Pie(<<s>>, 58), Pie(<<s>>, 59), Pie(<<s, s, s>>, 0), Pie(<<top>>, 61), Pie(<<Note>>, 0), Pie(<<>>, 0),
      [pie EXCEPT !.len = 1], [pie EXCEPT !.ident = FALSE], [pie EXCEPT !.e_type = "ET_EXEC"],
      [pie EXCEPT !.phoff = 63]}
     \cup {[pie EXCEPT !.phoff = off] : off \in {4, 5, 6}}
SmallFiles == Sound \cup Odd

\* No list, one argument, two of each, and lists that reach into the image, to its
\* start and beyond the memory.
SmallArgs ==
  {[argv |-> a, envp |-> e] : a \in {<<>>, <<1>>}, e \in {<<>>, <<0, 2>>}}
  \cup {[argv |-> <<n>>, envp |-> <<>>] : n \in {9, 13, 17, 40}}

SmallStack == [native |-> 40, interp |-> 36]
SmallMem == [native |-> 8, interp |-> 7]

\* Everything mapped; a hole, and a huge page, where the larger images end; nothing known.
Mapped == [p \in 0 .. 7 |-> IF p = 2 THEN "x" ELSE "nx"]
SmallTables ==
  {[offset |-> TRUE, flags |-> Mapped],
   [offset |-> TRUE, flags |-> [Mapped EXCEPT ![6] = "absent"]],
   [offset |-> TRUE, flags |-> [Mapped EXCEPT ![6] = "huge_nx"]],
   [offset |-> FALSE, flags |-> Mapped]}
=============================================================================
