------------------------------- MODULE MCLfs1 --------------------------------
(* A small catalog for Lfs1: a text that is always there, a program that may *)
(* be missing, and one that enters under two names.                          *)
EXTENDS Lfs1

File(n, r, m, d) == [names |-> n, required |-> r, mode |-> m, data |-> d]
SmallCatalog ==
  <<File(<<<<1>>>>, TRUE, 4, <<5, 6>>),
    File(<<<<2, 1>>>>, FALSE, 19, <<7>>),
    File(<<<<3>>, <<1, 2>>>>, FALSE, 19, <<4, 4>>)>>
SmallMagic == <<1, 2, 3, 4>>
=============================================================================
