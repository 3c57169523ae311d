------------------------------- MODULE MCShell -------------------------------
(* A small instance of Shell: three commands, every other text unknown. *)
EXTENDS Shell, TLC

a == Char("a", FALSE)
A == Char("a", TRUE)
SmallMeaning == <<a>> :> "disk" @@ <<A>> :> "run" @@ <<A, A>> :> "halt"
=============================================================================
