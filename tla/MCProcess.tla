------------------------------ MODULE MCProcess ------------------------------
(* A small ramdisk for Process: one image per verdict of the loaders. *)
EXTENDS Process, TLC

Elf(t, n) == [parsed |-> TRUE, e_type |-> t, segments |-> 1, span |-> n,
              copy |-> [native |-> "fits", interp |-> "fits"], entry |-> "inside"]
pie    == Elf("ET_DYN", 1)
static == Elf("ET_EXEC", 1)

SmallDisk ==
  "pie"    :> pie @@
  "static" :> static @@
  "text"   :> [pie EXCEPT !.parsed = FALSE] @@
  "huge"   :> [static EXCEPT !.span = 4] @@
  "short"  :> [pie EXCEPT !.copy = [native |-> "outside", interp |-> "outside"]] @@
  "broken" :> [pie EXCEPT !.copy = [native |-> "panics", interp |-> "panics"]] @@
  "astray" :> [pie EXCEPT !.entry = "outside"] @@
  "far"    :> [pie EXCEPT !.entry = "panics"] @@
  "none"   :> NotFound
DiskNames == DOMAIN SmallDisk

SmallCodes == {0, 7, -1}
=============================================================================
