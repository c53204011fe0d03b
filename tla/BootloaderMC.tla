---------------------------- MODULE BootloaderMC ----------------------------
(***************************************************************************)
(* Instances of Bootloader for TLC: words of two bytes of two bits, a      *)
(* memory of six words, two sectors of six words, of which a header takes  *)
(* four.  The sums of the images' data are such that erased or zeroed      *)
(* words do not add up to the same: an additive checksum would not notice. *)
(***************************************************************************)
EXTENDS Bootloader

Image(addr, bytes, words) == [base |-> addr, size |-> bytes, data |-> words]

Odd == Image(2, 3, <<5, 3>>)                 \* not a multiple of the word
Large == Image(0, 12, <<1, 2, 4, 8, 1, 2>>)  \* needs the second sector
Between == Image(0, 6, <<12, 10, 13>>)       \* header and data just exceed a sector
FittingImages == {Odd, Large}
ASSUME FittingAssumption == Images = FittingImages => DamageShows
ExceedingImages == {Large, Between}
=============================================================================
