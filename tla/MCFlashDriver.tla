--------------------------- MODULE MCFlashDriver ---------------------------
(***************************************************************************)
(* FlashDriver for TLC: payloads of every length modulo 8 that matters,    *)
(* their bytes all different, and one whose last longword reads as erased. *)
(***************************************************************************)
EXTENDS FlashDriver

MCBytes == <<1, 2, 3, 4, 5, 6, 7, 8, 9, 10, 11, 12, 13>>

MCPayloads ==
  {SubSeq(MCBytes, 1, n) : n \in {0, 7, 8, 13}}
    \cup {<<1, 2, 3, 4, FF, FF, FF, FF>>}

MCProtections == {{}, {1}}
MCContents    == {Erased}
=============================================================================
