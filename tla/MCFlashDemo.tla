---------------------------- MODULE MCFlashDemo ----------------------------
(***************************************************************************)
(* FlashDemo for TLC: twelve bytes, as in the code, into the second of two *)
(* sectors of four longwords that hold anything at first.                  *)
(***************************************************************************)
EXTENDS FlashDemo

MCPayload     == <<1, 2, 3, 4, 5, 6, 7, 8, 9, 10, 11, 12>>
MCPayloads    == {MCPayload}
MCProtections == {{}, {0}, {1}}
MCContents    == {Erased, <<0, 0, 0, 0>>}
=============================================================================
