--------------------------- MODULE MCBufferedUart ---------------------------
(***************************************************************************)
(* BufferedUart for TLC.  The configurations give every constant its value;*)
(* here the index arithmetic is compared with the code's own operator.     *)
(***************************************************************************)
EXTENDS UartProgress, Bitwise

\* (i + 1) & (n - 1) is NextSlot(i, n) for every size a ring can be given up
\* to the code's 128.
ASSUME MaskIsNextSlot ==
  \A k \in 1..7 : \A i \in Slots(2^k) : (i + 1) & (2^k - 1) = NextSlot(i, 2^k)
=============================================================================
