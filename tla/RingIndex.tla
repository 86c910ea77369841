----------------------------- MODULE RingIndex ------------------------------
(***************************************************************************)
(* Index arithmetic of the driver's rings.  A ring of n slots keeps two    *)
(* indices: head names the slot written last and tail the slot read last,  *)
(* so the ring is empty when they are equal and one slot is never in use.  *)
(* n is a power of two (UART.c refuses to compile otherwise), for which    *)
(* the code's (i + 1) & (n - 1) is (i + 1) % n.                            *)
(***************************************************************************)
EXTENDS Integers

Slots(n) == 0 .. n - 1

NextSlot(i, n) == (i + 1) % n

\* Slots from tail (excluded) to head (included), going forward.
Waiting(head, tail, n) == IF head >= tail THEN head - tail
                                          ELSE head - tail + n

\* The slot k steps after slot i, for k no more than n.
SlotAfter(i, k, n) == IF i + k < n THEN i + k ELSE i + k - n
=============================================================================
