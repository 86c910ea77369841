--------------------------- MODULE CircularBuffer ---------------------------
(***************************************************************************)
(* The sample buffer of AdcSampling and AdcFilters, CircularBuffer.c, as   *)
(* operators on a circ_buff_t: the address of its array, head and tail.    *)
(*                                                                         *)
(* head goes one past the last element of the array before it wraps, tail  *)
(* wraps at the last element.  The buffer therefore uses MaxLen + 1 cells, *)
(* and the last of them is memory the array does not own.                  *)
(***************************************************************************)
EXTENDS Integers

CONSTANT MaxLen   \* the y of CIRC_buff_DEF(x, y)

ASSUME MaxLenAssumption == MaxLen \in Nat /\ MaxLen > 1

Cells == 0..MaxLen

circ_buff_t(Addresses) == [buffer : Addresses, head : Cells, tail : Cells]

CIRC_buff_DEF(address) == [buffer |-> address, head |-> 0, tail |-> 0]

\* c->buffer[i]
Cell(c, i) == c.buffer + i

\* The index after i, as push moves head and average its index.
After(i) == IF i >= MaxLen THEN 0 ELSE i + 1

\* Slip: tail wraps where head does.
TailAfterAsHead(i) == After(i)

\* The index after i, as push moves tail.
TailAfter(i) == IF i + 1 >= MaxLen THEN 0 ELSE i + 1

\* Slip: a full buffer does not push its oldest sample out.
circ_buff_pushKeepsTail(c) == [c EXCEPT !.head = After(c.head)]

\* A push into a full buffer drops the oldest sample and returns 0 like any other
\* (CircularBuffer.c:18-25): the "-1 - Out of space" that CircularBuffer.h:38-42 has
\* for it does not exist.
circ_buff_push(c) ==
  LET next == After(c.head)
  IN  [c EXCEPT !.head = next,
                !.tail = IF next = @ THEN TailAfter(@) ELSE @]

\* How many indices there are from tail to head, and the k-th of them.
Held(c) == IF c.head >= c.tail THEN c.head - c.tail
                               ELSE c.head - c.tail + MaxLen + 1
IndexOf(c, k) == IF c.tail + k <= MaxLen THEN c.tail + k
                                         ELSE c.tail + k - MaxLen - 1
=============================================================================
