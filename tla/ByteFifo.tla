------------------------------ MODULE ByteFifo ------------------------------
(***************************************************************************)
(* What a serial byte queue promises its two ends: the bytes that come out *)
(* are the bytes that went in, in the same order, none twice and none      *)
(* invented, and never more than Cap of them are on the way.               *)
(*                                                                         *)
(* input and output are the whole history of the two ends; the queue's     *)
(* present content is what input has beyond output.  Before the queue is   *)
(* up it may be emptied once, which is what an initialisation routine does *)
(* to a queue that an interrupt has already begun to fill.                 *)
(***************************************************************************)
EXTENDS Naturals, Sequences

CONSTANTS Byte,  \* the values a slot can hold
          Cap    \* most bytes that are in at one time

VARIABLES input, output, up

fifoVars == <<input, output, up>>

FifoInit == /\ input = <<>>
            /\ output = <<>>
            /\ up = FALSE

Put == \E b \in Byte :
          /\ Len(input) - Len(output) < Cap
          /\ input' = Append(input, b)
          /\ UNCHANGED <<output, up>>

Get == /\ Len(output) < Len(input)
       /\ output' = Append(output, input[Len(output) + 1])
       /\ UNCHANGED <<input, up>>

Open == /\ ~up
        /\ up' = TRUE
        /\ input' = output
        /\ UNCHANGED output

FifoNext == Put \/ Get \/ Open

FifoSpec == FifoInit /\ [][FifoNext]_fifoVars
=============================================================================
