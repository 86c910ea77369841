---------------------------- MODULE UartProgress ----------------------------
(***************************************************************************)
(* Why the driver of BufferedUart comes to an end with everything done: a  *)
(* bound on the steps main, the handler and the transmitter have left if   *)
(* no call and no byte comes in any more.  Each of their steps uses up at  *)
(* least one, whoever goes first; and where none of them can go on nothing *)
(* is left to do.  This is what stands behind AcceptedIsSent,              *)
(* TransmitterRests and MainReturns besides fairness.                      *)
(***************************************************************************)
EXTENDS BufferedUart

\* What the run of the handler under way is going to do: take the byte in D,
\* fetch one from the ring, switch the transmit interrupts off.
WillReceive  == ipc = "readD" /\ "RDRF" \in status
WillTransmit == /\ ipc = "tx" \/ (ipc = "readD" /\ "TDRE" \in status)
                /\ "TIE" \in c2 /\ txHead # txTail /\ txD = <<>>
WillDisarm   == /\ ipc # "idle" /\ "TC" \in status
                /\ "TCIE" \in c2 \/ (ipc # "tc" /\ txHead = txTail)

\* A run with nothing to do: the ring is empty and the last byte still in the
\* shifter.  TIE stays set until that byte is out, and the handler is started
\* over and over.
Polling == ipc # "idle" /\ status = {"TDRE"} /\ txHead = txTail

Armed == "TIE" \in c2 \/ "TCIE" \in c2

\* The steps of a run of the handler that transmits nothing.
RunSteps == 4

\* Steps left in main's call: three for a byte to read, three for a byte to
\* queue beside those for a byte in the ring, six for one main takes from it.
CallLeft ==
  CASE pc = "boot"      -> 3
    [] pc = "bootTails" -> 2
    [] pc = "bootHeads" -> 1
    [] pc = "rCheck" -> 3 * toRead + 1
    [] pc = "rTail"  -> 3 * toRead
    [] pc = "rCopy"  -> 3 * toRead - 1
    [] pc = "wSlot" -> 11 * Len(wrBuf) + 12
    [] pc = "wHead" -> 11 * Len(wrBuf) + 11
    [] pc = "wData" -> 11 * Len(wrBuf) + 2
    [] pc = "wRts"  -> 11
    [] pc = "dCheck"  -> 10
    [] pc = "dStatus" -> 9
    [] pc = "dTail"   -> 8
    [] pc = "dTailStore" -> 7
    [] pc = "dByte" -> 14
    [] pc = "dReg"  -> 13
    [] pc = "wArm"  -> 7
    [] pc \in {"armTIE", "armTCIE"} -> 6
    [] pc \in {"armStore", "closing"} -> 5
    [] OTHER -> 0

\* Steps left in the handler's run under way.
RunLeft ==
  CASE Polling \/ ipc = "idle"    -> 0
    [] ~Polling /\ ipc = "readD" -> 3
    [] ~Polling /\ ipc = "tx"    -> 2
    [] ~Polling /\ ipc = "tc"    -> 1

\* The run that a byte in D will take.
RxLeft == IF rxD # <<>> /\ ~WillReceive THEN RunSteps ELSE 0

\* A byte in the ring takes a run or main's loop, then two steps to the wire.
TxLeft ==
  8 * TxWaiting + 2 * Len(txD) + Len(shifter) - (IF WillTransmit THEN RunSteps ELSE 0)

\* The run that switches the transmit interrupts off.
ArmLeft == IF Armed /\ ~WillDisarm THEN RunSteps ELSE 0

StepsLeft == CallLeft + RunLeft + RxLeft + TxLeft + ArmLeft

\* Main's steps, the handler's and the transmitter's bring the end nearer, in
\* whatever order they come: interrupts are never enabled, and bytes never
\* handed on, without end.  Only a run of the handler that does nothing but look
\* uses up nothing, and such a run starts only while the last byte is being
\* shifted out.
EveryStepCounts ==
  [][/\ StepsLeft >= 0
     /\ DriverStep \/ Isr \/ ShiftLoad \/ ShiftDone =>
          \/ StepsLeft' < StepsLeft
          \/ StepsLeft' = StepsLeft /\ (Polling \/ Polling')
     /\ ipc = "idle" /\ Polling' => shifter # <<>>]_vars

\* Neither main inside the driver nor the handler nor the transmitter can move.
AtRest ==
  /\ pc = "app" /\ ipc = "idle" /\ ~Irq
  /\ shifter = <<>> /\ ("TE" \in c2 => txD = <<>>)

\* The system comes to rest only with all work done: no byte is stuck in D, in the
\* ring or in the transmitter for want of an enable bit, and every byte accepted
\* is on the wire.
RestMeansDone == AtRest => rxD = <<>> /\ TxQuiet /\ wire = txAcc
=============================================================================
