---------------------------- MODULE BufferedUart ----------------------------
(***************************************************************************)
(* The interrupt-driven UART driver of BufferedSerial/Sources/UART/UART.c, *)
(* for one of its three channels, with the processor and the peripheral it *)
(* runs on.                                                                *)
(*                                                                         *)
(* Three parties interleave.  The main program runs Uart_Init, Uart_Read   *)
(* and Uart_Write, one access to shared memory or to a register per step   *)
(* (the projects are built with -O0, so the order of the source is the     *)
(* order of the accesses).  The interrupt handler may start between any    *)
(* two of those steps and then runs to its end before main goes on.  The   *)
(* peripheral moves at any time, inside the handler too.                   *)
(*                                                                         *)
(* The bytes are numbered: the n-th byte the peer sends has the value n,   *)
(* so a byte lost, repeated or out of order shows in the histories.        *)
(***************************************************************************)
EXTENDS RingIndex, Sequences

CONSTANTS
  Channel,      \* Un0, Un1 or Un2: which handler serves the channel
  RxSize,       \* UART_RX_BUF_SIZE
  TxSize,       \* UART_TX_BUF_SIZE
  LevelMod,     \* 2^w for the w-bit result of Uart_GetRxQueueLevel
  ReadSizes,    \* byte counts the client asks Uart_Read for
  WriteSizes,   \* byte counts the client hands to Uart_Write
  Overlap,      \* may the client write while a transmission is going on?
  MaxRx,        \* bound: bytes the peer sends
  MaxTx         \* bound: bytes the client gets accepted for sending

ASSUME ConstantsAssumption ==
  /\ Channel \in 0..2
  /\ RxSize \in Nat /\ RxSize > 1
  /\ TxSize \in Nat /\ TxSize > 1
  /\ LevelMod \in Nat /\ LevelMod > 0
  /\ ReadSizes \subseteq Nat
  /\ WriteSizes \subseteq Nat
  /\ Overlap \in BOOLEAN
  /\ MaxRx \in Nat
  /\ MaxTx \in Nat

VARIABLES
  \* Un_Inst[Channel]
  rxBuf, rxHead, rxTail, txBuf, txHead, txTail, bRts,
  \* the peripheral: enable bits of C2, the NVIC enable, the receive data
  \* register (non-empty when RDRF is set), the transmit data register
  \* (empty when TDRE is set) and the transmit shifter
  c2, nvic, rxD, txD, shifter,
  \* main: its position, the rest of lpBuffer, *lpNumberOfBytesWritten, the
  \* bytes still to read, *lpNumberOfBytesRead, two CPU registers
  pc, wrBuf, written, toRead, nRead, reg, c2reg,
  \* the handler: its position and lu8_Status
  ipc, status,
  \* histories: bytes the peer sent, accepted into the receive ring, handed
  \* to the client, accepted from the client, put on the wire; and whether
  \* Uart_DeInit has been called
  peerSent, rxAcc, rxGot, txAcc, wire, closed

rxRing   == <<rxBuf, rxHead, rxTail>>
txRing   == <<txBuf, txHead, txTail>>
txPort   == <<txD, shifter, wire>>
readLoc  == <<toRead, nRead, rxGot>>
writeLoc == <<wrBuf, written, txAcc>>
regs     == <<reg, c2reg>>
isrVars  == <<ipc, status>>
line     == <<rxD, peerSent>>

vars == <<rxRing, txRing, bRts, c2, nvic, line, txPort, pc, readLoc,
          writeLoc, regs, isrVars, rxAcc, closed>>

C2Bits == {"TE", "RE", "RIE", "TIE", "TCIE"}

\* The status flags, as a read of S1 returns them.
S1 == (IF rxD # <<>> THEN {"RDRF"} ELSE {})
        \cup (IF txD = <<>> THEN {"TDRE"} ELSE {})
        \cup (IF txD = <<>> /\ shifter = <<>> THEN {"TC"} ELSE {})

Irq == /\ nvic
       /\ \/ "RDRF" \in S1 /\ "RIE" \in c2
          \/ "TDRE" \in S1 /\ "TIE" \in c2
          \/ "TC" \in S1 /\ "TCIE" \in c2

\* Slip: the mask is forgotten.
RxNextUnmasked(i) == i + 1

RxNext(i) == NextSlot(i, RxSize)
TxNext(i) == NextSlot(i, TxSize)

Init ==
  /\ rxBuf = [i \in Slots(RxSize) |-> 0] /\ rxHead = 0 /\ rxTail = 0
  /\ txBuf = [i \in Slots(TxSize) |-> 0] /\ txHead = 0 /\ txTail = 0
  /\ bRts = FALSE
  /\ c2 = {} /\ nvic = FALSE
  /\ rxD = <<>> /\ txD = <<>> /\ shifter = <<>>
  /\ pc = "boot" /\ wrBuf = <<>> /\ written = 0 /\ toRead = 0 /\ nRead = 0
  /\ reg = 0 /\ c2reg = {}
  /\ ipc = "idle" /\ status = {}
  /\ peerSent = 0 /\ rxAcc = <<>> /\ rxGot = <<>> /\ txAcc = <<>>
  /\ wire = <<>> /\ closed = FALSE

-----------------------------------------------------------------------------
(* Main.  A step of main needs the handler not to be running.              *)

MainAt(l) == pc = l /\ ipc = "idle"
Goto(l)   == pc' = l /\ UNCHANGED isrVars

\* Slip: the receive interrupt is not enabled.
InitRegistersNoRIE ==
  /\ MainAt("boot") /\ Goto("bootTails")
  /\ c2' = (c2 \ {"TE", "RE"}) \cup {"RE", "TE"}
  /\ nvic' = TRUE
  /\ UNCHANGED <<rxRing, txRing, bRts, line, txPort, readLoc, writeLoc, regs,
                 rxAcc, closed>>

\* Uart_Init: the registers and the NVIC first ...
InitRegisters ==
  /\ MainAt("boot") /\ Goto("bootTails")
  /\ c2' = (c2 \ {"TE", "RE"}) \cup {"RE", "TE", "RIE"}
  /\ nvic' = TRUE
  /\ UNCHANGED <<rxRing, txRing, bRts, line, txPort, readLoc, writeLoc, regs,
                 rxAcc, closed>>

\* ... and the ring indices last, while the handler may already be filling.
InitTails ==
  /\ MainAt("bootTails") /\ Goto("bootHeads")
  /\ rxTail' = 0 /\ txTail' = 0
  /\ UNCHANGED <<rxBuf, rxHead, txBuf, txHead, bRts, c2, nvic, line, txPort,
                 readLoc, writeLoc, regs, rxAcc, closed>>

\* Whatever the handler accepted in the meantime is forgotten.
InitHeads ==
  /\ MainAt("bootHeads") /\ Goto("app")
  /\ rxHead' = 0 /\ txHead' = 0
  /\ rxAcc' = rxGot
  /\ UNCHANGED <<rxBuf, rxTail, txBuf, txTail, bRts, c2, nvic, line, txPort,
                 readLoc, writeLoc, regs, closed>>

\* Uart_DeInit, pUART->C2 &= ~bits, a load ...  The masks are shifted down to
\* bit 0 (SBK), which is not among the bits the driver uses.
Uart_DeInit ==
  /\ MainAt("app") /\ ~closed /\ Goto("closing")
  /\ c2reg' = c2 \ {"SBK"}
  /\ closed' = TRUE
  /\ UNCHANGED <<rxRing, txRing, bRts, c2, nvic, line, txPort, readLoc,
                 writeLoc, reg, rxAcc>>

\* ... and a store, which undoes what the handler did to C2 in between.
DeInitStore ==
  /\ MainAt("closing") /\ Goto("app")
  /\ c2' = c2reg
  /\ c2reg' = {}
  /\ UNCHANGED <<rxRing, txRing, bRts, nvic, line, txPort, readLoc, writeLoc,
                 reg, rxAcc, closed>>

-----------------------------------------------------------------------------
(* Uart_Read                                                               *)

\* *lpNumberOfBytesRead = 0
CallRead(n) ==
  /\ MainAt("app") /\ ~closed /\ Goto("rCheck")
  /\ toRead' = n /\ nRead' = 0
  /\ UNCHANGED <<rxRing, txRing, bRts, c2, nvic, line, txPort, rxGot,
                 writeLoc, regs, rxAcc, closed>>

\* Slip: only the count is tested, not whether the ring is empty.
ReadCheckCountOnly ==
  /\ MainAt("rCheck")
  /\ Goto(IF toRead > 0 THEN "rTail" ELSE "app")
  /\ UNCHANGED <<rxRing, txRing, bRts, c2, nvic, line, txPort, readLoc,
                 writeLoc, regs, rxAcc, closed>>

ReadCheck ==
  /\ MainAt("rCheck")
  /\ Goto(IF rxHead # rxTail /\ toRead > 0 THEN "rTail" ELSE "app")
  /\ UNCHANGED <<rxRing, txRing, bRts, c2, nvic, line, txPort, readLoc,
                 writeLoc, regs, rxAcc, closed>>

\* The slot is given back to the ring ...
ReadTail ==
  /\ MainAt("rTail") /\ Goto("rCopy")
  /\ rxTail' = RxNext(rxTail)
  /\ UNCHANGED <<rxBuf, rxHead, txRing, bRts, c2, nvic, line, txPort, readLoc,
                 writeLoc, regs, rxAcc, closed>>

\* ... before its byte is copied out.
ReadCopy ==
  /\ MainAt("rCopy") /\ Goto("rCheck")
  /\ rxGot' = Append(rxGot, rxBuf[rxTail])
  /\ toRead' = toRead - 1 /\ nRead' = nRead + 1
  /\ UNCHANGED <<rxRing, txRing, bRts, c2, nvic, line, txPort, writeLoc, regs,
                 rxAcc, closed>>

-----------------------------------------------------------------------------
(* Uart_Write                                                              *)

\* A request for no bytes returns at once.
CallWrite(s) ==
  /\ MainAt("app") /\ ~closed
  /\ Goto(IF s = <<>> THEN "app" ELSE "wSlot")
  /\ wrBuf' = s /\ written' = 0
  /\ UNCHANGED <<rxRing, txRing, bRts, c2, nvic, line, txPort, readLoc, txAcc,
                 regs, rxAcc, closed>>

\* Is there a slot?  If not the rest of the request is given up.
WriteSlot ==
  /\ MainAt("wSlot")
  /\ Goto(IF txTail # TxNext(txHead) THEN "wHead" ELSE "wRts")
  /\ UNCHANGED <<rxRing, txRing, bRts, c2, nvic, line, txPort, readLoc,
                 writeLoc, regs, rxAcc, closed>>

\* The slot is published ...
WriteHead ==
  /\ MainAt("wHead") /\ Goto("wData")
  /\ txHead' = TxNext(txHead)
  /\ UNCHANGED <<rxRing, txBuf, txTail, bRts, c2, nvic, line, txPort, readLoc,
                 writeLoc, regs, rxAcc, closed>>

\* ... before its byte is stored.
WriteData ==
  /\ MainAt("wData")
  /\ Goto(IF Len(wrBuf) > 1 THEN "wSlot" ELSE "wRts")
  /\ txBuf' = [txBuf EXCEPT ![txHead] = Head(wrBuf)]
  /\ txAcc' = Append(txAcc, Head(wrBuf))
  /\ wrBuf' = Tail(wrBuf) /\ written' = written + 1
  /\ UNCHANGED <<rxRing, txHead, txTail, bRts, c2, nvic, line, txPort,
                 readLoc, regs, rxAcc, closed>>

WriteRts ==
  /\ MainAt("wRts") /\ Goto("dCheck")
  /\ bRts' = TRUE
  /\ wrBuf' = <<>>
  /\ UNCHANGED <<rxRing, txRing, c2, nvic, line, txPort, readLoc, written,
                 txAcc, regs, rxAcc, closed>>

\* The loop that feeds the data register from main: a byte waiting?
DrainCheck ==
  /\ MainAt("dCheck")
  /\ Goto(IF txHead # txTail THEN "dStatus" ELSE "wArm")
  /\ UNCHANGED <<rxRing, txRing, bRts, c2, nvic, line, txPort, readLoc,
                 writeLoc, regs, rxAcc, closed>>

\* Slip: the data register is written whether or not it is empty.
DrainStatusIgnored ==
  /\ MainAt("dStatus") /\ Goto("dTail")
  /\ UNCHANGED <<rxRing, txRing, bRts, c2, nvic, line, txPort, readLoc,
                 writeLoc, regs, rxAcc, closed>>

\* Is the data register empty?
DrainStatus ==
  /\ MainAt("dStatus")
  /\ Goto(IF "TDRE" \in S1 THEN "dTail" ELSE "wArm")
  /\ UNCHANGED <<rxRing, txRing, bRts, c2, nvic, line, txPort, readLoc,
                 writeLoc, regs, rxAcc, closed>>

\* *pTail = (*pTail + 1) & mask, a load and a store.
DrainTailLoad ==
  /\ MainAt("dTail") /\ Goto("dTailStore")
  /\ reg' = txTail
  /\ UNCHANGED <<rxRing, txRing, bRts, c2, nvic, line, txPort, readLoc,
                 writeLoc, c2reg, rxAcc, closed>>

DrainTailStore ==
  /\ MainAt("dTailStore") /\ Goto("dByte")
  /\ txTail' = TxNext(reg)
  /\ reg' = 0
  /\ UNCHANGED <<rxRing, txBuf, txHead, bRts, c2, nvic, line, txPort, readLoc,
                 writeLoc, c2reg, rxAcc, closed>>

\* *pTxDataReg = pBuff[*pTail], a load and a store.
DrainByte ==
  /\ MainAt("dByte") /\ Goto("dReg")
  /\ reg' = txBuf[txTail]
  /\ UNCHANGED <<rxRing, txRing, bRts, c2, nvic, line, txPort, readLoc,
                 writeLoc, c2reg, rxAcc, closed>>

DrainReg ==
  /\ MainAt("dReg") /\ Goto("dCheck")
  /\ txD' = <<reg>>
  /\ reg' = 0
  /\ UNCHANGED <<rxRing, txRing, bRts, c2, nvic, line, shifter, wire, readLoc,
                 writeLoc, c2reg, rxAcc, closed>>

\* Slip: transmission complete is waited for even with bytes left.
ArmChooseComplete ==
  /\ MainAt("wArm") /\ Goto("armTCIE")
  /\ UNCHANGED <<rxRing, txRing, bRts, c2, nvic, line, txPort, readLoc,
                 writeLoc, regs, rxAcc, closed>>

\* Which interrupt is to go on from here?
ArmChoose ==
  /\ MainAt("wArm")
  /\ Goto(IF txHead # txTail THEN "armTIE" ELSE "armTCIE")
  /\ UNCHANGED <<rxRing, txRing, bRts, c2, nvic, line, txPort, readLoc,
                 writeLoc, regs, rxAcc, closed>>

\* Slip: TE for TIE, the mask Un_TxISR has in the same place.
ArmLoadTE ==
  /\ \/ MainAt("armTIE") /\ c2reg' = c2 \cup {"TE"}
     \/ MainAt("armTCIE") /\ c2reg' = c2 \cup {"TCIE"}
  /\ Goto("armStore")
  /\ UNCHANGED <<rxRing, txRing, bRts, c2, nvic, line, txPort, readLoc,
                 writeLoc, reg, rxAcc, closed>>

\* pUART->C2 |= bit, a load and a store.
ArmLoad ==
  /\ \/ MainAt("armTIE") /\ c2reg' = c2 \cup {"TIE"}
     \/ MainAt("armTCIE") /\ c2reg' = c2 \cup {"TCIE"}
  /\ Goto("armStore")
  /\ UNCHANGED <<rxRing, txRing, bRts, c2, nvic, line, txPort, readLoc,
                 writeLoc, reg, rxAcc, closed>>

ArmStore ==
  /\ MainAt("armStore") /\ Goto("app")
  /\ c2' = c2reg
  /\ c2reg' = {}
  /\ UNCHANGED <<rxRing, txRing, bRts, nvic, line, txPort, readLoc, writeLoc,
                 reg, rxAcc, closed>>

-----------------------------------------------------------------------------
(* The handler, UARTn_IRQHandler                                           *)

IsrReadStatus ==
  /\ ipc = "idle" /\ Irq
  /\ ipc' = "readD"
  /\ status' = S1
  /\ UNCHANGED <<rxRing, txRing, bRts, c2, nvic, line, txPort, pc, readLoc,
                 writeLoc, regs, rxAcc, closed>>

\* Slip: a full ring is not noticed.
Un_RxISRNoTest(data) ==
  /\ rxHead' = RxNext(rxHead)
  /\ rxBuf' = [rxBuf EXCEPT ![RxNext(rxHead)] = data]
  /\ rxAcc' = Append(rxAcc, data)
  /\ UNCHANGED rxTail

\* Slip: the ring is taken for full one slot too soon.
Un_RxISRFullEarly(data) ==
  IF rxTail \notin {RxNext(rxHead), RxNext(RxNext(rxHead))}
  THEN Un_RxISRNoTest(data)
  ELSE UNCHANGED <<rxRing, rxAcc>>

\* Un_RxISR: the byte is dropped when the ring is full.
Un_RxISR(data) ==
  IF rxTail # RxNext(rxHead)
  THEN /\ rxHead' = RxNext(rxHead)
       /\ rxBuf' = [rxBuf EXCEPT ![RxNext(rxHead)] = data]
       /\ rxAcc' = Append(rxAcc, data)
       /\ UNCHANGED rxTail
  ELSE UNCHANGED <<rxRing, rxAcc>>

\* Reading D after a status that showed RDRF clears the flag.
IsrReceive ==
  /\ ipc = "readD"
  /\ IF "RDRF" \in status
     THEN /\ rxD' = <<>>
          /\ IF "RIE" \in c2 THEN Un_RxISR(Head(rxD))
                             ELSE UNCHANGED <<rxRing, rxAcc>>
     ELSE UNCHANGED <<rxD, rxRing, rxAcc>>
  /\ ipc' = IF "TDRE" \in status /\ "TIE" \in c2 THEN "tx" ELSE "tc"
  /\ UNCHANGED <<txRing, bRts, c2, nvic, peerSent, txPort, pc, readLoc,
                 writeLoc, regs, status, closed>>

\* Un_TxISR: one turn of its loop ...
IsrTransmit ==
  /\ ipc = "tx"
  /\ txHead # txTail /\ "TDRE" \in S1
  /\ txTail' = TxNext(txTail)
  /\ txD' = <<txBuf[TxNext(txTail)]>>
  /\ UNCHANGED <<rxRing, txBuf, txHead, bRts, c2, nvic, line, shifter, wire,
                 pc, readLoc, writeLoc, regs, isrVars, rxAcc, closed>>

\* Slip: nothing asks for the end of the last byte.
IsrTransmitEndNoTCIE ==
  /\ ipc = "tx"
  /\ ~(txHead # txTail /\ "TDRE" \in S1)
  /\ c2' = c2 \cup {"TE"}
  /\ ipc' = "tc"
  /\ UNCHANGED <<rxRing, txRing, bRts, nvic, line, txPort, pc, readLoc,
                 writeLoc, regs, status, rxAcc, closed>>

\* ... and its end, where the bit for "more to send" is TE.
IsrTransmitEnd ==
  /\ ipc = "tx"
  /\ ~(txHead # txTail /\ "TDRE" \in S1)
  /\ c2' = c2 \cup {IF txHead # txTail THEN "TE" ELSE "TCIE"}
  /\ ipc' = "tc"
  /\ UNCHANGED <<rxRing, txRing, bRts, nvic, line, txPort, pc, readLoc,
                 writeLoc, regs, status, rxAcc, closed>>

\* Slip: the handler of Un2 too leaves TCIE set.
IsrCompleteKeepsTCIE ==
  /\ ipc = "tc"
  /\ ipc' = "idle" /\ status' = {}
  /\ c2' = IF "TC" \in status /\ "TCIE" \in c2 THEN c2 \ {"TIE"} ELSE c2
  /\ UNCHANGED <<rxRing, txRing, bRts, nvic, line, txPort, pc, readLoc,
                 writeLoc, regs, rxAcc, closed>>

\* Transmission complete, as the status read at entry had it.  The handlers
\* of Un0 and Un1 leave TCIE set; that of Un2 leaves RTS set.
IsrComplete ==
  /\ ipc = "tc"
  /\ ipc' = "idle" /\ status' = {}
  /\ IF "TC" \in status /\ "TCIE" \in c2
     THEN IF Channel = 2
          THEN c2' = c2 \ {"TIE", "TCIE"} /\ UNCHANGED bRts
          ELSE c2' = c2 \ {"TIE"} /\ bRts' = FALSE
     ELSE UNCHANGED <<c2, bRts>>
  /\ UNCHANGED <<rxRing, txRing, nvic, line, txPort, pc, readLoc, writeLoc,
                 regs, rxAcc, closed>>

-----------------------------------------------------------------------------
(* The peripheral.  External: from the flags the code tests and sets.      *)

\* A byte arrives; the receiver has no room for it when RDRF is still set.
PeerSends ==
  /\ "RE" \in c2 /\ peerSent < MaxRx
  /\ peerSent' = peerSent + 1
  /\ rxD' = IF rxD = <<>> THEN <<peerSent + 1>> ELSE rxD
  /\ UNCHANGED <<rxRing, txRing, bRts, c2, nvic, txPort, pc, readLoc,
                 writeLoc, regs, isrVars, rxAcc, closed>>

ShiftLoad ==
  /\ "TE" \in c2 /\ txD # <<>> /\ shifter = <<>>
  /\ shifter' = txD /\ txD' = <<>>
  /\ UNCHANGED <<rxRing, txRing, bRts, c2, nvic, line, wire, pc, readLoc,
                 writeLoc, regs, isrVars, rxAcc, closed>>

ShiftDone ==
  /\ shifter # <<>>
  /\ wire' = wire \o shifter /\ shifter' = <<>>
  /\ UNCHANGED <<rxRing, txRing, bRts, c2, nvic, line, txD, pc, readLoc,
                 writeLoc, regs, isrVars, rxAcc, closed>>

-----------------------------------------------------------------------------
(* Composition                                                             *)

InitStep  == InitRegisters \/ InitTails \/ InitHeads
ReadStep  == ReadCheck \/ ReadTail \/ ReadCopy
QueueStep == WriteSlot \/ WriteHead \/ WriteData \/ WriteRts
DrainStep == DrainCheck \/ DrainStatus \/ DrainTailLoad \/ DrainTailStore
               \/ DrainByte \/ DrainReg
ArmStep   == ArmChoose \/ ArmLoad \/ ArmStore
WriteStep == QueueStep \/ DrainStep \/ ArmStep

\* Main inside one of the driver's functions.
DriverStep == InitStep \/ ReadStep \/ WriteStep \/ DeInitStore

Isr == IsrReadStatus \/ IsrReceive \/ IsrTransmit \/ IsrTransmitEnd
         \/ IsrComplete

Peripheral == PeerSends \/ ShiftLoad \/ ShiftDone

\* No transmission is going on: the ring is empty and both transmit
\* interrupts are off.
TxQuiet == txHead = txTail /\ c2 \cap {"TIE", "TCIE"} = {}

\* The k-th byte the client hands over has the value k.
NumberedBytes(n) == [i \in 1..n |-> Len(txAcc) + i]

\* Any client: calls in any order, within the bounds.
Client ==
  \/ \E n \in ReadSizes : CallRead(n)
  \/ \E n \in WriteSizes :
        /\ Overlap \/ TxQuiet
        /\ Len(txAcc) + n <= MaxTx
        /\ CallWrite(NumberedBytes(n))
  \/ Uart_DeInit

Next == DriverStep \/ Client \/ Isr \/ Peripheral

Spec == Init /\ [][Next]_vars

\* A pending interrupt is taken and its handler goes on; the transmitter
\* shifts; main goes on whenever the handler leaves it the processor for good.
Fairness == /\ WF_vars(Isr)
            /\ WF_vars(ShiftLoad)
            /\ WF_vars(ShiftDone)
            /\ WF_vars(DriverStep)

FairSpec == Spec /\ Fairness
-----------------------------------------------------------------------------
(* Properties                                                              *)

RxBytes == 0..MaxRx
TxBytes == 0..MaxTx

\* Types: the indices stay inside their buffers, the registers hold at most one
\* byte, and every position is one of the program's.
TypeOK ==
  /\ rxBuf \in [Slots(RxSize) -> RxBytes]
  /\ rxHead \in Slots(RxSize) /\ rxTail \in Slots(RxSize)
  /\ txBuf \in [Slots(TxSize) -> Nat]
  /\ txHead \in Slots(TxSize) /\ txTail \in Slots(TxSize)
  /\ bRts \in BOOLEAN /\ nvic \in BOOLEAN /\ closed \in BOOLEAN
  /\ c2 \in SUBSET C2Bits /\ c2reg \in SUBSET C2Bits
  /\ rxD \in Seq(RxBytes) /\ Len(rxD) <= 1
  /\ txD \in Seq(Nat) /\ Len(txD) <= 1
  /\ shifter \in Seq(Nat) /\ Len(shifter) <= 1
  /\ pc \in {"boot", "bootTails", "bootHeads", "app", "rCheck", "rTail",
             "rCopy", "wSlot", "wHead", "wData", "wRts", "dCheck", "dStatus",
             "dTail", "dTailStore", "dByte", "dReg", "wArm", "armTIE",
             "armTCIE", "armStore", "closing"}
  /\ reg \in Nat
  /\ ipc \in {"idle", "readD", "tx", "tc"}
  /\ status \in SUBSET {"RDRF", "TDRE", "TC"}
  /\ toRead \in Nat /\ nRead \in Nat /\ written \in Nat
  /\ peerSent \in 0..MaxRx
  /\ wrBuf \in Seq(Nat) /\ txAcc \in Seq(Nat) /\ wire \in Seq(Nat)
  /\ rxAcc \in Seq(RxBytes) /\ rxGot \in Seq(RxBytes)

RxWaiting == Waiting(rxHead, rxTail, RxSize)
TxWaiting == Waiting(txHead, txTail, TxSize)

\* Uart_Init has finished.
Ready == pc \notin {"boot", "bootTails", "bootHeads"}

\* Bytes that have left the ring but not yet reached lpBuffer.
InHand == IF pc = "rCopy" THEN 1 ELSE 0

\* The receive ring holds exactly the bytes accepted and not yet read, in
\* order; and the slot Uart_Read has given back but not copied yet still
\* holds its byte, whatever the handler does in between.
RxRingHoldsTheRest ==
  /\ Len(rxAcc) = Len(rxGot) + InHand + RxWaiting
  /\ pc = "rCopy" => rxBuf[rxTail] = rxAcc[Len(rxGot) + 1]
  /\ \A k \in 1..RxWaiting :
        rxBuf[SlotAfter(rxTail, k, RxSize)] = rxAcc[Len(rxGot) + InHand + k]

\* Seen from outside, the receiver is a queue from the interrupt handler's
\* acceptance of a byte to the client's buffer: Un_RxISR and Uart_Read,
\* interleaved in any way, lose, repeat and reorder nothing that was accepted,
\* save for what Uart_Init throws away when it resets the indices.
RxFifo == INSTANCE ByteFifo
            WITH input <- rxAcc, output <- rxGot, up <- Ready,
                 Byte <- RxBytes, Cap <- RxSize
RxIsFifo == RxFifo!FifoSpec

\* A byte the handler found in the data register is refused only when all
\* the slots the ring can use, RxSize - 1, hold unread bytes.
RxDropsOnlyWhenFull ==
  [][ipc = "readD" /\ ipc' # "readD" /\ "RDRF" \in status
       => rxAcc' # rxAcc \/ RxWaiting = RxSize - 1]_vars

\* Slip: the operands the wrong way round.
RxQueueLevelSwapped == (rxTail - rxHead) % LevelMod

\* Uart_GetRxQueueLevel: a difference in int, cut to the width of its result.
RxQueueLevel == (rxHead - rxTail) % LevelMod

\* A poll on the receive level never misses bytes that wait, wherever the two
\* indices stand in the ring (it may report more than there are, see EchoApp).
LevelMissesNothing == RxQueueLevel >= RxWaiting

\* The transmitter is a queue from Uart_Write's acceptance of a byte to the
\* wire, although main and the handler both feed the data register: what is
\* put on the wire is what was accepted, in order.
TxFifo == INSTANCE ByteFifo
            WITH input <- txAcc, output <- wire, up <- Ready,
                 Byte <- TxBytes, Cap <- TxSize + 1
TxIsFifo == TxFifo!FifoSpec

\* The same without the bound on what is on the way: the wire carries a prefix
\* of what Uart_Write counted in *lpNumberOfBytesWritten.
TxInOrder == Len(wire) <= Len(txAcc) /\ wire = SubSeq(txAcc, 1, Len(wire))

\* Every byte Uart_Write accepted reaches the wire, with no further call.
AcceptedIsSent == \A k \in 1..MaxTx : Len(txAcc) >= k ~> Len(wire) >= k

\* Every transmission ends with both transmit interrupts off.
TransmitterRests == []<>TxQuiet

\* A call of Uart_Init, Uart_Read, Uart_Write or Uart_DeInit comes back: the
\* interrupts enabled never keep the processor for good.
MainReturns == pc # "app" ~> pc = "app"

\* A received byte does not stay in the data register for good.
ReceiverIsServed == rxD # <<>> ~> rxD = <<>>
=============================================================================
