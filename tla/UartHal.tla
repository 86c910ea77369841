------------------------------ MODULE UartHal -------------------------------
(***************************************************************************)
(* UartDriver_HAL/Sources/UartHal.c, for channel Un2, the only one with an *)
(* interrupt handler: an earlier cut of the driver of BufferedUart.  The   *)
(* receiver is interrupt-driven or polled, as the client chooses; of the   *)
(* transmitter only UART_PutChar is left, for what Uart_Write queues is    *)
(* fetched by nobody (Un_TxISR has no caller).                             *)
(*                                                                         *)
(* Main makes one access to what it shares with the handler or with the    *)
(* peripheral per step; the handler starts between any two of them and     *)
(* then runs to its end; the peripheral moves at any time.  The n-th byte  *)
(* the peer sends is n, and so is the n-th byte the client hands over.     *)
(***************************************************************************)
EXTENDS RingIndex, Sequences

CONSTANTS
  RxSize,       \* UART_RX_BUF_SIZE
  TxSize,       \* UART_TX_BUF_SIZE
  ReadSizes,    \* byte counts the client asks Uart_Read for
  WriteSizes,   \* byte counts the client hands to Uart_Write
  LevelMod,     \* 2^w for the w-bit result of Uart_GetRxQueueLevel (2^8)
  Mix,          \* may a client that takes interrupts call UART_GetChar, too?
  MaxRx,        \* bound: bytes the peer sends
  MaxTx,        \* bound: bytes the client hands to Uart_Write
  MaxPut        \* bound: bytes the client hands to UART_PutChar

ASSUME HalAssumption ==
  /\ RxSize \in Nat /\ RxSize > 1
  /\ TxSize \in Nat /\ TxSize > 1
  /\ ReadSizes \subseteq Nat /\ WriteSizes \subseteq Nat
  /\ LevelMod \in Nat /\ LevelMod > 0 /\ Mix \in BOOLEAN
  /\ MaxRx \in Nat /\ MaxTx \in Nat /\ MaxPut \in Nat

VARIABLES
  rxBuf, rxHead, rxTail, txBuf, txHead, txTail, u8Wake,   \* Un_Inst[Un2]
  c2, nvic,             \* the bits of C2 that are set; is the NVIC's?
  rxD, txD, shifter,    \* the data registers and the transmit shifter
  rxLast,               \* the byte D gives when it is read and has no new one
  pc, toRead, reg, char, \* main: its position, bytes to read, a CPU register,
                         \* what UART_GetChar read
  ipc,                  \* the handler's position
  peerSent, rxAcc, rxGot, txAcc, put, wire,  \* histories, as in BufferedUart;
                        \* put: bytes given to UART_PutChar
  waited                \* history: bytes that waited when the level was asked

rxRing  == <<rxBuf, rxHead, rxTail>>
txRing  == <<txBuf, txHead, txTail, txAcc>>
control == <<c2, nvic, u8Wake>>
line    == <<rxD, rxLast, peerSent>>
txPort  == <<txD, shifter, put, wire>>
readLoc == <<toRead, char, rxGot>>
levels  == <<reg, waited>>

vars == <<rxRing, txRing, control, line, txPort, pc, readLoc, levels, ipc, rxAcc>>

RxNext(i) == NextSlot(i, RxSize)

RxWaiting == Waiting(rxHead, rxTail, RxSize)
TxWaiting == Waiting(txHead, txTail, TxSize)

Init ==
  /\ rxBuf = [i \in Slots(RxSize) |-> 0] /\ rxHead = 0 /\ rxTail = 0
  /\ txBuf = [i \in Slots(TxSize) |-> 0] /\ txHead = 0 /\ txTail = 0
  /\ u8Wake = 0 /\ c2 = {} /\ nvic = FALSE
  /\ rxD = <<>> /\ txD = <<>> /\ shifter = <<>>
  /\ rxLast = 0
  /\ pc = "boot" /\ toRead = 0 /\ reg = 0 /\ char = 0
  /\ ipc = "idle"
  /\ peerSent = 0 /\ rxAcc = <<>> /\ rxGot = <<>> /\ txAcc = <<>>
  /\ put = <<>> /\ wire = <<>> /\ waited = 0

MainAt(l) == pc = l /\ ipc = "idle"
Goto(l)   == pc' = l /\ UNCHANGED ipc

-----------------------------------------------------------------------------
(* Beginning and end                                                       *)

Uart_Init ==
  /\ MainAt("boot") /\ Goto("bootNvic")
  /\ c2' = (c2 \ {"TE", "RE"}) \cup {"RE", "TE", "RIE"}
  /\ UNCHANGED <<rxRing, txRing, nvic, u8Wake, line, txPort, readLoc, levels, rxAcc>>

\* The client wants interrupts, or will poll.
NVIC_EnableIRQ ==
  /\ MainAt("bootNvic") /\ Goto("app")
  /\ nvic' \in BOOLEAN
  /\ UNCHANGED <<rxRing, txRing, c2, u8Wake, line, txPort, readLoc, levels, rxAcc>>

\* After this the clock of the peripheral is off and the client lets it be.
Usart_DeInit ==
  /\ MainAt("app") /\ Goto("closed")
  /\ c2' = {}
  /\ UNCHANGED <<rxRing, txRing, nvic, u8Wake, line, txPort, readLoc, levels, rxAcc>>

\* Uart_EnableWakeup and Uart_DisableWakeup
SetWakeup(wake) ==
  /\ MainAt("app") /\ Goto("app")
  /\ u8Wake' = wake
  /\ UNCHANGED <<rxRing, txRing, c2, nvic, line, txPort, readLoc, levels, rxAcc>>

-----------------------------------------------------------------------------
(* Reception: Uart_Read, Uart_GetRxQueueLevel, UART_GetChar                *)

Uart_Read(n) ==
  /\ MainAt("app") /\ Goto("rCheck")
  /\ toRead' = n
  /\ UNCHANGED <<rxRing, txRing, control, line, txPort, char, rxGot, levels, rxAcc>>

\* Slip: the slot is not looked at, only the count.
ReadCheckCountOnly ==
  /\ MainAt("rCheck")
  /\ Goto(IF toRead > 0 THEN "rTail" ELSE "app")
  /\ UNCHANGED <<rxRing, txRing, control, line, txPort, readLoc, levels, rxAcc>>

ReadCheck ==
  /\ MainAt("rCheck")
  /\ Goto(IF rxHead # rxTail /\ toRead > 0 THEN "rTail" ELSE "app")
  /\ UNCHANGED <<rxRing, txRing, control, line, txPort, readLoc, levels, rxAcc>>

ReadTail ==
  /\ MainAt("rTail") /\ Goto("rCopy")
  /\ rxTail' = RxNext(rxTail)
  /\ UNCHANGED <<rxBuf, rxHead, txRing, control, line, txPort, readLoc, levels, rxAcc>>

ReadCopy ==
  /\ MainAt("rCopy") /\ Goto("rCheck")
  /\ rxGot' = Append(rxGot, rxBuf[rxTail])
  /\ toRead' = toRead - 1
  /\ UNCHANGED <<rxRing, txRing, control, line, txPort, char, levels, rxAcc>>

\* (UInt8)((*pHead - *pTail) & mask): head is loaded ...
LevelHead ==
  /\ MainAt("app") /\ Goto("level")
  /\ reg' = rxHead /\ waited' = RxWaiting
  /\ UNCHANGED <<rxRing, txRing, control, line, txPort, readLoc, rxAcc>>

\* Slip: the difference is cut to a byte but not masked.
LevelOfUnmasked(head, tail) == (head - tail) % LevelMod

LevelOf(head, tail) == ((head - tail) % RxSize) % LevelMod

\* ... and tail, which the handler leaves alone.  The level goes to the client.
LevelTail ==
  /\ MainAt("level") /\ Goto("app")
  /\ reg' = 0 /\ waited' = 0
  /\ UNCHANGED <<rxRing, txRing, control, line, txPort, readLoc, rxAcc>>

\* UART_GetChar waits for RDRF ...
GetCharCall ==
  /\ MainAt("app") /\ Goto("gWait")
  /\ UNCHANGED <<rxRing, txRing, control, line, txPort, readLoc, levels, rxAcc>>

GetCharWait ==
  /\ MainAt("gWait") /\ rxD # <<>> /\ Goto("gData")
  /\ UNCHANGED <<rxRing, txRing, control, line, txPort, readLoc, levels, rxAcc>>

\* ... reads D, which still gives its last byte if the handler has come in between
\* and fetched that, ...
GetCharData ==
  /\ MainAt("gData") /\ Goto("gReturn")
  /\ char' = rxLast
  /\ rxD' = <<>> /\ rxAcc' = rxAcc \o rxD
  /\ UNCHANGED <<rxRing, txRing, control, rxLast, peerSent, txPort, toRead, rxGot,
                 levels>>

\* ... and hands the byte out without the ring.
GetCharReturn ==
  /\ MainAt("gReturn") /\ Goto("app")
  /\ rxGot' = Append(rxGot, char) /\ char' = 0
  /\ UNCHANGED <<rxRing, txRing, control, line, txPort, toRead, levels, rxAcc>>

-----------------------------------------------------------------------------
(* Transmission: Uart_Write, UART_PutChar                                  *)

NumberedBytes(n, from) == [i \in 1..n |-> from + i]

\* How many of n bytes find a slot.
Room(n) == LET free == TxSize - 1 - TxWaiting IN IF n <= free THEN n ELSE free

\* Uart_Write: the ring is main's alone, and the call returns for Un2 when the
\* bytes are in it, with Room(n) as *lpNumberOfBytesWritten.
Uart_Write(n) ==
  /\ MainAt("app") /\ Goto("app")
  /\ LET bytes == NumberedBytes(Room(n), Len(txAcc))
         at(k) == (txHead + k) % TxSize
     IN  /\ txHead' = at(Room(n))
         /\ txBuf' = [i \in Slots(TxSize) |->
              IF \E k \in 1..Room(n) : at(k) = i
              THEN bytes[CHOOSE k \in 1..Room(n) : at(k) = i]
              ELSE txBuf[i]]
         /\ txAcc' = txAcc \o bytes
  /\ UNCHANGED <<rxRing, txTail, control, line, txPort, readLoc, levels, rxAcc>>

PutCharCall ==
  /\ MainAt("app") /\ Len(put) < MaxPut /\ Goto("pWait")
  /\ put' = Append(put, Len(put) + 1)
  /\ UNCHANGED <<rxRing, txRing, control, line, txD, shifter, wire, readLoc,
                 levels, rxAcc>>

\* Slip: TDRE is not waited for.
PutCharNoWait ==
  /\ MainAt("pWait") /\ Goto("pData")
  /\ UNCHANGED <<rxRing, txRing, control, line, txPort, readLoc, levels, rxAcc>>

PutCharWait ==
  /\ MainAt("pWait") /\ txD = <<>> /\ Goto("pData")
  /\ UNCHANGED <<rxRing, txRing, control, line, txPort, readLoc, levels, rxAcc>>

PutCharData ==
  /\ MainAt("pData") /\ Goto("app")
  /\ txD' = <<put[Len(put)]>>
  /\ UNCHANGED <<rxRing, txRing, control, line, shifter, put, wire, readLoc,
                 levels, rxAcc>>

-----------------------------------------------------------------------------
(* UART2_IRQHandler                                                        *)

Irq == nvic /\ "RIE" \in c2 /\ rxD # <<>>

\* Slip: the handler empties the data register to clear the flag.
IsrEnterReadsD ==
  /\ ipc = "idle" /\ Irq /\ ipc' = "wait"
  /\ rxD' = <<>>
  /\ UNCHANGED <<rxRing, txRing, control, rxLast, peerSent, txPort, pc, readLoc, levels,
                 rxAcc>>

\* The status register is read, and what it says is not used.
IsrEnter ==
  /\ ipc = "idle" /\ Irq /\ ipc' = "wait"
  /\ UNCHANGED <<rxRing, txRing, control, line, txPort, pc, readLoc, levels, rxAcc>>

\* Slip: the ring is taken for full one slot too soon.
Un_RxISRFullEarly(data) ==
  IF rxTail \notin {RxNext(rxHead), RxNext(RxNext(rxHead))}
  THEN /\ rxHead' = RxNext(rxHead)
       /\ rxBuf' = [rxBuf EXCEPT ![RxNext(rxHead)] = data]
       /\ rxAcc' = Append(rxAcc, data)
       /\ UNCHANGED rxTail
  ELSE UNCHANGED <<rxRing, rxAcc>>

Un_RxISR(data) ==
  IF rxTail # RxNext(rxHead)
  THEN /\ rxHead' = RxNext(rxHead)
       /\ rxBuf' = [rxBuf EXCEPT ![RxNext(rxHead)] = data]
       /\ rxAcc' = Append(rxAcc, data)
       /\ UNCHANGED rxTail
  ELSE UNCHANGED <<rxRing, rxAcc>>

\* Out of the handler's own wait for RDRF.
IsrReceive ==
  /\ ipc = "wait" /\ rxD # <<>> /\ ipc' = "idle"
  /\ Un_RxISR(Head(rxD))
  /\ rxD' = <<>>
  /\ UNCHANGED <<txRing, control, rxLast, peerSent, txPort, pc, readLoc, levels>>

-----------------------------------------------------------------------------
(* The peripheral (external), and everything together                      *)

PeerSends ==
  /\ "RE" \in c2 /\ peerSent < MaxRx
  /\ peerSent' = peerSent + 1
  /\ IF rxD = <<>>
     THEN rxD' = <<peerSent + 1>> /\ rxLast' = peerSent + 1
     ELSE UNCHANGED <<rxD, rxLast>>
  /\ UNCHANGED <<rxRing, txRing, control, txPort, pc, readLoc, levels, ipc, rxAcc>>

ShiftLoad ==
  /\ "TE" \in c2 /\ txD # <<>> /\ shifter = <<>>
  /\ shifter' = txD /\ txD' = <<>>
  /\ UNCHANGED <<rxRing, txRing, control, line, put, wire, pc, readLoc, levels,
                 ipc, rxAcc>>

ShiftDone ==
  /\ shifter # <<>>
  /\ wire' = wire \o shifter /\ shifter' = <<>>
  /\ UNCHANGED <<rxRing, txRing, control, line, txD, put, pc, readLoc, levels,
                 ipc, rxAcc>>

\* What the client may do next.  The file does not say that UART_GetChar is for
\* those who poll; a client that has enabled the NVIC and calls it all the same
\* races its own handler for the byte, which Mix lets happen or not.
Client ==
  \/ \E n \in ReadSizes : Uart_Read(n)
  \/ \E n \in WriteSizes : Len(txAcc) + n <= MaxTx /\ Uart_Write(n)
  \/ \E wake \in 0..1 : SetWakeup(wake)
  \/ (Mix \/ ~nvic) /\ GetCharCall
  \/ LevelHead \/ PutCharCall \/ Usart_DeInit

DriverStep ==
  \/ Uart_Init \/ NVIC_EnableIRQ \/ ReadCheck \/ ReadTail \/ ReadCopy \/ LevelTail
  \/ GetCharWait \/ GetCharData \/ GetCharReturn \/ PutCharWait \/ PutCharData

Isr == IsrEnter \/ IsrReceive

Peripheral == PeerSends \/ ShiftLoad \/ ShiftDone

Next == Client \/ DriverStep \/ Isr \/ Peripheral

\* Main goes on whenever the handler leaves it the processor for good, a pending
\* interrupt is taken, the transmitter shifts.  The peer may fall silent.
Fairness == WF_vars(DriverStep) /\ WF_vars(Isr) /\ WF_vars(ShiftLoad \/ ShiftDone)

Spec == Init /\ [][Next]_vars /\ Fairness

-----------------------------------------------------------------------------
(* Properties                                                              *)

\* Types: the 16-bit indices stay inside their buffers and the registers hold at
\* most one byte.
TypeOK ==
  /\ rxHead \in Slots(RxSize) /\ rxTail \in Slots(RxSize)
  /\ txHead \in Slots(TxSize) /\ txTail \in Slots(TxSize)
  /\ DOMAIN rxBuf = Slots(RxSize) /\ DOMAIN txBuf = Slots(TxSize)
  /\ Len(rxD) <= 1 /\ Len(txD) <= 1 /\ Len(shifter) <= 1
  /\ c2 \subseteq {"TE", "RE", "RIE"} /\ nvic \in BOOLEAN /\ u8Wake \in 0..1
  /\ ipc \in {"idle", "wait"} /\ toRead \in Nat /\ reg \in Slots(RxSize)
  /\ rxLast \in 0..MaxRx /\ char \in 0..MaxRx

\* The receiver is a queue from the handler's acceptance of a byte, or
\* UART_GetChar's, to the client: nothing accepted is lost, doubled or out of
\* order, however the handler comes between main's accesses.  That is for a client
\* which polls or takes interrupts, one of the two: with Mix the handler can fetch
\* the byte between UART_GetChar's test and its read of D (UartHal.c:611, :614),
\* and the byte is handed out twice.
RxFifo == INSTANCE ByteFifo
            WITH input <- rxAcc, output <- rxGot, up <- pc # "boot",
                 Byte <- 0..MaxRx, Cap <- RxSize
RxIsFifo == RxFifo!FifoSpec

\* Between Uart_GetRxQueueLevel's two loads bytes may come in: the level it
\* gives is one that was true in between, never more than what can be read by
\* then, never less than what waited when it was called.
LevelIsSafe ==
  pc = "level" => LevelOf(reg, rxTail) \in waited .. RxWaiting

\* A byte that reached the data register is refused by the handler only when
\* all RxSize - 1 usable slots hold unread bytes.
RxDropsOnlyWhenFull ==
  [][ipc = "wait" /\ ipc' = "idle" => rxAcc' # rxAcc \/ RxWaiting = RxSize - 1]_vars

\* UART_PutChar and the transmitter are a queue, too: every byte handed over goes
\* on the wire in order, and no more than three are on the way, one in D, one in the
\* shifter and one in main's hand.
PutFifo == INSTANCE ByteFifo
             WITH input <- put, output <- wire, up <- pc # "boot",
                  Byte <- 1..MaxPut, Cap <- 3
PutIsFifo == PutFifo!FifoSpec

\* Main waits for a flag that is not set, or has nothing to do.
MainWaits ==
  \/ pc \in {"app", "closed"}
  \/ pc = "gWait" /\ rxD = <<>>
  \/ pc = "pWait" /\ txD # <<>>

\* Neither main nor the handler nor the transmitter can move.
AtRest ==
  /\ IF ipc = "idle" THEN MainWaits /\ ~Irq ELSE rxD = <<>>
  /\ shifter = <<>> /\ ("TE" \in c2 => txD = <<>>)

\* Of the three loops that wait for a flag only UART_GetChar's can be what the
\* system comes to rest in.  Elsewhere it rests with all work done: what was put is
\* on the wire, and no byte lies in D that the handler should have fetched.
NobodyIsStuck ==
  AtRest =>
    /\ ipc = "idle" /\ pc \in {"app", "gWait", "closed"}
    /\ pc # "closed" => wire = put /\ (nvic => rxD = <<>>)

\* The handler's wait for RDRF ends although the peer may send nothing more.
HandlerReturns == ipc # "idle" ~> ipc = "idle"
=============================================================================
