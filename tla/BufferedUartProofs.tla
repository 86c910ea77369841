------------------------- MODULE BufferedUartProofs -------------------------
(***************************************************************************)
(* Theorems about BufferedUart for every size of the rings, every channel  *)
(* and any number of bytes: the receive side for every client, the         *)
(* transmit side for one that waits for the end of a transmission before   *)
(* it starts the next; and about EchoApp, the driver with its program.     *)
(***************************************************************************)
EXTENDS UartProgress, EchoApp, RingIndexTheorems, SequenceTheorems

(***************************************************************************)
(* Types.  TypeOK is not inductive alone: that a count does not fall below *)
(* zero, or that there is a first byte to take, depends on where main and  *)
(* the handler are.                                                        *)
(***************************************************************************)
Busy ==
  /\ pc \in {"rTail", "rCopy"} => toRead > 0
  /\ pc \in {"wSlot", "wHead", "wData"} => wrBuf # <<>>
  /\ ipc = "readD" /\ "RDRF" \in status => rxD # <<>>

TypeInv == TypeOK /\ Busy

\* Power-up is of the right type.
LEMMA InitTypes == Init => TypeInv
BY ConstantsAssumption
   DEF Init, TypeInv, TypeOK, Busy, Slots, RxBytes, C2Bits

\* An index, and the one after it, is a slot of its buffer.
LEMMA IndexTypes ==
  ASSUME TypeOK
  PROVE  /\ RxNext(rxHead) \in Slots(RxSize) /\ RxNext(rxTail) \in Slots(RxSize)
         /\ TxNext(txHead) \in Slots(TxSize) /\ TxNext(txTail) \in Slots(TxSize)
<1>1. /\ rxHead \in Nat /\ rxTail \in Nat
      /\ txHead \in Nat /\ txTail \in Nat
  BY DEF TypeOK, Slots
<1>2. QED
  BY <1>1, ConstantsAssumption, NextSlotInRing DEF RxNext, TxNext

\* Slot 0, where Uart_Init puts every index, is a slot of either buffer.
LEMMA FirstSlots == 0 \in Slots(RxSize) /\ 0 \in Slots(TxSize)
BY ConstantsAssumption DEF Slots

\* Uart_Init and Uart_DeInit.
LEMMA InitStepTypes ==
  ASSUME TypeInv, InitStep \/ Uart_DeInit \/ DeInitStore
  PROVE  TypeInv'
<1> USE ConstantsAssumption
    DEF TypeInv, TypeOK, Busy, MainAt, Goto, rxRing, txRing, txPort, readLoc,
        writeLoc, regs, isrVars, line
<1>1. CASE InitRegisters
  BY <1>1 DEF InitRegisters, C2Bits
<1>2. CASE InitTails
  BY <1>2, FirstSlots DEF InitTails
<1>3. CASE InitHeads
  BY <1>3, FirstSlots DEF InitHeads
<1>4. CASE Uart_DeInit
  BY <1>4 DEF Uart_DeInit
<1>5. CASE DeInitStore
  BY <1>5 DEF DeInitStore
<1>6. QED
  BY <1>1, <1>2, <1>3, <1>4, <1>5 DEF InitStep

\* Uart_Read.
LEMMA ReadStepTypes ==
  ASSUME TypeInv, ReadStep \/ \E n \in Nat : CallRead(n)
  PROVE  TypeInv'
<1> USE ConstantsAssumption
    DEF TypeInv, TypeOK, Busy, MainAt, Goto, rxRing, txRing, txPort, readLoc,
        writeLoc, regs, isrVars, line
<1>1. ASSUME NEW n \in Nat, CallRead(n)
      PROVE  TypeInv'
  BY <1>1 DEF CallRead
<1>2. CASE ReadCheck
  BY <1>2 DEF ReadCheck
<1>3. CASE ReadTail
  BY <1>3, IndexTypes DEF ReadTail
<1>4. CASE ReadCopy
  BY <1>4 DEF ReadCopy
<1>5. QED
  BY <1>1, <1>2, <1>3, <1>4 DEF ReadStep

\* The sequences a step takes a first byte from.
LEMMA FirstByte ==
  ASSUME NEW S, NEW s \in Seq(S), s # <<>>
  PROVE  /\ Head(s) \in S /\ Tail(s) \in Seq(S)
         /\ Len(s) > 1 => Tail(s) # <<>>
<1>1. Head(s) \in S /\ Tail(s) \in Seq(S) /\ Len(Tail(s)) = Len(s) - 1
  BY HeadTailProperties
<1>2. Len(s) > 1 => Len(Tail(s)) # 0
  BY <1>1, LenProperties
<1>3. Len(<<>>) = 0
  BY EmptySeq
<1>4. QED
  BY <1>1, <1>2, <1>3

\* Uart_Write, up to the loop that feeds the data register.
LEMMA QueueStepTypes ==
  ASSUME TypeInv, QueueStep \/ \E s \in Seq(Nat) : CallWrite(s)
  PROVE  TypeInv'
<1> USE ConstantsAssumption
    DEF TypeInv, TypeOK, Busy, MainAt, Goto, rxRing, txRing, txPort, readLoc,
        writeLoc, regs, isrVars, line
<1>1. ASSUME NEW s \in Seq(Nat), CallWrite(s)
      PROVE  TypeInv'
  BY <1>1 DEF CallWrite
<1>2. CASE WriteSlot
  BY <1>2 DEF WriteSlot
<1>3. CASE WriteHead
  BY <1>3, IndexTypes DEF WriteHead
<1>4. CASE WriteData
  <2>1. wrBuf # <<>>
    BY <1>4 DEF WriteData
  <2>2. /\ Head(wrBuf) \in Nat /\ Tail(wrBuf) \in Seq(Nat)
        /\ Len(wrBuf) > 1 => Tail(wrBuf) # <<>>
    BY <2>1, FirstByte
  <2>3. /\ pc' = IF Len(wrBuf) > 1 THEN "wSlot" ELSE "wRts"
        /\ txBuf' = [txBuf EXCEPT ![txHead] = Head(wrBuf)]
        /\ txAcc' = Append(txAcc, Head(wrBuf))
        /\ wrBuf' = Tail(wrBuf) /\ written' = written + 1
        /\ ipc = "idle" /\ ipc' = ipc
    BY <1>4 DEF WriteData
  <2>4. /\ txBuf' \in [Slots(TxSize) -> Nat] /\ txAcc' \in Seq(Nat)
        /\ wrBuf' \in Seq(Nat) /\ written' \in Nat
    BY <2>2, <2>3
  <2>5. Busy' /\ pc' \in {"wSlot", "wRts"}
    BY <2>2, <2>3
  <2>6. TypeOK'
    BY <1>4, <2>4, <2>5 DEF WriteData
  <2>7. QED
    BY <2>5, <2>6
<1>5. CASE WriteRts
  BY <1>5 DEF WriteRts
<1>6. QED
  BY <1>1, <1>2, <1>3, <1>4, <1>5 DEF QueueStep

\* Uart_Write, that loop and the choice of the interrupt.
LEMMA DrainStepTypes ==
  ASSUME TypeInv, DrainStep \/ ArmStep
  PROVE  TypeInv'
<1> USE ConstantsAssumption
    DEF TypeInv, TypeOK, Busy, MainAt, Goto, rxRing, txRing, txPort, readLoc,
        writeLoc, regs, isrVars, line
<1>1. CASE DrainCheck
  BY <1>1 DEF DrainCheck
<1>2. CASE DrainStatus
  BY <1>2 DEF DrainStatus
<1>3. CASE DrainTailLoad
  <2>1. txTail \in Nat
    BY DEF Slots
  <2>2. QED
    BY <1>3, <2>1 DEF DrainTailLoad
<1>4. CASE DrainTailStore
  <2>1. TxNext(reg) \in Slots(TxSize)
    BY NextSlotInRing DEF TxNext
  <2>2. QED
    BY <1>4, <2>1 DEF DrainTailStore
<1>5. CASE DrainByte
  BY <1>5 DEF DrainByte
<1>6. CASE DrainReg
  BY <1>6 DEF DrainReg
<1>7. CASE ArmChoose
  BY <1>7 DEF ArmChoose
<1>8. CASE ArmLoad
  BY <1>8 DEF ArmLoad, C2Bits
<1>9. CASE ArmStore
  BY <1>9 DEF ArmStore
<1>10. QED
  BY <1>1, <1>2, <1>3, <1>4, <1>5, <1>6, <1>7, <1>8, <1>9
     DEF DrainStep, ArmStep

\* The receiving half of the handler.
LEMMA ReceiveTypes ==
  ASSUME TypeInv, IsrReceive
  PROVE  TypeInv'
<1>1. /\ rxBuf \in [Slots(RxSize) -> RxBytes]
      /\ rxHead \in Slots(RxSize) /\ rxTail \in Slots(RxSize)
      /\ rxAcc \in Seq(RxBytes)
      /\ rxD \in Seq(RxBytes) /\ Len(rxD) <= 1
      /\ "RDRF" \in status => rxD # <<>>
  BY DEF TypeInv, TypeOK, Busy, IsrReceive
<1>2. rxD' \in Seq(RxBytes) /\ Len(rxD') <= 1
  <2>1. rxD' = <<>> \/ rxD' = rxD
    BY DEF IsrReceive
  <2>2. <<>> \in Seq(RxBytes) /\ Len(<<>>) <= 1
    BY EmptySeq
  <2>3. QED
    BY <1>1, <2>1, <2>2
<1>3. /\ rxBuf' \in [Slots(RxSize) -> RxBytes]
      /\ rxHead' \in Slots(RxSize) /\ rxTail' \in Slots(RxSize)
      /\ rxAcc' \in Seq(RxBytes)
  <2>1. CASE UNCHANGED <<rxRing, rxAcc>>
    BY <1>1, <2>1 DEF rxRing
  <2>2. CASE "RDRF" \in status /\ Un_RxISR(Head(rxD))
    <3>1. Head(rxD) \in RxBytes
      BY <1>1, <2>2, FirstByte
    <3>2. RxNext(rxHead) \in Slots(RxSize)
      BY IndexTypes DEF TypeInv
    <3>3. Append(rxAcc, Head(rxD)) \in Seq(RxBytes)
      BY <1>1, <3>1, AppendProperties
    <3>4. [rxBuf EXCEPT ![RxNext(rxHead)] = Head(rxD)]
            \in [Slots(RxSize) -> RxBytes]
      BY <1>1, <3>1
    <3>5. QED
      BY <1>1, <2>2, <3>2, <3>3, <3>4 DEF Un_RxISR, rxRing
  <2>3. QED
    BY <2>1, <2>2 DEF IsrReceive
<1>4. ipc' \in {"tx", "tc"}
  BY DEF IsrReceive
<1>5. TypeOK'
  BY <1>2, <1>3, <1>4 DEF IsrReceive, TypeInv, TypeOK, txRing, txPort,
     readLoc, writeLoc, regs
<1>6. Busy'
  BY <1>4 DEF IsrReceive, TypeInv, Busy, readLoc, writeLoc
<1>7. QED
  BY <1>5, <1>6 DEF TypeInv

\* The handler reads S1.
LEMMA StatusTypes ==
  ASSUME TypeInv, IsrReadStatus
  PROVE  TypeInv'
<1>1. status' \in SUBSET {"RDRF", "TDRE", "TC"} /\ ipc' = "readD"
  BY DEF IsrReadStatus, S1
<1>2. rxD' = rxD /\ ("RDRF" \in status' => rxD' # <<>>)
  BY DEF IsrReadStatus, S1, rxRing, txRing, txPort, line
<1>3. UNCHANGED <<rxBuf, rxHead, rxTail, txBuf, txHead, txTail, bRts, c2, nvic,
                  closed, c2reg, txD, shifter, pc, reg, toRead, nRead, written,
                  peerSent, wrBuf, txAcc, wire, rxAcc, rxGot>>
  BY DEF IsrReadStatus, rxRing, txRing, txPort, readLoc, writeLoc, regs, line
<1>4. TypeOK'
  BY <1>1, <1>2, <1>3 DEF TypeInv, TypeOK
<1>5. Busy'
  BY <1>1, <1>2, <1>3 DEF TypeInv, Busy
<1>6. QED
  BY <1>4, <1>5 DEF TypeInv

\* The handler's last two steps change only C2, bRts and its own state.
LEMMA HandlerEndTypes ==
  ASSUME TypeInv, IsrTransmitEnd \/ IsrComplete
  PROVE  TypeInv'
<1>1. c2 \in SUBSET C2Bits /\ bRts \in BOOLEAN
      /\ status \in SUBSET {"RDRF", "TDRE", "TC"}
  BY DEF TypeInv, TypeOK
<1>2. c2' \in SUBSET C2Bits /\ bRts' \in BOOLEAN
  BY <1>1 DEF IsrTransmitEnd, IsrComplete, C2Bits, isrVars
<1>3. status' \in SUBSET {"RDRF", "TDRE", "TC"} /\ ipc' \in {"tc", "idle"}
  BY <1>1 DEF IsrTransmitEnd, IsrComplete
<1>4. UNCHANGED <<rxBuf, rxHead, rxTail, txBuf, txHead, txTail, nvic, closed,
                  c2reg, rxD, txD, shifter, pc, reg, toRead, nRead, written,
                  peerSent, wrBuf, txAcc, wire, rxAcc, rxGot>>
  BY DEF IsrTransmitEnd, IsrComplete, rxRing, txRing, txPort, readLoc, writeLoc,
         regs, line
<1>5. TypeOK'
  BY <1>2, <1>3, <1>4 DEF TypeInv, TypeOK
<1>6. Busy'
  BY <1>3, <1>4 DEF TypeInv, Busy
<1>7. QED
  BY <1>5, <1>6 DEF TypeInv

\* The transmitter's share of TypeOK.
TypedPort ==
  /\ txD \in Seq(Nat) /\ Len(txD) <= 1
  /\ shifter \in Seq(Nat) /\ Len(shifter) <= 1
  /\ wire \in Seq(Nat)

\* The handler feeds D.
LEMMA TransmitTypes ==
  ASSUME TypeInv, IsrTransmit
  PROVE  TypeInv'
<1>1. txTail' \in Slots(TxSize) /\ txBuf[TxNext(txTail)] \in Nat
  BY ConstantsAssumption, IndexTypes DEF IsrTransmit, TypeInv, TypeOK
<1>2. txD' = <<txBuf[TxNext(txTail)]>>
  BY DEF IsrTransmit
<1>3. txD' \in Seq(Nat) /\ Len(txD') <= 1
  BY <1>1, <1>2
<1>4. UNCHANGED <<rxBuf, rxHead, rxTail, txBuf, txHead, bRts, c2, nvic, closed,
                  c2reg, rxD, shifter, pc, reg, ipc, status, toRead, nRead,
                  written, peerSent, wrBuf, txAcc, wire, rxAcc, rxGot>>
  BY DEF IsrTransmit, rxRing, readLoc, writeLoc, regs, isrVars, line
<1>5. TypeOK'
  <2>1. txTail' \in Slots(TxSize)
    BY <1>1
  <2>2. TypedPort'
    BY <1>3, <1>4 DEF TypedPort, TypeInv, TypeOK
  <2>3. QED
    BY <1>4, <2>1, <2>2, SMTT(30) DEF TypedPort, TypeInv, TypeOK
<1>6. Busy'
  BY <1>4 DEF TypeInv, Busy
<1>7. QED
  BY <1>5, <1>6 DEF TypeInv

\* The interrupt handler.
LEMMA IsrTypes ==
  ASSUME TypeInv, Isr
  PROVE  TypeInv'
<1> USE ConstantsAssumption
    DEF TypeInv, TypeOK, Busy, MainAt, Goto, rxRing, txRing, txPort, readLoc,
        writeLoc, regs, isrVars, line
<1>1. CASE IsrReadStatus
  BY <1>1, StatusTypes
<1>2. CASE IsrReceive
  BY <1>2, ReceiveTypes
<1>3. CASE IsrTransmit
  BY <1>3, TransmitTypes
<1>4. CASE IsrTransmitEnd
  BY <1>4, HandlerEndTypes
<1>5. CASE IsrComplete
  BY <1>5, HandlerEndTypes
<1>6. QED
  BY <1>1, <1>2, <1>3, <1>4, <1>5 DEF Isr

\* A byte arrives.
LEMMA ArrivalTypes ==
  ASSUME TypeInv, PeerSends
  PROVE  TypeInv'
<1>1. peerSent + 1 \in 0..MaxRx /\ peerSent' = peerSent + 1
  BY ConstantsAssumption DEF TypeInv, TypeOK, PeerSends
<1>2. rxD \in Seq(RxBytes) /\ Len(rxD) <= 1
  BY DEF TypeInv, TypeOK
<1>3. CASE rxD = <<>>
  <2>1. rxD' = <<peerSent + 1>>
    BY <1>3 DEF PeerSends
  <2>2. rxD' \in Seq(RxBytes) /\ Len(rxD') <= 1 /\ rxD' # <<>>
    BY <1>1, <2>1 DEF RxBytes
  <2>3. TypeOK'
    BY <1>1, <2>2 DEF PeerSends, TypeInv, TypeOK, rxRing, txRing, txPort,
       readLoc, writeLoc, regs, isrVars
  <2>4. Busy'
    BY <2>2 DEF PeerSends, TypeInv, Busy, readLoc, writeLoc, isrVars
  <2>5. QED
    BY <2>3, <2>4 DEF TypeInv
<1>4. CASE rxD # <<>>
  <2>1. rxD' = rxD
    BY <1>4 DEF PeerSends
  <2>2. UNCHANGED <<rxBuf, rxHead, rxTail, txBuf, txHead, txTail, bRts, c2,
                    nvic, closed, c2reg, txD, shifter, pc, reg, ipc, status,
                    toRead, nRead, written, wrBuf, txAcc, wire, rxAcc, rxGot>>
    BY DEF PeerSends, rxRing, txRing, txPort, readLoc, writeLoc, regs, isrVars
  <2>3. TypeOK'
    BY <1>1, <2>1, <2>2 DEF TypeInv, TypeOK
  <2>4. Busy'
    BY <2>1, <2>2 DEF TypeInv, Busy
  <2>5. QED
    BY <2>3, <2>4 DEF TypeInv
<1>5. QED
  BY <1>3, <1>4

\* The peripheral.
LEMMA PeripheralTypes ==
  ASSUME TypeInv, Peripheral
  PROVE  TypeInv'
<1>1. CASE PeerSends
  BY <1>1, ArrivalTypes
<1>2. CASE ShiftLoad \/ ShiftDone
  <2>1. /\ txD \in Seq(Nat) /\ Len(txD) <= 1
        /\ shifter \in Seq(Nat) /\ Len(shifter) <= 1 /\ wire \in Seq(Nat)
    BY DEF TypeInv, TypeOK
  <2>2. ASSUME ShiftLoad PROVE TypedPort'
    <3>1. txD' = <<>> /\ shifter' = txD /\ wire' = wire
      BY <2>2 DEF ShiftLoad
    <3>2. QED
      BY <2>1, <3>1, EmptySeq DEF TypedPort
  <2>3. ASSUME ShiftDone PROVE TypedPort'
    <3>1. txD' = txD /\ shifter' = <<>> /\ wire' = wire \o shifter
      BY <2>3 DEF ShiftDone
    <3>2. wire \o shifter \in Seq(Nat)
      BY <2>1
    <3>3. QED
      BY <2>1, <3>1, <3>2, EmptySeq DEF TypedPort
  <2>4. TypedPort'
    BY <1>2, <2>2, <2>3
  <2>5. UNCHANGED <<rxBuf, rxHead, rxTail, txBuf, txHead, txTail, bRts, c2,
                    nvic, closed, c2reg, rxD, pc, reg, ipc, status, toRead,
                    nRead, written, peerSent, wrBuf, txAcc, rxAcc, rxGot>>
    BY <1>2 DEF ShiftLoad, ShiftDone, rxRing, txRing, readLoc, writeLoc, regs,
                isrVars, line
  <2>6. TypeOK'
    BY <2>4, <2>5, SMTT(30) DEF TypedPort, TypeInv, TypeOK
  <2>7. Busy'
    BY <2>5 DEF TypeInv, Busy
  <2>8. QED
    BY <2>6, <2>7 DEF TypeInv
<1>3. QED
  BY <1>1, <1>2 DEF Peripheral

\* No step of main, the handler or the peripheral breaks a type.
LEMMA NextTypes == TypeInv /\ [Next]_vars => TypeInv'
<1> SUFFICES ASSUME TypeInv, [Next]_vars
             PROVE  TypeInv'
  OBVIOUS
<1>1. CASE DriverStep \/ Isr \/ Peripheral
  BY <1>1, InitStepTypes, ReadStepTypes, QueueStepTypes, DrainStepTypes,
     IsrTypes, PeripheralTypes
     DEF DriverStep, WriteStep
<1>2. CASE Client
  <2>1. ASSUME NEW n \in ReadSizes, CallRead(n) PROVE TypeInv'
    <3>1. n \in Nat
      BY ConstantsAssumption
    <3>2. QED
      BY <2>1, <3>1, ReadStepTypes
  <2>2. ASSUME NEW n \in WriteSizes, CallWrite(NumberedBytes(n)) PROVE TypeInv'
    <3>1. txAcc \in Seq(Nat) /\ n \in Nat
      BY ConstantsAssumption DEF TypeInv, TypeOK
    <3>2. NumberedBytes(n) \in Seq(Nat)
      BY <3>1 DEF NumberedBytes
    <3>3. QED
      BY <2>2, <3>2, QueueStepTypes
  <2>3. QED
    BY <1>2, <2>1, <2>2, InitStepTypes DEF Client
<1>3. CASE UNCHANGED vars
  <2>1. UNCHANGED <<rxBuf, rxHead, rxTail, txBuf, txHead, txTail, bRts, c2,
                    nvic, closed, c2reg, rxD, txD, shifter, pc, reg, ipc,
                    status, toRead, nRead, written, peerSent, wrBuf, txAcc,
                    wire, rxAcc, rxGot>>
    BY <1>3 DEF vars, rxRing, txRing, txPort, readLoc, writeLoc, regs, isrVars,
                line
  <2>2. TypeOK'
    BY <2>1 DEF TypeInv, TypeOK
  <2>3. Busy'
    BY <2>1 DEF TypeInv, Busy
  <2>4. QED
    BY <2>2, <2>3 DEF TypeInv
<1>4. QED
  BY <1>1, <1>2, <1>3 DEF Next

\* Every reachable state is of the right type, whatever the sizes of the rings:
\* no index ever leaves its buffer and no register ever holds two bytes.
THEOREM Typing == Spec => []TypeInv
<1>1. QED
  BY InitTypes, NextTypes, PTL DEF Spec

\* TypeOK itself: every index stays inside its buffer (the masks of Uart_Read,
\* Uart_Write and the two ISR helpers) for rings of any size.
THEOREM TypeCorrect == Spec => []TypeOK
<1>1. TypeInv => TypeOK
  BY DEF TypeInv
<1>2. QED
  BY Typing, <1>1, PTL

-----------------------------------------------------------------------------
(***************************************************************************)
(* The receive ring.  Two facts make RxRingHoldsTheRest inductive: while   *)
(* main is about to advance the tail the ring is not empty (the handler    *)
(* can only add to it), and until Uart_Init has finished the tail is still *)
(* the zero it is going to be set to.                                      *)
(***************************************************************************)
RxInv ==
  /\ RxRingHoldsTheRest
  /\ pc = "rTail" => rxHead # rxTail
  /\ ~Ready => rxTail = 0

\* The receive ring starts empty, with nothing accepted.
LEMMA InitRx == Init => RxInv
BY ConstantsAssumption
   DEF Init, RxInv, RxRingHoldsTheRest, InHand, Ready, RxWaiting, Waiting

\* The steps that leave the ring and its histories alone and do not carry main
\* to or from the place where it holds a byte.
RxQuiet ==
  /\ UNCHANGED <<rxBuf, rxHead, rxTail, rxAcc, rxGot>>
  /\ (pc # "rCopy" /\ pc' # "rCopy") \/ pc' = pc
  /\ pc' = "rTail" => rxHead # rxTail \/ pc' = pc
  /\ Ready' <=> Ready

\* A step that leaves the receive ring alone preserves the invariant.
LEMMA QuietKeepsRx == RxInv /\ RxQuiet => RxInv'
BY DEF RxInv, RxQuiet, RxRingHoldsTheRest, InHand, Ready, RxWaiting

\* All of Uart_Write, the rest of the handler and the peripheral are such steps.
LEMMA QuietSteps ==
  ASSUME \/ InitRegisters \/ Uart_DeInit \/ DeInitStore
         \/ \E n : CallRead(n)
         \/ \E s : CallWrite(s)
         \/ ReadCheck \/ WriteStep
         \/ IsrReadStatus \/ IsrTransmit \/ IsrTransmitEnd \/ IsrComplete
         \/ Peripheral \/ UNCHANGED vars
  PROVE  RxQuiet
<1> USE DEF RxQuiet, Ready, MainAt, Goto, rxRing, readLoc
<1>1. CASE InitRegisters \/ Uart_DeInit \/ DeInitStore
  BY <1>1 DEF InitRegisters, Uart_DeInit, DeInitStore
<1>2. CASE (\E n : CallRead(n)) \/ ReadCheck
  BY <1>2 DEF CallRead, ReadCheck
<1>3. CASE \E s : CallWrite(s)
  BY <1>3 DEF CallWrite
<1>4. CASE QueueStep
  BY <1>4 DEF QueueStep, WriteSlot, WriteHead, WriteData, WriteRts
<1>5. CASE DrainStep
  BY <1>5 DEF DrainStep, DrainCheck, DrainStatus, DrainTailLoad,
              DrainTailStore, DrainByte, DrainReg
<1>6. CASE ArmStep
  BY <1>6 DEF ArmStep, ArmChoose, ArmLoad, ArmStore
<1>7. CASE IsrReadStatus \/ IsrTransmit \/ IsrTransmitEnd \/ IsrComplete
  BY <1>7 DEF IsrReadStatus, IsrTransmit, IsrTransmitEnd, IsrComplete
<1>8. CASE Peripheral
  BY <1>8 DEF Peripheral, PeerSends, ShiftLoad, ShiftDone
<1>9. CASE UNCHANGED vars
  BY <1>9 DEF vars
<1>10. QED
  BY <1>1, <1>2, <1>3, <1>4, <1>5, <1>6, <1>7, <1>8, <1>9 DEF WriteStep

\* The rest of the steps of Next.
LEMMA RxCases ==
  ASSUME [Next]_vars
  PROVE  \/ RxQuiet \/ InitTails \/ InitHeads
         \/ ReadTail \/ ReadCopy \/ IsrReceive
BY QuietSteps DEF Next, DriverStep, InitStep, ReadStep, Client, Isr

\* Uart_Init resets the indices: the ring is empty and nothing is owed.
LEMMA ResetKeepsRx ==
  ASSUME TypeInv, RxInv, InitTails \/ InitHeads
  PROVE  RxInv'
<1> USE DEF RxInv, RxRingHoldsTheRest, InHand, Ready, MainAt, Goto
<1>1. CASE InitTails
  <2>1. /\ rxTail' = 0 /\ rxTail = 0 /\ pc' = "bootHeads" /\ pc = "bootTails"
        /\ UNCHANGED <<rxBuf, rxHead, rxAcc, rxGot>>
    BY <1>1 DEF InitTails, readLoc
  <2>2. QED
    BY <2>1 DEF RxWaiting
<1>2. CASE InitHeads
  <2>1. /\ rxHead' = 0 /\ rxTail' = 0 /\ rxAcc' = rxGot' /\ pc' = "app"
    BY <1>2 DEF InitHeads, readLoc
  <2>2. RxWaiting' = 0
    BY <2>1 DEF RxWaiting, Waiting
  <2>3. Len(rxGot') \in Nat
    BY <1>2, LenProperties DEF InitHeads, TypeInv, TypeOK, readLoc
  <2>4. QED
    BY <2>1, <2>2, <2>3
<1>3. QED
  BY <1>1, <1>2

\* What the other steps rely on, gathered from the type invariant.
LEMMA RxFacts ==
  ASSUME TypeInv
  PROVE  /\ RxSize \in Nat /\ RxSize > 1
         /\ rxHead \in Slots(RxSize) /\ rxTail \in Slots(RxSize)
         /\ rxBuf \in [Slots(RxSize) -> RxBytes]
         /\ rxAcc \in Seq(RxBytes) /\ rxGot \in Seq(RxBytes)
         /\ Len(rxAcc) \in Nat /\ Len(rxGot) \in Nat
         /\ RxWaiting \in 0 .. RxSize - 1
         /\ InHand \in 0..1
<1>1. /\ rxHead \in Slots(RxSize) /\ rxTail \in Slots(RxSize)
      /\ rxBuf \in [Slots(RxSize) -> RxBytes]
      /\ rxAcc \in Seq(RxBytes) /\ rxGot \in Seq(RxBytes)
  BY DEF TypeInv, TypeOK
<1>2. RxSize \in Nat /\ RxSize > 1
  BY ConstantsAssumption
<1>3. RxWaiting \in 0 .. RxSize - 1
  BY <1>1, <1>2, WaitingBounds DEF RxWaiting
<1>4. Len(rxAcc) \in Nat /\ Len(rxGot) \in Nat
  BY <1>1, LenProperties
<1>5. QED
  BY <1>1, <1>2, <1>3, <1>4 DEF InHand

\* Uart_Read gives a slot back: its byte is now the one in hand.
LEMMA ReadTailKeepsRx ==
  ASSUME TypeInv, RxInv, ReadTail
  PROVE  RxInv'
<1>1. /\ rxTail' = NextSlot(rxTail, RxSize)
      /\ pc = "rTail" /\ pc' = "rCopy"
      /\ UNCHANGED <<rxBuf, rxHead, rxAcc, rxGot>>
  BY DEF ReadTail, MainAt, Goto, RxNext, readLoc
<1>2. rxHead # rxTail /\ InHand = 0 /\ InHand' = 1
  BY <1>1 DEF RxInv, InHand
<1>3. /\ RxWaiting' = RxWaiting - 1
      /\ rxTail' = SlotAfter(rxTail, 1, RxSize)
      /\ \A k \in 1 .. RxWaiting - 1 :
            SlotAfter(rxTail', k, RxSize) = SlotAfter(rxTail, k + 1, RxSize)
  BY <1>1, <1>2, RxFacts, GetFromRing DEF RxWaiting
<1>4. Len(rxAcc') = Len(rxGot') + InHand' + RxWaiting'
  BY <1>1, <1>2, <1>3, RxFacts DEF RxInv, RxRingHoldsTheRest
<1>5. RxWaiting > 0
  BY <1>2, RxFacts, WaitingBounds DEF RxWaiting
<1>6. rxBuf'[rxTail'] = rxAcc'[Len(rxGot') + 1]
  BY <1>1, <1>2, <1>3, <1>5, RxFacts DEF RxInv, RxRingHoldsTheRest
<1>7. ASSUME NEW k \in 1 .. RxWaiting'
      PROVE  rxBuf'[SlotAfter(rxTail', k, RxSize)]
               = rxAcc'[Len(rxGot') + InHand' + k]
  <2>1. k \in 1 .. RxWaiting - 1 /\ k + 1 \in 1 .. RxWaiting
    BY <1>3, RxFacts
  <2>2. rxBuf[SlotAfter(rxTail, k + 1, RxSize)] = rxAcc[Len(rxGot) + (k + 1)]
    BY <1>2, <2>1, RxFacts DEF RxInv, RxRingHoldsTheRest
  <2>3. Len(rxGot) + 1 + k = Len(rxGot) + (k + 1)
    BY <2>1, RxFacts
  <2>4. QED
    BY <1>1, <1>2, <1>3, <2>1, <2>2, <2>3
<1>8. QED
  BY <1>1, <1>4, <1>6, <1>7 DEF RxInv, RxRingHoldsTheRest, Ready

\* Uart_Read copies the byte in hand.
LEMMA ReadCopyKeepsRx ==
  ASSUME TypeInv, RxInv, ReadCopy
  PROVE  RxInv'
<1>1. /\ pc = "rCopy" /\ pc' = "rCheck"
      /\ rxGot' = Append(rxGot, rxBuf[rxTail])
      /\ UNCHANGED <<rxBuf, rxHead, rxTail, rxAcc>>
  BY DEF ReadCopy, MainAt, Goto, rxRing
<1>2. InHand = 1 /\ InHand' = 0 /\ RxWaiting' = RxWaiting
  BY <1>1 DEF InHand, RxWaiting
<1>3. rxBuf[rxTail] \in RxBytes
  BY RxFacts
<1>4. Len(rxGot') = Len(rxGot) + 1
  BY <1>1, <1>3, RxFacts, AppendProperties
<1>5. Len(rxAcc') = Len(rxGot') + InHand' + RxWaiting'
  BY <1>1, <1>2, <1>4, RxFacts DEF RxInv, RxRingHoldsTheRest
<1>6. ASSUME NEW k \in 1 .. RxWaiting'
      PROVE  rxBuf'[SlotAfter(rxTail', k, RxSize)]
               = rxAcc'[Len(rxGot') + InHand' + k]
  <2>1. rxBuf[SlotAfter(rxTail, k, RxSize)] = rxAcc[Len(rxGot) + InHand + k]
    BY <1>2 DEF RxInv, RxRingHoldsTheRest
  <2>2. Len(rxGot') + InHand' + k = Len(rxGot) + InHand + k
    BY <1>2, <1>4, RxFacts
  <2>3. QED
    BY <1>1, <2>1, <2>2
<1>7. QED
  BY <1>1, <1>5, <1>6 DEF RxInv, RxRingHoldsTheRest, Ready

\* The handler stores a byte: not over one that waits, and not over the one in
\* hand.
LEMMA AcceptKeepsRx ==
  ASSUME TypeInv, RxInv, NEW data \in RxBytes,
         rxTail # NextSlot(rxHead, RxSize),
         rxHead' = NextSlot(rxHead, RxSize), rxTail' = rxTail,
         rxBuf' = [rxBuf EXCEPT ![NextSlot(rxHead, RxSize)] = data],
         rxAcc' = Append(rxAcc, data),
         UNCHANGED <<rxGot, pc>>
  PROVE  RxInv'
<1>1. /\ RxWaiting' = RxWaiting + 1
      /\ NextSlot(rxHead, RxSize) = SlotAfter(rxTail, RxWaiting + 1, RxSize)
      /\ \A k \in 1 .. RxWaiting :
            SlotAfter(rxTail, k, RxSize) # NextSlot(rxHead, RxSize)
  BY RxFacts, PutInRing DEF RxWaiting
<1>2. InHand' = InHand
  BY DEF InHand
<1>3. /\ Len(rxAcc') = Len(rxAcc) + 1
      /\ \A i \in 1 .. Len(rxAcc) : rxAcc'[i] = rxAcc[i]
      /\ rxAcc'[Len(rxAcc) + 1] = data
  BY RxFacts, AppendProperties
<1>4. Len(rxAcc) = Len(rxGot) + InHand + RxWaiting
  BY DEF RxInv, RxRingHoldsTheRest
<1>5. Len(rxAcc') = Len(rxGot') + InHand' + RxWaiting'
  BY <1>1, <1>2, <1>3, <1>4, RxFacts
<1>6. pc' = "rCopy" => rxBuf'[rxTail'] = rxAcc'[Len(rxGot') + 1]
  <2>1. SUFFICES ASSUME pc = "rCopy"
                 PROVE  rxBuf'[rxTail'] = rxAcc'[Len(rxGot') + 1]
    OBVIOUS
  <2>2. rxBuf[rxTail] = rxAcc[Len(rxGot) + 1] /\ InHand = 1
    BY <2>1 DEF RxInv, RxRingHoldsTheRest, InHand
  <2>3. Len(rxGot) + 1 \in 1 .. Len(rxAcc)
    BY <1>4, <2>2, RxFacts
  <2>4. QED
    BY <1>3, <2>2, <2>3, RxFacts
<1>7. ASSUME NEW k \in 1 .. RxWaiting'
      PROVE  rxBuf'[SlotAfter(rxTail', k, RxSize)]
               = rxAcc'[Len(rxGot') + InHand' + k]
  <2>0. /\ Len(rxGot) \in Nat /\ InHand \in Nat /\ RxWaiting \in Nat
        /\ Len(rxGot') = Len(rxGot)
    BY RxFacts
  <2>1. CASE k = RxWaiting + 1
    <3>1. Len(rxGot') + InHand' + k = Len(rxAcc) + 1
      BY <1>2, <1>4, <2>0, <2>1
    <3>2. NextSlot(rxHead, RxSize) \in Slots(RxSize)
      BY IndexTypes DEF TypeInv, RxNext
    <3>3. QED
      BY <1>1, <1>3, <2>1, <3>1, <3>2, RxFacts
  <2>2. CASE k \in 1 .. RxWaiting
    <3>1. rxBuf[SlotAfter(rxTail, k, RxSize)] = rxAcc[Len(rxGot) + InHand + k]
      BY <2>2 DEF RxInv, RxRingHoldsTheRest
    <3>2. Len(rxGot) + InHand + k \in 1 .. Len(rxAcc)
      BY <1>4, <2>2, RxFacts
    <3>3. SlotAfter(rxTail, k, RxSize) \in Slots(RxSize)
      BY <2>2, RxFacts, WaitingBounds
    <3>4. QED
      BY <1>1, <1>2, <1>3, <2>2, <3>1, <3>2, <3>3, RxFacts
  <2>3. k \in 1 .. RxWaiting \/ k = RxWaiting + 1
    BY <1>1, <2>0
  <2>4. QED
    BY <2>1, <2>2, <2>3
<1>8. pc' = "rTail" => rxHead' # rxTail'
  OBVIOUS
<1>9. QED
  BY <1>5, <1>6, <1>7, <1>8 DEF RxInv, RxRingHoldsTheRest, Ready

\* What the receiving half of the handler does to the ring.
LEMMA ReceiveCases ==
  ASSUME TypeInv, IsrReceive
  PROVE  \/ UNCHANGED <<rxBuf, rxHead, rxTail, rxAcc, rxGot, pc>>
         \/ \E data \in RxBytes :
              /\ rxTail # NextSlot(rxHead, RxSize)
              /\ rxHead' = NextSlot(rxHead, RxSize) /\ rxTail' = rxTail
              /\ rxBuf' = [rxBuf EXCEPT ![NextSlot(rxHead, RxSize)] = data]
              /\ rxAcc' = Append(rxAcc, data)
              /\ UNCHANGED <<rxGot, pc>>
<1>1. UNCHANGED <<rxGot, pc>>
  BY DEF IsrReceive, readLoc
<1>2. CASE UNCHANGED <<rxRing, rxAcc>>
  BY <1>1, <1>2 DEF rxRing
<1>3. CASE "RDRF" \in status /\ Un_RxISR(Head(rxD))
  <2>1. rxD \in Seq(RxBytes) /\ rxD # <<>>
    BY <1>3 DEF IsrReceive, TypeInv, TypeOK, Busy
  <2>2. Head(rxD) \in RxBytes
    BY <2>1, FirstByte
  <2>3. QED
    BY <1>1, <1>3, <2>2 DEF Un_RxISR, RxNext, rxRing
<1>4. QED
  BY <1>2, <1>3 DEF IsrReceive

\* The invariant of the receive ring is inductive.
LEMMA NextRx == TypeInv /\ RxInv /\ [Next]_vars => RxInv'
<1> SUFFICES ASSUME TypeInv, RxInv, [Next]_vars
             PROVE  RxInv'
  OBVIOUS
<1>1. CASE RxQuiet
  BY <1>1, QuietKeepsRx
<1>2. CASE InitTails \/ InitHeads
  BY <1>2, ResetKeepsRx
<1>3. CASE ReadTail
  BY <1>3, ReadTailKeepsRx
<1>4. CASE ReadCopy
  BY <1>4, ReadCopyKeepsRx
<1>5. CASE IsrReceive
  <2>1. CASE UNCHANGED <<rxBuf, rxHead, rxTail, rxAcc, rxGot, pc>>
    BY <2>1, QuietKeepsRx DEF RxQuiet, Ready
  <2>2. QED
    BY <1>5, <2>1, ReceiveCases, AcceptKeepsRx
<1>6. QED
  BY <1>1, <1>2, <1>3, <1>4, <1>5, RxCases

\* The strengthened invariant of the receive ring holds whatever main, the
\* handler and the peer do, and in whatever order.
THEOREM RxInvariant == Spec => []RxInv
<1>1. QED
  BY InitTypes, NextTypes, InitRx, NextRx, PTL DEF Spec

\* The receive ring holds, in order, exactly the bytes accepted and not yet
\* read, and the handler never overwrites the byte Uart_Read is copying.
THEOREM RxRingCorrect == Spec => []RxRingHoldsTheRest
<1>1. RxInv => RxRingHoldsTheRest
  BY DEF RxInv
<1>2. QED
  BY RxInvariant, <1>1, PTL

\* A poll on the level never misses a byte, if the level is at least as wide
\* as the indices (8 bits for rings of 128).
THEOREM LevelCorrect ==
  ASSUME LevelMod >= RxSize
  PROVE  Spec => []LevelMissesNothing
<1>1. TypeInv => LevelMissesNothing
  <2>1. SUFFICES ASSUME TypeInv PROVE LevelMissesNothing
    OBVIOUS
  <2>2. /\ rxHead \in 0 .. RxSize - 1 /\ rxTail \in 0 .. RxSize - 1
        /\ RxSize \in Nat /\ LevelMod \in Nat /\ LevelMod >= RxSize
    BY <2>1, RxFacts, ConstantsAssumption DEF Slots
  <2>3. CASE rxHead >= rxTail
    <3>1. rxHead - rxTail \in 0 .. LevelMod - 1
      BY <2>2, <2>3
    <3>2. (rxHead - rxTail) % LevelMod = rxHead - rxTail
      BY <2>2, <3>1
    <3>3. QED
      BY <2>2, <2>3, <3>2 DEF LevelMissesNothing, RxQueueLevel, RxWaiting, Waiting
  <2>4. CASE rxHead < rxTail
    <3>1. rxHead - rxTail + LevelMod \in 0 .. LevelMod - 1
      BY <2>2, <2>4
    <3>2. (rxHead - rxTail) % LevelMod = rxHead - rxTail + LevelMod
      BY <2>2, <3>1
    <3>3. QED
      BY <2>2, <2>4, <3>2 DEF LevelMissesNothing, RxQueueLevel, RxWaiting, Waiting
  <2>5. QED
    BY <2>2, <2>3, <2>4
<1>2. QED
  BY Typing, <1>1, PTL

-----------------------------------------------------------------------------
(***************************************************************************)
(* The receiver implements ByteFifo: accepting is Put, the copy in         *)
(* Uart_Read is Get, the end of Uart_Init is Open, every other step a      *)
(* stutter.                                                                *)
(***************************************************************************)
LEMMA InitIsFifoInit == Init => RxFifo!FifoInit
BY DEF Init, RxFifo!FifoInit, Ready

\* Every step of the driver is a step of the queue or leaves it unchanged.
LEMMA StepIsFifoStep ==
  ASSUME TypeInv, RxInv, [Next]_vars
  PROVE  [RxFifo!FifoNext]_(RxFifo!fifoVars)
<1> USE DEF RxFifo!fifoVars, RxFifo!FifoNext
<1>1. CASE RxQuiet
  BY <1>1 DEF RxQuiet, Ready
<1>2. CASE InitTails
  BY <1>2 DEF InitTails, MainAt, Goto, Ready, readLoc
<1>3. CASE InitHeads
  BY <1>3 DEF InitHeads, MainAt, Goto, Ready, readLoc, RxFifo!Open
<1>4. CASE ReadTail
  BY <1>4 DEF ReadTail, MainAt, Goto, Ready, readLoc
<1>5. CASE ReadCopy
  <2>1. /\ rxGot' = Append(rxGot, rxAcc[Len(rxGot) + 1])
        /\ UNCHANGED <<rxAcc, Ready>>
        /\ InHand = 1
    BY <1>5 DEF ReadCopy, MainAt, Goto, Ready, InHand, RxInv, RxRingHoldsTheRest
  <2>2. Len(rxGot) < Len(rxAcc)
    BY <2>1, RxFacts DEF RxInv, RxRingHoldsTheRest
  <2>3. QED
    BY <2>1, <2>2 DEF RxFifo!Get
<1>6. CASE IsrReceive
  <2>1. CASE UNCHANGED <<rxBuf, rxHead, rxTail, rxAcc, rxGot, pc>>
    BY <2>1 DEF Ready
  <2>2. ASSUME NEW data \in RxBytes,
               rxTail # NextSlot(rxHead, RxSize),
               rxAcc' = Append(rxAcc, data),
               UNCHANGED <<rxGot, pc>>
        PROVE  RxFifo!Put
    <3>1. RxWaiting # RxSize - 1
      BY <2>2, RxFacts, FullRing DEF RxWaiting
    <3>2. Len(rxAcc) - Len(rxGot) < RxSize
      BY <3>1, RxFacts DEF RxInv, RxRingHoldsTheRest
    <3>3. QED
      BY <2>2, <3>2 DEF RxFifo!Put, Ready
  <2>3. QED
    BY <1>6, <2>1, <2>2, ReceiveCases
<1>7. QED
  BY <1>1, <1>2, <1>3, <1>4, <1>5, <1>6, RxCases

\* From Un_RxISR to lpBuffer the driver is a first-in first-out queue that
\* never holds more than RxSize bytes: Uart_Read and the handler, interleaved in
\* any way, lose, repeat and reorder nothing that was accepted.
THEOREM ReceiverImplementsFifo == Spec => RxIsFifo
<1>1. TypeInv /\ RxInv /\ [Next]_vars => [RxFifo!FifoNext]_(RxFifo!fifoVars)
  BY StepIsFifoStep
<1>2. QED
  BY <1>1, InitIsFifoInit, Typing, RxInvariant, PTL
     DEF Spec, RxIsFifo, RxFifo!FifoSpec

-----------------------------------------------------------------------------
(***************************************************************************)
(* The handler refuses a byte only when the ring is full.  It must find the *)
(* receive interrupt enabled whenever it runs, although main stores to C2   *)
(* a value it loaded earlier.                                               *)
(***************************************************************************)
RieInv ==
  /\ pc # "boot" => "RIE" \in c2
  /\ nvic \/ ipc # "idle" => pc # "boot"
  /\ pc \in {"armStore", "closing"} => "RIE" \in c2reg

\* Nothing is enabled at power-up.
LEMMA InitRie == Init => RieInv
BY DEF Init, RieInv

\* No step of main or the handler takes the receive interrupt away, a late
\* store of Uart_Write to C2 included.
LEMMA NextRie == RieInv /\ [Next]_vars => RieInv'
<1> SUFFICES ASSUME RieInv, [Next]_vars
             PROVE  RieInv'
  OBVIOUS
<1> USE DEF RieInv, MainAt, Goto, isrVars, regs
<1>1. CASE InitStep
  BY <1>1 DEF InitStep, InitRegisters, InitTails, InitHeads
<1>2. CASE ReadStep
  BY <1>2 DEF ReadStep, ReadCheck, ReadTail, ReadCopy
<1>3. CASE QueueStep
  BY <1>3 DEF QueueStep, WriteSlot, WriteHead, WriteData, WriteRts
<1>4. CASE DrainStep
  BY <1>4 DEF DrainStep, DrainCheck, DrainStatus, DrainTailLoad,
              DrainTailStore, DrainByte, DrainReg
<1>5. CASE ArmStep \/ DeInitStore
  BY <1>5 DEF ArmStep, ArmChoose, ArmLoad, ArmStore, DeInitStore
<1>6. CASE Client
  BY <1>6 DEF Client, CallRead, CallWrite, Uart_DeInit
<1>7. CASE Isr
  BY <1>7 DEF Isr, IsrReadStatus, IsrReceive, IsrTransmit, IsrTransmitEnd,
              IsrComplete, Irq
<1>8. CASE Peripheral
  BY <1>8 DEF Peripheral, PeerSends, ShiftLoad, ShiftDone
<1>9. CASE UNCHANGED vars
  BY <1>9 DEF vars
<1>10. QED
  BY <1>1, <1>2, <1>3, <1>4, <1>5, <1>6, <1>7, <1>8, <1>9
     DEF Next, DriverStep, WriteStep

\* The only step that ends the reading of D is IsrReceive.
LEMMA EndOfReading ==
  ASSUME [Next]_vars, ipc = "readD", ipc' # "readD"
  PROVE  IsrReceive
<1> USE DEF MainAt, Goto, isrVars
<1>1. ~DriverStep
  BY DEF DriverStep, InitStep, ReadStep, WriteStep, QueueStep, DrainStep,
         ArmStep, InitRegisters, InitTails, InitHeads, ReadCheck, ReadTail,
         ReadCopy, WriteSlot, WriteHead, WriteData, WriteRts, DrainCheck,
         DrainStatus, DrainTailLoad, DrainTailStore, DrainByte, DrainReg,
         ArmChoose, ArmLoad, ArmStore, DeInitStore
<1>2. ~Client
  BY DEF Client, CallRead, CallWrite, Uart_DeInit
<1>3. ~Peripheral
  BY DEF Peripheral, PeerSends, ShiftLoad, ShiftDone
<1>4. ~UNCHANGED vars
  BY DEF vars
<1>5. QED
  BY <1>1, <1>2, <1>3, <1>4
     DEF Next, Isr, IsrReadStatus, IsrTransmit, IsrTransmitEnd, IsrComplete

\* A byte the handler found in D is refused only when RxSize - 1 bytes wait:
\* no interleaving with Uart_Read, Uart_Write or Uart_Init makes it lose one
\* for another reason.
THEOREM DropsOnlyWhenFull == Spec => RxDropsOnlyWhenFull
<1>1. ASSUME TypeInv, RieInv, [Next]_vars,
             ipc = "readD", ipc' # "readD", "RDRF" \in status
      PROVE  rxAcc' # rxAcc \/ RxWaiting = RxSize - 1
  <2>1. Un_RxISR(Head(rxD))
    BY <1>1, EndOfReading DEF IsrReceive, RieInv
  <2>2. CASE rxTail = NextSlot(rxHead, RxSize)
    BY <1>1, <2>2, RxFacts, FullRing DEF RxWaiting
  <2>3. CASE rxTail # NextSlot(rxHead, RxSize)
    <3>1. rxAcc' = Append(rxAcc, Head(rxD))
      BY <2>1, <2>3 DEF Un_RxISR, RxNext
    <3>2. Len(rxAcc') # Len(rxAcc)
      BY <3>1, <1>1 DEF TypeInv, TypeOK
    <3>3. QED
      BY <3>2
  <2>4. QED
    BY <2>2, <2>3
<1>2. TypeInv /\ RieInv /\ [Next]_vars =>
        [ipc = "readD" /\ ipc' # "readD" /\ "RDRF" \in status
           => rxAcc' # rxAcc \/ RxWaiting = RxSize - 1]_vars
  BY <1>1
<1>3. QED
  BY <1>2, InitRie, NextRie, Typing, PTL DEF Spec, RxDropsOnlyWhenFull

-----------------------------------------------------------------------------
(***************************************************************************)
(* Who feeds the data register, for a client that does not write while a   *)
(* transmission is going on: main while Uart_Write runs, with both         *)
(* transmit interrupts off, and the handler from then on.                  *)
(***************************************************************************)
BootAt  == {"boot", "bootTails", "bootHeads"}
WriteAt == {"wSlot", "wHead", "wData", "wRts", "dCheck", "dStatus", "dTail",
            "dTailStore", "dByte", "dReg", "wArm", "armTIE", "armTCIE", "armStore"}

ArmInv ==
  /\ pc \in BootAt \cup WriteAt =>
       "TIE" \notin c2 /\ "TCIE" \notin c2 /\ ipc # "tx"
  /\ pc \in BootAt => txHead = 0 /\ txTail = 0
  /\ pc \notin WriteAt /\ txHead # txTail => "TIE" \in c2
  /\ "TCIE" \in c2 => txHead = txTail
  /\ pc = "armTIE" => txHead # txTail
  /\ pc = "armTCIE" => txHead = txTail
  /\ pc \in {"armStore", "closing"} /\ txHead # txTail =>
       "TIE" \in c2reg /\ "TCIE" \notin c2reg

\* At power-up the ring is empty and nothing is enabled.
LEMMA InitArm == Init => ArmInv
BY DEF Init, ArmInv, BootAt, WriteAt

\* The steps of main.
LEMMA MainArm ==
  ASSUME ~Overlap, TypeInv, ArmInv, DriverStep \/ Client
  PROVE  ArmInv'
<1> USE DEF ArmInv, BootAt, WriteAt, MainAt, Goto, isrVars, txRing, regs
<1>1. CASE InitStep
  BY <1>1 DEF InitStep, InitRegisters, InitTails, InitHeads
<1>2. CASE ReadStep
  BY <1>2 DEF ReadStep, ReadCheck, ReadTail, ReadCopy
<1>3. CASE QueueStep
  BY <1>3 DEF QueueStep, WriteSlot, WriteHead, WriteData, WriteRts
<1>4. CASE DrainStep
  BY <1>4 DEF DrainStep, DrainCheck, DrainStatus, DrainTailLoad,
              DrainTailStore, DrainByte, DrainReg
<1>5. CASE ArmStep \/ DeInitStore
  BY <1>5 DEF ArmStep, ArmChoose, ArmLoad, ArmStore, DeInitStore
<1>6. ASSUME NEW s, CallWrite(s), TxQuiet
      PROVE  ArmInv'
  BY <1>6 DEF CallWrite, TxQuiet
<1>7. CASE (\E n \in ReadSizes : CallRead(n)) \/ Uart_DeInit
  BY <1>7 DEF CallRead, Uart_DeInit
<1>8. QED
  BY <1>1, <1>2, <1>3, <1>4, <1>5, <1>6, <1>7 DEF DriverStep, WriteStep, Client

\* The handler and the peripheral.
LEMMA IsrArm ==
  ASSUME ArmInv, Isr \/ Peripheral \/ UNCHANGED vars
  PROVE  ArmInv'
<1> USE DEF ArmInv, BootAt, WriteAt, isrVars, txRing, regs
<1>1. CASE IsrReadStatus
  BY <1>1 DEF IsrReadStatus
<1>2. CASE IsrReceive
  BY <1>2 DEF IsrReceive
<1>3. CASE IsrTransmit
  BY <1>3 DEF IsrTransmit
<1>4. CASE IsrTransmitEnd
  BY <1>4 DEF IsrTransmitEnd
<1>5. CASE IsrComplete
  BY <1>5 DEF IsrComplete
<1>6. CASE Peripheral
  BY <1>6 DEF Peripheral, PeerSends, ShiftLoad, ShiftDone
<1>7. CASE UNCHANGED vars
  BY <1>7 DEF vars
<1>8. QED
  BY <1>1, <1>2, <1>3, <1>4, <1>5, <1>6, <1>7 DEF Isr

\* Between calls, bytes left in the transmit ring have the interrupt enabled
\* that will fetch them.
QueuedIsArmed == pc = "app" /\ txHead # txTail => "TIE" \in c2

\* Bytes that Uart_Write leaves in the ring have the interrupt enabled that will
\* fetch them, whatever main stores to C2 and the handler sets and clears, for a
\* client that waits for the end of a transmission before it writes again.
THEOREM QueuedBytesAreArmed ==
  ASSUME ~Overlap
  PROVE  Spec => []QueuedIsArmed
<1>1. TypeInv /\ ArmInv /\ [Next]_vars => ArmInv'
  BY MainArm, IsrArm DEF Next
<1>2. ArmInv => QueuedIsArmed
  BY DEF ArmInv, QueuedIsArmed, WriteAt
<1>3. QED
  BY <1>1, <1>2, InitArm, Typing, PTL DEF Spec

-----------------------------------------------------------------------------
(***************************************************************************)
(* The way of a byte from lpBuffer to the wire: the ring, main's hand when *)
(* it is main that feeds the data register, the data register, the shifter.*)
(***************************************************************************)

\* The slot Uart_Write has published and not yet stored into.
Reserved == IF pc = "wData" THEN 1 ELSE 0

\* The byte main has taken from the ring and not yet put into D.
TxInHand == IF pc \in {"dByte", "dReg"} THEN 1 ELSE 0

\* Bytes that have reached the peripheral.
Loaded == Len(wire) + Len(shifter) + Len(txD)

TxData ==
  /\ shifter # <<>> => shifter[1] = txAcc[Len(wire) + 1]
  /\ txD # <<>> => txD[1] = txAcc[Len(wire) + Len(shifter) + 1]
  /\ pc = "dByte" => txBuf[txTail] = txAcc[Loaded + 1]
  /\ pc = "dReg" => reg = txAcc[Loaded + 1]
  /\ \A k \in 1 .. TxWaiting - Reserved :
       txBuf[SlotAfter(txTail, k, TxSize)] = txAcc[Loaded + TxInHand + k]

TxFlow ==
  /\ Len(txAcc) + Reserved = Loaded + TxInHand + TxWaiting
  /\ wrBuf \in Seq(TxBytes)
  /\ pc = "wHead" => txTail # TxNext(txHead)
  /\ pc \in {"wData", "dStatus", "dTail", "dTailStore"} => txHead # txTail
  /\ pc \in {"dTail", "dTailStore", "dByte", "dReg"} => txD = <<>>
  /\ pc = "dTailStore" => reg = txTail

TxInv == TxFlow /\ TxData

\* Nothing on its way at power-up.
LEMMA InitTx == Init => TxInv
<1> SUFFICES ASSUME Init PROVE TxInv
  OBVIOUS
<1>1. /\ TxWaiting = 0 /\ Reserved = 0 /\ TxInHand = 0 /\ Loaded = 0
      /\ txAcc = <<>> /\ wrBuf = <<>> /\ shifter = <<>> /\ txD = <<>> /\ pc = "boot"
  BY DEF Init, TxWaiting, Waiting, Reserved, TxInHand, Loaded
<1>2. QED
  BY <1>1 DEF TxInv, TxFlow, TxData

\* What the steps rely on.
LEMMA TxFacts ==
  ASSUME TypeInv
  PROVE  /\ TxSize \in Nat /\ TxSize > 1
         /\ txHead \in Slots(TxSize) /\ txTail \in Slots(TxSize)
         /\ txBuf \in [Slots(TxSize) -> Nat]
         /\ txAcc \in Seq(Nat) /\ Len(txAcc) \in Nat
         /\ Len(wire) \in Nat /\ Len(shifter) \in 0..1 /\ Len(txD) \in 0..1
         /\ shifter = <<>> <=> Len(shifter) = 0
         /\ txD = <<>> <=> Len(txD) = 0
         /\ Loaded \in Nat /\ Reserved \in 0..1 /\ TxInHand \in 0..1
         /\ TxWaiting \in 0 .. TxSize - 1
         /\ TxWaiting = 0 <=> txHead = txTail
<1>1. /\ TxSize \in Nat /\ TxSize > 1
      /\ txHead \in Slots(TxSize) /\ txTail \in Slots(TxSize)
      /\ txBuf \in [Slots(TxSize) -> Nat]
      /\ txAcc \in Seq(Nat) /\ wire \in Seq(Nat)
      /\ shifter \in Seq(Nat) /\ Len(shifter) <= 1
      /\ txD \in Seq(Nat) /\ Len(txD) <= 1
  BY ConstantsAssumption DEF TypeInv, TypeOK
<1>2. /\ Len(txAcc) \in Nat /\ Len(wire) \in Nat
      /\ Len(shifter) \in 0..1 /\ Len(txD) \in 0..1
      /\ shifter = <<>> <=> Len(shifter) = 0
      /\ txD = <<>> <=> Len(txD) = 0
  <2>1. ASSUME NEW s \in Seq(Nat) PROVE Len(s) \in Nat /\ (s = <<>> <=> Len(s) = 0)
    BY <2>1, EmptySeq, LenProperties
  <2>2. /\ Len(txAcc) \in Nat /\ Len(wire) \in Nat
        /\ Len(shifter) \in Nat /\ (shifter = <<>> <=> Len(shifter) = 0)
        /\ Len(txD) \in Nat /\ (txD = <<>> <=> Len(txD) = 0)
    BY <1>1, <2>1, Zenon
  <2>3. ASSUME NEW n \in Nat, n <= 1 PROVE n \in 0..1
    BY <2>3
  <2>4. Len(shifter) \in 0..1 /\ Len(txD) \in 0..1
    BY <1>1, <2>2, <2>3, Zenon
  <2>5. QED
    BY <2>2, <2>4
<1>3. TxWaiting \in 0 .. TxSize - 1 /\ (TxWaiting = 0 <=> txHead = txTail)
  BY <1>1, WaitingBounds DEF TxWaiting
<1>4. QED
  BY <1>1, <1>2, <1>3 DEF Loaded, Reserved, TxInHand

LEMMA TxNumbers ==
  ASSUME TypeInv
  PROVE  /\ Len(txAcc) \in Nat /\ Loaded \in Nat
         /\ Reserved \in Nat /\ TxInHand \in Nat /\ TxWaiting \in Nat
BY TxFacts

\* The slot written last is the last that waits, and it is no other.
LEMMA LastInRing ==
  ASSUME NEW n \in Nat, n > 1, NEW h \in Slots(n), NEW t \in Slots(n), h # t
  PROVE  /\ SlotAfter(t, Waiting(h, t, n), n) = h
         /\ \A k \in 1 .. Waiting(h, t, n) - 1 : SlotAfter(t, k, n) # h
BY DEF Slots, SlotAfter, Waiting

\* The steps that move no byte.
TxCalm ==
  /\ UNCHANGED <<txBuf, txHead, txTail, txAcc, wire, shifter, txD>>
  /\ wrBuf' \in Seq(TxBytes)
  /\ \/ UNCHANGED <<pc, reg>>
     \/ /\ pc \notin {"wData", "dByte", "dReg"}
        /\ pc' \notin {"wData", "dByte", "dReg", "dTailStore"}
        /\ pc' \in {"dStatus", "dTail"} => txHead # txTail
        /\ pc' = "dTail" => txD = <<>>
        /\ pc' = "wHead" => txTail # TxNext(txHead)

LEMMA CalmKeepsTx == TxInv /\ TxCalm => TxInv'
<1> SUFFICES ASSUME TxInv, TxCalm PROVE TxInv'
  OBVIOUS
<1>1. /\ Loaded' = Loaded /\ TxWaiting' = TxWaiting
      /\ Reserved' = Reserved /\ TxInHand' = TxInHand
      /\ TxNext(txHead)' = TxNext(txHead)
  BY DEF TxCalm, Loaded, TxWaiting, Reserved, TxInHand, TxNext
<1>2. TxFlow'
  BY <1>1 DEF TxInv, TxFlow, TxCalm
<1>3. TxData'
  BY <1>1 DEF TxInv, TxData, TxCalm
<1>4. QED
  BY <1>2, <1>3 DEF TxInv

LEMMA CalmSteps ==
  ASSUME TypeInv, TxInv,
         \/ InitRegisters \/ Client \/ ReadStep
         \/ WriteSlot \/ WriteRts \/ DrainCheck \/ DrainStatus \/ ArmStep
         \/ DeInitStore
         \/ IsrReadStatus \/ IsrReceive \/ IsrTransmitEnd \/ IsrComplete
         \/ PeerSends \/ UNCHANGED vars
  PROVE  TxCalm
<1> USE DEF TxCalm, MainAt, Goto, txRing, txPort, writeLoc, regs
<1>1. wrBuf \in Seq(TxBytes)
  BY DEF TxInv, TxFlow
<1>2. CASE InitRegisters \/ Uart_DeInit \/ DeInitStore
  BY <1>1, <1>2 DEF InitRegisters, Uart_DeInit, DeInitStore
<1>3. CASE (\E n \in ReadSizes : CallRead(n)) \/ ReadStep
  BY <1>1, <1>3 DEF CallRead, ReadStep, ReadCheck, ReadTail, ReadCopy
<1>4. ASSUME NEW n \in WriteSizes, Len(txAcc) + n <= MaxTx, CallWrite(NumberedBytes(n))
      PROVE  TxCalm
  <2>1. n \in Nat /\ MaxTx \in Nat /\ Len(txAcc) \in Nat
    BY ConstantsAssumption, TxFacts
  <2>2. NumberedBytes(n) \in Seq(TxBytes)
    BY <1>4, <2>1 DEF NumberedBytes, TxBytes
  <2>3. QED
    BY <1>4, <2>2 DEF CallWrite
<1>5. CASE WriteSlot \/ WriteRts
  <2>1. wrBuf' \in Seq(TxBytes)
    BY <1>1, <1>5, EmptySeq DEF WriteSlot, WriteRts
  <2>2. QED
    BY <1>5, <2>1 DEF WriteSlot, WriteRts
<1>6. CASE DrainCheck
  BY <1>1, <1>6 DEF DrainCheck
<1>7. CASE DrainStatus
  <2>1. txHead # txTail
    BY <1>7 DEF DrainStatus, TxInv, TxFlow
  <2>2. pc' = "dTail" => txD = <<>>
    BY <1>7 DEF DrainStatus, S1
  <2>3. pc = "dStatus" /\ pc' \in {"dTail", "wArm"}
    BY <1>7 DEF DrainStatus
  <2>4. QED
    BY <1>1, <1>7, <2>1, <2>2, <2>3 DEF DrainStatus
<1>8. CASE ArmStep
  BY <1>1, <1>8 DEF ArmStep, ArmChoose, ArmLoad, ArmStore
<1>9. CASE IsrReadStatus \/ IsrReceive \/ IsrTransmitEnd \/ IsrComplete
  BY <1>1, <1>9 DEF IsrReadStatus, IsrReceive, IsrTransmitEnd, IsrComplete
<1>10. CASE PeerSends \/ UNCHANGED vars
  BY <1>1, <1>10 DEF PeerSends, vars
<1>11. QED
  BY <1>2, <1>3, <1>4, <1>5, <1>6, <1>7, <1>8, <1>9, <1>10 DEF Client

\* Uart_Init finds the transmit side as power-up left it.
LEMMA InitCalm ==
  ASSUME ArmInv, TxInv, InitTails \/ InitHeads
  PROVE  TxCalm
BY DEF InitTails, InitHeads, ArmInv, BootAt, TxInv, TxFlow, TxCalm, MainAt, Goto,
       txPort, writeLoc, regs

\* Uart_Write publishes a slot.
LEMMA WriteHeadKeepsTx ==
  ASSUME TypeInv, TxInv, WriteHead
  PROVE  TxInv'
<1>1. /\ txHead' = NextSlot(txHead, TxSize) /\ pc = "wHead" /\ pc' = "wData"
      /\ UNCHANGED <<txBuf, txTail, txAcc, wire, shifter, txD, wrBuf, reg>>
      /\ txTail # NextSlot(txHead, TxSize)
  BY DEF WriteHead, MainAt, Goto, TxNext, txPort, writeLoc, regs, TxInv, TxFlow
<1>2. /\ TxWaiting' = TxWaiting + 1 /\ Loaded' = Loaded
      /\ Reserved = 0 /\ Reserved' = 1 /\ TxInHand = 0 /\ TxInHand' = 0
  BY <1>1, TxFacts, PutInRing DEF TxWaiting, Reserved, TxInHand, Loaded
<1>3. txHead' # txTail'
  BY <1>1
<1>4. TxFlow'
  <2>1. Len(txAcc) + Reserved = Loaded + TxInHand + TxWaiting /\ wrBuf \in Seq(TxBytes)
    BY DEF TxInv, TxFlow
  <2>2. Len(txAcc') + Reserved' = Loaded' + TxInHand' + TxWaiting'
    BY <1>1, <1>2, <2>1, TxNumbers
  <2>3. QED
    BY <1>1, <1>3, <2>1, <2>2 DEF TxFlow
<1>5. TxData'
  <2>1. TxWaiting' - Reserved' = TxWaiting - Reserved
    BY <1>2, TxFacts
  <2>2. QED
    BY <1>1, <1>2, <2>1 DEF TxInv, TxData
<1>6. QED
  BY <1>4, <1>5 DEF TxInv

\* ... and stores into it: over none of the bytes that wait.
LEMMA WriteDataKeepsTx ==
  ASSUME TypeInv, TxInv, WriteData
  PROVE  TxInv'
<1> DEFINE b == Head(wrBuf)
<1>1. /\ pc = "wData" /\ pc' \in {"wSlot", "wRts"}
      /\ txBuf' = [txBuf EXCEPT ![txHead] = b] /\ txAcc' = Append(txAcc, b)
      /\ wrBuf' = Tail(wrBuf)
      /\ UNCHANGED <<txHead, txTail, wire, shifter, txD, reg>>
  BY DEF WriteData, MainAt, Goto, txPort, regs
<1>2. /\ wrBuf \in Seq(TxBytes) /\ wrBuf \in Seq(Nat) /\ wrBuf # <<>>
      /\ txHead # txTail
      /\ Len(txAcc) + 1 = Loaded + TxWaiting
  <2>1. Reserved = 1 /\ TxInHand = 0
    BY <1>1 DEF Reserved, TxInHand
  <2>2. Len(txAcc) + Reserved = Loaded + TxInHand + TxWaiting
        /\ txHead # txTail /\ wrBuf \in Seq(TxBytes)
    BY <1>1 DEF TxInv, TxFlow
  <2>3. wrBuf \in Seq(Nat) /\ wrBuf # <<>>
    BY <1>1 DEF TypeInv, TypeOK, Busy
  <2>4. QED
    BY <2>1, <2>2, <2>3, TxFacts
<1>3. b \in Nat /\ wrBuf' \in Seq(TxBytes)
  BY <1>1, <1>2, FirstByte
<1> HIDE DEF b
<1>4. /\ Len(txAcc') = Len(txAcc) + 1 /\ txAcc'[Len(txAcc) + 1] = b
      /\ \A i \in 1 .. Len(txAcc) : txAcc'[i] = txAcc[i]
  BY <1>1, <1>3, TxFacts, AppendProperties
<1>5. /\ TxWaiting' = TxWaiting /\ Loaded' = Loaded
      /\ Reserved = 1 /\ Reserved' = 0 /\ TxInHand = 0 /\ TxInHand' = 0
  BY <1>1 DEF TxWaiting, Reserved, TxInHand, Loaded
<1>6. TxFlow'
  <2>1. Len(txAcc') + Reserved' = Loaded' + TxInHand' + TxWaiting'
    BY <1>2, <1>4, <1>5, TxFacts
  <2>2. QED
    BY <1>1, <1>3, <2>1 DEF TxFlow
<1>7. /\ TxWaiting \in Nat /\ TxWaiting > 0 /\ Loaded \in Nat /\ Len(txAcc) \in Nat
      /\ Loaded <= Len(txAcc)
  BY <1>2, TxFacts
<1>8. /\ shifter' # <<>> => shifter'[1] = txAcc'[Len(wire') + 1]
      /\ txD' # <<>> => txD'[1] = txAcc'[Len(wire') + Len(shifter') + 1]
  <2>1. /\ shifter # <<>> => Len(wire) + 1 \in 1 .. Len(txAcc)
        /\ txD # <<>> => Len(wire) + Len(shifter) + 1 \in 1 .. Len(txAcc)
    BY <1>7, TxFacts DEF Loaded
  <2>2. QED
    BY <1>1, <1>4, <2>1 DEF TxInv, TxData
<1>9. ASSUME NEW k \in 1 .. TxWaiting
      PROVE  txBuf'[SlotAfter(txTail, k, TxSize)] = txAcc'[Loaded + k]
  <2>1. /\ SlotAfter(txTail, TxWaiting, TxSize) = txHead
        /\ k # TxWaiting => /\ k \in 1 .. TxWaiting - 1
                            /\ SlotAfter(txTail, k, TxSize) # txHead
    <3>1. /\ SlotAfter(txTail, TxWaiting, TxSize) = txHead
          /\ \A i \in 1 .. TxWaiting - 1 : SlotAfter(txTail, i, TxSize) # txHead
      BY <1>2, TxFacts, LastInRing DEF TxWaiting
    <3>2. k # TxWaiting => k \in 1 .. TxWaiting - 1
      BY <1>7
    <3>3. QED
      BY <3>1, <3>2
  <2>2. CASE k = TxWaiting
    <3>1. Loaded + k = Len(txAcc) + 1
      BY <1>2, <2>2
    <3>2. QED
      BY <1>1, <1>4, <2>1, <2>2, <3>1, TxFacts
  <2>3. CASE k # TxWaiting
    <3>1. txBuf[SlotAfter(txTail, k, TxSize)] = txAcc[Loaded + k]
      <4>1. k \in 1 .. TxWaiting - Reserved /\ Loaded + TxInHand + k = Loaded + k
        BY <1>5, <1>7, <2>1, <2>3
      <4>2. QED
        BY <4>1 DEF TxInv, TxData
    <3>2. Loaded + k \in 1 .. Len(txAcc)
      BY <1>2, <1>7, <2>1, <2>3
    <3>3. SlotAfter(txTail, k, TxSize) \in Slots(TxSize)
      <4>1. k \in 0..TxSize
        BY <1>7, TxFacts
      <4>2. QED
        BY <4>1, TxFacts, WaitingBounds
    <3>4. QED
      BY <1>1, <1>4, <2>1, <2>3, <3>1, <3>2, <3>3, TxFacts
  <2>4. QED
    BY <2>2, <2>3
<1>10. TxData'
  <2>1. TxWaiting' - Reserved' = TxWaiting
    BY <1>5, <1>7
  <2>2. ASSUME NEW k \in 1 .. TxWaiting
        PROVE  Loaded' + TxInHand' + k = Loaded + k
    BY <1>5, <1>7
  <2>3. QED
    BY <1>1, <1>8, <1>9, <2>1, <2>2 DEF TxData
<1>11. QED
  BY <1>6, <1>10 DEF TxInv

\* Main moves the tail on: the byte is now the one in hand.
LEMMA DrainTailKeepsTx ==
  ASSUME TypeInv, TxInv, DrainTailLoad \/ DrainTailStore
  PROVE  TxInv'
<1>1. CASE DrainTailLoad
  <2>1. /\ pc = "dTail" /\ pc' = "dTailStore" /\ reg' = txTail
        /\ UNCHANGED <<txBuf, txHead, txTail, txAcc, wire, shifter, txD, wrBuf>>
    BY <1>1 DEF DrainTailLoad, MainAt, Goto, txRing, txPort, writeLoc
  <2>2. /\ TxWaiting' = TxWaiting /\ Loaded' = Loaded
        /\ Reserved' = Reserved /\ TxInHand' = TxInHand
    BY <2>1 DEF TxWaiting, Loaded, Reserved, TxInHand
  <2>3. TxFlow'
    BY <2>1, <2>2 DEF TxInv, TxFlow
  <2>4. TxData'
    BY <2>1, <2>2 DEF TxInv, TxData
  <2>5. QED
    BY <2>3, <2>4 DEF TxInv
<1>2. CASE DrainTailStore
  <2>1. /\ pc = "dTailStore" /\ pc' = "dByte" /\ txTail' = TxNext(reg)
        /\ UNCHANGED <<txBuf, txHead, txAcc, wire, shifter, txD, wrBuf>>
    BY <1>2 DEF DrainTailStore, MainAt, Goto, txPort, writeLoc
  <2>2. /\ reg = txTail /\ txHead # txTail /\ txD = <<>>
        /\ Len(txAcc) + Reserved = Loaded + TxInHand + TxWaiting
        /\ wrBuf \in Seq(TxBytes)
    BY <2>1 DEF TxInv, TxFlow
  <2>3. /\ TxWaiting' = TxWaiting - 1
        /\ txTail' = SlotAfter(txTail, 1, TxSize)
        /\ \A k \in 1 .. TxWaiting - 1 :
              SlotAfter(txTail', k, TxSize) = SlotAfter(txTail, k + 1, TxSize)
    BY <2>1, <2>2, TxFacts, GetFromRing DEF TxWaiting, TxNext
  <2>4. /\ Loaded' = Loaded /\ Reserved = 0 /\ Reserved' = 0
        /\ TxInHand = 0 /\ TxInHand' = 1 /\ TxWaiting > 0 /\ TxWaiting \in Nat
        /\ Loaded \in Nat
    BY <2>1, <2>2, TxFacts DEF Loaded, Reserved, TxInHand
  <2>5. TxFlow'
    <3>1. Len(txAcc') + Reserved' = Loaded' + TxInHand' + TxWaiting'
      BY <2>1, <2>2, <2>3, <2>4, TxNumbers
    <3>2. QED
      BY <2>1, <2>2, <3>1 DEF TxFlow
  <2>6. \A k \in 1 .. TxWaiting :
          txBuf[SlotAfter(txTail, k, TxSize)] = txAcc[Loaded + k]
    <3>1. ASSUME NEW k \in 1 .. TxWaiting
          PROVE  k \in 1 .. TxWaiting - Reserved /\ Loaded + TxInHand + k = Loaded + k
      BY <2>4
    <3>2. QED
      BY <3>1 DEF TxInv, TxData
  <2>7. txBuf'[txTail'] = txAcc'[Loaded' + 1]
    <3>1. 1 \in 1 .. TxWaiting
      BY <2>4
    <3>2. QED
      BY <2>1, <2>3, <2>4, <2>6, <3>1
  <2>8. ASSUME NEW k \in 1 .. TxWaiting' - Reserved'
        PROVE  txBuf'[SlotAfter(txTail', k, TxSize)] = txAcc'[Loaded' + TxInHand' + k]
    <3>1. k \in 1 .. TxWaiting - 1 /\ k + 1 \in 1 .. TxWaiting
          /\ Loaded' + TxInHand' + k = Loaded + (k + 1)
      BY <2>3, <2>4
    <3>2. QED
      BY <2>1, <2>3, <2>6, <3>1
  <2>9. TxData'
    BY <2>1, <2>2, <2>7, <2>8 DEF TxInv, TxData
  <2>10. QED
    BY <2>5, <2>9 DEF TxInv
<1>3. QED
  BY <1>1, <1>2

\* The byte in hand goes to a CPU register, and from there into D.
LEMMA DrainByteKeepsTx ==
  ASSUME TypeInv, TxInv, DrainByte \/ DrainReg
  PROVE  TxInv'
<1>1. CASE DrainByte
  <2>1. /\ pc = "dByte" /\ pc' = "dReg" /\ reg' = txBuf[txTail]
        /\ UNCHANGED <<txBuf, txHead, txTail, txAcc, wire, shifter, txD, wrBuf>>
    BY <1>1 DEF DrainByte, MainAt, Goto, txRing, txPort, writeLoc
  <2>2. /\ TxWaiting' = TxWaiting /\ Loaded' = Loaded
        /\ Reserved' = Reserved /\ TxInHand' = TxInHand
    BY <2>1 DEF TxWaiting, Loaded, Reserved, TxInHand
  <2>3. TxFlow'
    BY <2>1, <2>2 DEF TxInv, TxFlow
  <2>4. TxData'
    BY <2>1, <2>2 DEF TxInv, TxData
  <2>5. QED
    BY <2>3, <2>4 DEF TxInv
<1>2. CASE DrainReg
  <2>1. /\ pc = "dReg" /\ pc' = "dCheck" /\ txD' = <<reg>>
        /\ UNCHANGED <<txBuf, txHead, txTail, txAcc, wire, shifter, wrBuf>>
    BY <1>2 DEF DrainReg, MainAt, Goto, txRing, writeLoc
  <2>2. /\ txD = <<>> /\ reg = txAcc[Loaded + 1]
        /\ Len(txAcc) + Reserved = Loaded + TxInHand + TxWaiting
        /\ wrBuf \in Seq(TxBytes)
    BY <2>1 DEF TxInv, TxFlow, TxData
  <2>3. /\ Len(txD) = 0 /\ Len(txD') = 1 /\ txD'[1] = reg /\ txD' # <<>>
    BY <2>1, <2>2
  <2>4. /\ TxWaiting' = TxWaiting /\ Loaded' = Loaded + 1
        /\ Loaded = Len(wire) + Len(shifter)
        /\ Reserved = 0 /\ Reserved' = 0 /\ TxInHand = 1 /\ TxInHand' = 0
    BY <2>1, <2>3, TxFacts DEF TxWaiting, Loaded, Reserved, TxInHand
  <2>5. TxFlow'
    <3>1. Len(txAcc') + Reserved' = Loaded' + TxInHand' + TxWaiting'
      BY <2>1, <2>2, <2>4, TxFacts
    <3>2. QED
      BY <2>1, <2>2, <3>1 DEF TxFlow
  <2>6. txD'[1] = txAcc'[Len(wire') + Len(shifter') + 1]
    BY <2>1, <2>2, <2>3, <2>4
  <2>7. ASSUME NEW k \in 1 .. TxWaiting' - Reserved'
        PROVE  txBuf'[SlotAfter(txTail', k, TxSize)] = txAcc'[Loaded' + TxInHand' + k]
    <3>1. k \in 1 .. TxWaiting - Reserved
          /\ Loaded' + TxInHand' + k = Loaded + TxInHand + k
      BY <2>4, TxFacts
    <3>2. QED
      BY <2>1, <3>1 DEF TxInv, TxData
  <2>8. TxData'
    BY <2>1, <2>6, <2>7 DEF TxInv, TxData
  <2>9. QED
    BY <2>5, <2>8 DEF TxInv
<1>3. QED
  BY <1>1, <1>2

\* The handler takes a byte from the ring to D; main is not in Uart_Write.
LEMMA TransmitKeepsTx ==
  ASSUME TypeInv, ArmInv, TxInv, IsrTransmit
  PROVE  TxInv'
<1>1. /\ txHead # txTail /\ txD = <<>> /\ txTail' = NextSlot(txTail, TxSize)
      /\ txD' = <<txBuf[txTail']>> /\ pc \notin WriteAt /\ pc' = pc
      /\ UNCHANGED <<txBuf, txHead, txAcc, wire, shifter, wrBuf>>
  BY DEF IsrTransmit, S1, TxNext, ArmInv, writeLoc
<1>2. /\ TxWaiting' = TxWaiting - 1
      /\ txTail' = SlotAfter(txTail, 1, TxSize)
      /\ \A k \in 1 .. TxWaiting - 1 :
            SlotAfter(txTail', k, TxSize) = SlotAfter(txTail, k + 1, TxSize)
  BY <1>1, TxFacts, GetFromRing DEF TxWaiting
<1>3. Len(txD) = 0 /\ Len(txD') = 1 /\ txD'[1] = txBuf[txTail']
  BY <1>1
<1>4. /\ Loaded' = Loaded + 1 /\ Loaded = Len(wire) + Len(shifter) /\ Loaded \in Nat
      /\ Reserved = 0 /\ Reserved' = 0 /\ TxInHand = 0 /\ TxInHand' = 0
      /\ TxWaiting > 0 /\ TxWaiting \in Nat
  BY <1>1, <1>3, TxFacts DEF Loaded, Reserved, TxInHand, WriteAt
<1>5. TxFlow'
  <2>1. Len(txAcc) + Reserved = Loaded + TxInHand + TxWaiting /\ wrBuf \in Seq(TxBytes)
    BY DEF TxInv, TxFlow
  <2>2. Len(txAcc') + Reserved' = Loaded' + TxInHand' + TxWaiting'
    BY <1>1, <1>2, <1>4, <2>1, TxNumbers
  <2>3. QED
    BY <1>1, <2>1, <2>2 DEF TxFlow, WriteAt
<1>6. ASSUME NEW k \in 1 .. TxWaiting
      PROVE  txBuf[SlotAfter(txTail, k, TxSize)] = txAcc[Loaded + k]
  <2>1. k \in 1 .. TxWaiting - Reserved /\ Loaded + TxInHand + k = Loaded + k
    BY <1>4
  <2>2. QED
    BY <2>1 DEF TxInv, TxData
<1>7. txD'[1] = txAcc'[Len(wire') + Len(shifter') + 1]
  <2>1. 1 \in 1 .. TxWaiting
    BY <1>4
  <2>2. QED
    BY <1>1, <1>2, <1>3, <1>4, <1>6, <2>1
<1>8. ASSUME NEW k \in 1 .. TxWaiting' - Reserved'
      PROVE  txBuf'[SlotAfter(txTail', k, TxSize)] = txAcc'[Loaded' + TxInHand' + k]
  <2>1. k \in 1 .. TxWaiting - 1 /\ k + 1 \in 1 .. TxWaiting
        /\ Loaded' + TxInHand' + k = Loaded + (k + 1)
    BY <1>2, <1>4
  <2>2. QED
    BY <1>1, <1>2, <1>6, <2>1
<1>9. TxData'
  BY <1>1, <1>7, <1>8 DEF TxInv, TxData, WriteAt
<1>10. QED
  BY <1>5, <1>9 DEF TxInv

\* The shifter takes the byte of D, and puts it on the wire.
LEMMA ShiftKeepsTx ==
  ASSUME TypeInv, TxInv, ShiftLoad \/ ShiftDone
  PROVE  TxInv'
<1>1. /\ UNCHANGED <<txBuf, txHead, txTail, txAcc, wrBuf, pc, reg>>
      /\ TxWaiting' = TxWaiting /\ Reserved' = Reserved /\ TxInHand' = TxInHand
      /\ TxNext(txHead)' = TxNext(txHead)
  BY DEF ShiftLoad, ShiftDone, TxWaiting, Reserved, TxInHand, TxNext, txRing,
         writeLoc, regs
<1>2. CASE ShiftLoad
  <2>1. txD # <<>> /\ shifter = <<>> /\ shifter' = txD /\ txD' = <<>> /\ wire' = wire
    BY <1>2 DEF ShiftLoad
  <2>2. Len(shifter) = 0 /\ Len(txD') = 0
    BY <2>1, TxFacts
  <2>3. Loaded' = Loaded /\ Len(wire) + Len(shifter) + 1 = Len(wire') + 1
    BY <2>1, <2>2, TxFacts DEF Loaded
  <2>4. TxFlow'
    BY <1>1, <2>1, <2>3 DEF TxInv, TxFlow
  <2>5. TxData'
    BY <1>1, <2>1, <2>3 DEF TxInv, TxData
  <2>6. QED
    BY <2>4, <2>5 DEF TxInv
<1>3. CASE ShiftDone
  <2>1. shifter # <<>> /\ shifter' = <<>> /\ txD' = txD /\ wire' = wire \o shifter
    BY <1>3 DEF ShiftDone
  <2>2. Len(shifter) = 1 /\ Len(shifter') = 0 /\ Len(wire') = Len(wire) + 1
    <3>1. wire \in Seq(Nat) /\ shifter \in Seq(Nat)
      BY DEF TypeInv, TypeOK
    <3>2. Len(wire \o shifter) = Len(wire) + Len(shifter)
      BY <3>1
    <3>3. Len(shifter) = 1
      BY <2>1, TxFacts
    <3>4. QED
      BY <2>1, <3>2, <3>3, EmptySeq
  <2>3. /\ Loaded' = Loaded
        /\ Len(wire') + Len(shifter') + 1 = Len(wire) + Len(shifter) + 1
    BY <2>1, <2>2, TxFacts DEF Loaded
  <2>4. TxFlow'
    BY <1>1, <2>1, <2>3 DEF TxInv, TxFlow
  <2>5. TxData'
    BY <1>1, <2>1, <2>3 DEF TxInv, TxData
  <2>6. QED
    BY <2>4, <2>5 DEF TxInv
<1>4. QED
  BY <1>2, <1>3

\* The invariant of the transmit side is inductive.
LEMMA NextTx ==
  ASSUME TypeInv, ArmInv, TxInv, [Next]_vars
  PROVE  TxInv'
<1>1. CASE TxCalm
  BY <1>1, CalmKeepsTx
<1>2. CASE WriteHead
  BY <1>2, WriteHeadKeepsTx
<1>3. CASE WriteData
  BY <1>3, WriteDataKeepsTx
<1>4. CASE DrainTailLoad \/ DrainTailStore
  BY <1>4, DrainTailKeepsTx
<1>5. CASE DrainByte \/ DrainReg
  BY <1>5, DrainByteKeepsTx
<1>6. CASE IsrTransmit
  BY <1>6, TransmitKeepsTx
<1>7. CASE ShiftLoad \/ ShiftDone
  BY <1>7, ShiftKeepsTx
<1>8. QED
  BY <1>1, <1>2, <1>3, <1>4, <1>5, <1>6, <1>7, CalmSteps, InitCalm
     DEF Next, DriverStep, InitStep, WriteStep, QueueStep, DrainStep, Isr, Peripheral

\* For a client that waits for the end of a transmission the two invariants hold.
LEMMA TxInvariant ==
  ASSUME ~Overlap
  PROVE  Spec => [](ArmInv /\ TxInv)
<1>1. TypeInv /\ ArmInv /\ TxInv /\ [Next]_vars => ArmInv' /\ TxInv'
  BY MainArm, IsrArm, NextTx DEF Next
<1>2. QED
  BY <1>1, InitArm, InitTx, Typing, PTL DEF Spec

-----------------------------------------------------------------------------
(***************************************************************************)
(* The transmitter implements ByteFifo: WriteData is Put, the shifter's    *)
(* last bit is Get.                                                        *)
(***************************************************************************)
LEMMA InitIsTxFifoInit == Init => TxFifo!FifoInit
BY DEF Init, TxFifo!FifoInit, Ready

\* The histories change in no other step.
LEMMA TxOutside ==
  ASSUME [Next]_vars
  PROVE  \/ UNCHANGED <<txAcc, wire, Ready>>
         \/ InitHeads \/ WriteData \/ ShiftDone
<1> USE DEF MainAt, Goto, Ready, txPort, writeLoc
<1>1. CASE InitRegisters \/ InitTails
  BY <1>1 DEF InitRegisters, InitTails
<1>2. CASE ReadStep
  BY <1>2 DEF ReadStep, ReadCheck, ReadTail, ReadCopy
<1>3. CASE WriteSlot \/ WriteHead \/ WriteRts
  BY <1>3 DEF WriteSlot, WriteHead, WriteRts
<1>4. CASE DrainStep
  BY <1>4 DEF DrainStep, DrainCheck, DrainStatus, DrainTailLoad,
              DrainTailStore, DrainByte, DrainReg
<1>5. CASE ArmStep \/ DeInitStore
  BY <1>5 DEF ArmStep, ArmChoose, ArmLoad, ArmStore, DeInitStore
<1>6. CASE Client
  BY <1>6 DEF Client, CallRead, CallWrite, Uart_DeInit
<1>7. CASE Isr
  BY <1>7 DEF Isr, IsrReadStatus, IsrReceive, IsrTransmit, IsrTransmitEnd,
              IsrComplete
<1>8. CASE PeerSends \/ ShiftLoad
  BY <1>8 DEF PeerSends, ShiftLoad
<1>9. CASE UNCHANGED vars
  BY <1>9 DEF vars
<1>10. QED
  BY <1>1, <1>2, <1>3, <1>4, <1>5, <1>6, <1>7, <1>8, <1>9
     DEF Next, DriverStep, InitStep, WriteStep, QueueStep, Peripheral

\* Before Uart_Init has finished nothing has been accepted, and nothing sent.
StartInv == ~Ready => txAcc = <<>> /\ wire = <<>>

LEMMA NextStart ==
  ASSUME TypeInv, TxInv, StartInv, [Next]_vars
  PROVE  StartInv'
<1>1. CASE UNCHANGED <<txAcc, wire, Ready>>
  BY <1>1 DEF StartInv
<1>2. CASE InitHeads \/ WriteData
  BY <1>2 DEF InitHeads, WriteData, MainAt, Goto, StartInv, Ready
<1>3. CASE ShiftDone
  <2>1. SUFFICES ASSUME ~Ready, StartInv, ShiftDone PROVE FALSE
    BY <1>3 DEF ShiftDone, StartInv, Ready
  <2>2. /\ Len(txAcc) = 0 /\ Reserved = 0 /\ TxInHand = 0 /\ shifter # <<>>
    BY <2>1, EmptySeq DEF StartInv, Ready, Reserved, TxInHand, ShiftDone
  <2>3. Len(txAcc) + Reserved = Loaded + TxInHand + TxWaiting
    BY DEF TxInv, TxFlow
  <2>4. QED
    BY <2>2, <2>3, TxFacts DEF Loaded
<1>4. QED
  BY <1>1, <1>2, <1>3, TxOutside

\* A sequence of one element put after another.
LEMMA OneMore ==
  ASSUME NEW S, NEW s \in Seq(S), NEW t \in Seq(S), Len(t) = 1
  PROVE  s \o t = Append(s, t[1])
<1>1. t[1] \in S /\ Len(s) \in Nat
  <2>1. 1 \in 1 .. Len(t)
    OBVIOUS
  <2>2. QED
    BY <2>1, ElementOfSeq, LenProperties
<1>2. /\ s \o t \in Seq(S) /\ Len(s \o t) = Len(s) + Len(t)
      /\ \A i \in 1 .. Len(s) + Len(t) :
           (s \o t)[i] = IF i <= Len(s) THEN s[i] ELSE t[i - Len(s)]
  BY ConcatProperties
<1>3. /\ Append(s, t[1]) \in Seq(S) /\ Len(Append(s, t[1])) = Len(s) + 1
      /\ \A i \in 1 .. Len(s) : Append(s, t[1])[i] = s[i]
      /\ Append(s, t[1])[Len(s) + 1] = t[1]
  BY <1>1, AppendProperties
<1>4. ASSUME NEW i \in 1 .. Len(s \o t)
      PROVE  (s \o t)[i] = Append(s, t[1])[i]
  <2>1. /\ i <= Len(s) => i \in 1 .. Len(s)
        /\ ~(i <= Len(s)) => i = Len(s) + 1 /\ i - Len(s) = 1
    BY <1>1, <1>2
  <2>2. (s \o t)[i] = IF i <= Len(s) THEN s[i] ELSE t[i - Len(s)]
    BY <1>2
  <2>3. QED
    BY <1>3, <2>1, <2>2
<1>5. Len(s \o t) = Len(Append(s, t[1]))
  BY <1>2, <1>3
<1>6. QED
  BY <1>2, <1>3, <1>4, <1>5, SeqEqual

\* Every step of the driver is a step of the queue or leaves it unchanged.
LEMMA StepIsTxFifoStep ==
  ASSUME TypeInv, TxInv, StartInv, [Next]_vars
  PROVE  [TxFifo!FifoNext]_(TxFifo!fifoVars)
<1> USE DEF TxFifo!fifoVars, TxFifo!FifoNext
<1>1. CASE UNCHANGED <<txAcc, wire, Ready>>
  BY <1>1
<1>2. CASE InitHeads
  BY <1>2 DEF InitHeads, MainAt, Goto, Ready, writeLoc, txPort, StartInv, TxFifo!Open
<1>3. CASE WriteData
  <2>1. /\ txAcc' = Append(txAcc, Head(wrBuf)) /\ pc = "wData"
        /\ UNCHANGED <<wire, Ready>>
    BY <1>3 DEF WriteData, MainAt, Goto, Ready, txPort
  <2>2. wrBuf \in Seq(TxBytes) /\ wrBuf # <<>>
    BY <2>1 DEF TxInv, TxFlow, TypeInv, Busy
  <2>3. Head(wrBuf) \in TxBytes
    BY <2>2, FirstByte
  <2>4. Reserved = 1 /\ TxInHand = 0
    BY <2>1 DEF Reserved, TxInHand
  <2>5. Len(txAcc) + Reserved = Loaded + TxInHand + TxWaiting
    BY DEF TxInv, TxFlow
  <2>6. Len(txAcc) - Len(wire) < TxSize + 1
    <3>1. /\ Len(txAcc) \in Nat /\ Len(wire) \in Nat /\ TxSize \in Nat
          /\ Len(shifter) \in 0..1 /\ Len(txD) \in 0..1 /\ TxWaiting \in 0 .. TxSize - 1
      BY TxFacts
    <3>2. Len(txAcc) + 1 = Len(wire) + Len(shifter) + Len(txD) + TxWaiting
      BY <2>4, <2>5, <3>1 DEF Loaded
    <3>3. ASSUME NEW a \in Nat, NEW w \in Nat, NEW n \in Nat, NEW sh \in 0..1,
                 NEW d \in 0..1, NEW r \in 0 .. n - 1, a + 1 = w + sh + d + r
          PROVE  a - w < n + 1
      BY <3>3
    <3>4. QED
      BY <3>1, <3>2, <3>3
  <2>7. QED
    BY <2>1, <2>3, <2>6 DEF TxFifo!Put
<1>4. CASE ShiftDone
  <2>1. /\ wire' = wire \o shifter /\ shifter # <<>> /\ UNCHANGED <<txAcc, Ready>>
    BY <1>4 DEF ShiftDone, Ready, writeLoc
  <2>2. shifter[1] = txAcc[Len(wire) + 1]
    BY <2>1 DEF TxInv, TxData
  <2>3. wire' = Append(wire, txAcc[Len(wire) + 1])
    <3>1. shifter \in Seq(Nat) /\ wire \in Seq(Nat) /\ Len(shifter) = 1
      BY <2>1, TxFacts DEF TypeInv, TypeOK
    <3>2. wire \o shifter = Append(wire, shifter[1])
      BY <3>1, OneMore
    <3>3. QED
      BY <2>1, <2>2, <3>2
  <2>4. Len(wire) < Len(txAcc)
    <3>1. Len(txAcc) + Reserved = Loaded + TxInHand + TxWaiting
      BY DEF TxInv, TxFlow
    <3>2. Reserved = 1 => TxWaiting > 0
      BY TxFacts DEF Reserved, TxInv, TxFlow
    <3>3. Len(shifter) = 1
      BY <2>1, TxFacts
    <3>4. QED
      BY <3>1, <3>2, <3>3, TxFacts DEF Loaded
  <2>5. QED
    BY <2>1, <2>3, <2>4 DEF TxFifo!Get
<1>5. QED
  BY <1>1, <1>2, <1>3, <1>4, TxOutside

\* From Uart_Write to the wire the driver is a first-in first-out queue that holds
\* no more than TxSize + 1 bytes, although main and the handler both feed the data
\* register, for a client that waits for the end of a transmission.
THEOREM TransmitterImplementsFifo ==
  ASSUME ~Overlap
  PROVE  Spec => TxIsFifo
<1>1. Init => StartInv
  BY DEF Init, StartInv
<1>2. TypeInv /\ TxInv /\ StartInv /\ [Next]_vars => StartInv'
  BY NextStart
<1>3. TypeInv /\ TxInv /\ StartInv /\ [Next]_vars => [TxFifo!FifoNext]_(TxFifo!fifoVars)
  BY StepIsTxFifoStep
<1>4. QED
  BY <1>1, <1>2, <1>3, InitIsTxFifoInit, Typing, TxInvariant, PTL
     DEF Spec, TxIsFifo, TxFifo!FifoSpec

-----------------------------------------------------------------------------
(***************************************************************************)
(* Progress, for channel 2 and the client that waits: each step of main,   *)
(* the handler and the transmitter uses up work, and there is none left    *)
(* where they stop.                                                        *)
(***************************************************************************)

\* A run at its transmit part came there by TIE, and whoever saw TC saw TDRE.
RunInv ==
  /\ ipc = "tx" => "TIE" \in c2
  /\ ipc # "idle" /\ "TC" \in status => "TDRE" \in status

LEMMA InitRun == Init => RunInv
BY DEF Init, RunInv

LEMMA NextRun == RunInv /\ [Next]_vars => RunInv'
<1> SUFFICES ASSUME RunInv, [Next]_vars
             PROVE  RunInv'
  OBVIOUS
<1> USE DEF RunInv, MainAt, Goto, isrVars
<1>1. CASE InitStep
  BY <1>1 DEF InitStep, InitRegisters, InitTails, InitHeads
<1>2. CASE ReadStep
  BY <1>2 DEF ReadStep, ReadCheck, ReadTail, ReadCopy
<1>3. CASE QueueStep
  BY <1>3 DEF QueueStep, WriteSlot, WriteHead, WriteData, WriteRts
<1>4. CASE DrainStep
  BY <1>4 DEF DrainStep, DrainCheck, DrainStatus, DrainTailLoad,
              DrainTailStore, DrainByte, DrainReg
<1>5. CASE ArmStep \/ DeInitStore
  BY <1>5 DEF ArmStep, ArmChoose, ArmLoad, ArmStore, DeInitStore
<1>6. CASE Client
  BY <1>6 DEF Client, CallRead, CallWrite, Uart_DeInit
<1>7. CASE Isr
  <2>1. CASE IsrReadStatus
    BY <2>1 DEF IsrReadStatus, S1
  <2>2. CASE IsrReceive
    BY <2>2 DEF IsrReceive
  <2>3. CASE IsrTransmit \/ IsrTransmitEnd \/ IsrComplete
    BY <2>3 DEF IsrTransmit, IsrTransmitEnd, IsrComplete
  <2>4. QED
    BY <1>7, <2>1, <2>2, <2>3 DEF Isr
<1>8. CASE Peripheral
  BY <1>8 DEF Peripheral, PeerSends, ShiftLoad, ShiftDone
<1>9. CASE UNCHANGED vars
  BY <1>9 DEF vars
<1>10. QED
  BY <1>1, <1>2, <1>3, <1>4, <1>5, <1>6, <1>7, <1>8, <1>9
     DEF Next, DriverStep, WriteStep

\* The parts of StepsLeft are numbers.
LEMMA LeftIsNat ==
  ASSUME TypeInv
  PROVE  /\ CallLeft \in Nat /\ RunLeft \in 0..3
         /\ RxLeft \in 0..4 /\ ArmLeft \in 0..4 /\ TxLeft \in Nat
<1>1. CallLeft \in Nat
  <2>1. /\ toRead \in Nat /\ (pc \in {"rTail", "rCopy"} => toRead > 0)
        /\ Len(wrBuf) \in Nat
    BY LenProperties DEF TypeInv, TypeOK, Busy
  <2>2. QED
    BY <2>1 DEF CallLeft
<1>2. RunLeft \in 0..3
  BY DEF TypeInv, TypeOK, RunLeft
<1>3. RxLeft \in 0..4 /\ ArmLeft \in 0..4
  BY DEF RxLeft, ArmLeft, RunSteps
<1>4. TxLeft \in Nat
  <2>1. /\ TxWaiting \in Nat /\ Len(txD) \in Nat /\ Len(shifter) \in Nat
        /\ TxWaiting = 0 <=> txHead = txTail
    BY TxFacts
  <2>2. CASE WillTransmit
    BY <2>1, <2>2 DEF TxLeft, WillTransmit, RunSteps
  <2>3. CASE ~WillTransmit
    BY <2>1, <2>3 DEF TxLeft
  <2>4. QED
    BY <2>2, <2>3
<1>5. QED
  BY <1>1, <1>2, <1>3, <1>4

\* While main has the processor no run of the handler is under way.
LEMMA IdleLeft ==
  /\ ipc = "idle" =>
       /\ RunLeft = 0 /\ ~Polling
       /\ RxLeft = IF rxD # <<>> THEN 4 ELSE 0
       /\ TxLeft = 8 * TxWaiting + 2 * Len(txD) + Len(shifter) - 0
       /\ ArmLeft = IF Armed THEN 4 ELSE 0
  /\ ipc' = "idle" =>
       /\ RunLeft' = 0 /\ ~Polling'
       /\ RxLeft' = IF rxD' # <<>> THEN 4 ELSE 0
       /\ TxLeft' = 8 * TxWaiting' + 2 * Len(txD') + Len(shifter') - 0
       /\ ArmLeft' = IF Armed' THEN 4 ELSE 0
<1>1. ipc = "idle" =>
        /\ ~WillReceive /\ ~WillTransmit /\ ~WillDisarm /\ ~Polling /\ RunLeft = 0
  BY DEF WillReceive, WillTransmit, WillDisarm, Polling, RunLeft
<1>2. ipc' = "idle" =>
        /\ ~WillReceive' /\ ~WillTransmit' /\ ~WillDisarm' /\ ~Polling' /\ RunLeft' = 0
  BY DEF WillReceive, WillTransmit, WillDisarm, Polling, RunLeft
<1>3. QED
  BY <1>1, <1>2 DEF RxLeft, TxLeft, ArmLeft, RunSteps

\* A byte into the ring or out of it is eight steps more or fewer.
LEMMA IdleMoves ==
  ASSUME TypeInv, ipc = "idle", ipc' = "idle", UNCHANGED <<txD, shifter>>,
         Armed' = Armed
  PROVE  /\ TxWaiting' = TxWaiting + 1 => TxLeft' = TxLeft + 8
         /\ TxWaiting' = TxWaiting - 1 => TxLeft' = TxLeft + (-8)
         /\ ArmLeft' = ArmLeft + 0
<1>1. TxWaiting \in Nat /\ Len(txD) \in Nat /\ Len(shifter) \in Nat
  BY TxFacts
<1>2. /\ TxLeft = 8 * TxWaiting + 2 * Len(txD) + Len(shifter) - 0
      /\ TxLeft' = 8 * TxWaiting' + 2 * Len(txD) + Len(shifter) - 0
      /\ ArmLeft = (IF Armed THEN 4 ELSE 0) /\ ArmLeft' = ArmLeft
  BY IdleLeft
<1>3. QED
  BY <1>1, <1>2

\* A step of main that touches neither the transmit ring nor the peripheral.
LEMMA CallGoesOn ==
  ASSUME TypeInv, ipc = "idle", ipc' = "idle",
         UNCHANGED <<txHead, txTail, txD, shifter, rxD>>, Armed' = Armed,
         CallLeft \in Nat, CallLeft' \in Nat, CallLeft' < CallLeft
  PROVE  StepsLeft' < StepsLeft
<1>1. /\ RunLeft' = RunLeft /\ RxLeft' = RxLeft /\ TxLeft' = TxLeft
      /\ ArmLeft' = ArmLeft
  BY IdleLeft DEF TxWaiting
<1>2. QED
  BY <1>1, LeftIsNat DEF StepsLeft

\* Sums that differ in three of five places.
LEMMA SumsDiffer ==
  ASSUME NEW c \in Nat, NEW d \in Nat, NEW u \in Int, NEW r \in Int, NEW x \in Int,
         NEW m \in Int, NEW t \in Int, NEW a \in Int, d + t + a < c
  PROVE  d + u + r + (x + t) + (m + a) < c + u + r + x + m
OBVIOUS

LEMMA SumDrops ==
  ASSUME NEW c \in Int, NEW r \in Int, NEW x \in Int, NEW t \in Int, NEW a \in Int,
         NEW s \in Int, NEW u \in Int, NEW b \in Int, s <= r, u < t, b <= a
  PROVE  c + s + x + u + b < c + r + x + t + a
OBVIOUS

LEMMA SumOfNats ==
  ASSUME NEW c \in Nat, NEW r \in Nat, NEW x \in Nat, NEW t \in Nat, NEW a \in Nat
  PROVE  c + r + x + t + a >= 0
OBVIOUS

\* One that moves a byte, too, or enables an interrupt.
LEMMA CallMoves ==
  ASSUME TypeInv, ipc = "idle", ipc' = "idle", rxD' = rxD,
         NEW t \in Int, NEW a \in Int, TxLeft' = TxLeft + t, ArmLeft' = ArmLeft + a,
         CallLeft \in Nat, CallLeft' \in Nat, CallLeft' + t + a < CallLeft
  PROVE  StepsLeft' < StepsLeft
<1>1. RunLeft' = RunLeft /\ RxLeft' = RxLeft
  BY IdleLeft
<1>2. RunLeft \in Int /\ RxLeft \in Int /\ TxLeft \in Int /\ ArmLeft \in Int
  BY LeftIsNat
<1>3. /\ StepsLeft = CallLeft + RunLeft + RxLeft + TxLeft + ArmLeft
      /\ StepsLeft' = CallLeft' + RunLeft + RxLeft + (TxLeft + t) + (ArmLeft + a)
  BY <1>1 DEF StepsLeft
<1>4. QED
  BY <1>2, <1>3, SumsDiffer

\* Uart_Init and Uart_Read.
LEMMA InitReadCounts ==
  ASSUME TypeInv, ArmInv, InitStep \/ ReadStep
  PROVE  StepsLeft' < StepsLeft
<1> USE DEF MainAt, Goto, isrVars, line, txPort, txRing, readLoc
<1>1. toRead \in Nat /\ (pc \in {"rTail", "rCopy"} => toRead > 0)
  BY DEF TypeInv, TypeOK, Busy
<1>2. /\ ipc = "idle" /\ ipc' = "idle"
      /\ UNCHANGED <<txHead, txTail, txD, shifter, rxD>> /\ Armed' = Armed
  <2>1. CASE InitRegisters
    BY <2>1 DEF InitRegisters, Armed
  <2>2. CASE InitTails \/ InitHeads
    BY <2>2 DEF InitTails, InitHeads, Armed, ArmInv, BootAt
  <2>3. CASE ReadStep
    BY <2>3 DEF ReadStep, ReadCheck, ReadTail, ReadCopy, Armed
  <2>4. QED
    BY <2>1, <2>2, <2>3 DEF InitStep
<1>3. CallLeft \in Nat /\ CallLeft' \in Nat /\ CallLeft' < CallLeft
  <2>1. CASE InitStep
    BY <2>1 DEF InitStep, InitRegisters, InitTails, InitHeads, CallLeft
  <2>2. CASE ReadCheck
    BY <1>1, <2>2 DEF ReadCheck, CallLeft
  <2>3. CASE ReadTail
    BY <1>1, <2>3 DEF ReadTail, CallLeft
  <2>4. CASE ReadCopy
    BY <1>1, <2>4 DEF ReadCopy, CallLeft
  <2>5. QED
    BY <2>1, <2>2, <2>3, <2>4 DEF ReadStep
<1>4. QED
  BY <1>2, <1>3, CallGoesOn

\* Uart_Write puts its bytes into the ring ...
LEMMA QueueCounts ==
  ASSUME TypeInv, TypeInv', TxInv, QueueStep
  PROVE  StepsLeft' < StepsLeft
<1> USE DEF MainAt, Goto, isrVars, line, txPort, txRing, writeLoc
<1>1. /\ wrBuf \in Seq(Nat) /\ Len(wrBuf) \in Nat
      /\ pc \in {"wSlot", "wHead", "wData"} => Len(wrBuf) > 0
  <2>1. wrBuf \in Seq(Nat) /\ (pc \in {"wSlot", "wHead", "wData"} => wrBuf # <<>>)
    BY DEF TypeInv, TypeOK, Busy
  <2>2. QED
    BY <2>1, LenProperties, EmptySeq
<1>2. CASE WriteSlot
  <2>1. /\ ipc = "idle" /\ ipc' = "idle" /\ Armed' = Armed
        /\ UNCHANGED <<txHead, txTail, txD, shifter, rxD>>
    BY <1>2 DEF WriteSlot, Armed
  <2>2. CallLeft \in Nat /\ CallLeft' \in Nat /\ CallLeft' < CallLeft
    BY <1>1, <1>2 DEF WriteSlot, CallLeft
  <2>3. QED
    BY <2>1, <2>2, CallGoesOn
<1>3. CASE WriteHead
  <2>1. /\ ipc = "idle" /\ ipc' = "idle" /\ Armed' = Armed
        /\ UNCHANGED <<txD, shifter, rxD>>
    BY <1>3 DEF WriteHead, Armed
  <2>2. TxWaiting' = TxWaiting + 1
    <3>1. /\ txHead' = NextSlot(txHead, TxSize) /\ txTail' = txTail
          /\ txTail # NextSlot(txHead, TxSize)
      BY <1>3 DEF WriteHead, TxNext, TxInv, TxFlow
    <3>2. QED
      BY <3>1, TxFacts, PutInRing DEF TxWaiting
  <2>3. CallLeft = 11 * Len(wrBuf) + 11 /\ CallLeft' = 11 * Len(wrBuf) + 2
    BY <1>3 DEF WriteHead, CallLeft
  <2>4. TxLeft' = TxLeft + 8 /\ ArmLeft' = ArmLeft + 0
    BY <2>1, <2>2, IdleMoves
  <2>5. QED
    BY <1>1, <2>1, <2>3, <2>4, CallMoves
<1>4. CASE WriteData
  <2>1. /\ ipc = "idle" /\ ipc' = "idle" /\ Armed' = Armed
        /\ UNCHANGED <<txHead, txTail, txD, shifter, rxD>>
    BY <1>4 DEF WriteData, Armed
  <2>2. /\ pc = "wData" /\ pc' = IF Len(wrBuf) > 1 THEN "wSlot" ELSE "wRts"
        /\ Len(wrBuf') = Len(wrBuf) - 1
    BY <1>1, <1>4, HeadTailProperties, EmptySeq DEF WriteData
  <2>3. CallLeft \in Nat /\ CallLeft' \in Nat /\ CallLeft' < CallLeft
    BY <1>1, <2>2 DEF CallLeft
  <2>4. QED
    BY <2>1, <2>3, CallGoesOn
<1>5. CASE WriteRts
  <2>1. /\ ipc = "idle" /\ ipc' = "idle" /\ Armed' = Armed
        /\ UNCHANGED <<txHead, txTail, txD, shifter, rxD>>
    BY <1>5 DEF WriteRts, Armed
  <2>2. CallLeft \in Nat /\ CallLeft' \in Nat /\ CallLeft' < CallLeft
    BY <1>5 DEF WriteRts, CallLeft
  <2>3. QED
    BY <2>1, <2>2, CallGoesOn
<1>6. QED
  BY <1>2, <1>3, <1>4, <1>5 DEF QueueStep

\* ... takes some out of it again ...
LEMMA DrainCounts ==
  ASSUME TypeInv, TypeInv', TxInv, DrainStep
  PROVE  StepsLeft' < StepsLeft
<1> USE DEF MainAt, Goto, isrVars, line, txPort, txRing, writeLoc
<1>1. CASE DrainCheck \/ DrainStatus \/ DrainTailLoad \/ DrainByte
  <2>1. /\ ipc = "idle" /\ ipc' = "idle" /\ Armed' = Armed
        /\ UNCHANGED <<txHead, txTail, txD, shifter, rxD>>
    BY <1>1 DEF DrainCheck, DrainStatus, DrainTailLoad, DrainByte, Armed
  <2>2. CallLeft \in Nat /\ CallLeft' \in Nat /\ CallLeft' < CallLeft
    BY <1>1 DEF DrainCheck, DrainStatus, DrainTailLoad, DrainByte, CallLeft
  <2>3. QED
    BY <2>1, <2>2, CallGoesOn
<1>2. CASE DrainTailStore
  <2>1. /\ ipc = "idle" /\ ipc' = "idle" /\ Armed' = Armed
        /\ UNCHANGED <<txD, shifter, rxD>>
    BY <1>2 DEF DrainTailStore, Armed
  <2>2. TxWaiting' = TxWaiting - 1
    <3>1. /\ txTail' = NextSlot(txTail, TxSize) /\ txHead' = txHead
          /\ txHead # txTail
      BY <1>2 DEF DrainTailStore, TxNext, TxInv, TxFlow
    <3>2. QED
      BY <3>1, TxFacts, GetFromRing DEF TxWaiting
  <2>3. CallLeft = 7 /\ CallLeft' = 14
    BY <1>2 DEF DrainTailStore, CallLeft
  <2>4. TxLeft' = TxLeft + (-8) /\ ArmLeft' = ArmLeft + 0
    BY <2>1, <2>2, IdleMoves
  <2>5. QED
    BY <2>1, <2>3, <2>4, CallMoves
<1>3. CASE DrainReg
  <2>1. /\ ipc = "idle" /\ ipc' = "idle" /\ Armed' = Armed
        /\ UNCHANGED <<txHead, txTail, shifter, rxD>>
    BY <1>3 DEF DrainReg, Armed
  <2>2. Len(txD) = 0 /\ Len(txD') = 1 /\ TxWaiting' = TxWaiting
    BY <1>3, TxFacts DEF DrainReg, TxInv, TxFlow, TxWaiting
  <2>3. CallLeft = 13 /\ CallLeft' = 10
    BY <1>3 DEF DrainReg, CallLeft
  <2>4. TxLeft' = TxLeft + 2
    <3>1. /\ TxLeft = 8 * TxWaiting + 2 * 0 + Len(shifter) - 0
          /\ TxLeft' = 8 * TxWaiting + 2 * 1 + Len(shifter) - 0
      BY <2>1, <2>2, IdleLeft
    <3>2. TxWaiting \in Nat /\ Len(shifter) \in Nat
      BY TxFacts
    <3>3. QED
      BY <3>1, <3>2
  <2>5. ArmLeft \in Int /\ ArmLeft' = ArmLeft
    BY <2>1, IdleLeft
  <2>6. ArmLeft' = ArmLeft + 0
    BY <2>5
  <2>7. QED
    BY <2>1, <2>3, <2>4, <2>6, CallMoves
<1>4. QED
  BY <1>1, <1>2, <1>3 DEF DrainStep

\* ... and enables the interrupt that will see to the rest.
LEMMA ArmCounts ==
  ASSUME TypeInv, ArmInv, ArmStep
  PROVE  StepsLeft' < StepsLeft
<1> USE DEF MainAt, Goto, isrVars, line, txPort, txRing, writeLoc
<1>1. CASE ArmChoose \/ ArmLoad
  <2>1. /\ ipc = "idle" /\ ipc' = "idle" /\ Armed' = Armed
        /\ UNCHANGED <<txHead, txTail, txD, shifter, rxD>>
    BY <1>1 DEF ArmChoose, ArmLoad, Armed
  <2>2. CallLeft \in Nat /\ CallLeft' \in Nat /\ CallLeft' < CallLeft
    BY <1>1 DEF ArmChoose, ArmLoad, CallLeft
  <2>3. QED
    BY <2>1, <2>2, CallGoesOn
<1>2. CASE ArmStore
  <2>1. /\ ipc = "idle" /\ ipc' = "idle" /\ ~Armed
        /\ UNCHANGED <<txHead, txTail, txD, shifter, rxD>>
    BY <1>2 DEF ArmStore, Armed, ArmInv, WriteAt
  <2>2. /\ CallLeft = 5 /\ CallLeft' = 0 /\ TxWaiting' = TxWaiting
    BY <1>2, <2>1 DEF ArmStore, CallLeft, TxWaiting
  <2>3. TxLeft' = TxLeft + 0
    BY <2>1, <2>2, IdleLeft, TxFacts
  <2>4. PICK a \in 0..4 : ArmLeft' = ArmLeft + a
    BY <2>1, IdleLeft
  <2>5. QED
    BY <2>1, <2>2, <2>3, <2>4, CallMoves
<1>3. QED
  BY <1>1, <1>2 DEF ArmStep

\* Uart_DeInit may enable again what the handler has just switched off.
LEMMA CloseCounts ==
  ASSUME TypeInv, DeInitStore
  PROVE  StepsLeft' < StepsLeft
<1>1. /\ ipc = "idle" /\ ipc' = "idle"
      /\ UNCHANGED <<txHead, txTail, txD, shifter, rxD>>
  BY DEF DeInitStore, MainAt, Goto, isrVars, line, txPort, txRing
<1>2. /\ CallLeft = 5 /\ CallLeft' = 0 /\ TxWaiting' = TxWaiting
  BY <1>1 DEF DeInitStore, MainAt, Goto, CallLeft, TxWaiting
<1>3. TxLeft' = TxLeft + 0
  BY <1>1, <1>2, IdleLeft, TxFacts
<1>4. PICK a \in -4..4 : ArmLeft' = ArmLeft + a
  BY <1>1, IdleLeft
<1>5. QED
  BY <1>1, <1>2, <1>3, <1>4, CallMoves

\* A run of the handler starts with something to do, or the last byte is in the
\* shifter.
LEMMA StatusCounts ==
  ASSUME TypeInv, IsrReadStatus
  PROVE  /\ StepsLeft' < StepsLeft \/ (StepsLeft' = StepsLeft /\ Polling')
         /\ Polling' => shifter # <<>>
<1>1. /\ ipc = "idle" /\ ipc' = "readD" /\ status' = S1 /\ Irq
      /\ UNCHANGED <<pc, toRead, wrBuf, txHead, txTail, txD, shifter, rxD, c2>>
  BY DEF IsrReadStatus, line, txPort, txRing, readLoc, writeLoc
<1>2. /\ CallLeft' = CallLeft /\ TxWaiting' = TxWaiting /\ Armed' = Armed
      /\ Len(txD') = Len(txD) /\ Len(shifter') = Len(shifter)
  BY <1>1 DEF CallLeft, TxWaiting, Armed
<1>3. /\ RunLeft = 0 /\ RxLeft = IF rxD # <<>> THEN 4 ELSE 0
      /\ TxLeft = 8 * TxWaiting + 2 * Len(txD) + Len(shifter) - 0
      /\ ArmLeft = IF Armed THEN 4 ELSE 0
  BY <1>1, IdleLeft
<1>4. /\ RxLeft' = 0
      /\ RunLeft' = IF Polling' THEN 0 ELSE 3
      /\ TxLeft' = TxLeft - (IF WillTransmit' THEN 4 ELSE 0)
      /\ ArmLeft' = IF Armed /\ ~WillDisarm' THEN 4 ELSE 0
  <2>1. rxD' # <<>> => WillReceive'
    BY <1>1 DEF WillReceive, S1
  <2>2. RxLeft' = 0 /\ RunLeft' = IF Polling' THEN 0 ELSE 3
    BY <1>1, <2>1 DEF RxLeft, RunLeft
  <2>3. ArmLeft' = IF Armed /\ ~WillDisarm' THEN 4 ELSE 0
    BY <1>2 DEF ArmLeft, RunSteps
  <2>4. TxLeft' = TxLeft - (IF WillTransmit' THEN 4 ELSE 0)
    <3>1. /\ TxLeft' = 8 * TxWaiting + 2 * Len(txD) + Len(shifter)
                         - (IF WillTransmit' THEN 4 ELSE 0)
          /\ TxLeft = 8 * TxWaiting + 2 * Len(txD) + Len(shifter) - 0
      BY <1>2, <1>3 DEF TxLeft, RunSteps
    <3>2. /\ TxWaiting \in Nat /\ Len(txD) \in Nat /\ Len(shifter) \in Nat
      BY TxFacts
    <3>3. QED
      BY <3>1, <3>2
  <2>5. QED
    BY <2>2, <2>3, <2>4
<1>5. \/ rxD # <<>>
      \/ WillTransmit'
      \/ Armed /\ WillDisarm'
      \/ Armed /\ Polling' /\ ~WillDisarm' /\ ~WillTransmit' /\ rxD = <<>>
  BY <1>1 DEF Irq, S1, WillTransmit, WillDisarm, Armed, Polling
<1>6. Polling' => shifter # <<>>
  BY <1>1 DEF Polling, S1
<1>7. StepsLeft' < StepsLeft \/ (StepsLeft' = StepsLeft /\ Polling')
  <2>1. CallLeft \in Nat /\ TxLeft \in Nat
    BY LeftIsNat
  <2>2. /\ StepsLeft = CallLeft + 0 + (IF rxD # <<>> THEN 4 ELSE 0) + TxLeft
                         + (IF Armed THEN 4 ELSE 0)
        /\ StepsLeft' = CallLeft + (IF Polling' THEN 0 ELSE 3) + 0
                         + (TxLeft - (IF WillTransmit' THEN 4 ELSE 0))
                         + (IF Armed /\ ~WillDisarm' THEN 4 ELSE 0)
    BY <1>2, <1>3, <1>4 DEF StepsLeft
  <2>3. QED
    BY <1>5, <2>1, <2>2
<1>8. QED
  BY <1>6, <1>7

\* The byte in D is taken.
LEMMA ReceiveCounts ==
  ASSUME TypeInv, RunInv, IsrReceive
  PROVE  StepsLeft' < StepsLeft \/ (StepsLeft' = StepsLeft /\ Polling)
<1>1. /\ ipc = "readD"
      /\ ipc' = IF "TDRE" \in status /\ "TIE" \in c2 THEN "tx" ELSE "tc"
      /\ UNCHANGED <<pc, toRead, wrBuf, txHead, txTail, txD, shifter, c2, status>>
      /\ rxD' = IF "RDRF" \in status THEN <<>> ELSE rxD
  BY DEF IsrReceive, txPort, txRing, readLoc, writeLoc
<1>2. /\ CallLeft' = CallLeft /\ TxWaiting' = TxWaiting /\ Armed' = Armed
      /\ Len(txD') = Len(txD) /\ Len(shifter') = Len(shifter)
      /\ Polling' = Polling
  BY <1>1 DEF CallLeft, TxWaiting, Armed, Polling
<1>3. RxLeft' = RxLeft
  BY <1>1 DEF RxLeft, WillReceive
<1>4. WillTransmit' = WillTransmit /\ TxLeft' = TxLeft
  BY <1>1, <1>2 DEF TxLeft, WillTransmit
<1>5. ArmLeft' = ArmLeft
  BY <1>1, <1>2 DEF ArmLeft, WillDisarm, RunInv, Armed
<1>6. IF Polling THEN RunLeft = 0 /\ RunLeft' = 0
                 ELSE RunLeft = 3 /\ RunLeft' \in 1..2
  BY <1>1, <1>2 DEF RunLeft
<1>7. /\ CallLeft \in Nat /\ RxLeft \in Int /\ TxLeft \in Nat /\ ArmLeft \in Int
  BY LeftIsNat
<1>8. /\ StepsLeft = CallLeft + RunLeft + RxLeft + TxLeft + ArmLeft
      /\ StepsLeft' = CallLeft + RunLeft' + RxLeft + TxLeft + ArmLeft
  BY <1>2, <1>3, <1>4, <1>5 DEF StepsLeft
<1>9. CASE Polling
  BY <1>6, <1>7, <1>8, <1>9
<1>10. CASE ~Polling
  BY <1>6, <1>7, <1>8, <1>10
<1>11. QED
  BY <1>9, <1>10

\* A byte goes from the ring to D.
LEMMA TransmitCounts ==
  ASSUME TypeInv, RunInv, IsrTransmit
  PROVE  StepsLeft' < StepsLeft
<1>1. /\ ipc = "tx" /\ ipc' = "tx" /\ txHead # txTail /\ txD = <<>> /\ Len(txD') = 1
      /\ txTail' = NextSlot(txTail, TxSize)
      /\ UNCHANGED <<pc, toRead, wrBuf, txHead, shifter, rxD, c2, status>>
  BY DEF IsrTransmit, S1, TxNext, txPort, txRing, readLoc, writeLoc, line, isrVars
<1>2. CallLeft' = CallLeft /\ RxLeft' = RxLeft /\ Armed' = Armed
  BY <1>1 DEF CallLeft, RxLeft, WillReceive, Armed
<1>3. RunLeft = 2 /\ RunLeft' \in 0..2
  BY <1>1 DEF RunLeft, Polling
<1>4. TxLeft' = TxLeft - 2
  <2>1. TxWaiting \in Nat /\ Len(shifter) \in Nat /\ Len(txD) = 0
    BY <1>1, TxFacts
  <2>2. TxWaiting' = TxWaiting - 1
    BY <1>1, TxFacts, GetFromRing DEF TxWaiting
  <2>3. WillTransmit /\ ~WillTransmit'
    <3>1. txD' # <<>>
      BY <1>1, EmptySeq
    <3>2. QED
      BY <1>1, <3>1 DEF WillTransmit, RunInv
  <2>4. /\ TxLeft = 8 * TxWaiting + 2 * 0 + Len(shifter) - 4
        /\ TxLeft' = 8 * (TxWaiting - 1) + 2 * 1 + Len(shifter) - 0
    BY <1>1, <2>1, <2>2, <2>3 DEF TxLeft, RunSteps
  <2>5. QED
    BY <2>1, <2>4
<1>5. ArmLeft' <= ArmLeft /\ ArmLeft' \in 0..4
  <2>1. WillDisarm => WillDisarm'
    BY <1>1 DEF WillDisarm
  <2>2. QED
    BY <1>2, <2>1 DEF ArmLeft, RunSteps
<1>6. /\ CallLeft \in Nat /\ RxLeft \in Int /\ TxLeft \in Nat /\ ArmLeft \in 0..4
  BY LeftIsNat
<1>7. /\ StepsLeft = CallLeft + RunLeft + RxLeft + TxLeft + ArmLeft
      /\ StepsLeft' = CallLeft + RunLeft' + RxLeft + TxLeft' + ArmLeft'
  BY <1>2 DEF StepsLeft
<1>8. /\ RunLeft \in Int /\ RunLeft' \in Int /\ RunLeft' <= RunLeft
      /\ TxLeft' \in Int /\ TxLeft' < TxLeft
  BY <1>3, <1>4, <1>6
<1>9. CallLeft \in Int /\ TxLeft \in Int /\ ArmLeft \in Int /\ ArmLeft' \in Int
  BY <1>5, <1>6
<1>10. QED
  BY <1>5, <1>6, <1>7, <1>8, <1>9, SumDrops

\* The handler leaves its transmit part, and leaves at all.
LEMMA EndCounts ==
  ASSUME Channel = 2, TypeInv, ArmInv, RunInv, IsrTransmitEnd \/ IsrComplete
  PROVE  StepsLeft' < StepsLeft \/ (StepsLeft' = StepsLeft /\ Polling)
<1>1. /\ ipc \in {"tx", "tc"}
      /\ UNCHANGED <<pc, toRead, wrBuf, txHead, txTail, txD, shifter, rxD>>
  BY DEF IsrTransmitEnd, IsrComplete, txPort, txRing, readLoc, writeLoc, line
<1>2. /\ CallLeft' = CallLeft /\ TxWaiting' = TxWaiting
      /\ Len(txD') = Len(txD) /\ Len(shifter') = Len(shifter)
  BY <1>1 DEF CallLeft, TxWaiting
<1>3. RxLeft' = RxLeft
  BY <1>1 DEF RxLeft, WillReceive, IsrTransmitEnd, IsrComplete
<1>4. TxLeft' = TxLeft
  <2>1. ~WillTransmit /\ ~WillTransmit'
    BY <1>1 DEF WillTransmit, IsrTransmitEnd, IsrComplete, S1
  <2>2. QED
    BY <1>2, <2>1 DEF TxLeft
<1>5. ArmLeft' = ArmLeft
  <2>1. CASE IsrTransmitEnd
    <3>1. /\ ipc = "tx" /\ ipc' = "tc" /\ status' = status /\ "TIE" \in c2
          /\ c2' = c2 \cup {IF txHead # txTail THEN "TE" ELSE "TCIE"}
      BY <2>1 DEF IsrTransmitEnd, RunInv
    <3>2. Armed /\ Armed'
      BY <3>1 DEF Armed
    <3>3. WillDisarm' = WillDisarm
      BY <3>1 DEF WillDisarm, ArmInv
    <3>4. QED
      BY <3>2, <3>3 DEF ArmLeft
  <2>2. CASE IsrComplete
    <3>1. /\ ipc = "tc" /\ ipc' = "idle"
          /\ c2' = IF WillDisarm THEN c2 \ {"TIE", "TCIE"} ELSE c2
      BY <2>2 DEF IsrComplete, WillDisarm
    <3>2. ~WillDisarm'
      BY <3>1 DEF WillDisarm
    <3>3. Armed' = (Armed /\ ~WillDisarm)
      BY <3>1 DEF Armed
    <3>4. QED
      BY <3>2, <3>3 DEF ArmLeft
  <2>3. QED
    BY <2>1, <2>2
<1>6. IF Polling THEN RunLeft = 0 /\ RunLeft' = 0
                 ELSE RunLeft \in 1..2 /\ RunLeft' = RunLeft - 1
  BY <1>1 DEF RunLeft, Polling, IsrTransmitEnd, IsrComplete
<1>7. /\ CallLeft \in Nat /\ RxLeft \in Int /\ TxLeft \in Nat /\ ArmLeft \in Int
  BY LeftIsNat
<1>8. /\ StepsLeft = CallLeft + RunLeft + RxLeft + TxLeft + ArmLeft
      /\ StepsLeft' = CallLeft + RunLeft' + RxLeft + TxLeft + ArmLeft
  BY <1>2, <1>3, <1>4, <1>5 DEF StepsLeft
<1>9. CASE Polling
  BY <1>6, <1>7, <1>8, <1>9
<1>10. CASE ~Polling
  BY <1>6, <1>7, <1>8, <1>10
<1>11. QED
  BY <1>9, <1>10

\* The transmitter takes the byte in D and puts it on the wire.
LEMMA ShiftCounts ==
  ASSUME TypeInv, ShiftLoad \/ ShiftDone
  PROVE  StepsLeft' < StepsLeft
<1>1. UNCHANGED <<pc, toRead, wrBuf, txHead, txTail, rxD, ipc, status, c2>>
  BY DEF ShiftLoad, ShiftDone, txRing, readLoc, writeLoc, line, isrVars
<1>2. /\ CallLeft' = CallLeft /\ RunLeft' = RunLeft /\ RxLeft' = RxLeft
      /\ ArmLeft' = ArmLeft /\ TxWaiting' = TxWaiting
  BY <1>1 DEF CallLeft, RunLeft, Polling, RxLeft, WillReceive, ArmLeft, Armed,
              WillDisarm, TxWaiting
<1>3. TxWaiting \in Nat /\ Len(txD) \in 0..1 /\ Len(shifter) \in 0..1
  BY TxFacts
<1>4. /\ TxLeft = 8 * TxWaiting + 2 * Len(txD) + Len(shifter)
                    - (IF WillTransmit THEN 4 ELSE 0)
      /\ TxLeft' = 8 * TxWaiting + 2 * Len(txD') + Len(shifter')
                    - (IF WillTransmit' THEN 4 ELSE 0)
  BY <1>2 DEF TxLeft, RunSteps
<1>5. TxLeft' \in Int /\ TxLeft' < TxLeft
  <2>1. CASE ShiftLoad
    <3>1. Len(txD) = 1 /\ Len(shifter) = 0 /\ txD # <<>>
      BY <2>1, <1>3, TxFacts DEF ShiftLoad
    <3>2. Len(txD') = 0 /\ Len(shifter') = 1 /\ ~WillTransmit
      BY <2>1, <3>1, EmptySeq DEF ShiftLoad, WillTransmit
    <3>3. QED
      BY <1>3, <1>4, <3>1, <3>2
  <2>2. CASE ShiftDone
    <3>1. Len(shifter) = 1
      BY <2>2, <1>3, TxFacts DEF ShiftDone
    <3>2. Len(txD') = Len(txD) /\ Len(shifter') = 0 /\ WillTransmit' = WillTransmit
      BY <2>2, <1>1, EmptySeq DEF ShiftDone, WillTransmit
    <3>3. QED
      BY <1>3, <1>4, <3>1, <3>2
  <2>3. QED
    BY <2>1, <2>2
<1>6. /\ CallLeft \in Nat /\ RxLeft \in Int /\ TxLeft \in Nat /\ ArmLeft \in Int
      /\ RunLeft \in Int
  BY LeftIsNat
<1>7. /\ StepsLeft = CallLeft + RunLeft + RxLeft + TxLeft + ArmLeft
      /\ StepsLeft' = CallLeft + RunLeft + RxLeft + TxLeft' + ArmLeft
  BY <1>2 DEF StepsLeft
<1>8. CallLeft \in Int /\ TxLeft \in Int
  BY <1>6
<1>9. RunLeft <= RunLeft /\ ArmLeft <= ArmLeft
  BY <1>6
<1>10. QED
  BY <1>5, <1>6, <1>7, <1>8, <1>9, SumDrops

\* For the handler of channel 2 and a client that waits, the driver, its handler
\* and the transmitter use up the work a call or a byte brings, at every step and
\* in every order; the one exception is the handler that is started for nothing
\* while the last byte is shifted out.
THEOREM WorkIsUsedUp ==
  ASSUME Channel = 2, ~Overlap
  PROVE  Spec => EveryStepCounts
<1> DEFINE Counts ==
      /\ StepsLeft >= 0
      /\ DriverStep \/ Isr \/ ShiftLoad \/ ShiftDone =>
           \/ StepsLeft' < StepsLeft
           \/ StepsLeft' = StepsLeft /\ (Polling \/ Polling')
      /\ ipc = "idle" /\ Polling' => shifter # <<>>
<1>1. ASSUME TypeInv, TypeInv', ArmInv, TxInv, RunInv, [Next]_vars
      PROVE  [Counts]_vars
  <2>1. StepsLeft >= 0
    <3>1. /\ CallLeft \in Nat /\ RunLeft \in Nat /\ RxLeft \in Nat
          /\ TxLeft \in Nat /\ ArmLeft \in Nat
      BY <1>1, LeftIsNat
    <3>2. QED
      BY <3>1, SumOfNats DEF StepsLeft
  <2>2. CASE DriverStep
    <3>1. StepsLeft' < StepsLeft
      BY <1>1, <2>2, InitReadCounts, QueueCounts, DrainCounts, ArmCounts,
         CloseCounts
         DEF DriverStep, WriteStep
    <3>2. ~Polling'
      <4>1. ipc' = "idle"
        BY <2>2 DEF DriverStep, WriteStep, InitStep, ReadStep, QueueStep, DrainStep,
             ArmStep, InitRegisters, InitTails, InitHeads, ReadCheck, ReadTail,
             ReadCopy, WriteSlot, WriteHead, WriteData, WriteRts, DrainCheck,
             DrainStatus, DrainTailLoad, DrainTailStore, DrainByte, DrainReg,
             ArmChoose, ArmLoad, ArmStore, DeInitStore, MainAt, Goto, isrVars
      <4>2. QED
        BY <4>1 DEF Polling
    <3>3. QED
      BY <2>1, <3>1, <3>2
  <2>3. CASE Isr
    <3>1. CASE IsrReadStatus
      BY <1>1, <2>1, <3>1, StatusCounts
    <3>2. CASE IsrReceive \/ IsrTransmit \/ IsrTransmitEnd \/ IsrComplete
      <4>1. ipc # "idle"
        BY <3>2 DEF IsrReceive, IsrTransmit, IsrTransmitEnd, IsrComplete
      <4>2. QED
        BY <1>1, <2>1, <3>2, <4>1, ReceiveCounts, TransmitCounts, EndCounts
    <3>3. QED
      BY <2>3, <3>1, <3>2 DEF Isr
  <2>4. CASE Client \/ Peripheral
    <3>1. ipc' = ipc
      BY <2>4 DEF Client, CallRead, CallWrite, Uart_DeInit, Peripheral, PeerSends,
                  ShiftLoad, ShiftDone, MainAt, Goto, isrVars
    <3>2. ~(ipc = "idle" /\ Polling')
      BY <3>1 DEF Polling
    <3>3. ShiftLoad \/ ShiftDone => StepsLeft' < StepsLeft
      BY <1>1, ShiftCounts
    <3>4. CASE DriverStep \/ Isr
      BY <2>2, <2>3, <3>4
    <3>5. QED
      BY <2>1, <3>2, <3>3, <3>4
  <2>5. CASE UNCHANGED vars
    BY <2>5
  <2>6. QED
    BY <1>1, <2>2, <2>3, <2>4, <2>5 DEF Next
<1>2. TypeInv /\ TypeInv' /\ ArmInv /\ TxInv /\ RunInv /\ [Next]_vars => [Counts]_vars
  BY <1>1
<1>3. Init /\ [][Next]_vars => []ArmInv
  <2>1. TypeInv /\ ArmInv /\ [Next]_vars => ArmInv'
    BY MainArm, IsrArm DEF Next
  <2>2. QED
    BY <2>1, InitArm, Typing, PTL DEF Spec
<1>4. QED
  BY <1>2, <1>3, InitRun, NextRun, Typing, TxInvariant, PTL DEF Spec, EveryStepCounts

\* Once Uart_Init has written the registers the transmitter and the interrupt of
\* the channel stay enabled, Uart_DeInit or not.
UpInv ==
  /\ pc # "boot" => nvic /\ "TE" \in c2
  /\ pc \in {"armStore", "closing"} => "TE" \in c2reg

LEMMA NextUp == UpInv /\ [Next]_vars => UpInv'
<1> SUFFICES ASSUME UpInv, [Next]_vars
             PROVE  UpInv'
  OBVIOUS
<1> USE DEF UpInv, MainAt, Goto, isrVars, regs
<1>1. CASE InitStep
  BY <1>1 DEF InitStep, InitRegisters, InitTails, InitHeads
<1>2. CASE ReadStep
  BY <1>2 DEF ReadStep, ReadCheck, ReadTail, ReadCopy
<1>3. CASE QueueStep
  BY <1>3 DEF QueueStep, WriteSlot, WriteHead, WriteData, WriteRts
<1>4. CASE DrainStep
  BY <1>4 DEF DrainStep, DrainCheck, DrainStatus, DrainTailLoad,
              DrainTailStore, DrainByte, DrainReg
<1>5. CASE ArmStep \/ DeInitStore
  BY <1>5 DEF ArmStep, ArmChoose, ArmLoad, ArmStore, DeInitStore
<1>6. CASE Client
  BY <1>6 DEF Client, CallRead, CallWrite, Uart_DeInit
<1>7. CASE Isr
  BY <1>7 DEF Isr, IsrReadStatus, IsrReceive, IsrTransmit, IsrTransmitEnd,
              IsrComplete
<1>8. CASE Peripheral
  BY <1>8 DEF Peripheral, PeerSends, ShiftLoad, ShiftDone
<1>9. CASE UNCHANGED vars
  BY <1>9 DEF vars
<1>10. QED
  BY <1>1, <1>2, <1>3, <1>4, <1>5, <1>6, <1>7, <1>8, <1>9
     DEF Next, DriverStep, WriteStep

\* What is on the wire was accepted, byte for byte.
WireInv ==
  /\ Len(wire) <= Len(txAcc)
  /\ \A i \in 1 .. Len(wire) : wire[i] = txAcc[i]

LEMMA NextWire ==
  ASSUME TypeInv, TypeInv', TxInv, TxInv', StartInv, WireInv, [Next]_vars
  PROVE  WireInv'
<1>1. /\ wire \in Seq(Nat) /\ txAcc \in Seq(Nat)
      /\ Len(wire) \in Nat /\ Len(txAcc) \in Nat
  BY LenProperties DEF TypeInv, TypeOK
<1>2. CASE UNCHANGED <<txAcc, wire, Ready>>
  BY <1>2 DEF WireInv
<1>3. CASE InitHeads
  BY <1>3 DEF InitHeads, WireInv, writeLoc, txPort
<1>4. CASE WriteData
  <2>1. /\ Head(wrBuf) \in Nat /\ txAcc' = Append(txAcc, Head(wrBuf)) /\ wire' = wire
    BY <1>4, FirstByte DEF WriteData, TypeInv, TypeOK, Busy, MainAt, txPort
  <2>2. /\ Len(txAcc') = Len(txAcc) + 1
        /\ \A i \in 1 .. Len(txAcc) : txAcc'[i] = txAcc[i]
    BY <1>1, <2>1, AppendProperties
  <2>3. \A i \in 1 .. Len(wire) : i \in 1 .. Len(txAcc)
    BY <1>1 DEF WireInv
  <2>4. QED
    BY <1>1, <2>1, <2>2, <2>3 DEF WireInv
<1>5. CASE ShiftDone
  <2>1. /\ wire' = wire \o shifter /\ txAcc' = txAcc /\ shifter \in Seq(Nat)
        /\ shifter # <<>>
    BY <1>5 DEF ShiftDone, writeLoc, TypeInv, TypeOK
  <2>2. Len(shifter) = 1 /\ shifter[1] = txAcc[Len(wire) + 1]
    BY <2>1, TxFacts DEF TxInv, TxData
  <2>3. /\ Len(wire') = Len(wire) + 1 /\ wire'[Len(wire) + 1] = shifter[1]
        /\ \A i \in 1 .. Len(wire) : wire'[i] = wire[i]
    <3>1. wire' = Append(wire, shifter[1])
      BY <1>1, <2>1, <2>2, OneMore
    <3>2. shifter[1] \in Nat
      <4>1. 1 \in 1 .. Len(shifter)
        BY <2>2
      <4>2. QED
        BY <2>1, <4>1, ElementOfSeq
    <3>3. QED
      BY <1>1, <3>1, <3>2, AppendProperties
  <2>4. Len(wire) + 1 <= Len(txAcc)
    <3>1. /\ Len(txAcc) + Reserved = Loaded + TxInHand + TxWaiting
          /\ Reserved \in {0, 1} /\ TxInHand \in {0, 1}
          /\ Reserved = 1 => TxWaiting > 0
      BY TxFacts DEF TxInv, TxFlow, Reserved, TxInHand
    <3>2. QED
      BY <1>1, <2>2, <3>1, TxFacts DEF Loaded
  <2>5. ASSUME NEW i \in 1 .. Len(wire')
        PROVE  wire'[i] = txAcc[i]
    <3>1. i \in 1 .. Len(wire) \/ i = Len(wire) + 1
      BY <1>1, <2>3
    <3>2. QED
      BY <2>1, <2>2, <2>3, <3>1 DEF WireInv
  <2>6. QED
    BY <2>1, <2>3, <2>4, <2>5 DEF WireInv
<1>6. QED
  BY <1>2, <1>3, <1>4, <1>5, TxOutside

\* Where main has returned, no interrupt is pending and the transmitter has
\* nothing to load or to shift, nothing is left to do: no missing enable bit can
\* leave a byte behind, whatever calls, interrupts and bytes came before.
THEOREM AtRestAllIsDone ==
  ASSUME ~Overlap
  PROVE  Spec => []RestMeansDone
<1>1. ASSUME TypeInv, RieInv, ArmInv, TxInv, UpInv, WireInv
      PROVE  RestMeansDone
  <2>1. SUFFICES ASSUME AtRest
                 PROVE  rxD = <<>> /\ TxQuiet /\ wire = txAcc
    BY DEF RestMeansDone
  <2>2. /\ pc = "app" /\ nvic /\ "RIE" \in c2 /\ ~Irq
        /\ shifter = <<>> /\ txD = <<>>
    BY <1>1, <2>1 DEF AtRest, RieInv, UpInv
  <2>3. rxD = <<>> /\ "TIE" \notin c2 /\ "TCIE" \notin c2
    BY <2>2 DEF Irq, S1
  <2>4. txHead = txTail
    BY <1>1, <2>2, <2>3 DEF ArmInv, WriteAt
  <2>5. TxQuiet
    BY <2>3, <2>4 DEF TxQuiet
  <2>6. Len(wire) = Len(txAcc)
    <3>1. Len(txAcc) + Reserved = Loaded + TxInHand + TxWaiting
      BY <1>1 DEF TxInv, TxFlow
    <3>2. /\ TxWaiting = 0 /\ Len(txAcc) \in Nat /\ Len(wire) \in Nat
          /\ Len(shifter) = 0 /\ Len(txD) = 0 /\ Reserved = 0 /\ TxInHand = 0
      BY <1>1, <2>2, <2>4, TxFacts DEF Reserved, TxInHand
    <3>3. QED
      BY <3>1, <3>2 DEF Loaded
  <2>7. wire = txAcc
    <3>1. wire \in Seq(Nat) /\ txAcc \in Seq(Nat)
      BY <1>1 DEF TypeInv, TypeOK
    <3>2. \A i \in 1 .. Len(wire) : wire[i] = txAcc[i]
      BY <1>1 DEF WireInv
    <3>3. QED
      BY <2>6, <3>1, <3>2, SeqEqual
  <2>8. QED
    BY <2>3, <2>5, <2>7
<1>2. TypeInv /\ RieInv /\ ArmInv /\ TxInv /\ UpInv /\ WireInv => RestMeansDone
  BY <1>1
<1>3. Init => UpInv /\ StartInv /\ WireInv
  BY EmptySeq DEF Init, UpInv, StartInv, WireInv
<1>4. TypeInv /\ TxInv /\ StartInv /\ [Next]_vars => StartInv'
  BY NextStart
<1>5. TypeInv /\ TypeInv' /\ TxInv /\ TxInv' /\ StartInv /\ WireInv /\ [Next]_vars
        => WireInv'
  BY NextWire
<1>6. Init /\ [][Next]_vars => []RieInv /\ []UpInv
  BY <1>3, InitRie, NextRie, NextUp, PTL
<1>7. QED
  BY <1>2, <1>3, <1>4, <1>5, <1>6, Typing, TxInvariant, PTL DEF Spec
-----------------------------------------------------------------------------
(***************************************************************************)
(* The echo program.  Its driver is the one above, so the invariants of    *)
(* the receive side hold; its calls are not Client's, but steps of the     *)
(* same kind.                                                              *)
(***************************************************************************)

\* main.c's chunk has bytes in it, and its end of line is a string.
EchoConstants == Chunk \in Nat \ {0} /\ EndOfLine \in Seq(Nat)

\* The level is wrong while the head has wrapped and the tail has not; but no longer
\* than that, and so main.c's loop throws little away: less than a chunk for each
\* time the tail goes round the ring.
LossIsBounded ==
  app = "poll" =>
    Len(rxGot) - Len(handed) <= (Chunk - 1) * (Len(rxGot) \div RxSize)

\* recvBytes is made of bytes that were read.
LEMMA ReceivedType ==
  ASSUME TypeInv, nRead <= Len(rxGot)
  PROVE  Received \in Seq(Nat) /\ Len(Received) = nRead
<1>1. /\ rxGot \in Seq(RxBytes) /\ nRead \in Nat /\ Len(rxGot) \in Nat
  BY LenProperties DEF TypeInv, TypeOK
<1>2. PICK from \in Nat : from = Len(rxGot) - nRead
  BY <1>1
<1>3. /\ Received = SubSeq(rxGot, from + 1, Len(rxGot))
      /\ from + 1 \in Int /\ Len(rxGot) \in Int
  BY <1>1, <1>2 DEF Received
<1>4. RxBytes \subseteq Nat
  BY ConstantsAssumption DEF RxBytes
<1>5. \A i \in (from + 1) .. Len(rxGot) : rxGot[i] \in Nat
  <2>1. \A i \in 1 .. Len(rxGot) : rxGot[i] \in RxBytes
    BY <1>1, ElementOfSeq
  <2>2. \A i \in (from + 1) .. Len(rxGot) : i \in 1 .. Len(rxGot)
    BY <1>1, <1>2
  <2>3. QED
    BY <1>4, <2>1, <2>2, Zenon
<1>6. PICK m \in Int : m = from + 1
  BY <1>3
<1>7. PICK n \in Int : n = Len(rxGot)
  BY <1>3
<1>8. /\ SubSeq(rxGot, m, n) \in Seq(Nat)
      /\ Len(SubSeq(rxGot, m, n)) = IF m <= n THEN n - m + 1 ELSE 0
  BY <1>5, <1>6, <1>7, SubSeqProperties
<1>9. QED
  BY <1>1, <1>2, <1>3, <1>6, <1>7, <1>8

\* The number of times the receive indices have come round after n bytes, and what
\* may be lost by then.
Rounds(n)  == n \div RxSize
Allowed(n) == (Chunk - 1) * Rounds(n)

\* A chunk but for one byte is allowed for every round.
LEMMA AllowedGrows ==
  ASSUME EchoConstants, NEW m \in Nat, NEW n \in Nat, m <= n
  PROVE  /\ Allowed(m) \in Nat /\ Allowed(n) \in Nat
         /\ Allowed(m) <= Allowed(n)
         /\ Rounds(m) < Rounds(n) => Allowed(m) + Chunk - 1 <= Allowed(n)
<1>1. /\ RxSize \in Nat /\ RxSize > 0
  BY ConstantsAssumption
<1>2. PICK c \in Nat : c = Chunk - 1
  BY DEF EchoConstants
<1>3. Rounds(m) \in Nat /\ Rounds(n) \in Nat /\ Rounds(m) <= Rounds(n)
  BY <1>1, RoundOrder DEF Rounds
<1>4. PICK x \in Nat : x = Rounds(m)
  BY <1>3
<1>5. PICK k \in Nat : Rounds(n) = x + k
  BY <1>3, <1>4, Rounds(n) - x \in Nat
<1>6. Allowed(m) = c * x /\ Allowed(n) = c * (x + k)
  BY <1>2, <1>4, <1>5 DEF Allowed
<1>7. c * (x + k) = c * x + c * k /\ c * x \in Nat /\ c * k \in Nat
  OBVIOUS
<1>8. k # 0 => c * k >= c
  <2>1. SUFFICES ASSUME k # 0 PROVE c * k >= c
    OBVIOUS
  <2>2. PICK j \in Nat : k = 1 + j
    BY <2>1, k - 1 \in Nat
  <2>3. c * k = c + c * j /\ c * j \in Nat
    BY <2>2
  <2>4. QED
    BY <2>3
<1>9. Rounds(m) < Rounds(n) => k # 0
  BY <1>3, <1>4, <1>5
<1>10. Chunk = c + 1
  BY <1>2 DEF EchoConstants
<1>11. QED
  BY <1>6, <1>7, <1>8, <1>9, <1>10

\* The indices count the bytes, modulo the ring's size.
IndexInv ==
  /\ Ready => /\ rxHead = Len(rxAcc) % RxSize
              /\ rxTail = (Len(rxGot) + InHand) % RxSize
  /\ ~Ready => rxGot = <<>>

\* What the index after a count is.
LEMMA NextIndex ==
  ASSUME NEW n \in Nat
  PROVE  NextSlot(n % RxSize, RxSize) = (n + 1) % RxSize
<1>1. RxSize \in Nat /\ RxSize > 1 /\ RxSize > 0
  BY ConstantsAssumption
<1>2. /\ n % RxSize \in 0 .. RxSize - 1
      /\ (n + 1) % RxSize = IF n % RxSize = RxSize - 1 THEN 0 ELSE (n % RxSize) + 1
  BY <1>1, ModStep, Zenon
<1>3. PICK i \in Slots(RxSize) : i = n % RxSize
  BY <1>2 DEF Slots
<1>4. NextSlot(i, RxSize) = IF i + 1 < RxSize THEN i + 1 ELSE 0
  BY <1>1, NextSlotIs
<1>5. (n + 1) % RxSize = IF i = RxSize - 1 THEN 0 ELSE i + 1
  BY <1>2, <1>3, Zenon
<1>6. NextSlot(i, RxSize) = (n + 1) % RxSize
  BY <1>1, <1>4, <1>5 DEF Slots
<1>7. QED
  BY <1>3, <1>6, Zenon

\* The steps of the driver, its handler and the peripheral, by what they do to the
\* receive side.
LEMMA ReceiveSteps ==
  ASSUME DriverStep \/ Isr \/ Peripheral
  PROVE  RxQuiet \/ InitTails \/ InitHeads \/ ReadTail \/ ReadCopy \/ IsrReceive
BY QuietSteps DEF DriverStep, InitStep, ReadStep, Isr

LEMMA QuietKeepsIndex == IndexInv /\ RxQuiet => IndexInv'
BY DEF IndexInv, RxQuiet, InHand

LEMMA MovesKeepIndex ==
  ASSUME TypeInv, RxInv, IndexInv, DriverStep \/ Isr \/ Peripheral
  PROVE  IndexInv'
<1>1. CASE RxQuiet
  BY <1>1, QuietKeepsIndex
<1>2. CASE InitTails
  BY <1>2 DEF InitTails, MainAt, Goto, IndexInv, Ready, readLoc
<1>3. CASE InitHeads
  <2>1. /\ rxHead' = 0 /\ rxTail' = rxTail /\ rxAcc' = rxGot /\ rxGot' = rxGot
        /\ pc = "bootHeads" /\ pc' = "app"
    BY <1>3 DEF InitHeads, MainAt, Goto, readLoc
  <2>2. rxGot = <<>> /\ rxTail = 0
    BY <2>1 DEF IndexInv, RxInv, Ready
  <2>3. Len(<<>>) = 0 /\ InHand' = 0 /\ 0 % RxSize = 0 /\ (0 + 0) % RxSize = 0
    BY <2>1, ConstantsAssumption, EmptySeq DEF InHand
  <2>4. QED
    BY <2>1, <2>2, <2>3 DEF IndexInv, Ready
<1>4. CASE ReadTail
  <2>1. /\ rxTail' = NextSlot(rxTail, RxSize) /\ rxHead' = rxHead
        /\ rxAcc' = rxAcc /\ rxGot' = rxGot
        /\ pc = "rTail" /\ pc' = "rCopy"
    BY <1>4 DEF ReadTail, MainAt, Goto, RxNext, readLoc
  <2>2. InHand = 0 /\ InHand' = 1 /\ Ready /\ Ready'
    BY <2>1 DEF InHand, Ready
  <2>3. Len(rxGot) \in Nat /\ rxTail = (Len(rxGot) + 0) % RxSize
    BY <2>2, RxFacts DEF IndexInv
  <2>4. rxTail' = (Len(rxGot) + 1) % RxSize
    BY <2>1, <2>3, NextIndex
  <2>5. QED
    BY <2>1, <2>2, <2>4 DEF IndexInv
<1>5. CASE ReadCopy
  <2>1. /\ rxTail' = rxTail /\ rxHead' = rxHead /\ rxAcc' = rxAcc
        /\ rxGot' = Append(rxGot, rxBuf[rxTail])
        /\ pc = "rCopy" /\ pc' = "rCheck"
    BY <1>5 DEF ReadCopy, MainAt, Goto, rxRing
  <2>2. InHand = 1 /\ InHand' = 0 /\ Ready /\ Ready'
    BY <2>1 DEF InHand, Ready
  <2>3. rxBuf[rxTail] \in RxBytes
    BY RxFacts
  <2>4. Len(rxGot') = Len(rxGot) + 1 /\ Len(rxGot) \in Nat
    BY <2>1, <2>3, RxFacts, AppendProperties
  <2>5. Len(rxGot') + InHand' = Len(rxGot) + InHand
    BY <2>2, <2>4
  <2>6. QED
    BY <2>1, <2>2, <2>5 DEF IndexInv
<1>6. CASE IsrReceive
  <2>1. CASE UNCHANGED <<rxBuf, rxHead, rxTail, rxAcc, rxGot, pc>>
    BY <2>1, QuietKeepsIndex DEF RxQuiet, Ready
  <2>2. ASSUME NEW data \in RxBytes,
               rxHead' = NextSlot(rxHead, RxSize), rxTail' = rxTail,
               rxAcc' = Append(rxAcc, data), UNCHANGED <<rxGot, pc>>
        PROVE  IndexInv'
    <3>1. Len(rxAcc') = Len(rxAcc) + 1 /\ Len(rxAcc) \in Nat
      BY <2>2, RxFacts, AppendProperties
    <3>2. Ready => rxHead' = Len(rxAcc') % RxSize
      BY <2>2, <3>1, NextIndex DEF IndexInv
    <3>3. QED
      BY <2>2, <3>2 DEF IndexInv, Ready, InHand
  <2>3. QED
    BY <1>6, <2>1, <2>2, ReceiveCases
<1>7. QED
  BY <1>1, <1>2, <1>3, <1>4, <1>5, <1>6, ReceiveSteps

\* Bytes read before the chunk under way.
Before == Len(rxGot) - nRead

\* Where Uart_Read is at work.
ReadAt == {"rCheck", "rTail", "rCopy"}

\* What is lost so far is allowed; and a read was begun only with a chunk's bytes
\* waiting, or while the head had come round once more than the tail.  In the
\* second case, if the read ends short, the tail has come round, too.
ChunkInv ==
  /\ handed \in Seq(Nat) /\ app \in {"poll", "test", "eol"}
  /\ ~Ready => app = "poll" /\ handed = <<>>
  /\ app # "test" =>
       /\ pc \notin ReadAt
       /\ Len(rxGot) - Len(handed) <= Allowed(Len(rxGot))
  /\ app = "test" =>
       /\ pc \in ReadAt \cup {"app"}
       /\ nRead + toRead = Chunk
       /\ nRead <= Len(rxGot)
       /\ Before - Len(handed) <= Allowed(Before)
       /\ Len(rxAcc) - Before >= Chunk \/ Rounds(Before) < Rounds(Len(rxAcc))
       /\ pc = "app" /\ nRead < Chunk => Rounds(Before) < Rounds(Len(rxGot))

LEMMA ChunkFacts ==
  ASSUME EchoConstants, TypeInv, ChunkInv
  PROVE  /\ Chunk \in Nat /\ Chunk > 0
         /\ nRead \in Nat /\ toRead \in Nat
         /\ Len(rxGot) \in Nat /\ Len(rxAcc) \in Nat /\ Len(handed) \in Nat
         /\ app = "test" => Before \in Nat
<1>1. handed \in Seq(Nat) /\ nRead \in Nat /\ toRead \in Nat
  BY DEF TypeInv, TypeOK, ChunkInv
<1>2. Len(rxGot) \in Nat /\ Len(rxAcc) \in Nat
  BY RxFacts
<1>3. Len(handed) \in Nat
  BY <1>1, LenProperties
<1>4. app = "test" => Before \in Nat
  BY <1>1, <1>2 DEF ChunkInv, Before
<1>5. QED
  BY <1>1, <1>2, <1>3, <1>4 DEF EchoConstants

LEMMA InitEcho ==
  ASSUME EchoConstants
  PROVE  EchoInit => TypeInv /\ RxInv /\ IndexInv /\ ChunkInv
<1> SUFFICES ASSUME EchoInit PROVE TypeInv /\ RxInv /\ IndexInv /\ ChunkInv
  OBVIOUS
<1>1. /\ Init /\ app = "poll" /\ handed = <<>>
      /\ pc = "boot" /\ rxGot = <<>>
  BY DEF EchoInit, Init
<1>2. TypeInv /\ RxInv
  BY <1>1, InitTypes, InitRx
<1>3. IndexInv
  BY <1>1 DEF IndexInv, Ready
<1>4. Len(rxGot) = 0 /\ Len(handed) = 0 /\ handed \in Seq(Nat)
  BY <1>1, EmptySeq
<1>5. Allowed(0) \in Nat
  BY AllowedGrows
<1>6. ChunkInv
  BY <1>1, <1>4, <1>5 DEF ChunkInv, ReadAt
<1>7. QED
  BY <1>2, <1>3, <1>6

\* Steps that neither read nor begin or end a read: bytes may be accepted.
EchoQuiet ==
  /\ UNCHANGED <<app, handed, rxGot, nRead, toRead>>
  /\ rxAcc' = rxAcc \/ (Ready /\ Len(rxAcc') = Len(rxAcc) + 1)
  /\ Ready => Ready'
  /\ pc' = pc \/ (pc \notin ReadAt /\ pc # "app" /\ pc' \notin ReadAt)

LEMMA QuietKeepsChunk ==
  ASSUME EchoConstants, TypeInv, ChunkInv, EchoQuiet
  PROVE  ChunkInv'
<1>1. /\ app' = app /\ handed' = handed /\ rxGot' = rxGot
      /\ nRead' = nRead /\ toRead' = toRead /\ Before' = Before
  BY DEF EchoQuiet, Before
<1>2. ~Ready' => ~Ready
  BY DEF EchoQuiet
<1>3. CASE app # "test"
  BY <1>1, <1>2, <1>3 DEF ChunkInv, EchoQuiet
<1>4. CASE app = "test"
  <2>1. pc' = pc
    BY <1>4 DEF ChunkInv, EchoQuiet
  <2>2. Len(rxAcc') \in Nat /\ Len(rxAcc) <= Len(rxAcc')
    BY ChunkFacts DEF EchoQuiet
  <2>3. Rounds(Len(rxAcc)) \in Nat /\ Rounds(Len(rxAcc')) \in Nat
        /\ Rounds(Len(rxAcc)) <= Rounds(Len(rxAcc'))
    BY <2>2, ChunkFacts, RoundOrder, ConstantsAssumption DEF Rounds
  <2>4. Before \in Nat /\ Rounds(Before) \in Nat
    BY <1>4, ChunkFacts, RoundOrder, ConstantsAssumption DEF Rounds
  <2>5. Len(rxAcc') - Before' >= Chunk \/ Rounds(Before') < Rounds(Len(rxAcc'))
    <3>1. Len(rxAcc) - Before >= Chunk \/ Rounds(Before) < Rounds(Len(rxAcc))
      BY <1>4 DEF ChunkInv
    <3>2. PICK a \in Nat, b \in Nat, m \in Nat, c \in Nat :
            a = Len(rxAcc) /\ b = Len(rxAcc') /\ m = Before /\ c = Chunk /\ a <= b
      BY <2>2, <2>4, ChunkFacts
    <3>5. a - m >= c => b - m >= c
      BY <3>2
    <3>3. Rounds(Before) < Rounds(Len(rxAcc)) => Rounds(Before) < Rounds(Len(rxAcc'))
      BY <2>3, <2>4
    <3>4. QED
      BY <1>1, <3>1, <3>2, <3>3, <3>5
  <2>6. QED
    BY <1>1, <1>2, <1>4, <2>1, <2>5 DEF ChunkInv
<1>5. QED
  BY <1>3, <1>4

\* The steps that are.
LEMMA QuietMoves ==
  ASSUME TypeInv, UNCHANGED <<app, handed>>,
         InitRegisters \/ InitTails \/ DeInitStore \/ WriteStep \/ Isr \/ Peripheral
  PROVE  EchoQuiet \/ (~Ready /\ ~Ready' /\ UNCHANGED <<app, handed, rxGot, pc>>)
<1> USE DEF EchoQuiet, Ready, ReadAt, MainAt, Goto, readLoc
<1>1. CASE InitRegisters \/ InitTails \/ DeInitStore
  BY <1>1 DEF InitRegisters, InitTails, DeInitStore
<1>2. CASE QueueStep
  BY <1>2 DEF QueueStep, WriteSlot, WriteHead, WriteData, WriteRts
<1>3. CASE DrainStep
  BY <1>3 DEF DrainStep, DrainCheck, DrainStatus, DrainTailLoad, DrainTailStore,
              DrainByte, DrainReg
<1>4. CASE ArmChoose \/ ArmLoad
  BY <1>4 DEF ArmChoose, ArmLoad
<1>5. CASE ArmStore
  BY <1>5 DEF ArmStore
<1>6. CASE IsrReadStatus \/ IsrTransmit \/ IsrTransmitEnd \/ IsrComplete
  BY <1>6 DEF IsrReadStatus, IsrTransmit, IsrTransmitEnd, IsrComplete
<1>7. CASE IsrReceive
  <2>1. UNCHANGED <<nRead, toRead, rxGot, pc>>
    BY <1>7 DEF IsrReceive
  <2>2. rxAcc' = rxAcc \/ \E data \in RxBytes : rxAcc' = Append(rxAcc, data)
    BY <1>7, ReceiveCases
  <2>3. rxAcc' = rxAcc \/ Len(rxAcc') = Len(rxAcc) + 1
    BY <2>2, RxFacts, AppendProperties
  <2>4. QED
    BY <2>1, <2>3
<1>8. CASE Peripheral
  BY <1>8 DEF Peripheral, PeerSends, ShiftLoad, ShiftDone
<1>9. QED
  BY <1>1, <1>2, <1>3, <1>4, <1>5, <1>6, <1>7, <1>8 DEF WriteStep, ArmStep, Isr

\* Uart_Read, one step of it.
LEMMA ReadKeepsChunk ==
  ASSUME EchoConstants, TypeInv, RxInv, ChunkInv, UNCHANGED <<app, handed>>, ReadStep
  PROVE  ChunkInv'
<1>1. /\ pc \in ReadAt /\ rxAcc' = rxAcc /\ app' = app /\ handed' = handed
      /\ Ready /\ Ready'
  BY DEF ReadStep, ReadCheck, ReadTail, ReadCopy, MainAt, Goto, ReadAt, Ready
<1>2. app = "test" /\ Before \in Nat
  BY <1>1, ChunkFacts DEF ChunkInv
<1>3. ASSUME rxGot' = rxGot, nRead' = nRead, toRead' = toRead, pc' \in ReadAt \cup {"app"},
             pc' = "app" => toRead = 0 \/ Len(rxAcc) = Len(rxGot)
      PROVE  ChunkInv'
  <2>1. Before' = Before
    BY <1>3 DEF Before
  <2>2. ASSUME pc' = "app", nRead < Chunk
        PROVE  Rounds(Before) < Rounds(Len(rxGot))
    <3>1. Len(rxAcc) = Len(rxGot)
      BY <1>2, <1>3, <2>2, ChunkFacts DEF ChunkInv
    <3>2. ~(Len(rxAcc) - Before >= Chunk)
      BY <2>2, <3>1, ChunkFacts DEF Before
    <3>3. QED
      BY <1>2, <3>1, <3>2 DEF ChunkInv
  <2>3. QED
    BY <1>1, <1>2, <1>3, <2>1, <2>2 DEF ChunkInv
<1>4. CASE ReadCheck
  <2>1. /\ rxGot' = rxGot /\ nRead' = nRead /\ toRead' = toRead /\ pc = "rCheck"
        /\ pc' = IF rxHead # rxTail /\ toRead > 0 THEN "rTail" ELSE "app"
    BY <1>4 DEF ReadCheck, MainAt, Goto, readLoc
  <2>2. rxHead = rxTail => Len(rxAcc) = Len(rxGot)
    <3>1. SUFFICES ASSUME rxHead = rxTail PROVE Len(rxAcc) = Len(rxGot)
      OBVIOUS
    <3>2. RxWaiting = 0
      BY <3>1, RxFacts, WaitingBounds DEF RxWaiting
    <3>3. QED
      BY <2>1, <3>2, RxFacts DEF RxInv, RxRingHoldsTheRest, InHand
  <2>3. toRead \in Nat
    BY ChunkFacts
  <2>4. QED
    BY <1>3, <2>1, <2>2, <2>3 DEF ReadAt
<1>5. CASE ReadTail
  BY <1>3, <1>5 DEF ReadTail, MainAt, Goto, ReadAt, readLoc
<1>6. CASE ReadCopy
  <2>1. /\ rxGot' = Append(rxGot, rxBuf[rxTail]) /\ nRead' = nRead + 1
        /\ toRead' = toRead - 1 /\ pc' = "rCheck"
    BY <1>6 DEF ReadCopy, MainAt, Goto
  <2>2. rxBuf[rxTail] \in RxBytes
    BY RxFacts
  <2>3. Len(rxGot') = Len(rxGot) + 1
    BY <2>1, <2>2, RxFacts, AppendProperties
  <2>4. Before' = Before
    <3>1. Before' = Len(rxGot') - nRead' /\ Before = Len(rxGot) - nRead
      BY DEF Before
    <3>2. Len(rxGot) \in Nat /\ nRead \in Nat
      BY ChunkFacts
    <3>3. QED
      BY <2>1, <2>3, <3>1, <3>2
  <2>5. nRead' + toRead' = Chunk /\ nRead' <= Len(rxGot')
    <3>1. nRead + toRead = Chunk /\ nRead <= Len(rxGot)
      BY <1>2 DEF ChunkInv
    <3>2. Len(rxGot) \in Nat /\ nRead \in Nat /\ toRead \in Nat
      BY ChunkFacts
    <3>3. QED
      BY <2>1, <2>3, <3>1, <3>2
  <2>6. QED
    BY <1>1, <1>2, <2>1, <2>4, <2>5 DEF ChunkInv, ReadAt
<1>7. QED
  BY <1>4, <1>5, <1>6 DEF ReadStep

\* All that is not main's loop.
LEMMA MovesKeepChunk ==
  ASSUME EchoConstants, TypeInv, RxInv, IndexInv, ChunkInv, DriverMoves
  PROVE  ChunkInv'
<1>1. app' = app /\ handed' = handed
  BY DEF DriverMoves
<1>2. CASE EchoQuiet
  BY <1>2, QuietKeepsChunk
<1>3. CASE ~Ready /\ ~Ready' /\ UNCHANGED <<app, handed, rxGot, pc>>
  BY <1>3 DEF ChunkInv
<1>4. CASE InitHeads
  <2>1. /\ ~Ready /\ rxGot' = rxGot /\ pc' = "app"
    BY <1>4 DEF InitHeads, MainAt, Goto, Ready, readLoc
  <2>2. rxGot' = <<>> /\ handed' = <<>> /\ app' = "poll" /\ handed \in Seq(Nat)
    BY <1>1, <2>1 DEF IndexInv, ChunkInv
  <2>3. Len(rxGot') = 0 /\ Len(handed') = 0 /\ Allowed(0) \in Nat
    BY <2>2, AllowedGrows, EmptySeq
  <2>4. QED
    BY <1>1, <2>1, <2>2, <2>3 DEF ChunkInv, ReadAt, Ready
<1>5. CASE ReadStep
  BY <1>1, <1>5, ReadKeepsChunk
<1>6. QED
  BY <1>1, <1>2, <1>3, <1>4, <1>5, QuietMoves DEF DriverMoves, DriverStep, InitStep

\* The level asks for no read without reason.
LEMMA LevelHasReason ==
  ASSUME EchoConstants, TypeInv, RxInv, IndexInv, pc = "app", RxQueueLevel >= Chunk
  PROVE  \/ Len(rxAcc) - Len(rxGot) >= Chunk
         \/ Rounds(Len(rxGot)) < Rounds(Len(rxAcc))
<1>1. /\ RxSize \in Nat /\ RxSize > 0 /\ LevelMod \in Nat /\ LevelMod > 0 /\ Chunk \in Nat
      /\ Len(rxAcc) \in Nat /\ Len(rxGot) \in Nat
      /\ rxHead \in 0 .. RxSize - 1 /\ rxTail \in 0 .. RxSize - 1
  BY RxFacts, ConstantsAssumption DEF Slots, EchoConstants
<1>2. InHand = 0 /\ Ready
  BY DEF InHand, Ready
<1>3. Len(rxAcc) = Len(rxGot) + RxWaiting
  BY <1>1, <1>2, RxFacts DEF RxInv, RxRingHoldsTheRest
<1>4. rxHead = Len(rxAcc) % RxSize /\ rxTail = (Len(rxGot) + 0) % RxSize
  BY <1>2 DEF IndexInv
<1>5. CASE rxHead >= rxTail
  <2>1. PICK w \in Nat : w = rxHead - rxTail
    BY <1>1, <1>5
  <2>2. w % LevelMod <= w
    BY <1>1
  <2>3. RxWaiting = w
    BY <1>5, <2>1 DEF RxWaiting, Waiting
  <2>4. w >= Chunk
    BY <1>1, <2>1, <2>2, w % LevelMod \in Nat DEF RxQueueLevel
  <2>5. QED
    BY <1>1, <1>3, <2>3, <2>4
<1>6. CASE rxHead < rxTail
  <2>1. Len(rxGot) <= Len(rxAcc)
    <3>1. RxWaiting \in Nat
      BY RxFacts, WaitingBounds DEF RxWaiting
    <3>2. QED
      BY <1>1, <1>3, <3>1
  <2>2. Len(rxGot) % RxSize > Len(rxAcc) % RxSize
    BY <1>1, <1>4, <1>6
  <2>3. QED
    BY <1>1, <2>1, <2>2, RoundOrder DEF Rounds
<1>7. QED
  BY <1>1, <1>5, <1>6

\* One of the four things main does, by what it does to the rest.
LEMMA CallsAreQuiet ==
  ASSUME TypeInv, RxInv, IndexInv,
         \/ \E n \in Nat : CallRead(n)
         \/ \E s \in Seq(Nat) : CallWrite(s)
         \/ UNCHANGED vars
  PROVE  TypeInv' /\ RxInv' /\ IndexInv'
<1>1. RxQuiet
  BY QuietSteps
<1>2. RxInv' /\ IndexInv'
  BY <1>1, QuietKeepsRx, QuietKeepsIndex
<1>3. TypeInv'
  BY ReadStepTypes, QueueStepTypes, NextTypes
<1>4. QED
  BY <1>2, <1>3

\* The read begins with the bytes the level promised, or a round ahead.
LEMMA PollKeeps ==
  ASSUME EchoConstants, TypeInv, RxInv, IndexInv, ChunkInv, Poll
  PROVE  TypeInv' /\ RxInv' /\ IndexInv' /\ ChunkInv'
<1>1. /\ app = "poll" /\ app' = "test" /\ handed' = handed
      /\ RxQueueLevel >= Chunk /\ CallRead(Chunk)
      /\ pc = "app" /\ pc' = "rCheck" /\ toRead' = Chunk /\ nRead' = 0
      /\ rxAcc' = rxAcc /\ rxGot' = rxGot
  BY DEF Poll, CallRead, MainAt, Goto
<1>2. Chunk \in Nat /\ Len(rxGot) \in Nat
  BY ChunkFacts
<1>3. TypeInv' /\ RxInv' /\ IndexInv'
  BY <1>1, <1>2, CallsAreQuiet
<1>4. Before' = Len(rxGot)
  <2>1. Before' = Len(rxGot) - 0
    BY <1>1 DEF Before
  <2>2. QED
    BY <1>2, <2>1
<1>5. \/ Len(rxAcc) - Len(rxGot) >= Chunk
      \/ Rounds(Len(rxGot)) < Rounds(Len(rxAcc))
  BY <1>1, LevelHasReason
<1>6. Len(rxGot) - Len(handed) <= Allowed(Len(rxGot))
  BY <1>1 DEF ChunkInv
<1>7. handed' \in Seq(Nat) /\ nRead' + toRead' = Chunk /\ nRead' <= Len(rxGot')
  BY <1>1, <1>2 DEF ChunkInv
<1>8. Before' - Len(handed') <= Allowed(Before')
  BY <1>1, <1>4, <1>6
<1>9. Len(rxAcc') - Before' >= Chunk \/ Rounds(Before') < Rounds(Len(rxAcc'))
  BY <1>1, <1>4, <1>5
<1>10. Ready' /\ pc' \in ReadAt
  BY <1>1 DEF Ready, ReadAt
<1>11. ChunkInv'
  BY <1>1, <1>7, <1>8, <1>9, <1>10 DEF ChunkInv
<1>12. QED
  BY <1>3, <1>11

\* A whole chunk makes up for what it brought.
LEMMA EchoKeeps ==
  ASSUME EchoConstants, TypeInv, RxInv, IndexInv, ChunkInv, Echo
  PROVE  TypeInv' /\ RxInv' /\ IndexInv' /\ ChunkInv'
<1>1. /\ app = "test" /\ app' = "eol" /\ handed' = handed \o Received
      /\ nRead >= Chunk /\ CallWrite(Received)
      /\ pc = "app" /\ pc' \in {"app", "wSlot"} /\ rxGot' = rxGot
  BY DEF Echo, IsWhole, CallWrite, MainAt, Goto, readLoc
<1>2. /\ nRead + toRead = Chunk /\ nRead <= Len(rxGot)
      /\ Before - Len(handed) <= Allowed(Before) /\ handed \in Seq(Nat)
  BY <1>1 DEF ChunkInv
<1>3. /\ nRead \in Nat /\ toRead \in Nat /\ Len(rxGot) \in Nat
      /\ Len(handed) \in Nat /\ Before \in Nat
  BY <1>1, ChunkFacts
<1>4. Received \in Seq(Nat) /\ Len(Received) = nRead
  BY <1>2, ReceivedType
<1>5. TypeInv' /\ RxInv' /\ IndexInv'
  BY <1>1, <1>4, CallsAreQuiet
<1>6. handed' \in Seq(Nat) /\ Len(handed') = Len(handed) + nRead
  BY <1>1, <1>2, <1>4, ConcatProperties
<1>7. Before = Len(rxGot) - nRead /\ Before <= Len(rxGot)
  BY <1>3 DEF Before
<1>8. Allowed(Before) <= Allowed(Len(rxGot))
      /\ Allowed(Before) \in Nat /\ Allowed(Len(rxGot)) \in Nat
  BY <1>3, <1>7, AllowedGrows
<1>9. Len(rxGot) - Len(handed') <= Allowed(Len(rxGot))
  <2>1. PICK g \in Nat, r \in Nat, h \in Nat, a \in Nat, b \in Nat :
          /\ g = Len(rxGot) /\ r = nRead /\ h = Len(handed)
          /\ a = Allowed(Before) /\ b = Allowed(Len(rxGot))
    BY <1>3, <1>8
  <2>2. (g - r) - h <= a /\ a <= b
    BY <1>2, <1>7, <1>8, <2>1
  <2>3. g - (h + r) <= b
    BY <2>2
  <2>4. QED
    BY <1>6, <2>1, <2>3
<1>10. Ready' /\ pc' \notin ReadAt
  BY <1>1 DEF Ready, ReadAt
<1>11. ChunkInv'
  BY <1>1, <1>6, <1>9, <1>10 DEF ChunkInv
<1>12. QED
  BY <1>5, <1>11

\* A short one is lost, and the round just ended allows it.
LEMMA DiscardKeeps ==
  ASSUME EchoConstants, TypeInv, RxInv, IndexInv, ChunkInv, Discard
  PROVE  TypeInv' /\ RxInv' /\ IndexInv' /\ ChunkInv'
<1>1. /\ app = "test" /\ app' = "poll" /\ handed' = handed
      /\ ~(nRead >= Chunk) /\ UNCHANGED vars /\ pc = "app" /\ pc' = pc
      /\ rxGot' = rxGot
  BY DEF Discard, IsWhole, MainAt, vars, readLoc
<1>2. /\ nRead + toRead = Chunk /\ nRead <= Len(rxGot)
      /\ Before - Len(handed) <= Allowed(Before) /\ handed \in Seq(Nat)
      /\ nRead < Chunk => Rounds(Before) < Rounds(Len(rxGot))
  BY <1>1 DEF ChunkInv
<1>3. /\ nRead \in Nat /\ toRead \in Nat /\ Len(rxGot) \in Nat
      /\ Len(handed) \in Nat /\ Before \in Nat /\ Chunk \in Nat
  BY <1>1, ChunkFacts
<1>4. TypeInv' /\ RxInv' /\ IndexInv'
  BY <1>1, CallsAreQuiet
<1>5. Before = Len(rxGot) - nRead /\ Before <= Len(rxGot)
  BY <1>3 DEF Before
<1>6. Rounds(Before) < Rounds(Len(rxGot)) /\ nRead <= Chunk - 1
  BY <1>1, <1>2, <1>3
<1>7. Allowed(Before) + Chunk - 1 <= Allowed(Len(rxGot))
      /\ Allowed(Before) \in Nat /\ Allowed(Len(rxGot)) \in Nat
  BY <1>3, <1>5, <1>6, AllowedGrows
<1>8. Len(rxGot) - Len(handed) <= Allowed(Len(rxGot))
  <2>1. PICK g \in Nat, r \in Nat, h \in Nat, a \in Nat, b \in Nat, c \in Nat :
          /\ g = Len(rxGot) /\ r = nRead /\ h = Len(handed)
          /\ a = Allowed(Before) /\ b = Allowed(Len(rxGot)) /\ c = Chunk
    BY <1>3, <1>7
  <2>2. (g - r) - h <= a /\ r <= c - 1 /\ a + c - 1 <= b
    BY <1>2, <1>5, <1>6, <1>7, <2>1
  <2>3. g - h <= b
    BY <2>2
  <2>4. QED
    BY <2>1, <2>3
<1>9. Ready' /\ pc' \notin ReadAt
  BY <1>1 DEF Ready, ReadAt
<1>10. ChunkInv'
  BY <1>1, <1>2, <1>8, <1>9 DEF ChunkInv
<1>11. QED
  BY <1>4, <1>10

LEMMA WriteEolKeeps ==
  ASSUME EchoConstants, TypeInv, RxInv, IndexInv, ChunkInv, WriteEol
  PROVE  TypeInv' /\ RxInv' /\ IndexInv' /\ ChunkInv'
<1>1. /\ app = "eol" /\ app' = "poll" /\ handed' = handed
      /\ CallWrite(EndOfLine) /\ pc = "app" /\ pc' \in {"app", "wSlot"}
      /\ rxGot' = rxGot
  BY DEF WriteEol, CallWrite, MainAt, Goto, readLoc
<1>2. TypeInv' /\ RxInv' /\ IndexInv'
  BY <1>1, CallsAreQuiet DEF EchoConstants
<1>3. Ready' /\ pc' \notin ReadAt
  BY <1>1 DEF Ready, ReadAt
<1>4. ChunkInv'
  BY <1>1, <1>3 DEF ChunkInv
<1>5. QED
  BY <1>2, <1>4

\* The invariant of the program with its driver is inductive.
LEMMA NextEcho ==
  ASSUME EchoConstants, TypeInv, RxInv, IndexInv, ChunkInv, [EchoNext]_appVars
  PROVE  TypeInv' /\ RxInv' /\ IndexInv' /\ ChunkInv'
<1>1. CASE DriverMoves
  <2>1. DriverStep \/ Isr \/ Peripheral
    BY <1>1 DEF DriverMoves
  <2>2. Next
    BY <2>1 DEF Next
  <2>3. TypeInv' /\ RxInv'
    BY <2>2, NextTypes, NextRx
  <2>4. IndexInv'
    BY <2>1, MovesKeepIndex
  <2>5. QED
    BY <1>1, <2>3, <2>4, MovesKeepChunk
<1>2. CASE AppStep
  BY <1>2, PollKeeps, EchoKeeps, DiscardKeeps, WriteEolKeeps DEF AppStep
<1>3. CASE UNCHANGED appVars
  <2>1. UNCHANGED vars /\ app' = app /\ handed' = handed
    BY <1>3 DEF appVars
  <2>2. /\ rxGot' = rxGot /\ rxAcc' = rxAcc /\ nRead' = nRead
        /\ toRead' = toRead /\ pc' = pc
    BY <2>1 DEF vars, readLoc
  <2>3. ChunkInv'
    BY <2>1, <2>2 DEF ChunkInv, Before, Ready
  <2>4. QED
    BY <2>1, <2>3, CallsAreQuiet
<1>4. QED
  BY <1>1, <1>2, <1>3 DEF EchoNext

\* What the program throws away is less than a chunk for each time the tail has
\* gone round the ring, whatever the sizes of the ring, the chunk and the level.
THEOREM EchoLosesLittle ==
  ASSUME EchoConstants
  PROVE  EchoSpec => []LossIsBounded
<1>1. TypeInv /\ RxInv /\ IndexInv /\ ChunkInv => LossIsBounded
  BY DEF ChunkInv, LossIsBounded, Allowed, Rounds
<1>2. TypeInv /\ RxInv /\ IndexInv /\ ChunkInv /\ [EchoNext]_appVars
        => (TypeInv /\ RxInv /\ IndexInv /\ ChunkInv)'
  BY NextEcho
<1>3. QED
  BY InitEcho, <1>1, <1>2, PTL DEF EchoSpec

=============================================================================
