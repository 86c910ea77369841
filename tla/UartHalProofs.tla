--------------------------- MODULE UartHalProofs ---------------------------
(***************************************************************************)
(* Theorems about UartHal for every size of the rings, every client and    *)
(* any number of bytes.  Only the theorem that the receiver is a queue     *)
(* needs a client that either polls or takes interrupts (~Mix).            *)
(***************************************************************************)
EXTENDS UartHal, RingIndexTheorems, SequenceTheorems

RxBytes == 0..MaxRx

(***************************************************************************)
(* Types.                                                                  *)
(***************************************************************************)
TypeInv ==
  /\ TypeOK
  /\ rxBuf \in [Slots(RxSize) -> RxBytes]
  /\ rxD \in Seq(RxBytes) /\ txD \in Seq(Nat) /\ shifter \in Seq(Nat)
  /\ rxAcc \in Seq(RxBytes) /\ rxGot \in Seq(RxBytes) /\ put \in Seq(Nat)
  /\ peerSent \in RxBytes
  /\ pc \in {"rTail", "rCopy"} => toRead > 0
  /\ pc \in {"pWait", "pData"} => put # <<>>
  /\ pc \in {"boot", "bootNvic"} => ~nvic
  /\ ~nvic => ipc = "idle"

\* A register that is not empty holds one byte.
LEMMA OneByte ==
  ASSUME NEW S, NEW s \in Seq(S), Len(s) <= 1, s # <<>>
  PROVE  /\ Head(s) \in S /\ s = <<Head(s)>>
         /\ \A t \in Seq(S) : t \o s = Append(t, Head(s)) /\ t \o s \in Seq(S)
<1>1. Len(s) = 1
  <2>1. Len(s) \in Nat \ {0}
    BY EmptySeq
  <2>2. \A x \in Nat \ {0} : x <= 1 => x = 1
    OBVIOUS
  <2>3. QED
    BY <2>1, <2>2
<1>2. Head(s) \in S /\ Head(s) = s[1]
  BY <1>1, HeadTailProperties
<1>3. s = <<Head(s)>>
  BY <1>1, <1>2
<1>4. ASSUME NEW t \in Seq(S)
      PROVE  t \o s = Append(t, Head(s)) /\ t \o s \in Seq(S)
  <2>1. /\ t \o s \in Seq(S) /\ Len(t \o s) = Len(t) + 1
        /\ \A i \in 1..Len(t) : (t \o s)[i] = t[i]
        /\ (t \o s)[Len(t) + 1] = s[1]
    BY <1>1, ConcatProperties
  <2>2. /\ Append(t, Head(s)) \in Seq(S) /\ Len(Append(t, Head(s))) = Len(t) + 1
        /\ \A i \in 1..Len(t) : Append(t, Head(s))[i] = t[i]
        /\ Append(t, Head(s))[Len(t) + 1] = Head(s)
    BY <1>2, AppendProperties
  <2>3. \A i \in 1..Len(t) + 1 : (t \o s)[i] = Append(t, Head(s))[i]
    BY <1>2, <2>1, <2>2
  <2>4. QED
    BY <2>1, <2>2, <2>3, SeqEqual
<1>5. QED
  BY <1>2, <1>3, <1>4

\* Power-up is of the right type.
LEMMA InitTypes == Init => TypeInv
<1> SUFFICES ASSUME Init PROVE TypeInv
  OBVIOUS
<1>1. /\ rxBuf \in [Slots(RxSize) -> RxBytes] /\ DOMAIN txBuf = Slots(TxSize)
      /\ 0 \in Slots(RxSize) /\ 0 \in Slots(TxSize) /\ 0 \in RxBytes
  BY HalAssumption DEF Init, Slots, RxBytes
<1>2. TypeOK
  BY <1>1 DEF Init, TypeOK
<1>3. QED
  BY <1>1, <1>2 DEF Init, TypeInv

\* An index, and the one after it, is a slot of its buffer.
LEMMA IndexTypes ==
  ASSUME TypeOK
  PROVE  RxNext(rxHead) \in Slots(RxSize) /\ RxNext(rxTail) \in Slots(RxSize)
<1>1. rxHead \in Nat /\ rxTail \in Nat
  BY DEF TypeOK, Slots
<1>2. QED
  BY <1>1, HalAssumption, NextSlotInRing DEF RxNext

\* The calls the client makes.
LEMMA ClientTypes ==
  ASSUME TypeInv, Client
  PROVE  TypeInv'
<1> USE HalAssumption
    DEF TypeInv, TypeOK, MainAt, Goto, rxRing, txRing, control, line, txPort,
        readLoc, levels
<1>1. ASSUME NEW n \in ReadSizes, Uart_Read(n)
      PROVE  TypeInv'
  BY <1>1 DEF Uart_Read
<1>2. ASSUME NEW n \in WriteSizes, Uart_Write(n)
      PROVE  TypeInv'
  <2>1. txHead' \in Slots(TxSize)
    <3>1. txHead + Room(n) \in Int
      BY DEF Room, TxWaiting, Waiting, Slots
    <3>2. txHead' = (txHead + Room(n)) % TxSize
      BY <1>2 DEF Uart_Write
    <3>3. \A x \in Int : x % TxSize \in 0 .. TxSize - 1
      BY HalAssumption
    <3>4. txHead' \in 0 .. TxSize - 1
      BY <3>1, <3>2, <3>3
    <3>5. QED
      BY <3>4 DEF Slots
  <2>2. DOMAIN txBuf' = Slots(TxSize)
    BY <1>2 DEF Uart_Write
  <2>3. UNCHANGED <<rxRing, txTail, control, line, txPort, readLoc, levels, rxAcc, ipc>>
        /\ pc' = "app"
    BY <1>2 DEF Uart_Write
  <2>4. QED
    BY <2>1, <2>2, <2>3
<1>3. ASSUME NEW wake \in 0..1, SetWakeup(wake)
      PROVE  TypeInv'
  BY <1>3 DEF SetWakeup
<1>4. CASE LevelHead \/ GetCharCall \/ Usart_DeInit
  <2>1. CASE LevelHead
    BY <2>1 DEF LevelHead
  <2>2. CASE GetCharCall
    BY <2>2 DEF GetCharCall
  <2>3. CASE Usart_DeInit
    BY <2>3 DEF Usart_DeInit
  <2>4. QED
    BY <1>4, <2>1, <2>2, <2>3
<1>5. CASE PutCharCall
  <2>1. put' \in Seq(Nat) /\ put' # <<>>
    <3>1. Len(put) + 1 \in Nat
      BY LenProperties
    <3>2. put' = Append(put, Len(put) + 1)
      BY <1>5 DEF PutCharCall
    <3>3. QED
      BY <3>1, <3>2, AppendProperties
  <2>2. QED
    BY <1>5, <2>1 DEF PutCharCall
<1>6. QED
  BY <1>1, <1>2, <1>3, <1>4, <1>5 DEF Client

\* What the driver does in its functions.
LEMMA DriverTypes ==
  ASSUME TypeInv, DriverStep
  PROVE  TypeInv'
<1> USE HalAssumption
    DEF TypeInv, TypeOK, MainAt, Goto, rxRing, txRing, control, line, txPort,
        readLoc, levels
<1>1. CASE Uart_Init \/ NVIC_EnableIRQ
  <2>1. CASE Uart_Init
    BY <2>1 DEF Uart_Init
  <2>2. CASE NVIC_EnableIRQ
    BY <2>2 DEF NVIC_EnableIRQ
  <2>3. QED
    BY <1>1, <2>1, <2>2
<1>2. CASE ReadCheck
  BY <1>2 DEF ReadCheck
<1>3. CASE ReadTail
  BY <1>3, IndexTypes DEF ReadTail
<1>4. CASE ReadCopy
  <2>1. rxGot' \in Seq(RxBytes)
    BY <1>4, AppendProperties DEF ReadCopy
  <2>2. toRead' \in Nat
    BY <1>4 DEF ReadCopy
  <2>3. QED
    BY <1>4, <2>1, <2>2 DEF ReadCopy
<1>5. CASE LevelTail
  BY <1>5 DEF LevelTail, Slots
<1>6. CASE GetCharWait \/ PutCharWait
  <2>1. CASE GetCharWait
    BY <2>1 DEF GetCharWait
  <2>2. CASE PutCharWait
    BY <2>2 DEF PutCharWait
  <2>3. QED
    BY <1>6, <2>1, <2>2
<1>7. CASE GetCharData
  <2>1. rxAcc' \in Seq(RxBytes)
    BY <1>7, ConcatProperties DEF GetCharData
  <2>2. QED
    BY <1>7, <2>1 DEF GetCharData
<1>8. CASE GetCharReturn
  <2>1. rxGot' \in Seq(RxBytes)
    BY <1>8, AppendProperties DEF GetCharReturn, RxBytes
  <2>2. 0 \in RxBytes
    BY DEF RxBytes
  <2>3. QED
    BY <1>8, <2>1, <2>2 DEF GetCharReturn, RxBytes
<1>9. CASE PutCharData
  <2>1. put[Len(put)] \in Nat
    BY <1>9, LenProperties, EmptySeq DEF PutCharData
  <2>2. txD' \in Seq(Nat) /\ Len(txD') = 1
    BY <1>9, <2>1 DEF PutCharData
  <2>3. QED
    BY <1>9, <2>2 DEF PutCharData
<1>10. QED
  BY <1>1, <1>2, <1>3, <1>4, <1>5, <1>6, <1>7, <1>8, <1>9 DEF DriverStep

\* The handler and the peripheral.
LEMMA OthersTypes ==
  ASSUME TypeInv, Isr \/ Peripheral
  PROVE  TypeInv'
<1> USE HalAssumption
    DEF TypeInv, TypeOK, rxRing, txRing, control, line, txPort, readLoc, levels
<1>1. CASE IsrEnter
  BY <1>1 DEF IsrEnter, Irq
<1>2. CASE IsrReceive
  <2>1. /\ pc' = pc /\ ipc' = "idle" /\ rxD' = <<>> /\ nvic /\ nvic' = nvic
        /\ UNCHANGED <<txRing, control, rxLast, peerSent, txPort, readLoc, levels>>
    BY <1>2 DEF IsrReceive
  <2>2. Head(rxD) \in RxBytes
    BY <1>2, OneByte DEF IsrReceive
  <2>3. CASE UNCHANGED <<rxRing, rxAcc>>
    BY <2>1, <2>3
  <2>4. CASE /\ rxHead' = RxNext(rxHead)
             /\ rxBuf' = [rxBuf EXCEPT ![RxNext(rxHead)] = Head(rxD)]
             /\ rxAcc' = Append(rxAcc, Head(rxD))
             /\ UNCHANGED rxTail
    <3>1. rxAcc' \in Seq(RxBytes) /\ rxAcc' # <<>>
      BY <2>2, <2>4, AppendProperties
    <3>2. rxHead' \in Slots(RxSize) /\ rxBuf' \in [Slots(RxSize) -> RxBytes]
      BY <2>2, <2>4, IndexTypes
    <3>3. QED
      BY <2>1, <2>4, <3>1, <3>2
  <2>5. QED
    BY <1>2, <2>3, <2>4 DEF IsrReceive, Un_RxISR
<1>3. CASE PeerSends
  <2>1. peerSent + 1 \in RxBytes
    BY <1>3 DEF PeerSends, RxBytes
  <2>2. rxD' \in Seq(RxBytes) /\ Len(rxD') <= 1 /\ rxLast' \in 0..MaxRx
    <3>1. CASE rxD = <<>>
      <4>1. rxD' = <<peerSent + 1>> /\ rxLast' = peerSent + 1
        BY <1>3, <3>1 DEF PeerSends
      <4>2. peerSent + 1 \in 0..MaxRx
        BY <2>1 DEF RxBytes
      <4>3. QED
        BY <2>1, <4>1, <4>2
    <3>2. CASE rxD # <<>>
      BY <1>3, <3>2 DEF PeerSends
    <3>3. QED
      BY <3>1, <3>2
  <2>3. QED
    BY <1>3, <2>1, <2>2 DEF PeerSends
<1>4. CASE ShiftLoad \/ ShiftDone
  <2>1. CASE ShiftLoad
    BY <2>1 DEF ShiftLoad
  <2>2. CASE ShiftDone
    BY <2>2 DEF ShiftDone
  <2>3. QED
    BY <1>4, <2>1, <2>2
<1>5. QED
  BY <1>1, <1>2, <1>3, <1>4 DEF Isr, Peripheral

\* No step of main, the handler or the peripheral breaks a type.
LEMMA NextTypes == TypeInv /\ [Next]_vars => TypeInv'
<1> SUFFICES ASSUME TypeInv, [Next]_vars
             PROVE  TypeInv'
  OBVIOUS
<1>1. CASE Next
  BY <1>1, ClientTypes, DriverTypes, OthersTypes DEF Next
<1>2. CASE UNCHANGED vars
  BY <1>2 DEF vars, TypeInv, TypeOK, rxRing, txRing, control, line, txPort, readLoc,
              levels
<1>3. QED
  BY <1>1, <1>2

\* No index leaves its buffer and no register holds two bytes, for rings of any
\* size, and Uart_Read counts no byte below zero.
THEOREM Typing == Spec => []TypeInv
<1>1. QED
  BY InitTypes, NextTypes, PTL DEF Spec

\* TypeOK itself: the masks of Uart_Read, Uart_Write and Un_RxISR keep every
\* index inside its buffer, for rings of any size.
THEOREM TypeCorrect == Spec => []TypeOK
<1>1. TypeInv => TypeOK
  BY DEF TypeInv
<1>2. QED
  BY Typing, <1>1, PTL

-----------------------------------------------------------------------------
(***************************************************************************)
(* The transmit ring.  Nobody moves its tail, so the bytes lie in the      *)
(* slots from 1 on, and head is their number: it can never come round.     *)
(***************************************************************************)
TxInv ==
  /\ txTail = 0 /\ txHead \in Slots(TxSize)
  /\ txAcc \in Seq(Nat) /\ Len(txAcc) = txHead
  /\ \A k \in 1..txHead : txBuf[k] = txAcc[k]

LEMMA InitTx == Init => TxInv
BY HalAssumption DEF Init, TxInv, Slots

\* As many bytes as fit go behind those already there.
LEMMA WriteKeepsTx ==
  ASSUME TxInv, NEW n \in WriteSizes, Uart_Write(n)
  PROVE  TxInv'
<1>1. n \in Nat /\ TxSize \in Nat /\ TxSize > 1 /\ txHead \in 0 .. TxSize - 1 /\ txTail = 0
  BY HalAssumption DEF TxInv, Slots
<1>2. Room(n) \in Nat /\ txHead + Room(n) \in 0 .. TxSize - 1
  BY <1>1 DEF Room, TxWaiting, Waiting
<1>3. \A k \in 0..Room(n) : (txHead + k) % TxSize = txHead + k
  <2>1. \A k \in 0..Room(n) : txHead + k \in 0 .. TxSize - 1
    BY <1>1, <1>2
  <2>2. \A x \in 0 .. TxSize - 1 : x % TxSize = x
    BY <1>1
  <2>3. QED
    BY <2>1, <2>2
<1> DEFINE bytes == NumberedBytes(Room(n), Len(txAcc))
<1>4. /\ txHead' = (txHead + Room(n)) % TxSize
      /\ txBuf' = [i \in Slots(TxSize) |->
            IF \E k \in 1..Room(n) : (txHead + k) % TxSize = i
            THEN bytes[CHOOSE k \in 1..Room(n) : (txHead + k) % TxSize = i]
            ELSE txBuf[i]]
      /\ txAcc' = txAcc \o bytes /\ txTail' = txTail
  BY DEF Uart_Write
<1>5. txHead' = txHead + Room(n) /\ txHead' \in Slots(TxSize)
  BY <1>2, <1>3, <1>4 DEF Slots
<1>6. bytes \in Seq(Nat) /\ Len(bytes) = Room(n)
  <2>1. Len(txAcc) \in Nat
    BY <1>1 DEF TxInv
  <2>2. QED
    BY <1>2, <2>1 DEF NumberedBytes
<1> HIDE DEF bytes
<1>7. /\ txAcc' \in Seq(Nat) /\ Len(txAcc') = txHead'
      /\ \A i \in 1 .. Len(txAcc) + Len(bytes) :
            txAcc'[i] = IF i <= Len(txAcc) THEN txAcc[i] ELSE bytes[i - Len(txAcc)]
  BY <1>4, <1>5, <1>6, ConcatProperties DEF TxInv
<1>8. ASSUME NEW j \in 1..txHead'
      PROVE  txBuf'[j] = txAcc'[j]
  <2>1. j \in Slots(TxSize) /\ j \in 1 .. Len(txAcc) + Len(bytes)
    BY <1>1, <1>2, <1>5, <1>6 DEF TxInv, Slots
  <2>2. CASE j <= txHead
    <3>1. ~ \E k \in 1..Room(n) : (txHead + k) % TxSize = j
      BY <1>1, <1>2, <1>3, <2>2
    <3>2. txBuf'[j] = txBuf[j]
      BY <1>4, <2>1, <3>1
    <3>3. QED
      BY <1>1, <1>7, <2>1, <2>2, <3>2 DEF TxInv
  <2>3. CASE j > txHead
    <3>1. j - txHead \in 1..Room(n)
      BY <1>1, <1>2, <1>5, <2>3
    <3>2. \A k \in 1..Room(n) : (txHead + k) % TxSize = j <=> k = j - txHead
      BY <1>1, <1>2, <1>3, <3>1
    <3>3. (CHOOSE k \in 1..Room(n) : (txHead + k) % TxSize = j) = j - txHead
      BY <3>1, <3>2
    <3>4. txBuf'[j] = bytes[j - txHead]
      BY <1>4, <2>1, <3>1, <3>2, <3>3
    <3>5. QED
      BY <1>1, <1>7, <2>1, <2>3, <3>4 DEF TxInv
  <2>4. QED
    BY <1>1, <1>5, <2>2, <2>3
<1>9. QED
  BY <1>1, <1>4, <1>5, <1>7, <1>8 DEF TxInv

LEMMA NextTx == TxInv /\ [Next]_vars => TxInv'
<1> SUFFICES ASSUME TxInv, [Next]_vars
             PROVE  TxInv'
  OBVIOUS
<1>1. CASE \E n \in WriteSizes : Uart_Write(n)
  BY <1>1, WriteKeepsTx
<1>2. CASE UNCHANGED txRing
  BY <1>2 DEF TxInv, txRing
<1>3. CASE DriverStep \/ Isr \/ Peripheral
  <2>1. UNCHANGED txRing
    BY <1>3 DEF DriverStep, Uart_Init, NVIC_EnableIRQ, ReadCheck, ReadTail, ReadCopy,
                LevelTail, GetCharWait, GetCharData, GetCharReturn, PutCharWait,
                PutCharData, Isr, IsrEnter, IsrReceive, Peripheral, PeerSends,
                ShiftLoad, ShiftDone
  <2>2. QED
    BY <1>2, <2>1
<1>4. CASE \/ \E n \in ReadSizes : Uart_Read(n)
           \/ \E wake \in 0..1 : SetWakeup(wake)
           \/ LevelHead \/ GetCharCall \/ PutCharCall \/ Usart_DeInit
           \/ UNCHANGED vars
  <2>1. UNCHANGED txRing
    BY <1>4 DEF Uart_Read, SetWakeup, LevelHead, GetCharCall, PutCharCall, Usart_DeInit,
                vars
  <2>2. QED
    BY <1>2, <2>1
<1>5. QED
  BY <1>1, <1>3, <1>4 DEF Next, Client

\* What Uart_Write counts as written is in the ring, in order, and stays: after
\* TxSize - 1 bytes every further call writes nothing.
TxRingKeepsAll ==
  /\ TxWaiting = Len(txAcc) /\ Len(txAcc) <= TxSize - 1
  /\ \A k \in 1..TxWaiting : txBuf[SlotAfter(txTail, k, TxSize)] = txAcc[k]

\* What Uart_Write has counted as written is in the ring, in order, for good:
\* the ring of any size fills once.
THEOREM WrittenStays == Spec => []TxRingKeepsAll
<1>1. TxInv => TxRingKeepsAll
  <2> SUFFICES ASSUME TxInv PROVE TxRingKeepsAll
    OBVIOUS
  <2>1. TxSize \in Nat /\ txHead \in 0 .. TxSize - 1 /\ txTail = 0 /\ Len(txAcc) = txHead
    BY HalAssumption DEF TxInv, Slots
  <2>2. TxWaiting = txHead
    BY <2>1 DEF TxWaiting, Waiting
  <2>3. \A k \in 1..txHead : SlotAfter(txTail, k, TxSize) = k
    BY <2>1 DEF SlotAfter
  <2>4. QED
    BY <2>1, <2>2, <2>3 DEF TxInv, TxRingKeepsAll
<1>2. QED
  BY InitTx, NextTx, <1>1, PTL DEF Spec

-----------------------------------------------------------------------------
(***************************************************************************)
(* The receive ring.  While main advances the tail the ring is not empty,  *)
(* the handler only adds to it; and a client that polls, if it does not    *)
(* take interrupts as well, has no handler: its byte never meets the ring. *)
(***************************************************************************)

\* A client in UART_GetChar has no handler to take the byte from under it.
PollInv ==
  /\ rxD # <<>> => rxD = <<rxLast>>
  /\ pc \in {"gWait", "gData", "gReturn"} => ~nvic
  /\ pc = "gData" => rxD # <<>>
  /\ pc = "gReturn" => rxAcc # <<>> /\ char = rxAcc[Len(rxAcc)]

LEMMA InitPoll == Init => PollInv
BY DEF Init, PollInv

LEMMA NextPoll ==
  ASSUME ~Mix, TypeInv, PollInv, [Next]_vars
  PROVE  PollInv'
<1> USE DEF MainAt, Goto, control, line, readLoc
<1>1. CASE Client
  BY <1>1 DEF PollInv, Client, Uart_Read, Uart_Write, SetWakeup, LevelHead, GetCharCall,
              PutCharCall, Usart_DeInit
<1>2. CASE DriverStep /\ ~GetCharData
  BY <1>2 DEF PollInv, DriverStep, Uart_Init, NVIC_EnableIRQ, ReadCheck, ReadTail,
              ReadCopy, LevelTail, GetCharWait, GetCharReturn, PutCharWait, PutCharData
<1>3. CASE GetCharData
  <2>1. /\ pc = "gData" /\ pc' = "gReturn" /\ UNCHANGED nvic
        /\ char' = rxLast /\ rxD' = <<>> /\ rxAcc' = rxAcc \o rxD
    BY <1>3 DEF GetCharData
  <2>2. rxD = <<rxLast>> /\ ~nvic
    BY <2>1 DEF PollInv
  <2>3. rxAcc \in Seq(RxBytes) /\ rxLast \in RxBytes
    BY DEF TypeInv, TypeOK, RxBytes
  <2>4. rxAcc' = Append(rxAcc, rxLast)
    BY <2>1, <2>2, <2>3, OneByte DEF TypeInv, TypeOK
  <2>5. rxAcc' # <<>> /\ rxAcc'[Len(rxAcc')] = rxLast
    BY <2>3, <2>4, AppendProperties
  <2>6. QED
    BY <2>1, <2>2, <2>5 DEF PollInv
<1>4. CASE Isr
  <2>1. nvic
    BY <1>4 DEF Isr, IsrEnter, IsrReceive, Irq, TypeInv
  <2>2. /\ pc' = pc /\ nvic' = nvic /\ rxLast' = rxLast
        /\ rxD' = <<>> \/ rxD' = rxD
    BY <1>4 DEF Isr, IsrEnter, IsrReceive
  <2>3. QED
    BY <2>1, <2>2 DEF PollInv
<1>5. CASE PeerSends
  <2>1. rxD # <<>> => rxD' = rxD /\ rxLast' = rxLast
    BY <1>5 DEF PeerSends
  <2>2. rxD = <<>> => rxD' = <<rxLast'>> /\ rxD' # <<>>
    BY <1>5 DEF PeerSends
  <2>3. UNCHANGED <<pc, nvic, rxAcc, char>>
    BY <1>5 DEF PeerSends
  <2>4. QED
    BY <2>1, <2>2, <2>3 DEF PollInv
<1>6. CASE ShiftLoad \/ ShiftDone \/ UNCHANGED vars
  BY <1>6 DEF PollInv, ShiftLoad, ShiftDone, vars
<1>7. QED
  BY <1>1, <1>2, <1>3, <1>4, <1>5, <1>6 DEF Next, Peripheral

\* The byte Uart_Read or UART_GetChar is about to hand out.
InHand == IF pc \in {"rCopy", "gReturn"} THEN 1 ELSE 0

\* The ring holds, in order, the bytes accepted and neither handed out nor in
\* hand; the slot Uart_Read copies from is not one of them.
RxHoldsTheRest ==
  /\ Len(rxAcc) = Len(rxGot) + InHand + RxWaiting
  /\ pc = "rCopy" => rxBuf[rxTail] = rxAcc[Len(rxGot) + 1]
  /\ \A k \in 1..RxWaiting :
        rxBuf[SlotAfter(rxTail, k, RxSize)] = rxAcc[Len(rxGot) + InHand + k]

RxInv ==
  /\ RxHoldsTheRest
  /\ pc = "rTail" => rxHead # rxTail
  /\ ~nvic => rxHead = rxTail
  /\ pc = "boot" => rxAcc = <<>> /\ rxGot = <<>>

\* The receive ring starts empty, with nothing accepted.
LEMMA InitRx == Init => RxInv
BY HalAssumption DEF Init, RxInv, RxHoldsTheRest, InHand, RxWaiting, Waiting

\* The steps that leave the ring and its histories alone and do not carry main
\* to or from the place where it holds a byte.
RxQuiet ==
  /\ UNCHANGED <<rxBuf, rxHead, rxTail, rxAcc, rxGot>>
  /\ (pc \notin {"rCopy", "gReturn"} /\ pc' \notin {"rCopy", "gReturn"}) \/ pc' = pc
  /\ pc' = "rTail" => rxHead # rxTail \/ pc' = pc
  /\ nvic' = nvic \/ nvic'
  /\ pc' = "boot" => pc = "boot"

LEMMA QuietKeepsRx == RxInv /\ RxQuiet => RxInv'
BY DEF RxInv, RxQuiet, RxHoldsTheRest, InHand, RxWaiting

\* The rest of the driver, the client and the peripheral take such steps.
LEMMA QuietSteps ==
  ASSUME TypeInv,
         \/ Client \/ Peripheral \/ UNCHANGED vars
         \/ Uart_Init \/ NVIC_EnableIRQ \/ ReadCheck \/ LevelTail
         \/ GetCharWait \/ PutCharWait \/ PutCharData \/ IsrEnter
  PROVE  RxQuiet
<1> USE DEF RxQuiet, MainAt, Goto, rxRing, readLoc, control
<1>1. CASE Client
  BY <1>1 DEF Client, Uart_Read, Uart_Write, SetWakeup, LevelHead, GetCharCall,
              PutCharCall, Usart_DeInit
<1>2. CASE Peripheral
  BY <1>2 DEF Peripheral, PeerSends, ShiftLoad, ShiftDone
<1>3. CASE Uart_Init
  BY <1>3 DEF Uart_Init
<1>4. CASE NVIC_EnableIRQ
  <2>1. nvic = FALSE
    BY <1>4 DEF NVIC_EnableIRQ, TypeInv, TypeOK
  <2>2. QED
    BY <1>4, <2>1 DEF NVIC_EnableIRQ
<1>5. CASE ReadCheck
  BY <1>5 DEF ReadCheck
<1>6. CASE LevelTail \/ GetCharWait
  BY <1>6 DEF LevelTail, GetCharWait
<1>7. CASE PutCharWait \/ PutCharData
  BY <1>7 DEF PutCharWait, PutCharData
<1>8. CASE IsrEnter
  BY <1>8 DEF IsrEnter
<1>9. CASE UNCHANGED vars
  BY <1>9 DEF vars
<1>10. QED
  BY <1>1, <1>2, <1>3, <1>4, <1>5, <1>6, <1>7, <1>8, <1>9

\* The rest of the steps of Next.
LEMMA RxCases ==
  ASSUME TypeInv, [Next]_vars
  PROVE  \/ RxQuiet \/ ReadTail \/ ReadCopy \/ GetCharData \/ GetCharReturn
         \/ IsrReceive
BY QuietSteps DEF Next, DriverStep, Isr

\* What the other steps rely on, gathered from the type invariant.
LEMMA RxFacts ==
  ASSUME TypeInv
  PROVE  /\ RxSize \in Nat /\ RxSize > 1
         /\ rxHead \in Slots(RxSize) /\ rxTail \in Slots(RxSize)
         /\ rxBuf \in [Slots(RxSize) -> RxBytes]
         /\ rxAcc \in Seq(RxBytes) /\ rxGot \in Seq(RxBytes)
         /\ Len(rxAcc) \in Nat /\ Len(rxGot) \in Nat
         /\ RxWaiting \in 0 .. RxSize - 1
         /\ InHand \in 0..1
<1>1. /\ rxHead \in Slots(RxSize) /\ rxTail \in Slots(RxSize)
      /\ rxBuf \in [Slots(RxSize) -> RxBytes]
      /\ rxAcc \in Seq(RxBytes) /\ rxGot \in Seq(RxBytes)
  BY DEF TypeInv, TypeOK
<1>2. RxSize \in Nat /\ RxSize > 1
  BY HalAssumption
<1>3. RxWaiting \in 0 .. RxSize - 1
  BY <1>1, <1>2, WaitingBounds DEF RxWaiting
<1>4. Len(rxAcc) \in Nat /\ Len(rxGot) \in Nat
  BY <1>1, LenProperties
<1>5. QED
  BY <1>1, <1>2, <1>3, <1>4 DEF InHand

\* Uart_Read gives a slot back: its byte is now the one in hand.
LEMMA ReadTailKeepsRx ==
  ASSUME TypeInv, RxInv, ReadTail
  PROVE  RxInv'
<1>1. /\ rxTail' = NextSlot(rxTail, RxSize)
      /\ pc = "rTail" /\ pc' = "rCopy"
      /\ UNCHANGED <<rxBuf, rxHead, rxAcc, rxGot, nvic>>
  BY DEF ReadTail, MainAt, Goto, RxNext, readLoc, control
<1>2. rxHead # rxTail /\ InHand = 0 /\ InHand' = 1
  BY <1>1 DEF RxInv, InHand
<1>3. /\ RxWaiting' = RxWaiting - 1
      /\ rxTail' = SlotAfter(rxTail, 1, RxSize)
      /\ \A k \in 1 .. RxWaiting - 1 :
            SlotAfter(rxTail', k, RxSize) = SlotAfter(rxTail, k + 1, RxSize)
  BY <1>1, <1>2, RxFacts, GetFromRing DEF RxWaiting
<1>4. Len(rxAcc') = Len(rxGot') + InHand' + RxWaiting'
  BY <1>1, <1>2, <1>3, RxFacts DEF RxInv, RxHoldsTheRest
<1>5. RxWaiting > 0
  BY <1>2, RxFacts, WaitingBounds DEF RxWaiting
<1>6. rxBuf'[rxTail'] = rxAcc'[Len(rxGot') + 1]
  <2>1. 1 \in 1 .. RxWaiting /\ Len(rxGot) + 0 + 1 = Len(rxGot) + 1
    BY <1>5, RxFacts
  <2>2. rxBuf[SlotAfter(rxTail, 1, RxSize)] = rxAcc[Len(rxGot) + 0 + 1]
    BY <1>2, <2>1 DEF RxInv, RxHoldsTheRest
  <2>3. QED
    BY <1>1, <1>3, <2>1, <2>2
<1>7. ASSUME NEW k \in 1 .. RxWaiting'
      PROVE  rxBuf'[SlotAfter(rxTail', k, RxSize)]
               = rxAcc'[Len(rxGot') + InHand' + k]
  <2>1. k \in 1 .. RxWaiting - 1 /\ k + 1 \in 1 .. RxWaiting
    BY <1>3, RxFacts
  <2>2. rxBuf[SlotAfter(rxTail, k + 1, RxSize)] = rxAcc[Len(rxGot) + (k + 1)]
    BY <1>2, <2>1, RxFacts DEF RxInv, RxHoldsTheRest
  <2>3. Len(rxGot) + 1 + k = Len(rxGot) + (k + 1)
    BY <2>1, RxFacts
  <2>4. QED
    BY <1>1, <1>2, <1>3, <2>1, <2>2, <2>3
<1>8. QED
  BY <1>1, <1>2, <1>4, <1>6, <1>7 DEF RxInv, RxHoldsTheRest

\* Uart_Read copies the byte in hand.
LEMMA ReadCopyKeepsRx ==
  ASSUME TypeInv, RxInv, ReadCopy
  PROVE  RxInv'
<1>1. /\ pc = "rCopy" /\ pc' = "rCheck"
      /\ rxGot' = Append(rxGot, rxBuf[rxTail])
      /\ UNCHANGED <<rxBuf, rxHead, rxTail, rxAcc, nvic>>
  BY DEF ReadCopy, MainAt, Goto, rxRing, control
<1>2. InHand = 1 /\ InHand' = 0 /\ RxWaiting' = RxWaiting
  BY <1>1 DEF InHand, RxWaiting
<1>3. rxBuf[rxTail] \in RxBytes
  BY RxFacts
<1>4. Len(rxGot') = Len(rxGot) + 1
  BY <1>1, <1>3, RxFacts, AppendProperties
<1>5. Len(rxAcc') = Len(rxGot') + InHand' + RxWaiting'
  BY <1>1, <1>2, <1>4, RxFacts DEF RxInv, RxHoldsTheRest
<1>6. ASSUME NEW k \in 1 .. RxWaiting'
      PROVE  rxBuf'[SlotAfter(rxTail', k, RxSize)]
               = rxAcc'[Len(rxGot') + InHand' + k]
  <2>1. rxBuf[SlotAfter(rxTail, k, RxSize)] = rxAcc[Len(rxGot) + InHand + k]
    BY <1>2 DEF RxInv, RxHoldsTheRest
  <2>2. Len(rxGot') + InHand' + k = Len(rxGot) + InHand + k
    BY <1>2, <1>4, RxFacts
  <2>3. QED
    BY <1>1, <2>1, <2>2
<1>7. QED
  BY <1>1, <1>5, <1>6 DEF RxInv, RxHoldsTheRest

\* The handler stores a byte: not over one that waits, and not over the one in
\* hand.
LEMMA AcceptKeepsRx ==
  ASSUME TypeInv, RxInv, NEW data \in RxBytes,
         rxTail # NextSlot(rxHead, RxSize),
         rxHead' = NextSlot(rxHead, RxSize), rxTail' = rxTail,
         rxBuf' = [rxBuf EXCEPT ![NextSlot(rxHead, RxSize)] = data],
         rxAcc' = Append(rxAcc, data),
         UNCHANGED <<rxGot, pc, nvic>>, nvic
  PROVE  RxInv'
<1>1. /\ RxWaiting' = RxWaiting + 1
      /\ NextSlot(rxHead, RxSize) = SlotAfter(rxTail, RxWaiting + 1, RxSize)
      /\ \A k \in 1 .. RxWaiting :
            SlotAfter(rxTail, k, RxSize) # NextSlot(rxHead, RxSize)
  BY RxFacts, PutInRing DEF RxWaiting
<1>2. InHand' = InHand
  BY DEF InHand
<1>3. /\ Len(rxAcc') = Len(rxAcc) + 1
      /\ \A i \in 1 .. Len(rxAcc) : rxAcc'[i] = rxAcc[i]
      /\ rxAcc'[Len(rxAcc) + 1] = data
  BY RxFacts, AppendProperties
<1>4. Len(rxAcc) = Len(rxGot) + InHand + RxWaiting
  BY DEF RxInv, RxHoldsTheRest
<1>5. Len(rxAcc') = Len(rxGot') + InHand' + RxWaiting'
  BY <1>1, <1>2, <1>3, <1>4, RxFacts
<1>6. pc' = "rCopy" => rxBuf'[rxTail'] = rxAcc'[Len(rxGot') + 1]
  <2>1. SUFFICES ASSUME pc = "rCopy"
                 PROVE  rxBuf'[rxTail'] = rxAcc'[Len(rxGot') + 1]
    OBVIOUS
  <2>2. rxBuf[rxTail] = rxAcc[Len(rxGot) + 1] /\ InHand = 1
    BY <2>1 DEF RxInv, RxHoldsTheRest, InHand
  <2>3. Len(rxGot) + 1 \in 1 .. Len(rxAcc)
    BY <1>4, <2>2, RxFacts
  <2>4. QED
    BY <1>3, <2>2, <2>3, RxFacts
<1>7. ASSUME NEW k \in 1 .. RxWaiting'
      PROVE  rxBuf'[SlotAfter(rxTail', k, RxSize)]
               = rxAcc'[Len(rxGot') + InHand' + k]
  <2>0. /\ Len(rxGot) \in Nat /\ InHand \in Nat /\ RxWaiting \in Nat
        /\ Len(rxGot') = Len(rxGot)
    BY RxFacts
  <2>1. CASE k = RxWaiting + 1
    <3>1. Len(rxGot') + InHand' + k = Len(rxAcc) + 1
      BY <1>2, <1>4, <2>0, <2>1
    <3>2. NextSlot(rxHead, RxSize) \in Slots(RxSize)
      BY IndexTypes DEF TypeInv, RxNext
    <3>3. QED
      BY <1>1, <1>3, <2>1, <3>1, <3>2, RxFacts
  <2>2. CASE k \in 1 .. RxWaiting
    <3>1. rxBuf[SlotAfter(rxTail, k, RxSize)] = rxAcc[Len(rxGot) + InHand + k]
      BY <2>2 DEF RxInv, RxHoldsTheRest
    <3>2. Len(rxGot) + InHand + k \in 1 .. Len(rxAcc)
      BY <1>4, <2>2, RxFacts
    <3>3. SlotAfter(rxTail, k, RxSize) \in Slots(RxSize)
      BY <2>2, RxFacts, WaitingBounds
    <3>4. QED
      BY <1>1, <1>2, <1>3, <2>2, <3>1, <3>2, <3>3, RxFacts
  <2>3. k \in 1 .. RxWaiting \/ k = RxWaiting + 1
    BY <1>1, <2>0
  <2>4. QED
    BY <2>1, <2>2, <2>3
<1>8. nvic' /\ pc' # "boot" /\ (pc' = "rTail" => rxHead' # rxTail')
  BY DEF TypeInv
<1>9. QED
  BY <1>5, <1>6, <1>7, <1>8 DEF RxInv, RxHoldsTheRest

\* What the handler does to the ring.
LEMMA ReceiveCases ==
  ASSUME TypeInv, IsrReceive
  PROVE  /\ nvic' = nvic
         /\ \/ UNCHANGED <<rxBuf, rxHead, rxTail, rxAcc, rxGot, pc>>
            \/ \E data \in RxBytes :
                 /\ rxTail # NextSlot(rxHead, RxSize)
                 /\ rxHead' = NextSlot(rxHead, RxSize) /\ rxTail' = rxTail
                 /\ rxBuf' = [rxBuf EXCEPT ![NextSlot(rxHead, RxSize)] = data]
                 /\ rxAcc' = Append(rxAcc, data)
                 /\ UNCHANGED <<rxGot, pc>>
<1>1. UNCHANGED <<rxGot, pc, nvic>>
  BY DEF IsrReceive, readLoc, control
<1>2. Head(rxD) \in RxBytes
  BY OneByte DEF IsrReceive, TypeInv, TypeOK
<1>3. QED
  BY <1>1, <1>2 DEF IsrReceive, Un_RxISR, RxNext, rxRing

\* UART_GetChar takes the byte out of the register and hands it out: the ring is
\* empty then and stays so.
LEMMA GetCharKeepsRx ==
  ASSUME TypeInv, PollInv, RxInv, GetCharData \/ GetCharReturn
  PROVE  RxInv'
<1>1. /\ pc \in {"gData", "gReturn"} /\ ~nvic /\ rxHead = rxTail /\ RxWaiting = 0
      /\ UNCHANGED <<rxBuf, rxHead, rxTail, nvic>>
  <2>1. pc \in {"gData", "gReturn"} /\ UNCHANGED <<rxBuf, rxHead, rxTail, nvic>>
    BY DEF GetCharData, GetCharReturn, MainAt, rxRing, control
  <2>2. ~nvic /\ rxHead = rxTail
    BY <2>1 DEF PollInv, RxInv
  <2>3. QED
    BY <2>1, <2>2, RxFacts, WaitingBounds DEF RxWaiting
<1>2. RxWaiting' = 0
  BY <1>1 DEF RxWaiting
<1>3. CASE GetCharData
  <2>1. pc = "gData" /\ pc' = "gReturn" /\ rxGot' = rxGot /\ rxAcc' = rxAcc \o rxD
    BY <1>3 DEF GetCharData, MainAt, Goto, readLoc
  <2>2. rxAcc' = Append(rxAcc, Head(rxD)) /\ Head(rxD) \in RxBytes
    BY <2>1, OneByte DEF PollInv, TypeInv, TypeOK
  <2>3. Len(rxAcc') = Len(rxAcc) + 1
    BY <2>2, RxFacts, AppendProperties
  <2>4. InHand = 0 /\ InHand' = 1
    BY <2>1 DEF InHand
  <2>5. Len(rxAcc') = Len(rxGot') + InHand' + RxWaiting'
    BY <1>1, <1>2, <2>1, <2>3, <2>4, RxFacts DEF RxInv, RxHoldsTheRest
  <2>6. QED
    BY <1>1, <1>2, <2>1, <2>5 DEF RxInv, RxHoldsTheRest
<1>4. CASE GetCharReturn
  <2>1. /\ pc = "gReturn" /\ pc' = "app" /\ rxAcc' = rxAcc
        /\ rxGot' = Append(rxGot, rxAcc[Len(rxAcc)])
    BY <1>4 DEF GetCharReturn, MainAt, Goto, PollInv
  <2>2. InHand = 1 /\ InHand' = 0
    BY <2>1 DEF InHand
  <2>3. Len(rxAcc) = Len(rxGot) + 1
    BY <1>1, <2>2, RxFacts DEF RxInv, RxHoldsTheRest
  <2>4. Len(rxGot') = Len(rxGot) + 1
    <3>1. rxAcc[Len(rxAcc)] \in RxBytes
      BY <2>3, RxFacts, LenProperties
    <3>2. QED
      BY <2>1, <3>1, RxFacts, AppendProperties
  <2>5. Len(rxAcc') = Len(rxGot') + InHand' + RxWaiting'
    BY <1>2, <2>1, <2>2, <2>3, <2>4, RxFacts
  <2>6. QED
    BY <1>1, <1>2, <2>1, <2>5 DEF RxInv, RxHoldsTheRest
<1>5. QED
  BY <1>3, <1>4

\* The invariant of the receive ring is inductive.
LEMMA NextRx == TypeInv /\ PollInv /\ RxInv /\ [Next]_vars => RxInv'
<1> SUFFICES ASSUME TypeInv, PollInv, RxInv, [Next]_vars
             PROVE  RxInv'
  OBVIOUS
<1>1. CASE RxQuiet
  BY <1>1, QuietKeepsRx
<1>2. CASE ReadTail
  BY <1>2, ReadTailKeepsRx
<1>3. CASE ReadCopy
  BY <1>3, ReadCopyKeepsRx
<1>4. CASE GetCharData \/ GetCharReturn
  BY <1>4, GetCharKeepsRx
<1>5. CASE IsrReceive
  <2>1. nvic' = nvic /\ nvic
    BY <1>5, ReceiveCases DEF IsrReceive, TypeInv
  <2>2. CASE UNCHANGED <<rxBuf, rxHead, rxTail, rxAcc, rxGot, pc>>
    BY <2>1, <2>2, QuietKeepsRx DEF RxQuiet
  <2>3. QED
    BY <1>5, <2>1, <2>2, ReceiveCases, AcceptKeepsRx
<1>6. QED
  BY <1>1, <1>2, <1>3, <1>4, <1>5, RxCases

\* The strengthened invariant of the receive ring holds whatever main, the
\* handler and the peer do, and in whatever order, for a client that does not
\* mix polling with interrupts.
THEOREM RxInvariant ==
  ASSUME ~Mix
  PROVE  Spec => [](PollInv /\ RxInv)
<1>1. TypeInv /\ PollInv /\ [Next]_vars => PollInv'
  BY NextPoll
<1>2. QED
  BY <1>1, InitPoll, InitTypes, NextTypes, InitRx, NextRx, PTL DEF Spec

\* With the bytes numbered, what Uart_Read and UART_GetChar hand out is what the
\* peer sent, but for what was dropped at the door: Put is the handler's
\* acceptance or UART_GetChar's, Get the copy, Open Uart_Init.
LEMMA InitIsFifoInit == Init => RxFifo!FifoInit
BY DEF Init, RxFifo!FifoInit

\* Every step of the driver is a step of the queue or leaves it unchanged.
LEMMA StepIsFifoStep ==
  ASSUME TypeInv, PollInv, RxInv, [Next]_vars
  PROVE  [RxFifo!FifoNext]_(RxFifo!fifoVars)
<1> USE DEF RxFifo!fifoVars, RxFifo!FifoNext
<1>1. CASE RxQuiet
  <2>1. UNCHANGED <<rxAcc, rxGot>> /\ (pc' = "boot" => pc = "boot")
    BY <1>1 DEF RxQuiet
  <2>2. CASE pc # "boot" <=> pc' # "boot"
    BY <2>1, <2>2
  <2>3. CASE pc = "boot" /\ pc' # "boot"
    BY <2>1, <2>3 DEF RxFifo!Open, RxInv
  <2>4. QED
    BY <2>1, <2>2, <2>3
<1>2. CASE ReadTail
  BY <1>2 DEF ReadTail, MainAt, Goto, readLoc
<1>3. CASE ReadCopy
  <2>1. /\ rxGot' = Append(rxGot, rxAcc[Len(rxGot) + 1])
        /\ pc # "boot" /\ pc' # "boot" /\ rxAcc' = rxAcc /\ InHand = 1
    BY <1>3 DEF ReadCopy, MainAt, Goto, InHand, RxInv, RxHoldsTheRest
  <2>2. Len(rxGot) < Len(rxAcc)
    BY <2>1, RxFacts DEF RxInv, RxHoldsTheRest
  <2>3. QED
    BY <2>1, <2>2 DEF RxFifo!Get
<1>4. CASE GetCharData
  <2>1. pc = "gData" /\ pc' = "gReturn" /\ rxGot' = rxGot /\ rxAcc' = rxAcc \o rxD
    BY <1>4 DEF GetCharData, MainAt, Goto, readLoc
  <2>2. rxAcc' = Append(rxAcc, Head(rxD)) /\ Head(rxD) \in RxBytes
    BY <2>1, OneByte DEF PollInv, TypeInv, TypeOK
  <2>3. InHand = 0 /\ RxWaiting = 0
    <3>1. rxHead = rxTail
      BY <2>1 DEF PollInv, RxInv
    <3>2. QED
      BY <2>1, <3>1, RxFacts, WaitingBounds DEF InHand, RxWaiting
  <2>4. Len(rxAcc) - Len(rxGot) < RxSize
    BY <2>3, RxFacts DEF RxInv, RxHoldsTheRest
  <2>5. QED
    BY <2>1, <2>2, <2>4 DEF RxFifo!Put, RxBytes
<1>5. CASE GetCharReturn
  <2>1. /\ pc = "gReturn" /\ pc' = "app" /\ rxAcc' = rxAcc
        /\ rxGot' = Append(rxGot, rxAcc[Len(rxAcc)])
    BY <1>5 DEF GetCharReturn, MainAt, Goto, PollInv
  <2>2. InHand = 1 /\ RxWaiting = 0
    <3>1. rxHead = rxTail
      BY <2>1 DEF PollInv, RxInv
    <3>2. QED
      BY <2>1, <3>1, RxFacts, WaitingBounds DEF InHand, RxWaiting
  <2>3. Len(rxAcc) = Len(rxGot) + 1
    BY <2>2, RxFacts DEF RxInv, RxHoldsTheRest
  <2>4. QED
    BY <2>1, <2>3, RxFacts DEF RxFifo!Get
<1>6. CASE IsrReceive
  <2>1. CASE UNCHANGED <<rxBuf, rxHead, rxTail, rxAcc, rxGot, pc>>
    BY <2>1
  <2>2. ASSUME NEW data \in RxBytes,
               rxTail # NextSlot(rxHead, RxSize),
               rxAcc' = Append(rxAcc, data),
               UNCHANGED <<rxGot, pc>>
        PROVE  RxFifo!Put
    <3>1. RxWaiting # RxSize - 1
      BY <2>2, RxFacts, FullRing DEF RxWaiting
    <3>2. Len(rxAcc) - Len(rxGot) < RxSize
      BY <3>1, RxFacts DEF RxInv, RxHoldsTheRest
    <3>3. QED
      BY <2>2, <3>2 DEF RxFifo!Put, RxBytes
  <2>3. QED
    BY <1>6, <2>1, <2>2, ReceiveCases
<1>7. QED
  BY <1>1, <1>2, <1>3, <1>4, <1>5, <1>6, RxCases

\* For a client that either polls or takes interrupts the driver is a first-in
\* first-out queue from the acceptance of a byte to the client: main and the
\* handler, interleaved in any way, lose, repeat and reorder nothing.  A client that
\* does both can be handed a byte twice, by UART_GetChar and out of the ring.
THEOREM ReceiverImplementsFifo ==
  ASSUME ~Mix
  PROVE  Spec => RxIsFifo
<1>1. TypeInv /\ PollInv /\ RxInv /\ [Next]_vars => [RxFifo!FifoNext]_(RxFifo!fifoVars)
  BY StepIsFifoStep
<1>2. QED
  BY <1>1, InitIsFifoInit, Typing, RxInvariant, PTL
     DEF Spec, RxIsFifo, RxFifo!FifoSpec

\* The handler, once it has waited for a byte, refuses it only when all the
\* usable slots of the ring hold unread ones.
THEOREM DropsOnlyWhenFull == Spec => RxDropsOnlyWhenFull
<1>1. ASSUME TypeInv, [Next]_vars, ipc = "wait", ipc' = "idle"
      PROVE  rxAcc' # rxAcc \/ RxWaiting = RxSize - 1
  <2>1. IsrReceive
    <3> USE DEF MainAt, Goto
    <3>1. ~DriverStep
      BY <1>1 DEF DriverStep, Uart_Init, NVIC_EnableIRQ, ReadCheck, ReadTail, ReadCopy,
                  LevelTail, GetCharWait, GetCharData, GetCharReturn, PutCharWait,
                  PutCharData
    <3>2. ~Client
      BY <1>1 DEF Client, Uart_Read, Uart_Write, SetWakeup, LevelHead, GetCharCall,
                  PutCharCall, Usart_DeInit
    <3>3. ~Peripheral /\ ~UNCHANGED vars /\ ~IsrEnter
      BY <1>1 DEF Peripheral, PeerSends, ShiftLoad, ShiftDone, vars, IsrEnter
    <3>4. QED
      BY <1>1, <3>1, <3>2, <3>3 DEF Next, Isr
  <2>2. CASE rxTail = NextSlot(rxHead, RxSize)
    BY <1>1, <2>2, RxFacts, FullRing DEF RxWaiting
  <2>3. CASE rxTail # NextSlot(rxHead, RxSize)
    <3>1. rxAcc' = Append(rxAcc, Head(rxD))
      BY <2>1, <2>3 DEF IsrReceive, Un_RxISR, RxNext
    <3>2. Len(rxAcc') # Len(rxAcc)
      BY <3>1, <1>1, RxFacts
    <3>3. QED
      BY <3>2
  <2>4. QED
    BY <2>2, <2>3
<1>2. TypeInv /\ [Next]_vars =>
        [ipc = "wait" /\ ipc' = "idle" => rxAcc' # rxAcc \/ RxWaiting = RxSize - 1]_vars
  BY <1>1
<1>3. QED
  BY <1>2, Typing, PTL DEF Spec, RxDropsOnlyWhenFull

-----------------------------------------------------------------------------
(***************************************************************************)
(* The level.  Between its two loads the handler may move head, but never  *)
(* round to tail: what waited still waits.                                 *)
(***************************************************************************)
LevelInv ==
  pc = "level" => waited = Waiting(reg, rxTail, RxSize) /\ waited <= RxWaiting

LEMMA InitLevel == Init => LevelInv
BY DEF Init, LevelInv

LEMMA NextLevel == TypeInv /\ LevelInv /\ [Next]_vars => LevelInv'
<1> SUFFICES ASSUME TypeInv, LevelInv, [Next]_vars, pc' = "level"
             PROVE  /\ waited' = Waiting(reg', rxTail', RxSize)
                    /\ waited' <= RxWaiting'
  BY DEF LevelInv
<1>1. CASE LevelHead
  <2>1. reg' = rxHead /\ waited' = RxWaiting /\ UNCHANGED <<rxHead, rxTail>>
    BY <1>1 DEF LevelHead, rxRing
  <2>2. QED
    BY <2>1, RxFacts DEF RxWaiting
<1>2. CASE IsrReceive
  <2>1. pc = "level" /\ UNCHANGED <<reg, waited>>
    BY <1>2 DEF IsrReceive, levels
  <2>2. rxTail' = rxTail /\ RxWaiting' \in {RxWaiting, RxWaiting + 1}
    <3>1. CASE UNCHANGED <<rxBuf, rxHead, rxTail, rxAcc, rxGot, pc>>
      BY <3>1 DEF RxWaiting
    <3>2. CASE /\ rxTail # NextSlot(rxHead, RxSize) /\ rxTail' = rxTail
               /\ rxHead' = NextSlot(rxHead, RxSize)
      BY <3>2, RxFacts, PutInRing DEF RxWaiting
    <3>3. QED
      BY <1>2, <3>1, <3>2, ReceiveCases
  <2>3. waited = Waiting(reg, rxTail, RxSize) /\ waited <= RxWaiting /\ waited \in Int
    <3>1. reg \in Slots(RxSize)
      BY DEF TypeInv, TypeOK
    <3>2. Waiting(reg, rxTail, RxSize) \in Int
      BY <3>1, RxFacts, WaitingBounds
    <3>3. QED
      BY <2>1, <3>2 DEF LevelInv
  <2>4. RxWaiting' >= RxWaiting /\ RxWaiting \in Int /\ RxWaiting' \in Int
    BY <2>2, RxFacts
  <2>5. waited' = waited /\ reg' = reg /\ rxTail' = rxTail
    BY <2>1, <2>2
  <2>6. QED
    BY <2>3, <2>4, <2>5
<1>3. CASE ~LevelHead /\ ~IsrReceive
  <2>1. pc = "level" /\ UNCHANGED <<reg, waited, rxHead, rxTail>>
    <3> USE DEF MainAt, Goto, rxRing, levels
    <3>1. ~DriverStep
      BY DEF DriverStep, Uart_Init, NVIC_EnableIRQ, ReadCheck, ReadTail, ReadCopy,
             LevelTail, GetCharWait, GetCharData, GetCharReturn, PutCharWait, PutCharData
    <3>2. ~Client
      BY <1>3 DEF Client, Uart_Read, Uart_Write, SetWakeup, GetCharCall, PutCharCall,
                  Usart_DeInit
    <3>3. CASE IsrEnter \/ Peripheral
      BY <3>3 DEF IsrEnter, Peripheral, PeerSends, ShiftLoad, ShiftDone
    <3>4. CASE UNCHANGED vars
      BY <3>4 DEF vars
    <3>5. QED
      BY <1>3, <3>1, <3>2, <3>3, <3>4 DEF Next, Isr
  <2>2. QED
    BY <2>1 DEF LevelInv, RxWaiting
<1>4. QED
  BY <1>1, <1>2, <1>3

\* The level Uart_GetRxQueueLevel reports lies between what waited when it was
\* called and what can be read when it returns, for rings of any size that its
\* result can count: UART_RX_BUF_SIZE is 128 and the result has 8 bits.
THEOREM LevelIsTrue ==
  ASSUME RxSize <= LevelMod
  PROVE  Spec => []LevelIsSafe
<1>1. TypeInv /\ LevelInv => LevelIsSafe
  <2> SUFFICES ASSUME TypeInv, LevelInv, pc = "level"
               PROVE  LevelOf(reg, rxTail) \in waited .. RxWaiting
    BY DEF LevelIsSafe
  <2>1. /\ RxSize \in Nat /\ RxSize > 1
        /\ reg \in 0 .. RxSize - 1 /\ rxTail \in 0 .. RxSize - 1
        /\ RxWaiting \in Nat
    BY RxFacts DEF TypeInv, TypeOK, Slots
  <2>2. Waiting(reg, rxTail, RxSize) \in 0 .. RxSize - 1
    BY <2>1, WaitingBounds DEF Slots
  <2>3. (reg - rxTail) % RxSize = Waiting(reg, rxTail, RxSize)
    <3>1. CASE reg >= rxTail
      <4>1. reg - rxTail \in 0 .. RxSize - 1
        BY <2>1, <3>1
      <4>2. QED
        BY <2>1, <3>1, <4>1 DEF Waiting
    <3>2. CASE reg < rxTail
      <4>1. reg - rxTail + RxSize \in 0 .. RxSize - 1
        BY <2>1, <3>2
      <4>2. (reg - rxTail) % RxSize = reg - rxTail + RxSize
        BY <2>1, <4>1
      <4>3. QED
        BY <2>1, <3>2, <4>2 DEF Waiting
    <3>3. QED
      BY <2>1, <3>1, <3>2
  <2>4. LevelOf(reg, rxTail) = Waiting(reg, rxTail, RxSize)
    <3>1. LevelMod \in Nat /\ \A x \in 0 .. RxSize - 1 : x % LevelMod = x
      BY <2>1, HalAssumption
    <3>2. QED
      BY <2>2, <2>3, <3>1 DEF LevelOf
  <2>5. QED
    BY <2>1, <2>2, <2>4 DEF LevelInv
<1>2. QED
  BY InitTypes, NextTypes, InitLevel, NextLevel, <1>1, PTL DEF Spec

-----------------------------------------------------------------------------
(***************************************************************************)
(* Polled sending.  A byte is in main's hand from the call of UART_PutChar *)
(* until it is stored to D, and D is empty by then.                        *)
(***************************************************************************)
PutInHand == IF pc \in {"pWait", "pData"} THEN 1 ELSE 0

PutFlow ==
  /\ wire \in Seq(Nat)
  /\ Len(put) = Len(wire) + Len(shifter) + Len(txD) + PutInHand
  /\ pc = "pData" => txD = <<>>
  /\ pc = "boot" => put = <<>> /\ wire = <<>>

PutData ==
  /\ \A i \in 1 .. Len(wire) : wire[i] = put[i]
  /\ shifter # <<>> => shifter = <<put[Len(wire) + 1]>>
  /\ txD # <<>> => txD = <<put[Len(wire) + Len(shifter) + 1]>>

PutInv == PutFlow /\ PutData

LEMMA InitPut == Init => PutInv
BY EmptySeq DEF Init, PutInv, PutFlow, PutData, PutInHand

LEMMA PutFacts ==
  ASSUME TypeInv, PutInv
  PROVE  /\ put \in Seq(Nat) /\ wire \in Seq(Nat)
         /\ Len(put) \in Nat /\ Len(wire) \in Nat
         /\ Len(shifter) \in 0..1 /\ Len(txD) \in 0..1 /\ PutInHand \in 0..1
         /\ shifter = <<>> <=> Len(shifter) = 0
         /\ txD = <<>> <=> Len(txD) = 0
<1>1. /\ put \in Seq(Nat) /\ wire \in Seq(Nat) /\ shifter \in Seq(Nat) /\ txD \in Seq(Nat)
      /\ Len(shifter) <= 1 /\ Len(txD) <= 1
  BY DEF TypeInv, TypeOK, PutInv, PutFlow
<1>2. ASSUME NEW s \in Seq(Nat) PROVE Len(s) \in Nat /\ (s = <<>> <=> Len(s) = 0)
  BY <1>2, EmptySeq, LenProperties
<1>3. /\ Len(put) \in Nat /\ Len(wire) \in Nat /\ Len(shifter) \in Nat /\ Len(txD) \in Nat
      /\ shifter = <<>> <=> Len(shifter) = 0
      /\ txD = <<>> <=> Len(txD) = 0
  BY <1>1, <1>2
<1>4. Len(shifter) \in 0..1 /\ Len(txD) \in 0..1
  <2>1. ASSUME NEW n \in Nat, n <= 1 PROVE n \in 0..1
    BY <2>1
  <2>2. QED
    BY <1>1, <1>3, <2>1
<1>5. PutInHand \in 0..1
  BY DEF PutInHand
<1>6. QED
  BY <1>1, <1>3, <1>4, <1>5

\* The steps that move no byte on its way out.
PutQuiet ==
  /\ UNCHANGED <<txD, shifter, put, wire>>
  /\ PutInHand' = PutInHand
  /\ pc' = "pData" => txD = <<>>
  /\ pc' # "boot"  \/ pc = "boot"

LEMMA QuietKeepsPut ==
  ASSUME PutInv, PutQuiet
  PROVE  PutInv'
BY DEF PutInv, PutFlow, PutData, PutQuiet

LEMMA PutCases ==
  ASSUME PutInv, [Next]_vars
  PROVE  PutQuiet \/ PutCharCall \/ PutCharData \/ ShiftLoad \/ ShiftDone
<1> USE DEF MainAt, Goto, PutQuiet, PutInHand, txPort
<1>1. CASE Client
  BY <1>1 DEF Client, Uart_Read, Uart_Write, SetWakeup, LevelHead, GetCharCall,
              Usart_DeInit
<1>2. CASE DriverStep
  BY <1>2 DEF DriverStep, Uart_Init, NVIC_EnableIRQ, ReadCheck, ReadTail, ReadCopy,
              LevelTail, GetCharWait, GetCharData, GetCharReturn, PutCharWait
<1>3. CASE Isr \/ PeerSends
  BY <1>3 DEF Isr, IsrEnter, IsrReceive, PeerSends, PutInv, PutFlow
<1>4. CASE UNCHANGED vars
  BY <1>4 DEF vars, PutInv, PutFlow
<1>5. QED
  BY <1>1, <1>2, <1>3, <1>4 DEF Next, Peripheral

LEMMA CallKeepsPut ==
  ASSUME TypeInv, PutInv, PutCharCall
  PROVE  PutInv'
<1>1. /\ pc = "app" /\ pc' = "pWait" /\ put' = Append(put, Len(put) + 1)
      /\ UNCHANGED <<txD, shifter, wire>>
  BY DEF PutCharCall, MainAt, Goto
<1>2. /\ Len(put') = Len(put) + 1 /\ \A i \in 1 .. Len(put) : put'[i] = put[i]
  BY <1>1, PutFacts, AppendProperties
<1>3. PutInHand = 0 /\ PutInHand' = 1
  BY <1>1 DEF PutInHand
<1>4. Len(put) = Len(wire) + Len(shifter) + Len(txD)
  BY <1>3, PutFacts DEF PutInv, PutFlow
<1>5. PutFlow'
  BY <1>1, <1>2, <1>3, <1>4, PutFacts DEF PutInv, PutFlow
<1>6. /\ \A i \in 1 .. Len(wire) : i \in 1 .. Len(put)
      /\ shifter # <<>> => Len(wire) + 1 \in 1 .. Len(put)
      /\ txD # <<>> => Len(wire) + Len(shifter) + 1 \in 1 .. Len(put)
  BY <1>4, PutFacts
<1>7. PutData'
  BY <1>1, <1>2, <1>6 DEF PutInv, PutData
<1>8. QED
  BY <1>5, <1>7 DEF PutInv

LEMMA StoreKeepsPut ==
  ASSUME TypeInv, PutInv, PutCharData
  PROVE  PutInv'
<1>1. /\ pc = "pData" /\ pc' = "app" /\ txD' = <<put[Len(put)]>> /\ txD = <<>>
      /\ UNCHANGED <<put, shifter, wire>>
  BY DEF PutCharData, MainAt, Goto, PutInv, PutFlow
<1>2. PutInHand = 1 /\ PutInHand' = 0 /\ Len(txD) = 0 /\ Len(txD') = 1
  BY <1>1, PutFacts DEF PutInHand
<1>3. Len(put) = Len(wire) + Len(shifter) + 1
  BY <1>2, PutFacts DEF PutInv, PutFlow
<1>4. PutFlow'
  BY <1>1, <1>2, <1>3, PutFacts DEF PutInv, PutFlow
<1>5. PutData'
  BY <1>1, <1>3 DEF PutInv, PutData
<1>6. QED
  BY <1>4, <1>5 DEF PutInv

LEMMA ShiftKeepsPut ==
  ASSUME TypeInv, PutInv, ShiftLoad \/ ShiftDone
  PROVE  PutInv'
<1>1. UNCHANGED <<put, pc>> /\ PutInHand' = PutInHand
  BY DEF ShiftLoad, ShiftDone, PutInHand
<1>2. CASE ShiftLoad
  <2>1. /\ txD # <<>> /\ shifter = <<>> /\ shifter' = txD /\ txD' = <<>> /\ wire' = wire
    BY <1>2 DEF ShiftLoad
  <2>2. Len(shifter) = 0 /\ Len(txD') = 0 /\ Len(shifter') = Len(txD)
    BY <2>1, EmptySeq
  <2>3. PutFlow'
    BY <1>1, <2>1, <2>2, PutFacts DEF PutInv, PutFlow
  <2>4. Len(wire) + Len(shifter) + 1 = Len(wire) + 1
    BY <2>2, PutFacts
  <2>5. PutData'
    BY <1>1, <2>1, <2>4 DEF PutInv, PutData
  <2>6. QED
    BY <2>3, <2>5 DEF PutInv
<1>3. CASE ShiftDone
  <2>1. /\ shifter = <<put[Len(wire) + 1]>> /\ shifter' = <<>> /\ txD' = txD
        /\ wire' = wire \o shifter /\ shifter # <<>> /\ shifter \in Seq(Nat)
    BY <1>3 DEF ShiftDone, PutInv, PutData, TypeInv
  <2>2. Len(shifter) = 1 /\ Len(shifter') = 0
    BY <2>1
  <2>3. Head(shifter) = put[Len(wire) + 1]
    BY <2>1
  <2>4. /\ wire' = Append(wire, put[Len(wire) + 1]) /\ wire' \in Seq(Nat)
        /\ put[Len(wire) + 1] \in Nat
    BY <2>1, <2>2, <2>3, OneByte, PutFacts
  <2>5. /\ Len(wire') = Len(wire) + 1 /\ wire'[Len(wire) + 1] = put[Len(wire) + 1]
        /\ \A i \in 1 .. Len(wire) : wire'[i] = wire[i]
    BY <2>4, PutFacts, AppendProperties
  <2>6. pc # "boot"
    <3>1. Len(put) # 0
      BY <2>2, PutFacts DEF PutInv, PutFlow
    <3>2. QED
      BY <3>1, EmptySeq DEF PutInv, PutFlow
  <2>7. PutFlow'
    BY <1>1, <2>1, <2>2, <2>4, <2>5, <2>6, PutFacts DEF PutInv, PutFlow
  <2>8. \A i \in 1 .. Len(wire') : i \in 1 .. Len(wire) \/ i = Len(wire) + 1
    BY <2>5, PutFacts
  <2>9. Len(wire') + Len(shifter') + 1 = Len(wire) + Len(shifter) + 1
    BY <2>2, <2>5, PutFacts
  <2>10. PutData'
    BY <1>1, <2>1, <2>5, <2>8, <2>9 DEF PutInv, PutData
  <2>11. QED
    BY <2>7, <2>10 DEF PutInv
<1>4. QED
  BY <1>2, <1>3

LEMMA NextPut == TypeInv /\ PutInv /\ [Next]_vars => PutInv'
BY PutCases, QuietKeepsPut, CallKeepsPut, StoreKeepsPut, ShiftKeepsPut

\* Each step of the driver is a Put, a Get, the Open or a stutter of the queue.
LEMMA StepIsPutStep ==
  ASSUME TypeInv, PutInv, [Next]_vars
  PROVE  [PutFifo!FifoNext]_(PutFifo!fifoVars)
<1> USE DEF PutFifo!fifoVars, PutFifo!FifoNext
<1>1. CASE PutQuiet
  <2>1. CASE (pc # "boot")' = (pc # "boot")
    BY <1>1, <2>1 DEF PutQuiet
  <2>2. CASE pc = "boot" /\ pc' # "boot"
    BY <1>1, <2>2 DEF PutQuiet, PutFifo!Open, PutInv, PutFlow
  <2>3. QED
    BY <1>1, <2>1, <2>2 DEF PutQuiet
<1>2. CASE PutCharCall
  <2>1. /\ pc = "app" /\ pc' = "pWait" /\ put' = Append(put, Len(put) + 1)
        /\ wire' = wire /\ Len(put) < MaxPut
    BY <1>2 DEF PutCharCall, MainAt, Goto
  <2>2. Len(put) + 1 \in 1..MaxPut
    BY <2>1, PutFacts, HalAssumption
  <2>3. Len(put) - Len(wire) < 3
    <3>1. PutInHand = 0
      BY <2>1 DEF PutInHand
    <3>2. ASSUME NEW p, NEW w \in Nat, NEW s \in 0..1, NEW t \in 0..1,
                 p = w + s + t + 0
          PROVE  p - w < 3
      BY <3>2
    <3>3. Len(put) = Len(wire) + Len(shifter) + Len(txD) + 0
      BY <3>1 DEF PutInv, PutFlow
    <3>4. Len(wire) \in Nat /\ Len(shifter) \in 0..1 /\ Len(txD) \in 0..1
      BY PutFacts
    <3>5. QED
      BY <3>2, <3>3, <3>4
  <2>4. QED
    BY <2>1, <2>2, <2>3 DEF PutFifo!Put
<1>3. CASE PutCharData \/ ShiftLoad
  BY <1>3 DEF PutCharData, ShiftLoad, MainAt, Goto
<1>4. CASE ShiftDone
  <2>1. /\ shifter = <<put[Len(wire) + 1]>> /\ shifter # <<>> /\ shifter \in Seq(Nat)
        /\ wire' = wire \o shifter /\ UNCHANGED <<put, pc>>
    BY <1>4 DEF ShiftDone, PutInv, PutData, TypeInv
  <2>2. Len(shifter) = 1 /\ Head(shifter) = put[Len(wire) + 1]
    BY <2>1
  <2>3. wire' = Append(wire, put[Len(wire) + 1])
    BY <2>1, <2>2, OneByte, PutFacts
  <2>4. Len(wire) < Len(put)
    BY <2>2, PutFacts DEF PutInv, PutFlow
  <2>5. QED
    BY <2>1, <2>3, <2>4 DEF PutFifo!Get
<1>5. QED
  BY <1>1, <1>2, <1>3, <1>4, PutCases

\* UART_PutChar and the transmitter implement the abstract byte queue with three
\* places, for any number of bytes and whatever else the client and the handler do.
THEOREM SenderImplementsFifo == Spec => PutIsFifo
<1>1. Init => PutFifo!FifoInit
  BY DEF Init, PutFifo!FifoInit
<1>2. TypeInv /\ PutInv /\ [Next]_vars => [PutFifo!FifoNext]_(PutFifo!fifoVars)
  BY StepIsPutStep
<1>3. QED
  BY <1>1, <1>2, InitPut, NextPut, Typing, PTL DEF Spec, PutIsFifo, PutFifo!FifoSpec

\* The port stays open until it is closed, and the handler has a byte to fetch.
OpenInv ==
  /\ pc \notin {"boot", "closed"} => {"TE", "RIE"} \subseteq c2
  /\ ipc # "idle" => rxD # <<>>

LEMMA NextOpen == OpenInv /\ [Next]_vars => OpenInv'
<1> SUFFICES ASSUME OpenInv, [Next]_vars
             PROVE  OpenInv'
  OBVIOUS
<1> USE DEF OpenInv, MainAt, Goto, control, line
<1>1. CASE Client
  BY <1>1 DEF Client, Uart_Read, Uart_Write, SetWakeup, LevelHead, GetCharCall,
              PutCharCall, Usart_DeInit
<1>2. CASE DriverStep
  BY <1>2 DEF DriverStep, Uart_Init, NVIC_EnableIRQ, ReadCheck, ReadTail, ReadCopy,
              LevelTail, GetCharWait, GetCharData, GetCharReturn, PutCharWait,
              PutCharData
<1>3. CASE Isr
  BY <1>3 DEF Isr, IsrEnter, IsrReceive, Irq
<1>4. CASE PeerSends
  <2>1. rxD # <<>> => rxD' # <<>>
    BY <1>4 DEF PeerSends
  <2>2. QED
    BY <1>4, <2>1 DEF PeerSends
<1>5. CASE ShiftLoad \/ ShiftDone
  BY <1>5 DEF ShiftLoad, ShiftDone
<1>6. CASE UNCHANGED vars
  BY <1>6 DEF vars
<1>7. QED
  BY <1>1, <1>2, <1>3, <1>4, <1>5, <1>6 DEF Next, Peripheral

\* Only UART_GetChar can be left waiting: the handler's loop on RDRF and
\* UART_PutChar's on TDRE always end, and where nothing moves any more everything
\* put is on the wire and the handler has left no byte in D.
THEOREM OnlyGetCharIsLeftWaiting == Spec => []NobodyIsStuck
<1>1. ASSUME TypeInv, PutInv, OpenInv
      PROVE  NobodyIsStuck
  <2>1. SUFFICES ASSUME AtRest
                 PROVE  /\ ipc = "idle" /\ pc \in {"app", "gWait", "closed"}
                        /\ pc # "closed" => wire = put /\ (nvic => rxD = <<>>)
    BY DEF NobodyIsStuck
  <2>2. ipc = "idle" /\ MainWaits /\ ~Irq /\ shifter = <<>>
    BY <1>1, <2>1 DEF AtRest, OpenInv
  <2>3. pc \in {"app", "gWait", "pWait", "closed"}
    BY <2>2 DEF MainWaits
  <2>4. pc # "closed" => txD = <<>> /\ "RIE" \in c2
    BY <1>1, <2>1, <2>3 DEF OpenInv, AtRest
  <2>5. pc \in {"app", "gWait", "closed"}
    BY <2>2, <2>3, <2>4 DEF MainWaits
  <2>6. pc # "closed" /\ nvic => rxD = <<>>
    BY <2>2, <2>4 DEF Irq
  <2>7. ASSUME pc # "closed" PROVE wire = put
    <3>1. PutInHand = 0 /\ Len(shifter) = 0 /\ Len(txD) = 0
      BY <1>1, <2>2, <2>4, <2>5, <2>7, PutFacts DEF PutInHand
    <3>2. Len(wire) = Len(put)
      BY <1>1, <3>1, PutFacts DEF PutInv, PutFlow
    <3>3. wire \in Seq(Nat) /\ put \in Seq(Nat)
      BY <1>1, PutFacts
    <3>4. \A i \in 1 .. Len(wire) : wire[i] = put[i]
      BY <1>1 DEF PutInv, PutData
    <3>5. QED
      BY <3>2, <3>3, <3>4, SeqEqual
  <2>8. QED
    BY <2>2, <2>5, <2>6, <2>7
<1>2. Init => OpenInv
  BY DEF Init, OpenInv
<1>3. TypeInv /\ PutInv /\ OpenInv => NobodyIsStuck
  BY <1>1
<1>4. QED
  BY <1>2, <1>3, InitPut, NextPut, NextOpen, Typing, PTL DEF Spec
=============================================================================
