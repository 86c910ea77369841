------------------------- MODULE AdcSamplingProofs --------------------------
(***************************************************************************)
(* Theorems about AdcSampling for every number of channels, every length   *)
(* of the buffers and however they lie in memory, with main's average at   *)
(* any of its steps when the interrupt comes.  First which sample goes to  *)
(* which buffer; then what a buffer holds; last what an average adds up.   *)
(***************************************************************************)
EXTENDS AdcSampling, SequenceTheorems, TLAPS

AnySample == [channel : Int, n : Nat]

\* The place in the table, the channel selected and the samples stored so far
\* belong together.
RoundInv ==
  /\ chCount \in Entries
  /\ stored \in Nat
  /\ \/ result = <<>>
     \/ result = <<channel>> /\ channel # Off
  /\ pc = "boot" => channel = Off
  /\ channel = adc_channels(chCount) \/ stored = 0
  /\ pushed \in [Entries -> Seq(AnySample)]
  /\ \A e \in Entries :
       Len(pushed[e]) = Len(pushed[Channels - 1]) + (IF e < chCount THEN 1 ELSE 0)
  /\ channel \in Int

\* What StoredUnderItsChannel says of one sequence of samples.
Clean(s, e) == \A k \in 1..Len(s) : s[k].channel = adc_channels(e) \/ s[k].n = 1

ChannelInv == \A e \in Entries : Clean(pushed[e], e)

LEMMA Table ==
  /\ Channels \in Nat /\ Channels > 0 /\ Channels - 1 \in Entries
  /\ \A e \in Entries : e \in Nat /\ e < Channels /\ adc_channels(e) \in Int
  /\ \A e \in Entries : NextEntry(e) = (IF e = Channels - 1 THEN 0 ELSE e + 1)
                        /\ NextEntry(e) \in Entries
BY ChannelsAssumption DEF Entries, adc_channels, NextEntry

LEMMA InitRound == Init => RoundInv /\ ChannelInv
<1> SUFFICES ASSUME Init PROVE RoundInv /\ ChannelInv
  OBVIOUS
<1>1. /\ chCount = 0 /\ stored = 0 /\ channel = Off /\ Off = -1 /\ result = <<>>
      /\ pushed = [e \in Entries |-> <<>>]
  BY DEF Init, Off
<1>2. 0 \in Entries
  BY ChannelsAssumption DEF Entries
<1>3. \A e \in Entries : pushed[e] = <<>> /\ Len(pushed[e]) = 0
  BY <1>1
<1>4. RoundInv
  BY <1>1, <1>2, <1>3, Table DEF RoundInv
<1>5. ChannelInv
  BY <1>3 DEF ChannelInv, Clean
<1>6. QED
  BY <1>4, <1>5

\* One sample more under the current entry.
LEMMA Pushed ==
  ASSUME RoundInv, ADC_OnEnd
  PROVE  /\ pushed' = [pushed EXCEPT ![chCount] = Append(@, TheSample)]
         /\ TheSample = [channel |-> channel, n |-> stored + 1]
         /\ TheSample \in AnySample
         /\ chCount' = NextEntry(chCount) /\ channel' = adc_channels(chCount')
         /\ stored' = stored + 1 /\ result' = <<>>
BY DEF RoundInv, ADC_OnEnd, StoreSample, TheSample, AnySample

LEMMA Longer ==
  ASSUME RoundInv, ADC_OnEnd
  PROVE  /\ pushed' \in [Entries -> Seq(AnySample)]
         /\ Len(pushed'[chCount]) = Len(pushed[chCount]) + 1
         /\ \A e \in Entries : /\ e # chCount => pushed'[e] = pushed[e]
                               /\ Len(pushed[e]) \in Nat
<1>1. /\ chCount \in Entries /\ pushed \in [Entries -> Seq(AnySample)]
      /\ TheSample \in AnySample
      /\ pushed' = [pushed EXCEPT ![chCount] = Append(@, TheSample)]
  BY Pushed DEF RoundInv
<1>2. /\ Append(pushed[chCount], TheSample) \in Seq(AnySample)
      /\ Len(Append(pushed[chCount], TheSample)) = Len(pushed[chCount]) + 1
  BY <1>1, AppendProperties
<1>3. QED
  BY <1>1, <1>2

\* The counts behind a round: l samples under the last entry, m under entry e,
\* and the place c in the table moves on.
LEMMA TurnCounts ==
  ASSUME NEW n \in Nat, NEW c \in Nat, NEW e \in Nat, c < n, e < n,
         NEW l \in Nat, NEW m, NEW l2, NEW m2, NEW c2,
         m = l + (IF e < c THEN 1 ELSE 0),
         m2 = m + (IF e = c THEN 1 ELSE 0),
         l2 = l + (IF n - 1 = c THEN 1 ELSE 0),
         c2 = (IF c = n - 1 THEN 0 ELSE c + 1)
  PROVE  m2 = l2 + (IF e < c2 THEN 1 ELSE 0)
<1>1. CASE c = n - 1
  BY <1>1
<1>2. CASE c # n - 1
  BY <1>2
<1>3. QED
  BY <1>1, <1>2

LEMMA OnEndRound ==
  ASSUME RoundInv, ADC_OnEnd
  PROVE  RoundInv'
<1>1. /\ chCount' \in Entries /\ channel' \in Int /\ channel' = adc_channels(chCount')
      /\ stored' \in Nat /\ result' = <<>>
  <2>1. chCount' \in Entries
    BY Pushed, Table DEF RoundInv
  <2>2. channel' = adc_channels(chCount') /\ stored' = stored + 1 /\ result' = <<>>
    BY Pushed
  <2>3. channel' \in Int
    BY <2>1, <2>2, Table
  <2>4. stored' \in Nat
    BY <2>2 DEF RoundInv
  <2>5. QED
    BY <2>1, <2>2, <2>3, <2>4
<1>2. \A e \in Entries :
        Len(pushed[e]) = Len(pushed[Channels - 1]) + (IF e < chCount THEN 1 ELSE 0)
  BY DEF RoundInv
<1>3. chCount \in Entries /\ chCount' = NextEntry(chCount)
  BY Pushed DEF RoundInv
<1>4. ASSUME NEW e \in Entries
      PROVE  Len(pushed'[e]) = Len(pushed'[Channels - 1])
                                 + (IF e < chCount' THEN 1 ELSE 0)
  <2>1. /\ Len(pushed[e]) = Len(pushed[Channels - 1]) + (IF e < chCount THEN 1 ELSE 0)
        /\ Len(pushed[Channels - 1]) \in Nat
    BY <1>2, Longer, Table
  <2>2. /\ Len(pushed'[e]) = Len(pushed[e]) + (IF e = chCount THEN 1 ELSE 0)
        /\ Len(pushed'[Channels - 1]) = Len(pushed[Channels - 1])
                                          + (IF Channels - 1 = chCount THEN 1 ELSE 0)
    <3>1. /\ \A d \in Entries : Len(pushed[d]) \in Nat
          /\ \A d \in Entries \ {chCount} : pushed'[d] = pushed[d]
          /\ Len(pushed'[chCount]) = Len(pushed[chCount]) + 1
      BY Longer
    <3>2. ASSUME NEW d \in Entries
          PROVE  Len(pushed'[d]) = Len(pushed[d]) + (IF d = chCount THEN 1 ELSE 0)
      <4>1. CASE d = chCount
        BY <3>1, <4>1
      <4>2. CASE d # chCount
        BY <3>1, <4>2
      <4>3. QED
        BY <4>1, <4>2
    <3>3. QED
      BY <3>2, Table
  <2>3. /\ chCount' = (IF chCount = Channels - 1 THEN 0 ELSE chCount + 1)
        /\ e \in Nat /\ e < Channels /\ chCount \in Nat /\ chCount < Channels
    BY <1>3, Table
  <2> DEFINE l == Len(pushed[Channels - 1])
             m == Len(pushed[e])
             l2 == Len(pushed'[Channels - 1])
             m2 == Len(pushed'[e])
             c2 == chCount'
  <2>4. /\ l \in Nat
        /\ m = l + (IF e < chCount THEN 1 ELSE 0)
    BY <2>1
  <2>5. /\ m2 = m + (IF e = chCount THEN 1 ELSE 0)
        /\ l2 = l + (IF Channels - 1 = chCount THEN 1 ELSE 0)
    BY <2>2
  <2>6. c2 = (IF chCount = Channels - 1 THEN 0 ELSE chCount + 1)
    BY <2>3
  <2> HIDE DEF l, m, l2, m2, c2
  <2>7. m2 = l2 + (IF e < c2 THEN 1 ELSE 0)
    BY <2>3, <2>4, <2>5, <2>6, TurnCounts, Table
  <2>8. QED
    BY <2>7 DEF l, m, l2, m2, c2
<1>5. pushed' \in [Entries -> Seq(AnySample)]
  BY Longer
<1>6. pc' # "boot"
  BY DEF RoundInv, ADC_OnEnd, main
<1>7. QED
  BY <1>1, <1>4, <1>5, <1>6 DEF RoundInv

LEMMA OnEndChannel ==
  ASSUME RoundInv, ChannelInv, ADC_OnEnd
  PROVE  ChannelInv'
<1>1. ASSUME NEW e \in Entries, e # chCount PROVE Clean(pushed'[e], e)
  BY <1>1, Pushed DEF RoundInv, ChannelInv
<1>2. Clean(pushed'[chCount], chCount)
  <2>1. pushed'[chCount] = Append(pushed[chCount], TheSample)
    BY Pushed DEF RoundInv
  <2>2. TheSample.channel = adc_channels(chCount) \/ TheSample.n = 1
    <3>1. TheSample = [channel |-> channel, n |-> stored + 1]
      BY Pushed
    <3>2. channel = adc_channels(chCount) \/ stored = 0
      BY DEF RoundInv
    <3>3. QED
      BY <3>1, <3>2
  <2>3. Clean(pushed[chCount], chCount) /\ pushed[chCount] \in Seq(AnySample)
    BY DEF RoundInv, ChannelInv
  <2>4. QED
    BY <2>1, <2>2, <2>3, Pushed DEF Clean
<1>3. QED
  BY <1>1, <1>2 DEF ChannelInv

\* main changes nothing of the round but the first channel; the converter only
\* the result.
LEMMA OthersKeep ==
  ASSUME RoundInv, ChannelInv,
         Convert \/ SelectFirst \/ Measure \/ Average \/ UNCHANGED vars
  PROVE  RoundInv' /\ ChannelInv'
<1>1. UNCHANGED <<chCount, stored, pushed>>
  BY DEF Convert, SelectFirst, Measure, Average, AverageHead, AverageTail, AverageIndex,
         AverageTest, AverageAdd, AverageDivide, Printed, adc, vars
<1>2. ChannelInv'
  BY <1>1 DEF ChannelInv
<1>3. Off = -1 /\ AD10 = 0 /\ AD10 # Off
  BY DEF Off, AD10
<1>4. RoundInv'
  <2>1. CASE Convert
    BY <1>1, <2>1 DEF RoundInv, Convert, main
  <2>2. CASE SelectFirst
    <3>1. pc = "boot" /\ pc' = "loop" /\ channel' = AD10 /\ result' = result
      BY <2>2 DEF SelectFirst
    <3>2. channel = Off
      BY <3>1 DEF RoundInv
    <3>3. result = <<>>
      BY <3>2 DEF RoundInv
    <3>4. channel # adc_channels(chCount)
      BY <1>3, <3>2, Table DEF RoundInv, adc_channels
    <3>5. stored = 0
      BY <3>4 DEF RoundInv
    <3>6. /\ channel' \in Int /\ result' = <<>> /\ pc' # "boot" /\ stored' = 0
          /\ chCount' = chCount /\ pushed' = pushed
      BY <1>1, <1>3, <3>1, <3>3, <3>5
    <3>7. QED
      BY <3>6 DEF RoundInv
  <2>3. CASE Measure \/ Average
    <3>1. UNCHANGED <<channel, result>> /\ pc' # "boot"
      BY <2>3 DEF Measure, Average, AverageHead, AverageTail, AverageIndex,
                  AverageTest, AverageAdd, AverageDivide, Printed, adc
    <3>2. QED
      BY <1>1, <3>1 DEF RoundInv
  <2>4. CASE UNCHANGED vars
    BY <1>1, <2>4 DEF RoundInv, vars, adc, main
  <2>5. QED
    BY <2>1, <2>2, <2>3, <2>4
<1>5. QED
  BY <1>2, <1>4

LEMMA RoundAlways == Spec => [](RoundInv /\ ChannelInv)
<1>1. RoundInv /\ ChannelInv /\ [Next]_vars => RoundInv' /\ ChannelInv'
  <2> SUFFICES ASSUME RoundInv, ChannelInv, [Next]_vars
               PROVE  RoundInv' /\ ChannelInv'
    OBVIOUS
  <2>1. CASE ADC_OnEnd
    BY <2>1, OnEndRound, OnEndChannel
  <2>2. CASE ~ ADC_OnEnd
    <3>1. Convert \/ SelectFirst \/ Measure \/ Average \/ UNCHANGED vars
      BY <2>2 DEF Next
    <3>2. QED
      BY <3>1, OthersKeep
  <2>3. QED
    BY <2>1, <2>2
<1>2. QED
  BY <1>1, InitRound, PTL DEF Spec

\* Whatever main is doing when the interrupt comes, no sample but the very first
\* is stored under another channel than the one it was converted on.
THEOREM SamplesAreStoredRight == Spec => []StoredUnderItsChannel
<1>1. ChannelInv => StoredUnderItsChannel
  BY DEF ChannelInv, Clean, StoredUnderItsChannel
<1>2. QED
  BY <1>1, RoundAlways, PTL

\* At no time has a buffer been given two samples more than a later one of the
\* table, or fewer.
THEOREM TheTableGoesRound == Spec => []EntriesTakeTurns
<1>1. RoundInv => EntriesTakeTurns
  <2> SUFFICES ASSUME RoundInv, NEW d \in Entries, NEW e \in Entries, d < e
               PROVE  Len(pushed[d]) - Len(pushed[e]) \in 0..1
    BY DEF EntriesTakeTurns
  <2>1. /\ Len(pushed[d]) = Len(pushed[Channels - 1]) + (IF d < chCount THEN 1 ELSE 0)
        /\ Len(pushed[e]) = Len(pushed[Channels - 1]) + (IF e < chCount THEN 1 ELSE 0)
        /\ pushed[Channels - 1] \in Seq(AnySample)
    BY Table DEF RoundInv
  <2>2. /\ Len(pushed[Channels - 1]) \in Nat
        /\ chCount \in Nat /\ d \in Nat /\ e \in Nat
    BY <2>1, Table DEF RoundInv
  <2>3. e < chCount => d < chCount
    BY <2>2
  <2>4. QED
    BY <2>1, <2>2, <2>3
<1>2. QED
  BY <1>1, RoundAlways, PTL

-----------------------------------------------------------------------------
(***************************************************************************)
(* The memory the buffers are in.                                          *)
(***************************************************************************)

LEMMA Multiples ==
  ASSUME NEW a \in Nat, NEW b \in Nat, NEW m \in Nat, a <= b
  PROVE  a * m \in Nat /\ b * m \in Nat /\ a * m <= b * m
<1>1. PICK k \in Nat : b = a + k
  BY b - a \in Nat
<1>2. b * m = a * m + k * m /\ a * m \in Nat /\ k * m \in Nat
  BY <1>1
<1>3. QED
  BY <1>2

\* A cell of an entry's buffer lies in the memory.
LEMMA CellInMemory ==
  ASSUME NEW g \in {0, 1}, NEW e \in Entries, NEW i \in Cells
  PROVE  e * (MaxLen + g) + i \in Addresses
<1>1. e \in Nat /\ e + 1 <= Channels /\ Channels \in Nat /\ MaxLen \in Nat
      /\ i \in Nat /\ i <= MaxLen
  BY ChannelsAssumption, MaxLenAssumption DEF Entries, Cells
<1>2. (e + 1) * (MaxLen + 1) <= Channels * (MaxLen + 1)
      /\ Channels * (MaxLen + 1) \in Nat
  BY <1>1, Multiples
<1>3. (e + 1) * (MaxLen + 1) = e * (MaxLen + 1) + MaxLen + 1
  BY <1>1
<1>4. e * (MaxLen + g) \in Nat /\ e * (MaxLen + g) <= e * (MaxLen + 1)
      /\ e * (MaxLen + 1) \in Nat
  <2>1. CASE g = 1
    BY <1>1, <2>1
  <2>2. CASE g = 0
    <3>1. e * (MaxLen + 1) = e * MaxLen + e /\ e * MaxLen \in Nat /\ e * (MaxLen + 0) = e * MaxLen
      BY <1>1
    <3>2. QED
      BY <1>1, <2>2, <3>1
  <2>3. QED
    BY <2>1, <2>2
<1>5. QED
  BY <1>1, <1>2, <1>3, <1>4 DEF Addresses

\* Two cells at one address are the same, or where arrays touch the last cell of
\* one entry and the first of the next.
LEMMA SameCell ==
  ASSUME NEW g \in {0, 1}, NEW d \in Entries, NEW e \in Entries,
         NEW i \in Cells, NEW j \in Cells,
         d * (MaxLen + g) + i = e * (MaxLen + g) + j
  PROVE  \/ d = e /\ i = j
         \/ g = 0 /\ d = e + 1 /\ i = 0 /\ j = MaxLen
         \/ g = 0 /\ e = d + 1 /\ j = 0 /\ i = MaxLen
<1> DEFINE m == MaxLen + g
<1>1. /\ d \in Nat /\ e \in Nat /\ MaxLen \in Nat /\ MaxLen > 1 /\ m \in Nat
      /\ i \in Nat /\ i <= MaxLen /\ j \in Nat /\ j <= MaxLen
      /\ m = MaxLen \/ (m = MaxLen + 1 /\ g = 1)
  <2>1. g = 0 \/ g = 1
    OBVIOUS
  <2>2. MaxLen \in Nat /\ MaxLen > 1 /\ Channels \in Nat
    BY ChannelsAssumption, MaxLenAssumption
  <2>3. m \in Nat /\ (m = MaxLen \/ (m = MaxLen + 1 /\ g = 1))
    BY <2>1, <2>2
  <2>4. /\ d \in Nat /\ e \in Nat /\ i \in Nat /\ i <= MaxLen
        /\ j \in Nat /\ j <= MaxLen
    BY <2>2 DEF Entries, Cells
  <2>5. QED
    BY <2>2, <2>3, <2>4
<1>2. d * m + i = e * m + j
  OBVIOUS
<1>3. m = MaxLen => g = 0
  BY <1>1
<1> HIDE DEF m
<1>4. CASE d = e
  <2>1. d * m \in Nat /\ d * m = e * m
    BY <1>1, <1>4
  <2>2. QED
    BY <1>1, <1>2, <1>4, <2>1
<1>5. ASSUME NEW a \in Nat, NEW b \in Nat, a < b, NEW k \in Nat, NEW l \in Nat,
             k <= MaxLen, l <= MaxLen, a * m + k = b * m + l
      PROVE  b = a + 1 /\ k = MaxLen /\ l = 0 /\ m = MaxLen
  <2>1. CASE b = a + 1
    <3>1. b * m = a * m + m /\ a * m \in Nat
      BY <1>1, <2>1
    <3>2. k = m + l
      BY <1>1, <1>5, <3>1
    <3>3. QED
      BY <1>1, <1>5, <2>1, <3>2
  <2>2. CASE b # a + 1
    <3>1. (a + 2) * m <= b * m /\ b * m \in Nat
      BY <1>1, <1>5, <2>2, Multiples
    <3>2. (a + 2) * m = a * m + m + m /\ a * m \in Nat
      BY <1>1
    <3>3. QED
      BY <1>1, <1>5, <3>1, <3>2
  <2>3. QED
    BY <2>1, <2>2
<1>6. CASE d < e
  BY <1>1, <1>2, <1>3, <1>5, <1>6
<1>7. CASE e < d
  BY <1>1, <1>2, <1>3, <1>5, <1>7
<1>8. QED
  BY <1>1, <1>4, <1>6, <1>7

-----------------------------------------------------------------------------
(***************************************************************************)
(* circ_buff_push.                                                         *)
(***************************************************************************)

\* A circ_buff_t as push leaves it.
Ring(c) == c \in circ_buff_t(Addresses) /\ c.tail # MaxLen

LEMMA PushKeepsRing ==
  ASSUME NEW c, Ring(c)
  PROVE  LET p == circ_buff_push(c)
         IN  /\ Ring(p) /\ p.buffer = c.buffer
             /\ p.head = After(c.head)
             /\ p.tail = IF p.head = c.tail THEN TailAfter(c.tail) ELSE c.tail
<1> DEFINE p    == circ_buff_push(c)
           next == After(c.head)
           tail == IF next = c.tail THEN TailAfter(c.tail) ELSE c.tail
<1>1. c \in [buffer : Addresses, head : Cells, tail : Cells] /\ c.tail # MaxLen
  BY DEF Ring, circ_buff_t
<1>2. next \in Cells /\ tail \in Cells /\ tail # MaxLen
  BY <1>1, MaxLenAssumption DEF Cells, After, TailAfter
<1>3. p = [c EXCEPT !.head = next, !.tail = tail]
  BY DEF circ_buff_push
<1> HIDE DEF p, next, tail
<1>4. /\ p \in [buffer : Addresses, head : Cells, tail : Cells]
      /\ p.buffer = c.buffer /\ p.head = next /\ p.tail = tail
  BY <1>1, <1>2, <1>3
<1>5. QED
  BY <1>2, <1>4 DEF Ring, circ_buff_t, p, next, tail

\* The numbers behind a push: one sample more, or a full buffer that loses its
\* oldest, or its two oldest where tail skips the last cell.
LEMMA PushCounts ==
  ASSUME NEW c, Ring(c)
  PROVE  LET p == circ_buff_push(c)
         IN  /\ Held(c) \in 0..MaxLen /\ Held(p) \in 1..MaxLen
             /\ \/ Held(p) = Held(c) + 1
                \/ Held(c) = MaxLen /\ Held(p) \in {MaxLen, MaxLen - 1}
<1> DEFINE p == circ_buff_push(c)
<1>1. /\ p.head = After(c.head)
      /\ p.tail = IF p.head = c.tail THEN TailAfter(c.tail) ELSE c.tail
      /\ c.head \in Cells /\ c.tail \in Cells /\ c.tail # MaxLen
  BY PushKeepsRing DEF Ring, circ_buff_t
<1> HIDE DEF p
<1>2. /\ Held(c) \in 0..MaxLen /\ Held(p) \in 1..MaxLen
      /\ Held(p) = Held(c) + 1
         \/ (Held(c) = MaxLen /\ Held(p) \in {MaxLen, MaxLen - 1})
  BY <1>1, MaxLenAssumption DEF Cells, Held, After, TailAfter
<1>3. QED
  BY <1>2 DEF p

\* Index by index the buffer holds what it held, and the new sample.
LEMMA PushIndexes ==
  ASSUME NEW c, Ring(c)
  PROVE  LET p == circ_buff_push(c)
         IN  /\ IndexOf(p, Held(p) - 1) = c.head
             /\ \A k \in 0 .. Held(p) - 2 :
                  IndexOf(p, k) = IndexOf(c, k + Held(c) + 1 - Held(p))
             /\ \A k \in 0 .. Held(c) - 1 :
                  IndexOf(c, k) \in Cells /\ IndexOf(c, k) # c.head
<1> DEFINE p == circ_buff_push(c)
<1>1. /\ p.head = After(c.head)
      /\ p.tail = IF p.head = c.tail THEN TailAfter(c.tail) ELSE c.tail
      /\ c.head \in Cells /\ c.tail \in Cells /\ c.tail # MaxLen
  BY PushKeepsRing DEF Ring, circ_buff_t
<1>2. MaxLen \in Nat /\ MaxLen > 1
  BY MaxLenAssumption
<1> HIDE DEF p
<1>3. IndexOf(p, Held(p) - 1) = c.head
  BY <1>1, <1>2 DEF Cells, Held, After, TailAfter, IndexOf
<1>4. ASSUME NEW k \in 0 .. Held(p) - 2
      PROVE  IndexOf(p, k) = IndexOf(c, k + Held(c) + 1 - Held(p))
  BY <1>1, <1>2, <1>4 DEF Cells, Held, After, TailAfter, IndexOf
<1>5. ASSUME NEW k \in 0 .. Held(c) - 1
      PROVE  IndexOf(c, k) \in Cells /\ IndexOf(c, k) # c.head
  BY <1>1, <1>2, <1>5 DEF Cells, Held, IndexOf
<1>6. QED
  BY <1>3, <1>4, <1>5 DEF p

-----------------------------------------------------------------------------
(***************************************************************************)
(* Types, and where the buffers are.                                       *)
(***************************************************************************)

TypeInv ==
  /\ TypeOK
  /\ result # <<>> => stored < MaxSamples
  /\ \A e \in Entries : rings[e].buffer = e * (MaxLen + gap)

LEMMA Numbers ==
  /\ MaxLen \in Nat /\ MaxLen > 1 /\ Channels \in Nat /\ Channels > 0
  /\ MaxSamples \in Nat /\ Gaps \subseteq {0, 1}
  /\ AD10 = 0 /\ Off = -1 /\ 0 \in Entries /\ 0 \in Cells /\ 0 # MaxLen
  /\ Unset \in Sample
BY ChannelsAssumption, MaxLenAssumption DEF AD10, Off, Entries, Cells, Unset, Sample

LEMMA InitTypes == Init => TypeInv
<1> SUFFICES ASSUME Init PROVE TypeInv
  OBVIOUS
<1>1. gap \in Gaps /\ gap \in {0, 1}
  BY Numbers DEF Init
<1>2. ASSUME NEW e \in Entries
      PROVE  /\ rings[e] \in circ_buff_t(Addresses) /\ rings[e].tail # MaxLen
             /\ rings[e].buffer = e * (MaxLen + gap)
  <2>1. rings[e] = [buffer |-> e * (MaxLen + gap), head |-> 0, tail |-> 0]
    BY DEF Init, CIRC_buff_DEF
  <2>2. e * (MaxLen + gap) + 0 \in Addresses /\ e \in Nat
    BY <1>1, CellInMemory, Numbers DEF Entries
  <2>3. e * (MaxLen + gap) \in Addresses
    <3>1. e * (MaxLen + gap) \in Int
      BY <1>1, <2>2, Numbers
    <3>2. QED
      BY <2>2, <3>1
  <2>4. QED
    BY <2>1, <2>3, Numbers DEF circ_buff_t
<1>3. rings \in [Entries -> circ_buff_t(Addresses)]
  BY <1>2 DEF Init
<1>4. mem \in [Addresses -> Sample] /\ pushed \in [Entries -> Seq(Sample)]
  BY Numbers DEF Init
<1>5. /\ chCount \in Entries /\ channel \in Off..Channels
      /\ result \in Seq(AD10..Channels) /\ Len(result) <= 1 /\ result = <<>>
      /\ pc \in {"boot", "loop", "head", "tail", "index", "test", "add", "divide"}
      /\ entry \in Entries /\ reg \in Cells /\ index \in Cells
      /\ sum \in Seq(Sample) /\ before \in Nat /\ stored \in 0..MaxSamples
  BY Numbers DEF Init
<1>6. QED
  BY <1>1, <1>2, <1>3, <1>4, <1>5 DEF TypeInv, TypeOK

\* The cell of a sample that some buffer holds, or is about to.
LEMMA CellTyped ==
  ASSUME TypeInv, NEW e \in Entries, NEW i \in Cells
  PROVE  Cell(rings[e], i) = e * (MaxLen + gap) + i /\ Cell(rings[e], i) \in Addresses
<1>1. Cell(rings[e], i) = e * (MaxLen + gap) + i /\ gap \in {0, 1}
  BY Numbers DEF TypeInv, TypeOK, Cell
<1>2. QED
  BY <1>1, CellInMemory

\* ADC_OnEnd, in the terms of what follows.
LEMMA Stores ==
  ASSUME TypeInv, ADC_OnEnd
  PROVE  LET at == Cell(rings[chCount], rings[chCount].head)
         IN  /\ chCount \in Entries /\ rings[chCount].head \in Cells
             /\ at = chCount * (MaxLen + gap) + rings[chCount].head
             /\ at \in Addresses
             /\ TheSample \in Sample /\ TheSample.n = stored + 1
             /\ mem' = [mem EXCEPT ![at] = TheSample]
             /\ rings' = [rings EXCEPT ![chCount] = circ_buff_push(rings[chCount])]
             /\ pushed' = [pushed EXCEPT ![chCount] = Append(pushed[chCount], TheSample)]
             /\ stored' = stored + 1 /\ stored' \in 0..MaxSamples
<1>1. chCount \in Entries /\ rings[chCount].head \in Cells
  BY DEF TypeInv, TypeOK, circ_buff_t
<1>2. TheSample \in Sample /\ TheSample.n = stored + 1 /\ stored + 1 \in 0..MaxSamples
  <2>1. result \in Seq(AD10..Channels) /\ result # <<>>
    BY DEF ADC_OnEnd, TypeInv, TypeOK
  <2>2. result[1] \in AD10..Channels
    <3>1. Len(result) \in Nat \ {0}
      BY <2>1, EmptySeq
    <3>2. 1 \in 1..Len(result)
      BY <3>1
    <3>3. QED
      BY <2>1, <3>2, ElementOfSeq
  <2>3. stored + 1 \in 0..MaxSamples
    BY <2>1, Numbers DEF TypeInv, TypeOK
  <2>4. QED
    BY <2>2, <2>3 DEF TheSample, Sample
<1>3. QED
  BY <1>1, <1>2, CellTyped DEF ADC_OnEnd, StoreSample

LEMMA OnEndTypes ==
  ASSUME TypeInv, ADC_OnEnd
  PROVE  TypeInv'
<1>1. mem' \in [Addresses -> Sample]
  BY Stores DEF TypeInv, TypeOK
<1>2. pushed' \in [Entries -> Seq(Sample)]
  <2>1. Append(pushed[chCount], TheSample) \in Seq(Sample)
    BY Stores, AppendProperties DEF TypeInv, TypeOK
  <2>2. QED
    BY <2>1, Stores DEF TypeInv, TypeOK
<1>3. /\ rings' \in [Entries -> circ_buff_t(Addresses)]
      /\ \A e \in Entries : /\ rings'[e].tail # MaxLen
                            /\ rings'[e].buffer = rings[e].buffer
  <2>1. Ring(rings[chCount])
    BY Stores DEF TypeInv, TypeOK, Ring
  <2>2. /\ circ_buff_push(rings[chCount]) \in circ_buff_t(Addresses)
        /\ circ_buff_push(rings[chCount]).tail # MaxLen
        /\ circ_buff_push(rings[chCount]).buffer = rings[chCount].buffer
    BY <2>1, PushKeepsRing DEF Ring
  <2>3. /\ rings' = [rings EXCEPT ![chCount] = circ_buff_push(rings[chCount])]
        /\ chCount \in Entries /\ rings \in [Entries -> circ_buff_t(Addresses)]
        /\ \A e \in Entries : rings[e].tail # MaxLen
    BY Stores DEF TypeInv, TypeOK
  <2>4. QED
    BY <2>2, <2>3
<1>4. /\ chCount' \in Entries /\ channel' \in Off..Channels /\ result' = <<>>
      /\ stored' \in 0..MaxSamples
  <2>1. chCount' \in Entries
    BY Stores, Table DEF ADC_OnEnd
  <2>2. channel' = chCount' + 1 /\ result' = <<>>
    BY DEF ADC_OnEnd, adc_channels
  <2>3. channel' \in Off..Channels
    <3>1. \A c \in Entries : c + 1 \in Off..Channels
      BY Numbers DEF Entries
    <3>2. QED
      BY <2>1, <2>2, <3>1
  <2>4. stored' \in 0..MaxSamples
    BY Stores
  <2>5. QED
    BY <2>1, <2>2, <2>3, <2>4
<1>5. UNCHANGED <<gap, pc, entry, reg, index, sum, before>>
  BY DEF ADC_OnEnd, main
<1>6. result' \in Seq(AD10..Channels) /\ Len(result') <= 1
  BY <1>4
<1>7. QED
  BY <1>1, <1>2, <1>3, <1>4, <1>5, <1>6 DEF TypeInv, TypeOK

LEMMA ConverterTypes ==
  ASSUME TypeInv, Convert \/ SelectFirst
  PROVE  TypeInv'
<1>1. UNCHANGED <<gap, mem, rings, chCount, pushed, stored, entry, reg, index, sum, before>>
  BY DEF Convert, SelectFirst, main
<1>2. /\ channel' \in Off..Channels
      /\ pc' \in {"boot", "loop", "head", "tail", "index", "test", "add", "divide"}
  <2>1. CASE Convert
    BY <2>1 DEF Convert, main, TypeInv, TypeOK
  <2>2. CASE SelectFirst
    BY <2>2, Numbers DEF SelectFirst
  <2>3. QED
    BY <2>1, <2>2
<1>3. /\ result' \in Seq(AD10..Channels) /\ Len(result') <= 1
      /\ result' # <<>> => stored < MaxSamples
  <2>1. CASE Convert
    <3>1. channel \in AD10..Channels /\ result' = <<channel>> /\ stored < MaxSamples
      BY <2>1, Numbers DEF Convert, TypeInv, TypeOK
    <3>2. QED
      BY <3>1
  <2>2. CASE SelectFirst
    BY <2>2 DEF SelectFirst, TypeInv, TypeOK
  <2>3. QED
    BY <2>1, <2>2
<1>4. QED
  BY <1>1, <1>2, <1>3 DEF TypeInv, TypeOK

LEMMA MainTypes ==
  ASSUME TypeInv, Measure \/ Average \/ UNCHANGED vars
  PROVE  TypeInv'
<1>1. UNCHANGED <<gap, mem, rings, chCount, channel, result, pushed, stored>>
  BY DEF Measure, Average, AverageHead, AverageTail, AverageIndex, AverageTest,
         AverageAdd, AverageDivide, adc, vars
<1>2. /\ pc' \in {"boot", "loop", "head", "tail", "index", "test", "add", "divide"}
      /\ entry' \in Entries /\ reg' \in Cells /\ index' \in Cells
      /\ sum' \in Seq(Sample) /\ before' \in Nat
  <2>1. /\ pc \in {"boot", "loop", "head", "tail", "index", "test", "add", "divide"}
        /\ entry \in Entries /\ reg \in Cells /\ index \in Cells
        /\ sum \in Seq(Sample) /\ before \in Nat
        /\ rings[entry].head \in Cells /\ rings[entry].tail \in Cells
        /\ pushed[entry] \in Seq(Sample)
    BY DEF TypeInv, TypeOK, circ_buff_t
  <2>2. ASSUME NEW l \in {"head"}, Printed(l)
        PROVE  /\ pc' \in {"loop", "head"} /\ entry' \in Entries
               /\ reg' = 0 /\ index' = 0 /\ sum' = <<>> /\ before' = 0
    BY <2>1, <2>2, Numbers DEF Printed, Entries
  <2>3. CASE Measure
    BY <2>1, <2>3, Numbers DEF Measure
  <2>4. CASE AverageHead
    <3>1. Len(pushed[entry]) \in Nat
      BY <2>1, LenProperties
    <3>2. QED
      BY <2>1, <2>4, <3>1 DEF AverageHead
  <2>5. CASE AverageTail
    <3>1. CASE Printed("head")
      BY <2>2, <3>1, Numbers
    <3>2. CASE /\ pc' = "index" /\ reg' = 0
               /\ UNCHANGED <<entry, index, sum, before>>
      BY <2>1, <3>2, Numbers
    <3>3. QED
      BY <2>5, <3>1, <3>2 DEF AverageTail
  <2>6. CASE AverageIndex \/ AverageTest
    BY <2>1, <2>6 DEF AverageIndex, AverageTest
  <2>7. CASE AverageAdd
    <3>1. mem[Cell(rings[entry], index)] \in Sample
      BY <2>1, CellTyped DEF TypeInv, TypeOK
    <3>2. Append(sum, mem[Cell(rings[entry], index)]) \in Seq(Sample)
      BY <2>1, <3>1, AppendProperties
    <3>3. After(index) \in Cells
      BY <2>1, Numbers DEF After, Cells
    <3>4. QED
      BY <2>1, <2>7, <3>2, <3>3 DEF AverageAdd
  <2>8. CASE AverageDivide
    BY <2>2, <2>8, Numbers DEF AverageDivide
  <2>9. CASE UNCHANGED vars
    BY <2>1, <2>9 DEF vars, main
  <2>10. QED
    BY <2>3, <2>4, <2>5, <2>6, <2>7, <2>8, <2>9 DEF Average
<1>3. QED
  BY <1>1, <1>2 DEF TypeInv, TypeOK

LEMMA Typing == Spec => []TypeInv
<1>1. TypeInv /\ [Next]_vars => TypeInv'
  BY OnEndTypes, ConverterTypes, MainTypes DEF Next
<1>2. QED
  BY <1>1, InitTypes, PTL DEF Spec

\* Memory, places and indices keep their types: in particular no store leaves the
\* memory of the buffers by more than one cell.
THEOREM TypeCorrect == Spec => []TypeOK
<1>1. TypeInv => TypeOK
  BY DEF TypeInv
<1>2. QED
  BY <1>1, Typing, PTL

-----------------------------------------------------------------------------
(***************************************************************************)
(* What the buffers hold.                                                  *)
(***************************************************************************)

Stored(d) == {pushed[d][m] : m \in 1..Len(pushed[d])}

\* The sample e's buffer should have at its k-th index, and what it has.
Own(e, k) == pushed[e][Len(pushed[e]) - Held(rings[e]) + k + 1]
Is(e, k)  == mem[Cell(rings[e], IndexOf(rings[e], k))]

Right(e, k) ==
  \/ Is(e, k) = Own(e, k)
  \/ /\ IndexOf(rings[e], k) \in {0, MaxLen} /\ Is(e, k).n > Own(e, k).n
     /\ \E d \in Entries : Share(e, d) /\ Is(e, k) \in Stored(d)

Amount(e) ==
  /\ Held(rings[e]) <= Len(pushed[e])
  /\ Held(rings[e]) < Len(pushed[e]) => Held(rings[e]) >= MaxLen - 1

Full(e) == Amount(e) /\ \A k \in 0 .. Held(rings[e]) - 1 : Right(e, k)

LEMMA FullIsLatest == HoldsTheLatest <=> \A e \in Entries : Full(e)
BY DEF HoldsTheLatest, Full, Amount, Right, Is, Own, Stored

\* Samples are numbered as they are stored.
NumbersInv == \A e \in Entries : \A k \in 1..Len(pushed[e]) : pushed[e][k].n <= stored

HoldInv == NumbersInv /\ \A e \in Entries : Full(e)

LEMMA InitHold == Init => HoldInv
<1> SUFFICES ASSUME Init, NEW e \in Entries
             PROVE  /\ \A k \in 1..Len(pushed[e]) : pushed[e][k].n <= stored
                    /\ Full(e)
  BY DEF HoldInv, NumbersInv
<1>1. pushed[e] = <<>> /\ Len(pushed[e]) = 0
  BY DEF Init
<1>2. rings[e].head = 0 /\ rings[e].tail = 0
  BY DEF Init, CIRC_buff_DEF
<1>3. Held(rings[e]) = 0
  BY <1>2 DEF Held
<1>4. QED
  BY <1>1, <1>3 DEF Full, Amount

\* A buffer as every step finds it.
LEMMA Buffer ==
  ASSUME TypeInv, HoldInv, NEW e \in Entries
  PROVE  /\ Ring(rings[e])
         /\ Len(pushed[e]) \in Nat /\ pushed[e] \in Seq(Sample)
         /\ Held(rings[e]) \in 0..MaxLen /\ Held(rings[e]) <= Len(pushed[e])
         /\ \A k \in 0 .. Held(rings[e]) - 1 :
              /\ IndexOf(rings[e], k) \in Cells
              /\ Len(pushed[e]) - Held(rings[e]) + k + 1 \in 1..Len(pushed[e])
              /\ Own(e, k) \in Sample /\ Own(e, k).n <= stored
<1>1. Ring(rings[e]) /\ Len(pushed[e]) \in Nat /\ pushed[e] \in Seq(Sample)
  BY LenProperties DEF TypeInv, TypeOK, Ring
<1>2. Held(rings[e]) \in 0..MaxLen /\ Held(rings[e]) <= Len(pushed[e])
  BY <1>1, PushCounts DEF HoldInv, Full, Amount
<1>3. ASSUME NEW k \in 0 .. Held(rings[e]) - 1
      PROVE  /\ IndexOf(rings[e], k) \in Cells
             /\ Len(pushed[e]) - Held(rings[e]) + k + 1 \in 1..Len(pushed[e])
             /\ Own(e, k) \in Sample /\ Own(e, k).n <= stored
  <2>1. Len(pushed[e]) - Held(rings[e]) + k + 1 \in 1..Len(pushed[e])
    BY <1>1, <1>2, <1>3, Numbers
  <2>2. Own(e, k) \in Sample
    BY <1>1, <2>1, ElementOfSeq DEF Own
  <2>3. IndexOf(rings[e], k) \in Cells
    BY <1>1, PushIndexes
  <2>4. QED
    BY <2>1, <2>2, <2>3 DEF Own, HoldInv, NumbersInv
<1>4. QED
  BY <1>1, <1>2, <1>3

LEMMA StoredGrows ==
  ASSUME TypeInv, HoldInv, ADC_OnEnd, NEW d \in Entries, NEW c \in Entries, c = chCount
  PROVE  /\ Stored(d) \subseteq Stored(d)'
         /\ TheSample \in Stored(c)'
         /\ \A k \in 1..Len(pushed[d]) : pushed'[d][k] = pushed[d][k]
         /\ d # c => pushed'[d] = pushed[d]
         /\ d = c => /\ Len(pushed'[d]) = Len(pushed[d]) + 1
                           /\ pushed'[d][Len(pushed[d]) + 1] = TheSample
<1>1. /\ pushed' = [pushed EXCEPT ![c] = Append(pushed[c], TheSample)]
      /\ \A e \in Entries : pushed[e] \in Seq(Sample) /\ Len(pushed[e]) \in Nat
      /\ TheSample \in Sample /\ pushed \in [Entries -> Seq(Sample)]
  BY Stores, Buffer DEF TypeInv, TypeOK
<1>2. /\ Len(pushed'[c]) = Len(pushed[c]) + 1
      /\ pushed'[c][Len(pushed[c]) + 1] = TheSample
      /\ \A k \in 1..Len(pushed[c]) : pushed'[c][k] = pushed[c][k]
      /\ Len(pushed[c]) \in Nat
  BY <1>1, AppendProperties
<1>3. TheSample \in Stored(c)'
  BY <1>2 DEF Stored
<1>4. CASE d = c
  <2>1. 1..Len(pushed[d]) \subseteq 1..Len(pushed'[d])
    BY <1>2, <1>4
  <2>2. Stored(c) \subseteq Stored(c)'
    BY <1>2, <1>4, <2>1 DEF Stored
  <2>3. QED
    BY <1>2, <1>3, <1>4, <2>2
<1>5. CASE d # c
  BY <1>1, <1>3, <1>5 DEF Stored
<1>6. QED
  BY <1>4, <1>5

LEMMA OnEndNumbers ==
  ASSUME TypeInv, HoldInv, ADC_OnEnd
  PROVE  NumbersInv'
<1> SUFFICES ASSUME NEW e \in Entries, NEW k \in 1..Len(pushed'[e])
             PROVE  pushed'[e][k].n <= stored'
  BY DEF NumbersInv
<1>1. stored' = stored + 1 /\ TheSample.n = stored + 1 /\ stored \in Nat
  BY Stores, Numbers DEF TypeInv, TypeOK
<1>0. PICK c \in Entries : c = chCount
  BY Stores
<1>2. CASE k \in 1..Len(pushed[e])
  <2>1. pushed'[e][k] = pushed[e][k] /\ pushed[e][k].n <= stored
    BY <1>0, <1>2, StoredGrows DEF HoldInv, NumbersInv
  <2>2. pushed[e][k].n \in Nat
    <3>1. pushed[e][k] \in Sample
      BY <1>2, Buffer, ElementOfSeq
    <3>2. QED
      BY <3>1, Numbers DEF Sample
  <2>3. QED
    BY <1>1, <2>1, <2>2
<1>3. CASE k \notin 1..Len(pushed[e])
  <2>1. e = c /\ k = Len(pushed[e]) + 1
    BY <1>0, <1>3, StoredGrows, Buffer
  <2>2. QED
    BY <1>0, <1>1, <2>1, StoredGrows
<1>4. QED
  BY <1>2, <1>3

\* The buffers that are not pushed into.
LEMMA OnEndOthers ==
  ASSUME TypeInv, HoldInv, ADC_OnEnd,
         NEW c \in Entries, c = chCount, NEW e \in Entries, e # c
  PROVE  Full(e)'
<1>1. /\ rings'[e] = rings[e] /\ pushed'[e] = pushed[e] /\ gap' = gap
  BY Stores, StoredGrows DEF TypeInv, TypeOK, ADC_OnEnd
<1>2. Amount(e)'
  BY <1>1 DEF HoldInv, Full, Amount
<1>3. ASSUME NEW k \in 0 .. Held(rings[e]) - 1
      PROVE  Right(e, k)'
  <2> DEFINE i == IndexOf(rings[e], k)
             a == Cell(rings[e], i)
             at == Cell(rings[c], rings[c].head)
  <2>1. /\ IndexOf(rings[e], k)' = i /\ Own(e, k)' = Own(e, k)
        /\ Is(e, k)' = mem'[a] /\ Is(e, k) = mem[a]
    BY <1>1 DEF Own, Is
  <2>2. /\ i \in Cells /\ a = e * (MaxLen + gap) + i /\ a \in Addresses
        /\ Own(e, k).n <= stored /\ Own(e, k) \in Sample
    BY <1>3, Buffer, CellTyped
  <2>3. /\ at = c * (MaxLen + gap) + rings[c].head
        /\ mem' = [mem EXCEPT ![at] = TheSample] /\ TheSample.n = stored + 1
        /\ rings[c].head \in Cells
        /\ mem \in [Addresses -> Sample] /\ gap \in {0, 1} /\ stored \in Nat
    <3>1. /\ mem \in [Addresses -> Sample] /\ gap \in {0, 1} /\ stored \in Nat
          /\ TypeInv /\ ADC_OnEnd
      BY Numbers DEF TypeInv, TypeOK
    <3>2. at = c * (MaxLen + gap) + rings[c].head /\ rings[c].head \in Cells
      BY <3>1, Stores
    <3>3. mem' = [mem EXCEPT ![at] = TheSample] /\ TheSample.n = stored + 1
      BY <3>1, Stores
    <3>4. QED
      BY <3>1, <3>2, <3>3
  <2>4. CASE a = at
    <3>1. mem'[a] = TheSample
      BY <2>2, <2>3, <2>4
    <3>2. \/ gap = 0 /\ e = c + 1 /\ i = 0
          \/ gap = 0 /\ c = e + 1 /\ i = MaxLen
      BY <2>2, <2>3, <2>4, SameCell
    <3>3. Share(e, c)' /\ i \in {0, MaxLen}
      <4>1. c \in Nat /\ e \in Nat
        BY Table
      <4>2. QED
        BY <1>1, <3>2, <4>1 DEF Share
    <3>4. TheSample \in Stored(c)'
      BY StoredGrows
    <3>5. TheSample.n > Own(e, k).n
      BY <2>2, <2>3 DEF Sample
    <3>6. QED
      BY <2>1, <2>3, <3>1, <3>3, <3>4, <3>5 DEF Right
  <2>5. CASE a # at
    <3>1. mem'[a] = mem[a]
      BY <2>2, <2>3, <2>5
    <3>2. Right(e, k)
      BY <1>3 DEF HoldInv, Full
    <3>3. \A d \in Entries : Share(e, d)' = Share(e, d)
      BY <1>1 DEF Share
    <3>4. QED
      BY <2>1, <3>1, <3>2, <3>3, StoredGrows DEF Right
  <2>6. QED
    BY <2>4, <2>5
<1>4. QED
  BY <1>1, <1>2, <1>3 DEF Full

\* The one that is.
LEMMA OnEndPushed ==
  ASSUME TypeInv, HoldInv, ADC_OnEnd, NEW c \in Entries, c = chCount
  PROVE  Full(c)'
<1> DEFINE r == rings[c]
           p == rings'[c]
           n == Len(pushed[c])
           at == Cell(r, r.head)
<1>1. /\ p = circ_buff_push(r) /\ gap' = gap
      /\ mem' = [mem EXCEPT ![at] = TheSample] /\ mem \in [Addresses -> Sample]
      /\ at = c * (MaxLen + gap) + r.head /\ at \in Addresses /\ r.head \in Cells
  BY Stores DEF TypeInv, TypeOK, ADC_OnEnd
<1>2. /\ Ring(r) /\ n \in Nat /\ Len(pushed'[c]) = n + 1
      /\ pushed'[c][n + 1] = TheSample
      /\ \A m \in 1..n : pushed'[c][m] = pushed[c][m]
  BY Buffer, StoredGrows
<1>3. /\ Held(r) \in 0..MaxLen /\ Held(p) \in 1..MaxLen
      /\ \/ Held(p) = Held(r) + 1
         \/ Held(r) = MaxLen /\ Held(p) \in {MaxLen, MaxLen - 1}
      /\ p.buffer = r.buffer
  BY <1>1, <1>2, PushCounts, PushKeepsRing
<1>4. /\ IndexOf(p, Held(p) - 1) = r.head
      /\ \A k \in 0 .. Held(p) - 2 : IndexOf(p, k) = IndexOf(r, k + Held(r) + 1 - Held(p))
      /\ \A k \in 0 .. Held(r) - 1 : IndexOf(r, k) \in Cells /\ IndexOf(r, k) # r.head
  BY <1>1, <1>2, PushIndexes
<1>5. /\ Held(r) <= n
      /\ Held(r) < n => Held(r) >= MaxLen - 1
  BY DEF HoldInv, Full, Amount
<1>6. \A i : Cell(p, i) = Cell(r, i)
  BY <1>3 DEF Cell
<1>7. Amount(c)'
  <2>1. /\ Held(p) <= n + 1
        /\ Held(p) < n + 1 => Held(p) >= MaxLen - 1
    <3> DEFINE hr == Held(r)
               hp == Held(p)
    <3>1. /\ hr \in 0..MaxLen /\ hp \in 1..MaxLen /\ n \in Nat
          /\ hp = hr + 1 \/ (hr = MaxLen /\ hp \in {MaxLen, MaxLen - 1})
          /\ hr <= n /\ (hr < n => hr >= MaxLen - 1) /\ MaxLen \in Nat
      BY <1>2, <1>3, <1>5, Numbers
    <3> HIDE DEF hr, hp, n
    <3>2. hp <= n + 1 /\ (hp < n + 1 => hp >= MaxLen - 1)
      BY <3>1
    <3>3. QED
      BY <3>2 DEF hp
  <2>2. QED
    BY <1>2, <2>1 DEF Amount
<1>8. ASSUME NEW k \in 0 .. Held(p) - 1
      PROVE  Right(c, k)'
  <2>1. /\ IndexOf(rings[c], k)' = IndexOf(p, k)
        /\ Own(c, k)' = pushed'[c][Len(pushed'[c]) - Held(p) + k + 1]
        /\ Is(c, k)' = mem'[Cell(r, IndexOf(p, k))]
    <3>1. IndexOf(rings[c], k)' = IndexOf(p, k)
      OBVIOUS
    <3>2. Own(c, k)' = pushed'[c][Len(pushed'[c]) - Held(p) + k + 1]
      BY DEF Own
    <3>3. Is(c, k)' = mem'[Cell(p, IndexOf(p, k))]
      BY DEF Is
    <3>4. QED
      BY <1>6, <3>1, <3>2, <3>3
  <2>2. CASE k = Held(p) - 1
    <3>1. Is(c, k)' = TheSample
      BY <1>1, <1>4, <2>1, <2>2
    <3>2. Len(pushed'[c]) - Held(p) + k + 1 = n + 1
      BY <1>2, <1>3, <2>2
    <3>3. QED
      BY <1>2, <2>1, <3>1, <3>2 DEF Right
  <2>3. CASE k # Held(p) - 1
    <3> DEFINE j == k + Held(r) + 1 - Held(p)
    <3>1. /\ k \in 0 .. Held(p) - 2 /\ j \in 0 .. Held(r) - 1
          /\ Len(pushed'[c]) - Held(p) + k + 1 = n - Held(r) + j + 1
      <4> DEFINE hr == Held(r)
                 hp == Held(p)
                 l  == Len(pushed'[c])
      <4>1. /\ hr \in 0..MaxLen /\ hp \in 1..MaxLen /\ n \in Nat /\ MaxLen \in Nat
            /\ l = n + 1 /\ hp <= hr + 1 /\ k \in 0 .. hp - 1 /\ k # hp - 1
        BY <1>2, <1>3, <1>8, <2>3, Numbers
      <4> HIDE DEF hr, hp, l, n
      <4>2. /\ k \in 0 .. hp - 2 /\ k + hr + 1 - hp \in 0 .. hr - 1
            /\ l - hp + k + 1 = n - hr + (k + hr + 1 - hp) + 1
        BY <4>1
      <4>3. QED
        BY <4>2 DEF hr, hp, l
    <3> HIDE DEF j
    <3>2. IndexOf(p, k) = IndexOf(r, j)
      BY <1>4, <3>1 DEF j
    <3>3. IndexOf(r, j) \in Cells /\ IndexOf(r, j) # r.head
      BY <1>4, <3>1
    <3>4. /\ Cell(r, IndexOf(r, j)) = c * (MaxLen + gap) + IndexOf(r, j)
          /\ Cell(r, IndexOf(r, j)) \in Addresses
      BY <3>3, CellTyped
    <3>5. Cell(r, IndexOf(r, j)) # at
      <4>1. gap \in {0, 1} /\ c # c + 1
        <5>1. c \in Nat
          BY Table
        <5>2. gap \in {0, 1}
          BY Numbers DEF TypeInv, TypeOK
        <5>3. QED
          BY <5>1, <5>2
      <4>2. Cell(r, IndexOf(r, j)) = at => IndexOf(r, j) = r.head
        BY <1>1, <3>3, <3>4, <4>1, SameCell
      <4>3. QED
        BY <3>3, <4>2
    <3>6. Is(c, k)' = Is(c, j)
      BY <1>1, <2>1, <3>2, <3>4, <3>5 DEF Is
    <3>7. Own(c, k)' = Own(c, j)
      <4>1. n - Held(r) + j + 1 \in 1..n
        BY <3>1, Buffer
      <4>2. QED
        BY <1>2, <2>1, <3>1, <4>1 DEF Own
    <3>8. Right(c, j)
      BY <3>1 DEF HoldInv, Full
    <3>9. \A d \in Entries : /\ Share(c, d)' = Share(c, d)
                            /\ Stored(d) \subseteq Stored(d)'
      BY <1>1, StoredGrows DEF Share
    <3>10. QED
      BY <2>1, <3>2, <3>6, <3>7, <3>8, <3>9 DEF Right
  <2>4. QED
    BY <2>2, <2>3
<1>9. QED
  BY <1>7, <1>8 DEF Full

LEMMA HoldAlways == Spec => []HoldInv
<1>1. TypeInv /\ HoldInv /\ [Next]_vars => HoldInv'
  <2> SUFFICES ASSUME TypeInv, HoldInv, [Next]_vars
               PROVE  HoldInv'
    OBVIOUS
  <2>1. CASE ADC_OnEnd
    <3>1. PICK c \in Entries : c = chCount
      BY <2>1, Stores
    <3>2. \A e \in Entries : Full(e)'
      BY <2>1, <3>1, OnEndOthers, OnEndPushed
    <3>3. QED
      BY <2>1, <3>2, OnEndNumbers DEF HoldInv
  <2>2. CASE ~ADC_OnEnd
    <3>1. UNCHANGED <<gap, mem, rings, pushed, stored>>
      BY <2>2 DEF Next, Convert, SelectFirst, Measure, Average, AverageHead, AverageTail,
             AverageIndex, AverageTest, AverageAdd, AverageDivide, adc, vars
    <3>2. /\ \A e, k : Own(e, k)' = Own(e, k) /\ Is(e, k)' = Is(e, k)
          /\ \A d, e : Share(d, e)' = Share(d, e) /\ Stored(d)' = Stored(d)
      BY <3>1 DEF Own, Is, Share, Stored
    <3>3. \A e, k : Right(e, k)' = Right(e, k)
      BY <3>1, <3>2 DEF Right
    <3>4. \A e \in Entries : Full(e)' = Full(e)
      BY <3>1, <3>3 DEF Full, Amount
    <3>5. QED
      BY <3>1, <3>4 DEF HoldInv, NumbersInv
  <2>3. QED
    BY <2>1, <2>2
<1>2. QED
  BY <1>1, InitHold, Typing, PTL DEF Spec

\* Whatever the number of channels and the length of the buffers, and wherever the
\* linker puts them: each buffer holds the samples pushed last, in order, but for
\* the cell it may share with a neighbour.
THEOREM BuffersHoldTheLatest == Spec => []HoldsTheLatest
<1>1. HoldInv => HoldsTheLatest
  BY FullIsLatest DEF HoldInv
<1>2. QED
  BY <1>1, HoldAlways, PTL

-----------------------------------------------------------------------------
(***************************************************************************)
(* What circ_buff_average adds up.                                         *)
(***************************************************************************)

\* The number, among e's, of the sample stored last in cell i: head goes round
\* the cells one by one, whatever tail does.  Not positive if there is none yet.
Latest(e, i) ==
  IF i < rings[e].head
  THEN Len(pushed[e]) - rings[e].head + i + 1
  ELSE Len(pushed[e]) - rings[e].head + i - MaxLen

\* head has not come round yet and tail not moved, or every cell has been used.
Turn(e) ==
  \/ Len(pushed[e]) = rings[e].head /\ rings[e].tail = 0
  \/ Len(pushed[e]) >= rings[e].head + MaxLen + 1

Neighbours(e, s) == \E d \in Entries : Share(e, d) /\ s \in Stored(d)

Content(e) ==
  \A i \in Cells : Latest(e, i) >= 1 =>
    \/ mem[Cell(rings[e], i)] = pushed[e][Latest(e, i)]
    \/ Neighbours(e, mem[Cell(rings[e], i)])

\* No two samples have one number, and an entry's are in order.
Numbered ==
  \A d, e \in Entries : \A k \in 1..Len(pushed[d]), m \in 1..Len(pushed[e]) :
    /\ pushed[d][k].n = pushed[e][m].n => d = e /\ k = m
    /\ d = e /\ k < m => pushed[d][k].n < pushed[e][m].n

CellsInv == Numbered /\ \A e \in Entries : Turn(e) /\ Content(e)

\* The sample main is about to add is there and later than those added.
Ahead ==
  /\ Latest(entry, index) >= 1
  /\ \A i \in 1..Len(sum), k \in 1..Len(pushed[entry]) :
       sum[i] = pushed[entry][k] => k < Latest(entry, index)

SumInv ==
  /\ pc \in {"boot", "loop", "head", "tail", "index"} => sum = <<>>
  /\ pc \in {"tail", "index", "test", "add", "divide"} => before <= Len(pushed[entry])
  /\ pc = "test" /\ index # rings[entry].head => Ahead
  /\ pc = "add" => Ahead /\ Latest(entry, index) > before - MaxLen
  /\ AverageIsRecent

BufferInv == TypeInv /\ HoldInv

\* The arithmetic of Latest.
LEMMA LatestFacts ==
  ASSUME BufferInv, NEW e \in Entries, NEW i \in Cells
  PROVE  /\ Latest(e, i) \in Int /\ Latest(e, i) <= Len(pushed[e])
         /\ Latest(e, i) >= Len(pushed[e]) - MaxLen
         /\ i # rings[e].head => Latest(e, i) > Len(pushed[e]) - MaxLen
         /\ Turn(e) /\ i = rings[e].tail /\ i # rings[e].head => Latest(e, i) >= 1
         /\ After(i) \in Cells
         /\ After(i) # rings[e].head => Latest(e, After(i)) = Latest(e, i) + 1
<1> DEFINE h == rings[e].head
           n == Len(pushed[e])
           t == rings[e].tail
<1>1. /\ h \in 0..MaxLen /\ n \in Nat /\ i \in 0..MaxLen /\ MaxLen \in Nat /\ MaxLen > 1
      /\ t \in 0..MaxLen
  BY Buffer, Numbers DEF BufferInv, Ring, circ_buff_t, Cells
<1>2. \A j : Latest(e, j) = IF j < h THEN n - h + j + 1 ELSE n - h + j - MaxLen
  BY DEF Latest
<1>3. After(i) = IF i >= MaxLen THEN 0 ELSE i + 1
  BY DEF After
<1>4. Turn(e) => (n = h /\ t = 0) \/ n >= h + MaxLen + 1
  BY DEF Turn
<1> HIDE DEF h, n, t
<1>5. /\ Latest(e, i) \in Int /\ Latest(e, i) <= n /\ Latest(e, i) >= n - MaxLen
      /\ i # h => Latest(e, i) > n - MaxLen
  BY <1>1, <1>2
<1>6. Turn(e) /\ i = t /\ i # h => Latest(e, i) >= 1
  BY <1>1, <1>2, <1>4
<1>7. After(i) \in 0..MaxLen
  BY <1>1, <1>3
<1>8. After(i) # h => Latest(e, After(i)) = Latest(e, i) + 1
  <2>1. CASE i = MaxLen
    BY <1>1, <1>2, <1>3, <2>1
  <2>2. CASE i # MaxLen
    BY <1>1, <1>2, <1>3, <2>2
  <2>3. QED
    BY <2>1, <2>2
<1>9. QED
  BY <1>5, <1>6, <1>7, <1>8 DEF h, n, t, Cells

\* A push writes its cell's Latest and leaves the others.
LEMMA LatestMoves ==
  ASSUME BufferInv, ADC_OnEnd, NEW c \in Entries, c = chCount, NEW e \in Entries,
         NEW i \in Cells
  PROVE  /\ e # c => Latest(e, i)' = Latest(e, i)
         /\ e = c => Latest(e, i)' = IF i = rings[e].head
                                     THEN Len(pushed[e]) + 1 ELSE Latest(e, i)
<1>1. CASE e # c
  <2>1. rings'[e] = rings[e] /\ pushed'[e] = pushed[e]
    BY <1>1, Stores, StoredGrows DEF BufferInv, TypeInv, TypeOK
  <2>2. QED
    BY <1>1, <2>1 DEF Latest
<1>2. CASE e = c
  <2> DEFINE h == rings[e].head
             n == Len(pushed[e])
             h2 == rings'[e].head
             n2 == Len(pushed'[e])
  <2>1. rings'[e] = circ_buff_push(rings[e]) /\ Ring(rings[e])
    BY <1>2, Stores, Buffer DEF BufferInv, TypeInv, TypeOK
  <2>2. /\ h \in 0..MaxLen /\ n \in Nat /\ i \in 0..MaxLen /\ MaxLen \in Nat
        /\ h2 = IF h >= MaxLen THEN 0 ELSE h + 1
        /\ n2 = n + 1
    <3>1. /\ h \in 0..MaxLen /\ i \in 0..MaxLen /\ MaxLen \in Nat
          /\ n \in Nat /\ TypeInv /\ HoldInv
      BY <2>1, Buffer, Numbers DEF BufferInv, Ring, circ_buff_t, Cells
    <3>2. h2 = IF h >= MaxLen THEN 0 ELSE h + 1
      BY <2>1, PushKeepsRing DEF After
    <3>3. n2 = n + 1
      BY <1>2, <3>1, StoredGrows
    <3>4. QED
      BY <3>1, <3>2, <3>3
  <2>3. /\ Latest(e, i) = IF i < h THEN n - h + i + 1 ELSE n - h + i - MaxLen
        /\ Latest(e, i)' = IF i < h2 THEN n2 - h2 + i + 1 ELSE n2 - h2 + i - MaxLen
    BY DEF Latest
  <2> HIDE DEF h, n, h2, n2
  <2>4. Latest(e, i)' = IF i = h THEN n + 1 ELSE Latest(e, i)
    <3>1. CASE h = MaxLen
      BY <2>2, <2>3, <3>1
    <3>2. CASE h # MaxLen
      BY <2>2, <2>3, <3>2
    <3>3. QED
      BY <3>1, <3>2
  <2>5. QED
    BY <1>2, <2>4 DEF h, n
<1>3. QED
  BY <1>1, <1>2

LEMMA InitCells == Init => CellsInv /\ SumInv
<1> SUFFICES ASSUME Init PROVE CellsInv /\ SumInv
  OBVIOUS
<1>1. ASSUME NEW e \in Entries
      PROVE  /\ Len(pushed[e]) = 0 /\ rings[e].head = 0 /\ rings[e].tail = 0
  BY DEF Init, CIRC_buff_DEF
<1>2. Numbered
  BY <1>1 DEF Numbered
<1>3. ASSUME NEW e \in Entries PROVE Turn(e) /\ Content(e)
  <2>1. Turn(e)
    BY <1>1 DEF Turn
  <2>2. ASSUME NEW i \in Cells PROVE ~(Latest(e, i) >= 1)
    BY <1>1, Numbers DEF Latest, Cells
  <2>3. QED
    BY <2>1, <2>2 DEF Content
<1>4. sum = <<>> /\ pc = "boot"
  BY DEF Init
<1>5. QED
  BY <1>2, <1>3, <1>4 DEF CellsInv, SumInv, AverageIsRecent

LEMMA OnEndNumbered ==
  ASSUME BufferInv, CellsInv, ADC_OnEnd
  PROVE  Numbered'
<1> SUFFICES ASSUME NEW d \in Entries, NEW e \in Entries,
                    NEW k \in 1..Len(pushed'[d]), NEW m \in 1..Len(pushed'[e])
             PROVE  /\ pushed'[d][k].n = pushed'[e][m].n => d = e /\ k = m
                    /\ d = e /\ k < m => pushed'[d][k].n < pushed'[e][m].n
  BY DEF Numbered
<1>1. PICK c \in Entries : c = chCount
  BY Stores DEF BufferInv
<1>2. ASSUME NEW f \in Entries, NEW j \in 1..Len(pushed'[f])
      PROVE  \/ /\ j \in 1..Len(pushed[f]) /\ pushed'[f][j] = pushed[f][j]
                /\ pushed[f][j].n \in Int /\ pushed[f][j].n <= stored
             \/ f = c /\ j = Len(pushed[f]) + 1 /\ pushed'[f][j].n = stored + 1
  <2>1. CASE j \in 1..Len(pushed[f])
    <3>1. pushed[f][j] \in Sample
      BY <2>1, Buffer, ElementOfSeq DEF BufferInv
    <3>2. pushed[f][j].n \in Int
      BY <3>1, Numbers DEF Sample
    <3>3. QED
      BY <1>1, <2>1, <3>2, StoredGrows DEF BufferInv, HoldInv, NumbersInv
  <2>2. CASE j \notin 1..Len(pushed[f])
    <3>1. f = c /\ j = Len(pushed[f]) + 1 /\ Len(pushed[f]) \in Nat
      <4>1. Len(pushed[f]) \in Nat
        BY Buffer DEF BufferInv
      <4>2. /\ f # c => pushed'[f] = pushed[f]
            /\ f = c => Len(pushed'[f]) = Len(pushed[f]) + 1
        BY <1>1, StoredGrows DEF BufferInv
      <4>3. QED
        BY <1>2, <2>2, <4>1, <4>2
    <3>2. QED
      BY <1>1, <3>1, StoredGrows, Stores DEF BufferInv
  <2>3. QED
    BY <2>1, <2>2
<1>3. stored \in Int /\ Len(pushed[d]) \in Nat /\ Len(pushed[e]) \in Nat
  BY Numbers, Buffer DEF BufferInv, TypeInv, TypeOK
<1>4. \A j \in 1..Len(pushed[d]), l \in 1..Len(pushed[e]) :
        /\ pushed[d][j].n = pushed[e][l].n => d = e /\ j = l
        /\ d = e /\ j < l => pushed[d][j].n < pushed[e][l].n
  BY DEF CellsInv, Numbered
<1> DEFINE Old(f, j) == /\ j \in 1..Len(pushed[f]) /\ pushed'[f][j] = pushed[f][j]
                        /\ pushed[f][j].n \in Int /\ pushed[f][j].n <= stored
           New(f, j) == /\ f = c /\ j = Len(pushed[f]) + 1
                        /\ pushed'[f][j].n = stored + 1
<1>5. (Old(d, k) \/ New(d, k)) /\ (Old(e, m) \/ New(e, m))
  BY <1>2
<1>6. CASE Old(d, k) /\ Old(e, m)
  BY <1>4, <1>6
<1>7. CASE New(d, k) /\ New(e, m)
  BY <1>3, <1>7
<1>8. CASE Old(d, k) /\ New(e, m)
  BY <1>3, <1>8
<1>9. CASE New(d, k) /\ Old(e, m)
  BY <1>3, <1>9
<1>10. QED
  BY <1>5, <1>6, <1>7, <1>8, <1>9

LEMMA OnEndTurn ==
  ASSUME BufferInv, CellsInv, ADC_OnEnd, NEW e \in Entries
  PROVE  Turn(e)'
<1>1. PICK c \in Entries : c = chCount
  BY Stores DEF BufferInv
<1>2. CASE e # c
  <2>1. rings'[e] = rings[e] /\ pushed'[e] = pushed[e]
    BY <1>1, <1>2, Stores, StoredGrows DEF BufferInv, TypeInv, TypeOK
  <2>2. QED
    BY <2>1 DEF CellsInv, Turn
<1>3. CASE e = c
  <2> DEFINE r == rings[e]
             p == rings'[e]
             n == Len(pushed[e])
             n2 == Len(pushed'[e])
  <2>1. /\ p.head = After(r.head)
        /\ p.tail = IF p.head = r.tail THEN TailAfter(r.tail) ELSE r.tail
        /\ r.head \in 0..MaxLen /\ r.tail \in 0..MaxLen /\ n \in Nat /\ n2 = n + 1
    <3>1. p = circ_buff_push(r) /\ Ring(r) /\ n \in Nat
      BY <1>1, <1>3, Stores, Buffer DEF BufferInv, TypeInv, TypeOK
    <3>2. n2 = n + 1
      BY <1>1, <1>3, StoredGrows DEF BufferInv
    <3>3. r.head \in 0..MaxLen /\ r.tail \in 0..MaxLen
      BY <3>1 DEF Ring, circ_buff_t, Cells
    <3>4. QED
      BY <3>1, <3>2, <3>3, PushKeepsRing
  <2>2. (n = r.head /\ r.tail = 0) \/ n >= r.head + MaxLen + 1
    BY DEF CellsInv, Turn
  <2> HIDE DEF r, p, n, n2
  <2>3. (n2 = p.head /\ p.tail = 0) \/ n2 >= p.head + MaxLen + 1
    BY <2>1, <2>2, Numbers DEF After, TailAfter
  <2>4. QED
    BY <2>3 DEF Turn, p, n2
<1>4. QED
  BY <1>2, <1>3

LEMMA OnEndContent ==
  ASSUME BufferInv, CellsInv, ADC_OnEnd, NEW e \in Entries
  PROVE  Content(e)'
<1>1. PICK c \in Entries : c = chCount
  BY Stores DEF BufferInv
<1> DEFINE at == Cell(rings[c], rings[c].head)
<1>2. /\ mem' = [mem EXCEPT ![at] = TheSample] /\ mem \in [Addresses -> Sample]
      /\ at = c * (MaxLen + gap) + rings[c].head /\ rings[c].head \in Cells
      /\ gap \in {0, 1} /\ gap' = gap
  BY <1>1, Stores, Numbers DEF BufferInv, TypeInv, TypeOK, ADC_OnEnd
<1>3. \A d \in Entries : Share(e, d)' = Share(e, d) /\ Stored(d) \subseteq Stored(d)'
  BY <1>1, <1>2, StoredGrows DEF BufferInv, Share
<1>4. ASSUME NEW i \in Cells, Latest(e, i)' >= 1
      PROVE  \/ mem'[Cell(rings'[e], i)] = pushed'[e][Latest(e, i)']
             \/ Neighbours(e, mem[Cell(rings[e], i)])'
  <2> DEFINE a == Cell(rings[e], i)
  <2>1. a = e * (MaxLen + gap) + i /\ a \in Addresses
    BY CellTyped DEF BufferInv
  <2>2. Cell(rings'[e], i) = a
    <3>1. rings'[e].buffer = rings[e].buffer
      BY OnEndTypes, <1>2 DEF BufferInv, TypeInv
    <3>2. QED
      BY <3>1 DEF Cell
  <2>3. CASE a = at
    <3>1. mem'[a] = TheSample
      BY <1>2, <2>1, <2>3
    <3>2. \/ e = c /\ i = rings[c].head
          \/ gap = 0 /\ e = c + 1
          \/ gap = 0 /\ c = e + 1
      BY <1>2, <2>1, <2>3, SameCell
    <3>3. CASE e = c /\ i = rings[c].head
      <4>1. Latest(e, i)' = Len(pushed[e]) + 1
        BY <1>1, <3>3, LatestMoves
      <4>2. pushed'[e][Len(pushed[e]) + 1] = TheSample
        BY <1>1, <3>3, StoredGrows DEF BufferInv
      <4>3. QED
        BY <2>2, <3>1, <4>1, <4>2
    <3>4. CASE gap = 0 /\ (e = c + 1 \/ c = e + 1)
      <4>1. Share(e, c)'
        <5>1. c \in Nat /\ e \in Nat
          BY Table
        <5>2. QED
          BY <1>2, <3>4, <5>1 DEF Share
      <4>2. TheSample \in Stored(c)'
        BY <1>1, StoredGrows DEF BufferInv
      <4>3. QED
        BY <2>2, <3>1, <4>1, <4>2 DEF Neighbours
    <3>5. QED
      BY <3>2, <3>3, <3>4
  <2>4. CASE a # at
    <3>1. mem'[a] = mem[a]
      BY <1>2, <2>1, <2>4
    <3>2. Latest(e, i)' = Latest(e, i)
      BY <1>1, <2>4, LatestMoves
    <3>3. Latest(e, i) \in 1..Len(pushed[e])
      BY <1>4, <3>2, LatestFacts, Buffer DEF BufferInv
    <3>4. pushed'[e][Latest(e, i)] = pushed[e][Latest(e, i)]
      BY <1>1, <3>3, StoredGrows DEF BufferInv
    <3>5. mem[a] = pushed[e][Latest(e, i)] \/ Neighbours(e, mem[a])
      BY <1>4, <3>2 DEF CellsInv, Content
    <3>6. QED
      BY <1>3, <2>2, <3>1, <3>2, <3>4, <3>5 DEF Neighbours
  <2>5. QED
    BY <2>3, <2>4
<1>5. QED
  BY <1>4 DEF Content

\* Only own samples count for Ahead and the order: no neighbour's is one.
LEMMA OwnNumbers ==
  ASSUME BufferInv, CellsInv, NEW e \in Entries, NEW k \in 1..Len(pushed[e])
  PROVE  /\ ~Neighbours(e, pushed[e][k])
         /\ pushed[e][k].n \in Int /\ pushed[e][k].n <= stored
         /\ \A m \in 1..Len(pushed[e]) :
              /\ pushed[e][k] = pushed[e][m] => k = m
              /\ k < m => pushed[e][k].n < pushed[e][m].n
<1>1. ASSUME NEW d \in Entries, Share(e, d), pushed[e][k] \in Stored(d)
      PROVE  FALSE
  <2>1. PICK m \in 1..Len(pushed[d]) : pushed[e][k] = pushed[d][m]
    BY <1>1 DEF Stored
  <2>2. d = e
    BY <2>1 DEF CellsInv, Numbered
  <2>3. e \in Nat /\ e # e - 1 /\ e # e + 1
    BY Table
  <2>4. QED
    BY <1>1, <2>2, <2>3 DEF Share
<1>2. pushed[e][k] \in Sample
  BY Buffer, ElementOfSeq DEF BufferInv
<1>3. pushed[e][k].n \in Int /\ pushed[e][k].n <= stored
  BY <1>2, Numbers DEF Sample, BufferInv, HoldInv, NumbersInv
<1>4. QED
  BY <1>1, <1>3 DEF Neighbours, CellsInv, Numbered

\* The interrupt stores a sample while main adds.
LEMMA OnEndSum ==
  ASSUME BufferInv, CellsInv, SumInv, ADC_OnEnd
  PROVE  SumInv'
<1>1. PICK c \in Entries : c = chCount
  BY Stores DEF BufferInv
<1>2. PICK e \in Entries : e = entry
  BY DEF BufferInv, TypeInv, TypeOK
<1>3. UNCHANGED <<pc, entry, index, sum, before, gap>> /\ index \in Cells /\ before \in Nat
      /\ sum \in Seq(Sample)
  BY DEF ADC_OnEnd, main, BufferInv, TypeInv, TypeOK
<1>4. /\ Len(pushed[e]) \in Nat
      /\ Len(pushed'[e]) = Len(pushed[e]) \/ Len(pushed'[e]) = Len(pushed[e]) + 1
      /\ \A k \in 1..Len(pushed[e]) : pushed'[e][k] = pushed[e][k]
  BY <1>1, StoredGrows, Buffer DEF BufferInv
\* What is in the sum is old.
<1>5. ASSUME NEW i \in 1..Len(sum), NEW k \in 1..Len(pushed'[e]), sum[i] = pushed'[e][k]
      PROVE  k \in 1..Len(pushed[e]) /\ sum[i] = pushed[e][k]
  <2>1. CASE k \in 1..Len(pushed[e])
    BY <1>4, <1>5, <2>1
  <2>2. CASE k \notin 1..Len(pushed[e])
    <3>1. e = c /\ sum[i].n = stored + 1 /\ stored \in Int
      <4>1. e = c /\ k = Len(pushed[e]) + 1
        BY <1>1, <1>4, <1>5, <2>2, StoredGrows DEF BufferInv
      <4>2. QED
        <5>1. TypeInv /\ HoldInv /\ ADC_OnEnd
          BY <1>1 DEF BufferInv
        <5>2. pushed'[c][Len(pushed[c]) + 1] = TheSample
          BY <1>1, <5>1, StoredGrows
        <5>3. TheSample.n = stored + 1 /\ stored \in Int
          BY <5>1, Stores, Numbers DEF TypeInv, TypeOK
        <5>4. QED
          BY <1>5, <4>1, <5>2, <5>3
    <3>2. sum[i].n \in Int /\ sum[i].n <= stored
      <4>1. \/ \E m \in 1..Len(pushed[e]) : sum[i] = pushed[e][m]
            \/ \E d \in Entries : sum[i] \in Stored(d)
        BY <1>2 DEF SumInv, AverageIsRecent, OwnAndRecent, Stored
      <4>2. \E d \in Entries : \E m \in 1..Len(pushed[d]) : sum[i] = pushed[d][m]
        BY <4>1 DEF Stored
      <4>3. QED
        BY <4>2, OwnNumbers
    <3>3. QED
      BY <3>1, <3>2
  <2>3. QED
    BY <2>1, <2>2
<1>6. \A i \in 1..Len(sum) : OwnAndRecent(i)' <=> OwnAndRecent(i)
  <2> SUFFICES ASSUME NEW i \in 1..Len(sum)
               PROVE  OwnAndRecent(i)' <=> OwnAndRecent(i)
    OBVIOUS
  <2>1. 1..Len(pushed[e]) \subseteq 1..Len(pushed'[e])
    BY <1>4
  <2>2. OwnAndRecent(i)' <=> \E k \in 1..Len(pushed'[e]) :
                                k > before - MaxLen /\ sum[i] = pushed'[e][k]
    BY <1>2, <1>3 DEF OwnAndRecent
  <2>3. OwnAndRecent(i) <=> \E k \in 1..Len(pushed[e]) :
                               k > before - MaxLen /\ sum[i] = pushed[e][k]
    BY <1>2 DEF OwnAndRecent
  <2>4. QED
    BY <1>4, <1>5, <2>1, <2>2, <2>3
<1>7. AverageIsRecent'
  <2>1. \A d \in Entries : Share(entry, d)' = Share(entry, d)
                          /\ Stored(d) \subseteq Stored(d)'
    BY <1>1, <1>3, StoredGrows DEF BufferInv, Share
  <2>2. ASSUME NEW i \in 1..Len(sum)
        PROVE  \/ OwnAndRecent(i)'
               \/ \E d \in Entries : Share(entry, d)' /\ sum[i] \in Stored(d)'
    <3>1. \/ OwnAndRecent(i)
          \/ \E d \in Entries : Share(entry, d) /\ sum[i] \in Stored(d)
      BY DEF SumInv, AverageIsRecent, Stored
    <3>2. QED
      BY <1>6, <2>1, <3>1
  <2>3. \A i, j \in 1..Len(sum) :
          i < j /\ OwnAndRecent(i)' /\ OwnAndRecent(j)' => sum[i].n < sum[j].n
    BY <1>6 DEF SumInv, AverageIsRecent
  <2>4. /\ \A i \in 1..Len(sum') :
             \/ OwnAndRecent(i)'
             \/ \E d \in Entries :
                  Share(entry, d)' /\ sum'[i] \in {pushed'[d][m] : m \in 1..Len(pushed'[d])}
        /\ \A i, j \in 1..Len(sum') :
             i < j /\ OwnAndRecent(i)' /\ OwnAndRecent(j)' => sum'[i].n < sum'[j].n
    BY <1>3, <2>2, <2>3 DEF Stored
  <2>5. QED
    BY <2>4 DEF AverageIsRecent
<1>8. /\ Latest(e, index)' = Latest(entry, index)'
      /\ Latest(e, index)' = IF e = c /\ index = rings[e].head
                             THEN Len(pushed[e]) + 1 ELSE Latest(e, index)
  <2>1. Latest(e, index)' = Latest(entry, index)'
    BY <1>2, <1>3 DEF Latest
  <2>2. \A i \in Cells :
          Latest(e, i)' = IF e = c /\ i = rings[e].head
                          THEN Len(pushed[e]) + 1 ELSE Latest(e, i)
    BY <1>1, LatestMoves
  <2>3. \A i : index = i => Latest(e, index)' = Latest(e, i)'
    BY <1>3 DEF Latest
  <2>4. QED
    BY <1>3, <2>1, <2>2, <2>3
<1>9. ASSUME Ahead \/ (e = c /\ index = rings[e].head)
      PROVE  Ahead'
  <2>1. Latest(e, index) \in Int /\ Latest(e, index) <= Len(pushed[e])
    BY <1>3, LatestFacts
  <2>2. Latest(e, index)' >= 1
    BY <1>2, <1>4, <1>8, <1>9, <2>1 DEF Ahead
  <2>3. ASSUME NEW i \in 1..Len(sum), NEW k \in 1..Len(pushed'[e]), sum[i] = pushed'[e][k]
        PROVE  k < Latest(e, index)'
    <3>1. k \in 1..Len(pushed[e]) /\ sum[i] = pushed[e][k]
      BY <1>5, <2>3
    <3>2. CASE e = c /\ index = rings[e].head
      BY <1>4, <1>8, <3>1, <3>2
    <3>3. CASE ~(e = c /\ index = rings[e].head)
      BY <1>2, <1>8, <1>9, <3>1, <3>3 DEF Ahead
    <3>4. QED
      BY <3>2, <3>3
  <2>4. QED
    BY <1>2, <1>3, <1>8, <2>2, <2>3 DEF Ahead
<1>10. pc' = "test" /\ index' # rings'[entry'].head => Ahead'
  <2>1. e # c => rings'[e] = rings[e]
    BY <1>1, Stores DEF BufferInv, TypeInv, TypeOK
  <2>2. QED
    BY <1>2, <1>3, <1>9, <2>1 DEF SumInv
<1>11. pc' = "add" => Ahead' /\ Latest(entry, index)' > before' - MaxLen
  <2>1. Latest(e, index) \in Int /\ Latest(e, index) <= Len(pushed[e])
    BY <1>3, LatestFacts
  <2>2. pc = "add" => Latest(e, index) > before - MaxLen
    BY <1>2 DEF SumInv
  <2>3. pc = "add" => Latest(e, index)' > before - MaxLen
    BY <1>3, <1>4, <1>8, <2>1, <2>2, Numbers
  <2>4. QED
    BY <1>3, <1>8, <1>9, <2>3 DEF SumInv
<1>12. /\ pc' \in {"boot", "loop", "head", "tail", "index"} => sum' = <<>>
       /\ pc' \in {"tail", "index", "test", "add", "divide"} =>
            before' <= Len(pushed'[entry'])
  BY <1>2, <1>3, <1>4 DEF SumInv
<1>13. QED
  BY <1>7, <1>10, <1>11, <1>12 DEF SumInv

\* main adds the cell at index.
LEMMA AddSum ==
  ASSUME BufferInv, CellsInv, SumInv, AverageAdd
  PROVE  SumInv'
<1>1. PICK e \in Entries : e = entry
  BY DEF BufferInv, TypeInv, TypeOK
<1> DEFINE x == mem[Cell(rings[e], index)]
           K == Latest(e, index)
           n == Len(pushed[e])
           l == Len(sum)
<1>2. /\ pc = "add" /\ pc' = "test" /\ sum' = Append(sum, x) /\ index' = After(index)
      /\ UNCHANGED <<mem, rings, pushed, gap, entry, before>>
      /\ index \in Cells /\ sum \in Seq(Sample) /\ mem \in [Addresses -> Sample]
      /\ before \in Nat
  BY <1>1 DEF AverageAdd, adc, BufferInv, TypeInv, TypeOK
<1>3. x \in Sample
  BY <1>2, CellTyped DEF BufferInv
<1>4. /\ Len(sum') = l + 1 /\ l \in Nat /\ sum'[l + 1] = x
      /\ \A i \in 1..l : sum'[i] = sum[i]
  BY <1>2, <1>3, AppendProperties, LenProperties
<1>5. /\ K \in 1..n /\ n \in Nat /\ K > before - MaxLen
      /\ After(index) # rings[e].head => Latest(e, After(index)) = K + 1
      /\ \A i \in 1..l, k \in 1..n : sum[i] = pushed[e][k] => k < K
  BY <1>1, <1>2, LatestFacts, Buffer DEF SumInv, Ahead, BufferInv
<1>6. x = pushed[e][K] \/ Neighbours(e, x)
  BY <1>2, <1>5 DEF CellsInv, Content
\* If it is one of e's own it is the K-th.
<1>7. ASSUME NEW k \in 1..n, x = pushed[e][k]
      PROVE  k = K
  BY <1>5, <1>6, <1>7, OwnNumbers
<1>8. \A i \in 1..l : OwnAndRecent(i)' <=> OwnAndRecent(i)
  BY <1>2, <1>4 DEF OwnAndRecent
<1>9. AverageIsRecent'
  <2>1. ASSUME NEW i \in 1..Len(sum')
        PROVE  \/ OwnAndRecent(i)'
               \/ \E d \in Entries :
                    Share(entry, d)' /\ sum'[i] \in {pushed'[d][m] : m \in 1..Len(pushed'[d])}
    <3>1. CASE i \in 1..l
      <4>1. \/ OwnAndRecent(i)
            \/ \E d \in Entries :
                 Share(entry, d) /\ sum[i] \in {pushed[d][m] : m \in 1..Len(pushed[d])}
        BY <3>1 DEF SumInv, AverageIsRecent
      <4>2. QED
        BY <1>2, <1>4, <1>8, <3>1, <4>1 DEF Share
    <3>2. CASE i = l + 1
      <4>1. CASE x = pushed[e][K]
        BY <1>1, <1>2, <1>4, <1>5, <3>2, <4>1 DEF OwnAndRecent
      <4>2. CASE Neighbours(e, x)
        BY <1>1, <1>2, <1>4, <3>2, <4>2 DEF Neighbours, Stored, Share
      <4>3. QED
        BY <1>6, <4>1, <4>2
    <3>3. QED
      BY <1>4, <2>1, <3>1, <3>2
  <2>2. ASSUME NEW i \in 1..Len(sum'), NEW j \in 1..Len(sum'),
               i < j, OwnAndRecent(i)', OwnAndRecent(j)'
        PROVE  sum'[i].n < sum'[j].n
    <3>1. i \in 1..l /\ (j \in 1..l \/ j = l + 1)
      BY <1>4, <2>2
    <3>2. CASE j \in 1..l
      BY <1>4, <1>8, <2>2, <3>1, <3>2 DEF SumInv, AverageIsRecent
    <3>3. CASE j = l + 1
      <4>1. PICK k \in 1..n : sum[i] = pushed[e][k]
        BY <1>1, <1>8, <2>2, <3>1 DEF OwnAndRecent
      <4>2. PICK m \in 1..n : x = pushed[e][m]
        BY <1>1, <1>2, <1>4, <2>2, <3>3 DEF OwnAndRecent
      <4>3. k < m
        BY <1>5, <1>7, <3>1, <4>1, <4>2
      <4>4. pushed[e][k].n < pushed[e][m].n
        BY <1>5, <4>1, <4>2, <4>3, OwnNumbers
      <4>5. QED
        BY <1>4, <3>1, <3>3, <4>1, <4>2, <4>4
    <3>4. QED
      BY <3>1, <3>2, <3>3
  <2>3. QED
    BY <2>1, <2>2 DEF AverageIsRecent
<1>10. index' # rings'[entry'].head => Ahead'
  <2> SUFFICES ASSUME index' # rings'[entry'].head
               PROVE  Ahead'
    OBVIOUS
  <2>1. Latest(entry, index)' = K + 1
    <3>1. Latest(entry, index)' = Latest(e, After(index))
      BY <1>1, <1>2 DEF Latest
    <3>2. QED
      BY <1>1, <1>2, <1>5, <3>1
  <2>2. ASSUME NEW i \in 1..Len(sum'), NEW k \in 1..n, sum'[i] = pushed[e][k]
        PROVE  k < K + 1
    <3>1. CASE i \in 1..l
      BY <1>4, <1>5, <2>2, <3>1
    <3>2. CASE i = l + 1
      <4>1. x = pushed[e][k]
        BY <1>4, <2>2, <3>2
      <4>2. QED
        BY <1>5, <1>7, <4>1
    <3>3. QED
      BY <1>4, <2>2, <3>1, <3>2
  <2>3. pushed'[entry'] = pushed[e] /\ K \in Nat /\ K + 1 >= 1
    BY <1>1, <1>2, <1>5
  <2>4. QED
    BY <2>1, <2>2, <2>3 DEF Ahead
<1>11. before' <= Len(pushed'[entry'])
  BY <1>2 DEF SumInv
<1>12. QED
  BY <1>2, <1>9, <1>10, <1>11 DEF SumInv

\* What main does else: it starts with nothing added, and looks at a cell only
\* when head is elsewhere.
LEMMA OtherSum ==
  ASSUME BufferInv, CellsInv, SumInv,
         Convert \/ SelectFirst \/ Measure \/ AverageHead \/ AverageTail \/ AverageIndex
           \/ AverageTest \/ AverageDivide \/ UNCHANGED vars
  PROVE  SumInv'
<1>1. UNCHANGED <<gap, mem, rings, pushed>>
  BY DEF Convert, SelectFirst, Measure, AverageHead, AverageTail, AverageIndex,
         AverageTest, AverageDivide, adc, vars
<1>2. ASSUME sum' = <<>> PROVE AverageIsRecent'
  BY <1>2 DEF AverageIsRecent
<1>3. PICK e \in Entries : e = entry
  BY DEF BufferInv, TypeInv, TypeOK
<1>4. CASE Printed("head") \/ Measure \/ SelectFirst
  <2>1. sum' = <<>> /\ pc' \in {"loop", "head"}
    BY <1>4 DEF Printed, Measure, SelectFirst, SumInv
  <2>2. QED
    BY <1>2, <2>1 DEF SumInv
<1>5. CASE AverageHead
  <2>1. sum' = <<>> /\ pc' = "tail" /\ entry' = entry /\ before' = Len(pushed[entry])
    BY <1>5 DEF AverageHead, SumInv
  <2>2. Len(pushed[e]) \in Nat
    BY Buffer DEF BufferInv
  <2>3. QED
    BY <1>1, <1>2, <1>3, <2>1, <2>2 DEF SumInv
<1>6. CASE AverageTail /\ pc' = "index"
  <2>1. sum' = <<>> /\ UNCHANGED <<entry, before>> /\ pc = "tail"
    BY <1>6 DEF AverageTail, Printed, SumInv
  <2>2. QED
    BY <1>1, <1>2, <1>6, <2>1 DEF SumInv
<1>7. CASE AverageIndex
  <2>1. /\ sum' = <<>> /\ UNCHANGED <<entry, before>> /\ pc = "index" /\ pc' = "test"
        /\ index' = rings[e].tail
    BY <1>3, <1>7 DEF AverageIndex, SumInv
  <2>2. index' # rings'[entry'].head => Ahead'
    <3> SUFFICES ASSUME index' # rings[e].head PROVE Ahead'
      BY <1>1, <1>3, <2>1
    <3>1. rings[e].tail \in Cells
      BY Buffer DEF BufferInv, Ring, circ_buff_t
    <3>2. Latest(e, rings[e].tail) >= 1
      BY <2>1, <3>1, LatestFacts DEF CellsInv
    <3>3. Latest(entry, index)' = Latest(e, rings[e].tail)
      BY <1>1, <1>3, <2>1 DEF Latest
    <3>4. QED
      BY <2>1, <3>2, <3>3 DEF Ahead
  <2>3. QED
    BY <1>1, <1>2, <2>1, <2>2 DEF SumInv
<1>8. CASE AverageTest
  <2>1. /\ UNCHANGED <<sum, entry, before, index>> /\ pc = "test"
        /\ pc' = IF index = rings[e].head THEN "divide" ELSE "add"
        /\ index \in Cells /\ before \in Nat
    BY <1>3, <1>8 DEF AverageTest, BufferInv, TypeInv, TypeOK
  <2>2. AverageIsRecent' /\ (Ahead' <=> Ahead) /\ Latest(entry, index)' = Latest(e, index)
    BY <1>1, <1>3, <2>1 DEF SumInv, AverageIsRecent, OwnAndRecent, Share, Ahead, Latest
  <2>3. pc' = "add" => Ahead' /\ Latest(e, index) > before - MaxLen
    <3> SUFFICES ASSUME index # rings[e].head
                 PROVE  Ahead' /\ Latest(e, index) > before - MaxLen
      BY <2>1
    <3>1. /\ Latest(e, index) \in Int /\ Latest(e, index) > Len(pushed[e]) - MaxLen
          /\ before <= Len(pushed[e]) /\ Len(pushed[e]) \in Nat
      BY <1>3, <2>1, LatestFacts, Buffer DEF SumInv, BufferInv
    <3>2. QED
      BY <1>3, <2>1, <2>2, <3>1, Numbers DEF SumInv
  <2>4. QED
    BY <1>1, <2>1, <2>2, <2>3 DEF SumInv
<1>9. CASE Convert \/ UNCHANGED vars
  <2>1. UNCHANGED <<pc, entry, index, sum, before>>
    BY <1>9 DEF Convert, vars, main
  <2>2. AverageIsRecent' /\ (Ahead' <=> Ahead) /\ Latest(entry, index)' = Latest(entry, index)
    BY <1>1, <2>1 DEF SumInv, AverageIsRecent, OwnAndRecent, Share, Ahead, Latest
  <2>3. QED
    BY <1>1, <2>1, <2>2 DEF SumInv
<1>10. QED
  <2>1. AverageTail => Printed("head") \/ pc' = "index"
    BY DEF AverageTail
  <2>2. AverageDivide => Printed("head")
    BY DEF AverageDivide
  <2>3. QED
    BY <1>4, <1>5, <1>6, <1>7, <1>8, <1>9, <2>1, <2>2

LEMMA SumAlways == Spec => [](CellsInv /\ SumInv)
<1>1. BufferInv /\ CellsInv /\ SumInv /\ [Next]_vars => CellsInv' /\ SumInv'
  <2> SUFFICES ASSUME BufferInv, CellsInv, SumInv, [Next]_vars
               PROVE  CellsInv' /\ SumInv'
    OBVIOUS
  <2>1. CellsInv'
    <3>1. CASE ADC_OnEnd
      BY <3>1, OnEndNumbered, OnEndTurn, OnEndContent DEF CellsInv
    <3>2. CASE ~ADC_OnEnd
      <4>1. UNCHANGED <<gap, mem, rings, pushed>>
        BY <3>2 DEF Next, Convert, SelectFirst, Measure, Average, AverageHead,
               AverageTail, AverageIndex, AverageTest, AverageAdd, AverageDivide, adc, vars
      <4>2. /\ \A e, i : Latest(e, i)' = Latest(e, i)
            /\ \A d, e : Share(d, e)' = Share(d, e) /\ Stored(d)' = Stored(d)
        BY <4>1 DEF Latest, Share, Stored
      <4>3. Numbered' /\ \A e : Turn(e)' = Turn(e)
        BY <4>1 DEF CellsInv, Numbered, Turn
      <4>4. ASSUME NEW e \in Entries PROVE Content(e)'
        <5>1. Content(e)
          BY DEF CellsInv
        <5>2. QED
          BY <4>1, <4>2, <5>1 DEF Content, Neighbours
      <4>5. QED
        BY <4>3, <4>4 DEF CellsInv
    <3>3. QED
      BY <3>1, <3>2
  <2>2. SumInv'
    BY OnEndSum, AddSum, OtherSum DEF Next, Average
  <2>3. QED
    BY <2>1, <2>2
<1>2. QED
  BY <1>1, InitCells, Typing, HoldAlways, PTL DEF Spec, BufferInv

\* However often the interrupt stores samples while main adds them up: an average
\* is of samples of its own buffer, none older than the last MaxLen when it was
\* begun, in order and none twice, but for the cell a neighbour may share.
THEOREM AveragesAreRecent == Spec => []AverageIsRecent
<1>1. SumInv => AverageIsRecent
  BY DEF SumInv
<1>2. QED
  BY <1>1, SumAlways, PTL
=============================================================================
