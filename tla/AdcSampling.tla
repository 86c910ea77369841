---------------------------- MODULE AdcSampling -----------------------------
(***************************************************************************)
(* AdcSampling: the converter goes round a table of channels, its          *)
(* interrupt (ADC_OnEnd) stores each result in the buffer of the current   *)
(* entry and selects the next channel, and the main loop prints the        *)
(* average of every buffer.  The interrupt may run between any two of      *)
(* main's accesses to a buffer.                                            *)
(*                                                                         *)
(* A sample is the channel it was converted on and its number among those  *)
(* stored, so that one can be told from another; a sum is kept as the      *)
(* samples added.                                                          *)
(*                                                                         *)
(* What lies behind a buffer's array is the linker's choice: gap is the    *)
(* number of cells from the end of one array to the start of the next.     *)
(***************************************************************************)
EXTENDS CircularBuffer, Sequences

CONSTANTS
  Channels,       \* entries of adc_channels (8 in the code)
  Gaps,           \* the gaps the linker may leave
  MaxSamples      \* bound: samples stored

ASSUME ChannelsAssumption ==
  /\ Channels \in Nat /\ Channels > 0
  /\ Gaps \subseteq {0, 1}
  /\ MaxSamples \in Nat

VARIABLES
  gap, mem,    \* the memory the sample arrays are in
  rings,       \* the circ_buff_t of each entry
  chCount,     \* ADC_OnEnd's place in the table
  channel,     \* ADCH in SC1, Off before main selects one
  result,      \* the channel of the result in R, empty unless COCO is set
  pc, entry,   \* main: its position and the buffer it averages
  reg,         \* a CPU register of main
  index, sum,  \* circ_buff_average: its index and the samples it has added
  pushed,      \* history: the samples stored under each entry
  before,      \* history: how many of them when the average was begun
  stored       \* history: samples stored under any entry

adc  == <<gap, mem, rings, chCount, channel, result, pushed, stored>>
main == <<pc, entry, reg, index, sum, before>>
vars == <<adc, main>>

Entries == 0 .. Channels - 1

\* adc_channels[e].adcChannel, numbered by the place in the table; the channel
\* main starts on, AD10, is not in it.
adc_channels(e) == e + 1
AD10 == 0
Off  == -1

Sample == [channel : AD10..Channels, n : 0..MaxSamples]
Unset  == [channel |-> AD10, n |-> 0]

Addresses == 0 .. Channels * (MaxLen + 1)

Init ==
  /\ gap \in Gaps
  /\ mem = [a \in Addresses |-> Unset]
  /\ rings = [e \in Entries |-> CIRC_buff_DEF(e * (MaxLen + gap))]
  /\ chCount = 0 /\ channel = Off /\ result = <<>>
  /\ pc = "boot" /\ entry = 0 /\ reg = 0 /\ index = 0 /\ sum = <<>>
  /\ pushed = [e \in Entries |-> <<>>] /\ before = 0 /\ stored = 0

-----------------------------------------------------------------------------
(* The converter (external) and its interrupt                              *)

\* A conversion of the selected channel ends.  One that ends before the last
\* result was read replaces it: the channel is the same.
Convert ==
  /\ channel # Off /\ stored < MaxSamples
  /\ result = <<>> /\ result' = <<channel>>
  /\ UNCHANGED <<gap, mem, rings, chCount, channel, pushed, stored, main>>

\* The converted sample, when it is read.
TheSample == [channel |-> result[1], n |-> stored + 1]

\* circ_buff_push(adc_channels[chCount].storeLocation, ADC_ReadResultReg(ADC))
StoreSample ==
  /\ mem' = [mem EXCEPT ![Cell(rings[chCount], rings[chCount].head)] = TheSample]
  /\ rings' = [rings EXCEPT ![chCount] = circ_buff_push(@)]
  /\ pushed' = [pushed EXCEPT ![chCount] = Append(@, TheSample)]
  /\ stored' = stored + 1

\* Slip: the last entry of the table is never reached.
NextEntryTooSoon(e) == IF e >= Channels - 2 THEN 0 ELSE e + 1

\* After the last entry of the table comes the first.
NextEntry(e) == IF e = Channels - 1 THEN 0 ELSE e + 1

\* Slip: the channel is selected before the place in the table moves on.
ADC_OnEndStaleChannel ==
  /\ result # <<>>
  /\ StoreSample
  /\ channel' = adc_channels(chCount)
  /\ chCount' = NextEntry(chCount)
  /\ result' = <<>>
  /\ UNCHANGED <<gap, main>>

\* Writing SC1 ends the conversion under way and starts one on the channel.
ADC_OnEnd ==
  /\ result # <<>>
  /\ StoreSample
  /\ chCount' = NextEntry(chCount)
  /\ channel' = adc_channels(chCount')
  /\ result' = <<>>
  /\ UNCHANGED <<gap, main>>

-----------------------------------------------------------------------------
(* main                                                                    *)

SelectFirst ==
  /\ pc = "boot" /\ pc' = "loop"
  /\ channel' = AD10
  /\ UNCHANGED <<gap, mem, rings, chCount, result, pushed, stored, entry, reg,
                 index, sum, before>>

\* The tick counter is a multiple of 100.
Measure ==
  /\ pc = "loop" /\ pc' = "head"
  /\ entry' = 0
  /\ UNCHANGED <<adc, reg, index, sum, before>>

\* The average of entry has been printed.
Printed(l) ==
  /\ IF entry = Channels - 1 THEN pc' = "loop" /\ UNCHANGED entry
                             ELSE pc' = l /\ entry' = entry + 1
  /\ reg' = 0 /\ index' = 0 /\ sum' = <<>> /\ before' = 0

\* circ_buff_average: c->head == c->tail, two loads ...
AverageHead ==
  /\ pc = "head" /\ pc' = "tail"
  /\ reg' = rings[entry].head
  /\ before' = Len(pushed[entry])
  /\ UNCHANGED <<adc, entry, index, sum>>

\* ... and 0 when they are equal.
AverageTail ==
  /\ pc = "tail"
  /\ IF reg = rings[entry].tail
     THEN Printed("head")
     ELSE /\ pc' = "index" /\ reg' = 0
          /\ UNCHANGED <<entry, index, sum, before>>
  /\ UNCHANGED adc

AverageIndex ==
  /\ pc = "index" /\ pc' = "test"
  /\ index' = rings[entry].tail
  /\ UNCHANGED <<adc, entry, reg, sum, before>>

AverageTest ==
  /\ pc = "test"
  /\ pc' = IF index = rings[entry].head THEN "divide" ELSE "add"
  /\ UNCHANGED <<adc, entry, reg, index, sum, before>>

\* Slip: the index wraps at the array's end, head one later.
AverageAddWrapsEarly ==
  /\ pc = "add" /\ pc' = "test"
  /\ sum' = Append(sum, mem[Cell(rings[entry], index)])
  /\ index' = TailAfter(index)
  /\ UNCHANGED <<adc, entry, reg, before>>

AverageAdd ==
  /\ pc = "add" /\ pc' = "test"
  /\ sum' = Append(sum, mem[Cell(rings[entry], index)])
  /\ index' = After(index)
  /\ UNCHANGED <<adc, entry, reg, before>>

\* sum / elements
AverageDivide ==
  /\ pc = "divide"
  /\ Printed("head")
  /\ UNCHANGED adc

Average == AverageHead \/ AverageTail \/ AverageIndex \/ AverageTest
             \/ AverageAdd \/ AverageDivide

Next == Convert \/ ADC_OnEnd \/ SelectFirst \/ Measure \/ Average

Spec == Init /\ [][Next]_vars

-----------------------------------------------------------------------------
(* Properties                                                              *)

\* Types: tail never stands on the cell beyond the array, head may, and the
\* place in the table and main's index stay inside the table and the cells.
TypeOK ==
  /\ gap \in Gaps /\ mem \in [Addresses -> Sample]
  /\ rings \in [Entries -> circ_buff_t(Addresses)]
  /\ \A e \in Entries : rings[e].tail # MaxLen
  /\ chCount \in Entries /\ channel \in Off..Channels
  /\ result \in Seq(AD10..Channels) /\ Len(result) <= 1
  /\ pc \in {"boot", "loop", "head", "tail", "index", "test", "add", "divide"}
  /\ entry \in Entries /\ reg \in Cells /\ index \in Cells
  /\ sum \in Seq(Sample)
  /\ pushed \in [Entries -> Seq(Sample)]
  /\ before \in Nat /\ stored \in 0..MaxSamples

\* The two entries whose arrays touch and use one cell: with no gap the cell
\* behind the array of d is the first one of the next entry's.
Share(d, e) == gap = 0 /\ e \in {d - 1, d + 1}

\* Each buffer holds, from tail to head, the samples pushed last, in order; and
\* never fewer than MaxLen - 1 of them, once there have been so many.  That is
\* what the code does with a push that finds no room, and not what
\* CircularBuffer.h:38-42 says of it ("Returns: 0 - Success, -1 - Out of space",
\* by which the new sample would be the one refused): circ_buff_push drops the
\* oldest sample and returns 0, and ADC_OnEnd, its only caller, never looks.  Where
\* arrays touch, a sample at either end of one may have been replaced by a
\* later one of the neighbour's, and no other.
HoldsTheLatest ==
  \A e \in Entries :
    LET c == rings[e]
        n == Len(pushed[e])
    IN  /\ Held(c) <= n
        /\ Held(c) < n => Held(c) >= MaxLen - 1
        /\ \A k \in 0 .. Held(c) - 1 :
              LET own == pushed[e][n - Held(c) + k + 1]
                  is  == mem[Cell(c, IndexOf(c, k))]
              IN  \/ is = own
                  \/ /\ IndexOf(c, k) \in {0, MaxLen} /\ is.n > own.n
                     /\ \E d \in Entries :
                           Share(e, d) /\ is \in {pushed[d][m] : m \in 1..Len(pushed[d])}

\* Sample i of the sum is one of entry's own, and recent.
OwnAndRecent(i) ==
  \E k \in 1..Len(pushed[entry]) :
    k > before - MaxLen /\ sum[i] = pushed[entry][k]

\* An average is of samples of its own buffer no older than the last MaxLen at
\* the time of the call, taken in the order they were stored, none twice,
\* however often the interrupt pushes while they are added up; where arrays
\* touch, neighbours' samples get in.
AverageIsRecent ==
  /\ \A i \in 1..Len(sum) :
       \/ OwnAndRecent(i)
       \/ \E d \in Entries :
            Share(entry, d) /\ sum[i] \in {pushed[d][m] : m \in 1..Len(pushed[d])}
  /\ \A i, j \in 1..Len(sum) :
       i < j /\ OwnAndRecent(i) /\ OwnAndRecent(j) => sum[i].n < sum[j].n

\* Every sample is stored under the channel it was converted on, but for the
\* very first: that one is of AD10, which main selects to get the round going.
StoredUnderItsChannel ==
  \A e \in Entries : \A k \in 1..Len(pushed[e]) :
    pushed[e][k].channel = adc_channels(e) \/ pushed[e][k].n = 1

\* The buffers fill at the same pace.
EntriesTakeTurns ==
  \A d, e \in Entries :
    d < e => Len(pushed[d]) - Len(pushed[e]) \in 0..1

\* circ_buff_average never divides by zero: it has returned before if there is
\* nothing to average.
AverageHasElements == pc = "divide" => sum # <<>>
=============================================================================
