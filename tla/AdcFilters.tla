----------------------------- MODULE AdcFilters -----------------------------
(***************************************************************************)
(* AdcFilters: the converter goes round a table of channels as in          *)
(* AdcSampling, and the interrupt keeps one filtered value per channel, an *)
(* average in which the old value counts Weight times and the new sample   *)
(* once.  The average is a float, the variable it goes to a uint16_t: what *)
(* lies behind the point is cut off at every step.                         *)
(***************************************************************************)
EXTENDS Integers, Sequences

CONSTANTS
  Weight,       \* of the old value (100)
  Channels,     \* entries of adc_channels (7)
  MaxValue,     \* the highest value a conversion may give (4095)
  Levels,       \* the values the inputs may have
  MaxChanges    \* bound: how often an input changes

ASSUME FilterAssumption ==
  /\ Weight \in Nat /\ Weight > 0
  /\ Channels \in Nat /\ Channels > 0
  /\ MaxValue \in Nat /\ Levels \subseteq 0..MaxValue
  /\ MaxChanges \in Nat

VARIABLES
  level,      \* external: what is on each input of the converter
  changes,    \* history: changes of the inputs so far
  chCount,    \* ADC_OnEnd's place in the table
  channel,    \* ADCH in SC1, Off before main selects one
  result,     \* R, empty unless COCO is set
  value       \* the analog_... variable of each entry

vars == <<level, changes, chCount, channel, result, value>>

Entries == 0 .. Channels - 1

\* adc_channels[e].adcChannel, numbered by the place in the table: the channel
\* main starts on, AD8, is the last one.
adc_channels(e) == e + 1
AD8 == Channels
Off == 0

Values == 0..MaxValue

Init ==
  /\ level \in [1..Channels -> Levels] /\ changes = 0
  /\ chCount = 0 /\ channel = Off /\ result = <<>>
  /\ value = [e \in Entries |-> 0]

\* Slip: the sum is divided by the weight of the old value.
filterAdcShort(current_element, input) ==
  (Weight * current_element + input) \div Weight

\* The float is within a 2^-13 of the quotient, which is a multiple of 1/101:
\* cutting it gives what cutting the quotient does.
filterAdc(current_element, input) ==
  (Weight * current_element + input) \div (Weight + 1)

-----------------------------------------------------------------------------

Change ==
  /\ changes < MaxChanges /\ changes' = changes + 1
  /\ \E c \in 1..Channels, l \in Levels :
        l # level[c] /\ level' = [level EXCEPT ![c] = l]
  /\ UNCHANGED <<chCount, channel, result, value>>

\* A conversion of the selected channel ends.  One that ends before the last
\* result was read replaces it.
Convert ==
  /\ channel # Off
  /\ result # <<level[channel]>>
  /\ result' = <<level[channel]>>
  /\ UNCHANGED <<level, changes, chCount, channel, value>>

\* main: the first channel is selected.
SelectFirst ==
  /\ channel = Off /\ channel' = AD8
  /\ UNCHANGED <<level, changes, chCount, result, value>>

\* The sample is filtered into the variable of the current entry.
Filter == value' = [value EXCEPT ![chCount] = filterAdc(@, result[1])]

\* After the last entry of the table comes the first.
NextEntry(e) == IF e = Channels - 1 THEN 0 ELSE e + 1

\* Slip: the channel is selected before the place in the table moves on.
ADC_OnEndStaleChannel ==
  /\ result # <<>>
  /\ Filter
  /\ channel' = adc_channels(chCount)
  /\ chCount' = NextEntry(chCount)
  /\ result' = <<>>
  /\ UNCHANGED <<level, changes>>

\* Writing SC1 ends the conversion under way and starts one on the channel.
ADC_OnEnd ==
  /\ result # <<>>
  /\ Filter
  /\ chCount' = NextEntry(chCount)
  /\ channel' = adc_channels(chCount')
  /\ result' = <<>>
  /\ UNCHANGED <<level, changes>>

Next == Change \/ Convert \/ SelectFirst \/ ADC_OnEnd

\* main runs, conversions end and the interrupt is taken; nothing makes the
\* inputs change.
Spec == /\ Init /\ [][Next]_vars
        /\ WF_vars(SelectFirst) /\ WF_vars(Convert) /\ WF_vars(ADC_OnEnd)

-----------------------------------------------------------------------------
(* Properties                                                              *)

\* Types: in particular the values stay in the range of the converter.
TypeOK ==
  /\ level \in [1..Channels -> Levels] /\ changes \in 0..MaxChanges
  /\ chCount \in Entries /\ channel \in Off..Channels
  /\ result \in Seq(Levels) /\ Len(result) <= 1
  /\ value \in [Entries -> Values]

\* A filtered value goes towards the sample and never beyond it, by at least one
\* if it is above, and not at all if the sample is no more than Weight above it.
MovesTowards ==
  [][\A e \in Entries : value'[e] # value[e] =>
        \/ /\ value[e] < value'[e] /\ value'[e] < result[1]
           /\ value[e] + Weight < result[1]
        \/ value[e] > value'[e] /\ value'[e] >= result[1]]_vars

\* What the value of an entry shows of a steady input: all of it, or up to
\* Weight less -- from below the last steps are cut off.
Shows(e) ==
  LET l == level[adc_channels(e)] IN l - Weight <= value[e] /\ value[e] <= l

\* When the inputs no longer change every value settles on the input of its own
\* channel, Weight below it at worst.
ReadingsSettle == <>[](\A e \in Entries : Shows(e))
=============================================================================
