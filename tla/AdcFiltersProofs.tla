-------------------------- MODULE AdcFiltersProofs --------------------------
(***************************************************************************)
(* Theorems about AdcFilters for every weight, every number of channels    *)
(* and every range of the converter.                                       *)
(***************************************************************************)
EXTENDS AdcFilters, SequenceTheorems, TLAPS

\* A factor above 1 takes a number away from 0.
LEMMA Sign ==
  ASSUME NEW a \in Nat, a > 1, NEW x \in Int
  PROVE  /\ a * x \in Int /\ a * (x + 1) = a * x + a
         /\ x >= 1 => a * x >= a /\ a * x > x
         /\ x <= 0 => a * x <= x
BY Z3

\* What cutting the average leaves between the old value and it.
LEMMA Quotient ==
  ASSUME NEW a \in Nat, a > 0, NEW n \in Nat
  PROVE  /\ n \div a \in Nat
         /\ a * (n \div a) <= n /\ n < a * (n \div a) + a
BY Z3

\* One step of the filter goes towards the sample and not beyond, and does not
\* move if the sample is no more than Weight above.
LEMMA FilterMoves ==
  ASSUME NEW c \in Nat, NEW i \in Nat
  PROVE  LET f == filterAdc(c, i)
         IN  /\ f \in Nat
             /\ i > c + Weight => c < f /\ f < i
             /\ c <= i /\ i <= c + Weight => f = c
             /\ i < c => i <= f /\ f < c
<1> DEFINE a == Weight + 1
           f == filterAdc(c, i)
<1>1. Weight \in Nat /\ a \in Nat /\ a > 1 /\ a > 0 /\ a = Weight + 1
  BY FilterAssumption
<1>2. Weight * c + i \in Nat /\ Weight * c + i = a * c + (i - c)
  BY <1>1
<1>3. f \in Nat /\ a * f <= a * c + (i - c) /\ a * c + (i - c) < a * f + a
  BY <1>1, <1>2, Quotient DEF filterAdc
<1> HIDE DEF a, f
<1>4. PICK x \in Int : f = c + x
  <2>1. f - c \in Int /\ f = c + (f - c)
    BY <1>3
  <2>2. QED
    BY <2>1
<1>5. a * x <= i - c /\ i - c < a * x + a
  <2>1. a * f = a * c + a * x
    BY <1>1, <1>3, <1>4
  <2>2. a * f \in Int /\ a * c \in Int /\ a * x \in Int
    BY <1>1, <1>3
  <2>3. QED
    BY <1>1, <1>3, <2>1, <2>2
<1>6. /\ a * x \in Int /\ a * (x + 1) = a * x + a
      /\ x >= 1 => a * x >= a /\ a * x > x
      /\ x <= 0 => a * x <= x
      /\ x + 1 <= 0 => a * (x + 1) <= x + 1
  BY <1>1, <1>3, Sign
<1>7. /\ f \in Nat
      /\ i > c + Weight => c < f /\ f < i
      /\ c <= i /\ i <= c + Weight => f = c
      /\ i < c => i <= f /\ f < c
  BY <1>1, <1>3, <1>4, <1>5, <1>6
<1> QED
  BY <1>7 DEF f

-----------------------------------------------------------------------------

LEMMA InitTypes == Init => TypeOK
<1>1. /\ Channels \in Nat /\ Channels > 0 /\ MaxValue \in Nat /\ MaxChanges \in Nat
  BY FilterAssumption
<1>2. QED
  BY <1>1 DEF Init, TypeOK, Entries, Values, Off

\* The sample ADC_OnEnd takes is a value of the converter.
LEMMA TheSample ==
  ASSUME TypeOK, result # <<>>
  PROVE  result[1] \in Levels /\ result[1] \in Values
<1>1. Len(result) = 1
  <2>1. result \in Seq(Levels) /\ Len(result) <= 1
    BY DEF TypeOK
  <2>2. Len(result) \in Nat \ {0}
    BY <2>1, EmptySeq
  <2>3. ASSUME NEW n \in Nat \ {0}, n <= 1 PROVE n = 1
    BY <2>3
  <2>4. QED
    BY <2>1, <2>2, <2>3
<1>2. result[1] \in Levels
  BY <1>1 DEF TypeOK
<1>3. QED
  BY <1>2, FilterAssumption DEF Values

\* After an ADC_OnEnd the value of the current entry is where FilterMoves says
\* and the others are as they were.
LEMMA Filtered ==
  ASSUME TypeOK, ADC_OnEnd
  PROVE  LET i == result[1]
             c == value[chCount]
             f == value'[chCount]
         IN  /\ i \in Values /\ c \in Values /\ f \in Values
             /\ value' = [value EXCEPT ![chCount] = f]
             /\ i > c + Weight => c < f /\ f < i
             /\ c <= i /\ i <= c + Weight => f = c
             /\ i < c => i <= f /\ f < c
<1> DEFINE i == result[1]
           c == value[chCount]
           f == value'[chCount]
<1>1. i \in Values /\ c \in Values
  BY TheSample DEF ADC_OnEnd, TypeOK
<1>2. MaxValue \in Nat /\ Weight \in Nat /\ Weight > 0
  BY FilterAssumption
<1>3. f = filterAdc(c, i) /\ value' = [value EXCEPT ![chCount] = f]
  BY DEF ADC_OnEnd, Filter, TypeOK
<1>4. i \in Nat /\ c \in Nat /\ i <= MaxValue /\ c <= MaxValue
  BY <1>1, <1>2 DEF Values
<1>5. /\ f \in Nat
      /\ i > c + Weight => c < f /\ f < i
      /\ c <= i /\ i <= c + Weight => f = c
      /\ i < c => i <= f /\ f < c
  <2> HIDE DEF i, c, f
  <2> QED
    BY <1>3, <1>4, FilterMoves
<1>6. f \in Values
  <2>1. i > c + Weight \/ (c <= i /\ i <= c + Weight) \/ i < c
    BY <1>2, <1>4
  <2>2. f <= MaxValue
    BY <1>2, <1>4, <1>5, <2>1
  <2>3. QED
    BY <1>2, <1>5, <2>2 DEF Values
<1> QED
  BY <1>1, <1>3, <1>5, <1>6

LEMMA NextTypes == TypeOK /\ [Next]_vars => TypeOK'
<1> SUFFICES ASSUME TypeOK, [Next]_vars PROVE TypeOK'
  OBVIOUS
<1>0. /\ Channels \in Nat /\ Channels > 0 /\ MaxValue \in Nat /\ MaxChanges \in Nat
  BY FilterAssumption
<1>1. CASE Change
  BY <1>0, <1>1 DEF Change, TypeOK
<1>2. CASE Convert
  <2>1. level[channel] \in Levels
    BY <1>0, <1>2 DEF Convert, TypeOK, Off
  <2>2. QED
    BY <1>2, <2>1 DEF Convert, TypeOK
<1>3. CASE SelectFirst
  BY <1>0, <1>3 DEF SelectFirst, TypeOK, AD8, Off
<1>4. CASE ADC_OnEnd
  <2>1. NextEntry(chCount) \in Entries
    BY <1>0 DEF TypeOK, NextEntry, Entries
  <2>2. adc_channels(NextEntry(chCount)) \in Off..Channels
    BY <1>0, <2>1 DEF adc_channels, Entries, Off
  <2>3. value' \in [Entries -> Values]
    BY <1>4, Filtered DEF TypeOK
  <2>4. QED
    BY <1>4, <2>1, <2>2, <2>3 DEF ADC_OnEnd, TypeOK
<1>5. CASE UNCHANGED vars
  BY <1>5 DEF vars, TypeOK
<1>6. QED
  BY <1>1, <1>2, <1>3, <1>4, <1>5 DEF Next

\* Every filtered value stays in the range of the converter, whatever it measures.
THEOREM Typing == Spec => []TypeOK
BY InitTypes, NextTypes, PTL DEF Spec

\* No step of the filter moves a value away from the sample or past it.
THEOREM ValuesMoveTowards == Spec => MovesTowards
<1>1. ASSUME TypeOK, [Next]_vars, NEW e \in Entries, value'[e] # value[e]
      PROVE  \/ /\ value[e] < value'[e] /\ value'[e] < result[1]
                /\ value[e] + Weight < result[1]
             \/ value[e] > value'[e] /\ value'[e] >= result[1]
  <2>1. ADC_OnEnd
    BY <1>1 DEF Next, Change, Convert, SelectFirst, vars
  <2>2. e = chCount
    BY <1>1, <2>1, Filtered DEF TypeOK
  <2>3. /\ result[1] \in Nat /\ value[e] \in Nat /\ value'[e] \in Nat
        /\ Weight \in Nat
    BY <1>1, <2>1, <2>2, Filtered, FilterAssumption DEF Values
  <2>4. QED
    BY <1>1, <2>1, <2>2, <2>3, Filtered
<1>2. TypeOK /\ [Next]_vars =>
        [\A e \in Entries : value'[e] # value[e] =>
            \/ /\ value[e] < value'[e] /\ value'[e] < result[1]
               /\ value[e] + Weight < result[1]
            \/ value[e] > value'[e] /\ value'[e] >= result[1]]_vars
  BY <1>1
<1>3. QED
  BY <1>2, Typing, PTL DEF Spec, MovesTowards
=============================================================================
