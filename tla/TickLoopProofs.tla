--------------------------- MODULE TickLoopProofs ---------------------------
(***************************************************************************)
(* Theorems about TickLoop for every reload value and period, every width  *)
(* of the counter, every time a step or the handler may take and every     *)
(* length of the task.                                                     *)
(*                                                                         *)
(* The argument is about time.  A tick that the loop sees came in its last *)
(* step; each step on the way to the check takes at most MaxStep; so until *)
(* the check SYST_CVR is at least what LoopTime and the task leave of      *)
(* Reload, and another tick comes only if the task has used that up.       *)
(***************************************************************************)
EXTENDS TickLoop, TLAPS, RingIndexTheorems

\* The longest step is a step, and the time of the loop is less than a tick.
LEMMA Times ==
  /\ MaxStep \in Nat /\ MaxStep > 0 /\ HandlerTime \in Nat /\ HandlerTime > 0
  /\ Reload \in Nat /\ 5 * MaxStep + HandlerTime < Reload
  /\ LoopTime = 5 * MaxStep + HandlerTime
  /\ \A t \in StepTimes : t \in Nat /\ t > 0 /\ t <= MaxStep
<1>1. \E t \in StepTimes : \A u \in StepTimes : u <= t
  BY TickAssumption
<1>2. MaxStep \in StepTimes /\ \A u \in StepTimes : u <= MaxStep
  BY <1>1, Zenon DEF MaxStep
<1>3. QED
  BY <1>2, TickAssumption DEF LoopTime

\* The products of ProcessorLoad without their moduli.
LEMMA WordIsWide ==
  /\ WordMod \in Nat /\ WordMod > 0 /\ Reload \in Nat /\ Reload > 0
  /\ NsPerStep \in Nat /\ TickNs \in Nat /\ TickNs > 0
  /\ NsPerStep * Reload = 2 * TickNs /\ 100 * (NsPerStep * Reload) < WordMod
<1>1. Reload \in Nat /\ Reload > 0
  BY Times
<1>2. NsPerStep * Reload > 0
  BY <1>1, LoadAssumption
<1>3. QED
  BY <1>1, <1>2, LoadAssumption

LEMMA InWord == ASSUME NEW x \in Nat, x < WordMod PROVE x % WordMod = x
BY WordIsWide

\* Whatever the two reads, the load is a number of its width.
LEMMA LoadTypes ==
  ASSUME NEW start \in Nat, NEW stop \in Nat
  PROVE  /\ ElapsedNs(start, stop) \in 0 .. WordMod - 1
         /\ \A ns \in 0 .. WordMod - 1 : Percentage(ns) \in Nat
<1>1. (start - stop) % WordMod \in Nat
  BY WordIsWide
<1>2. PICK steps \in Nat : steps = ((start - stop) % WordMod) * NsPerStep
  BY <1>1, WordIsWide
<1>3. steps % WordMod \in 0 .. WordMod - 1
  BY WordIsWide
<1>4. ASSUME NEW ns \in 0 .. WordMod - 1 PROVE Percentage(ns) \in Nat
  <2>1. (ns * 100) % WordMod \in Nat
    BY WordIsWide
  <2>2. QED
    BY <2>1, WordIsWide DEF Percentage
<1>5. QED
  BY <1>2, <1>3, <1>4 DEF ElapsedNs

\* For reads with no tick in between: the steps between them, by what one is taken
\* for, and twice their share of the tick.
LEMMA LoadOfSteps ==
  ASSUME NEW start \in 0..Reload, NEW stop \in 0..Reload, stop <= start,
         NEW k \in Nat, k = start - stop
  PROVE  /\ ElapsedNs(start, stop) = NsPerStep * k
         /\ Percentage(NsPerStep * k) = (200 * k) \div Reload
<1>1. k <= Reload /\ Reload \in Nat /\ Reload > 0
  BY WordIsWide
<1>2. PICK ns \in Nat : ns = NsPerStep * k
  BY WordIsWide
<1>3. PICK whole \in Nat : whole = NsPerStep * Reload
  BY WordIsWide
<1>4. ns <= whole
  <2>1. PICK m \in Nat : Reload = k + m
    BY <1>1, Reload - k \in Nat
  <2>2. NsPerStep * Reload = NsPerStep * k + NsPerStep * m /\ NsPerStep * m >= 0
    BY <2>1, WordIsWide
  <2>3. QED
    BY <1>2, <1>3, <2>2, WordIsWide
<1>5. ns * 100 < WordMod /\ ns < WordMod
  BY <1>3, <1>4, WordIsWide
<1>6. k < WordMod
  <2>1. Reload <= whole
    BY <1>1, <1>3, LoadAssumption
  <2>2. QED
    BY <1>1, <1>3, <2>1, WordIsWide
<1>7. ElapsedNs(start, stop) = ns
  <2>1. (start - stop) % WordMod = k
    BY <1>6, InWord
  <2>2. k * NsPerStep = ns
    BY <1>2, WordIsWide
  <2>3. QED
    BY <1>5, <2>1, <2>2, InWord DEF ElapsedNs
<1>8. Percentage(ns) = (ns * 100) \div TickNs
  BY <1>5, InWord DEF Percentage
<1>9. (ns * 100) \div TickNs = (200 * k) \div Reload
  <2>1. (100 * ns) * Reload = (200 * k) * TickNs
    BY <1>1, <1>2, WordIsWide
  <2>2. QED
    BY <1>1, <2>1, SameQuotient, WordIsWide
<1>10. QED
  BY <1>2, <1>7, <1>8, <1>9

\* The counter after n, without the modulus.
After(n) == IF n + 1 = CounterMod THEN 0 ELSE n + 1

LEMMA AfterIs ==
  ASSUME NEW n \in 0 .. CounterMod - 1
  PROVE  /\ (n + 1) % CounterMod = After(n)
         /\ After(n) \in 0 .. CounterMod - 1 /\ After(n) # n
<1>1. CounterMod \in Nat /\ CounterMod > 1
  BY TickAssumption
<1>2. CASE n + 1 = CounterMod
  BY <1>1, <1>2 DEF After
<1>3. CASE n + 1 < CounterMod
  BY <1>1, <1>3 DEF After
<1>4. QED
  BY <1>1, <1>2, <1>3

\* The ways a step of length t can leave the timer: with no tick, or with one.
NoTick(t) == cvr' = cvr - t /\ cvr > t /\ currTicksCounter' = currTicksCounter
Tick(t)   == /\ cvr <= t /\ cvr' = cvr - t - HandlerTime + Reload + 1
             /\ currTicksCounter' = After(currTicksCounter)

LEMMA ElapseIs ==
  ASSUME TypeOK, NEW t \in StepTimes, NEW ticks \in Nat, Elapse(t, ticks)
  PROVE  /\ cvr' \in 1..Reload /\ currTicksCounter' \in 0 .. CounterMod - 1
         /\ \/ NoTick(t) /\ since' = ticks
            \/ Tick(t) /\ since' = ticks + 1
<1>1. cvr \in 1..Reload /\ currTicksCounter \in 0 .. CounterMod - 1
  BY DEF TypeOK
<1>2. CASE cvr > t
  BY <1>1, <1>2, Times DEF Elapse, NoTick
<1>3. CASE ~(cvr > t)
  <2>1. /\ cvr' = cvr - t - HandlerTime + Reload + 1
        /\ since' = ticks + 1
        /\ currTicksCounter' = (currTicksCounter + 1) % CounterMod
    BY <1>3 DEF Elapse, SysTick_Handler
  <2>2. t \in Nat /\ cvr <= t
    BY <1>1, <1>3, Times
  <2>3. QED
    BY <1>1, <2>1, <2>2, AfterIs, Times DEF Tick
<1>4. QED
  BY <1>2, <1>3

-----------------------------------------------------------------------------
(* Types                                                                   *)

LEMMA InitTypes == Init => TypeOK
<1>1. WordMod \in Nat /\ WordMod > 0
  BY WordIsWide
<1>2. QED
  BY <1>1, Times, TickAssumption DEF Init, TypeOK

\* What of TypeOK the timer's side of a step keeps.
TimerOK ==
  /\ cvr \in 1..Reload /\ currTicksCounter \in 0 .. CounterMod - 1 /\ since \in Nat

LEMMA ElapseTypes ==
  ASSUME TypeOK, NEW t \in StepTimes, Elapse(t, 0) \/ Elapse(t, since)
  PROVE  TimerOK'
<1>1. since \in Nat
  BY DEF TypeOK
<1>2. QED
  BY <1>1, ElapseIs DEF TimerOK

LEMMA NextTypes == TypeOK /\ [Next]_vars => TypeOK'
<1> SUFFICES ASSUME TypeOK, [Next]_vars PROVE TypeOK'
  OBVIOUS
<1>1. ASSUME NEW t \in StepTimes, TestCounters(t) PROVE TypeOK'
  <2>1. TimerOK'
    BY <1>1, ElapseTypes DEF TestCounters
  <2>2. QED
    BY <1>1, <2>1 DEF TestCounters, TypeOK, TimerOK, load
<1>2. ASSUME NEW t \in StepTimes, Mark(t) PROVE TypeOK'
  <2>1. TimerOK'
    BY <1>2, ElapseTypes DEF Mark
  <2>2. MaxTask \in Nat
    BY TickAssumption
  <2>3. QED
    BY <1>2, <2>1, <2>2 DEF Mark, TypeOK, TimerOK, load
<1>3. ASSUME NEW t \in StepTimes, PeriodTest(t) PROVE TypeOK'
  <2>1. TimerOK'
    BY <1>3, ElapseTypes DEF PeriodTest
  <2>2. QED
    BY <1>3, <2>1 DEF PeriodTest, TypeOK, TimerOK, load
<1>4. ASSUME NEW t \in StepTimes, TimeStart(t) PROVE TypeOK'
  <2>1. TimerOK'
    BY <1>4, ElapseTypes DEF TimeStart
  <2>2. took' \in Nat
    BY <1>4, Times DEF TimeStart
  <2>3. QED
    BY <1>4, <2>1, <2>2 DEF TimeStart, TypeOK, TimerOK
<1>5. ASSUME NEW t \in StepTimes, mainTask(t) PROVE TypeOK'
  <2>1. TimerOK'
    BY <1>5, ElapseTypes DEF mainTask, ElapseInTask
  <2>2. took \in Nat /\ spent \in 0..MaxTask /\ MaxTask \in Nat
    BY TickAssumption DEF TypeOK
  <2>3. took' \in Nat /\ spent' \in 0..MaxTask
    BY <1>5, <2>2, Times DEF mainTask, ElapseInTask
  <2>4. pc' \in {"task", "check", "stop"}
    BY <1>5 DEF mainTask
  <2>5. QED
    BY <1>5, <2>1, <2>3, <2>4 DEF mainTask, TypeOK, TimerOK, load
<1>6. ASSUME NEW t \in StepTimes, TimeStop(t) PROVE TypeOK'
  <2>1. TimerOK'
    BY <1>6, ElapseTypes DEF TimeStop
  <2>2. taskStart \in Nat /\ cvr \in Nat /\ Reload \in Nat
    BY Times DEF TypeOK
  <2>3. /\ timeElapsedNs' \in 0 .. WordMod - 1 /\ precentageLoad' \in Nat
        /\ taskStart' \in 0..Reload
    BY <1>6, <2>2, LoadTypes DEF TimeStop
  <2>4. QED
    BY <1>6, <2>1, <2>3 DEF TimeStop, TypeOK, TimerOK
<1>7. ASSUME NEW t \in StepTimes, CheckCounters(t) PROVE TypeOK'
  <2>1. CASE Resets
    <3>1. Start /\ UNCHANGED program
      BY <1>7, <2>1 DEF CheckCounters, Resets
    <3>2. /\ MaxTask \in Nat /\ CounterMod \in Nat /\ CounterMod > 0
          /\ WordMod \in Nat /\ WordMod > 0
      BY WordIsWide, TickAssumption
    <3>3. QED
      BY <3>1, <3>2, Times DEF Start, TypeOK
  <2>2. CASE ~Resets
    <3>1. /\ Elapse(t, since) /\ pc' = "test"
          /\ UNCHANGED <<program, prevTicksCounter, load, spent, took>>
      BY <1>7, <2>2 DEF CheckCounters, Resets
    <3>2. TimerOK'
      BY <3>1, ElapseTypes
    <3>3. QED
      BY <3>1, <3>2 DEF TypeOK, TimerOK, load
  <2>3. QED
    BY <2>1, <2>2
<1>8. CASE UNCHANGED vars
  BY <1>8 DEF vars, counters, load, history, TypeOK
<1>9. QED
  BY <1>1, <1>2, <1>3, <1>4, <1>5, <1>6, <1>7, <1>8 DEF Next

\* SYST_CVR stays between 1 and Reload whenever main looks at it, the counter
\* inside its width.
THEOREM Typing == Spec => []TypeOK
BY InitTypes, NextTypes, PTL DEF Spec

-----------------------------------------------------------------------------
(* Ticks are seen in time                                                  *)

\* The time since the tick that the loop has seen, by where the loop is; or, from
\* the task on, the task has left no time for the loop before the next one.
SeenInTime ==
  /\ pc = "test" /\ currTicksCounter # prevTicksCounter =>
       /\ currTicksCounter = After(prevTicksCounter)
       /\ Reload - cvr < HandlerTime + MaxStep
  /\ pc = "mark" =>
       /\ currTicksCounter = After(prevTicksCounter)
       /\ Reload - cvr < HandlerTime + 2 * MaxStep
  /\ pc \in {"period", "start"} =>
       /\ currTicksCounter = prevTicksCounter /\ spent = 0
       /\ Reload - cvr < HandlerTime + 3 * MaxStep
  /\ pc \in {"task", "stop"} =>
       \/ /\ currTicksCounter = prevTicksCounter
          /\ Reload - cvr < HandlerTime + 4 * MaxStep + spent
       \/ Reload < HandlerTime + 4 * MaxStep + spent
  /\ pc = "check" =>
       \/ currTicksCounter = prevTicksCounter
       \/ Reload < HandlerTime + 5 * MaxStep + spent

TimeInv == TypeOK /\ SeenInTime

\* What the steps below use of the timer's types.
LEMMA StepIs ==
  ASSUME TypeOK, NEW t \in StepTimes, Elapse(t, 0) \/ Elapse(t, since)
  PROVE  /\ t \in Nat /\ t > 0 /\ t <= MaxStep
         /\ cvr \in Nat /\ cvr > 0 /\ cvr <= Reload
         /\ spent \in Nat
         /\ NoTick(t) \/ Tick(t)
<1>1. since \in Nat /\ spent \in Nat
  <2>1. MaxTask \in Nat
    BY TickAssumption
  <2>2. QED
    BY <2>1 DEF TypeOK
<1>2. NoTick(t) \/ Tick(t)
  BY <1>1, ElapseIs
<1>3. cvr \in 1..Reload
  BY DEF TypeOK
<1>4. QED
  BY <1>1, <1>2, <1>3, Times

LEMMA InitInTime == Init => SeenInTime
BY DEF Init, SeenInTime

LEMMA NextInTime == TimeInv /\ [Next]_vars => SeenInTime'
<1> SUFFICES ASSUME TypeOK, SeenInTime, [Next]_vars PROVE SeenInTime'
  BY DEF TimeInv
<1>1. ASSUME NEW t \in StepTimes, TestCounters(t) PROVE SeenInTime'
  BY <1>1, StepIs, Times DEF TestCounters, SeenInTime, NoTick, Tick
<1>2. ASSUME NEW t \in StepTimes, Mark(t) PROVE SeenInTime'
  BY <1>2, StepIs, Times DEF Mark, SeenInTime, NoTick, Tick
<1>3. ASSUME NEW t \in StepTimes, PeriodTest(t) PROVE SeenInTime'
  BY <1>3, StepIs, Times DEF PeriodTest, SeenInTime, NoTick, Tick
<1>4. ASSUME NEW t \in StepTimes, TimeStart(t) PROVE SeenInTime'
  BY <1>4, StepIs, Times DEF TimeStart, SeenInTime, NoTick, Tick
<1>5. ASSUME NEW t \in StepTimes, mainTask(t) PROVE SeenInTime'
  BY <1>5, StepIs, Times DEF mainTask, ElapseInTask, SeenInTime, NoTick, Tick
<1>6. ASSUME NEW t \in StepTimes, TimeStop(t) PROVE SeenInTime'
  BY <1>6, StepIs, Times DEF TimeStop, SeenInTime, NoTick, Tick
<1>7. ASSUME NEW t \in StepTimes, CheckCounters(t) PROVE SeenInTime'
  BY <1>7, StepIs, Times DEF CheckCounters, Start, SeenInTime, NoTick, Tick
<1>8. CASE UNCHANGED vars
  BY <1>8 DEF vars, counters, load, history, SeenInTime
<1>9. QED
  BY <1>1, <1>2, <1>3, <1>4, <1>5, <1>6, <1>7, <1>8 DEF Next

LEMMA TimeInvariant == Spec => []TimeInv
<1>1. Init => TimeInv
  BY InitTypes, InitInTime DEF TimeInv
<1>2. TimeInv /\ [Next]_vars => TimeInv'
  BY NextTypes, NextInTime DEF TimeInv
<1>3. QED
  BY <1>1, <1>2, PTL DEF Spec

\* Whatever the steps, the handler and the task take, and wherever a tick falls,
\* the processor is reset only if the task leaves the loop no time.
THEOREM ResetOnlyOnOverrun == Spec => []ResetMeansOverrun
<1>1. TimeInv => ResetMeansOverrun
  <2>1. TimeInv => spent \in Nat
    BY TickAssumption DEF TimeInv, TypeOK
  <2>2. QED
    BY <2>1, Times DEF TimeInv, SeenInTime, ResetMeansOverrun, Resets
<1>2. QED
  BY <1>1, TimeInvariant, PTL

\* The loop sees every tick one by one, or resets.
EveryTickIsSeen ==
  [][prevTicksCounter' # prevTicksCounter /\ ~Resets
       => prevTicksCounter' = (prevTicksCounter + 1) % CounterMod]_vars

\* The loop notes every tick, one by one, also when the counter overflows.
THEOREM TicksAreSeen == Spec => EveryTickIsSeen
<1>1. ASSUME TimeInv, [Next]_vars, prevTicksCounter' # prevTicksCounter, ~Resets
      PROVE  prevTicksCounter' = (prevTicksCounter + 1) % CounterMod
  <2>1. ASSUME NEW t \in StepTimes, Mark(t)
        PROVE  prevTicksCounter' = (prevTicksCounter + 1) % CounterMod
    <3>1. prevTicksCounter' = After(prevTicksCounter)
      BY <1>1, <2>1 DEF Mark, TimeInv, SeenInTime
    <3>2. prevTicksCounter \in 0 .. CounterMod - 1
      BY <1>1 DEF TimeInv, TypeOK
    <3>3. QED
      BY <3>1, <3>2, AfterIs
  <2>2. \E t \in StepTimes : Mark(t)
    BY <1>1 DEF Next, TestCounters, PeriodTest, TimeStart, mainTask, TimeStop,
                CheckCounters, Resets, vars, counters
  <2>3. QED
    BY <2>1, <2>2
<1>2. TimeInv /\ [Next]_vars =>
        [prevTicksCounter' # prevTicksCounter /\ ~Resets
           => prevTicksCounter' = (prevTicksCounter + 1) % CounterMod]_vars
  BY <1>1
<1>3. QED
  BY <1>2, TimeInvariant, PTL DEF Spec, EveryTickIsSeen

-----------------------------------------------------------------------------
(* What goes on is right: for a counter that no task can make overflow     *)

\* since ticks have moved the counter from where the loop saw it.
Counted ==
  /\ since < CounterMod
  /\ currTicksCounter = IF prevTicksCounter + since < CounterMod
                        THEN prevTicksCounter + since
                        ELSE prevTicksCounter + since - CounterMod

\* The load is that of k steps.
LoadOf(k) == timeElapsedNs = NsPerStep * k /\ precentageLoad = (200 * k) \div Reload

\* From the task to the check the ticks that came are counted in full, and as
\* long as there are none SYST_CVR tells the time; so what passes the check is
\* right, and stays so until the next round.
LoadInv ==
  /\ pc = "test" =>
       /\ spent <= Reload
       /\ program = "ProcessorLoad" => LoadOf(took)
  /\ pc = "period" => program = "SysTick"
  /\ pc \in {"task", "stop"} =>
       /\ since <= spent /\ Counted
       /\ since = 0 =>
            /\ spent <= Reload - cvr
            /\ program = "ProcessorLoad" => took = taskStart - cvr
  /\ pc = "check" =>
       \/ program = "SysTick" /\ spent = 0
       \/ /\ since <= spent + 1 /\ Counted
          /\ since = 0 =>
               /\ spent <= Reload
               /\ program = "ProcessorLoad" => LoadOf(took)

LEMMA NoLoad == NsPerStep * 0 = 0 /\ (200 * 0) \div Reload = 0
BY WordIsWide

LEMMA InitLoad == Init => LoadInv
<1>1. Init => LoadOf(took)
  BY NoLoad DEF Init, LoadOf
<1>2. QED
  BY <1>1, Times DEF Init, LoadInv

LEMMA NextLoad ==
  ASSUME MaxTask + 2 < CounterMod, TimeInv, LoadInv, [Next]_vars
  PROVE  LoadInv'
<1>0. /\ TypeOK /\ SeenInTime
      /\ CounterMod \in Nat /\ MaxTask \in Nat
      /\ since \in Nat /\ took \in Nat /\ taskStart \in Nat
      /\ taskStart <= Reload
      /\ currTicksCounter \in Nat /\ currTicksCounter < CounterMod
      /\ prevTicksCounter \in Nat /\ prevTicksCounter < CounterMod
      /\ spent \in Nat /\ spent <= MaxTask
  BY TickAssumption DEF TimeInv, TypeOK
<1>1. ASSUME NEW t \in StepTimes, TestCounters(t) PROVE LoadInv'
  BY <1>1 DEF TestCounters, LoadInv, LoadOf, load
<1>2. ASSUME NEW t \in StepTimes, Mark(t) PROVE LoadInv'
  BY <1>2 DEF Mark, LoadInv
<1>3. ASSUME NEW t \in StepTimes, PeriodTest(t) PROVE LoadInv'
  <2>1. NoTick(t) /\ (pc' = "task" => since' = 0)
    BY <1>0, <1>3, StepIs, ElapseIs, Times
       DEF PeriodTest, SeenInTime, NoTick, Tick
  <2>2. QED
    BY <1>0, <1>3, <2>1, StepIs, Times
       DEF PeriodTest, SeenInTime, LoadInv, Counted, NoTick
<1>4. ASSUME NEW t \in StepTimes, TimeStart(t) PROVE LoadInv'
  <2>1. NoTick(t) /\ since' = 0
    BY <1>0, <1>4, StepIs, ElapseIs, Times
       DEF TimeStart, SeenInTime, NoTick, Tick
  <2>2. QED
    BY <1>0, <1>4, <2>1, StepIs, Times
       DEF TimeStart, SeenInTime, LoadInv, Counted, NoTick
<1>5. ASSUME NEW t \in StepTimes, mainTask(t) PROVE LoadInv'
  <2>1. \/ NoTick(t) /\ since' = since
        \/ Tick(t) /\ since' = since + 1
    BY <1>0, <1>5, ElapseIs DEF mainTask, ElapseInTask
  <2>2. QED
    BY <1>0, <1>5, <2>1, StepIs, Times
       DEF mainTask, ElapseInTask, LoadInv, Counted, NoTick, Tick, After, load
<1>6. ASSUME NEW t \in StepTimes, TimeStop(t) PROVE LoadInv'
  <2>1. \/ NoTick(t) /\ since' = since
        \/ Tick(t) /\ since' = since + 1
    BY <1>0, <1>6, ElapseIs DEF TimeStop
  <2>2. since = 0 => (program = "ProcessorLoad" => LoadOf(took)')
    <3>1. SUFFICES ASSUME since = 0, program = "ProcessorLoad" PROVE LoadOf(took)'
      OBVIOUS
    <3>2. took = taskStart - cvr /\ cvr \in 0..Reload /\ taskStart \in 0..Reload
      BY <1>0, <1>6, <3>1 DEF TimeStop, LoadInv, TypeOK
    <3>3. /\ ElapsedNs(taskStart, cvr) = NsPerStep * took
          /\ Percentage(NsPerStep * took) = (200 * took) \div Reload
      BY <1>0, <3>2, LoadOfSteps, Times
    <3>4. QED
      BY <1>6, <3>3 DEF TimeStop, LoadOf
  <2>3. QED
    BY <1>0, <1>6, <2>1, <2>2, StepIs, Times
       DEF TimeStop, LoadInv, Counted, NoTick, Tick, After
<1>7. ASSUME NEW t \in StepTimes, CheckCounters(t) PROVE LoadInv'
  <2>1. CASE Resets
    <3>1. LoadOf(took)'
      BY <1>7, <2>1, NoLoad DEF CheckCounters, Resets, Start, LoadOf
    <3>2. QED
      BY <1>7, <2>1, <3>1, Times DEF CheckCounters, Resets, Start, LoadInv
  <2>2. CASE ~Resets
    <3>1. LoadOf(took)' = LoadOf(took)
      BY <1>7, <2>2 DEF CheckCounters, Resets, LoadOf, load
    <3>2. QED
      BY <1>0, <1>7, <2>2, <3>1, Times DEF CheckCounters, Resets, LoadInv, Counted
  <2>3. QED
    BY <2>1, <2>2
<1>8. CASE UNCHANGED vars
  BY <1>8 DEF vars, counters, load, history, LoadInv, LoadOf, Counted
<1>9. QED
  BY <1>1, <1>2, <1>3, <1>4, <1>5, <1>6, <1>7, <1>8 DEF Next

LEMMA LoadInvariant ==
  ASSUME MaxTask + 2 < CounterMod
  PROVE  Spec => []LoadInv
<1>1. TimeInv /\ LoadInv /\ [Next]_vars => LoadInv'
  BY NextLoad
<1>2. QED
  BY <1>1, InitLoad, TimeInvariant, PTL DEF Spec

\* No task that overran a tick goes unnoticed, if it cannot take so long that the
\* counter comes back to where it was.
THEOREM OverrunResets ==
  ASSUME MaxTask + 2 < CounterMod
  PROVE  Spec => []OverrunMeansReset
<1>1. LoadInv => OverrunMeansReset
  BY DEF LoadInv, OverrunMeansReset
<1>2. QED
  BY <1>1, LoadInvariant, PTL

\* Under the same condition the load that ProcessorLoad goes on with is exactly that
\* of the steps its two reads of SYST_CVR are apart, although that wraps and the
\* products have a width; and that load is twice the share of the tick.
THEOREM LoadIsDoubled ==
  ASSUME MaxTask + 2 < CounterMod
  PROVE  Spec => []LoadIsTwiceTheShare
<1>1. LoadInv => LoadIsTwiceTheShare
  BY DEF LoadInv, LoadOf, LoadIsTwiceTheShare
<1>2. QED
  BY <1>1, LoadInvariant, PTL

-----------------------------------------------------------------------------
(* How many ticks lie between two tasks                                    *)

\* The ticks since the last task when the loop has seen n.
Phase(n) == IF program = "SysTick" THEN n % Period ELSE 0

\* The same where SysTick tests for the period: Gap if a task is due.
AtTest(n) == IF n % Period = 0
             THEN IF n = 0 /\ CounterMod % Period # 0 THEN CounterMod % Period ELSE Period
             ELSE n % Period

PhaseInv ==
  /\ program \in {"SysTick", "ProcessorLoad"}
  /\ pc = "test" =>
       since = IF currTicksCounter = prevTicksCounter
               THEN Phase(prevTicksCounter) ELSE Phase(prevTicksCounter) + 1
  /\ pc = "mark" => since = Phase(prevTicksCounter) + 1
  /\ pc = "period" => program = "SysTick" /\ since = AtTest(currTicksCounter)
  /\ pc = "start" => program = "ProcessorLoad" /\ since = 1
  /\ pc = "task" => Phase(prevTicksCounter) = 0
  /\ pc = "stop" => program = "ProcessorLoad"
  /\ pc = "check" /\ currTicksCounter = prevTicksCounter =>
       since = Phase(prevTicksCounter)

\* A tick more, the overflow of the counter included.
LEMMA OneTickMore ==
  ASSUME NEW n \in 0 .. CounterMod - 1
  PROVE  /\ n % Period \in Nat /\ 0 % Period = 0
         /\ (n % Period) + 1 = AtTest(After(n))
<1>1. Period \in Nat /\ Period > 0 /\ CounterMod \in Nat /\ n \in Nat
  BY TickAssumption
<1>2. /\ n % Period \in 0 .. Period - 1
      /\ (n + 1) % Period = IF n % Period = Period - 1 THEN 0 ELSE (n % Period) + 1
  BY <1>1, ModStep
<1>3. 0 % Period = 0
  BY <1>1
<1>4. CASE n + 1 = CounterMod
  <2>1. After(n) = 0
    BY <1>4 DEF After
  <2>2. CounterMod % Period = IF n % Period = Period - 1 THEN 0 ELSE (n % Period) + 1
    BY <1>2, <1>4
  <2>3. QED
    BY <1>1, <1>2, <1>3, <2>1, <2>2 DEF AtTest
<1>5. CASE n + 1 # CounterMod
  <2>1. After(n) = n + 1 /\ n + 1 # 0
    BY <1>1, <1>5 DEF After
  <2>2. QED
    BY <1>1, <1>2, <1>3, <2>1 DEF AtTest
<1>6. QED
  BY <1>2, <1>3, <1>4, <1>5

\* Fewer ticks than the counter counts leave it where it was only if there are none.
LEMMA ComesRound ==
  ASSUME NEW m \in Nat, NEW p \in Nat, NEW s \in Nat, s < m,
         p = IF p + s < m THEN p + s ELSE p + s - m
  PROVE  s = 0
OBVIOUS

LEMMA InitPhase == Init => PhaseInv
<1>1. 0 \in 0 .. CounterMod - 1
  BY TickAssumption
<1>2. 0 % Period = 0
  BY <1>1, OneTickMore
<1>3. QED
  BY <1>2, TickAssumption DEF Init, PhaseInv, Phase

LEMMA NextPhase ==
  ASSUME MaxTask + 2 < CounterMod, TimeInv, LoadInv, PhaseInv, [Next]_vars
  PROVE  PhaseInv'
<1>0. /\ TypeOK /\ SeenInTime /\ LoadInv'
      /\ since \in Nat
      /\ currTicksCounter \in 0 .. CounterMod - 1
      /\ prevTicksCounter \in 0 .. CounterMod - 1
  BY NextLoad DEF TimeInv, TypeOK
<1>1. /\ Phase(prevTicksCounter) \in Nat
      /\ Phase(prevTicksCounter) + 1
           = IF program = "SysTick" THEN AtTest(After(prevTicksCounter)) ELSE 1
  BY <1>0, OneTickMore DEF Phase
<1>2. ASSUME NEW t \in StepTimes, TestCounters(t) PROVE PhaseInv'
  <2>1. \/ NoTick(t) /\ since' = since
        \/ Tick(t) /\ since' = since + 1
    BY <1>0, <1>2, ElapseIs DEF TestCounters
  <2>2. Phase(prevTicksCounter)' = Phase(prevTicksCounter)
        /\ prevTicksCounter' = prevTicksCounter /\ program' = program
    BY <1>2 DEF TestCounters, Phase
  <2>3. CASE currTicksCounter = prevTicksCounter
    <3>1. After(currTicksCounter) # prevTicksCounter
      BY <1>0, <2>3, AfterIs
    <3>2. QED
      BY <1>0, <1>1, <1>2, <2>1, <2>2, <2>3, <3>1 DEF TestCounters, PhaseInv, NoTick, Tick
  <2>4. CASE currTicksCounter # prevTicksCounter
    <3>1. NoTick(t)
      BY <1>0, <1>2, <2>1, <2>4, StepIs, Times DEF TestCounters, SeenInTime, NoTick, Tick
    <3>2. ~Tick(t)
      BY <1>0, <1>2, <3>1, StepIs DEF TestCounters, NoTick, Tick
    <3>3. since' = since /\ pc' = "mark" /\ pc = "test"
      BY <1>2, <2>1, <2>4, <3>2 DEF TestCounters
    <3>4. currTicksCounter' = currTicksCounter
      BY <3>1 DEF NoTick
    <3>5. QED
      BY <2>2, <2>4, <3>3, <3>4 DEF PhaseInv
  <2>5. QED
    BY <2>3, <2>4
<1>3. ASSUME NEW t \in StepTimes, Mark(t) PROVE PhaseInv'
  <2>1. NoTick(t) /\ since' = since
    BY <1>0, <1>3, ElapseIs, StepIs, Times DEF Mark, SeenInTime, NoTick, Tick
  <2>2. /\ currTicksCounter' = currTicksCounter
        /\ currTicksCounter = After(prevTicksCounter)
        /\ since = Phase(prevTicksCounter) + 1
        /\ program' = program
        /\ pc' = IF program = "SysTick" THEN "period" ELSE "start"
    BY <1>0, <1>3, <2>1 DEF Mark, SeenInTime, PhaseInv, NoTick
  <2>3. AtTest(currTicksCounter)' = AtTest(currTicksCounter)
    BY <2>2 DEF AtTest
  <2>4. QED
    BY <1>1, <2>1, <2>2, <2>3 DEF PhaseInv
<1>4. ASSUME NEW t \in StepTimes, PeriodTest(t) PROVE PhaseInv'
  <2>1. NoTick(t) /\ currTicksCounter = prevTicksCounter
        /\ since' = IF currTicksCounter % Period = 0 THEN 0 ELSE since
    BY <1>0, <1>4, ElapseIs, StepIs, Times DEF PeriodTest, SeenInTime, NoTick, Tick
  <2>2. /\ program = "SysTick" /\ since = AtTest(currTicksCounter)
        /\ UNCHANGED <<program, prevTicksCounter, currTicksCounter>>
        /\ pc' = IF currTicksCounter % Period = 0 THEN "task" ELSE "check"
    BY <1>4, <2>1 DEF PeriodTest, PhaseInv, NoTick
  <2>3. Phase(prevTicksCounter)' = currTicksCounter % Period
    BY <2>1, <2>2 DEF Phase
  <2>4. QED
    BY <2>1, <2>2, <2>3 DEF PhaseInv, AtTest
<1>5. ASSUME NEW t \in StepTimes, TimeStart(t) PROVE PhaseInv'
  BY <1>5 DEF TimeStart, PhaseInv, Phase
<1>6. ASSUME NEW t \in StepTimes, mainTask(t) PROVE PhaseInv'
  <2>1. /\ pc = "task" /\ Phase(prevTicksCounter) = 0
        /\ pc' \in {"task", IF program = "SysTick" THEN "check" ELSE "stop"}
        /\ UNCHANGED <<program, prevTicksCounter>> /\ spent' = spent + t
    BY <1>6 DEF mainTask, PhaseInv
  <2>2. Phase(prevTicksCounter)' = 0
    BY <2>1 DEF Phase
  <2>3. pc' = "check" /\ currTicksCounter' = prevTicksCounter' => since' = 0
    <3>1. spent' # 0
      BY <1>0, <1>6, <2>1, StepIs DEF mainTask, ElapseInTask
    <3>2. pc' = "check" => Counted'
      BY <1>0, <3>1 DEF LoadInv
    <3>3. since' \in Nat /\ prevTicksCounter' \in Nat /\ CounterMod \in Nat
      BY <1>0, NextTypes, TickAssumption DEF TypeOK
    <3>4. QED
      BY <3>2, <3>3, ComesRound DEF Counted
  <2>4. QED
    BY <2>1, <2>2, <2>3 DEF PhaseInv
<1>7. ASSUME NEW t \in StepTimes, TimeStop(t) PROVE PhaseInv'
  <2>1. /\ pc' = "check" /\ program = "ProcessorLoad"
        /\ UNCHANGED <<program, prevTicksCounter>>
    BY <1>7 DEF TimeStop, PhaseInv
  <2>2. Phase(prevTicksCounter)' = 0
    BY <2>1 DEF Phase
  <2>3. currTicksCounter' = prevTicksCounter' => since' = 0
    <3>1. Counted'
      BY <1>0, <2>1 DEF LoadInv
    <3>2. since' \in Nat /\ prevTicksCounter' \in Nat /\ CounterMod \in Nat
      BY <1>0, NextTypes, TickAssumption DEF TypeOK
    <3>3. QED
      BY <3>1, <3>2, ComesRound DEF Counted
  <2>4. QED
    BY <2>1, <2>2, <2>3 DEF PhaseInv
<1>8. ASSUME NEW t \in StepTimes, CheckCounters(t) PROVE PhaseInv'
  <2>1. CASE Resets
    <3>1. /\ pc' = "test" /\ since' = 0 /\ program' = program
          /\ currTicksCounter' = 0 /\ prevTicksCounter' = 0
      BY <1>8, <2>1 DEF CheckCounters, Start, Resets
    <3>2. 0 % Period = 0
      BY <1>0, OneTickMore
    <3>3. QED
      BY <3>1, <3>2 DEF PhaseInv, Phase
  <2>2. CASE ~Resets
    <3>1. /\ currTicksCounter = prevTicksCounter /\ pc = "check" /\ pc' = "test"
          /\ Elapse(t, since) /\ UNCHANGED <<program, prevTicksCounter>>
      BY <1>8, <2>2 DEF CheckCounters, Resets
    <3>2. \/ NoTick(t) /\ since' = since
          \/ Tick(t) /\ since' = since + 1
      BY <1>0, <3>1, ElapseIs
    <3>3. After(currTicksCounter) # prevTicksCounter
      BY <1>0, <3>1, AfterIs
    <3>4. Phase(prevTicksCounter)' = Phase(prevTicksCounter)
      BY <3>1 DEF Phase
    <3>5. QED
      BY <3>1, <3>2, <3>3, <3>4 DEF PhaseInv, NoTick, Tick
  <2>3. QED
    BY <2>1, <2>2
<1>9. CASE UNCHANGED vars
  BY <1>9 DEF vars, counters, load, history, PhaseInv, Phase, AtTest
<1>10. QED
  BY <1>2, <1>3, <1>4, <1>5, <1>6, <1>7, <1>8, <1>9 DEF Next

\* SysTick runs its task every Period ticks, and once early when the counter
\* overflows; ProcessorLoad runs it at every tick; for tasks that cannot take so long
\* that the counter comes round.
THEOREM TasksKeepThePeriod ==
  ASSUME MaxTask + 2 < CounterMod
  PROVE  Spec => TasksArePeriodic
<1>1. TimeInv /\ LoadInv /\ PhaseInv /\ [Next]_vars => PhaseInv'
  BY NextPhase
<1>2. ASSUME PhaseInv, [Next]_vars, pc' = "task", pc \in {"period", "start"}
      PROVE  since = Gap
  <2>1. CASE pc = "start"
    BY <1>2, <2>1 DEF PhaseInv, Gap
  <2>2. CASE pc = "period"
    <3>1. \E t \in StepTimes : PeriodTest(t)
      BY <1>2, <2>2 DEF Next, TestCounters, Mark, TimeStart, mainTask, TimeStop,
                        CheckCounters, vars
    <3>2. currTicksCounter % Period = 0
      BY <1>2, <3>1 DEF PeriodTest
    <3>3. QED
      BY <1>2, <2>2, <3>2 DEF PhaseInv, AtTest, Gap
  <2>3. QED
    BY <1>2, <2>1, <2>2
<1>3. PhaseInv /\ [Next]_vars =>
        [pc' = "task" /\ pc \in {"period", "start"} => since = Gap]_vars
  BY <1>2
<1>4. QED
  BY <1>1, <1>3, InitPhase, TimeInvariant, LoadInvariant, PTL DEF Spec, TasksArePeriodic

-----------------------------------------------------------------------------
(* How late a task can be                                                  *)

\* Before a task is due fewer ticks have come than make it so.
LEMMA NotDueYet ==
  ASSUME TypeOK, program = "SysTick", NEW n \in 0 .. CounterMod - 1, currTicksCounter = n
  PROVE  n % Period < Gap /\ AtTest(n) <= Gap
<1>1. Period \in Nat /\ Period > 0 /\ CounterMod \in Nat /\ n \in Nat
  BY TickAssumption
<1>2. n % Period \in 0 .. Period - 1 /\ CounterMod % Period \in 0 .. Period - 1
  BY <1>1, ModStep
<1>3. 0 % Period = 0
  BY <1>1
<1>4. CASE n = 0 /\ CounterMod % Period # 0
  BY <1>2, <1>3, <1>4 DEF Gap, AtTest
<1>5. CASE ~(n = 0 /\ CounterMod % Period # 0)
  <2>1. Gap = Period
    BY <1>5 DEF Gap
  <2>2. AtTest(n) = IF n % Period = 0 THEN Period ELSE n % Period
    BY <1>5 DEF AtTest
  <2>3. QED
    BY <1>1, <1>2, <2>1, <2>2
<1>6. QED
  BY <1>4, <1>5

LEMMA PromptInTime == TimeInv /\ PhaseInv => TaskIsPrompt
<1> SUFFICES ASSUME TypeOK, SeenInTime, PhaseInv,
                    pc \in {"test", "mark", "period", "start"}
             PROVE  /\ since <= Gap
                    /\ since = Gap => Reload - cvr < HandlerTime + 3 * MaxStep
  BY DEF TimeInv, TaskIsPrompt
<1>1. /\ currTicksCounter \in 0 .. CounterMod - 1 /\ prevTicksCounter \in 0 .. CounterMod - 1
      /\ since \in Nat /\ cvr \in Nat
  BY Times DEF TypeOK
<1>2. \/ pc = "test" /\ currTicksCounter = prevTicksCounter
      \/ Reload - cvr < HandlerTime + 3 * MaxStep
  BY <1>1, Times DEF SeenInTime
<1>3. CASE program = "ProcessorLoad"
  <2>1. Gap = 1 /\ \A n : Phase(n) = 0
    BY <1>3 DEF Gap, Phase
  <2>2. since \in {0, 1}
    BY <1>3, <2>1 DEF PhaseInv
  <2>3. pc = "test" /\ currTicksCounter = prevTicksCounter => since = 0
    BY <2>1 DEF PhaseInv
  <2>4. QED
    BY <1>2, <2>1, <2>2, <2>3
<1>4. CASE program = "SysTick"
  <2>1. CASE pc = "test" /\ currTicksCounter = prevTicksCounter
    <3>1. since = currTicksCounter % Period
      BY <1>4, <2>1 DEF PhaseInv, Phase
    <3>2. since < Gap
      BY <1>1, <1>4, <3>1, NotDueYet
    <3>3. Gap \in Int
      BY <1>4, TickAssumption DEF Gap
    <3>4. QED
      BY <1>1, <3>2, <3>3
  <2>2. CASE ~(pc = "test" /\ currTicksCounter = prevTicksCounter)
    <3>1. since = AtTest(currTicksCounter)
      <4>1. CASE pc = "period"
        BY <4>1 DEF PhaseInv
      <4>2. CASE pc \in {"test", "mark"}
        <5>1. currTicksCounter = After(prevTicksCounter)
          BY <2>2, <4>2 DEF SeenInTime
        <5>2. since = (prevTicksCounter % Period) + 1
          BY <1>4, <2>2, <4>2 DEF PhaseInv, Phase
        <5>3. QED
          BY <1>1, <5>1, <5>2, OneTickMore
      <4>3. QED
        BY <1>4, <4>1, <4>2 DEF PhaseInv
    <3>2. since <= Gap
      BY <1>1, <1>4, <3>1, NotDueYet
    <3>3. QED
      BY <1>2, <2>2, <3>2
  <2>3. QED
    BY <2>1, <2>2
<1>5. QED
  BY <1>3, <1>4 DEF PhaseInv

\* Whatever the steps, the handler and the task take, no task is later than the
\* handler and four steps behind the tick that makes it due; for tasks that
\* cannot take so long that the counter comes round.
THEOREM TasksArePrompt ==
  ASSUME MaxTask + 2 < CounterMod
  PROVE  Spec => []TaskIsPrompt
<1>1. TimeInv /\ LoadInv /\ PhaseInv /\ [Next]_vars => PhaseInv'
  BY NextPhase
<1>2. QED
  BY <1>1, PromptInTime, InitPhase, TimeInvariant, LoadInvariant, PTL DEF Spec
=============================================================================
