------------------------------ MODULE TickLoop ------------------------------
(***************************************************************************)
(* The main loops of SysTick and ProcessorLoad: the SysTick handler counts *)
(* ticks, the loop compares the count with the one it saw last, runs its   *)
(* task -- SysTick when the count is a multiple of Period, ProcessorLoad   *)
(* at every tick, measuring it -- and resets the processor when the count  *)
(* has moved on meanwhile.                                                 *)
(*                                                                         *)
(* Time counts here: whether the loop is in step with the ticks is all the *)
(* programs are about.  There is no clock variable but the one the         *)
(* programs have, SYST_CVR, which counts down from Reload to 0 and round.  *)
(* A step of main is one access to the counter or to SYST_CVR and then     *)
(* takes some time; if the timer comes round in it the handler runs before *)
(* the next step.                                                          *)
(***************************************************************************)
EXTENDS Integers

CONSTANTS
  Programs,      \* which of "SysTick" and "ProcessorLoad"
  Reload,        \* SYST_RVR (16000)
  Period,        \* ticks from task to task in SysTick (1000)
  CounterMod,    \* 2^w for the w-bit counter (2^32)
  CLK_FREQ_HZ,   \* what SYST_CVR is taken to count (16000000)
  NsPerStep,     \* what a step of SYST_CVR is taken for (125)
  WordMod,       \* 2^w for the w bits the load is computed in (2^32)
  StepTimes,     \* how long a step of main may take
  HandlerTime,   \* how long the handler takes
  MaxTask        \* bound: how long a task may take

VARIABLES
  program,
  cvr,           \* SYST_CVR
  currTicksCounter, prevTicksCounter,
  pc,
  taskStart,     \* taskStartTimestamp
  timeElapsedNs, precentageLoad,
  spent,         \* time the task under way, or the last one, has taken
  took,          \* history: time between the last two reads of SYST_CVR
  since          \* history: ticks since the last task began, or the start

counters == <<currTicksCounter, prevTicksCounter>>
load     == <<taskStart, timeElapsedNs, precentageLoad>>
history  == <<spent, took, since>>
vars     == <<program, cvr, counters, pc, load, history>>

\* The time of the loop beside the task, from a tick to the check: the step in
\* which the tick came, the handler, and at most four steps more.
MaxStep  == CHOOSE t \in StepTimes : \A u \in StepTimes : u <= t
LoopTime == 5 * MaxStep + HandlerTime

\* CLK_FREQ_HZ / SYST_RVR * 1000, commented "we need ns": a tick's length.
TickNs == ((CLK_FREQ_HZ \div Reload) * 1000) % WordMod

ASSUME TickAssumption ==
  /\ Programs \subseteq {"SysTick", "ProcessorLoad"}
  /\ Period \in Nat /\ Period > 0 /\ CounterMod \in Nat /\ CounterMod > Period
  /\ StepTimes \subseteq Nat \ {0} /\ HandlerTime \in Nat \ {0}
  /\ \E t \in StepTimes : \A u \in StepTimes : u <= t
  /\ Reload \in Nat /\ Reload > LoopTime
  /\ MaxTask \in Nat /\ MaxTask \div Reload < CounterMod

\* 125 * 16000 = 2 * 1000000: main.c:42 takes a step for 125 ns, the length of the
\* tick is computed from 16 MHz (:8), at which it is 62.5 ns.
ASSUME LoadAssumption ==
  /\ CLK_FREQ_HZ \in Nat /\ NsPerStep \in Nat /\ NsPerStep > 0 /\ WordMod \in Nat
  /\ TickNs \in Nat /\ NsPerStep * Reload = 2 * TickNs
  /\ 100 * (NsPerStep * Reload) < WordMod

\* After SysTick_Init: a write to SYST_CVR makes the count start over.
Start ==
  /\ cvr' = Reload
  /\ currTicksCounter' = 0 /\ prevTicksCounter' = 0
  /\ pc' = "test" /\ taskStart' = 0
  /\ timeElapsedNs' = 0 /\ precentageLoad' = 0
  /\ spent' = 0 /\ took' = 0 /\ since' = 0

Init ==
  /\ program \in Programs
  /\ cvr = Reload
  /\ currTicksCounter = 0 /\ prevTicksCounter = 0
  /\ pc = "test" /\ taskStart = 0
  /\ timeElapsedNs = 0 /\ precentageLoad = 0
  /\ spent = 0 /\ took = 0 /\ since = 0

\* Slip: the counter starts over with the period.
SysTick_HandlerStartsOver ==
  currTicksCounter' = IF currTicksCounter = Period THEN 0 ELSE currTicksCounter + 1

SysTick_Handler == currTicksCounter' = (currTicksCounter + 1) % CounterMod

\* t units of time pass, and the handler's if a tick comes in them; ticks is
\* since as the step left it.
Elapse(t, ticks) ==
  IF cvr > t
  THEN cvr' = cvr - t /\ since' = ticks /\ UNCHANGED currTicksCounter
  ELSE /\ cvr' = cvr - t - HandlerTime + Reload + 1
       /\ since' = ticks + 1
       /\ SysTick_Handler

\* The same, for the time the task and the two reads around it take.
ElapseInTask(t, ticks) ==
  /\ Elapse(t, ticks)
  /\ took' = took + t + IF cvr > t THEN 0 ELSE HandlerTime

\* Slip: a later count is taken for a greater one.
TestCountersGreater(t) ==
  /\ pc = "test"
  /\ pc' = IF currTicksCounter > prevTicksCounter THEN "mark" ELSE "test"
  /\ Elapse(t, since)
  /\ UNCHANGED <<program, prevTicksCounter, load, spent, took>>

TestCounters(t) ==
  /\ pc = "test"
  /\ pc' = IF currTicksCounter # prevTicksCounter THEN "mark" ELSE "test"
  /\ Elapse(t, since)
  /\ UNCHANGED <<program, prevTicksCounter, load, spent, took>>

\* Slip: the count is not noted.
MarkForgotten(t) ==
  /\ pc = "mark"
  /\ pc' = IF program = "SysTick" THEN "period" ELSE "start"
  /\ spent' = 0 /\ took' = 0
  /\ Elapse(t, since)
  /\ UNCHANGED <<program, prevTicksCounter, load>>

Mark(t) ==
  /\ pc = "mark"
  /\ prevTicksCounter' = currTicksCounter
  /\ pc' = IF program = "SysTick" THEN "period" ELSE "start"
  /\ spent' = 0 /\ took' = 0
  /\ Elapse(t, since)
  /\ UNCHANGED <<program, load>>

\* SysTick: the counter is read again for the period.
PeriodTest(t) ==
  /\ pc = "period"
  /\ IF currTicksCounter % Period = 0
     THEN pc' = "task" /\ Elapse(t, 0)
     ELSE pc' = "check" /\ Elapse(t, since)
  /\ UNCHANGED <<program, prevTicksCounter, load, spent, took>>

\* ProcessorLoad: the time before ...
TimeStart(t) ==
  /\ pc = "start" /\ pc' = "task"
  /\ taskStart' = cvr
  /\ took' = t + IF cvr > t THEN 0 ELSE HandlerTime
  /\ Elapse(t, 0)
  /\ UNCHANGED <<program, prevTicksCounter, timeElapsedNs, precentageLoad, spent>>

\* The task goes on for t, and is done or not.
mainTask(t) ==
  /\ pc = "task" /\ spent + t <= MaxTask
  /\ spent' = spent + t
  /\ pc' \in {"task", IF program = "SysTick" THEN "check" ELSE "stop"}
  /\ pc' = "task" => spent' < MaxTask
  /\ ElapseInTask(t, since)
  /\ UNCHANGED <<program, prevTicksCounter, load>>

\* Slip: the operands the wrong way round.
ElapsedNsSwapped(start, stop) == (((stop - start) % WordMod) * NsPerStep) % WordMod

\* (taskStartTimestamp - taskStopTimestamp) * 125
ElapsedNs(start, stop) == (((start - stop) % WordMod) * NsPerStep) % WordMod

Percentage(ns) == ((ns * 100) % WordMod) \div TickNs

\* ... and after it; the load is computed.
TimeStop(t) ==
  /\ pc = "stop" /\ pc' = "check"
  /\ timeElapsedNs' = ElapsedNs(taskStart, cvr)
  /\ precentageLoad' = Percentage(timeElapsedNs')
  /\ taskStart' = 0
  /\ Elapse(t, since)
  /\ UNCHANGED <<program, prevTicksCounter, spent, took>>

\* Slip: no reset (this is the loop of SysTick_PE).
CheckCountersOnly(t) ==
  /\ pc = "check" /\ pc' = "test"
  /\ Elapse(t, since)
  /\ UNCHANGED <<program, prevTicksCounter, load, spent, took>>

\* NVIC_SystemReset, or another round.
CheckCounters(t) ==
  /\ pc = "check"
  /\ IF currTicksCounter # prevTicksCounter
     THEN Start
     ELSE /\ pc' = "test"
          /\ Elapse(t, since)
          /\ UNCHANGED <<prevTicksCounter, load, spent, took>>
  /\ UNCHANGED program

Next ==
  \E t \in StepTimes :
    \/ TestCounters(t) \/ Mark(t) \/ PeriodTest(t) \/ TimeStart(t) \/ mainTask(t)
    \/ TimeStop(t) \/ CheckCounters(t)

Spec == Init /\ [][Next]_vars

-----------------------------------------------------------------------------
(* Properties                                                              *)

\* Types: a read of SYST_CVR never gives 0, for the handler runs first.
TypeOK ==
  /\ cvr \in 1..Reload
  /\ currTicksCounter \in 0 .. CounterMod - 1
  /\ prevTicksCounter \in 0 .. CounterMod - 1
  /\ taskStart \in 0..Reload /\ timeElapsedNs \in 0 .. WordMod - 1 /\ precentageLoad \in Nat
  /\ pc \in {"test", "mark", "period", "start", "task", "stop", "check"}
  /\ spent \in 0..MaxTask /\ took \in Nat /\ since \in Nat

Resets == pc = "check" /\ currTicksCounter # prevTicksCounter

\* The processor is reset only for a task that does not fit between two ticks
\* beside the loop: there is no unlucky moment at which a tick could come.
ResetMeansOverrun == Resets => spent + LoopTime > Reload

\* And a task that is longer than a tick never goes unnoticed: when the loop
\* goes on after the check, or goes idle, the task fitted.
OverrunMeansReset == pc = "test" => spent <= Reload

Gap ==
  CASE program = "ProcessorLoad" -> 1
    [] program = "SysTick" /\ currTicksCounter = 0 /\ CounterMod % Period # 0 ->
         CounterMod % Period
    [] OTHER -> Period

\* From one task to the next SysTick lets Period ticks go by, neither more nor
\* fewer, but for the moment the counter overflows: the multiple of Period that
\* 0 is comes early.  ProcessorLoad has one task per tick.
TasksArePeriodic ==
  [][pc' = "task" /\ pc \in {"period", "start"} => since = Gap]_vars

\* The load ProcessorLoad goes on with is that of the steps between its two reads of
\* SYST_CVR: the difference is wrong when the timer comes round in between, but then
\* the reset comes first, and no product overflows.  It is not the share of the tick
\* that main.c:41-44 sets out to compute but twice that, 200 for a task that just
\* fits: main.c:42 says "SysTick step is 0.125us = 125ns", and the clock of :8, from
\* which :44 has the length of the tick, makes it 62.5 ns.
LoadIsTwiceTheShare ==
  pc = "test" /\ program = "ProcessorLoad" =>
    /\ timeElapsedNs = NsPerStep * took
    /\ precentageLoad = (200 * took) \div Reload

\* No task is late: no tick comes beside the one that makes it due, and after that
\* one the loop is at its task within the handler's time and four steps, however
\* the counter overflows and whatever resets there were.
TaskIsPrompt ==
  pc \in {"test", "mark", "period", "start"} =>
    /\ since <= Gap
    /\ since = Gap => Reload - cvr < HandlerTime + 3 * MaxStep
=============================================================================
