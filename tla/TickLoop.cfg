\* A tick of 30 to steps of 1 or 2, tasks of up to two ticks and more, a counter that
\* overflows after two periods and two thirds.  A step is taken for 200 ns and is
\* 100 of the tick's 3000, the program's proportion of 125 to 62.5 of 1000000.
SPECIFICATION Spec
CONSTANTS
  Programs = {"SysTick", "ProcessorLoad"}
  Reload = 30
  Period = 3
  CounterMod = 8
  CLK_FREQ_HZ = 90
  NsPerStep = 200
  WordMod = 1048576
  StepTimes = {1, 2}
  HandlerTime = 1
  MaxTask = 65
INVARIANTS
  ResetMeansOverrun
  OverrunMeansReset
  LoadIsTwiceTheShare
  TaskIsPrompt
PROPERTIES
  TasksArePeriodic
