# NXP_KEA in TLA+

Models, model checks and proofs for the programs and drivers of this repository:
bare-metal C for the KEA family (ARM Cortex-M0+), one directory per project, most
of them one program around one driver. There is no operating system and no
thread: what interleaves is the main program, the interrupt handlers and the
peripherals, and that is what the modules are about.

## 1. Inventory

`PROJECT.json` lists every component with its sources. The ones with logic of
their own:

| Component | State | Operations | Interacts with | Hard to get right |
|---|---|---|---|---|
| Buffered UART driver (`BufferedSerial/Sources/UART/UART.c`) | per channel two rings with 8-bit indices and a transceiver flag; C2, S1, D of the peripheral | `Uart_Init`, `Uart_DeInit`, `Uart_Read`, `Uart_Write`, `Uart_GetRxQueueLevel`; `UARTn_IRQHandler`, `Un_RxISR`, `Un_TxISR` | main calls it, the handler preempts it, the peripheral moves by itself | main and handler share rings, indices, C2 and D without ever masking interrupts |
| Echo program (`BufferedSerial/Sources/main.c`) | a counter and a buffer | its loop | the UART driver | polls an index difference; writes twice in a row |
| UART HAL driver (`UartDriver_HAL/Sources/UartHal.c`) | as above with 16-bit indices, a wake-up flag | as above, `UART_GetChar`, `UART_PutChar` | main, handler, peripheral | an unfinished transmit path; a handler that waits for a flag |
| Circular sample buffer (`CircularBuffer.c`) | array, head, tail | `circ_buff_push`, `circ_buff_average`, and three nobody calls | pushed by the ADC interrupt, averaged by main | the two indices wrap at different values; average runs while push does |
| ADC sampling program (`AdcSampling/Sources/main.c`) | place in a table of channels, eight buffers | `ADC_OnEnd`, main's loop | the converter, the buffers | table, channel and buffer must stay in step |
| ADC filtering program (`AdcFilters/Sources/main.c`) | one filtered value per channel | `ADC_OnEnd`, `filterAdc` | the converter | a float average cut to 16 bits |
| Flash driver (`Flash_Driver/Sources/FLASH/flash.c`) | none of its own; the controller's registers | `FLASH_Init`, `FLASH_Program`, erase and verify functions, the program-once field, the backdoor key, the margin level, `FLASH_CheckErrStatus` | the FTMRE controller | one of several commands fails; flags left over; a command left running |
| Flash program (`Flash_Driver/Sources/main.c`) | its position | initialise, erase, program | the driver; resets | a reset in the middle |
| Tick loops (`SysTick`, `ProcessorLoad`; `SysTick_PE`, `ModularizationParadigm`) | two tick counters, the time of the task | `SysTick_Handler`, main's loop | the handler increments what main compares; SYST_CVR comes round by itself | a tick between two reads of the counter or of SYST_CVR |
| Interrupt UART driver, debug consoles, polled programs | a callback table | register set-up and polling | | little: one thread, one flag |
| PWM and timer programs | registers | duty-cycle arithmetic | | division, truncation |

What makes them correct: what goes into a queue comes out, once and in order; no
interrupt enable is lost, so that everything queued is sent and every byte
received is served; a sample is stored under the channel it was taken on; an
average is of recent samples; a filtered value follows its own input; a processor is
reset when, and only when, its task overran the tick; flash functions do what they report and report
what they did not do; a program started over after a reset still reaches its
goal.

`SAMPLES/`, the `Includes/`, `Project_Settings/`, `Generated_Code/` and
`Static_Code/` directories and the register drivers copied from NXP (`ICS`,
`NVIC`, `FTM`, `ADC.c`) are vendored or generated and are not modelled.

## 2. Modules

| Module | Models | Code |
|---|---|---|
| `RingIndex` | index arithmetic of a power-of-two ring | `UART.c` masks |
| `ByteFifo` | **abstract**: what a serial byte queue promises | |
| `BufferedUart` | one channel of the driver, main's calls one shared access at a time, its handler, its peripheral | `UART.c` |
| `UartProgress` | what is left to do in `BufferedUart`, in steps; properties only | |
| `EchoApp` | the driver with the echo loop as its client | `BufferedSerial/Sources/main.c` |
| `UartHal` | channel Un2 of the HAL driver under any client, its handler, its peripheral | `UartHal.c` |
| `CircularBuffer` | `circ_buff_t` and push, as operators | `CircularBuffer.c/.h` |
| `AdcSampling` | converter, `ADC_OnEnd`, main with `circ_buff_average` one access at a time | `AdcSampling/Sources/main.c`, `CircularBuffer.c` |
| `AdcFilters` | converter, `ADC_OnEnd` with its filter | `AdcFilters/Sources/main.c` |
| `TickLoop` | timer, `SysTick_Handler`, main's loop with its task and its reset | `SysTick/Sources/main.c`, `ProcessorLoad/Sources/main.c`, `SysTick.c` |
| `FlashController` | the FTMRE controller: FCCOB, FSTAT, the longwords, the program-once field; failures and resets (external) | |
| `FlashStore` | **abstract**: what a flash driver promises about the longwords | |
| `FlashDriver` | every function of the driver over the controller, for any client | `flash.c/.h` |
| `FlashDemo` | the driver with main.c as its client | `Flash_Driver/Sources/main.c` |
| `RingIndexTheorems` | lemmas about rings and about counters that come round | |
| `...Proofs` | the theorems about the module so named | |
| `MC...` | values of constants for TLC | |

`BufferedUart` uses `RingIndex`, instantiates `ByteFifo` twice (receive side,
transmit side) and is used by `EchoApp`; `UartProgress` extends it. `UartHal` uses
the same `RingIndex` and is another implementation of `ByteFifo`, twice over: its
receive side, and `UART_PutChar` with the transmitter behind it. `AdcSampling` uses
`CircularBuffer`. `FlashDriver` uses `FlashController`, implements `FlashStore` and
is used by `FlashDemo`.
`AdcFilters` and `TickLoop` stand alone. The groups come from different programs
and do not interact in the code either.

Operators whose comment begins with *Slip* are plausible mistakes in the
definition that follows them. Nothing in a specification uses them; each is
there to put in place of the right definition and see a property fail.

### BufferedUart

Three parties. **Main** is inside at most one of the driver's functions; `pc`
says where, and each step is one access to something shared: an index, a slot,
a register. `reg` and `c2reg` are the CPU registers that hold a value between a
load and a store, as in `C2 |= mask`. **The handler** (`ipc`) starts between any
two steps of main, whenever its interrupt is pending, and runs to its end before
main goes on; its accesses are in source order and the peripheral moves in
between. **The peripheral** receives a byte when its data register is free,
loads the shifter from D, and finishes shifting.

Interrupts pend as the hardware's do: a status flag with its enable bit. Reading
S1 and then D clears RDRF; writing D clears TDRE. A byte that arrives while D is
full is lost before the driver sees it, which is why the peer is not given that
step: nothing in the driver could be wrong about it.

Bytes are numbered, so that loss, repetition and reordering show in the
histories (`rxAcc`, `rxGot`, `txAcc`, `wire`).

Assumed of the build: `-O0`, as in the projects' settings, so the order of the
source is the order of the accesses. The pointers are not volatile; with
optimisation the compiler could do what it liked and this model would not apply.

### UartHal

The same three parties, and the same steps, as in `BufferedUart`. What differs is
the code: the indices are 16 bits wide and the level is masked; the handler reads
S1, does not use it, and waits for RDRF itself; a client may leave the NVIC off
and poll with `UART_GetChar`, which does without the ring. `Mix` says whether a
client that has the NVIC on may poll as well: nothing in `UART_GetChar` keeps it
from doing so, the model has those steps, and section 4 says what becomes of the
byte. `rxLast` is what a read of D returns when RDRF is down. Of the transmit path
only `UART_PutChar` reaches the wire: what would enable the transmit interrupt is
commented out and `Un_TxISR` has no caller. `Uart_Write` is therefore one step,
for nobody else touches the transmit ring.

### AdcSampling

A sample is its channel and a running number; a sum is the list of samples
added. `ADC_OnEnd` is one step, because nothing preempts it; `circ_buff_average`
is one step per access to the buffer. What lies behind an array is the linker's
choice (`Gaps`): no map file is in the repository, so 0 (the next array) and 1
(a cell nobody uses) are both modelled.

### AdcFilters

`filterAdc` averages in floats and stores the average in a `uint16_t`. With a
weight of 100 the float is so close to the quotient that what is cut off is the
same, and the model divides integers. The inputs of the converter are the
environment's: they change at any moment, and not for ever.

### TickLoop

The one model in which time counts, because whether the loop is in step with the
ticks is all these programs are about. Its only clock is the one the programs
have: SYST_CVR counts down from `Reload` and round, every step of main takes some
of it, and when it comes round the handler runs before main's next step. A step is
one access to the counter or to SYST_CVR; the task takes any number of steps.
`spent`, `took` and `since` are histories of that time, in no register of the
program. The load is computed as the program does it, in 32-bit words and with its
two divisions: `ElapsedNs` is main.c:43, `TickNs` and `Percentage` are main.c:44.
`LoadAssumption` states the proportion of the constants: 125 ns for a step times
16000 steps is twice the million nanoseconds that :44 computes for a tick.

### FlashController, FlashDriver, FlashDemo

The unit is the longword: erased, four bytes, or *Unknown*, which stands for
whatever a failed or interrupted command, or programming without erasing, left
there. Error codes are sets of bits, so that `|=` is a union and two codes can
make a third. A function is: enter, check the address, load, launch, wait and
look at the flags; `FLASH_Program` repeats it over chunks. FLASH_Init's divider
is arithmetic with its widths (8 bits, then 6). FDIVLCK is left out: only a line
under `#if 0` would set it. With no handler touching flash the steps of the
driver interleave with the controller and with resets alone.

The client of `FlashDriver` may call anything, but after
`FLASH_EraseBlock_NoWait` it waits for CCIF before it calls a function that
launches a command; this is an assumption, the driver neither does nor says it.
`Enter` has no such test, as the functions have none; `ClientWaits` is the
assumption, and only `Client` makes it. `main.c` is not assumed to keep it: that it
never calls into a busy controller is part of the proof about `FlashDemo`.

## 3. Runs

| Run | Bounds | Distinct states | Question |
|---|---|---|---|
| `uart_receive` | ring of 4, 6 bytes, reads of 2 | 19 995 | is the receive side a queue, whatever interrupts what? |
| `uart_send` | transmit ring of 4, 6 bytes in messages of 1 and 5 (more than fits), one received byte | 22 155 | is everything accepted sent, in order, does every step bring the end nearer, and is nothing left to do where the system stops? |
| `uart_overlap` | two writes close together | violation | ... also if the client writes before the last message is out? |
| `uart0_complete` | one message of 2 on channel 0 | violation | ... also on the channels of the other handlers? |
| `echo` | ring of 4, chunks of 3 | violation | does the echo program send back what it takes out? |
| `uart_hal` | rings of 4, 5 bytes each way, 2 bytes put, interrupts or polling but not both | 240 277 | is reception a queue, is the level one that was true, are the bytes put sent in order, does the handler's own wait end and nobody else wait for good? |
| `adc_sampling` | 3 channels, buffers of 3, 27 samples, arrays that touch or not | 96 836 | do buffers, table and channel stay right under the interrupt? |
| `adc_average` | the same with 2 channels and fewer samples | violation | does an average have elements? |
| `adc_filters` | 2 channels, weight 3, four levels, 3 changes | 31 520 | does every value follow its own input, and settle? |
| `tick_loop` | tick of 30, steps of 1 or 2, tasks up to 65, counter modulo 8, period 3 | 225 305 | is no task begun late, the processor reset when and only when a task overran, and what does the load say? |
| `flash` | 2 sectors of 2 longwords, 5 payloads of 0 to 13 bytes, 3 calls, 1 reset | 392 596 | does every function do exactly what it reports, with failures at any point: is the driver a `FlashStore`? |
| `flash_demo` | 2 sectors of 4, 12 bytes, 2 resets, any first content | 145 408 | does the program store its text whatever resets it? |

Why the bounds are enough. *UART*: rings of 4 are the smallest in which empty,
one, two and full differ and an index wraps with slots in between; the runs go
round one and a half times, so indices are met wrapped, unwrapped and one of
each. What could depend on the size, the arithmetic, is proved for all sizes,
and `MCBufferedUart` compares the model's `%` with the code's `&` for every
power of two up to 128. *HAL*: five bytes through a
ring of four meet it empty, full and wrapped; the transmit ring is offered more
than it takes. *ADC*: 27 samples are nine per channel, more than two turns of four
cells; three channels are enough for a buffer to have a neighbour on each side.
*Filters*: a weight of 3 has the dead band that 100 has, and the levels lie inside
and outside it. *Ticks*: a tick of 30 is longer than the loop takes
(`LoopTime`, 11) with room for tasks that just fit, just do not, and last two ticks
and more; the counter overflows after two and two thirds periods, so that 2^32
being no multiple of 1000 shows; 90 for the clock and 200 for a step keep the
program's proportion with this tick (200 * 30 is twice 90 / 30 * 1000), and words
of 20 bits hold its largest product as 32 bits hold the program's. *Flash*: payloads cover both loops, the leftover,
each alone and together, none, and one whose last longword reads as erased; three
calls allow initialise, write, write again, or initialise, fail, retry.

`LevelMod` stands for the 8-bit result of the level, of either driver: 8 with a
ring of 4 has the same shape as 256 with 128, that is, wider than the ring. The
HAL's 16-bit indices would allow longer rings, whose level the cast to 8 bits cuts
short; `LevelIsTrue` is proved for those it does not.

Most configurations switch the deadlock check off, because those systems really
may stop: the UART's client need not call again and the peer need not send; the
HAL driver may be closed; the others stop when their bound is reached or main
loops for ever in a dead end. `TickLoop` and `AdcFilters` never stop and are
checked for deadlock.

**Fairness.** UART: a pending interrupt is taken and its handler goes on
(`WF(Isr)`: interrupts are never masked by this code); the transmitter shifts;
main goes on when it is enabled for good. Main gets weak fairness only: the
Cortex-M0+ starts a pending handler before it returns to the interrupted code, so
a handler that is always pending starves main, and `MainReturns` says that does
not happen. Nothing makes the peer send or the client call. Flash: the processor
runs and the controller ends each command it started, well or not; resets are
bounded in number, as `MainSettles` needs them to be. HAL: as the other UART, and
nothing makes the peer send, so that `HandlerReturns` says the handler never waits
for a byte yet to come. Filters: main selects the first channel, conversions end,
the interrupt is taken. Ticks: none; `TaskIsPrompt` says how soon a task follows its
tick, in time, and the deadlock check that time can always pass.

## 4. What the runs showed

* **Overlapping writes** (`uart_overlap`, `TxInOrder`). `Uart_Write` feeds D from
  main with interrupts on. If an earlier message is still going, the handler
  moves the same tail and writes the same D in between, and a byte already
  counted as written is overwritten, doubled or sent late. The echo program
  writes its end of line right after the chunk. This is why `uart_send` has the
  client wait (`Overlap = FALSE`): the transmit properties hold for such a client
  and for no other.
* **Handlers 0 and 1** (`uart0_complete`, `TransmitterRests`). They clear TIE where
  they mean TCIE, so transmission complete interrupts for ever.
* **Polling at the end of a message.** After the last byte of the ring has gone to D
  the handler leaves TIE set, so it is entered over and over until that byte has
  left the shifter. It is no livelock, for the shifter needs no processor; these runs
  are the only steps of handler, main and transmitter that bring the end no nearer
  (`EveryStepCounts`).
* **A caller left waiting.** `UART_GetChar` has no timeout: with no byte to come it is
  the one place of the HAL driver where somebody waits for good (`NobodyIsStuck`).
* **A byte handed out twice.** `UART_GetChar` called with the NVIC on, as
  `UartDriver_HAL/Sources/main.c:25` leaves it (the call at :40 is commented out):
  the handler may read D between the loop of UartHal.c:611 and the read of :614, and
  both the ring and the caller get the byte. With `Mix = TRUE` TLC shows `RxIsFifo`
  violated this way; the run and `ReceiverImplementsFifo` are for clients that poll
  or take interrupts (`Mix = FALSE`), the other theorems for all.
* **The level** (`echo`, `EchoesWhatItReads`). Without the mask it is too large once
  the head has wrapped; the echo program then reads too few bytes and drops them.
  It is never too small (`LevelMissesNothing`). Nor is it too large for longer than
  it takes the tail to follow, so what is lost has a bound: less than a chunk for each
  time the tail goes round the ring (proved, `EchoLosesLittle`): 9 bytes in 128, as
  `main.c` has it.
* **Average of nothing** (`adc_average`). A conversion between two loads makes a
  full buffer look empty, and the sum is divided by zero.
* **One element too far.** `head` reaches `maxlen`; the buffer uses one cell more
  than its array. With a free cell behind, the buffer works: it is a buffer of
  `maxlen + 1` cells. With the arrays back to back a channel's sample shows up in
  its neighbour's average, for one entry and no more, which is what
  `HoldsTheLatest` and `AverageIsRecent` make an exception for.
* **No "Out of space".** CircularBuffer.h:38-42 promises -1 from a push without
  space. `circ_buff_push` returns 0 in that case too, having moved tail on
  (CircularBuffer.c:19-25): it drops the oldest sample. `HoldsTheLatest` states what
  the code does, which is what the averages need; no caller looks at the result.
* **MGSTAT codes.** Either bit gives both codes, OR-ed to 0x3013, a value
  flash.h:286-297 does not list; no call succeeds by it that failed.
* **Tick loops.** The reset of `SysTick` and `ProcessorLoad` comes for overruns
  alone, whatever moment the tick comes at. The counter's overflow makes one
  period short, and nothing else. Replace the reset by nothing, as
  `SysTick_PE/Sources/main.c:76-79` does with an empty statement, and overruns go
  unnoticed: `CheckCountersOnly` is the mutant that breaks `OverrunMeansReset`.
* **The load is doubled** (`LoadIsTwiceTheShare`). What `ProcessorLoad` computes is
  always that of the steps between its two reads: a difference spoilt by a reload of
  SYST_CVR never outlives the check. But main.c:42 says "SysTick step is 0.125us =
  125ns", which is a clock of 8 MHz, and :8 and :44 have 16 MHz: `precentageLoad` is
  twice the share of the tick that the task took, 200 for one that just fits.
* **Uart_DeInit** (UART.c:451) stops nothing, its masks being shifted away, and its
  load and store of C2 can enable again what the handler has just switched off. No
  harm comes of it: the handler is entered once more and finds the ring empty. The
  properties of `uart_receive` and `uart_send` hold with it.
* **Filter.** A value settles as much as `Weight` below its input if it came from
  below, on the input itself if it came from above.
* **HAL transmit ring.** What `Uart_Write` takes and counts as written stays in the
  ring for good (`TxRingKeepsAll`, proved as `WrittenStays`). The file
  is an early cut of the driver, and nothing in it says otherwise; it is no finding.

## 5. Proofs

Each theorem holds for all values of the constants that the named assumptions of
the modules admit: rings, flash, texts and tables of every size, every number of
calls, bytes, resets. Twelve theorems have a condition of their own, stated below.
`QueuedIsArmed`, `LossIsBounded`, `TxRingKeepsAll` and `EveryTickIsSeen`, which four
of the theorems state, are defined beside their proofs; no run checks them.

**`BufferedUartProofs`** (any channel; items 1 to 5 and 10 with overlapping writes
included)

1. `TypeCorrect`. `TypeOK` is not inductive: that `toRead - 1` is a natural and
   that there is a byte to take depend on where main and the handler are. `Busy`
   says so; `TypeInv == TypeOK /\ Busy` is inductive (`Typing`), one lemma per
   group of actions.
2. `RxRingCorrect`. `RxInv` adds to `RxRingHoldsTheRest` the two facts it needs
   to be inductive: where `Uart_Read` is about to move the tail the ring is not
   empty (the handler can only add to it), and until `Uart_Init` has finished the
   tail is still the zero it is going to be set to. Most steps do not touch the
   receive side (`QuietKeepsRx`); those that do, `InitHeads`, `ReadTail`,
   `ReadCopy` and the handler's acceptance, have a lemma each over the ring facts
   of `RingIndexTheorems` (`PutInRing`, `GetFromRing`, `FullRing`).
3. `LevelCorrect` follows from the bounds of `Waiting` when `LevelMod` is at
   least the ring's size.
4. `ReceiverImplementsFifo`. Under `RxInv` every step is a `Put`, a `Get`, the
   `Open` or a stutter of `ByteFifo` with the histories as its two ends.
5. `DropsOnlyWhenFull`. The handler's choice is right by the code, but only if it
   gets to make it with RIE set: `RieInv` says that no stale store to C2, by main
   in the middle of `|=` or of `Uart_DeInit`'s `&=`, ever takes RIE away.
6. `QueuedBytesAreArmed`, for a client that starts no transmission before the last
   has ended (`Overlap = FALSE`). `ArmInv` divides the work: as long as main is in
   `Uart_Write` both transmit interrupts are off and the handler is not at its
   transmit part, so only main feeds D; afterwards only the handler does. TCIE on
   means an empty ring, and what main is about to store to C2, in `Uart_Write` or in
   `Uart_DeInit`, has TIE if the ring is not empty. So TIE is set whenever main leaves bytes behind.
7. `TransmitterImplementsFifo`, for the same client. `TxFlow` counts the bytes
   accepted: on the wire, in the shifter, in D, in main's hand (`TxInHand`, between
   the tail's store and D's), in the ring; `Reserved` is the slot that `Uart_Write`
   has published by the head before it stores the byte into it. `TxData` says that
   each of these places holds the byte of its number. `StartInv` says that nothing
   is accepted or sent before `Uart_Init` has finished. Under them each step is a
   `Put`, a `Get`, the `Open` or a stutter of `ByteFifo`. The condition is needed:
   without it main and the handler both feed D, and `uart_overlap` shows
   the order on the wire broken.
8. `WorkIsUsedUp`, for channel 2 and the same client: the measure that stands behind
   the liveness properties. `StepsLeft` adds up what is left for main's call
   (`CallLeft`), for the run of the handler under way (`RunLeft`), for a byte in D
   (`RxLeft`), for the bytes in the ring and the transmitter (`TxLeft`), for the
   transmit interrupts (`ArmLeft`). `RunInv` says that only TIE lets
   a run into its transmit part, and that a status with TC has TDRE as well. Each step of main, of
   the handler and of the transmitter lessens the sum, one lemma per group of
   actions; the exception, named in the property, is a run of the handler that only
   waits for the shifter. Channels 0 and 1 have no such measure: their handler leaves
   TCIE set, which is the finding of `uart0_complete`.
9. `AtRestAllIsDone`, on every channel: where neither main's call, nor the handler, nor
   the transmitter can move, D and ring are empty and the wire carries what was
   accepted. `UpInv` (from `Uart_Init` on, TE, RE and the NVIC stay enabled) and
   `WireInv` (the wire carries a prefix of the bytes accepted) do it with `RieInv`,
   `ArmInv` and `TxFlow`. With 8: under fairness the system gets there.
10. `EchoLosesLittle` (`LossIsBounded`), about `EchoApp` with a chunk that has bytes in
   it (`EchoConstants`): the driver with the program that polls it, so `TypeInv` and `RxInv` are used again, under another next-state relation. The level
   is one subtraction of two indices, and what makes a bound possible is what they
   count: by `IndexInv` the head is the number of bytes accepted, modulo the ring's
   size, and the tail the number taken out. So if the level asks for a read without
   a chunk waiting, the head is ahead by a round (`LevelHasReason`, by `RoundOrder`:
   of two counts the larger with the smaller remainder has the larger quotient).
   `ChunkInv` carries this through the read: if it ends short, the ring was found
   empty, and the tail has come round as well. Each loss is thus paid for by a round
   of its own (`AllowedGrows`). Nothing is assumed of the level's width or of what
   the writes do to each other.

**`UartHalProofs`**: the same argument for the other driver (`TypeInv`, `RxInv`,
the refinement), where the receiver has two ways in, the handler and
`UART_GetChar`. `ReceiverImplementsFifo` is for a client that uses one of them
(`~Mix`): by `PollInv` main is in `UART_GetChar` only with the NVIC off, and so the
two never meet. `TxInv` (the transmit tail never moves) gives `WrittenStays`.
`LevelInv` (between the two loads the handler can only add) gives `LevelIsTrue`:
the level reported is what waited when it was asked for, and no more than waits
now, for rings that the result can count (`RxSize <= LevelMod`). `PutInv` places each byte put: on the wire, in the shifter, in D; nothing else
writes D, and `UART_PutChar` only when TDRE is set, so D and the shifter never hold
more than the last two. It gives `SenderImplementsFifo`. `OpenInv` (while the port
is open TE and RIE are set, and the handler runs only with a byte in D) gives
`OnlyGetCharIsLeftWaiting`.

**`AdcSamplingProofs`**: `RoundInv` ties the place in the table, the selected
channel and the pending result to the numbers of samples stored, and gives
`TheTableGoesRound`; with it `ChannelInv` is inductive and gives
`SamplesAreStoredRight`, the first sample of entry 0 being the one exception.
`TypeInv` adds to `TypeOK` where each buffer lies and that a pending result still
counts among the samples, and gives `TypeCorrect`. `HoldInv` adds to `HoldsTheLatest` that the numbers
of the samples do not exceed those stored; it rests on three facts about the code's
arithmetic: what a push does to the number held (`PushCounts`) and to each index
(`PushIndexes`), and that two cells have one address only for neighbours whose
arrays touch (`SameCell`). The result is `BuffersHoldTheLatest`. Main's average
needs to know the cells outside the buffer too, since tail may move on under it:
`CellsInv` says that head goes round the cells one by one, so that `Latest` names
the sample in each; `SumInv` says what the partial sum is of, and, by `Ahead`, that
what main will add next is later than what it has added. The result is
`AveragesAreRecent`.

**`AdcFiltersProofs`**: `FilterMoves` is the arithmetic of the cut average
for every weight and every pair of values; with `TypeOK` it gives
`ValuesMoveTowards`.

**`TickLoopProofs`**: `SeenInTime` bounds, at each position of main, the time
since the tick that started this round by what the steps so far may take;
`TimeInv == TypeOK /\ SeenInTime` gives `ResetOnlyOnOverrun` and `TicksAreSeen`.
`LoadInv` relates the two reads of SYST_CVR, the ticks in between and the time
taken; by `LoadOfSteps` the two divisions and the products in 32 bits then make
twice the share of it, for every length of the tick (`SameQuotient`, of
`RingIndexTheorems`, is the lemma about the quotients). `OverrunResets` and
`LoadIsDoubled` need that a task cannot last until the
counter has come round, for which `MaxTask + 2 < CounterMod` is enough: a bound of
2^32 clock cycles, minutes, on a task that has a millisecond. Under the same
assumption `PhaseInv` says, at each position of main, how far the count is from its
last multiple of the period, and `ModStep`, of `RingIndexTheorems`, what one more tick
does to that remainder, the overflow included: `TasksKeepThePeriod`. `SeenInTime` and `PhaseInv`
together give `TasksArePrompt`: no tick comes beside the one that makes a task due, and
after it the loop is at the task within the handler's time and four steps.

**`FlashDriverProofs`**, in three parts. The first is control: `FlowInv` (who may
see the controller busy), `LaunchInv` (idle, flags down, the command of the
function at work), `RefusedInv` (what became of a refusal or failure) and
`FrameInv` together are inductive and give `LaunchesCount` and
`FailuresAreReported`. The second is data: `CallInv` says how the running call
relates to the request as made; `MemInv` divides the flash, at each position, into
what is written (`Before`), what is under work and what is untouched. `CommandEffect`
says what one command does, `RestGoesOn` that a chunk and the rest of the request
are the request, `WorkIsOrdered` that the three parts lie in that order. The result
is `ProgramsGoInOrder` and `SuccessIsTrue`. Each of these two is shown for driver,
controller, resets and calls apart, so that another client can use it. The third is
`TypeCorrect`: that a longword or a phrase stays one depends on the command under
way (`IsCommand`), and that on the request it comes from, hence on the first two.
From the same invariants the refinement, `DriverImplementsStore`: each step maps to
`Ask`, `Work`, `Answer`, `Forget` or `Crash` of `FlashStore` or to a stutter. The key
is `CommandTouchesFresh`: a command, whole or spoilt, changes longwords of the job
that nothing has changed before. It is the strongest statement about the driver
here: what a longword holds may be unknown after a failure or a reset, but only in
the area asked for, only under a job that reports no success, and once at most.

**`FlashDemoProofs`** is that client: `FlagsInv` adds that a command which ended
well leaves no flag, `MainInv` what main knows at each of its positions, and with
`FlowInv` that no command is running where it makes a call (`CallKeeps`). From
them `TextGetsStored` and `GivesUpOnlyWhenRefused`: end to end, from `main.c`'s
loop to the longwords, with resets anywhere.

The mapping of `FlashDriver` to `FlashStore` is `Store` (`JobOpen` and `Told` say when
a job is open and what the client was told).

Only model-checked: all liveness (`ReceiverIsServed`, `AcceptedIsSent`,
`TransmitterRests`, `MainReturns`, `HandlerReturns`, `CallsReturn`, `MainSettles`,
`ReadingsSettle`), which is out of the prover's reach.
What these rest on besides fairness is proved where it is a matter of safety: the
measure and the rest of the buffered driver (8 and 9) and `OnlyGetCharIsLeftWaiting`.
Every safety property that a passing run checks is proved.

## 6. Not modelled, and why

* The transmit level: the same expression as the receive level, without a caller.
  `Uart_EnableWakeup` and its like: empty in this driver.
* Baud rate and register set-up, the clock, the transceiver's pin (its flag
  `bRts` is in the state), the idle preamble after TE is set.
* More than one channel at a time: channels share nothing.
* The EEPROM flag of four flash functions only changes an address bit. Alignment of
  data pointers: addresses of RAM are not in the model.
* `circ_buff_pop`, `circ_buff_free_space`, `circ_buffer_elements`, `Un_TxISR` and
  `Boot_GetNextByte` of the HAL driver: no caller.
* The ADC polling programs, the polled UART programs, the debug consoles: one
  thread that waits for a flag. The UART driver with callbacks: a table and a call.
* PWM and timer programs: register set-up and one division per update; nothing in
  the repository says what the result must be.
* `ModularizationParadigm`: the body of its `SysTick_Init` is commented out, so no
  tick comes and its task never runs.
* Printing, GPIO, delay loops, generated and vendored code.

What is left is over 1.5 million lines, nearly all of them the register headers
(`IO_Map`, `PDD`) and generated projects that Processor Expert puts in every
directory. They have no state and no control of their own, so the share of lines
that is modelled stays small while the share of the programs with logic is large.

## 7. Plan

Done: both UART drivers, one with its client; the refinement of both receivers, and
of the transmitter for a client that waits, to
`ByteFifo`, and of the HAL driver's sender; the measure behind the buffered driver's
liveness; the bound on what the echo program loses; the sample buffer and its
program; the filters; the tick loops; the
whole flash driver, its refinement to `FlashStore`, and its program; the theorems
above.

Next:

1. Channels 0 and 1 of the buffered driver with a handler put right, for the
   transceiver's release at the end of a message.
2. The transmit side of the buffered driver for a client that overlaps its writes:
   what still holds of the order and the number of bytes on the wire.
