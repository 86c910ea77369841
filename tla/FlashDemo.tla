----------------------------- MODULE FlashDemo -----------------------------
(***************************************************************************)
(* Flash_Driver's main.c: initialise the driver, erase a sector, program a *)
(* text at its start; an error of any of the three stops the program in a  *)
(* loop.  A reset at any moment starts it over.                            *)
(***************************************************************************)
EXTENDS FlashDriver

CONSTANTS
  StartWriteAddress,   \* start_write_address (0x3000), a sector's first
  Payload              \* payload ("Hello world!")

ASSUME DemoAssumption ==
  /\ StartWriteAddress \in Nat
  /\ \E k \in 0..StartWriteAddress : StartWriteAddress = 4 * (SectorSize * k)
  /\ Payload \in Seq(0..FF)

VARIABLE main    \* main's position: a call, its return, the last or a dead loop

demo == <<vars, main>>

Text == StartWriteAddress \div 4

\* The flash may hold an earlier run's text, half of it, or nothing.
DemoInit ==
  /\ Init /\ main = "init"

MainCall(l, next, f, a, d, n) == main = l /\ Enter(f, a, d, n) /\ main' = next

\* Slip: the result is not looked at.
MainResultUnchecked(l, next) ==
  main = l /\ pc = "ready" /\ main' = next /\ UNCHANGED vars

\* What main does with a result: go on, or loop for ever.
MainResult(l, next) ==
  /\ main = l /\ pc = "ready"
  /\ main' = IF u16Err = FLASH_ERR_SUCCESS THEN next ELSE "stuck"
  /\ UNCHANGED vars

Main ==
  \/ \E c \in Clocks : MainCall("init", "inited", "FLASH_Init", 0, <<>>, c)
  \/ MainResult("inited", "erase")
  \/ MainCall("erase", "erased", "FLASH_EraseSector", StartWriteAddress, <<>>, 0)
  \/ MainResult("erased", "program")
  \/ MainCall("program", "programmed", "FLASH_Program", StartWriteAddress, Payload, 0)
  \/ MainResult("programmed", "count")

DemoNext ==
  \/ Main
  \/ (Driver \/ Controller) /\ UNCHANGED main
  \/ Reset /\ main' = "init"

\* The processor runs, the controller ends every command, and there is an end
\* to the resets.
DemoSpec ==
  /\ DemoInit /\ [][DemoNext]_demo
  /\ WF_demo(Main) /\ WF_demo(Driver /\ UNCHANGED main)
  /\ WF_demo(Controller /\ UNCHANGED main)

\* When main counts in its last loop the text is in the flash and the rest of
\* its sector is erased, whatever the sector held and whatever resets came
\* before.
TextIsStored ==
  main = "count" =>
    \A i \in Sector(Text) :
      mem[i] = IF i < Text + (Len(Payload) + 3) \div 4
               THEN [b \in 1..4 |-> ByteAt(Payload, 4 * (i - Text) + b)]
               ELSE Erased

\* main comes to rest in the counting loop or in a dead one.
MainSettles == <>[](main \in {"count", "stuck"})

\* main gives up only if the controller refused a command or failed, never
\* because of what an earlier run or a reset left behind.
StuckMeansRefused == main = "stuck" => refused
=============================================================================
