------------------------- MODULE FlashDriverProofs -------------------------
(***************************************************************************)
(* Theorems about FlashDriver for flash of every size, every request and   *)
(* any number of calls and resets: first how launches and refusals go with *)
(* the position of the driver, then what the flash holds during a call and *)
(* after one that says it succeeded, and last the types, which need both.  *)
(***************************************************************************)
EXTENDS FlashDriver, SequenceTheorems, TLAPS

NoWait == "FLASH_EraseBlock_NoWait"

\* Where the driver is bound to launch a command.
Launching ==
  \/ pc \in {"chunk", "load", "launch"}
  \/ pc = "enter" /\ call.fn \notin StatusFunctions

\* The function at work is the one of the request, and only the wait, or the
\* function that does not wait, ever sees the controller busy.
FlowInv ==
  /\ fstat.ccif \in BOOLEAN /\ refused \in BOOLEAN
  /\ pc \in {"ready", "enter", "chunk", "load", "launch", "wait"}
  /\ request.fn \notin StatusFunctions
  /\ Launching => fstat.ccif /\ ~refused /\ call.fn = request.fn
  /\ pc = "wait" => call.fn = request.fn /\ call.fn # NoWait
  /\ ~fstat.ccif => pc = "wait" \/ (request.fn = NoWait /\ ~Launching)

\* At the launch the flags are down and the command is in FCCOB.
LaunchInv ==
  pc = "launch" =>
    /\ ~fstat.accerr /\ ~fstat.fpviol
    /\ fccob = CommandOf(call)

\* The flags tell of a refusal or a failure until the function has seen them.
RefusedInv ==
  /\ pc = "wait" /\ refused => fstat.ccif /\ FLASH_CheckErrStatus # FLASH_ERR_SUCCESS
  /\ pc = "ready" /\ refused /\ call.fn = request.fn /\ request.fn # NoWait =>
       u16Err # FLASH_ERR_SUCCESS

\* Registers and calls are records: what an assignment to one field leaves alone.
FrameInv ==
  /\ fstat = [ccif |-> fstat.ccif, accerr |-> fstat.accerr,
              fpviol |-> fstat.fpviol, mgstat |-> fstat.mgstat]
  /\ call = Call(call.fn, call.at, call.data, call.n)

Inv == FrameInv /\ FlowInv /\ LaunchInv /\ RefusedInv

LEMMA InitInv == Init => Inv
<1> SUFFICES ASSUME Init PROVE Inv
  OBVIOUS
<1>1. /\ pc = "ready" /\ refused = FALSE /\ request = call
      /\ call = Call("none", 0, <<>>, 0)
      /\ fstat = [ccif |-> TRUE, accerr |-> FALSE, fpviol |-> FALSE, mgstat |-> {}]
  BY DEF Init, ControllerInit
<1>2. FrameInv
  BY <1>1 DEF FrameInv, Call
<1>3. request.fn = "none" /\ request.fn \notin StatusFunctions /\ ~Launching
  BY <1>1 DEF Call, StatusFunctions, Launching
<1>4. FlowInv
  BY <1>1, <1>3 DEF FlowInv
<1>5. QED
  BY <1>1, <1>2, <1>4 DEF Inv, LaunchInv, RefusedInv

\* The client enters a function.
LEMMA EnterKeeps ==
  ASSUME Inv, NEW f, NEW a, NEW d, NEW n, ClientWaits(f), Enter(f, a, d, n)
  PROVE  Inv'
<1>1. /\ pc = "ready" /\ pc' = "enter" /\ fstat' = fstat
      /\ call' = Call(f, a, d, n) /\ call'.fn = f
  BY DEF Enter, controller, Call
<1>2. FrameInv'
  BY <1>1 DEF Inv, FrameInv, Call
<1>3. CASE f \in StatusFunctions
  <2>1. UNCHANGED <<request, refused>> /\ ~Launching /\ ~Launching'
    BY <1>1, <1>3 DEF Enter, Launching
  <2>2. FlowInv'
    BY <1>1, <2>1 DEF Inv, FlowInv
  <2>3. QED
    BY <1>1, <1>2, <2>2 DEF Inv, LaunchInv, RefusedInv
<1>4. CASE f \notin StatusFunctions
  <2>1. fstat.ccif /\ request' = call' /\ refused' = FALSE
    BY <1>4 DEF Enter, ClientWaits
  <2>2. FlowInv'
    BY <1>1, <1>4, <2>1 DEF Inv, FlowInv, Launching
  <2>3. QED
    BY <1>1, <1>2, <2>2 DEF Inv, LaunchInv, RefusedInv
<1>5. QED
  BY <1>3, <1>4

\* The functions that launch nothing, and a parameter that ends a call at once.
LEMMA StatusKeeps ==
  ASSUME Inv, CheckStatus \/ FLASH_Init
  PROVE  Inv'
<1>1. /\ pc = "enter" /\ pc' = "ready" /\ call.fn \in StatusFunctions
      /\ UNCHANGED <<fstat, call, request, refused>>
  BY DEF CheckStatus, FLASH_Init, FLASH_InitWhen, Return, controller, history,
         StatusFunctions
<1>2. ~Launching /\ ~Launching' /\ call.fn # request.fn
  BY <1>1 DEF Launching, Inv, FlowInv
<1>3. FlowInv'
  BY <1>1, <1>2 DEF Inv, FlowInv
<1>4. QED
  BY <1>1, <1>2, <1>3 DEF Inv, FrameInv, LaunchInv, RefusedInv

LEMMA CheckParamKeeps ==
  ASSUME Inv, CheckParam \/ NextChunk
  PROVE  Inv'
<1>1. /\ Launching /\ pc' \in {"ready", "chunk", "load"}
      /\ UNCHANGED <<fstat, call, request, refused>>
  BY DEF CheckParam, NextChunk, Launching, Return, controller, history
<1>2. fstat.ccif /\ ~refused /\ call.fn = request.fn
  BY <1>1 DEF Inv, FlowInv
<1>3. FlowInv'
  BY <1>1, <1>2 DEF Inv, FlowInv
<1>4. QED
  BY <1>1, <1>2, <1>3 DEF Inv, FrameInv, LaunchInv, RefusedInv

LEMMA LoadKeeps ==
  ASSUME Inv, Load
  PROVE  Inv'
<1>1. /\ pc = "load" /\ pc' = "launch"
      /\ fstat' = [fstat EXCEPT !.accerr = FALSE, !.fpviol = FALSE]
      /\ fccob' = IF fstat.ccif THEN CommandOf(call) ELSE fccob
      /\ UNCHANGED <<call, request, refused>>
  BY DEF Load, history
<1>2. Launching /\ fstat.ccif /\ ~refused /\ call.fn = request.fn
  BY <1>1 DEF Launching, Inv, FlowInv
<1>3. fstat' = [ccif |-> TRUE, accerr |-> FALSE, fpviol |-> FALSE,
                mgstat |-> fstat.mgstat]
  BY <1>1, <1>2 DEF Inv, FrameInv, FlowInv
<1>4. FlowInv'
  BY <1>1, <1>2, <1>3 DEF Inv, FlowInv, Launching
<1>5. FrameInv'
  BY <1>1, <1>3 DEF Inv, FrameInv
<1>6. LaunchInv'
  BY <1>1, <1>2, <1>3 DEF LaunchInv
<1>7. QED
  BY <1>1, <1>4, <1>5, <1>6 DEF Inv, RefusedInv

\* The functions that do not look for FPVIOL launch commands that FPROT does not
\* concern.
LEMMA NothingToProtect ==
  ASSUME NEW c, c.fn \in FPVIOLIgnored
  PROVE  ~ProtectionError(CommandOf(c))
<1>1. CASE c.fn \in VerifyFunctions
  <2>1. CommandOf(c).cmd \in Verifies
    BY <1>1 DEF VerifyFunctions, CommandOf, Command, Verifies
  <2>2. QED
    BY <2>1 DEF ProtectionError
<1>2. CASE c.fn \in {"FLASH_VerifyBackdoorKey", "FLASH_SetUserMarginLevel"}
  <2>1. CommandOf(c).cmd \in {"BACKDOOR_ACCESS", "SET_USER_MARGIN_LEVEL"}
    BY <1>2 DEF CommandOf, Command
  <2>2. Target(CommandOf(c)) = {}
    BY <2>1 DEF Target, WholeCommands
  <2>3. QED
    BY <2>2 DEF ProtectionError
<1>3. QED
  BY <1>1, <1>2 DEF FPVIOLIgnored

\* A launch starts the command or leaves a flag that the function looks at.
LEMMA LaunchKeeps ==
  ASSUME Inv, FLASH_LaunchCMD \/ FLASH_EraseBlock_NoWait
  PROVE  Inv'
<1>1. /\ pc = "launch" /\ UNCHANGED <<call, request>>
      /\ refused' = (refused \/ fstat'.accerr \/ fstat'.fpviol)
      /\ \/ pc' = "wait" /\ call.fn # NoWait
         \/ pc' = "ready" /\ call.fn = NoWait
  BY DEF FLASH_LaunchCMD, FLASH_EraseBlock_NoWait, WriteLaunch, Return, NoWait
<1>2. Launching /\ fstat.ccif = TRUE /\ ~refused /\ call.fn = request.fn
  BY <1>1 DEF Launching, Inv, FlowInv
<1>3. ~fstat.accerr /\ ~fstat.fpviol /\ fccob = CommandOf(call)
  BY <1>1 DEF Inv, LaunchInv
<1>4. \/ fstat' = [fstat EXCEPT !.accerr = TRUE]
      \/ fstat' = [fstat EXCEPT !.fpviol = TRUE] /\ ProtectionError(fccob)
      \/ fstat' = [fstat EXCEPT !.ccif = FALSE]
  BY <1>2, <1>3 DEF FLASH_LaunchCMD, FLASH_EraseBlock_NoWait, WriteLaunch, Launched
<1>5. FrameInv'
  BY <1>1, <1>4 DEF Inv, FrameInv
<1>6. ~Launching'
  BY <1>1 DEF Launching
<1>7. \/ fstat'.ccif = TRUE /\ refused' = TRUE /\ fstat'.accerr = TRUE
      \/ /\ fstat'.ccif = TRUE /\ refused' = TRUE /\ fstat'.fpviol = TRUE
         /\ call.fn \notin FPVIOLIgnored
      \/ fstat'.ccif = FALSE /\ refused' = FALSE
  <2>1. CASE fstat' = [fstat EXCEPT !.accerr = TRUE]
    BY <1>1, <1>2, <2>1 DEF Inv, FrameInv
  <2>2. CASE fstat' = [fstat EXCEPT !.fpviol = TRUE] /\ ProtectionError(fccob)
    BY <1>1, <1>2, <1>3, <2>2, NothingToProtect DEF Inv, FrameInv
  <2>3. CASE fstat' = [fstat EXCEPT !.ccif = FALSE]
    BY <1>1, <1>2, <1>3, <2>3 DEF Inv, FrameInv
  <2>4. QED
    BY <1>4, <2>1, <2>2, <2>3
<1>8. FlowInv'
  BY <1>1, <1>2, <1>6, <1>7 DEF Inv, FlowInv
<1>9. refused' => fstat'.ccif /\ FLASH_CheckErrStatus' # FLASH_ERR_SUCCESS
  <2>1. CASE fstat'.accerr = TRUE
    <3>1. 3 \in FLASH_CheckErrStatus'
      BY <2>1 DEF FLASH_CheckErrStatus, FLASH_ERR_ACCESS
    <3>2. QED
      BY <1>7, <3>1 DEF FLASH_ERR_SUCCESS
  <2>2. CASE fstat'.fpviol = TRUE /\ call.fn \notin FPVIOLIgnored
    <3>1. 4 \in FLASH_CheckErrStatus'
      BY <1>1, <2>2 DEF FLASH_CheckErrStatus, FLASH_ERR_PROTECTION
    <3>2. QED
      BY <1>7, <3>1 DEF FLASH_ERR_SUCCESS
  <2>3. QED
    BY <1>7, <2>1, <2>2
<1>10. QED
  BY <1>1, <1>2, <1>5, <1>8, <1>9 DEF Inv, LaunchInv, RefusedInv

\* Out of the loop: the flags of a refusal end the call.
LEMMA FinishKeeps ==
  ASSUME Inv, Finish
  PROVE  Inv'
<1>1. /\ pc = "wait" /\ fstat.ccif /\ UNCHANGED <<fstat, request, refused>>
      /\ \/ /\ FLASH_CheckErrStatus = FLASH_ERR_SUCCESS /\ pc' = "chunk"
            /\ \E at, data : call' = [call EXCEPT !.at = at, !.data = data]
         \/ pc' = "ready" /\ u16Err' = FLASH_CheckErrStatus /\ call' = call
  BY DEF Finish, FinishOn, Return, controller, history
<1>2. /\ call.fn = request.fn /\ ~Launching
      /\ refused => FLASH_CheckErrStatus # FLASH_ERR_SUCCESS
  BY <1>1 DEF Inv, FlowInv, RefusedInv, Launching
<1>3. FrameInv' /\ call'.fn = call.fn
  BY <1>1 DEF Inv, FrameInv, Call
<1>4. FlowInv'
  <2>1. CASE pc' = "chunk"
    BY <1>1, <1>2, <1>3, <2>1 DEF Inv, FlowInv, Launching
  <2>2. CASE pc' = "ready"
    BY <1>1, <1>2, <1>3, <2>2 DEF Inv, FlowInv, Launching
  <2>3. QED
    BY <1>1, <2>1, <2>2
<1>5. QED
  BY <1>1, <1>2, <1>3, <1>4 DEF Inv, LaunchInv, RefusedInv

\* The controller ends a command, or a reset comes.
LEMMA ControllerKeeps ==
  ASSUME Inv, Controller
  PROVE  Inv'
<1>1. UNCHANGED <<pc, call, u16Err, request>> /\ ~fstat.ccif
  BY DEF Controller, CommandDone, CommandFails, driver, history
<1>2. \/ /\ fstat' = [fstat EXCEPT !.ccif = TRUE, !.mgstat = {}]
         /\ refused' = refused
      \/ \E mgstat : /\ fstat' = [fstat EXCEPT !.ccif = TRUE, !.mgstat = mgstat]
                     /\ mgstat # {} /\ refused' = TRUE
  BY DEF Controller, CommandDone, CommandFails, Ends, history
<1>3. FrameInv' /\ fstat'.ccif = TRUE
  BY <1>1, <1>2 DEF Inv, FrameInv
<1>4. ~Launching /\ ~Launching'
  BY <1>1 DEF Inv, FlowInv, Launching
<1>5. FlowInv'
  BY <1>1, <1>2, <1>3, <1>4 DEF Inv, FlowInv
<1>6. pc = "wait" \/ request.fn = NoWait
  BY <1>1 DEF Inv, FlowInv
<1>7. pc = "wait" /\ refused' => FLASH_CheckErrStatus' # FLASH_ERR_SUCCESS
  <2>1. pc = "wait" => ~refused
    BY <1>1 DEF Inv, RefusedInv
  <2>2. pc = "wait" /\ refused' => fstat'.mgstat # {}
    BY <1>2, <2>1 DEF Inv, FrameInv
  <2>3. fstat'.mgstat # {} => 0 \in FLASH_CheckErrStatus'
    BY DEF FLASH_CheckErrStatus, FLASH_ERR_MGSTAT0
  <2>4. QED
    BY <2>2, <2>3 DEF FLASH_ERR_SUCCESS
<1>8. QED
  BY <1>1, <1>3, <1>4, <1>5, <1>6, <1>7 DEF Inv, LaunchInv, RefusedInv, Launching

LEMMA ResetKeeps ==
  ASSUME Inv, Reset
  PROVE  Inv'
<1>1. /\ pc' = "ready" /\ refused' = FALSE /\ request' = call'
      /\ call' = Call("none", 0, <<>>, 0)
      /\ fstat' = [ccif |-> TRUE, accerr |-> FALSE, fpviol |-> FALSE, mgstat |-> {}]
  BY DEF Reset, ControllerReset
<1>2. FrameInv'
  BY <1>1 DEF FrameInv, Call
<1>3. request'.fn = "none" /\ request'.fn \notin StatusFunctions /\ ~Launching'
  BY <1>1 DEF Call, StatusFunctions, Launching
<1>4. FlowInv'
  BY <1>1, <1>3 DEF FlowInv
<1>5. QED
  BY <1>1, <1>2, <1>4 DEF Inv, LaunchInv, RefusedInv

\* Whoever the client is: a step that is not a call.
LEMMA OtherSteps ==
  ASSUME Inv, Driver \/ Controller \/ Reset \/ UNCHANGED vars
  PROVE  Inv'
<1>1. CASE Driver
  BY <1>1, StatusKeeps, CheckParamKeeps, LoadKeeps, LaunchKeeps, FinishKeeps DEF Driver
<1>2. CASE Controller \/ Reset
  BY <1>2, ControllerKeeps, ResetKeeps
<1>3. CASE UNCHANGED vars
  BY <1>3 DEF vars, controller, driver, history, Inv, FrameInv, FlowInv, LaunchInv,
              RefusedInv, Launching, FLASH_CheckErrStatus
<1>4. QED
  BY <1>1, <1>2, <1>3

\* The invariant is inductive.
LEMMA NextInv == Inv /\ [Next]_vars => Inv'
<1> SUFFICES ASSUME Inv, [Next]_vars
             PROVE  Inv'
  OBVIOUS
<1>1. CASE Client
  <2>1. \E f, a, d, n : ClientWaits(f) /\ Enter(f, a, d, n)
    BY <1>1 DEF Client, CallWhenIdle
  <2>2. QED
    BY <2>1, EnterKeeps
<1>2. QED
  BY <1>1, OtherSteps DEF Next

LEMMA Invariant == Spec => []Inv
<1>1. QED
  BY InitInv, NextInv, PTL DEF Spec

\* Whatever is called in whatever order, after FLASH_EraseBlock_NoWait and after
\* a reset too, a command is launched into an idle controller with its flags
\* down, and it is the one of the function at work.
THEOREM LaunchesCount == Spec => []NoLaunchIsLost
<1>1. Inv => NoLaunchIsLost
  BY DEF Inv, FlowInv, LaunchInv, Launching, NoLaunchIsLost
<1>2. QED
  BY <1>1, Invariant, PTL

\* For every request and every state of the flash: once the controller has
\* refused a command or failed, the function launches no other and returns an
\* error, although some functions do not look for FPVIOL.
THEOREM FailuresAreReported == Spec => []FailuresEndTheCall
<1>1. Inv => FailuresEndTheCall
  <2> SUFFICES ASSUME Inv, refused PROVE FailuresEndTheCall
    BY DEF FailuresEndTheCall
  <2>1. pc \notin {"chunk", "load", "launch"}
    BY DEF Inv, FlowInv, Launching
  <2>2. QED
    BY <2>1 DEF FailuresEndTheCall, Inv, RefusedInv, Returned, NoWait
<1>2. QED
  BY <1>1, Invariant, PTL

-----------------------------------------------------------------------------
(***************************************************************************)
(* The commands of the functions.                                          *)
(***************************************************************************)

Program == "FLASH_Program"

MemoryFunctions == {"FLASH_EraseSector", "FLASH_EraseVerifySection"} \cup WholeFunctions

KeyFunctions == {"FLASH_VerifyBackdoorKey", "FLASH_SetUserMarginLevel"}

LaunchFunctions == {Program} \cup MemoryFunctions \cup OnceFunctions \cup KeyFunctions

LEMMA WordsAreNumbers == \A j \in Words : j \in Nat
<1>1. Sectors * SectorSize - 1 \in Int
  BY GeometryAssumption
<1>2. QED
  BY <1>1 DEF Words

\* A function that works on one range of longwords asks for just that range.
LEMMA MemoryCommandIs ==
  ASSUME NEW c, c.fn \in MemoryFunctions
  PROVE  /\ CommandOf(c).cmd \in MemoryCommands \ {"PROGRAM"}
         /\ CommandOf(c).cmd \in Verifies <=> c.fn \in VerifyFunctions
         /\ c.fn = "FLASH_EraseSector" => Target(CommandOf(c)) = Sector(c.at \div 4)
         /\ c.fn = "FLASH_EraseVerifySection" =>
              Target(CommandOf(c)) = c.at \div 4 .. c.at \div 4 + c.n - 1
         /\ c.fn \in WholeFunctions => Target(CommandOf(c)) = Words
<1> USE DEF MemoryCommands, WholeCommands, Verifies, VerifyFunctions, WholeFunctions
<1>1. CASE c.fn = "FLASH_EraseSector"
  <2>1. CommandOf(c) = Command("ERASE_SECTOR", c.at \div 4, 1, <<>>)
    BY <1>1 DEF CommandOf
  <2>2. CommandOf(c).cmd = "ERASE_SECTOR" /\ CommandOf(c).at = c.at \div 4
    BY <2>1 DEF Command
  <2>3. QED
    BY <1>1, <2>2 DEF Target
<1>2. CASE c.fn = "FLASH_EraseVerifySection"
  <2>1. CommandOf(c) = Command("ERASE_VERIFY_SECTION", c.at \div 4, c.n, <<>>)
    BY <1>2 DEF CommandOf
  <2>2. /\ CommandOf(c).cmd = "ERASE_VERIFY_SECTION"
        /\ CommandOf(c).at = c.at \div 4 /\ CommandOf(c).n = c.n
    BY <2>1 DEF Command
  <2>3. QED
    BY <1>2, <2>2 DEF Target
<1>3. CASE c.fn \in WholeFunctions
  <2>1. /\ CommandOf(c).cmd \in WholeCommands
        /\ CommandOf(c).cmd \in Verifies <=> c.fn \in VerifyFunctions
    BY <1>3 DEF CommandOf, Command
  <2>2. Target(CommandOf(c)) = Words
    BY <2>1 DEF Target
  <2>3. QED
    BY <1>3, <2>1, <2>2
<1>4. QED
  BY <1>1, <1>2, <1>3 DEF MemoryFunctions

\* The other functions leave the longwords alone.
LEMMA OtherCommandIs ==
  ASSUME NEW c, c.fn \in OnceFunctions \cup KeyFunctions
  PROVE  /\ CommandOf(c).cmd \notin MemoryCommands
         /\ CommandOf(c).cmd = "PROGRAM_ONCE" <=> c.fn = "FLASH_ProgramOnce"
         /\ CommandOf(c).cmd = "READ_ONCE" <=> c.fn = "FLASH_ReadOnce"
         /\ CommandOf(c).cmd = "SET_USER_MARGIN_LEVEL" <=> c.fn = "FLASH_SetUserMarginLevel"
         /\ c.fn \in OnceFunctions => CommandOf(c).at = c.at
         /\ c.fn = "FLASH_ProgramOnce" => CommandOf(c).data = WordsOf(c.data)
         /\ c.fn = "FLASH_SetUserMarginLevel" => CommandOf(c).n = c.n
<1> USE DEF CommandOf, Command, MemoryCommands, WholeCommands
<1>1. CASE c.fn = "FLASH_ProgramOnce"
  BY <1>1 DEF OnceFunctions
<1>2. CASE c.fn = "FLASH_ReadOnce"
  BY <1>2 DEF OnceFunctions
<1>3. CASE c.fn = "FLASH_VerifyBackdoorKey"
  BY <1>3 DEF OnceFunctions
<1>4. CASE c.fn = "FLASH_SetUserMarginLevel"
  BY <1>4 DEF OnceFunctions
<1>5. QED
  BY <1>1, <1>2, <1>3, <1>4 DEF OnceFunctions, KeyFunctions

LEMMA ProgramCommandIs ==
  ASSUME NEW c, c.fn = Program
  PROVE  /\ CommandOf(c).cmd = "PROGRAM" /\ CommandOf(c).cmd \in MemoryCommands
         /\ CommandOf(c).cmd \notin Verifies
         /\ CommandOf(c).at = c.at \div 4
         /\ CommandOf(c).data =
              [k \in 1 .. ChunkSize(c.data) |-> LongwordOf(c.data, k)]
         /\ Target(CommandOf(c)) =
              c.at \div 4 .. c.at \div 4 + ChunkSize(c.data) - 1
<1>1. CommandOf(c) = Command("PROGRAM", c.at \div 4, ChunkSize(c.data),
                            [k \in 1 .. ChunkSize(c.data) |-> LongwordOf(c.data, k)])
  BY DEF CommandOf, Program
<1>2. /\ CommandOf(c).cmd = "PROGRAM" /\ CommandOf(c).at = c.at \div 4
      /\ CommandOf(c).n = ChunkSize(c.data)
  BY <1>1 DEF Command
<1>3. CommandOf(c).data = [k \in 1 .. ChunkSize(c.data) |-> LongwordOf(c.data, k)]
  BY <1>1 DEF Command
<1>4. Target(CommandOf(c)) =
        c.at \div 4 .. c.at \div 4 + ChunkSize(c.data) - 1
  BY <1>2 DEF Target, WholeCommands
<1>5. QED
  BY <1>2, <1>3, <1>4 DEF MemoryCommands, WholeCommands, Verifies

\* Eight bytes survive being made four words and back.
LEMMA WordsAndBack ==
  ASSUME NEW d \in Seq(0..FF), Len(d) = 8
  PROVE  BytesOf(WordsOf(d)) = d
<1>1. \A b \in 1..8 : BytesOf(WordsOf(d))[b] = d[b]
  <2> SUFFICES ASSUME NEW b \in 1..8 PROVE BytesOf(WordsOf(d))[b] = d[b]
    OBVIOUS
  <2>1. /\ (b + 1) \div 2 \in 1..4
        /\ b % 2 = 1 => 2 * ((b + 1) \div 2) - 1 = b
        /\ b % 2 # 1 => 2 * ((b + 1) \div 2) = b
    OBVIOUS
  <2>2. BytesOf(WordsOf(d))[b] =
          WordsOf(d)[(b + 1) \div 2][IF b % 2 = 1 THEN 2 ELSE 1]
    BY DEF BytesOf
  <2>3. WordsOf(d)[(b + 1) \div 2] =
          <<d[2 * ((b + 1) \div 2)], d[2 * ((b + 1) \div 2) - 1]>>
    BY <2>1 DEF WordsOf
  <2>4. QED
    BY <2>1, <2>2, <2>3
<1>2. d = [b \in 1..8 |-> d[b]]
  BY LenProperties
<1>3. BytesOf(WordsOf(d)) = [b \in 1..8 |-> BytesOf(WordsOf(d))[b]]
  BY DEF BytesOf
<1>4. QED
  BY <1>1, <1>2, <1>3

-----------------------------------------------------------------------------
(***************************************************************************)
(* A call and its request.                                                 *)
(***************************************************************************)

RequestOK ==
  /\ request.fn \in LaunchFunctions
  /\ request.at \in Nat /\ request.n \in Nat /\ request.data \in Seq(0..FF)
  /\ request.fn = "FLASH_ProgramOnce" => Len(request.data) = 8

\* What FLASH_Program has left of its request: the bytes from call.at on.
IsRest ==
  /\ call.fn = Program
  /\ call.at \in Nat /\ call.at >= request.at /\ call.at % 4 = 0
  /\ call.data \in Seq(0..FF)
  /\ Len(call.data) = IF call.at - request.at <= Len(request.data)
                      THEN Len(request.data) - (call.at - request.at)
                      ELSE 0
  /\ \A x \in 1..Len(call.data) :
        call.data[x] = request.data[x + (call.at - request.at)]
  /\ \A j \in Requested : j < call.at \div 4 => j \in Words

\* The call whose command is at work, and that command.
Job == IF request.fn = Program THEN call ELSE request
Cmd == CommandOf(Job)

\* The longwords the command changes.
Writes == IF Cmd.cmd \in MemoryCommands \ Verifies THEN Target(Cmd) ELSE {}

\* What a longword holds when the command begins.
Before(j) ==
  IF request.fn = Program /\ j \in Requested /\ j < call.at \div 4
  THEN Wanted(j)
  ELSE was[j]

\* A longword of the request that is erased or verified.
LEMMA MemoryRequest ==
  ASSUME RequestOK, ~InvalidParam(request), request.fn \in MemoryFunctions
  PROVE  /\ Target(Cmd) = Requested /\ Cmd.cmd \in MemoryCommands
         /\ Cmd.cmd # "PROGRAM"
         /\ Cmd.cmd \in Verifies <=> request.fn \in VerifyFunctions
         /\ Requested \subseteq Int
         /\ \A j : j \in Writes => j \in Requested /\ Wanted(j) = Erased
         /\ \A j : j \notin Writes => Wanted(j) = was[j]
         /\ \A j : Before(j) = was[j]
<1>1. request.fn # Program
  BY DEF MemoryFunctions, WholeFunctions, Program
<1>2. Job = request
  BY <1>1 DEF Job
<1>3. /\ Cmd.cmd \in MemoryCommands \ {"PROGRAM"}
      /\ Cmd.cmd \in Verifies <=> request.fn \in VerifyFunctions
  BY <1>2, MemoryCommandIs DEF Cmd
<1>4. Target(Cmd) = Requested
  <2>1. CASE request.fn = "FLASH_EraseSector"
    BY <1>2, <2>1, MemoryCommandIs DEF Cmd, Requested
  <2>2. CASE request.fn = "FLASH_EraseVerifySection"
    BY <1>2, <2>2, MemoryCommandIs DEF Cmd, Requested
  <2>3. CASE request.fn \in WholeFunctions
    <3>1. Target(Cmd) = Words
      BY <1>2, <2>3, MemoryCommandIs DEF Cmd
    <3>2. Requested = Words
      BY <2>3 DEF Requested, WholeFunctions
    <3>3. QED
      BY <3>1, <3>2
  <2>4. QED
    BY <2>1, <2>2, <2>3 DEF MemoryFunctions
<1>5. Requested \subseteq Int
  <2>1. CASE request.fn = "FLASH_EraseSector"
    BY <2>1, WordsAreNumbers DEF Requested, Sector
  <2>2. CASE request.fn = "FLASH_EraseVerifySection"
    <3>1. request.at \div 4 \in Int /\ request.n \in Int
      BY DEF RequestOK
    <3>2. Requested = request.at \div 4 .. request.at \div 4 + request.n - 1
      BY <2>2 DEF Requested, WholeFunctions
    <3>3. QED
      BY <3>1, <3>2
  <2>3. CASE request.fn \in WholeFunctions
    BY <2>3, WordsAreNumbers DEF Requested, WholeFunctions
  <2>4. QED
    BY <2>1, <2>2, <2>3 DEF MemoryFunctions
<1>6. ASSUME NEW j, j \in Writes PROVE j \in Requested /\ Wanted(j) = Erased
  BY <1>1, <1>3, <1>4, <1>6 DEF Writes, Wanted, Program
<1>7. ASSUME NEW j, j \notin Writes PROVE Wanted(j) = was[j]
  BY <1>1, <1>3, <1>4, <1>7 DEF Writes, Wanted
<1>8. \A j : Before(j) = was[j]
  BY <1>1 DEF Before
<1>9. QED
  BY <1>3, <1>4, <1>5, <1>6, <1>7, <1>8

\* Phrases, key and margin level are nothing to the longwords.
LEMMA OtherRequest ==
  ASSUME RequestOK, request.fn \in OnceFunctions \cup KeyFunctions
  PROVE  /\ Requested = {} /\ Writes = {} /\ Cmd.cmd \notin MemoryCommands
         /\ \A j : Before(j) = was[j] /\ Wanted(j) = was[j]
         /\ Cmd = CommandOf(request)
<1>1. request.fn # Program
  BY DEF OnceFunctions, KeyFunctions, Program
<1>2. Cmd = CommandOf(request)
  BY <1>1 DEF Job, Cmd
<1>3. Requested = {}
  BY DEF Requested, OnceFunctions, KeyFunctions, WholeFunctions
<1>4. Cmd.cmd \notin MemoryCommands
  BY <1>2, OtherCommandIs
<1>5. QED
  BY <1>1, <1>2, <1>3, <1>4 DEF Writes, Before, Wanted

\* How many longwords hold x bytes.
LEMMA LongwordsOf ==
  ASSUME NEW x \in Nat
  PROVE  (x + 3) \div 4 \in Nat /\ x <= 4 * ((x + 3) \div 4)
<1>1. x + 3 \in Nat /\ \A y \in Nat : y \div 4 \in Nat /\ y <= 4 * (y \div 4) + 3
  OBVIOUS
<1>2. (x + 3) \div 4 \in Nat /\ x + 3 <= 4 * ((x + 3) \div 4) + 3
  BY <1>1
<1>3. QED
  BY <1>2

\* Of longwords from p on that begin within x bytes, the last is one of q.
LEMMA LastLongword ==
  ASSUME NEW p \in Nat, NEW n \in Nat, NEW i \in Nat, NEW q \in Nat, NEW x \in Nat,
         4 * (p + n - 1) < 4 * i + x, x <= 4 * q
  PROVE  p + n - 1 <= i + q - 1
OBVIOUS

\* The longwords of a text.
LEMMA TextRequest ==
  ASSUME RequestOK, ~InvalidParam(request), request.fn = Program
  PROVE  /\ request.at % 4 = 0
         /\ Requested = request.at \div 4 ..
                          request.at \div 4 + (Len(request.data) + 3) \div 4 - 1
         /\ Requested \subseteq Nat
<1>1. request.at % 4 = 0
  BY DEF InvalidParam, AlignedFunctions, Program
<1>2. Requested = request.at \div 4 ..
                    request.at \div 4 + (Len(request.data) + 3) \div 4 - 1
  BY DEF Requested, Program, WholeFunctions
<1>3. request.at \div 4 \in Nat /\ (Len(request.data) + 3) \div 4 \in Nat
  <2>1. Len(request.data) \in Nat /\ request.at \in Nat
    BY LenProperties DEF RequestOK
  <2>2. request.at \div 4 \in Nat
    BY <2>1
  <2>3. (Len(request.data) + 3) \div 4 \in Nat
    BY <2>1, LongwordsOf
  <2>4. QED
    BY <2>2, <2>3
<1>4. Requested \subseteq Nat
  <2> DEFINE i == request.at \div 4
             q == (Len(request.data) + 3) \div 4
  <2>1. Requested = i .. i + q - 1 /\ i \in Nat /\ q \in Nat
    BY <1>2, <1>3
  <2> HIDE DEF i, q
  <2>2. QED
    BY <2>1
<1>5. QED
  BY <1>1, <1>2, <1>4

\* The next longwords of a text belong to the request, are as they were, and the
\* command gives them what the request wants.
LEMMA TextChunk ==
  ASSUME RequestOK, ~InvalidParam(request), request.fn = Program,
         IsRest, call.data # <<>>
  PROVE  LET p == call.at \div 4
             n == ChunkSize(call.data)
         IN  /\ Cmd.cmd = "PROGRAM" /\ Cmd.cmd \in MemoryCommands \ Verifies
             /\ Cmd.at = p /\ p \in Nat /\ n \in 1..2
             /\ Target(Cmd) = p .. p + n - 1 /\ Writes = Target(Cmd)
             /\ Writes \subseteq Requested
             /\ \A j \in Writes : Before(j) = was[j]
             /\ \A j \in Writes :
                  Cmd.data[j - p + 1]
                    = [b \in 1..4 |-> ByteAt(request.data, 4 * j + b - request.at)]
<1> DEFINE p == call.at \div 4
           n == ChunkSize(call.data)
           off == call.at - request.at
<1>1. Cmd = CommandOf(call) /\ call.fn = Program
  BY DEF Cmd, Job, IsRest
<1>2. /\ Len(call.data) \in Nat \ {0} /\ Len(request.data) \in Nat
      /\ call.at \in Nat /\ request.at \in Nat
      /\ call.at % 4 = 0 /\ request.at % 4 = 0 /\ call.at >= request.at
  BY EmptySeq, LenProperties, TextRequest DEF IsRest, RequestOK
<1>3. /\ off \in Nat /\ Len(call.data) = Len(request.data) - off
      /\ p \in Nat /\ call.at = 4 * p /\ off = call.at - request.at
      /\ \A x \in 1..Len(call.data) : call.data[x] = request.data[x + off]
  <2>1. off \in Nat /\ off = call.at - request.at
    BY <1>2
  <2>2. Len(call.data) = Len(request.data) - off
    BY <1>2, <2>1 DEF IsRest
  <2>3. p \in Nat /\ call.at = 4 * p
    BY <1>2
  <2>4. \A x \in 1..Len(call.data) : call.data[x] = request.data[x + off]
    BY DEF IsRest
  <2>5. QED
    BY <2>1, <2>2, <2>3, <2>4
<1>4. n \in 1..2 /\ 4 * (n - 1) < Len(call.data)
  BY <1>2 DEF ChunkSize
<1> HIDE DEF off
<1>5. /\ Cmd.cmd = "PROGRAM" /\ Cmd.cmd \in MemoryCommands \ Verifies /\ Cmd.at = p
      /\ Cmd.data = [k \in 1..n |-> LongwordOf(call.data, k)]
      /\ Target(Cmd) = p .. p + n - 1
  BY <1>1, ProgramCommandIs
<1> HIDE DEF p, n
<1>6. Writes = Target(Cmd)
  BY <1>5 DEF Writes
<1>7. Writes \subseteq Requested
  <2>1. p >= request.at \div 4
    BY <1>2, <1>3
  <2>2. p + n - 1 <= request.at \div 4 + (Len(request.data) + 3) \div 4 - 1
    <3>1. request.at = 4 * (request.at \div 4) /\ request.at \div 4 \in Nat
      BY <1>2
    <3>2. 4 * (p + n - 1) < request.at + Len(request.data)
      <4> DEFINE len == Len(call.data)
                 size == Len(request.data)
      <4>1. /\ len = size - off /\ size \in Nat /\ request.at \in Nat
            /\ 4 * p = request.at + off /\ p \in Nat /\ off \in Nat
        BY <1>2, <1>3
      <4>2. n \in Nat /\ 4 * (n - 1) < len
        BY <1>4
      <4> HIDE DEF len, size
      <4>3. 4 * (p + n - 1) < request.at + size
        BY <4>1, <4>2
      <4>4. QED
        BY <4>3 DEF size
    <3> DEFINE i == request.at \div 4
               q == (Len(request.data) + 3) \div 4
    <3>3. q \in Nat /\ Len(request.data) <= 4 * q
      BY <1>2, LongwordsOf
    <3>4. request.at = 4 * i /\ i \in Nat
      BY <3>1
    <3> HIDE DEF i, q
    <3>5. p \in Nat /\ n \in Nat /\ Len(request.data) \in Nat
      BY <1>2, <1>3, <1>4
    <3>6. 4 * (p + n - 1) < 4 * i + Len(request.data)
      BY <3>2, <3>4
    <3>7. p + n - 1 <= i + q - 1
      BY <3>3, <3>4, <3>5, <3>6, LastLongword
    <3>8. QED
      BY <3>7 DEF i, q
  <2> DEFINE i == request.at \div 4
             q == (Len(request.data) + 3) \div 4
  <2>3. i \in Nat /\ q \in Nat
    <3>1. i \in Nat
      BY <1>2
    <3>2. q \in Nat
      BY <1>2, LongwordsOf
    <3>3. QED
      BY <3>1, <3>2
  <2>4. Requested = i .. i + q - 1 /\ Writes = p .. p + n - 1
    BY <1>5, <1>6, TextRequest
  <2>5. p >= i /\ p + n - 1 <= i + q - 1
    BY <2>1, <2>2
  <2> HIDE DEF i, q
  <2>6. QED
    BY <1>3, <1>4, <2>3, <2>4, <2>5
<1>8. \A j \in Writes : Before(j) = was[j]
  BY <1>3, <1>4, <1>5, <1>6 DEF Before
<1>9. ASSUME NEW j \in Writes
      PROVE  Cmd.data[j - p + 1]
               = [b \in 1..4 |-> ByteAt(request.data, 4 * j + b - request.at)]
  <2>1. j \in p .. p + n - 1 /\ j - p + 1 \in 1..n
    BY <1>3, <1>4, <1>5, <1>6
  <2>2. Cmd.data[j - p + 1] = LongwordOf(call.data, j - p + 1)
    BY <1>5, <2>1
  <2>3. \A b \in 1..4 : LongwordOf(call.data, j - p + 1)[b]
                          = ByteAt(request.data, 4 * j + b - request.at)
    <3> SUFFICES ASSUME NEW b \in 1..4
                 PROVE  LongwordOf(call.data, j - p + 1)[b]
                          = ByteAt(request.data, 4 * j + b - request.at)
      OBVIOUS
    <3>1. LongwordOf(call.data, j - p + 1)[b]
            = IF 4 * (j - p) + b <= Len(call.data)
              THEN call.data[4 * (j - p) + b] ELSE FF
      BY <1>3, <2>1 DEF LongwordOf
    <3>2. 4 * j + b - request.at = 4 * (j - p) + b + off
      <4>1. j \in Int /\ p \in Int /\ request.at \in Int
        BY <1>2, <1>3, <2>1
      <4>2. off = 4 * p - request.at
        BY <1>3
      <4>3. QED
        BY <4>1, <4>2
    <3>3. 4 * (j - p) + b <= Len(call.data)
            <=> 4 * (j - p) + b + off <= Len(request.data)
      <4> DEFINE x == 4 * (j - p) + b
                 len == Len(call.data)
                 size == Len(request.data)
      <4>1. x \in Int
        BY <1>3, <2>1
      <4>2. len = size - off /\ size \in Nat /\ off \in Nat
        BY <1>2, <1>3
      <4> HIDE DEF x, len, size
      <4>3. x <= len <=> x + off <= size
        BY <4>1, <4>2
      <4>4. QED
        BY <4>3 DEF x, len, size
    <3>4. 4 * (j - p) + b <= Len(call.data) =>
            call.data[4 * (j - p) + b] = request.data[4 * (j - p) + b + off]
      <4>1. j - p \in Nat /\ Len(call.data) \in Nat
        BY <1>2, <1>3, <2>1
      <4>2. 4 * (j - p) + b <= Len(call.data) => 4 * (j - p) + b \in 1..Len(call.data)
        BY <4>1
      <4>3. QED
        BY <1>3, <4>2
    <3>5. QED
      BY <3>1, <3>2, <3>3, <3>4 DEF ByteAt
  <2>4. QED
    BY <2>2, <2>3 DEF LongwordOf
<1>10. QED
  BY <1>3, <1>4, <1>5, <1>6, <1>7, <1>8, <1>9 DEF p, n

\* ProgramsInOrder of any content of the flash.
Ordered(m) ==
  \A i \in Words :
    /\ m[i] \in {was[i], Wanted(i), Unknown}
    /\ i \notin Requested => m[i] = was[i]
    /\ (request.fn = "FLASH_Program" /\ m[i] # was[i]) =>
         \A j \in Requested :
           /\ j < i - 1 => m[j] = Wanted(j)
           /\ (j < i /\ m[j] # Wanted(j)) => m[i] = Unknown

\* What a request asks for does not change while it is the last one.
LEMMA RequestStays ==
  ASSUME UNCHANGED <<request, was>>
  PROVE  /\ Requested' = Requested
         /\ \A i : Wanted(i)' = Wanted(i)
         /\ ProgramsInOrder' <=> Ordered(mem')
<1>1. Requested' = Requested
  BY DEF Requested, InvalidParam
<1>2. \A i : Wanted(i)' = Wanted(i)
  BY <1>1 DEF Wanted
<1>3. ProgramsInOrder' <=> Ordered(mem')
  BY <1>1, <1>2 DEF ProgramsInOrder, Ordered
<1>4. QED
  BY <1>1, <1>2, <1>3

\* Whether the command under way has not begun to show, is done or has failed,
\* the longwords are in order.
LEMMA WorkIsOrdered ==
  ASSUME RequestOK, ~InvalidParam(request),
         request.fn = Program => IsRest /\ call.data # <<>>,
         NEW m, NEW lost \in BOOLEAN,
         \A j \in Words : m[j] = IF j \in Writes
                                 THEN IF lost THEN Unknown ELSE Wanted(j)
                                 ELSE Before(j)
  PROVE  Ordered(m)
<1>1. CASE request.fn = Program
  <2> DEFINE p == call.at \div 4
             n == ChunkSize(call.data)
  <2>1. /\ p \in Nat /\ n \in 1..2 /\ Writes = p .. p + n - 1
        /\ Writes \subseteq Requested
    BY <1>1, TextChunk
  <2>2. \A j : Before(j) = IF j \in Requested /\ j < p THEN Wanted(j) ELSE was[j]
    BY <1>1 DEF Before
  <2> HIDE DEF p, n
  <2>3. Requested \subseteq Nat
    BY <1>1, TextRequest
  <2>4. ASSUME NEW i \in Words
        PROVE  /\ m[i] \in {was[i], Wanted(i), Unknown}
               /\ i \notin Requested => m[i] = was[i]
    BY <2>1, <2>2
  <2>5. ASSUME NEW i \in Words, m[i] # was[i], NEW j \in Requested
        PROVE  /\ j < i - 1 => m[j] = Wanted(j)
               /\ (j < i /\ m[j] # Wanted(j)) => m[i] = Unknown
    <3>1. i \in Nat /\ j \in Nat /\ (j < i => j \in Words)
      <4>1. Sectors * SectorSize - 1 \in Int
        BY GeometryAssumption
      <4>2. i \in 0 .. Sectors * SectorSize - 1
        BY DEF Words
      <4>3. i \in Nat /\ j \in Nat
        BY <2>3, <4>1, <4>2
      <4>4. j < i => j \in 0 .. Sectors * SectorSize - 1
        BY <4>1, <4>2, <4>3
      <4>5. QED
        BY <4>3, <4>4 DEF Words
    <3>2. i \in Writes \/ i < p
      BY <2>2, <2>5
    <3>3. j < p /\ j < i => j \notin Writes /\ m[j] = Wanted(j)
      BY <2>1, <2>2, <3>1
    <3>4. CASE i < p
      BY <2>1, <3>1, <3>3, <3>4
    <3>5. CASE i \in Writes
      <4>1. i \in p .. p + 1
        BY <2>1, <3>5
      <4>2. j < i - 1 => j < p
        BY <2>1, <3>1, <4>1
      <4>3. j < i /\ m[j] # Wanted(j) => j = p
        BY <2>1, <3>1, <3>3, <4>1
      <4>4. j = p => j \in Writes
        BY <2>1
      <4>5. m[i] = IF lost THEN Unknown ELSE Wanted(i)
        BY <3>5
      <4>6. j < i /\ j \in Writes => m[j] = IF lost THEN Unknown ELSE Wanted(j)
        BY <3>1
      <4>7. j < i /\ m[j] # Wanted(j) => m[i] = Unknown
        BY <4>3, <4>4, <4>5, <4>6
      <4>8. j < i - 1 => j < i
        BY <3>1
      <4>9. QED
        BY <3>3, <4>2, <4>7, <4>8
    <3>6. QED
      BY <3>2, <3>4, <3>5
  <2>6. QED
    BY <2>4, <2>5 DEF Ordered
<1>2. CASE request.fn \in MemoryFunctions
  <2>1. request.fn # Program
    BY <1>2 DEF MemoryFunctions, WholeFunctions, Program
  <2>2. \A i \in Words : /\ m[i] \in {was[i], Wanted(i), Unknown}
                         /\ i \notin Requested => m[i] = was[i]
    BY <1>2, MemoryRequest
  <2>3. QED
    BY <2>1, <2>2 DEF Ordered, Program
<1>3. CASE request.fn \in OnceFunctions \cup KeyFunctions
  <2>1. request.fn # Program
    BY <1>3 DEF OnceFunctions, KeyFunctions, Program
  <2>2. \A i \in Words : m[i] = was[i]
    BY <1>3, OtherRequest
  <2>3. QED
    BY <2>1, <2>2 DEF Ordered, Program
<1>4. QED
  BY <1>1, <1>2, <1>3 DEF RequestOK, LaunchFunctions

\* FLASH_Program goes on behind the longwords it has just programmed.
LEMMA RestGoesOn ==
  ASSUME RequestOK, ~InvalidParam(request), request.fn = Program,
         IsRest, call.data # <<>>, Target(Cmd) \subseteq Words,
         UNCHANGED <<request, was>>,
         call'.fn = call.fn, call'.at = call.at + 4 * ChunkSize(call.data),
         call'.data = SubSeq(call.data, 4 * ChunkSize(call.data) + 1, Len(call.data))
  PROVE  /\ IsRest'
         /\ \A j : Before(j)' = IF j \in Writes THEN Wanted(j) ELSE Before(j)
<1> DEFINE p == call.at \div 4
           n == ChunkSize(call.data)
           off == call.at - request.at
           len == Len(call.data)
           size == Len(request.data)
<1>1. /\ p \in Nat /\ n \in Nat /\ n >= 1 /\ Writes = p .. p + n - 1
      /\ Writes \subseteq Requested /\ Writes \subseteq Words
  BY TextChunk
<1>2. /\ call.at \in Nat /\ request.at \in Nat /\ call.at % 4 = 0
      /\ call.at >= request.at /\ len \in Nat /\ size \in Nat
      /\ call.data \in Seq(0..FF)
  BY LenProperties DEF IsRest, RequestOK
<1>3. /\ off \in Nat /\ call.at = 4 * p /\ call.at = request.at + off
      /\ len = IF off <= size THEN size - off ELSE 0
      /\ \A x \in 1..len : call.data[x] = request.data[x + off]
      /\ \A j \in Requested : j < p => j \in Words
  <2>1. \A y \in Nat : y % 4 = 0 => y = 4 * (y \div 4)
    OBVIOUS
  <2>2. call.at = 4 * p
    BY <1>2, <2>1
  <2>3. off \in Nat /\ call.at = request.at + off
    BY <1>2
  <2>4. QED
    BY <2>2, <2>3 DEF IsRest
<1>4. /\ call'.at = call.at + 4 * n /\ call'.data = SubSeq(call.data, 4 * n + 1, len)
      /\ call'.fn = Program
  BY DEF IsRest
<1>5. Requested \subseteq Nat
  BY TextRequest
<1>6. Requested' = Requested /\ \A j : Wanted(j)' = Wanted(j)
  BY RequestStays
<1>7. request' = request /\ was' = was
  OBVIOUS
<1>8. \A j : Before(j) = IF j \in Requested /\ j < p THEN Wanted(j) ELSE was[j]
  BY DEF Before
<1>9. \A x \in 1..len : call.data[x] \in 0..FF
  BY <1>2, ElementOfSeq
<1>10. size = Len(request.data)
  OBVIOUS
<1>11. SUFFICES
         /\ call'.at \in Nat /\ call'.at >= request.at /\ call'.at % 4 = 0
         /\ call'.at \div 4 = p + n /\ call'.at - request.at = off + 4 * n
         /\ call'.data \in Seq(0..FF)
         /\ Len(call'.data) = IF off + 4 * n <= size THEN size - (off + 4 * n) ELSE 0
         /\ \A x \in 1..Len(call'.data) : call'.data[x] = request.data[x + (off + 4 * n)]
         /\ \A j \in Requested : j < p + n => j \in Words
         /\ \A j \in Requested : j < p + n <=> j < p \/ j \in Writes
  <2>1. IsRest'
    BY <1>4, <1>6, <1>7, <1>10, <1>11 DEF IsRest
  <2>2. \A j : Before(j)' = IF j \in Requested /\ j < p + n THEN Wanted(j) ELSE was[j]
    BY <1>6, <1>7, <1>11 DEF Before
  <2>3. \A j : Before(j)' = IF j \in Writes THEN Wanted(j) ELSE Before(j)
    BY <1>1, <1>8, <1>11, <2>2
  <2>4. QED
    BY <2>1, <2>3
<1> HIDE DEF p, n, off, len, size
<1>12. /\ call'.data \in Seq(0..FF)
       /\ Len(call'.data) = IF 4 * n + 1 <= len THEN len - 4 * n ELSE 0
       /\ \A x \in 1 .. len - 4 * n : call'.data[x] = call.data[4 * n + x]
  <2>1. 4 * n + 1 \in Int /\ len \in Int /\ 4 * n + 1 >= 1
    BY <1>1, <1>2
  <2>2. \A x \in 4 * n + 1 .. len : call.data[x] \in 0..FF
    BY <1>9, <2>1
  <2>3. /\ SubSeq(call.data, 4 * n + 1, len) \in Seq(0..FF)
        /\ Len(SubSeq(call.data, 4 * n + 1, len))
             = IF 4 * n + 1 <= len THEN len - (4 * n + 1) + 1 ELSE 0
        /\ \A i \in 1 .. len - (4 * n + 1) + 1 :
             SubSeq(call.data, 4 * n + 1, len)[i] = call.data[4 * n + 1 + i - 1]
    BY <2>1, <2>2, SubSeqProperties
  <2>4. /\ len - (4 * n + 1) + 1 = len - 4 * n
        /\ \A i \in Int : 4 * n + 1 + i - 1 = 4 * n + i
    BY <1>1, <1>2
  <2>5. \A x \in 1 .. len - 4 * n : x \in Int
    OBVIOUS
  <2>6. QED
    BY <1>4, <2>3, <2>4, <2>5
<1>13. call'.at % 4 = 0 /\ call'.at \div 4 = p + n
  <2>1. call'.at = 4 * (p + n) /\ p + n \in Nat
    BY <1>1, <1>3, <1>4
  <2>2. \A y \in Nat : (4 * y) % 4 = 0 /\ (4 * y) \div 4 = y
    OBVIOUS
  <2>3. QED
    BY <2>1, <2>2
<1>14. call'.at \in Nat /\ call'.at >= request.at /\ call'.at - request.at = off + 4 * n
  <2>1. call'.at = request.at + off + 4 * n
    BY <1>3, <1>4
  <2>2. request.at \in Nat /\ off \in Nat /\ n \in Nat
    BY <1>1, <1>2, <1>3
  <2>3. QED
    BY <2>1, <2>2
<1>15. Len(call'.data) = IF off + 4 * n <= size THEN size - (off + 4 * n) ELSE 0
  BY <1>1, <1>2, <1>3, <1>12
<1>16. ASSUME NEW x \in 1..Len(call'.data)
       PROVE  call'.data[x] = request.data[x + (off + 4 * n)]
  <2>1. x \in 1 .. len - 4 * n /\ 4 * n + x \in 1..len
    <3>1. len \in Nat /\ n \in Nat
      BY <1>1, <1>2
    <3>2. x \in 1 .. IF 4 * n + 1 <= len THEN len - 4 * n ELSE 0
      BY <1>12
    <3>3. QED
      BY <3>1, <3>2
  <2>2. call'.data[x] = call.data[4 * n + x]
    BY <1>12, <2>1
  <2>3. call.data[4 * n + x] = request.data[(4 * n + x) + off]
    BY <1>3, <2>1
  <2>4. (4 * n + x) + off = x + (off + 4 * n)
    BY <1>1, <1>3, <2>1
  <2>5. QED
    BY <2>2, <2>3, <2>4
<1>17. ASSUME NEW j \in Requested
       PROVE  j < p + n <=> j < p \/ j \in Writes
  BY <1>1, <1>5
<1>18. \A j \in Requested : j < p + n => j \in Words
  BY <1>1, <1>3, <1>17
<1>19. QED
  BY <1>12, <1>13, <1>14, <1>15, <1>16, <1>17, <1>18

-----------------------------------------------------------------------------
(***************************************************************************)
(* The invariant: what the call, the command and the flash have to do with *)
(* each other at every point of a function.                                *)
(***************************************************************************)

Busy == pc \in {"chunk", "load", "launch", "wait"}

\* The call is the request, or what FLASH_Program has left of it.
CallInv ==
  /\ request.fn = "none" \/ RequestOK
  /\ Launching \/ pc = "wait" => RequestOK
  /\ pc = "enter" /\ call.fn \notin StatusFunctions => call = request
  /\ pc = "chunk" => request.fn = Program
  /\ Busy => /\ ~InvalidParam(request)
             /\ IF request.fn = Program THEN IsRest ELSE call = request
  /\ pc \in {"load", "launch", "wait"} /\ request.fn = Program => call.data # <<>>

\* A command has been launched for the request.
Underway == pc = "wait" \/ (request.fn = NoWait /\ ~Launching)

Fits == Cmd.cmd \in MemoryCommands => Target(Cmd) \subseteq Words

\* The flash is as the next command of the call finds it.
Untouched ==
  /\ \A j \in Words : mem[j] = Before(j)
  /\ \A i \in Phrases : once[i] = onceWas[i]

Working == Untouched /\ Fits /\ running = Cmd /\ (pc = "wait" => fccob = Cmd)

\* The command has done what it was launched for.
Served ==
  /\ Fits
  /\ \A j \in Words : mem[j] = IF j \in Writes THEN Wanted(j) ELSE Before(j)
  /\ Cmd.cmd \in Verifies => \A i \in Target(Cmd) : mem[i] \in {Erased, Blank, Unknown}
  /\ \A i \in Phrases :
        once[i] = IF request.fn = "FLASH_ProgramOnce" /\ i = request.at
                  THEN WordsOf(request.data) ELSE onceWas[i]
  /\ request.fn = "FLASH_ReadOnce" /\ pc = "wait" => fccob.data = once[request.at]
  /\ request.fn = "FLASH_SetUserMarginLevel" => margin = request.n

MemInv ==
  /\ DOMAIN once = Phrases
  /\ Launching => Untouched
  /\ Underway /\ ~fstat.ccif => Working
  /\ Underway /\ fstat.ccif /\ ~refused => Served

\* What SuccessIsDone says of a call that succeeded.
IsDone ==
  /\ Requested \subseteq Words
  /\ \A i \in Words : mem[i] = Wanted(i)
  /\ request.fn \in VerifyFunctions =>
       \A i \in Requested : mem[i] \in {Erased, Blank, Unknown}
  /\ \A i \in Phrases :
       IF request.fn = "FLASH_ProgramOnce" /\ i = request.at
       THEN BytesOf(once[i]) = request.data
       ELSE once[i] = onceWas[i]
  /\ request.fn = "FLASH_ReadOnce" => BytesOf(once[request.at]) = buffer
  /\ request.fn = "FLASH_SetUserMarginLevel" => margin = request.n

Claims == CallInv /\ MemInv /\ ProgramsInOrder /\ SuccessIsDone

-----------------------------------------------------------------------------
(***************************************************************************)
(* What commands do to the flash.                                          *)
(***************************************************************************)

\* A function that has one command has succeeded when its command has.
LEMMA ServedIsDone ==
  /\ RequestOK /\ ~InvalidParam(request) /\ request.fn # Program /\ Served
  /\ request.fn = "FLASH_ReadOnce" => BytesOf(once[request.at]) = buffer
  => IsDone
<1> SUFFICES ASSUME RequestOK, ~InvalidParam(request), request.fn # Program, Served,
                    request.fn = "FLASH_ReadOnce" => BytesOf(once[request.at]) = buffer
             PROVE  IsDone
  OBVIOUS
<1>1. /\ Requested \subseteq Words
      /\ \A i \in Words : mem[i] = Wanted(i)
      /\ request.fn \in VerifyFunctions =>
           \A i \in Requested : mem[i] \in {Erased, Blank, Unknown}
  <2>1. CASE request.fn \in MemoryFunctions
    BY <2>1, MemoryRequest DEF Served, Fits
  <2>2. CASE request.fn \in OnceFunctions \cup KeyFunctions
    BY <2>2, OtherRequest DEF Served
  <2>3. QED
    BY <2>1, <2>2 DEF RequestOK, LaunchFunctions
<1>2. ASSUME NEW i \in Phrases
      PROVE  IF request.fn = "FLASH_ProgramOnce" /\ i = request.at
             THEN BytesOf(once[i]) = request.data
             ELSE once[i] = onceWas[i]
  BY WordsAndBack DEF Served, RequestOK
<1>3. QED
  BY <1>1, <1>2 DEF IsDone, Served

\* What the command of the request leaves in the longwords, well ended or not.
LEMMA CommandEffect ==
  ASSUME RequestOK, ~InvalidParam(request),
         request.fn = Program => IsRest /\ call.data # <<>>,
         Untouched, running = Cmd
  PROVE  /\ \A j \in Words : Done[j] = IF j \in Writes THEN Wanted(j) ELSE Before(j)
         /\ \A j \in Words : HalfDone[j] = IF j \in Writes THEN Unknown ELSE Before(j)
<1>1. \A j \in Words : mem[j] = Before(j)
  BY DEF Untouched
<1>2. ASSUME NEW j \in Words
      PROVE  HalfDone[j] = IF j \in Writes THEN Unknown ELSE Before(j)
  BY <1>1 DEF HalfDone, Writes
<1>3. ASSUME NEW j \in Words
      PROVE  Done[j] = IF j \in Writes THEN Wanted(j) ELSE Before(j)
  <2>1. CASE request.fn = Program
    <3>1. /\ Cmd.cmd = "PROGRAM" /\ Writes = Target(Cmd) /\ Writes \subseteq Requested
          /\ \A i \in Writes : Before(i) = was[i]
          /\ \A i \in Writes :
               Cmd.data[i - Cmd.at + 1]
                 = [b \in 1..4 |-> ByteAt(request.data, 4 * i + b - request.at)]
      BY <2>1, TextChunk
    <3>2. Done[j] = IF j \notin Target(Cmd) THEN mem[j]
                    ELSE IF mem[j] = Erased THEN Cmd.data[j - Cmd.at + 1] ELSE Unknown
      BY <3>1 DEF Done
    <3>3. j \in Requested =>
            Wanted(j) = IF was[j] = Erased
                        THEN [b \in 1..4 |-> ByteAt(request.data, 4 * j + b - request.at)]
                        ELSE Unknown
      BY <2>1 DEF Wanted, Program, VerifyFunctions
    <3>4. QED
      BY <1>1, <3>1, <3>2, <3>3
  <2>2. CASE request.fn \in MemoryFunctions
    <3>1. /\ Cmd.cmd \in MemoryCommands /\ Cmd.cmd # "PROGRAM"
          /\ j \in Writes => Wanted(j) = Erased
      BY <2>2, MemoryRequest
    <3>2. CASE Cmd.cmd \in Verifies
      BY <1>1, <3>1, <3>2 DEF Done, Writes
    <3>3. CASE Cmd.cmd \notin Verifies
      BY <1>1, <3>1, <3>3 DEF Done, Writes
    <3>4. QED
      BY <3>2, <3>3
  <2>3. CASE request.fn \in OnceFunctions \cup KeyFunctions
    <3>1. Writes = {} /\ Cmd.cmd \notin MemoryCommands /\ Cmd.cmd # "PROGRAM"
      BY <2>3, OtherRequest DEF MemoryCommands
    <3>2. QED
      BY <1>1, <3>1 DEF Done
  <2>4. QED
    BY <2>1, <2>2, <2>3 DEF RequestOK, LaunchFunctions
<1>4. QED
  BY <1>2, <1>3

\* While the request is the last one its command stays, though the client may
\* call a status function.
LEMMA JobStays ==
  ASSUME UNCHANGED <<request, was>>, request.fn # Program \/ call' = call
  PROVE  /\ Cmd' = Cmd /\ Writes' = Writes
         /\ \A j : Before(j)' = Before(j)
<1>1. Requested' = Requested /\ \A i : Wanted(i)' = Wanted(i)
  BY RequestStays
<1>2. Cmd' = Cmd
  BY DEF Cmd, Job
<1>3. Writes' = Writes
  BY <1>2 DEF Writes
<1>4. \A j : Before(j)' = Before(j)
  BY <1>1 DEF Before
<1>5. QED
  BY <1>2, <1>3, <1>4

\* A step that leaves controller and request alone leaves what is known of them.
LEMMA QuietStep ==
  ASSUME UNCHANGED <<controller, request, was, onceWas>>,
         request.fn # Program \/ call' = call
  PROVE  /\ Untouched' <=> Untouched
         /\ Working /\ (pc' = "wait" => pc = "wait") => Working'
         /\ Served /\ (pc' = "wait" => pc = "wait") => Served'
         /\ ProgramsInOrder' <=> ProgramsInOrder
<1>1. /\ Cmd' = Cmd /\ Writes' = Writes /\ \A j : Before(j)' = Before(j)
      /\ \A i : Wanted(i)' = Wanted(i)
  BY JobStays, RequestStays
<1>2. UNCHANGED <<mem, once, margin, fccob, running>>
  BY DEF controller
<1>3. Untouched' <=> Untouched
  BY <1>1, <1>2 DEF Untouched
<1>4. Fits' <=> Fits
  BY <1>1 DEF Fits
<1>5. ProgramsInOrder' <=> ProgramsInOrder
  BY <1>2, RequestStays DEF ProgramsInOrder, Ordered
<1>6. QED
  BY <1>1, <1>2, <1>3, <1>4, <1>5 DEF Working, Served

-----------------------------------------------------------------------------
(***************************************************************************)
(* The steps of the client and the driver.                                 *)
(***************************************************************************)

LEMMA InitClaims == Init => Claims
<1> SUFFICES ASSUME Init PROVE Claims
  OBVIOUS
<1>1. /\ pc = "ready" /\ request.fn = "none" /\ request.fn # NoWait
      /\ was = mem /\ onceWas = once /\ DOMAIN once = Phrases
  BY DEF Init, ControllerInit, Call, NoWait
<1>2. ~Launching /\ ~Busy /\ ~Underway
  BY <1>1 DEF Launching, Busy, Underway
<1>3. CallInv
  BY <1>1, <1>2 DEF CallInv, Busy
<1>4. MemInv
  BY <1>1, <1>2 DEF MemInv
<1>5. ProgramsInOrder
  BY <1>1 DEF ProgramsInOrder
<1>6. Requested = {}
  BY <1>1 DEF Requested, InvalidParam, AlignedFunctions, OnceFunctions, WholeFunctions
<1>7. SuccessIsDone
  BY <1>1, <1>6 DEF SuccessIsDone, Wanted, VerifyFunctions
<1>8. QED
  BY <1>3, <1>4, <1>5, <1>7 DEF Claims

\* A call of a status function.
LEMMA EnterStatus ==
  ASSUME Inv, Claims, NEW f \in StatusFunctions, NEW a, NEW d, NEW n, Enter(f, a, d, n)
  PROVE  Claims'
<1>1. /\ pc = "ready" /\ pc' = "enter" /\ call'.fn \in StatusFunctions
      /\ UNCHANGED <<controller, request, was, onceWas, refused>>
  BY DEF Enter, Call
<1>2. ~Launching /\ ~Launching' /\ ~Busy' /\ fstat' = fstat
  BY <1>1 DEF Launching, Busy, controller
<1>3. CallInv'
  BY <1>1, <1>2 DEF Claims, CallInv, Busy, RequestOK
<1>4. Underway' => Underway /\ request.fn # Program
  BY <1>1, <1>2 DEF Underway, NoWait, Program
<1>5. Underway' /\ ~fstat'.ccif => Working'
  BY <1>1, <1>2, <1>4, QuietStep DEF Claims, MemInv
<1>6. Underway' /\ fstat'.ccif /\ ~refused' => Served'
  BY <1>1, <1>2, <1>4, QuietStep DEF Claims, MemInv
<1>7. MemInv'
  BY <1>1, <1>2, <1>5, <1>6 DEF Claims, MemInv, controller
<1>8. ProgramsInOrder'
  BY <1>1, RequestStays DEF Claims, ProgramsInOrder, Ordered, controller
<1>9. SuccessIsDone'
  BY <1>1 DEF SuccessIsDone, Returned
<1>10. QED
  BY <1>3, <1>7, <1>8, <1>9 DEF Claims

\* A call of a function that launches commands.
LEMMA EnterLaunch ==
  ASSUME Inv, Claims, NEW f \in LaunchFunctions, NEW a \in Nat, NEW d \in Seq(0..FF),
         NEW n \in Nat, f = "FLASH_ProgramOnce" => Len(d) = 8, Enter(f, a, d, n)
  PROVE  Claims'
<1>1. f \notin StatusFunctions
  BY DEF LaunchFunctions, MemoryFunctions, WholeFunctions, OnceFunctions, KeyFunctions,
         StatusFunctions, Program
<1>2. /\ pc' = "enter" /\ call' = Call(f, a, d, n) /\ request' = call'
      /\ was' = mem /\ onceWas' = once /\ UNCHANGED controller
  BY <1>1 DEF Enter
<1>3. /\ request'.fn = f /\ request'.at = a /\ request'.data = d /\ request'.n = n
      /\ mem' = mem /\ once' = once
  BY <1>2 DEF Call, controller
<1>4. Launching' /\ ~Busy' /\ ~Underway'
  BY <1>1, <1>2, <1>3 DEF Launching, Busy, Underway
<1>5. RequestOK'
  BY <1>3 DEF RequestOK
<1>6. CallInv'
  BY <1>2, <1>4, <1>5 DEF CallInv, Busy
<1>7. ASSUME NEW j PROVE Before(j)' = was'[j]
  <2>1. CASE InvalidParam(request)'
    BY <2>1 DEF Before, Requested
  <2>2. CASE ~InvalidParam(request)' /\ f = Program
    <3>1. Requested' = request'.at \div 4 ..
                         request'.at \div 4 + (Len(request'.data) + 3) \div 4 - 1
      BY <1>3, <2>2 DEF Requested, Program, WholeFunctions
    <3>2. j \in Requested' => ~(j < request'.at \div 4)
      <4> DEFINE i == request'.at \div 4
                 q == (Len(request'.data) + 3) \div 4
      <4>1. i \in Nat
        BY <1>3
      <4>2. q \in Nat
        BY <1>3, LenProperties, LongwordsOf
      <4>3. Requested' = i .. i + q - 1
        BY <3>1
      <4> HIDE DEF i, q
      <4>4. j \in Requested' => ~(j < i)
        BY <4>1, <4>2, <4>3
      <4>5. QED
        BY <4>4 DEF i
    <3>3. QED
      BY <1>2, <3>2 DEF Before
  <2>3. CASE f # Program
    BY <1>3, <2>3 DEF Before
  <2>4. QED
    BY <2>1, <2>2, <2>3
<1>8. MemInv'
  BY <1>2, <1>3, <1>4, <1>7 DEF Claims, MemInv, Untouched
<1>9. ProgramsInOrder'
  BY <1>2, <1>3 DEF ProgramsInOrder
<1>10. SuccessIsDone'
  BY <1>2 DEF SuccessIsDone, Returned
<1>11. QED
  BY <1>6, <1>8, <1>9, <1>10 DEF Claims

LEMMA ClientKeeps ==
  ASSUME Inv, Claims, Client
  PROVE  Claims'
<1> USE DEF CallWhenIdle, LaunchFunctions, MemoryFunctions, OnceFunctions, KeyFunctions, Program
<1>1. /\ <<>> \in Seq(0..FF) /\ 0 \in Nat
      /\ \A a \in Addresses \cup Counts \cup Indexes \cup Levels : a \in Nat
      /\ \A p \in Payloads : p \in Seq(0..FF)
  BY RequestsAssumption
<1>2. CASE \E c \in Clocks : CallWhenIdle("FLASH_Init", 0, <<>>, c)
  BY <1>2, EnterStatus DEF StatusFunctions
<1>3. CASE \E a \in Addresses, p \in Payloads : CallWhenIdle("FLASH_Program", a, p, 0)
  BY <1>1, <1>3, EnterLaunch
<1>4. CASE \E a \in Addresses : CallWhenIdle("FLASH_EraseSector", a, <<>>, 0)
  BY <1>1, <1>4, EnterLaunch
<1>5. CASE \E a \in Addresses, n \in Counts :
             CallWhenIdle("FLASH_EraseVerifySection", a, <<>>, n)
  BY <1>1, <1>5, EnterLaunch
<1>6. CASE \E i \in Indexes, p \in Payloads :
             Len(p) = 8 /\ CallWhenIdle("FLASH_ProgramOnce", i, p, 0)
  BY <1>1, <1>6, EnterLaunch
<1>7. CASE \E i \in Indexes : CallWhenIdle("FLASH_ReadOnce", i, <<>>, 0)
  BY <1>1, <1>7, EnterLaunch
<1>8. CASE \E p \in Payloads : Len(p) = 8 /\ CallWhenIdle("FLASH_VerifyBackdoorKey", 0, p, 0)
  BY <1>1, <1>8, EnterLaunch
<1>9. CASE \E l \in Levels : CallWhenIdle("FLASH_SetUserMarginLevel", 0, <<>>, l)
  BY <1>1, <1>9, EnterLaunch
<1>10. CASE \E f \in WholeFunctions \cup {"FLASH_CheckErrStatus"} : CallWhenIdle(f, 0, <<>>, 0)
  <2>1. PICK f \in WholeFunctions \cup {"FLASH_CheckErrStatus"} : CallWhenIdle(f, 0, <<>>, 0)
    BY <1>10
  <2>2. CASE f \in WholeFunctions
    <3>1. f # "FLASH_ProgramOnce"
      BY <2>2 DEF WholeFunctions
    <3>2. QED
      BY <1>1, <2>1, <2>2, <3>1, EnterLaunch
  <2>3. CASE f = "FLASH_CheckErrStatus"
    BY <2>1, <2>3, EnterStatus DEF StatusFunctions
  <2>4. QED
    BY <2>1, <2>2, <2>3
<1>11. QED
  BY <1>2, <1>3, <1>4, <1>5, <1>6, <1>7, <1>8, <1>9, <1>10 DEF Client

\* The status functions.
LEMMA StatusClaims ==
  ASSUME Inv, Claims, CheckStatus \/ FLASH_Init
  PROVE  Claims'
<1>1. /\ pc = "enter" /\ pc' = "ready" /\ call.fn \in StatusFunctions
      /\ UNCHANGED <<mem, once, margin, fstat, fccob, running, call, history>>
  BY DEF CheckStatus, FLASH_Init, FLASH_InitWhen, Return, controller, StatusFunctions
<1>2. ~Launching /\ ~Launching' /\ ~Busy' /\ UNCHANGED <<request, was, onceWas, refused>>
  BY <1>1 DEF Launching, Busy, history
<1>3. CallInv'
  BY <1>1, <1>2 DEF Claims, CallInv, Busy, RequestOK
<1>4. Cmd' = Cmd /\ Writes' = Writes /\ \A j : Before(j)' = Before(j)
  BY <1>1, <1>2, JobStays
<1>5. \A i : Wanted(i)' = Wanted(i)
  BY <1>2, RequestStays
<1>6. Underway' => Underway
  BY <1>1, <1>2 DEF Underway
<1>7. (Working => Working') /\ (Served => Served')
  BY <1>1, <1>2, <1>4, <1>5 DEF Working, Served, Untouched, Fits
<1>8. MemInv'
  BY <1>1, <1>2, <1>6, <1>7 DEF Claims, MemInv
<1>9. ProgramsInOrder'
  BY <1>1, <1>2, RequestStays DEF Claims, ProgramsInOrder, Ordered
<1>10. SuccessIsDone'
  BY <1>1, <1>2 DEF Inv, FlowInv, SuccessIsDone, Returned
<1>11. QED
  BY <1>3, <1>8, <1>9, <1>10 DEF Claims

\* A good parameter leads to the first chunk or the only command, a bad one back.
LEMMA CheckParamClaims ==
  ASSUME Inv, Claims, CheckParam
  PROVE  Claims'
<1>1. /\ pc = "enter" /\ call.fn \notin StatusFunctions
      /\ UNCHANGED <<controller, call, request, was, onceWas, refused>>
      /\ \/ InvalidParam(call) /\ pc' = "ready" /\ u16Err' = FLASH_ERR_INVALID_PARAM
         \/ /\ ~InvalidParam(call)
            /\ pc' = IF call.fn = "FLASH_Program" THEN "chunk" ELSE "load"
  BY DEF CheckParam, Return, history
<1>2. Launching /\ RequestOK /\ call = request /\ Untouched /\ DOMAIN once = Phrases
  BY <1>1 DEF Launching, Claims, CallInv, MemInv
<1>3. Untouched'
  BY <1>1, <1>2, QuietStep
<1>4. RequestOK'
  BY <1>1, <1>2 DEF RequestOK
<1>5. ProgramsInOrder'
  BY <1>1, QuietStep DEF Claims
<1>6. SuccessIsDone'
  <2>1. pc' = "ready" => u16Err' # FLASH_ERR_SUCCESS
    BY <1>1 DEF FLASH_ERR_INVALID_PARAM, FLASH_ERR_SUCCESS
  <2>2. QED
    BY <2>1 DEF SuccessIsDone, Returned
<1>7. DOMAIN once' = Phrases
  BY <1>1, <1>2 DEF controller
<1>8. CASE InvalidParam(call)
  <2>1. pc' = "ready" /\ ~Launching' /\ ~Busy'
    BY <1>1, <1>8 DEF Launching, Busy
  <2>2. request.fn # NoWait
    BY <1>2, <1>8 DEF InvalidParam, AlignedFunctions, OnceFunctions, NoWait
  <2>3. ~Underway'
    BY <1>1, <2>1, <2>2 DEF Underway
  <2>4. CallInv' /\ MemInv'
    BY <1>4, <1>7, <2>1, <2>3 DEF CallInv, MemInv, Busy
  <2>5. QED
    BY <1>5, <1>6, <2>4 DEF Claims
<1>9. CASE ~InvalidParam(call)
  <2>1. pc' = IF request.fn = Program THEN "chunk" ELSE "load"
    BY <1>1, <1>2, <1>9 DEF Program
  <2>2. Launching' /\ Busy' /\ ~Underway'
    BY <2>1 DEF Launching, Busy, Underway
  <2>3. (~InvalidParam(request))'
    BY <1>1, <1>2, <1>9 DEF InvalidParam
  <2>4. ASSUME request.fn = Program PROVE IsRest'
    <3>1. /\ call.at \in Nat /\ call.at % 4 = 0 /\ Len(call.data) \in Nat
          /\ call.data \in Seq(0..FF)
      BY <1>2, <1>9, <2>4, LenProperties DEF RequestOK, InvalidParam, AlignedFunctions, Program
    <3>2. call.at - call.at = 0 /\ \A x \in 1..Len(call.data) : x + 0 = x
      BY <3>1
    <3>3. \A j \in Requested : ~(j < call.at \div 4)
      <4> DEFINE i == call.at \div 4
                 q == (Len(call.data) + 3) \div 4
      <4>1. i \in Nat
        BY <3>1
      <4>2. q \in Nat
        BY <3>1, LongwordsOf
      <4>3. Requested = i .. i + q - 1
        BY <1>2, <1>9, <2>4, TextRequest
      <4> HIDE DEF i, q
      <4>4. \A j \in Requested : ~(j < i)
        BY <4>1, <4>2, <4>3
      <4>5. QED
        BY <4>4 DEF i
    <3>4. IsRest
      BY <1>2, <2>4, <3>1, <3>2, <3>3 DEF IsRest
    <3>5. Requested' = Requested
      BY <1>1, RequestStays
    <3>6. QED
      BY <1>1, <3>4, <3>5 DEF IsRest
  <2>5. CallInv'
    BY <1>1, <1>2, <1>4, <2>1, <2>2, <2>3, <2>4 DEF CallInv, Busy
  <2>6. MemInv'
    BY <1>3, <1>7, <2>2 DEF MemInv
  <2>7. QED
    BY <1>5, <1>6, <2>5, <2>6 DEF Claims
<1>10. QED
  BY <1>8, <1>9

\* A text of which nothing is left is all in the flash.
LEMMA AllWritten ==
  ASSUME RequestOK, ~InvalidParam(request), request.fn = Program,
         IsRest, call.data = <<>>, Untouched
  PROVE  IsDone
<1> DEFINE i == request.at \div 4
           q == (Len(request.data) + 3) \div 4
           p == call.at \div 4
           size == Len(request.data)
<1>1. /\ call.at \in Nat /\ call.at >= request.at /\ request.at \in Nat /\ size \in Nat
      /\ call.at % 4 = 0 /\ request.at % 4 = 0
  BY LenProperties, TextRequest DEF IsRest, RequestOK
<1>2. size <= call.at - request.at
  <2>1. Len(call.data) = 0
    BY EmptySeq
  <2>2. QED
    BY <1>1, <2>1 DEF IsRest
<1>3. i \in Nat /\ request.at = 4 * i
  BY <1>1
<1>4. p \in Nat /\ call.at = 4 * p
  BY <1>1
<1>5. q \in Nat /\ \A y \in Nat : size <= 4 * y => q <= y
  <2>1. q \in Nat
    BY <1>1, LongwordsOf
  <2>2. ASSUME NEW x \in Nat, NEW y \in Nat, x <= 4 * y PROVE (x + 3) \div 4 <= y
    BY <2>2
  <2>3. QED
    BY <1>1, <2>1, <2>2
<1>6. Requested = i .. i + q - 1
  BY TextRequest
<1>7. \A j : Before(j) = IF j \in Requested /\ j < p THEN Wanted(j) ELSE was[j]
  BY DEF Before
<1>8. \A j \in Requested : j < p => j \in Words
  BY DEF IsRest
<1> HIDE DEF i, q, p, size
<1>9. i + q <= p
  <2>1. p - i \in Nat /\ size <= 4 * (p - i)
    BY <1>1, <1>2, <1>3, <1>4
  <2>2. q <= p - i
    BY <1>5, <2>1
  <2>3. QED
    BY <1>3, <1>4, <1>5, <2>2
<1>10. \A j \in Requested : j < p
  BY <1>3, <1>4, <1>5, <1>6, <1>9
<1>11. \A j \in Words : mem[j] = Wanted(j)
  BY <1>7, <1>10 DEF Untouched, Wanted
<1>12. QED
  BY <1>8, <1>10, <1>11 DEF IsDone, Untouched, Program, VerifyFunctions

\* FLASH_Program goes on with the next chunk, or is done.
LEMMA NextChunkClaims ==
  ASSUME Inv, Claims, NextChunk
  PROVE  Claims'
<1>1. /\ pc = "chunk" /\ UNCHANGED <<controller, buffer, call, request, was, onceWas, refused>>
      /\ \/ call.data = <<>> /\ pc' = "ready"
         \/ call.data # <<>> /\ pc' = "load"
  BY DEF NextChunk, Return, history
<1>2. /\ Launching /\ RequestOK /\ request.fn = Program /\ ~InvalidParam(request)
      /\ IsRest /\ Untouched /\ DOMAIN once = Phrases
  BY <1>1 DEF Launching, Claims, CallInv, MemInv, Busy
<1>3. RequestOK' /\ (~InvalidParam(request))' /\ Requested' = Requested
  BY <1>1, <1>2, RequestStays DEF RequestOK, InvalidParam
<1>4. IsRest'
  BY <1>1, <1>2, <1>3 DEF IsRest
<1>5. ~Underway' /\ DOMAIN once' = Phrases /\ Untouched'
  <2>1. ~(pc' = "wait") /\ request'.fn # NoWait
    BY <1>1, <1>2 DEF Program, NoWait
  <2>2. QED
    BY <1>1, <1>2, <2>1, QuietStep DEF Underway, controller
<1>6. CallInv' /\ MemInv'
  BY <1>1, <1>2, <1>3, <1>4, <1>5 DEF CallInv, MemInv, Busy, Launching
<1>7. ProgramsInOrder'
  BY <1>1, QuietStep DEF Claims
<1>8. SuccessIsDone'
  <2>1. CASE call.data = <<>>
    <3>1. IsDone
      BY <1>2, <2>1, AllWritten
    <3>2. IsDone'
      BY <1>1, <1>3, <3>1, RequestStays DEF IsDone, controller
    <3>3. QED
      BY <3>2 DEF SuccessIsDone, IsDone
  <2>2. CASE call.data # <<>>
    BY <1>1, <2>2 DEF SuccessIsDone, Returned
  <2>3. QED
    BY <2>1, <2>2
<1>9. QED
  BY <1>6, <1>7, <1>8 DEF Claims

LEMMA LoadClaims ==
  ASSUME Inv, Claims, Load
  PROVE  Claims'
<1>1. /\ pc = "load" /\ pc' = "launch"
      /\ UNCHANGED <<mem, once, margin, running, call, request, was, onceWas, refused>>
  BY DEF Load, history
<1>2. /\ Launching /\ Launching' /\ Busy /\ Busy' /\ ~Underway'
  BY <1>1 DEF Launching, Busy, Underway
<1>3. /\ RequestOK /\ Untouched /\ DOMAIN once = Phrases /\ ~InvalidParam(request)
      /\ IF request.fn = Program THEN IsRest /\ call.data # <<>> ELSE call = request
  BY <1>1, <1>2 DEF Claims, CallInv, MemInv
<1>4. /\ RequestOK' /\ (~InvalidParam(request))' /\ Requested' = Requested
      /\ (IsRest' <=> IsRest)
  BY <1>1, <1>3, RequestStays DEF RequestOK, InvalidParam, IsRest
<1>5. Untouched'
  BY <1>1, <1>3, JobStays DEF Untouched
<1>6. CallInv' /\ MemInv'
  BY <1>1, <1>2, <1>3, <1>4, <1>5 DEF CallInv, MemInv
<1>7. ProgramsInOrder'
  BY <1>1, RequestStays DEF Claims, ProgramsInOrder, Ordered
<1>8. QED
  BY <1>1, <1>6, <1>7 DEF Claims, SuccessIsDone, Returned

\* The command starts on longwords that exist, or is refused.
LEMMA LaunchClaims ==
  ASSUME Inv, Claims, FLASH_LaunchCMD \/ FLASH_EraseBlock_NoWait
  PROVE  Claims'
<1>1. /\ pc = "launch" /\ UNCHANGED <<mem, once, margin, fccob, call, request, was, onceWas>>
      /\ refused' = (refused \/ fstat'.accerr \/ fstat'.fpviol)
      /\ \/ pc' = "wait"
         \/ pc' = "ready" /\ call.fn = NoWait
  BY DEF FLASH_LaunchCMD, FLASH_EraseBlock_NoWait, WriteLaunch, Launched, Return, NoWait
<1>2. /\ Launching /\ Busy /\ fstat.ccif = TRUE /\ ~refused /\ call.fn = request.fn
      /\ ~fstat.accerr /\ ~fstat.fpviol /\ fccob = CommandOf(call)
  BY <1>1 DEF Launching, Busy, Inv, FlowInv, LaunchInv
<1>3. /\ RequestOK /\ Untouched /\ DOMAIN once = Phrases /\ ~InvalidParam(request)
      /\ IF request.fn = Program THEN IsRest /\ call.data # <<>> ELSE call = request
  BY <1>1, <1>2 DEF Claims, CallInv, MemInv
<1>4. fccob = Cmd
  BY <1>2, <1>3 DEF Cmd, Job
<1>5. \/ fstat' = [fstat EXCEPT !.accerr = TRUE]
      \/ fstat' = [fstat EXCEPT !.fpviol = TRUE]
      \/ fstat' = [fstat EXCEPT !.ccif = FALSE] /\ running' = fccob /\ ~AccessError(fccob)
  BY <1>2 DEF FLASH_LaunchCMD, FLASH_EraseBlock_NoWait, WriteLaunch, Launched
<1>6. \/ fstat'.ccif = TRUE /\ refused' = TRUE
      \/ fstat'.ccif = FALSE /\ running' = Cmd /\ Fits
  <2>1. CASE fstat' = [fstat EXCEPT !.accerr = TRUE]
    BY <1>1, <1>2, <2>1 DEF Inv, FrameInv
  <2>2. CASE fstat' = [fstat EXCEPT !.fpviol = TRUE]
    BY <1>1, <1>2, <2>2 DEF Inv, FrameInv
  <2>3. CASE fstat' = [fstat EXCEPT !.ccif = FALSE] /\ running' = fccob /\ ~AccessError(fccob)
    BY <1>4, <2>3 DEF Inv, FrameInv, AccessError, Fits
  <2>4. QED
    BY <1>5, <2>1, <2>2, <2>3
<1>7. Cmd' = Cmd /\ Writes' = Writes /\ \A j : Before(j)' = Before(j)
  BY <1>1, JobStays
<1>8. fstat'.ccif = FALSE => Working'
  BY <1>1, <1>3, <1>4, <1>6, <1>7 DEF Working, Untouched, Fits
<1>9. /\ RequestOK' /\ (~InvalidParam(request))' /\ Requested' = Requested
      /\ (IsRest' <=> IsRest)
  BY <1>1, <1>3, RequestStays DEF RequestOK, InvalidParam, IsRest
<1>10. ~Launching' /\ pc' # "enter" /\ pc' # "chunk" /\ pc' \notin {"load", "launch"}
  BY <1>1 DEF Launching
<1>11. CallInv'
  BY <1>1, <1>3, <1>9, <1>10 DEF CallInv, Busy
<1>12. MemInv'
  BY <1>1, <1>3, <1>6, <1>8, <1>10 DEF MemInv
<1>13. ProgramsInOrder'
  BY <1>1, RequestStays DEF Claims, ProgramsInOrder, Ordered
<1>14. SuccessIsDone'
  BY <1>1, <1>2, <1>6 DEF SuccessIsDone, Returned, NoWait
<1>15. QED
  BY <1>11, <1>12, <1>13, <1>14 DEF Claims

\* FLASH_Program goes on, or the call ends with what the flags say.
LEMMA FinishClaims ==
  ASSUME Inv, Claims, Finish
  PROVE  Claims'
<1>1. /\ pc = "wait" /\ fstat.ccif /\ UNCHANGED <<controller, request, was, onceWas, refused>>
      /\ buffer' = IF call.fn = "FLASH_ReadOnce" THEN BytesOf(fccob.data) ELSE buffer
      /\ \/ /\ call.fn = Program /\ FLASH_CheckErrStatus = FLASH_ERR_SUCCESS
            /\ pc' = "chunk"
            /\ call' = [call EXCEPT
                 !.at = @ + 4 * ChunkSize(call.data),
                 !.data = SubSeq(@, 4 * ChunkSize(@) + 1, Len(@))]
         \/ /\ ~(call.fn = Program /\ FLASH_CheckErrStatus = FLASH_ERR_SUCCESS)
            /\ pc' = "ready" /\ u16Err' = FLASH_CheckErrStatus /\ call' = call
  BY DEF Finish, FinishOn, Return, history, Program
<1>2. /\ ~Launching /\ Busy /\ Underway /\ call.fn = request.fn /\ call.fn # NoWait
      /\ refused \in BOOLEAN
      /\ refused => FLASH_CheckErrStatus # FLASH_ERR_SUCCESS
  BY <1>1 DEF Launching, Busy, Underway, Inv, FlowInv, RefusedInv
<1>3. /\ RequestOK /\ DOMAIN once = Phrases /\ ~InvalidParam(request)
      /\ IF request.fn = Program THEN IsRest /\ call.data # <<>> ELSE call = request
      /\ ~refused => Served
  BY <1>1, <1>2 DEF Claims, CallInv, MemInv
<1>4. /\ RequestOK' /\ (~InvalidParam(request))' /\ Requested' = Requested
      /\ \A i : Wanted(i)' = Wanted(i)
      /\ UNCHANGED <<mem, once, margin, fstat, fccob>>
  BY <1>1, <1>3, RequestStays DEF RequestOK, InvalidParam, controller
<1>5. ProgramsInOrder'
  BY <1>1, <1>4, RequestStays DEF Claims, ProgramsInOrder, Ordered
<1>6. CASE pc' = "chunk"
  <2>1. /\ call.fn = Program /\ ~refused /\ Served
        /\ call' = [call EXCEPT
             !.at = @ + 4 * ChunkSize(call.data),
             !.data = SubSeq(@, 4 * ChunkSize(@) + 1, Len(@))]
    BY <1>1, <1>2, <1>3, <1>6
  <2>2. /\ call'.fn = call.fn /\ call'.at = call.at + 4 * ChunkSize(call.data)
        /\ call'.data = SubSeq(call.data, 4 * ChunkSize(call.data) + 1, Len(call.data))
    BY <2>1 DEF Inv, FrameInv, Call
  <2>3. Target(Cmd) \subseteq Words
    BY <1>2, <1>3, <2>1, TextChunk DEF Served, Fits
  <2>4. IsRest' /\ \A j : Before(j)' = IF j \in Writes THEN Wanted(j) ELSE Before(j)
    BY <1>1, <1>2, <1>3, <2>1, <2>2, <2>3, RestGoesOn
  <2>5. Untouched'
    BY <1>1, <1>2, <1>4, <2>1, <2>4 DEF Untouched, Served, Program
  <2>6. ~Underway'
    BY <1>1, <1>2, <1>6, <2>1 DEF Underway, NoWait
  <2>7. CallInv' /\ MemInv'
    BY <1>1, <1>2, <1>3, <1>4, <1>6, <2>1, <2>4, <2>5, <2>6 DEF CallInv, MemInv, Busy
  <2>8. QED
    BY <1>5, <1>6, <2>7 DEF Claims, SuccessIsDone, Returned
<1>7. CASE pc' = "ready"
  <2>1. ~Launching' /\ ~Busy' /\ ~Underway'
    BY <1>1, <1>2, <1>7 DEF Launching, Busy, Underway
  <2>2. CallInv' /\ MemInv'
    BY <1>3, <1>4, <1>7, <2>1 DEF CallInv, MemInv, Busy
  <2>3. ASSUME u16Err' = FLASH_ERR_SUCCESS PROVE IsDone'
    <3>1. request.fn # Program /\ Served
      BY <1>1, <1>2, <1>3, <1>7, <2>3
    <3>2. request.fn = "FLASH_ReadOnce" => BytesOf(once[request.at]) = buffer'
      BY <1>1, <1>2, <3>1 DEF Served
    <3>3. Served'
      <4>1. Cmd' = Cmd /\ Writes' = Writes /\ \A j : Before(j)' = Before(j)
        BY <1>1, <3>1, JobStays
      <4>2. QED
        BY <1>1, <1>4, <1>7, <3>1, <4>1 DEF Served, Fits
    <3>4. (/\ RequestOK /\ ~InvalidParam(request) /\ request.fn # Program /\ Served
           /\ request.fn = "FLASH_ReadOnce" => BytesOf(once[request.at]) = buffer
           => IsDone)'
      BY ServedIsDone, PTL
    <3>5. QED
      BY <1>1, <1>4, <3>1, <3>2, <3>3, <3>4
  <2>4. SuccessIsDone'
    BY <2>3 DEF SuccessIsDone, IsDone
  <2>5. QED
    BY <1>5, <2>2, <2>4 DEF Claims
<1>8. QED
  BY <1>1, <1>6, <1>7

-----------------------------------------------------------------------------
(***************************************************************************)
(* The steps of the controller, and the reset.                             *)
(***************************************************************************)

\* While a command runs its call stands still.
LEMMA AtWork ==
  ASSUME Inv, Claims, ~fstat.ccif
  PROVE  /\ Underway /\ ~Launching /\ RequestOK /\ ~InvalidParam(request)
         /\ Working /\ DOMAIN once = Phrases
         /\ request.fn = Program => pc = "wait" /\ IsRest /\ call.data # <<>>
<1>1. Underway /\ ~Launching
  BY DEF Inv, FlowInv, Underway, Launching
<1>2. Working /\ DOMAIN once = Phrases
  BY <1>1 DEF Claims, MemInv
<1>3. CASE pc = "wait"
  <2>1. /\ RequestOK /\ ~InvalidParam(request)
        /\ request.fn = Program => IsRest /\ call.data # <<>>
    BY <1>3 DEF Claims, CallInv, Busy
  <2>2. QED
    BY <1>1, <1>2, <1>3, <2>1
<1>4. CASE request.fn = NoWait
  <2>1. RequestOK /\ request.fn # Program
    BY <1>4 DEF Claims, CallInv, NoWait, Program
  <2>2. ~InvalidParam(request)
    BY <1>4 DEF InvalidParam, AlignedFunctions, OnceFunctions, NoWait
  <2>3. QED
    BY <1>1, <1>2, <2>1, <2>2
<1>5. QED
  BY <1>1, <1>3, <1>4 DEF Underway

\* What a step of the controller leaves of a call.
LEMMA CallStands ==
  ASSUME Claims, UNCHANGED <<driver, request, was, onceWas>>
  PROVE  CallInv'
<1>1. /\ RequestOK' <=> RequestOK
      /\ InvalidParam(request)' <=> InvalidParam(request)
      /\ Requested' = Requested /\ UNCHANGED <<pc, call, request>>
  BY RequestStays DEF RequestOK, InvalidParam, driver
<1>2. /\ IsRest' <=> IsRest
      /\ Launching' <=> Launching
      /\ Busy' <=> Busy
  BY <1>1 DEF IsRest, Launching, Busy
<1>3. QED
  BY <1>1, <1>2 DEF Claims, CallInv

LEMMA DoneClaims ==
  ASSUME Inv, Claims, CommandDone, UNCHANGED <<driver, history>>
  PROVE  Claims'
<1>1. /\ ~fstat.ccif
      /\ running.cmd \in Verifies =>
           \A i \in Target(running) : mem[i] \in {Erased, Blank, Unknown}
      /\ mem' = Done
      /\ once' = IF running.cmd = "PROGRAM_ONCE"
                 THEN [once EXCEPT ![running.at] = running.data] ELSE once
      /\ margin' = IF running.cmd = "SET_USER_MARGIN_LEVEL" THEN running.n ELSE margin
      /\ fccob' = IF running.cmd = "READ_ONCE"
                  THEN [fccob EXCEPT !.data = once[running.at]] ELSE fccob
  BY DEF CommandDone, OnceWith
<1>2. /\ fstat' = [fstat EXCEPT !.ccif = TRUE, !.mgstat = {}]
      /\ UNCHANGED <<pc, call, u16Err, buffer, request, was, onceWas, refused>>
  BY DEF CommandDone, Ends, driver, history
<1>3. /\ Underway /\ ~Launching /\ RequestOK /\ ~InvalidParam(request)
      /\ Untouched /\ Fits /\ running = Cmd /\ (pc = "wait" => fccob = Cmd)
      /\ DOMAIN once = Phrases
      /\ request.fn = Program => pc = "wait" /\ IsRest /\ call.data # <<>>
  BY <1>1, AtWork DEF Working
<1>4. /\ Cmd' = Cmd /\ Writes' = Writes /\ \A j : Before(j)' = Before(j)
      /\ \A i : Wanted(i)' = Wanted(i)
  BY <1>2, JobStays, RequestStays
<1>5. \A j \in Words : mem'[j] = IF j \in Writes THEN Wanted(j) ELSE Before(j)
  BY <1>1, <1>3, CommandEffect
<1>6. /\ Cmd.cmd = "PROGRAM_ONCE" <=> request.fn = "FLASH_ProgramOnce"
      /\ Cmd.cmd = "READ_ONCE" <=> request.fn = "FLASH_ReadOnce"
      /\ Cmd.cmd = "SET_USER_MARGIN_LEVEL" <=> request.fn = "FLASH_SetUserMarginLevel"
      /\ request.fn \in OnceFunctions => Cmd.at = request.at
      /\ request.fn = "FLASH_ProgramOnce" => Cmd.data = WordsOf(request.data)
      /\ request.fn = "FLASH_SetUserMarginLevel" => Cmd.n = request.n
  <2>1. CASE request.fn \in OnceFunctions \cup KeyFunctions
    BY <1>3, <2>1, OtherRequest, OtherCommandIs
  <2>2. CASE request.fn \in {Program} \cup MemoryFunctions
    <3>1. Cmd.cmd \in MemoryCommands
      BY <1>3, <2>2, MemoryRequest, TextChunk
    <3>2. Cmd.cmd \notin {"PROGRAM_ONCE", "READ_ONCE", "SET_USER_MARGIN_LEVEL"}
      BY <3>1 DEF MemoryCommands, WholeCommands
    <3>3. request.fn \notin OnceFunctions \cup KeyFunctions
      BY <2>2 DEF MemoryFunctions, WholeFunctions, OnceFunctions, KeyFunctions, Program
    <3>4. QED
      BY <3>2, <3>3 DEF OnceFunctions, KeyFunctions
  <2>3. QED
    BY <1>3, <2>1, <2>2 DEF RequestOK, LaunchFunctions
<1>7. Served'
  <2>1. Fits'
    BY <1>3, <1>4 DEF Fits
  <2>2. \A j \in Words : mem'[j] = IF j \in Writes' THEN Wanted(j)' ELSE Before(j)'
    BY <1>4, <1>5
  <2>3. Cmd.cmd \in Verifies =>
          \A i \in Target(Cmd) : mem'[i] \in {Erased, Blank, Unknown}
    <3>1. Cmd.cmd \in Verifies => mem' = mem
      BY <1>1, <1>3 DEF Done, Verifies, MemoryCommands
    <3>2. QED
      BY <1>1, <1>3, <3>1
  <2>4. \A i \in Phrases :
          once'[i] = IF request.fn = "FLASH_ProgramOnce" /\ i = request.at
                     THEN WordsOf(request.data) ELSE onceWas[i]
    BY <1>1, <1>3, <1>6 DEF Untouched, OnceFunctions
  <2>5. request.fn = "FLASH_ReadOnce" /\ pc = "wait" => fccob'.data = once'[request.at]
    <3>1. request.fn = "FLASH_ReadOnce" =>
            fccob' = [fccob EXCEPT !.data = once[request.at]] /\ once' = once
      BY <1>1, <1>3, <1>6 DEF OnceFunctions
    <3>2. request.fn = "FLASH_ReadOnce" =>
            Cmd = Command("READ_ONCE", request.at, 1, StaleWords)
      BY <1>3 DEF Cmd, Job, CommandOf, Program
    <3>3. QED
      BY <1>3, <3>1, <3>2 DEF Command
  <2>6. request.fn = "FLASH_SetUserMarginLevel" => margin' = request.n
    BY <1>1, <1>3, <1>6
  <2>7. QED
    BY <1>2, <1>4, <2>1, <2>2, <2>3, <2>4, <2>5, <2>6 DEF Served
<1>8. CallInv'
  BY CallStands DEF history
<1>9. fstat'.ccif = TRUE /\ ~Launching' /\ DOMAIN once' = Phrases
  BY <1>1, <1>2, <1>3 DEF Inv, FrameInv, Launching
<1>10. MemInv'
  BY <1>7, <1>9 DEF MemInv
<1>11. ProgramsInOrder'
  <2>1. Ordered(mem')
    BY <1>3, <1>5, WorkIsOrdered
  <2>2. QED
    BY <1>2, <2>1, RequestStays
<1>12. ASSUME Returned' PROVE IsDone'
  <2>1. pc # "wait" /\ request.fn = NoWait
    BY <1>2, <1>3, <1>12 DEF Returned, Underway
  <2>2. /\ request'.fn # Program /\ request'.fn # "FLASH_ReadOnce"
        /\ RequestOK' /\ (~InvalidParam(request))'
    BY <1>2, <1>3, <2>1 DEF NoWait, Program, RequestOK, InvalidParam
  <2>3. (/\ RequestOK /\ ~InvalidParam(request) /\ request.fn # Program /\ Served
         /\ request.fn = "FLASH_ReadOnce" => BytesOf(once[request.at]) = buffer
         => IsDone)'
    BY ServedIsDone, PTL
  <2>4. QED
    BY <1>7, <2>2, <2>3
<1>13. SuccessIsDone'
  BY <1>12 DEF SuccessIsDone, IsDone
<1>14. QED
  BY <1>8, <1>10, <1>11, <1>13 DEF Claims

LEMMA FailsClaims ==
  ASSUME Inv, Claims, NEW mgstat, CommandFails(mgstat), refused' = TRUE,
         UNCHANGED <<driver, request, was, onceWas>>
  PROVE  Claims'
<1>1. /\ ~fstat.ccif /\ mem' = HalfDone /\ UNCHANGED <<pc, call, u16Err>>
      /\ once' = IF running.cmd = "PROGRAM_ONCE"
                 THEN [once EXCEPT ![running.at] = Garbled] ELSE once
      /\ fstat' = [fstat EXCEPT !.ccif = TRUE, !.mgstat = mgstat]
  BY DEF CommandFails, OnceWith, Ends, driver
<1>2. /\ Underway /\ ~Launching /\ RequestOK /\ ~InvalidParam(request)
      /\ Untouched /\ running = Cmd /\ DOMAIN once = Phrases
      /\ request.fn = Program => pc = "wait" /\ IsRest /\ call.data # <<>>
  BY <1>1, AtWork DEF Working
<1>3. CallInv'
  BY CallStands
<1>4. fstat'.ccif = TRUE /\ ~Launching' /\ DOMAIN once' = Phrases
  BY <1>1, <1>2 DEF Inv, FrameInv, Launching
<1>5. MemInv'
  BY <1>4 DEF MemInv
<1>6. ProgramsInOrder'
  <2>1. \A j \in Words : mem'[j] = IF j \in Writes THEN Unknown ELSE Before(j)
    BY <1>1, <1>2, CommandEffect
  <2>2. Ordered(mem')
    BY <1>2, <2>1, WorkIsOrdered
  <2>3. QED
    BY <2>2, RequestStays
<1>7. SuccessIsDone'
  <2>1. pc' = "ready" => request'.fn = NoWait
    BY <1>1, <1>2 DEF Underway
  <2>2. QED
    BY <2>1 DEF SuccessIsDone, Returned, NoWait
<1>8. QED
  BY <1>3, <1>5, <1>6, <1>7 DEF Claims

LEMMA ResetClaims ==
  ASSUME Inv, Claims, Reset
  PROVE  Claims'
<1>1. /\ pc' = "ready" /\ request' = Call("none", 0, <<>>, 0)
      /\ was' = mem' /\ onceWas' = once'
      /\ once' = IF fstat.ccif THEN once ELSE OnceWith(Garbled)
  BY DEF Reset, ControllerReset
<1>2. request'.fn = "none"
  BY <1>1 DEF Call
<1>3. ~Launching' /\ ~Busy' /\ ~Underway'
  BY <1>1, <1>2 DEF Launching, Busy, Underway, NoWait
<1>4. CallInv'
  BY <1>1, <1>2, <1>3 DEF CallInv, Busy
<1>5. DOMAIN once' = Phrases
  BY <1>1 DEF Claims, MemInv, OnceWith
<1>6. MemInv'
  BY <1>3, <1>5 DEF MemInv
<1>7. ProgramsInOrder'
  BY <1>1 DEF ProgramsInOrder
<1>8. Requested' = {}
  BY <1>2 DEF Requested, InvalidParam, AlignedFunctions, OnceFunctions, WholeFunctions
<1>9. SuccessIsDone'
  BY <1>1, <1>2, <1>8 DEF SuccessIsDone, Wanted, VerifyFunctions
<1>10. QED
  BY <1>4, <1>6, <1>7, <1>9 DEF Claims

LEMMA StutterClaims ==
  ASSUME Inv, Claims, UNCHANGED vars
  PROVE  Claims'
<1>1. /\ UNCHANGED <<controller, driver, request, was, onceWas>>
      /\ UNCHANGED <<fstat, mem, once, margin, pc, call, u16Err, buffer, refused>>
  BY DEF vars, controller, driver, history
<1>2. CallInv'
  BY <1>1, CallStands
<1>3. /\ Launching' <=> Launching
      /\ Underway' <=> Underway
  BY <1>1 DEF Launching, Underway
<1>4. MemInv'
  BY <1>1, <1>3, QuietStep DEF Claims, MemInv
<1>5. ProgramsInOrder'
  BY <1>1, QuietStep DEF Claims
<1>6. SuccessIsDone'
  BY <1>1, RequestStays DEF Claims, SuccessIsDone, Returned
<1>7. QED
  BY <1>2, <1>4, <1>5, <1>6 DEF Claims

-----------------------------------------------------------------------------

\* Whoever the client is: a step that is not a call.
LEMMA OtherClaims ==
  ASSUME Inv, Claims, Driver \/ Controller \/ Reset \/ UNCHANGED vars
  PROVE  Claims'
<1>1. CASE Driver
  BY <1>1, StatusClaims, CheckParamClaims, NextChunkClaims, LoadClaims, LaunchClaims,
     FinishClaims DEF Driver
<1>2. CASE Controller
  <2>1. CASE CommandDone /\ UNCHANGED <<driver, history>>
    BY <2>1, DoneClaims
  <2>2. CASE \E mgstat \in (SUBSET {0, 1}) \ {{}} :
               /\ CommandFails(mgstat)
               /\ refused' = TRUE
               /\ UNCHANGED <<driver, request, was, onceWas, calls, resets>>
    BY <2>2, FailsClaims
  <2>3. QED
    BY <1>2, <2>1, <2>2 DEF Controller
<1>3. CASE Reset
  BY <1>3, ResetClaims
<1>4. CASE UNCHANGED vars
  BY <1>4, StutterClaims
<1>5. QED
  BY <1>1, <1>2, <1>3, <1>4

LEMMA ClaimsInvariant == Spec => [](Inv /\ Claims)
<1>1. Inv /\ Claims /\ [Next]_vars => Claims'
  BY ClientKeeps, OtherClaims DEF Next
<1>2. QED
  BY <1>1, InitInv, InitClaims, NextInv, PTL DEF Spec

\* For flash of every size, every address and every text, whichever command
\* fails and whenever a reset comes: longwords are as wanted, at most two under
\* work, and untouched ones, in order of address, and nothing outside the request
\* changes.
THEOREM ProgramsGoInOrder == Spec => []ProgramsInOrder
<1>1. Claims => ProgramsInOrder
  BY DEF Claims
<1>2. QED
  BY <1>1, ClaimsInvariant, PTL

\* A function that returns FLASH_ERR_SUCCESS has done what it was asked and
\* nothing else: for every text, alignment and size of chunk, the last one of
\* one to three bytes and its padding included.
THEOREM SuccessIsTrue == Spec => []SuccessIsDone
<1>1. Claims => SuccessIsDone
  BY DEF Claims
<1>2. QED
  BY <1>1, ClaimsInvariant, PTL

-----------------------------------------------------------------------------
(***************************************************************************)
(* Types.  What a longword or a phrase may become depends on the command   *)
(* under way, and that on the request; the rest are the registers and the  *)
(* frame of the call, each by itself.                                      *)
(***************************************************************************)

IsCell(x)   == x \in Seq(0..FF) /\ Len(x) \in {0, 2, 4}
IsPhrase(x) == x \in Seq((0..FF) \X (0..FF)) /\ Len(x) = 4

MemTyped ==
  /\ DOMAIN mem = Words /\ \A i \in Words : IsCell(mem[i])
  /\ DOMAIN once = Phrases /\ \A i \in Phrases : IsPhrase(once[i])

RegTyped ==
  /\ margin \in 0..2 /\ fprot \in Protections /\ fclkdiv \in NotLoaded..63
  /\ fstat.accerr \in BOOLEAN /\ fstat.fpviol \in BOOLEAN
  /\ fstat.ccif \in BOOLEAN /\ fstat.mgstat \subseteq {0, 1}
  /\ ~fstat.ccif <=> running # NoCommand

CallTyped ==
  /\ pc \in {"ready", "enter", "chunk", "load", "launch", "wait"}
  /\ call.data \in Seq(0..FF) /\ request.data \in Seq(0..FF)
  /\ pc = "enter" => call.n \in Nat
  /\ buffer \in Seq(0..FF)
  /\ u16Err \subseteq 0..4
  /\ refused \in BOOLEAN /\ calls \in 0..MaxCalls /\ resets \in 0..MaxResets

\* A command that can only leave longwords and phrases.
IsCommand(c) ==
  /\ c.cmd = "PROGRAM" => \A i \in Target(c) : IsCell(c.data[i - c.at + 1])
  /\ c.cmd \in {"PROGRAM_ONCE", "READ_ONCE"} => c.at \in Phrases
  /\ c.cmd = "PROGRAM_ONCE" => IsPhrase(c.data)
  /\ c.cmd = "SET_USER_MARGIN_LEVEL" => c.n \in 0..2

\* FCCOB is read back by FLASH_ReadOnce alone.
WorkTyped ==
  /\ ~fstat.ccif => IsCommand(running)
  /\ pc \in {"launch", "wait"} /\ call.fn = "FLASH_ReadOnce" => IsPhrase(fccob.data)

TypeInv == MemTyped /\ RegTyped /\ CallTyped /\ WorkTyped

LEMMA TypeInvIsEnough == TypeInv => TypeOK
BY DEF TypeInv, MemTyped, RegTyped, CallTyped, IsCell, IsPhrase, TypeOK,
       ControllerTypeOK

\* The contents the flash is left with.
LEMMA CellsLeft == IsCell(Erased) /\ IsCell(Unknown)
<1>1. FF \in 0..FF
  BY DEF FF
<1>2. <<FF, FF>> \in Seq(0..FF) /\ Len(<<FF, FF>>) = 2
  BY <1>1
<1>3. QED
  BY <1>2, EmptySeq DEF IsCell, Erased, Unknown

\* A function on 1..n is a sequence.
LEMMA FunctionIsSeq ==
  ASSUME NEW S, NEW n \in Nat, NEW f \in [1..n -> S]
  PROVE  f \in Seq(S) /\ Len(f) = n
<1>1. f \in Seq(S)
  BY SeqDef
<1>2. DOMAIN f = 1..n /\ DOMAIN f = 1..Len(f) /\ Len(f) \in Nat
  BY <1>1, LenProperties
<1>3. QED
  BY <1>1, <1>2

LEMMA FourAreSeq ==
  ASSUME NEW S, NEW f \in [1..4 -> S]
  PROVE  f \in Seq(S) /\ Len(f) = 4
<1>1. PICK n \in Nat : n = 4
  OBVIOUS
<1>2. f \in [1..n -> S]
  BY <1>1
<1>3. f \in Seq(S) /\ Len(f) = n
  BY <1>2, FunctionIsSeq
<1>4. QED
  BY <1>1, <1>3

LEMMA PairsArePhrase ==
  ASSUME NEW f \in [1..4 -> (0..FF) \X (0..FF)]
  PROVE  IsPhrase(f)
<1> DEFINE S == (0..FF) \X (0..FF)
<1>1. f \in [1..4 -> S]
  OBVIOUS
<1> HIDE DEF S
<1>2. f \in Seq(S) /\ Len(f) = 4
  BY <1>1, FourAreSeq
<1>3. QED
  BY <1>2 DEF IsPhrase, S

LEMMA PhrasesLeft ==
  IsPhrase(ErasedPhrase) /\ IsPhrase(Garbled) /\ IsPhrase(StaleWords)
<1>1. FF \in 0..FF /\ 0 \in 0..FF
  BY DEF FF
<1>2. <<FF, FF>> \in (0..FF) \X (0..FF) /\ <<0, 0>> \in (0..FF) \X (0..FF)
  BY <1>1
<1>3. QED
  BY <1>2, PairsArePhrase DEF ErasedPhrase, Garbled, Unknown, StaleWords

\* Bytes in longwords and in words.
LEMMA LongwordIsCell ==
  ASSUME NEW d \in Seq(0..FF), NEW k \in Nat \ {0}
  PROVE  IsCell(LongwordOf(d, k))
<1>1. ASSUME NEW b \in 1..4
      PROVE  (IF 4 * (k - 1) + b <= Len(d) THEN d[4 * (k - 1) + b] ELSE FF) \in 0..FF
  <2>1. 4 * (k - 1) + b \in Nat \ {0} /\ Len(d) \in Nat
    BY LenProperties
  <2>2. CASE 4 * (k - 1) + b <= Len(d)
    <3>1. 4 * (k - 1) + b \in 1..Len(d)
      BY <2>1, <2>2
    <3>2. QED
      BY <2>2, <3>1, ElementOfSeq
  <2>3. FF \in 0..FF
    BY DEF FF
  <2>4. QED
    BY <2>2, <2>3
<1>2. LongwordOf(d, k) \in [1..4 -> 0..FF]
  BY <1>1 DEF LongwordOf
<1>3. LongwordOf(d, k) \in Seq(0..FF) /\ Len(LongwordOf(d, k)) = 4
  BY <1>2, FourAreSeq
<1>4. QED
  BY <1>3 DEF IsCell

LEMMA WordsArePhrase ==
  ASSUME NEW d \in Seq(0..FF), Len(d) = 8
  PROVE  IsPhrase(WordsOf(d))
<1>1. ASSUME NEW w \in 1..4 PROVE <<d[2 * w], d[2 * w - 1]>> \in (0..FF) \X (0..FF)
  <2>1. 2 * w \in 1..Len(d) /\ 2 * w - 1 \in 1..Len(d)
    OBVIOUS
  <2>2. QED
    BY <2>1, ElementOfSeq
<1>2. WordsOf(d) \in [1..4 -> (0..FF) \X (0..FF)]
  BY <1>1 DEF WordsOf
<1>3. QED
  BY <1>2, PairsArePhrase

LEMMA BytesAreBytes ==
  ASSUME NEW x, IsPhrase(x)
  PROVE  BytesOf(x) \in Seq(0..FF)
<1>1. ASSUME NEW b \in 1..8
      PROVE  x[(b + 1) \div 2][IF b % 2 = 1 THEN 2 ELSE 1] \in 0..FF
  <2>1. (b + 1) \div 2 \in 1..4
    OBVIOUS
  <2>2. x[(b + 1) \div 2] \in (0..FF) \X (0..FF)
    BY <2>1, ElementOfSeq DEF IsPhrase
  <2>3. QED
    BY <2>2
<1>2. BytesOf(x) \in [1..8 -> 0..FF]
  BY <1>1 DEF BytesOf
<1>3. QED
  BY <1>2, FunctionIsSeq

\* The command of a request that has been checked.
LEMMA LaunchedIsCommand ==
  ASSUME Inv, Claims, pc \in {"load", "launch"}
  PROVE  /\ IsCommand(CommandOf(call))
         /\ call.fn = "FLASH_ReadOnce" => IsPhrase(CommandOf(call).data)
<1>1. /\ call.fn = request.fn /\ RequestOK /\ ~InvalidParam(request)
      /\ IF request.fn = Program THEN IsRest /\ call.data # <<>> ELSE call = request
  BY DEF Inv, FlowInv, Launching, Claims, CallInv, Busy
<1>2. CASE request.fn = Program
  <2> DEFINE p == call.at \div 4
             n == ChunkSize(call.data)
  <2>1. /\ call.data \in Seq(0..FF) /\ n \in 1..2 /\ p \in Nat
    BY <1>1, <1>2 DEF IsRest, ChunkSize
  <2>2. /\ CommandOf(call).cmd = "PROGRAM" /\ CommandOf(call).at = p
        /\ CommandOf(call).data = [k \in 1..n |-> LongwordOf(call.data, k)]
        /\ Target(CommandOf(call)) = p .. p + n - 1
    BY <1>1, <1>2, ProgramCommandIs
  <2> HIDE DEF p, n
  <2>3. ASSUME NEW i \in p .. p + n - 1 PROVE IsCell(CommandOf(call).data[i - p + 1])
    <3>1. i - p + 1 \in 1..n /\ i - p + 1 \in Nat \ {0}
      BY <2>1
    <3>2. QED
      BY <2>1, <2>2, <3>1, LongwordIsCell
  <2>4. QED
    BY <1>1, <1>2, <2>2, <2>3 DEF IsCommand, Program
<1>3. CASE request.fn \in MemoryFunctions
  <2>1. CommandOf(call).cmd \in MemoryCommands \ {"PROGRAM"}
    BY <1>1, <1>3, MemoryCommandIs
  <2>2. QED
    BY <1>1, <1>3, <2>1 DEF IsCommand, MemoryCommands, WholeCommands, MemoryFunctions,
                            WholeFunctions
<1>4. CASE request.fn \in OnceFunctions \cup KeyFunctions
  <2>1. call = request
    BY <1>1, <1>4 DEF OnceFunctions, KeyFunctions, Program
  <2>2. /\ request.fn \in OnceFunctions => request.at \in Phrases
        /\ request.fn = "FLASH_SetUserMarginLevel" => request.n \in 0..2
    BY <1>1 DEF InvalidParam, RequestOK, Phrases
  <2>3. request.fn = "FLASH_ProgramOnce" => IsPhrase(WordsOf(request.data))
    BY <1>1, WordsArePhrase DEF RequestOK
  <2>4. request.fn = "FLASH_ReadOnce" => CommandOf(request).data = StaleWords
    BY DEF CommandOf, Command
  <2>5. IsCommand(CommandOf(request))
    BY <1>4, <2>2, <2>3, OtherCommandIs DEF IsCommand, MemoryCommands, OnceFunctions
  <2>6. QED
    BY <2>1, <2>4, <2>5, PhrasesLeft
<1>5. QED
  BY <1>1, <1>2, <1>3, <1>4 DEF RequestOK, LaunchFunctions

\* The command under way, done, failed or cut off by a reset.
LEMMA ContentsLeft ==
  ASSUME MemTyped, IsCommand(running)
  PROVE  /\ DOMAIN Done = Words /\ \A i \in Words : IsCell(Done[i])
         /\ DOMAIN HalfDone = Words /\ \A i \in Words : IsCell(HalfDone[i])
<1>1. DOMAIN HalfDone = Words /\ \A i \in Words : IsCell(HalfDone[i])
  BY CellsLeft DEF HalfDone, MemTyped
<1>2. CASE running.cmd = "PROGRAM"
  <2>1. Done = [i \in Words |-> IF i \notin Target(running) THEN mem[i]
                                 ELSE IF mem[i] = Erased
                                      THEN running.data[i - running.at + 1]
                                      ELSE Unknown]
    BY <1>2 DEF Done
  <2>2. \A i \in Target(running) : IsCell(running.data[i - running.at + 1])
    BY <1>2 DEF IsCommand
  <2>3. QED
    BY <1>1, <2>1, <2>2, CellsLeft DEF MemTyped
<1>3. CASE running.cmd \in MemoryCommands \ (Verifies \cup {"PROGRAM"})
  <2>1. Done = [i \in Words |-> IF i \in Target(running) THEN Erased ELSE mem[i]]
    BY <1>3 DEF Done
  <2>2. QED
    BY <1>1, <2>1, CellsLeft DEF MemTyped
<1>4. CASE /\ running.cmd # "PROGRAM"
           /\ running.cmd \notin MemoryCommands \ (Verifies \cup {"PROGRAM"})
  <2>1. Done = mem
    BY <1>4 DEF Done
  <2>2. QED
    BY <1>1, <2>1 DEF MemTyped
<1>5. QED
  BY <1>2, <1>3, <1>4

LEMMA PhrasesAfter ==
  ASSUME MemTyped, IsCommand(running), NEW words,
         running.cmd = "PROGRAM_ONCE" => IsPhrase(words)
  PROVE  /\ DOMAIN OnceWith(words) = Phrases
         /\ \A i \in Phrases : IsPhrase(OnceWith(words)[i])
BY DEF OnceWith, MemTyped, IsCommand

\* Steps that leave flash, registers and FCCOB alone.
LEMMA ControllerAtRest ==
  ASSUME TypeInv, UNCHANGED controller,
         pc' \in {"launch", "wait"} => pc' = pc /\ call' = call
  PROVE  MemTyped' /\ RegTyped' /\ WorkTyped'
<1>1. UNCHANGED <<mem, once, margin, fprot, fclkdiv, fstat, fccob, running>>
  BY DEF controller
<1>2. MemTyped'
  BY <1>1 DEF TypeInv, MemTyped
<1>3. RegTyped'
  BY <1>1 DEF TypeInv, RegTyped
<1>4. WorkTyped'
  BY <1>1 DEF TypeInv, WorkTyped
<1>5. QED
  BY <1>2, <1>3, <1>4

LEMMA InitTypes == Init => TypeInv
<1> SUFFICES ASSUME Init PROVE TypeInv
  OBVIOUS
<1>1. ControllerInit /\ pc = "ready" /\ call = Call("none", 0, <<>>, 0)
      /\ request = call /\ buffer = <<>> /\ u16Err = {} /\ refused = FALSE
      /\ calls = 0 /\ resets = 0
  BY DEF Init, FLASH_ERR_SUCCESS
<1>2. MemTyped
  BY <1>1, PhrasesLeft, GeometryAssumption DEF ControllerInit, MemTyped, IsCell, FF
<1>3. fstat.ccif /\ RegTyped
  BY <1>1 DEF ControllerInit, RegTyped, NotLoaded
<1>4. CallTyped
  <2>1. call.data = <<>> /\ request.data = <<>>
    BY <1>1 DEF Call
  <2>2. <<>> \in Seq(0..FF)
    BY EmptySeq
  <2>3. calls \in 0..MaxCalls /\ resets \in 0..MaxResets
    BY <1>1, RequestsAssumption
  <2>4. u16Err \subseteq 0..4 /\ refused \in BOOLEAN
    BY <1>1
  <2>5. call.data \in Seq(0..FF) /\ request.data \in Seq(0..FF) /\ buffer \in Seq(0..FF)
    BY <1>1, <2>1, <2>2
  <2>6. QED
    BY <1>1, <2>3, <2>4, <2>5 DEF CallTyped
<1>5. QED
  BY <1>1, <1>2, <1>3, <1>4 DEF TypeInv, WorkTyped

\* The client enters a function.
LEMMA EnterTypes ==
  ASSUME TypeInv, Client
  PROVE  TypeInv'
<1>1. PICK f, a, d, n : Enter(f, a, d, n) /\ d \in Seq(0..FF) /\ n \in Nat
  BY EmptySeq, RequestsAssumption DEF Client, CallWhenIdle
<1>2. /\ UNCHANGED <<controller, buffer, resets>>
      /\ pc' = "enter" /\ call' = Call(f, a, d, n) /\ u16Err' = {}
      /\ request' \in {request, call'} /\ refused' \in BOOLEAN
      /\ calls < MaxCalls /\ calls' = calls + 1
  BY <1>1 DEF Enter, FLASH_ERR_SUCCESS, TypeInv, CallTyped
<1>3. CallTyped'
  BY <1>1, <1>2, RequestsAssumption DEF TypeInv, CallTyped, Call
<1>4. QED
  BY <1>2, <1>3, ControllerAtRest DEF TypeInv

\* An error code.
LEMMA ErrorTyped == FLASH_CheckErrStatus \subseteq 0..4
BY DEF FLASH_CheckErrStatus, FLASH_ERR_ACCESS, FLASH_ERR_PROTECTION,
       FLASH_ERR_MGSTAT0, FLASH_ERR_MGSTAT1

LEMMA CallStep ==
  ASSUME TypeInv, UNCHANGED <<call, buffer, request, calls, resets>>,
         pc' \in {"ready", "chunk", "load", "launch", "wait"},
         u16Err' \subseteq 0..4, refused' \in BOOLEAN
  PROVE  CallTyped'
BY DEF TypeInv, CallTyped

\* The functions that launch nothing, the check of the parameters and the next
\* chunk.
LEMMA FdivTyped == \A c \in Nat : FDIV(c) \in 0..63
<1>1. \A x \in Int : x % 256 \in Int
  OBVIOUS
<1>2. \A x \in Int : x % 64 \in 0..63
  OBVIOUS
<1>3. \A c \in Nat : c \div 1000000 - 1 \in Int
  OBVIOUS
<1>4. QED
  BY <1>1, <1>2, <1>3 DEF FDIV

LEMMA StatusTypes ==
  ASSUME TypeInv, CheckStatus \/ CheckParam \/ NextChunk
  PROVE  TypeInv'
<1>1. /\ UNCHANGED controller /\ UNCHANGED <<call, buffer, request, refused, calls, resets>>
      /\ pc' \in {"ready", "chunk", "load"}
      /\ u16Err' \in {u16Err, FLASH_CheckErrStatus, {}, {0}}
  BY DEF CheckStatus, CheckParam, NextChunk, Return, history, FLASH_ERR_SUCCESS,
         FLASH_ERR_INVALID_PARAM
<1>2. u16Err' \subseteq 0..4 /\ refused' \in BOOLEAN
  BY <1>1, ErrorTyped DEF TypeInv, CallTyped
<1>3. CallTyped'
  BY <1>1, <1>2, CallStep
<1>4. QED
  BY <1>1, <1>3, ControllerAtRest DEF TypeInv

LEMMA FlashInitTypes ==
  ASSUME TypeInv, FLASH_Init
  PROVE  TypeInv'
<1>1. /\ UNCHANGED <<mem, once, margin, fprot, fstat, fccob, running>>
      /\ UNCHANGED <<call, buffer, request, refused, calls, resets>>
      /\ pc = "enter" /\ pc' = "ready" /\ fclkdiv' \in {fclkdiv, FDIV(call.n)}
      /\ u16Err' \in {{}, FLASH_ERR_INIT_CCIF, FLASH_ERR_INIT_FDIV}
  BY DEF FLASH_Init, FLASH_InitWhen, Return, history, FLASH_ERR_SUCCESS
<1>2. u16Err' \subseteq 0..4 /\ refused' \in BOOLEAN
  BY <1>1 DEF TypeInv, CallTyped, FLASH_ERR_INIT_CCIF, FLASH_ERR_INIT_FDIV
<1>3. CallTyped'
  BY <1>1, <1>2, CallStep
<1>4. fclkdiv' \in NotLoaded..63
  <2>1. call.n \in Nat /\ fclkdiv \in NotLoaded..63
    BY <1>1 DEF TypeInv, RegTyped, CallTyped
  <2>2. FDIV(call.n) \in NotLoaded..63
    BY <2>1, FdivTyped DEF NotLoaded
  <2>3. QED
    BY <1>1, <2>1, <2>2
<1>5. MemTyped' /\ RegTyped' /\ WorkTyped'
  BY <1>1, <1>4 DEF TypeInv, MemTyped, RegTyped, WorkTyped
<1>6. QED
  BY <1>3, <1>5 DEF TypeInv

\* One command: load, launch, end.
LEMMA LoadTypes ==
  ASSUME TypeInv, Inv, Claims, Load
  PROVE  TypeInv'
<1>1. /\ UNCHANGED <<mem, once, margin, fprot, fclkdiv, running>>
      /\ UNCHANGED <<call, u16Err, buffer, request, refused, calls, resets>>
      /\ fstat' = [fstat EXCEPT !.accerr = FALSE, !.fpviol = FALSE]
      /\ pc = "load" /\ pc' = "launch"
      /\ fccob' = IF fstat.ccif THEN CommandOf(call) ELSE fccob
  BY DEF Load, history
<1>2. fstat.ccif
  BY <1>1 DEF Inv, FlowInv, Launching
<1>3. fstat' = [ccif |-> TRUE, accerr |-> FALSE, fpviol |-> FALSE,
                mgstat |-> fstat.mgstat]
  BY <1>1, <1>2 DEF Inv, FrameInv, FlowInv
<1>4. WorkTyped'
  BY <1>1, <1>2, <1>3, LaunchedIsCommand DEF WorkTyped
<1>5. MemTyped' /\ RegTyped'
  BY <1>1, <1>2, <1>3 DEF TypeInv, MemTyped, RegTyped
<1>6. CallTyped'
  BY <1>1, CallStep DEF TypeInv, CallTyped
<1>7. QED
  BY <1>4, <1>5, <1>6 DEF TypeInv

LEMMA LaunchTypes ==
  ASSUME TypeInv, Inv, Claims, FLASH_LaunchCMD \/ FLASH_EraseBlock_NoWait
  PROVE  TypeInv'
<1>1. /\ UNCHANGED <<mem, once, margin, fprot, fclkdiv, fccob>>
      /\ UNCHANGED <<call, buffer, request, calls, resets>>
      /\ pc = "launch" /\ pc' \in {"wait", "ready"} /\ u16Err' \in {u16Err, {}}
      /\ refused' = (refused \/ fstat'.accerr \/ fstat'.fpviol)
  BY DEF FLASH_LaunchCMD, FLASH_EraseBlock_NoWait, WriteLaunch, Launched, Return,
         FLASH_ERR_SUCCESS
<1>2. /\ fstat.ccif /\ ~fstat.accerr /\ ~fstat.fpviol /\ fccob = CommandOf(call)
      /\ running = NoCommand
  BY <1>1 DEF Inv, FlowInv, LaunchInv, Launching, TypeInv, RegTyped
<1>3. IsCommand(fccob)
  BY <1>1, <1>2, LaunchedIsCommand
<1>4. \/ fstat' = [fstat EXCEPT !.accerr = TRUE] /\ running' = running
      \/ fstat' = [fstat EXCEPT !.fpviol = TRUE] /\ running' = running
      \/ /\ fstat' = [fstat EXCEPT !.ccif = FALSE] /\ running' = fccob
         /\ fccob.cmd # "NONE"
  BY <1>2 DEF FLASH_LaunchCMD, FLASH_EraseBlock_NoWait, WriteLaunch, Launched,
              AccessError
<1>5. /\ fstat'.accerr \in BOOLEAN /\ fstat'.fpviol \in BOOLEAN
      /\ fstat'.ccif \in BOOLEAN /\ fstat'.mgstat = fstat.mgstat
      /\ IF fstat'.ccif THEN running' = NoCommand
         ELSE running' = fccob /\ fccob.cmd # "NONE"
  BY <1>2, <1>4 DEF Inv, FrameInv, TypeInv, RegTyped
<1>6. NoCommand.cmd = "NONE"
  BY DEF NoCommand, Command
<1>7. RegTyped'
  BY <1>1, <1>5, <1>6 DEF TypeInv, RegTyped
<1>8. WorkTyped'
  BY <1>1, <1>3, <1>5 DEF TypeInv, WorkTyped
<1>9. MemTyped'
  BY <1>1 DEF TypeInv, MemTyped
<1>10. u16Err' \subseteq 0..4 /\ refused' \in BOOLEAN
  BY <1>1, <1>5 DEF TypeInv, CallTyped
<1>11. CallTyped'
  BY <1>1, <1>10, CallStep
<1>12. QED
  BY <1>7, <1>8, <1>9, <1>11 DEF TypeInv

LEMMA FinishTypes ==
  ASSUME TypeInv, Inv, Claims, Claims', Finish
  PROVE  TypeInv'
<1>1. /\ UNCHANGED <<controller, request, refused, calls, resets>>
      /\ pc = "wait" /\ fstat.ccif /\ pc' \in {"chunk", "ready"}
      /\ pc' = "ready" => call' = call
      /\ u16Err' \in {u16Err, FLASH_CheckErrStatus}
      /\ buffer' = IF call.fn = "FLASH_ReadOnce" THEN BytesOf(fccob.data) ELSE buffer
  BY DEF Finish, FinishOn, Return, history
<1>2. call'.data \in Seq(0..FF)
  BY <1>1 DEF TypeInv, CallTyped, Claims, CallInv, IsRest, Busy
<1>3. buffer' \in Seq(0..FF)
  BY <1>1, BytesAreBytes DEF TypeInv, CallTyped, WorkTyped
<1>4. u16Err' \subseteq 0..4
  BY <1>1, ErrorTyped DEF TypeInv, CallTyped
<1>5. CallTyped'
  BY <1>1, <1>2, <1>3, <1>4 DEF TypeInv, CallTyped
<1>6. QED
  BY <1>1, <1>5, ControllerAtRest DEF TypeInv

\* The controller ends a command, well or not.
LEMMA CommandEnds ==
  ASSUME TypeInv, Inv, NEW flags, flags \subseteq {0, 1}, ~fstat.ccif, Ends(flags)
  PROVE  /\ UNCHANGED <<fprot, fclkdiv>> /\ running' = NoCommand
         /\ fstat' = [ccif |-> TRUE, accerr |-> fstat.accerr, fpviol |-> fstat.fpviol,
                      mgstat |-> flags]
BY DEF Ends, Inv, FrameInv

LEMMA DoneTypes ==
  ASSUME TypeInv, Inv, Claims, CommandDone /\ UNCHANGED <<driver, history>>
  PROVE  TypeInv'
<1>1. /\ ~fstat.ccif /\ Ends({}) /\ IsCommand(running)
      /\ mem' = Done /\ once' = OnceWith(running.data)
      /\ margin' = IF running.cmd = "SET_USER_MARGIN_LEVEL" THEN running.n ELSE margin
      /\ fccob' = IF running.cmd = "READ_ONCE"
                  THEN [fccob EXCEPT !.data = once[running.at]] ELSE fccob
      /\ UNCHANGED <<pc, call, u16Err, buffer, request, refused, calls, resets>>
  BY DEF CommandDone, driver, history, TypeInv, WorkTyped
<1>2. /\ UNCHANGED <<fprot, fclkdiv>> /\ running' = NoCommand
      /\ fstat' = [ccif |-> TRUE, accerr |-> fstat.accerr, fpviol |-> fstat.fpviol,
                   mgstat |-> {}]
  BY <1>1, CommandEnds
<1>3. MemTyped'
  BY <1>1, ContentsLeft, PhrasesAfter DEF TypeInv, MemTyped, IsCommand
<1>4. RegTyped'
  BY <1>1, <1>2 DEF TypeInv, RegTyped, IsCommand
<1>5. CallTyped'
  BY <1>1 DEF TypeInv, CallTyped
<1>6. ASSUME pc = "wait", call.fn = "FLASH_ReadOnce" PROVE IsPhrase(fccob'.data)
  <2>1. fccob = Cmd /\ running = Cmd
    BY <1>1, <1>6 DEF Claims, MemInv, Underway, Working
  <2>2. request.fn = "FLASH_ReadOnce"
    BY <1>6 DEF Inv, FlowInv
  <2>3. Cmd = CommandOf(request)
    BY <2>2 DEF Cmd, Job, Program
  <2>4. Cmd = Command("READ_ONCE", request.at, 1, StaleWords)
    BY <2>2, <2>3 DEF CommandOf
  <2>5. running.cmd = "READ_ONCE" /\ running.at \in Phrases
    BY <1>1, <2>1, <2>4 DEF Command, IsCommand
  <2>6. fccob'.data = once[running.at]
    BY <1>1, <2>1, <2>4, <2>5 DEF Command
  <2>7. QED
    BY <2>5, <2>6 DEF TypeInv, MemTyped
<1>7. pc # "launch"
  BY <1>1 DEF Inv, FlowInv, Launching
<1>8. WorkTyped'
  BY <1>1, <1>2, <1>6, <1>7 DEF WorkTyped
<1>9. QED
  BY <1>3, <1>4, <1>5, <1>8 DEF TypeInv

LEMMA FailsTypes ==
  ASSUME TypeInv, Inv, NEW flags \in (SUBSET {0, 1}) \ {{}}, CommandFails(flags),
         refused' = TRUE, UNCHANGED <<driver, request, was, onceWas, calls, resets>>
  PROVE  TypeInv'
<1>1. /\ ~fstat.ccif /\ Ends(flags) /\ IsCommand(running)
      /\ mem' = HalfDone /\ once' = OnceWith(Garbled)
      /\ UNCHANGED <<margin, fccob, pc, call, u16Err, buffer>>
  BY DEF CommandFails, driver, TypeInv, WorkTyped
<1>2. /\ UNCHANGED <<fprot, fclkdiv>> /\ running' = NoCommand
      /\ fstat' = [ccif |-> TRUE, accerr |-> fstat.accerr, fpviol |-> fstat.fpviol,
                   mgstat |-> flags]
  BY <1>1, CommandEnds
<1>3. MemTyped'
  BY <1>1, ContentsLeft, PhrasesAfter, PhrasesLeft DEF TypeInv, MemTyped
<1>4. RegTyped'
  BY <1>1, <1>2 DEF TypeInv, RegTyped
<1>5. CallTyped'
  BY <1>1 DEF TypeInv, CallTyped
<1>6. WorkTyped'
  BY <1>1, <1>2 DEF TypeInv, WorkTyped
<1>7. QED
  BY <1>3, <1>4, <1>5, <1>6 DEF TypeInv

LEMMA ResetTypes ==
  ASSUME TypeInv, Reset
  PROVE  TypeInv'
<1>1. /\ mem' = IF fstat.ccif THEN mem ELSE HalfDone
      /\ once' = IF fstat.ccif THEN once ELSE OnceWith(Garbled)
      /\ margin' = 0 /\ fclkdiv' = NotLoaded /\ fprot' = fprot
      /\ fstat' = [ccif |-> TRUE, accerr |-> FALSE, fpviol |-> FALSE, mgstat |-> {}]
      /\ running' = NoCommand
      /\ pc' = "ready" /\ call' = Call("none", 0, <<>>, 0) /\ u16Err' = {}
      /\ buffer' = <<>> /\ request' = call' /\ refused' = FALSE /\ calls' = calls
      /\ resets < MaxResets /\ resets' = resets + 1
  BY DEF Reset, ControllerReset, FLASH_ERR_SUCCESS
<1>2. MemTyped'
  BY <1>1, ContentsLeft, PhrasesAfter, PhrasesLeft DEF TypeInv, MemTyped, WorkTyped
<1>3. RegTyped'
  BY <1>1 DEF TypeInv, RegTyped, NotLoaded
<1>4. call'.data = <<>> /\ <<>> \in Seq(0..FF)
  BY <1>1, EmptySeq DEF Call
<1>5. resets' \in 0..MaxResets
  BY <1>1, RequestsAssumption DEF TypeInv, CallTyped
<1>6. CallTyped'
  BY <1>1, <1>4, <1>5 DEF TypeInv, CallTyped
<1>7. WorkTyped'
  BY <1>1 DEF WorkTyped
<1>8. QED
  BY <1>2, <1>3, <1>6, <1>7 DEF TypeInv

LEMMA NextTypes ==
  ASSUME TypeInv, Inv, Claims, Claims', [Next]_vars
  PROVE  TypeInv'
<1>1. CASE Driver
  BY <1>1, StatusTypes, FlashInitTypes, LoadTypes, LaunchTypes, FinishTypes DEF Driver
<1>2. CASE Controller
  BY <1>2, DoneTypes, FailsTypes DEF Controller
<1>3. CASE UNCHANGED vars
  <2>1. UNCHANGED controller
        /\ UNCHANGED <<pc, call, u16Err, buffer, request, refused, calls, resets>>
    BY <1>3 DEF vars, driver, history
  <2>2. QED
    BY <2>1, ControllerAtRest DEF TypeInv, CallTyped
<1>4. QED
  BY <1>1, <1>2, <1>3, EnterTypes, ResetTypes DEF Next

\* Whatever the flash is like and whatever is called: a longword holds nothing,
\* two bytes nobody knows or four, a phrase four words, a divider no more bits
\* than its field, and CCIF is clear just while there is a command under way.
THEOREM TypeCorrect == Spec => []TypeOK
<1>1. Inv /\ Claims /\ [Next]_vars => Claims'
  BY ClientKeeps, OtherClaims DEF Next
<1>2. Inv /\ Claims /\ TypeInv /\ [Next]_vars => TypeInv'
  BY <1>1, NextTypes
<1>3. QED
  BY <1>1, <1>2, InitInv, InitClaims, InitTypes, NextInv, TypeInvIsEnough, PTL DEF Spec

-----------------------------------------------------------------------------
(***************************************************************************)
(* The driver as FlashStore has it: what each step is there, and then that *)
(* every step of the driver is one of these or nothing at all.             *)
(***************************************************************************)

\* The client goes on to something that changes no longword.
LEMMA StoreRests ==
  ASSUME UNCHANGED <<mem, request, was>>, JobOpen' <=> JobOpen
  PROVE  /\ Told' = Told => UNCHANGED Store!storeVars
         /\ Told' = "none" => Store!Forget
<1>1. Requested' = Requested /\ \A i : Wanted(i)' = Wanted(i)
  BY RequestStays
<1>2. /\ UNCHANGED <<Requested \cap Words, [i \in Words |-> Wanted(i)]>>
      /\ JobOpen' = JobOpen
  BY <1>1 DEF JobOpen
<1>3. Told' = Told => UNCHANGED Store!storeVars
  BY <1>2 DEF Store!storeVars
<1>4. QED
  BY <1>2, <1>3 DEF Store!Forget

\* A job ends with what the client is told of it.
LEMMA StoreAnswers ==
  ASSUME UNCHANGED <<mem, request, was>>, JobOpen, ~JobOpen', SuccessIsDone'
  PROVE  Store!Answer
<1>1. Requested' = Requested /\ \A i : Wanted(i)' = Wanted(i)
  BY RequestStays
<1>2. UNCHANGED <<Requested \cap Words, [i \in Words |-> Wanted(i)]>>
  BY <1>1
<1>3. Told' \in {"none", "success", "error"}
  BY DEF Told
<1>4. Told' = "success" => \A i \in Words : mem[i] = Wanted(i)
  BY <1>1 DEF Told, SuccessIsDone
<1>5. QED
  BY <1>2, <1>3, <1>4 DEF Store!Answer, Store!SameAs

\* The client enters a function, which is a job or not.
LEMMA ClientAsks ==
  ASSUME Inv, NEW f, NEW a, NEW d, NEW n, ClientWaits(f), Enter(f, a, d, n)
  PROVE  Store!Ask \/ Store!Forget
<1>1. /\ pc = "ready" /\ pc' = "enter" /\ call'.fn = f
      /\ UNCHANGED <<mem, fstat>> /\ Told' = "none"
  BY DEF Enter, Call, controller, Told, Returned
<1>2. CASE f \in StatusFunctions
  <2>1. UNCHANGED <<request, was>>
    BY <1>2 DEF Enter
  <2>2. JobOpen' <=> JobOpen
    BY <1>1, <1>2 DEF JobOpen
  <2>3. QED
    BY <1>1, <2>1, <2>2, StoreRests
<1>3. CASE f \notin StatusFunctions
  <2>1. was' = mem /\ ~JobOpen /\ JobOpen'
    BY <1>1, <1>3 DEF Enter, ClientWaits, JobOpen
  <2>2. \A i \in Words : i \notin Requested' => Wanted(i)' = mem[i]
    BY <2>1 DEF Wanted
  <2>3. \A i \in Words \ (Requested \cap Words)' :
          [j \in Words |-> Wanted(j)]'[i] = mem[i]
    BY <2>2
  <2>4. QED
    BY <1>1, <2>1, <2>3 DEF Store!Ask, Store!SameAs
<1>4. QED
  BY <1>2, <1>3

\* The functions that launch nothing are no job, and a bad parameter ends one.
LEMMA StatusIsNoJob ==
  ASSUME Inv, CheckStatus \/ FLASH_Init
  PROVE  UNCHANGED Store!storeVars
<1>1. /\ pc = "enter" /\ pc' = "ready" /\ call.fn \in StatusFunctions
      /\ UNCHANGED <<mem, fstat, call, request, was>>
  BY DEF CheckStatus, FLASH_Init, FLASH_InitWhen, Return, controller, history,
         StatusFunctions
<1>2. Told = "none" /\ Told' = "none"
  BY <1>1 DEF Told, Returned, Inv, FlowInv
<1>3. JobOpen' <=> JobOpen
  BY <1>1 DEF JobOpen
<1>4. QED
  BY <1>1, <1>2, <1>3, StoreRests

\* From the check of its parameter on the function has a job, until it returns.
LEMMA JobGoesOn ==
  ASSUME Inv, SuccessIsDone', UNCHANGED <<mem, fstat, request, was>>,
         pc # "ready", pc = "enter" => call.fn \notin StatusFunctions,
         call'.fn = call.fn, pc' # "ready" \/ fstat.ccif
  PROVE  Store!Answer \/ UNCHANGED Store!storeVars
<1>1. call.fn \notin StatusFunctions
  BY DEF Inv, FlowInv, Launching
<1>2. JobOpen /\ Told = "none"
  BY <1>1 DEF JobOpen, Told, Returned
<1>3. CASE pc' = "ready"
  <2>1. ~JobOpen'
    BY <1>3 DEF JobOpen
  <2>2. QED
    BY <1>2, <2>1, StoreAnswers
<1>4. CASE pc' # "ready"
  <2>1. JobOpen' /\ Told' = "none"
    BY <1>1, <1>4 DEF JobOpen, Told, Returned
  <2>2. QED
    BY <1>2, <2>1, StoreRests
<1>5. QED
  BY <1>3, <1>4

LEMMA LaunchIsNoWork ==
  ASSUME Inv, SuccessIsDone', FLASH_LaunchCMD \/ FLASH_EraseBlock_NoWait
  PROVE  Store!Answer \/ UNCHANGED Store!storeVars
<1>1. /\ pc = "launch" /\ UNCHANGED <<mem, call, request, was>>
      /\ pc' = "wait" \/ (pc' = "ready" /\ call.fn = NoWait)
  BY DEF FLASH_LaunchCMD, FLASH_EraseBlock_NoWait, WriteLaunch, Launched, Return, NoWait
<1>2. call.fn = request.fn /\ call.fn \notin StatusFunctions
  BY <1>1 DEF Inv, FlowInv, Launching
<1>3. JobOpen /\ Told = "none" /\ Told' = "none"
  BY <1>1, <1>2 DEF JobOpen, Told, Returned, NoWait
<1>4. CASE JobOpen'
  BY <1>1, <1>3, <1>4, StoreRests
<1>5. CASE ~JobOpen'
  BY <1>1, <1>3, <1>5, StoreAnswers
<1>6. QED
  BY <1>4, <1>5

LEMMA DriverAnswers ==
  ASSUME Inv, SuccessIsDone', Driver
  PROVE  Store!Answer \/ UNCHANGED Store!storeVars
<1>1. CASE CheckStatus \/ FLASH_Init
  BY <1>1, StatusIsNoJob
<1>2. CASE CheckParam \/ NextChunk
  <2>1. /\ pc \in {"enter", "chunk"}
        /\ pc = "enter" => call.fn \notin StatusFunctions
        /\ UNCHANGED <<mem, fstat, call, request, was>>
    BY <1>2 DEF CheckParam, NextChunk, Return, controller, history
  <2>2. fstat.ccif
    BY <2>1 DEF Inv, FlowInv, Launching
  <2>3. QED
    BY <2>1, <2>2, JobGoesOn
<1>3. CASE Load
  <2>1. /\ pc = "load" /\ pc' = "launch" /\ UNCHANGED <<mem, call, request, was>>
        /\ fstat' = [fstat EXCEPT !.accerr = FALSE, !.fpviol = FALSE]
    BY <1>3 DEF Load, history
  <2>2. call.fn \notin StatusFunctions /\ fstat.ccif
    BY <2>1 DEF Inv, FlowInv, Launching
  <2>3. JobOpen /\ JobOpen' /\ Told = "none" /\ Told' = "none"
    BY <2>1, <2>2 DEF JobOpen, Told, Returned
  <2>4. QED
    BY <2>1, <2>3, StoreRests
<1>4. CASE FLASH_LaunchCMD \/ FLASH_EraseBlock_NoWait
  BY <1>4, LaunchIsNoWork
<1>5. CASE Finish
  <2>1. pc = "wait" /\ fstat.ccif /\ UNCHANGED <<mem, fstat, request, was>>
    BY <1>5 DEF Finish, FinishOn, controller, history
  <2>2. \/ call' = [call EXCEPT
             !.at = @ + 4 * ChunkSize(call.data),
             !.data = SubSeq(@, 4 * ChunkSize(@) + 1, Len(@))]
        \/ call' = call
    BY <1>5 DEF Finish, FinishOn, Return
  <2>3. call'.fn = call.fn
    BY <2>2 DEF Inv, FrameInv, Call
  <2>4. pc # "ready" /\ pc # "enter"
    BY <2>1
  <2>5. QED
    BY <2>1, <2>3, <2>4, JobGoesOn
<1>6. QED
  BY <1>1, <1>2, <1>3, <1>4, <1>5 DEF Driver

\* What a command changes is the job's and has not been touched before.
LEMMA CommandTouchesFresh ==
  ASSUME Inv, Claims, ~fstat.ccif, NEW j \in Words
  PROVE  /\ Done[j] # mem[j] => j \in Requested /\ mem[j] = was[j]
         /\ HalfDone[j] # mem[j] => j \in Requested /\ mem[j] = was[j]
         /\ Done[j] # mem[j] => Done[j] = Wanted(j)
         /\ HalfDone[j] # mem[j] => HalfDone[j] = Unknown
<1>1. /\ RequestOK /\ ~InvalidParam(request) /\ Untouched /\ running = Cmd
      /\ request.fn = Program => IsRest /\ call.data # <<>>
  BY AtWork DEF Working
<1>2. /\ Done[j] = IF j \in Writes THEN Wanted(j) ELSE Before(j)
      /\ HalfDone[j] = IF j \in Writes THEN Unknown ELSE Before(j)
      /\ mem[j] = Before(j)
  BY <1>1, CommandEffect DEF Untouched
<1>3. j \in Writes => j \in Requested /\ Before(j) = was[j]
  <2>1. CASE request.fn = Program
    BY <1>1, <2>1, TextChunk
  <2>2. CASE request.fn \in MemoryFunctions
    BY <1>1, <2>2, MemoryRequest
  <2>3. CASE request.fn \in OnceFunctions \cup KeyFunctions
    BY <1>1, <2>3, OtherRequest
  <2>4. QED
    BY <1>1, <2>1, <2>2, <2>3 DEF RequestOK, LaunchFunctions
<1>4. QED
  BY <1>2, <1>3

LEMMA ControllerWorks ==
  ASSUME Inv, Claims, Controller
  PROVE  Store!Work
<1>1. /\ ~fstat.ccif /\ mem' \in {Done, HalfDone}
      /\ UNCHANGED <<pc, call, request, was>>
  BY DEF Controller, CommandDone, CommandFails, driver, history
<1>2. Requested' = Requested /\ \A i : Wanted(i)' = Wanted(i)
  BY <1>1, RequestStays
<1>3. UNCHANGED <<was, Requested \cap Words, [i \in Words |-> Wanted(i)]>>
  BY <1>1, <1>2
<1>4. JobOpen /\ Told' = "none"
  BY <1>1, AtWork DEF JobOpen, Told, Returned, Underway, NoWait
<1>5. ASSUME NEW i \in Words, mem'[i] # mem[i]
      PROVE  /\ i \in Requested \cap Words /\ mem[i] = was[i]
             /\ mem'[i] \in {[j \in Words |-> Wanted(j)][i], Unknown}
  BY <1>1, <1>5, CommandTouchesFresh
<1>6. QED
  BY <1>3, <1>4, <1>5 DEF Store!Work, Store!Fresh

LEMMA ResetIsCrash ==
  ASSUME Inv, Claims, Reset
  PROVE  Store!Crash
<1>1. /\ pc' = "ready" /\ request' = Call("none", 0, <<>>, 0) /\ was' = mem'
      /\ mem' = IF fstat.ccif THEN mem ELSE HalfDone
      /\ fstat' = [ccif |-> TRUE, accerr |-> FALSE, fpviol |-> FALSE, mgstat |-> {}]
  BY DEF Reset, ControllerReset
<1>2. request'.fn = "none"
  BY <1>1 DEF Call
<1>3. Requested' = {}
  BY <1>2 DEF Requested, InvalidParam, AlignedFunctions, OnceFunctions, WholeFunctions
<1>4. \A i \in Words : Wanted(i)' = mem'[i]
  BY <1>1, <1>3 DEF Wanted
<1>5. (Requested \cap Words)' = {} /\ \A i \in Words : [j \in Words |-> Wanted(j)]'[i] = mem'[i]
  BY <1>3, <1>4
<1>6. JobOpen' = FALSE /\ Told' = "none"
  BY <1>1, <1>2 DEF JobOpen, Told
<1>7. ASSUME NEW i \in Words, mem'[i] # mem[i]
      PROVE  /\ JobOpen /\ i \in Requested \cap Words /\ mem[i] = was[i]
             /\ mem'[i] = Unknown
  BY <1>1, <1>7, CommandTouchesFresh DEF JobOpen
<1>8. QED
  BY <1>1, <1>5, <1>6, <1>7 DEF Store!Crash, Store!Fresh, Store!SameAs

LEMMA InitIsStore == Init => Store!StoreInit
<1> SUFFICES ASSUME Init PROVE Store!StoreInit
  OBVIOUS
<1>1. /\ pc = "ready" /\ request.fn = "none" /\ was = mem /\ fstat.ccif = TRUE
  BY DEF Init, ControllerInit, Call
<1>2. Requested = {}
  BY <1>1 DEF Requested, InvalidParam, AlignedFunctions, OnceFunctions, WholeFunctions
<1>3. \A i \in Words : [j \in Words |-> Wanted(j)][i] = mem[i]
  BY <1>1, <1>2 DEF Wanted
<1>4. Requested \cap Words = {} /\ JobOpen = FALSE /\ Told = "none"
  BY <1>1, <1>2 DEF JobOpen, Told
<1>5. QED
  BY <1>1, <1>3, <1>4 DEF Store!StoreInit, Store!SameAs

\* Whatever the client calls and whatever fails, the driver is a store that works
\* at one job at a time: it changes longwords of the job alone, none of them a
\* second time, says success only when all of them are as wanted, and a reset
\* spoils no more than the command that was running would have changed.
THEOREM DriverImplementsStore == Spec => DriverIsStore
<1>1. Inv /\ Claims /\ Claims' /\ [Next]_vars => [Store!StoreNext]_(Store!storeVars)
  <2> SUFFICES ASSUME Inv, Claims, Claims', [Next]_vars
               PROVE  Store!StoreNext \/ UNCHANGED Store!storeVars
    OBVIOUS
  <2>1. CASE Client
    <3>1. \E f, a, d, n : ClientWaits(f) /\ Enter(f, a, d, n)
      BY <2>1 DEF Client, CallWhenIdle
    <3>2. QED
      BY <3>1, ClientAsks DEF Store!StoreNext
  <2>2. CASE Driver
    BY <2>2, DriverAnswers DEF Claims, Store!StoreNext
  <2>3. CASE Controller
    BY <2>3, ControllerWorks DEF Store!StoreNext
  <2>4. CASE Reset
    BY <2>4, ResetIsCrash DEF Store!StoreNext
  <2>5. CASE UNCHANGED vars
    <3>1. UNCHANGED <<mem, fstat, request, was, pc, call, u16Err>>
      BY <2>5 DEF vars, controller, driver, history
    <3>2. Told' = Told /\ (JobOpen' <=> JobOpen)
      BY <3>1 DEF Told, Returned, JobOpen
    <3>3. QED
      BY <3>1, <3>2, StoreRests
  <2>6. QED
    BY <2>1, <2>2, <2>3, <2>4, <2>5 DEF Next
<1>2. QED
  BY <1>1, InitIsStore, ClaimsInvariant, PTL DEF Spec, DriverIsStore, Store!StoreSpec
=============================================================================
