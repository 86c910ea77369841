-------------------------- MODULE FlashDemoProofs --------------------------
(***************************************************************************)
(* The theorems about main.c over the flash driver, for flash of every     *)
(* size, every text and address of a sector, any first content and resets  *)
(* at any moments.  They rest on what FlashDriverProofs shows of the       *)
(* driver for any client.                                                  *)
(***************************************************************************)
EXTENDS FlashDemo, FlashDriverProofs

\* A call whose command ended well leaves no flag, and a call that returns an
\* error was refused, failed or made with a bad parameter.
FlagsInv ==
  /\ pc = "wait" /\ ~refused =>
       /\ ~fstat.accerr /\ ~fstat.fpviol
       /\ fstat.ccif => fstat.mgstat = {}
  /\ pc = "ready" /\ call.fn = request.fn /\ u16Err # FLASH_ERR_SUCCESS =>
       refused \/ InvalidParam(request)

All == Inv /\ Claims /\ FlagsInv

LEMMA InitAll == Init => All
<1> SUFFICES ASSUME Init PROVE All
  OBVIOUS
<1>1. FlagsInv
  BY DEF FlagsInv, Init
<1>2. QED
  BY <1>1, InitInv, InitClaims DEF All

LEMMA NoFlags ==
  ASSUME ~fstat.accerr, ~fstat.fpviol, fstat.mgstat = {}
  PROVE  FLASH_CheckErrStatus = FLASH_ERR_SUCCESS
BY DEF FLASH_CheckErrStatus, FLASH_ERR_SUCCESS

LEMMA DriverFlags ==
  ASSUME All, Driver
  PROVE  FlagsInv'
<1>1. request' = request /\ (InvalidParam(request)' <=> InvalidParam(request))
  BY DEF Driver, CheckStatus, FLASH_Init, FLASH_InitWhen, CheckParam, NextChunk, Load,
         FLASH_LaunchCMD, FLASH_EraseBlock_NoWait, WriteLaunch, Finish, FinishOn, history,
         InvalidParam
<1>2. CASE CheckStatus \/ FLASH_Init
  <2>1. /\ pc' = "ready" /\ call' = call /\ call.fn \in StatusFunctions
    BY <1>2 DEF CheckStatus, FLASH_Init, FLASH_InitWhen, Return, StatusFunctions
  <2>2. QED
    BY <1>1, <2>1 DEF All, Inv, FlowInv, FlagsInv
<1>3. CASE CheckParam
  <2>1. /\ pc = "enter" /\ call.fn \notin StatusFunctions /\ pc' # "wait"
        /\ pc' = "ready" => InvalidParam(call)
    BY <1>3 DEF CheckParam, Return
  <2>2. call = request
    BY <2>1 DEF All, Claims, CallInv
  <2>3. QED
    BY <1>1, <2>1, <2>2 DEF FlagsInv
<1>4. CASE NextChunk
  BY <1>4 DEF NextChunk, Return, FlagsInv
<1>5. CASE Load
  BY <1>5 DEF Load, FlagsInv
<1>6. CASE FLASH_LaunchCMD \/ FLASH_EraseBlock_NoWait
  <2>1. /\ pc = "launch" /\ refused' = (refused \/ fstat'.accerr \/ fstat'.fpviol)
        /\ pc' = "ready" => u16Err' = FLASH_ERR_SUCCESS
    BY <1>6 DEF FLASH_LaunchCMD, FLASH_EraseBlock_NoWait, WriteLaunch, Return
  <2>2. fstat.ccif /\ ~fstat.accerr /\ ~fstat.fpviol
    BY <2>1 DEF All, Inv, FlowInv, LaunchInv, Launching
  <2>3. \/ fstat' = [fstat EXCEPT !.accerr = TRUE]
        \/ fstat' = [fstat EXCEPT !.fpviol = TRUE]
        \/ fstat' = [fstat EXCEPT !.ccif = FALSE]
    BY <1>6, <2>2 DEF FLASH_LaunchCMD, FLASH_EraseBlock_NoWait, WriteLaunch, Launched
  <2>4. ~refused' => ~fstat'.ccif /\ ~fstat'.accerr /\ ~fstat'.fpviol
    BY <2>1, <2>2, <2>3 DEF All, Inv, FrameInv
  <2>5. QED
    BY <2>1, <2>4 DEF FlagsInv
<1>7. CASE Finish
  <2>1. /\ pc = "wait" /\ fstat.ccif /\ refused' = refused /\ pc' # "wait"
        /\ pc' = "ready" => u16Err' = FLASH_CheckErrStatus
    BY <1>7 DEF Finish, FinishOn, Return, history
  <2>2. ~refused => FLASH_CheckErrStatus = FLASH_ERR_SUCCESS
    BY <2>1, NoFlags DEF All, FlagsInv
  <2>3. QED
    BY <2>1, <2>2 DEF FlagsInv
<1>8. QED
  BY <1>2, <1>3, <1>4, <1>5, <1>6, <1>7 DEF Driver

LEMMA ControllerFlags ==
  ASSUME All, Controller
  PROVE  FlagsInv'
<1>1. /\ UNCHANGED <<pc, call, u16Err, request>> /\ ~fstat.ccif
      /\ InvalidParam(request)' <=> InvalidParam(request)
  BY DEF Controller, CommandDone, CommandFails, driver, history, InvalidParam
<1>2. CASE refused' = TRUE
  BY <1>1, <1>2 DEF FlagsInv
<1>3. CASE /\ fstat' = [fstat EXCEPT !.ccif = TRUE, !.mgstat = {}]
           /\ refused' = refused
  <2>1. /\ fstat'.accerr = fstat.accerr /\ fstat'.fpviol = fstat.fpviol
        /\ fstat'.mgstat = {}
    BY <1>3 DEF All, Inv, FrameInv
  <2>2. QED
    BY <1>1, <1>3, <2>1 DEF All, FlagsInv
<1>4. QED
  BY <1>2, <1>3 DEF Controller, CommandDone, Ends, history

\* A step that is not a call.
LEMMA OtherAll ==
  ASSUME All, Driver \/ Controller \/ Reset \/ UNCHANGED vars
  PROVE  All'
<1>1. FlagsInv'
  <2>1. CASE Reset
    BY <2>1 DEF Reset, FlagsInv
  <2>2. CASE UNCHANGED vars
    BY <2>2 DEF vars, controller, driver, history, All, FlagsInv, InvalidParam
  <2>3. QED
    BY <2>1, <2>2, DriverFlags, ControllerFlags
<1>2. QED
  BY <1>1, OtherSteps, OtherClaims DEF All

-----------------------------------------------------------------------------
(***************************************************************************)
(* main.c                                                                  *)
(***************************************************************************)

EraseCall   == Call("FLASH_EraseSector", StartWriteAddress, <<>>, 0)
ProgramCall == Call("FLASH_Program", StartWriteAddress, Payload, 0)

\* What the counting loop finds.
Stored(i) ==
  IF i < Text + (Len(Payload) + 3) \div 4
  THEN [b \in 1..4 |-> ByteAt(Payload, 4 * (i - Text) + b)]
  ELSE Erased

\* The call main is in, or has returned from.
In(c) == request = c /\ call.fn = c.fn

MainInv ==
  /\ main \in {"init", "inited", "erase", "erased", "program", "programmed",
               "count", "stuck"}
  /\ main = "init" => pc = "ready" /\ fstat.ccif /\ fclkdiv = NotLoaded
  /\ main = "inited" =>
       /\ fstat.ccif
       /\ \/ pc = "enter" /\ call.fn = "FLASH_Init" /\ fclkdiv = NotLoaded
          \/ pc = "ready" /\ u16Err = FLASH_ERR_SUCCESS
  /\ main = "erase" => pc = "ready" /\ fstat.ccif
  /\ main = "erased" => In(EraseCall)
  /\ main = "program" =>
       /\ pc = "ready" /\ request = EraseCall
       /\ \A i \in Sector(Text) : mem[i] = Erased
  /\ main = "programmed" =>
       /\ In(ProgramCall)
       /\ \A i \in Sector(Text) : was[i] = Erased
  /\ main = "count" =>
       /\ pc = "ready" /\ request = ProgramCall
       /\ \A i \in Sector(Text) : mem[i] = Stored(i)
  /\ main = "stuck" => pc = "ready" /\ refused

DemoInv == All /\ MainInv

LEMMA InitDemo == DemoInit => DemoInv
<1> SUFFICES ASSUME DemoInit PROVE DemoInv
  OBVIOUS
<1>1. Init /\ main = "init"
  BY DEF DemoInit
<1>2. pc = "ready" /\ fstat.ccif /\ fclkdiv = NotLoaded
  BY <1>1 DEF Init, ControllerInit
<1>3. QED
  BY <1>1, <1>2, InitAll DEF DemoInv, MainInv

\* The start address is that of a sector's first longword.
LEMMA TextAddress ==
  /\ StartWriteAddress \in Nat /\ StartWriteAddress % 4 = 0
  /\ Text \in Nat /\ StartWriteAddress = 4 * Text
  /\ \A i \in Sector(Text) : i \in Nat /\ i >= Text
<1>1. PICK k \in Nat : StartWriteAddress = 4 * (SectorSize * k)
  BY DemoAssumption
<1>2. SectorSize \in Nat /\ SectorSize > 0 /\ StartWriteAddress \in Nat
  BY GeometryAssumption, DemoAssumption
<1>3. /\ StartWriteAddress % 4 = 0 /\ Text = SectorSize * k
      /\ SectorSize * k \in Nat
  BY <1>1, <1>2 DEF Text
<1>4. ASSUME NEW i \in Sector(Text) PROVE i \in Nat /\ i >= Text
  <2>1. i \in Nat /\ i \div SectorSize = (SectorSize * k) \div SectorSize
    BY <1>3, <1>4, WordsAreNumbers DEF Sector
  <2>2. i >= SectorSize * k
    BY <1>2, <2>1
  <2>3. QED
    BY <1>3, <2>1, <2>2
<1>5. QED
  BY <1>1, <1>2, <1>3, <1>4

\* The two calls main makes are good ones.
LEMMA GoodCalls ==
  /\ EraseCall.fn = "FLASH_EraseSector" /\ EraseCall.at = StartWriteAddress
  /\ ProgramCall.fn = "FLASH_Program" /\ ProgramCall.at = StartWriteAddress
  /\ ProgramCall.data = Payload
  /\ ~InvalidParam(EraseCall) /\ ~InvalidParam(ProgramCall)
<1>1. /\ EraseCall.fn = "FLASH_EraseSector" /\ EraseCall.at = StartWriteAddress
      /\ ProgramCall.fn = "FLASH_Program" /\ ProgramCall.at = StartWriteAddress
      /\ ProgramCall.data = Payload
  BY DEF EraseCall, ProgramCall, Call
<1>2. QED
  BY <1>1, TextAddress DEF InvalidParam, AlignedFunctions, OnceFunctions

\* After a call of main's that returned, with success or not.
LEMMA AfterCall ==
  ASSUME All, NEW c \in {EraseCall, ProgramCall}, In(c), pc = "ready"
  PROVE  IF u16Err = FLASH_ERR_SUCCESS THEN IsDone ELSE refused
<1>1. request.fn = call.fn /\ request.fn # NoWait /\ ~InvalidParam(request)
  BY GoodCalls DEF In, NoWait
<1>2. fstat.ccif
  BY <1>1 DEF All, Inv, FlowInv
<1>3. QED
  BY <1>1, <1>2 DEF All, FlagsInv, Claims, SuccessIsDone, IsDone, Returned, NoWait

\* An erased sector in which the text has been programmed.
LEMMA TextInErased ==
  ASSUME request = ProgramCall, IsDone, \A i \in Sector(Text) : was[i] = Erased
  PROVE  \A i \in Sector(Text) : mem[i] = Stored(i)
<1> SUFFICES ASSUME NEW i \in Sector(Text) PROVE mem[i] = Stored(i)
  OBVIOUS
<1> DEFINE q == (Len(Payload) + 3) \div 4
<1>1. Requested = Text .. Text + q - 1
  BY GoodCalls DEF Requested, Text, WholeFunctions
<1>2. q \in Nat
  <2>1. Len(Payload) \in Nat
    BY DemoAssumption, LenProperties
  <2>2. QED
    BY <2>1, LongwordsOf
<1>3. mem[i] = Wanted(i) /\ was[i] = Erased
  BY DEF IsDone, Sector
<1>4. Wanted(i) = IF i \in Requested
                  THEN [b \in 1..4 |-> ByteAt(Payload, 4 * i + b - StartWriteAddress)]
                  ELSE Erased
  BY <1>3, GoodCalls DEF Wanted, VerifyFunctions
<1> HIDE DEF q
<1>5. i \in Requested <=> i < Text + q
  BY <1>1, <1>2, TextAddress
<1>6. \A b \in 1..4 : 4 * i + b - StartWriteAddress = 4 * (i - Text) + b
  BY TextAddress
<1>7. [b \in 1..4 |-> ByteAt(Payload, 4 * i + b - StartWriteAddress)]
        = [b \in 1..4 |-> ByteAt(Payload, 4 * (i - Text) + b)]
  BY <1>6
<1>8. QED
  BY <1>3, <1>4, <1>5, <1>7 DEF Stored, q

LEMMA NoData == <<>> \in Seq(0..FF)
OBVIOUS

\* main makes its next call, with no command running although it does not look.
LEMMA CallKeeps ==
  ASSUME DemoInv, NEW l, NEW next, NEW f, NEW a \in Nat, NEW d \in Seq(0..FF),
         NEW n \in Nat, f \in {"FLASH_Init", "FLASH_EraseSector", "FLASH_Program"},
         MainCall(l, next, f, a, d, n), ClientWaits(f)
  PROVE  All'
<1>1. Enter(f, a, d, n)
  BY DEF MainCall
<1>2. Inv'
  BY <1>1, EnterKeeps DEF DemoInv, All
<1>3. Claims'
  <2>1. CASE f = "FLASH_Init"
    BY <1>1, <2>1, EnterStatus DEF DemoInv, All, StatusFunctions
  <2>2. CASE f # "FLASH_Init"
    <3>1. f \in LaunchFunctions /\ f # "FLASH_ProgramOnce"
      BY <2>2 DEF LaunchFunctions, MemoryFunctions, Program
    <3>2. QED
      BY <1>1, <3>1, EnterLaunch DEF DemoInv, All
  <2>3. QED
    BY <2>1, <2>2
<1>4. FlagsInv'
  BY <1>1 DEF Enter, FlagsInv
<1>5. QED
  BY <1>2, <1>3, <1>4 DEF All

LEMMA MainKeeps ==
  ASSUME DemoInv, Main
  PROVE  DemoInv'
<1>1. CASE \E c \in Clocks : MainCall("init", "inited", "FLASH_Init", 0, <<>>, c)
  <2>1. PICK c \in Clocks : MainCall("init", "inited", "FLASH_Init", 0, <<>>, c)
    BY <1>1
  <2>2. All'
    <3>1. c \in Nat /\ 0 \in Nat
      BY RequestsAssumption
    <3>2. ClientWaits("FLASH_Init")
      BY DEF ClientWaits, StatusFunctions
    <3>3. QED
      BY <2>1, <3>1, <3>2, NoData, CallKeeps
  <2>3. /\ main = "init" /\ main' = "inited" /\ pc' = "enter"
        /\ call'.fn = "FLASH_Init" /\ UNCHANGED <<fstat, fclkdiv>>
    BY <2>1 DEF MainCall, Enter, Call, controller
  <2>4. QED
    BY <2>2, <2>3 DEF DemoInv, MainInv
<1>2. CASE MainResult("inited", "erase")
  <2>1. main = "inited" /\ pc = "ready" /\ UNCHANGED vars
    BY <1>2 DEF MainResult
  <2>2. u16Err = FLASH_ERR_SUCCESS /\ fstat.ccif
    BY <2>1 DEF DemoInv, MainInv
  <2>3. main' = "erase" /\ UNCHANGED <<pc, fstat>>
    BY <1>2, <2>1, <2>2 DEF MainResult, vars, controller, driver
  <2>4. QED
    BY <2>1, <2>2, <2>3, OtherAll DEF DemoInv, MainInv
<1>3. CASE MainCall("erase", "erased", "FLASH_EraseSector", StartWriteAddress, <<>>, 0)
  <2>1. All'
    <3>1. ClientWaits("FLASH_EraseSector")
      BY <1>3 DEF MainCall, DemoInv, MainInv, ClientWaits
    <3>2. QED
      BY <1>3, <3>1, NoData, CallKeeps, TextAddress
  <2>2. /\ main' = "erased" /\ request' = EraseCall /\ call' = EraseCall
    BY <1>3 DEF MainCall, Enter, EraseCall, StatusFunctions
  <2>3. QED
    BY <2>1, <2>2 DEF DemoInv, MainInv, In
<1>4. CASE MainResult("erased", "program")
  <2>1. main = "erased" /\ pc = "ready" /\ UNCHANGED vars /\ In(EraseCall)
    BY <1>4 DEF MainResult, DemoInv, MainInv
  <2>2. UNCHANGED <<pc, request, mem, refused>>
    BY <2>1 DEF vars, controller, driver, history
  <2>3. CASE u16Err = FLASH_ERR_SUCCESS
    <3>1. IsDone
      BY <2>1, <2>3, AfterCall DEF DemoInv
    <3>2. Requested = Sector(Text) /\ request.fn = "FLASH_EraseSector"
      BY <2>1, GoodCalls DEF Requested, In, Text, WholeFunctions
    <3>3. \A i \in Sector(Text) : Wanted(i) = Erased
      BY <3>2 DEF Wanted, VerifyFunctions
    <3>4. \A i \in Sector(Text) : mem[i] = Erased
      BY <3>1, <3>3 DEF IsDone, Sector
    <3>5. main' = "program"
      BY <1>4, <2>3 DEF MainResult
    <3>6. QED
      BY <2>1, <2>2, <3>4, <3>5, OtherAll DEF DemoInv, MainInv, In
  <2>4. CASE u16Err # FLASH_ERR_SUCCESS
    <3>1. main' = "stuck" /\ refused
      BY <1>4, <2>1, <2>4, AfterCall DEF MainResult, DemoInv
    <3>2. QED
      BY <2>1, <2>2, <3>1, OtherAll DEF DemoInv, MainInv
  <2>5. QED
    BY <2>3, <2>4
<1>5. CASE MainCall("program", "programmed", "FLASH_Program", StartWriteAddress,
                    Payload, 0)
  <2>1. All'
    <3>1. main = "program" /\ pc = "ready" /\ request.fn = "FLASH_EraseSector"
      BY <1>5 DEF MainCall, DemoInv, MainInv, EraseCall, Call
    <3>2. fstat.ccif
      BY <3>1 DEF DemoInv, All, Inv, FlowInv, NoWait
    <3>3. ClientWaits("FLASH_Program")
      BY <3>2 DEF ClientWaits
    <3>4. QED
      BY <1>5, <3>3, CallKeeps, TextAddress, DemoAssumption
  <2>2. /\ main = "program" /\ main' = "programmed"
        /\ request' = ProgramCall /\ call' = ProgramCall /\ was' = mem
    BY <1>5 DEF MainCall, Enter, ProgramCall, StatusFunctions
  <2>3. QED
    BY <2>1, <2>2 DEF DemoInv, MainInv, In
<1>6. CASE MainResult("programmed", "count")
  <2>1. /\ main = "programmed" /\ pc = "ready" /\ UNCHANGED vars /\ In(ProgramCall)
        /\ \A i \in Sector(Text) : was[i] = Erased
    BY <1>6 DEF MainResult, DemoInv, MainInv
  <2>2. UNCHANGED <<pc, request, mem, refused>>
    BY <2>1 DEF vars, controller, driver, history
  <2>3. CASE u16Err = FLASH_ERR_SUCCESS
    <3>1. IsDone
      BY <2>1, <2>3, AfterCall DEF DemoInv
    <3>2. \A i \in Sector(Text) : mem[i] = Stored(i)
      BY <2>1, <3>1, TextInErased DEF In
    <3>3. main' = "count"
      BY <1>6, <2>3 DEF MainResult
    <3>4. QED
      BY <2>1, <2>2, <3>2, <3>3, OtherAll DEF DemoInv, MainInv, In
  <2>4. CASE u16Err # FLASH_ERR_SUCCESS
    <3>1. main' = "stuck" /\ refused
      BY <1>6, <2>1, <2>4, AfterCall DEF MainResult, DemoInv
    <3>2. QED
      BY <2>1, <2>2, <3>1, OtherAll DEF DemoInv, MainInv
  <2>5. QED
    BY <2>3, <2>4
<1>7. QED
  BY <1>1, <1>2, <1>3, <1>4, <1>5, <1>6 DEF Main

\* The driver works on the call main waits for.
LEMMA DriverKeepsMain ==
  ASSUME DemoInv, Driver, UNCHANGED main
  PROVE  DemoInv'
<1>1. pc # "ready"
  BY DEF Driver, CheckStatus, FLASH_Init, FLASH_InitWhen, CheckParam, NextChunk, Load,
         FLASH_LaunchCMD, FLASH_EraseBlock_NoWait, WriteLaunch, Finish, FinishOn
<1>2. main \in {"inited", "erased", "programmed"}
  BY <1>1 DEF DemoInv, MainInv
<1>3. request' = request /\ was' = was
  BY DEF Driver, CheckStatus, FLASH_Init, FLASH_InitWhen, CheckParam, NextChunk, Load,
         FLASH_LaunchCMD, FLASH_EraseBlock_NoWait, WriteLaunch, Finish, FinishOn, history
<1>4. call'.fn = call.fn
  <2>1. CASE Finish
    BY <2>1 DEF Finish, FinishOn, Return, DemoInv, All, Inv, FrameInv, Call
  <2>2. CASE ~Finish
    BY <2>2 DEF Driver, CheckStatus, FLASH_Init, FLASH_InitWhen, CheckParam, NextChunk,
           Load, FLASH_LaunchCMD, FLASH_EraseBlock_NoWait, Return
  <2>3. QED
    BY <2>1, <2>2
<1>5. CASE main = "inited"
  <2>1. pc = "enter" /\ call.fn = "FLASH_Init" /\ fclkdiv = NotLoaded /\ fstat.ccif
    BY <1>1, <1>5 DEF DemoInv, MainInv
  <2>2. FLASH_Init
    BY <2>1 DEF Driver, CheckStatus, CheckParam, NextChunk, Load, FLASH_LaunchCMD,
           FLASH_EraseBlock_NoWait, WriteLaunch, Finish, FinishOn, StatusFunctions
  <2>3. pc' = "ready" /\ u16Err' = FLASH_ERR_SUCCESS /\ fstat' = fstat
    BY <2>1, <2>2 DEF FLASH_Init, FLASH_InitWhen, Return
  <2>4. QED
    BY <1>5, <2>1, <2>3, OtherAll DEF DemoInv, MainInv
<1>6. CASE main \in {"erased", "programmed"}
  BY <1>3, <1>4, <1>6, OtherAll DEF DemoInv, MainInv, In
<1>7. QED
  BY <1>2, <1>5, <1>6

\* The controller works on the command of that call, and on none besides.
LEMMA ControllerKeepsMain ==
  ASSUME DemoInv, Controller, UNCHANGED main
  PROVE  DemoInv'
<1>1. /\ ~fstat.ccif /\ UNCHANGED <<pc, call, request, was>>
      /\ refused => refused'
  BY DEF Controller, CommandDone, CommandFails, driver, history
<1>2. pc = "wait" \/ request.fn = NoWait
  BY <1>1 DEF DemoInv, All, Inv, FlowInv
<1>3. main \notin {"program", "count"}
  BY <1>2, GoodCalls DEF DemoInv, MainInv, NoWait
<1>4. main \in {"erased", "programmed", "stuck"}
  BY <1>1, <1>3 DEF DemoInv, MainInv
<1>5. QED
  BY <1>1, <1>4, OtherAll DEF DemoInv, MainInv, In

LEMMA DemoInvariant == DemoSpec => []DemoInv
<1>1. ASSUME DemoInv, [DemoNext]_demo
      PROVE  DemoInv'
  <2>1. CASE Main
    BY <1>1, <2>1, MainKeeps
  <2>2. CASE (Driver \/ Controller) /\ UNCHANGED main
    BY <1>1, <2>2, DriverKeepsMain, ControllerKeepsMain
  <2>3. CASE Reset /\ main' = "init"
    <3>1. pc' = "ready" /\ fstat'.ccif /\ fclkdiv' = NotLoaded
      BY <2>3 DEF Reset, ControllerReset
    <3>2. QED
      BY <1>1, <2>3, <3>1, OtherAll DEF DemoInv, MainInv
  <2>4. CASE UNCHANGED demo
    <3>1. UNCHANGED <<vars, main>>
      BY <2>4 DEF demo
    <3>2. UNCHANGED <<pc, call, u16Err, request, was, refused, mem, fstat, fclkdiv, main>>
      BY <3>1 DEF vars, controller, driver, history
    <3>3. QED
      BY <1>1, <3>1, <3>2, OtherAll DEF DemoInv, MainInv, In
  <2>5. QED
    BY <1>1, <2>1, <2>2, <2>3, <2>4 DEF DemoNext
<1>2. QED
  BY <1>1, InitDemo, PTL DEF DemoSpec

\* Whenever main counts in its last loop its text is in the flash, whatever the
\* flash held at first and whatever failures and resets came before: for texts
\* of every length, sectors of every size.
THEOREM TextGetsStored == DemoSpec => []TextIsStored
<1>1. DemoInv => TextIsStored
  BY DEF DemoInv, MainInv, TextIsStored, Stored
<1>2. QED
  BY <1>1, DemoInvariant, PTL

\* main never gives up for what an earlier run or a reset has left behind: it
\* takes a controller that refuses a command or fails.
THEOREM GivesUpOnlyWhenRefused == DemoSpec => []StuckMeansRefused
<1>1. DemoInv => StuckMeansRefused
  BY DEF DemoInv, MainInv, StuckMeansRefused
<1>2. QED
  BY <1>1, DemoInvariant, PTL
=============================================================================
