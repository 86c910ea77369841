---------------------------- MODULE FlashDriver ----------------------------
(***************************************************************************)
(* The flash driver, FLASH/flash.c, over the controller: each function     *)
(* checks its address, clears the error flags, loads a command, launches   *)
(* it, waits for CCIF and turns the flags into an error code; FLASH_Program*)
(* does so for two longwords at a time, then one, then the bytes left.     *)
(*                                                                         *)
(* An error code is the set of the bits it has beside FLASH_ERR_BASE's, so *)
(* that |= is a union.                                                     *)
(***************************************************************************)
EXTENDS FlashController

CONSTANTS
  Addresses,      \* byte addresses the client passes
  Payloads,       \* byte sequences it programs
  Counts,         \* numbers of longwords it has verified
  Clocks,         \* bus clocks it passes, in Hz
  Indexes,        \* phrase indexes it passes
  Levels,         \* margin levels it passes
  MaxCalls,       \* bound: calls of the driver
  MaxResets       \* bound: resets

ASSUME RequestsAssumption ==
  /\ Addresses \subseteq Nat /\ Counts \subseteq Nat /\ Clocks \subseteq Nat
  /\ Indexes \subseteq 0..255 /\ Levels \subseteq Nat
  /\ \A p \in Payloads : p \in Seq(0..FF)
  /\ MaxCalls \in Nat /\ MaxResets \in Nat

VARIABLES
  pc,             \* where the driver is
  call,           \* the function running: its address, bytes and count to go
  u16Err,         \* the error code, of the last call once it has returned
  buffer,         \* the client's buffer of FLASH_ReadOnce
  request,        \* history: the last call that launches commands, as made
  was, onceWas,   \* history: the longwords and the phrases then
  refused,        \* history: a command of the call was refused or failed
  calls, resets   \* history: how many there have been

driver  == <<pc, call, u16Err, buffer>>
history == <<request, was, onceWas, refused, calls, resets>>
vars    == <<controller, driver, history>>

FLASH_ERR_SUCCESS       == {}
FLASH_ERR_INVALID_PARAM == {0}
FLASH_ERR_ACCESS        == {3}
FLASH_ERR_PROTECTION    == {4}
FLASH_ERR_MGSTAT0       == {0, 4}
FLASH_ERR_MGSTAT1       == {1, 4}
FLASH_ERR_INIT_CCIF     == {2, 4}
FLASH_ERR_INIT_FDIV     == {3, 4}

StatusFunctions  == {"FLASH_Init", "FLASH_CheckErrStatus"}
VerifyFunctions  == {"FLASH_EraseVerifyAll", "FLASH_EraseVerifyBlock",
                     "FLASH_EraseVerifySection"}
WholeFunctions   == {"FLASH_EraseVerifyAll", "FLASH_EraseVerifyBlock",
                     "FLASH_EraseAll", "FLASH_EraseBlock",
                     "FLASH_EraseBlock_NoWait", "FLASH_Unsecure"}
OnceFunctions    == {"FLASH_ProgramOnce", "FLASH_ReadOnce"}
AlignedFunctions == {"FLASH_Program", "FLASH_EraseSector",
                     "FLASH_EraseVerifySection"}

Call(f, a, d, n) == [fn |-> f, at |-> a, data |-> d, n |-> n]

Init ==
  /\ ControllerInit
  /\ pc = "ready" /\ call = Call("none", 0, <<>>, 0)
  /\ u16Err = FLASH_ERR_SUCCESS /\ buffer = <<>>
  /\ request = call /\ was = mem /\ onceWas = once /\ refused = FALSE
  /\ calls = 0 /\ resets = 0

-----------------------------------------------------------------------------
(* Entering and leaving a function                                         *)

Enter(f, a, d, n) ==
  /\ pc = "ready" /\ calls < MaxCalls
  /\ pc' = "enter" /\ call' = Call(f, a, d, n) /\ u16Err' = FLASH_ERR_SUCCESS
  /\ IF f \in StatusFunctions
     THEN UNCHANGED <<request, was, onceWas, refused>>
     ELSE request' = call' /\ was' = mem /\ onceWas' = once /\ refused' = FALSE
  /\ calls' = calls + 1
  /\ UNCHANGED <<controller, buffer, resets>>

Return(error) == pc' = "ready" /\ u16Err' = error /\ UNCHANGED call

FPVIOLIgnored ==
  VerifyFunctions \cup {"FLASH_VerifyBackdoorKey", "FLASH_SetUserMarginLevel"}

\* The flags as an error code.  The code tests both MGSTAT bits where it means
\* one of them, and some functions do not look for FPVIOL.
FLASH_CheckErrStatus ==
  UNION {IF fstat.accerr THEN FLASH_ERR_ACCESS ELSE {},
         IF fstat.fpviol /\ call.fn \notin FPVIOLIgnored
         THEN FLASH_ERR_PROTECTION ELSE {},
         IF fstat.mgstat # {} THEN FLASH_ERR_MGSTAT0 ELSE {},
         IF fstat.mgstat # {} THEN FLASH_ERR_MGSTAT1 ELSE {}}

CheckStatus ==
  /\ pc = "enter" /\ call.fn = "FLASH_CheckErrStatus"
  /\ Return(FLASH_CheckErrStatus)
  /\ UNCHANGED <<controller, buffer, history>>

\* Slip: the divider is not masked to its field.
FDIVUnmasked(u32BusClock) == (u32BusClock \div 1000000 - 1) % 256

\* FTMRE_FCLKDIV_FDIV(clkDIV), clkDIV having 8 bits and FDIV 6.
FDIV(u32BusClock) == ((u32BusClock \div 1000000 - 1) % 256) % 64

\* FLASH_Init, given whether the divider is loaded.  A divider that is loaded
\* already must be the right one.
FLASH_InitWhen(loaded) ==
  /\ pc = "enter" /\ call.fn = "FLASH_Init"
  /\ LET fdiv == FDIV(call.n)
     IN  IF ~fstat.ccif
         THEN Return(FLASH_ERR_INIT_CCIF) /\ UNCHANGED fclkdiv
         ELSE IF loaded /\ fclkdiv # fdiv
         THEN Return(FLASH_ERR_INIT_FDIV) /\ UNCHANGED fclkdiv
         ELSE Return(FLASH_ERR_SUCCESS) /\ fclkdiv' = fdiv
  /\ UNCHANGED <<mem, once, margin, fprot, fstat, fccob, running, buffer, history>>

\* Slip: FDIVLD is not looked at.
FLASH_InitAsIfLoaded == FLASH_InitWhen(TRUE)

FLASH_Init == FLASH_InitWhen(fclkdiv # NotLoaded)

\* An address that is not a longword's ends a call that needs one; so do a
\* phrase index above 7 and a margin level above 2.
InvalidParam(c) ==
  \/ c.fn \in AlignedFunctions /\ c.at % 4 # 0
  \/ c.fn \in OnceFunctions /\ c.at > 7
  \/ c.fn = "FLASH_SetUserMarginLevel" /\ c.n > 2

CheckParam ==
  /\ pc = "enter" /\ call.fn \notin StatusFunctions
  /\ IF InvalidParam(call)
     THEN Return(FLASH_ERR_INVALID_PARAM)
     ELSE /\ pc' = IF call.fn = "FLASH_Program" THEN "chunk" ELSE "load"
          /\ UNCHANGED <<call, u16Err>>
  /\ UNCHANGED <<controller, buffer, history>>

-----------------------------------------------------------------------------
(* One command                                                             *)

\* Slip: padded with zeros.
LongwordOfZeros(d, k) ==
  [b \in 1..4 |-> IF 4 * (k - 1) + b <= Len(d) THEN d[4 * (k - 1) + b] ELSE 0]

\* The k-th longword of a byte sequence, padded to a longword with 0xFF.
LongwordOf(d, k) ==
  [b \in 1..4 |-> IF 4 * (k - 1) + b <= Len(d) THEN d[4 * (k - 1) + b] ELSE FF]

\* How many longwords FLASH_Program gives to the next command.
ChunkSize(d) == IF Len(d) >= 8 THEN 2 ELSE 1

\* Eight bytes as four words of a high and a low byte, and back.
WordsOf(d) == [w \in 1..4 |-> <<d[2 * w], d[2 * w - 1]>>]
BytesOf(words) ==
  [b \in 1..8 |-> words[(b + 1) \div 2][IF b % 2 = 1 THEN 2 ELSE 1]]

\* What earlier commands left in FCCOB's last words.
StaleWords == [w \in 1..4 |-> <<0, 0>>]

CommandOf(c) ==
  LET i == c.at \div 4
  IN  CASE c.fn = "FLASH_Program" ->
             Command("PROGRAM", i, ChunkSize(c.data),
                     [k \in 1 .. ChunkSize(c.data) |-> LongwordOf(c.data, k)])
        [] c.fn = "FLASH_EraseSector" -> Command("ERASE_SECTOR", i, 1, <<>>)
        [] c.fn = "FLASH_EraseVerifySection" ->
             Command("ERASE_VERIFY_SECTION", i, c.n, <<>>)
        [] c.fn \in {"FLASH_EraseBlock", "FLASH_EraseBlock_NoWait"} ->
             Command("ERASE_BLOCK", i, 1, <<>>)
        [] c.fn = "FLASH_EraseVerifyBlock" ->
             Command("ERASE_VERIFY_BLOCK", i, 1, <<>>)
        [] c.fn = "FLASH_EraseVerifyAll" -> Command("ERASE_VERIFY_ALL", 0, 1, <<>>)
        [] c.fn = "FLASH_EraseAll" -> Command("ERASE_ALL", 0, 1, <<>>)
        [] c.fn = "FLASH_Unsecure" -> Command("UNSECURE", 0, 1, <<>>)
        [] c.fn = "FLASH_ProgramOnce" ->
             Command("PROGRAM_ONCE", c.at, 1, WordsOf(c.data))
        [] c.fn = "FLASH_ReadOnce" -> Command("READ_ONCE", c.at, 1, StaleWords)
        [] c.fn = "FLASH_VerifyBackdoorKey" ->
             Command("BACKDOOR_ACCESS", 0, 1, WordsOf(c.data))
        [] c.fn = "FLASH_SetUserMarginLevel" ->
             Command("SET_USER_MARGIN_LEVEL", i, c.n, <<>>)

\* Slip: the error flags of an earlier command stay up.
LoadKeepsFlags ==
  /\ pc = "load" /\ pc' = "launch"
  /\ fccob' = IF fstat.ccif THEN CommandOf(call) ELSE fccob
  /\ UNCHANGED <<mem, once, margin, fprot, fclkdiv, fstat, running>>
  /\ UNCHANGED <<call, u16Err, buffer, history>>

\* FSTAT = 0x30 clears the error flags; the writes to FCCOB follow, which the
\* controller takes only while it is idle.
Load ==
  /\ pc = "load" /\ pc' = "launch"
  /\ fstat' = [fstat EXCEPT !.accerr = FALSE, !.fpviol = FALSE]
  /\ fccob' = IF fstat.ccif THEN CommandOf(call) ELSE fccob
  /\ UNCHANGED <<mem, once, margin, fprot, fclkdiv, running>>
  /\ UNCHANGED <<call, u16Err, buffer, history>>

\* A write of 0x80 to FSTAT.
WriteLaunch ==
  /\ pc = "launch"
  /\ Launched
  /\ refused' = (refused \/ fstat'.accerr \/ fstat'.fpviol)
  /\ UNCHANGED <<buffer, request, was, onceWas, calls, resets>>

\* FLASH_LaunchCMD up to its loop.
FLASH_LaunchCMD ==
  /\ call.fn # "FLASH_EraseBlock_NoWait"
  /\ WriteLaunch
  /\ pc' = "wait" /\ UNCHANGED <<call, u16Err>>

\* The function that does not wait returns with its command under way, or
\* refused, and knows of neither.
FLASH_EraseBlock_NoWait ==
  /\ call.fn = "FLASH_EraseBlock_NoWait"
  /\ WriteLaunch
  /\ Return(FLASH_ERR_SUCCESS)

\* Out of the loop on ready: error ends the call, or FLASH_Program goes on
\* step bytes further.
FinishOn(ready, error, step) ==
  /\ pc = "wait" /\ ready
  /\ IF call.fn = "FLASH_Program" /\ error = FLASH_ERR_SUCCESS
     THEN /\ pc' = "chunk"
          /\ call' = [call EXCEPT
               !.at = @ + step,
               !.data = SubSeq(@, 4 * ChunkSize(@) + 1, Len(@))]
          /\ UNCHANGED u16Err
     ELSE Return(error)
  /\ buffer' = IF call.fn = "FLASH_ReadOnce" THEN BytesOf(fccob.data) ELSE buffer
  /\ UNCHANGED <<controller, history>>

\* Slips: the loop ends while the command runs; FLASH_Program does not look at
\* what the command returned; it goes on by one longword after two.
FinishWhileBusy == FinishOn(~fstat.ccif, FLASH_CheckErrStatus,
                            4 * ChunkSize(call.data))
FinishUnchecked == FinishOn(fstat.ccif, FLASH_ERR_SUCCESS,
                            4 * ChunkSize(call.data))
FinishOneStep   == FinishOn(fstat.ccif, FLASH_CheckErrStatus, 4)

\* CCIF is set: FLASH_ReadOnce takes the phrase, whatever the flags say; what
\* they say ends the call, or FLASH_Program goes on.
Finish == FinishOn(fstat.ccif, FLASH_CheckErrStatus, 4 * ChunkSize(call.data))

\* FLASH_Program: the next two longwords, the one left, the bytes left, or all
\* done.
NextChunk ==
  /\ pc = "chunk"
  /\ IF call.data = <<>>
     THEN Return(FLASH_ERR_SUCCESS)
     ELSE pc' = "load" /\ UNCHANGED <<call, u16Err>>
  /\ UNCHANGED <<controller, buffer, history>>

Driver == CheckStatus \/ FLASH_Init \/ CheckParam \/ NextChunk \/ Load
            \/ FLASH_LaunchCMD \/ FLASH_EraseBlock_NoWait \/ Finish

-----------------------------------------------------------------------------
(* Controller, client and reset                                            *)

Controller ==
  \/ CommandDone /\ UNCHANGED <<driver, history>>
  \/ \E mgstat \in (SUBSET {0, 1}) \ {{}} :
       /\ CommandFails(mgstat)
       /\ refused' = TRUE
       /\ UNCHANGED <<driver, request, was, onceWas, calls, resets>>

Reset ==
  /\ resets < MaxResets /\ resets' = resets + 1
  /\ ControllerReset
  /\ pc' = "ready" /\ call' = Call("none", 0, <<>>, 0)
  /\ u16Err' = FLASH_ERR_SUCCESS /\ buffer' = <<>>
  /\ request' = call' /\ was' = mem' /\ onceWas' = once' /\ refused' = FALSE
  /\ UNCHANGED calls

\* Assumed of a client, the driver neither does nor says it: while a command that
\* FLASH_EraseBlock_NoWait left behind is running none of the functions that launch
\* another is called.
ClientWaits(f) == f \in StatusFunctions \/ fstat.ccif

CallWhenIdle(f, a, d, n) == ClientWaits(f) /\ Enter(f, a, d, n)

\* Any client that keeps to it.
Client ==
  \/ \E c \in Clocks : CallWhenIdle("FLASH_Init", 0, <<>>, c)
  \/ \E a \in Addresses, p \in Payloads : CallWhenIdle("FLASH_Program", a, p, 0)
  \/ \E a \in Addresses : CallWhenIdle("FLASH_EraseSector", a, <<>>, 0)
  \/ \E a \in Addresses, n \in Counts : CallWhenIdle("FLASH_EraseVerifySection", a, <<>>, n)
  \/ \E i \in Indexes, p \in Payloads :
       Len(p) = 8 /\ CallWhenIdle("FLASH_ProgramOnce", i, p, 0)
  \/ \E i \in Indexes : CallWhenIdle("FLASH_ReadOnce", i, <<>>, 0)
  \/ \E p \in Payloads : Len(p) = 8 /\ CallWhenIdle("FLASH_VerifyBackdoorKey", 0, p, 0)
  \/ \E l \in Levels : CallWhenIdle("FLASH_SetUserMarginLevel", 0, <<>>, l)
  \/ \E f \in WholeFunctions \cup {"FLASH_CheckErrStatus"} : CallWhenIdle(f, 0, <<>>, 0)

Next == Client \/ Driver \/ Controller \/ Reset

\* The processor runs the driver and the controller ends every command.
Spec == Init /\ [][Next]_vars /\ WF_vars(Driver) /\ WF_vars(Controller)

-----------------------------------------------------------------------------
(* Properties                                                              *)

\* Types: of the registers, the error code and the frame of the call; a divider
\* never has more bits than its field.
TypeOK ==
  /\ ControllerTypeOK
  /\ pc \in {"ready", "enter", "chunk", "load", "launch", "wait"}
  /\ call.data \in Seq(0..FF) /\ request.data \in Seq(0..FF)
  /\ buffer \in Seq(0..FF)
  /\ u16Err \subseteq 0..4
  /\ refused \in BOOLEAN /\ calls \in 0..MaxCalls /\ resets \in 0..MaxResets

\* The longwords a call is about, none if its address is misaligned.
Requested ==
  LET i == request.at \div 4
  IN  IF InvalidParam(request) THEN {}
      ELSE CASE request.fn = "FLASH_Program" ->
                  i .. i + (Len(request.data) + 3) \div 4 - 1
             [] request.fn = "FLASH_EraseSector" -> Sector(i)
             [] request.fn = "FLASH_EraseVerifySection" -> i .. i + request.n - 1
             [] request.fn \in WholeFunctions -> Words
             [] OTHER -> {}

\* The k-th byte of a text that 0xFF follows.
ByteAt(text, k) == IF k <= Len(text) THEN text[k] ELSE FF

\* What a longword holds after the call if it did what it was asked.
Wanted(i) ==
  IF i \notin Requested \/ request.fn \in VerifyFunctions
  THEN was[i]
  ELSE IF request.fn # "FLASH_Program"
  THEN Erased
  ELSE IF was[i] = Erased
  THEN [b \in 1..4 |-> ByteAt(request.data, 4 * i + b - request.at)]
  ELSE Unknown

Returned == pc = "ready" /\ call.fn = request.fn /\ fstat.ccif

\* A function that returns FLASH_ERR_SUCCESS has done all it was asked and
\* nothing else: the bytes are where they belong, padded with 0xFF, the sector
\* is erased, what was verified was blank, a phrase reads back as the bytes it
\* was programmed with, the margin level is set, and the rest of the flash is
\* as it was.  FLASH_EraseBlock_NoWait returns too early to know.
SuccessIsDone ==
  /\ Returned /\ u16Err = FLASH_ERR_SUCCESS
  /\ request.fn = "FLASH_EraseBlock_NoWait" => ~refused
  => /\ Requested \subseteq Words
     /\ \A i \in Words : mem[i] = Wanted(i)
     /\ request.fn \in VerifyFunctions =>
          \A i \in Requested : mem[i] \in {Erased, Blank, Unknown}
     /\ \A i \in Phrases :
          IF request.fn = "FLASH_ProgramOnce" /\ i = request.at
          THEN BytesOf(once[i]) = request.data
          ELSE once[i] = onceWas[i]
     /\ request.fn = "FLASH_ReadOnce" => BytesOf(once[request.at]) = buffer
     /\ request.fn = "FLASH_SetUserMarginLevel" => margin = request.n

\* When the controller refuses a command or fails, the function launches no
\* further one and returns an error.
FailuresEndTheCall ==
  refused =>
    /\ pc \notin {"chunk", "load", "launch"}
    /\ Returned /\ request.fn # "FLASH_EraseBlock_NoWait" =>
         u16Err # FLASH_ERR_SUCCESS

\* No launch is lost: the controller is idle with its flags down and holds the
\* command of the function that launches.
NoLaunchIsLost ==
  pc = "launch" =>
    /\ fstat.ccif /\ ~fstat.accerr /\ ~fstat.fpviol
    /\ fccob = CommandOf(call)

\* At every moment of a call, whatever fails, the flash consists of longwords
\* that are as wanted, at most two under work that may be lost, and longwords
\* still untouched, in this order of address; nothing outside the request
\* changes.
ProgramsInOrder ==
  \A i \in Words :
    /\ mem[i] \in {was[i], Wanted(i), Unknown}
    /\ i \notin Requested => mem[i] = was[i]
    /\ (request.fn = "FLASH_Program" /\ mem[i] # was[i]) =>
         \A j \in Requested :
           /\ j < i - 1 => mem[j] = Wanted(j)
           /\ (j < i /\ mem[j] # Wanted(j)) => mem[i] = Unknown

\* A job is open while the function is in progress, or its command is.
JobOpen == ~fstat.ccif \/ (pc # "ready" /\ call.fn \notin StatusFunctions)

\* What the client has been told of it; FLASH_EraseBlock_NoWait tells nothing.
Told ==
  IF ~Returned \/ request.fn \in {"none", "FLASH_EraseBlock_NoWait"} THEN "none"
  ELSE IF u16Err = FLASH_ERR_SUCCESS THEN "success" ELSE "error"

\* Seen from outside the driver works through one job at a time: it changes only
\* longwords of the request, none of them twice, says success only when all is as
\* wanted, and a reset spoils no more than what a command was working on.
Store == INSTANCE FlashStore
           WITH Cells <- Words, Spoilt <- Unknown, store <- mem, base <- was,
                area <- Requested \cap Words, wanted <- [i \in Words |-> Wanted(i)],
                open <- JobOpen, answer <- Told
DriverIsStore == Store!StoreSpec

\* Every call comes back: the loop of FLASH_LaunchCMD and those of
\* FLASH_Program end.
CallsReturn == pc # "ready" ~> pc = "ready"
=============================================================================
