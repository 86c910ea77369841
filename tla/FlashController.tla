-------------------------- MODULE FlashController --------------------------
(***************************************************************************)
(* The FTMRE flash controller, as the flash driver uses it (external):     *)
(* a command is loaded into FCCOB, launched by a write to FSTAT, refused   *)
(* with ACCERR or FPVIOL or executed while CCIF is clear, and ends with    *)
(* MGSTAT telling a failure.  The program is then the only other actor; a  *)
(* reset may come at any time.                                             *)
(*                                                                         *)
(* The flash is an array of longwords.  One that a command failed on, that *)
(* a reset caught half done or that was programmed without having been     *)
(* erased reads as nobody knows what: Unknown.                             *)
(***************************************************************************)
EXTENDS Integers, Sequences, FiniteSets

CONSTANTS
  Sectors,        \* number of sectors
  SectorSize,     \* longwords in a sector, FLASH_SECTOR_SIZE / 4 (128)
  Protections,    \* the sets of sectors FPROT may protect
  Contents        \* what a longword may hold at first

ASSUME GeometryAssumption ==
  /\ Sectors \in Nat /\ Sectors > 0
  /\ SectorSize \in Nat /\ SectorSize > 0
  /\ \A p \in Protections : p \subseteq 0 .. Sectors - 1
  /\ \A c \in Contents : c \in Seq(0..255) /\ Len(c) \in {0, 2, 4}

VARIABLES
  mem,        \* the longwords
  fprot,      \* FPROT: the sectors it protects
  fclkdiv,    \* FCLKDIV: the divider, or NotLoaded while FDIVLD is clear
  fstat,      \* FSTAT: CCIF, ACCERR, FPVIOL and the MGSTAT bits
  once,       \* the phrases of the field that can be programmed once
  margin,     \* the margin level reads use
  fccob,      \* the command in FCCOB
  running     \* the command under way while CCIF is clear

controller == <<mem, once, margin, fprot, fclkdiv, fstat, fccob, running>>

Words     == 0 .. Sectors * SectorSize - 1
FF        == 255
Erased    == <<>>
Unknown   == <<FF, FF>>
Blank     == <<FF, FF, FF, FF>>     \* programmed, and still reading as erased
NotLoaded == -1

Sector(i) == {j \in Words : j \div SectorSize = i \div SectorSize}

Phrases      == 0..7
ErasedPhrase == [w \in 1..4 |-> <<FF, FF>>]

\* A command with its parameters: the longword or phrase it addresses, how many
\* it concerns or the margin level, and its data.
Command(cmd, at, n, data) == [cmd |-> cmd, at |-> at, n |-> n, data |-> data]
NoCommand == Command("NONE", 0, 0, <<>>)

Verifies == {"ERASE_VERIFY_ALL", "ERASE_VERIFY_BLOCK", "ERASE_VERIFY_SECTION"}

\* The commands that concern all longwords.
WholeCommands ==
  {"ERASE_VERIFY_ALL", "ERASE_VERIFY_BLOCK", "ERASE_BLOCK", "ERASE_ALL", "UNSECURE"}

MemoryCommands ==
  WholeCommands \cup {"PROGRAM", "ERASE_SECTOR", "ERASE_VERIFY_SECTION"}

\* The longwords a command concerns.
Target(c) ==
  CASE c.cmd \in {"PROGRAM", "ERASE_VERIFY_SECTION"} -> c.at .. c.at + c.n - 1
    [] c.cmd = "ERASE_SECTOR" -> Sector(c.at)
    [] c.cmd \in WholeCommands -> Words
    [] OTHER -> {}

AccessError(c) ==
  \/ fclkdiv = NotLoaded
  \/ c.cmd = "NONE"
  \/ c.cmd \in MemoryCommands /\ (Target(c) = {} \/ ~(Target(c) \subseteq Words))
  \/ c.cmd \in {"PROGRAM_ONCE", "READ_ONCE"} /\ c.at \notin Phrases
  \/ c.cmd = "PROGRAM_ONCE" /\ c.at \in Phrases /\ once[c.at] # ErasedPhrase
  \/ c.cmd = "SET_USER_MARGIN_LEVEL" /\ c.n > 2

ProtectionError(c) ==
  /\ c.cmd \notin Verifies
  /\ \E i \in Target(c) : i \div SectorSize \in fprot

ControllerInit ==
  /\ mem \in [Words -> Contents]
  /\ once = [i \in Phrases |-> ErasedPhrase] /\ margin = 0
  /\ fprot \in Protections /\ fclkdiv = NotLoaded
  /\ fstat = [ccif |-> TRUE, accerr |-> FALSE, fpviol |-> FALSE, mgstat |-> {}]
  /\ fccob = NoCommand /\ running = NoCommand

-----------------------------------------------------------------------------

\* A write of 0x80 to FSTAT: nothing while a command runs or an error flag is
\* up; else the command in FCCOB is refused or starts.  A key may be the right
\* one or not.
Launched ==
  /\ \E key \in IF fccob.cmd = "BACKDOOR_ACCESS" THEN BOOLEAN ELSE {TRUE} :
     IF ~fstat.ccif \/ fstat.accerr \/ fstat.fpviol
     THEN UNCHANGED <<fstat, running>>
     ELSE IF AccessError(fccob) \/ ~key
          THEN fstat' = [fstat EXCEPT !.accerr = TRUE] /\ UNCHANGED running
     ELSE IF ProtectionError(fccob)
          THEN fstat' = [fstat EXCEPT !.fpviol = TRUE] /\ UNCHANGED running
          ELSE fstat' = [fstat EXCEPT !.ccif = FALSE] /\ running' = fccob
  /\ UNCHANGED <<mem, once, margin, fprot, fclkdiv, fccob>>

Ends(mgstat) ==
  /\ fstat' = [fstat EXCEPT !.ccif = TRUE, !.mgstat = mgstat]
  /\ running' = NoCommand
  /\ UNCHANGED <<fprot, fclkdiv>>

\* What the longwords hold when the command under way is done, or half done.
Done ==
  CASE running.cmd = "PROGRAM" ->
         [i \in Words |-> IF i \notin Target(running) THEN mem[i]
                          ELSE IF mem[i] = Erased
                               THEN running.data[i - running.at + 1]
                               ELSE Unknown]
    [] running.cmd \in MemoryCommands \ (Verifies \cup {"PROGRAM"}) ->
         [i \in Words |-> IF i \in Target(running) THEN Erased ELSE mem[i]]
    [] OTHER -> mem

HalfDone ==
  IF running.cmd \notin MemoryCommands \ Verifies
  THEN mem
  ELSE [i \in Words |-> IF i \in Target(running) THEN Unknown ELSE mem[i]]

\* The phrases when a PROGRAM_ONCE leaves words in the one it addresses.
OnceWith(words) ==
  IF running.cmd = "PROGRAM_ONCE" THEN [once EXCEPT ![running.at] = words] ELSE once

Garbled == [w \in 1..4 |-> Unknown]

\* A verify command ends well only if it found nothing programmed.
CommandDone ==
  /\ ~fstat.ccif
  /\ running.cmd \in Verifies =>
       \A i \in Target(running) : mem[i] \in {Erased, Blank, Unknown}
  /\ mem' = Done
  /\ once' = OnceWith(running.data)
  /\ margin' = IF running.cmd = "SET_USER_MARGIN_LEVEL" THEN running.n ELSE margin
  /\ fccob' = IF running.cmd = "READ_ONCE"
              THEN [fccob EXCEPT !.data = once[running.at]]
              ELSE fccob
  /\ Ends({})

CommandFails(mgstat) ==
  /\ ~fstat.ccif
  /\ mem' = HalfDone
  /\ once' = OnceWith(Garbled)
  /\ Ends(mgstat)
  /\ UNCHANGED <<margin, fccob>>

ControllerReset ==
  /\ mem' = IF fstat.ccif THEN mem ELSE HalfDone
  /\ once' = IF fstat.ccif THEN once ELSE OnceWith(Garbled)
  /\ margin' = 0
  /\ fclkdiv' = NotLoaded
  /\ fstat' = [ccif |-> TRUE, accerr |-> FALSE, fpviol |-> FALSE, mgstat |-> {}]
  /\ fccob' = NoCommand /\ running' = NoCommand
  /\ UNCHANGED fprot

ControllerTypeOK ==
  /\ DOMAIN mem = Words
  /\ \A i \in Words : mem[i] \in Seq(0..FF) /\ Len(mem[i]) \in {0, 2, 4}
  /\ DOMAIN once = Phrases /\ margin \in 0..2
  /\ \A i \in Phrases : once[i] \in Seq((0..FF) \X (0..FF)) /\ Len(once[i]) = 4
  /\ fprot \in Protections /\ fclkdiv \in NotLoaded..63
  /\ fstat.ccif \in BOOLEAN /\ fstat.accerr \in BOOLEAN
  /\ fstat.fpviol \in BOOLEAN /\ fstat.mgstat \subseteq {0, 1}
  /\ ~fstat.ccif <=> running # NoCommand
=============================================================================
