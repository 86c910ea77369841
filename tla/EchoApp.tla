------------------------------ MODULE EchoApp -------------------------------
(***************************************************************************)
(* BufferedSerial/Sources/main.c: the program that polls the receive level *)
(* of the driver and, when Chunk bytes wait, reads them and writes them    *)
(* back followed by an end of line.  It is the driver of BufferedUart with *)
(* this one client.                                                        *)
(***************************************************************************)
EXTENDS BufferedUart

CONSTANTS Chunk,      \* bytes per echo (10 in the code)
          EndOfLine   \* the bytes of "\r\n"

VARIABLES app,      \* "poll", "test", "eol": where main's loop is
          handed    \* history: received bytes that were given to Uart_Write

appVars == <<vars, app, handed>>

EchoInit == Init /\ app = "poll" /\ handed = <<>>

Poll == /\ app = "poll" /\ MainAt("app")
        /\ RxQueueLevel >= Chunk
        /\ CallRead(Chunk)
        /\ app' = "test" /\ UNCHANGED handed

\* recvBytes, the last bytes Uart_Read delivered.
Received == SubSeq(rxGot, Len(rxGot) - nRead + 1, Len(rxGot))

\* Has Uart_Read delivered all that was asked for?
IsWhole == nRead >= Chunk

\* A whole chunk is echoed ...
Echo == /\ app = "test" /\ IsWhole
        /\ CallWrite(Received)
        /\ app' = "eol" /\ handed' = handed \o Received

\* ... a short one is left to be overwritten by the next read.
Discard == /\ app = "test" /\ MainAt("app") /\ ~IsWhole
           /\ app' = "poll" /\ UNCHANGED <<vars, handed>>

WriteEol == /\ app = "eol"
            /\ CallWrite(EndOfLine)
            /\ app' = "poll" /\ UNCHANGED handed

AppStep == Poll \/ Echo \/ Discard \/ WriteEol

\* What is not the program's loop: the driver's functions, its handler and the
\* peripheral.
DriverMoves == (DriverStep \/ Isr \/ Peripheral) /\ UNCHANGED <<app, handed>>

EchoNext == AppStep \/ DriverMoves

EchoSpec == EchoInit /\ [][EchoNext]_appVars

-----------------------------------------------------------------------------
\* What the program takes out of the driver it hands back to the sender: no
\* received byte is thrown away between Uart_Read and Uart_Write.
EchoesWhatItReads == app = "poll" => handed = rxGot
=============================================================================
