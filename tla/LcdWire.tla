------------------------------ MODULE LcdWire ------------------------------
(***************************************************************************)
(* What st7735_send_cmd and st7735_send_data promise their callers: the    *)
(* LCD controller latches the bytes it was sent, in the order they were    *)
(* sent, each as the command or the data it was sent as.  Both builds of   *)
(* st7735.rs, hardware and software SPI, are shown to implement this.      *)
(***************************************************************************)
EXTENDS Sequences

CONSTANTS Bytes

VARIABLES queue,    \* messages sent and not yet latched
          latched   \* the last message the controller latched

vars == <<queue, latched>>

\* A byte with the level of the A0/DC line that goes with it.
Message == [dc : BOOLEAN, byte : Bytes]

Init == queue = <<>> /\ latched \in Message

Send == /\ \E m \in Message : queue' = Append(queue, m)
        /\ UNCHANGED latched

Latch == /\ queue # <<>>
         /\ latched' = Head(queue)
         /\ queue' = Tail(queue)

Next == Send \/ Latch

Spec == Init /\ [][Next]_vars /\ WF_vars(Latch)
=============================================================================
