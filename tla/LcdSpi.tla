------------------------------- MODULE LcdSpi -------------------------------
(***************************************************************************)
(* st7735_send_cmd and st7735_send_data of the hardware-SPI build of       *)
(* st7735.rs, and SPI2 as they use it: a transmit FIFO and a shift         *)
(* register that empties into the LCD controller at its own pace.  The     *)
(* A0/DC line is a GPIO pin that does not travel with the bytes: the       *)
(* controller reads its level when the last bit of a byte arrives.         *)
(***************************************************************************)
EXTENDS Integers, Sequences

CONSTANTS
  Bytes,       \* the bytes that callers send
  FifoSize,    \* bytes in the transmit FIFO, 4
  TxeLevel     \* TXE is set while the FIFO holds at most this many bytes, 2

ASSUME LcdSpiAssumption == FifoSize \in Nat /\ TxeLevel \in Nat /\ TxeLevel < FifoSize

VARIABLES
  pc,         \* step of the call in progress, "idle" between calls
  msg,        \* the call's message: the DC level it stands for, and its byte
  dc,         \* PB12, A0/DC
  fifo,       \* transmit FIFO of SPI2
  shift,      \* shift register of SPI2, a sequence of at most one byte
  latched,    \* the last message the controller latched
  sent        \* history: messages written to SPI2 and not yet latched

vars == <<pc, msg, dc, fifo, shift, latched, sent>>

Message == [dc : BOOLEAN, byte : Bytes]

Init ==
  /\ pc = "idle" /\ dc = FALSE
  /\ msg \in {[dc |-> FALSE, byte |-> b] : b \in Bytes}
  /\ fifo = <<>> /\ shift = <<>> /\ sent = <<>> /\ latched = msg

-----------------------------------------------------------------------------
\* Status flags of SPI2.
txe == Len(fifo) <= TxeLevel
bsy == fifo # <<>> \/ shift # <<>>

\* st7735_send_cmd (m.dc = FALSE) or st7735_send_data (m.dc = TRUE) is called:
\* if the line is at the other level, drain the FIFO before switching it.
Call(m) ==
  /\ pc = "idle"
  /\ msg' = m
  /\ pc' = IF dc # m.dc THEN "drain" ELSE "send_byte"
  /\ UNCHANGED <<dc, fifo, shift, latched, sent>>

\* Mutated forms: the line switched without draining, once the FIFO (not yet the
\* shift register) is empty, or with the flag's sense inverted; a byte written
\* without waiting for TXE.
DrainedNever == TRUE
DrainedFifoOnly == fifo = <<>>
DrainedInverted == bsy
TxeIgnored == TRUE

\* What spi2_wait_while_busy and the loop in st7735_send_byte wait for.
spi2_idle == ~bsy
tx_ready == txe

\* spi2_wait_while_busy() returns, then lcd_dc0() or lcd_dc1().
Drain ==
  /\ pc = "drain"
  /\ spi2_idle
  /\ dc' = msg.dc
  /\ pc' = "send_byte"
  /\ UNCHANGED <<msg, fifo, shift, latched, sent>>

\* st7735_send_byte: wait for TXE, write DR.
SendByte ==
  /\ pc = "send_byte"
  /\ tx_ready
  /\ fifo' = Append(fifo, msg.byte)
  /\ sent' = Append(sent, msg)
  /\ pc' = "idle"
  /\ UNCHANGED <<msg, dc, shift, latched>>

-----------------------------------------------------------------------------
\* SPI2 moves a byte to the shift register and starts clocking it out.
Load ==
  /\ shift = <<>> /\ fifo # <<>>
  /\ shift' = <<Head(fifo)>>
  /\ fifo' = Tail(fifo)
  /\ UNCHANGED <<pc, msg, dc, latched, sent>>

\* The last bit is clocked out: the controller takes the byte with A0/DC as it is.
Latch ==
  /\ shift # <<>>
  /\ latched' = [dc |-> dc, byte |-> Head(shift)]
  /\ shift' = <<>>
  /\ sent' = Tail(sent)
  /\ UNCHANGED <<pc, msg, dc, fifo>>

Next == (\E m \in Message : Call(m)) \/ Drain \/ SendByte \/ Load \/ Latch

\* SPI2 keeps clocking as long as it has bytes; a call in progress goes on.
Fairness == WF_vars(Drain) /\ WF_vars(SendByte) /\ WF_vars(Load) /\ WF_vars(Latch)

Spec == Init /\ [][Next]_vars /\ Fairness

-----------------------------------------------------------------------------
\* Every variable keeps its type; in particular st7735_send_byte never writes to
\* a full FIFO, whose byte would be lost.
TypeOK ==
  /\ pc \in {"idle", "drain", "send_byte"} /\ msg \in Message /\ dc \in BOOLEAN
  /\ fifo \in Seq(Bytes) /\ Len(fifo) <= FifoSize
  /\ shift \in Seq(Bytes) /\ Len(shift) <= 1
  /\ latched \in Message /\ sent \in Seq(Message)

\* st7735.rs drains the FIFO "before switching A0/DC": every byte still on its
\* way to the controller was sent with the level the line has now.
InFlightMatchesLine ==
  /\ Len(sent) = Len(fifo) + Len(shift)
  /\ \A k \in 1 .. Len(sent) : /\ sent[k].dc = dc
                               /\ sent[k].byte = (shift \o fifo)[k]

\* A caller is never blocked for good in the two busy-wait loops.
CallsReturn == (pc # "idle") ~> (pc = "idle")

Wire == INSTANCE LcdWire WITH queue <- sent

\* The FIFO, the shift register and the separate A0/DC pin deliver every message
\* as it was sent, in order.
ImplementsLcdWire == Wire!Spec
=============================================================================
