----------------------------- MODULE LcdSoftSpi -----------------------------
(***************************************************************************)
(* The software-SPI build of st7735.rs (feature "software-spi"): the byte  *)
(* is clocked out bit by bit on PB15 and PB13 by the processor itself.     *)
(* The LCD controller samples the data line at each rising clock edge, and *)
(* after the last bit of a byte takes the byte with A0/DC as it is.        *)
(***************************************************************************)
EXTENDS Integers, Sequences

CONSTANT Width   \* bits in a byte, 8

ASSUME LcdSoftSpiAssumption == Width \in Nat \ {0}

Bytes == 0 .. 2^Width - 1

VARIABLES
  pc,         \* step of the call in progress, "idle" between calls
  msg,        \* the call's message: the DC level it stands for, and its byte
  data,       \* local `data' of st7735_send_byte, shifted left as it is sent
  left,       \* iterations of its loop that are left
  dc, sda, sck,       \* PB12, PB15, PB13
  shift, count,       \* the controller's shift register and bit counter
  latched,    \* the last message the controller latched
  sent        \* history: the message being sent, if it is not yet latched

vars == <<pc, msg, data, left, dc, sda, sck, shift, count, latched, sent>>

Message == [dc : BOOLEAN, byte : Bytes]

\* st7735_setup leaves the clock idle (low).
Init ==
  /\ pc = "idle" /\ msg = [dc |-> FALSE, byte |-> 0] /\ data = 0 /\ left = 0
  /\ dc = FALSE /\ sda = 0 /\ sck = 0
  /\ shift = 0 /\ count = 0 /\ latched = msg /\ sent = <<>>

-----------------------------------------------------------------------------
\* st7735_send_cmd or st7735_send_data sets A0/DC and calls st7735_send_byte.
Call(m) ==
  /\ pc = "idle"
  /\ msg' = m /\ dc' = m.dc
  /\ data' = m.byte /\ left' = Width
  /\ pc' = "bit"
  /\ sent' = <<m>>
  /\ UNCHANGED <<sda, sck, shift, count, latched>>

\* Mutated forms: least significant bit first; a shift in more than eight bits.
low_bit == data % 2
shift_left_wide == data * 2

\* data & 0x80, and data << 1 in eight bits.
top_bit == data \div 2^(Width - 1)
shift_left == (data * 2) % 2^Width

\* Put the top bit on the data line and shift the byte.
PutBit ==
  /\ pc = "bit"
  /\ sda' = top_bit
  /\ data' = shift_left
  /\ pc' = "sck1"
  /\ UNCHANGED <<msg, left, dc, sck, shift, count, latched, sent>>

\* lcd_sck1: the controller samples the bit on the rising edge.
ClockHigh ==
  /\ pc = "sck1"
  /\ sck' = 1
  /\ shift' = (shift * 2 + sda) % 2^Width
  /\ count' = (count + 1) % Width
  /\ IF count + 1 = Width
     THEN latched' = [dc |-> dc, byte |-> shift'] /\ sent' = <<>>
     ELSE UNCHANGED <<latched, sent>>
  /\ pc' = "sck0"
  /\ UNCHANGED <<msg, data, left, dc, sda>>

\* Mutated form: the loop runs one iteration short.
last_bit_early == left <= 2

last_bit == left = 1

\* lcd_sck0, and the loop's next iteration or the return to the caller.
ClockLow ==
  /\ pc = "sck0"
  /\ sck' = 0
  /\ left' = left - 1
  /\ pc' = IF last_bit THEN "idle" ELSE "bit"
  /\ UNCHANGED <<msg, data, dc, sda, shift, count, latched, sent>>

Next == (\E m \in Message : Call(m)) \/ PutBit \/ ClockHigh \/ ClockLow

Spec == Init /\ [][Next]_vars /\ WF_vars(PutBit) /\ WF_vars(ClockHigh) /\ WF_vars(ClockLow)

-----------------------------------------------------------------------------
\* Every variable keeps its type; `data' stays a byte while it is shifted.
TypeOK ==
  /\ pc \in {"idle", "bit", "sck1", "sck0"} /\ msg \in Message /\ data \in Bytes
  /\ left \in 0 .. Width /\ dc \in BOOLEAN /\ sda \in {0, 1} /\ sck \in {0, 1}
  /\ shift \in Bytes /\ count \in 0 .. Width - 1
  /\ latched \in Message /\ sent \in {<<>>, <<msg>>}

\* st7735_send_byte stays in step with the controller: between calls the clock
\* is low, the controller is at a byte boundary, and it has taken the last
\* byte sent; within a call it holds exactly the bits already clocked out.
InStep ==
  /\ pc = "idle" => sck = 0 /\ count = 0 /\ sent = <<>>
  /\ pc = "bit" => /\ count = Width - left
                   /\ shift % 2^count = msg.byte \div 2^left

Wire == INSTANCE LcdWire WITH queue <- sent

\* Bit by bit, most significant first, the controller receives the messages that
\* the hardware-SPI build would have sent it.
ImplementsLcdWire == Wire!Spec
=============================================================================
