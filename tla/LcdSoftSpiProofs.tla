-------------------------- MODULE LcdSoftSpiProofs --------------------------
(***************************************************************************)
(* The software-SPI build delivers every one of the 256 bytes, as command  *)
(* or as data, for bytes of the eight bits that they have: the provers     *)
(* know the powers of two as numbers only.                                 *)
(***************************************************************************)
EXTENDS LcdSoftSpi, TLAPS

\* Of a byte b, the lowest n bits are still to be put on the data line ...
Rest(d, b, n) == d = (b % 2^n) * 2^(Width - n)

\* ... and the controller has the others; `bit' is the highest of the lowest n.
Held(s, b, n) == s % 2^(Width - n) = b \div 2^n
NextBit(bit, b, n) == bit = (b \div 2^(n - 1)) % 2

\* The sender takes the top bit of d and shifts it out; the controller shifts a bit into s.
ShiftedOut(bit, d, next) == bit = d \div 2^(Width - 1) /\ next = (d * 2) % 2^Width
ShiftedIn(bit, s, next)  == next = (s * 2 + bit) % 2^Width

\* In a call, sender and controller share the byte out between them bit by bit; the bit on the
\* line is the next one; the byte is latched with the DC level it is meant for.
SInv ==
  /\ TypeOK
  /\ sck = (IF pc = "sck0" THEN 1 ELSE 0)
  /\ pc = "idle" => count = 0 /\ sent = <<>>
  /\ pc # "idle" => left # 0 /\ dc = msg.dc
  /\ pc \in {"bit", "sck1"} => /\ sent = <<msg>> /\ count = Width - left
                               /\ Held(shift, msg.byte, left)
  /\ pc = "bit" => Rest(data, msg.byte, left)
  /\ pc = "sck1" => NextBit(sda, msg.byte, left)
  /\ pc \in {"sck1", "sck0"} => Rest(data, msg.byte, left - 1)
  /\ pc = "sck0" => /\ Held(shift, msg.byte, left - 1)
                    /\ count = (Width - left + 1) % Width
                    /\ sent = IF left = 1 THEN <<>> ELSE <<msg>>

-----------------------------------------------------------------------------
(* The arithmetic of a byte of eight bits.                                 *)

LEMMA ByteRange ==
  ASSUME Width = 8
  PROVE  /\ Bytes = 0 .. 255
         /\ \A m \in Message : m.byte \in Bytes /\ m.dc \in BOOLEAN
  BY DEF Bytes, Message

\* st7735_send_byte starts with all of the byte to send, and the controller with none.
LEMMA AllToSend ==
  ASSUME Width = 8, NEW b \in Bytes, NEW s \in Bytes
  PROVE  Rest(b, b, 8) /\ Held(s, b, 8)
<1>1. b \in 0 .. 255 /\ s \in 0 .. 255
  BY ByteRange
<1> QED
  BY <1>1 DEF Rest, Held

\* The controller that has all the bits has the byte.
LEMMA AllHeld ==
  ASSUME Width = 8, NEW b \in Bytes, NEW s \in Bytes, Held(s, b, 0)
  PROVE  s = b
<1>1. b \in 0 .. 255 /\ s \in 0 .. 255
  BY ByteRange
<1> QED
  BY <1>1 DEF Held

\* The top bit of what is left to send is the next bit of the byte, and shifting it out in
\* eight bits leaves the lower ones at the top.
LEMMA TopBitIsNext ==
  ASSUME Width = 8, NEW b \in Bytes, NEW n \in 1 .. 8, NEW d \in Bytes, NEW bit, NEW next,
         Rest(d, b, n), ShiftedOut(bit, d, next)
  PROVE  /\ NextBit(bit, b, n) /\ Rest(next, b, n - 1)
         /\ bit \in {0, 1} /\ next \in Bytes
<1>0. b \in 0 .. 255 /\ d \in 0 .. 255 /\ bit = d \div 128 /\ next = (d * 2) % 256
  BY ByteRange DEF ShiftedOut
<1>1. n = 1 => NextBit(bit, b, n) /\ Rest(next, b, n - 1)
  BY <1>0 DEF Rest, NextBit
<1>2. n = 2 => NextBit(bit, b, n) /\ Rest(next, b, n - 1)
  BY <1>0 DEF Rest, NextBit
<1>3. n = 3 => NextBit(bit, b, n) /\ Rest(next, b, n - 1)
  BY <1>0 DEF Rest, NextBit
<1>4. n = 4 => NextBit(bit, b, n) /\ Rest(next, b, n - 1)
  BY <1>0 DEF Rest, NextBit
<1>5. n = 5 => NextBit(bit, b, n) /\ Rest(next, b, n - 1)
  BY <1>0 DEF Rest, NextBit
<1>6. n = 6 => NextBit(bit, b, n) /\ Rest(next, b, n - 1)
  BY <1>0 DEF Rest, NextBit
<1>7. n = 7 => NextBit(bit, b, n) /\ Rest(next, b, n - 1)
  BY <1>0 DEF Rest, NextBit
<1>8. n = 8 => NextBit(bit, b, n) /\ Rest(next, b, n - 1)
  BY <1>0 DEF Rest, NextBit
<1>9. bit \in {0, 1} /\ next \in Bytes
  BY <1>0, ByteRange
<1>10. n \in {1, 2, 3, 4, 5, 6, 7, 8}
  OBVIOUS
<1> QED
  BY <1>1, <1>2, <1>3, <1>4, <1>5, <1>6, <1>7, <1>8, <1>9, <1>10, Zenon

\* The upper bits of the byte, with the next one below them.
LEMMA UpperBits ==
  ASSUME Width = 8, NEW b \in Bytes, NEW n \in 1 .. 8
  PROVE  b \div 2^(n - 1) = 2 * (b \div 2^n) + ((b \div 2^(n - 1)) % 2)
<1>0. b \in 0 .. 255
  BY ByteRange
<1>1. CASE n = 1
  BY <1>0, <1>1
<1>2. CASE n = 2
  BY <1>0, <1>2
<1>3. CASE n = 3
  BY <1>0, <1>3
<1>4. CASE n = 4
  BY <1>0, <1>4
<1>5. CASE n = 5
  BY <1>0, <1>5
<1>6. CASE n = 6
  BY <1>0, <1>6
<1>7. CASE n = 7
  BY <1>0, <1>7
<1>8. CASE n = 8
  BY <1>0, <1>8
<1> QED
  BY <1>1, <1>2, <1>3, <1>4, <1>5, <1>6, <1>7, <1>8

\* The lower bits of the shift register after it took in another one.
LEMMA LowerBits ==
  ASSUME Width = 8, NEW s \in Bytes, NEW bit \in {0, 1}, NEW n \in 1 .. 8, NEW next,
         ShiftedIn(bit, s, next)
  PROVE  next \in Bytes /\ next % 2^(8 - (n - 1)) = 2 * (s % 2^(8 - n)) + bit
<1>0. s \in 0 .. 255 /\ next = (s * 2 + bit) % 256
  BY ByteRange DEF ShiftedIn
<1>1. n = 1 => next % 2^(8 - (n - 1)) = 2 * (s % 2^(8 - n)) + bit
  BY <1>0
<1>2. n = 2 => next % 2^(8 - (n - 1)) = 2 * (s % 2^(8 - n)) + bit
  BY <1>0
<1>3. n = 3 => next % 2^(8 - (n - 1)) = 2 * (s % 2^(8 - n)) + bit
  BY <1>0
<1>4. n = 4 => next % 2^(8 - (n - 1)) = 2 * (s % 2^(8 - n)) + bit
  BY <1>0
<1>5. n = 5 => next % 2^(8 - (n - 1)) = 2 * (s % 2^(8 - n)) + bit
  BY <1>0
<1>6. n = 6 => next % 2^(8 - (n - 1)) = 2 * (s % 2^(8 - n)) + bit
  BY <1>0
<1>7. n = 7 => next % 2^(8 - (n - 1)) = 2 * (s % 2^(8 - n)) + bit
  BY <1>0
<1>8. n = 8 => next % 2^(8 - (n - 1)) = 2 * (s % 2^(8 - n)) + bit
  BY <1>0
<1>9. next \in Bytes
  BY <1>0, ByteRange
<1>10. n \in {1, 2, 3, 4, 5, 6, 7, 8}
  OBVIOUS
<1> QED
  BY <1>1, <1>2, <1>3, <1>4, <1>5, <1>6, <1>7, <1>8, <1>9, <1>10, Zenon

\* The controller, having the upper bits of the byte, samples the next one.
LEMMA SampleAddsBit ==
  ASSUME Width = 8, NEW b \in Bytes, NEW n \in 1 .. 8, NEW s \in Bytes, NEW bit \in {0, 1},
         NEW next, Held(s, b, n), NextBit(bit, b, n), ShiftedIn(bit, s, next)
  PROVE  Held(next, b, n - 1) /\ next \in Bytes
<1>1. s % 2^(8 - n) = b \div 2^n /\ (b \div 2^(n - 1)) % 2 = bit
  BY DEF Held, NextBit
<1>2. b \div 2^(n - 1) = 2 * (s % 2^(8 - n)) + bit
  BY <1>1, UpperBits, Zenon
<1>3. next % 2^(8 - (n - 1)) = 2 * (s % 2^(8 - n)) + bit /\ next \in Bytes
  BY LowerBits
<1> QED
  BY <1>2, <1>3, Zenon DEF Held

-----------------------------------------------------------------------------
LEMMA CallKeepsSInv ==
  ASSUME Width = 8, SInv, NEW m \in Message, Call(m)
  PROVE  SInv'
<1>1. m.byte \in Bytes /\ m.dc \in BOOLEAN /\ TypeOK
  BY ByteRange DEF SInv
<1>2. /\ pc = "idle" /\ msg' = m /\ dc' = m.dc /\ data' = m.byte /\ left' = 8
      /\ pc' = "bit" /\ sent' = <<m>> /\ UNCHANGED <<sda, sck, shift, count, latched>>
  BY DEF Call
<1>3. TypeOK'
  BY <1>1, <1>2 DEF TypeOK
<1>4. Held(shift', m.byte, 8) /\ Rest(m.byte, m.byte, 8)
  <2>1. shift' \in Bytes
    BY <1>1, <1>2 DEF TypeOK
  <2> QED
    BY <1>1, <2>1, AllToSend, Zenon
<1>5. count = 0 /\ sck = 0
  BY <1>2 DEF SInv
<1> QED
  BY <1>2, <1>3, <1>4, <1>5 DEF SInv

LEMMA PutBitKeepsSInv ==
  ASSUME Width = 8, SInv, PutBit
  PROVE  SInv'
<1>1. msg.byte \in Bytes /\ data \in Bytes /\ left \in 1 .. 8 /\ TypeOK
  BY ByteRange DEF SInv, PutBit, TypeOK
<1>2. /\ Rest(data, msg.byte, left) /\ Held(shift, msg.byte, left)
      /\ sent = <<msg>> /\ count = 8 - left /\ dc = msg.dc /\ sck = 0
  BY DEF SInv, PutBit
<1>3. /\ pc' = "sck1" /\ UNCHANGED <<msg, left, dc, sck, shift, count, latched, sent>>
  BY DEF PutBit
<1>4. ShiftedOut(sda', data, data')
  BY DEF PutBit, top_bit, shift_left, ShiftedOut
<1>5. /\ NextBit(sda', msg.byte, left) /\ Rest(data', msg.byte, left - 1)
      /\ sda' \in {0, 1} /\ data' \in Bytes
  BY <1>1, <1>2, <1>4, TopBitIsNext, Zenon
<1>6. TypeOK'
  BY <1>1, <1>3, <1>5 DEF TypeOK
<1> QED
  BY <1>1, <1>2, <1>3, <1>5, <1>6 DEF SInv

\* At the last bit the controller latches exactly the message that was sent.
LEMMA ClockHighKeepsSInv ==
  ASSUME Width = 8, SInv, ClockHigh
  PROVE  /\ SInv' /\ sent = <<msg>>
         /\ IF left = 1 THEN latched' = msg /\ sent' = <<>> ELSE UNCHANGED <<latched, sent>>
<1>1. /\ msg.byte \in Bytes /\ left \in 1 .. 8 /\ shift \in Bytes
      /\ sda \in {0, 1} /\ TypeOK
  BY ByteRange DEF SInv, ClockHigh, TypeOK
<1>2. /\ Held(shift, msg.byte, left) /\ Rest(data, msg.byte, left - 1) /\ NextBit(sda, msg.byte, left)
      /\ sent = <<msg>> /\ count = 8 - left /\ dc = msg.dc
  BY DEF SInv, ClockHigh
<1>3. /\ pc' = "sck0" /\ sck' = 1 /\ ShiftedIn(sda, shift, shift')
      /\ count' = (count + 1) % 8 /\ UNCHANGED <<msg, data, left, dc, sda>>
  BY DEF ClockHigh, ShiftedIn
<1>4. Held(shift', msg.byte, left - 1) /\ shift' \in Bytes
  <2>1. ShiftedIn(sda, shift, shift') /\ Held(shift, msg.byte, left) /\ NextBit(sda, msg.byte, left)
    BY <1>2, <1>3
  <2> QED
    BY <1>1, <2>1, SampleAddsBit
<1>5. count' \in 0 .. 7 /\ count' = (8 - left + 1) % 8
  BY <1>1, <1>2, <1>3
<1>6. CASE left = 1
  <2>1. latched' = [dc |-> dc, byte |-> shift'] /\ sent' = <<>>
    BY <1>2, <1>6 DEF ClockHigh
  <2>2. shift' = msg.byte
    <3>1. Held(shift', msg.byte, 0)
      BY <1>4, <1>6
    <3> QED
      BY <1>1, <1>4, <3>1, AllHeld
  <2>3. latched' = msg
    BY <1>1, <1>2, <2>1, <2>2 DEF TypeOK, Message
  <2>4. TypeOK'
    BY <1>1, <1>3, <1>4, <1>5, <2>1, <2>3 DEF TypeOK
  <2> QED
    BY <1>1, <1>2, <1>3, <1>4, <1>5, <1>6, <2>1, <2>3, <2>4 DEF SInv
<1>7. CASE left # 1
  <2>1. UNCHANGED <<latched, sent>>
    BY <1>1, <1>2, <1>7 DEF ClockHigh
  <2>2. TypeOK'
    BY <1>1, <1>3, <1>4, <1>5, <2>1 DEF TypeOK
  <2> QED
    BY <1>1, <1>2, <1>3, <1>4, <1>5, <1>7, <2>1, <2>2 DEF SInv
<1> QED
  BY <1>6, <1>7

LEMMA ClockLowKeepsSInv ==
  ASSUME Width = 8, SInv, ClockLow
  PROVE  SInv'
<1>1. /\ left \in 1 .. 8 /\ TypeOK /\ dc = msg.dc
      /\ Held(shift, msg.byte, left - 1) /\ Rest(data, msg.byte, left - 1)
      /\ count = (8 - left + 1) % 8 /\ sent = IF left = 1 THEN <<>> ELSE <<msg>>
  BY DEF SInv, ClockLow, TypeOK
<1>2. /\ sck' = 0 /\ left' = left - 1 /\ pc' = IF left = 1 THEN "idle" ELSE "bit"
      /\ UNCHANGED <<msg, data, dc, sda, shift, count, latched, sent>>
  BY DEF ClockLow, last_bit
<1>3. TypeOK'
  BY <1>1, <1>2 DEF TypeOK
<1>4. CASE left = 1
  BY <1>1, <1>2, <1>3, <1>4 DEF SInv
<1>5. CASE left # 1
  <2>1. count' = 8 - left'
    BY <1>1, <1>2, <1>5
  <2> QED
    BY <1>1, <1>2, <1>3, <1>5, <2>1 DEF SInv
<1> QED
  BY <1>4, <1>5

\* SInv holds in every state of the software-SPI build.
THEOREM SoftSpiInvariant ==
  ASSUME Width = 8
  PROVE  Spec => []SInv
<1>1. Init => SInv
  <2> SUFFICES ASSUME Init
               PROVE  SInv
    OBVIOUS
  <2>1. msg \in Message /\ latched \in Message /\ Bytes = 0 .. 255
    BY ByteRange DEF Init, Message
  <2>2. /\ pc = "idle" /\ data = 0 /\ left = 0 /\ dc = FALSE /\ sda = 0 /\ sck = 0 /\ shift = 0
        /\ count = 0 /\ sent = <<>>
    BY DEF Init
  <2>3. TypeOK
    <3>1. pc \in {"idle", "bit", "sck1", "sck0"} /\ dc \in BOOLEAN /\ sent \in {<<>>, <<msg>>}
      BY <2>2, Zenon
    <3>2. /\ data \in Bytes /\ shift \in Bytes /\ left \in 0 .. Width /\ count \in 0 .. Width - 1
          /\ sda \in {0, 1} /\ sck \in {0, 1}
      BY <2>1, <2>2
    <3> QED
      BY <2>1, <3>1, <3>2, Zenon DEF TypeOK
  <2> QED
    BY <2>2, <2>3 DEF SInv
<1>2. SInv /\ [Next]_vars => SInv'
  <2> SUFFICES ASSUME SInv, [Next]_vars
               PROVE  SInv'
    OBVIOUS
  <2>1. CASE UNCHANGED vars
    BY <2>1 DEF vars, SInv, TypeOK, Rest, Held, NextBit
  <2> QED
    BY <2>1, CallKeepsSInv, PutBitKeepsSInv, ClockHighKeepsSInv, ClockLowKeepsSInv DEF Next
<1> QED
  BY <1>1, <1>2, PTL DEF Spec

\* st7735.rs:221-235: the byte stays a byte while it is shifted out.
THEOREM SoftSpiTypes ==
  ASSUME Width = 8
  PROVE  Spec => []TypeOK
<1>1. SInv => TypeOK
  BY DEF SInv
<1> QED
  BY <1>1, SoftSpiInvariant, PTL

\* st7735.rs:221-235: sender and controller are in step between calls, and within one the
\* controller has exactly the bits that were clocked out, for each of the 256 bytes.
THEOREM SoftSpiInStep ==
  ASSUME Width = 8
  PROVE  Spec => []InStep
<1>1. SInv => InStep
  <2> SUFFICES ASSUME SInv
               PROVE  InStep
    OBVIOUS
  <2>1. pc = "idle" => sck = 0 /\ count = 0 /\ sent = <<>>
    BY DEF SInv
  <2>2. pc = "bit" => count = Width - left /\ Held(shift, msg.byte, left)
    BY DEF SInv
  <2> QED
    BY <2>1, <2>2, Zenon DEF Held, InStep
<1> QED
  BY <1>1, SoftSpiInvariant, PTL

\* The software-SPI build implements LcdWire up to its fairness: the controller latches every
\* message as it was sent, bit for bit, and in order.
THEOREM SoftSpiDeliversAsSent ==
  ASSUME Width = 8
  PROVE  Spec => Wire!Init /\ [][Wire!Next]_(Wire!vars)
<1>1. Init => Wire!Init
  BY ByteRange DEF Init, Wire!Init, Wire!Message
<1>2. SInv /\ [Next]_vars => [Wire!Next]_(Wire!vars)
  <2> SUFFICES ASSUME SInv, [Next]_vars
               PROVE  Wire!Next \/ UNCHANGED <<sent, latched>>
    BY DEF Wire!vars
  <2>1. ASSUME NEW m \in Message, Call(m)
        PROVE  Wire!Next
    <3>1. sent = <<>> /\ sent' = Append(<<>>, m) /\ latched' = latched
      BY <2>1 DEF Call, SInv
    <3> QED
      BY <3>1 DEF Message, Wire!Message, Wire!Next, Wire!Send
  <2>2. CASE ClockHigh
    <3>1. CASE left = 1
      <4>1. sent = <<msg>> /\ latched' = msg /\ sent' = <<>>
        BY <2>2, <3>1, ClockHighKeepsSInv
      <4>2. Head(sent) = msg /\ Tail(sent) = <<>> /\ sent # <<>>
        BY <4>1
      <4> QED
        BY <4>1, <4>2 DEF Wire!Next, Wire!Latch
    <3>2. CASE left # 1
      BY <2>2, <3>2, ClockHighKeepsSInv
    <3> QED
      BY <3>1, <3>2
  <2>3. CASE PutBit \/ ClockLow \/ UNCHANGED vars
    BY <2>3 DEF PutBit, ClockLow, vars
  <2> QED
    BY <2>1, <2>2, <2>3 DEF Next
<1> QED
  BY <1>1, <1>2, SoftSpiInvariant, PTL DEF Spec
=============================================================================
