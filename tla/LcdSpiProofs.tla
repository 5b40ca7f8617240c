---------------------------- MODULE LcdSpiProofs ----------------------------
(***************************************************************************)
(* The hardware-SPI build delivers every message as it was sent, for every *)
(* size of the transmit FIFO, every level of TXE below it and every set of *)
(* bytes.                                                                  *)
(***************************************************************************)
EXTENDS LcdSpi, SequenceTheorems, TLAPS

\* The bytes on their way, the shift register's first, are those of `sent', all
\* sent with the level that the line has; a call that is past the drain has set it.
FInv ==
  /\ TypeOK
  /\ Len(sent) = Len(fifo) + Len(shift)
  /\ \A k \in 1 .. Len(sent) : sent[k].dc = dc
  /\ \A k \in 1 .. Len(shift) : sent[k].byte = shift[k]
  /\ \A k \in 1 .. Len(fifo) : sent[k + Len(shift)].byte = fifo[k]
  /\ pc = "send_byte" => dc = msg.dc

LEMMA CallKeepsFInv ==
  ASSUME FInv, NEW m \in Message, Call(m)
  PROVE  FInv'
<1>1. TypeOK'
  BY DEF FInv, Call, TypeOK
<1>2. pc' = "send_byte" => dc' = msg'.dc
  BY DEF Call
<1> QED
  BY <1>1, <1>2 DEF FInv, Call

LEMMA DrainKeepsFInv ==
  ASSUME FInv, Drain
  PROVE  FInv'
<1>1. fifo = <<>> /\ shift = <<>>
  BY DEF Drain, spi2_idle, bsy
<1>2. Len(sent) = 0 /\ Len(fifo) = 0 /\ Len(shift) = 0
  BY <1>1 DEF FInv, TypeOK
<1>3. TypeOK'
  BY DEF FInv, Drain, TypeOK, Message
<1> QED
  BY <1>2, <1>3 DEF FInv, Drain

LEMMA SendKeepsFInv ==
  ASSUME FInv, SendByte
  PROVE  FInv'
<1> USE LcdSpiAssumption
<1>1. /\ fifo \in Seq(Bytes) /\ sent \in Seq(Message) /\ shift \in Seq(Bytes)
      /\ msg \in Message /\ msg.byte \in Bytes /\ msg.dc = dc
      /\ Len(fifo) <= TxeLevel
  BY DEF FInv, TypeOK, SendByte, tx_ready, txe, Message
<1>2. /\ fifo' = Append(fifo, msg.byte) /\ sent' = Append(sent, msg)
      /\ pc' = "idle" /\ UNCHANGED <<msg, dc, shift, latched>>
  BY DEF SendByte
<1>3. /\ fifo' \in Seq(Bytes) /\ Len(fifo') = Len(fifo) + 1
      /\ \A k \in 1 .. Len(fifo) : fifo'[k] = fifo[k]
      /\ fifo'[Len(fifo) + 1] = msg.byte
  BY <1>1, <1>2, AppendProperties
<1>4. /\ sent' \in Seq(Message) /\ Len(sent') = Len(sent) + 1
      /\ \A k \in 1 .. Len(sent) : sent'[k] = sent[k]
      /\ sent'[Len(sent) + 1] = msg
  BY <1>1, <1>2, AppendProperties
<1>5. TypeOK'
  BY <1>1, <1>2, <1>3, <1>4 DEF FInv, TypeOK
<1>6. /\ Len(sent) \in Nat /\ Len(fifo) \in Nat /\ Len(shift) \in Nat
      /\ Len(sent) = Len(fifo) + Len(shift)
  BY <1>1 DEF FInv
<1>7. \A k \in 1 .. Len(sent') : sent'[k].dc = dc'
  BY <1>1, <1>2, <1>4, <1>6 DEF FInv
<1>8. \A k \in 1 .. Len(shift') : sent'[k].byte = shift'[k]
  BY <1>2, <1>4, <1>6 DEF FInv
<1>9. ASSUME NEW k \in 1 .. Len(fifo')
      PROVE  sent'[k + Len(shift')].byte = fifo'[k]
  <2>1. CASE k = Len(fifo) + 1
    BY <1>2, <1>3, <1>4, <1>6, <2>1
  <2>2. CASE k # Len(fifo) + 1
    <3>1. k \in 1 .. Len(fifo) /\ k + Len(shift) \in 1 .. Len(sent)
      BY <1>3, <1>6, <2>2
    <3>2. sent[k + Len(shift)].byte = fifo[k]
      BY <3>1 DEF FInv
    <3> QED
      BY <1>2, <1>3, <1>4, <3>1, <3>2
  <2> QED
    BY <2>1, <2>2
<1>10. Len(sent') = Len(fifo') + Len(shift')
  BY <1>2, <1>3, <1>4, <1>6
<1>11. pc' = "send_byte" => dc' = msg'.dc
  BY <1>2
<1> QED
  BY <1>5, <1>7, <1>8, <1>9, <1>10, <1>11, Zenon DEF FInv

LEMMA LoadKeepsFInv ==
  ASSUME FInv, Load
  PROVE  FInv'
<1> USE LcdSpiAssumption
<1>1. /\ fifo \in Seq(Bytes) /\ fifo # <<>> /\ shift = <<>> /\ Len(shift) = 0
      /\ shift' = <<Head(fifo)>> /\ fifo' = Tail(fifo)
      /\ UNCHANGED <<pc, msg, dc, latched, sent>>
  BY DEF FInv, TypeOK, Load
<1>2. /\ Head(fifo) \in Bytes /\ Head(fifo) = fifo[1] /\ Len(fifo) \in Nat /\ Len(fifo) > 0
      /\ fifo' \in Seq(Bytes) /\ Len(fifo') = Len(fifo) - 1
      /\ \A k \in 1 .. Len(fifo') : fifo'[k] = fifo[k + 1]
  BY <1>1, HeadTailProperties
<1>3. shift' \in Seq(Bytes) /\ Len(shift') = 1 /\ shift'[1] = fifo[1]
  BY <1>1, <1>2
<1>4. TypeOK'
  BY <1>1, <1>2, <1>3 DEF FInv, TypeOK
<1>5. \A k \in 1 .. Len(fifo) : sent[k].byte = fifo[k]
  BY <1>1, <1>2 DEF FInv
<1>6. \A k \in 1 .. Len(shift') : sent'[k].byte = shift'[k]
  BY <1>1, <1>2, <1>3, <1>5
<1>7. \A k \in 1 .. Len(fifo') : sent'[k + Len(shift')].byte = fifo'[k]
  BY <1>1, <1>2, <1>3, <1>5
<1> QED
  BY <1>1, <1>2, <1>3, <1>4, <1>6, <1>7 DEF FInv

LEMMA LatchKeepsFInv ==
  ASSUME FInv, Latch
  PROVE  /\ FInv'
         /\ sent # <<>> /\ latched' = Head(sent)
<1> USE LcdSpiAssumption
<1>1. /\ shift \in Seq(Bytes) /\ shift # <<>> /\ sent \in Seq(Message) /\ fifo \in Seq(Bytes)
      /\ shift' = <<>> /\ sent' = Tail(sent) /\ latched' = [dc |-> dc, byte |-> Head(shift)]
      /\ UNCHANGED <<pc, msg, dc, fifo>>
  BY DEF FInv, TypeOK, Latch
<1>2. Len(shift) = 1 /\ Head(shift) = shift[1] /\ Head(shift) \in Bytes
  <2>1. Len(shift) <= 1
    BY DEF FInv, TypeOK
  <2>2. Len(shift) \in Nat /\ Len(shift) # 0
    BY <1>1, EmptySeq
  <2>3. Head(shift) = shift[1] /\ Head(shift) \in Bytes
    BY <1>1, HeadTailProperties
  <2>4. Len(shift) = 1
    <3> DEFINE n == Len(shift)
    <3>1. n \in Nat /\ n # 0 /\ n <= 1
      BY <2>1, <2>2
    <3> HIDE DEF n
    <3>2. n = 1
      BY <3>1, SMTT(60)
    <3> QED
      BY <3>2 DEF n
  <2> QED
    BY <2>3, <2>4
<1>3. /\ Len(sent) = Len(fifo) + 1 /\ Len(fifo) \in Nat /\ sent # <<>>
      /\ sent[1].dc = dc /\ sent[1].byte = shift[1]
  BY <1>1, <1>2 DEF FInv
<1>4. /\ Head(sent) \in Message /\ Head(sent) = sent[1]
      /\ sent' \in Seq(Message) /\ Len(sent') = Len(sent) - 1
      /\ \A k \in 1 .. Len(sent') : sent'[k] = sent[k + 1]
  BY <1>1, <1>3, HeadTailProperties
<1>5. latched' = Head(sent)
  BY <1>1, <1>2, <1>3, <1>4 DEF Message
<1>6. shift' \in Seq(Bytes) /\ Len(shift') = 0
  BY <1>1
<1>7. TypeOK'
  BY <1>1, <1>4, <1>5, <1>6 DEF FInv, TypeOK
<1>8. \A k \in 1 .. Len(sent') : sent'[k].dc = dc'
  BY <1>1, <1>3, <1>4 DEF FInv
<1>9. ASSUME NEW k \in 1 .. Len(fifo')
      PROVE  sent'[k + Len(shift')].byte = fifo'[k]
  <2>1. k \in 1 .. Len(fifo) /\ k \in 1 .. Len(sent')
    BY <1>1, <1>3, <1>4
  <2>2. sent[k + 1].byte = fifo[k]
    BY <1>2, <2>1 DEF FInv
  <2> QED
    BY <1>1, <1>4, <1>6, <2>1, <2>2
<1>10. /\ Len(sent') = Len(fifo') + Len(shift')
       /\ \A k \in 1 .. Len(shift') : sent'[k].byte = shift'[k]
       /\ pc' = "send_byte" => dc' = msg'.dc
  BY <1>1, <1>3, <1>4, <1>6 DEF FInv
<1> QED
  BY <1>3, <1>5, <1>7, <1>8, <1>9, <1>10, Zenon DEF FInv

-----------------------------------------------------------------------------
LEMMA InitialMessage ==
  ASSUME Init
  PROVE  msg \in Message /\ latched \in Message
<1>1. PICK b \in Bytes : msg = [dc |-> FALSE, byte |-> b]
  BY Zenon DEF Init
<1>2. FALSE \in BOOLEAN
  OBVIOUS
<1>3. msg \in Message
  BY <1>1, <1>2 DEF Message
<1> QED
  BY <1>3 DEF Init

\* FInv holds in every state of the hardware-SPI build.
THEOREM FifoInvariant == Spec => []FInv
<1>1. Init => FInv
  <2> SUFFICES ASSUME Init
               PROVE  FInv
    OBVIOUS
  <2>1. msg \in Message /\ latched \in Message
    BY InitialMessage
  <2>2. pc = "idle" /\ dc = FALSE /\ fifo = <<>> /\ shift = <<>> /\ sent = <<>>
    BY DEF Init
  <2>3. /\ fifo \in Seq(Bytes) /\ shift \in Seq(Bytes) /\ sent \in Seq(Message)
        /\ Len(fifo) = 0 /\ Len(shift) = 0 /\ Len(sent) = 0
    BY <2>2
  <2>4. Len(fifo) <= FifoSize /\ Len(shift) <= 1
    BY <2>3, LcdSpiAssumption
  <2>5. dc \in BOOLEAN /\ pc \in {"idle", "drain", "send_byte"}
    BY <2>2
  <2>6. TypeOK
    BY <2>1, <2>3, <2>4, <2>5, Zenon DEF TypeOK
  <2> QED
    BY <2>2, <2>3, <2>6 DEF FInv
<1>2. FInv /\ [Next]_vars => FInv'
  <2>1. FInv /\ UNCHANGED vars => FInv'
    BY DEF vars, FInv, TypeOK
  <2> QED
    BY <2>1, CallKeepsFInv, DrainKeepsFInv, SendKeepsFInv, LoadKeepsFInv, LatchKeepsFInv DEF Next
<1> QED
  BY <1>1, <1>2, PTL DEF Spec

\* st7735.rs:132: waiting for TXE before each byte, the driver never overruns SPI2's FIFO.
THEOREM FifoNeverOverrun == Spec => []TypeOK
<1>1. FInv => TypeOK
  BY DEF FInv
<1> QED
  BY <1>1, FifoInvariant, PTL

\* st7735.rs:163: every byte still on its way was sent with the level that A0/DC has.
THEOREM LineMatchesInFlight == Spec => []InFlightMatchesLine
<1>1. FInv => InFlightMatchesLine
  <2> SUFFICES ASSUME FInv
               PROVE  InFlightMatchesLine
    OBVIOUS
  <2>1. /\ shift \in Seq(Bytes) /\ fifo \in Seq(Bytes) /\ Len(shift) \in Nat /\ Len(fifo) \in Nat
        /\ Len(sent) = Len(fifo) + Len(shift)
    BY DEF FInv, TypeOK
  <2>2. \A k \in 1 .. Len(shift) + Len(fifo) :
          (shift \o fifo)[k] = IF k <= Len(shift) THEN shift[k] ELSE fifo[k - Len(shift)]
    BY <2>1, ConcatProperties
  <2>3. ASSUME NEW k \in 1 .. Len(sent)
        PROVE  sent[k].byte = (shift \o fifo)[k]
    <3>1. CASE k <= Len(shift)
      BY <2>1, <2>2, <3>1 DEF FInv
    <3>2. CASE k > Len(shift)
      <4>1. k - Len(shift) \in 1 .. Len(fifo) /\ (k - Len(shift)) + Len(shift) = k
        BY <2>1, <3>2
      <4>2. sent[k].byte = fifo[k - Len(shift)]
        BY <4>1 DEF FInv
      <4> QED
        BY <2>1, <2>2, <3>2, <4>2
    <3> QED
      BY <2>1, <3>1, <3>2
  <2> QED
    BY <2>3 DEF FInv, InFlightMatchesLine
<1> QED
  BY <1>1, FifoInvariant, PTL

\* The hardware-SPI build implements LcdWire up to its fairness: the controller
\* latches every message as it was sent, in order.
THEOREM DeliversAsSent == Spec => Wire!Init /\ [][Wire!Next]_(Wire!vars)
<1>1. Init => Wire!Init
  BY InitialMessage DEF Init, Message, Wire!Init, Wire!Message
<1>2. FInv /\ [Next]_vars => [Wire!Next]_(Wire!vars)
  <2> SUFFICES ASSUME FInv, [Next]_vars
               PROVE  Wire!Next \/ UNCHANGED <<sent, latched>>
    BY DEF Wire!vars
  <2>1. CASE SendByte
    BY <2>1 DEF SendByte, FInv, TypeOK, Message, Wire!Next, Wire!Send, Wire!Message
  <2>2. CASE Latch
    BY <2>2, LatchKeepsFInv DEF Latch, Wire!Next, Wire!Latch
  <2>3. CASE (\E m \in Message : Call(m)) \/ Drain \/ Load \/ UNCHANGED vars
    BY <2>3 DEF Call, Drain, Load, vars
  <2> QED
    BY <2>1, <2>2, <2>3 DEF Next
<1> QED
  BY <1>1, <1>2, FifoInvariant, PTL DEF Spec
=============================================================================
