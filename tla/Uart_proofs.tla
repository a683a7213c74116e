----------------------------- MODULE Uart_proofs ------------------------------
(***************************************************************************)
(* Theorems about Uart, for FIFOs of any length, any number of bytes and   *)
(* any contents of the uninitialised tmp_iir.                              *)
(***************************************************************************)
EXTENDS Uart, SequenceTheorems, TLAPS

PortType ==
  [ier : SUBSET IerBits, iir : SUBSET IirBits, dlab : BOOLEAN, loop : BOOLEAN,
   lsr : SUBSET LsrBits, rx : Seq(Byte), rx_done : Nat, tx : Seq(Byte)]

(* The port between two accesses: the counters are within the arrays, LSR  *)
(* says whether a byte is left to read, the transmitter is idle.           *)
PortOK(p) ==
  /\ p \in PortType
  /\ Len(p.rx) <= FIFO_LEN /\ p.rx_done <= Len(p.rx)
  /\ "data" \in p.lsr <=> p.rx_done < Len(p.rx)
  /\ p.tx = <<>> /\ {"empty", "idle"} \subseteq p.lsr

(* IIR names every cause, and nothing else that was not on the stack.      *)
Named(p) == \E stray \in Garbage \union {{}} : p.iir = iir_from(p, stray)

LineIsLow == irq \in Line /\ ~irq.level

Histories ==
  term \in Seq(Put) /\ tty \in Seq(Byte) /\ input \in Seq(Byte)
    /\ written \in Seq(Byte) /\ received \in Seq(Byte)

(* How RxInOrder is kept: byte by byte.  Of the bytes read (y), those      *)
(* received (r) are the first, those in the FIFO (f) the next, followed    *)
(* there by bytes of a loopback test only, and those still with the        *)
(* terminal (t) the last.                                                  *)
Order(f, r, t, y) ==
  LET n == Len(y) - Len(t) - Len(r)
  IN  /\ n \in 0 .. Len(f)
      /\ \A i \in 1 .. Len(r) : r[i] = y[i]
      /\ \A i \in 1 .. n : f[i] = y[Len(r) + i]
      /\ \A i \in 1 .. Len(t) : t[i] = y[Len(r) + n + i]
      /\ \A i \in n + 1 .. Len(f) : f[i].from = "guest"
      /\ \A i \in 1 .. Len(y) : y[i].from # "guest"

(* What was given to terminal::put, byte by byte.                          *)
Matches(puts, bytes) ==
  Len(puts) = Len(bytes) /\ \A i \in 1 .. Len(bytes) : puts[i].byte = bytes[i]

IInv ==
  /\ Order(Unread(u), received, tty, input)
  /\ PortOK(u) /\ Named(u) /\ LineIsLow /\ Histories
  /\ gpc \in {"idle", "iir", "lsr", "data", "stop_tx"}
  /\ NoLostInterrupt
  /\ Matches(term, written)

-----------------------------------------------------------------------------
(* What an access does                                                     *)

(* What the two calls of a pulse do to the line, one by one, ...           *)
LEMMA RaisedLine ==
  ASSUME NEW l \in Line
  PROVE  LET r == merged(set_level(l, TRUE))
         IN  r \in Line /\ r.level /\ (l.events # 0 \/ ~l.level => r.events # 0)
<1> DEFINE r == set_level(l, TRUE)
<1>1. l.level \in BOOLEAN /\ l.events \in Nat
  BY DEF Line
<1>2. r \in Line
  BY <1>1 DEF set_level, Line
<1>3. r.level = TRUE /\ (l.events # 0 \/ ~l.level => r.events # 0)
  BY <1>1 DEF set_level
<1> HIDE DEF r
<1>4. merged(r) \in Line
  BY <1>2 DEF Line, merged
<1>5. merged(r).level = r.level
  BY <1>2 DEF Line, merged
<1>6. r.events # 0 => merged(r).events # 0
  BY <1>2 DEF Line, merged
<1> QED
  BY <1>3, <1>4, <1>5, <1>6 DEF r

LEMMA LoweredLine ==
  ASSUME NEW l \in Line
  PROVE  LET r == set_level(l, FALSE)
         IN  r \in Line /\ ~r.level /\ r.events = l.events
  BY DEF Line, set_level

(* ... and together, on a line that is low.                                *)
LEMMA PulsedLine ==
  ASSUME NEW l \in Line, ~l.level
  PROVE  pulse(l) \in Line /\ ~pulse(l).level /\ pulse(l).events > 0
<1> DEFINE up == merged(set_level(l, TRUE))
<1>1. l.events # 0 \/ ~l.level
  OBVIOUS
<1>2. up \in Line /\ up.events # 0
  BY <1>1, RaisedLine
<1> HIDE DEF up
<1> DEFINE r == set_level(up, FALSE)
<1>3. r \in Line /\ ~r.level /\ r.events # 0
  BY <1>2, LoweredLine
<1>4. pulse(l) = r
  BY DEF pulse, up
<1> HIDE DEF r
<1>5. r.events > 0
  BY <1>3 DEF Line
<1> QED
  BY <1>3, <1>4, <1>5

LEMMA Lengths ==
  ASSUME NEW s \in Seq(Byte)
  PROVE  /\ s = <<>> \/ Len(s) = 1 \/ Len(s) > 1
         /\ s = <<>> => Len(s) = 0
         /\ Len(s) > 1 => Len(s) # 1 /\ s # <<>>
         /\ Len(s) = 1 => Tail(s) = <<>>
<1>1. Len(s) \in Nat /\ (Len(s) = 0 <=> s = <<>>)
  BY LenProperties, EmptySeq
<1>2. ASSUME Len(s) = 1 PROVE Tail(s) = <<>>
  <2>1. Tail(s) \in Seq(Byte) /\ Len(Tail(s)) = 0
    BY <1>1, <1>2, HeadTailProperties
  <2> QED
    BY <2>1, EmptySeq
<1>3. \A n \in Nat : (n = 0 \/ n = 1 \/ n > 1) /\ (n > 1 => n # 1 /\ n # 0)
  OBVIOUS
<1> QED
  BY <1>1, <1>2, <1>3, Zenon

LEMMA UnreadBytes ==
  ASSUME NEW p, PortOK(p)
  PROVE  /\ Unread(p) \in Seq(Byte)
         /\ Len(Unread(p)) = Len(p.rx) - p.rx_done
         /\ \A i \in 1 .. Len(Unread(p)) : Unread(p)[i] = p.rx[p.rx_done + i]
         /\ Unread(p) = <<>> <=> p.rx_done = Len(p.rx)
<1>1. p.rx \in Seq(Byte) /\ p.rx_done \in Nat /\ p.rx_done <= Len(p.rx) /\ Len(p.rx) \in Nat
  BY LenProperties DEF PortOK, PortType
<1>2. \A i \in p.rx_done + 1 .. Len(p.rx) : p.rx[i] \in Byte
  BY <1>1, ElementOfSeq
<1>3. /\ Unread(p) \in Seq(Byte)
      /\ Len(Unread(p)) = IF p.rx_done + 1 <= Len(p.rx) THEN Len(p.rx) - (p.rx_done + 1) + 1 ELSE 0
  BY <1>1, <1>2, SubSeqProperties DEF Unread
<1>4. Len(Unread(p)) = Len(p.rx) - p.rx_done
  BY <1>1, <1>3
<1>5. ASSUME NEW i \in 1 .. Len(Unread(p)) PROVE Unread(p)[i] = p.rx[p.rx_done + i]
  <2>1. i \in 1 .. Len(p.rx) - (p.rx_done + 1) + 1 /\ p.rx_done + 1 + i - 1 = p.rx_done + i
    BY <1>1, <1>4
  <2>2. Unread(p)[i] = p.rx[p.rx_done + 1 + i - 1]
    BY <1>1, <2>1 DEF Unread
  <2> QED
    BY <2>1, <2>2
<1> QED
  BY <1>1, <1>3, <1>4, <1>5, EmptySeq

(* terminal::put is given what tx_buf holds, whether its write succeeds or *)
(* not.                                                                    *)
LEMMA FlushedBytes ==
  ASSUME NEW p, p.tx \in Seq(Byte), NEW put \in flushed(p)
  PROVE  put \in Seq(Put) /\ Matches(put, p.tx)
<1>1. PICK ok \in BOOLEAN : put = [i \in 1 .. Len(p.tx) |-> [byte |-> p.tx[i], shown |-> ok]]
  <2>1. PICK ok \in {TRUE, ~MayFail} :
          put = [i \in 1 .. Len(p.tx) |-> [byte |-> p.tx[i], shown |-> ok]]
    BY DEF flushed
  <2>2. ok \in BOOLEAN
    OBVIOUS
  <2> QED
    BY <2>1, <2>2
<1>2. Len(p.tx) \in Nat /\ \A i \in 1 .. Len(p.tx) : p.tx[i] \in Byte
  BY LenProperties, ElementOfSeq
<1>3. put \in [1 .. Len(p.tx) -> Put]
  BY <1>1, <1>2 DEF Put
<1>4. put \in Seq(Put) /\ Len(put) = Len(p.tx)
  BY <1>2, <1>3, SeqDef, LenProperties
<1>5. \A i \in 1 .. Len(p.tx) : put[i].byte = p.tx[i]
  BY <1>1
<1> QED
  BY <1>4, <1>5 DEF Matches

LEMMA NothingFlushed ==
  ASSUME NEW p, p.tx = <<>>, NEW put \in flushed(p)
  PROVE  put = <<>>
<1>1. p.tx \in Seq(Byte) /\ Len(p.tx) = 0
  BY EmptySeq
<1>2. put \in Seq(Put) /\ Len(put) = 0
  BY <1>1, FlushedBytes DEF Matches
<1> QED
  BY <1>2, EmptySeq

LEMMA MatchesMore ==
  ASSUME NEW t \in Seq(Put), NEW w \in Seq(Byte), Matches(t, w),
         NEW put \in Seq(Put), NEW b \in Seq(Byte), Matches(put, b)
  PROVE  Matches(t \o put, w \o b)
<1> DEFINE x == t \o put
           y == w \o b
<1>1. /\ Len(t) = Len(w) /\ Len(put) = Len(b) /\ Len(w) \in Nat /\ Len(b) \in Nat
      /\ \A i \in 1 .. Len(w) : t[i].byte = w[i]
      /\ \A i \in 1 .. Len(b) : put[i].byte = b[i]
  BY LenProperties DEF Matches
<1>2. /\ Len(x) = Len(t) + Len(put)
      /\ \A i \in 1 .. Len(t) + Len(put) : x[i] = IF i <= Len(t) THEN t[i] ELSE put[i - Len(t)]
  BY ConcatProperties
<1>3. /\ Len(y) = Len(w) + Len(b)
      /\ \A i \in 1 .. Len(w) + Len(b) : y[i] = IF i <= Len(w) THEN w[i] ELSE b[i - Len(w)]
  BY ConcatProperties
<1> HIDE DEF x, y
<1>4. ASSUME NEW i \in 1 .. Len(y) PROVE x[i].byte = y[i]
  <2>1. CASE i <= Len(w)
    <3>1. x[i] = t[i] /\ y[i] = w[i] /\ i \in 1 .. Len(w)
      BY <1>1, <1>2, <1>3, <2>1
    <3> QED
      BY <1>1, <3>1
  <2>2. CASE ~(i <= Len(w))
    <3>1. x[i] = put[i - Len(w)] /\ y[i] = b[i - Len(w)] /\ i - Len(w) \in 1 .. Len(b)
      BY <1>1, <1>2, <1>3, <2>2
    <3> QED
      BY <1>1, <3>1
  <2> QED
    BY <2>1, <2>2
<1>5. Len(x) = Len(y)
  BY <1>1, <1>2, <1>3
<1>6. Matches(x, y)
  BY <1>4, <1>5 DEF Matches
<1> QED
  BY <1>6 DEF x, y

(* update_irq leaves the port and the line in order, whatever was on the   *)
(* stack.                                                                  *)
LEMMA UpdateIrq ==
  ASSUME NEW p, PortOK(p), NEW put \in Seq(Put), LineIsLow, term \in Seq(Put),
         update_irq(p, put)
  PROVE  /\ PortOK(u') /\ Named(u')
         /\ LineIsLow' /\ term' \in Seq(Put) /\ term' = term \o put
         /\ Identified(u', {}) # {} => irq'.events > 0
         /\ Unread(u') = Unread(p)
<1>1. PICK tmp \in Garbage :
        LET i == Identified(p, tmp)
            r == [p EXCEPT !.iir = IF i = {} THEN {"none"} ELSE i]
        IN  /\ irq' = IF i = {} THEN set_level(irq, FALSE) ELSE pulse(irq)
            /\ u' = IF "thr" \in p.ier THEN r ELSE flush_tx(r)
            /\ \E more \in IF "thr" \in p.ier THEN {<<>>} ELSE flushed(r) :
                 term' = term \o put \o more
  BY DEF update_irq
<1> DEFINE i == Identified(p, tmp)
           bits == IF i = {} THEN {"none"} ELSE i
           r == [p EXCEPT !.iir = bits]
<1>2. i \subseteq IirBits /\ Identified(p, {}) \subseteq i
  BY UartConstants DEF UartConstants, Identified, IirBits
<1>3. bits \subseteq IirBits /\ i \subseteq bits
  BY <1>2 DEF IirBits
<1>4. irq' = IF i = {} THEN set_level(irq, FALSE) ELSE pulse(irq)
  BY <1>1
<1>5. u' = IF "thr" \in p.ier THEN r ELSE flush_tx(r)
  BY <1>1
<1>6. PICK more \in IF "thr" \in p.ier THEN {<<>>} ELSE flushed(r) :
        term' = term \o put \o more
  BY <1>1
<1> HIDE DEF i, bits
<1>7. /\ r \in PortType /\ r.iir = bits
      /\ r.ier = p.ier /\ r.lsr = p.lsr /\ r.rx = p.rx /\ r.rx_done = p.rx_done /\ r.tx = <<>>
  BY <1>3 DEF PortOK, PortType
<1> HIDE DEF r
<1>8. flush_tx(r) = r
  <2>1. r.lsr \union {"empty", "idle"} = r.lsr
    BY <1>7 DEF PortOK
  <2>2. r = [r EXCEPT !.lsr = r.lsr, !.tx = r.tx]
    BY <1>7 DEF PortType
  <2> QED
    BY <2>1, <2>2, <1>7 DEF flush_tx
<1>9. u' = r
  BY <1>5, <1>8
<1>10. PortOK(u')
  BY <1>7, <1>9 DEF PortOK
<1>11. Identified(u', {}) = Identified(p, {})
  BY <1>7, <1>9 DEF Identified
<1>12. Named(u')
  <2>1. Identified(u', tmp) = i
    BY <1>7, <1>9 DEF Identified, i
  <2>2. u'.iir = iir_from(u', tmp)
    BY <1>7, <1>9, <2>1 DEF iir_from, bits
  <2> QED
    BY <2>2 DEF Named
<1>13. irq' \in Line /\ ~irq'.level /\ (i # {} => irq'.events > 0)
  BY <1>4, PulsedLine, LoweredLine DEF LineIsLow
<1>14. term' \in Seq(Put) /\ term' = term \o put
  <2>1. more = <<>>
    BY <1>6, <1>7, NothingFlushed
  <2> DEFINE s == term \o put
  <2>2. term' = s \o <<>>
    BY <1>6, <2>1
  <2>3. s \in Seq(Put)
    BY ConcatProperties
  <2> HIDE DEF s
  <2>4. s \o <<>> = s
    BY <2>3, ConcatEmptySeq
  <2> QED
    BY <2>2, <2>3, <2>4 DEF s
<1>15. Unread(u') = Unread(p)
  BY <1>7, <1>9 DEF Unread
<1> QED
  BY <1>2, <1>10, <1>11, <1>12, <1>13, <1>14, <1>15 DEF LineIsLow

(* What the switch of read or write does to the port before update_irq.    *)
LEMMA ModeWritten ==
  ASSUME PortOK(u), NEW bits \in SUBSET IerBits, NEW on \in BOOLEAN,
         NEW p \in {u, [u EXCEPT !.ier = bits], [u EXCEPT !.dlab = on], [u EXCEPT !.loop = on]}
  PROVE  PortOK(p) /\ Unread(p) = Unread(u)
BY DEF PortOK, PortType, Unread

LEMMA DataRead ==
  ASSUME PortOK(u)
  PROVE  /\ PortOK(read_data(u))
         /\ Unread(read_data(u)) = IF Unread(u) = <<>> THEN <<>> ELSE Tail(Unread(u))
<1>1. u.rx \in Seq(Byte) /\ u.rx_done \in Nat /\ Len(u.rx) \in Nat /\ u.rx_done <= Len(u.rx)
  BY DEF PortOK, PortType
<1>2. Unread(u) \in Seq(Byte) /\ Len(Unread(u)) \in Nat
  BY UnreadBytes, LenProperties
<1>3. CASE Unread(u) = <<>>
  BY <1>3 DEF read_data
<1>4. CASE Len(Unread(u)) = 1
  <2>1. Unread(u) # <<>> /\ at_last(u) /\ Tail(Unread(u)) = <<>>
    <3> DEFINE s == Unread(u)
    <3>1. at_last(u)
      BY <1>4 DEF at_last
    <3>2. s \in Seq(Byte) /\ Len(s) = 1
      BY <1>2, <1>4
    <3> HIDE DEF s
    <3>3. s # <<>>
      BY ONLY <3>2, EmptySeq
    <3>4. Tail(s) = <<>>
      BY ONLY <3>2, Lengths
    <3> QED
      BY <3>1, <3>3, <3>4 DEF s
  <2>2. read_data(u) = emptied(u)
    BY <2>1 DEF read_data
  <2>3. PortOK(emptied(u))
    <3>1. emptied(u) \in PortType
      BY EmptySeq DEF emptied, PortOK, PortType
    <3>2. /\ emptied(u).rx = <<>> /\ emptied(u).rx_done = 0 /\ emptied(u).tx = u.tx
          /\ emptied(u).lsr = u.lsr \ {"data"}
      BY DEF emptied, PortOK, PortType
    <3> QED
      BY <3>1, <3>2, UartConstants, EmptySeq DEF PortOK, UartConstants
  <2>4. Unread(emptied(u)) = <<>>
    BY SubSeqEmpty, EmptySeq DEF Unread, emptied, PortOK, PortType
  <2> QED
    BY <2>1, <2>2, <2>3, <2>4
<1>5. CASE Len(Unread(u)) > 1
  <2>1. Unread(u) # <<>> /\ ~at_last(u)
    BY <1>2, <1>5, Lengths DEF at_last
  <2>2. read_data(u) = [u EXCEPT !.rx_done = @ + 1]
    BY <2>1 DEF read_data
  <2>3. u.rx_done + 1 < Len(u.rx)
    BY <1>1, <1>5, UnreadBytes
  <2>4. PortOK(read_data(u))
    BY <1>1, <2>2, <2>3 DEF PortOK, PortType
  <2>5. Unread(read_data(u)) = SubSeq(u.rx, u.rx_done + 2, Len(u.rx))
    BY <1>1, <2>2 DEF Unread, PortOK, PortType
  <2>6. Tail(Unread(u)) = SubSeq(u.rx, u.rx_done + 2, Len(u.rx))
    <3>1. u.rx_done + 1 \in 1 .. Len(u.rx) /\ Len(u.rx) \in u.rx_done + 1 .. Len(u.rx)
      BY <1>1, <2>3
    <3>2. Tail(Unread(u)) = SubSeq(u.rx, (u.rx_done + 1) + 1, Len(u.rx))
      BY <1>1, <3>1, HeadTailOfSubSeq DEF Unread
    <3>3. (u.rx_done + 1) + 1 = u.rx_done + 2
      BY <1>1
    <3> QED
      BY <3>2, <3>3
  <2> QED
    BY <2>1, <2>4, <2>5, <2>6
<1> QED
  BY <1>2, <1>3, <1>4, <1>5, Lengths

LEMMA DataLooped ==
  ASSUME PortOK(u), NEW b \in Byte
  PROVE  /\ PortOK(loop_data(u, b))
         /\ Unread(loop_data(u, b)) \in {Unread(u), Append(Unread(u), b)}
<1>1. CASE ~has_room(u)
  BY <1>1 DEF loop_data
<1>2. CASE has_room(u)
  <2> DEFINE p == [u EXCEPT !.rx = Append(@, b), !.lsr = @ \union {"data"}]
  <2>1. loop_data(u, b) = p
    BY <1>2 DEF loop_data
  <2>2. /\ u.rx \in Seq(Byte) /\ u.rx_done \in Nat /\ u.rx_done <= Len(u.rx)
        /\ Len(u.rx) < FIFO_LEN /\ Len(u.rx) \in Nat
    BY <1>2, LenProperties DEF PortOK, PortType, has_room
  <2>3. /\ Append(u.rx, b) \in Seq(Byte) /\ Len(Append(u.rx, b)) = Len(u.rx) + 1
        /\ \A i \in 1 .. Len(u.rx) : Append(u.rx, b)[i] = u.rx[i]
        /\ Append(u.rx, b)[Len(u.rx) + 1] = b
    BY <2>2, AppendProperties
  <2>4. /\ p.rx = Append(u.rx, b) /\ p.rx_done = u.rx_done /\ p.tx = u.tx
        /\ p.lsr = u.lsr \union {"data"} /\ p \in PortType
    BY <2>3 DEF PortOK, PortType, LsrBits
  <2> HIDE DEF p
  <2>5. PortOK(p)
    BY <2>2, <2>3, <2>4, UartConstants DEF PortOK, UartConstants
  <2>6. Unread(p) = Append(Unread(u), b)
    <3>1. /\ Unread(p) \in Seq(Byte) /\ Len(Unread(p)) = Len(u.rx) + 1 - u.rx_done
      <4>1. Unread(p) \in Seq(Byte) /\ Len(Unread(p)) = Len(p.rx) - p.rx_done
        BY <2>5, UnreadBytes
      <4> QED
        BY <2>2, <2>3, <2>4, <4>1
    <3>2. /\ Unread(u) \in Seq(Byte) /\ Len(Unread(u)) = Len(u.rx) - u.rx_done
          /\ \A i \in 1 .. Len(Unread(u)) : Unread(u)[i] = u.rx[u.rx_done + i]
      BY UnreadBytes
    <3>3. \A i \in 1 .. Len(Unread(p)) : Unread(p)[i] = Append(u.rx, b)[u.rx_done + i]
      BY <2>4, <2>5, UnreadBytes
    <3>4. /\ Append(Unread(u), b) \in Seq(Byte)
          /\ Len(Append(Unread(u), b)) = Len(Unread(u)) + 1
          /\ \A i \in 1 .. Len(Unread(u)) : Append(Unread(u), b)[i] = Unread(u)[i]
          /\ Append(Unread(u), b)[Len(Unread(u)) + 1] = b
      BY <3>2, AppendProperties
    <3>5. ASSUME NEW i \in 1 .. Len(Unread(p))
          PROVE  Unread(p)[i] = Append(Unread(u), b)[i]
      <4>1. CASE i = Len(Unread(p))
        <5>1. u.rx_done + i = Len(u.rx) + 1 /\ i = Len(Unread(u)) + 1
          BY <2>2, <3>1, <3>2, <4>1
        <5>2. Unread(p)[i] = Append(u.rx, b)[u.rx_done + i]
          BY <3>3
        <5> QED
          BY <2>3, <3>4, <5>1, <5>2
      <4>2. CASE i \in 1 .. Len(Unread(u))
        <5>1. u.rx_done + i \in 1 .. Len(u.rx)
          BY <2>2, <3>2, <4>2
        <5> QED
          BY <2>3, <3>2, <3>3, <3>4, <4>2, <5>1
      <4> QED
        BY <2>2, <3>1, <3>2, <4>1, <4>2
    <3> QED
      BY <2>2, <3>1, <3>2, <3>4, <3>5, SeqEqual
  <2> QED
    BY <2>1, <2>5, <2>6
<1> QED
  BY <1>1, <1>2

(* tx_buf takes the byte and is flushed at once, so it is never full.      *)
LEMMA DataSent ==
  ASSUME PortOK(u), NEW b \in Byte
  PROVE  LET r == queue_data(u, b)
         IN  /\ ~tx_full(u)
             /\ PortOK(flush_tx(r)) /\ Unread(flush_tx(r)) = Unread(u)
             /\ \A put \in flushed(r) : put \in Seq(Put) /\ Matches(put, <<b>>)
<1> DEFINE r == queue_data(u, b)
<1>1. u.tx = <<>> /\ u \in PortType
  BY DEF PortOK
<1>2. ~tx_full(u)
  BY <1>1, UartConstants DEF tx_full, UartConstants
<1>3. PICK bits : r = [u EXCEPT !.tx = <<b>>, !.lsr = @ \ bits] /\ "data" \notin bits
  <2> DEFINE bits == IF Len(<<b>>) = FIFO_LEN \div 2 THEN {"idle", "empty"} ELSE {"idle"}
  <2>1. Append(u.tx, b) = <<b>>
    BY <1>1
  <2>2. r = [u EXCEPT !.tx = <<b>>, !.lsr = @ \ bits]
    BY <2>1 DEF queue_data
  <2>3. "data" \notin bits
    OBVIOUS
  <2> HIDE DEF bits, r
  <2> QED
    BY <2>2, <2>3
<1> HIDE DEF r
<1>4. \A put \in flushed(r) : put \in Seq(Put) /\ Matches(put, <<b>>)
  <2>1. r.tx = <<b>> /\ <<b>> \in Seq(Byte)
    BY <1>1, <1>3 DEF PortType
  <2> QED
    BY <2>1, FlushedBytes
<1>5. /\ flush_tx(r).rx = u.rx /\ flush_tx(r).rx_done = u.rx_done /\ flush_tx(r).tx = <<>>
      /\ flush_tx(r).lsr = (u.lsr \ bits) \union {"empty", "idle"}
  BY <1>1, <1>3 DEF flush_tx, PortType
<1>6. flush_tx(r) \in PortType
  BY <1>1, <1>3 DEF flush_tx, PortType, LsrBits
<1>7. PortOK(flush_tx(r))
  BY <1>3, <1>5, <1>6 DEF PortOK
<1>8. Unread(flush_tx(r)) = Unread(u)
  BY <1>5 DEF Unread
<1> QED
  BY <1>2, <1>4, <1>7, <1>8 DEF r

(* write_stdio fills an empty rx_buf with no more than it holds.           *)
LEMMA Filled ==
  ASSUME PortOK(u), tty \in Seq(Byte), "data" \notin u.lsr, u.rx = <<>>
  PROVE  LET n == Taken(u)
             p == fill_rx(u, Got(n))
         IN  /\ n \in 0 .. Len(tty)
             /\ PortOK(p) /\ Unread(p) = Got(n)
             /\ Got(n) \in Seq(Byte) /\ Len(Got(n)) = n
<1> DEFINE n == Taken(u)
           p == fill_rx(u, Got(n))
<1>1. Len(tty) \in Nat
  BY LenProperties
<1>2. n \in 0 .. Len(tty) /\ n <= FIFO_LEN
  BY <1>1, UartConstants DEF Taken, UartConstants
<1> HIDE DEF n
<1>3. Got(n) \in Seq(Byte) /\ Len(Got(n)) = n
  <2>1. \A i \in 1 .. n : tty[i] \in Byte
    BY <1>1, <1>2, ElementOfSeq
  <2>2. Len(Got(n)) = (IF 1 <= n THEN n - 1 + 1 ELSE 0) /\ Got(n) \in Seq(Byte)
    BY <1>2, <2>1, SubSeqProperties DEF Got
  <2> QED
    BY <1>2, <2>2
<1>4. u \in PortType /\ u.rx_done = 0
  BY DEF PortOK, PortType
<1>5. /\ p.rx = Got(n) /\ p.rx_done = 0 /\ p.tx = u.tx
      /\ p.lsr = (IF Got(n) = <<>> THEN u.lsr ELSE u.lsr \union {"data"})
  BY <1>3, <1>4, ConcatEmptySeq DEF fill_rx, PortType
<1>6. p \in PortType
  BY <1>3, <1>4, ConcatEmptySeq DEF fill_rx, PortType, LsrBits
<1> HIDE DEF p
<1>7. Got(n) = <<>> <=> n = 0
  BY <1>3, EmptySeq
<1>8. PortOK(p)
  BY <1>2, <1>3, <1>5, <1>6, <1>7 DEF PortOK
<1>9. Unread(p) = Got(n)
  BY <1>3, <1>5, SubSeqFull DEF Unread
<1> QED
  BY <1>2, <1>3, <1>8, <1>9 DEF n, p

-----------------------------------------------------------------------------
(* The order of the bytes                                                  *)

LEMMA OrderRead ==
  ASSUME NEW f \in Seq(Byte), NEW r \in Seq(Byte), NEW t \in Seq(Byte), NEW y \in Seq(Byte),
         Order(f, r, t, y), f # <<>>
  PROVE  Order(Tail(f), IF Head(f).from # "guest" THEN Append(r, Head(f)) ELSE r, t, y)
<1> DEFINE n == Len(y) - Len(t) - Len(r)
<1>1. /\ Len(f) \in Nat \ {0} /\ Len(r) \in Nat /\ Len(t) \in Nat /\ Len(y) \in Nat
      /\ Head(f) = f[1] /\ Tail(f) \in Seq(Byte) /\ Len(Tail(f)) = Len(f) - 1
      /\ \A i \in 1 .. Len(Tail(f)) : Tail(f)[i] = f[i + 1]
  BY LenProperties, HeadTailProperties, EmptySeq
<1>2. CASE n = 0
  <2>1. f[1].from = "guest"
    BY <1>1, <1>2 DEF Order
  <2> QED
    BY <1>1, <1>2, <2>1 DEF Order
<1>3. CASE n > 0
  <2>1. f[1] = y[Len(r) + 1] /\ Len(r) + 1 \in 1 .. Len(y)
    BY <1>1, <1>3 DEF Order
  <2>2. f[1].from # "guest"
    BY <2>1 DEF Order
  <2> DEFINE g == Tail(f)
             x == Append(r, f[1])
  <2>3. f[1] \in Byte
    BY <1>1, ElementOfSeq
  <2>4. /\ Len(x) = Len(r) + 1
        /\ \A i \in 1 .. Len(r) : x[i] = r[i]
        /\ x[Len(r) + 1] = f[1]
    BY <2>3, AppendProperties
  <2>5. /\ Len(g) = Len(f) - 1
        /\ \A i \in 1 .. Len(g) : g[i] = f[i + 1]
    BY <1>1
  <2> HIDE DEF g, x, n
  <2>6. Order(g, x, t, y)
    <3>1. /\ n \in Nat /\ n <= Len(f) /\ Len(y) = Len(r) + n + Len(t)
          /\ \A i \in 1 .. Len(r) : r[i] = y[i]
          /\ \A i \in 1 .. n : f[i] = y[Len(r) + i]
          /\ \A i \in 1 .. Len(t) : t[i] = y[Len(r) + n + i]
          /\ \A i \in n + 1 .. Len(f) : f[i].from = "guest"
          /\ \A i \in 1 .. Len(y) : y[i].from # "guest"
      BY <1>1 DEF Order, n
    <3> DEFINE m == Len(y) - Len(t) - Len(x)
    <3>2. m \in 0 .. Len(g) /\ n = m + 1
      BY <1>1, <1>3, <2>4, <2>5, <3>1
    <3> HIDE DEF m
    <3>3. ASSUME NEW i \in 1 .. Len(x) PROVE x[i] = y[i]
      <4>1. CASE i = Len(r) + 1
        BY <2>1, <2>4, <4>1
      <4>2. CASE i # Len(r) + 1
        <5>1. i \in 1 .. Len(r)
          BY <1>1, <2>4, <3>3, <4>2
        <5> QED
          BY <2>4, <3>1, <5>1
      <4> QED
        BY <4>1, <4>2
    <3>4. ASSUME NEW i \in 1 .. m PROVE g[i] = y[Len(x) + i]
      <4>1. i \in 1 .. Len(g) /\ i + 1 \in 1 .. n /\ Len(x) + i = Len(r) + (i + 1)
        BY <1>1, <2>4, <2>5, <3>2, <3>4
      <4> QED
        BY <2>5, <3>1, <4>1
    <3>5. ASSUME NEW i \in 1 .. Len(t) PROVE t[i] = y[Len(x) + m + i]
      <4>1. Len(x) + m + i = Len(r) + n + i
        BY <1>1, <2>4, <3>2, <3>5
      <4> QED
        BY <3>1, <4>1
    <3>6. ASSUME NEW i \in m + 1 .. Len(g) PROVE g[i].from = "guest"
      <4>1. i \in 1 .. Len(g) /\ i + 1 \in n + 1 .. Len(f)
        BY <1>1, <2>5, <3>2, <3>6
      <4> QED
        BY <2>5, <3>1, <4>1
    <3> QED
      BY <3>1, <3>2, <3>3, <3>4, <3>5, <3>6 DEF Order, m
  <2> QED
    BY <1>1, <2>2, <2>6 DEF g, x
<1>4. n \in Nat
  BY DEF Order
<1> HIDE DEF n
<1> QED
  BY <1>2, <1>3, <1>4

LEMMA OrderLooped ==
  ASSUME NEW f \in Seq(Byte), NEW r \in Seq(Byte), NEW t \in Seq(Byte), NEW y \in Seq(Byte),
         Order(f, r, t, y), NEW b \in Byte, b.from = "guest"
  PROVE  Order(Append(f, b), r, t, y)
<1>1. Len(f) \in Nat /\ Len(r) \in Nat /\ Len(t) \in Nat /\ Len(y) \in Nat
  BY LenProperties
<1>2. /\ Len(Append(f, b)) = Len(f) + 1
      /\ \A i \in 1 .. Len(f) : Append(f, b)[i] = f[i]
      /\ Append(f, b)[Len(f) + 1] = b
  BY AppendProperties
<1> QED
  BY <1>1, <1>2 DEF Order

LEMMA OrderFilled ==
  ASSUME NEW r \in Seq(Byte), NEW t \in Seq(Byte), NEW y \in Seq(Byte),
         Order(<<>>, r, t, y), NEW m \in 0 .. Len(t)
  PROVE  Order(SubSeq(t, 1, m), r, SubSeq(t, m + 1, Len(t)), y)
<1>1. Len(r) \in Nat /\ Len(t) \in Nat /\ Len(y) \in Nat
  BY LenProperties
<1>2. Len(y) - Len(t) - Len(r) = 0
  BY <1>1 DEF Order
<1>3. \A i \in 1 .. Len(t) : t[i] \in Byte
  BY ElementOfSeq
<1>4. /\ Len(SubSeq(t, 1, m)) = m
      /\ \A i \in 1 .. m : SubSeq(t, 1, m)[i] = t[i]
  <2>1. \A i \in 1 .. m : t[i] \in Byte
    BY <1>1, <1>3
  <2> QED
    BY <1>1, <2>1, SubSeqProperties
<1>5. /\ Len(SubSeq(t, m + 1, Len(t))) = Len(t) - m
      /\ \A i \in 1 .. Len(t) - m : SubSeq(t, m + 1, Len(t))[i] = t[m + i]
  <2>1. \A i \in m + 1 .. Len(t) : t[i] \in Byte
    BY <1>1, <1>3
  <2> QED
    BY <1>1, <2>1, SubSeqProperties
<1>6. /\ \A i \in 1 .. Len(r) : r[i] = y[i]
      /\ \A i \in 1 .. Len(t) : t[i] = y[Len(r) + i]
      /\ \A i \in 1 .. Len(y) : y[i].from # "guest"
  <2>1. \A i \in 1 .. Len(t) : t[i] = y[Len(r) + (Len(y) - Len(t) - Len(r)) + i]
    BY DEF Order
  <2>2. \A i \in 1 .. Len(t) : Len(r) + (Len(y) - Len(t) - Len(r)) + i = Len(r) + i
    BY <1>1, <1>2
  <2> QED
    BY <2>1, <2>2 DEF Order
<1> DEFINE f2 == SubSeq(t, 1, m)
           t2 == SubSeq(t, m + 1, Len(t))
           n2 == Len(y) - Len(t2) - Len(r)
<1>7. Len(f2) = m /\ Len(t2) = Len(t) - m /\ n2 = m
  <2>1. Len(f2) = m /\ Len(t2) = Len(t) - m
    BY <1>4, <1>5
  <2> HIDE DEF t2
  <2>2. n2 = m
    BY <1>1, <1>2, <2>1
  <2> QED
    BY <2>1, <2>2
<1>8. \A i \in 1 .. m : f2[i] = y[Len(r) + i]
  BY <1>1, <1>4, <1>6
<1>9. \A i \in 1 .. Len(t) - m : t2[i] = y[Len(r) + m + i]
  <2> SUFFICES ASSUME NEW i \in 1 .. Len(t) - m PROVE t2[i] = y[Len(r) + m + i]
    OBVIOUS
  <2>1. t2[i] = t[m + i] /\ m + i \in 1 .. Len(t) /\ Len(r) + (m + i) = Len(r) + m + i
    BY <1>1, <1>5
  <2> QED
    BY <1>6, <2>1
<1> HIDE DEF f2, t2, n2
<1>10. Order(f2, r, t2, y)
  <2>1. n2 \in 0 .. Len(f2) /\ Len(f2) = n2 /\ Len(t2) = Len(t) - n2 /\ Len(r) \in Nat
    BY <1>1, <1>7
  <2>2. \A i \in 1 .. n2 : f2[i] = y[Len(r) + i]
    BY <1>7, <1>8
  <2>3. \A i \in 1 .. Len(t2) : t2[i] = y[Len(r) + n2 + i]
    BY <1>7, <1>9
  <2>4. \A i \in n2 + 1 .. Len(f2) : f2[i].from = "guest"
    BY <2>1
  <2> QED
    BY <1>6, <2>1, <2>2, <2>3, <2>4 DEF Order, n2
<1> QED
  BY <1>10 DEF f2, t2

LEMMA OrderTyped ==
  ASSUME NEW f \in Seq(Byte), NEW r \in Seq(Byte), NEW t \in Seq(Byte), NEW y \in Seq(Byte),
         Order(f, r, t, y), NEW b \in Byte, b.from # "guest"
  PROVE  Order(f, r, Append(t, b), Append(y, b))
<1>1. Len(f) \in Nat /\ Len(r) \in Nat /\ Len(t) \in Nat /\ Len(y) \in Nat
  BY LenProperties
<1>2. /\ Len(Append(t, b)) = Len(t) + 1
      /\ \A i \in 1 .. Len(t) : Append(t, b)[i] = t[i]
      /\ Append(t, b)[Len(t) + 1] = b
  BY AppendProperties
<1>3. /\ Len(Append(y, b)) = Len(y) + 1
      /\ \A i \in 1 .. Len(y) : Append(y, b)[i] = y[i]
      /\ Append(y, b)[Len(y) + 1] = b
  BY AppendProperties
<1> DEFINE n == Len(y) - Len(t) - Len(r)
           t2 == Append(t, b)
           y2 == Append(y, b)
<1>4. n \in 0 .. Len(f) /\ Len(y2) - Len(t2) - Len(r) = n /\ Len(r) + n + Len(t) = Len(y)
  BY <1>1, <1>2, <1>3 DEF Order
<1>5. \A i \in 1 .. Len(r) : r[i] = y2[i]
  BY <1>1, <1>3, <1>4 DEF Order
<1>6. \A i \in 1 .. n : f[i] = y2[Len(r) + i]
  <2> SUFFICES ASSUME NEW i \in 1 .. n PROVE f[i] = y2[Len(r) + i]
    OBVIOUS
  <2>1. f[i] = y[Len(r) + i]
    BY DEF Order
  <2>2. Len(r) + i \in 1 .. Len(y)
    BY <1>1, <1>4
  <2> QED
    BY <1>3, <2>1, <2>2
<1>7. \A i \in 1 .. Len(t2) : t2[i] = y2[Len(r) + n + i]
  <2> SUFFICES ASSUME NEW i \in 1 .. Len(t) + 1 PROVE t2[i] = y2[Len(r) + n + i]
    BY <1>2
  <2>1. CASE i = Len(t) + 1
    <3>1. Len(r) + n + i = Len(y) + 1
      BY <1>1, <1>4, <2>1
    <3> QED
      BY <1>2, <1>3, <2>1, <3>1
  <2>2. CASE i \in 1 .. Len(t)
    <3>1. t[i] = y[Len(r) + n + i]
      BY <2>2 DEF Order
    <3>2. Len(r) + n + i \in 1 .. Len(y)
      BY <1>1, <1>4, <2>2
    <3>3. t2[i] = t[i]
      BY <1>2, <2>2
    <3>4. y2[Len(r) + n + i] = y[Len(r) + n + i]
      BY <1>3, <3>2
    <3> QED
      BY <3>1, <3>3, <3>4
  <2>3. i = Len(t) + 1 \/ i \in 1 .. Len(t)
    BY <1>1
  <2> QED
    BY <2>1, <2>2, <2>3
<1>8. \A i \in 1 .. Len(y2) : y2[i].from # "guest"
  BY <1>1, <1>3 DEF Order
<1>9. \A i \in n + 1 .. Len(f) : f[i].from = "guest"
  BY DEF Order
<1> HIDE DEF n, t2, y2
<1>10. Order(f, r, t2, y2)
  BY <1>4, <1>5, <1>6, <1>7, <1>8, <1>9 DEF Order
<1> QED
  BY <1>10 DEF t2, y2

-----------------------------------------------------------------------------
(* The invariant                                                           *)

(* An access after which the order of the bytes holds keeps the rest, if   *)
(* what it puts on the terminal was written.                               *)
LEMMA SendingKeeps ==
  ASSUME IInv, NEW p, PortOK(p), NEW put \in Seq(Put), update_irq(p, put),
         NEW bytes \in Seq(Byte), Matches(put, bytes),
         Order(Unread(p), received', tty', input'),
         tty' \in Seq(Byte), input' \in Seq(Byte), written' = written \o bytes,
         received' \in Seq(Byte),
         gpc' \in {"idle", "iir", "lsr", "data", "stop_tx"}
  PROVE  IInv'
<1>1. /\ PortOK(u') /\ Named(u') /\ LineIsLow' /\ term' \in Seq(Put) /\ term' = term \o put
      /\ Identified(u', {}) # {} => irq'.events > 0
      /\ Unread(u') = Unread(p)
  BY UpdateIrq DEF IInv, Histories
<1>2. NoLostInterrupt'
  BY <1>1 DEF NoLostInterrupt
<1>3. Order(Unread(u'), received', tty', input')
  BY <1>1
<1>4. Matches(term, written) /\ term \in Seq(Put) /\ written \in Seq(Byte)
  BY DEF IInv, Histories
<1>5. Matches(term \o put, written \o bytes)
  BY <1>4, MatchesMore
<1>6. Matches(term, written)'
  BY <1>1, <1>5 DEF Matches
<1>7. written' \in Seq(Byte)
  BY <1>4, ConcatProperties
<1>8. Histories'
  BY <1>1, <1>7 DEF Histories
<1> QED
  BY <1>1, <1>2, <1>3, <1>6, <1>8 DEF IInv

LEMMA AccessKeeps ==
  ASSUME IInv, NEW p, PortOK(p), update_irq(p, <<>>), UNCHANGED written,
         Order(Unread(p), received', tty', input'),
         tty' \in Seq(Byte), input' \in Seq(Byte), received' \in Seq(Byte),
         gpc' \in {"idle", "iir", "lsr", "data", "stop_tx"}
  PROVE  IInv'
<1>1. <<>> \in Seq(Put) /\ <<>> \in Seq(Byte) /\ Matches(<<>>, <<>>)
  BY EmptySeq DEF Matches
<1>2. written \o <<>> = written
  BY ConcatEmptySeq DEF IInv, Histories
<1> QED
  BY <1>1, <1>2, SendingKeeps

(* An access that neither takes nor adds a byte.                           *)
LEMMA QuietAccess ==
  ASSUME IInv, NEW p, PortOK(p), Unread(p) = Unread(u),
         update_irq(p, <<>>), UNCHANGED <<tty, input, received, written>>,
         gpc' \in {"idle", "iir", "lsr", "data", "stop_tx"}
  PROVE  IInv'
<1>1. Order(Unread(p), received', tty', input')
  BY DEF IInv
<1> QED
  BY <1>1, AccessKeeps DEF IInv, Histories

LEMMA ReadKeeps ==
  ASSUME IInv, read_DATA, gpc' \in {"idle", "iir", "lsr", "data", "stop_tx"},
         gpc' = gpc \/ gpc' # "idle"
  PROVE  IInv'
<1>1. CASE u.dlab
  <2>1. UNCHANGED <<u, term, irq, received, tty, input, written>>
    BY <1>1 DEF read_DATA
  <2>2. NoLostInterrupt'
    BY <2>1 DEF IInv, NoLostInterrupt
  <2>3. LineIsLow' /\ Histories' /\ Matches(term, written)'
    BY <2>1 DEF IInv, LineIsLow, Histories
  <2>4. PortOK(u') /\ Named(u') /\ Order(Unread(u'), received', tty', input')
    BY <2>1 DEF IInv
  <2> QED
    BY <2>2, <2>3, <2>4 DEF IInv
<1>2. CASE ~u.dlab
  <2> DEFINE f == Unread(u)
             p == read_data(u)
  <2>1. /\ update_irq(p, <<>>) /\ UNCHANGED <<tty, input, written>>
        /\ received' = IF f # <<>> /\ Head(f).from # "guest" THEN Append(received, Head(f))
                       ELSE received
    BY <1>2 DEF read_DATA
  <2>2. PortOK(u) /\ Order(f, received, tty, input) /\ received \in Seq(Byte)
        /\ tty \in Seq(Byte) /\ input \in Seq(Byte) /\ written \in Seq(Byte)
    BY DEF IInv, Histories
  <2>3. f \in Seq(Byte) /\ (f # <<>> => Head(f) \in Byte)
    BY <2>2, UnreadBytes, HeadTailProperties
  <2>4. PortOK(p) /\ Unread(p) = IF f = <<>> THEN <<>> ELSE Tail(f)
    BY <2>2, DataRead
  <2> HIDE DEF p, f
  <2>5. received' \in Seq(Byte)
    BY <2>1, <2>2, <2>3, AppendProperties
  <2>6. CASE f = <<>>
    <3>1. Order(Unread(p), received', tty', input')
      BY <2>1, <2>2, <2>4, <2>6
    <3> QED
      BY <2>1, <2>2, <2>4, <2>5, <3>1, AccessKeeps, EmptySeq
  <2>7. CASE f # <<>>
    <3>1. received' = IF Head(f).from # "guest" THEN Append(received, Head(f)) ELSE received
      BY <2>1, <2>7
    <3>2. Order(Tail(f), received', tty, input)
      BY <2>2, <2>3, <2>7, <3>1, OrderRead
    <3>3. Order(Unread(p), received', tty', input')
      BY <2>1, <2>4, <2>7, <3>2
    <3> QED
      BY <2>1, <2>2, <2>4, <2>5, <3>3, AccessKeeps, EmptySeq
  <2> QED
    BY <2>6, <2>7
<1>3. u.dlab \in BOOLEAN
  BY DEF IInv, PortOK, PortType
<1> QED
  BY <1>1, <1>2, <1>3

LEMMA WriteKeeps ==
  ASSUME IInv, GuestWriteData
  PROVE  IInv'
<1> DEFINE b == Written(u)
           f == Unread(u)
<1>1. PortOK(u) /\ Order(f, received, tty, input) /\ received \in Seq(Byte)
      /\ tty \in Seq(Byte) /\ input \in Seq(Byte) /\ written \in Seq(Byte)
      /\ gpc \in {"idle", "iir", "lsr", "data", "stop_tx"}
  BY DEF IInv, Histories
<1>2. b \in Byte /\ b.from = "guest"
  <2>1. Len(written) + 1 \in Nat
    BY <1>1, LenProperties
  <2> QED
    BY <2>1 DEF Written, Byte
<1>3. /\ written' = (IF u.loop THEN written ELSE Append(written, b)) /\ write_data(u, b)
      /\ UNCHANGED <<tty, gpc, input, received>>
  BY DEF GuestWriteData
<1> HIDE DEF b
<1>4. <<b>> \in Seq(Byte) /\ Append(written, b) = written \o <<b>>
  BY <1>1, <1>2, AppendIsConcat
<1>5. CASE u.loop
  <2> DEFINE p == loop_data(u, b)
  <2>1. update_irq(p, <<>>)
    BY <1>3, <1>5 DEF write_data
  <2>2. PortOK(p) /\ Unread(p) \in {f, Append(f, b)}
    BY <1>1, <1>2, DataLooped
  <2>3. Order(Append(f, b), received, tty, input)
    BY <1>1, <1>2, UnreadBytes, OrderLooped
  <2> HIDE DEF p, f
  <2>4. Order(Unread(p), received', tty', input')
    BY <1>1, <1>3, <2>2, <2>3
  <2>5. UNCHANGED written
    BY <1>3, <1>5
  <2> QED
    BY <1>1, <1>3, <2>1, <2>2, <2>4, <2>5, AccessKeeps
<1>6. CASE ~u.loop
  <2> DEFINE r == queue_data(u, b)
             p == flush_tx(r)
  <2>1. ~tx_full(u) /\ PortOK(p) /\ Unread(p) = f
        /\ \A put \in flushed(r) : put \in Seq(Put) /\ Matches(put, <<b>>)
    BY <1>1, <1>2, DataSent
  <2>2. PICK put \in flushed(r) : update_irq(p, put)
    BY <1>3, <1>6, <2>1 DEF write_data
  <2>3. written' = written \o <<b>>
    BY <1>3, <1>4, <1>6
  <2>4. Order(Unread(p), received', tty', input')
    BY <1>1, <1>3, <2>1
  <2> HIDE DEF p, r
  <2> QED
    BY <1>1, <1>3, <1>4, <2>1, <2>2, <2>3, <2>4, SendingKeeps
<1> QED
  BY <1>5, <1>6

LEMMA TerminalKeeps ==
  ASSUME IInv, write_stdio, UNCHANGED <<gpc, input, written, received>>
  PROVE  IInv'
<1>1. PortOK(u) /\ Order(Unread(u), received, tty, input) /\ received \in Seq(Byte)
      /\ tty \in Seq(Byte) /\ input \in Seq(Byte) /\ written \in Seq(Byte)
      /\ gpc \in {"idle", "iir", "lsr", "data", "stop_tx"}
  BY DEF IInv, Histories
<1>2. UNCHANGED <<gpc, input, written, received>> /\ write_stdio
  OBVIOUS
<1>3. CASE u.loop
  <2>1. UNCHANGED <<u, term, irq, tty>>
    BY <1>2, <1>3 DEF write_stdio
  <2>2. NoLostInterrupt' /\ LineIsLow' /\ Histories' /\ Matches(term, written)'
    BY <1>2, <2>1 DEF IInv, NoLostInterrupt, LineIsLow, Histories
  <2>3. PortOK(u') /\ Named(u') /\ Order(Unread(u'), received', tty', input')
    BY <1>2, <2>1 DEF IInv
  <2> QED
    BY <1>1, <1>2, <2>2, <2>3 DEF IInv
<1>4. CASE ~u.loop /\ ("data" \in u.lsr \/ u.rx # <<>>)
  <2>1. update_irq(u, <<>>) /\ UNCHANGED tty
    BY <1>2, <1>4 DEF write_stdio
  <2> QED
    BY <1>1, <1>2, <2>1, QuietAccess, EmptySeq
<1>5. CASE ~u.loop /\ "data" \notin u.lsr /\ u.rx = <<>>
  <2> DEFINE n == Taken(u)
             p == fill_rx(u, Got(n))
  <2>1. update_irq(p, <<>>) /\ tty' = SubSeq(tty, n + 1, Len(tty))
    BY <1>2, <1>5 DEF write_stdio
  <2>2. n \in 0 .. Len(tty) /\ PortOK(p) /\ Unread(p) = Got(n)
    BY <1>1, <1>5, Filled
  <2>3. Unread(u) = <<>>
    <3>1. u.rx_done = Len(u.rx)
      BY <1>1, <1>5, EmptySeq DEF PortOK, PortType
    <3> QED
      BY <1>1, <3>1, UnreadBytes
  <2> HIDE DEF n, p
  <2>4. Order(SubSeq(tty, 1, n), received, tty', input)
    BY <1>1, <2>1, <2>2, <2>3, OrderFilled
  <2>5. Order(Unread(p), received', tty', input')
    BY <1>2, <2>2, <2>4 DEF Got
  <2>6. tty' \in Seq(Byte)
    <3>1. \A i \in n + 1 .. Len(tty) : tty[i] \in Byte
      BY <1>1, <2>2, LenProperties, ElementOfSeq
    <3>2. n + 1 \in Int /\ Len(tty) \in Int
      BY <1>1, <2>2, LenProperties
    <3> QED
      BY <2>1, <3>1, <3>2, SubSeqProperties
  <2> QED
    BY <1>1, <1>2, <2>1, <2>2, <2>5, <2>6, AccessKeeps, EmptySeq
<1> QED
  BY <1>3, <1>4, <1>5

LEMMA InitInv == Init => IInv
<1> SUFFICES ASSUME Init PROVE IInv
  OBVIOUS
<1>1. <<>> \in Seq(Byte) /\ Len(<<>>) = 0
  BY EmptySeq
<1>2. PortOK(u)
  <2>1. u \in PortType
    BY <1>1 DEF Init, PortType, IerBits, IirBits, LsrBits
  <2>2. u.rx = <<>> /\ u.rx_done = 0 /\ u.tx = <<>> /\ u.lsr = {"empty", "idle"}
    BY DEF Init
  <2> QED
    BY <1>1, <2>1, <2>2, UartConstants DEF PortOK, UartConstants
<1>3. Unread(u) = <<>>
  <2>1. u.rx_done = Len(u.rx)
    BY <1>1 DEF Init
  <2> QED
    BY <1>2, <2>1, UnreadBytes
<1>4. Order(<<>>, <<>>, <<>>, <<>>)
  BY <1>1 DEF Order
<1>5. Identified(u, {}) = {}
  BY DEF Init, Identified
<1>6. LineIsLow
  BY DEF Init, LineIsLow, LowLine, Line
<1>7. Named(u) /\ NoLostInterrupt /\ Histories /\ Matches(term, written)
  <2>1. u.iir = iir_from(u, {})
    BY <1>5 DEF Init, iir_from
  <2>2. NoLostInterrupt /\ Histories /\ Matches(term, written)
    BY <1>1, <1>5 DEF Init, NoLostInterrupt, Histories, Matches
  <2> QED
    BY <2>1, <2>2 DEF Named
<1> QED
  BY <1>2, <1>3, <1>4, <1>6, <1>7 DEF Init, IInv

LEMMA NextInv == IInv /\ [Next]_vars => IInv'
<1> SUFFICES ASSUME IInv, [Next]_vars PROVE IInv'
  OBVIOUS
<1> USE EmptySeq
<1>0. PortOK(u) /\ written \in Seq(Byte) /\ gpc \in {"idle", "iir", "lsr", "data", "stop_tx"}
  BY DEF IInv, Histories
<1>1. ASSUME UNCHANGED <<u, irq>>, gpc' = gpc \/ gpc' # "idle"
      PROVE  PortOK(u') /\ Named(u') /\ LineIsLow' /\ NoLostInterrupt'
  BY <1>1 DEF IInv, LineIsLow, NoLostInterrupt
<1>2. ASSUME NEW from \in {"tty", "error"}, Arrives(from) PROVE IInv'
  <2> DEFINE b == [from |-> from, n |-> Len(input) + 1]
  <2>1. /\ input' = Append(input, b) /\ tty' = Append(tty, b)
        /\ UNCHANGED <<u, term, irq, gpc, written, received>>
    BY <1>2 DEF Arrives
  <2>2. b \in Byte /\ b.from # "guest"
    BY LenProperties DEF IInv, Histories, Byte
  <2> HIDE DEF b
  <2>3. Order(Unread(u), received, tty', input')
    BY <1>0, <2>1, <2>2, OrderTyped, UnreadBytes DEF IInv, Histories
  <2>4. Histories' /\ Matches(term, written)'
    BY <2>1, <2>2, AppendProperties DEF IInv, Histories
  <2>5. Order(Unread(u'), received', tty', input')
    BY <2>1, <2>3
  <2> QED
    BY <1>0, <1>1, <2>1, <2>4, <2>5 DEF IInv
<1>3. CASE ReadTerminal \/ EndOfFile
  BY <1>3, TerminalKeeps DEF ReadTerminal, EndOfFile
<1>4. CASE GuestWriteData
  BY <1>4, WriteKeeps
<1>5. CASE GuestReadData
  BY <1>0, <1>5, ReadKeeps DEF GuestReadData
<1>6. ASSUME NEW bits \in SUBSET IerBits, write_ier(u, bits),
             UNCHANGED <<tty, input, written, received>>,
             gpc' \in {"idle", "iir", "lsr", "data", "stop_tx"}
      PROVE  IInv'
  <2> DEFINE p == [u EXCEPT !.ier = bits]
  <2>1. PortOK(p) /\ Unread(p) = Unread(u)
    BY <1>0, ModeWritten
  <2>2. update_irq(p, <<>>)
    BY <1>6 DEF write_ier
  <2> HIDE DEF p
  <2> QED
    BY <1>0, <1>6, <2>1, <2>2, QuietAccess
<1>7. CASE GuestWriteIer
  BY <1>0, <1>6, <1>7 DEF GuestWriteIer
<1>8. CASE GuestWriteLcr
  <2>1. PICK on \in BOOLEAN : update_irq([u EXCEPT !.dlab = on], <<>>)
    BY <1>8 DEF GuestWriteLcr
  <2> DEFINE p == [u EXCEPT !.dlab = on]
  <2>2. PortOK(p) /\ Unread(p) = Unread(u)
    BY <1>0, ModeWritten
  <2> HIDE DEF p
  <2>3. update_irq(p, <<>>)
    BY <2>1 DEF p
  <2> QED
    BY <1>0, <1>8, <2>2, <2>3, QuietAccess DEF GuestWriteLcr
<1>9. CASE GuestWriteMcr
  <2>1. PICK on \in BOOLEAN : update_irq([u EXCEPT !.loop = on], <<>>)
    BY <1>9 DEF GuestWriteMcr
  <2> DEFINE p == [u EXCEPT !.loop = on]
  <2>2. PortOK(p) /\ Unread(p) = Unread(u)
    BY <1>0, ModeWritten
  <2> HIDE DEF p
  <2>3. update_irq(p, <<>>)
    BY <2>1 DEF p
  <2> QED
    BY <1>0, <1>9, <2>2, <2>3, QuietAccess DEF GuestWriteMcr
<1>10. ASSUME OtherAccess, gpc' \in {"idle", "iir", "lsr", "data", "stop_tx"}
       PROVE  IInv'
  BY <1>0, <1>10, QuietAccess DEF OtherAccess
<1>11. CASE GuestOther
  BY <1>0, <1>10, <1>11 DEF GuestOther
<1>12. CASE HandlerEnter
  <2>1. /\ irq' = drain_events(irq) /\ gpc' = "iir"
        /\ UNCHANGED <<u, term, tty, input, written, received>>
    BY <1>12 DEF HandlerEnter
  <2>2. LineIsLow'
    BY <2>1 DEF IInv, LineIsLow, drain_events, Line
  <2>3. NoLostInterrupt' /\ Histories' /\ Matches(term, written)'
    BY <2>1 DEF IInv, NoLostInterrupt, Histories
  <2>4. PortOK(u') /\ Named(u') /\ Order(Unread(u'), received', tty', input')
    BY <2>1 DEF IInv
  <2> QED
    BY <2>1, <2>2, <2>3, <2>4 DEF IInv
<1>13. CASE HandlerIir
  BY <1>10, <1>13 DEF HandlerIir
<1>14. CASE HandlerLsr
  BY <1>10, <1>14 DEF HandlerLsr
<1>15. CASE HandlerData
  BY <1>15, ReadKeeps DEF HandlerData
<1>16. CASE HandlerStopTx
  <2>1. CASE "thr" \in u.ier
    <3>1. u.ier \ {"thr"} \in SUBSET IerBits
      BY <1>0 DEF PortOK, PortType
    <3> QED
      BY <1>6, <1>16, <2>1, <3>1 DEF HandlerStopTx
  <2>2. CASE "thr" \notin u.ier
    <3>1. gpc' = "stop_tx" \/ gpc' = "iir"
      BY <1>16 DEF HandlerStopTx
    <3>2. UNCHANGED <<u, term, irq, tty, input, written, received>>
      BY <1>16, <2>2 DEF HandlerStopTx
    <3>3. Histories' /\ Matches(term, written)' /\ Order(Unread(u'), received', tty', input')
      BY <3>2 DEF IInv, Histories
    <3> QED
      BY <1>1, <3>1, <3>2, <3>3 DEF IInv
  <2> QED
    BY <2>1, <2>2
<1>17. CASE UNCHANGED vars
  <2>1. UNCHANGED <<u, term, irq, tty, gpc, input, written, received>>
    BY <1>17 DEF vars
  <2>2. Histories' /\ Matches(term, written)' /\ Order(Unread(u'), received', tty', input')
    BY <2>1 DEF IInv, Histories
  <2> QED
    BY <1>0, <1>1, <2>1, <2>2 DEF IInv
<1> QED
  BY <1>2, <1>3, <1>4, <1>5, <1>7, <1>8, <1>9, <1>11, <1>12, <1>13, <1>14, <1>15, <1>16, <1>17
     DEF Next, Guest, Handler, Type, ReadFails

LEMMA Invariance == Spec => []IInv
BY InitInv, NextInv, PTL DEF Spec

-----------------------------------------------------------------------------
(* The properties of the runs                                              *)

(* The FIFO counters stay within their arrays of FIFO_LEN bytes            *)
(* (uart.h:82-94, 134-155, 232-250).                                       *)
THEOREM TypeCorrect == Spec => []TypeOK
<1>1. ASSUME IInv PROVE TypeOK
  <2>1. PortOK(u) /\ LineIsLow /\ Histories
        /\ gpc \in {"idle", "iir", "lsr", "data", "stop_tx"}
    BY <1>1 DEF IInv
  <2>2. Len(u.rx) \in Nat /\ u.rx_done \in Nat /\ u.rx_done <= Len(u.rx)
        /\ Len(u.rx) <= FIFO_LEN /\ Len(u.tx) <= FIFO_LEN /\ u.rx_done \in 0 .. FIFO_LEN
    BY <2>1, LenProperties, EmptySeq, UartConstants DEF PortOK, PortType, UartConstants
  <2>3. term \in Seq(Put) /\ \A s \in {tty, input, written, received} : s \in Seq(Byte)
    BY <2>1 DEF Histories
  <2> QED
    BY <2>1, <2>2, <2>3 DEF TypeOK, PortOK, PortType, LineIsLow
<1> QED
  BY <1>1, Invariance, PTL

(* LSR announces a byte just when one is there, and IIR names every cause  *)
(* the next access may ask for and no other bit but those tmp_iir started  *)
(* from (uart.h:84, 138, 205-223, 248).                                    *)
THEOREM RegistersStayTrue == Spec => []RegistersTrue
<1>1. ASSUME IInv PROVE RegistersTrue
  <2>1. PortOK(u) /\ Named(u)
    BY <1>1 DEF IInv
  <2>2. Unread(u) = <<>> <=> u.rx_done = Len(u.rx)
    BY <2>1, UnreadBytes
  <2>3. "data" \in u.lsr <=> u.rx_done # Len(u.rx)
    BY <2>1, LenProperties DEF PortOK, PortType
  <2> QED
    BY <2>1, <2>2, <2>3 DEF RegistersTrue, Named
<1> QED
  BY <1>1, Invariance, PTL

(* update_irq pulses the line at the end of each access that leaves a      *)
(* cause (uart.h:219-222).                                                 *)
THEOREM InterruptNotLost == Spec => []NoLostInterrupt
<1>1. IInv => NoLostInterrupt
  BY DEF IInv
<1> QED
  BY <1>1, Invariance, PTL

(* terminal::put is called with the one byte that tx_buf ever holds        *)
(* (uart.h:144-150, 190-199): it is never full, and put is given each byte *)
(* written once and in order, so that a byte is missing on the terminal    *)
(* only when its own write failed.                                         *)
THEOREM WrittenIsTransmitted == Spec => []TransmittedAtOnce
<1>1. IInv => TransmittedAtOnce
  BY DEF IInv, PortOK, Matches, TransmittedAtOnce
<1> QED
  BY <1>1, Invariance, PTL

(* Order says what RxInOrder does.                                         *)
InOrder(f, r, t, y) ==
  \E k \in 0 .. Len(f) :
    /\ r \o SubSeq(f, 1, k) \o t = y
    /\ \A i \in k + 1 .. Len(f) : f[i].from = "guest"

LEMMA OrderIsConcat ==
  ASSUME NEW f \in Seq(Byte), NEW r \in Seq(Byte), NEW t \in Seq(Byte), NEW y \in Seq(Byte),
         Order(f, r, t, y)
  PROVE  InOrder(f, r, t, y)
<1> DEFINE k == Len(y) - Len(t) - Len(r)
           g == SubSeq(f, 1, k)
           rg == r \o g
           x == rg \o t
<1>1. Len(f) \in Nat /\ Len(r) \in Nat /\ Len(t) \in Nat /\ Len(y) \in Nat
  BY LenProperties
<1>2. /\ k \in 0 .. Len(f) /\ Len(r) + k + Len(t) = Len(y)
      /\ \A i \in 1 .. Len(r) : r[i] = y[i]
      /\ \A i \in 1 .. k : f[i] = y[Len(r) + i]
      /\ \A i \in 1 .. Len(t) : t[i] = y[Len(r) + k + i]
      /\ \A i \in k + 1 .. Len(f) : f[i].from = "guest"
  BY <1>1 DEF Order
<1> HIDE DEF k
<1>3. g \in Seq(Byte) /\ Len(g) = k /\ \A i \in 1 .. k : g[i] = f[i]
  <2>1. \A i \in 1 .. k : f[i] \in Byte
    BY <1>1, <1>2, ElementOfSeq
  <2> QED
    BY <1>2, <2>1, SubSeqProperties
<1> HIDE DEF g
<1>4. /\ rg \in Seq(Byte) /\ Len(rg) = Len(r) + k
      /\ \A i \in 1 .. Len(r) + k : rg[i] = IF i <= Len(r) THEN r[i] ELSE g[i - Len(r)]
  BY <1>3, ConcatProperties
<1>5. \A i \in 1 .. Len(r) + k : rg[i] = y[i]
  <2> SUFFICES ASSUME NEW i \in 1 .. Len(r) + k PROVE rg[i] = y[i]
    OBVIOUS
  <2>1. rg[i] = IF i <= Len(r) THEN r[i] ELSE g[i - Len(r)]
    BY <1>4
  <2>2. CASE i <= Len(r)
    <3>1. i \in 1 .. Len(r)
      BY <1>1, <1>2, <2>2
    <3> QED
      BY <1>2, <2>1, <2>2, <3>1
  <2>3. CASE ~(i <= Len(r))
    <3>1. i - Len(r) \in 1 .. k /\ Len(r) + (i - Len(r)) = i
      BY <1>1, <1>2, <2>3
    <3> QED
      BY <1>2, <1>3, <2>1, <2>3, <3>1
  <2> QED
    BY <2>2, <2>3
<1> HIDE DEF rg
<1>6. /\ x \in Seq(Byte) /\ Len(x) = Len(rg) + Len(t)
      /\ \A i \in 1 .. Len(rg) + Len(t) : x[i] = IF i <= Len(rg) THEN rg[i] ELSE t[i - Len(rg)]
  BY <1>4, ConcatProperties
<1>7. \A i \in 1 .. Len(x) : x[i] = y[i]
  <2> SUFFICES ASSUME NEW i \in 1 .. Len(x) PROVE x[i] = y[i]
    OBVIOUS
  <2>1. CASE i \in 1 .. Len(rg)
    BY <1>1, <1>2, <1>4, <1>5, <1>6, <2>1
  <2>2. CASE i > Len(rg)
    <3>1. i - Len(rg) \in 1 .. Len(t) /\ Len(r) + k + (i - Len(rg)) = i /\ ~(i <= Len(rg))
      BY <1>1, <1>2, <1>4, <1>6, <2>2
    <3> QED
      BY <1>2, <1>6, <3>1
  <2> QED
    BY <1>1, <1>2, <1>4, <1>6, <2>1, <2>2
<1> HIDE DEF x
<1>8. x = y
  <2>1. Len(x) = Len(y)
    BY <1>2, <1>4, <1>6
  <2> QED
    BY <1>6, <1>7, <2>1, SeqEqual
<1> QED
  BY <1>2, <1>8 DEF x, rg, g, InOrder

(* What the reads of the terminal give, a zero for each that fails, reaches*)
(* the guest in order, nothing lost or repeated or added, whatever modes   *)
(* the port goes through in between (uart.h:82-94, 232-250;                *)
(* terminal.h:46-63).                                                      *)
THEOREM BytesInOrder == Spec => []RxInOrder
<1>1. ASSUME IInv PROVE RxInOrder
  <2>1. Unread(u) \in Seq(Byte)
    BY <1>1, UnreadBytes DEF IInv
  <2>2. InOrder(Unread(u), received, tty, input)
    BY <1>1, <2>1, OrderIsConcat DEF IInv, Histories
  <2> QED
    BY <2>2 DEF RxInOrder, InOrder
<1> QED
  BY <1>1, Invariance, PTL

=============================================================================
