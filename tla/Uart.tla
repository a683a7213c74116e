--------------------------------- MODULE Uart ---------------------------------
(***************************************************************************)
(* The serial port ttyS0 of src/src/kvm/device/uart.h.  Every method runs  *)
(* under the port's mutex `mu', so each access is one step.  Three parties *)
(* use it:                                                                 *)
(*  - the guest, whose vCPUs read and write the registers at any time;     *)
(*  - the guest's interrupt handler, a sequence of such accesses (external)*)
(*  - the terminal thread of src/src/kvm/vmm.h, which moves what was typed *)
(*    into the receive FIFO.                                               *)
(*                                                                         *)
(* A register is the set of its bits the code looks at.  rx_cnt is         *)
(* Len(rx), tx_cnt is Len(tx): the arrays are never read beyond them.      *)
(* LSR_BREAK_BIT is never set, so its branch in read is left out, and so   *)
(* are msr, scr and fcr, which decide nothing.                             *)
(***************************************************************************)
EXTENDS Interrupt, Sequences, FiniteSets

CONSTANTS
  FIFO_LEN,     \* bytes of rx_buf and of tx_buf (64 in uart.h)
  Garbage,      \* the values update_irq's tmp_iir may start from: it is read
                \* uninitialised, so SUBSET IirBits, or {{}} where the stack
                \* slot happens to be zero
  MaxErrors,    \* bound: reads and writes of the terminal that fail
  MaxTyped,     \* bound: bytes typed at the terminal and reads that fail
  MaxWritten    \* bound: bytes written to DATA outside of loopback mode

IerBits == {"recv", "thr"}
IirBits == {"none", "recv", "thr", "other"}
LsrBits == {"data", "empty", "idle"}

ASSUME UartConstants ==
  /\ FIFO_LEN \in Nat \ {0, 1}
  /\ Garbage # {} /\ Garbage \subseteq SUBSET IirBits
  /\ MaxErrors \in Nat
  /\ MaxTyped \in Nat
  /\ MaxWritten \in Nat

VARIABLES
  u,        \* the port
  term,     \* bytes given to terminal::put, and whether their write succeeded
  irq,      \* interrupt line 4
  tty,      \* what the next reads of the terminal give
  gpc,      \* where the guest's handler is
  input,    \* history: all that reads of the terminal give
  written,  \* history: all bytes the guest wrote to DATA to be transmitted
  received  \* history: what of it the guest read from DATA

vars == <<u, term, irq, tty, gpc, input, written, received>>

(* Where a byte comes from: the keyboard, a read of the terminal that      *)
(* failed, or the guest.                                                   *)
Byte == [from : {"tty", "error", "guest"}, n : Nat]

Put == [byte : Byte, shown : BOOLEAN]

(* One more read or write of the terminal may fail. *)
MayFail ==
  Cardinality({i \in 1..Len(input) : input[i].from = "error"})
    + Cardinality({i \in 1..Len(term) : ~term[i].shown}) < MaxErrors

(* The bytes received and not read. *)
Unread(p) == SubSeq(p.rx, p.rx_done + 1, Len(p.rx))

Init ==
  /\ u = [ier |-> {}, iir |-> {"none"}, dlab |-> FALSE, loop |-> FALSE,
          lsr |-> {"empty", "idle"}, rx |-> <<>>, rx_done |-> 0, tx |-> <<>>]
  /\ term = <<>>
  /\ irq = LowLine
  /\ tty = <<>>
  /\ gpc = "idle"
  /\ input = <<>> /\ written = <<>> /\ received = <<>>

-----------------------------------------------------------------------------
(* The port's methods.  Each is a relation between the state before, with  *)
(* the switch of read or write applied in p, and the state after update_irq*)

(* The interrupt identified from ier and lsr, over what was on the stack.  *)
Identified(p, tmp_iir) ==
  tmp_iir
    \union (IF "recv" \in p.ier /\ "data" \in p.lsr THEN {"recv"} ELSE {})
    \union (IF "thr" \in p.ier /\ "idle" \in p.lsr THEN {"thr"} ELSE {})

(* set_level(true) and set_level(false), nothing in between: SharedLine    *)
(* shows what a second port on the line makes of it.                       *)
pulse(line) == set_level(merged(set_level(line, TRUE)), FALSE)

(* Plausible slips: tx_cnt is not reset; rx_cnt and rx_done are not; the   *)
(* data bit stays when the last byte is read; the last byte is taken for   *)
(* read one too early; the bound of rx_buf is off by one; an access ends   *)
(* without update_irq.                                                     *)
flush_tx_kept(p) == [p EXCEPT !.lsr = @ \union {"empty", "idle"}]
emptied_counters_kept(p) == [p EXCEPT !.lsr = @ \ {"data"}, !.rx_done = @ + 1]
emptied_bit_kept(p) == [p EXCEPT !.rx = <<>>, !.rx_done = 0]
at_last_early(p) == Len(Unread(p)) \in 1..2
has_room_over(p) == Len(p.rx) <= FIFO_LEN
write_ier_silent(p, bits) == u' = [p EXCEPT !.ier = bits] /\ UNCHANGED <<term, irq>>

flush_tx(p) == [p EXCEPT !.lsr = @ \union {"empty", "idle"}, !.tx = <<>>]

(* What flush_tx's call of terminal::put may do: put gives up when write   *)
(* fails, and flush_tx resets tx_cnt whatever it returns.                  *)
flushed(p) ==
  {[i \in 1..Len(p.tx) |-> [byte |-> p.tx[i], shown |-> ok]] : ok \in {TRUE, ~MayFail}}

(* iir and the line follow ier and lsr; without IER_THR_BIT the            *)
(* transmitter is flushed.  p is the port after the register was accessed, *)
(* put what the access itself has given to terminal::put.                  *)
update_irq(p, put) ==
  \E tmp_iir \in Garbage :
    LET i == Identified(p, tmp_iir)
        r == [p EXCEPT !.iir = IF i = {} THEN {"none"} ELSE i]
    IN  /\ irq' = IF i = {} THEN set_level(irq, FALSE) ELSE pulse(irq)
        /\ u' = IF "thr" \in p.ier THEN r ELSE flush_tx(r)
        /\ \E more \in IF "thr" \in p.ier THEN {<<>>} ELSE flushed(r) :
             term' = term \o put \o more

(* DATA, DLAB clear: the next byte of rx_buf; with the last one the FIFO   *)
(* is empty again.                                                         *)
at_last(p) == Len(Unread(p)) = 1

emptied(p) == [p EXCEPT !.lsr = @ \ {"data"}, !.rx = <<>>, !.rx_done = 0]

read_data(p) ==
  IF Unread(p) = <<>> THEN p
  ELSE IF at_last(p) THEN emptied(p)
  ELSE [p EXCEPT !.rx_done = @ + 1]

(* DATA, loopback: a byte more in rx_buf, if there is room.                *)
has_room(p) == Len(p.rx) < FIFO_LEN

loop_data(p, b) ==
  IF has_room(p)
  THEN [p EXCEPT !.rx = Append(@, b), !.lsr = @ \union {"data"}]
  ELSE p

(* DATA, transmit: tx_buf and lsr, before the flush_tx that follows.       *)
queue_data(p, b) ==
  LET tx == Append(p.tx, b)
  IN  [p EXCEPT !.tx = tx,
         !.lsr = @ \ (IF Len(tx) = FIFO_LEN \div 2 THEN {"idle", "empty"} ELSE {"idle"})]

(* "Should never happpen" (uart.h:151). *)
tx_full(p) == Len(p.tx) >= FIFO_LEN

write_data(p, b) ==
  IF p.loop THEN update_irq(loop_data(p, b), <<>>)
  ELSE IF tx_full(p)
       THEN update_irq([p EXCEPT !.lsr = @ \ {"empty", "idle"}], <<>>)
       ELSE LET r == queue_data(p, b)
            IN  \E put \in flushed(r) : update_irq(flush_tx(r), put)

(* terminal::readable, and terminal::get called n times while it is.  A    *)
(* read that fails for another reason than EAGAIN or EINTR leaves c = 0,   *)
(* which get returns like a byte.                                          *)
Readable == tty # <<>>
Got(n) == SubSeq(tty, 1, n)

(* write_stdio's loop: the bytes that fit, of those that are readable. *)
Taken(p) == IF Len(tty) < FIFO_LEN - Len(p.rx) THEN Len(tty) ELSE FIFO_LEN - Len(p.rx)

fill_rx(p, bytes) ==
  [p EXCEPT !.rx = @ \o bytes,
            !.lsr = IF bytes = <<>> THEN @ ELSE @ \union {"data"}]

write_stdio ==
  IF u.loop
  THEN UNCHANGED <<u, term, irq, tty>>
  ELSE IF "data" \in u.lsr \/ u.rx # <<>>
       THEN update_irq(u, <<>>) /\ UNCHANGED tty
       ELSE LET n == Taken(u)
            IN  /\ update_irq(fill_rx(u, Got(n)), <<>>)
                /\ tty' = SubSeq(tty, n + 1, Len(tty))

-----------------------------------------------------------------------------
(* The terminal                                                            *)

Arrives(from) ==
  /\ Len(input) < MaxTyped
  /\ LET b == [from |-> from, n |-> Len(input) + 1]
     IN  input' = Append(input, b) /\ tty' = Append(tty, b)
  /\ UNCHANGED <<u, term, irq, gpc, written, received>>

Type == Arrives("tty")

(* poll announces input, but the read will fail and give a zero byte that  *)
(* nobody typed.                                                           *)
ReadFails == MayFail /\ Arrives("error")

(* vmm::read_terminal: readable(-1) returns when something was typed; only *)
(* this thread reads it, so it is still there when write_stdio runs.       *)
ReadTerminal ==
  /\ Readable
  /\ write_stdio
  /\ UNCHANGED <<gpc, input, written, received>>

(* The same after a hang-up, when poll announces the end of the file: get  *)
(* returns -1 and the loop ends with no byte more (uart.h:243).  A terminal*)
(* gives what was typed before its end.                                    *)
EndOfFile ==
  /\ ~Readable
  /\ write_stdio
  /\ UNCHANGED <<gpc, input, written, received>>

-----------------------------------------------------------------------------
(* The guest: register accesses from any vCPU, outside of the handler      *)

(* The bytes of a loopback test need not be told apart.                    *)
Written(p) == [from |-> "guest", n |-> IF p.loop THEN 0 ELSE Len(written) + 1]

(* With DLAB set the divisor is written and its byte falls through to the  *)
(* same switch as any other (uart.h:121-134): it is transmitted too.       *)
GuestWriteData ==
  /\ u.loop \/ Len(written) < MaxWritten
  /\ written' = IF u.loop THEN written ELSE Append(written, Written(u))
  /\ write_data(u, Written(u))
  /\ UNCHANGED <<tty, gpc, input, received>>

(* A read of DATA takes a byte; with DLAB set it returns the divisor and   *)
(* leaves everything as it was, update_irq included.                       *)
read_DATA ==
  /\ IF u.dlab
     THEN UNCHANGED <<u, term, irq, received>>
     ELSE /\ update_irq(read_data(u), <<>>)
          /\ received' = IF Unread(u) # <<>> /\ Head(Unread(u)).from # "guest"
                         THEN Append(received, Head(Unread(u))) ELSE received
  /\ UNCHANGED <<tty, input, written>>

GuestReadData == read_DATA /\ UNCHANGED gpc

(* IER; with DLAB set the divisor's high byte lands in ier as well. *)
write_ier(p, bits) == update_irq([p EXCEPT !.ier = bits], <<>>)

GuestWriteIer ==
  /\ \E bits \in SUBSET IerBits : write_ier(u, bits)
  /\ UNCHANGED <<tty, gpc, input, written, received>>

GuestWriteLcr ==
  /\ \E on \in BOOLEAN : update_irq([u EXCEPT !.dlab = on], <<>>)
  /\ UNCHANGED <<tty, gpc, input, written, received>>

GuestWriteMcr ==
  /\ \E on \in BOOLEAN : update_irq([u EXCEPT !.loop = on], <<>>)
  /\ UNCHANGED <<tty, gpc, input, written, received>>

(* Any other access: only update_irq.  With DLAB set IER returns the       *)
(* divisor, which changes nothing and is no step.                          *)
OtherAccess == update_irq(u, <<>>) /\ UNCHANGED <<tty, input, written, received>>

GuestOther == OtherAccess /\ UNCHANGED gpc

-----------------------------------------------------------------------------
(* The guest's interrupt handler (external): while an interrupt is         *)
(* identified, read what has arrived and stop a transmitter that has       *)
(* nothing to send.                                                        *)

HandlerEnter ==
  /\ gpc = "idle"
  /\ irq.events > 0
  /\ irq' = drain_events(irq)
  /\ gpc' = "iir"
  /\ UNCHANGED <<u, term, tty, input, written, received>>

HandlerIir ==
  /\ gpc = "iir"
  /\ gpc' = IF "none" \in u.iir THEN "idle" ELSE "lsr"
  /\ OtherAccess

HandlerLsr ==
  /\ gpc = "lsr"
  /\ gpc' = IF "data" \in u.lsr THEN "data" ELSE "stop_tx"
  /\ OtherAccess

HandlerData ==
  /\ gpc = "data"
  /\ gpc' = "lsr"
  /\ read_DATA

HandlerStopTx ==
  /\ gpc = "stop_tx"
  /\ gpc' = "iir"
  /\ IF "thr" \in u.ier
     THEN write_ier(u, u.ier \ {"thr"})
     ELSE UNCHANGED <<u, term, irq>>
  /\ UNCHANGED <<tty, input, written, received>>

Handler ==
  HandlerEnter \/ HandlerIir \/ HandlerLsr \/ HandlerData \/ HandlerStopTx

-----------------------------------------------------------------------------

Guest ==
  \/ GuestWriteData \/ GuestReadData \/ GuestWriteIer \/ GuestWriteLcr
  \/ GuestWriteMcr \/ GuestOther

Next == Type \/ ReadFails \/ ReadTerminal \/ EndOfFile \/ Guest \/ Handler

(* The terminal thread is scheduled, an interrupt is delivered and its     *)
(* handler goes on.  Nothing else the guest may do is assumed, and no end  *)
(* of the file.                                                            *)
Fairness == WF_vars(ReadTerminal) /\ WF_vars(Handler)

Spec == Init /\ [][Next]_vars

FairSpec == Spec /\ Fairness

-----------------------------------------------------------------------------
(* Properties                                                              *)

(* The FIFO counters stay within their arrays. *)
TypeOK ==
  /\ u.ier \subseteq IerBits /\ u.iir \subseteq IirBits /\ u.lsr \subseteq LsrBits
  /\ u.dlab \in BOOLEAN /\ u.loop \in BOOLEAN
  /\ u.rx \in Seq(Byte) /\ Len(u.rx) <= FIFO_LEN
  /\ u.rx_done \in 0..FIFO_LEN /\ u.rx_done <= Len(u.rx)
  /\ u.tx \in Seq(Byte) /\ Len(u.tx) <= FIFO_LEN
  /\ irq \in Line
  /\ gpc \in {"idle", "iir", "lsr", "data", "stop_tx"}
  /\ term \in Seq(Put)
  /\ \A s \in {tty, input, written, received} : s \in Seq(Byte)

(* What the reads of the terminal give reaches the guest in order, nothing *)
(* lost or repeated, though write_stdio races register accesses of two     *)
(* vCPUs, the FIFO fills up (uart.h:241) and loopback (uart.h:134, 232)    *)
(* and DLAB switch what DATA means in between; what is looped back comes   *)
(* behind it.  A byte nobody typed is read only where a read failed        *)
(* (terminal.h:53-61), and then as a zero in the place of that read.       *)
RxInOrder ==
  \E k \in 0..Len(Unread(u)) :
    /\ received \o SubSeq(Unread(u), 1, k) \o tty = input
    /\ \A i \in k + 1..Len(Unread(u)) : Unread(u)[i].from = "guest"

(* "Should never happpen" (uart.h:151) is right: whenever the mutex is     *)
(* free the transmit FIFO is empty, so that terminal::put is given one     *)
(* byte and its second write, of too many bytes (terminal.h:38), is never  *)
(* made.  What is written outside of loopback mode, a divisor's byte       *)
(* included, is given to it once and in order, whatever IER says: where    *)
(* both calls of flush_tx run, the second has nothing left (uart.h:144-150,*)
(* 226).  So the terminal lacks a byte only when that byte's own write     *)
(* failed, which loses it (uart.h:199-201).                                *)
TransmittedAtOnce ==
  /\ u.tx = <<>> /\ {"empty", "idle"} \subseteq u.lsr
  /\ Len(term) = Len(written)
  /\ \A i \in 1..Len(written) : term[i].byte = written[i]

(* iir as update_irq leaves it when tmp_iir starts from stray. *)
iir_from(p, stray) == IF Identified(p, stray) = {} THEN {"none"} ELSE Identified(p, stray)

(* What the registers say is so: LSR whether rx_buf holds a byte, for a    *)
(* guest that polls (uart.h:84, 138, 248), and IIR, which is computed at   *)
(* the end of an access and read at the start of a later one, every cause  *)
(* there is by now (uart.h:205-223) and none that is gone, IIR_NONE_BIT    *)
(* just when there is none: any other bit is one that tmp_iir started from.*)
RegistersTrue ==
  /\ "data" \in u.lsr <=> Unread(u) # <<>>
  /\ \E stray \in Garbage \union {{}} : u.iir = iir_from(u, stray)

(* While a cause is there and the handler is not running, its edge is      *)
(* still to come: the line only ever pulses, so a missed pulse would leave *)
(* the byte unread until the next access.                                  *)
NoLostInterrupt == gpc = "idle" /\ Identified(u, {}) # {} => irq.events > 0

(* What the guest does from some time on: it leaves the port in its normal *)
(* mode; it wants receive interrupts; tmp_iir happens to start from zero.  *)
NormalMode == ~u.dlab /\ ~u.loop
SlotIsZero == u.iir = iir_from(u, {})

(* All that is typed is read by the guest in the end, also beyond what fits*)
(* the FIFO at once: the terminal thread comes back when it was drained    *)
(* (vmm.h:109, uart.h:236).                                                *)
TypedIsRead ==
  <>[](NormalMode /\ "recv" \in u.ier /\ SlotIsZero)
    => \A n \in 1..MaxTyped : Len(input) >= n ~> Len(received) >= n

(* No interrupt storm: every access pulses the line while a cause is there *)
(* (uart.h:219-222), but once the driver keeps the port in its normal mode *)
(* and wants receive interrupts only, and all is read, the pulses end.     *)
PulsesEnd ==
  <>[](NormalMode /\ u.ier = {"recv"} /\ SlotIsZero) => <>[](irq.events = 0 /\ gpc = "idle")

=============================================================================
