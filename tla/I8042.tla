-------------------------------- MODULE I8042 --------------------------------
(***************************************************************************)
(* The keyboard controller of src/src/kvm/device/i8042.h.  The guest       *)
(* writes commands and bytes and reads status and bytes in any order; its  *)
(* interrupt handler runs on either vCPU.  The device has no mutex: an     *)
(* access is one step because the guest's driver holds a lock of its own   *)
(* around each one (external).                                             *)
(*                                                                         *)
(* status is the set of its bits.  buffer_head and buffer_tail only matter *)
(* by the bytes between them, which are `buffer'.  CMD_RESET_CPU and the   *)
(* commands of the default case change nothing and are no step.            *)
(***************************************************************************)
EXTENDS Interrupt, Sequences

CONSTANTS
  BUF_SIZE,   \* bytes of buffer (16 in i8042.h)
  Values,     \* bytes the guest writes to a register
  Ack,        \* 0xFA, the keyboard's answer to anything written to it
  KbdInt      \* the values of control with CB_KBD_INT set

ASSUME I8042Constants ==
  /\ BUF_SIZE \in Nat \ {0}
  /\ KbdInt \subseteq Values
  /\ KbdInt # {} /\ KbdInt # Values /\ Ack \notin Values

VARIABLES
  command, status, control, outp, buffer,  \* the fields of the device
  irq,        \* interrupt line 1
  gpc,        \* where the guest's handler is
  param,      \* history: the command that awaits its parameter, or "none"
  answer,     \* history: the answer to the last access that has one
  announced   \* history: whether that answer came with an interrupt

device == <<command, status, control, outp, buffer, irq>>
history == <<param, answer, announced>>
vars == <<device, gpc, history>>

StatusBits == {"avail", "cmd_data", "kbd_enabled"}

Init ==
  /\ command = "none" /\ status = {"kbd_enabled"}
  /\ control \in KbdInt /\ outp \in Values \ KbdInt
  /\ buffer = <<>>
  /\ irq = LowLine
  /\ gpc = "idle"
  /\ param = "none" /\ answer = Ack /\ announced = FALSE

-----------------------------------------------------------------------------
(* status and buffer together, as flush, push and pop change them          *)

Port == [status |-> status, buffer |-> buffer]

SetPort(p) == status' = p.status /\ buffer' = p.buffer

(* `status &= !FLAG': !FLAG is 0, so every bit goes (i8042.h:117, 156, 175)*)
clear(bits, flag) == {}

(* A plausible slip: only the bit goes.                                    *)
flush_nothing(p) == [p EXCEPT !.status = clear(@, "avail")]

flush(p) == [status |-> clear(p.status, "avail"), buffer |-> <<>>]

push(p, val) ==
  IF Len(p.buffer) = BUF_SIZE
  THEN p
  ELSE [status |-> p.status \union {"avail"}, buffer |-> Append(p.buffer, val)]

pop(p) ==
  IF p.buffer = <<>>
  THEN p
  ELSE [buffer |-> Tail(p.buffer),
        status |-> IF Len(p.buffer) = 1 THEN clear(p.status, "avail") ELSE p.status]

(* A pulse, if the control register lets it through. *)
trigger_irq(line) ==
  IF control \notin KbdInt
  THEN line
  ELSE merged(set_level(set_level(line, TRUE), FALSE))

-----------------------------------------------------------------------------
(* The guest's accesses                                                    *)

(* CMD_READ_CTR and CMD_READ_OUTP: the answer is the register's value. *)
ReadRegister ==
  /\ \E val \in {control, outp} :
       /\ SetPort(push(flush(Port), val))
       /\ answer' = val
  /\ announced' = FALSE
  /\ param' = "none"
  /\ UNCHANGED <<command, control, outp, irq, gpc>>

WriteCtrCommand ==
  /\ LET p == flush(Port)
     IN  SetPort([p EXCEPT !.status = @ \union {"cmd_data"}])
  /\ command' = "ctr" /\ param' = "ctr"
  /\ UNCHANGED <<control, outp, irq, gpc, answer, announced>>

(* CMD_WRITE_OUTP, unlike the others, flushes nothing. *)
WriteOutpCommand ==
  /\ status' = status \union {"cmd_data"}
  /\ command' = "outp" /\ param' = "outp"
  /\ UNCHANGED <<control, outp, buffer, irq, gpc, answer, announced>>

ResetKbd ==
  /\ status' = {}
  /\ param' = "none"
  /\ UNCHANGED <<command, control, outp, buffer, irq, gpc, answer, announced>>

(* A byte written to port 0x60 is the parameter of a command ...           *)
WriteParameter ==
  /\ "cmd_data" \in status
  /\ \E val \in Values :
       /\ control' = IF command = "ctr" THEN val ELSE control
       /\ outp' = IF command = "outp" THEN val ELSE outp
  /\ status' = clear(status, "cmd_data")
  /\ param' = "none"
  /\ UNCHANGED <<command, buffer, irq, gpc, answer, announced>>

(* ... or goes to the keyboard, which acknowledges it.                     *)
WriteKeyboard ==
  /\ "cmd_data" \notin status
  /\ SetPort(push(flush(Port), Ack))
  /\ irq' = trigger_irq(irq)
  /\ answer' = Ack
  /\ announced' = (control \in KbdInt)
  /\ param' = "none"
  /\ UNCHANGED <<command, control, outp, gpc>>

ReadData ==
  /\ SetPort(pop(Port))
  /\ irq' = IF "avail" \in status' THEN trigger_irq(irq) ELSE irq
  /\ UNCHANGED <<command, control, outp, history>>

GuestReadData == ReadData /\ UNCHANGED gpc

(* The interrupt handler: a byte is read if status says there is one. *)
HandlerEnter ==
  /\ gpc = "idle"
  /\ irq.events > 0
  /\ irq' = drain_events(irq)
  /\ gpc' = "status"
  /\ UNCHANGED <<command, status, control, outp, buffer, history>>

HandlerStatus ==
  /\ gpc = "status"
  /\ gpc' = IF "avail" \in status THEN "data" ELSE "idle"
  /\ UNCHANGED <<device, history>>

HandlerData ==
  /\ gpc = "data"
  /\ gpc' = "idle"
  /\ ReadData

-----------------------------------------------------------------------------

Next ==
  \/ ReadRegister \/ WriteCtrCommand \/ WriteOutpCommand \/ ResetKbd
  \/ WriteParameter \/ WriteKeyboard \/ GuestReadData
  \/ HandlerEnter \/ HandlerStatus \/ HandlerData

Spec == Init /\ [][Next]_vars

-----------------------------------------------------------------------------
(* Properties                                                              *)

(* Every push follows a flush, so one byte at most waits and BUF_SIZE is   *)
(* never reached.                                                          *)
TypeOK ==
  /\ command \in {"none", "ctr", "outp"} /\ param \in {"none", "ctr", "outp"}
  /\ status \subseteq StatusBits
  /\ control \in Values /\ outp \in Values
  /\ buffer \in Seq(Values \union {Ack}) /\ Len(buffer) <= 1
  /\ irq \in Line
  /\ gpc \in {"idle", "status", "data"}
  /\ answer \in Values \union {Ack} /\ announced \in BOOLEAN

(* What a read of port 0x60 returns while status announces a byte is the   *)
(* answer to the last access that has one, never one left over from        *)
(* before, though CMD_WRITE_OUTP and CMD_RESET_KBD do not flush            *)
(* (i8042.h:78-81, 87-89).                                                 *)
AnswerIsFresh == "avail" \in status => buffer = <<answer>>

(* Its interrupt is not lost: an acknowledgement that status announces and *)
(* that came with a pulse has an edge to come or the handler under way,    *)
(* although another access may take or drop it first.                      *)
AckInterrupts ==
  announced /\ "avail" \in status /\ gpc = "idle" => irq.events > 0

(* i8042.h:24: status says "i8042 expecting command parameter at port      *)
(* 0x60", so it does from the command to the parameter.                    *)
ParameterExpected == param # "none" => "cmd_data" \in status

=============================================================================
