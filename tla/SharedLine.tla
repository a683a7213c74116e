------------------------------ MODULE SharedLine ------------------------------
(***************************************************************************)
(* Serial ports on one interrupt line: vm::register_irq (vm.h) gives ttyS0 *)
(* and ttyS2 the same interrupt object, and so ttyS1 and ttyS3.  Uart      *)
(* treats an access to a port, which holds the port's mutex, as one step;  *)
(* here it is the steps that accesses to OTHER ports, which do not wait    *)
(* for that mutex, can come between:                                       *)
(*   idle    no access                                                     *)
(*   raise   in update_irq, before set_level(true)                         *)
(*   high    between set_level(true) and set_level(false)                  *)
(*   lower   before the set_level(false) of a port without a cause         *)
(* What the registers hold is in Uart.  Of a port there is left whether it *)
(* has a cause, that is whether Identified(u, {}) is not empty, and whether*)
(* IIR says so.                                                            *)
(***************************************************************************)
EXTENDS Interrupt

CONSTANTS
  Ports,    \* the ports on the line
  console,  \* the one the terminal thread fills
  VCpus,    \* the vCPU threads
  terminal, \* the terminal thread
  Strays    \* whether tmp_iir, which is read uninitialised, holds stray bits:
            \* BOOLEAN, or {FALSE} where the stack slot happens to be zero

Threads == VCpus \union {terminal}
NoPort == "no port"
NoCpu == "no cpu"

ASSUME SharedLineConstants ==
  /\ console \in Ports /\ NoPort \notin Ports
  /\ terminal \notin VCpus /\ NoCpu \notin VCpus
  /\ Strays # {} /\ Strays \subseteq BOOLEAN

VARIABLES
  line,       \* the line
  cause,      \* per port, there is a cause for an interrupt
  iir,        \* per port, IIR names one
  at,         \* per thread, the port whose mutex it holds
  pc,         \* per thread, where it is
  handler,    \* the guest's interrupt handler: the vCPU it runs on, the port
              \* it serves, the ports it found quiet since it last served one
  overlapped  \* history: per port, another port's pulse was under way when
              \* it raised the line the last time

vars == <<line, cause, iir, at, pc, handler, overlapped>>

NotHandling == [on |-> NoCpu, serving |-> NoPort, quiet |-> {}]

Init ==
  /\ line = LowLine
  /\ cause = [p \in Ports |-> FALSE]
  /\ iir = [p \in Ports |-> FALSE]
  /\ at = [t \in Threads |-> NoPort]
  /\ pc = [t \in Threads |-> "idle"]
  /\ handler = NotHandling
  /\ overlapped = [p \in Ports |-> FALSE]

-----------------------------------------------------------------------------
(* An access to a port                                                     *)

Free(p) == \A t \in Threads : at[t] # p

(* lock_guard, the switch of read or write, which leaves the port with a   *)
(* cause or without, and the first half of update_irq: without a cause and *)
(* without stray bits the line is only lowered.                            *)
Access(t, p, has_cause) ==
  /\ pc[t] = "idle" /\ Free(p)
  /\ at' = [at EXCEPT ![t] = p]
  /\ cause' = [cause EXCEPT ![p] = has_cause]
  /\ \E stray \in Strays, named \in BOOLEAN :
       /\ ~stray => named = has_cause
       /\ iir' = [iir EXCEPT ![p] = named]
       /\ pc' = [pc EXCEPT ![t] = IF has_cause \/ stray THEN "raise" ELSE "lower"]
  /\ UNCHANGED <<line, overlapped>>

(* set_level(true) *)
Raise(t) ==
  /\ pc[t] = "raise"
  /\ line' = merged(set_level(line, TRUE))
  /\ pc' = [pc EXCEPT ![t] = "high"]
  /\ overlapped' = [overlapped EXCEPT ![at[t]] = \E s \in Threads : pc[s] = "high"]
  /\ UNCHANGED <<cause, iir, at, handler>>

(* A plausible slip: the pulse is not ended.                               *)
Lower_forgotten(t) ==
  /\ pc[t] \in {"high", "lower"}
  /\ line' = IF pc[t] = "high" THEN line ELSE set_level(line, FALSE)
  /\ pc' = [pc EXCEPT ![t] = "idle"]
  /\ at' = [at EXCEPT ![t] = NoPort]
  /\ UNCHANGED <<cause, iir, handler, overlapped>>

(* set_level(false), and the mutex is released. *)
Lower(t) ==
  /\ pc[t] \in {"high", "lower"}
  /\ line' = set_level(line, FALSE)
  /\ pc' = [pc EXCEPT ![t] = "idle"]
  /\ at' = [at EXCEPT ![t] = NoPort]
  /\ UNCHANGED <<cause, iir, handler, overlapped>>

-----------------------------------------------------------------------------
(* Who accesses the ports                                                  *)

(* write_stdio: bytes may arrive, none is taken. *)
Typed ==
  /\ \E has_cause \in {cause[console], TRUE} : Access(terminal, console, has_cause)
  /\ UNCHANGED handler

(* The guest, outside of its handler: any register of any port. *)
GuestAccess(v) ==
  /\ handler.on # v
  /\ \E p \in Ports, has_cause \in BOOLEAN : Access(v, p, has_cause)
  /\ UNCHANGED handler

(* The guest's handler (external; Linux shares one among the ports of a    *)
(* line): it looks at the ports until it has found all of them quiet in a  *)
(* row, and serves those that are not.                                     *)
HandlerEnter(v) ==
  /\ handler = NotHandling
  /\ pc[v] = "idle"
  /\ line.events > 0
  /\ line' = drain_events(line)
  /\ handler' = [NotHandling EXCEPT !.on = v]
  /\ UNCHANGED <<cause, iir, at, pc, overlapped>>

HandlerLook(v) ==
  /\ handler.on = v /\ handler.serving = NoPort
  /\ \E p \in Ports \ handler.quiet :
       /\ Access(v, p, cause[p])
       /\ handler' = IF iir[p]
                     THEN [handler EXCEPT !.serving = p]
                     ELSE [handler EXCEPT !.quiet = @ \union {p}]

(* One of the accesses that serve a port; with the last the cause is gone. *)
HandlerServe(v) ==
  /\ handler.on = v /\ handler.serving # NoPort
  /\ \E has_cause \in {cause[handler.serving], FALSE} :
       Access(v, handler.serving, has_cause)
  /\ handler' = [handler EXCEPT !.serving = NoPort, !.quiet = {}]

HandlerExit(v) ==
  /\ handler.on = v /\ handler.serving = NoPort /\ handler.quiet = Ports
  /\ pc[v] = "idle"
  /\ handler' = NotHandling
  /\ UNCHANGED <<line, cause, iir, at, pc, overlapped>>

-----------------------------------------------------------------------------

Next ==
  \/ \E t \in Threads : Raise(t) \/ Lower(t)
  \/ Typed
  \/ \E v \in VCpus :
       GuestAccess(v) \/ HandlerEnter(v) \/ HandlerLook(v) \/ HandlerServe(v) \/ HandlerExit(v)

Spec == Init /\ [][Next]_vars

-----------------------------------------------------------------------------
(* Properties                                                              *)

(* The ports' pulses share one level (interrupt.h:20-34), which falls with *)
(* the first set_level(false) of any of them: still it is high only while  *)
(* one of them is between its two calls, so that no mix of pulses leaves   *)
(* the line high, after which nobody would ever see an edge again.         *)
HighOnlyInPulse == line.level => \E t \in Threads : pc[t] = "high"

(* A cause that waits has its edge, unless the port raised the line in the *)
(* middle of another port's pulse: set_level(true) then finds the line     *)
(* high, returns early (interrupt.h:22) and the port is not looked at      *)
(* before its next access.  That is the one way to lose an interrupt, and  *)
(* it takes two ports of a line in use (vm.h:315).                         *)
Waits(p) == cause[p] /\ Free(p) /\ handler.on = NoCpu

LostOnlyByOverlap == \A p \in Ports : Waits(p) /\ line.events = 0 => overlapped[p]

=============================================================================
