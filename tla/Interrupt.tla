------------------------------ MODULE Interrupt ------------------------------
(***************************************************************************)
(* An interrupt line of src/src/kvm/interrupt.h.  `level' is the field     *)
(* `state'; `events' is the eventfd counter that KVM's irqfd drains when   *)
(* it injects the interrupt.  set_level runs under the line's mutex, so it *)
(* is one step.                                                            *)
(***************************************************************************)
EXTENDS Integers

Line == [level : BOOLEAN, events : Nat]

LowLine == [level |-> FALSE, events |-> 0]

(* Plausible slips: the early return is dropped, the level never falls.    *)
set_level_always(line, update) ==
  [level  |-> update,
   events |-> IF update THEN line.events + 1 ELSE line.events]

set_level_sticky(line, update) ==
  IF line.level \/ ~update
  THEN line
  ELSE [level |-> TRUE, events |-> line.events + 1]

(* Only a rise writes the eventfd; setting the level it already has does   *)
(* nothing.                                                                *)
set_level(line, update) ==
  IF line.level = update
  THEN line
  ELSE [level  |-> update,
        events |-> IF update THEN line.events + 1 ELSE line.events]

(* irqfd: KVM reads the counter, which resets it, and injects one edge.    *)
drain_events(line) == [line EXCEPT !.events = 0]

(* Since it is reset at once, more than one event counts as one.           *)
merged(line) == [line EXCEPT !.events = IF @ > 1 THEN 1 ELSE @]

=============================================================================
