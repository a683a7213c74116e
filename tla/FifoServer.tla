----------------------------- MODULE FifoServer ------------------------------
(***************************************************************************)
(* What a virtio queue promises its driver, with the rings, indices and    *)
(* interrupts abstracted away: chains are served one at a time in the      *)
(* order they were made available, each is returned exactly once, the      *)
(* driver gets them back in that order, and nothing that was submitted     *)
(* stays with the device for ever.                                         *)
(***************************************************************************)
EXTENDS Naturals, Sequences, SequencesExt

CONSTANT Chains

VARIABLES
  pending,  \* submitted, not served
  done      \* served, not collected

vars == <<pending, done>>

Init ==
  /\ pending = <<>>
  /\ done = <<>>

Submit(c) ==
  /\ ~Contains(pending, c)
  /\ ~Contains(done, c)
  /\ pending' = Append(pending, c)
  /\ UNCHANGED done

Serve ==
  /\ pending # <<>>
  /\ pending' = Tail(pending)
  /\ done' = Append(done, Head(pending))

Collect ==
  /\ done # <<>>
  /\ done' = Tail(done)
  /\ UNCHANGED pending

Next == Serve \/ Collect \/ \E c \in Chains : Submit(c)

SafeSpec == Init /\ [][Next]_vars

Spec == SafeSpec /\ WF_vars(Serve) /\ WF_vars(Collect)

=============================================================================
