-------------------------------- MODULE MCMmio -------------------------------
(* Instances of Mmio for TLC: the disk, whose thread calls q(), and the    *)
(* network device, whose two threads call q(0) and q(1) and whose third    *)
(* queue nobody sets up.                                                   *)
EXTENDS Mmio

Both == {"blk", "net"}
PerDevice(blk, net) == [d \in Both |-> IF d = "blk" THEN blk ELSE net]

Features == PerDevice({1, 2, 29}, {0, 5})
QueueCounts == PerDevice(1, 3)
SetUps == PerDevice(1, 2)
ThreadArgs == PerDevice({Selected}, {0, 1})

RingsAt(size, low, high) ==
  [size |-> size, addr |-> [desc |-> {low, high}, avail |-> {low}, used |-> {high}]]
TwoRings == {RingsAt(2, 12, 33), RingsAt(4, 13, 34)}
SomeSupport == {{}, {1, 5, 29}}

=============================================================================
