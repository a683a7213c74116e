--------------------------------- MODULE Bus ---------------------------------
(***************************************************************************)
(* How an access of the guest finds its device and a device's interrupt    *)
(* finds the guest: the windows given to add_io_device and add_mmio_device *)
(* (vmm.h), the search of run_cpu (vm.h) and class mmio (mmio.h), and the  *)
(* GSI routing of irq.h.  Ports are bytes; MMIO is in KB, which its        *)
(* windows are multiples of.                                               *)
(***************************************************************************)
EXTENDS MemoryMap, Sequences

Device(name, addr, width, irq) ==
  [name |-> name, addr |-> addr, width |-> width, irq |-> irq]

io_devices ==
  <<Device("i8042", 96, 5, 1),
    Device("ttyS0", 1016, 8, 4), Device("ttyS1", 760, 8, 3),
    Device("ttyS2", 1000, 8, 4), Device("ttyS3", 744, 8, 3)>>

mmio_devices ==
  <<Device("blk", 3407872, 4, 12), Device("rng", 3407876, 4, 13),
    Device("net", 3407880, 4, 14)>>

(* Where the kernel looks for them: what start() puts on its command line, *)
(* and the places and ISA interrupts of a PC (external).                   *)
cmdline_devices ==
  {Device("blk", 3407872, 4, 12), Device("rng", 3407876, 4, 13), Device("net", 3407880, 4, 14)}

PC_devices ==
  {Device("i8042", 96, 5, 1), Device("ttyS0", 1016, 8, 4), Device("ttyS1", 760, 8, 3),
   Device("ttyS2", 1000, 8, 4), Device("ttyS3", 744, 8, 3)}

(* A plausible slip: the window has a port too many.                       *)
in_range_closed(dev, port) == dev.addr <= port /\ port <= dev.addr + dev.width

in_range(dev, port) == dev.addr <= port /\ port < dev.addr + dev.width

offset(dev, port) == port - dev.addr

(* The first device in range answers, nobody if there is none. *)
answers(devices, port) ==
  {[name |-> devices[i].name, at |-> offset(devices[i], port)] :
    i \in {k \in DOMAIN devices :
             /\ in_range(devices[k], port)
             /\ \A j \in DOMAIN devices : j < k => ~in_range(devices[j], port)}}

(* One line per number: the second device with a number gets the first's.  *)
register_irq(dev) == dev.irq

(* KVM resolves a GSI to pins of the interrupt controllers. *)
Route(gsi, irqchip, pin) == [gsi |-> gsi, irqchip |-> irqchip, pin |-> pin]

routing ==
  {Route(i, "master", i) : i \in (0 .. 7) \ {2}}
    \union {Route(i, "slave", i - 8) : i \in 8 .. 15}
    \union {Route(0, "ioapic", 2)} \union {Route(i, "ioapic", i) : i \in (1 .. 23) \ {2}}

(* KVM's own windows (external): the APICs where setup_mptable announces   *)
(* them, and the pages of KVM_SET_TSS_ADDR.                                *)
kvm_windows ==
  {Device("lapic", 4175872, 4, 0), Device("ioapic", 4173824, 4, 0), Device("tss", 4194036, 12, 0)}

-----------------------------------------------------------------------------
(* What must hold of them.                                                 *)

Ports(dev) == {dev.addr + k : k \in 0 .. dev.width - 1}

(* Every access to a window the kernel knows reaches the device it means,  *)
(* at the register it means.                                               *)
AccessesArrive ==
  /\ \A dev \in PC_devices : \A p \in Ports(dev) :
       answers(io_devices, p) = {[name |-> dev.name, at |-> p - dev.addr]}
  /\ \A dev \in cmdline_devices : \A p \in Ports(dev) :
       answers(mmio_devices, p) = {[name |-> dev.name, at |-> p - dev.addr]}

(* An MMIO access leaves KVM_RUN: no slot and no window of KVM itself is   *)
(* at its address.                                                         *)
WindowsTrap(mem) ==
  \A i \in DOMAIN mmio_devices :
    LET dev == mmio_devices[i]
    IN  /\ \A s \in slots(mem) : s.guest + s.size <= dev.addr \/ dev.addr + dev.width <= s.guest
        /\ \A w \in kvm_windows : w.addr + w.width <= dev.addr \/ dev.addr + dev.width <= w.addr

(* A device's interrupt arrives at the PIC and at the IO-APIC, at pins no  *)
(* other GSI reaches, and the virtio devices, whose lines are levels that  *)
(* set_level remembers, share theirs with nobody.                          *)
InterruptsArrive ==
  /\ \A dev \in PC_devices \union cmdline_devices :
       \E pic \in {"master", "slave"} : \A chip \in {pic, "ioapic"} :
         \E r \in routing :
           /\ r.gsi = dev.irq /\ r.irqchip = chip
           /\ \A x \in routing : x.irqchip = chip /\ x.pin = r.pin => x = r
  /\ \A d, e \in PC_devices \union cmdline_devices :
       d \in cmdline_devices /\ register_irq(d) = register_irq(e) => d = e

DevicesWired(mem) == AccessesArrive /\ WindowsTrap(mem) /\ InterruptsArrive

=============================================================================
