--------------------------------- MODULE Vmm ---------------------------------
(***************************************************************************)
(* The life of the program: src/src/kvm/vmm.h takes over the terminal,     *)
(* builds the vm (src/src/kvm/vm.h) and its devices, starts the threads,   *)
(* waits for the boot vCPU, stops and joins the others and destroys it all *)
(* again.  The threads are the vCPUs (vm::run_cpu), the terminal thread    *)
(* (vmm::read_terminal), and those of the block and network devices.       *)
(*                                                                         *)
(* Every thread is a loop around a flag:                                   *)
(*   off    not started            top    about to test the flag           *)
(*   in     in KVM_RUN, in poll(-1), or in a device thread's body          *)
(*   host   handling an exit, or in write_stdio                            *)
(*   ended                                                                 *)
(* An exception in any of them ends the process there and then, without    *)
(* any destructor, and is left out.                                        *)
(*                                                                         *)
(* Before it starts them the main thread prepares the guest's memory and   *)
(* wires the devices: see MemoryMap, Boot and Bus.                         *)
(***************************************************************************)
EXTENDS MemoryMap, Bus, Boot, Sequences, FiniteSets

CONSTANTS
  VCpus,  \* vCPU threads (CPU_COUNT = 2 in vmm.h)
  boot,   \* the one start() waits for first
  Sizes,  \* memory sizes the vm may be given (4 GB in vmm.h)
  Images  \* kernel images

CPU_COUNT == Cardinality(VCpus)

(* As many processors as the MP table has room for below 640 KB. *)
MAX_CPUS == 46

ASSUME VmmConstants ==
  /\ boot \in VCpus
  /\ CPU_COUNT \in 1 .. MAX_CPUS
  /\ VCpus \intersect {"terminal", "blk", "tx", "rx"} = {}
  /\ \A mem \in Sizes : SizeAccepted(mem) /\ ReachesHimem(mem)
  /\ Images \subseteq ElfImage

Devices == {"blk", "tx", "rx"}
Threads == VCpus \union Devices \union {"terminal"}
Parts == {"term", "interrupts", "memory", "cpus", "io_devices", "blk", "rng", "net"}

VARIABLES
  main,   \* position of the main thread in Script
  th,     \* per thread, where it is
  run,    \* the flags: vm::should_run, vmm::run_terminal, blk's and net's
  alive,  \* parts that have been built and not been destroyed
  mem,    \* the vm's memory, in KB
  image   \* the kernel that is started

vars == <<main, th, run, alive, mem, image>>

Flag(t) ==
  IF t \in VCpus THEN "vm" ELSE IF t \in {"tx", "rx"} THEN "net" ELSE t

(* What a thread may touch.  A vCPU in KVM_RUN runs on the guest's memory; *)
(* when it handles an exit it may reach any device, the terminal through a *)
(* serial port, and rng on top of that after every MMIO access.            *)
Uses(t) ==
  IF th[t] \in {"off", "ended"} THEN {}
  ELSE CASE t \in VCpus -> IF th[t] = "host" THEN Parts ELSE {"memory", "cpus"}
         [] t = "terminal" -> IF th[t] = "host" THEN {"term", "io_devices", "interrupts"} ELSE {"term"}
         [] t = "blk" -> {"blk", "memory", "interrupts"}
         [] t \in {"tx", "rx"} -> {"net", "memory", "interrupts"}

-----------------------------------------------------------------------------
(* The main thread                                                         *)

Create(p) == [op |-> "create", of |-> {p}]
Start(ts) == [op |-> "start", of |-> ts]
Stop(f) == [op |-> "stop", of |-> {f}]
Join(ts) == [op |-> "join", of |-> ts]
Destroy(p) == [op |-> "destroy", of |-> {p}]

(* terminal::terminal sets the terminal raw, ~terminal restores it.  It is *)
(* built before the vm and goes after it.                                  *)
Raw == <<Create("term")>>
Restored == <<Destroy("term")>>

Building ==
  <<Create("interrupts"), Create("memory"), Create("cpus"), Create("io_devices")>>

(* A device is complete before its constructor starts its threads.         *)
Starting ==
  <<Create("blk"), Start({"blk"}), Create("rng"), Create("net"), Start({"tx"}), Start({"rx"}),
    Start({boot}), Start(VCpus \ {boot}), Start({"terminal"})>>

(* ~vm: its devices in the order they were added, then the memory; the     *)
(* other members after the destructor's body, last to first.               *)
DeleteBlk == <<Stop("blk"), Join({"blk"}), Destroy("blk")>>
DeleteNet == <<Stop("net"), Join({"tx"}), Join({"rx"}), Destroy("net")>>

(* Plausible slips: the memory goes before the devices; the other vCPUs    *)
(* are stopped with the first that ends; the terminal thread is not told.  *)
Destructor_memory_first ==
  <<Stop("vm"), Destroy("memory")>> \o DeleteBlk \o <<Destroy("rng")>> \o DeleteNet
    \o <<Destroy("io_devices"), Destroy("cpus"), Destroy("interrupts")>>

Stopping_early ==
  <<Stop("vm"), Join({boot}), Join(VCpus \ {boot}), Stop("terminal"), Join({"terminal"})>>

Stopping_untold ==
  <<Join({boot}), Stop("vm"), Join(VCpus \ {boot}), Join({"terminal"})>>

Stopping ==
  <<Join({boot}), Stop("vm"), Join(VCpus \ {boot}), Stop("terminal"), Join({"terminal"})>>

Destructor ==
  <<Stop("vm")>> \o DeleteBlk \o <<Destroy("rng")>> \o DeleteNet
    \o <<Destroy("memory"), Destroy("io_devices"), Destroy("cpus"), Destroy("interrupts")>>

Script == Raw \o Building \o Starting \o Stopping \o Destructor \o Restored

Finished == main > Len(Script)

Main ==
  /\ ~Finished
  /\ LET s == Script[main]
     IN  /\ s.op = "join" => \A t \in s.of : th[t] = "ended"
         /\ th' = [t \in Threads |-> IF s.op = "start" /\ t \in s.of THEN "top" ELSE th[t]]
         /\ run' = [f \in DOMAIN run |-> run[f] /\ ~(s.op = "stop" /\ f \in s.of)]
         /\ alive' = CASE s.op = "create" -> alive \union s.of
                       [] s.op = "destroy" -> alive \ s.of
                       [] s.op \notin {"create", "destroy"} -> alive
  /\ main' = main + 1
  /\ UNCHANGED <<mem, image>>

-----------------------------------------------------------------------------
(* The other threads                                                       *)

Init ==
  /\ main = 1
  /\ th = [t \in Threads |-> "off"]
  /\ run = [f \in {"vm", "terminal", "blk", "net"} |-> TRUE]
  /\ alive = {}
  /\ mem \in Sizes
  /\ image \in Images /\ Fits(image, mem)

Goto(t, from, to) ==
  /\ th[t] = from
  /\ th' = [th EXCEPT ![t] = to]
  /\ UNCHANGED <<main, run, alive, mem, image>>

(* while (should_run) *)
Test(t) == Goto(t, "top", IF run[Flag(t)] THEN "in" ELSE "ended")

(* KVM_RUN returns, with an exit to handle or one that ends the thread     *)
(* (KVM_EXIT_HLT, KVM_EXIT_SHUTDOWN and whatever it does not know).        *)
LeaveGuest(v) == Goto(v, "in", "host") \/ Goto(v, "in", "ended")

(* A signal: KVM_RUN fails with EINTR, which vcpu::run takes for a return, *)
(* and the loop passes over KVM_EXIT_INTR.  After EAGAIN it runs again.    *)
Interrupted(v) == Goto(v, "in", "top")

(* poll(-1) returns: something was typed, or the terminal is gone. *)
Typed == Goto("terminal", "in", "host") \/ Goto("terminal", "in", "ended")

(* The exit, or write_stdio, is done. *)
Handle(t) == Goto(t, "host", "top")

(* An iteration of a device thread; each of them is finite. *)
Iterate(d) == Goto(d, "in", "top")

Next ==
  \/ Main
  \/ \E t \in Threads : Test(t)
  \/ \E v \in VCpus : LeaveGuest(v) \/ Interrupted(v) \/ Handle(v)
  \/ Typed \/ Handle("terminal")
  \/ \E d \in Devices : Iterate(d)

(* The host schedules every thread.  The guest need not leave KVM_RUN, nor *)
(* anybody type.                                                           *)
Fairness ==
  /\ WF_vars(Main)
  /\ \A t \in Threads : WF_vars(Test(t)) /\ WF_vars(Handle(t))
  /\ \A d \in Devices : WF_vars(Iterate(d))

Spec == Init /\ [][Next]_vars

FairSpec == Spec /\ Fairness

-----------------------------------------------------------------------------
(* Properties                                                              *)

(* No thread runs on what is not there yet or has been destroyed: the      *)
(* devices' threads are joined before the memory they copy to is unmapped  *)
(* (vm.h:55-57), the vCPUs and the terminal thread before the devices go   *)
(* (vmm.h:92-100), and the terminal is restored when nobody writes to it   *)
(* or reads from it any more (terminal.h:30).                              *)
NothingUsedAfterDestroyed == \A t \in Threads : Uses(t) \subseteq alive

(* While the boot vCPU runs the guest keeps its whole machine, whichever   *)
(* other thread has ended: run_cpu returns for good on a shutdown exit of  *)
(* any vCPU (vm.h:198), a panic that reboots by a triple fault, and start()*)
(* still waits for the first (vmm.h:92).                                   *)
ServedWhileBootRuns ==
  th[boot] \notin {"off", "ended"} => alive = Parts /\ \A f \in DOMAIN run : run[f]

(* What vm::create_memory has given to KVM and setup_bootparams tells the  *)
(* kernel fit together while the memory is mapped (vm.h:230-278, 346-363), *)
(* for any accepted size above HIMEM_START: see MemoryMap.                 *)
GuestRamIsBacked == "memory" \in alive => Backed(mem)

(* When the boot vCPU is started, what it and the kernel rely on is in     *)
(* memory as start() wrote it (vmm.h:58-71), for any image loaded above    *)
(* HIMEM_START.  The kernel is all there unless its file is not: a read    *)
(* that elf::load does not check (elf.h:44) leaves no hole before a        *)
(* segment that follows it, and a malformed header is never passed over.   *)
ImageIsWhole == th[boot] # "off" => ImageWhole(image, CPU_COUNT, mem)

(* The accesses of the kernel arrive at the devices it means, and their    *)
(* interrupts at the kernel, with any size of memory (vmm.h:45-83,         *)
(* vm.h:136, mmio.h:212, irq.h:19).                                        *)
DevicesAreWired == "memory" \in alive => DevicesWired(mem)

(* Once the boot vCPU has ended the program comes to its end, provided     *)
(* that the others leave KVM_RUN again and that somebody types: nothing    *)
(* kicks a vCPU or the poll (vmm.h:93, 99 only set flags).                 *)
Nudged == \A t \in Threads \ Devices : []<>(th[t] # "in")

ShutdownCompletes == Nudged => (th[boot] = "ended" ~> Finished)

=============================================================================
