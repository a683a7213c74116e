# A specification of kthxvm

kthxvm is a small virtual machine monitor on top of KVM: `src/src/kvm/vmm.h`
builds a machine with two vCPUs, a keyboard controller, four serial ports and
three virtio-mmio devices (disk, entropy, network), starts their threads and
waits for the boot vCPU to end. These TLA+ modules model its concurrent core:
the virtqueues, the device threads, the interrupt lines, the serial port, the
keyboard controller and the life of the program. TLC checks them on small
instances; for every value of the constants TLAPS proves theorems about the
block, network and entropy devices, the registers of the virtio devices, the
serial port, the keyboard controller, interrupt lines that serial ports share,
the order of construction and destruction, the guest's memory at boot and the
wiring of its devices. `PROJECT.json` lists components, runs, mutants, the map from definitions to source lines, findings,
hazards and theorems.

The repository has neither documentation nor tests; what it states about itself
are its comments. Paths below are relative to `src/src/kvm/` unless they say
otherwise.

## Inventory

| part | state | operations | runs on |
|---|---|---|---|
| virtqueue, `virtio/queue.h` | `size`, `ready`, `last_avail`, ring addresses; the rings in guest memory | `next`, `pop_back`, `avail_id`, `add_used`, `set_ready`, `is_ready`, `set_notify` | the device's thread, under the queue's mutex except `avail_id` |
| interrupt line, `interrupt.h` | `state`, the eventfd counter | `set_level`, `level` | any thread, under the line's mutex |
| block device, `virtio/blk.h` | file stream, configuration, `should_run` | `run` | its own thread |
| network device, `virtio/net.h` | tap, two static buffers, `should_run` | `update_rx`, `update_tx` (`update_ctrl` is never called) | two threads of its own |
| entropy device, `virtio/rng.h` | stream of `/dev/random` | `update` | every vCPU thread, after every MMIO exit |
| mmio registers, `virtio/mmio.h`, `virtio/device.h` | `status`, feature words, `queue_index` | `read`, `write`, `update` | vCPU threads, no mutex |
| serial port, `device/uart.h` | registers, receive and transmit FIFOs | `read`, `write`, `write_stdio` | vCPU threads and the terminal thread, under `mu` |
| terminal, `src/src/os/terminal.h` | termios | `put`, `get`, `readable` | serial port, terminal thread |
| keyboard controller, `device/i8042.h` | `status`, `control`, `outp`, `command`, a buffer | `read`, `write` | vCPU threads, no mutex |
| machine, `vm.h`, `vmm.h`, `vcpu.h` | threads, flags, devices, memory | `start`, `run_cpu`, `stop`, `read_terminal`, destructors | main thread and all the others |
| memory layout, `vm.h`, `layout.h` | slots, e820 table | `create_memory`, `setup_bootparams` | main thread, once |
| boot image, `src/src/elf/elf.h`, `regs.h`, `mptable.h`, `layout.h` | areas of the guest's memory | `elf::load`, `setup_long_mode`, `setup_regs`, `setup_mptable` | main thread, once |
| buses and routes, `vm.h`, `device/io_device.h`, `virtio/mmio.h`, `irq.h` | windows of the devices, lines, GSI routes | `add_io_device`, `add_mmio_device`, `register_irq`, `in_range`, `setup_irq_routing` | main thread, once; the search on vCPU threads |
| register values, `cpuid.h`, `msr.h`, `gdt.h`, `apic.h` | constants given to KVM | | main thread, once |

How they interact: the guest's loads and stores to device registers are KVM
exits that `vm::run_cpu` hands to the device on the vCPU's thread; the rings are
memory the guest and the device threads share without a lock; a device raises
its line by writing an eventfd, from which KVM injects an edge; the guest
acknowledges by writing `INTERRUPT_ACK`, which lowers the level. The terminal
thread waits in `poll` and pushes what was typed into `ttyS0`.

What is hard: the guest runs truly concurrently with the device threads, so the
hand-shake around `used_event` and the acknowledgement of an edge is a classic
lost-wakeup problem; ring indices are 16 bits wide on one side and 32 on the
other; one step of several may fail on the host and is only logged; two devices
share code with different locking; shutdown must end threads that sit in
blocking calls before what they use is destroyed. `PROJECT.json` lists each
hazard at its line with the properties that would notice it; where none would,
because what goes wrong is what the code always does and no text of the
repository says otherwise, it says that instead.

What makes each part correct: a **queue** serves chains in order, each once,
and touches no chain the driver owns; a **line** loses no interrupt the driver
waits for and stores no second edge; **blk** leaves in the image and in the
buffers what executing the requests in order would; **net** keeps frames in
order; **rng** returns only buffers it has read into; the **serial port** neither
loses nor repeats a byte by itself and its LSR and IIR are true; the **keyboard
controller** answers the last question; the **machine** comes down in an order
in which nothing is used after it was destroyed.

## Modules

```
VirtQueue   Interrupt                operators on a queue and on a line
     \        /      \
   VirtioGuest        \              the driver's side of a virtio device (external)
   /    |     \        \
 Blk   Net    Rng     Uart  I8042    one per device
                      SharedLine     several serial ports on one line
                                     FifoServer: what a queue promises
                                     Mmio: the registers of virtio devices

MemoryMap <- Bus, Boot <- Vmm        the life of the program, its memory and buses

Rings_proofs <- Blk_proofs, Net_proofs, Rng_proofs
Registers_proofs                     of I8042 and Mmio
Uart_proofs, SharedLine_proofs, Vmm_proofs
```

**VirtQueue** is `queue.h` as operators on a record of the private fields and
the two rings. The avail ring is one array of words with the driver's
`used_event` in word `size` and the device's in word `QUEUE_SIZE_MAX`, as in
memory. `add_used` is two operators because a driver can see the element before
the index. A descriptor chain is named by the index of its first descriptor.

**Interrupt** is `interrupt.h`: the level and the eventfd counter. KVM drains the
whole counter and injects one edge.

**VirtioGuest** is external code, modelled from the registers and rings the
devices offer: the driver sets a queue up, posts chains at any time, and its
handler reads `INTERRUPT_STATUS`, acknowledges, drains every ring, publishes
`used_event` and looks again. Each access is a step, so device threads
interleave everywhere.

**Blk** is `blk::run`. `bpc` is the position in the loop:
`next` (lines 83-87), `start` (89-97), `data` (98-104 and its likes), `elem` and
`idx` (141), `event` (143), `irq` (144). Host file operations may fail at any
point (`IoErrors`); the failbit stays. `shadow` and `expect` are history: what
the image and the buffers would be if requests took effect one at a time in the
order they were posted.

**Net** has both threads; `rpc` and `tpc` are their positions. Frames are numbered,
a buffer holds the number of the frame in it. A poll timeout gives the chain
back (`pop_back`), a failed read returns the old buffer, a failed write adds
-1 to an unsigned length, all as the code does.

**Rng** runs `rng::update` on every vCPU after every exit, one step per access to
shared state. `LockFree` is the queue's mutex where it is held over two steps. A
read of `/dev/random` may fail (`IoErrors`); `good` is the stream's state, which
nothing looks at, so that from then on chains go back without entropy in them.

**Uart** takes one step per access, because each runs under `mu` from beginning to
end; `update_irq` is nondeterministic in the uninitialised `tmp_iir`. The guest
accesses any register in any order, also while its handler runs, so two vCPUs
are covered. `tty` is what the next reads of the terminal give: a byte somebody
typed or the zero byte that `get` makes of a read that fails; `EndOfFile` is
`write_stdio` when `get` returns -1. `term` is what `put` was given, each byte with
whether its write succeeded: `flush_tx` resets the FIFO either way.

**SharedLine** is what Uart's one step per access leaves out. `register_irq` gives
ttyS0 and ttyS2 the same line and ttyS1 and ttyS3 another, but every port has a
mutex of its own, so the two `set_level` calls of one port's pulse mix with
those of another's. A port is reduced to whether it has a cause and whether its
IIR names one; an access changes that in any way it may, then takes the steps of
`update_irq` (uart.h:205-223). The terminal thread fills one of the ports, and
the handler asks the ports of the line in turn until all of them are quiet, as
Linux' `serial8250_interrupt` does.

**I8042** takes one step per access because Linux's driver holds a lock around
each; the device itself has none.

**Vmm** runs the main thread through `Script`, the sequence of constructions, starts,
stops, joins and destructions of `vmm::start`, the constructor of `vm` and the
destructors; the terminal is set raw before the vm is built and restored after
it is gone. Every other thread is a loop around its flag. `alive` has the parts
that are built and not destroyed, `Uses(t)` what a thread may touch where it is.

**MemoryMap** has what `vm::create_memory` maps and what `setup_bootparams` reports, as
operators on the size of the memory, and what they must have in common. Vmm
chooses the size.

**Boot** is the memory `vmm::start` hands to the boot vCPU: the areas that
`elf::load`, `setup_long_mode`, `setup_bootparams` and `setup_mptable` write, and
those that registers, descriptor tables and the kernel rely on. None of the
writers looks at another, so what matters is which areas there are, not the
order of the writes. `load_entry` is what `elf::load` returns, `-EINVAL` included.
An image has the size of its file, which may be cut short anywhere between two
fields (at multiples of 8 bytes): `header` is what was read of a program header,
`good_at` the state of the stream when a segment's turn comes, `copied` how much of
it got into memory, `loaded` the segments that are there whole.
Vmm chooses the image among those that `Fits` admits (loaded above 1 MB and
within the memory, which the code does not check).

**Bus** is the search for the device of an access, the lines of `register_irq` and
the routes of `setup_irq_routing`, beside what the kernel is told of its devices
(the command line of `vmm.h:44-47`) or knows of a PC.

**Mmio** is the register file of `mmio.h` and `device.h` as operators (`write`, one
case per register, with shifts, masks and or's on sets of bits), the driver as
a phase and the number of its next access in it, and the threads of `blk` (which call
`q()`) and `net` (`q(i)`) as `Take` and `Return` of a chain. A driver probes,
negotiates, sets its queues up, is unbound, comes back, is refused, or fails
to allocate a ring. The other models start where its set-up ends: their
`SetupQueue` is one step because `ready` is set last, under the queue's lock,
which `RingsAreWhole` shows to be enough.

**FifoServer** is the abstract specification: chains are served in the order they
were submitted, once each, and all of them. Blk, Net (its two queues) and Rng
implement it, with `PendingOf` and `DoneOf` of VirtioGuest as refinement
mapping.

The `MC*` modules give the constants their values.

## Runs

| run | shows | bounds |
|---|---|---|
| `blk_data` | types, ownership, data in order and none that is wrong after a failure, interrupts, with every request type and I/O errors | ring of 2 = `QUEUE_SIZE_MAX`, 3 chains, 2 units of data, chains of 1-2 data descriptors |
| `blk_live` | refines FifoServer; an expected interrupt comes | 6 chains on a ring of 2, indices modulo 8 |
| `blk_small_ring` | **violation**: interrupt lost | ring of 2 with `QUEUE_SIZE_MAX` 4 |
| `blk_wrap` | **violation**: queue stalls | indices modulo 4, 6 chains |
| `net` | order of frames both ways, ownership, no lost interrupt, refinement, delivery, with failures and beyond them | rings of 2, 2 chains per queue, 2 frames |
| `rng` | one outstanding request is safe and served; no buffer without entropy before a read has failed | 2 vCPUs, 5 requests, reads that fail |
| `uart` | bytes in order, LSR and IIR exact up to `tmp_iir`, no lost interrupt; all that is typed is read, pulses end | FIFO of 2, 3 bytes typed, 2 written outside of loopback, one read or write of the terminal that fails, two values of `tmp_iir` |
| `shared_line` | pulses that mix leave the line low; only an overlap loses an interrupt | two ports, two vCPUs and the terminal thread |
| `i8042` | the announced byte is the answer; its interrupt is not lost | two register values |
| `i8042_param` | **violation**: status forgets that a parameter is expected | the same |
| `vmm` | nothing used before it is built or after it was destroyed; served while the boot vCPU runs; shutdown ends; memory map, boot image and wiring of the devices are consistent | two vCPUs, all threads, five memory sizes around the bounds, four whole kernel images, two of them malformed, and seven cut short |
| `mmio` | a ready queue has the rings of one driver, whole; threads stay on a queue; the features offered below bit 24 are accepted and recorded | disk and network device, two probes each, two kinds of rings, two sets of supported features |

Why the bounds are enough: a ring of two slots with three or more chains makes
every slot and head be reused, the handler reap while the thread fills, and a
chain be posted while another is returned; FIFOs of two with three bytes fill,
overflow and drain. `IdxMod` stands for 2^16: with `MaxPosts` below it the
indices do not wrap, which is what separates `blk_live` from `blk_wrap`. The
serial port's and the keyboard's event counters saturate at one, because KVM
drains the whole counter.

Deadlock is checked except in `vmm`, where the program ends. Blk, Net and Rng
always have a thread that polls, as has Mmio.

### Findings

- **Queue stalls when the index wraps** (`queue.h:76`, `blk_wrap`). `avail()->idx`
  has 16 bits, `last_avail` 32. The same comparison makes the `int` arithmetic
  of `blk.h:143` harmless: the used index never gets to wrap.
- **`used_event` at a fixed offset** (`queue.h:26-31`, `blk_small_ring`). The comment in
  `src/include/vring_def.h:46` places it at the end of the avail ring, which is
  elsewhere when the driver's ring is smaller than 0x200.
- **`status &= !FLAG`** (`device/i8042.h:117, 156, 175`, `i8042_param`)
  zeroes the register, contrary to the comments on its bits at lines 23-24.

### What holds under a condition only

- Rng: one request outstanding, as Linux's driver keeps it. With
  `MaxOutstanding = 2`, `StreamExclusive` and `ReturnsWhatItFilled` fail.
- Rng: after one failed read of `/dev/random` the buffers come back with their
  full length and nothing in them (`rng.h:50-53`). `ReturnsWhatItFilled` says that
  none does before.
- Net: each failed read of the tap makes a chain come back with an earlier frame
  (`net.h:122-146`) and each failed write loses the frame of its chain (`net.h:178`).
  `RxInOrder` and `TxInOrder` say what failures do to the other frames: nothing.
  `FrameDelivered` counts frames by the tap, not by the chains, and a chain that a
  failed read has used up is not one the driver still has posted.
- Blk: after a failed host operation nothing more is moved while the status byte
  still says OK; `CompletedInOrder` says that what is in a buffer then is right or
  what the driver put there, no more. `ServesFifo` excludes unknown types, whose
  chains are never returned.
- Uart: a read of the terminal that fails gives the guest a zero byte that nobody
  typed (`src/src/os/terminal.h:53-61`), a failed write loses its byte
  (`terminal.h:38-41`, `uart.h:199-201`). `RxInOrder` and `TransmittedAtOnce` say where,
  and that no other byte is touched. The divisor's low byte, which falls through
  to DATA (`uart.h:121-134`), counts as written.
- Uart: `TypedIsRead` and `PulsesEnd` say what happens once the guest leaves the
  port in its normal mode with receive interrupts on, and once the stack slot of
  `tmp_iir` happens to be zero, which is what an unoptimised build was seen to
  produce. With a stray `IIR_NONE_BIT` for ever the handler is told there is
  nothing to do.
- SharedLine: an interrupt is lost when one port raises the line in the middle
  of another port's pulse. `LostOnlyByOverlap` says that there is no other way;
  the handler, which asks all the ports, makes up for it when it runs next. No
  comment in the repository says that it must not happen.
- Mmio: a ready queue has a size other than 0 unless a driver has failed to
  allocate a ring; Linux' driver then writes 0 to `QUEUE_READY`, which sets it.
  After a driver has left, the threads still poll its rings.
- Blk: the driver publishes `used_event` although `VIRTIO_RING_F_EVENT_IDX` is
  never negotiated, because the features are masked with 0xFFFFFF
  (`virtio/mmio.h:65`) and its bit is 29. Linux' driver does.
- Boot: images loaded above 1 MB and within the memory. For a malformed one
  `start` takes `-EINVAL` for the entry; `ImageIsWhole` says only that the image's
  own entry is not used then. A truncated file is started as it is
  (`src/src/elf/elf.h:21, 29, 44`): only of a complete one (`Complete`) does
  `ImageIsWhole` say that all segments are there.
- MemoryMap: sizes above 1 MB (`ReachesHimem`), which `create_memory` does not ask
  for, and other than the start of the gap, at which KVM refuses the empty
  second slot.
- Vmm: `ShutdownCompletes` assumes that vCPUs leave `KVM_RUN` again and that
  somebody types; `stop()` and `run_terminal = false` wake nobody up. It starts
  from the end of the boot vCPU: when another one ends, `start` waits on, and
  `ServedWhileBootRuns` is what holds until then.

## Fairness

The host schedules threads: weak fairness on each thread's step (`Thread` of Blk,
`Rx` and `Tx` of Net, `Update(v)` of Rng, `ReadTerminal` of Uart, every loop of
Vmm). The guest runs an interrupt handler it has entered, and enters it when an
edge is pending: weak fairness on the handler. Nothing obliges the guest to
post, to exit or to access a register, the network to send, or a user to type.
What the liveness properties of Uart need of the guest and of the compiler is
their premise (`NormalMode`, `SlotIsZero`, receive interrupts enabled), not
fairness. No strong fairness is assumed.

## Mutants

Every property of a passing run is checked to notice a plausible slip in a
definition of the code: `avail_id_ahead` (off by one), `has_next_equal` (`>=`
for `>`), `pop_back_forgotten`, `add_used_elem_swapped` (id and len),
`set_level_always` (no early return), `set_level_sticky` (never falls),
`WantsInterrupt_next` (`idx` for `idx - 1`), and the slips of Uart, SharedLine,
I8042, Mmio, MemoryMap, Boot, Bus and Vmm named in the comments above them. They stand before the
definition they replace and nothing else uses them.

## Proofs

Every theorem holds for all constants that satisfy the named assumptions of the
modules it is about: any ring size that divides the index range, any number of
chains, frames, bytes and ports.

**Virtqueues** (`Rings_proofs`, used by `Blk_proofs`, `Net_proofs` and
`Rng_proofs`). The rings are
indexed modulo their size, the counters are not: `AvailAt(r, n)` and
`UsedAt(r, n)` are the heads of the n-th chain posted and returned, and the
lemmas on `post_avail`, `next`, `pop_back` and `add_used` say that each writes one slot
that no chain under way occupies. `Custody` puts together who holds a chain: the
driver's free heads, the entries not taken, the one being served and those not
reaped are counted (`Counted`: together no more than the ring has slots), all
different (`Apart`), and the one being served is in none of them (`Alone`). This
is what the properties about ownership and order rest on: an entry is not
overwritten because there is no chain left to overwrite it with.

**Block device** (`Blk_proofs`):

- `TypeCorrect`: `TypeInv` strengthens `TypeOK` by what typing needs: ring words that
  name heads, sizes of queues that are ready, positions within the walk.
- `OneEdge`: from `LineInv`: the handler's position tells whether the line may be
  high.
- `InterruptNotLost`: with `QueueNum = QUEUE_SIZE_MAX`, `NoLostInterrupt`. `IdxInv`
  relates the indices: what was reaped, returned, taken and posted, in this
  order, and no index wraps because `next()` stalls first. `EventInv` says where
  the promise of an interrupt is while one is owed: in a pending edge, in a
  high line whose handler has still to drain, or in the thread, which has moved
  the index but not compared it with a `used_event` that is up to date. The
  assumption on the ring size is what `blk_small_ring` shows to be needed.
- `ChainsStayOwned`: from `RingInv`, the three parts of custody.
- `ImplementsFifo`: the safety part of the refinement, when every request is of a
  type the code knows. `NoDropInv` says that what was taken is served or returned;
  the abstract sequences are windows on the rings, and each action appends to
  one or takes the head of it.
- `RequestsTakeEffectInOrder`: `CompletedInOrder`, from `DataInv`. There is a sequence of
  images (`Follows`): the chain posted n-th finds the n-th and leaves the next, the
  image on disk is the one after the last chain taken, and the driver's is the
  last. The chain being served is somewhere between its two (`Moved`): what has
  been moved is as it will be and the rest as it was. No execution of requests
  is computed, so no recursion is needed; posting extends the sequence. A
  request of an unknown type leaves the image it finds, so dropping it does no
  harm. A failed stream ends this invariant (`good`) but not that on status and
  length, nor `KeptInv`: every unit of a buffer is what its request asks for or
  blank, since nothing is moved any more.

**Network device** (`Net_proofs`). Each queue has a thread of its own, so `PartsInv`
is one invariant per thread and queue (`RxPart`, `TxPart`, with the queue's `Custody`),
and neither thread disturbs the other's.

- `TypeCorrect` and `ChainsStayOwned` from `PartsInv`; `pop_back` returns the chain
  being served to those not taken, where it came from.
- `InterruptNotLost`: `HandlerInv` follows the line the threads share: a chain not
  reaped is one whose thread is about to raise the line, or the line is high for
  it, or the drain loop has yet to come to its queue.
- `FramesSentInOrder`: `TxOrder`: chains not taken hold the frames still to be
  written, in order, and the frames on the wire and the failed writes together
  are one ahead of the used index at most.
- `FramesReceivedInOrder`: `RxOrder`: what the tap holds continues what is in
  `buffer[]`, and the number of that frame and of the failed reads together follow
  the used index.
- `RxImplementsFifo`, `TxImplementsFifo`: for each queue, every step of the system
  is one of the server's or a stutter (`ServerStep`).

**Entropy device** (`Rng_proofs`). Nothing guards the host's stream or the id that is
read again outside the lock, so the argument is about who can be in `update` at
all. `OneAtATime` is its condition: the driver has one request outstanding, as
Linux' does, or there is one vCPU.

- `StreamNotShared`, `FilledBuffersReturned`: `RngInv` says that at most one vCPU holds
  a chain (`OneServes`), because with one request outstanding the chain it holds
  is the only one the driver has given away (`OneOut`); that the id read again is
  therefore the one `next` took (`Progress`); and that what was returned and not
  reaped has been read into, in vain only if the stream has failed
  (`ReturnedFilled`). TLC shows both properties to fail
  without the condition.
- `RngInterruptNotLost` needs no condition: `EdgeInv` asks only that a used index
  ahead of the driver's has an edge, a high line or a vCPU about to raise it to
  account for it, whoever moved the index.
- `RngImplementsFifo`: the safety part of the refinement, under `OneAtATime`.

**Serial port** (`Uart_proofs`): `TypeCorrect`, `RegistersStayTrue`, `InterruptNotLost`,
`BytesInOrder` and `WrittenIsTransmitted` from one invariant: the FIFO counters and
LSR agree (`PortOK`), IIR is what `update_irq` makes of the causes and a stray
`tmp_iir` (`Named`), the line is low and the transmit FIFO empty between accesses,
what `put` was given is what was written, and `Order` has `RxInOrder` byte by byte,
position by position.

**Keyboard controller** (`Registers_proofs`): `TypeCorrect`, `AnswerStaysFresh` and `AckNotLost`
from an invariant on the buffer, which has at most one byte, the last answer,
whenever status announces it.

**virtio-mmio registers** (`Registers_proofs`): `RingsStayWhole`, `ThreadsKeepTheirQueue`,
`BoundStaysServed` and `FeaturesStayRecorded`, for any devices, queues, features,
rings and number of probes. Only its own driver writes to a device, so the
argument (`Good`) is about one device and its driver:

- `Place`: where the driver is, and that from the second access on the queue it
  works on is the selected one. `abort` writes to a queue that is not ready; `drop`
  only to queues the driver owns.
- `Whole`: a queue that is ready has the rings of one driver, and the one at work
  does not write to it. One that is not has exactly what the present driver has
  written before its next access (`Begun`), and nothing of an earlier one. That
  is needed because the addresses are or'ed: `RingsAreWhole` itself says nothing of
  a queue until it is ready, when it would be too late. It is inductive only
  because 0 written to QUEUE_READY sets `ready` too: a queue that its driver drops
  stays ready, so the next one does not or its addresses into those left there.
- `Owned`: the queues set up so far have the driver's own rings.
- `Recorded`: which halves of the features have been read and written, that the
  selector was right for each, and what the mask left of the words read.

`Queried` says that `q()` and `q(i)` give a thread the same queue every time, since
a device whose thread calls `q()` has no other.

**Shared lines** (`SharedLine_proofs`): `NeverLeftHigh`, `OnlyOverlapLoses` and, with a
single port, `LoneLosesNone`. The invariant is `Typing`, `Mutexes` (a port is in the
hands of one thread), `HighOnlyInPulse` and `Announced` (a cause without an edge
and without an overlap is about to be raised, or the handler has still to look
at its port).

**Program** (`Vmm_proofs`), for up to 46 vCPUs:

- `NothingDangles` and `MachineStaysWhole`: `LifeInv` relates the position in
  `Script` to the parts that are there, the threads that have been started or
  have ended and the flags that are set.
- `RamIsBacked`: for every size of memory above 1 MB that `create_memory` accepts
  and KVM does not refuse, from
  `AcceptedIsBacked`, a case distinction on the gap.
- `ImageStaysWhole`, for every image that fits. The areas of `layout.h` are apart
  (`FixedApart`) and below 1 MB (`FixedIsLow`), the segments above and apart from
  each other (`SegmentsApart`); `MpTableFits` bounds the number of vCPUs. A complete
  file never makes a read short, so every segment is loaded; once one is short,
  the stream has failed for all that follow.
- `DevicesStayWired`, from the disjointness of the windows on each bus, the place
  of the MMIO windows in the gap, and the pins of the routes.

Size and image do not change after the initial state, so the invariant of the
last three is that they stay what `Init` chose; the argument is in the lemmas.

Every invariant the passing runs check is the subject of a theorem. Only checked
by TLC: liveness, and with it the other half of the refinements (fairness is out
of the prover's reach). That some conditions are necessary is shown by TLC too:
`blk_small_ring` for the size of the ring, `blk_wrap` for the width of the indices.

## Not modelled

CPUID, MSRs, segment descriptors and the local APIC are given constant bits
before a vCPU runs; of what `Boot` places in memory the contents are left out.
The real-time clock is disconnected (`vm.h:144-170`). The identification
registers and configuration spaces of the virtio devices are constants, and
descriptor contents and addresses carry no control that the properties see.
Exceptions end the process. The flags that end the threads are plain `bool`s;
a compiler that read one once would keep its thread running, and Vmm assumes
that none does. Concurrent accesses to the keyboard controller are left to the
guest's lock. The KVM handles wrap an ioctl each.

## Plan

1. Net with slots reused while operations fail, if its state space can be cut;
   the theorems cover it already.
2. That Blk, Net and Rng may take the driver's set-up for one step: a refinement
   from Mmio with the rings in guest memory to `SetupQueue` of VirtioGuest.
