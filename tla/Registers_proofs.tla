--------------------------- MODULE Registers_proofs ---------------------------
(***************************************************************************)
(* Theorems about the two devices that are little more than their          *)
(* registers: the keyboard controller (I8042), for all sets of register    *)
(* values, and the virtio-mmio registers (Mmio), for any number of         *)
(* devices, queues, features and drivers that come and go.                 *)
(***************************************************************************)
EXTENDS I8042, Mmio, TLAPS

-----------------------------------------------------------------------------
(* The keyboard controller                                                 *)

(* What is left over is the answer to the last access that has one: every  *)
(* push follows a flush, so there is one byte at most, and status is       *)
(* cleared with the byte it announces.                                     *)
BufferInv ==
  /\ buffer \in {<<>>, <<answer>>}
  /\ "avail" \in status => buffer = <<answer>>

(* Between two accesses the line is low, so that each pulse is an edge.    *)
LineInv == irq \in Line /\ ~irq.level

IInv == TypeOK /\ BufferInv /\ LineInv /\ AckInterrupts

LEMMA InitInv == Init => IInv
<1> SUFFICES ASSUME Init PROVE IInv
  OBVIOUS
<1> USE DEF Init
<1>1. buffer \in Seq(Values \union {Ack}) /\ Len(buffer) <= 1
  OBVIOUS
<1>2. LineInv
  BY DEF LineInv, LowLine, Line
<1>3. TypeOK
  BY <1>1, <1>2, I8042Constants DEF TypeOK, LineInv, I8042Constants, StatusBits
<1>4. BufferInv /\ AckInterrupts
  BY DEF BufferInv, AckInterrupts
<1> QED
  BY <1>2, <1>3, <1>4 DEF IInv

(* The four uses of status and buffer.                                     *)
LEMMA PushAfterFlush ==
  ASSUME NEW val
  PROVE  push(flush(Port), val) = [status |-> {"avail"}, buffer |-> <<val>>]
BY I8042Constants DEF push, flush, Port, clear, I8042Constants

LEMMA PopEmpties ==
  ASSUME BufferInv
  PROVE  /\ pop(Port).buffer = <<>>
         /\ "avail" \notin pop(Port).status
         /\ pop(Port).status \subseteq status
<1>1. Port.buffer = buffer /\ Port.status = status
  BY DEF Port
<1>2. CASE buffer = <<>>
  <2>1. pop(Port) = Port /\ "avail" \notin status
    BY <1>1, <1>2 DEF pop, BufferInv
  <2> QED
    BY <1>1, <1>2, <2>1
<1>3. CASE buffer = <<answer>>
  <2>1. Len(buffer) = 1 /\ Tail(buffer) = <<>> /\ buffer # <<>>
    BY <1>3
  <2>2. pop(Port) = [buffer |-> Tail(buffer), status |-> {}]
    BY <1>1, <2>1 DEF pop, clear
  <2> QED
    BY <2>1, <2>2
<1> QED
  BY <1>2, <1>3 DEF BufferInv

(* A pulse on a line that is low leaves it low, with an edge to come.      *)
LEMMA PulsedLine ==
  ASSUME NEW l \in Line, ~l.level
  PROVE  LET s == merged(set_level(set_level(l, TRUE), FALSE))
         IN  s \in Line /\ ~s.level /\ s.events > 0
<1> DEFINE up == set_level(l, TRUE)
           down == set_level(up, FALSE)
<1>1. up \in Line /\ up.level /\ up.events > 0
  BY DEF Line, set_level
<1> HIDE DEF up
<1>2. down \in Line /\ ~down.level /\ down.events > 0
  BY <1>1 DEF Line, set_level
<1> HIDE DEF down
<1>3. merged(down) \in Line /\ ~merged(down).level /\ merged(down).events > 0
  BY <1>2 DEF merged, Line
<1> QED
  BY <1>3 DEF down, up

LEMMA Triggered ==
  ASSUME LineInv
  PROVE  /\ trigger_irq(irq) \in Line /\ ~trigger_irq(irq).level
         /\ control \in KbdInt => trigger_irq(irq).events > 0
BY PulsedLine DEF LineInv, trigger_irq

LEMMA ReadDataInv ==
  ASSUME IInv, ReadData, gpc' \in {gpc, "idle"}
  PROVE  IInv'
<1>1. buffer' = <<>> /\ "avail" \notin status' /\ status' \subseteq status
  BY PopEmpties DEF IInv, ReadData, SetPort
<1>2. irq' = irq
  BY <1>1 DEF ReadData
<1> QED
  BY <1>1, <1>2 DEF IInv, TypeOK, BufferInv, LineInv, AckInterrupts, ReadData, history

LEMMA NextInv == IInv /\ [Next]_vars => IInv'
<1> SUFFICES ASSUME IInv, [Next]_vars PROVE IInv'
  OBVIOUS
<1> USE DEF IInv, TypeOK, BufferInv, LineInv, AckInterrupts, SetPort
<1>1. CASE ReadRegister
  <2>1. PICK val \in {control, outp} :
          status' = {"avail"} /\ buffer' = <<val>> /\ answer' = val
    BY <1>1, PushAfterFlush DEF ReadRegister
  <2>2. /\ command' = command /\ control' = control /\ outp' = outp /\ irq' = irq
        /\ gpc' = gpc /\ param' = "none" /\ announced' = FALSE
    BY <1>1 DEF ReadRegister
  <2>3. val \in Values
    OBVIOUS
  <2>4. buffer' \in Seq(Values \union {Ack}) /\ Len(buffer') <= 1
    BY <2>1, <2>3
  <2>5. status' \subseteq StatusBits
    BY <2>1 DEF StatusBits
  <2>6. TypeOK'
    BY <2>1, <2>2, <2>3, <2>4, <2>5
  <2> QED
    BY <2>1, <2>2, <2>6
<1>2. CASE WriteCtrCommand
  BY <1>2 DEF WriteCtrCommand, flush, clear, Port, StatusBits
<1>3. CASE WriteOutpCommand
  BY <1>3 DEF WriteOutpCommand, StatusBits
<1>4. CASE ResetKbd
  BY <1>4 DEF ResetKbd
<1>5. CASE WriteParameter
  BY <1>5 DEF WriteParameter, clear
<1>6. CASE WriteKeyboard
  <2>1. status' = {"avail"} /\ buffer' = <<Ack>> /\ answer' = Ack
    BY <1>6, PushAfterFlush DEF WriteKeyboard
  <2>2. /\ irq' \in Line /\ ~irq'.level
        /\ announced' => irq'.events > 0
    BY <1>6, Triggered DEF WriteKeyboard
  <2>3. announced' \in BOOLEAN
    <3>1. announced' = (control \in KbdInt)
      BY <1>6 DEF WriteKeyboard
    <3>2. CASE control \in KbdInt
      BY <3>1, <3>2
    <3>3. CASE control \notin KbdInt
      BY <3>1, <3>3
    <3> QED
      BY <3>2, <3>3
  <2>4. /\ command' = command /\ control' = control /\ outp' = outp /\ gpc' = gpc
        /\ param' = "none"
    BY <1>6 DEF WriteKeyboard
  <2>6. buffer' \in Seq(Values \union {Ack}) /\ Len(buffer') <= 1
    BY <2>1
  <2>7. status' \subseteq StatusBits
    BY <2>1 DEF StatusBits
  <2>8. TypeOK'
    BY <2>1, <2>3, <2>2, <2>4, <2>6, <2>7
  <2> QED
    BY <2>1, <2>2, <2>8
<1>7. CASE GuestReadData
  BY <1>7, ReadDataInv DEF GuestReadData
<1>8. CASE HandlerEnter
  BY <1>8 DEF HandlerEnter, drain_events, history, Line
<1>9. CASE HandlerStatus
  BY <1>9 DEF HandlerStatus, device, history
<1>10. CASE HandlerData
  BY <1>10, ReadDataInv DEF HandlerData
<1>11. CASE UNCHANGED vars
  BY <1>11 DEF vars, device, history
<1> QED
  BY <1>1, <1>2, <1>3, <1>4, <1>5, <1>6, <1>7, <1>8, <1>9, <1>10, <1>11 DEF Next

LEMMA Invariance == Spec => []IInv
BY InitInv, NextInv, PTL DEF Spec

(* The registers and the handler are well typed, and the buffer holds one  *)
(* byte at most, so that BUF_SIZE is never reached (i8042.h:163).          *)
THEOREM TypeCorrect == Spec => []TypeOK
<1>1. IInv => TypeOK
  BY DEF IInv
<1> QED
  BY <1>1, Invariance, PTL

(* What a read returns while status announces a byte is the last answer,   *)
(* whatever is written in between (i8042.h:62-125).                        *)
THEOREM AnswerStaysFresh == Spec => []AnswerIsFresh
<1>1. IInv => AnswerIsFresh
  BY DEF IInv, BufferInv, AnswerIsFresh
<1> QED
  BY <1>1, Invariance, PTL

(* An acknowledgement that is announced and waits has an edge to come or   *)
(* the handler under way (i8042.h:121-124).                                *)
THEOREM AckNotLost == Spec => []AckInterrupts
<1>1. IInv => AckInterrupts
  BY DEF IInv
<1> QED
  BY <1>1, Invariance, PTL

-----------------------------------------------------------------------------
(* The virtio-mmio registers                                               *)
(*                                                                         *)
(* Nothing but its own driver writes to a device, so the argument is about *)
(* one device d at a time: D is its registers, r its driver, G the rings   *)
(* that were completed, F whether an allocation has failed.                *)

Address == SUBSET (0 .. 2 * Word - 1)
RingsType == [size : Nat, addr : [RingNames -> Address]]
QueueIds(d) == 0 .. queue_count[d] - 1
Has(d) == features[d] \union {VERSION_1}

DeviceType(d) ==
  [status : SUBSET {"DRIVER", "FEATURES_OK", "DRIVER_OK", "FAILED"},
   device_feature_sel : BOOLEAN, driver_feature_sel : BOOLEAN,
   driver_features : SUBSET Has(d), queue_index : 0 .. SetUp[d] - 1,
   queues : [QueueIds(d) -> [ready : BOOLEAN, rings : RingsType]]]

DriverType(d) ==
  [phase : Phases, at : 1 .. 11, queue : 0 .. SetUp[d] - 1, owned : 0 .. SetUp[d],
   seen : SUBSET Has(d), accepted : SUBSET Has(d),
   supported : SUBSET ((UNION Supported) \union {VERSION_1}),
   alloc : [0 .. SetUp[d] - 1 -> RingsType]]

Typing(d, D, r, G, F) ==
  /\ D \in DeviceType(d) /\ r \in DriverType(d)
  /\ G \in [QueueIds(d) -> RingsType] /\ F \in BOOLEAN

Steps(phase) ==
  IF phase = "features" THEN 11 ELSE IF phase = "queue" THEN 10 ELSE IF phase = "drop" THEN 2 ELSE 1

(* Where the driver is, and that the queue it works on is the selected one.*)
Place(D, r, F, n) ==
  /\ r.at <= Steps(r.phase)
  /\ r.phase = "features" => r.owned = 0
  /\ r.phase \in {"features", "queue"} => \A i \in 0 .. n - 1 : r.alloc[i] \in Rings
  /\ r.phase = "queue" => r.owned = r.queue /\ r.queue < n
  /\ r.phase = "queue" /\ r.at > 1 => D.queue_index = r.queue
  /\ r.phase \in {"ok", "bound", "reset"} => r.owned = n
  /\ r.phase = "abort" => F /\ ~D.queues[D.queue_index].ready
  /\ r.phase = "drop" => r.queue < r.owned
  /\ r.phase = "drop" /\ r.at > 1 => D.queue_index = r.queue

First(name) == IF name = "desc" THEN 4 ELSE IF name = "avail" THEN 6 ELSE 8

Low(address) == {b \in address : b < Word}

(* What the driver has written of its rings before its n-th access. *)
Begun(rings, n) ==
  [size |-> IF n > 3 THEN rings.size ELSE 0,
   addr |-> [name \in RingNames |->
     IF n > First(name) + 1 THEN rings.addr[name]
     ELSE IF n > First(name) THEN Low(rings.addr[name]) ELSE {}]]

InSetUp(r, i) == r.phase = "queue" /\ r.queue = i /\ r.at > 2

(* A queue that is ready has the rings of one driver; one that is not has  *)
(* what the present driver has written, and nothing of an earlier one.     *)
Whole(d, D, r, G, F) ==
  \A i \in QueueIds(d) :
    /\ D.queues[i].ready =>
         D.queues[i].rings = G[i] /\ (D.queues[i].rings.size = 0 => F) /\ ~InSetUp(r, i)
    /\ ~D.queues[i].ready =>
         G[i] = NoRings /\ D.queues[i].rings = IF InSetUp(r, i) THEN Begun(r.alloc[i], r.at) ELSE NoRings

Owned(D, r) ==
  \A i \in 0 .. r.owned - 1 : D.queues[i].ready /\ D.queues[i].rings = r.alloc[i]

High(set) == {b \in set : b >= Word}

Recorded(d, D, r) ==
  /\ r.phase = "features" =>
       /\ r.at <= 4 => r.seen = {}
       /\ r.at \in {5, 6} => r.seen = High(Offered(d))
       /\ r.at > 6 => r.accepted = r.supported \intersect Offered(d)
       /\ VERSION_1 \in r.supported
       /\ r.at = 4 => D.device_feature_sel
       /\ r.at = 6 => ~D.device_feature_sel
       /\ r.at = 8 => D.driver_feature_sel
       /\ r.at = 10 => ~D.driver_feature_sel
       /\ r.at > 4 => VERSION_1 \in r.seen
       /\ r.at > 6 => VERSION_1 \in r.accepted
       /\ r.at > 8 => High(r.accepted) \subseteq D.driver_features
       /\ r.at > 10 => r.accepted \subseteq D.driver_features
  /\ r.phase \in {"queue", "ok", "bound"} =>
       /\ r.accepted = r.supported \intersect Offered(d)
       /\ VERSION_1 \in r.accepted /\ r.accepted \subseteq D.driver_features

Good(d, D, r, G, F) ==
  /\ Typing(d, D, r, G, F) /\ Place(D, r, F, SetUp[d])
  /\ Whole(d, D, r, G, F) /\ Owned(D, r) /\ Recorded(d, D, r)

LEMMA Constants ==
  ASSUME NEW d \in Devices
  PROVE  /\ queue_count[d] \in Nat \ {0} /\ SetUp[d] \in 1 .. queue_count[d]
         /\ 0 .. SetUp[d] - 1 \subseteq QueueIds(d)
         /\ Has(d) \subseteq 0 .. 2 * Word - 1 /\ VERSION_1 \in Has(d)
         /\ features[d] \subseteq 0 .. Word - 1
         /\ Rings \subseteq RingsType /\ NoRings \in RingsType
<1>1. features[d] \subseteq 0 .. Word - 1
  BY MmioConstants DEF MmioConstants
<1>2. queue_count[d] \in Nat \ {0} /\ SetUp[d] \in 1 .. queue_count[d]
  BY MmioConstants DEF MmioConstants
<1>3. Rings \subseteq RingsType
  BY MmioConstants DEF MmioConstants, RingsType, Address
<1>4. NoRings \in RingsType
  BY DEF NoRings, RingsType, Address
<1>5. Has(d) \subseteq 0 .. 2 * Word - 1 /\ VERSION_1 \in Has(d)
  BY <1>1 DEF Has, VERSION_1, Word
<1> QED
  BY <1>1, <1>2, <1>3, <1>4, <1>5 DEF QueueIds

(* The accesses of a phase, by their number.                               *)
LEMMA FeatureAccess ==
  ASSUME NEW r, r.phase = "features"
  PROVE  /\ Len(Accesses(r)) = 11
         /\ r.at \in {1, 2, 11} => \E s \in SUBSET {"DRIVER", "FEATURES_OK"} : Current(r) = W("STATUS", s)
         /\ r.at = 3 => Current(r) = W("DEVICE_FEATURES_SEL", 1)
         /\ r.at = 5 => Current(r) = W("DEVICE_FEATURES_SEL", 0)
         /\ r.at \in {4, 6} => Current(r) = R("DEVICE_FEATURES")
         /\ r.at = 7 => Current(r) = W("DRIVER_FEATURES_SEL", 1)
         /\ r.at = 8 => Current(r) = W("DRIVER_FEATURES", Half(r.accepted, "HIGH"))
         /\ r.at = 9 => Current(r) = W("DRIVER_FEATURES_SEL", 0)
         /\ r.at = 10 => Current(r) = W("DRIVER_FEATURES", Half(r.accepted, "LOW"))
<1>1. Accesses(r) = NegotiateFeatures(r.accepted)
  BY DEF Accesses
<1> DEFINE h == Half(r.accepted, "HIGH")
           l == Half(r.accepted, "LOW")
<1>2. Accesses(r) =
        <<W("STATUS", {}), W("STATUS", {"DRIVER"}), W("DEVICE_FEATURES_SEL", 1), R("DEVICE_FEATURES"),
          W("DEVICE_FEATURES_SEL", 0), R("DEVICE_FEATURES"), W("DRIVER_FEATURES_SEL", 1),
          W("DRIVER_FEATURES", h), W("DRIVER_FEATURES_SEL", 0), W("DRIVER_FEATURES", l),
          W("STATUS", {"DRIVER", "FEATURES_OK"})>>
  BY <1>1 DEF NegotiateFeatures
<1> HIDE DEF h, l
<1>3. Len(Accesses(r)) = 11
  BY <1>2
<1>4. r.at \in {1, 2, 11} => \E s \in SUBSET {"DRIVER", "FEATURES_OK"} : Current(r) = W("STATUS", s)
  BY <1>2 DEF Current
<1>5. /\ r.at = 3 => Current(r) = W("DEVICE_FEATURES_SEL", 1)
      /\ r.at = 5 => Current(r) = W("DEVICE_FEATURES_SEL", 0)
      /\ r.at \in {4, 6} => Current(r) = R("DEVICE_FEATURES")
      /\ r.at = 7 => Current(r) = W("DRIVER_FEATURES_SEL", 1)
      /\ r.at = 8 => Current(r) = W("DRIVER_FEATURES", h)
      /\ r.at = 9 => Current(r) = W("DRIVER_FEATURES_SEL", 0)
      /\ r.at = 10 => Current(r) = W("DRIVER_FEATURES", l)
  BY <1>2 DEF Current
<1> QED
  BY <1>3, <1>4, <1>5 DEF h, l

LEMMA QueueAccess ==
  ASSUME NEW r, r.phase = "queue"
  PROVE  LET a == r.alloc[r.queue].addr
         IN  /\ Len(Accesses(r)) = 10
             /\ r.at = 1 => Current(r) = W("QUEUE_SEL", r.queue)
             /\ r.at = 2 => Current(r) = R("QUEUE_READY")
             /\ r.at = 3 => Current(r) = W("QUEUE_NUM", r.alloc[r.queue].size)
             /\ \A name \in RingNames :
                  /\ r.at = First(name) => Current(r) = W_half(name, "LOW", a[name])
                  /\ r.at = First(name) + 1 => Current(r) = W_half(name, "HIGH", a[name])
             /\ r.at = 10 => Current(r) = W("QUEUE_READY", 1)
<1> DEFINE x == r.alloc[r.queue]
<1>1. Accesses(r) = SetupQueue(r.queue, x)
  BY DEF Accesses
<1> HIDE DEF x
<1>2. Len(Accesses(r)) = 10
  BY <1>1 DEF SetupQueue
<1>3. /\ r.at = 1 => Current(r) = W("QUEUE_SEL", r.queue)
      /\ r.at = 2 => Current(r) = R("QUEUE_READY")
      /\ r.at = 3 => Current(r) = W("QUEUE_NUM", x.size)
      /\ r.at = 10 => Current(r) = W("QUEUE_READY", 1)
  BY <1>1 DEF SetupQueue, Current
<1>4. /\ r.at = 4 => Current(r) = W_half("desc", "LOW", x.addr["desc"])
      /\ r.at = 5 => Current(r) = W_half("desc", "HIGH", x.addr["desc"])
      /\ r.at = 6 => Current(r) = W_half("avail", "LOW", x.addr["avail"])
      /\ r.at = 7 => Current(r) = W_half("avail", "HIGH", x.addr["avail"])
      /\ r.at = 8 => Current(r) = W_half("used", "LOW", x.addr["used"])
      /\ r.at = 9 => Current(r) = W_half("used", "HIGH", x.addr["used"])
  BY <1>1 DEF SetupQueue, Current
<1>5. ASSUME NEW name \in RingNames
      PROVE  /\ r.at = First(name) => Current(r) = W_half(name, "LOW", x.addr[name])
             /\ r.at = First(name) + 1 => Current(r) = W_half(name, "HIGH", x.addr[name])
  BY <1>4 DEF RingNames, First
<1> QED
  BY <1>2, <1>3, <1>5 DEF x

LEMMA OtherAccess ==
  ASSUME NEW r, r.at \in 1 .. 11
  PROVE  /\ r.phase \in {"ok", "reset", "failed"} =>
              /\ Len(Accesses(r)) = 1
              /\ r.at = 1 => \E s \in SUBSET {"DRIVER", "FEATURES_OK", "DRIVER_OK", "FAILED"} : Current(r) = W("STATUS", s)
         /\ r.phase = "abort" =>
              /\ Len(Accesses(r)) = 1
              /\ r.at = 1 => Current(r) = W("QUEUE_READY", 0)
         /\ r.phase = "drop" =>
              /\ Len(Accesses(r)) = 2
              /\ r.at = 1 => Current(r) = W("QUEUE_SEL", r.queue)
              /\ r.at = 2 => Current(r) = W("QUEUE_READY", 0)
<1>1. CASE r.phase = "ok"
  BY <1>1 DEF Accesses, Current
<1>2. CASE r.phase = "reset"
  BY <1>2 DEF Accesses, Current
<1>3. CASE r.phase = "failed"
  BY <1>3 DEF Accesses, Current
<1>4. CASE r.phase = "abort"
  BY <1>4 DEF Accesses, Current
<1>5. CASE r.phase = "drop"
  BY <1>5 DEF Accesses, Current
<1> QED
  BY <1>1, <1>2, <1>3, <1>4, <1>5

LEMMA Entered ==
  ASSUME NEW d \in Devices, NEW r \in DriverType(d), NEW p \in Phases, NEW i \in 0 .. SetUp[d] - 1
  PROVE  LET s == Enter(r, p, i)
         IN  /\ s \in DriverType(d)
             /\ s.phase = p /\ s.at = 1 /\ s.queue = i
             /\ s.owned = r.owned /\ s.seen = r.seen /\ s.accepted = r.accepted
             /\ s.supported = r.supported /\ s.alloc = r.alloc
<1> DEFINE x == [r EXCEPT !.phase = p]
           y == [x EXCEPT !.at = 1]
           z == [y EXCEPT !.queue = i]
           Same(s) == /\ s.owned = r.owned /\ s.seen = r.seen /\ s.accepted = r.accepted
                      /\ s.supported = r.supported /\ s.alloc = r.alloc
<1>1. x \in DriverType(d) /\ x.phase = p /\ Same(x)
  BY DEF DriverType
<1> HIDE DEF x
<1>2. y \in DriverType(d) /\ y.phase = p /\ y.at = 1 /\ Same(y)
  BY <1>1 DEF DriverType
<1> HIDE DEF y
<1>3. z \in DriverType(d) /\ z.phase = p /\ z.at = 1 /\ z.queue = i /\ Same(z)
  BY <1>2 DEF DriverType
<1>4. Enter(r, p, i) = z
  BY DEF Enter, x, y
<1> HIDE DEF z
<1> QED
  BY <1>3, <1>4

(* A driver that drops its queues, from the i-th on. *)
LEMMA Dropped ==
  ASSUME NEW d \in Devices, NEW r \in DriverType(d), NEW i \in Nat
  PROVE  LET s == DropFrom(d, r, i)
         IN  /\ s \in DriverType(d) /\ s.at = 1
             /\ s.phase \in {"drop", "failed", "unbound"} /\ (s.phase = "drop" => s.queue < s.owned)
             /\ s.owned = r.owned /\ s.seen = r.seen /\ s.accepted = r.accepted
             /\ s.supported = r.supported /\ s.alloc = r.alloc
<1>1. r.owned \in 0 .. SetUp[d] /\ SetUp[d] \in Nat \ {0}
  BY Constants DEF DriverType
<1>2. CASE i < r.owned
  <2>1. DropFrom(d, r, i) = Enter(r, "drop", i) /\ i \in 0 .. SetUp[d] - 1 /\ "drop" \in Phases
    BY <1>1, <1>2 DEF DropFrom, Phases
  <2> QED
    BY <1>2, <2>1, Entered
<1>3. CASE ~(i < r.owned)
  <2>1. PICK p \in {"failed", "unbound"} : DropFrom(d, r, i) = Enter(r, p, 0)
    BY <1>3 DEF DropFrom
  <2>2. 0 \in 0 .. SetUp[d] - 1 /\ p \in Phases
    BY <1>1 DEF Phases
  <2> QED
    BY <2>1, <2>2, Entered
<1> QED
  BY <1>2, <1>3

(* What Place says of the driver alone. *)
Placed(r, n) ==
  /\ r.at <= Steps(r.phase)
  /\ r.phase = "features" => r.owned = 0
  /\ r.phase = "queue" => r.owned = r.queue
  /\ r.phase = "ok" => r.owned = n

LEMMA Proceeded ==
  ASSUME NEW d \in Devices, NEW r \in DriverType(d), Busy(r), Placed(r, SetUp[d])
  PROVE  LET s == Proceed(d, r)
         IN  /\ s \in DriverType(d)
             /\ s.seen = r.seen /\ s.accepted = r.accepted
             /\ s.supported = r.supported /\ s.alloc = r.alloc
             /\ r.at < Steps(r.phase) =>
                  s.phase = r.phase /\ s.at = r.at + 1 /\ s.queue = r.queue /\ s.owned = r.owned
             /\ ~(r.at < Steps(r.phase)) =>
                  /\ s.at = 1
                  /\ s.owned = IF r.phase = "queue" THEN r.queue + 1 ELSE r.owned
                  /\ r.phase = "features" => s.phase = "queue" /\ s.queue = 0
                  /\ r.phase = "queue" => \/ s.phase = "queue" /\ s.queue = r.queue + 1
                                          \/ s.phase = "ok" /\ s.owned = SetUp[d]
                  /\ r.phase = "ok" => s.phase = "bound"
                  /\ r.phase \in {"reset", "abort", "drop", "failed"} =>
                       s.phase \in {"drop", "failed", "unbound"} /\ (s.phase = "drop" => s.queue < s.owned)
<1> DEFINE s == Proceed(d, r)
<1>0. /\ SetUp[d] \in Nat \ {0} /\ 0 \in 0 .. SetUp[d] - 1
      /\ r.at \in 1 .. 11 /\ r.queue \in 0 .. SetUp[d] - 1 /\ r.owned \in 0 .. SetUp[d]
      /\ r.phase \in Phases \ {"unbound", "bound"}
  BY Constants DEF DriverType, Busy
<1>1. Len(Accesses(r)) = Steps(r.phase)
  BY <1>0, FeatureAccess, QueueAccess, OtherAccess DEF Phases, Steps
<1>2. CASE r.at < Steps(r.phase)
  <2>1. s = [r EXCEPT !.at = r.at + 1]
    BY <1>1, <1>2 DEF Proceed
  <2>2. r.at + 1 \in 1 .. 11
    BY <1>0, <1>2 DEF Steps
  <2> HIDE DEF s
  <2>3. s \in DriverType(d)
    BY <2>1, <2>2 DEF DriverType
  <2>4. /\ s.seen = r.seen /\ s.accepted = r.accepted /\ s.supported = r.supported /\ s.alloc = r.alloc
        /\ s.phase = r.phase /\ s.at = r.at + 1 /\ s.queue = r.queue /\ s.owned = r.owned
    BY <2>1 DEF DriverType
  <2> QED
    BY <1>2, <2>3, <2>4 DEF s
<1>3. CASE ~(r.at < Steps(r.phase))
  <2>1. s = NextPhase(d, r)
    BY <1>1, <1>3 DEF Proceed
  <2> HIDE DEF s
  <2>2. CASE r.phase = "features"
    <3>1. s = Enter(r, "queue", 0) /\ "queue" \in Phases
      BY <1>0, <2>1, <2>2 DEF NextPhase, SetUpFrom, Phases
    <3> QED
      BY <1>0, <1>3, <2>2, <3>1, Entered DEF s
  <2>3. CASE r.phase = "queue"
    <3> DEFINE x == [r EXCEPT !.owned = r.queue + 1]
    <3>1. /\ x \in DriverType(d) /\ x.owned = r.queue + 1 /\ x.seen = r.seen
          /\ x.accepted = r.accepted /\ x.supported = r.supported /\ x.alloc = r.alloc
      <4>1. r.queue + 1 \in 0 .. SetUp[d]
        BY <1>0
      <4> QED
        BY <4>1 DEF DriverType
    <3>2. s = SetUpFrom(d, x, r.queue + 1)
      BY <2>1, <2>3 DEF NextPhase
    <3> HIDE DEF x
    <3>3. CASE r.queue + 1 < SetUp[d]
      <4>1. s = Enter(x, "queue", r.queue + 1) /\ r.queue + 1 \in 0 .. SetUp[d] - 1 /\ "queue" \in Phases
        BY <1>0, <3>2, <3>3 DEF SetUpFrom, Phases
      <4>2. /\ s \in DriverType(d) /\ s.phase = "queue" /\ s.at = 1 /\ s.queue = r.queue + 1
            /\ s.owned = x.owned /\ s.seen = x.seen /\ s.accepted = x.accepted
            /\ s.supported = x.supported /\ s.alloc = x.alloc
        BY <3>1, <4>1, Entered
      <4> QED
        BY <1>3, <2>3, <3>1, <4>2 DEF s
    <3>4. CASE ~(r.queue + 1 < SetUp[d])
      <4>1. s = Enter(x, "ok", 0) /\ r.queue + 1 = SetUp[d] /\ "ok" \in Phases
        BY <1>0, <3>2, <3>4 DEF SetUpFrom, Phases
      <4>2. /\ s \in DriverType(d) /\ s.phase = "ok" /\ s.at = 1
            /\ s.owned = x.owned /\ s.seen = x.seen /\ s.accepted = x.accepted
            /\ s.supported = x.supported /\ s.alloc = x.alloc
        BY <1>0, <3>1, <4>1, Entered
      <4> QED
        BY <1>3, <2>3, <3>1, <4>1, <4>2 DEF s
    <3> QED
      BY <3>3, <3>4
  <2>4. CASE r.phase = "ok"
    <3>1. s = Enter(r, "bound", 0) /\ "bound" \in Phases
      BY <2>1, <2>4 DEF NextPhase, Phases
    <3> QED
      BY <1>0, <1>3, <2>4, <3>1, Entered DEF s
  <2>5. CASE r.phase \in {"reset", "abort", "drop"}
    <3>1. \E i \in Nat : s = DropFrom(d, r, i)
      BY <1>0, <2>1, <2>5 DEF NextPhase
    <3> QED
      BY <1>3, <2>5, <3>1, Dropped DEF s
  <2>6. CASE r.phase = "failed"
    <3>1. s = Enter(r, "unbound", 0) /\ "unbound" \in Phases
      BY <2>1, <2>6 DEF NextPhase, Phases
    <3> QED
      BY <1>0, <1>3, <2>6, <3>1, Entered DEF s
  <2> QED
    BY <1>0, <2>2, <2>3, <2>4, <2>5, <2>6 DEF Phases
<1> QED
  BY <1>2, <1>3

-----------------------------------------------------------------------------
(* What a write does to the registers                                      *)

SameSelectors(D, E) ==
  E.device_feature_sel = D.device_feature_sel /\ E.driver_feature_sel = D.driver_feature_sel

SameButQueues(D, E) ==
  SameSelectors(D, E) /\ E.queue_index = D.queue_index /\ E.driver_features = D.driver_features

Readdressed(queue, name, address) == [queue EXCEPT !.rings.addr[name] = address]

LEMMA WriteIs ==
  ASSUME NEW D, NEW a
  PROVE  LET i == D.queue_index
             x == D.queues[i]
             Queue(y) == [D EXCEPT !.queues = [D.queues EXCEPT ![i] = y]]
         IN  /\ a.reg = "STATUS" => write(D, a) = [D EXCEPT !.status = a.value]
             /\ a.reg = "DEVICE_FEATURES_SEL" => write(D, a) = [D EXCEPT !.device_feature_sel = sel(a.value)]
             /\ a.reg = "DRIVER_FEATURES_SEL" => write(D, a) = [D EXCEPT !.driver_feature_sel = sel(a.value)]
             /\ a.reg = "DRIVER_FEATURES" => write(D, a) = or_features(D, a.value)
             /\ a.reg = "QUEUE_SEL" => write(D, a) = [D EXCEPT !.queue_index = a.value]
             /\ a.reg = "QUEUE_NUM" => write(D, a) = Queue([x EXCEPT !.rings.size = a.value])
             /\ a.reg = "QUEUE_READY" => write(D, a) = Queue(set_ready(x, a.value))
             /\ a.reg \in RingNames =>
                  write(D, a) = Queue(Readdressed(x, a.reg, or_word(x.rings.addr[a.reg], a.half, a.value)))
<1>1. q(D, Selected) = D.queue_index
  BY DEF q
<1> DEFINE i == D.queue_index
           x == D.queues[i]
           Queue(y) == [D EXCEPT !.queues = [D.queues EXCEPT ![i] = y]]
<1>2. CASE a.reg \in RingNames
  <2>1. write(D, a) = Queue(Readdressed(x, a.reg, or_word(x.rings.addr[a.reg], a.half, a.value)))
    BY <1>1, <1>2 DEF write, RingNames, Readdressed
  <2>2. a.reg \in {"desc", "avail", "used"}
    BY <1>2 DEF RingNames
  <2> QED
    BY <2>1, <2>2
<1>3. CASE a.reg = "QUEUE_NUM"
  BY <1>1, <1>3 DEF write, RingNames
<1>4. CASE a.reg = "QUEUE_READY"
  BY <1>1, <1>4 DEF write, RingNames
<1>5. CASE a.reg = "STATUS"
  BY <1>5 DEF write, RingNames
<1>6. CASE a.reg = "DEVICE_FEATURES_SEL"
  BY <1>6 DEF write, RingNames
<1>7. CASE a.reg = "DRIVER_FEATURES_SEL"
  BY <1>7 DEF write, RingNames
<1>8. CASE a.reg = "DRIVER_FEATURES"
  BY <1>8 DEF write, RingNames
<1>9. CASE a.reg = "QUEUE_SEL"
  BY <1>9 DEF write, RingNames
<1> QED
  BY ONLY <1>2, <1>3, <1>4, <1>5, <1>6, <1>7, <1>8, <1>9

LEMMA WriteStatus ==
  ASSUME NEW d \in Devices, NEW D \in DeviceType(d), NEW a, a.reg = "STATUS",
         a.value \in SUBSET {"DRIVER", "FEATURES_OK", "DRIVER_OK", "FAILED"}
  PROVE  LET E == write(D, a)
         IN  E \in DeviceType(d) /\ SameButQueues(D, E) /\ E.queues = D.queues
<1>1. write(D, a) = [D EXCEPT !.status = a.value]
  BY WriteIs
<1> QED
  BY <1>1 DEF DeviceType, SameButQueues, SameSelectors

LEMMA WriteSelector ==
  ASSUME NEW d \in Devices, NEW D \in DeviceType(d), NEW a,
         a.reg \in {"DEVICE_FEATURES_SEL", "DRIVER_FEATURES_SEL"}
  PROVE  LET E == write(D, a)
         IN  /\ E \in DeviceType(d) /\ E.queues = D.queues /\ E.queue_index = D.queue_index
             /\ E.driver_features = D.driver_features
             /\ a.reg = "DEVICE_FEATURES_SEL" => (E.device_feature_sel <=> a.value = 1)
             /\ a.reg = "DRIVER_FEATURES_SEL" => (E.driver_feature_sel <=> a.value = 1)
<1> DEFINE b == sel(a.value)
<1>1. b \in BOOLEAN /\ b = (a.value = 1)
  BY DEF sel
<1>2. a.reg = "DEVICE_FEATURES_SEL" => write(D, a) = [D EXCEPT !.device_feature_sel = b]
  BY WriteIs
<1>3. a.reg = "DRIVER_FEATURES_SEL" => write(D, a) = [D EXCEPT !.driver_feature_sel = b]
  BY WriteIs
<1> HIDE DEF b
<1> QED
  BY <1>1, <1>2, <1>3 DEF DeviceType

LEMMA WriteFeatures ==
  ASSUME NEW d \in Devices, NEW D \in DeviceType(d), NEW a, a.reg = "DRIVER_FEATURES",
         {b + shift(D.driver_feature_sel) : b \in a.value} \subseteq Has(d)
  PROVE  LET E == write(D, a)
         IN  /\ E \in DeviceType(d) /\ E.queues = D.queues /\ E.queue_index = D.queue_index
             /\ E.driver_features = D.driver_features \union {b + shift(D.driver_feature_sel) : b \in a.value}
<1> DEFINE new == {b + shift(D.driver_feature_sel) : b \in a.value}
<1>1. write(D, a) = or_features(D, a.value)
  BY WriteIs
<1>2. or_features(D, a.value) = [D EXCEPT !.driver_features = @ \union new]
  BY DEF or_features
<1> HIDE DEF new
<1>3. D.driver_features \union new \in SUBSET Has(d)
  BY DEF DeviceType, new
<1>4. LET E == [D EXCEPT !.driver_features = @ \union new]
      IN  /\ E \in DeviceType(d) /\ E.queues = D.queues /\ E.queue_index = D.queue_index
          /\ E.driver_features = D.driver_features \union new
  BY <1>3 DEF DeviceType
<1> QED
  BY <1>1, <1>2, <1>4 DEF new

LEMMA WriteQueueSel ==
  ASSUME NEW d \in Devices, NEW D \in DeviceType(d), NEW a, a.reg = "QUEUE_SEL",
         a.value \in 0 .. SetUp[d] - 1
  PROVE  LET E == write(D, a)
         IN  /\ E \in DeviceType(d) /\ SameSelectors(D, E) /\ E.queues = D.queues
             /\ E.queue_index = a.value /\ E.driver_features = D.driver_features
<1>1. write(D, a) = [D EXCEPT !.queue_index = a.value]
  BY WriteIs
<1> QED
  BY <1>1 DEF DeviceType, SameSelectors

(* Only the selected queue changes. *)
QueueWritten(d, D, E, ready, rings) ==
  /\ E \in DeviceType(d) /\ SameButQueues(D, E)
  /\ E.queues[D.queue_index] = [ready |-> ready, rings |-> rings]
  /\ \A j \in QueueIds(d) : j # D.queue_index => E.queues[j] = D.queues[j]

LEMMA QueueTyped ==
  ASSUME NEW d \in Devices, NEW D \in DeviceType(d)
  PROVE  LET x == D.queues[D.queue_index]
         IN  /\ D.queue_index \in QueueIds(d)
             /\ x = [ready |-> x.ready, rings |-> x.rings]
             /\ x.ready \in BOOLEAN /\ x.rings \in RingsType
             /\ x.rings.addr \in [RingNames -> Address]
<1>1. D.queue_index \in QueueIds(d) /\ D.queues \in [QueueIds(d) -> [ready : BOOLEAN, rings : RingsType]]
  BY Constants DEF DeviceType
<1>2. D.queues[D.queue_index] \in [ready : BOOLEAN, rings : RingsType]
  BY <1>1
<1> QED
  BY <1>1, <1>2 DEF RingsType

LEMMA ReplaceQueue ==
  ASSUME NEW d \in Devices, NEW D \in DeviceType(d), NEW ready \in BOOLEAN, NEW rings \in RingsType,
         NEW E, E = [D EXCEPT !.queues = [D.queues EXCEPT ![D.queue_index] = [ready |-> ready, rings |-> rings]]]
  PROVE  QueueWritten(d, D, E, ready, rings)
<1> DEFINE i == D.queue_index
           QueueType == [ready : BOOLEAN, rings : RingsType]
           x == [ready |-> ready, rings |-> rings]
           qs == [D.queues EXCEPT ![i] = x]
<1>1. i \in QueueIds(d) /\ D.queues \in [QueueIds(d) -> QueueType]
  BY Constants DEF DeviceType
<1>2. x \in QueueType
  OBVIOUS
<1> HIDE DEF x, QueueType
<1>3. qs \in [QueueIds(d) -> QueueType] /\ qs[i] = x /\ \A j \in QueueIds(d) : j # i => qs[j] = D.queues[j]
  BY <1>1, <1>2
<1>4. E = [D EXCEPT !.queues = qs]
  BY DEF x
<1> HIDE DEF qs
<1>5. E \in DeviceType(d) /\ SameButQueues(D, E) /\ E.queues = qs
  BY <1>3, <1>4 DEF DeviceType, SameButQueues, SameSelectors, QueueType
<1> QED
  BY <1>3, <1>5 DEF QueueWritten, x

LEMMA WriteQueue ==
  ASSUME NEW d \in Devices, NEW D \in DeviceType(d), NEW a
  PROVE  LET old == D.queues[D.queue_index]
         IN  /\ a.reg = "QUEUE_READY" => QueueWritten(d, D, write(D, a), TRUE, old.rings)
             /\ a.reg = "QUEUE_NUM" /\ a.value \in Nat =>
                  QueueWritten(d, D, write(D, a), old.ready, [old.rings EXCEPT !.size = a.value])
<1> DEFINE i == D.queue_index
           old == D.queues[i]
<1>1. /\ old = [ready |-> old.ready, rings |-> old.rings]
      /\ old.ready \in BOOLEAN /\ old.rings \in RingsType
  BY QueueTyped
<1>2. ASSUME a.reg = "QUEUE_READY"
      PROVE  QueueWritten(d, D, write(D, a), TRUE, old.rings)
  <2>1. write(D, a) = [D EXCEPT !.queues = [D.queues EXCEPT ![i] = [old EXCEPT !.ready = TRUE]]]
    BY <1>2, WriteIs DEF set_ready
  <2>2. ASSUME NEW b PROVE [old EXCEPT !.ready = b] = [ready |-> b, rings |-> old.rings]
    BY <1>1
  <2>3. [old EXCEPT !.ready = TRUE] = [ready |-> TRUE, rings |-> old.rings]
    BY <2>2
  <2> QED
    BY <1>1, <2>1, <2>3, ReplaceQueue
<1>3. ASSUME a.reg = "QUEUE_NUM", a.value \in Nat
      PROVE  QueueWritten(d, D, write(D, a), old.ready, [old.rings EXCEPT !.size = a.value])
  <2> DEFINE rings == [old.rings EXCEPT !.size = a.value]
  <2>1. write(D, a) = [D EXCEPT !.queues = [D.queues EXCEPT ![i] = [old EXCEPT !.rings.size = a.value]]]
    BY <1>3, WriteIs
  <2>2. rings \in RingsType
    BY <1>1, <1>3 DEF RingsType
  <2>3. [old EXCEPT !.rings.size = a.value] = [ready |-> old.ready, rings |-> rings]
    BY <1>1
  <2> HIDE DEF rings
  <2>4. QueueWritten(d, D, write(D, a), old.ready, rings)
    BY <1>1, <2>1, <2>2, <2>3, ReplaceQueue
  <2> QED
    BY <2>4 DEF rings
<1> QED
  BY <1>2, <1>3

Rewritten(rings, name, address) ==
  [size |-> rings.size, addr |-> [rings.addr EXCEPT ![name] = address]]

LEMMA AddressReplaced ==
  ASSUME NEW old \in [ready : BOOLEAN, rings : RingsType], NEW name, NEW new
  PROVE  Readdressed(old, name, new) = [ready |-> old.ready, rings |-> Rewritten(old.rings, name, new)]
<1> DEFINE p == old.ready
           size == old.rings.size
           f == old.rings.addr
<1>1. old = [ready |-> p, rings |-> [size |-> size, addr |-> f]]
  BY DEF RingsType
<1> HIDE DEF p, size, f
<1>2. Readdressed(old, name, new) = [ready |-> p, rings |-> [size |-> size, addr |-> [f EXCEPT ![name] = new]]]
  BY <1>1 DEF Readdressed
<1> QED
  BY <1>2 DEF p, size, f, Rewritten

LEMMA WriteAddress ==
  ASSUME NEW d \in Devices, NEW D \in DeviceType(d), NEW a, NEW x \in Address,
         NEW name \in RingNames, a.reg = name, NEW half, a.half = half, a.value = Half(x, half),
         NEW old, old = D.queues[D.queue_index], NEW new, new = or_word(old.rings.addr[name], half, a.value)
  PROVE  QueueWritten(d, D, write(D, a), old.ready, Rewritten(old.rings, name, new))
<1> DEFINE i == D.queue_index
           rings == Rewritten(old.rings, name, new)
<1>1. /\ old = [ready |-> old.ready, rings |-> old.rings]
      /\ old.ready \in BOOLEAN /\ old.rings \in RingsType
      /\ old.rings.addr \in [RingNames -> Address]
  BY QueueTyped
<1>2. new \in Address
  <2>1. {b + shift(half = "HIGH") : b \in a.value} \subseteq x
    BY DEF Half
  <2>2. old.rings.addr[name] \in Address
    BY <1>1
  <2>3. new = old.rings.addr[name] \union {b + shift(half = "HIGH") : b \in a.value}
    BY DEF or_word
  <2> QED
    BY <2>1, <2>2, <2>3 DEF Address
<1>3. Readdressed(old, name, new) = [ready |-> old.ready, rings |-> rings]
  <2>1. old \in [ready : BOOLEAN, rings : RingsType]
    BY <1>1
  <2> QED
    BY <2>1, AddressReplaced
<1>4. rings \in RingsType
  <2>1. old.rings.size \in Nat /\ [old.rings.addr EXCEPT ![name] = new] \in [RingNames -> Address]
    BY <1>1, <1>2 DEF RingsType
  <2> QED
    BY <2>1 DEF RingsType, Rewritten
<1> HIDE DEF rings
<1>5. write(D, a) = [D EXCEPT !.queues = [D.queues EXCEPT ![i] = [ready |-> old.ready, rings |-> rings]]]
  <2>1. a.reg \in RingNames
    OBVIOUS
  <2> DEFINE y == Readdressed(D.queues[D.queue_index], a.reg,
                    or_word(D.queues[D.queue_index].rings.addr[a.reg], a.half, a.value))
  <2>2. write(D, a) = [D EXCEPT !.queues = [D.queues EXCEPT ![D.queue_index] = y]]
    BY <2>1, WriteIs
  <2>3. y = Readdressed(old, name, new)
    OBVIOUS
  <2> HIDE DEF y
  <2> QED
    BY <1>3, <2>2, <2>3
<1>6. QueueWritten(d, D, write(D, a), old.ready, rings)
  BY <1>1, <1>4, <1>5, ReplaceQueue
<1> QED
  BY <1>6 DEF rings

-----------------------------------------------------------------------------
(* One access of the driver                                                *)

LEMMA PlaceKept ==
  ASSUME NEW d \in Devices, NEW D, NEW E, NEW F, NEW r \in DriverType(d), Place(D, r, F, SetUp[d]), Busy(r),
         r.phase \in {"queue", "drop"} /\ r.at < Steps(r.phase) => E.queue_index = r.queue
  PROVE  Place(E, Proceed(d, r), F, SetUp[d])
<1> DEFINE s == Proceed(d, r)
<1>0. Placed(r, SetUp[d])
  BY DEF Place, Placed
<1>1. /\ r.phase \in Phases \ {"unbound", "bound"} /\ r.at \in 1 .. 11
      /\ r.queue \in 0 .. SetUp[d] - 1 /\ r.owned \in 0 .. SetUp[d] /\ SetUp[d] \in Nat \ {0}
  BY Constants DEF Busy, DriverType
<1>2. CASE r.at < Steps(r.phase)
  <2>1. s.phase = r.phase /\ s.at = r.at + 1 /\ s.queue = r.queue /\ s.owned = r.owned /\ s.alloc = r.alloc
    BY <1>0, <1>2, Proceeded
  <2> HIDE DEF s
  <2>2. s.at <= Steps(s.phase) /\ s.phase \notin {"ok", "bound", "reset", "abort"}
    BY <1>1, <1>2, <2>1 DEF Steps
  <2>3. Place(E, s, F, SetUp[d])
    BY <1>2, <2>1, <2>2 DEF Place
  <2> QED
    BY <2>3 DEF s
<1>3. CASE ~(r.at < Steps(r.phase))
  <2>1. /\ s \in DriverType(d) /\ s.alloc = r.alloc /\ s.at = 1
        /\ s.owned = IF r.phase = "queue" THEN r.queue + 1 ELSE r.owned
        /\ r.phase = "features" => s.phase = "queue" /\ s.queue = 0
        /\ r.phase = "queue" => \/ s.phase = "queue" /\ s.queue = r.queue + 1
                                \/ s.phase = "ok" /\ s.owned = SetUp[d]
        /\ r.phase = "ok" => s.phase = "bound"
        /\ r.phase \in {"reset", "abort", "drop", "failed"} =>
             s.phase \in {"drop", "failed", "unbound"} /\ (s.phase = "drop" => s.queue < s.owned)
    BY <1>0, <1>3, Proceeded
  <2>2. s.queue \in 0 .. SetUp[d] - 1
    BY <2>1 DEF DriverType
  <2> HIDE DEF s
  <2>3. ASSUME r.phase = "features" PROVE Place(E, s, F, SetUp[d])
    BY <1>1, <2>1, <2>2, <2>3 DEF Place, Steps
  <2>4. ASSUME r.phase = "queue" PROVE Place(E, s, F, SetUp[d])
    BY <1>1, <2>1, <2>2, <2>4 DEF Place, Steps
  <2>5. ASSUME r.phase = "ok" PROVE Place(E, s, F, SetUp[d])
    BY <1>1, <2>1, <2>2, <2>5 DEF Place, Steps
  <2>6. ASSUME r.phase \in {"reset", "abort", "drop", "failed"} PROVE Place(E, s, F, SetUp[d])
    BY <1>1, <2>1, <2>2, <2>6 DEF Place, Steps
  <2> QED
    BY <1>1, <2>3, <2>4, <2>5, <2>6 DEF Phases, s
<1> QED
  BY <1>2, <1>3

LEMMA RecordedKept ==
  ASSUME NEW d \in Devices, NEW D, NEW E, NEW F, NEW r \in DriverType(d), Place(D, r, F, SetUp[d]), Busy(r),
         Recorded(d, D, r), r.phase # "features", E.driver_features = D.driver_features
  PROVE  Recorded(d, E, Proceed(d, r))
<1> DEFINE s == Proceed(d, r)
<1>1. r.phase \in Phases \ {"unbound", "bound", "features"}
  BY DEF Busy, DriverType
<1>2. Placed(r, SetUp[d])
  BY DEF Place, Placed
<1>3. s.accepted = r.accepted /\ s.supported = r.supported
  BY <1>2, Proceeded
<1>4. s.phase # "features" /\ (s.phase \in {"queue", "ok", "bound"} => r.phase \in {"queue", "ok"})
  <2>1. CASE r.at < Steps(r.phase)
    BY <1>1, <1>2, <2>1, Proceeded DEF Phases
  <2>2. CASE ~(r.at < Steps(r.phase))
    BY <1>1, <1>2, <2>2, Proceeded DEF Phases
  <2> QED
    BY <2>1, <2>2
<1> HIDE DEF s
<1>5. Recorded(d, E, s)
  BY <1>3, <1>4 DEF Recorded
<1> QED
  BY <1>5 DEF s

(* An access that touches no queue. *)
LEMMA QuietAccess ==
  ASSUME NEW d \in Devices, NEW D, NEW r, NEW G, NEW F, Busy(r),
         Typing(d, D, r, G, F), Place(D, r, F, SetUp[d]), Whole(d, D, r, G, F), Owned(D, r),
         NEW E \in DeviceType(d), E.queues = D.queues,
         r.phase = "queue" => r.at = 1,
         r.phase \in {"queue", "drop"} /\ r.at < Steps(r.phase) => E.queue_index = r.queue,
         Recorded(d, E, Proceed(d, r))
  PROVE  Good(d, E, Proceed(d, r), G, F)
<1> DEFINE s == Proceed(d, r)
<1> USE DEF Good
<1>1. /\ r \in DriverType(d) /\ Typing(d, D, r, G, F) /\ Whole(d, D, r, G, F) /\ Owned(D, r)
      /\ Place(D, r, F, SetUp[d]) /\ Placed(r, SetUp[d])
  BY DEF Typing, Place, Placed
<1>2. Place(E, s, F, SetUp[d])
  BY <1>1, PlaceKept
<1>3. s \in DriverType(d) /\ s.alloc = r.alloc
  BY <1>1, Proceeded
<1>4. Typing(d, E, s, G, F)
  BY <1>1, <1>3 DEF Typing
<1>5. s.owned = r.owned /\ (s.phase = "queue" => s.at <= 2)
  <2>1. r.phase \in Phases \ {"unbound", "bound"}
    BY <1>1 DEF Busy, DriverType
  <2>2. CASE r.at < Steps(r.phase)
    BY <1>1, <2>1, <2>2, Proceeded
  <2>3. CASE ~(r.at < Steps(r.phase))
    BY <1>1, <2>1, <2>3, Proceeded DEF Steps
  <2> QED
    BY <2>2, <2>3
<1>6. Recorded(d, E, s)
  OBVIOUS
<1> HIDE DEF s
<1>7. \A i \in QueueIds(d) : ~InSetUp(r, i) /\ ~InSetUp(s, i)
  BY <1>5, <1>3 DEF InSetUp, DriverType
<1>8. Whole(d, E, s, G, F)
  BY <1>1, <1>7 DEF Whole
<1>9. Owned(E, s)
  BY <1>1, <1>3, <1>5 DEF Owned
<1>10. Good(d, E, s, G, F)
  BY <1>2, <1>4, <1>6, <1>8, <1>9
<1> QED
  BY <1>10 DEF s

LEMMA Halves ==
  ASSUME NEW S, S \subseteq 0 .. 2 * Word - 1
  PROVE  /\ {b + shift(TRUE) : b \in Half(S, "HIGH")} = High(S)
         /\ {b + shift(FALSE) : b \in Half(S, "LOW")} = Low(S)
<1>1. shift(TRUE) = Word /\ shift(FALSE) = 0 /\ Word = 32
  BY DEF shift, Word
<1>2. shift("HIGH" = "HIGH") = Word /\ shift("LOW" = "HIGH") = 0
  BY DEF shift
<1>3. Half(S, "HIGH") = {b \in 0 .. 31 : b + 32 \in S}
  BY <1>1, <1>2 DEF Half
<1>4. Half(S, "LOW") = {b \in 0 .. 31 : b \in S}
  BY <1>1, <1>2 DEF Half
<1>5. {b + 32 : b \in Half(S, "HIGH")} = High(S)
  <2>1. ASSUME NEW x \in High(S) PROVE x \in {b + 32 : b \in Half(S, "HIGH")}
    <3>1. x \in 32 .. 63 /\ x \in S
      BY <1>1 DEF High
    <3>2. x - 32 \in Half(S, "HIGH") /\ x = (x - 32) + 32
      BY <1>3, <3>1
    <3> QED
      BY <3>2
  <2>2. ASSUME NEW b \in Half(S, "HIGH") PROVE b + 32 \in High(S)
    BY <1>1, <1>3 DEF High
  <2> QED
    BY <2>1, <2>2
<1>6. {b + 0 : b \in Half(S, "LOW")} = Low(S)
  <2>1. ASSUME NEW x \in Low(S) PROVE x \in {b + 0 : b \in Half(S, "LOW")}
    <3>1. x \in Half(S, "LOW") /\ x = x + 0
      BY <1>1, <1>4 DEF Low
    <3> QED
      BY <3>1
  <2>2. ASSUME NEW b \in Half(S, "LOW") PROVE b + 0 \in Low(S)
    BY <1>1, <1>4 DEF Low
  <2> QED
    BY <2>1, <2>2
<1> QED
  BY <1>1, <1>5, <1>6

(* An access to the status register, or to one of the selectors or feature *)
(* words: nothing but the features moves.                                  *)
LEMMA FeaturesWritten ==
  ASSUME NEW d \in Devices, NEW D, NEW r, NEW G, NEW F, Good(d, D, r, G, F),
         r.phase = "features", r.at \notin {4, 6}
  PROVE  Good(d, write(D, Current(r)), Proceed(d, r), G, F) /\ Current(r).reg # "QUEUE_READY"
<1> DEFINE a == Current(r)
           E == write(D, a)
           s == Proceed(d, r)
<1>1. /\ D \in DeviceType(d) /\ r \in DriverType(d) /\ Placed(r, SetUp[d]) /\ Busy(r)
      /\ Recorded(d, D, r) /\ r.at \in 1 .. 11
  BY DEF Good, Typing, Place, Placed, DriverType, Busy
<1>2. /\ s.accepted = r.accepted /\ s.seen = r.seen /\ s.supported = r.supported
      /\ r.at < 11 => s.phase = "features" /\ s.at = r.at + 1
      /\ r.at = 11 => s.phase = "queue"
  BY <1>1, Proceeded DEF Steps
<1>3. r.accepted \subseteq Has(d) /\ r.accepted \subseteq 0 .. 2 * Word - 1 /\ VERSION_1 \in Nat
  BY <1>1, Constants DEF DriverType, VERSION_1
<1>4. D.driver_feature_sel \in BOOLEAN /\ D.device_feature_sel \in BOOLEAN /\ D.driver_features \subseteq Has(d)
  BY <1>1 DEF DeviceType
<1>5. /\ r.at \in {1, 2, 11} => a.reg = "STATUS" /\ a.value \in SUBSET {"DRIVER", "FEATURES_OK"}
      /\ r.at = 3 => a.reg = "DEVICE_FEATURES_SEL" /\ a.value = 1
      /\ r.at = 5 => a.reg = "DEVICE_FEATURES_SEL" /\ a.value = 0
      /\ r.at = 7 => a.reg = "DRIVER_FEATURES_SEL" /\ a.value = 1
      /\ r.at = 9 => a.reg = "DRIVER_FEATURES_SEL" /\ a.value = 0
      /\ r.at = 8 => a.reg = "DRIVER_FEATURES" /\ a.value = Half(r.accepted, "HIGH")
      /\ r.at = 10 => a.reg = "DRIVER_FEATURES" /\ a.value = Half(r.accepted, "LOW")
  <2>1. /\ r.at \in {1, 2, 11} => \E v \in SUBSET {"DRIVER", "FEATURES_OK"} : a = W("STATUS", v)
        /\ r.at = 3 => a = W("DEVICE_FEATURES_SEL", 1)
        /\ r.at = 5 => a = W("DEVICE_FEATURES_SEL", 0)
        /\ r.at = 7 => a = W("DRIVER_FEATURES_SEL", 1)
        /\ r.at = 8 => a = W("DRIVER_FEATURES", Half(r.accepted, "HIGH"))
        /\ r.at = 9 => a = W("DRIVER_FEATURES_SEL", 0)
        /\ r.at = 10 => a = W("DRIVER_FEATURES", Half(r.accepted, "LOW"))
    BY FeatureAccess
  <2> HIDE DEF a
  <2>2. \A reg, v : W(reg, v).reg = reg /\ W(reg, v).value = v
    BY DEF W
  <2>3. r.at \in {1, 2, 11} => a.reg = "STATUS" /\ a.value \in SUBSET {"DRIVER", "FEATURES_OK"}
    <3>1. ASSUME NEW v \in SUBSET {"DRIVER", "FEATURES_OK"}, a = W("STATUS", v)
          PROVE  a.reg = "STATUS" /\ a.value \in SUBSET {"DRIVER", "FEATURES_OK"}
      BY <3>1 DEF W
    <3> QED
      BY <2>1, <3>1
  <2>4. /\ r.at = 3 => a.reg = "DEVICE_FEATURES_SEL" /\ a.value = 1
        /\ r.at = 5 => a.reg = "DEVICE_FEATURES_SEL" /\ a.value = 0
        /\ r.at = 7 => a.reg = "DRIVER_FEATURES_SEL" /\ a.value = 1
        /\ r.at = 9 => a.reg = "DRIVER_FEATURES_SEL" /\ a.value = 0
    BY <2>1, <2>2
  <2>5. /\ r.at = 8 => a.reg = "DRIVER_FEATURES" /\ a.value = Half(r.accepted, "HIGH")
        /\ r.at = 10 => a.reg = "DRIVER_FEATURES" /\ a.value = Half(r.accepted, "LOW")
    BY <2>1, <2>2
  <2> QED
    BY <2>3, <2>4, <2>5
<1> HIDE DEF a, s
<1>6. ASSUME E \in DeviceType(d), E.queues = D.queues, Recorded(d, E, s) PROVE Good(d, E, s, G, F)
  BY <1>1, <1>6, QuietAccess DEF Good, s
<1>7. CASE r.at \in {1, 2, 11}
  <2>1. E \in DeviceType(d) /\ E.queues = D.queues /\ SameButQueues(D, E)
    BY <1>1, <1>5, <1>7, WriteStatus
  <2> HIDE DEF E
  <2>2. Recorded(d, E, s)
    BY <1>1, <1>2, <1>7, <2>1 DEF Recorded, SameButQueues, SameSelectors
  <2> QED
    BY <1>5, <1>6, <1>7, <2>1, <2>2 DEF E, s, a
<1>8. CASE r.at \in {3, 5}
  <2>1. /\ E \in DeviceType(d) /\ E.queues = D.queues /\ E.driver_features = D.driver_features
        /\ (E.device_feature_sel <=> r.at = 3)
    BY <1>1, <1>5, <1>8, WriteSelector
  <2> HIDE DEF E
  <2>2. Recorded(d, E, s)
    BY <1>1, <1>2, <1>8, <2>1 DEF Recorded
  <2> QED
    BY <1>5, <1>6, <1>8, <2>1, <2>2 DEF E, s, a
<1>9. CASE r.at \in {7, 9}
  <2>1. /\ E \in DeviceType(d) /\ E.queues = D.queues /\ E.driver_features = D.driver_features
        /\ (E.driver_feature_sel <=> r.at = 7)
    BY <1>1, <1>5, <1>9, WriteSelector
  <2> HIDE DEF E
  <2>2. Recorded(d, E, s)
    BY <1>1, <1>2, <1>9, <2>1 DEF Recorded
  <2> QED
    BY <1>5, <1>6, <1>9, <2>1, <2>2 DEF E, s, a
<1>10. CASE r.at \in {8, 10}
  <2> DEFINE new == {b + shift(D.driver_feature_sel) : b \in a.value}
  <2>1. new = IF r.at = 8 THEN High(r.accepted) ELSE Low(r.accepted)
    <3>1. CASE r.at = 8
      <4>1. shift(D.driver_feature_sel) = shift(TRUE) /\ a.value = Half(r.accepted, "HIGH")
        BY <1>1, <1>4, <1>5, <3>1 DEF Recorded, shift
      <4>2. {b + shift(TRUE) : b \in Half(r.accepted, "HIGH")} = High(r.accepted)
        BY <1>3, Halves
      <4>3. new = High(r.accepted)
        BY <4>1, <4>2
      <4> QED
        BY <3>1, <4>3
    <3>2. CASE r.at = 10
      <4>1. shift(D.driver_feature_sel) = shift(FALSE) /\ a.value = Half(r.accepted, "LOW")
        BY <1>1, <1>4, <1>5, <3>2 DEF Recorded, shift
      <4>2. {b + shift(FALSE) : b \in Half(r.accepted, "LOW")} = Low(r.accepted)
        BY <1>3, Halves
      <4>3. new = Low(r.accepted)
        BY <4>1, <4>2
      <4> QED
        BY <3>2, <4>3
    <3> QED
      BY <1>10, <3>1, <3>2
  <2>2. new \subseteq Has(d)
    BY <1>3, <2>1 DEF High, Low
  <2>3. /\ E \in DeviceType(d) /\ E.queues = D.queues
        /\ E.driver_features = D.driver_features \union new
    BY <1>1, <1>5, <1>10, <2>2, WriteFeatures
  <2> HIDE DEF E, new
  <2>4. r.at = 10 => r.accepted \subseteq E.driver_features
    <3>1. r.accepted \subseteq High(r.accepted) \union Low(r.accepted)
      BY <1>3 DEF High, Low, Word
    <3> QED
      BY <1>1, <2>1, <2>3, <3>1 DEF Recorded
  <2>5. r.at = 8 => High(r.accepted) \subseteq E.driver_features
    BY <2>1, <2>3
  <2>6. Recorded(d, E, s)
    <3>1. High(r.accepted) \subseteq r.accepted
      BY DEF High
    <3> QED
      BY <1>1, <1>2, <1>10, <2>4, <2>5, <3>1 DEF Recorded
  <2> QED
    BY <1>5, <1>6, <1>10, <2>3, <2>6 DEF E, s, a
<1> QED
  BY <1>1, <1>7, <1>8, <1>9, <1>10

LEMMA VersionOffered ==
  ASSUME NEW d \in Devices
  PROVE  VERSION_1 \in High(Offered(d)) /\ VERSION_1 \in Offered(d) /\ Offered(d) \subseteq 0 .. 32
<1>1. 32 % 32 = 0
  OBVIOUS
<1>2. features[d] \subseteq 0 .. 31
  BY Constants DEF Word
<1> QED
  BY <1>1, <1>2 DEF Offered, High, VERSION_1, Word

(* The two words of DEVICE_FEATURES, one for each value of the selector,   *)
(* are all that is offered.                                                *)
LEMMA WordsRead ==
  ASSUME NEW d \in Devices, NEW D
  PROVE  /\ D.device_feature_sel =>
              {b + 32 : b \in read_features(d, D)} = High(Offered(d))
         /\ ~D.device_feature_sel =>
              {b + 0 : b \in read_features(d, D)} = Low(Offered(d))
<1>1. features[d] \subseteq 0 .. 31 /\ VERSION_1 = 32 /\ Word = 32
  BY Constants DEF Word, VERSION_1
<1>2. /\ \A b \in 0 .. 31 : b % 32 = b
      /\ 32 % 32 = 0
  OBVIOUS
<1>3. ASSUME D.device_feature_sel
      PROVE  {b + 32 : b \in read_features(d, D)} = High(Offered(d))
  <2>1. read_features(d, D) = {b \in 0 .. 23 : b + 32 \in features[d] \union {32}}
    BY <1>1, <1>3 DEF read_features, shift
  <2>2. read_features(d, D) = {0}
    BY <1>1, <2>1
  <2>3. High(Offered(d)) = {32}
    BY <1>1, <1>2 DEF High, Offered
  <2>4. {b + 32 : b \in {0}} = {32}
    OBVIOUS
  <2> QED
    BY <2>2, <2>3, <2>4
<1>4. ASSUME ~D.device_feature_sel
      PROVE  {b + 0 : b \in read_features(d, D)} = Low(Offered(d))
  <2>1. read_features(d, D) = {b \in 0 .. 23 : b + 0 \in features[d] \union {32}}
    BY <1>1, <1>4 DEF read_features, shift
  <2>2. Low(Offered(d)) = {b \in features[d] : b < 24}
    BY <1>1, <1>2 DEF Low, Offered
  <2>3. read_features(d, D) = {b \in features[d] : b < 24}
    BY <1>1, <2>1
  <2>4. \A b \in read_features(d, D) : b + 0 = b
    BY <2>1
  <2> QED
    BY <2>2, <2>3, <2>4
<1> QED
  BY <1>1, <1>3, <1>4

(* The two reads of DEVICE_FEATURES: VERSION_1 is seen in the high word and *)
(* accepted, for every driver knows it.                                     *)
LEMMA FeaturesRead ==
  ASSUME NEW d \in Devices, NEW D, NEW r, NEW G, NEW F, Good(d, D, r, G, F),
         r.phase = "features", r.at \in {4, 6}
  PROVE  LET high == r.at = 4
             seen == r.seen \union {b + shift(high) : b \in read_features(d, D)}
             x == [r EXCEPT !.seen = seen, !.accepted = IF high THEN @ ELSE seen \intersect r.supported]
         IN  Good(d, D, Proceed(d, x), G, F)
<1> DEFINE high == r.at = 4
           seen == r.seen \union {b + shift(high) : b \in read_features(d, D)}
           accepted == IF high THEN r.accepted ELSE seen \intersect r.supported
           x == [r EXCEPT !.seen = seen, !.accepted = accepted]
<1>1. /\ D \in DeviceType(d) /\ r \in DriverType(d) /\ Placed(r, SetUp[d]) /\ Busy(r)
      /\ Recorded(d, D, r) /\ r.at \in 1 .. 11
  BY DEF Good, Typing, Place, Placed, DriverType, Busy
<1>2. D.device_feature_sel \in BOOLEAN /\ r.seen \subseteq Has(d) /\ r.accepted \subseteq Has(d)
  BY <1>1 DEF DeviceType, DriverType
<1>3. shift(D.device_feature_sel) = shift(high) /\ shift(high) = IF high THEN 32 ELSE 0
  BY <1>1, <1>2 DEF Recorded, shift, Word
<1> HIDE DEF high
<1>4. seen \subseteq Has(d)
  BY <1>2, <1>3 DEF read_features, Has
<1>5. high => seen = High(Offered(d)) /\ VERSION_1 \in seen
  <2> SUFFICES ASSUME high
               PROVE  seen = High(Offered(d)) /\ VERSION_1 \in seen
    OBVIOUS
  <2>1. r.at = 4 /\ r.seen = {} /\ D.device_feature_sel /\ shift(high) = 32
    BY <1>1, <1>2, <1>3 DEF Recorded, high
  <2>2. {b + shift(high) : b \in read_features(d, D)} = High(Offered(d))
    <3>1. {b + 32 : b \in read_features(d, D)} = High(Offered(d))
      BY <2>1, WordsRead
    <3>2. shift(high) = 32
      BY <2>1
    <3>3. {b + shift(high) : b \in read_features(d, D)} = {b + 32 : b \in read_features(d, D)}
      BY ONLY <3>2
    <3> QED
      BY <3>1, <3>3
  <2>3. seen = {} \union High(Offered(d))
    BY <2>1, <2>2
  <2>4. seen = High(Offered(d))
    BY <2>3
  <2> QED
    BY <2>4, VersionOffered
<1>6. ~high => seen = Offered(d) /\ VERSION_1 \in seen
  <2> SUFFICES ASSUME ~high
               PROVE  seen = Offered(d) /\ VERSION_1 \in seen
    OBVIOUS
  <2>1. r.at = 6 /\ r.seen = High(Offered(d)) /\ ~D.device_feature_sel /\ shift(high) = 0
    BY <1>1, <1>2, <1>3 DEF Recorded, high
  <2>2. {b + shift(high) : b \in read_features(d, D)} = Low(Offered(d))
    BY <2>1, WordsRead
  <2>3. High(Offered(d)) \union Low(Offered(d)) = Offered(d)
    BY VersionOffered DEF High, Low, Word
  <2>4. seen = Offered(d)
    BY <2>1, <2>2, <2>3
  <2> QED
    BY <2>4, VersionOffered
<1> HIDE DEF seen
<1>7. /\ accepted \subseteq Has(d)
      /\ ~high => accepted = r.supported \intersect Offered(d) /\ VERSION_1 \in accepted
  BY <1>1, <1>2, <1>4, <1>6 DEF Recorded
<1> HIDE DEF accepted
<1>8. /\ x \in DriverType(d)
      /\ x.phase = r.phase /\ x.at = r.at /\ x.queue = r.queue /\ x.owned = r.owned
      /\ x.supported = r.supported /\ x.alloc = r.alloc /\ x.seen = seen /\ x.accepted = accepted
  <2> DEFINE y == [r EXCEPT !.seen = seen]
  <2>1. /\ y \in DriverType(d)
        /\ y.phase = r.phase /\ y.at = r.at /\ y.queue = r.queue /\ y.owned = r.owned
        /\ y.supported = r.supported /\ y.alloc = r.alloc /\ y.seen = seen
    BY <1>1, <1>4 DEF DriverType
  <2>2. x = [y EXCEPT !.accepted = accepted]
    OBVIOUS
  <2> HIDE DEF x, y
  <2> QED
    BY <1>7, <2>1, <2>2 DEF DriverType
<1> HIDE DEF x
<1>9. Typing(d, D, x, G, F) /\ Place(D, x, F, SetUp[d]) /\ Owned(D, x) /\ Whole(d, D, x, G, F) /\ Busy(x)
  <2>1. Typing(d, D, x, G, F) /\ Place(D, x, F, SetUp[d]) /\ Owned(D, x) /\ Busy(x)
    BY <1>8 DEF Good, Typing, Place, Owned, Busy
  <2>2. Whole(d, D, x, G, F)
    BY <1>8 DEF Good, Whole, InSetUp
  <2> QED
    BY <2>1, <2>2
<1>10. Recorded(d, D, Proceed(d, x))
  <2> DEFINE s == Proceed(d, x)
  <2>1. Placed(x, SetUp[d])
    BY <1>1, <1>8 DEF Placed
  <2>2. /\ s.phase = "features" /\ s.at = x.at + 1
        /\ s.seen = seen /\ s.accepted = accepted /\ s.supported = r.supported
    BY <1>8, <1>9, <2>1, Proceeded DEF Steps
  <2> HIDE DEF s
  <2>3. Recorded(d, D, s)
    BY <1>1, <1>5, <1>6, <1>7, <1>8, <2>2 DEF Recorded, high
  <2> QED
    BY <2>3 DEF s
<1>11. Good(d, D, Proceed(d, x), G, F)
  BY <1>1, <1>8, <1>9, <1>10, QuietAccess
<1> QED
  BY <1>11 DEF x, accepted, seen, high

(* Selecting a queue, and the status register. *)
LEMMA NothingWritten ==
  ASSUME NEW d \in Devices, NEW D, NEW r, NEW G, NEW F, Good(d, D, r, G, F),
         \/ r.phase \in {"ok", "reset", "failed"}
         \/ r.phase \in {"queue", "drop"} /\ r.at = 1
  PROVE  Good(d, write(D, Current(r)), Proceed(d, r), G, F) /\ Current(r).reg # "QUEUE_READY"
<1> DEFINE a == Current(r)
           E == write(D, a)
<1>1. /\ D \in DeviceType(d) /\ r \in DriverType(d) /\ Busy(r) /\ Place(D, r, F, SetUp[d])
      /\ Recorded(d, D, r) /\ r.at \in 1 .. 11 /\ r.at <= Steps(r.phase) /\ r.queue \in 0 .. SetUp[d] - 1
  BY DEF Good, Typing, Place, DriverType, Busy
<1>2. ASSUME E \in DeviceType(d), E.queues = D.queues, E.driver_features = D.driver_features,
             r.phase \in {"queue", "drop"} => E.queue_index = r.queue
      PROVE  Good(d, E, Proceed(d, r), G, F)
  <2> HIDE DEF E
  <2>1. Recorded(d, E, Proceed(d, r))
    BY <1>1, <1>2, RecordedKept
  <2> QED
    BY <1>1, <1>2, <2>1, QuietAccess DEF Good
<1>3. CASE r.phase \in {"ok", "reset", "failed"}
  <2>1. PICK v \in SUBSET {"DRIVER", "FEATURES_OK", "DRIVER_OK", "FAILED"} : a = W("STATUS", v)
    BY <1>1, <1>3, OtherAccess DEF Steps
  <2>2. a.reg = "STATUS" /\ a.value = v
    BY <2>1 DEF W
  <2> HIDE DEF a
  <2>3. E \in DeviceType(d) /\ E.queues = D.queues /\ SameButQueues(D, E)
    BY <1>1, <2>2, WriteStatus
  <2>4. Good(d, E, Proceed(d, r), G, F)
    BY <1>2, <1>3, <2>3 DEF SameButQueues
  <2> QED
    BY <2>2, <2>4 DEF a
<1>4. CASE r.phase \in {"queue", "drop"} /\ r.at = 1
  <2>1. a = W("QUEUE_SEL", r.queue)
    BY <1>1, <1>4, QueueAccess, OtherAccess
  <2>2. a.reg = "QUEUE_SEL" /\ a.value = r.queue
    BY <2>1 DEF W
  <2> HIDE DEF a
  <2>3. /\ E \in DeviceType(d) /\ E.queues = D.queues /\ E.driver_features = D.driver_features
        /\ E.queue_index = r.queue
    BY <1>1, <2>2, WriteQueueSel
  <2>4. Good(d, E, Proceed(d, r), G, F)
    BY <1>2, <2>3
  <2> QED
    BY <2>2, <2>4 DEF a
<1> QED
  BY <1>3, <1>4

(* The queue is in the hands of the driver between the reading of          *)
(* QUEUE_READY and its writing.                                            *)
LEMMA BegunStep ==
  ASSUME NEW x \in RingsType
  PROVE  /\ Begun(x, 3) = NoRings
         /\ Begun(x, 4) = [Begun(x, 3) EXCEPT !.size = x.size]
         /\ \A name \in RingNames :
              /\ Begun(x, First(name)).addr[name] = {}
              /\ Begun(x, First(name) + 1).addr[name] = Low(x.addr[name])
         /\ \A name \in RingNames, n \in 1 .. 10 : n \in {First(name), First(name) + 1} =>
              Begun(x, n + 1) =
                Rewritten(Begun(x, n), name, IF n = First(name) THEN Low(x.addr[name]) ELSE x.addr[name])
         /\ Begun(x, 10) = x
<1>1. RingNames = {"desc", "avail", "used"}
  BY DEF RingNames
<1>2. First("desc") = 4 /\ First("avail") = 6 /\ First("used") = 8
  BY DEF First
<1>3. Begun(x, 3) = NoRings
  BY <1>1, <1>2 DEF Begun, NoRings
<1>4. Begun(x, 4) = [Begun(x, 3) EXCEPT !.size = x.size]
  <2>1. Begun(x, 4).addr = Begun(x, 3).addr
    <3>1. \A m \in RingNames : Begun(x, 4).addr[m] = Begun(x, 3).addr[m]
      BY <1>1, <1>2 DEF Begun
    <3>2. /\ Begun(x, 4).addr = [m \in RingNames |-> Begun(x, 4).addr[m]]
          /\ Begun(x, 3).addr = [m \in RingNames |-> Begun(x, 3).addr[m]]
      BY DEF Begun
    <3> QED
      BY <3>1, <3>2
  <2>2. Begun(x, 4).size = x.size
    BY DEF Begun
  <2>3. /\ Begun(x, 4) = [size |-> Begun(x, 4).size, addr |-> Begun(x, 4).addr]
        /\ Begun(x, 3) = [size |-> Begun(x, 3).size, addr |-> Begun(x, 3).addr]
    BY DEF Begun
  <2> QED
    BY <2>1, <2>2, <2>3
<1>5. ASSUME NEW name \in RingNames
      PROVE  /\ Begun(x, First(name)).addr[name] = {}
             /\ Begun(x, First(name) + 1).addr[name] = Low(x.addr[name])
  BY <1>1, <1>2, <1>5 DEF Begun
<1>6. ASSUME NEW name \in RingNames, NEW n \in 1 .. 10, n \in {First(name), First(name) + 1}
      PROVE  Begun(x, n + 1) =
               Rewritten(Begun(x, n), name, IF n = First(name) THEN Low(x.addr[name]) ELSE x.addr[name])
  <2> DEFINE f == [Begun(x, n).addr EXCEPT ![name] =
               IF n = First(name) THEN Low(x.addr[name]) ELSE x.addr[name]]
  <2>1. Begun(x, n + 1).addr = f
    <3>1. ASSUME NEW m \in RingNames PROVE Begun(x, n + 1).addr[m] = f[m]
      BY <1>1, <1>2, <1>6 DEF Begun
    <3>2. DOMAIN Begun(x, n + 1).addr = RingNames /\ DOMAIN f = RingNames
      BY DEF Begun
    <3>3. /\ Begun(x, n + 1).addr = [m \in RingNames |-> Begun(x, n + 1).addr[m]]
          /\ f = [m \in RingNames |-> f[m]]
      BY <3>2 DEF Begun
    <3> QED
      BY <3>1, <3>3
  <2>2. Begun(x, n + 1).size = Begun(x, n).size
    BY <1>1, <1>2, <1>6 DEF Begun
  <2>3. Begun(x, n + 1) = [size |-> Begun(x, n + 1).size, addr |-> Begun(x, n + 1).addr]
    BY DEF Begun
  <2> QED
    BY <2>1, <2>2, <2>3 DEF Rewritten
<1>7. Begun(x, 10) = x
  <2>1. x.addr \in [RingNames -> Address] /\ x = [size |-> x.size, addr |-> x.addr]
    BY DEF RingsType
  <2>2. Begun(x, 10).addr = [m \in RingNames |-> x.addr[m]] /\ Begun(x, 10).size = x.size
    BY <1>1, <1>2 DEF Begun
  <2>3. Begun(x, 10).addr = x.addr
    BY <2>1, <2>2
  <2>4. Begun(x, 10) = [size |-> Begun(x, 10).size, addr |-> Begun(x, 10).addr]
    BY DEF Begun
  <2> QED
    BY <2>1, <2>2, <2>3, <2>4
<1> QED
  BY <1>3, <1>4, <1>5, <1>6, <1>7

LEMMA HalvesMake ==
  ASSUME NEW S \in Address
  PROVE  or_word({}, "LOW", Half(S, "LOW")) = Low(S) /\ or_word(Low(S), "HIGH", Half(S, "HIGH")) = S
<1>1. shift("HIGH" = "HIGH") = shift(TRUE) /\ shift("LOW" = "HIGH") = shift(FALSE)
  BY DEF shift
<1>2. S \subseteq 0 .. 2 * Word - 1
  BY DEF Address
<1>3. {b + shift("LOW" = "HIGH") : b \in Half(S, "LOW")} = Low(S)
  BY <1>1, <1>2, Halves
<1>4. {b + shift("HIGH" = "HIGH") : b \in Half(S, "HIGH")} = High(S)
  BY <1>1, <1>2, Halves
<1>5. Low(S) \union High(S) = S
  <2>1. Low(S) \subseteq S /\ High(S) \subseteq S
    BY DEF Low, High
  <2>2. ASSUME NEW b \in S PROVE b \in Low(S) \/ b \in High(S)
    BY <1>2 DEF Low, High, Word
  <2> QED
    BY <2>1, <2>2
<1>6. or_word({}, "LOW", Half(S, "LOW")) = Low(S)
  <2>1. or_word({}, "LOW", Half(S, "LOW")) = {} \union {b + shift("LOW" = "HIGH") : b \in Half(S, "LOW")}
    BY DEF or_word
  <2> QED
    BY <1>3, <2>1
<1>7. or_word(Low(S), "HIGH", Half(S, "HIGH")) = S
  <2>1. or_word(Low(S), "HIGH", Half(S, "HIGH")) =
          Low(S) \union {b + shift("HIGH" = "HIGH") : b \in Half(S, "HIGH")}
    BY DEF or_word
  <2> QED
    BY <1>4, <1>5, <2>1
<1> QED
  BY <1>6, <1>7

LEMMA SetUpQueue ==
  ASSUME NEW d \in Devices, NEW D, NEW r, NEW G, NEW F, Good(d, D, r, G, F), r.phase = "queue"
  PROVE  /\ D \in DeviceType(d) /\ r \in DriverType(d) /\ Busy(r) /\ Place(D, r, F, SetUp[d])
         /\ Placed(r, SetUp[d]) /\ Recorded(d, D, r) /\ r.at \in 1 .. 10 /\ r.owned = r.queue
         /\ r.queue \in QueueIds(d) /\ r.alloc[r.queue] \in RingsType /\ r.alloc[r.queue] \in Rings
         /\ r.at > 1 => D.queue_index = r.queue
         /\ r.at > 2 => ~D.queues[r.queue].ready /\ D.queues[r.queue].rings = Begun(r.alloc[r.queue], r.at)
<1>1. /\ D \in DeviceType(d) /\ r \in DriverType(d) /\ Busy(r) /\ Place(D, r, F, SetUp[d])
      /\ Placed(r, SetUp[d]) /\ Recorded(d, D, r) /\ Whole(d, D, r, G, F)
  BY DEF Good, Typing, Place, Placed, Busy
<1>2. /\ r.at \in 1 .. 10 /\ r.owned = r.queue /\ (r.at > 1 => D.queue_index = r.queue)
      /\ \A i \in 0 .. SetUp[d] - 1 : r.alloc[i] \in Rings
  BY <1>1 DEF Place, DriverType, Steps
<1>3. r.queue \in 0 .. SetUp[d] - 1 /\ r.queue \in QueueIds(d) /\ r.alloc[r.queue] \in Rings
  BY <1>1, <1>2, Constants DEF DriverType
<1>4. r.at > 2 => ~D.queues[r.queue].ready /\ D.queues[r.queue].rings = Begun(r.alloc[r.queue], r.at)
  BY <1>1, <1>3 DEF Whole, InSetUp
<1> QED
  BY <1>1, <1>2, <1>3, <1>4, Constants

(* The size and the halves of the addresses. *)
LEMMA RingsGrow ==
  ASSUME NEW d \in Devices, NEW D, NEW r, NEW G, NEW F, Good(d, D, r, G, F),
         r.phase = "queue", r.at \in 3 .. 9, NEW E,
         QueueWritten(d, D, E, D.queues[r.queue].ready, Begun(r.alloc[r.queue], r.at + 1))
  PROVE  Good(d, E, Proceed(d, r), G, F)
<1> DEFINE s == Proceed(d, r)
           i == r.queue
<1>1. /\ r \in DriverType(d) /\ Busy(r) /\ Place(D, r, F, SetUp[d])
      /\ Placed(r, SetUp[d]) /\ Recorded(d, D, r) /\ i \in QueueIds(d) /\ r.owned = i
      /\ D.queue_index = i /\ ~D.queues[i].ready /\ D.queues[i].rings = Begun(r.alloc[i], r.at)
  BY SetUpQueue
<1>2. Whole(d, D, r, G, F) /\ Owned(D, r) /\ Typing(d, D, r, G, F)
  BY DEF Good
<1>3. /\ s \in DriverType(d) /\ s.phase = "queue" /\ s.at = r.at + 1 /\ s.queue = i
      /\ s.owned = r.owned /\ s.alloc = r.alloc
  BY <1>1, Proceeded DEF Steps
<1>4. /\ E \in DeviceType(d) /\ E.queue_index = i /\ E.driver_features = D.driver_features
      /\ ~E.queues[i].ready /\ E.queues[i].rings = Begun(r.alloc[i], r.at + 1)
      /\ \A j \in QueueIds(d) : j # i => E.queues[j] = D.queues[j]
  BY <1>1 DEF QueueWritten, SameButQueues
<1>5. Place(E, s, F, SetUp[d]) /\ Recorded(d, E, s)
  BY <1>1, <1>4, PlaceKept, RecordedKept
<1> HIDE DEF s
<1>6. Typing(d, E, s, G, F)
  BY <1>2, <1>3, <1>4 DEF Typing
<1>7. Whole(d, E, s, G, F)
  <2>1. ASSUME NEW j \in QueueIds(d), j # i
        PROVE  E.queues[j] = D.queues[j] /\ ~InSetUp(r, j) /\ ~InSetUp(s, j)
    BY <1>3, <1>4, <2>1 DEF InSetUp
  <2>2. InSetUp(s, i) /\ G[i] = NoRings
    BY <1>1, <1>2, <1>3 DEF InSetUp, Whole
  <2>3. E.queues[i].rings = Begun(s.alloc[i], s.at)
    BY <1>3, <1>4
  <2> QED
    BY <1>2, <1>4, <2>1, <2>2, <2>3 DEF Whole
<1>8. Owned(E, s)
  <2>1. \A j \in 0 .. s.owned - 1 : j \in QueueIds(d) /\ j # i
    BY <1>1, <1>3, Constants DEF QueueIds
  <2> QED
    BY <1>2, <1>3, <1>4, <2>1 DEF Owned
<1> QED
  BY <1>5, <1>6, <1>7, <1>8 DEF Good, s

LEMMA RingsWritten ==
  ASSUME NEW d \in Devices, NEW D, NEW r, NEW G, NEW F, Good(d, D, r, G, F),
         r.phase = "queue", r.at \in 3 .. 9
  PROVE  Good(d, write(D, Current(r)), Proceed(d, r), G, F) /\ Current(r).reg # "QUEUE_READY"
<1> DEFINE a == Current(r)
           i == r.queue
           x == r.alloc[i]
           old == D.queues[i]
<1>1. /\ D \in DeviceType(d) /\ i \in QueueIds(d) /\ x \in RingsType
      /\ D.queue_index = i /\ ~old.ready /\ old.rings = Begun(x, r.at)
  BY SetUpQueue
<1>2. x.size \in Nat /\ x.addr \in [RingNames -> Address]
  BY <1>1 DEF RingsType
<1>3. ASSUME r.at = 3
      PROVE  a.reg = "QUEUE_NUM" /\ QueueWritten(d, D, write(D, a), old.ready, Begun(x, r.at + 1))
  <2>1. a = W("QUEUE_NUM", x.size)
    BY <1>3, QueueAccess
  <2>2. a.reg = "QUEUE_NUM" /\ a.value = x.size
    BY <2>1 DEF W
  <2> HIDE DEF a
  <2>3. QueueWritten(d, D, write(D, a), old.ready, [old.rings EXCEPT !.size = x.size])
    BY <1>1, <1>2, <2>2, WriteQueue
  <2>4. [old.rings EXCEPT !.size = x.size] = Begun(x, r.at + 1)
    BY <1>1, <1>3, BegunStep
  <2> QED
    BY <2>2, <2>3, <2>4
<1>4. ASSUME NEW name \in RingNames, NEW half \in {"LOW", "HIGH"},
             r.at = First(name) + (IF half = "LOW" THEN 0 ELSE 1)
      PROVE  a.reg \in RingNames /\ QueueWritten(d, D, write(D, a), old.ready, Begun(x, r.at + 1))
  <2>1. a = W_half(name, half, x.addr[name])
    <3>1. CASE half = "LOW"
      BY <1>4, <3>1, QueueAccess DEF First
    <3>2. CASE half = "HIGH"
      BY <1>4, <3>2, QueueAccess DEF First
    <3> QED
      BY <3>1, <3>2
  <2>2. a.reg = name /\ a.half = half /\ a.value = Half(x.addr[name], half) /\ x.addr[name] \in Address
    BY <1>2, <2>1 DEF W_half
  <2> HIDE DEF a
  <2> DEFINE new == or_word(old.rings.addr[name], half, a.value)
  <2>3. QueueWritten(d, D, write(D, a), old.ready, Rewritten(old.rings, name, new))
    <3>1. old = D.queues[D.queue_index]
      BY <1>1
    <3>2. new = or_word(old.rings.addr[name], half, a.value)
      OBVIOUS
    <3> HIDE DEF old, new
    <3> QED
      BY <1>1, <2>2, <3>1, <3>2, WriteAddress
  <2>4. new = IF half = "LOW" THEN Low(x.addr[name]) ELSE x.addr[name]
    <3>1. CASE half = "LOW"
      <4>1. old.rings.addr[name] = {}
        <5>1. r.at = First(name)
          BY <1>4, <3>1 DEF First
        <5>2. Begun(x, First(name)).addr[name] = {}
          BY <1>1, BegunStep
        <5> QED
          BY <1>1, <5>1, <5>2
      <4>2. new = or_word({}, "LOW", Half(x.addr[name], "LOW"))
        BY <2>2, <3>1, <4>1
      <4> HIDE DEF new
      <4> QED
        BY <2>2, <3>1, <4>2, HalvesMake
    <3>2. CASE half = "HIGH"
      <4>1. old.rings.addr[name] = Low(x.addr[name])
        <5>1. r.at = First(name) + 1
          BY <1>4, <3>2 DEF First
        <5>2. Begun(x, First(name) + 1).addr[name] = Low(x.addr[name])
          BY <1>1, BegunStep
        <5> QED
          BY <1>1, <5>1, <5>2
      <4>2. new = or_word(Low(x.addr[name]), "HIGH", Half(x.addr[name], "HIGH"))
        BY <2>2, <3>2, <4>1
      <4> HIDE DEF new
      <4> QED
        BY <2>2, <3>2, <4>2, HalvesMake
    <3> QED
      BY <3>1, <3>2
  <2> HIDE DEF new
  <2>5. Begun(x, r.at + 1) = Rewritten(old.rings, name, new)
    <3>1. r.at \in 1 .. 10 /\ r.at \in {First(name), First(name) + 1} /\ (half = "LOW" <=> r.at = First(name))
      BY <1>4 DEF First
    <3> QED
      BY <1>1, <2>4, <3>1, BegunStep
  <2> QED
    BY <2>2, <2>3, <2>5
<1>5. \/ r.at = 3
      \/ \E name \in RingNames, half \in {"LOW", "HIGH"} : r.at = First(name) + (IF half = "LOW" THEN 0 ELSE 1)
  BY DEF RingNames, First
<1>6. a.reg # "QUEUE_READY" /\ QueueWritten(d, D, write(D, a), old.ready, Begun(x, r.at + 1))
  BY <1>3, <1>4, <1>5 DEF RingNames
<1> QED
  BY <1>6, RingsGrow

(* QUEUE_READY is free: the driver takes the queue. *)
LEMMA FoundFree ==
  ASSUME NEW d \in Devices, NEW D, NEW r, NEW G, NEW F, Good(d, D, r, G, F),
         r.phase = "queue", r.at = 2, ~D.queues[D.queue_index].ready
  PROVE  Good(d, D, Proceed(d, r), G, F)
<1> DEFINE s == Proceed(d, r)
           i == r.queue
<1>1. /\ D \in DeviceType(d) /\ r \in DriverType(d) /\ Busy(r) /\ Place(D, r, F, SetUp[d])
      /\ Placed(r, SetUp[d]) /\ Recorded(d, D, r) /\ i \in QueueIds(d) /\ r.alloc[i] \in RingsType
      /\ D.queue_index = i /\ ~D.queues[i].ready
  BY SetUpQueue
<1>2. Whole(d, D, r, G, F) /\ Owned(D, r) /\ Typing(d, D, r, G, F)
  BY DEF Good
<1>3. /\ s \in DriverType(d) /\ s.phase = "queue" /\ s.at = 3 /\ s.queue = i
      /\ s.owned = r.owned /\ s.alloc = r.alloc
  BY <1>1, Proceeded DEF Steps
<1>4. Place(D, s, F, SetUp[d]) /\ Recorded(d, D, s)
  BY <1>1, PlaceKept, RecordedKept
<1> HIDE DEF s
<1>5. Typing(d, D, s, G, F) /\ Owned(D, s)
  BY <1>2, <1>3 DEF Typing, Owned
<1>6. Whole(d, D, s, G, F)
  <2>1. \A j \in QueueIds(d) : ~InSetUp(r, j) /\ (InSetUp(s, j) <=> j = i)
    BY <1>3 DEF InSetUp
  <2>2. Begun(s.alloc[i], s.at) = NoRings
    BY <1>1, <1>3, BegunStep
  <2> QED
    BY <1>1, <1>2, <2>1, <2>2 DEF Whole
<1> QED
  BY <1>4, <1>5, <1>6 DEF Good, s

(* QUEUE_READY is written: the rings are complete, and the driver's. *)
LEMMA QueueCompleted ==
  ASSUME NEW d \in Devices, NEW D, NEW r, NEW G, NEW F, Good(d, D, r, G, F),
         r.phase = "queue", r.at = 10
  PROVE  /\ Current(r).reg = "QUEUE_READY" /\ Current(r).value = 1
         /\ Good(d, write(D, Current(r)), Proceed(d, r), [G EXCEPT ![D.queue_index] = r.alloc[D.queue_index]], F)
<1> DEFINE a == Current(r)
           E == write(D, a)
           s == Proceed(d, r)
           i == r.queue
           x == r.alloc[i]
           H == [G EXCEPT ![i] = x]
<1>1. /\ D \in DeviceType(d) /\ r \in DriverType(d) /\ Busy(r) /\ Place(D, r, F, SetUp[d])
      /\ Placed(r, SetUp[d]) /\ Recorded(d, D, r) /\ i \in QueueIds(d) /\ r.owned = i
      /\ x \in RingsType /\ x \in Rings
      /\ D.queue_index = i /\ D.queues[i].rings = Begun(x, 10)
  BY SetUpQueue
<1>2. Whole(d, D, r, G, F) /\ Owned(D, r) /\ Typing(d, D, r, G, F)
  BY DEF Good
<1>3. a.reg = "QUEUE_READY" /\ a.value = 1
  <2>1. a = W("QUEUE_READY", 1)
    BY QueueAccess
  <2> QED
    BY <2>1 DEF W
<1>4. x.size # 0
  BY <1>1, MmioConstants DEF MmioConstants
<1>5. s \in DriverType(d) /\ s.at = 1 /\ s.owned = i + 1 /\ s.alloc = r.alloc
  BY <1>1, Proceeded DEF Steps
<1> HIDE DEF a
<1>6. QueueWritten(d, D, E, TRUE, x)
  <2>1. QueueWritten(d, D, E, TRUE, D.queues[D.queue_index].rings)
    BY <1>1, <1>3, WriteQueue
  <2>2. D.queues[D.queue_index].rings = x
    BY <1>1, BegunStep
  <2> QED
    BY <2>1, <2>2
<1> HIDE DEF E
<1>7. /\ E \in DeviceType(d) /\ E.driver_features = D.driver_features
      /\ E.queues[i].ready /\ E.queues[i].rings = x
      /\ \A j \in QueueIds(d) : j # i => E.queues[j] = D.queues[j]
  BY <1>1, <1>6 DEF QueueWritten, SameButQueues
<1>8. Place(E, s, F, SetUp[d]) /\ Recorded(d, E, s)
  <2>1. ~(r.at < Steps(r.phase))
    BY DEF Steps
  <2> QED
    BY <1>1, <1>7, <2>1, PlaceKept, RecordedKept
<1> HIDE DEF s
<1>9. H \in [QueueIds(d) -> RingsType] /\ H[i] = x /\ \A j \in QueueIds(d) : j # i => H[j] = G[j]
  BY <1>1, <1>2 DEF Typing
<1> HIDE DEF H
<1>10. Typing(d, E, s, H, F)
  BY <1>2, <1>5, <1>7, <1>9 DEF Typing
<1>11. Whole(d, E, s, H, F)
  <2>1. \A j \in QueueIds(d) : ~InSetUp(s, j) /\ (j # i => ~InSetUp(r, j))
    BY <1>5 DEF InSetUp
  <2>2. ASSUME NEW j \in QueueIds(d), j # i
        PROVE  /\ E.queues[j] = D.queues[j] /\ H[j] = G[j]
    BY <1>7, <1>9, <2>2
  <2> QED
    BY <1>2, <1>4, <1>7, <1>9, <2>1, <2>2 DEF Whole
<1>12. Owned(E, s)
  <2>1. \A j \in 0 .. s.owned - 1 : j \in QueueIds(d) /\ (j # i => j \in 0 .. r.owned - 1)
    <3>1. i \in 0 .. queue_count[d] - 1 /\ queue_count[d] \in Nat /\ r.owned = i /\ s.owned = i + 1
      BY <1>1, <1>5, Constants DEF QueueIds
    <3>2. 0 .. s.owned - 1 = 0 .. i /\ 0 .. r.owned - 1 = 0 .. i - 1
      BY ONLY <3>1
    <3>3. \A j \in 0 .. i : j \in 0 .. queue_count[d] - 1 /\ (j # i => j \in 0 .. i - 1)
      BY ONLY <3>1
    <3> QED
      BY ONLY <3>2, <3>3 DEF QueueIds
  <2>2. ASSUME NEW j \in 0 .. s.owned - 1, j # i
        PROVE  E.queues[j] = D.queues[j] /\ D.queues[j].ready /\ D.queues[j].rings = r.alloc[j]
    BY <1>2, <1>7, <2>1, <2>2 DEF Owned
  <2> QED
    BY <1>5, <1>7, <2>2 DEF Owned
<1>13. Good(d, E, s, H, F)
  BY <1>8, <1>10, <1>11, <1>12 DEF Good
<1> QED
  BY <1>1, <1>3, <1>13 DEF a, E, s, H

(* Whatever else writes QUEUE_READY writes 0, and sets it all the same: it *)
(* is set already, or the allocation of a ring has failed.                 *)
LEMMA ReadyCleared ==
  ASSUME NEW d \in Devices, NEW D, NEW r, NEW G, NEW F, Good(d, D, r, G, F),
         r.phase = "abort" \/ (r.phase = "drop" /\ r.at = 2)
  PROVE  /\ Current(r).reg = "QUEUE_READY" /\ Current(r).value # 1
         /\ Good(d, write(D, Current(r)), Proceed(d, r), G, F)
<1> DEFINE a == Current(r)
           E == write(D, a)
           s == Proceed(d, r)
           i == D.queue_index
<1>1. /\ D \in DeviceType(d) /\ r \in DriverType(d) /\ Busy(r) /\ Place(D, r, F, SetUp[d])
      /\ Placed(r, SetUp[d]) /\ Recorded(d, D, r) /\ r.at \in 1 .. 11 /\ r.at <= Steps(r.phase)
      /\ Whole(d, D, r, G, F) /\ Owned(D, r) /\ Typing(d, D, r, G, F)
  BY DEF Good, Typing, Place, Placed, DriverType, Busy
<1>2. a.reg = "QUEUE_READY" /\ a.value = 0
  <2>1. a = W("QUEUE_READY", 0)
    BY <1>1, OtherAccess DEF Steps
  <2> QED
    BY <2>1 DEF W
<1>3. i \in QueueIds(d)
  BY <1>1, QueueTyped
<1> HIDE DEF a
<1>4. QueueWritten(d, D, E, TRUE, D.queues[i].rings)
  BY <1>1, <1>2, WriteQueue
<1> HIDE DEF E
<1>5. /\ E \in DeviceType(d) /\ E.queue_index = i /\ E.driver_features = D.driver_features
      /\ E.queues[i].ready /\ E.queues[i].rings = D.queues[i].rings
      /\ \A j \in QueueIds(d) : j # i => E.queues[j] = D.queues[j]
  BY <1>1, <1>4 DEF QueueWritten, SameButQueues
<1>6. Place(E, s, F, SetUp[d]) /\ Recorded(d, E, s)
  <2>1. ~(r.at < Steps(r.phase))
    BY <1>1 DEF Steps
  <2> QED
    BY <1>1, <1>5, <2>1, PlaceKept, RecordedKept
<1>7. /\ s \in DriverType(d) /\ s.at = 1 /\ s.owned = r.owned /\ s.alloc = r.alloc
  BY <1>1, Proceeded DEF Steps
<1> HIDE DEF s
<1>8. Typing(d, E, s, G, F)
  BY <1>1, <1>5, <1>7 DEF Typing
<1>9. r.phase = "drop" => D.queues[i].ready
  BY <1>1 DEF Place, Owned, DriverType
<1>10. Whole(d, E, s, G, F)
  <2>1. \A j \in QueueIds(d) : ~InSetUp(s, j) /\ ~InSetUp(r, j)
    BY <1>7 DEF InSetUp
  <2>2. E.queues[i].rings = G[i] /\ (E.queues[i].rings.size = 0 => F)
    <3>1. CASE r.phase = "drop"
      BY <1>1, <1>3, <1>5, <1>9, <3>1 DEF Whole
    <3>2. CASE r.phase = "abort"
      <4>1. F /\ ~D.queues[i].ready
        BY <1>1, <3>2 DEF Place
      <4> QED
        BY <1>1, <1>3, <1>5, <2>1, <4>1 DEF Whole
    <3> QED
      BY <3>1, <3>2
  <2>3. ASSUME NEW j \in QueueIds(d), j # i PROVE E.queues[j] = D.queues[j]
    BY <1>5, <2>3
  <2> QED
    BY <1>1, <1>5, <2>1, <2>2, <2>3 DEF Whole
<1>11. Owned(E, s)
  <2>1. \A j \in 0 .. r.owned - 1 : j \in QueueIds(d)
    BY <1>1, Constants DEF DriverType, QueueIds
  <2>2. ASSUME NEW j \in 0 .. r.owned - 1 PROVE E.queues[j].ready /\ E.queues[j].rings = r.alloc[j]
    <3>1. D.queues[j].ready /\ D.queues[j].rings = r.alloc[j]
      BY <1>1 DEF Owned
    <3> QED
      BY <1>5, <2>1, <3>1
  <2> QED
    BY <1>7, <2>2 DEF Owned
<1>12. Good(d, E, s, G, F)
  BY <1>6, <1>8, <1>10, <1>11 DEF Good
<1> QED
  BY <1>2, <1>12 DEF a, E, s

(* A phase that writes nothing follows: no queue is in the driver's hands. *)
LEMMA Switched ==
  ASSUME NEW d \in Devices, NEW D, NEW r, NEW G, NEW F, Good(d, D, r, G, F),
         \A i \in QueueIds(d) : InSetUp(r, i) => D.queues[i].rings = NoRings,
         NEW s \in DriverType(d), s.alloc = r.alloc \/ s.owned = 0, s.owned = r.owned \/ s.owned = 0,
         s.phase = "queue" => s.at <= 2,
         NEW H \in BOOLEAN, F => H, Place(D, s, H, SetUp[d]), Recorded(d, D, s)
  PROVE  Good(d, D, s, G, H)
<1>1. Typing(d, D, r, G, F) /\ Whole(d, D, r, G, F) /\ Owned(D, r)
  BY DEF Good
<1>2. Typing(d, D, s, G, H)
  BY <1>1 DEF Typing
<1>3. Owned(D, s)
  <2>1. CASE s.owned = 0
    BY <2>1 DEF Owned
  <2>2. CASE s.alloc = r.alloc /\ s.owned = r.owned
    BY <1>1, <2>2 DEF Owned
  <2> QED
    BY <2>1, <2>2
<1>4. \A i \in QueueIds(d) : ~InSetUp(s, i)
  BY DEF InSetUp, DriverType
<1>5. Whole(d, D, s, G, H)
  BY <1>1, <1>4 DEF Whole
<1> QED
  BY <1>2, <1>3, <1>5 DEF Good

(* QUEUE_READY is not free: the driver leaves the queues to their owner.   *)
LEMMA FoundTaken ==
  ASSUME NEW d \in Devices, NEW D, NEW r, NEW G, NEW F, Good(d, D, r, G, F),
         r.phase = "queue", r.at = 2
  PROVE  Good(d, D, DropFrom(d, r, 0), G, F)
<1> DEFINE s == DropFrom(d, r, 0)
<1>1. r \in DriverType(d) /\ F \in BOOLEAN /\ Place(D, r, F, SetUp[d])
  BY DEF Good, Typing
<1>2. /\ s \in DriverType(d) /\ s.at = 1 /\ s.phase \in {"drop", "failed", "unbound"}
      /\ s.phase = "drop" => s.queue < s.owned
      /\ s.owned = r.owned /\ s.alloc = r.alloc
  BY <1>1, Dropped
<1> HIDE DEF s
<1>3. Place(D, s, F, SetUp[d]) /\ Recorded(d, D, s)
  BY <1>2 DEF Place, Recorded, Steps
<1>4. \A i \in QueueIds(d) : ~InSetUp(r, i)
  BY <1>1 DEF InSetUp
<1>5. Good(d, D, s, G, F)
  BY <1>1, <1>2, <1>3, <1>4, Switched
<1> QED
  BY <1>5 DEF s

LEMMA AllocationFailed ==
  ASSUME NEW d \in Devices, NEW D, NEW r, NEW G, NEW F, Good(d, D, r, G, F),
         r.phase = "queue", r.at = 3
  PROVE  Good(d, D, Enter(r, "abort", 0), G, TRUE)
<1> DEFINE s == Enter(r, "abort", 0)
<1>1. /\ r \in DriverType(d) /\ D.queue_index = r.queue /\ r.queue \in QueueIds(d)
      /\ ~D.queues[r.queue].ready /\ D.queues[r.queue].rings = NoRings
  BY SetUpQueue, BegunStep
<1>2. "abort" \in Phases /\ 0 \in 0 .. SetUp[d] - 1
  BY Constants DEF Phases
<1>3. s \in DriverType(d) /\ s.phase = "abort" /\ s.at = 1 /\ s.owned = r.owned /\ s.alloc = r.alloc
  BY <1>1, <1>2, Entered
<1> HIDE DEF s
<1>4. Place(D, s, TRUE, SetUp[d]) /\ Recorded(d, D, s)
  BY <1>1, <1>3 DEF Place, Recorded, Steps
<1>5. \A i \in QueueIds(d) : InSetUp(r, i) => D.queues[i].rings = NoRings
  BY <1>1 DEF InSetUp
<1>6. Good(d, D, s, G, TRUE)
  BY <1>3, <1>4, <1>5, Switched
<1> QED
  BY <1>6 DEF s

LEMMA Left ==
  ASSUME NEW d \in Devices, NEW D, NEW r, NEW G, NEW F, Good(d, D, r, G, F), r.phase = "bound"
  PROVE  Good(d, D, Enter(r, "reset", 0), G, F)
<1> DEFINE s == Enter(r, "reset", 0)
<1>1. r \in DriverType(d) /\ F \in BOOLEAN /\ r.owned = SetUp[d]
  BY DEF Good, Typing, Place
<1>2. "reset" \in Phases /\ 0 \in 0 .. SetUp[d] - 1
  BY Constants DEF Phases
<1>3. s \in DriverType(d) /\ s.phase = "reset" /\ s.at = 1 /\ s.owned = r.owned /\ s.alloc = r.alloc
  BY <1>1, <1>2, Entered
<1> HIDE DEF s
<1>4. Place(D, s, F, SetUp[d]) /\ Recorded(d, D, s)
  BY <1>1, <1>3 DEF Place, Recorded, Steps
<1>5. \A i \in QueueIds(d) : ~InSetUp(r, i)
  BY DEF InSetUp
<1>6. Good(d, D, s, G, F)
  BY <1>1, <1>3, <1>4, <1>5, Switched
<1> QED
  BY <1>6 DEF s

LEMMA Came ==
  ASSUME NEW d \in Devices, NEW D, NEW r, NEW G, NEW F, Good(d, D, r, G, F), r.phase = "unbound",
         NEW x \in Supported, NEW alloc \in [0 .. SetUp[d] - 1 -> Rings]
  PROVE  Good(d, D,
           [phase |-> "features", at |-> 1, queue |-> 0, owned |-> 0, seen |-> {}, accepted |-> {},
            supported |-> x \union {VERSION_1}, alloc |-> alloc], G, F)
<1> DEFINE s == [phase |-> "features", at |-> 1, queue |-> 0, owned |-> 0, seen |-> {}, accepted |-> {},
                 supported |-> x \union {VERSION_1}, alloc |-> alloc]
<1>1. F \in BOOLEAN /\ SetUp[d] \in Nat \ {0} /\ alloc \in [0 .. SetUp[d] - 1 -> RingsType]
  BY Constants DEF Good, Typing
<1>2. x \union {VERSION_1} \subseteq (UNION Supported) \union {VERSION_1}
  OBVIOUS
<1>3. /\ s.phase = "features" /\ s.at = 1 /\ s.owned = 0 /\ s.alloc = alloc
      /\ s.seen = {} /\ VERSION_1 \in s.supported
  OBVIOUS
<1>4. s \in DriverType(d)
  BY <1>1, <1>2 DEF DriverType, Phases
<1> HIDE DEF s
<1>5. Place(D, s, F, SetUp[d]) /\ Recorded(d, D, s)
  BY <1>3 DEF Place, Recorded, Steps
<1>6. \A i \in QueueIds(d) : ~InSetUp(r, i)
  BY DEF InSetUp
<1>7. Good(d, D, s, G, F)
  BY <1>1, <1>3, <1>4, <1>5, <1>6, Switched
<1> QED
  BY <1>7 DEF s

(* Which access it is tells where the driver is. *)
LEMMA Positions ==
  ASSUME NEW d \in Devices, NEW D, NEW r, NEW G, NEW F, Good(d, D, r, G, F), Busy(r)
  PROVE  LET a == Current(r)
             reading == (r.phase = "features" /\ r.at \in {4, 6}) \/ (r.phase = "queue" /\ r.at = 2)
         IN  /\ a.op = IF reading THEN "read" ELSE "write"
             /\ reading => a.reg = IF r.phase = "queue" THEN "QUEUE_READY" ELSE "DEVICE_FEATURES"
             /\ a.op = "write" /\ a.reg = "QUEUE_NUM" => r.phase = "queue" /\ r.at = 3
<1> DEFINE a == Current(r)
<1>1. /\ r.at \in 1 .. 11 /\ r.at <= Steps(r.phase) /\ r.phase \in Phases \ {"unbound", "bound"}
  BY DEF Good, Typing, Place, DriverType, Busy
<1>2. \A reg, v : W(reg, v).op = "write" /\ W(reg, v).reg = reg
  BY DEF W
<1>3. \A reg : R(reg).op = "read" /\ R(reg).reg = reg
  BY DEF R
<1>4. \A reg, half, v : W_half(reg, half, v).op = "write" /\ W_half(reg, half, v).reg = reg
  BY DEF W_half
<1>5. CASE r.phase = "features"
  <2>1. CASE r.at \in {1, 2, 11}
    <3>1. PICK v : a = W("STATUS", v)
      BY <1>5, <2>1, FeatureAccess
    <3> QED
      BY <1>2, <1>5, <2>1, <3>1
  <2>2. CASE r.at \in {4, 6}
    <3>1. a = R("DEVICE_FEATURES")
      BY <1>5, <2>2, FeatureAccess
    <3> QED
      BY <1>3, <1>5, <2>2, <3>1
  <2>3. CASE r.at \in {3, 5, 7, 8, 9, 10}
    <3>1. \E reg \in {"DEVICE_FEATURES_SEL", "DRIVER_FEATURES_SEL", "DRIVER_FEATURES"} : \E v : a = W(reg, v)
      BY <1>5, <2>3, FeatureAccess
    <3>2. a.op = "write" /\ a.reg # "QUEUE_NUM"
      BY <1>2, <3>1
    <3> QED
      BY <1>5, <2>3, <3>2
  <2> QED
    BY <1>1, <2>1, <2>2, <2>3
<1>6. CASE r.phase = "queue"
  <2>1. CASE r.at = 2
    <3>1. a = R("QUEUE_READY")
      BY <1>6, <2>1, QueueAccess
    <3> QED
      BY <1>3, <1>6, <2>1, <3>1
  <2>2. CASE r.at \in {1, 10}
    <3>1. \E reg \in {"QUEUE_SEL", "QUEUE_READY"} : \E v : a = W(reg, v)
      BY <1>6, <2>2, QueueAccess
    <3>2. a.op = "write" /\ a.reg # "QUEUE_NUM"
      BY <1>2, <3>1
    <3> QED
      BY <1>6, <2>2, <3>2
  <2>3. CASE r.at = 3
    <3>1. \E v : a = W("QUEUE_NUM", v)
      BY <1>6, <2>3, QueueAccess
    <3> QED
      BY <1>2, <1>6, <2>3, <3>1
  <2>4. CASE r.at \in 4 .. 9
    <3>1. \E name \in RingNames : r.at \in {First(name), First(name) + 1}
      BY <2>4 DEF RingNames, First
    <3>2. \E name \in RingNames : \E half, v : a = W_half(name, half, v)
      BY <1>6, <3>1, QueueAccess
    <3>3. a.op = "write" /\ a.reg # "QUEUE_NUM"
      BY <1>4, <3>2 DEF RingNames
    <3> QED
      BY <1>6, <2>4, <3>3
  <2> QED
    BY <1>1, <1>6, <2>1, <2>2, <2>3, <2>4 DEF Steps
<1>7. CASE r.phase \in {"ok", "reset", "failed", "abort", "drop"}
  <2>1. \E reg \in {"STATUS", "QUEUE_READY", "QUEUE_SEL"} : \E v : a = W(reg, v)
    BY <1>1, <1>7, OtherAccess DEF Steps
  <2>2. a.op = "write" /\ a.reg # "QUEUE_NUM"
    BY <1>2, <2>1
  <2> QED
    BY <1>7, <2>2
<1> QED
  BY <1>1, <1>5, <1>6, <1>7 DEF Phases

LEMMA Written ==
  ASSUME NEW d \in Devices, NEW D, NEW r, NEW G, NEW F, Good(d, D, r, G, F), Busy(r), Current(r).op = "write"
  PROVE  LET a == Current(r)
         IN  Good(d, write(D, a), Proceed(d, r),
               IF a.reg = "QUEUE_READY" /\ a.value = 1
               THEN [G EXCEPT ![D.queue_index] = r.alloc[D.queue_index]] ELSE G, F)
<1>1. /\ r.at \in 1 .. 11 /\ r.at <= Steps(r.phase) /\ r.phase \in Phases \ {"unbound", "bound"}
  BY DEF Good, Typing, Place, DriverType, Busy
<1>2. /\ r.phase = "features" => r.at \notin {4, 6}
      /\ r.phase = "queue" => r.at # 2
  BY Positions
<1>3. CASE r.phase = "features"
  BY <1>2, <1>3, FeaturesWritten
<1>4. CASE r.phase \in {"ok", "reset", "failed"} \/ (r.phase \in {"queue", "drop"} /\ r.at = 1)
  BY <1>4, NothingWritten
<1>5. CASE r.phase = "queue" /\ r.at \in 3 .. 9
  BY <1>5, RingsWritten
<1>6. CASE r.phase = "queue" /\ r.at = 10
  BY <1>6, QueueCompleted
<1>7. CASE r.phase = "abort" \/ (r.phase = "drop" /\ r.at = 2)
  BY <1>7, ReadyCleared
<1>8. /\ r.phase = "queue" => r.at \in {1} \union 3 .. 9 \union {10}
      /\ r.phase = "drop" => r.at \in {1, 2}
  BY <1>1, <1>2 DEF Steps
<1> QED
  BY <1>1, <1>3, <1>4, <1>5, <1>6, <1>7, <1>8 DEF Phases

-----------------------------------------------------------------------------
(* The invariant of the whole                                              *)

(* A device with a thread that calls q() has one queue. *)
OnOwnQueue(d, o) ==
  /\ o = [t \in Threads[d] |-> o[t]]
  /\ \A t \in Threads[d] : o[t] # None => o[t] = IF t = Selected THEN 0 ELSE t

Tables ==
  /\ dev = [d \in Devices |-> dev[d]] /\ driver = [d \in Devices |-> driver[d]]
  /\ given = [d \in Devices |-> given[d]] /\ failed = [d \in Devices |-> failed[d]]
  /\ on = [d \in Devices |-> on[d]]

DeviceInv(d) == Good(d, dev[d], driver[d], given[d], failed[d]) /\ OnOwnQueue(d, on[d])

RegistersInv == Tables /\ \A d \in Devices : DeviceInv(d)

LEMMA Queried ==
  ASSUME NEW d \in Devices, NEW D \in DeviceType(d), NEW t \in Threads[d]
  PROVE  q(D, t) = IF t = Selected THEN 0 ELSE t
<1>1. CASE t = Selected
  <2>1. queue_count[d] = 1 /\ SetUp[d] \in 1 .. queue_count[d]
    BY <1>1, MmioConstants DEF MmioConstants
  <2>2. D.queue_index = 0
    BY <2>1 DEF DeviceType
  <2> QED
    BY <1>1, <2>2 DEF q
<1>2. CASE t # Selected
  BY <1>2 DEF q
<1> QED
  BY <1>1, <1>2

LEMMA RegistersInit == MmioInit => RegistersInv
<1> SUFFICES ASSUME MmioInit PROVE RegistersInv
  OBVIOUS
<1>1. Tables
  BY DEF MmioInit, Tables
<1>2. ASSUME NEW d \in Devices PROVE DeviceInv(d)
  <2> DEFINE D == [status |-> {}, device_feature_sel |-> FALSE, driver_feature_sel |-> FALSE,
                   driver_features |-> {}, queue_index |-> 0,
                   queues |-> [i \in QueueIds(d) |-> [ready |-> FALSE, rings |-> NoRings]]]
             r == [phase |-> "unbound", at |-> 1, queue |-> 0, owned |-> 0, seen |-> {}, accepted |-> {},
                   supported |-> {}, alloc |-> [i \in 0 .. SetUp[d] - 1 |-> NoRings]]
             G == [i \in QueueIds(d) |-> NoRings]
  <2>1. dev[d] = D /\ driver[d] = r /\ given[d] = G /\ failed[d] = FALSE /\ on[d] = [t \in Threads[d] |-> None]
    BY DEF MmioInit, QueueIds
  <2>2. SetUp[d] \in Nat \ {0} /\ NoRings \in RingsType
    BY Constants
  <2>3. D \in DeviceType(d)
    BY <2>2 DEF DeviceType
  <2>4. r \in DriverType(d)
    BY <2>2 DEF DriverType, Phases
  <2>5. Typing(d, D, r, G, FALSE)
    BY <2>2, <2>3, <2>4 DEF Typing
  <2>6. Place(D, r, FALSE, SetUp[d]) /\ Owned(D, r) /\ Recorded(d, D, r)
    BY DEF Place, Owned, Recorded, Steps
  <2>7. Whole(d, D, r, G, FALSE)
    BY DEF Whole, InSetUp
  <2> HIDE DEF D, r, G
  <2>8. Good(d, dev[d], driver[d], given[d], failed[d])
    BY <2>1, <2>5, <2>6, <2>7 DEF Good
  <2>9. OnOwnQueue(d, on[d])
    BY <2>1 DEF OnOwnQueue
  <2> QED
    BY <2>8, <2>9 DEF DeviceInv
<1> QED
  BY <1>1, <1>2 DEF RegistersInv

(* One device moves, and stays as it must be. *)
LEMMA OneMoves ==
  ASSUME RegistersInv, NEW d \in Devices, NEW D, NEW r, NEW G, NEW F, NEW o,
         dev' = [dev EXCEPT ![d] = D], driver' = [driver EXCEPT ![d] = r],
         given' = [given EXCEPT ![d] = G], failed' = [failed EXCEPT ![d] = F], on' = [on EXCEPT ![d] = o],
         Good(d, D, r, G, F), OnOwnQueue(d, o)
  PROVE  RegistersInv'
<1>1. Tables'
  BY DEF RegistersInv, Tables
<1>2. ASSUME NEW e \in Devices PROVE DeviceInv(e)'
  <2>1. CASE e = d
    <3>1. dev'[d] = D /\ driver'[d] = r /\ given'[d] = G /\ failed'[d] = F /\ on'[d] = o
      BY DEF RegistersInv, Tables
    <3> QED
      BY <2>1, <3>1 DEF DeviceInv
  <2>2. CASE e # d
    <3>1. /\ dev'[e] = dev[e] /\ driver'[e] = driver[e] /\ given'[e] = given[e]
          /\ failed'[e] = failed[e] /\ on'[e] = on[e]
      BY <2>2 DEF RegistersInv, Tables
    <3>2. Good(e, dev[e], driver[e], given[e], failed[e]) /\ OnOwnQueue(e, on[e])
      BY DEF RegistersInv, DeviceInv
    <3> QED
      BY <3>1, <3>2 DEF DeviceInv
  <2> QED
    BY <2>1, <2>2
<1> QED
  BY <1>1, <1>2 DEF RegistersInv

LEMMA Unmoved ==
  ASSUME RegistersInv, NEW d \in Devices
  PROVE  /\ dev = [dev EXCEPT ![d] = dev[d]] /\ driver = [driver EXCEPT ![d] = driver[d]]
         /\ given = [given EXCEPT ![d] = given[d]] /\ failed = [failed EXCEPT ![d] = failed[d]]
         /\ on = [on EXCEPT ![d] = on[d]]
         /\ Good(d, dev[d], driver[d], given[d], failed[d]) /\ OnOwnQueue(d, on[d])
<1>1. ASSUME NEW f, f = [e \in Devices |-> f[e]] PROVE f = [f EXCEPT ![d] = f[d]]
  BY <1>1
<1> QED
  BY <1>1 DEF RegistersInv, Tables, DeviceInv

LEMMA DriverMoves ==
  ASSUME RegistersInv, NEW d \in Devices, NEW r, driver' = [driver EXCEPT ![d] = r],
         NEW F, failed' = [failed EXCEPT ![d] = F], dev' = dev, given' = given, on' = on,
         Good(d, dev[d], r, given[d], F)
  PROVE  RegistersInv'
<1>1. /\ dev' = [dev EXCEPT ![d] = dev[d]] /\ given' = [given EXCEPT ![d] = given[d]]
      /\ on' = [on EXCEPT ![d] = on[d]] /\ OnOwnQueue(d, on[d])
  BY Unmoved
<1> QED
  BY <1>1, OneMoves

LEMMA DriverStep ==
  ASSUME RegistersInv, NEW d \in Devices, Driver(d)
  PROVE  RegistersInv'
<1> DEFINE D == dev[d]
           r == driver[d]
           G == given[d]
           F == failed[d]
<1>0. Good(d, D, r, G, F)
  BY Unmoved
<1>1. CASE Probe(d)
  <2>1. PICK s \in Supported : \E alloc \in [0 .. SetUp[d] - 1 -> Rings] : driver' = [driver EXCEPT ![d] =
         [phase |-> "features", at |-> 1, queue |-> 0, owned |-> 0, seen |-> {}, accepted |-> {},
          supported |-> s \union {VERSION_1}, alloc |-> alloc]]
    BY <1>1 DEF Probe
  <2>2. PICK alloc \in [0 .. SetUp[d] - 1 -> Rings] : driver' = [driver EXCEPT ![d] =
         [phase |-> "features", at |-> 1, queue |-> 0, owned |-> 0, seen |-> {}, accepted |-> {},
          supported |-> s \union {VERSION_1}, alloc |-> alloc]]
    BY <2>1
  <2> DEFINE x == [phase |-> "features", at |-> 1, queue |-> 0, owned |-> 0, seen |-> {}, accepted |-> {},
                   supported |-> s \union {VERSION_1}, alloc |-> alloc]
  <2>3. Good(d, D, x, G, F)
    BY <1>0, <1>1, Came DEF Probe
  <2>4. dev' = dev /\ given' = given /\ on' = on /\ failed' = failed
    BY <1>1 DEF Probe
  <2>5. failed' = [failed EXCEPT ![d] = F]
    BY <2>4, Unmoved
  <2> HIDE DEF x
  <2> QED
    BY <2>2, <2>3, <2>4, <2>5, DriverMoves DEF x
<1>2. CASE Unbind(d)
  <2>1. Good(d, D, Enter(r, "reset", 0), G, F)
    BY <1>0, <1>2, Left DEF Unbind
  <2>3. driver' = [driver EXCEPT ![d] = Enter(r, "reset", 0)]
    BY <1>2 DEF Unbind
  <2>4. dev' = dev /\ given' = given /\ on' = on /\ failed' = failed
    BY <1>2 DEF Unbind
  <2>5. failed' = [failed EXCEPT ![d] = F]
    BY <2>4, Unmoved
  <2> QED
    BY <2>1, <2>3, <2>4, <2>5, DriverMoves
<1>3. CASE DriverWrite(d)
  <2> DEFINE a == Current(r)
             H == IF a.reg = "QUEUE_READY" /\ a.value = 1
                  THEN [G EXCEPT ![D.queue_index] = r.alloc[D.queue_index]] ELSE G
  <2>1. Good(d, write(D, a), Proceed(d, r), H, F)
    BY <1>0, <1>3, Written DEF DriverWrite, Access
  <2>2. given' = [given EXCEPT ![d] = H]
    <3>1. CASE a.reg = "QUEUE_READY" /\ a.value = 1
      BY <1>3, <3>1 DEF DriverWrite
    <3>2. CASE ~(a.reg = "QUEUE_READY" /\ a.value = 1)
      BY <1>3, <3>2, Unmoved DEF DriverWrite
    <3> QED
      BY <3>1, <3>2
  <2>3. dev' = [dev EXCEPT ![d] = write(D, a)] /\ driver' = [driver EXCEPT ![d] = Proceed(d, r)]
    BY <1>3 DEF DriverWrite
  <2>4. failed' = failed /\ on' = on
    BY <1>3 DEF DriverWrite
  <2> HIDE DEF H, a
  <2> QED
    BY <2>1, <2>2, <2>3, <2>4, OneMoves, Unmoved
<1>4. CASE DriverReadFeatures(d)
  <2>1. r.phase = "features" /\ r.at \in {4, 6}
    BY <1>0, <1>4, Positions DEF DriverReadFeatures, Access
  <2> DEFINE high == r.at = 4
             seen == r.seen \union {b + shift(high) : b \in read_features(d, D)}
             x == [r EXCEPT !.seen = seen, !.accepted = IF high THEN @ ELSE seen \intersect r.supported]
  <2>2. Good(d, D, Proceed(d, x), G, F)
    BY <1>0, <2>1, FeaturesRead
  <2>3. driver' = [driver EXCEPT ![d] = Proceed(d, x)]
    BY <1>4 DEF DriverReadFeatures
  <2> HIDE DEF x
  <2>4. dev' = dev /\ given' = given /\ on' = on /\ failed' = failed
    BY <1>4 DEF DriverReadFeatures
  <2>5. failed' = [failed EXCEPT ![d] = F]
    BY <2>4, Unmoved
  <2> QED
    BY <2>2, <2>3, <2>4, <2>5, DriverMoves
<1>5. CASE DriverReadReady(d)
  <2>1. r.phase = "queue" /\ r.at = 2
    BY <1>0, <1>5, Positions DEF DriverReadReady, Access
  <2> DEFINE x == IF D.queues[D.queue_index].ready THEN DropFrom(d, r, 0) ELSE Proceed(d, r)
  <2>2. Good(d, D, x, G, F)
    BY <1>0, <2>1, FoundTaken, FoundFree
  <2>3. driver' = [driver EXCEPT ![d] = x]
    BY <1>5 DEF DriverReadReady, q
  <2> HIDE DEF x
  <2>4. dev' = dev /\ given' = given /\ on' = on /\ failed' = failed
    BY <1>5 DEF DriverReadReady
  <2>5. failed' = [failed EXCEPT ![d] = F]
    BY <2>4, Unmoved
  <2> QED
    BY <2>2, <2>3, <2>4, <2>5, DriverMoves
<1>6. CASE DriverCannotAllocate(d)
  <2>1. r.phase = "queue" /\ r.at = 3
    BY <1>0, <1>6, Positions DEF DriverCannotAllocate, Access
  <2>2. Good(d, D, Enter(r, "abort", 0), G, TRUE)
    BY <1>0, <2>1, AllocationFailed
  <2>3. driver' = [driver EXCEPT ![d] = Enter(r, "abort", 0)] /\ failed' = [failed EXCEPT ![d] = TRUE]
    BY <1>6 DEF DriverCannotAllocate
  <2>4. dev' = dev /\ given' = given /\ on' = on
    BY <1>6 DEF DriverCannotAllocate
  <2> QED
    BY <2>2, <2>3, <2>4, DriverMoves
<1> QED
  BY <1>1, <1>2, <1>3, <1>4, <1>5, <1>6 DEF Driver

(* A thread of a device moves, nothing else does. *)
LEMMA ThreadMoves ==
  ASSUME RegistersInv, NEW d \in Devices, NEW t \in Threads[d], NEW i,
         on' = [on EXCEPT ![d] = [on[d] EXCEPT ![t] = i]],
         i # None => i = IF t = Selected THEN 0 ELSE t,
         dev' = dev, driver' = driver, given' = given, failed' = failed
  PROVE  RegistersInv'
<1> DEFINE o == [on[d] EXCEPT ![t] = i]
<1>1. /\ dev' = [dev EXCEPT ![d] = dev[d]] /\ driver' = [driver EXCEPT ![d] = driver[d]]
      /\ given' = [given EXCEPT ![d] = given[d]] /\ failed' = [failed EXCEPT ![d] = failed[d]]
      /\ Good(d, dev[d], driver[d], given[d], failed[d]) /\ OnOwnQueue(d, on[d])
  BY Unmoved
<1>2. OnOwnQueue(d, o)
  BY <1>1 DEF OnOwnQueue
<1>3. on' = [on EXCEPT ![d] = o]
  OBVIOUS
<1> HIDE DEF o
<1> QED
  BY <1>1, <1>2, <1>3, OneMoves

LEMMA ThreadStep ==
  ASSUME RegistersInv, NEW d \in Devices, NEW t \in Threads[d], Thread(d, t)
  PROVE  RegistersInv'
<1>1. CASE Take(d, t)
  <2> DEFINE i == q(dev[d], t)
  <2>1. dev[d] \in DeviceType(d)
    BY DEF RegistersInv, DeviceInv, Good, Typing
  <2>2. i = IF t = Selected THEN 0 ELSE t
    BY <2>1, Queried
  <2>3. /\ on' = [on EXCEPT ![d] = [on[d] EXCEPT ![t] = i]]
        /\ dev' = dev /\ driver' = driver /\ given' = given /\ failed' = failed
    BY <1>1 DEF Take
  <2> HIDE DEF i
  <2> QED
    BY <2>2, <2>3, ThreadMoves
<1>2. CASE Return(d, t)
  <2>1. /\ on' = [on EXCEPT ![d] = [on[d] EXCEPT ![t] = None]]
        /\ dev' = dev /\ driver' = driver /\ given' = given /\ failed' = failed
    BY <1>2 DEF Return
  <2> QED
    BY <2>1, ThreadMoves
<1>3. CASE Idle(d, t)
  <2>1. dev' = dev /\ driver' = driver /\ given' = given /\ failed' = failed /\ on' = on
    BY <1>3 DEF Idle, mmioVars
  <2> QED
    BY <2>1 DEF RegistersInv, Tables, DeviceInv
<1> QED
  BY <1>1, <1>2, <1>3 DEF Thread

LEMMA RegistersNext == RegistersInv /\ [MmioNext]_mmioVars => RegistersInv'
<1> SUFFICES ASSUME RegistersInv, [MmioNext]_mmioVars PROVE RegistersInv'
  OBVIOUS
<1>1. ASSUME NEW d \in Devices, Driver(d) PROVE RegistersInv'
  BY <1>1, DriverStep
<1>2. ASSUME NEW d \in Devices, NEW t \in Threads[d], Thread(d, t) PROVE RegistersInv'
  BY <1>2, ThreadStep
<1>3. CASE UNCHANGED mmioVars
  <2>1. dev' = dev /\ driver' = driver /\ given' = given /\ failed' = failed /\ on' = on
    BY <1>3 DEF mmioVars
  <2> QED
    BY <2>1 DEF RegistersInv, Tables, DeviceInv
<1> QED
  BY <1>1, <1>2, <1>3 DEF MmioNext

LEMMA RegistersInvariance == MmioSpec => []RegistersInv
BY RegistersInit, RegistersNext, PTL DEF MmioSpec

(* A ready queue has the size and the addresses that one driver completed, *)
(* whatever drivers came before it and however they left, although the     *)
(* registers or the words together and are never cleared (mmio.h:155-179). *)
THEOREM RingsStayWhole == MmioSpec => []RingsAreWhole
<1>1. RegistersInv => RingsAreWhole
  <2> SUFFICES ASSUME RegistersInv, NEW d \in Devices, NEW i \in 0 .. queue_count[d] - 1,
                      dev[d].queues[i].ready
               PROVE  /\ dev[d].queues[i].rings = given[d][i]
                      /\ dev[d].queues[i].rings.size = 0 => failed[d]
    BY DEF RingsAreWhole
  <2>1. Whole(d, dev[d], driver[d], given[d], failed[d])
    BY DEF RegistersInv, DeviceInv, Good
  <2> QED
    BY <2>1 DEF Whole, QueueIds
<1> QED
  BY <1>1, RegistersInvariance, PTL

(* A thread that calls q() again and again for one chain gets the same     *)
(* queue, since its device has no other (blk.h:83-143, rng.h:42-53).       *)
THEOREM ThreadsKeepTheirQueue == MmioSpec => []OneQueuePerChain
<1>1. RegistersInv => OneQueuePerChain
  <2> SUFFICES ASSUME RegistersInv, NEW d \in Devices, NEW t \in Threads[d], on[d][t] # None
               PROVE  q(dev[d], t) = on[d][t]
    BY DEF OneQueuePerChain
  <2>1. dev[d] \in DeviceType(d) /\ OnOwnQueue(d, on[d])
    BY DEF RegistersInv, DeviceInv, Good, Typing
  <2> QED
    BY <2>1, Queried DEF OnOwnQueue
<1> QED
  BY <1>1, RegistersInvariance, PTL

(* A driver that has come to an end of its setup finds each queue in       *)
(* service, with the rings it allocated and a thread that looks at it.     *)
THEOREM BoundStaysServed == MmioSpec => []BoundIsServed
<1>1. RegistersInv => BoundIsServed
  <2> SUFFICES ASSUME RegistersInv, NEW d \in Devices, driver[d].phase = "bound",
                      NEW i \in 0 .. SetUp[d] - 1
               PROVE  /\ dev[d].queues[i].ready /\ dev[d].queues[i].rings = driver[d].alloc[i]
                      /\ \E t \in Threads[d] : q(dev[d], t) = i
    BY DEF BoundIsServed
  <2>1. /\ dev[d] \in DeviceType(d) /\ Place(dev[d], driver[d], failed[d], SetUp[d])
        /\ Owned(dev[d], driver[d])
    BY DEF RegistersInv, DeviceInv, Good, Typing
  <2>2. driver[d].owned = SetUp[d]
    BY <2>1 DEF Place
  <2>3. dev[d].queues[i].ready /\ dev[d].queues[i].rings = driver[d].alloc[i]
    BY <2>1, <2>2 DEF Owned
  <2>4. \E t \in Threads[d] : q(dev[d], t) = i
    <3>1. /\ SetUp[d] \in 1 .. queue_count[d] /\ queue_count[d] \in Nat
          /\ Threads[d] = {Selected} \/ Threads[d] = 0 .. SetUp[d] - 1
          /\ Selected \in Threads[d] => queue_count[d] = 1
      BY MmioConstants DEF MmioConstants
    <3>2. CASE Threads[d] = {Selected}
      <4>1. SetUp[d] = 1
        BY <3>1, <3>2
      <4>2. i = 0 /\ Selected \in Threads[d]
        BY <3>2, <4>1
      <4> QED
        BY <2>1, <4>2, Queried
    <3>3. CASE Threads[d] = 0 .. SetUp[d] - 1
      <4>1. i \in Threads[d] /\ i # Selected
        BY <3>1, <3>3 DEF Selected
      <4> QED
        BY <2>1, <4>1, Queried
    <3> QED
      BY <3>1, <3>2, <3>3
  <2> QED
    BY <2>3, <2>4
<1> QED
  BY <1>1, RegistersInvariance, PTL

(* A bound driver has accepted what it knows of the features below bit 24  *)
(* of either word, and the device has recorded that, each in its half, and *)
(* nothing it does not have.                                               *)
THEOREM FeaturesStayRecorded == MmioSpec => []FeaturesRecorded
<1>1. RegistersInv => FeaturesRecorded
  <2> SUFFICES ASSUME RegistersInv, NEW d \in Devices, driver[d].phase = "bound"
               PROVE  /\ driver[d].accepted = driver[d].supported \intersect Offered(d)
                      /\ VERSION_1 \in driver[d].accepted
                      /\ driver[d].accepted \subseteq dev[d].driver_features
                      /\ dev[d].driver_features \subseteq features[d] \union {VERSION_1}
    BY DEF FeaturesRecorded
  <2>1. dev[d] \in DeviceType(d) /\ Recorded(d, dev[d], driver[d])
    BY DEF RegistersInv, DeviceInv, Good, Typing
  <2>2. /\ driver[d].accepted = driver[d].supported \intersect Offered(d)
        /\ VERSION_1 \in driver[d].accepted /\ driver[d].accepted \subseteq dev[d].driver_features
    BY <2>1 DEF Recorded
  <2>3. dev[d].driver_features \subseteq Has(d)
    BY <2>1 DEF DeviceType
  <2> QED
    BY <2>2, <2>3 DEF Has
<1> QED
  BY <1>1, RegistersInvariance, PTL

=============================================================================
