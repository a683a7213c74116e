----------------------------- MODULE Rings_proofs -----------------------------
(***************************************************************************)
(* Lemmas about a virtqueue and the two rings it shares with the driver,   *)
(* for the devices that extend VirtioGuest: the types of what the queue    *)
(* operators return, the entries between the indices, who holds a chain,   *)
(* and the sequences of entries that the refinement of FifoServer maps to. *)
(***************************************************************************)
EXTENDS VirtioGuest, FiniteSetTheorems, SequenceTheorems, TLAPS

-----------------------------------------------------------------------------
(* Arithmetic of ring slots                                                *)

(* A remainder is a slot of its ring. *)
LEMMA ModRange ==
  ASSUME NEW n \in Int, NEW m \in Nat \ {0}
  PROVE  n % m \in 0 .. m - 1
  OBVIOUS

(* What the assumptions say of the sizes, in the form the steps use. *)
LEMMA RingSizes ==
  /\ IdxMod \in Nat \ {0}
  /\ QUEUE_SIZE_MAX \in Nat \ {0}
  /\ QueueNum \in Nat \ {0}
  /\ QueueNum <= QUEUE_SIZE_MAX
  /\ QUEUE_SIZE_MAX <= IdxMod
  BY QueueConstants, GuestConstants DEF QueueConstants, GuestConstants

LEMMA DivMod ==
  ASSUME NEW n \in Int, NEW k \in Nat \ {0}
  PROVE  n \div k \in Int /\ n % k \in 0 .. k - 1 /\ n = k * (n \div k) + (n % k)
  OBVIOUS

LEMMA Multiples ==
  ASSUME NEW d \in Int, NEW k \in Nat \ {0}
  PROVE  (d >= 1 => k * d >= k) /\ (d <= 0 - 1 => k * d <= 0 - k) /\ (d = 0 => k * d = 0)
  OBVIOUS

LEMMA Distributes ==
  ASSUME NEW a \in Int, NEW b \in Int, NEW k \in Nat \ {0}
  PROVE  k * (a - b) = k * a - k * b /\ k * a \in Int
  OBVIOUS

LEMMA RemainderIsUnique ==
  ASSUME NEW k \in Nat \ {0}, NEW a \in Int, NEW b \in Int,
         NEW r \in 0 .. k - 1, NEW s \in 0 .. k - 1, k * a + r = k * b + s
  PROVE  r = s
<1>1. k * (a - b) = s - r /\ a - b \in Int
  <2>1. k * a \in Int /\ k * b \in Int /\ k * (a - b) = k * a - k * b
    BY Distributes
  <2> QED
    BY <2>1
<1>2. s - r < k /\ s - r > 0 - k
  OBVIOUS
<1>3. a - b = 0
  BY <1>1, <1>2, Multiples
<1>4. s - r = 0
  BY <1>1, <1>3, Multiples
<1> QED
  BY <1>4

(* Entries less than a ring apart are in different slots.                  *)
LEMMA SlotsApart ==
  ASSUME NEW k \in Nat \ {0}, NEW m \in Int, NEW n \in Int, m < n, n - m < k
  PROVE  m % k # n % k
<1> SUFFICES ASSUME m % k = n % k PROVE FALSE
  OBVIOUS
<1> DEFINE a == m \div k
           b == n \div k
<1>1. /\ a \in Int /\ b \in Int /\ m % k \in Int
      /\ m = k * a + (m % k) /\ n = k * b + (m % k)
  BY DivMod
<1> HIDE DEF a, b
<1>2. k * (b - a) = n - m /\ b - a \in Int
  <2>1. k * a \in Int /\ k * b \in Int /\ k * (b - a) = k * b - k * a
    BY <1>1, Distributes
  <2> QED
    BY <1>1, <2>1
<1> QED
  BY <1>2, Multiples

(* The 16-bit index names the same slot as the count it is short for.      *)
LEMMA WrappedSlot ==
  ASSUME NEW n \in Int
  PROVE  (n - IdxMod) % QueueNum = n % QueueNum
<1> DEFINE c == IdxMod \div QueueNum
           a == n \div QueueNum
           b == (n - IdxMod) \div QueueNum
           r == n % QueueNum
           s == (n - IdxMod) % QueueNum
<1>1. IdxMod \in Int /\ QueueNum \in Nat \ {0} /\ IdxMod % QueueNum = 0 /\ n - IdxMod \in Int
  BY RingSizes, GuestConstants DEF GuestConstants
<1>2. c \in Int /\ IdxMod = QueueNum * c
  <2>1. c \in Int /\ IdxMod = QueueNum * c + (IdxMod % QueueNum)
    BY <1>1, DivMod
  <2> HIDE DEF c
  <2>2. QueueNum * c \in Int
    BY <1>1, <2>1, Distributes
  <2> QED
    BY <1>1, <2>1, <2>2
<1>3. a \in Int /\ r \in 0 .. QueueNum - 1 /\ n = QueueNum * a + r
  BY <1>1, DivMod
<1>4. b \in Int /\ s \in 0 .. QueueNum - 1 /\ n - IdxMod = QueueNum * b + s
  BY <1>1, DivMod
<1> HIDE DEF a, b, c, r, s
<1>5. QueueNum * (a - c) + r = QueueNum * b + s
  <2>1. /\ QueueNum * (a - c) = QueueNum * a - QueueNum * c
        /\ QueueNum * a \in Int /\ QueueNum * c \in Int /\ QueueNum * b \in Int
    BY <1>1, <1>2, <1>3, <1>4, Distributes
  <2> QED
    BY <1>2, <1>3, <1>4, <2>1
<1>6. r = s
  BY <1>1, <1>2, <1>3, <1>4, <1>5, RemainderIsUnique
<1> QED
  BY <1>6 DEF r, s

-----------------------------------------------------------------------------
(* What the queue operators do to a programmed queue.                      *)

ProgrammedQueue == {r \in Queue : r.size = QueueNum}

RingsHoldHeads(r) ==
  \A s \in 0 .. QueueNum - 1 :
    r.avail_ring[s] \in Heads /\ r.used_ring[s].id \in Heads

(* A queue stays a programmed one when one of its rings is replaced. *)
LEMMA SetUsedRing ==
  ASSUME NEW r \in ProgrammedQueue, NEW f \in [0 .. QUEUE_SIZE_MAX - 1 -> [id : Word, len : Nat]]
  PROVE  LET e == [r EXCEPT !.used_ring = f]
         IN  e \in ProgrammedQueue /\ e.used_ring = f /\ e.avail_ring = r.avail_ring
  BY DEF ProgrammedQueue, Queue

LEMMA SetAvailRing ==
  ASSUME NEW r \in ProgrammedQueue, NEW f \in [0 .. QUEUE_SIZE_MAX -> Word]
  PROVE  LET e == [r EXCEPT !.avail_ring = f]
         IN  e \in ProgrammedQueue /\ e.avail_ring = f /\ e.used_ring = r.used_ring
  BY DEF ProgrammedQueue, Queue

LEMMA SetAvailIdx ==
  ASSUME NEW r \in ProgrammedQueue, NEW w \in Word
  PROVE  LET e == [r EXCEPT !.avail_idx = w]
         IN  /\ e \in ProgrammedQueue
             /\ e.avail_ring = r.avail_ring /\ e.used_ring = r.used_ring
  BY DEF ProgrammedQueue, Queue

LEMMA RingTypes ==
  ASSUME NEW r \in Queue
  PROVE  /\ r.avail_ring \in [0 .. QUEUE_SIZE_MAX -> Word]
         /\ r.used_ring \in [0 .. QUEUE_SIZE_MAX - 1 -> [id : Word, len : Nat]]
         /\ r.avail_idx \in Word /\ r.used_idx \in Word
  BY DEF Queue

(* A head is a legal 16-bit ring entry. *)
LEMMA HeadsAreWords == Heads \subseteq Word
  BY RingSizes DEF Heads, Word

(* avail_id reads a slot of the ring, hence a head. *)
LEMMA AvailIdIsHead ==
  ASSUME NEW r \in ProgrammedQueue, RingsHoldHeads(r)
  PROVE  avail_id(r) \in Heads
<1>1. r.last_avail - 1 \in Int
  BY DEF ProgrammedQueue, Queue
<1>2. (r.last_avail - 1) % QueueNum \in 0 .. QueueNum - 1
  BY <1>1, RingSizes, ModRange
<1> QED
  BY <1>2 DEF ProgrammedQueue, RingsHoldHeads, avail_id

(* Writing QUEUE_NUM and QUEUE_READY makes a queue a programmed one. *)
LEMMA SetupQueueTyped ==
  ASSUME NEW r \in Queue, RingsHoldHeads(r)
  PROVE  LET e == set_ready([r EXCEPT !.size = QueueNum])
         IN  e \in Queue /\ e.ready /\ e.size = QueueNum /\ RingsHoldHeads(e)
<1> DEFINE z == [r EXCEPT !.size = QueueNum]
<1>1. z \in Queue /\ z.size = QueueNum /\ RingsHoldHeads(z)
  BY RingSizes DEF Queue, RingsHoldHeads
<1> HIDE DEF z
<1>2. set_ready(z) \in Queue /\ set_ready(z).ready
  BY <1>1 DEF Queue, set_ready
<1>3. set_ready(z).size = QueueNum /\ RingsHoldHeads(set_ready(z))
  BY <1>1 DEF Queue, RingsHoldHeads, set_ready
<1> QED
  BY <1>2, <1>3 DEF z

(* next only moves last_avail. *)
LEMMA NextQueue ==
  ASSUME NEW r \in ProgrammedQueue, RingsHoldHeads(r)
  PROVE  next(r) \in ProgrammedQueue /\ RingsHoldHeads(next(r))
  BY DEF ProgrammedQueue, Queue, RingsHoldHeads, next

(* A used element goes to a slot of the used ring. *)
LEMMA AddUsedElemQueue ==
  ASSUME NEW r \in ProgrammedQueue, RingsHoldHeads(r), NEW h \in Heads, NEW n \in Nat
  PROVE  add_used_elem(r, h, n) \in ProgrammedQueue /\ RingsHoldHeads(add_used_elem(r, h, n))
<1> DEFINE s == r.used_idx % QueueNum
<1>1. r.used_idx \in Int
  BY RingSizes DEF ProgrammedQueue, Queue, Word
<1>2. s \in 0 .. QueueNum - 1
  BY <1>1, RingSizes, ModRange
<1>3. s \in 0 .. QUEUE_SIZE_MAX - 1
  BY <1>2, RingSizes
<1> DEFINE e == [id |-> h, len |-> n]
           f == [r.used_ring EXCEPT ![s] = e]
<1>4. add_used_elem(r, h, n) = [r EXCEPT !.used_ring = f]
  BY DEF add_used_elem, ProgrammedQueue
<1>5. e \in [id : Word, len : Nat] /\ e.id = h
  BY HeadsAreWords
<1>6. r.used_ring \in [0 .. QUEUE_SIZE_MAX - 1 -> [id : Word, len : Nat]]
  BY RingTypes DEF ProgrammedQueue
<1> HIDE DEF s, e
<1>7. /\ f \in [0 .. QUEUE_SIZE_MAX - 1 -> [id : Word, len : Nat]]
      /\ f[s] = e
      /\ \A m \in 0 .. QUEUE_SIZE_MAX - 1 : m # s => f[m] = r.used_ring[m]
  BY ONLY <1>3, <1>5, <1>6
<1> HIDE DEF f
<1>8. /\ add_used_elem(r, h, n) \in ProgrammedQueue
      /\ add_used_elem(r, h, n).used_ring = f
      /\ add_used_elem(r, h, n).avail_ring = r.avail_ring
  BY <1>4, <1>7, SetUsedRing
<1>9. ASSUME NEW m \in 0 .. QueueNum - 1
      PROVE  f[m].id \in Heads /\ r.avail_ring[m] \in Heads
  <2>1. m \in 0 .. QUEUE_SIZE_MAX - 1
    BY RingSizes
  <2> QED
    BY <1>5, <1>7, <2>1 DEF RingsHoldHeads
<1> QED
  BY <1>8, <1>9 DEF RingsHoldHeads

(* Storing an element leaves the rest of the queue alone. *)
LEMMA AddUsedElemFields ==
  ASSUME NEW r \in Queue, NEW h, NEW n
  PROVE  LET e == add_used_elem(r, h, n)
         IN  /\ e.avail_ring = r.avail_ring /\ e.avail_idx = r.avail_idx
             /\ e.last_avail = r.last_avail /\ e.used_idx = r.used_idx
             /\ e.size = r.size /\ e.ready = r.ready
<1> DEFINE f == [r.used_ring EXCEPT ![r.used_idx % r.size] = [id |-> h, len |-> n]]
<1>1. add_used_elem(r, h, n) = [r EXCEPT !.used_ring = f]
  BY DEF add_used_elem
<1> HIDE DEF f
<1> QED
  BY <1>1 DEF Queue

(* The used index stays 16 bits wide. *)
LEMMA AddUsedIdxQueue ==
  ASSUME NEW r \in ProgrammedQueue, RingsHoldHeads(r)
  PROVE  add_used_idx(r) \in ProgrammedQueue /\ RingsHoldHeads(add_used_idx(r))
<1> DEFINE w == (r.used_idx + 1) % IdxMod
<1>1. r.used_idx + 1 \in Int
  BY RingSizes DEF ProgrammedQueue, Queue, Word
<1>2. w \in Word
  BY <1>1, RingSizes, ModRange DEF Word
<1>3. add_used_idx(r) = [r EXCEPT !.used_idx = w]
  BY DEF add_used_idx
<1> HIDE DEF w
<1> QED
  BY <1>2, <1>3 DEF ProgrammedQueue, Queue, RingsHoldHeads

(* The driver's entry goes to a slot of the avail ring, never to the word  *)
(* behind it.                                                              *)
LEMMA PostAvailQueue ==
  ASSUME NEW r \in ProgrammedQueue, RingsHoldHeads(r), NEW h \in Heads
  PROVE  /\ post_avail(r, h) \in ProgrammedQueue
         /\ RingsHoldHeads(post_avail(r, h))
         /\ post_avail(r, h).avail_ring[QueueNum] = r.avail_ring[QueueNum]
<1> DEFINE s == r.avail_idx % QueueNum
           w == (r.avail_idx + 1) % IdxMod
<1>1. r.avail_idx \in Int /\ r.avail_idx + 1 \in Int
  BY RingSizes DEF ProgrammedQueue, Queue, Word
<1>2. s \in 0 .. QueueNum - 1
  BY <1>1, RingSizes, ModRange
<1>3. s \in 0 .. QUEUE_SIZE_MAX /\ s # QueueNum
  BY <1>2, RingSizes
<1>4. w \in Word
  BY <1>1, RingSizes, ModRange DEF Word
<1> DEFINE f == [r.avail_ring EXCEPT ![s] = h]
           d == [r EXCEPT !.avail_ring = f]
           e == [d EXCEPT !.avail_idx = w]
<1>5. post_avail(r, h) = e
  BY DEF post_avail, ProgrammedQueue, Queue
<1>6. h \in Word /\ r.avail_ring \in [0 .. QUEUE_SIZE_MAX -> Word]
  BY HeadsAreWords, RingTypes DEF ProgrammedQueue
<1> HIDE DEF s, w
<1>7. /\ f \in [0 .. QUEUE_SIZE_MAX -> Word]
      /\ f[s] = h
      /\ \A m \in 0 .. QUEUE_SIZE_MAX : m # s => f[m] = r.avail_ring[m]
  BY ONLY <1>3, <1>6
<1> HIDE DEF f
<1>a. d \in ProgrammedQueue /\ d.avail_ring = f /\ d.used_ring = r.used_ring
  BY ONLY r \in ProgrammedQueue, <1>7, SetAvailRing
<1> HIDE DEF d
<1>b. e \in ProgrammedQueue /\ e.avail_ring = d.avail_ring /\ e.used_ring = d.used_ring
  BY ONLY <1>4, <1>a, SetAvailIdx
<1> HIDE DEF e
<1>8. /\ post_avail(r, h) \in ProgrammedQueue
      /\ post_avail(r, h).avail_ring = f
      /\ post_avail(r, h).used_ring = r.used_ring
  BY <1>5, <1>a, <1>b
<1>9. ASSUME NEW m \in 0 .. QueueNum - 1
      PROVE  f[m] \in Heads /\ r.used_ring[m].id \in Heads
  <2>1. m \in 0 .. QUEUE_SIZE_MAX
    BY RingSizes
  <2> QED
    BY <1>7, <2>1 DEF RingsHoldHeads
<1>10. f[QueueNum] = r.avail_ring[QueueNum]
  <2>1. QueueNum \in 0 .. QUEUE_SIZE_MAX
    BY RingSizes
  <2> QED
    BY <1>3, <1>7, <2>1
<1> QED
  BY <1>8, <1>9, <1>10 DEF RingsHoldHeads

(* used_event is published behind the ring, never inside it. *)
LEMMA PublishQueue ==
  ASSUME NEW r \in ProgrammedQueue, RingsHoldHeads(r), NEW w \in Word
  PROVE  /\ publish_used_event(r, w) \in ProgrammedQueue
         /\ RingsHoldHeads(publish_used_event(r, w))
         /\ publish_used_event(r, w).avail_ring[QueueNum] = w
<1> DEFINE f == [r.avail_ring EXCEPT ![QueueNum] = w]
           e == [r EXCEPT !.avail_ring = f]
<1>1. publish_used_event(r, w) = e
  BY DEF publish_used_event, ProgrammedQueue
<1>2. QueueNum \in 0 .. QUEUE_SIZE_MAX /\ QueueNum \notin 0 .. QueueNum - 1
  BY RingSizes
<1>3. r.avail_ring \in [0 .. QUEUE_SIZE_MAX -> Word]
  BY RingTypes DEF ProgrammedQueue
<1>4. /\ f \in [0 .. QUEUE_SIZE_MAX -> Word]
      /\ f[QueueNum] = w
      /\ \A m \in 0 .. QUEUE_SIZE_MAX : m # QueueNum => f[m] = r.avail_ring[m]
  BY ONLY <1>2, <1>3, w \in Word
<1> HIDE DEF f
<1>a. e \in ProgrammedQueue /\ e.avail_ring = f /\ e.used_ring = r.used_ring
  BY ONLY r \in ProgrammedQueue, <1>4, SetAvailRing
<1> HIDE DEF e
<1>5. /\ publish_used_event(r, w) \in ProgrammedQueue
      /\ publish_used_event(r, w).avail_ring = f
      /\ publish_used_event(r, w).used_ring = r.used_ring
  BY <1>1, <1>a
<1>6. ASSUME NEW m \in 0 .. QueueNum - 1
      PROVE  f[m] \in Heads /\ r.used_ring[m].id \in Heads
  <2>1. m \in 0 .. QUEUE_SIZE_MAX /\ m # QueueNum
    BY RingSizes
  <2> QED
    BY <1>4, <2>1 DEF RingsHoldHeads
<1> QED
  BY <1>4, <1>5, <1>6 DEF RingsHoldHeads

(* An element the driver reaps names a head. *)
LEMMA UsedElemIsHead ==
  ASSUME NEW r \in ProgrammedQueue, RingsHoldHeads(r), NEW w \in Word
  PROVE  used_elem(r, w).id \in Heads
<1>1. w \in Int
  BY RingSizes DEF Word
<1>2. w % QueueNum \in 0 .. QueueNum - 1
  BY <1>1, RingSizes, ModRange
<1> QED
  BY <1>2 DEF ProgrammedQueue, RingsHoldHeads, used_elem

(* The interrupt line keeps its type whatever level is set. *)
LEMMA SetLevelLine ==
  ASSUME NEW l \in Line, NEW b \in BOOLEAN
  PROVE  set_level(l, b) \in Line
  BY DEF Line, set_level

(* Draining the eventfd keeps the line's type. *)
LEMMA DrainedLine ==
  ASSUME NEW l \in Line
  PROVE  drain_events(l) \in Line
  BY DEF Line, drain_events

-----------------------------------------------------------------------------
(* Who holds a chain                                                       *)

AvailAt(r, n) == r.avail_ring[n % QueueNum]
UsedAt(r, n) == r.used_ring[n % QueueNum].id

(* r is the queue, F the heads the driver has, p the number of chains it   *)
(* has posted, l the used index it has reached, s how many chains blk::run *)
(* is serving, 0 or 1.                                                     *)

(* There are no more chains under way than the ring has slots, so no slot  *)
(* is written while its last entry is still to be read; and avail->idx     *)
(* wraps once at most, because next() stalls then.  An unknown request is  *)
(* never returned, hence the inequality.                                   *)
Counted(r, F, p, l, s) ==
  /\ IsFiniteSet(F)
  /\ r.last_avail <= p
  /\ r.avail_idx = IF p < IdxMod THEN p ELSE p - IdxMod
  /\ Cardinality(F) + (p - r.last_avail) + s + (r.used_idx - l) <= QueueNum

NotTaken(r, p) == r.last_avail .. p - 1
NotReaped(r, l) == l .. r.used_idx - 1

Apart(r, F, p, l) ==
  /\ \A n \in NotTaken(r, p) : AvailAt(r, n) \notin F
  /\ \A n \in NotReaped(r, l) : UsedAt(r, n) \notin F
  /\ \A n, m \in NotTaken(r, p) : n # m => AvailAt(r, n) # AvailAt(r, m)
  /\ \A n, m \in NotReaped(r, l) : n # m => UsedAt(r, n) # UsedAt(r, m)
  /\ \A n \in NotTaken(r, p), m \in NotReaped(r, l) : AvailAt(r, n) # UsedAt(r, m)

(* c is in none of these places.                                           *)
Alone(r, F, p, l, c) ==
  /\ c \notin F
  /\ \A n \in NotTaken(r, p) : AvailAt(r, n) # c
  /\ \A n \in NotReaped(r, l) : UsedAt(r, n) # c

-----------------------------------------------------------------------------
(* What the operators do to the entries                                    *)

LEMMA PostedEntries ==
  ASSUME NEW r \in ProgrammedQueue, NEW h \in Heads, NEW p \in Nat,
         r.avail_idx % QueueNum = p % QueueNum
  PROVE  LET e == post_avail(r, h)
         IN  /\ AvailAt(e, p) = h
             /\ \A n \in Int : n < p /\ p - n < QueueNum => AvailAt(e, n) = AvailAt(r, n)
             /\ \A n \in Int : UsedAt(e, n) = UsedAt(r, n)
             /\ e.last_avail = r.last_avail /\ e.used_idx = r.used_idx
             /\ e.avail_idx = (r.avail_idx + 1) % IdxMod
<1> DEFINE e == post_avail(r, h)
           s == p % QueueNum
<1>1. /\ e.avail_ring = [r.avail_ring EXCEPT ![s] = h] /\ e.used_ring = r.used_ring
      /\ e.last_avail = r.last_avail /\ e.used_idx = r.used_idx
      /\ e.avail_idx = (r.avail_idx + 1) % IdxMod
      /\ r.avail_ring \in [0 .. QUEUE_SIZE_MAX -> Word]
  BY DEF post_avail, ProgrammedQueue, Queue
<1>0. p \in Int /\ QueueNum \in Nat \ {0} /\ \A n \in Int : n % QueueNum \in 0 .. QUEUE_SIZE_MAX
  BY RingSizes, ModRange
<1>2. s \in 0 .. QUEUE_SIZE_MAX
  <2>1. s \in 0 .. QueueNum - 1
    BY <1>0, ModRange
  <2> QED
    BY <2>1, RingSizes
<1>3. \A n \in Int : n < p /\ p - n < QueueNum => n % QueueNum # s
  BY <1>0, SlotsApart
<1> HIDE DEF e, s
<1>4. e.avail_ring[s] = h /\ \A t \in 0 .. QUEUE_SIZE_MAX : t # s => e.avail_ring[t] = r.avail_ring[t]
  BY <1>1, <1>2
<1>5. AvailAt(e, p) = h
  BY <1>4 DEF AvailAt, s
<1>6. \A n \in Int : n < p /\ p - n < QueueNum => AvailAt(e, n) = AvailAt(r, n)
  BY <1>0, <1>3, <1>4 DEF AvailAt
<1>7. \A n \in Int : UsedAt(e, n) = UsedAt(r, n)
  BY <1>1 DEF UsedAt
<1> QED
  BY <1>1, <1>5, <1>6, <1>7 DEF e

LEMMA UsedEntries ==
  ASSUME NEW r \in ProgrammedQueue, NEW h, NEW l
  PROVE  LET e == add_used_elem(r, h, l)
         IN  /\ UsedAt(e, r.used_idx) = h
             /\ \A n \in Int : n < r.used_idx /\ r.used_idx - n < QueueNum
                                 => UsedAt(e, n) = UsedAt(r, n)
             /\ \A n \in Int : AvailAt(e, n) = AvailAt(r, n)
             /\ e.last_avail = r.last_avail /\ e.used_idx = r.used_idx
             /\ e.avail_idx = r.avail_idx
<1> DEFINE e == add_used_elem(r, h, l)
           s == r.used_idx % QueueNum
           d == [id |-> h, len |-> l]
<1>1. /\ e.used_ring = [r.used_ring EXCEPT ![s] = d] /\ e.avail_ring = r.avail_ring
      /\ e.last_avail = r.last_avail /\ e.used_idx = r.used_idx /\ e.avail_idx = r.avail_idx
      /\ DOMAIN r.used_ring = 0 .. QUEUE_SIZE_MAX - 1
  BY DEF add_used_elem, ProgrammedQueue, Queue
<1>2. r.used_idx \in Int
  BY RingSizes DEF ProgrammedQueue, Queue, Word
<1>3. s \in 0 .. QUEUE_SIZE_MAX - 1
  <2>1. s \in 0 .. QueueNum - 1
    BY <1>2, RingSizes, ModRange
  <2> QED
    BY <2>1, RingSizes
<1>4. \A n \in Int : n < r.used_idx /\ r.used_idx - n < QueueNum => n % QueueNum # s
  BY <1>2, RingSizes, SlotsApart
<1>5. d.id = h
  OBVIOUS
<1> HIDE DEF e, s, d
<1>6. e.used_ring[s] = d /\ \A t \in 0 .. QUEUE_SIZE_MAX - 1 : t # s => e.used_ring[t] = r.used_ring[t]
  BY <1>1, <1>3
<1>7. \A n \in Int : n % QueueNum \in 0 .. QUEUE_SIZE_MAX - 1
  <2>1. \A n \in Int : n % QueueNum \in 0 .. QueueNum - 1
    BY RingSizes, ModRange
  <2> QED
    BY <2>1, RingSizes
<1>8. UsedAt(e, r.used_idx) = h
  BY <1>5, <1>6 DEF UsedAt, s
<1>9. \A n \in Int : n < r.used_idx /\ r.used_idx - n < QueueNum => UsedAt(e, n) = UsedAt(r, n)
  BY <1>4, <1>6, <1>7 DEF UsedAt
<1>10. \A n \in Int : AvailAt(e, n) = AvailAt(r, n)
  BY <1>1 DEF AvailAt
<1> QED
  BY <1>1, <1>8, <1>9, <1>10 DEF e

(* The length stored beside the head of an element. *)
LenAt(r, n) == r.used_ring[n % QueueNum].len

LEMMA UsedLengths ==
  ASSUME NEW r \in ProgrammedQueue, NEW h, NEW l
  PROVE  LET e == add_used_elem(r, h, l)
         IN  /\ LenAt(e, r.used_idx) = l
             /\ \A n \in Int : n < r.used_idx /\ r.used_idx - n < QueueNum
                                 => LenAt(e, n) = LenAt(r, n)
<1> DEFINE e == add_used_elem(r, h, l)
           s == r.used_idx % QueueNum
           d == [id |-> h, len |-> l]
<1>1. /\ e.used_ring = [r.used_ring EXCEPT ![s] = d]
      /\ DOMAIN r.used_ring = 0 .. QUEUE_SIZE_MAX - 1
  BY DEF add_used_elem, ProgrammedQueue, Queue
<1>2. r.used_idx \in Int
  BY RingSizes DEF ProgrammedQueue, Queue, Word
<1>3. \A n \in Int : n % QueueNum \in 0 .. QUEUE_SIZE_MAX - 1
  <2>1. \A n \in Int : n % QueueNum \in 0 .. QueueNum - 1
    BY RingSizes, ModRange
  <2> QED
    BY <2>1, RingSizes
<1>4. \A n \in Int : n < r.used_idx /\ r.used_idx - n < QueueNum => n % QueueNum # s
  BY <1>2, RingSizes, SlotsApart
<1>5. d.len = l /\ s \in 0 .. QUEUE_SIZE_MAX - 1
  BY <1>2, <1>3
<1> HIDE DEF e, s, d
<1>6. e.used_ring[s] = d /\ \A t \in 0 .. QUEUE_SIZE_MAX - 1 : t # s => e.used_ring[t] = r.used_ring[t]
  BY <1>1, <1>5
<1>7. LenAt(e, r.used_idx) = l
  BY <1>5, <1>6 DEF LenAt, s
<1>8. \A n \in Int : n < r.used_idx /\ r.used_idx - n < QueueNum => LenAt(e, n) = LenAt(r, n)
  BY <1>3, <1>4, <1>6 DEF LenAt
<1> QED
  BY <1>7, <1>8 DEF e

(* used_event lies behind the entries.                                     *)
LEMMA PublishedEntries ==
  ASSUME NEW r \in ProgrammedQueue, NEW w \in Word
  PROVE  LET e == publish_used_event(r, w)
         IN  /\ \A n \in Int : AvailAt(e, n) = AvailAt(r, n) /\ UsedAt(e, n) = UsedAt(r, n)
             /\ e.last_avail = r.last_avail /\ e.used_idx = r.used_idx
             /\ e.avail_idx = r.avail_idx
<1> DEFINE e == publish_used_event(r, w)
<1>1. /\ e.avail_ring = [r.avail_ring EXCEPT ![QueueNum] = w] /\ e.used_ring = r.used_ring
      /\ e.last_avail = r.last_avail /\ e.used_idx = r.used_idx /\ e.avail_idx = r.avail_idx
  BY DEF publish_used_event, ProgrammedQueue, Queue
<1> HIDE DEF e
<1>2. \A n \in Int : n % QueueNum \in 0 .. QueueNum - 1
  BY RingSizes, ModRange
<1>3. \A t \in 0 .. QueueNum - 1 : e.avail_ring[t] = r.avail_ring[t]
  BY <1>1, RingSizes DEF ProgrammedQueue, Queue
<1> QED
  BY <1>1, <1>2, <1>3 DEF e, AvailAt, UsedAt

(* A step that moves no entry and none of the indices.                     *)
LEMMA SameRings ==
  ASSUME NEW r \in Queue, NEW e, NEW F, NEW p \in Nat, NEW l \in Nat,
         \A n \in Int : AvailAt(e, n) = AvailAt(r, n) /\ UsedAt(e, n) = UsedAt(r, n),
         e.last_avail = r.last_avail, e.used_idx = r.used_idx, e.avail_idx = r.avail_idx
  PROVE  /\ \A s : Counted(r, F, p, l, s) => Counted(e, F, p, l, s)
         /\ Apart(r, F, p, l) => Apart(e, F, p, l)
         /\ \A c : Alone(r, F, p, l, c) => Alone(e, F, p, l, c)
         /\ AvailAt(e, e.last_avail - 1) = AvailAt(r, r.last_avail - 1)
         /\ UsedAt(e, e.used_idx) = UsedAt(r, r.used_idx)
<1>1. r.last_avail \in Int /\ r.used_idx \in Int /\ r.last_avail - 1 \in Int
  BY RingSizes DEF Queue, Word
<1>2. NotTaken(e, p) = NotTaken(r, p) /\ NotReaped(e, l) = NotReaped(r, l)
      /\ NotTaken(r, p) \subseteq Int /\ NotReaped(r, l) \subseteq Int
  BY <1>1 DEF NotTaken, NotReaped
<1>3. \A s : Counted(r, F, p, l, s) => Counted(e, F, p, l, s)
  BY DEF Counted
<1>4. Apart(r, F, p, l) => Apart(e, F, p, l)
  BY <1>2 DEF Apart
<1>5. \A c : Alone(r, F, p, l, c) => Alone(e, F, p, l, c)
  BY <1>2 DEF Alone
<1>6. /\ AvailAt(e, e.last_avail - 1) = AvailAt(r, r.last_avail - 1)
      /\ UsedAt(e, e.used_idx) = UsedAt(r, r.used_idx)
  BY <1>1
<1> QED
  BY <1>3, <1>4, <1>5, <1>6

(* The driver posts a chain: it moves from F to the avail ring.            *)
LEMMA PostStep ==
  ASSUME NEW r, NEW F, NEW h, NEW p, NEW l, NEW s,
         r \in ProgrammedQueue, F \in SUBSET Heads, h \in F, p \in Nat, l \in Nat, s \in {0, 1},
         l <= r.used_idx, r.last_avail <= IdxMod - 1, Counted(r, F, p, l, s), Apart(r, F, p, l)
  PROVE  LET e == post_avail(r, h)
         IN  /\ Counted(e, F \ {h}, p + 1, l, s)
             /\ Apart(e, F \ {h}, p + 1, l)
             /\ \A c : Alone(r, F, p, l, c) => Alone(e, F \ {h}, p + 1, l, c)
             /\ s = 1 => AvailAt(e, e.last_avail - 1) = AvailAt(r, r.last_avail - 1)
             /\ UsedAt(e, e.used_idx) = UsedAt(r, r.used_idx)
<1> DEFINE e == post_avail(r, h)
<1>1. /\ IdxMod \in Nat \ {0} /\ QueueNum \in Nat \ {0} /\ QueueNum <= IdxMod
      /\ r.last_avail \in Nat /\ r.used_idx \in Nat /\ r.avail_idx \in Word
      /\ h \in Heads
  BY RingSizes DEF ProgrammedQueue, Queue, Word
<1>2. /\ IsFiniteSet(F) /\ Cardinality(F) \in Nat /\ Cardinality(F) >= 1
      /\ IsFiniteSet(F \ {h}) /\ Cardinality(F \ {h}) = Cardinality(F) - 1
  <2>1. /\ IsFiniteSet(F) /\ Cardinality(F) \in Nat
        /\ IsFiniteSet(F \ {h}) /\ Cardinality(F \ {h}) = Cardinality(F) - 1
        /\ Cardinality(F \ {h}) \in Nat
    BY FS_RemoveElement, FS_CardinalityType DEF Counted
  <2> QED
    BY <2>1
<1>3. p - r.last_avail + s + 1 <= QueueNum /\ p + 1 <= 2 * IdxMod - 1 /\ r.last_avail <= p
  BY <1>1, <1>2 DEF Counted
<1>4. r.avail_idx = IF p < IdxMod THEN p ELSE p - IdxMod
  BY DEF Counted
<1>5. r.avail_idx % QueueNum = p % QueueNum
  BY <1>4, WrappedSlot
<1>6. /\ AvailAt(e, p) = h
      /\ \A n \in Int : n < p /\ p - n < QueueNum => AvailAt(e, n) = AvailAt(r, n)
      /\ \A n \in Int : UsedAt(e, n) = UsedAt(r, n)
      /\ e.last_avail = r.last_avail /\ e.used_idx = r.used_idx
      /\ e.avail_idx = (r.avail_idx + 1) % IdxMod
  BY <1>1, <1>5, PostedEntries
<1> HIDE DEF e
<1>7. e.avail_idx = IF p + 1 < IdxMod THEN p + 1 ELSE p + 1 - IdxMod
  <2>1. CASE p + 1 = IdxMod
    <3>1. r.avail_idx + 1 = IdxMod /\ IdxMod % IdxMod = 0
      BY <1>1, <1>4, <2>1
    <3> QED
      BY <1>1, <1>6, <2>1, <3>1
  <2>2. CASE p + 1 # IdxMod
    <3>1. r.avail_idx + 1 \in 0 .. IdxMod - 1
      BY <1>1, <1>3, <1>4, <2>2
    <3>2. (r.avail_idx + 1) % IdxMod = r.avail_idx + 1
      BY <1>1, <3>1
    <3> QED
      BY <1>1, <1>3, <1>4, <1>6, <2>2, <3>2
  <2> QED
    BY <2>1, <2>2
<1>8. Counted(e, F \ {h}, p + 1, l, s)
  BY <1>1, <1>2, <1>3, <1>6, <1>7 DEF Counted
<1>9. /\ \A n \in NotTaken(r, p) : n \in Int /\ AvailAt(e, n) = AvailAt(r, n) /\ n # p
      /\ \A n \in NotTaken(e, p + 1) : n \in NotTaken(r, p) \/ n = p
  BY <1>1, <1>3, <1>6 DEF NotTaken
<1>10. NotReaped(e, l) = NotReaped(r, l)
       /\ \A n \in NotReaped(r, l) : UsedAt(e, n) = UsedAt(r, n)
  BY <1>1, <1>6 DEF NotReaped
<1>11. Apart(e, F \ {h}, p + 1, l)
  <2>1. \A n \in NotTaken(e, p + 1) : AvailAt(e, n) \notin F \ {h}
    BY <1>6, <1>9 DEF Apart
  <2>2. \A n \in NotReaped(e, l) : UsedAt(e, n) \notin F \ {h}
    BY <1>10 DEF Apart
  <2>3. \A n, m \in NotTaken(e, p + 1) : n # m => AvailAt(e, n) # AvailAt(e, m)
    BY <1>6, <1>9 DEF Apart
  <2>4. \A n, m \in NotReaped(e, l) : n # m => UsedAt(e, n) # UsedAt(e, m)
    BY <1>10 DEF Apart
  <2>5. \A n \in NotTaken(e, p + 1), m \in NotReaped(e, l) : AvailAt(e, n) # UsedAt(e, m)
    BY <1>6, <1>9, <1>10 DEF Apart
  <2> QED
    BY <2>1, <2>2, <2>3, <2>4, <2>5 DEF Apart
<1>12. ASSUME NEW c, Alone(r, F, p, l, c) PROVE Alone(e, F \ {h}, p + 1, l, c)
  BY <1>6, <1>9, <1>10, <1>12 DEF Alone
<1>13. s = 1 => AvailAt(e, e.last_avail - 1) = AvailAt(r, r.last_avail - 1)
  BY <1>1, <1>3, <1>6
<1>14. UsedAt(e, e.used_idx) = UsedAt(r, r.used_idx)
  BY <1>1, <1>6
<1> QED
  BY <1>8, <1>11, <1>12, <1>13, <1>14 DEF e

(* next() hands the oldest chain to blk::run.                              *)
LEMMA TakeStep ==
  ASSUME NEW r \in ProgrammedQueue, NEW F, NEW p \in Nat, NEW l \in Nat,
         has_next(r), Counted(r, F, p, l, 0), Apart(r, F, p, l)
  PROVE  LET e == next(r)
             c == AvailAt(r, r.last_avail)
         IN  /\ Counted(e, F, p, l, 1) /\ Apart(e, F, p, l)
             /\ Alone(e, F, p, l, c) /\ AvailAt(e, e.last_avail - 1) = c
<1> DEFINE e == next(r)
           c == AvailAt(r, r.last_avail)
<1>1. r.last_avail \in Nat /\ r.used_idx \in Nat /\ IdxMod \in Nat
  BY RingSizes DEF ProgrammedQueue, Queue, Word
<1>2. /\ e.last_avail = r.last_avail + 1 /\ e.used_idx = r.used_idx
      /\ e.avail_idx = r.avail_idx
      /\ \A n : AvailAt(e, n) = AvailAt(r, n) /\ UsedAt(e, n) = UsedAt(r, n)
  BY DEF next, ProgrammedQueue, Queue, AvailAt, UsedAt
<1> HIDE DEF e
<1>3. Cardinality(F) \in Nat
  BY FS_CardinalityType DEF Counted
<1>4. r.last_avail < p
  BY <1>1 DEF has_next, Counted
<1>5. Counted(e, F, p, l, 1)
  BY <1>1, <1>2, <1>3, <1>4 DEF Counted
<1>6. /\ NotReaped(e, l) = NotReaped(r, l) /\ NotTaken(e, p) \subseteq NotTaken(r, p)
      /\ r.last_avail \in NotTaken(r, p) /\ r.last_avail \notin NotTaken(e, p)
  BY <1>1, <1>2, <1>4 DEF NotReaped, NotTaken
<1>7. Apart(e, F, p, l)
  BY <1>2, <1>6 DEF Apart
<1>8. Alone(e, F, p, l, c)
  <2>1. c \notin F
    BY <1>6 DEF Apart
  <2>2. \A n \in NotTaken(e, p) : AvailAt(e, n) # c
    BY <1>2, <1>6 DEF Apart
  <2>3. \A n \in NotReaped(e, l) : UsedAt(e, n) # c
    BY <1>2, <1>6 DEF Apart
  <2> QED
    BY <2>1, <2>2, <2>3 DEF Alone
<1>9. AvailAt(e, e.last_avail - 1) = c
  BY <1>1, <1>2
<1> QED
  BY <1>5, <1>7, <1>8, <1>9 DEF e

(* add_used stores the element where no other waits to be reaped.          *)
LEMMA ElemStep ==
  ASSUME NEW r \in ProgrammedQueue, NEW F, NEW p \in Nat, NEW l \in Nat, NEW h, NEW n0,
         l <= r.used_idx, Counted(r, F, p, l, 1), Apart(r, F, p, l)
  PROVE  LET e == add_used_elem(r, h, n0)
         IN  /\ Counted(e, F, p, l, 1) /\ Apart(e, F, p, l)
             /\ \A c : Alone(r, F, p, l, c) => Alone(e, F, p, l, c)
             /\ AvailAt(e, e.last_avail - 1) = AvailAt(r, r.last_avail - 1)
             /\ UsedAt(e, e.used_idx) = h
<1> DEFINE e == add_used_elem(r, h, n0)
<1>1. /\ r.last_avail \in Nat /\ r.used_idx \in Nat /\ QueueNum \in Nat
      /\ Cardinality(F) \in Nat
  BY RingSizes, FS_CardinalityType DEF ProgrammedQueue, Queue, Word, Counted
<1>2. /\ UsedAt(e, r.used_idx) = h
      /\ \A n \in Int : n < r.used_idx /\ r.used_idx - n < QueueNum
                          => UsedAt(e, n) = UsedAt(r, n)
      /\ \A n \in Int : AvailAt(e, n) = AvailAt(r, n)
      /\ e.last_avail = r.last_avail /\ e.used_idx = r.used_idx
      /\ e.avail_idx = r.avail_idx
  BY UsedEntries
<1> HIDE DEF e
<1>3. Counted(e, F, p, l, 1)
  BY <1>2 DEF Counted
<1>4. r.used_idx - l < QueueNum
  BY <1>1 DEF Counted
<1>5. /\ NotTaken(e, p) = NotTaken(r, p) /\ NotReaped(e, l) = NotReaped(r, l)
      /\ \A n \in NotTaken(r, p) : AvailAt(e, n) = AvailAt(r, n)
      /\ \A n \in NotReaped(r, l) : UsedAt(e, n) = UsedAt(r, n)
  BY <1>1, <1>2, <1>4 DEF NotTaken, NotReaped
<1>6. Apart(e, F, p, l)
  BY <1>5 DEF Apart
<1>7. ASSUME NEW c, Alone(r, F, p, l, c) PROVE Alone(e, F, p, l, c)
  BY <1>5, <1>7 DEF Alone
<1> QED
  BY <1>1, <1>2, <1>3, <1>6, <1>7 DEF e

(* Its index moves: the chain is the driver's to reap.                     *)
LEMMA ReturnStep ==
  ASSUME NEW r \in ProgrammedQueue, NEW F, NEW p \in Nat, NEW l \in Nat, NEW c,
         r.used_idx + 1 \in Word,
         Counted(r, F, p, l, 1), Apart(r, F, p, l), Alone(r, F, p, l, c),
         UsedAt(r, r.used_idx) = c
  PROVE  Counted(add_used_idx(r), F, p, l, 0) /\ Apart(add_used_idx(r), F, p, l)
<1> DEFINE e == add_used_idx(r)
<1>1. /\ r.last_avail \in Nat /\ r.used_idx \in Nat /\ QueueNum \in Nat
      /\ Cardinality(F) \in Nat
  BY RingSizes, FS_CardinalityType DEF ProgrammedQueue, Queue, Word, Counted
<1>2. (r.used_idx + 1) % IdxMod = r.used_idx + 1
  BY RingSizes DEF Word
<1>3. /\ e.last_avail = r.last_avail /\ e.used_idx = r.used_idx + 1
      /\ e.avail_idx = r.avail_idx
      /\ \A n : AvailAt(e, n) = AvailAt(r, n) /\ UsedAt(e, n) = UsedAt(r, n)
  BY <1>2 DEF add_used_idx, ProgrammedQueue, Queue, AvailAt, UsedAt
<1> HIDE DEF e
<1>4. Counted(e, F, p, l, 0)
  BY <1>1, <1>3 DEF Counted
<1>5. /\ NotTaken(e, p) = NotTaken(r, p)
      /\ \A n \in NotReaped(e, l) : n \in NotReaped(r, l) \/ n = r.used_idx
  BY <1>1, <1>3 DEF NotTaken, NotReaped
<1>6. Apart(e, F, p, l)
  <2>1. \A n \in NotTaken(e, p) : AvailAt(e, n) \notin F
    BY <1>3, <1>5 DEF Apart
  <2>2. \A n \in NotReaped(e, l) : UsedAt(e, n) \notin F
    BY <1>3, <1>5 DEF Apart, Alone
  <2>3. \A n, m \in NotTaken(e, p) : n # m => AvailAt(e, n) # AvailAt(e, m)
    BY <1>3, <1>5 DEF Apart
  <2>4. \A n, m \in NotReaped(e, l) : n # m => UsedAt(e, n) # UsedAt(e, m)
    BY <1>3, <1>5 DEF Apart, Alone
  <2>5. \A n \in NotTaken(e, p), m \in NotReaped(e, l) : AvailAt(e, n) # UsedAt(e, m)
    BY <1>3, <1>5 DEF Apart, Alone
  <2> QED
    BY <2>1, <2>2, <2>3, <2>4, <2>5 DEF Apart
<1> QED
  BY <1>4, <1>6 DEF e

(* The driver reaps the oldest chain.                                      *)
LEMMA ReapStep ==
  ASSUME NEW r, NEW F, NEW p, NEW l, NEW s,
         r \in ProgrammedQueue, p \in Nat, l \in Nat, s \in {0, 1}, l < r.used_idx,
         Counted(r, F, p, l, s), Apart(r, F, p, l)
  PROVE  LET c == UsedAt(r, l)
         IN  /\ Counted(r, F \cup {c}, p, l + 1, s) /\ Apart(r, F \cup {c}, p, l + 1)
             /\ \A d : Alone(r, F, p, l, d) => Alone(r, F \cup {c}, p, l + 1, d)
<1> DEFINE c == UsedAt(r, l)
           G == F \cup {c}
<1>1. /\ r.last_avail \in Nat /\ r.used_idx \in Nat /\ QueueNum \in Nat
      /\ Cardinality(F) \in Nat
  BY RingSizes, FS_CardinalityType DEF ProgrammedQueue, Queue, Word, Counted
<1>2. IsFiniteSet(G) /\ Cardinality(G) \in Nat /\ Cardinality(G) <= Cardinality(F) + 1
  <2>1. /\ IsFiniteSet(G)
        /\ Cardinality(G) = IF c \in F THEN Cardinality(F) ELSE Cardinality(F) + 1
    BY FS_AddElement DEF Counted
  <2> QED
    BY <1>1, <2>1
<1>3. /\ NotReaped(r, l + 1) \subseteq NotReaped(r, l)
      /\ l \in NotReaped(r, l) /\ l \notin NotReaped(r, l + 1)
  BY <1>1 DEF NotReaped
<1>4. Counted(r, G, p, l + 1, s)
  <2> HIDE DEF G
  <2> QED
    BY <1>1, <1>2 DEF Counted
<1>5. Apart(r, G, p, l + 1)
  BY <1>3 DEF Apart
<1>6. ASSUME NEW d, Alone(r, F, p, l, d) PROVE Alone(r, G, p, l + 1, d)
  BY <1>3, <1>6 DEF Alone
<1> QED
  BY <1>4, <1>5, <1>6

-----------------------------------------------------------------------------
(* The entries as sequences                                                *)

(* The entries of f from a up to and without b, as a sequence.             *)
Window(f, a, b) == [k \in 1 .. b - a |-> f[a + k - 1]]

(* The entries of a ring, by their count. *)
Entries == [Int -> Heads]

Avails(r) == [n \in Int |-> AvailAt(r, n)]
Useds(r) == [n \in Int |-> UsedAt(r, n)]

LEMMA WindowSeq ==
  ASSUME NEW f, NEW a, NEW b, f \in Entries, a \in Int, b \in Int, a <= b
  PROVE  Window(f, a, b) \in Seq(Heads) /\ Len(Window(f, a, b)) = b - a
<1>1. b - a \in Nat
  OBVIOUS
<1>2. \A k \in 1 .. b - a : f[a + k - 1] \in Heads
  BY DEF Entries
<1>3. Window(f, a, b) \in [1 .. b - a -> Heads]
  BY <1>2 DEF Window
<1>4. Window(f, a, b) \in Seq(Heads)
  BY <1>1, <1>3
<1>5. Len(Window(f, a, b)) = b - a
  BY <1>1, <1>3, <1>4, LenProperties
<1> QED
  BY <1>4, <1>5

LEMMA WindowSame ==
  ASSUME NEW f, NEW g, NEW a, NEW b,
         a \in Int, b \in Int, \A n \in a .. b - 1 : f[n] = g[n]
  PROVE  Window(f, a, b) = Window(g, a, b)
<1>1. \A k \in 1 .. b - a : f[a + k - 1] = g[a + k - 1]
  <2> SUFFICES ASSUME NEW k \in 1 .. b - a PROVE f[a + k - 1] = g[a + k - 1]
    OBVIOUS
  <2>1. a + k - 1 \in a .. b - 1
    OBVIOUS
  <2> QED
    BY <2>1
<1> QED
  BY <1>1 DEF Window

(* t is s with x at its end, and s is x followed by t.                     *)
Pushed(s, x, t) == t = Append(s, x)
Popped(s, x, t) == s # <<>> /\ Head(s) = x /\ Tail(s) = t

LEMMA WindowAppend ==
  ASSUME NEW f, NEW g, NEW a, NEW b, NEW d,
         f \in Entries, g \in Entries, a \in Int, b \in Int, a <= b, d \in Int, d - b = 1,
         \A n \in a .. b - 1 : f[n] = g[n]
  PROVE  Pushed(Window(f, a, b), g[b], Window(g, a, d))
<1> DEFINE u == Window(f, a, b)
           v == Window(g, a, d)
           w == Append(u, g[b])
<1>1. /\ u \in Seq(Heads) /\ Len(u) = b - a
      /\ \A k \in 1 .. b - a : u[k] = f[a + k - 1]
  <2>1. u \in Seq(Heads) /\ Len(u) = b - a
    BY WindowSeq
  <2> QED
    BY <2>1 DEF Window
<1>2. /\ v \in Seq(Heads) /\ Len(v) = b - a + 1
      /\ \A k \in 1 .. b - a + 1 : v[k] = g[a + k - 1]
  <2>1. d \in Int /\ a <= d /\ d - a = b - a + 1
    OBVIOUS
  <2>2. v \in Seq(Heads) /\ Len(v) = d - a
    BY ONLY <2>1, g \in Entries, a \in Int, WindowSeq
  <2> QED
    BY <2>1, <2>2 DEF Window
<1> HIDE DEF u, v
<1>3. /\ w \in Seq(Heads) /\ Len(w) = b - a + 1 /\ w[b - a + 1] = g[b]
      /\ \A k \in 1 .. b - a : w[k] = u[k]
  <2>1. g[b] \in Heads
    BY DEF Entries
  <2> QED
    BY <1>1, <2>1, AppendProperties
<1> HIDE DEF w
<1>4. ASSUME NEW k \in 1 .. Len(v) PROVE v[k] = w[k]
  <2>1. CASE k = b - a + 1
    <3>1. a + k - 1 = b
      BY <2>1
    <3> QED
      BY <1>2, <1>3, <2>1, <3>1
  <2>2. CASE k \in 1 .. b - a
    <3>1. a + k - 1 \in a .. b - 1
      BY <2>2
    <3> QED
      BY <1>1, <1>2, <1>3, <2>2, <3>1
  <2> QED
    BY <1>2, <2>1, <2>2
<1>5. v = w
  BY <1>2, <1>3, <1>4, SeqEqual
<1> QED
  BY <1>5 DEF u, v, w, Pushed

LEMMA WindowTail ==
  ASSUME NEW f, NEW a, NEW b, NEW d,
         f \in Entries, a \in Int, b \in Int, a < b, d \in Int, d - a = 1
  PROVE  Popped(Window(f, a, b), f[a], Window(f, d, b))
<1> DEFINE u == Window(f, a, b)
           v == Window(f, d, b)
<1>1. /\ u \in Seq(Heads) /\ Len(u) = b - a
      /\ \A k \in 1 .. b - a : u[k] = f[a + k - 1]
  <2>1. a <= b
    OBVIOUS
  <2>2. u \in Seq(Heads) /\ Len(u) = b - a
    BY <2>1, WindowSeq
  <2> QED
    BY <2>2 DEF Window
<1>2. /\ v \in Seq(Heads) /\ Len(v) = b - (a + 1)
      /\ \A k \in 1 .. b - (a + 1) : v[k] = f[(a + 1) + k - 1]
  <2>1. d \in Int /\ d <= b
    OBVIOUS
  <2>2. v \in Seq(Heads) /\ Len(v) = b - d
    BY <2>1, WindowSeq
  <2> QED
    BY <2>2 DEF Window
<1> HIDE DEF u, v
<1>3. u # <<>> /\ Head(u) = f[a]
  <2>1. u[1] = f[a]
    BY <1>1
  <2> QED
    BY <1>1, <2>1, EmptySeq, HeadTailProperties
<1>4. /\ Tail(u) \in Seq(Heads) /\ Len(Tail(u)) = Len(v)
      /\ \A k \in 1 .. Len(Tail(u)) : Tail(u)[k] = u[k + 1]
  <2>1. Len(u) - 1 = Len(v)
    BY <1>1, <1>2
  <2> QED
    BY <1>1, <1>3, <2>1, HeadTailProperties
<1>5. ASSUME NEW k \in 1 .. Len(Tail(u)) PROVE Tail(u)[k] = v[k]
  <2>1. k + 1 \in 1 .. b - a /\ k \in 1 .. b - (a + 1) /\ a + (k + 1) - 1 = (a + 1) + k - 1
    BY <1>2, <1>4
  <2> QED
    BY <1>1, <1>2, <1>4, <2>1
<1>6. Tail(u) = v
  BY <1>2, <1>4, <1>5, SeqEqual
<1> QED
  BY <1>3, <1>6 DEF u, v, Popped

LEMMA RingFunctions ==
  ASSUME NEW r \in Queue, RingsHoldHeads(r)
  PROVE  Avails(r) \in Entries /\ Useds(r) \in Entries
<1>1. \A n \in Int : n % QueueNum \in 0 .. QueueNum - 1
  BY RingSizes, ModRange
<1> QED
  BY <1>1 DEF Avails, Useds, AvailAt, UsedAt, RingsHoldHeads, Entries

-----------------------------------------------------------------------------
(* Custody of the chains of a queue that drops none: s, 0 or 1, of them is *)
(* being served, namely c, and next() stalls before an index would wrap.   *)

Custody(r, F, p, l, s, c) ==
  /\ l <= r.used_idx /\ r.last_avail = r.used_idx + s /\ r.last_avail <= IdxMod - 1
  /\ Counted(r, F, p, l, s)
  /\ Apart(r, F, p, l)
  /\ s = 1 => Alone(r, F, p, l, c) /\ c = AvailAt(r, r.last_avail - 1)

(* e has the entries and indices of r. *)
SameEntries(r, e) ==
  /\ \A n \in Int : AvailAt(e, n) = AvailAt(r, n) /\ UsedAt(e, n) = UsedAt(r, n)
  /\ e.last_avail = r.last_avail /\ e.used_idx = r.used_idx /\ e.avail_idx = r.avail_idx

LEMMA CustodyOfFresh ==
  ASSUME NEW c PROVE Custody(FreshQueue, Heads, 0, 0, 0, c)
<1>1. IsFiniteSet(0 .. QueueNum - 1) /\ Cardinality(0 .. QueueNum - 1) = QueueNum
  <2>1. 0 \in Int /\ QueueNum - 1 \in Int /\ ~(0 > QueueNum - 1) /\ QueueNum - 1 - 0 + 1 = QueueNum
    BY RingSizes
  <2> QED
    BY <2>1, FS_Interval
<1>2. FreshQueue.last_avail = 0 /\ FreshQueue.avail_idx = 0 /\ FreshQueue.used_idx = 0
  BY DEF FreshQueue
<1>3. Counted(FreshQueue, Heads, 0, 0, 0)
  BY <1>1, <1>2, RingSizes DEF Counted, Heads
<1>4. NotTaken(FreshQueue, 0) = {} /\ NotReaped(FreshQueue, 0) = {}
  BY <1>2 DEF NotTaken, NotReaped
<1>5. Apart(FreshQueue, Heads, 0, 0)
  BY <1>4 DEF Apart
<1> QED
  BY <1>2, <1>3, <1>5, RingSizes DEF Custody

LEMMA CustodyQuiet ==
  ASSUME NEW r, NEW e, NEW F, NEW p, NEW l, NEW s, NEW c,
         r \in Queue, p \in Nat, l \in Nat, SameEntries(r, e), Custody(r, F, p, l, s, c)
  PROVE  Custody(e, F, p, l, s, c)
<1>1. /\ \A t : Counted(r, F, p, l, t) => Counted(e, F, p, l, t)
      /\ Apart(r, F, p, l) => Apart(e, F, p, l)
      /\ \A d : Alone(r, F, p, l, d) => Alone(e, F, p, l, d)
      /\ AvailAt(e, e.last_avail - 1) = AvailAt(r, r.last_avail - 1)
  BY SameRings DEF SameEntries
<1> QED
  BY <1>1 DEF Custody, SameEntries

LEMMA CustodyPost ==
  ASSUME NEW r, NEW F, NEW h, NEW p, NEW l, NEW s, NEW c,
         r \in ProgrammedQueue, F \in SUBSET Heads, h \in F, p \in Nat, l \in Nat, s \in {0, 1},
         Custody(r, F, p, l, s, c)
  PROVE  Custody(post_avail(r, h), F \ {h}, p + 1, l, s, c)
<1> DEFINE e == post_avail(r, h)
<1>1. /\ l <= r.used_idx /\ r.last_avail <= IdxMod - 1
      /\ Counted(r, F, p, l, s) /\ Apart(r, F, p, l)
  BY DEF Custody
<1>2. /\ Counted(e, F \ {h}, p + 1, l, s) /\ Apart(e, F \ {h}, p + 1, l)
      /\ \A d : Alone(r, F, p, l, d) => Alone(e, F \ {h}, p + 1, l, d)
      /\ s = 1 => AvailAt(e, e.last_avail - 1) = AvailAt(r, r.last_avail - 1)
  BY <1>1, PostStep
<1>3. e.last_avail = r.last_avail /\ e.used_idx = r.used_idx
  BY DEF post_avail, ProgrammedQueue, Queue
<1> HIDE DEF e
<1> QED
  BY <1>1, <1>2, <1>3 DEF Custody, e

LEMMA CustodyReap ==
  ASSUME NEW r, NEW F, NEW p, NEW l, NEW s, NEW c, NEW m,
         r \in ProgrammedQueue, p \in Nat, l \in Nat, s \in {0, 1}, l # r.used_idx,
         m \in Nat, m - l = 1, Custody(r, F, p, l, s, c)
  PROVE  /\ Custody(r, F \cup {UsedAt(r, l)}, p, m, s, c)
         /\ l < r.used_idx /\ m % IdxMod = m
<1>1. r.used_idx \in Word /\ r.used_idx \in Int
  BY RingSizes DEF ProgrammedQueue, Queue, Word
<1>2. l < r.used_idx /\ Counted(r, F, p, l, s) /\ Apart(r, F, p, l)
  BY <1>1 DEF Custody
<1>3. m % IdxMod = m
  BY <1>1, <1>2, RingSizes DEF Word
<1> DEFINE G == F \cup {UsedAt(r, l)}
<1>4. /\ Counted(r, G, p, m, s) /\ Apart(r, G, p, m)
      /\ \A d : Alone(r, F, p, l, d) => Alone(r, G, p, m, d)
  <2>1. m = l + 1
    OBVIOUS
  <2>2. /\ Counted(r, G, p, l + 1, s) /\ Apart(r, G, p, l + 1)
        /\ \A d : Alone(r, F, p, l, d) => Alone(r, G, p, l + 1, d)
    BY <1>2, ReapStep
  <2> HIDE DEF G
  <2> QED
    BY ONLY <2>1, <2>2
<1> HIDE DEF G
<1>5. m <= r.used_idx
  BY <1>1, <1>2
<1> QED
  BY <1>2, <1>3, <1>4, <1>5 DEF Custody, G

LEMMA CustodyTake ==
  ASSUME NEW r, NEW F, NEW p, NEW l, NEW b,
         r \in ProgrammedQueue, p \in Nat, l \in Nat, has_next(r), Custody(r, F, p, l, 0, b)
  PROVE  /\ Custody(next(r), F, p, l, 1, AvailAt(r, r.last_avail))
         /\ avail_id(next(r)) = AvailAt(r, r.last_avail)
         /\ r.last_avail < p
<1> DEFINE e == next(r)
           c == AvailAt(r, r.last_avail)
<1>1. /\ r.last_avail \in Nat /\ r.used_idx \in Nat /\ r.avail_idx \in Nat
      /\ r.avail_idx <= IdxMod - 1 /\ r.size = QueueNum /\ IdxMod \in Nat
  BY RingSizes DEF ProgrammedQueue, Queue, Word
<1>2. Counted(r, F, p, l, 0) /\ Apart(r, F, p, l) /\ l <= r.used_idx
      /\ r.last_avail = r.used_idx
  BY <1>1 DEF Custody
<1>3. /\ Counted(e, F, p, l, 1) /\ Apart(e, F, p, l)
      /\ Alone(e, F, p, l, c) /\ AvailAt(e, e.last_avail - 1) = c
  BY <1>2, TakeStep
<1>4. /\ e.last_avail = r.last_avail + 1 /\ e.used_idx = r.used_idx
      /\ e.size = QueueNum /\ e.avail_ring = r.avail_ring
  BY <1>1 DEF next, ProgrammedQueue, Queue
<1>5. avail_id(e) = c
  BY <1>1, <1>4 DEF avail_id, AvailAt
<1>6. r.last_avail < p
  BY <1>1, <1>2 DEF has_next, Counted
<1>7. e.last_avail = e.used_idx + 1 /\ e.last_avail <= IdxMod - 1
  BY <1>1, <1>2, <1>4 DEF has_next
<1> HIDE DEF e, c
<1> QED
  BY <1>2, <1>3, <1>4, <1>5, <1>6, <1>7 DEF Custody, e, c

LEMMA CustodyId ==
  ASSUME NEW r, NEW F, NEW p, NEW l, NEW c,
         r \in ProgrammedQueue, Custody(r, F, p, l, 1, c)
  PROVE  avail_id(r) = c
  BY DEF Custody, ProgrammedQueue, avail_id, AvailAt

(* pop_back makes c the next chain to take once more. *)
LEMMA CustodyBack ==
  ASSUME NEW r, NEW F, NEW p, NEW l, NEW c, NEW b,
         r \in ProgrammedQueue, p \in Nat, l \in Nat, Custody(r, F, p, l, 1, c)
  PROVE  /\ Custody(pop_back(r), F, p, l, 0, b)
         /\ pop_back(r) \in ProgrammedQueue
<1> DEFINE e == pop_back(r)
<1>1. /\ r.last_avail \in Nat /\ r.used_idx \in Nat /\ r.avail_idx \in Nat
      /\ QueueNum \in Nat /\ IdxMod \in Nat
  BY RingSizes DEF ProgrammedQueue, Queue, Word
<1>2. /\ Counted(r, F, p, l, 1) /\ Apart(r, F, p, l) /\ Alone(r, F, p, l, c)
      /\ c = AvailAt(r, r.last_avail - 1) /\ l <= r.used_idx
      /\ r.last_avail = r.used_idx + 1 /\ r.last_avail <= IdxMod - 1
  BY DEF Custody
<1>3. r.last_avail - 1 \in Nat
  BY <1>1, <1>2
<1>4. /\ e.last_avail = r.last_avail - 1 /\ e.used_idx = r.used_idx
      /\ e.avail_idx = r.avail_idx /\ e \in ProgrammedQueue
      /\ \A n : AvailAt(e, n) = AvailAt(r, n) /\ UsedAt(e, n) = UsedAt(r, n)
  BY <1>3 DEF pop_back, ProgrammedQueue, Queue, AvailAt, UsedAt
<1> HIDE DEF e
<1>5. Cardinality(F) \in Nat
  BY <1>2, FS_CardinalityType DEF Counted
<1>6. Counted(e, F, p, l, 0)
  BY <1>1, <1>2, <1>4, <1>5 DEF Counted
<1>7. /\ NotReaped(e, l) = NotReaped(r, l)
      /\ \A n \in NotTaken(e, p) : n \in NotTaken(r, p) \/ n = r.last_avail - 1
  BY <1>1, <1>4 DEF NotReaped, NotTaken
<1>8. Apart(e, F, p, l)
  <2>1. \A n \in NotTaken(e, p) : AvailAt(e, n) \notin F
    BY <1>2, <1>4, <1>7 DEF Apart, Alone
  <2>2. \A n \in NotReaped(e, l) : UsedAt(e, n) \notin F
    BY <1>2, <1>4, <1>7 DEF Apart
  <2>3. \A n, m \in NotTaken(e, p) : n # m => AvailAt(e, n) # AvailAt(e, m)
    BY <1>2, <1>4, <1>7 DEF Apart, Alone
  <2>4. \A n, m \in NotReaped(e, l) : n # m => UsedAt(e, n) # UsedAt(e, m)
    BY <1>2, <1>4, <1>7 DEF Apart
  <2>5. \A n \in NotTaken(e, p), m \in NotReaped(e, l) : AvailAt(e, n) # UsedAt(e, m)
    BY <1>2, <1>4, <1>7 DEF Apart, Alone
  <2> QED
    BY <2>1, <2>2, <2>3, <2>4, <2>5 DEF Apart
<1>9. e.last_avail = e.used_idx + 0 /\ e.last_avail <= IdxMod - 1 /\ l <= e.used_idx
  BY <1>1, <1>2, <1>4
<1> QED
  BY <1>4, <1>6, <1>8, <1>9 DEF Custody, e

LEMMA CustodyElem ==
  ASSUME NEW r, NEW F, NEW p, NEW l, NEW c, NEW n,
         r \in ProgrammedQueue, p \in Nat, l \in Nat, Custody(r, F, p, l, 1, c)
  PROVE  /\ Custody(add_used_elem(r, c, n), F, p, l, 1, c)
         /\ UsedAt(add_used_elem(r, c, n), r.used_idx) = c
<1> DEFINE e == add_used_elem(r, c, n)
<1>1. /\ Counted(r, F, p, l, 1) /\ Apart(r, F, p, l) /\ Alone(r, F, p, l, c)
      /\ c = AvailAt(r, r.last_avail - 1) /\ l <= r.used_idx
      /\ r.last_avail = r.used_idx + 1 /\ r.last_avail <= IdxMod - 1
  BY DEF Custody
<1>2. /\ Counted(e, F, p, l, 1) /\ Apart(e, F, p, l)
      /\ \A d : Alone(r, F, p, l, d) => Alone(e, F, p, l, d)
      /\ AvailAt(e, e.last_avail - 1) = AvailAt(r, r.last_avail - 1)
      /\ UsedAt(e, e.used_idx) = c
  BY <1>1, ElemStep
<1>3. e.last_avail = r.last_avail /\ e.used_idx = r.used_idx
  BY DEF add_used_elem, ProgrammedQueue, Queue
<1> HIDE DEF e
<1> QED
  BY <1>1, <1>2, <1>3 DEF Custody, e

LEMMA CustodyReturn ==
  ASSUME NEW r, NEW F, NEW p, NEW l, NEW c, NEW b,
         r \in ProgrammedQueue, p \in Nat, l \in Nat, Custody(r, F, p, l, 1, c),
         UsedAt(r, r.used_idx) = c
  PROVE  /\ Custody(add_used_idx(r), F, p, l, 0, b)
         /\ add_used_idx(r).used_idx = r.used_idx + 1
<1> DEFINE e == add_used_idx(r)
<1>1. r.last_avail \in Nat /\ r.used_idx \in Nat /\ IdxMod \in Nat \ {0}
  BY RingSizes DEF ProgrammedQueue, Queue, Word
<1>2. /\ Counted(r, F, p, l, 1) /\ Apart(r, F, p, l) /\ Alone(r, F, p, l, c)
      /\ l <= r.used_idx
      /\ r.last_avail = r.used_idx + 1 /\ r.last_avail <= IdxMod - 1
  BY DEF Custody
<1>3. r.used_idx + 1 \in Word /\ (r.used_idx + 1) % IdxMod = r.used_idx + 1
  BY <1>1, <1>2 DEF Word
<1>4. Counted(e, F, p, l, 0) /\ Apart(e, F, p, l)
  BY <1>2, <1>3, ReturnStep
<1>5. e.last_avail = r.last_avail /\ e.used_idx = r.used_idx + 1
  BY <1>3 DEF add_used_idx, ProgrammedQueue, Queue
<1> HIDE DEF e
<1>6. l <= e.used_idx /\ e.last_avail = e.used_idx + 0
  BY <1>1, <1>2, <1>5
<1> QED
  BY <1>2, <1>4, <1>5, <1>6 DEF Custody, e

-----------------------------------------------------------------------------
(* The steps of the guest, for any number of queues                        *)

(* A queue that has not been programmed is as it was built: the handler    *)
(* may come by all the same, for another queue of the device.              *)
GuestInv ==
  /\ GuestTypeOK
  /\ \A i \in Queues : RingsHoldHeads(vq[i])
  /\ \A i \in Queues : vq[i].ready => vq[i].size = QueueNum
  /\ \A i \in Queues : ~vq[i].ready => vq[i] = FreshQueue /\ last_used[i] = 0

GuestStep ==
  \/ \E i \in Queues : SetupQueue(i)
  \/ \E i \in Queues : \E h \in free[i] : Post(i, h)
  \/ Handler

LEMMA FreshQueueTyped ==
  FreshQueue \in Queue /\ RingsHoldHeads(FreshQueue) /\ ~FreshQueue.ready
<1>1. 0 \in Heads /\ 0 \in Word
  BY RingSizes DEF Heads, Word
<1>2. FreshQueue \in Queue
  BY <1>1, RingSizes DEF FreshQueue, Queue, Word
<1>3. RingsHoldHeads(FreshQueue) /\ ~FreshQueue.ready
  BY <1>1, RingSizes DEF RingsHoldHeads, FreshQueue
<1> QED
  BY <1>2, <1>3

LEMMA GuestInvInit == GuestInit => GuestInv
<1> SUFFICES ASSUME GuestInit PROVE GuestInv
  OBVIOUS
<1>1. 0 \in Queues /\ 0 \in Word /\ 0 \in 0 .. MaxPosts
  BY RingSizes, GuestConstants DEF Queues, Word, GuestConstants
<1>2. LowLine \in Line
  BY DEF LowLine, Line
<1> QED
  BY <1>1, <1>2, FreshQueueTyped DEF GuestInit, GuestInv, GuestTypeOK

LEMMA GuestTypes ==
  ASSUME GuestInv
  PROVE  /\ vq \in [Queues -> Queue] /\ irq \in Line /\ last_used \in [Queues -> Word]
         /\ free \in [Queues -> SUBSET Heads] /\ posted \in [Queues -> 0 .. MaxPosts]
         /\ \A i \in Queues : vq[i].ready => vq[i] \in ProgrammedQueue
         /\ \A i \in Queues : last_used[i] \in Nat /\ posted[i] \in Nat
         /\ \A i \in Queues : vq[i].used_idx \in Nat /\ vq[i].last_avail \in Nat
         /\ Word \subseteq Nat /\ scan \in Queues
<1>1. Word \subseteq Nat /\ 0 .. MaxPosts \subseteq Nat
  BY RingSizes, GuestConstants DEF Word, GuestConstants
<1>2. \A i \in Queues : vq[i] \in Queue /\ last_used[i] \in Word /\ posted[i] \in 0 .. MaxPosts
  BY DEF GuestInv, GuestTypeOK
<1>3. \A i \in Queues : vq[i].used_idx \in Word /\ vq[i].last_avail \in Nat
  BY <1>2 DEF Queue
<1>4. \A i \in Queues : vq[i].ready => vq[i] \in ProgrammedQueue
  BY <1>2 DEF GuestInv, ProgrammedQueue
<1> QED
  BY <1>1, <1>2, <1>3, <1>4 DEF GuestInv, GuestTypeOK

(* A step that replaces one queue by a programmed one. *)
LEMMA QueueReplaced ==
  ASSUME GuestInv, NEW i \in Queues, NEW e \in ProgrammedQueue,
         e.ready, RingsHoldHeads(e), vq' = [vq EXCEPT ![i] = e]
  PROVE  /\ vq' \in [Queues -> Queue] /\ vq'[i] = e
         /\ \A j \in Queues : j # i => vq'[j] = vq[j]
         /\ \A j \in Queues : RingsHoldHeads(vq'[j])
         /\ \A j \in Queues : vq'[j].ready => vq'[j].size = QueueNum
         /\ \A j \in Queues : ~vq'[j].ready => vq'[j] = FreshQueue /\ j # i /\ ~vq[j].ready
<1>1. vq \in [Queues -> Queue] /\ e \in Queue /\ e.size = QueueNum
  BY DEF GuestInv, GuestTypeOK, ProgrammedQueue
<1>2. /\ vq' \in [Queues -> Queue] /\ vq'[i] = e
      /\ \A j \in Queues : j # i => vq'[j] = vq[j]
  BY <1>1
<1> QED
  BY <1>1, <1>2 DEF GuestInv

(* A step of the device, on one queue ...                                  *)
LEMMA DeviceStepTyped ==
  ASSUME GuestInv, NEW i \in Queues, NEW e \in ProgrammedQueue,
         e.ready, RingsHoldHeads(e), vq' = [vq EXCEPT ![i] = e],
         UNCHANGED <<irq, gpc, scan, last_used, free, posted>>
  PROVE  GuestInv' /\ vq'[i] = e /\ \A j \in Queues : j # i => vq'[j] = vq[j]
  BY QueueReplaced DEF GuestInv, GuestTypeOK

(* ... and on the line. *)
LEMMA RaiseTyped ==
  ASSUME GuestInv, irq' = set_level(irq, TRUE),
         UNCHANGED <<vq, gpc, scan, last_used, free, posted>>
  PROVE  GuestInv'
  BY SetLevelLine DEF GuestInv, GuestTypeOK

LEMMA SetupSteps ==
  ASSUME GuestInv, NEW i \in Queues, SetupQueue(i)
  PROVE  /\ GuestInv'
         /\ UNCHANGED <<irq, gpc, scan, last_used, free, posted>>
         /\ \A j \in Queues : SameEntries(vq[j], vq'[j])
<1> DEFINE z == [vq[i] EXCEPT !.size = QueueNum]
           e == set_ready(z)
<1>1. vq[i] \in Queue /\ RingsHoldHeads(vq[i])
  BY DEF GuestInv, GuestTypeOK
<1>2. e \in Queue /\ e.ready /\ e.size = QueueNum /\ RingsHoldHeads(e)
  BY <1>1, SetupQueueTyped
<1>3. z.avail_ring = vq[i].avail_ring /\ z.used_ring = vq[i].used_ring
      /\ z.last_avail = vq[i].last_avail /\ z.used_idx = vq[i].used_idx
      /\ z.avail_idx = vq[i].avail_idx /\ z \in Queue
  <2> DEFINE r == vq[i]
  <2>1. r \in Queue /\ QueueNum \in 0 .. QUEUE_SIZE_MAX
    BY <1>1, RingSizes
  <2> HIDE DEF r
  <2>2. LET y == [r EXCEPT !.size = QueueNum]
        IN  /\ y.avail_ring = r.avail_ring /\ y.used_ring = r.used_ring
            /\ y.last_avail = r.last_avail /\ y.used_idx = r.used_idx
            /\ y.avail_idx = r.avail_idx /\ y \in Queue
    BY ONLY <2>1 DEF Queue
  <2> QED
    BY <2>2 DEF r
<1>4. e.avail_ring = z.avail_ring /\ e.used_ring = z.used_ring
      /\ e.last_avail = z.last_avail /\ e.used_idx = z.used_idx
      /\ e.avail_idx = z.avail_idx
  <2> HIDE DEF z
  <2> QED
    BY <1>3 DEF set_ready, Queue
<1>5. vq' = [vq EXCEPT ![i] = e] /\ UNCHANGED <<irq, gpc, scan, last_used, free, posted>>
  BY DEF SetupQueue
<1> HIDE DEF e, z
<1>6. e \in ProgrammedQueue
  BY <1>2 DEF ProgrammedQueue
<1>7. GuestInv' /\ vq'[i] = e /\ \A j \in Queues : j # i => vq'[j] = vq[j]
  BY <1>2, <1>5, <1>6, DeviceStepTyped
<1>8. SameEntries(vq[i], e)
  BY <1>3, <1>4 DEF SameEntries, AvailAt, UsedAt
<1>9. \A j \in Queues : SameEntries(vq[j], vq'[j])
  BY <1>7, <1>8 DEF SameEntries
<1> QED
  BY <1>5, <1>7, <1>9

LEMMA PostSteps ==
  ASSUME GuestInv, NEW i \in Queues, NEW h \in free[i], Post(i, h)
  PROVE  /\ GuestInv'
         /\ UNCHANGED <<irq, gpc, scan, last_used>>
         /\ h \in Heads /\ vq[i] \in ProgrammedQueue
         /\ vq'[i] = post_avail(vq[i], h) /\ free'[i] = free[i] \ {h}
         /\ posted'[i] = posted[i] + 1
         /\ \A j \in Queues : j # i =>
              vq'[j] = vq[j] /\ free'[j] = free[j] /\ posted'[j] = posted[j]
<1> DEFINE e == post_avail(vq[i], h)
<1>1. vq[i] \in ProgrammedQueue /\ RingsHoldHeads(vq[i]) /\ h \in Heads
  BY GuestTypes DEF GuestInv, Post
<1>2. e \in ProgrammedQueue /\ RingsHoldHeads(e)
  BY <1>1, PostAvailQueue
<1>3. e.ready
  BY <1>1 DEF Post, post_avail, ProgrammedQueue, Queue
<1>4. vq' = [vq EXCEPT ![i] = e] /\ UNCHANGED <<irq, gpc, scan, last_used>>
  BY DEF Post
<1> HIDE DEF e
<1>5. /\ vq' \in [Queues -> Queue] /\ vq'[i] = e
      /\ \A j \in Queues : j # i => vq'[j] = vq[j]
      /\ \A j \in Queues : RingsHoldHeads(vq'[j])
      /\ \A j \in Queues : vq'[j].ready => vq'[j].size = QueueNum
      /\ \A j \in Queues : ~vq'[j].ready => vq'[j] = FreshQueue /\ j # i /\ ~vq[j].ready
  BY <1>2, <1>3, <1>4, QueueReplaced
<1>6. /\ free' \in [Queues -> SUBSET Heads] /\ posted' \in [Queues -> 0 .. MaxPosts]
      /\ free'[i] = free[i] \ {h} /\ posted'[i] = posted[i] + 1
      /\ \A j \in Queues : j # i => free'[j] = free[j] /\ posted'[j] = posted[j]
  BY GuestTypes, GuestConstants DEF Post, GuestConstants
<1>7. GuestInv'
  BY <1>4, <1>5, <1>6 DEF GuestInv, GuestTypeOK
<1> QED
  BY <1>1, <1>4, <1>5, <1>6, <1>7 DEF e

(* Publishing the index reached touches no entry, and in a queue that was  *)
(* never programmed it writes the zero that is there.                      *)
LEMMA PublishSteps ==
  ASSUME GuestInv, PublishEvent
  PROVE  /\ GuestInv'
         /\ UNCHANGED <<irq, scan, last_used, free, posted>> /\ gpc' = "recheck"
         /\ \A j \in Queues : /\ SameEntries(vq[j], vq'[j])
                             /\ vq'[j].used_ring = vq[j].used_ring
                             /\ vq'[j].ready = vq[j].ready
<1> DEFINE e == publish_used_event(vq[scan], last_used[scan])
<1>1. /\ scan \in Queues /\ last_used[scan] \in Word /\ vq[scan] \in Queue
      /\ vq \in [Queues -> Queue]
  BY DEF GuestInv, GuestTypeOK
<1>2. /\ vq' = [vq EXCEPT ![scan] = e] /\ gpc' = "recheck"
      /\ UNCHANGED <<irq, scan, last_used, free, posted>>
  BY DEF PublishEvent
<1>3. CASE vq[scan].ready
  <2>1. vq[scan] \in ProgrammedQueue /\ RingsHoldHeads(vq[scan])
    BY <1>1, <1>3 DEF GuestInv, ProgrammedQueue
  <2>2. e \in ProgrammedQueue /\ RingsHoldHeads(e)
    BY <1>1, <2>1, PublishQueue
  <2>3. e.ready /\ e.used_ring = vq[scan].used_ring
    BY <1>1, <1>3 DEF publish_used_event, Queue
  <2>4. SameEntries(vq[scan], e)
    BY <1>1, <2>1, PublishedEntries DEF SameEntries
  <2> HIDE DEF e
  <2>5. /\ vq' \in [Queues -> Queue] /\ vq'[scan] = e
        /\ \A j \in Queues : j # scan => vq'[j] = vq[j]
        /\ \A j \in Queues : RingsHoldHeads(vq'[j])
        /\ \A j \in Queues : vq'[j].ready => vq'[j].size = QueueNum
        /\ \A j \in Queues : ~vq'[j].ready => vq'[j] = FreshQueue /\ j # scan /\ ~vq[j].ready
    BY <1>1, <1>2, <2>2, <2>3, QueueReplaced
  <2>6. GuestInv'
    BY <1>2, <2>5 DEF GuestInv, GuestTypeOK
  <2>7. \A j \in Queues : /\ SameEntries(vq[j], vq'[j])
                          /\ vq'[j].used_ring = vq[j].used_ring
                          /\ vq'[j].ready = vq[j].ready
    <3> SUFFICES ASSUME NEW j \in Queues
                 PROVE  /\ SameEntries(vq[j], vq'[j])
                        /\ vq'[j].used_ring = vq[j].used_ring
                        /\ vq'[j].ready = vq[j].ready
      OBVIOUS
    <3>1. CASE j = scan
      BY <1>3, <2>3, <2>4, <2>5, <3>1
    <3>2. CASE j # scan
      BY <2>5, <3>2 DEF SameEntries
    <3> QED
      BY <3>1, <3>2
  <2> QED
    BY <1>2, <2>6, <2>7
<1>4. CASE ~vq[scan].ready
  <2>1. vq[scan] = FreshQueue /\ last_used[scan] = 0
    BY <1>1, <1>4 DEF GuestInv
  <2>2. e = FreshQueue
    <3>1. FreshQueue.size = 0 /\ FreshQueue.avail_ring = [s \in 0 .. QUEUE_SIZE_MAX |-> 0]
      BY DEF FreshQueue
    <3>2. [FreshQueue.avail_ring EXCEPT ![0] = 0] = FreshQueue.avail_ring
      BY <3>1
    <3>3. e = [FreshQueue EXCEPT !.avail_ring = [FreshQueue.avail_ring EXCEPT ![0] = 0]]
      BY <2>1, <3>1 DEF publish_used_event
    <3>4. [FreshQueue EXCEPT !.avail_ring = FreshQueue.avail_ring] = FreshQueue
      BY DEF FreshQueue
    <3> QED
      BY <3>2, <3>3, <3>4
  <2>3. vq' = vq
    BY <1>1, <1>2, <2>1, <2>2
  <2> QED
    BY <1>2, <2>3 DEF GuestInv, GuestTypeOK, SameEntries
<1> QED
  BY <1>3, <1>4

(* Only a programmed queue has something to reap. *)
LEMMA ReapSteps ==
  ASSUME GuestInv, Reap
  PROVE  /\ GuestInv'
         /\ UNCHANGED <<vq, irq, gpc, scan, posted>>
         /\ vq[scan] \in ProgrammedQueue /\ vq[scan].ready /\ last_used[scan] # vq[scan].used_idx
         /\ free'[scan] = free[scan] \cup {UsedAt(vq[scan], last_used[scan])}
         /\ last_used'[scan] = (last_used[scan] + 1) % IdxMod
         /\ \A j \in Queues : j # scan => free'[j] = free[j] /\ last_used'[j] = last_used[j]
<1> DEFINE h == used_elem(vq[scan], last_used[scan]).id
           w == (last_used[scan] + 1) % IdxMod
<1>1. /\ scan \in Queues /\ last_used[scan] \in Word /\ last_used \in [Queues -> Word]
      /\ free \in [Queues -> SUBSET Heads]
  BY DEF GuestInv, GuestTypeOK
<1>2. /\ last_used[scan] # vq[scan].used_idx /\ UNCHANGED <<vq, irq, gpc, scan, posted>>
      /\ free' = [free EXCEPT ![scan] = @ \cup {h}] /\ last_used' = [last_used EXCEPT ![scan] = w]
  BY DEF Reap
<1>3. vq[scan].ready
  <2>1. FreshQueue.used_idx = 0
    BY DEF FreshQueue
  <2> QED
    BY <1>1, <1>2, <2>1 DEF GuestInv
<1>4. vq[scan] \in ProgrammedQueue /\ RingsHoldHeads(vq[scan])
  BY <1>1, <1>3, GuestTypes DEF GuestInv
<1>5. h \in Heads
  BY <1>1, <1>4, UsedElemIsHead
<1>6. h = UsedAt(vq[scan], last_used[scan])
  BY <1>4 DEF used_elem, UsedAt, ProgrammedQueue
<1>7. w \in Word
  <2>1. last_used[scan] + 1 \in Int
    BY <1>1, RingSizes DEF Word
  <2> QED
    BY <2>1, ModRange, RingSizes DEF Word
<1> HIDE DEF h, w
<1>8. /\ free' \in [Queues -> SUBSET Heads] /\ last_used' \in [Queues -> Word]
      /\ free'[scan] = free[scan] \cup {h} /\ last_used'[scan] = w
      /\ \A j \in Queues : j # scan => free'[j] = free[j] /\ last_used'[j] = last_used[j]
  BY <1>1, <1>2, <1>5, <1>7
<1>9. GuestInv'
  BY <1>2, <1>3, <1>8 DEF GuestInv, GuestTypeOK
<1> QED
  BY <1>2, <1>3, <1>4, <1>6, <1>8, <1>9 DEF w

(* The other steps of the handler leave the queues alone. *)
LEMMA QuietHandlerSteps ==
  ASSUME GuestInv, IrqEntry \/ ReadStatus \/ AckIrq \/ Recheck
  PROVE  GuestInv' /\ UNCHANGED <<vq, last_used, free, posted>>
<1>1. 0 \in Queues
  BY GuestConstants DEF GuestConstants, Queues
<1>2. CASE IrqEntry
  BY <1>2, DrainedLine DEF IrqEntry, GuestInv, GuestTypeOK
<1>3. CASE ReadStatus
  BY <1>3 DEF ReadStatus, GuestInv, GuestTypeOK
<1>4. CASE AckIrq
  BY <1>1, <1>4, SetLevelLine DEF AckIrq, GuestInv, GuestTypeOK
<1>5. CASE Recheck
  BY <1>5 DEF Recheck, GuestInv, GuestTypeOK
<1> QED
  BY <1>2, <1>3, <1>4, <1>5

(* Whatever the guest does, it writes nothing that is the device's, and    *)
(* custody of every queue's chains passes only where it should.            *)
LEMMA GuestCustody ==
  ASSUME GuestInv, GuestStep, NEW j \in Queues, NEW s \in {0, 1}, NEW c,
         Custody(vq[j], free[j], posted[j], last_used[j], s, c)
  PROVE  /\ Custody(vq'[j], free'[j], posted'[j], last_used'[j], s, c)
         /\ vq'[j].used_ring = vq[j].used_ring /\ vq'[j].used_idx = vq[j].used_idx
         /\ vq'[j].last_avail = vq[j].last_avail
         /\ vq[j].ready => vq'[j].ready
<1>0. vq[j] \in Queue /\ posted[j] \in Nat /\ last_used[j] \in Nat /\ free[j] \in SUBSET Heads
  BY GuestTypes
<1>1. CASE \E i \in Queues : SetupQueue(i)
  <2>1. PICK i \in Queues : SetupQueue(i)
    BY <1>1
  <2>2. UNCHANGED <<last_used, free, posted>> /\ SameEntries(vq[j], vq'[j])
    BY <2>1, SetupSteps
  <2>3. vq'[j].used_ring = vq[j].used_ring /\ (vq[j].ready => vq'[j].ready)
    BY <1>0, <2>1, GuestTypes DEF SetupQueue, set_ready, Queue
  <2> QED
    BY <1>0, <2>2, <2>3, CustodyQuiet DEF SameEntries
<1>2. CASE \E i \in Queues : \E h \in free[i] : Post(i, h)
  <2>0. PICK i \in Queues : \E h \in free[i] : Post(i, h)
    BY <1>2
  <2>1. PICK h \in free[i] : Post(i, h)
    BY <2>0
  <2>2. CASE i # j
    BY <2>1, <2>2, PostSteps
  <2>3. CASE i = j
    <3>1. /\ vq[j] \in ProgrammedQueue /\ vq'[j] = post_avail(vq[j], h) /\ h \in free[j]
          /\ free'[j] = free[j] \ {h} /\ posted'[j] = posted[j] + 1 /\ last_used' = last_used
      BY <2>1, <2>3, PostSteps
    <3>2. Custody(post_avail(vq[j], h), free[j] \ {h}, posted[j] + 1, last_used[j], s, c)
      <4> DEFINE r == vq[j]
                 F == free[j]
                 p == posted[j]
                 l == last_used[j]
      <4>1. /\ r \in ProgrammedQueue /\ F \in SUBSET Heads /\ h \in F /\ p \in Nat /\ l \in Nat
            /\ Custody(r, F, p, l, s, c)
        BY <1>0, <3>1
      <4> HIDE DEF r, F, p, l
      <4>2. Custody(post_avail(r, h), F \ {h}, p + 1, l, s, c)
        BY ONLY <4>1, s \in {0, 1}, CustodyPost
      <4> QED
        BY <4>2 DEF r, F, p, l
    <3>3. /\ vq'[j].used_ring = vq[j].used_ring /\ vq'[j].used_idx = vq[j].used_idx
          /\ vq'[j].last_avail = vq[j].last_avail /\ vq'[j].ready = vq[j].ready
      BY <1>0, <3>1 DEF post_avail, Queue
    <3> QED
      BY <3>1, <3>2, <3>3
  <2> QED
    BY <2>2, <2>3
<1>3. CASE Reap
  <2>1. vq' = vq /\ posted' = posted
    BY <1>3, ReapSteps
  <2>2. CASE scan # j
    BY <1>3, <2>1, <2>2, ReapSteps
  <2>3. CASE scan = j
    <3>1. /\ vq[j] \in ProgrammedQueue /\ last_used[j] # vq[j].used_idx
          /\ free'[j] = free[j] \cup {UsedAt(vq[j], last_used[j])}
          /\ last_used'[j] = (last_used[j] + 1) % IdxMod
      BY <1>3, <2>3, ReapSteps
    <3>2. /\ Custody(vq[j], free[j] \cup {UsedAt(vq[j], last_used[j])}, posted[j],
                     last_used[j] + 1, s, c)
          /\ (last_used[j] + 1) % IdxMod = last_used[j] + 1
      <4> DEFINE r == vq[j]
                 F == free[j]
                 p == posted[j]
                 l == last_used[j]
                 m == l + 1
      <4>1. /\ r \in ProgrammedQueue /\ p \in Nat /\ l \in Nat /\ l # r.used_idx
            /\ Custody(r, F, p, l, s, c) /\ m \in Nat /\ m - l = 1
        BY <1>0, <3>1
      <4> HIDE DEF r, F, p, l, m
      <4>2. Custody(r, F \cup {UsedAt(r, l)}, p, m, s, c) /\ m % IdxMod = m
        BY ONLY <4>1, s \in {0, 1}, CustodyReap
      <4> QED
        BY <4>2 DEF r, F, p, l, m
    <3> QED
      BY <2>1, <3>1, <3>2
  <2> QED
    BY <2>2, <2>3
<1>4. CASE PublishEvent
  <2>1. /\ UNCHANGED <<last_used, free, posted>> /\ SameEntries(vq[j], vq'[j])
        /\ vq'[j].used_ring = vq[j].used_ring /\ vq'[j].ready = vq[j].ready
    BY <1>4, PublishSteps
  <2> QED
    BY <1>0, <2>1, CustodyQuiet DEF SameEntries
<1>5. CASE IrqEntry \/ ReadStatus \/ AckIrq \/ Recheck
  BY <1>5, QuietHandlerSteps
<1> QED
  BY <1>1, <1>2, <1>3, <1>4, <1>5 DEF GuestStep, Handler

(* Every step of the guest keeps the guest's invariant. *)
LEMMA GuestInvStep ==
  ASSUME GuestInv, GuestStep PROVE GuestInv'
  BY SetupSteps, PostSteps, ReapSteps, PublishSteps, QuietHandlerSteps DEF GuestStep, Handler

(* What the driver posts comes behind what it posted before. *)
LEMMA PostedBehind ==
  ASSUME GuestInv, NEW i \in Queues, NEW h \in free[i], Post(i, h), NEW s \in {0, 1}, NEW c,
         Custody(vq[i], free[i], posted[i], last_used[i], s, c)
  PROVE  /\ AvailAt(vq'[i], posted[i]) = h
         /\ \A n \in vq[i].used_idx .. posted[i] - 1 : AvailAt(vq'[i], n) = AvailAt(vq[i], n)
         /\ \A n \in NotTaken(vq'[i], posted'[i]) : n \in NotTaken(vq[i], posted[i]) \/ n = posted[i]
         /\ vq[i].last_avail <= posted[i]
<1> DEFINE r == vq[i]
           F == free[i]
           p == posted[i]
           l == last_used[i]
           e == post_avail(r, h)
<1>1. /\ r \in ProgrammedQueue /\ h \in Heads /\ h \in F /\ vq'[i] = e /\ posted'[i] = p + 1
      /\ p \in Nat /\ l \in Nat /\ F \in SUBSET Heads
      /\ r.last_avail \in Nat /\ r.used_idx \in Nat /\ QueueNum \in Nat
      /\ Custody(r, F, p, l, s, c)
  BY PostSteps, GuestTypes, RingSizes
<1> HIDE DEF r, F, p, l, e
<1>2. /\ l <= r.used_idx /\ r.last_avail = r.used_idx + s /\ r.last_avail <= p
      /\ r.avail_idx = (IF p < IdxMod THEN p ELSE p - IdxMod)
      /\ Cardinality(F) + (p - r.last_avail) + s + (r.used_idx - l) <= QueueNum
      /\ IsFiniteSet(F)
  BY <1>1 DEF Custody, Counted
<1>3. Cardinality(F) \in Nat /\ Cardinality(F) >= 1
  <2>1. Cardinality(F) \in Nat /\ Cardinality(F \ {h}) = Cardinality(F) - 1
        /\ Cardinality(F \ {h}) \in Nat
    BY <1>1, <1>2, FS_RemoveElement, FS_CardinalityType
  <2> QED
    BY <2>1
<1>4. p - r.used_idx < QueueNum
  BY <1>1, <1>2, <1>3
<1>5. r.avail_idx % QueueNum = p % QueueNum
  BY <1>1, <1>2, WrappedSlot
<1>6. /\ AvailAt(e, p) = h /\ e.last_avail = r.last_avail
      /\ \A n \in Int : n < p /\ p - n < QueueNum => AvailAt(e, n) = AvailAt(r, n)
  BY <1>1, <1>5, PostedEntries DEF e
<1>7. \A n \in r.used_idx .. p - 1 : AvailAt(e, n) = AvailAt(r, n)
  BY <1>1, <1>4, <1>6
<1>8. \A n \in NotTaken(e, p + 1) : n \in NotTaken(r, p) \/ n = p
  BY <1>1, <1>2, <1>6 DEF NotTaken
<1> QED
  BY <1>1, <1>2, <1>6, <1>7, <1>8 DEF r, p

(* Any other step of the guest leaves the avail entries as they are. *)
LEMMA AvailKept ==
  ASSUME GuestInv, (\E i \in Queues : SetupQueue(i)) \/ Handler, NEW j \in Queues
  PROVE  posted'[j] = posted[j] /\ \A n \in Int : AvailAt(vq'[j], n) = AvailAt(vq[j], n)
<1>1. ASSUME NEW i \in Queues, SetupQueue(i)
      PROVE  posted'[j] = posted[j] /\ \A n \in Int : AvailAt(vq'[j], n) = AvailAt(vq[j], n)
  BY <1>1, SetupSteps DEF SameEntries
<1>2. CASE Reap
  BY <1>2, ReapSteps
<1>3. CASE PublishEvent
  BY <1>3, PublishSteps DEF SameEntries
<1>4. CASE IrqEntry \/ ReadStatus \/ AckIrq \/ Recheck
  BY <1>4, QuietHandlerSteps
<1> QED
  BY <1>1, <1>2, <1>3, <1>4 DEF Handler

(* The driver only ever reaps the oldest entry. *)
LEMMA ReapedInOrder ==
  ASSUME GuestInv, GuestStep, NEW j \in Queues, NEW s \in {0, 1}, NEW c,
         Custody(vq[j], free[j], posted[j], last_used[j], s, c)
  PROVE  /\ \A n \in NotReaped(vq'[j], last_used'[j]) : n \in NotReaped(vq[j], last_used[j])
         /\ \A n \in Int : UsedAt(vq'[j], n) = UsedAt(vq[j], n)
<1>0. last_used[j] \in Nat /\ vq[j].used_idx \in Nat /\ vq[j] \in Queue
  BY GuestTypes
<1>1. vq'[j].used_ring = vq[j].used_ring /\ vq'[j].used_idx = vq[j].used_idx
  BY GuestCustody
<1>2. last_used'[j] = last_used[j] \/ last_used'[j] = last_used[j] + 1
  <2>1. CASE Reap
    <3>1. CASE scan # j
      BY <2>1, <3>1, ReapSteps
    <3>2. CASE scan = j
      <4>1. last_used[j] # vq[j].used_idx /\ last_used'[j] = (last_used[j] + 1) % IdxMod
        BY <2>1, <3>2, ReapSteps
      <4>2. last_used[j] + 1 \in 0 .. IdxMod - 1
        <5>1. last_used[j] <= vq[j].used_idx /\ vq[j].used_idx \in 0 .. IdxMod - 1
          BY <1>0 DEF Custody, Queue, Word
        <5> QED
          BY <1>0, <4>1, <5>1, RingSizes
      <4>3. (last_used[j] + 1) % IdxMod = last_used[j] + 1
        BY <1>0, <4>2, RingSizes
      <4> QED
        BY <4>1, <4>3
    <3> QED
      BY <3>1, <3>2
  <2>2. CASE ~Reap
    <3>1. last_used' = last_used
      BY <2>2, SetupSteps, PostSteps, PublishSteps, QuietHandlerSteps DEF GuestStep, Handler
    <3> QED
      BY <3>1
  <2> QED
    BY <2>1, <2>2
<1> QED
  BY <1>0, <1>1, <1>2 DEF NotReaped, UsedAt

-----------------------------------------------------------------------------
(* A queue in custody as a server of chains, first come first served       *)

PendingIn(r, p) == Window(Avails(r), r.used_idx, p)
DoneIn(r, l) == Window(Useds(r), l, r.used_idx)

IsIn(s, h) == \E k \in 1 .. Len(s) : s[k] = h

LEMMA WindowMembers ==
  ASSUME NEW f, NEW a, NEW b, NEW h, f \in Entries, a \in Int, b \in Int, a <= b,
         \A n \in a .. b - 1 : f[n] # h
  PROVE  ~IsIn(Window(f, a, b), h)
<1> SUFFICES ASSUME NEW k \in 1 .. Len(Window(f, a, b)) PROVE Window(f, a, b)[k] # h
  BY DEF IsIn
<1>1. Len(Window(f, a, b)) = b - a
  BY WindowSeq
<1>2. k \in 1 .. b - a /\ a + k - 1 \in a .. b - 1
  BY <1>1
<1>3. Window(f, a, b)[k] = f[a + k - 1]
  BY <1>2 DEF Window
<1> QED
  BY <1>2, <1>3

LEMMA CustodyBounds ==
  ASSUME NEW r, NEW F, NEW p, NEW l, NEW s, NEW c,
         r \in Queue, RingsHoldHeads(r), p \in Nat, l \in Nat, s \in {0, 1},
         Custody(r, F, p, l, s, c)
  PROVE  /\ r.used_idx \in Int /\ l <= r.used_idx /\ r.used_idx <= p /\ r.last_avail <= p
         /\ r.last_avail = r.used_idx + s /\ r.last_avail \in Int
         /\ Avails(r) \in Entries /\ Useds(r) \in Entries
         /\ r.used_idx - l <= QueueNum - s
<1>1. /\ l <= r.used_idx /\ r.last_avail = r.used_idx + s /\ r.last_avail <= p
      /\ IsFiniteSet(F)
      /\ Cardinality(F) + (p - r.last_avail) + s + (r.used_idx - l) <= QueueNum
  BY DEF Custody, Counted
<1>2. r.used_idx \in Int /\ r.last_avail \in Int /\ Cardinality(F) \in Nat
  BY <1>1, RingSizes, FS_CardinalityType DEF Queue, Word
<1>3. r.used_idx <= p /\ r.used_idx - l <= QueueNum - s
  BY <1>1, <1>2, RingSizes
<1> QED
  BY <1>1, <1>2, <1>3, RingFunctions

(* A chain the driver has is neither pending nor done. *)
LEMMA RingFreeIsElsewhere ==
  ASSUME NEW r, NEW F, NEW p, NEW l, NEW s, NEW c, NEW h,
         r \in Queue, RingsHoldHeads(r), p \in Nat, l \in Nat, s \in {0, 1}, h \in F,
         Custody(r, F, p, l, s, c)
  PROVE  ~IsIn(PendingIn(r, p), h) /\ ~IsIn(DoneIn(r, l), h)
<1> DEFINE u == r.used_idx
<1>1. /\ u \in Int /\ l <= u /\ u <= p /\ r.last_avail = u + s
      /\ Avails(r) \in Entries /\ Useds(r) \in Entries
  BY CustodyBounds
<1>2. Apart(r, F, p, l) /\ (s = 1 => Alone(r, F, p, l, c) /\ c = AvailAt(r, r.last_avail - 1))
  BY DEF Custody
<1>3. ASSUME NEW n \in u .. p - 1 PROVE Avails(r)[n] # h
  <2>1. Avails(r)[n] = AvailAt(r, n)
    BY <1>1 DEF Avails
  <2>2. CASE n \in NotTaken(r, p)
    BY <1>2, <2>1, <2>2 DEF Apart
  <2>3. CASE n \notin NotTaken(r, p)
    <3>1. s = 1 /\ n = r.last_avail - 1
      BY <1>1, <2>3 DEF NotTaken
    <3> QED
      BY <1>2, <2>1, <3>1 DEF Alone
  <2> QED
    BY <2>2, <2>3
<1>4. ASSUME NEW n \in l .. u - 1 PROVE Useds(r)[n] # h
  BY <1>1, <1>2 DEF Apart, NotReaped, Useds
<1> HIDE DEF u
<1>5. ~IsIn(Window(Avails(r), u, p), h)
  BY <1>1, <1>3, WindowMembers
<1>6. ~IsIn(Window(Useds(r), l, u), h)
  BY <1>1, <1>4, WindowMembers
<1> QED
  BY <1>5, <1>6 DEF PendingIn, DoneIn, u

(* A step that keeps the used index and the entries under way. *)
LEMMA RingStutters ==
  ASSUME NEW r \in Queue, NEW e, NEW p \in Nat, NEW l \in Nat,
         e.used_idx = r.used_idx,
         \A n \in Int : AvailAt(e, n) = AvailAt(r, n),
         \A n \in NotReaped(r, l) : UsedAt(e, n) = UsedAt(r, n)
  PROVE  PendingIn(e, p) = PendingIn(r, p) /\ DoneIn(e, l) = DoneIn(r, l)
<1> DEFINE u == r.used_idx
<1>1. u \in Int
  BY RingSizes DEF Queue, Word
<1>2. \A n \in u .. p - 1 : Avails(e)[n] = Avails(r)[n]
  BY <1>1 DEF Avails
<1>3. \A n \in l .. u - 1 : Useds(e)[n] = Useds(r)[n]
  BY <1>1 DEF Useds, NotReaped
<1> HIDE DEF u
<1>4. Window(Avails(e), u, p) = Window(Avails(r), u, p)
  BY <1>1, <1>2, WindowSame
<1>5. Window(Useds(e), l, u) = Window(Useds(r), l, u)
  BY <1>1, <1>3, WindowSame
<1> QED
  BY <1>4, <1>5 DEF PendingIn, DoneIn, u

(* Post submits the chain ... *)
LEMMA RingPostSubmits ==
  ASSUME GuestInv, NEW i \in Queues, NEW h \in free[i], Post(i, h), NEW s \in {0, 1}, NEW c,
         Custody(vq[i], free[i], posted[i], last_used[i], s, c)
  PROVE  /\ h \in Heads
         /\ ~IsIn(PendingIn(vq[i], posted[i]), h) /\ ~IsIn(DoneIn(vq[i], last_used[i]), h)
         /\ PendingIn(vq'[i], posted'[i]) = Append(PendingIn(vq[i], posted[i]), h)
         /\ DoneIn(vq'[i], last_used'[i]) = DoneIn(vq[i], last_used[i])
<1> DEFINE r == vq[i]
           e == vq'[i]
           p == posted[i]
           l == last_used[i]
           u == r.used_idx
<1>1. /\ r \in Queue /\ RingsHoldHeads(r) /\ p \in Nat /\ l \in Nat
      /\ h \in Heads /\ posted'[i] = p + 1 /\ last_used'[i] = l /\ GuestInv'
  BY PostSteps, GuestTypes DEF GuestInv
<1> DEFINE F == free[i]
<1>0. Custody(r, F, p, l, s, c) /\ h \in F
  OBVIOUS
<1>9. r \in Queue /\ RingsHoldHeads(r) /\ p \in Nat /\ l \in Nat
  BY <1>1
<1> HIDE DEF r, F, p, l
<1>2. /\ u \in Int /\ l <= u /\ u <= p
      /\ Avails(r) \in Entries /\ Useds(r) \in Entries
  BY ONLY s \in {0, 1}, <1>0, <1>9, CustodyBounds
<1>3. ~IsIn(PendingIn(r, p), h) /\ ~IsIn(DoneIn(r, l), h)
  BY ONLY s \in {0, 1}, <1>0, <1>1, RingFreeIsElsewhere
<1> USE DEF r, F, p, l
<1>4. e.used_idx = u /\ \A n \in Int : UsedAt(e, n) = UsedAt(r, n)
  BY GuestCustody, ReapedInOrder DEF GuestStep
<1>5. AvailAt(e, p) = h /\ \A n \in u .. p - 1 : AvailAt(e, n) = AvailAt(r, n)
  BY PostedBehind
<1>6. Avails(e) \in Entries
  BY <1>1, RingFunctions DEF GuestInv, GuestTypeOK
<1> HIDE DEF r, e, p, l, u
<1>7. Window(Avails(e), u, p + 1) = Append(Window(Avails(r), u, p), h)
  <2>1. \A n \in u .. p - 1 : Avails(r)[n] = Avails(e)[n]
    BY <1>1, <1>2, <1>5 DEF Avails
  <2>2. Avails(e)[p] = h
    BY <1>1, <1>5 DEF Avails
  <2>3. p \in Int /\ p + 1 \in Int /\ (p + 1) - p = 1
    BY <1>1
  <2>4. Pushed(Window(Avails(r), u, p), Avails(e)[p], Window(Avails(e), u, p + 1))
    BY ONLY <1>2, <1>6, <2>1, <2>3, WindowAppend
  <2> QED
    BY <2>2, <2>4 DEF Pushed
<1>8. Window(Useds(e), l, u) = Window(Useds(r), l, u)
  <2>1. \A n \in l .. u - 1 : Useds(e)[n] = Useds(r)[n]
    BY <1>1, <1>2, <1>4 DEF Useds
  <2> QED
    BY <1>1, <1>2, <2>1, WindowSame
<1> QED
  BY <1>1, <1>3, <1>4, <1>7, <1>8 DEF PendingIn, DoneIn, r, e, p, l, u

(* ... Reap collects the oldest that is done, ... *)
LEMMA RingReapCollects ==
  ASSUME GuestInv, Reap, NEW s \in {0, 1}, NEW c,
         Custody(vq[scan], free[scan], posted[scan], last_used[scan], s, c)
  PROVE  /\ DoneIn(vq[scan], last_used[scan]) # <<>>
         /\ DoneIn(vq'[scan], last_used'[scan]) = Tail(DoneIn(vq[scan], last_used[scan]))
         /\ PendingIn(vq'[scan], posted'[scan]) = PendingIn(vq[scan], posted[scan])
<1> DEFINE r == vq[scan]
           p == posted[scan]
           l == last_used[scan]
           u == r.used_idx
<1>1. /\ r \in Queue /\ RingsHoldHeads(r) /\ p \in Nat /\ l \in Nat /\ u \in Word
  BY GuestTypes DEF GuestInv, Queue
<1>2. /\ vq' = vq /\ posted' = posted /\ l # u /\ last_used'[scan] = (l + 1) % IdxMod
  BY ReapSteps
<1> DEFINE F == free[scan]
<1>0. Custody(r, F, p, l, s, c)
  OBVIOUS
<1> HIDE DEF r, F, p, l
<1>3. /\ u \in Int /\ l <= u /\ Useds(r) \in Entries
  BY ONLY s \in {0, 1}, <1>0, <1>1, CustodyBounds
<1> USE DEF r, F, p, l
<1>4. last_used'[scan] = l + 1
  <2>1. l + 1 \in 0 .. IdxMod - 1
    BY <1>1, <1>2, <1>3, RingSizes DEF Word
  <2>2. (l + 1) % IdxMod = l + 1
    BY <1>1, <2>1, RingSizes
  <2> QED
    BY <1>2, <2>2
<1> HIDE DEF r, p, l, u
<1>5. l \in Int /\ l < u /\ l + 1 \in Int /\ (l + 1) - l = 1
  BY <1>1, <1>2, <1>3
<1>6. Popped(Window(Useds(r), l, u), Useds(r)[l], Window(Useds(r), l + 1, u))
  BY ONLY <1>3, <1>5, WindowTail
<1> QED
  BY <1>2, <1>4, <1>6 DEF PendingIn, DoneIn, Popped, r, p, l, u

(* ... and the used index serves the oldest that is pending. *)
LEMMA RingUseIdxServes ==
  ASSUME NEW r \in ProgrammedQueue, RingsHoldHeads(r), NEW F, NEW p \in Nat, NEW l \in Nat,
         NEW c, Custody(r, F, p, l, 1, c), UsedAt(r, r.used_idx) = c
  PROVE  LET e == add_used_idx(r)
         IN  /\ PendingIn(r, p) # <<>>
             /\ PendingIn(e, p) = Tail(PendingIn(r, p))
             /\ DoneIn(e, l) = Append(DoneIn(r, l), Head(PendingIn(r, p)))
<1> DEFINE e == add_used_idx(r)
           u == r.used_idx
<1>1. r \in Queue
  BY DEF ProgrammedQueue
<1>2. /\ u \in Int /\ l <= u /\ r.last_avail <= p /\ r.last_avail = u + 1
      /\ Avails(r) \in Entries /\ Useds(r) \in Entries
  BY <1>1, CustodyBounds
<1>3. u < p /\ AvailAt(r, u) = c
  <2>1. c = AvailAt(r, r.last_avail - 1) /\ r.last_avail - 1 = u
    BY <1>2 DEF Custody
  <2> QED
    BY <1>2, <2>1
<1>4. e.used_idx = u + 1
  BY CustodyReturn
<1>5. Avails(e) = Avails(r) /\ Useds(e) = Useds(r)
  BY <1>1 DEF add_used_idx, Queue, Avails, Useds, AvailAt, UsedAt
<1>6. Avails(r)[u] = c /\ Useds(r)[u] = c
  BY <1>2, <1>3 DEF Avails, Useds
<1> HIDE DEF e, u
<1>7. /\ Window(Avails(r), u, p) # <<>> /\ Head(Window(Avails(r), u, p)) = c
      /\ Tail(Window(Avails(r), u, p)) = Window(Avails(r), u + 1, p)
  <2>1. p \in Int /\ u + 1 \in Int /\ (u + 1) - u = 1
    BY <1>2
  <2>2. Popped(Window(Avails(r), u, p), Avails(r)[u], Window(Avails(r), u + 1, p))
    BY ONLY <1>2, <1>3, <2>1, WindowTail
  <2> QED
    BY <1>6, <2>2 DEF Popped
<1>8. Window(Useds(r), l, u + 1) = Append(Window(Useds(r), l, u), c)
  <2>1. /\ l \in Int /\ \A n \in l .. u - 1 : Useds(r)[n] = Useds(r)[n]
        /\ u + 1 \in Int /\ (u + 1) - u = 1
    BY <1>2
  <2>2. Pushed(Window(Useds(r), l, u), Useds(r)[u], Window(Useds(r), l, u + 1))
    BY ONLY <1>2, <2>1, WindowAppend
  <2> QED
    BY <1>6, <2>2 DEF Pushed
<1> QED
  BY <1>4, <1>5, <1>7, <1>8 DEF PendingIn, DoneIn, e, u

(* These are the sequences of the refinement mapping. *)
LEMMA ServerSequences ==
  ASSUME GuestInv, NEW i \in Queues
  PROVE  PendingOf(i) = PendingIn(vq[i], posted[i]) /\ DoneOf(i) = DoneIn(vq[i], last_used[i])
<1>1. vq[i].used_idx \in Int /\ posted[i] \in Int /\ last_used[i] \in Int
  BY GuestTypes
<1>2. \A k \in 1 .. posted[i] - vq[i].used_idx :
        vq[i].avail_ring[(vq[i].used_idx + k - 1) % QueueNum] = Avails(vq[i])[vq[i].used_idx + k - 1]
  BY <1>1 DEF Avails, AvailAt
<1>3. \A k \in 1 .. vq[i].used_idx - last_used[i] :
        vq[i].used_ring[(last_used[i] + k - 1) % QueueNum].id = Useds(vq[i])[last_used[i] + k - 1]
  BY <1>1 DEF Useds, UsedAt
<1> QED
  BY <1>1, <1>2, <1>3 DEF PendingOf, DoneOf, PendingIn, DoneIn, Window

(* A step of the server, or none, that turns the sequences P and D into Q  *)
(* and E.                                                                  *)
ServerStep(P, D, Q, E) ==
  \/ \E h \in Heads : ~IsIn(P, h) /\ ~IsIn(D, h) /\ Q = Append(P, h) /\ E = D
  \/ P # <<>> /\ Q = Tail(P) /\ E = Append(D, Head(P))
  \/ D # <<>> /\ E = Tail(D) /\ Q = P
  \/ Q = P /\ E = D

(* Whatever the guest does is, for one queue, a chain submitted, one       *)
(* collected, or nothing.                                                  *)
LEMMA GuestServes ==
  ASSUME GuestInv, GuestStep, NEW i \in Queues, NEW s \in {0, 1}, NEW c,
         Custody(vq[i], free[i], posted[i], last_used[i], s, c)
  PROVE  ServerStep(PendingIn(vq[i], posted[i]), DoneIn(vq[i], last_used[i]),
                    PendingIn(vq'[i], posted'[i]), DoneIn(vq'[i], last_used'[i]))
<1> DEFINE P == PendingIn(vq[i], posted[i])
           D == DoneIn(vq[i], last_used[i])
           Q == PendingIn(vq'[i], posted'[i])
           E == DoneIn(vq'[i], last_used'[i])
<1>1. CASE \E k \in Queues : \E h \in free[k] : Post(k, h)
  <2>0. PICK k \in Queues : \E h \in free[k] : Post(k, h)
    BY <1>1
  <2>1. PICK h \in free[k] : Post(k, h)
    BY <2>0
  <2>2. CASE k = i
    <3>1. h \in free[i] /\ Post(i, h)
      BY <2>1, <2>2
    <3>2. h \in Heads /\ ~IsIn(P, h) /\ ~IsIn(D, h) /\ Q = Append(P, h) /\ E = D
      BY <3>1, RingPostSubmits
    <3> QED
      BY <3>2 DEF ServerStep
  <2>3. CASE k # i
    BY <2>1, <2>3, PostSteps DEF ServerStep
  <2> QED
    BY <2>2, <2>3
<1>2. CASE Reap
  <2>1. CASE scan = i
    <3>1. D # <<>> /\ E = Tail(D) /\ Q = P
      BY <1>2, <2>1, RingReapCollects
    <3> QED
      BY <3>1 DEF ServerStep
  <2>2. CASE scan # i
    BY <1>2, <2>2, ReapSteps DEF ServerStep
  <2> QED
    BY <2>1, <2>2
<1>3. CASE (\E k \in Queues : SetupQueue(k)) \/ (Handler /\ ~Reap)
  <2>1. posted'[i] = posted[i] /\ \A n \in Int : AvailAt(vq'[i], n) = AvailAt(vq[i], n)
    BY <1>3, AvailKept
  <2>2. last_used'[i] = last_used[i]
    BY <1>3, SetupSteps, PublishSteps, QuietHandlerSteps DEF Handler
  <2>3. vq'[i].used_idx = vq[i].used_idx /\ \A n \in Int : UsedAt(vq'[i], n) = UsedAt(vq[i], n)
    BY GuestCustody, ReapedInOrder
  <2>4. vq[i] \in Queue /\ posted[i] \in Nat /\ last_used[i] \in Nat
    BY GuestTypes
  <2>5. \A n \in NotReaped(vq[i], last_used[i]) : UsedAt(vq'[i], n) = UsedAt(vq[i], n)
    BY <2>3, <2>4 DEF NotReaped, Queue
  <2>6. /\ PendingIn(vq'[i], posted[i]) = P
        /\ DoneIn(vq'[i], last_used[i]) = D
    BY <2>1, <2>3, <2>4, <2>5, RingStutters
  <2> QED
    BY <2>1, <2>2, <2>6 DEF ServerStep
<1> QED
  BY <1>1, <1>2, <1>3 DEF GuestStep, Handler

(* Storing an element where none waits to be reaped is nothing to it, ...  *)
LEMMA UseElemStutters ==
  ASSUME NEW r \in ProgrammedQueue, NEW F, NEW p \in Nat, NEW l \in Nat,
         NEW c, NEW n, RingsHoldHeads(r), Custody(r, F, p, l, 1, c)
  PROVE  LET e == add_used_elem(r, c, n)
         IN  PendingIn(e, p) = PendingIn(r, p) /\ DoneIn(e, l) = DoneIn(r, l)
<1> DEFINE e == add_used_elem(r, c, n)
<1>1. r \in Queue
  BY DEF ProgrammedQueue
<1>2. r.used_idx \in Int /\ r.used_idx - l <= QueueNum - 1
  BY <1>1, CustodyBounds
<1>3. /\ \A k \in Int : k < r.used_idx /\ r.used_idx - k < QueueNum
                          => UsedAt(e, k) = UsedAt(r, k)
      /\ \A k \in Int : AvailAt(e, k) = AvailAt(r, k)
      /\ e.used_idx = r.used_idx
  BY UsedEntries
<1> HIDE DEF e
<1>4. \A k \in NotReaped(r, l) : UsedAt(e, k) = UsedAt(r, k)
  <2>1. QueueNum \in Nat
    BY RingSizes
  <2> QED
    BY <1>2, <1>3, <2>1 DEF NotReaped
<1>5. PendingIn(e, p) = PendingIn(r, p) /\ DoneIn(e, l) = DoneIn(r, l)
  BY <1>1, <1>3, <1>4, RingStutters
<1> QED
  BY <1>5 DEF e

(* ... and neither is taking a chain or giving it back to the queue.       *)
LEMMA TakingStutters ==
  ASSUME NEW r \in Queue, NEW p \in Nat, NEW l \in Nat, NEW e,
         e.used_idx = r.used_idx, e.avail_ring = r.avail_ring, e.used_ring = r.used_ring
  PROVE  PendingIn(e, p) = PendingIn(r, p) /\ DoneIn(e, l) = DoneIn(r, l)
<1>1. /\ \A n \in Int : AvailAt(e, n) = AvailAt(r, n)
      /\ \A n \in NotReaped(r, l) : UsedAt(e, n) = UsedAt(r, n)
  BY DEF AvailAt, UsedAt
<1> QED
  BY <1>1, RingStutters

=============================================================================
