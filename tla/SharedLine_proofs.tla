-------------------------- MODULE SharedLine_proofs ---------------------------
(* Theorems about SharedLine, for any number of ports on the line and any  *)
(* number of vCPUs.                                                        *)
EXTENDS SharedLine, TLAPS

(* What the two halves of a pulse do to the line.                         *)
LEMMA RaisedLine ==
  ASSUME NEW l \in Line
  PROVE  LET r == merged(set_level(l, TRUE))
         IN  r \in Line /\ r.level /\ (l.events # 0 \/ ~l.level => r.events # 0)
<1> DEFINE r == set_level(l, TRUE)
<1>1. l.level \in BOOLEAN /\ l.events \in Nat
  BY DEF Line
<1>2. r \in Line
  BY <1>1 DEF set_level, Line
<1>3. r.level = TRUE /\ (l.events # 0 \/ ~l.level => r.events # 0)
  BY <1>1 DEF set_level
<1> HIDE DEF r
<1>4. merged(r) \in Line
  BY <1>2 DEF Line, merged
<1>5. merged(r).level = r.level
  BY <1>2 DEF Line, merged
<1>6. r.events # 0 => merged(r).events # 0
  BY <1>2 DEF Line, merged
<1> QED
  BY <1>3, <1>4, <1>5, <1>6 DEF r

LEMMA LoweredLine ==
  ASSUME NEW l \in Line
  PROVE  LET r == set_level(l, FALSE)
         IN  r \in Line /\ ~r.level /\ r.events = l.events
  BY DEF Line, set_level

Typing ==
  /\ line \in Line
  /\ cause \in [Ports -> BOOLEAN] /\ iir \in [Ports -> BOOLEAN]
  /\ overlapped \in [Ports -> BOOLEAN]
  /\ at \in [Threads -> Ports \union {NoPort}]
  /\ pc \in [Threads -> {"idle", "raise", "high", "lower"}]
  /\ handler \in [on : VCpus \union {NoCpu}, serving : Ports \union {NoPort}, quiet : SUBSET Ports]

(* A thread holds a mutex exactly during an access, and nobody else the    *)
(* same; a port whose line is only lowered has no cause.                   *)
Mutexes ==
  /\ \A t \in Threads : pc[t] = "idle" <=> at[t] = NoPort
  /\ \A s, t \in Threads : at[s] = at[t] /\ at[s] # NoPort => s = t
  /\ \A t \in Threads : pc[t] = "lower" => ~cause[at[t]]

(* A cause without an edge and without overlap is about to be announced,   *)
(* or the handler has not looked at its port yet.                          *)
AboutToRaise(p) == \E t \in Threads : at[t] = p /\ pc[t] = "raise"

StillToLook(p) == handler.on # NoCpu /\ p \notin handler.quiet

Unannounced(p) == cause[p] /\ line.events = 0 /\ ~overlapped[p]

Announced == \A p \in Ports : Unannounced(p) => AboutToRaise(p) \/ StillToLook(p)

IInv == Typing /\ Mutexes /\ HighOnlyInPulse /\ Announced

-----------------------------------------------------------------------------
LEMMA InitIInv == Init => IInv
<1> SUFFICES ASSUME Init PROVE IInv
  OBVIOUS
<1> USE SharedLineConstants DEF SharedLineConstants, Init
<1>1. Typing
  BY DEF Typing, Line, LowLine, NotHandling
<1>2. Mutexes
  BY DEF Mutexes
<1>3. HighOnlyInPulse
  BY DEF HighOnlyInPulse, LowLine
<1>4. Announced
  BY DEF Announced, Unannounced
<1> QED
  BY <1>1, <1>2, <1>3, <1>4 DEF IInv

-----------------------------------------------------------------------------
(* The beginning of an access, whoever makes it.                           *)

LEMMA AccessTyped ==
  ASSUME IInv, NEW t \in Threads, NEW p \in Ports, NEW c \in BOOLEAN, Access(t, p, c)
  PROVE  /\ line' \in Line /\ cause' \in [Ports -> BOOLEAN] /\ iir' \in [Ports -> BOOLEAN]
         /\ overlapped' \in [Ports -> BOOLEAN]
         /\ at' \in [Threads -> Ports \union {NoPort}]
         /\ pc' \in [Threads -> {"idle", "raise", "high", "lower"}]
  BY DEF IInv, Typing, Access

(* The facts about at and pc that the other lemmas use.                    *)
LEMMA AccessMoves ==
  ASSUME IInv, NEW t \in Threads, NEW p \in Ports, NEW c \in BOOLEAN, Access(t, p, c)
  PROVE  /\ pc[t] = "idle" /\ at'[t] = p /\ pc'[t] \in {"raise", "lower"}
         /\ c => pc'[t] = "raise"
         /\ \A s \in Threads \ {t} : pc'[s] = pc[s] /\ at'[s] = at[s] /\ at[s] # p
         /\ cause'[p] = c /\ \A o \in Ports \ {p} : cause'[o] = cause[o]
  BY DEF IInv, Typing, Access, Free

LEMMA AccessMutexes ==
  ASSUME IInv, NEW t \in Threads, NEW p \in Ports, NEW c \in BOOLEAN, Access(t, p, c)
  PROVE  Mutexes' /\ HighOnlyInPulse'
<1> USE AccessMoves
<1>1. \A s \in Threads : pc'[s] = "idle" <=> at'[s] = NoPort
  BY SharedLineConstants DEF SharedLineConstants, IInv, Mutexes
<1>2. \A r, s \in Threads : at'[r] = at'[s] /\ at'[r] # NoPort => r = s
  BY DEF IInv, Mutexes
<1>3. \A s \in Threads : pc'[s] = "lower" => ~cause'[at'[s]]
  <2> SUFFICES ASSUME NEW s \in Threads, pc'[s] = "lower" PROVE ~cause'[at'[s]]
    OBVIOUS
  <2>1. CASE s = t
    BY <2>1
  <2>2. CASE s # t
    <3>1. at[s] \in Ports \ {p} /\ ~cause[at[s]]
      BY <2>2 DEF IInv, Typing, Mutexes
    <3> QED
      BY <2>2, <3>1
  <2> QED
    BY <2>1, <2>2
<1>4. HighOnlyInPulse'
  <2> SUFFICES ASSUME line'.level PROVE \E s \in Threads : pc'[s] = "high"
    BY DEF HighOnlyInPulse
  <2>1. PICK s \in Threads : pc[s] = "high"
    BY DEF Access, IInv, HighOnlyInPulse
  <2> QED
    BY <2>1
<1> QED
  BY <1>1, <1>2, <1>3, <1>4 DEF Mutexes

(* An access by anybody but the handler: what was still to be looked at is *)
(* so afterwards.                                                          *)
LEMMA AccessAnnounced ==
  ASSUME IInv, NEW t \in Threads, NEW p \in Ports, NEW c \in BOOLEAN, Access(t, p, c),
         \A o \in Ports \ {p} : StillToLook(o) => StillToLook(o)'
  PROVE  Announced'
<1> SUFFICES ASSUME NEW o \in Ports, Unannounced(o)'
             PROVE  AboutToRaise(o)' \/ StillToLook(o)'
  BY DEF Announced
<1> USE AccessMoves
<1>1. CASE o = p
  BY <1>1 DEF Unannounced, AboutToRaise
<1>2. CASE o # p
  <2>1. Unannounced(o)
    BY <1>2 DEF Unannounced, Access
  <2>2. CASE StillToLook(o)
    BY <1>2, <2>2
  <2>3. CASE AboutToRaise(o)
    <3>1. PICK s \in Threads : at[s] = o /\ pc[s] = "raise"
      BY <2>3 DEF AboutToRaise
    <3> QED
      BY <3>1 DEF AboutToRaise
  <2> QED
    BY <2>1, <2>2, <2>3 DEF IInv, Announced
<1> QED
  BY <1>1, <1>2

(* Together: an access keeps the invariant if the handler stays well-typed.*)
LEMMA AccessIInv ==
  ASSUME IInv, NEW t \in Threads, NEW p \in Ports, NEW c \in BOOLEAN, Access(t, p, c),
         handler' \in [on : VCpus \union {NoCpu}, serving : Ports \union {NoPort},
                       quiet : SUBSET Ports],
         \A o \in Ports \ {p} : StillToLook(o) => StillToLook(o)'
  PROVE  IInv'
  BY AccessTyped, AccessMutexes, AccessAnnounced DEF IInv, Typing

-----------------------------------------------------------------------------
(* The pulse.                                                              *)

LEMMA RaiseIInv ==
  ASSUME IInv, NEW t \in Threads, Raise(t)
  PROVE  IInv'
<1>1. at[t] \in Ports /\ pc[t] = "raise"
  BY DEF IInv, Typing, Mutexes, Raise
<1>2. /\ line' \in Line /\ line'.level
      /\ line.events # 0 \/ ~line.level => line'.events # 0
  BY RaisedLine DEF IInv, Typing, Raise
<1>3. pc'[t] = "high" /\ \A s \in Threads \ {t} : pc'[s] = pc[s]
  BY DEF IInv, Typing, Raise
<1>4. Typing'
  <2>1. overlapped' \in [Ports -> BOOLEAN]
    BY DEF IInv, Typing, Raise
  <2>2. pc' \in [Threads -> {"idle", "raise", "high", "lower"}]
    BY DEF IInv, Typing, Raise
  <2> QED
    BY <1>2, <2>1, <2>2 DEF IInv, Typing, Raise
<1>5. Mutexes'
  BY <1>1, <1>3 DEF IInv, Mutexes, Raise
<1>6. HighOnlyInPulse'
  BY <1>3 DEF HighOnlyInPulse
<1>7. Announced'
  <2> SUFFICES ASSUME NEW p \in Ports, Unannounced(p)'
               PROVE  AboutToRaise(p)' \/ StillToLook(p)'
    BY DEF Announced
  <2>1. cause[p] /\ line.events = 0 /\ line.level
    BY <1>2 DEF Unannounced, Raise
  <2>2. PICK s \in Threads : pc[s] = "high"
    BY <2>1 DEF IInv, HighOnlyInPulse
  <2>3. p # at[t]
    BY <1>1, <2>2 DEF Unannounced, Raise, IInv, Typing
  <2>4. Unannounced(p)
    BY <2>1, <2>3, <1>1 DEF Unannounced, Raise, IInv, Typing
  <2>5. CASE StillToLook(p)
    BY <2>5 DEF StillToLook, Raise
  <2>6. CASE AboutToRaise(p)
    BY <2>3, <2>6, <1>3 DEF AboutToRaise, Raise
  <2> QED
    BY <2>4, <2>5, <2>6 DEF IInv, Announced
<1> QED
  BY <1>4, <1>5, <1>6, <1>7 DEF IInv

LEMMA LowerIInv ==
  ASSUME IInv, NEW t \in Threads, Lower(t)
  PROVE  IInv'
<1>1. line' \in Line /\ ~line'.level /\ line'.events = line.events
  BY LoweredLine DEF IInv, Typing, Lower
<1>2. /\ pc'[t] = "idle" /\ at'[t] = NoPort /\ pc[t] # "raise"
      /\ \A s \in Threads \ {t} : pc'[s] = pc[s] /\ at'[s] = at[s]
  BY DEF IInv, Typing, Lower
<1>3. Typing'
  BY <1>1 DEF IInv, Typing, Lower
<1>4. Mutexes'
  BY <1>2 DEF IInv, Mutexes, Lower
<1>5. HighOnlyInPulse'
  BY <1>1 DEF HighOnlyInPulse
<1>6. Announced'
  <2> SUFFICES ASSUME NEW p \in Ports, Unannounced(p)'
               PROVE  AboutToRaise(p)' \/ StillToLook(p)'
    BY DEF Announced
  <2>1. Unannounced(p)
    BY <1>1 DEF Unannounced, Lower
  <2>2. CASE StillToLook(p)
    BY <2>2 DEF StillToLook, Lower
  <2>3. CASE AboutToRaise(p)
    BY <2>3, <1>2 DEF AboutToRaise
  <2> QED
    BY <2>1, <2>2, <2>3 DEF IInv, Announced
<1> QED
  BY <1>3, <1>4, <1>5, <1>6 DEF IInv

-----------------------------------------------------------------------------
(* The handler.                                                            *)

LEMMA HandlerEnterIInv ==
  ASSUME IInv, NEW v \in VCpus, HandlerEnter(v)
  PROVE  IInv'
<1>1. line' \in Line /\ line'.level = line.level
  BY DEF IInv, Typing, Line, HandlerEnter, drain_events
<1>2. handler' = [on |-> v, serving |-> NoPort, quiet |-> {}]
  BY DEF HandlerEnter, NotHandling
<1>3. Typing'
  BY <1>1, <1>2 DEF IInv, Typing, HandlerEnter
<1>4. Mutexes' /\ HighOnlyInPulse'
  BY <1>1 DEF IInv, Mutexes, HighOnlyInPulse, HandlerEnter
<1>5. Announced'
  BY <1>2, SharedLineConstants DEF SharedLineConstants, Announced, StillToLook
<1> QED
  BY <1>3, <1>4, <1>5 DEF IInv

LEMMA HandlerLookIInv ==
  ASSUME IInv, NEW v \in VCpus, HandlerLook(v)
  PROVE  IInv'
<1>1. PICK p \in Ports \ handler.quiet :
        /\ Access(v, p, cause[p])
        /\ handler' = IF iir[p] THEN [handler EXCEPT !.serving = p]
                                ELSE [handler EXCEPT !.quiet = @ \union {p}]
  BY DEF HandlerLook
<1>2. handler' \in [on : VCpus \union {NoCpu}, serving : Ports \union {NoPort},
                    quiet : SUBSET Ports]
  BY <1>1 DEF IInv, Typing
<1>3. \A o \in Ports \ {p} : StillToLook(o) => StillToLook(o)'
  BY <1>1 DEF IInv, Typing, StillToLook
<1>4. v \in Threads /\ cause[p] \in BOOLEAN
  BY DEF IInv, Typing, Threads
<1> QED
  BY <1>1, <1>2, <1>3, <1>4, AccessIInv

LEMMA HandlerServeIInv ==
  ASSUME IInv, NEW v \in VCpus, HandlerServe(v)
  PROVE  IInv'
<1> DEFINE p == handler.serving
<1>1. p \in Ports
  BY DEF IInv, Typing, HandlerServe
<1>2. PICK c \in {cause[p], FALSE} : Access(v, p, c)
  BY DEF HandlerServe
<1>3. handler' \in [on : VCpus \union {NoCpu}, serving : Ports \union {NoPort},
                    quiet : SUBSET Ports]
  BY DEF IInv, Typing, HandlerServe
<1>4. \A o \in Ports \ {p} : StillToLook(o) => StillToLook(o)'
  BY DEF IInv, Typing, StillToLook, HandlerServe
<1>5. v \in Threads /\ c \in BOOLEAN
  BY <1>1 DEF IInv, Typing, Threads
<1> HIDE DEF p
<1> QED
  BY <1>1, <1>2, <1>3, <1>4, <1>5, AccessIInv

(* It ends only after it has found every port quiet.                       *)
LEMMA HandlerExitIInv ==
  ASSUME IInv, NEW v \in VCpus, HandlerExit(v)
  PROVE  IInv'
<1>1. Typing' /\ Mutexes' /\ HighOnlyInPulse'
  BY DEF IInv, Typing, Mutexes, HighOnlyInPulse, HandlerExit, NotHandling
<1>2. Announced'
  <2> SUFFICES ASSUME NEW p \in Ports, Unannounced(p)' PROVE AboutToRaise(p)'
    BY DEF Announced
  <2>1. Unannounced(p) /\ ~StillToLook(p)
    BY DEF Unannounced, StillToLook, HandlerExit
  <2> QED
    BY <2>1 DEF IInv, Announced, AboutToRaise, HandlerExit
<1> QED
  BY <1>1, <1>2 DEF IInv

-----------------------------------------------------------------------------

LEMMA NextIInv == IInv /\ [Next]_vars => IInv'
<1> SUFFICES ASSUME IInv, [Next]_vars PROVE IInv'
  OBVIOUS
<1>1. ASSUME NEW t \in Threads, Raise(t) PROVE IInv'
  BY <1>1, RaiseIInv
<1>2. ASSUME NEW t \in Threads, Lower(t) PROVE IInv'
  BY <1>2, LowerIInv
<1>3. CASE Typed
  <2>1. PICK c \in {cause[console], TRUE} : Access(terminal, console, c) /\ UNCHANGED handler
    BY <1>3 DEF Typed
  <2>2. console \in Ports /\ terminal \in Threads /\ c \in BOOLEAN
    BY SharedLineConstants DEF SharedLineConstants, Threads, IInv, Typing
  <2>3. \A o \in Ports : StillToLook(o) => StillToLook(o)'
    BY <2>1 DEF StillToLook
  <2>4. handler' \in [on : VCpus \union {NoCpu}, serving : Ports \union {NoPort},
                      quiet : SUBSET Ports]
    BY <2>1 DEF IInv, Typing
  <2> QED
    BY <2>1, <2>2, <2>3, <2>4, AccessIInv
<1>4. ASSUME NEW v \in VCpus, GuestAccess(v) PROVE IInv'
  <2>1. PICK p \in Ports, c \in BOOLEAN : Access(v, p, c) /\ UNCHANGED handler
    BY <1>4 DEF GuestAccess
  <2>2. v \in Threads
    BY DEF Threads
  <2>3. \A o \in Ports : StillToLook(o) => StillToLook(o)'
    BY <2>1 DEF StillToLook
  <2>4. handler' \in [on : VCpus \union {NoCpu}, serving : Ports \union {NoPort},
                      quiet : SUBSET Ports]
    BY <2>1 DEF IInv, Typing
  <2> QED
    BY <2>1, <2>2, <2>3, <2>4, AccessIInv
<1>5. ASSUME NEW v \in VCpus, HandlerEnter(v) PROVE IInv'
  BY <1>5, HandlerEnterIInv
<1>6. ASSUME NEW v \in VCpus, HandlerLook(v) PROVE IInv'
  BY <1>6, HandlerLookIInv
<1>7. ASSUME NEW v \in VCpus, HandlerServe(v) PROVE IInv'
  BY <1>7, HandlerServeIInv
<1>8. ASSUME NEW v \in VCpus, HandlerExit(v) PROVE IInv'
  BY <1>8, HandlerExitIInv
<1>9. CASE UNCHANGED vars
  BY <1>9 DEF vars, IInv, Typing, Mutexes, HighOnlyInPulse, Announced, Unannounced,
     AboutToRaise, StillToLook
<1> QED
  BY <1>1, <1>2, <1>3, <1>4, <1>5, <1>6, <1>7, <1>8, <1>9 DEF Next

LEMMA Invariance == Spec => []IInv
<1>1. Init => IInv
  BY InitIInv
<1>2. IInv /\ [Next]_vars => IInv'
  BY NextIInv
<1> QED
  BY <1>1, <1>2, PTL DEF Spec

(* No mix of the ports' pulses leaves the line high (interrupt.h:20-34).   *)
THEOREM NeverLeftHigh == Spec => []HighOnlyInPulse
<1>1. IInv => HighOnlyInPulse
  BY DEF IInv
<1> QED
  BY <1>1, Invariance, PTL

(* A pulse within another port's pulse is the only way an interrupt gets   *)
(* lost on a shared line (vm.h:315).                                       *)
THEOREM OnlyOverlapLoses == Spec => []LostOnlyByOverlap
<1>1. IInv => LostOnlyByOverlap
  BY DEF IInv, Announced, Unannounced, AboutToRaise, StillToLook, LostOnlyByOverlap, Waits, Free
<1> QED
  BY <1>1, Invariance, PTL

(* Hence a port that has its line for itself loses none: its mutex is all  *)
(* that set_level(true) and set_level(false) need around them.             *)
NoneLost == \A p \in Ports : Waits(p) => line.events # 0

THEOREM LoneLosesNone ==
  ASSUME \A p, q \in Ports : p = q
  PROVE  Spec => []NoneLost
<1> DEFINE Lone == IInv /\ \A p \in Ports : ~overlapped[p]
<1>1. Init => Lone
  BY InitIInv DEF Init
<1>2. Lone /\ [Next]_vars => Lone'
  <2> SUFFICES ASSUME Lone, [Next]_vars PROVE \A p \in Ports : ~overlapped'[p]
    BY NextIInv
  <2>1. ASSUME NEW t \in Threads, Raise(t) PROVE \A p \in Ports : ~overlapped'[p]
    <3>1. pc[t] = "raise" /\ at[t] \in Ports
      BY <2>1 DEF IInv, Typing, Mutexes, Raise
    <3>2. \A s \in Threads : pc[s] # "high"
      BY <3>1 DEF IInv, Typing, Mutexes
    <3> QED
      BY <2>1, <3>1, <3>2 DEF IInv, Typing, Raise
  <2>2. CASE UNCHANGED overlapped
    BY <2>2
  <2> QED
    BY <2>1, <2>2 DEF Next, vars, Lower, Typed, GuestAccess, HandlerEnter, HandlerLook,
       HandlerServe, HandlerExit, Access
<1>3. Lone => NoneLost
  BY DEF IInv, Announced, Unannounced, AboutToRaise, StillToLook, NoneLost, Waits, Free
<1> QED
  BY <1>1, <1>2, <1>3, PTL DEF Spec

=============================================================================
