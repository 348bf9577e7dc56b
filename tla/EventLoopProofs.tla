--------------------------- MODULE EventLoopProofs ----------------------------
(***************************************************************************)
(* Theorems about the event loop.                                          *)
(*                                                                         *)
(* Timers: no handler is called early, and the poll sleeps until the       *)
(* nearest one.  Both rest on the arithmetic of times kept as a second and *)
(* a millisecond, for seconds of any length.  The list: a pass calls every *)
(* timer that was due when it began.  File events: no handler is called    *)
(* for a socket that the poll did not report.                              *)
(***************************************************************************)
EXTENDS EventLoop, TLAPS, SequenceTheorems, WellFoundedInduction

\* A time as ae.c keeps it, and the millisecond it stands for.
Times == [sec : Nat, ms : 0 .. MsPerSec - 1]
Value(w) == w.sec * MsPerSec + w.ms

\* The timers there can be: called when their delay is over, or at once.
TimerSet ==
    {t \in [id : Nat, when : Times, due : Nat] :
       t.due = Value(t.when) \/ (t.due = 0 /\ t.when.sec = 0)}

\* The inductive invariant: while the loop sleeps, its poll ends at the timeout that
\* was computed for the timers in the list.
LoopInv ==
    /\ clock \in Nat /\ sleepFrom \in Nat /\ timeEventNextId \in Nat
    /\ te \in Nat \ {0}
    /\ timers \in Seq(TimerSet)
    /\ pc = "sleep" /\ timers # << >> =>
         wake = sleepFrom + Timeout(sleepFrom, timers[Nearest].when)

-------------------------------------------------------------------------------
(* The arithmetic *)

\* A whole second more is at least MsPerSec more.
LEMMA Multiples ==
    ASSUME NEW x \in Int, NEW y \in Int, x < y
    PROVE  x * MsPerSec \in Int /\ x * MsPerSec + MsPerSec <= y * MsPerSec
  <1>1. MsPerSec \in Nat \ {0}
    BY EventLoopAssumption
  <1>2. PICK k \in Nat : y = x + 1 + k
    <2>1. y - x - 1 \in Nat /\ y = x + 1 + (y - x - 1)
      OBVIOUS
    <2> QED
      BY <2>1
  <1>3. k * MsPerSec >= 0
    BY <1>1
  <1>4. y * MsPerSec = x * MsPerSec + MsPerSec + k * MsPerSec
    BY <1>1, <1>2
  <1> QED
    BY <1>1, <1>3, <1>4

\* A number of milliseconds is its seconds and the rest.
LEMMA Division ==
    ASSUME NEW n \in Nat
    PROVE  /\ Sec(n) \in Nat /\ Ms(n) \in 0 .. MsPerSec - 1
           /\ n = Sec(n) * MsPerSec + Ms(n)
  BY EventLoopAssumption DEF Sec, Ms

\* aeAddMillisecondsToNow adds: the carry is right.
LEMMA AddIsExact ==
    ASSUME NEW now \in Nat, NEW delay \in Nat
    PROVE  /\ AddMilliseconds(now, delay) \in Times
           /\ Value(AddMilliseconds(now, delay)) = now + delay
  <1> DEFINE s == Sec(now) + Sec(delay)
             m == Ms(now) + Ms(delay)
  <1>1. /\ Sec(now) \in Nat /\ Sec(delay) \in Nat
        /\ Ms(now) \in 0 .. MsPerSec - 1 /\ Ms(delay) \in 0 .. MsPerSec - 1
        /\ now = Sec(now) * MsPerSec + Ms(now)
        /\ delay = Sec(delay) * MsPerSec + Ms(delay)
    BY Division
  <1>2. MsPerSec \in Nat \ {0}
    BY EventLoopAssumption
  <1>3. /\ s * MsPerSec = Sec(now) * MsPerSec + Sec(delay) * MsPerSec
        /\ (s + 1) * MsPerSec = s * MsPerSec + MsPerSec
    BY <1>1, <1>2
  <1>4. s \in Nat /\ m \in Nat /\ m < 2 * MsPerSec
    BY <1>1, <1>2
  <1>5. s * MsPerSec + m = now + delay
    <2>1. Sec(now) * MsPerSec \in Nat /\ Sec(delay) * MsPerSec \in Nat
      BY <1>1, <1>2
    <2>2. m = Ms(now) + Ms(delay)
      OBVIOUS
    <2> HIDE DEF s, m
    <2> QED
      BY <1>1, <1>3, <2>1, <2>2
  <1>6. CASE m >= MsPerSec
    <2>1. AddMilliseconds(now, delay) = [sec |-> s + 1, ms |-> m - MsPerSec]
      BY <1>6 DEF AddMilliseconds
    <2>2. m - MsPerSec \in 0 .. MsPerSec - 1
      BY <1>2, <1>4, <1>6
    <2> QED
      BY <1>2, <1>3, <1>4, <1>5, <2>1, <2>2 DEF Times, Value
  <1>7. CASE ~(m >= MsPerSec)
    <2>1. AddMilliseconds(now, delay) = [sec |-> s, ms |-> m]
      BY <1>7 DEF AddMilliseconds
    <2> QED
      BY <1>2, <1>4, <1>5, <1>7, <2>1 DEF Times, Value
  <1> QED
    BY <1>6, <1>7

\* A time that does not come before another stands for a later millisecond.
LEMMA OrderIsRight ==
    ASSUME NEW a \in Times, NEW b \in Times
    PROVE  /\ Value(a) \in Nat
           /\ ~Before(b, a) <=> Value(a) <= Value(b)
  <1>1. /\ a.sec \in Nat /\ b.sec \in Nat /\ MsPerSec \in Nat \ {0}
        /\ a.ms \in 0 .. MsPerSec - 1 /\ b.ms \in 0 .. MsPerSec - 1
    BY EventLoopAssumption DEF Times
  <1>2. a.sec * MsPerSec \in Nat /\ b.sec * MsPerSec \in Nat
    BY <1>1
  <1>3. CASE a.sec < b.sec
    <2>1. a.sec * MsPerSec + MsPerSec <= b.sec * MsPerSec
      BY <1>1, <1>3, Multiples
    <2> QED
      BY <1>1, <1>2, <1>3, <2>1 DEF Value, Before
  <1>4. CASE b.sec < a.sec
    <2>1. b.sec * MsPerSec + MsPerSec <= a.sec * MsPerSec
      BY <1>1, <1>4, Multiples
    <2> QED
      BY <1>1, <1>2, <1>4, <2>1 DEF Value, Before
  <1>5. CASE a.sec = b.sec
    BY <1>1, <1>2, <1>5 DEF Value, Before
  <1> QED
    BY <1>1, <1>3, <1>4, <1>5

\* The poll's timeout ends at the timer when it lies ahead, and within a second
\* when it does not.
LEMMA TimeoutIsRight ==
    ASSUME NEW now \in Nat, NEW w \in Times
    PROVE  /\ now <= Value(w) => now + Timeout(now, w) = Value(w)
           /\ Value(w) < now => Timeout(now, w) \in 0 .. MsPerSec - 1
  <1> DEFINE borrow == w.ms < Ms(now)
             sec    == w.sec - Sec(now) - (IF borrow THEN 1 ELSE 0)
             msec   == w.ms - Ms(now) + (IF borrow THEN MsPerSec ELSE 0)
  <1>1. /\ Sec(now) \in Nat /\ w.sec \in Nat /\ MsPerSec \in Nat \ {0}
        /\ Ms(now) \in 0 .. MsPerSec - 1 /\ w.ms \in 0 .. MsPerSec - 1
        /\ now = Sec(now) * MsPerSec + Ms(now)
    BY EventLoopAssumption, Division DEF Times
  <1>2. sec \in Int /\ msec \in 0 .. MsPerSec - 1
    BY <1>1
  <1>3. /\ Sec(now) * MsPerSec \in Nat /\ w.sec * MsPerSec \in Nat
        /\ sec * MsPerSec \in Int
    BY <1>1, <1>2
  <1>4. sec * MsPerSec + msec = Value(w) - now
    <2>1. CASE borrow
      <3>1. sec = w.sec - Sec(now) - 1 /\ msec = w.ms - Ms(now) + MsPerSec
        BY <1>1, <2>1
      <3>2. sec * MsPerSec = w.sec * MsPerSec - Sec(now) * MsPerSec - MsPerSec
        BY <1>1, <3>1
      <3> HIDE DEF sec, msec
      <3> QED
        BY <1>1, <1>3, <3>1, <3>2 DEF Value
    <2>2. CASE ~borrow
      <3>1. sec = w.sec - Sec(now) /\ msec = w.ms - Ms(now)
        BY <1>1, <2>2
      <3>2. sec * MsPerSec = w.sec * MsPerSec - Sec(now) * MsPerSec
        BY <1>1, <3>1
      <3> HIDE DEF sec, msec
      <3> QED
        BY <1>1, <1>3, <3>1, <3>2 DEF Value
    <2> QED
      BY <2>1, <2>2
  <1>5. Timeout(now, w) = (IF sec < 0 THEN 0 ELSE sec) * MsPerSec + msec
    BY DEF Timeout
  <1>6. Value(w) \in Nat
    BY <1>1, <1>3 DEF Value
  <1> HIDE DEF sec, msec
  <1>7. CASE sec < 0
    <2>1. sec * MsPerSec + MsPerSec <= 0 * MsPerSec
      BY <1>2, <1>7, Multiples
    <2>2. Value(w) - now < 0
      BY <1>1, <1>2, <1>3, <1>4, <1>6, <2>1
    <2>3. Timeout(now, w) = msec
      BY <1>1, <1>2, <1>5, <1>7
    <2> QED
      BY <1>2, <1>6, <2>2, <2>3
  <1>8. CASE ~(sec < 0)
    <2>1. sec * MsPerSec >= 0
      BY <1>1, <1>2, <1>8
    <2>2. Timeout(now, w) = Value(w) - now
      BY <1>4, <1>5, <1>8
    <2> QED
      BY <1>2, <1>3, <1>4, <1>6, <2>1, <2>2
  <1> QED
    BY <1>7, <1>8

\* A timer that processTimeEvents calls is not early.
LEMMA DueIsPast ==
    ASSUME clock \in Nat, NEW t \in TimerSet, IsDue(t)
    PROVE  clock >= t.due
  <1> DEFINE w == [sec |-> Sec(clock), ms |-> Ms(clock)]
  <1>1. w \in Times /\ Value(w) = clock
    BY Division DEF Times, Value
  <1>2. t.when \in Times /\ t.due \in Nat
    BY DEF TimerSet
  <1>3. ~Before(w, t.when)
    <2>1. /\ Sec(clock) \in Nat /\ Ms(clock) \in Int
          /\ t.when.sec \in Nat /\ t.when.ms \in Int
      BY <1>1, <1>2 DEF Times
    <2>2. \/ Sec(clock) > t.when.sec
          \/ Sec(clock) = t.when.sec /\ Ms(clock) >= t.when.ms
      BY DEF IsDue
    <2> QED
      BY <2>1, <2>2 DEF Before
  <1>4. Value(t.when) <= clock
    BY <1>1, <1>2, <1>3, OrderIsRight
  <1>5. t.due = Value(t.when) \/ t.due = 0
    BY DEF TimerSet
  <1> HIDE DEF w
  <1> QED
    BY <1>2, <1>4, <1>5

\* Every set of naturals that is not empty has a least element.
LEMMA LeastExists ==
    ASSUME NEW T, T \subseteq Nat, T # {}
    PROVE  \E x \in T : \A y \in T : x <= y
  <1>1. PICK x \in T : \A y \in T : ~(<<y, x>> \in OpToRel(<, Nat))
    BY NatLessThanWellFounded, WFMin
  <1>2. ASSUME NEW y \in T PROVE x <= y
    <2>1. x \in Nat /\ y \in Nat
      OBVIOUS
    <2>2. ~(y < x)
      BY <1>1, <2>1 DEF OpToRel
    <2> QED
      BY <2>1, <2>2
  <1> QED
    BY <1>1, <1>2

\* aeSearchNearestTimer finds a timer of the list that no other one precedes.
LEMMA NearestIsFirst ==
    ASSUME timers \in Seq(TimerSet), timers # << >>
    PROVE  /\ Nearest \in 1 .. Len(timers)
           /\ \A j \in 1 .. Len(timers) :
                 Value(timers[Nearest].when) <= Value(timers[j].when)
  <1> DEFINE I == 1 .. Len(timers)
             First == {i \in I : \A j \in I : ~Before(timers[j].when, timers[i].when)}
  <1>1. \A i \in I : timers[i].when \in Times
    BY DEF TimerSet
  <1>2. \A i \in I : Value(timers[i].when) \in Nat
    BY <1>1, OrderIsRight
  <1>3. \A i, j \in I : (~Before(timers[j].when, timers[i].when))
                            <=> Value(timers[i].when) <= Value(timers[j].when)
    BY <1>1, OrderIsRight
  <1>4. 1 \in I /\ I \subseteq Nat
    OBVIOUS
  <1> HIDE DEF I
  <1>5. First # {}
    <2> DEFINE V == {Value(timers[i].when) : i \in I}
    <2>1. V \subseteq Nat
      BY <1>2
    <2>2. Value(timers[1].when) \in V
      BY <1>4
    <2>3. PICK v \in V : \A u \in V : v <= u
      BY <2>1, <2>2, LeastExists
    <2>4. PICK i \in I : v = Value(timers[i].when)
      BY <2>3
    <2>5. \A j \in I : Value(timers[i].when) <= Value(timers[j].when)
      BY <2>3, <2>4
    <2> QED
      BY <1>3, <2>5
  <1>6. First \subseteq Nat
    BY <1>4
  <1>7. \E x \in First : \A y \in First : x <= y
    <2> HIDE DEF First
    <2> QED
      BY <1>5, <1>6, LeastExists
  <1>8. Min(First) \in First
    <2> HIDE DEF First
    <2> QED
      BY <1>7 DEF Min
  <1>9. Nearest = Min(First)
    BY DEF Nearest, I
  <1>10. Nearest \in First
    BY <1>8, <1>9
  <1> QED
    <2>1. Nearest \in I /\ \A j \in I : ~Before(timers[j].when, timers[Nearest].when)
      BY <1>10
    <2>2. \A j \in I : Value(timers[Nearest].when) <= Value(timers[j].when)
      BY <1>3, <2>1
    <2> QED
      BY <2>1, <2>2 DEF I

-------------------------------------------------------------------------------
(* Changes of the list *)

\* aeCreateTimeEvent makes a timer that is due when its delay is over.
LEMMA NewTimerIsRight ==
    ASSUME NEW id \in Nat, NEW now \in Nat, NEW delay \in Nat
    PROVE  Timer(id, now, delay) \in TimerSet
  <1>1. /\ AddMilliseconds(now, delay) \in Times
        /\ Value(AddMilliseconds(now, delay)) = now + delay
    BY AddIsExact
  <1>2. now + delay \in Nat
    OBVIOUS
  <1> QED
    BY <1>1, <1>2 DEF Timer, TimerSet

\* A timer put at the head of a list makes it a list of timers.
LEMMA PutAtHead ==
    ASSUME NEW s \in Seq(TimerSet), NEW t \in TimerSet
    PROVE  <<t>> \o s \in Seq(TimerSet)
  OBVIOUS

\* Taking a timer out leaves a list of timers.
LEMMA TakeOut ==
    ASSUME NEW s \in Seq(TimerSet), NEW i \in 1 .. Len(s)
    PROVE  RemoveAt(s, i) \in Seq(TimerSet)
  <1>1. SubSeq(s, 1, i - 1) \in Seq(TimerSet) /\ SubSeq(s, i + 1, Len(s)) \in Seq(TimerSet)
    OBVIOUS
  <1> QED
    BY <1>1 DEF RemoveAt

\* A clock that went back to an earlier second makes every timer due at once.
LEMMA ResetIsRight ==
    ASSUME timers \in Seq(TimerSet)
    PROVE  Reset(timers) \in Seq(TimerSet)
  <1>1. ASSUME NEW i \in 1 .. Len(timers)
        PROVE  [timers[i] EXCEPT !.when.sec = 0, !.due = 0] \in TimerSet
    <2>1. timers[i] \in [id : Nat, when : Times, due : Nat]
      BY DEF TimerSet
    <2>2. [timers[i] EXCEPT !.when.sec = 0, !.due = 0]
            = [timers[i] EXCEPT !.when = [timers[i].when EXCEPT !.sec = 0], !.due = 0]
      BY <2>1
    <2> DEFINE w == [timers[i].when EXCEPT !.sec = 0]
               t == [timers[i] EXCEPT !.when = w, !.due = 0]
    <2>3. w \in Times /\ w.sec = 0
      BY <2>1 DEF Times
    <2> HIDE DEF w
    <2>4. t \in [id : Nat, when : Times, due : Nat] /\ t.when = w /\ t.due = 0
      BY <2>1, <2>3
    <2>5. t \in TimerSet
      <3> HIDE DEF t
      <3> QED
        BY <2>3, <2>4 DEF TimerSet
    <2> QED
      BY <2>2, <2>5 DEF w
  <1>2. Reset(timers) \in [1 .. Len(timers) -> TimerSet]
    BY <1>1 DEF Reset
  <1> QED
    BY <1>2, SeqDef
-------------------------------------------------------------------------------
(* The invariant *)

LEMMA InvInit == Init => LoopInv
  <1> SUFFICES ASSUME Init PROVE LoopInv
    OBVIOUS
  <1>1. clock \in Nat
    BY EventLoopAssumption DEF Init
  <1>2. timers \in Seq(TimerSet)
    BY DEF Init
  <1> QED
    BY <1>1, <1>2 DEF Init, LoopInv

\* What a call of a timer's handler leaves behind.
LEMMA CallKeepsList ==
    ASSUME LoopInv, CallTimer
    PROVE  /\ clock' \in Nat /\ timeEventNextId' \in Nat
           /\ timers' \in Seq(TimerSet)
  <1>1. te \in 1 .. Len(timers) /\ clock \in Nat /\ timeEventNextId \in Nat
    BY DEF LoopInv, CallTimer
  <1>2. clock' \in Nat
    BY <1>1, EventLoopAssumption DEF CallTimer
  <1>3. timers \in Seq(TimerSet) /\ RemoveAt(timers, te) \in Seq(TimerSet)
    BY <1>1, TakeOut DEF LoopInv
  <1>4. CASE Rearm
    <2>1. PICK d \in Delays :
            timers' = [timers EXCEPT ![te].when = AddMilliseconds(clock', d),
                                     ![te].due = clock' + d]
      BY <1>4 DEF Rearm
    <2>2. d \in Nat
      BY EventLoopAssumption
    <2>3. /\ AddMilliseconds(clock', d) \in Times
          /\ Value(AddMilliseconds(clock', d)) = clock' + d
      BY <1>2, <2>2, AddIsExact
    <2> DEFINE t == [timers[te] EXCEPT !.when = AddMilliseconds(clock', d),
                                       !.due = clock' + d]
    <2>4. timers[te] \in [id : Nat, when : Times, due : Nat]
      BY <1>1, <1>3 DEF TimerSet
    <2>5. t \in TimerSet
      <3>1. clock' + d \in Nat
        <4>1. \A m, n \in Nat : m + n \in Nat
          OBVIOUS
        <4> HIDE DEF t
        <4> QED
          BY <1>2, <2>2, <4>1
      <3>2. t.when = AddMilliseconds(clock', d) /\ t.due = clock' + d
        BY <2>4
      <3>3. t \in [id : Nat, when : Times, due : Nat]
        BY <2>3, <2>4, <3>1
      <3> HIDE DEF t
      <3> QED
        BY <2>3, <3>2, <3>3 DEF TimerSet
    <2>6. timers' = [timers EXCEPT ![te] = t]
      BY <1>1, <1>3, <2>1, <2>4
    <2> HIDE DEF t
    <2>7. timers' \in Seq(TimerSet)
      BY <1>1, <1>3, <2>5, <2>6
    <2> QED
      BY <1>1, <1>2, <1>4, <2>7 DEF Rearm
  <1>5. CASE NoMore
    <2>1. CASE timers' = RemoveAt(timers, te) /\ UNCHANGED timeEventNextId
      BY <1>1, <1>2, <1>3, <2>1
    <2>2. CASE /\ \E d \in Delays : timers' = <<NewTimer(d)>> \o RemoveAt(timers, te)
               /\ timeEventNextId' = timeEventNextId + 1
      <3>1. PICK d \in Delays : timers' = <<NewTimer(d)>> \o RemoveAt(timers, te)
        BY <2>2
      <3>2. NewTimer(d) \in TimerSet
        BY <1>1, NewTimerIsRight, EventLoopAssumption DEF NewTimer
      <3> QED
        BY <1>1, <1>2, <1>3, <2>2, <3>1, <3>2, PutAtHead
    <2> QED
      BY <1>5, <2>1, <2>2 DEF NoMore
  <1> QED
    BY <1>4, <1>5 DEF CallTimer

\* A file handler creates one timer at most.
LEMMA HandlerKeepsList ==
    ASSUME LoopInv, NEW f, NEW h, Handler(f, h)
    PROVE  timers' \in Seq(TimerSet) /\ timeEventNextId' \in Nat
  <1>1. /\ timers \in Seq(TimerSet) /\ timeEventNextId \in Nat /\ clock \in Nat
    BY DEF LoopInv
  <1>2. CASE UNCHANGED list
    BY <1>1, <1>2 DEF list
  <1>3. CASE /\ \E d \in Delays : timers' = <<NewTimer(d)>> \o timers
             /\ timeEventNextId' = timeEventNextId + 1
    <2>1. PICK d \in Delays : timers' = <<NewTimer(d)>> \o timers
      BY <1>3
    <2>2. NewTimer(d) \in TimerSet
      BY <1>1, NewTimerIsRight, EventLoopAssumption DEF NewTimer
    <2> QED
      BY <1>1, <1>3, <2>1, <2>2, PutAtHead
  <1> QED
    BY <1>2, <1>3 DEF Handler

LEMMA InvNext == LoopInv /\ [Next]_vars => LoopInv'
  <1> SUFFICES ASSUME LoopInv, [Next]_vars PROVE LoopInv'
    OBVIOUS
  <1> USE DEF LoopInv
  <1>1. CASE CreateTimer
    <2>1. CASE timeEventNextId < Len(FirstTimers)
      <3>1. FirstTimers[timeEventNextId + 1] \in Nat
        BY <2>1, EventLoopAssumption
      <3>2. NewTimer(FirstTimers[timeEventNextId + 1]) \in TimerSet
        BY <3>1, NewTimerIsRight DEF NewTimer
      <3>3. timers' = <<NewTimer(FirstTimers[timeEventNextId + 1])>> \o timers
        BY <1>1, <2>1 DEF CreateTimer
      <3>4. timers' \in Seq(TimerSet)
        BY <3>2, <3>3, PutAtHead
      <3> QED
        BY <1>1, <2>1, <3>4 DEF CreateTimer, poll, pass
    <2>2. CASE ~(timeEventNextId < Len(FirstTimers))
      BY <1>1, <2>2 DEF CreateTimer, list, poll, pass
    <2> QED
      BY <2>1, <2>2
  <1>2. CASE Poll
    <2>1. UNCHANGED <<clock, timers, timeEventNextId, te>> /\ sleepFrom' = clock
      BY <1>2 DEF Poll, list, pass
    <2>2. Nearest' = Nearest
      BY <2>1 DEF Nearest
    <2>3. timers # << >> => wake' = clock + Timeout(clock, timers[Nearest].when)
      BY <1>2 DEF Poll
    <2>4. timers # << >> => wake' = sleepFrom' + Timeout(sleepFrom', timers'[Nearest'].when)
      BY <2>1, <2>2, <2>3
    <2> QED
      BY <2>1, <2>4 DEF Timeout, Sec, Ms
  <1>3. CASE PollReturns
    BY <1>3 DEF PollReturns, list, pass
  <1>4. CASE DispatchRead
    <2>1. PICK e \in fired :
            IF ReadDue(e) THEN Handler(e.fd, table.events[e.fd].r)
                          ELSE UNCHANGED <<table, list, stop>>
      BY <1>4 DEF DispatchRead
    <2>2. timers' \in Seq(TimerSet) /\ timeEventNextId' \in Nat
      BY <2>1, HandlerKeepsList DEF list
    <2> QED
      BY <1>4, <2>2 DEF DispatchRead, pass
  <1>5. CASE DispatchWrite
    <2>1. timers' \in Seq(TimerSet) /\ timeEventNextId' \in Nat
      BY <1>5, HandlerKeepsList DEF DispatchWrite, list
    <2> QED
      BY <1>5, <2>1 DEF DispatchWrite, pass
  <1>6. CASE StartPass
    <2>1. timers' = Reset(timers) \/ timers' = timers
      BY <1>6 DEF StartPass
    <2>2. timers' \in Seq(TimerSet)
      BY <2>1, ResetIsRight
    <2> QED
      BY <1>6, <2>2 DEF StartPass, poll
  <1>7. CASE SkipTimer
    BY <1>7 DEF SkipTimer, list, poll
  <1>8. CASE CallTimer
    <2>1. pc' = "times" /\ te' = 1 /\ sleepFrom' = sleepFrom
      BY <1>8 DEF CallTimer, poll
    <2> QED
      BY <1>8, <2>1, CallKeepsList
  <1>9. CASE EndPass
    BY <1>9 DEF EndPass, list, poll
  <1>10. CASE Tick
    <2>1. UNCHANGED <<timers, timeEventNextId, pc, wake, sleepFrom, te>>
      BY <1>10 DEF Tick, list, poll, pass
    <2>2. clock' \in Nat
      BY <1>10 DEF Tick
    <2>3. Nearest' = Nearest
      BY <2>1 DEF Nearest
    <2> QED
      BY <2>1, <2>2, <2>3 DEF Timeout, Sec, Ms
  <1>11. CASE StepBack
    <2>1. UNCHANGED <<timers, timeEventNextId, pc, wake, sleepFrom, te>>
      BY <1>11 DEF StepBack, list, poll
    <2>2. clock' \in Nat
      BY <1>11, EventLoopAssumption DEF StepBack
    <2>3. Nearest' = Nearest
      BY <2>1 DEF Nearest
    <2> QED
      BY <2>1, <2>2, <2>3 DEF Timeout, Sec, Ms
  <1>12. CASE UNCHANGED vars
    <2>1. UNCHANGED <<clock, timers, timeEventNextId, pc, wake, sleepFrom, te>>
      BY <1>12 DEF vars, list, poll, pass
    <2>2. Nearest' = Nearest
      BY <2>1 DEF Nearest
    <2> QED
      BY <2>1, <2>2 DEF Timeout, Sec, Ms
  <1> QED
    BY <1>1, <1>2, <1>3, <1>4, <1>5, <1>6, <1>7, <1>8, <1>9, <1>10, <1>11, <1>12
       DEF Next

-------------------------------------------------------------------------------
(* The theorems about the poll and the times *)

\* The poll of aeProcessEvents ends when the first timer is due, or within a second
\* of its start when one is overdue: for seconds of any length, any number of
\* timers, and a clock that is set back at any time.
THEOREM SleepIsRight == Spec => []SleepsUntilNearest
  <1>1. LoopInv => SleepsUntilNearest
    <2> SUFFICES ASSUME LoopInv, pc = "sleep", timers # << >>
                 PROVE  /\ \E t \in Range(timers) : When(t) < sleepFrom \/ When(t) = wake
                        /\ (\A t \in Range(timers) : sleepFrom <= When(t))
                              => \A t \in Range(timers) : wake <= When(t)
                        /\ (\E t \in Range(timers) : When(t) < sleepFrom)
                              => wake \in sleepFrom .. sleepFrom + MsPerSec - 1
      BY DEF SleepsUntilNearest
    <2> DEFINE n == timers[Nearest]
    <2>1. /\ Nearest \in 1 .. Len(timers)
          /\ \A j \in 1 .. Len(timers) : Value(n.when) <= Value(timers[j].when)
      BY NearestIsFirst DEF LoopInv
    <2>2. \A t \in Range(timers) : When(t) = Value(t.when) /\ t.when \in Times
      BY DEF When, Value, Range, LoopInv, TimerSet
    <2>3. n \in Range(timers)
      BY <2>1 DEF Range, LoopInv
    <2>4. \A t \in Range(timers) : When(n) <= When(t)
      BY <2>1, <2>2, <2>3 DEF Range, LoopInv
    <2>5. \A t \in Range(timers) : When(t) \in Nat
      BY <2>2, OrderIsRight
    <2>6. sleepFrom \in Nat /\ wake = sleepFrom + Timeout(sleepFrom, n.when)
      BY DEF LoopInv
    <2>7. /\ sleepFrom <= When(n) => wake = When(n)
          /\ When(n) < sleepFrom => Timeout(sleepFrom, n.when) \in 0 .. MsPerSec - 1
      BY <2>2, <2>3, <2>6, TimeoutIsRight
    <2> HIDE DEF n
    <2>8. MsPerSec \in Nat
      BY EventLoopAssumption
    <2>9. CASE sleepFrom <= When(n)
      <3>1. wake = When(n) /\ \A t \in Range(timers) : wake <= When(t)
        BY <2>4, <2>7, <2>9
      <3>2. ~ \E t \in Range(timers) : When(t) < sleepFrom
        BY <2>3, <2>4, <2>5, <2>6, <2>9
      <3> QED
        BY <2>3, <3>1, <3>2
    <2>10. CASE ~(sleepFrom <= When(n))
      <3>1. When(n) < sleepFrom
        BY <2>3, <2>5, <2>6, <2>10
      <3>2. wake \in sleepFrom .. sleepFrom + MsPerSec - 1
        BY <2>6, <2>7, <2>8, <3>1
      <3> QED
        BY <2>3, <2>10, <3>1, <3>2
    <2> QED
      BY <2>9, <2>10
  <1> QED
    BY InvInit, InvNext, <1>1, PTL DEF Spec

\* processTimeEvents calls no handler before its delay is over, unless the clock
\* was set back: for any delays and seconds of any length.
THEOREM TimersAreNotEarly == Spec => NeverEarly
  <1>1. LoopInv => [CallTimer => clock >= timers[te].due]_vars
    <2> SUFFICES ASSUME LoopInv, CallTimer PROVE clock >= timers[te].due
      OBVIOUS
    <2>1. te \in 1 .. Len(timers) /\ timers \in Seq(TimerSet)
      BY DEF LoopInv, CallTimer
    <2>2. timers[te] \in TimerSet
      BY <2>1
    <2>3. IsDue(timers[te]) /\ clock \in Nat
      BY DEF CallTimer, LoopInv
    <2> QED
      BY <2>2, <2>3, DueIsPast
  <1> QED
    BY InvInit, InvNext, <1>1, PTL DEF Spec, NeverEarly

-------------------------------------------------------------------------------
(* The table of file events *)

EventType == [r : {"none", "connected", "readable"}, w : {"none", "connected", "writeable"}]

TableType == [events : [Fds -> EventType], maxfd : Fds \cup {-1}, polled : SUBSET Fds]

\* A set of integers with a bound has a greatest element.
LEMMA GreatestExists ==
    ASSUME NEW T, T \subseteq Int, T # {}, NEW b \in Int, \A x \in T : x <= b
    PROVE  \E x \in T : \A y \in T : x >= y
  <1> DEFINE D == {b - x : x \in T}
  <1>1. D \subseteq Nat /\ D # {}
    <2>1. \A x \in T : b - x \in Nat
      OBVIOUS
    <2> QED
      BY <2>1
  <1>2. PICK d \in D : \A e \in D : d <= e
    <2> HIDE DEF D
    <2> QED
      BY <1>1, LeastExists
  <1>3. PICK x \in T : d = b - x
    BY <1>2
  <1>4. \A y \in T : b - x <= b - y
    BY <1>2, <1>3
  <1>5. \A y \in T : x >= y
    BY <1>4
  <1> QED
    BY <1>5

\* What aeCreateFileEvent does to the table.
LEMMA CreateIsRight ==
    ASSUME NEW t \in TableType, NEW f \in Fds, NEW h \in EventType
    PROVE  /\ CreateFileEvent(t, f, h) \in TableType
           /\ CreateFileEvent(t, f, h).polled = t.polled
           /\ \A g \in Fds \ {f} : CreateFileEvent(t, f, h).events[g] = t.events[g]
           /\ CreateFileEvent(t, f, h).events[f].w = IF h.w = "none" THEN t.events[f].w ELSE h.w
           /\ CreateFileEvent(t, f, h).events[f].r = IF h.r = "none" THEN t.events[f].r ELSE h.r
  <1> DEFINE e == [r |-> IF h.r = "none" THEN t.events[f].r ELSE h.r,
                   w |-> IF h.w = "none" THEN t.events[f].w ELSE h.w]
             m == IF f > t.maxfd THEN f ELSE t.maxfd
  <1>1. e \in EventType
    BY DEF EventType, TableType
  <1>2. m \in Fds \cup {-1}
    BY DEF TableType
  <1>3. CreateFileEvent(t, f, h) =
          [t EXCEPT !.events = [t.events EXCEPT ![f] = e], !.maxfd = m]
    BY DEF CreateFileEvent, TableType
  <1>4. e.w = (IF h.w = "none" THEN t.events[f].w ELSE h.w)
        /\ e.r = (IF h.r = "none" THEN t.events[f].r ELSE h.r)
    OBVIOUS
  <1> HIDE DEF e, m
  <1>5. [t.events EXCEPT ![f] = e] \in [Fds -> EventType]
    BY <1>1 DEF TableType
  <1> HIDE DEF EventType
  <1> QED
    BY <1>1, <1>2, <1>3, <1>4, <1>5 DEF TableType

\* What aeDeleteFileEvent does to the table.
LEMMA DeleteIsRight ==
    ASSUME NEW t \in TableType, NEW f \in Fds,
           NEW h \in [r : {"none", "any"}, w : {"none", "any"}]
    PROVE  /\ DeleteFileEvent(t, f, h) \in TableType
           /\ DeleteFileEvent(t, f, h).polled = t.polled
           /\ \A g \in Fds \ {f} : DeleteFileEvent(t, f, h).events[g] = t.events[g]
           /\ h = Both("any") => DeleteFileEvent(t, f, h).events[f] = None
  <1> DEFINE e == [r |-> IF h.r = "none" THEN t.events[f].r ELSE "none",
                   w |-> IF h.w = "none" THEN t.events[f].w ELSE "none"]
             left == [t EXCEPT !.events = [t.events EXCEPT ![f] = e]]
  <1>1. e \in EventType /\ (h = Both("any") => e = None)
    BY DEF EventType, TableType, Both, None
  <1>2. DeleteFileEvent(t, f, h) =
          IF f = t.maxfd /\ left.events[f] = None
            THEN [left EXCEPT !.maxfd = HighestBelow(left, f)]
            ELSE left
    BY DEF DeleteFileEvent, TableType
  <1> HIDE DEF e
  <1>3. /\ left \in TableType /\ left.polled = t.polled
        /\ left.events = [t.events EXCEPT ![f] = e]
    BY <1>1 DEF TableType
  <1> HIDE DEF left
  <1>4. HighestBelow(left, f) \in Fds \cup {-1}
    <2> DEFINE T == {-1} \cup {g \in Registered(left) : g < f}
    <2>1. T \subseteq Fds \cup {-1}
      BY DEF Registered
    <2>2. f \in Int /\ Fds \subseteq Int
      BY EventLoopAssumption
    <2>3. ASSUME NEW x \in T PROVE x <= f
      <3>1. x = -1 \/ x < f
        OBVIOUS
      <3>2. x \in Int /\ f >= 0
        BY <2>1, EventLoopAssumption
      <3> QED
        BY <2>2, <3>1, <3>2
    <2>4. -1 \in T
      OBVIOUS
    <2>5. HighestBelow(left, f) = Max(T)
      BY DEF HighestBelow
    <2> HIDE DEF T
    <2>6. \E x \in T : \A y \in T : x >= y
      <3>1. T # {} /\ T \subseteq Int
        BY <2>1, <2>2, <2>4
      <3> QED
        BY <2>2, <2>3, <3>1, GreatestExists
    <2>7. Max(T) \in T
      BY <2>6 DEF Max
    <2> QED
      BY <2>1, <2>5, <2>7
  <1>5. /\ DeleteFileEvent(t, f, h) \in TableType
        /\ DeleteFileEvent(t, f, h).polled = left.polled
        /\ DeleteFileEvent(t, f, h).events = left.events
    <2> HIDE DEF EventType
    <2> QED
      BY <1>2, <1>3, <1>4 DEF TableType
  <1> QED
    BY <1>1, <1>3, <1>5 DEF TableType

\* connect_socket leaves the registered descriptors alone; a number that it gives to
\* a new socket is registered with socket_connected for both directions.
LEMMA ConnectIsRight ==
    ASSUME NEW t \in TableType, NEW u \in ConnectSocket(t)
    PROVE  /\ u \in TableType
           /\ \A g \in Fds : t.events[g] # None =>
                u.events[g] = t.events[g] /\ (g \in t.polled => g \in u.polled)
           /\ \A g \in Fds : g \in t.polled =>
                g \in u.polled \/ u.events[g].w = u.events[g].r
  <1>1. CASE u = t
    BY <1>1
  <1>2. ASSUME NEW f \in Fds \ Registered(t),
               u = [CreateFileEvent(t, f, Both("connected")) EXCEPT !.polled = @ \ {f}]
        PROVE  /\ u \in TableType
               /\ \A g \in Fds : t.events[g] # None =>
                    u.events[g] = t.events[g] /\ (g \in t.polled => g \in u.polled)
               /\ \A g \in Fds : g \in t.polled =>
                    g \in u.polled \/ u.events[g].w = u.events[g].r
    <2> DEFINE c == CreateFileEvent(t, f, Both("connected"))
    <2>1. /\ Both("connected") \in EventType
          /\ Both("connected").w = "connected" /\ Both("connected").r = "connected"
      BY DEF Both, EventType
    <2>2. /\ c \in TableType /\ c.polled = t.polled
          /\ \A g \in Fds \ {f} : c.events[g] = t.events[g]
          /\ c.events[f].w = "connected" /\ c.events[f].r = "connected"
      BY <2>1, CreateIsRight
    <2> HIDE DEF c
    <2>3. /\ u \in TableType /\ u.events = c.events /\ u.polled = c.polled \ {f}
      BY <1>2, <2>2 DEF TableType, c
    <2>4. t.events[f] = None
      BY DEF Registered
    <2>5. ASSUME NEW g \in Fds, g # f
          PROVE  u.events[g] = t.events[g] /\ (g \in t.polled => g \in u.polled)
      BY <2>2, <2>3, <2>5
    <2>6. u.events[f].w = u.events[f].r
      BY <2>2, <2>3
    <2> QED
      BY <2>3, <2>4, <2>5, <2>6
  <1> QED
    BY <1>1, <1>2 DEF ConnectSocket

\* What a handler of descriptor f may make of the table t: another descriptor that is
\* registered stays as it is, and f is left as the poll saw it, or has no event, or
\* belongs to a new socket, with one handler for both directions.
Touched(t, u, f) ==
    /\ u \in TableType
    /\ \A g \in Fds \ {f} : t.events[g] # None =>
         u.events[g] = t.events[g] /\ (g \in t.polled => g \in u.polled)
    /\ f \in t.polled => f \in u.polled \/ u.events[f].w = u.events[f].r

Handlers == {"connected", "readable", "writeable"}

LEMMA EffectsAreLocal ==
    ASSUME NEW t \in TableType, NEW f \in Fds, NEW h \in Handlers, NEW u \in Effects(t, f, h)
    PROVE  Touched(t, u, f)
  <1>1. CASE u = t
    BY <1>1 DEF Touched
  <1>2. CASE u \in ReconnectSocket(t, f)
    <2> DEFINE v == DeleteFileEvent(t, f, Both("any"))
    <2>1. Both("any") \in [r : {"none", "any"}, w : {"none", "any"}]
      BY DEF Both
    <2>2. /\ v \in TableType /\ v.polled = t.polled
          /\ \A g \in Fds \ {f} : v.events[g] = t.events[g]
      BY <2>1, DeleteIsRight
    <2>3. u \in ConnectSocket(v)
      BY <1>2 DEF ReconnectSocket
    <2> HIDE DEF v
    <2> QED
      BY <2>2, <2>3, ConnectIsRight DEF Touched
  <1>3. ASSUME NEW e \in EventType, u = CreateFileEvent(t, f, e)
        PROVE  Touched(t, u, f)
    BY <1>3, CreateIsRight DEF Touched
  <1>4. /\ [r |-> "readable", w |-> "writeable"] \in EventType
        /\ Write("writeable") \in EventType
    BY DEF EventType, Write
  <1>5. CASE h = "connected" /\ u = CreateFileEvent(t, f, [r |-> "readable", w |-> "writeable"])
    BY <1>3, <1>4, <1>5
  <1>6. CASE h = "readable" /\ u = CreateFileEvent(t, f, Write("writeable"))
    BY <1>3, <1>4, <1>6
  <1>7. CASE h = "writeable" /\ u = DeleteFileEvent(t, f, Write("any"))
    <2>1. Write("any") \in [r : {"none", "any"}, w : {"none", "any"}]
      BY DEF Write
    <2> QED
      BY <1>7, <2>1, DeleteIsRight DEF Touched
  <1> QED
    BY <1>1, <1>2, <1>5, <1>6, <1>7 DEF Effects, Handlers

-------------------------------------------------------------------------------
(* No handler is called for a socket that the poll did not see *)

FiredType == [fd : Fds, mask : SUBSET {"R", "W"}, rfired : {FALSE}]

\* The events that wait are of different descriptors, which are registered as when
\* the poll reported them; the descriptor whose readable bit has been handled is
\* one of those, or its handler has replaced it, and then both bits have one handler.
DispatchInv ==
    /\ table \in TableType
    /\ fired \subseteq FiredType
    /\ pc \notin {"files", "write"} => fired = {}
    /\ \A e \in fired : e.fd \in table.polled /\ table.events[e.fd] # None
    /\ \A d, e \in fired : d # e => d.fd # e.fd
    /\ pc = "write" =>
         /\ cur.fd \in Fds
         /\ \A e \in fired : e.fd # cur.fd
         /\ \/ cur.fd \in table.polled
            \/ cur.rfired /\ table.events[cur.fd].w = table.events[cur.fd].r

\* What a poll makes of the ready descriptors.
LEMMA PollFires ==
    ASSUME DispatchInv, PollReturns
    PROVE  DispatchInv'
  <1>1. PICK ready \in SUBSET Registered(table) :
          \E mask \in [ready -> {{"R"}, {"W"}, {"R", "W"}}] :
             fired' = {[fd |-> f, mask |-> mask[f], rfired |-> FALSE] : f \in ready}
    BY DEF PollReturns
  <1>2. PICK mask \in [ready -> {{"R"}, {"W"}, {"R", "W"}}] :
             fired' = {[fd |-> f, mask |-> mask[f], rfired |-> FALSE] : f \in ready}
    BY <1>1
  <1>3. \A f \in ready : f \in Fds /\ mask[f] \in SUBSET {"R", "W"} /\ table.events[f] # None
    BY <1>2 DEF Registered
  <1>4. ASSUME NEW e \in fired'
        PROVE  /\ e.fd \in ready /\ e \in FiredType
               /\ e = [fd |-> e.fd, mask |-> mask[e.fd], rfired |-> FALSE]
    <2>1. PICK f \in ready : e = [fd |-> f, mask |-> mask[f], rfired |-> FALSE]
      BY <1>2
    <2> QED
      BY <1>3, <2>1 DEF FiredType
  <1>5. table' = [table EXCEPT !.polled = Registered(table)] /\ pc' = "files"
    BY DEF PollReturns
  <1>6. /\ table' \in TableType /\ table'.events = table.events
        /\ table'.polled = Registered(table)
    BY <1>5 DEF DispatchInv, TableType, Registered
  <1>7. \A e \in fired' : e.fd \in table'.polled /\ table'.events[e.fd] # None
    BY <1>3, <1>4, <1>6
  <1>8. \A d, e \in fired' : d # e => d.fd # e.fd
    BY <1>4, Zenon
  <1>9. fired' \subseteq FiredType
    BY <1>4
  <1> QED
    BY <1>5, <1>6, <1>7, <1>8, <1>9 DEF DispatchInv

\* A handler of f, when no event of f waits.
LEMMA HandlerIsLocal ==
    ASSUME table \in TableType, NEW f \in Fds, NEW h \in Handlers, Handler(f, h)
    PROVE  Touched(table, table', f)
  BY EffectsAreLocal DEF Handler

LEMMA DispatchKeeps == DispatchInv /\ [Next]_vars => DispatchInv'
  <1> SUFFICES ASSUME DispatchInv, [Next]_vars PROVE DispatchInv'
    OBVIOUS
  <1> USE DEF DispatchInv
  <1>1. CASE UNCHANGED <<table, fired, cur>> /\ (pc' = "write" <=> pc = "write")
             /\ (pc' \notin {"files", "write"} => fired = {})
    BY <1>1
  <1>2. CASE PollReturns
    BY <1>2, PollFires
  <1>3. CASE DispatchRead
    <2>1. PICK e \in fired :
            /\ fired' = fired \ {e}
            /\ cur' = [e EXCEPT !.rfired = ReadDue(e)]
            /\ IF ReadDue(e) THEN Handler(e.fd, table.events[e.fd].r)
                             ELSE UNCHANGED <<table, list, stop>>
      BY <1>3 DEF DispatchRead
    <2> DEFINE f == e.fd
    <2>2. f \in Fds /\ f \in table.polled /\ cur'.fd = f
      BY <2>1 DEF FiredType
    <2>3. cur'.rfired = ReadDue(e)
      <3>1. e \in FiredType
        BY <2>1
      <3>2. \A b : [e EXCEPT !.rfired = b].rfired = b
        BY <3>1 DEF FiredType
      <3> QED
        BY <2>1, <3>2
    <2>4. pc' = "write" /\ \A d \in fired' : d.fd # f /\ d \in fired
      BY <1>3, <2>1 DEF DispatchRead
    <2>5. CASE ~ReadDue(e)
      BY <2>1, <2>2, <2>4, <2>5
    <2>6. CASE ReadDue(e)
      <3>1. table.events[f].r \in Handlers
        BY <2>2, <2>6 DEF ReadDue, TableType, EventType, Handlers
      <3>2. Touched(table, table', f)
        BY <2>1, <2>2, <2>6, <3>1, HandlerIsLocal
      <3>3. cur'.rfired
        BY <2>3, <2>6, Zenon
      <3>4. \A d \in fired' : d.fd \in Fds
        BY <2>4 DEF FiredType
      <3>5. \A d \in fired' : d.fd \in table'.polled /\ table'.events[d.fd] # None
        BY <2>4, <3>2, <3>4 DEF Touched
      <3>6. f \in table'.polled \/ table'.events[f].w = table'.events[f].r
        BY <2>2, <3>2 DEF Touched
      <3>7. table' \in TableType
        BY <3>2 DEF Touched
      <3>8. fired' \subseteq FiredType /\ \A d, c \in fired' : d # c => d.fd # c.fd
        BY <2>4
      <3> HIDE DEF f
      <3> QED
        BY <2>2, <2>4, <3>3, <3>5, <3>6, <3>7, <3>8
    <2> QED
      BY <2>5, <2>6
  <1>4. CASE DispatchWrite
    <2>1. cur.fd \in Fds /\ pc = "write" /\ pc' = "files" /\ fired' = fired
      BY <1>4 DEF DispatchWrite
    <2>2. CASE ~WriteDue(cur)
      BY <1>4, <2>1, <2>2 DEF DispatchWrite
    <2>3. CASE WriteDue(cur)
      <3>1. table.events[cur.fd].w \in Handlers
        BY <2>1, <2>3 DEF WriteDue, TableType, EventType, Handlers
      <3>2. Touched(table, table', cur.fd)
        BY <1>4, <2>1, <2>3, <3>1, HandlerIsLocal DEF DispatchWrite
      <3>3. \A d \in fired : d.fd \in Fds /\ d.fd # cur.fd
        BY <2>1 DEF FiredType
      <3>4. \A d \in fired : d.fd \in table'.polled /\ table'.events[d.fd] # None
        BY <3>2, <3>3 DEF Touched
      <3> QED
        BY <2>1, <3>2, <3>4 DEF Touched
    <2> QED
      BY <2>2, <2>3
  <1>5. CASE CallTimer
    <2>1. pc = "times" /\ pc' = "times" /\ UNCHANGED <<fired, cur>>
      BY <1>5 DEF CallTimer, poll
    <2>2. table' \in TableType
      <3>1. CASE UNCHANGED table
        BY <3>1
      <3>2. CASE table' \in ConnectSocket(table)
        BY <3>2, ConnectIsRight
      <3>3. CASE table' \in {CreateFileEvent(table, f, Write("writeable")) : f \in Registered(table)}
        <4>1. Write("writeable") \in EventType
          BY DEF Write, EventType
        <4> QED
          BY <3>3, <4>1, CreateIsRight DEF Registered
      <3> QED
        BY <1>5, <3>1, <3>2, <3>3 DEF CallTimer, Rearm, NoMore
    <2> QED
      BY <2>1, <2>2
  <1>6. CASE StartPass
    BY <1>1, <1>6 DEF StartPass, poll
  <1> QED
    BY <1>1, <1>2, <1>3, <1>4, <1>5, <1>6
       DEF Next, CreateTimer, Poll, SkipTimer, EndPass, Tick, StepBack, vars, list, poll, pass

\* At first nothing is registered and nothing has fired.
LEMMA TableInit == Init => DispatchInv
  <1> SUFFICES ASSUME Init PROVE DispatchInv
    OBVIOUS
  <1>1. None \in EventType
    BY DEF None, EventType
  <1>2. table \in TableType
    BY <1>1 DEF Init, TableType
  <1> QED
    BY <1>2 DEF Init, DispatchInv

\* aeProcessEvents calls a handler for no socket but the one that the poll reported:
\* for any descriptors, and whatever the handlers of one round make of the table.
THEOREM NothingStale == Spec => []NoStaleDispatch
  <1>1. DispatchInv => NoStaleDispatch
    BY Zenon DEF DispatchInv, NoStaleDispatch, WriteDue
  <1> QED
    BY <1>1, TableInit, DispatchKeeps, PTL DEF Spec

-------------------------------------------------------------------------------
(* The order of the list, and what a pass has still to call *)

\* A list of timers of which the younger comes first, all older than identifier n.
Ordered(s, n) ==
    \A i \in 1 .. Len(s) :
       s[i].id \in 0 .. n - 1 /\ \A j \in 1 .. i - 1 : s[i].id < s[j].id

\* The timer with identifier id lies ahead of place i in the list s, and is due now.
Ahead(s, i, id, now) == \E k \in i .. Len(s) : s[k].id = id /\ s[k].due <= now

\* A timer with a new identifier goes to the head.
LEMMA HeadIsYoungest ==
    ASSUME NEW s \in Seq(TimerSet), NEW n \in Nat, NEW t \in TimerSet,
           Ordered(s, n), t.id = n
    PROVE  /\ Ordered(<<t>> \o s, n + 1)
           /\ Len(<<t>> \o s) = Len(s) + 1
           /\ \A k \in 1 .. Len(s) : (<<t>> \o s)[k + 1] = s[k]
  <1> DEFINE u == <<t>> \o s
  <1>1. /\ Len(u) = Len(s) + 1 /\ u[1] = t
        /\ \A k \in 1 .. Len(s) : u[k + 1] = s[k]
    OBVIOUS
  <1>2. \A k \in 2 .. Len(u) : k - 1 \in 1 .. Len(s) /\ u[k] = s[k - 1]
    <2>1. ASSUME NEW k \in 2 .. Len(u) PROVE k - 1 \in 1 .. Len(s) /\ u[(k - 1) + 1] = s[k - 1]
      BY <1>1
    <2>2. \A k \in 2 .. Len(u) : (k - 1) + 1 = k
      OBVIOUS
    <2> QED
      BY <2>1, <2>2
  <1> HIDE DEF u
  <1>3. \A k \in 1 .. Len(s) : s[k].id \in Nat /\ s[k].id < n
    BY DEF Ordered
  <1>4. ASSUME NEW i \in 1 .. Len(u)
        PROVE  u[i].id \in 0 .. (n + 1) - 1 /\ \A j \in 1 .. i - 1 : u[i].id < u[j].id
    <2>1. CASE i = 1
      BY <1>1, <2>1
    <2>2. CASE i # 1
      <3>1. i \in 2 .. Len(u) /\ Len(u) \in Nat
        BY <1>1, <2>2
      <3>2. i - 1 \in 1 .. Len(s) /\ u[i] = s[i - 1]
        BY <1>2, <3>1
      <3>3. u[i].id \in Nat /\ u[i].id < n
        BY <1>3, <3>2
      <3>4. ASSUME NEW j \in 1 .. i - 1 PROVE u[i].id < u[j].id
        <4>1. CASE j = 1
          BY <1>1, <3>3, <4>1
        <4>2. CASE j # 1
          <5>1. j \in 2 .. Len(u) /\ j - 1 \in 1 .. (i - 1) - 1
            BY <3>1, <4>2
          <5>2. u[j] = s[j - 1]
            BY <1>2, <5>1
          <5>3. s[i - 1].id < s[j - 1].id
            BY <3>2, <5>1 DEF Ordered
          <5> QED
            BY <3>2, <5>2, <5>3
        <4> QED
          BY <4>1, <4>2
      <3> QED
        BY <3>3, <3>4
    <2> QED
      BY <2>1, <2>2
  <1>5. Ordered(u, n + 1)
    BY <1>4 DEF Ordered
  <1> QED
    BY <1>1, <1>5 DEF u

\* Where the timers are when one has been taken out.
LEMMA TakenOut ==
    ASSUME NEW s \in Seq(TimerSet), NEW i \in 1 .. Len(s)
    PROVE  /\ Len(RemoveAt(s, i)) = Len(s) - 1
           /\ \A k \in 1 .. i - 1 : RemoveAt(s, i)[k] = s[k]
           /\ \A k \in i .. Len(s) - 1 : RemoveAt(s, i)[k] = s[k + 1]
  <1> DEFINE a == SubSeq(s, 1, i - 1)
             b == SubSeq(s, i + 1, Len(s))
  <1>1. /\ a \in Seq(TimerSet) /\ Len(a) = i - 1
        /\ \A k \in 1 .. i - 1 : a[k] = s[k]
    OBVIOUS
  <1>2. /\ b \in Seq(TimerSet) /\ Len(b) = Len(s) - i
        /\ \A k \in 1 .. Len(s) - i : b[k] = s[i + k]
    <2>1. Len(b) = Len(s) - i
      OBVIOUS
    <2>2. \A k \in 1 .. Len(s) - i : b[k] = s[(i + 1) + k - 1]
      OBVIOUS
    <2>3. \A k \in 1 .. Len(s) - i : (i + 1) + k - 1 = i + k
      OBVIOUS
    <2> QED
      BY <2>1, <2>2, <2>3
  <1>3. RemoveAt(s, i) = a \o b
    BY DEF RemoveAt
  <1> HIDE DEF a, b
  <1>4. Len(a \o b) = Len(s) - 1
    BY <1>1, <1>2
  <1>5. \A k \in 1 .. i - 1 : (a \o b)[k] = s[k]
    BY <1>1, <1>2
  <1>6. ASSUME NEW k \in i .. Len(s) - 1 PROVE (a \o b)[k] = s[k + 1]
    <2>1. k - (i - 1) \in 1 .. Len(s) - i /\ i + (k - (i - 1)) = k + 1
      OBVIOUS
    <2>2. (a \o b)[k] = b[k - (i - 1)]
      BY <1>1, <1>2
    <2>3. b[k - (i - 1)] = s[i + (k - (i - 1))]
      BY <1>2, <2>1
    <2> QED
      BY <2>1, <2>2, <2>3
  <1> QED
    BY <1>3, <1>4, <1>5, <1>6

\* Taking a timer out keeps the order.
LEMMA TakeOutKeepsOrder ==
    ASSUME NEW s \in Seq(TimerSet), NEW n \in Nat, NEW i \in 1 .. Len(s), Ordered(s, n)
    PROVE  Ordered(RemoveAt(s, i), n)
  <1> DEFINE u == RemoveAt(s, i)
             at(k) == IF k < i THEN k ELSE k + 1
  <1>1. /\ Len(u) = Len(s) - 1
        /\ \A k \in 1 .. Len(u) : at(k) \in 1 .. Len(s) /\ u[k] = s[at(k)]
    <2>1. /\ Len(u) = Len(s) - 1
          /\ \A k \in 1 .. i - 1 : u[k] = s[k]
          /\ \A k \in i .. Len(s) - 1 : u[k] = s[k + 1]
      BY TakenOut
    <2> HIDE DEF u
    <2> QED
      BY <2>1
  <1>2. \A k \in 1 .. Len(u) : \A j \in 1 .. k - 1 : j \in 1 .. Len(u) /\ at(j) \in 1 .. at(k) - 1
    BY <1>1
  <1> HIDE DEF u, at
  <1>3. \A k \in 1 .. Len(u) : u[k].id \in 0 .. n - 1
    BY <1>1 DEF Ordered
  <1>4. \A k \in 1 .. Len(u) : \A j \in 1 .. k - 1 : u[k].id < u[j].id
    BY <1>1, <1>2 DEF Ordered
  <1> QED
    BY <1>3, <1>4 DEF Ordered, u

\* So does a change that leaves the identifiers alone.
LEMMA SameOrder ==
    ASSUME NEW s \in Seq(TimerSet), NEW u \in Seq(TimerSet), NEW n \in Nat, Ordered(s, n),
           Len(u) = Len(s), \A k \in 1 .. Len(s) : u[k].id = s[k].id
    PROVE  Ordered(u, n)
  BY DEF Ordered

\* processTimeEvents finds every timer due whose delay is over.
LEMMA PastIsDue ==
    ASSUME clock \in Nat, clock >= MsPerSec, NEW t \in TimerSet, t.due <= clock
    PROVE  IsDue(t)
  <1> DEFINE w == [sec |-> Sec(clock), ms |-> Ms(clock)]
  <1>1. w \in Times /\ Value(w) = clock
    BY Division DEF Times, Value
  <1>2. t.when \in Times /\ t.due \in Nat
    BY DEF TimerSet
  <1>3. /\ Sec(clock) \in Nat /\ Ms(clock) \in 0 .. MsPerSec - 1
        /\ t.when.sec \in Nat /\ t.when.ms \in 0 .. MsPerSec - 1
        /\ MsPerSec \in Nat \ {0}
    BY <1>2, Division, EventLoopAssumption DEF Times
  <1>4. CASE t.due = Value(t.when)
    <2>1. ~Before(w, t.when)
      BY <1>1, <1>2, <1>4, OrderIsRight
    <2>2. /\ ~(Sec(clock) < t.when.sec)
          /\ ~(Sec(clock) = t.when.sec /\ Ms(clock) < t.when.ms)
      BY <2>1 DEF Before
    <2>3. Ms(clock) \in Int /\ t.when.ms \in Int
      BY <1>3
    <2> QED
      BY <1>3, <2>2, <2>3 DEF IsDue
  <1>5. CASE t.due = 0 /\ t.when.sec = 0
    <2>1. Sec(clock) # 0
      <3>1. clock = Sec(clock) * MsPerSec + Ms(clock)
        BY Division
      <3>2. Sec(clock) = 0 => clock = Ms(clock)
        BY <1>3, <3>1
      <3>3. Ms(clock) < clock
        BY <1>3
      <3> QED
        BY <1>3, <3>2, <3>3
    <2>2. Sec(clock) > t.when.sec
      BY <1>3, <1>5, <2>1
    <2> QED
      BY <2>2 DEF IsDue
  <1> QED
    BY <1>4, <1>5 DEF TimerSet

\* The inductive invariant of a pass: the list is ordered, and whatever the pass owes
\* a call lies ahead of the scan, due, and old enough for this pass.
PassInv ==
    /\ clock >= MsPerSec /\ lastTime \in Nat
    /\ pc \in {"create", "poll", "sleep", "files", "write", "times", "exit"}
    /\ Ordered(timers, timeEventNextId)
    /\ te \in 1 .. Len(timers) + 1
    /\ pc # "times" => te = 1 /\ owed = {}
    /\ pc = "times" =>
         /\ maxId \in Int /\ maxId < timeEventNextId
         /\ \A id \in owed : id \in Nat /\ id <= maxId /\ Ahead(timers, te, id, clock)

\* A file event's handler: the list may get a new head, when no pass is in progress.
LEMMA HandlerKeepsOrder ==
    ASSUME LoopInv, PassInv, NEW f, NEW h, Handler(f, h), te' = te, te = 1
    PROVE  Ordered(timers', timeEventNextId') /\ te' \in 1 .. Len(timers') + 1
  <1>1. timers \in Seq(TimerSet) /\ timeEventNextId \in Nat /\ clock \in Nat
    BY DEF LoopInv
  <1>2. CASE UNCHANGED list
    BY <1>2 DEF list, PassInv
  <1>3. CASE /\ \E d \in Delays : timers' = <<NewTimer(d)>> \o timers
             /\ timeEventNextId' = timeEventNextId + 1
    <2>1. PICK d \in Delays : timers' = <<NewTimer(d)>> \o timers
      BY <1>3
    <2>2. NewTimer(d) \in TimerSet /\ NewTimer(d).id = timeEventNextId
      BY <1>1, NewTimerIsRight, EventLoopAssumption DEF NewTimer, Timer
    <2>3. Ordered(timers', timeEventNextId') /\ Len(timers') = Len(timers) + 1
      BY <1>1, <1>3, <2>1, <2>2, HeadIsYoungest DEF PassInv
    <2> QED
      BY <1>1, <2>3
  <1> QED
    BY <1>2, <1>3 DEF Handler

LEMMA PassInit == Init => PassInv
  <1> SUFFICES ASSUME Init PROVE PassInv
    OBVIOUS
  <1>1. MsPerSec \in Nat \ {0}
    BY EventLoopAssumption
  <1>2. clock \in Nat /\ clock >= MsPerSec
    BY <1>1 DEF Init
  <1>3. lastTime \in Nat
    BY <1>2, Division DEF Init
  <1>4. Ordered(timers, timeEventNextId) /\ te \in 1 .. Len(timers) + 1
    BY DEF Init, Ordered
  <1> QED
    BY <1>2, <1>3, <1>4 DEF Init, PassInv

\* The pass starts: what is due lies ahead, for the scan is at the head.
LEMMA StartOwes ==
    ASSUME LoopInv, PassInv, StartPass
    PROVE  PassInv'
  <1>1. /\ timers \in Seq(TimerSet) /\ timeEventNextId \in Nat /\ clock \in Nat
        /\ MsPerSec \in Nat \ {0}
    BY EventLoopAssumption DEF LoopInv
  <1> DEFINE back == Sec(clock) < lastTime
  <1>2. /\ timers' = (IF back THEN Reset(timers) ELSE timers)
        /\ owed' = Ids({t \in Range(timers) : back \/ t.due <= clock})
        /\ lastTime' = Sec(clock) /\ te' = 1 /\ maxId' = timeEventNextId - 1
        /\ pc' = "times" /\ UNCHANGED <<clock, timeEventNextId>>
    BY DEF StartPass
  <1>3. /\ timers' \in Seq(TimerSet) /\ Len(timers') = Len(timers)
        /\ \A k \in 1 .. Len(timers) :
             /\ timers'[k].id = timers[k].id
             /\ timers'[k].due = IF back THEN 0 ELSE timers[k].due
    <2>1. CASE back
      <3>1. Reset(timers) \in Seq(TimerSet)
        BY <1>1, ResetIsRight
      <3>2. Len(Reset(timers)) = Len(timers)
        BY <1>1 DEF Reset
      <3>3. ASSUME NEW k \in 1 .. Len(timers)
            PROVE  Reset(timers)[k].id = timers[k].id /\ Reset(timers)[k].due = 0
        <4>1. timers[k] \in [id : Nat, when : Times, due : Nat]
          BY <1>1 DEF TimerSet
        <4>2. Reset(timers)[k] = [timers[k] EXCEPT !.when.sec = 0, !.due = 0]
          BY <1>1 DEF Reset
        <4> QED
          BY <4>1, <4>2
      <3> QED
        BY <1>2, <2>1, <3>1, <3>2, <3>3
    <2>2. CASE ~back
      BY <1>1, <1>2, <2>2
    <2> QED
      BY <2>1, <2>2
  <1>4. Ordered(timers', timeEventNextId')
    BY <1>1, <1>2, <1>3, SameOrder DEF PassInv
  <1>5. lastTime' \in Nat
    BY <1>1, <1>2, Division
  <1>6. ASSUME NEW id \in owed'
        PROVE  id \in Nat /\ id <= maxId' /\ Ahead(timers', te', id, clock')
    <2>1. PICK t \in Range(timers) : id = t.id /\ (back \/ t.due <= clock)
      BY <1>2, <1>6 DEF Ids
    <2>2. PICK k \in 1 .. Len(timers) : t = timers[k]
      BY <1>1, <2>1 DEF Range
    <2>3. timers[k].id \in 0 .. timeEventNextId - 1
      BY DEF PassInv, Ordered
    <2>4. k \in te' .. Len(timers') /\ timers'[k].id = id
      BY <1>2, <1>3, <2>1, <2>2
    <2>5. timers'[k].due <= clock'
      BY <1>1, <1>2, <1>3, <2>1, <2>2
    <2> QED
      BY <1>1, <1>2, <2>1, <2>2, <2>3, <2>4, <2>5 DEF Ahead
  <1>7. /\ clock' >= MsPerSec /\ te' \in 1 .. Len(timers') + 1
        /\ maxId' \in Int /\ maxId' < timeEventNextId'
    BY <1>1, <1>2, <1>3 DEF PassInv
  <1> HIDE DEF back
  <1> QED
    BY <1>2, <1>4, <1>5, <1>6, <1>7 DEF PassInv

\* A timer that is passed over owes nothing.
LEMMA SkipOwes ==
    ASSUME LoopInv, PassInv, SkipTimer
    PROVE  PassInv'
  <1>1. /\ timers \in Seq(TimerSet) /\ timeEventNextId \in Nat /\ clock \in Nat
        /\ te \in 1 .. Len(timers) /\ pc = "times" /\ te' = te + 1
        /\ UNCHANGED <<clock, timers, timeEventNextId, pc, lastTime, maxId, owed>>
    BY DEF LoopInv, PassInv, SkipTimer, list
  <1>2. ASSUME NEW id \in owed
        PROVE  Ahead(timers, te + 1, id, clock)
    <2>1. id \in Nat /\ id <= maxId /\ maxId \in Int /\ Ahead(timers, te, id, clock)
      BY <1>1 DEF PassInv
    <2>2. PICK k \in te .. Len(timers) : timers[k].id = id /\ timers[k].due <= clock
      BY <2>1 DEF Ahead
    <2>3. k # te
      <3>1. CASE timers[te].id > maxId
        BY <2>1, <2>2, <3>1
      <3>2. CASE ~IsDue(timers[te])
        <4>1. timers[te] \in TimerSet
          BY <1>1
        <4>2. ~(timers[te].due <= clock)
          BY <1>1, <3>2, <4>1, PastIsDue DEF PassInv
        <4> QED
          BY <2>2, <4>2
      <3> QED
        BY <3>1, <3>2 DEF SkipTimer
    <2>4. k \in te + 1 .. Len(timers)
      BY <1>1, <2>3
    <2> QED
      BY <2>2, <2>4 DEF Ahead
  <1>3. te' \in 1 .. Len(timers') + 1
    BY <1>1
  <1> QED
    BY <1>1, <1>2, <1>3 DEF PassInv

\* No two timers of the list have the same identifier.
LEMMA IdsDiffer ==
    ASSUME NEW s \in Seq(TimerSet), NEW n \in Nat, Ordered(s, n),
           NEW i \in 1 .. Len(s), NEW k \in 1 .. Len(s), s[i].id = s[k].id
    PROVE  i = k
  <1>1. s[i].id \in Nat /\ s[k].id \in Nat
    BY DEF TimerSet
  <1>2. CASE i < k
    BY <1>1, <1>2 DEF Ordered
  <1>3. CASE k < i
    BY <1>1, <1>3 DEF Ordered
  <1> QED
    BY <1>2, <1>3

\* A timer's handler leaves the list in order, and the timers behind it in the list.
LEMMA CallKeepsOrder ==
    ASSUME LoopInv, PassInv, CallTimer
    PROVE  /\ Ordered(timers', timeEventNextId')
           /\ \A k \in te + 1 .. Len(timers) :
                 \E m \in 1 .. Len(timers') : timers'[m] = timers[k]
  <1>1. /\ timers \in Seq(TimerSet) /\ timeEventNextId \in Nat /\ clock \in Nat
        /\ te \in 1 .. Len(timers) /\ Ordered(timers, timeEventNextId)
        /\ timers' \in Seq(TimerSet) /\ clock' \in Nat
    BY CallKeepsList DEF LoopInv, PassInv, CallTimer
  <1>2. CASE Rearm
    <2>1. PICK d \in Delays :
            timers' = [timers EXCEPT ![te].when = AddMilliseconds(clock', d),
                                     ![te].due = clock' + d]
      BY <1>2 DEF Rearm
    <2>2. /\ Len(timers') = Len(timers) /\ UNCHANGED timeEventNextId
          /\ \A k \in te + 1 .. Len(timers) : k \in 1 .. Len(timers) /\ timers'[k] = timers[k]
      BY <1>1, <1>2, <2>1 DEF Rearm
    <2>3. ASSUME NEW k \in 1 .. Len(timers) PROVE timers'[k].id = timers[k].id
      <3>1. CASE k # te
        BY <1>1, <2>1, <3>1
      <3>2. CASE k = te
        <4>1. timers[te] \in [id : Nat, when : Times, due : Nat]
          BY <1>1 DEF TimerSet
        <4> DEFINE t == [timers[te] EXCEPT !.when = AddMilliseconds(clock', d),
                                           !.due = clock' + d]
        <4>2. t.id = timers[te].id
          BY <4>1
        <4>3. timers' = [timers EXCEPT ![te] = t]
          BY <1>1, <2>1, <4>1
        <4> HIDE DEF t
        <4> QED
          BY <1>1, <3>2, <4>2, <4>3
      <3> QED
        BY <3>1, <3>2
    <2>4. Ordered(timers', timeEventNextId')
      BY <1>1, <2>2, <2>3, SameOrder
    <2> QED
      BY <2>2, <2>4
  <1>3. CASE NoMore
    <2> DEFINE u == RemoveAt(timers, te)
    <2>1. u \in Seq(TimerSet) /\ Ordered(u, timeEventNextId)
      BY <1>1, TakeOut, TakeOutKeepsOrder
    <2>2. ASSUME NEW k \in te + 1 .. Len(timers)
          PROVE  k - 1 \in 1 .. Len(u) /\ u[k - 1] = timers[k]
      <3>1. k - 1 \in te .. Len(timers) - 1 /\ (k - 1) + 1 = k /\ Len(u) = Len(timers) - 1
        BY <1>1, TakenOut
      <3>2. u[k - 1] = timers[(k - 1) + 1]
        BY <1>1, <3>1, TakenOut
      <3> HIDE DEF u
      <3> QED
        BY <1>1, <3>1, <3>2
    <2> HIDE DEF u
    <2>3. CASE timers' = u /\ UNCHANGED timeEventNextId
      BY <2>1, <2>2, <2>3
    <2>4. CASE /\ \E d \in Delays : timers' = <<NewTimer(d)>> \o u
               /\ timeEventNextId' = timeEventNextId + 1
      <3>1. PICK d \in Delays : timers' = <<NewTimer(d)>> \o u
        BY <2>4
      <3>2. NewTimer(d) \in TimerSet /\ NewTimer(d).id = timeEventNextId
        BY <1>1, NewTimerIsRight, EventLoopAssumption DEF NewTimer, Timer
      <3>3. /\ Ordered(timers', timeEventNextId') /\ Len(timers') = Len(u) + 1
            /\ \A k \in 1 .. Len(u) : timers'[k + 1] = u[k]
        BY <1>1, <2>1, <2>4, <3>1, <3>2, HeadIsYoungest
      <3>4. ASSUME NEW k \in te + 1 .. Len(timers)
            PROVE  k \in 1 .. Len(timers') /\ timers'[k] = timers[k]
        <4>1. k - 1 \in 1 .. Len(u) /\ (k - 1) + 1 = k /\ u[k - 1] = timers[k]
          BY <1>1, <2>2
        <4>2. timers'[(k - 1) + 1] = u[k - 1]
          BY <3>3, <4>1
        <4>3. k \in 1 .. Len(timers')
          BY <2>1, <3>3, <4>1
        <4> QED
          BY <4>1, <4>2, <4>3
      <3> QED
        BY <3>3, <3>4
    <2> QED
      BY <1>3, <2>3, <2>4 DEF NoMore, u
  <1> QED
    BY <1>2, <1>3 DEF CallTimer

\* A call pays what it owed; the scan starts again at the head, before everything that
\* is owed still.
LEMMA CallOwes ==
    ASSUME LoopInv, PassInv, CallTimer
    PROVE  PassInv'
  <1>1. /\ timers \in Seq(TimerSet) /\ timeEventNextId \in Nat /\ clock \in Nat
        /\ te \in 1 .. Len(timers) /\ pc = "times" /\ te' = 1
        /\ owed' = owed \ {timers[te].id}
        /\ UNCHANGED <<pc, lastTime, maxId>>
    BY DEF LoopInv, PassInv, CallTimer
  <1>2. timers' \in Seq(TimerSet) /\ clock' \in Nat /\ timeEventNextId' \in Nat
    BY CallKeepsList
  <1>3. /\ Ordered(timers', timeEventNextId')
        /\ \A k \in te + 1 .. Len(timers) :
              \E m \in 1 .. Len(timers') : timers'[m] = timers[k]
    BY CallKeepsOrder
  <1>4. clock <= clock'
    <2>1. PICK ms \in HandlerTimes : clock' = clock + ms
      BY DEF CallTimer
    <2>2. ms \in Nat
      BY EventLoopAssumption
    <2> QED
      BY <1>1, <2>1, <2>2
  <1>5. timeEventNextId <= timeEventNextId'
    <2>1. \/ timeEventNextId' = timeEventNextId
          \/ timeEventNextId' = timeEventNextId + 1
      BY Zenon DEF CallTimer, Rearm, NoMore
    <2> QED
      BY <1>1, <2>1
  <1>6. MsPerSec \in Nat
    BY EventLoopAssumption
  <1>7. ASSUME NEW id \in owed'
        PROVE  id \in Nat /\ id <= maxId /\ Ahead(timers', 1, id, clock')
    <2>1. id \in Nat /\ id <= maxId /\ Ahead(timers, te, id, clock) /\ id # timers[te].id
      BY <1>1 DEF PassInv
    <2>2. PICK k \in te .. Len(timers) : timers[k].id = id /\ timers[k].due <= clock
      BY <2>1 DEF Ahead
    <2>3. k \in te + 1 .. Len(timers) /\ k \in 1 .. Len(timers)
      BY <1>1, <2>1, <2>2
    <2>4. PICK m \in 1 .. Len(timers') : timers'[m] = timers[k]
      BY <1>3, <2>3
    <2>5. timers[k].due \in Nat
      BY <1>1, <2>3 DEF TimerSet
    <2>6. timers'[m].due <= clock'
      BY <1>1, <1>2, <1>4, <2>2, <2>4, <2>5
    <2> QED
      BY <2>1, <2>2, <2>4, <2>6 DEF Ahead
  <1>8. maxId' \in Int /\ maxId' < timeEventNextId' /\ clock' >= MsPerSec /\ lastTime' \in Nat
    BY <1>1, <1>2, <1>4, <1>5, <1>6 DEF PassInv
  <1>9. te' \in 1 .. Len(timers') + 1
    BY <1>1, <1>2
  <1> QED
    BY <1>1, <1>3, <1>7, <1>8, <1>9 DEF PassInv

\* When the clock is set back, what is owed still is due still.
LEMMA StepBackOwes ==
    ASSUME LoopInv, PassInv, StepBack
    PROVE  PassInv'
  <1>1. /\ timers \in Seq(TimerSet) /\ timeEventNextId \in Nat /\ clock \in Nat
        /\ UNCHANGED <<timers, timeEventNextId, pc, lastTime, te, maxId>>
        /\ owed' = owed \cap Ids({t \in Range(timers) : t.due <= clock'})
    BY DEF LoopInv, StepBack, list
  <1>2. clock' >= MsPerSec
    BY <1>1, EventLoopAssumption DEF StepBack
  <1>3. ASSUME NEW id \in owed', pc = "times"
        PROVE  id \in Nat /\ id <= maxId /\ Ahead(timers, te, id, clock')
    <2>1. id \in Nat /\ id <= maxId /\ Ahead(timers, te, id, clock)
      BY <1>1, <1>3 DEF PassInv
    <2>2. PICK k \in te .. Len(timers) : timers[k].id = id
      BY <2>1 DEF Ahead
    <2>3. PICK t \in Range(timers) : id = t.id /\ t.due <= clock'
      BY <1>1 DEF Ids
    <2>4. PICK i \in 1 .. Len(timers) : t = timers[i]
      BY <1>1, <2>3 DEF Range
    <2>5. k \in 1 .. Len(timers)
      BY <1>1, <2>2 DEF PassInv
    <2>6. i = k
      BY <1>1, <2>2, <2>3, <2>4, <2>5, IdsDiffer DEF PassInv
    <2> QED
      BY <2>1, <2>2, <2>3, <2>4, <2>6 DEF Ahead
  <1> QED
    BY <1>1, <1>2, <1>3 DEF PassInv

LEMMA PassNext == LoopInv /\ PassInv /\ [Next]_vars => PassInv'
  <1> SUFFICES ASSUME LoopInv, PassInv, [Next]_vars PROVE PassInv'
    OBVIOUS
  <1>1. /\ timers \in Seq(TimerSet) /\ timeEventNextId \in Nat /\ clock \in Nat
        /\ MsPerSec \in Nat
    BY EventLoopAssumption DEF LoopInv
  <1>2. CASE CreateTimer
    <2>1. /\ pc # "times" /\ te = 1 /\ owed = {} /\ pc' \in {"create", "poll"}
          /\ UNCHANGED <<clock, lastTime, te, owed>>
      BY <1>2 DEF CreateTimer, pass, PassInv
    <2>2. Ordered(timers', timeEventNextId') /\ 1 \in 1 .. Len(timers') + 1
      <3>1. CASE timeEventNextId < Len(FirstTimers)
        <4>1. FirstTimers[timeEventNextId + 1] \in Nat
          BY <1>1, <3>1, EventLoopAssumption
        <4> DEFINE t == NewTimer(FirstTimers[timeEventNextId + 1])
        <4>2. t \in TimerSet /\ t.id = timeEventNextId
          BY <1>1, <4>1, NewTimerIsRight DEF NewTimer, Timer
        <4>3. timers' = <<t>> \o timers /\ timeEventNextId' = timeEventNextId + 1
          BY <1>2, <3>1 DEF CreateTimer
        <4> HIDE DEF t
        <4>4. Ordered(timers', timeEventNextId') /\ Len(timers') = Len(timers) + 1
          BY <1>1, <4>2, <4>3, HeadIsYoungest DEF PassInv
        <4> QED
          BY <1>1, <4>4
      <3>2. CASE ~(timeEventNextId < Len(FirstTimers))
        BY <1>1, <1>2, <3>2 DEF CreateTimer, list, PassInv
      <3> QED
        BY <3>1, <3>2
    <2> QED
      BY <2>1, <2>2 DEF PassInv
  <1>3. CASE DispatchRead
    <2>1. /\ pc = "files" /\ pc' = "write" /\ te = 1 /\ owed = {}
          /\ UNCHANGED <<clock, lastTime, te, owed>>
      BY <1>3 DEF DispatchRead, pass, PassInv
    <2>2. PICK e \in fired :
            IF ReadDue(e) THEN Handler(e.fd, table.events[e.fd].r)
                          ELSE UNCHANGED <<table, list, stop>>
      BY <1>3 DEF DispatchRead
    <2>3. Ordered(timers', timeEventNextId') /\ te' \in 1 .. Len(timers') + 1
      BY <1>1, <2>1, <2>2, HandlerKeepsOrder DEF list, PassInv
    <2> QED
      BY <2>1, <2>3 DEF PassInv
  <1>4. CASE DispatchWrite
    <2>1. /\ pc = "write" /\ pc' = "files" /\ te = 1 /\ owed = {}
          /\ UNCHANGED <<clock, lastTime, te, owed>>
      BY <1>4 DEF DispatchWrite, pass, PassInv
    <2>2. Ordered(timers', timeEventNextId') /\ te' \in 1 .. Len(timers') + 1
      BY <1>1, <1>4, <2>1, HandlerKeepsOrder DEF DispatchWrite, list, PassInv
    <2> QED
      BY <2>1, <2>2 DEF PassInv
  <1>5. CASE EndPass
    <2>1. /\ pc = "times" /\ te > Len(timers) /\ te' = 1 /\ pc' \in {"exit", "poll"}
          /\ UNCHANGED <<clock, timers, timeEventNextId, lastTime, owed>>
      BY <1>5 DEF EndPass, list
    <2>2. owed = {}
      <3>1. ASSUME NEW id \in owed PROVE FALSE
        <4>1. Ahead(timers, te, id, clock)
          BY <2>1, <3>1 DEF PassInv
        <4> QED
          BY <1>1, <2>1, <4>1 DEF Ahead, PassInv
      <3> QED
        BY <3>1
    <2>3. 1 \in 1 .. Len(timers) + 1
      BY <1>1
    <2> QED
      BY <2>1, <2>2, <2>3 DEF PassInv
  <1>6. CASE Tick
    <2>1. /\ UNCHANGED <<timers, timeEventNextId, pc, lastTime, te, maxId, owed>>
          /\ clock' = clock + 1
      BY <1>6 DEF Tick, list, pass
    <2>2. ASSUME NEW id, pc = "times", Ahead(timers, te, id, clock)
          PROVE  Ahead(timers, te, id, clock')
      <3>1. PICK k \in te .. Len(timers) : timers[k].id = id /\ timers[k].due <= clock
        BY <2>2 DEF Ahead
      <3>2. timers[k] \in TimerSet
        BY <1>1 DEF PassInv
      <3>3. timers[k].due \in Nat
        BY <3>2 DEF TimerSet
      <3>4. timers[k].due <= clock'
        BY <1>1, <2>1, <3>1, <3>3
      <3> QED
        BY <3>1, <3>4 DEF Ahead
    <2>3. clock' >= MsPerSec
      BY <1>1, <2>1 DEF PassInv
    <2> QED
      BY <2>1, <2>2, <2>3 DEF PassInv
  <1>7. CASE Poll \/ PollReturns \/ UNCHANGED vars
    BY <1>7 DEF Poll, PollReturns, vars, list, pass, PassInv
  <1> QED
    BY <1>2, <1>3, <1>4, <1>5, <1>6, <1>7, StartOwes, SkipOwes, CallOwes, StepBackOwes
       DEF Next

-------------------------------------------------------------------------------
(* The theorems about the list *)

\* What the code relies on: the timers of the list are in the order of their making,
\* their milliseconds are less than a second, the scan of processTimeEvents stays in
\* the list, and maxfd and the masks are what the table can hold.
THEOREM TypeCorrect == Spec => []TypeOK
  <1>1. Init => DispatchInv
    BY TableInit
  <1>2. LoopInv /\ DispatchInv /\ PassInv => TypeOK
    <2> SUFFICES ASSUME LoopInv, DispatchInv, PassInv PROVE TypeOK
      OBVIOUS
    <2>1. timers \in Seq(TimerSet)
      BY DEF LoopInv
    <2>2. ASSUME NEW i \in 1 .. Len(timers)
          PROVE  /\ timers[i].when.sec \in Nat /\ timers[i].when.ms \in 0 .. MsPerSec - 1
                 /\ timers[i].id \in 0 .. timeEventNextId - 1
                 /\ \A j \in 1 .. i - 1 : timers[i].id < timers[j].id
      <3>1. timers[i].when \in Times
        BY <2>1 DEF TimerSet
      <3> QED
        BY <3>1 DEF Times, PassInv, Ordered
    <2>3. /\ table.events \in
               [Fds -> [r : {"none", "connected", "readable"},
                        w : {"none", "connected", "writeable"}]]
          /\ table.maxfd \in Fds \cup {-1} /\ table.polled \subseteq Fds
      <3>1. table \in [events : [Fds -> EventType], maxfd : Fds \cup {-1},
                       polled : SUBSET Fds]
        BY DEF DispatchInv, TableType
      <3>2. table.events \in [Fds -> EventType]
        BY <3>1
      <3> QED
        BY <3>1, <3>2 DEF EventType
    <2>4. /\ clock \in Nat /\ lastTime \in Nat /\ sleepFrom \in Nat
          /\ te \in 1 .. Len(timers) + 1
          /\ pc \in {"create", "poll", "sleep", "files", "write", "times", "exit"}
      BY DEF LoopInv, PassInv
    <2> QED
      BY <2>2, <2>3, <2>4 DEF TypeOK
  <1> QED
    BY <1>1, <1>2, InvInit, InvNext, DispatchKeeps, PassInit, PassNext, PTL DEF Spec

\* processTimeEvents calls every timer that was due when the pass began, although its
\* handlers put timers at the head of the list, take them out and move them behind
\* its back: for any list and any delays, whenever the clock is set back.
THEOREM PassesAreThorough == Spec => []PassIsThorough
  <1>1. PassInv => PassIsThorough
    BY DEF PassInv, PassIsThorough
  <1> QED
    BY <1>1, InvInit, InvNext, PassInit, PassNext, PTL DEF Spec
===============================================================================
