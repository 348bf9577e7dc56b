---------------------------- MODULE RatePacerProofs ----------------------------
(* The properties of RatePacer, for every rate, pipeline and timer period.   *)
EXTENDS RatePacer, TLAPS

(***************************************************************************)
(* Whatever is in flight was begun when it was due: the latency is         *)
(* corrected to a time that is not after the time it is measured from.     *)
(***************************************************************************)
StartInv ==
    (inFlight > 0 \/ has_pending) =>
        /\ ExpectedStart <= actual_latency_start
        /\ actual_latency_start <= now

Inv == TypeOK /\ StartInv

(***************************************************************************)
(* One thing at a time, when sockets are lost only with a batch in flight: *)
(* the connection is writable, or waits on one timer, or has a batch in    *)
(* flight whose unanswered requests `pending' counts.                      *)
(***************************************************************************)
OneThing ==
    ~idleLost =>
        /\ inFlight > 0 => ~writable /\ timers = {} /\ pending = inFlight
        /\ writable => timers = {}
        /\ \A t, u \in timers : t = u

\* The schedule and the catch-up schedule, when the batch in flight was sent.
SentInv == NeverAhead /\ CatchUpIsBounded

-------------------------------------------------------------------------------
\* A quotient is rounded down to an integer.
LEMMA Quotient ==
    ASSUME NEW a \in Int, NEW b \in Nat \ {0}
    PROVE  a \div b \in Int /\ (a >= 0 => a \div b >= 0)
  OBVIOUS

\* The two schedules are integers, and for a count of responses naturals.
LEMMA Schedules ==
    ASSUME NEW n \in Int
    PROVE  /\ Paced(n) \in Int /\ CaughtUp(n) \in Int
           /\ n \in Nat => Paced(n) \in Nat
  <1>1. PNum \in Nat \ {0} /\ PDen \in Nat \ {0} /\ 2 * PDen \in Nat \ {0}
    BY PacerAssumption
  <1>2. n * PNum \in Int /\ (n \in Nat => n * PNum >= 0)
    <2>1. CASE n \in Nat
      <3>1. \A x, y \in Nat : x * y \in Nat
        OBVIOUS
      <3> QED BY <1>1, <2>1, <3>1
    <2>2. CASE n \notin Nat
      BY <1>1, <2>2
    <2> QED BY <2>1, <2>2
  <1>3. (n * PNum) \div PDen \in Int /\ (n * PNum >= 0 => (n * PNum) \div PDen >= 0)
    BY <1>1, <1>2, Quotient
  <1>4. (n * PNum) \div (2 * PDen) \in Int
    BY <1>1, <1>2, Quotient
  <1> QED
    BY <1>2, <1>3, <1>4 DEF Paced, CaughtUp

\* A request is sent only when it is due, by its schedule and, while behind, by
\* the catch-up schedule.
LEMMA SentWhenDue ==
    ASSUME TypeOK, UsecToNextSend = 0
    PROVE  /\ ~OnPace
           /\ Scheduled(complete) <= now
           /\ CatchUpStart + CaughtUp(complete - CatchUpComplete) <= now
  <1>1. Scheduled(complete) \in Int /\ now \in Int
    BY PacerAssumption, Schedules DEF TypeOK, Scheduled
  <1>2. ~OnPace
    BY <1>1 DEF UsecToNextSend, NextStart, OnPace
  <1>3. Scheduled(complete) <= now
    BY <1>1, <1>2 DEF OnPace
  <1>4. CatchUpStart \in Int /\ CatchUpComplete \in Int /\ complete \in Int
    BY DEF TypeOK, CatchUpStart, CatchUpComplete
  <1>5. CaughtUp(complete - CatchUpComplete) \in Int
    BY <1>4, Schedules
  <1>6. NextStart = CatchUpStart + CaughtUp(complete - CatchUpComplete)
    BY <1>2 DEF NextStart
  <1>7. NextStart <= now
    BY <1>1, <1>4, <1>5, <1>6 DEF UsecToNextSend
  <1> QED
    BY <1>2, <1>3, <1>6, <1>7

\* A wait that is not zero sets a timer to a natural.
LEMMA TimerIsNat ==
    ASSUME TypeOK, UsecToNextSend > 0
    PROVE  TimerFor(UsecToNextSend) \in Nat
  <1>1. Scheduled(complete) \in Int /\ now \in Nat
    BY PacerAssumption, Schedules DEF TypeOK, Scheduled
  <1>2. CatchUpStart \in Int /\ CatchUpComplete \in Int /\ complete \in Int
    BY DEF TypeOK, CatchUpStart, CatchUpComplete
  <1>3. CaughtUp(complete - CatchUpComplete) \in Int
    BY <1>2, Schedules
  <1>4. NextStart \in Int
    BY <1>1, <1>2, <1>3 DEF NextStart
  <1>5. UsecToNextSend \in Nat
    BY <1>1, <1>4 DEF UsecToNextSend
  <1>6. TicksPerMs \in Nat \ {0}
    BY PacerAssumption
  <1>7. now \div TicksPerMs \in Nat /\ UsecToNextSend \div TicksPerMs \in Nat
    BY <1>1, <1>5, <1>6, Quotient
  <1>8. \A x, y \in Nat : x * y \in Nat
    OBVIOUS
  <1> QED
    BY <1>6, <1>7, <1>8 DEF TimerFor

-------------------------------------------------------------------------------
\* Pace keeps the types of the variables it assigns.
LEMMA PaceTypes ==
    ASSUME TypeOK, Pace
    PROVE  /\ caught_up' \in BOOLEAN
           /\ catch_up_start_time' \in Nat /\ complete_at_catch_up_start' \in Nat
  <1>1. caught_up' \in BOOLEAN
    <2>1. caught_up' = OnPace
      BY DEF Pace
    <2>2. OnPace \in BOOLEAN
      BY DEF OnPace
    <2> QED
      BY <2>1, <2>2
  <1>2. CatchUpStart \in Nat /\ CatchUpComplete \in Nat
    BY DEF TypeOK, CatchUpStart, CatchUpComplete
  <1>3. catch_up_start_time' \in Nat /\ complete_at_catch_up_start' \in Nat
    BY <1>2 DEF TypeOK, Pace
  <1> QED
    BY <1>1, <1>3

\* The batch is begun, or begun again, when it is due; nothing else moves the
\* start of its latency.
LEMMA BatchStarts ==
    ASSUME Inv, Send
    PROVE  StartInv'
  <1>1. Scheduled(complete) <= now
    BY SentWhenDue DEF Inv, Send
  <1>2. now' = now
    BY DEF Send
  <1>3. CASE has_pending
    <2>1. UNCHANGED <<actual_latency_start, complete_at_last_batch_start>>
      BY <1>3 DEF Send, StartBatch
    <2> QED
      BY <1>2, <1>3, <2>1 DEF Inv, StartInv, ExpectedStart, Scheduled, Paced
  <1>4. CASE ~has_pending
    <2>1. actual_latency_start' = now /\ complete_at_last_batch_start' = complete
      BY <1>4 DEF Send, StartBatch
    <2> QED
      BY <1>1, <1>2, <2>1 DEF Inv, TypeOK, StartInv, ExpectedStart, Scheduled, Paced
  <1> QED
    BY <1>3, <1>4

LEMMA InvInit == Init => Inv
  <1> SUFFICES ASSUME Init PROVE Inv
    OBVIOUS
  <1>1. TypeOK
    <2>1. writable \in BOOLEAN /\ caught_up \in BOOLEAN /\ has_pending \in BOOLEAN
      BY Zenon DEF Init
    <2>2. timers \subseteq Nat
      BY DEF Init
    <2>3. now \in Nat /\ 0 \in Nat /\ 0 \in 0 .. MaxPending
      BY PacerAssumption DEF Init
    <2> QED
      BY <2>1, <2>2, <2>3, Zenon DEF Init, TypeOK
  <1>2. StartInv
    BY DEF Init, StartInv
  <1> QED
    BY <1>1, <1>2 DEF Inv

LEMMA InvNext == Inv /\ [Next]_vars => Inv'
  <1> SUFFICES ASSUME Inv, [Next]_vars PROVE Inv'
    OBVIOUS
  <1> USE PacerAssumption
  <1>0. TypeOK /\ StartInv
    BY DEF Inv
  <1>a. peer' = peer
    BY DEF Next, vars
  <1>1. CASE Wait
    <2>1. TimerFor(UsecToNextSend) \in Nat
      BY <1>0, <1>1, TimerIsNat DEF Wait
    <2>2. TypeOK'
      BY <1>0, <1>a, <1>1, <2>1, PaceTypes DEF Wait, batch, TypeOK
    <2>3. StartInv'
      BY <1>0, <1>1 DEF Wait, batch, StartInv, ExpectedStart, Scheduled, Paced
    <2> QED
      BY <2>2, <2>3 DEF Inv
  <1>2. CASE Send
    <2>1. now \in Nat /\ complete \in Nat /\ inFlight \in Nat
      BY <1>0 DEF TypeOK
    <2>2. actual_latency_start' \in Nat /\ complete_at_last_batch_start' \in Nat
      BY <1>0, <1>2, <2>1 DEF Send, StartBatch, TypeOK
    <2>3. inFlight' \in Nat /\ pending' \in 0 .. MaxPending
      BY <1>2, <2>1 DEF Send, StartBatch
    <2>4. /\ now' \in Nat /\ complete' \in Nat /\ timers' \subseteq Nat
          /\ writable' \in BOOLEAN /\ has_pending' \in BOOLEAN
      BY <1>0, <1>2, <2>1 DEF Send, StartBatch, TypeOK
    <2>5. TypeOK'
      BY <1>0, <1>a, <1>2, <2>2, <2>3, <2>4, PaceTypes, Zenon DEF Send, TypeOK
    <2> QED
      BY <1>2, <2>5, BatchStarts DEF Inv
  <1>3. CASE Respond
    <2>1. LessPending \in 0 .. MaxPending
      BY <1>0 DEF TypeOK, LessPending
    <2>2. has_pending' \in BOOLEAN /\ writable' \in BOOLEAN
      BY <1>0, <1>3, Zenon DEF Respond, TypeOK
    <2>3. caught_up' \in BOOLEAN
      BY <1>0, <1>3, Zenon DEF Respond, pacing, TypeOK
    <2>4. TypeOK'
      BY <1>0, <1>a, <1>3, <2>1, <2>2, <2>3 DEF Respond, pacing, TypeOK
    <2>5. (inFlight' > 0 \/ has_pending') => (inFlight > 0 \/ has_pending)
      BY <1>0, <1>3 DEF Respond, TypeOK
    <2>6. StartInv'
      BY <1>0, <1>3, <2>5 DEF Respond, StartInv, ExpectedStart, Scheduled, Paced
    <2> QED
      BY <2>4, <2>6 DEF Inv
  <1>4. CASE Reconnect
    <2>1. TypeOK'
      BY <1>0, <1>a, <1>4 DEF Reconnect, pacing, batch, TypeOK
    <2>2. (inFlight' > 0 \/ has_pending') => (inFlight > 0 \/ has_pending)
      BY <1>0, <1>4 DEF Reconnect, batch, TypeOK
    <2>3. StartInv'
      BY <1>0, <1>4, <2>2 DEF Reconnect, batch, StartInv, ExpectedStart, Scheduled, Paced
    <2> QED
      BY <2>1, <2>3 DEF Inv
  <1>5. CASE Tick
    <2>1. TypeOK'
      BY <1>0, <1>a, <1>5 DEF Tick, conn, pacing, batch, TypeOK
    <2>2. StartInv'
      BY <1>0, <1>5 DEF Tick, conn, batch, TypeOK, StartInv, ExpectedStart, Scheduled, Paced
    <2> QED
      BY <2>1, <2>2 DEF Inv
  <1>6. CASE UNCHANGED vars
    <2>1. TypeOK'
      BY <1>0, <1>a, <1>6 DEF vars, conn, pacing, batch, TypeOK
    <2>2. StartInv'
      BY <1>0, <1>6 DEF vars, conn, pacing, batch, StartInv, ExpectedStart, Scheduled, Paced
    <2> QED
      BY <2>1, <2>2 DEF Inv
  <1>7. CASE \E t \in timers : DelayRequest(t)
    <2>1. PICK t \in timers : DelayRequest(t)
      BY <1>7
    <2>2. timers' \subseteq Nat
      BY <1>0, <2>1, TimerIsNat DEF DelayRequest, TypeOK
    <2>3. TypeOK'
      BY <1>0, <1>a, <2>1, <2>2, PaceTypes DEF DelayRequest, batch, TypeOK
    <2>4. StartInv'
      BY <1>0, <2>1 DEF DelayRequest, batch, StartInv, ExpectedStart, Scheduled, Paced
    <2> QED
      BY <2>3, <2>4 DEF Inv
  <1> QED
    BY <1>1, <1>2, <1>3, <1>4, <1>5, <1>6, <1>7 DEF Next, Done

\* Every variable keeps its type, whatever is lost, and however long the run.
THEOREM TypeCorrect == Spec => []TypeOK
  <1>1. Inv => TypeOK
    BY DEF Inv
  <1> QED
    BY InvInit, InvNext, <1>1, PTL DEF Spec

\* The correction for coordinated omission never flatters the server: for every
\* rate, pipeline and timer period, with sockets lost at any time, the corrected
\* latency of a response is at least its uncorrected one, which is not negative.
THEOREM CorrectionIsSafe == Spec => []CorrectionNeverGifts
  <1>1. Inv => CorrectionNeverGifts
    <2> SUFFICES ASSUME Inv, inFlight > 0
                 PROVE  /\ CorrectedLatency >= UncorrectedLatency
                        /\ UncorrectedLatency >= 0
      BY DEF CorrectionNeverGifts
    <2>1. now \in Int /\ actual_latency_start \in Int
      BY DEF Inv, TypeOK
    <2>2. ExpectedStart \in Int
      BY PacerAssumption, Schedules DEF Inv, TypeOK, ExpectedStart, Scheduled
    <2>3. ExpectedStart <= actual_latency_start /\ actual_latency_start <= now
      BY DEF Inv, StartInv
    <2> QED
      BY <2>1, <2>2, <2>3 DEF CorrectedLatency, UncorrectedLatency
  <1> QED
    BY InvInit, InvNext, <1>1, PTL DEF Spec

-------------------------------------------------------------------------------
LEMMA StartedInt == TypeOK => Started \in Int
  BY PacerAssumption DEF Started, TypeOK

\* While nothing changes what is complete, in flight or known of the catch-up
\* period, and no time is taken back, what was sent stays within its bounds.
LEMMA SentFrame ==
    ASSUME TypeOK, TypeOK', SentInv, ~idleLost, now' >= now,
           inFlight' > 0 => inFlight > 0 /\ Started' = Started,
           UNCHANGED pacing
    PROVE  SentInv'
  <1> USE PacerAssumption
  <1> SUFFICES ASSUME inFlight' > 0 PROVE SentInv'
    BY DEF SentInv, NeverAhead, CatchUpIsBounded
  <1>1. Started' = Started /\ Started \in Int
    BY StartedInt
  <1>2. Scheduled(Started)' = Scheduled(Started) /\ Scheduled(Started) \in Int
    BY <1>1, Schedules DEF Scheduled, Paced
  <1>3. NeverAhead'
    BY <1>2 DEF SentInv, NeverAhead, TypeOK
  <1>4. ASSUME ~caught_up' PROVE CatchUpIsBounded'
    <2>1. /\ catch_up_start_time' = catch_up_start_time
          /\ complete_at_catch_up_start' = complete_at_catch_up_start
          /\ caught_up' = caught_up
      BY DEF pacing
    <2>2. CaughtUp(Started - complete_at_catch_up_start) \in Int
      BY <1>1, Schedules DEF TypeOK
    <2>3. CaughtUp(Started - complete_at_catch_up_start)
            <= now - catch_up_start_time
      BY <1>4, <2>1 DEF SentInv, CatchUpIsBounded
    <2>4. CaughtUp(Started - complete_at_catch_up_start)'
            = CaughtUp(Started - complete_at_catch_up_start)
      BY <1>1, <2>1 DEF CaughtUp
    <2>5. CaughtUp(Started - complete_at_catch_up_start)'
            <= now' - catch_up_start_time'
      BY <2>1, <2>2, <2>3, <2>4 DEF TypeOK
    <2> QED
      BY <2>5 DEF CatchUpIsBounded
  <1>5. CASE caught_up'
    BY <1>3, <1>5 DEF SentInv, CatchUpIsBounded
  <1> QED
    BY <1>3, <1>4, <1>5 DEF SentInv

\* A batch sent with nothing in flight is within both bounds.
LEMMA SentBySchedule ==
    ASSUME TypeOK, Send, inFlight = 0
    PROVE  SentInv'
  <1> USE PacerAssumption
  <1>1. /\ now' = now /\ Started' = complete
    BY DEF Send, Started, TypeOK
  <1>2. Scheduled(complete) <= now /\ ~OnPace
        /\ CatchUpStart + CaughtUp(complete - CatchUpComplete) <= now
    BY SentWhenDue DEF Send
  <1>3. NeverAhead'
    BY <1>1, <1>2 DEF NeverAhead, Scheduled, Paced
  <1>4. catch_up_start_time' = CatchUpStart
        /\ complete_at_catch_up_start' = CatchUpComplete
    BY <1>2 DEF Send, Pace
  <1>5. CaughtUp(Started - complete_at_catch_up_start)'
          = CaughtUp(complete - CatchUpComplete)
    BY <1>1, <1>4 DEF CaughtUp
  <1>6. CatchUpStart \in Int /\ CatchUpComplete \in Int
        /\ complete \in Int /\ now \in Int
    BY DEF TypeOK, CatchUpStart, CatchUpComplete
  <1>7. CaughtUp(complete - CatchUpComplete) \in Int
    BY <1>6, Schedules
  <1>8. CaughtUp(complete - CatchUpComplete) <= now - CatchUpStart
    BY <1>2, <1>6, <1>7
  <1>9. CatchUpIsBounded'
    BY <1>1, <1>4, <1>5, <1>8 DEF CatchUpIsBounded
  <1> QED
    BY <1>3, <1>9 DEF SentInv

\* A loss is remembered.
LEMMA LossIsRemembered ==
    ASSUME TypeOK, [Next]_vars, ~idleLost'
    PROVE  ~idleLost
  <1>1. CASE Reconnect
    BY <1>1, Zenon DEF Reconnect
  <1>2. CASE ~Reconnect
    <2>1. idleLost' = idleLost
      BY <1>2, Zenon DEF Next, Wait, Send, Respond, Tick, Done, DelayRequest, vars, conn
    <2> QED
      BY <2>1
  <1> QED
    BY <1>1, <1>2

LEMMA OneThingNext ==
    ASSUME TypeOK, OneThing, [Next]_vars
    PROVE  OneThing'
  <1> SUFFICES ASSUME ~idleLost' PROVE OneThing'
    BY DEF OneThing
  <1>0. ~idleLost
    BY LossIsRemembered
  <1> USE PacerAssumption, <1>0
  <1>1. CASE Wait
    BY <1>1 DEF OneThing, Wait, TypeOK
  <1>2. CASE Send
    BY <1>2 DEF OneThing, Send, StartBatch, TypeOK
  <1>3. CASE Respond
    <2>1. ~writable /\ timers = {} /\ pending = inFlight /\ timers' = {}
      BY <1>3 DEF OneThing, Respond
    <2>2. LessPending = inFlight - 1 /\ inFlight' = inFlight - 1
      BY <1>3, <2>1 DEF Respond, LessPending, TypeOK
    <2>3. inFlight' > 0 => LessPending # 0
      BY <2>2 DEF TypeOK
    <2>4. inFlight' > 0 => ~writable'
      BY <1>3, <2>1, <2>3, Zenon DEF Respond
    <2>5. pending' = inFlight'
      BY <1>3, <2>2 DEF Respond
    <2> QED
      BY <2>1, <2>4, <2>5 DEF OneThing
  <1>4. CASE Reconnect
    <2>1. inFlight # 0
      BY <1>4, Zenon DEF Reconnect
    <2>2. timers = {} /\ timers' = timers
      BY <1>4, <2>1 DEF OneThing, Reconnect, TypeOK
    <2>3. ~(inFlight' > 0)
      BY <1>4 DEF Reconnect
    <2> QED
      BY <2>2, <2>3 DEF OneThing
  <1>5. CASE Tick
    BY <1>5 DEF OneThing, Tick, conn, batch, TypeOK
  <1>6. CASE UNCHANGED vars
    BY <1>6 DEF OneThing, vars, conn, batch
  <1>7. CASE \E t \in timers : DelayRequest(t)
    <2>1. PICK t \in timers : DelayRequest(t)
      BY <1>7
    <2>2. timers = {t} /\ timers \ {t} = {}
      BY <2>1 DEF OneThing
    <2>3. ~(inFlight > 0) /\ inFlight' = inFlight /\ ~writable
      BY <2>1, <2>2 DEF OneThing, DelayRequest
    <2>4. CASE UsecToNextSend > 0
      BY <2>1, <2>2, <2>3, <2>4 DEF OneThing, DelayRequest
    <2>5. CASE ~(UsecToNextSend > 0)
      BY <2>1, <2>2, <2>3, <2>5 DEF OneThing, DelayRequest
    <2> QED
      BY <2>4, <2>5
  <1> QED
    BY <1>1, <1>2, <1>3, <1>4, <1>5, <1>6, <1>7 DEF Next, Done

LEMMA SentNext ==
    ASSUME TypeOK, TypeOK', OneThing, SentInv, [Next]_vars
    PROVE  SentInv'
  <1> SUFFICES ASSUME ~idleLost' PROVE SentInv'
    BY DEF SentInv, NeverAhead, CatchUpIsBounded
  <1>0. ~idleLost
    BY LossIsRemembered
  <1> USE PacerAssumption, <1>0
  <1>1. CASE Wait
    <2>1. ~(inFlight' > 0)
      BY <1>1 DEF OneThing, Wait, TypeOK
    <2> QED
      BY <2>1 DEF SentInv, NeverAhead, CatchUpIsBounded
  <1>2. CASE Send
    <2>1. inFlight = 0
      BY <1>2 DEF OneThing, Send, TypeOK
    <2> QED
      BY <1>2, <2>1, SentBySchedule
  <1>3. CASE Respond
    <2>1. Started' = Started /\ inFlight > 0 /\ now' >= now
      BY <1>3 DEF Respond, TypeOK, Started
    <2> QED
      BY <1>3, <2>1, SentFrame DEF Respond
  <1>4. CASE Reconnect
    <2>1. ~(inFlight' > 0)
      BY <1>4 DEF Reconnect
    <2> QED
      BY <2>1 DEF SentInv, NeverAhead, CatchUpIsBounded
  <1>5. CASE Tick
    <2>1. Started' = Started /\ now' >= now
          /\ inFlight' = inFlight
      BY <1>5 DEF Tick, conn, TypeOK, Started
    <2> QED
      BY <1>5, <2>1, SentFrame DEF Tick
  <1>6. CASE UNCHANGED vars
    <2>1. Started' = Started /\ now' >= now
          /\ inFlight' = inFlight
      BY <1>6 DEF vars, conn, TypeOK, Started
    <2> QED
      BY <1>6, <2>1, SentFrame DEF vars
  <1>7. CASE \E t \in timers : DelayRequest(t)
    <2>1. ~(inFlight' > 0)
      BY <1>7 DEF OneThing, DelayRequest, TypeOK
    <2> QED
      BY <2>1 DEF SentInv, NeverAhead, CatchUpIsBounded
  <1> QED
    BY <1>1, <1>2, <1>3, <1>4, <1>5, <1>6, <1>7 DEF Next, Done

\* What is sent keeps to both schedules.
LEMMA SentInvariant == Spec => [](NeverAhead /\ CatchUpIsBounded)
  <1> DEFINE All == Inv /\ OneThing /\ SentInv
  <1>1. Init => All
    <2> SUFFICES ASSUME Init PROVE All
      OBVIOUS
    <2>1. Inv
      BY InvInit
    <2>2. OneThing /\ SentInv
      BY DEF Init, OneThing, SentInv, NeverAhead, CatchUpIsBounded
    <2> QED
      BY <2>1, <2>2
  <1>2. All /\ [Next]_vars => All'
    <2> SUFFICES ASSUME All, [Next]_vars PROVE All'
      OBVIOUS
    <2>1. Inv'
      BY InvNext
    <2>2. OneThing' /\ SentInv'
      BY <2>1, OneThingNext, SentNext DEF Inv
    <2> QED
      BY <2>1, <2>2
  <1>3. All => NeverAhead /\ CatchUpIsBounded
    BY DEF SentInv
  <1> QED
    BY <1>1, <1>2, <1>3, PTL DEF Spec

\* The rate is never exceeded: as long as sockets are lost only with a batch in
\* flight, every batch on the wire was due by the schedule when it was sent, for
\* every rate, pipeline and timer period.
THEOREM RateIsKept == Spec => []NeverAhead
  BY SentInvariant, PTL

\* A backlog is worked off at no more than twice the rate, from the first call that
\* found the connection behind until it has caught up, whenever sockets are lost
\* with a batch in flight.
THEOREM CatchUpIsKept == Spec => []CatchUpIsBounded
  BY SentInvariant, PTL
-------------------------------------------------------------------------------
(* The schedule against a prompt server *)

(***************************************************************************)
(* With a prompt server a connection waits, or has one batch in flight.    *)
(* One that is ahead waits for its turn, and a timer is at most one period *)
(* late; so when a catch-up period begins it is behind by one period, and  *)
(* while it lasts by no more than another one.                             *)
(***************************************************************************)
CaughtUpDue ==
    catch_up_start_time + CaughtUp(complete - complete_at_catch_up_start)

Waits ==
    /\ ~has_pending
    /\ writable \/ timers # {}
    /\ writable => now - Scheduled(complete) <= (IF caught_up THEN 1 ELSE 2) * TicksPerMs
    /\ \A t \in timers :
         /\ now <= t
         /\ t <= TicksPerMs + (IF caught_up THEN Scheduled(complete) ELSE CaughtUpDue)

InBatch ==
    /\ ~caught_up
    /\ complete_at_last_batch_start <= complete
    /\ complete + inFlight = complete_at_last_batch_start + Pipeline
    /\ actual_latency_start <= ExpectedStart + 2 * TicksPerMs
    /\ now <= actual_latency_start + ServerTime

CatchUpInv ==
    ~caught_up =>
        /\ complete_at_catch_up_start <= complete
        /\ catch_up_start_time <= Scheduled(complete_at_catch_up_start) + TicksPerMs

PromptInv ==
    peer = "prompt" =>
              /\ ~idleLost /\ CatchUpInv
              /\ IF inFlight = 0 THEN Waits ELSE InBatch

\* A quotient is the largest number of times that the divisor fits.
LEMMA QuotientIs ==
    ASSUME NEW a \in Nat, NEW b \in Nat \ {0}
    PROVE  /\ a \div b \in Nat /\ (a \div b) * b <= a /\ a < (a \div b) * b + b
           /\ \A c \in Nat : c * b <= a => c <= a \div b
  <1> DEFINE q == a \div b
  <1>1. q \in Nat /\ q * b <= a /\ a < q * b + b
    OBVIOUS
  <1> HIDE DEF q
  <1>2. ASSUME NEW c \in Nat, c * b <= a, q < c PROVE FALSE
    <2>1. PICK d \in Nat : c = q + 1 + d
      <3>1. c - q - 1 \in Nat /\ c = q + 1 + (c - q - 1)
        BY <1>1, <1>2
      <3> QED
        BY <3>1
    <2>2. (q + 1 + d) * b = q * b + b + d * b /\ d * b \in Nat /\ q * b \in Nat
      BY <1>1
    <2> QED
      BY <1>1, <1>2, <2>1, <2>2
  <1>3. \A c \in Nat : c * b <= a => c <= q
    BY <1>1, <1>2
  <1> QED
    BY <1>1, <1>3 DEF q

LEMMA PacedIsNat ==
    ASSUME NEW n \in Nat
    PROVE  n * PNum \in Nat /\ Paced(n) \in Nat /\ CaughtUp(n) \in Nat
  <1>1. PNum \in Nat /\ PDen \in Nat \ {0} /\ 2 * PDen \in Nat \ {0}
    BY PacerAssumption
  <1>2. n * PNum \in Nat
    BY <1>1
  <1> QED
    BY <1>1, <1>2, QuotientIs DEF Paced, CaughtUp

\* Rounded down in two parts, the schedule is no later than rounded down once.
LEMMA PacedAdds ==
    ASSUME NEW m \in Nat, NEW n \in Nat
    PROVE  Paced(m) + Paced(n) <= Paced(m + n)
  <1>1. PNum \in Nat /\ PDen \in Nat \ {0}
    BY PacerAssumption
  <1>2. (m + n) * PNum = m * PNum + n * PNum
    BY <1>1
  <1>3. m * PNum \in Nat /\ n * PNum \in Nat /\ (m + n) * PNum \in Nat
    BY <1>1, <1>2, PacedIsNat
  <1>4. Paced(m) \in Nat /\ Paced(n) \in Nat /\ Paced(m) + Paced(n) \in Nat
    BY PacedIsNat
  <1>5. Paced(m) * PDen <= m * PNum /\ Paced(n) * PDen <= n * PNum
    BY <1>1, <1>3, QuotientIs DEF Paced
  <1>6. /\ (Paced(m) + Paced(n)) * PDen = Paced(m) * PDen + Paced(n) * PDen
        /\ Paced(m) * PDen \in Nat /\ Paced(n) * PDen \in Nat
    BY <1>1, <1>4
  <1>7. (Paced(m) + Paced(n)) * PDen <= (m + n) * PNum
    BY <1>2, <1>3, <1>5, <1>6
  <1> QED
    BY <1>1, <1>3, <1>4, <1>7, QuotientIs DEF Paced

\* A catch-up is no slower than the schedule.
LEMMA CatchUpIsFaster ==
    ASSUME NEW n \in Nat
    PROVE  CaughtUp(n) <= Paced(n)
  <1>1. PDen \in Nat \ {0} /\ 2 * PDen \in Nat \ {0}
    BY PacerAssumption
  <1>2. n * PNum \in Nat /\ CaughtUp(n) \in Nat
    BY PacedIsNat
  <1>3. CaughtUp(n) * (2 * PDen) <= n * PNum
    BY <1>1, <1>2, QuotientIs DEF CaughtUp
  <1>4. /\ CaughtUp(n) * (2 * PDen) = CaughtUp(n) * PDen + CaughtUp(n) * PDen
        /\ CaughtUp(n) * PDen \in Nat
    BY <1>1, <1>2
  <1>5. CaughtUp(n) * PDen <= n * PNum
    BY <1>2, <1>3, <1>4
  <1> QED
    BY <1>1, <1>2, <1>5, QuotientIs DEF Paced

LEMMA NextStartIsInt == TypeOK => NextStart \in Int
  <1> SUFFICES ASSUME TypeOK PROVE NextStart \in Int
    OBVIOUS
  <1>1. Scheduled(complete) \in Int
    BY PacerAssumption, Schedules DEF TypeOK, Scheduled
  <1>2. CatchUpStart \in Int /\ CatchUpComplete \in Int /\ complete \in Int
    BY DEF TypeOK, CatchUpStart, CatchUpComplete
  <1>3. CaughtUp(complete - CatchUpComplete) \in Int
    BY <1>2, Schedules
  <1> QED
    BY <1>1, <1>2, <1>3 DEF NextStart

\* A timer fires later than now, and no more than a period after what it waits for.
LEMMA TimerIsNear ==
    ASSUME TypeOK, UsecToNextSend > 0
    PROVE  /\ TimerFor(UsecToNextSend) \in Nat /\ NextStart \in Int
           /\ now < TimerFor(UsecToNextSend)
           /\ TimerFor(UsecToNextSend) <= NextStart + TicksPerMs
  <1> DEFINE u == NextStart - now
             M == TicksPerMs
  <1>1. now \in Nat /\ M \in Nat \ {0}
    BY PacerAssumption DEF TypeOK
  <1>2. NextStart \in Int
    BY NextStartIsInt
  <1>3. UsecToNextSend = u /\ u \in Nat
    BY <1>1, <1>2 DEF UsecToNextSend
  <1>4. /\ now \div M \in Nat /\ (now \div M) * M <= now /\ now < (now \div M) * M + M
        /\ u \div M \in Nat /\ (u \div M) * M <= u
    BY <1>1, <1>3, QuotientIs
  <1>5. /\ (u \div M + 1) * M = (u \div M) * M + M
        /\ (u \div M) * M \in Nat /\ (now \div M) * M \in Nat
    BY <1>1, <1>4
  <1>6. TimerFor(UsecToNextSend) = (now \div M) * M + (u \div M + 1) * M
    BY <1>3 DEF TimerFor
  <1>7. NextStart = now + u
    BY <1>1, <1>2
  <1> HIDE DEF u, M
  <1>8. /\ TimerFor(UsecToNextSend) \in Nat
        /\ now < TimerFor(UsecToNextSend)
        /\ TimerFor(UsecToNextSend) <= now + u + M
    BY <1>1, <1>3, <1>4, <1>5, <1>6
  <1> QED
    BY <1>2, <1>7, <1>8 DEF M

\* While catching up, the next batch is due no more than a period behind the schedule.
LEMMA CaughtUpIsNear ==
    ASSUME TypeOK, CatchUpInv, ~caught_up
    PROVE  /\ CaughtUpDue \in Nat /\ Scheduled(complete) \in Nat
           /\ CaughtUpDue <= Scheduled(complete) + TicksPerMs
  <1> DEFINE n == complete_at_catch_up_start
             d == complete - n
  <1>1. complete \in Nat /\ n \in Nat /\ d \in Nat /\ n + d = complete
    BY DEF CatchUpInv, TypeOK
  <1>2. Paced(n) + Paced(d) <= Paced(complete)
    BY <1>1, PacedAdds
  <1>3. CaughtUp(d) <= Paced(d)
    BY <1>1, CatchUpIsFaster
  <1>4. /\ Paced(n) \in Nat /\ Paced(d) \in Nat /\ Paced(complete) \in Nat
        /\ CaughtUp(d) \in Nat
    BY <1>1, PacedIsNat
  <1>5. catch_up_start_time <= ThreadStart + Paced(n) + TicksPerMs
    BY DEF CatchUpInv, Scheduled
  <1>6. CaughtUpDue = catch_up_start_time + CaughtUp(d)
    BY DEF CaughtUpDue
  <1>7. /\ catch_up_start_time \in Nat /\ ThreadStart \in Nat /\ TicksPerMs \in Nat
        /\ Scheduled(complete) = ThreadStart + Paced(complete)
    BY PacerAssumption DEF TypeOK, Scheduled
  <1> HIDE DEF n, d
  <1> QED
    BY <1>2, <1>3, <1>4, <1>5, <1>6, <1>7

\* A call of usec_to_next_send that is at most one period behind when it begins a
\* catch-up; what it waits for is due as the variables say after it.
LEMMA PaceKeeps ==
    ASSUME TypeOK, CatchUpInv, Pace, complete' = complete,
           caught_up => now <= Scheduled(complete) + TicksPerMs
    PROVE  /\ CatchUpInv'
           /\ NextStart = IF caught_up' THEN Scheduled(complete) ELSE CaughtUpDue'
           /\ Scheduled(complete)' = Scheduled(complete)
  <1>1. caught_up' = OnPace
    BY DEF Pace
  <1>2. Scheduled(complete)' = Scheduled(complete)
    BY DEF Scheduled, Paced
  <1>3. CASE OnPace
    BY <1>1, <1>2, <1>3 DEF CatchUpInv, NextStart
  <1>4. CASE ~OnPace
    <2>1. catch_up_start_time' = CatchUpStart
          /\ complete_at_catch_up_start' = CatchUpComplete
      BY <1>4 DEF Pace
    <2>2. CaughtUpDue' = CatchUpStart + CaughtUp(complete - CatchUpComplete)
      BY <2>1 DEF CaughtUpDue, CaughtUp
    <2>3. Scheduled(complete_at_catch_up_start)' = Scheduled(CatchUpComplete)
      BY <2>1 DEF Scheduled, Paced
    <2>4. /\ CatchUpComplete <= complete
          /\ CatchUpStart <= Scheduled(CatchUpComplete) + TicksPerMs
      BY DEF CatchUpInv, CatchUpComplete, CatchUpStart, TypeOK
    <2>5. CatchUpInv'
      BY <2>1, <2>3, <2>4 DEF CatchUpInv
    <2> QED
      BY <1>1, <1>2, <1>4, <2>2, <2>5 DEF NextStart
  <1> QED
    BY <1>3, <1>4

\* A wait, from the connection's handler or again from its timer.
LEMMA WaitsAgain ==
    ASSUME TypeOK, CatchUpInv, Pace, UsecToNextSend > 0,
           complete' = complete, now' = now, has_pending' = has_pending, ~has_pending,
           caught_up => now <= Scheduled(complete) + TicksPerMs,
           ~writable', timers' = {TimerFor(UsecToNextSend)}
    PROVE  Waits' /\ CatchUpInv'
  <1> DEFINE T == TimerFor(UsecToNextSend)
  <1>1. /\ T \in Nat /\ NextStart \in Int /\ now < T /\ T <= NextStart + TicksPerMs
    BY TimerIsNear
  <1>2. /\ CatchUpInv'
        /\ NextStart = IF caught_up' THEN Scheduled(complete) ELSE CaughtUpDue'
        /\ Scheduled(complete)' = Scheduled(complete)
    BY PaceKeeps
  <1>3. timers' = {T}
    OBVIOUS
  <1> HIDE DEF T
  <1>4. now \in Nat /\ TicksPerMs \in Nat
    BY PacerAssumption DEF TypeOK
  <1>5. now <= T
    BY <1>1, <1>4
  <1>6. T <= TicksPerMs + (IF caught_up' THEN Scheduled(complete)' ELSE CaughtUpDue')
    BY <1>1, <1>2, <1>4
  <1> QED
    BY <1>2, <1>3, <1>5, <1>6 DEF Waits

\* A connection that has waited for its turn is at most two periods late.
LEMMA LateByTwo ==
    ASSUME TypeOK, CatchUpInv, NEW t \in timers, t = now, Waits
    PROVE  now <= Scheduled(complete) + 2 * TicksPerMs
  <1>1. t <= TicksPerMs + (IF caught_up THEN Scheduled(complete) ELSE CaughtUpDue)
    BY DEF Waits
  <1>2. now \in Nat /\ TicksPerMs \in Nat /\ Scheduled(complete) \in Nat
    BY PacerAssumption, PacedIsNat DEF TypeOK, Scheduled
  <1>3. CASE caught_up
    BY <1>1, <1>2, <1>3
  <1>4. CASE ~caught_up
    BY <1>1, <1>2, <1>4, CaughtUpIsNear
  <1> QED
    BY <1>3, <1>4

LEMMA PromptInit == Init => PromptInv
  <1> SUFFICES ASSUME Init PROVE PromptInv
    OBVIOUS
  <1>1. 0 * PNum = 0 /\ Scheduled(0) \in Nat /\ ThreadStart <= Scheduled(0)
    BY PacerAssumption, PacedIsNat DEF Scheduled
  <1>2. now - Scheduled(complete) <= 1 * TicksPerMs
    BY <1>1, PacerAssumption DEF Init
  <1>3. Waits
    BY <1>2 DEF Init, Waits
  <1> QED
    BY <1>3 DEF Init, PromptInv, CatchUpInv

\* A server that answers a batch within the time of one keeps the connection's place
\* in the schedule.
LEMMA PromptNext ==
    ASSUME ServerTime <= Paced(Pipeline), TypeOK, OneThing, PromptInv, [Next]_vars
    PROVE  PromptInv'
  <1>p. peer' = peer
    BY DEF Next, vars
  <1> SUFFICES ASSUME peer = "prompt" PROVE PromptInv'
    BY <1>p DEF PromptInv
  <1>0. ~idleLost /\ CatchUpInv /\ (IF inFlight = 0 THEN Waits ELSE InBatch)
    BY DEF PromptInv
  <1>a. /\ now \in Nat /\ complete \in Nat /\ inFlight \in Nat
        /\ TicksPerMs \in Nat /\ Pipeline \in Nat \ {0} /\ ServerTime \in Nat
        /\ Scheduled(complete) \in Nat
    BY PacerAssumption, PacedIsNat DEF TypeOK, Scheduled
  <1>1. CASE Wait
    <2>1. inFlight = 0 /\ timers = {} /\ Waits
      BY <1>0, <1>1, <1>a DEF OneThing, Wait
    <2>2. caught_up => now <= Scheduled(complete) + TicksPerMs
      BY <1>1, <1>a, <2>1 DEF Waits, Wait
    <2>3. /\ Pace /\ UsecToNextSend > 0 /\ ~writable' /\ now' = now
          /\ complete' = complete /\ inFlight' = inFlight
          /\ has_pending' = has_pending /\ ~idleLost'
          /\ timers' = {TimerFor(UsecToNextSend)}
      BY <1>0, <1>1, <2>1 DEF Wait, batch
    <2>4. Waits' /\ CatchUpInv'
      BY <1>0, <2>1, <2>2, <2>3, WaitsAgain DEF Waits
    <2> QED
      BY <2>1, <2>3, <2>4 DEF PromptInv
  <1>2. CASE Send
    <2>1. inFlight = 0 /\ Waits
      BY <1>0, <1>2, <1>a DEF OneThing, Send
    <2>2. /\ caught_up => now <= Scheduled(complete) + TicksPerMs
          /\ now <= Scheduled(complete) + 2 * TicksPerMs
      BY <1>2, <1>a, <2>1 DEF Waits, Send
    <2>3. /\ Pace /\ now' = now /\ complete' = complete /\ ~idleLost'
          /\ inFlight' = Pipeline
          /\ actual_latency_start' = now /\ complete_at_last_batch_start' = complete
      BY <1>0, <1>2, <1>a, <2>1 DEF Send, StartBatch, Waits
    <2>4. CatchUpInv'
      BY <1>0, <2>2, <2>3, PaceKeeps
    <2>5. ~caught_up'
      BY <1>2, SentWhenDue DEF Send, Pace
    <2>6. ExpectedStart' = Scheduled(complete)
      BY <2>3 DEF ExpectedStart, Scheduled, Paced
    <2>7. InBatch'
      BY <1>a, <2>2, <2>3, <2>5, <2>6 DEF InBatch
    <2> QED
      BY <1>a, <2>3, <2>4, <2>7 DEF PromptInv
  <1>3. CASE Respond
    <2>1. InBatch /\ ~writable /\ timers = {} /\ pending = inFlight /\ inFlight > 0
      BY <1>0, <1>3, <1>a DEF Respond, OneThing
    <2>2. /\ inFlight' = inFlight - 1 /\ complete' = complete + 1 /\ now' = now
          /\ timers' = {} /\ ~idleLost' /\ UNCHANGED pacing
          /\ actual_latency_start' = actual_latency_start
          /\ complete_at_last_batch_start' = complete_at_last_batch_start
      BY <1>0, <1>3, <2>1 DEF Respond
    <2>3. complete_at_last_batch_start \in Nat /\ actual_latency_start \in Nat
      BY DEF TypeOK
    <2>4. CatchUpInv' /\ ~caught_up'
      <3>1. /\ catch_up_start_time' = catch_up_start_time /\ caught_up' = caught_up
            /\ complete_at_catch_up_start' = complete_at_catch_up_start
        BY <2>2 DEF pacing
      <3>2. complete_at_catch_up_start \in Nat
        BY DEF TypeOK
      <3>3. complete_at_catch_up_start <= complete
            /\ catch_up_start_time <= Scheduled(complete_at_catch_up_start) + TicksPerMs
        BY <1>0, <2>1 DEF CatchUpInv, InBatch
      <3>4. Scheduled(complete_at_catch_up_start)' = Scheduled(complete_at_catch_up_start)
        BY <3>1 DEF Scheduled, Paced
      <3> QED
        BY <1>a, <2>1, <2>2, <3>1, <3>2, <3>3, <3>4 DEF CatchUpInv, InBatch
    <2>5. ExpectedStart' = ExpectedStart
      BY <2>2 DEF ExpectedStart, Scheduled, Paced
    <2>6. CASE inFlight = 1
      <3>1. LessPending = 0
        BY <2>1, <2>6 DEF LessPending
      <3>2. writable' /\ ~has_pending' /\ inFlight' = 0
        <4>1. writable' /\ ~has_pending'
          BY <1>3, <3>1, Zenon DEF Respond
        <4>2. inFlight' = 0
          BY <2>2, <2>6
        <4> QED
          BY <4>1, <4>2
      <3>3. complete' = complete_at_last_batch_start + Pipeline
        BY <1>a, <2>1, <2>2, <2>3, <2>6 DEF InBatch
      <3>4. Paced(complete_at_last_batch_start) + Paced(Pipeline)
              <= Paced(complete_at_last_batch_start + Pipeline)
        BY <1>a, <2>3, PacedAdds
      <3>5. /\ Paced(complete_at_last_batch_start) \in Nat /\ Paced(Pipeline) \in Nat
            /\ Paced(complete_at_last_batch_start + Pipeline) \in Nat
            /\ ThreadStart \in Nat
        BY <1>a, <2>3, PacedIsNat, PacerAssumption
      <3>6. /\ ExpectedStart = ThreadStart + Paced(complete_at_last_batch_start)
            /\ Scheduled(complete)' =
                 ThreadStart + Paced(complete_at_last_batch_start + Pipeline)
        BY <3>3 DEF ExpectedStart, Scheduled, Paced
      <3>7. /\ now <= actual_latency_start + ServerTime
            /\ actual_latency_start <= ExpectedStart + 2 * TicksPerMs
        BY <2>1 DEF InBatch
      <3>8. now' - Scheduled(complete)' <= 2 * TicksPerMs
        BY <1>a, <2>2, <2>3, <3>4, <3>5, <3>6, <3>7
      <3>9. Waits'
        BY <2>2, <2>4, <3>2, <3>8 DEF Waits
      <3> QED
        BY <2>2, <2>4, <3>2, <3>9 DEF PromptInv
    <2>7. CASE inFlight # 1
      <3>1. inFlight' # 0
        BY <1>a, <2>2, <2>7
      <3>2. InBatch'
        BY <1>a, <2>1, <2>2, <2>3, <2>4, <2>5 DEF InBatch
      <3> QED
        BY <2>2, <2>4, <3>1, <3>2 DEF PromptInv
    <2> QED
      BY <2>6, <2>7
  <1>4. CASE Reconnect
    BY <1>4 DEF Reconnect
  <1>5. CASE Tick
    <2>1. /\ now' = now + 1 /\ ~writable /\ \A t \in timers : now < t
          /\ inFlight > 0 => now < actual_latency_start + ServerTime
          /\ UNCHANGED <<conn, complete, pacing, batch>>
      BY <1>5 DEF Tick
    <2>2. /\ Scheduled(complete)' = Scheduled(complete) /\ ExpectedStart' = ExpectedStart
          /\ CaughtUpDue' = CaughtUpDue
          /\ Scheduled(complete_at_catch_up_start)' = Scheduled(complete_at_catch_up_start)
      BY <2>1 DEF batch, pacing, ExpectedStart, Scheduled, Paced, CaughtUpDue, CaughtUp
    <2>3. CatchUpInv' /\ ~idleLost' /\ inFlight' = inFlight
      BY <1>0, <2>1, <2>2 DEF CatchUpInv, pacing, conn
    <2>4. CASE inFlight = 0
      <3>1. \A t \in timers : t \in Nat /\ now + 1 <= t
        BY <1>a, <2>1 DEF TypeOK
      <3>2. Waits'
        BY <1>0, <2>1, <2>2, <2>4, <3>1 DEF Waits, conn, pacing, batch
      <3> QED
        BY <2>3, <2>4, <3>2 DEF PromptInv
    <2>5. CASE inFlight # 0
      <3>1. actual_latency_start \in Nat /\ now + 1 <= actual_latency_start + ServerTime
        BY <1>a, <2>1, <2>5 DEF TypeOK
      <3>2. InBatch'
        BY <1>0, <2>1, <2>2, <2>5, <3>1 DEF InBatch, conn, pacing, batch
      <3> QED
        BY <2>3, <2>5, <3>2 DEF PromptInv
    <2> QED
      BY <2>4, <2>5
  <1>6. CASE UNCHANGED vars
    <2>1. /\ Scheduled(complete)' = Scheduled(complete) /\ ExpectedStart' = ExpectedStart
          /\ CaughtUpDue' = CaughtUpDue
          /\ Scheduled(complete_at_catch_up_start)' = Scheduled(complete_at_catch_up_start)
      BY <1>6 DEF vars, batch, pacing, ExpectedStart, Scheduled, Paced, CaughtUpDue, CaughtUp
    <2>2. CatchUpInv' /\ ~idleLost' /\ inFlight' = inFlight
      BY <1>0, <1>6, <2>1 DEF CatchUpInv, vars, pacing, conn
    <2>3. inFlight = 0 => Waits'
      BY <1>0, <1>6, <2>1 DEF Waits, vars, conn, pacing, batch
    <2>4. inFlight # 0 => InBatch'
      BY <1>0, <1>6, <2>1 DEF InBatch, vars, conn, pacing, batch
    <2> QED
      BY <2>2, <2>3, <2>4 DEF PromptInv
  <1>7. CASE \E t \in timers : DelayRequest(t)
    <2>1. PICK t \in timers : DelayRequest(t)
      BY <1>7
    <2>2. inFlight = 0 /\ Waits /\ timers = {t}
      BY <1>0, <1>a, <2>1 DEF OneThing
    <2>3. t = now
      <3>1. t <= now /\ now <= t /\ t \in Nat
        BY <2>1, <2>2 DEF DelayRequest, Waits, TypeOK
      <3> QED
        BY <1>a, <3>1
    <2>4. now <= Scheduled(complete) + 2 * TicksPerMs
      BY <1>0, <2>2, <2>3, LateByTwo
    <2>5. caught_up => now <= Scheduled(complete) + TicksPerMs
      BY <1>a, <2>2, <2>3 DEF Waits
    <2>6. /\ Pace /\ now' = now /\ complete' = complete /\ inFlight' = 0
          /\ has_pending' = has_pending /\ ~has_pending /\ ~idleLost' /\ ~writable
      BY <1>0, <2>1, <2>2 DEF DelayRequest, batch, Waits, OneThing
    <2>7. CASE UsecToNextSend > 0
      <3>1. timers' = {TimerFor(UsecToNextSend)} /\ ~writable'
        BY <2>1, <2>2, <2>6, <2>7 DEF DelayRequest
      <3>2. Waits' /\ CatchUpInv'
        BY <1>0, <2>5, <2>6, <2>7, <3>1, WaitsAgain
      <3> QED
        BY <2>6, <3>2 DEF PromptInv
    <2>8. CASE ~(UsecToNextSend > 0)
      <3>1. writable' /\ timers' = {}
        BY <2>1, <2>2, <2>8 DEF DelayRequest
      <3>2. CatchUpInv' /\ Scheduled(complete)' = Scheduled(complete)
        BY <1>0, <2>5, <2>6, PaceKeeps
      <3>3. ~caught_up'
        <4>1. UsecToNextSend = 0
          BY <2>8, NextStartIsInt, <1>a DEF UsecToNextSend
        <4> QED
          BY <2>6, <4>1, SentWhenDue DEF Pace
      <3>4. Waits'
        BY <1>a, <2>4, <2>6, <3>1, <3>2, <3>3 DEF Waits
      <3> QED
        BY <2>6, <3>2, <3>4 DEF PromptInv
    <2> QED
      BY <2>7, <2>8
  <1> QED
    BY <1>1, <1>2, <1>3, <1>4, <1>5, <1>6, <1>7 DEF Next, Done

LEMMA PromptIsOnTime ==
    ASSUME TypeOK, PromptInv
    PROVE  KeepsSchedule
  <1> SUFFICES ASSUME peer = "prompt"
               PROVE  now - Scheduled(complete) <= 2 * TicksPerMs + ServerTime
    BY DEF KeepsSchedule
  <1>0. CatchUpInv /\ (IF inFlight = 0 THEN Waits ELSE InBatch)
    BY DEF PromptInv
  <1>a. /\ now \in Nat /\ complete \in Nat /\ TicksPerMs \in Nat /\ ServerTime \in Nat
        /\ Scheduled(complete) \in Nat
    BY PacerAssumption, PacedIsNat DEF TypeOK, Scheduled
  <1>1. CASE inFlight = 0 /\ writable
    BY <1>0, <1>1, <1>a DEF Waits
  <1>2. CASE inFlight = 0 /\ ~writable
    <2>1. PICK t \in timers : now <= t /\
            t <= TicksPerMs + (IF caught_up THEN Scheduled(complete) ELSE CaughtUpDue)
      BY <1>0, <1>2 DEF Waits
    <2>2. t \in Nat
      BY DEF TypeOK
    <2>3. CASE caught_up
      BY <1>a, <2>1, <2>2, <2>3
    <2>4. CASE ~caught_up
      BY <1>0, <1>a, <2>1, <2>2, <2>4, CaughtUpIsNear
    <2> QED
      BY <2>3, <2>4
  <1>3. CASE inFlight # 0
    <2> DEFINE n == complete_at_last_batch_start
               d == complete - n
    <2>1. n \in Nat /\ d \in Nat /\ n + d = complete /\ actual_latency_start \in Nat
      BY <1>0, <1>3, <1>a DEF InBatch, TypeOK
    <2>2. Paced(n) + Paced(d) <= Paced(complete)
      BY <2>1, PacedAdds
    <2>3. Paced(n) \in Nat /\ Paced(d) \in Nat /\ Paced(complete) \in Nat
          /\ ThreadStart \in Nat
      BY <1>a, <2>1, PacedIsNat, PacerAssumption
    <2>4. /\ actual_latency_start <= ThreadStart + Paced(n) + 2 * TicksPerMs
          /\ now <= actual_latency_start + ServerTime
      BY <1>0, <1>3 DEF InBatch, ExpectedStart, Scheduled
    <2>5. Scheduled(complete) = ThreadStart + Paced(complete)
      BY DEF Scheduled
    <2> HIDE DEF n, d
    <2> QED
      BY <1>a, <2>1, <2>2, <2>3, <2>4, <2>5
  <1> QED
    BY <1>1, <1>2, <1>3

\* The schedule is kept, at every rate: against a server that answers a batch within
\* the time the rate gives one, the connection is never later than two timer periods
\* and one answer, however long the run and however the waits are rounded.
THEOREM ScheduleIsKept ==
    ASSUME ServerTime <= Paced(Pipeline)
    PROVE  Spec => []KeepsSchedule
  <1> DEFINE All == Inv /\ OneThing /\ PromptInv
  <1>1. Init => All
    <2>1. Init => OneThing
      BY DEF Init, OneThing
    <2> QED
      BY <2>1, InvInit, PromptInit
  <1>2. All /\ [Next]_vars => All'
    <2> SUFFICES ASSUME All, [Next]_vars PROVE All'
      OBVIOUS
    <2>1. Inv'
      BY InvNext
    <2>2. OneThing' /\ PromptInv'
      BY OneThingNext, PromptNext DEF Inv
    <2> QED
      BY <2>1, <2>2
  <1>3. All => KeepsSchedule
    BY PromptIsOnTime DEF Inv
  <1> QED
    BY <1>1, <1>2, <1>3, PTL DEF Spec
===============================================================================
