--------------------------- MODULE FidelityProofs ---------------------------
(***************************************************************************)
(* When, where and what a replay repeats, for any session files, any       *)
(* speeds, any screens and any acts of the user, and any clock that runs   *)
(* forwards.                                                               *)
(*                                                                         *)
(* When (Pace): WaitsKept is inductive together with the types of the      *)
(* times: that what is kept is never below zero rests on SleepAmount,      *)
(* which computes a wait from differences of four clocks that may each be  *)
(* negative.  DriftExplained needs more: DriftInv bounds the clocks a wait *)
(* is computed from, and Running says what they are once an event was      *)
(* faked.                                                                  *)
(*                                                                         *)
(* What and where (RoundTrip): what lines a file has is counted in terms   *)
(* of what they would show on a screen.  HeldInv says which keys a display *)
(* holds and why; TypedInv how far into a text each display is; LastInv    *)
(* that a motion held back was the last thing that happened.  RecordInv    *)
(* is that the lines of the file show what the user did, whatever set of   *)
(* keys and buttons is asked about; ReplayInv that a display shows what    *)
(* the lines read so far do, in places scaled as ScaleInv says.            *)
(***************************************************************************)
EXTENDS Pace, RoundTrip, FiniteSetTheorems, SequenceTheorems,
        WellFoundedInduction, TLAPS

LineSet == [kind : {"event", "data", "gone"}, time : 1..MaxTime]
Times   == 0..MaxTime

TimesOK ==
    /\ lines \in Seq(LineSet) /\ tmp \in Seq(LineSet)
    /\ speed \in 1..MaxSpeed
    /\ newtime \in Times /\ oldtime \in Times /\ firstTime \in Times
    /\ readFirst \in Int /\ readLast \in Int /\ now \in Int
    /\ stored \in Int

-----------------------------------------------------------------------------

(* The factor of the compensation is one of the seven of the code.          *)
LEMMA Factor ==
    ASSUME NEW first \in Int, stored \in Int
    PROVE  Compensation(first) \in {5, 8, 9, 10, 11, 12, 15}
  BY DEF Compensation

(* A time at another speed is still a time.                                 *)
LEMMA ScaledTimes ==
    ASSUME speed \in Nat \ {0}
    PROVE  /\ \A d \in Nat : Scaled(d) \in Nat
           /\ \A r \in Int : Scaled(r) \in Int
<1>1. \A d \in Nat : d * speed \in Nat
  OBVIOUS
<1>2. \A r \in Int : r * speed \in Int
  OBVIOUS
<1> QED BY <1>1, <1>2 DEF Scaled

(* What is computed in a word of the computer is a word of it; a number     *)
(* that fits is itself.                                                     *)
LEMMA Words ==
    ASSUME NEW x \in Int
    PROVE  /\ x % Word \in Nat
           /\ x \in 0..Word - 1 => x % Word = x
<1>1. Word \in Nat \ {0}
  <2>1. MaxTime * MaxSpeed \in Nat
    BY PaceAssumption
  <2> QED BY <2>1, PaceAssumption
<1> QED BY <1>1, SMT

(* A product grows with its factors.                                        *)
LEMMA Product ==
    ASSUME NEW a \in Nat, NEW b \in Nat, NEW m \in Nat, NEW n \in Nat,
           a <= m, b <= n
    PROVE  a * b \in Nat /\ a * b <= m * n
<1>1. a * b <= m * b
  BY SMT
<1>2. m * b <= m * n
  BY SMT
<1> QED BY <1>1, <1>2

(* A time of the server at a speed that can be asked for fits.              *)
LEMMA WordTimes ==
    ASSUME speed \in 1..MaxSpeed
    PROVE  /\ \A r \in Int : ScaledWord(r) \in Nat
           /\ \A d \in Times : ScaledWord(d) = Scaled(d)
<1>1. ASSUME NEW r \in Int PROVE ScaledWord(r) \in Nat
  <2>1. speed \in Int
    BY PaceAssumption
  <2>2. r * speed \in Int
    BY <2>1
  <2>3. (r * speed) % Word \in Nat
    BY <2>2, Words
  <2> QED BY <2>3 DEF ScaledWord
<1>2. ASSUME NEW d \in Times PROVE ScaledWord(d) = Scaled(d)
  <2>1. d * speed \in Nat /\ d * speed <= MaxTime * MaxSpeed
    <3>1. /\ d \in Nat /\ speed \in Nat /\ MaxTime \in Nat /\ MaxSpeed \in Nat
          /\ d <= MaxTime /\ speed <= MaxSpeed
      BY PaceAssumption DEF Times
    <3> QED BY <3>1, Product
  <2>2. MaxTime * MaxSpeed \in Nat
    BY PaceAssumption
  <2>3. d * speed \in 0..Word - 1
    BY <2>1, <2>2, PaceAssumption
  <2> QED BY <2>3, Words DEF ScaledWord, Scaled
<1> QED BY <1>1, <1>2

(* At recorded speed the wait is never negative: what is taken off for the  *)
(* call of usleep is taken off a wait of more than five milliseconds.       *)
LEMMA NormalWaits ==
    ASSUME NEW d \in Nat, NEW first \in Int, stored \in Int
    PROVE  NormalAmount(d, first) \in Nat
<1>1. PICK c \in {5, 8, 9, 10, 11, 12, 15} : Compensation(first) = c
  BY Factor
<1>2. d * c \in Nat
  BY <1>1
<1> QED BY <1>1, <1>2 DEF NormalAmount

(* Nor is it at another speed, however far the replay is off.               *)
LEMMA OtherWaits ==
    ASSUME NEW d \in Nat, NEW last \in Int, NEW first \in Int, NEW r \in Int
    PROVE  SlowAmount(last, first, d, r) \in Nat
           /\ FastAmount(last, first, d, r) \in Nat
  BY DEF SlowAmount, FastAmount, Smaller, AtLeast0

(* No speed and no drift makes a wait negative.                             *)
LEMMA SleepAmounts ==
    ASSUME TimesOK, NEW d \in Nat, NEW last \in Int, NEW first \in Int,
           NEW r \in Int
    PROVE  SleepAmount(last, first, d, r) \in Nat
<1>1. CASE speed = 100
  BY <1>1, NormalWaits DEF SleepAmount, TimesOK
<1>4. ScaledWord(d) \in Nat /\ ScaledWord(r) \in Int
  <2>1. speed \in 1..MaxSpeed /\ d \in Int
    BY DEF TimesOK
  <2>2. ScaledWord(d) \in Nat /\ ScaledWord(r) \in Nat
    BY <2>1, WordTimes
  <2> QED BY <2>2
<1>2. CASE speed > 100
  <2>1. FastAmount(last, first, ScaledWord(d), ScaledWord(r)) \in Nat
    BY <1>4, OtherWaits
  <2> QED BY <1>2, <2>1 DEF SleepAmount, TimesOK
<1>3. CASE speed < 100
  <2>1. SlowAmount(last, first, ScaledWord(d), ScaledWord(r)) \in Nat
    BY <1>4, OtherWaits
  <2> QED BY <1>3, <2>1 DEF SleepAmount, TimesOK
<1> QED BY <1>1, <1>2, <1>3, PaceAssumption DEF TimesOK

(* xnee_fake_sleep sleeps or keeps all of a wait.                           *)
LEMMA SleepOrKeep ==
    ASSUME NEW wait \in Nat, collected \in 0 .. SleepThresh
    PROVE  /\ FakeSleep(wait).sleep \in Nat
           /\ FakeSleep(wait).keep \in 0 .. SleepThresh
           /\ FakeSleep(wait).sleep + FakeSleep(wait).keep = wait + collected
<1>1. CASE wait + collected > SleepThresh
  <2>1. /\ FakeSleep(wait).sleep = wait + collected
        /\ FakeSleep(wait).keep = 0
    BY <1>1 DEF FakeSleep
  <2> QED BY <2>1 DEF SleepThresh
<1>2. CASE ~(wait + collected > SleepThresh)
  <2>1. /\ FakeSleep(wait).sleep = 0
        /\ FakeSleep(wait).keep = wait + collected
    BY <1>2 DEF FakeSleep
  <2> QED BY <1>2, <2>1 DEF SleepThresh
<1> QED BY <1>1, <1>2

-----------------------------------------------------------------------------

(* Reading a line keeps the types of the times of the file.                 *)
LEMMA LineTimes ==
    ASSUME TimesOK, LineRead
    PROVE  /\ lines' \in Seq(LineSet) /\ tmp' \in Seq(LineSet)
           /\ newtime' \in Times /\ oldtime' \in Times /\ firstTime' \in Times
           /\ newtime' # 0 /\ firstTime' # 0
<1>1. lines \in Seq(LineSet) /\ lines # <<>>
  BY DEF TimesOK, LineRead
<1>2. Line \in LineSet /\ Tail(lines) \in Seq(LineSet)
  BY <1>1 DEF Line
<1>3. Line.time \in Times /\ Line.time # 0
  BY <1>2, PaceAssumption DEF LineSet, Times
<1> QED BY <1>2, <1>3 DEF TimesOK, LineRead

(* The recorded times are never negative: the one since the first line has  *)
(* no sign.                                                                 *)
LEMMA RecordedTimes ==
    ASSUME NEW new \in Times, NEW old \in Times, NEW zero \in Times
    PROVE  LastDiff(new, old) \in Nat /\ FirstDiff(new, zero) \in Nat
<1>1. new - zero \in Int /\ new \in Nat /\ old \in Nat
  BY PaceAssumption DEF Times
<1>2. (new - zero) % Word \in Nat
  BY <1>1, Words
<1> QED BY <1>1, <1>2 DEF LastDiff, FirstDiff, DeltaTime, AtLeast0

(* The clocks of an event, and what it is to wait for.                      *)
LEMMA EventClocks ==
    ASSUME TimesOK, LineRead, NEW e \in Delays
    PROVE  LET t == now + e
           IN  /\ t \in Int /\ Zero(t) \in Int
               /\ t - Started(AtLoop(readLast), t) \in Int
               /\ WaitAt(t) \in Nat
               /\ FirstDiff(newtime', firstTime') \in Nat
<1> DEFINE t    == now + e
           last == t - Started(AtLoop(readLast), t)
           d    == LastDiff(newtime', oldtime')
           r    == FirstDiff(newtime', firstTime')
<1>1. t \in Int /\ Zero(t) \in Int /\ last \in Int
  BY PaceAssumption DEF TimesOK, Zero, Started, AtLoop
<1>2. d \in Nat /\ r \in Nat
  BY LineTimes, RecordedTimes
<1>3. WaitAt(t) = SleepAmount(last, t - Zero(t), d, r)
  BY DEF WaitAt
<1> HIDE DEF t, last, d, r
<1>4. t - Zero(t) \in Int /\ r \in Int
  BY <1>1, <1>2
<1>5. WaitAt(t) \in Nat
  BY <1>1, <1>2, <1>3, <1>4, SleepAmounts
<1> QED BY <1>1, <1>2, <1>5 DEF t, last, r

(* What FakeEvent does to the waits and the clock.                          *)
LEMMA EventWaits ==
    ASSUME TimesOK, WaitsKept, FakeEvent
    PROVE  TimesOK' /\ WaitsKept'
<1>1. PICK e \in Delays, o \in Oversleeps :
        LET t    == now + e
            wait == WaitAt(t)
            slp  == FakeSleep(wait)
        IN  /\ LineRead /\ EventSleepAmt(t)
            /\ collected' = slp.keep
            /\ now' = t + slp.sleep + o
            /\ owed' = owed + wait - slp.sleep
            /\ UNCHANGED speed
  BY DEF FakeEvent
<1> DEFINE t    == now + e
           wait == WaitAt(t)
<1>2. e \in Nat /\ o \in Nat
  BY PaceAssumption
<1>3. t \in Int /\ Zero(t) \in Int /\ wait \in Nat
      /\ FirstDiff(newtime', firstTime') \in Nat
  BY <1>1, EventClocks
<1>4. /\ lines' \in Seq(LineSet) /\ tmp' \in Seq(LineSet)
      /\ newtime' \in Times /\ oldtime' \in Times /\ firstTime' \in Times
  BY <1>1, LineTimes
<1>5. /\ readFirst' = Zero(t) /\ readLast' = t
      /\ stored' = IF speed = 100 THEN FirstDiff(newtime', firstTime') ELSE stored
  BY <1>1 DEF EventSleepAmt
<1> HIDE DEF t, wait
<1>7. /\ collected' = FakeSleep(wait).keep
      /\ now' = t + FakeSleep(wait).sleep + o
      /\ owed' = owed + wait - FakeSleep(wait).sleep
      /\ UNCHANGED speed
  BY <1>1 DEF t, wait
<1>8. /\ FakeSleep(wait).sleep \in Nat
      /\ FakeSleep(wait).keep \in 0 .. SleepThresh
      /\ FakeSleep(wait).sleep + FakeSleep(wait).keep = wait + collected
  BY <1>3, SleepOrKeep DEF WaitsKept
<1>9. TimesOK'
  BY <1>2, <1>3, <1>4, <1>5, <1>7, <1>8 DEF TimesOK
<1>10. WaitsKept'
  BY <1>3, <1>7, <1>8 DEF WaitsKept, SleepThresh
<1> QED BY <1>9, <1>10

(* And what a motion whose device is gone does.                             *)
LEMMA GoneWaits ==
    ASSUME TimesOK, WaitsKept, DeviceGone
    PROVE  TimesOK' /\ WaitsKept'
<1>1. PICK e \in Delays :
        /\ LineRead /\ EventSleepAmt(now + e)
        /\ now' = now + e
        /\ UNCHANGED <<speed, collected, owed>>
  BY DEF DeviceGone
<1>2. now + e \in Int /\ Zero(now + e) \in Int
      /\ FirstDiff(newtime', firstTime') \in Nat
  BY <1>1, EventClocks
<1> QED BY <1>1, <1>2, LineTimes DEF TimesOK, WaitsKept, EventSleepAmt

(* Every millisecond asked for is slept or kept for the next wait, across   *)
(* events and sessions; what is kept is never negative and too short to be  *)
(* slept.                                                                   *)
THEOREM WaitsAreKept == Spec => []WaitsKept
<1>1. Init => TimesOK /\ WaitsKept
  BY PaceAssumption DEF Init, TimesOK, Times, WaitsKept, SleepThresh, Never
<1>2. TimesOK /\ WaitsKept /\ [Next]_vars => TimesOK' /\ WaitsKept'
  <2> SUFFICES ASSUME TimesOK, WaitsKept, [Next]_vars
               PROVE  TimesOK' /\ WaitsKept'
    OBVIOUS
  <2> USE DEF TimesOK, WaitsKept, lineVars, clockVars, waitVars
  <2>1. ASSUME NEW f \in Files, NEW s \in Speeds, Begin(f, s)
        PROVE  TimesOK' /\ WaitsKept'
    <3>1. lines' \in Seq(LineSet) /\ speed' \in 1..MaxSpeed
      BY <2>1, PaceAssumption DEF Begin, LineSet
    <3> QED BY <2>1, <3>1, PaceAssumption DEF Begin, Never, Times
  <2>2. CASE ReadData
    <3>1. PICK e \in Delays :
            /\ LineRead
            /\ readFirst' = AtLoop(readFirst) /\ readLast' = AtLoop(readLast)
            /\ now' = now + e
            /\ UNCHANGED <<speed, waitVars>>
      BY <2>2 DEF ReadData
    <3>2. e \in Nat
      BY PaceAssumption
    <3> QED BY <3>1, <3>2, LineTimes DEF AtLoop
  <2>3. CASE FakeEvent
    BY <2>3, EventWaits
  <2>7. CASE DeviceGone
    BY <2>7, GoneWaits
  <2>4. CASE Stop
    BY <2>4, LineTimes DEF Stop
  <2>5. CASE EndOfFile
    BY <2>5 DEF EndOfFile
  <2>6. CASE UNCHANGED vars
    BY <2>6 DEF vars
  <2> QED BY <2>1, <2>2, <2>3, <2>4, <2>5, <2>6, <2>7 DEF Next
<1> QED BY <1>1, <1>2, PTL DEF Spec

-----------------------------------------------------------------------------

(* What is known of the clock and of the session: it has been read as soon  *)
(* as an event was faked, and after an event ahead is what the replay is    *)
(* ahead by now.                                                            *)
Running ==
    /\ loopNr # 0 =>
         /\ firstReplayed = FALSE
         /\ readFirst # Never /\ readLast # Never
         /\ newtime # 0 /\ firstTime # 0
         /\ before \in {"event", "data", "gone"}
    /\ before = "event" =>
         /\ loopNr # 0
         /\ ahead = Scaled(newtime - firstTime) - (now - readFirst)

DriftInv ==
    /\ TimesOK
    /\ collected \in Nat /\ ahead \in Int /\ now \in Nat
    /\ readFirst \in -1..now /\ readLast \in -1..now
    /\ loopNr \in 0..2
    /\ phase = "replay" => Running

(* Scaling a time that has two parts is scaling them, but for a millisecond *)
(* of rounding.                                                             *)
LEMMA ScaledSum ==
    ASSUME speed \in Nat \ {0}, NEW r \in Int, NEW d \in Int
    PROVE  /\ Scaled(r) - Scaled(r - d) \in {Scaled(d), Scaled(d) + 1}
           /\ Scaled(r) \in Int /\ Scaled(r - d) \in Int
<1> DEFINE a == (r - d) * speed
           b == d * speed
<1>1. a \in Int /\ b \in Int /\ r * speed = a + b
  OBVIOUS
<1>2. Scaled(r) = (a + b) \div 100 /\ Scaled(r - d) = a \div 100
      /\ Scaled(d) = b \div 100
  BY <1>1 DEF Scaled
<1> HIDE DEF a, b
<1> QED BY <1>1, <1>2

(* How the wait for an event, w, compares with the time recorded before it, *)
(* d, and with what is left until its own time, r - first.                  *)
LEMMA FastBounds ==
    ASSUME NEW last \in Int, NEW first \in Int, NEW d \in Nat, NEW r \in Int
    PROVE  LET w == FastAmount(last, first, d, r)
           IN  r - first <= w \/ w = d
  BY DEF FastAmount, Smaller

LEMMA SlowBounds ==
    ASSUME NEW last \in Nat, NEW first \in Int, NEW d \in Nat, NEW r \in Int
    PROVE  LET w == SlowAmount(last, first, d, r)
           IN  /\ r - first <= w \/ w = d \/ d <= last
               /\ w <= d
  BY DEF SlowAmount, Smaller, AtLeast0

(* The recorded times of an event that is waited for; an event recorded     *)
(* before the first line seems to be far ahead.                             *)
LEMMA TrueTimes ==
    ASSUME NEW new \in Times, NEW old \in Times, NEW zero \in Times, old <= new,
           loopNr = 2, firstReplayed = FALSE
    PROVE  /\ new - old \in Times /\ new - zero \in Int
           /\ LastDiff(new, old) = new - old
           /\ FirstDiff(new, zero) \in Nat
           /\ new - zero >= 0 => /\ new - zero \in Times
                                 /\ FirstDiff(new, zero) = new - zero
           /\ old - zero = (new - zero) - (new - old)
<1>1. new \in Nat /\ old \in Nat /\ zero \in Nat /\ new <= MaxTime
  BY PaceAssumption DEF Times
<1>2. MaxTime < Word /\ Word \in Nat /\ MaxTime \in Nat
  <2>1. MaxTime * 1 <= MaxTime * MaxSpeed /\ MaxTime * MaxSpeed \in Nat
    BY PaceAssumption, Product
  <2> QED BY <2>1, PaceAssumption
<1>3. FirstDiff(new, zero) = (new - zero) % Word
  BY <1>1 DEF FirstDiff
<1>4. new - zero >= 0 => (new - zero) % Word = new - zero
  BY <1>1, <1>2, Words
<1>5. (new - zero) % Word \in Nat
  BY <1>1, Words
<1> QED BY <1>1, <1>2, <1>3, <1>4, <1>5
        DEF LastDiff, DeltaTime, AtLeast0, Times

(* The reasons for a drift, as DriftExplained names them.                   *)
Explained ==
    /\ \/ Lead' <= AtLeast0(Lead) + 1
       \/ before # "event"
       \/ /\ speed < 100
          /\ Scaled(newtime' - oldtime') <= readLast' - readLast
    /\ speed > 100 \/ before # "event" \/ Lead' >= Lead - took'

(* Looking at the clock keeps what is known of it.                          *)
LEMMA ClocksRead ==
    ASSUME DriftInv, NEW e \in Delays, EventSleepAmt(now + e), LineRead,
           now' \in Nat, now' >= now + e, phase' = phase
    PROVE  /\ readFirst' \in -1..now' /\ readLast' \in -1..now'
           /\ loopNr' \in 1..2 /\ firstReplayed' = FALSE
           /\ readFirst' # Never /\ readLast' # Never
           /\ newtime' # 0 /\ firstTime' # 0
<1>1. /\ now \in Nat /\ e \in Nat /\ loopNr \in 0..2
      /\ readFirst \in -1..now /\ phase = "replay" /\ Running
  BY PaceAssumption DEF DriftInv, LineRead
<1>2. Zero(now + e) \in 0..now + e
  BY <1>1 DEF Zero, Started, AtLoop, Never
<1>3. readFirst' = Zero(now + e) /\ readLast' = now + e
      /\ loopNr' = Smaller(loopNr + 1, 2) /\ firstReplayed' = FALSE
  BY DEF EventSleepAmt
<1>4. newtime' # 0 /\ firstTime' # 0
  BY LineTimes DEF DriftInv
<1>5. loopNr' \in 1..2
  BY <1>1, <1>3 DEF Smaller
<1> QED BY <1>1, <1>2, <1>3, <1>4, <1>5 DEF Never

(* A motion whose device is gone keeps the invariant.                       *)
LEMMA GoneDrift ==
    ASSUME DriftInv, WaitsKept, DeviceGone
    PROVE  DriftInv' /\ ~Waited
<1>1. PICK e \in Delays :
        /\ LineRead /\ Line.kind = "gone"
        /\ EventSleepAmt(now + e)
        /\ now' = now + e
        /\ UNCHANGED <<phase, speed, collected, ahead>>
  BY DEF DeviceGone
<1>2. now' \in Nat
  BY <1>1, PaceAssumption DEF DriftInv
<1>3. TimesOK'
  BY GoneWaits DEF DriftInv
<1>4. before' = "gone"
  BY <1>1 DEF LineRead
<1>5. /\ readFirst' \in -1..now' /\ readLast' \in -1..now'
      /\ loopNr' \in 1..2 /\ firstReplayed' = FALSE
      /\ readFirst' # Never /\ readLast' # Never
      /\ newtime' # 0 /\ firstTime' # 0
  <2>1. now' >= now + e
    BY <1>1, <1>2
  <2> QED BY <1>1, <1>2, <2>1, ClocksRead
<1>6. Running'
  BY <1>4, <1>5 DEF Running
<1> QED BY <1>1, <1>2, <1>3, <1>4, <1>5, <1>6 DEF DriftInv, Waited

(* An event keeps the invariant, and its drift is explained.                *)
LEMMA EventDrift ==
    ASSUME DriftInv, WaitsKept, FakeEvent
    PROVE  /\ DriftInv'
           /\ Waited /\ speed # 100 => Explained
<1>1. PICK e \in Delays, o \in Oversleeps :
        LET t    == now + e
            wait == WaitAt(t)
            slp  == FakeSleep(wait)
        IN  /\ LineRead /\ Line.kind = "event"
            /\ EventSleepAmt(t)
            /\ collected' = slp.keep
            /\ now' = t + slp.sleep + o
            /\ took' = e + o
            /\ ahead' = Scaled(newtime' - firstTime') - (now' - Zero(t))
            /\ UNCHANGED <<phase, speed>>
  BY DEF FakeEvent
<1> DEFINE t    == now + e
           zero == Zero(t)
           seen == Started(AtLoop(readLast), t)
           last == t - seen
           d    == LastDiff(newtime', oldtime')
           r    == FirstDiff(newtime', firstTime')
           wait == WaitAt(t)
<1>2. e \in Nat /\ o \in Nat
  BY PaceAssumption
<1>3. TimesOK' /\ WaitsKept'
  BY EventWaits DEF DriftInv
<1>4. /\ t \in Nat /\ zero \in Int /\ zero <= t
      /\ seen \in Int /\ seen <= t /\ last \in Int
  BY <1>2 DEF DriftInv, Zero, Started, AtLoop, Never
<1>6. wait \in Nat
  BY <1>1, EventClocks DEF DriftInv
<1>7. /\ readFirst' = zero /\ readLast' = t
      /\ collected' = FakeSleep(wait).keep
      /\ now' = t + FakeSleep(wait).sleep + o
      /\ took' = e + o
      /\ ahead' = Scaled(newtime' - firstTime') - (now' - zero)
      /\ UNCHANGED <<phase, speed>> /\ before' = "event"
  BY <1>1 DEF LineRead, EventSleepAmt
<1>8. /\ FakeSleep(wait).sleep \in Nat
      /\ FakeSleep(wait).keep \in Nat
      /\ FakeSleep(wait).sleep + FakeSleep(wait).keep = wait + collected
  <2> HIDE DEF wait
  <2> QED BY <1>6, SleepOrKeep DEF WaitsKept, SleepThresh
<1>9. oldtime' = newtime
      /\ firstTime' = IF firstTime = 0 THEN newtime' ELSE firstTime
  BY <1>1 DEF LineRead
<1>10. ahead' \in Int
  <2>1. newtime' - firstTime' \in Int /\ speed' \in Nat \ {0}
    <3>1. /\ newtime' \in Times /\ firstTime' \in Times
          /\ speed' \in 1..MaxSpeed
      BY <1>3 DEF TimesOK
    <3> QED BY <3>1, PaceAssumption DEF Times
  <2>2. Scaled(newtime' - firstTime') \in Int
    BY <1>7, <2>1, ScaledTimes
  <2> HIDE DEF t, zero, seen, d, r, wait
  <2> QED BY <1>2, <1>4, <1>7, <1>8, <2>2
<1>11. DriftInv'
  <2>1. now' \in Nat /\ now' >= now + e
    <3> HIDE DEF wait
    <3> QED BY <1>2, <1>4, <1>7, <1>8
  <2>2. /\ readFirst' \in -1..now' /\ readLast' \in -1..now'
        /\ loopNr' \in 1..2 /\ firstReplayed' = FALSE
        /\ readFirst' # Never /\ readLast' # Never
        /\ newtime' # 0 /\ firstTime' # 0
    BY <1>1, <2>1, ClocksRead
  <2>3. (Scaled(newtime - firstTime))' = Scaled(newtime' - firstTime')
    BY <1>7 DEF Scaled
  <2> HIDE DEF t, zero, seen, d, r, wait
  <2>4. Running'
    BY <1>7, <2>2, <2>3 DEF Running
  <2>5. collected' \in Nat
    BY <1>7, <1>8
  <2> QED BY <1>3, <1>10, <2>1, <2>2, <2>4, <2>5 DEF DriftInv
<1>12. ASSUME Waited, speed # 100 PROVE Explained
  <2>1. CASE before # "event"
    BY <2>1 DEF Explained
  <2>2. CASE before = "event"
    <3> DEFINE gap == newtime' - oldtime'
               R == newtime' - firstTime
    <3>1. /\ loopNr = 2 /\ firstReplayed = FALSE
          /\ readFirst # Never /\ readLast # Never
          /\ newtime # 0 /\ firstTime # 0 /\ oldtime' <= newtime'
          /\ ahead = Scaled(newtime - firstTime) - (now - readFirst)
      BY <1>12, <2>2 DEF DriftInv, Running, Waited
    <3>2. zero = readFirst /\ seen = readLast /\ last \in Nat
      BY <1>4, <3>1 DEF Zero, Started, AtLoop
    <3>3. /\ gap \in Times /\ R \in Int /\ d = gap /\ r \in Nat
          /\ R >= 0 => R \in Times /\ r = R
          /\ newtime - firstTime = R - gap /\ newtime' - firstTime' = R
      <4>1. newtime' \in Times /\ newtime \in Times /\ firstTime \in Times
            /\ oldtime' \in Times
        BY <1>3 DEF DriftInv, TimesOK
      <4>2. oldtime' = newtime /\ firstTime' = firstTime
        BY <1>9, <3>1
      <4>3. oldtime' <= newtime' /\ loopNr = 2 /\ firstReplayed = FALSE
        BY <3>1
      <4>4. /\ newtime' - newtime \in Times /\ newtime' - firstTime \in Int
            /\ LastDiff(newtime', newtime) = newtime' - newtime
            /\ FirstDiff(newtime', firstTime) \in Nat
            /\ newtime' - firstTime >= 0 =>
                 /\ newtime' - firstTime \in Times
                 /\ FirstDiff(newtime', firstTime) = newtime' - firstTime
            /\ newtime - firstTime =
                 (newtime' - firstTime) - (newtime' - newtime)
        <5>1. newtime <= newtime'
          BY <4>2, <4>3
        <5> QED BY <4>1, <4>3, <5>1, TrueTimes
      <4> QED BY <4>2, <4>4
    <3>4. speed \in Nat \ {0} /\ speed \in 1..MaxSpeed
      BY PaceAssumption DEF DriftInv, TimesOK
    <3> DEFINE sd == Scaled(gap)
               sr == Scaled(R)
               sb == Scaled(R - gap)
               rw == ScaledWord(r)
               first == t - zero
    <3>5. /\ sr - sb \in {sd, sd + 1}
          /\ sr \in Int /\ sb \in Int /\ sd \in Nat
          /\ ScaledWord(gap) = sd /\ rw \in Nat
          /\ R >= 0 => rw = sr
          /\ R < 0 => sr < 0
      <4> HIDE DEF gap, R, r
      <4>1. gap \in Nat
        BY <3>3, PaceAssumption DEF Times
      <4>2. R < 0 => sr < 0
        <5>1. ASSUME R < 0 PROVE R * speed < 0
          BY <3>3, <3>4, <5>1, SMT
        <5>2. R * speed \in Int
          BY <3>3, <3>4
        <5> QED BY <5>1, <5>2 DEF Scaled
      <4>3. sr - sb \in {sd, sd + 1} /\ sr \in Int /\ sb \in Int
        BY <3>3, <3>4, <4>1, ScaledSum
      <4>4. sd \in Nat /\ ScaledWord(gap) = sd
        BY <3>3, <3>4, <4>1, ScaledTimes, WordTimes
      <4>5. rw \in Nat
        <5>1. r \in Int
          BY <3>3
        <5> QED BY <3>4, <5>1, WordTimes
      <4>6. R >= 0 => rw = sr
        BY <3>3, <3>4, WordTimes
      <4> QED BY <4>2, <4>3, <4>4, <4>5, <4>6
    <3>6. /\ Lead = sb - (now - readFirst) - collected
          /\ Lead' = sr - (now' - readFirst) - collected'
      BY <1>7, <3>1, <3>2, <3>3 DEF Lead
    <3>7. first \in Int /\ first = t - readFirst /\ first >= 0
      BY <1>4, <3>2
    <3>8. \/ /\ speed > 100
             /\ wait = FastAmount(last, first, sd, rw)
          \/ /\ speed < 100
             /\ wait = SlowAmount(last, first, sd, rw)
      <4>1. wait = SleepAmount(last, first, d, r)
        BY DEF WaitAt
      <4> HIDE DEF wait, last, first, d, r, gap, R
      <4> QED BY <1>12, <3>3, <3>4, <3>5, <4>1 DEF SleepAmount
    <3>9. /\ \/ rw - first <= wait
             \/ wait = sd
             \/ /\ sd <= last
                /\ speed < 100
          /\ speed > 100 \/ wait <= sd
      <4> HIDE DEF wait, last, first, sd, rw
      <4> QED BY <3>2, <3>5, <3>7, <3>8, FastBounds, SlowBounds
    <3>10. sd <= last => Scaled(newtime' - oldtime') <= readLast' - readLast
      BY <1>7, <3>2
    <3>11. /\ Lead' = sr - first - wait - o - collected
           /\ Lead = sb - first + e - collected
           /\ Lead \in Int /\ took' = e + o
      <4>1. readFirst \in Int
        BY DEF DriftInv
      <4> HIDE DEF wait, sr, sb, first, zero, seen
      <4> QED BY <1>2, <1>6, <1>7, <1>8, <3>5, <3>6, <3>7, <4>1 DEF DriftInv
    <3>12. R \in Int
      BY <3>3
    <3> HIDE DEF wait, sr, sb, sd, rw, first, last, gap, R
    <3>13. \/ Lead' <= AtLeast0(Lead) + 1
           \/ /\ sd <= last
              /\ speed < 100
      <4>1. CASE R < 0
        BY <1>2, <1>6, <3>5, <3>7, <3>11, <4>1 DEF DriftInv, AtLeast0
      <4>2. CASE R >= 0
        BY <1>2, <1>6, <3>5, <3>7, <3>9, <3>11, <4>2 DEF DriftInv, AtLeast0
      <4> QED BY <3>12, <4>1, <4>2
    <3>14. speed > 100 \/ Lead' >= Lead - took'
      BY <1>2, <1>6, <3>5, <3>7, <3>9, <3>11 DEF DriftInv
    <3> QED BY <3>10, <3>13, <3>14 DEF Explained
  <2> QED BY <2>1, <2>2
<1> QED BY <1>11, <1>12

(* So does every other step, and no other step fakes an event.              *)
LEMMA DriftNext ==
    ASSUME DriftInv, WaitsKept, [Next]_vars
    PROVE  DriftInv' /\ [Waited /\ speed # 100 => Explained]_vars
<1> USE DEF lineVars, clockVars, waitVars
<1>1. ASSUME NEW f \in Files, NEW s \in Speeds, Begin(f, s)
      PROVE  DriftInv' /\ ~Waited
  <2>1. lines' \in Seq(LineSet) /\ speed' \in 1..MaxSpeed
    BY <1>1, PaceAssumption DEF Begin, LineSet, DriftInv, TimesOK
  <2> QED
    BY <1>1, <2>1, PaceAssumption
    DEF Begin, Never, DriftInv, TimesOK, Times, Running, Waited
<1>2. ASSUME ReadData PROVE DriftInv' /\ ~Waited
  <2>1. PICK e \in Delays :
          /\ LineRead /\ Line.kind = "data"
          /\ readFirst' = AtLoop(readFirst) /\ readLast' = AtLoop(readLast)
          /\ now' = now + e
          /\ UNCHANGED <<phase, speed, loopNr, firstReplayed, waitVars>>
    BY <1>2 DEF ReadData
  <2>2. e \in Nat
    BY PaceAssumption
  <2>3. before' = "data" /\ firstTime' = IF firstTime = 0 THEN newtime'
                                                        ELSE firstTime
    BY <2>1 DEF LineRead
  <2>4. newtime' # 0
    BY <2>1, LineTimes DEF DriftInv
  <2>5. TimesOK'
    BY <2>1, <2>2, LineTimes DEF DriftInv, TimesOK, AtLoop
  <2>6. phase = "replay" /\ Running
    BY <2>1 DEF LineRead, DriftInv
  <2>7. readFirst' \in -1..now' /\ readLast' \in -1..now'
    BY <2>1, <2>2 DEF AtLoop, DriftInv
  <2>8. Running'
    BY <2>1, <2>3, <2>4, <2>6 DEF AtLoop, DriftInv, Running, Never
  <2> QED BY <2>1, <2>2, <2>3, <2>5, <2>7, <2>8 DEF DriftInv, Waited
<1>3. ASSUME FakeEvent
      PROVE  DriftInv' /\ (Waited /\ speed # 100 => Explained)
  BY <1>3, EventDrift
<1>7. ASSUME DeviceGone PROVE DriftInv' /\ ~Waited
  BY <1>7, GoneDrift
<1>4. ASSUME Stop PROVE DriftInv' /\ ~Waited
  <2>1. TimesOK'
    BY <1>4, LineTimes DEF DriftInv, TimesOK, Stop
  <2> QED BY <1>4, <2>1 DEF Stop, DriftInv, Waited
<1>5. ASSUME EndOfFile PROVE DriftInv' /\ ~Waited
  BY <1>5 DEF EndOfFile, DriftInv, TimesOK, Waited
<1>6. ASSUME UNCHANGED vars PROVE DriftInv'
  BY <1>6 DEF vars, DriftInv, TimesOK, Running, Scaled
<1> QED BY <1>1, <1>2, <1>3, <1>4, <1>5, <1>6, <1>7 DEF Next

(* At another speed than the recorded one, a replay gets ahead of the       *)
(* recording only by a wait lost to another line or, slowed, counted        *)
(* twice; and slowed it falls behind only by what the computer takes, for   *)
(* any files, any speeds and whatever the computer and usleep take.         *)
THEOREM DriftIsExplained == Spec => DriftExplained
<1>1. Init => DriftInv
  BY PaceAssumption DEF Init, DriftInv, TimesOK, Times, Running, Never
<1>2. DriftInv /\ WaitsKept /\ [Next]_vars =>
        DriftInv' /\ [Waited /\ speed # 100 => Explained]_vars
  BY DriftNext
<1>3. [Waited /\ speed # 100 => Explained]_vars =>
        [Waited /\ speed # 100 =>
          /\ \/ Lead' <= AtLeast0(Lead) + 1
             \/ before # "event"
             \/ /\ speed < 100
                /\ Scaled(newtime' - oldtime') <= readLast' - readLast
          /\ speed > 100 \/ before # "event" \/ Lead' >= Lead - took']_vars
  BY DEF Explained
<1> QED BY <1>1, <1>2, <1>3, WaitsAreKept, PTL DEF Spec, DriftExplained

-----------------------------------------------------------------------------
(* What is held down. *)

(* The modifiers of the keyboard. *)
Mods  == {"shift", "lock", "control", "mod5"}
Chars == DOMAIN KeyOf

OptsOK ==
    opts \in [forced : BOOLEAN, asked : Asked \cup {Unset}, offset : Int,
              adjust : BOOLEAN, distr : SUBSET Displays, gone : SUBSET Devices]

(* A screen is a record of four fields. *)
Screen(s) ==
    [down |-> s.down, at |-> s.at, acts |-> s.acts, typed |-> s.typed]

ScreensOK == screen = [d \in {Main} \cup Displays |-> Screen(screen[d])]

(* What the character being typed holds down. *)
Holding ==
    IF pressed THEN {Key(Head(todo))} \cup Modifiers(Head(todo)) ELSE {}

HeldInv ==
    /\ OptsOK /\ ScreensOK
    /\ Retyping =>
         /\ todo \in Seq(Chars)
         /\ pressed \in BOOLEAN /\ (pressed => todo # <<>>)
         /\ screen[Main].down \subseteq downBefore \cup Holding

(* The modifiers of the rows of a keyboard are the four there are.          *)
LEMMA RowFacts == {Rows[i] : i \in DOMAIN Rows} = Mods
  BY DEF Rows, Mods

(* Only an act of the replayer changes what is retyped. *)
LEMMA BeginRetyping ==
    ASSUME HeldInv, NEW kind, NEW t, BeginFaking(kind, t),
           kind = "retype" => t \in Texts
    PROVE  /\ OptsOK' /\ ScreensOK'
           /\ Retyping' => HeldInv'
<1> DEFINE E(s) == [Blank EXCEPT !.down = s.down]
<1>1. OptsOK'
  BY FakingsAssumption DEF BeginFaking, OptsOK
<1>2. screen' = [d \in {Main} \cup Displays |-> E(screen[d])]
  BY DEF BeginFaking, HeldInv, ScreensOK
<1>3. \A s : E(s) = Screen(E(s))
  BY DEF Blank, Screen
<1>4. \A d \in {Main} \cup Displays : screen'[d] = E(screen[d])
  BY <1>2
<1>5. ScreensOK'
  <2> HIDE DEF E
  <2> QED BY <1>2, <1>3, <1>4 DEF ScreensOK
<1>6. screen'[Main].down = screen[Main].down
  BY <1>4 DEF Blank
<1>7. ASSUME Retyping' PROVE HeldInv'
  <2>1. kind = "retype"
    BY <1>7 DEF Retyping, BeginFaking
  <2>2. todo' \in Seq(Chars)
    BY <2>1, TextsAssumption DEF BeginFaking, Chars
  <2> QED BY <1>1, <1>5, <1>6, <2>2 DEF HeldInv, BeginFaking
<1> QED BY <1>1, <1>5, <1>7

(* A key and its modifiers, on the display that is faked on. *)
LEMMA TypingOnMain ==
    ASSUME OptsOK, ScreensOK, NEW type, NEW c, FakeKeyMod(type, c)
    PROVE  /\ ScreensOK'
           /\ type = "press" =>
                /\ screen'[Main].down = screen[Main].down \cup {Key(c)}
                                                          \cup Modifiers(c)
                /\ screen'[Main].typed =
                     Append(screen[Main].typed,
                            Typed(Key(c), screen[Main].down \cup Modifiers(c)))
           /\ type # "press" =>
                /\ opts.distr = {} => screen'[Main].down =
                     screen[Main].down \ ({Key(c)} \cup Modifiers(c))
                /\ screen'[Main].typed = screen[Main].typed
<1> DEFINE D == {Main} \cup Displays
<1>1. ASSUME NEW s, s = Screen(s)
      PROVE  /\ PressOn(s, c) = Screen(PressOn(s, c))
             /\ ReleaseOn(s, c) = Screen(ReleaseOn(s, c))
             /\ PressOn(s, c).down = s.down \cup {Key(c)} \cup Modifiers(c)
             /\ PressOn(s, c).typed =
                  Append(s.typed, Typed(Key(c), s.down \cup Modifiers(c)))
             /\ ReleaseOn(s, c).typed = s.typed
             /\ opts.distr = {} => ReleaseOn(s, c).down =
                                     s.down \ ({Key(c)} \cup Modifiers(c))
  <2> DEFINE held == s.down \cup Modifiers(c)
             typed == Append(s.typed, Typed(Key(c), held))
             left == (s.down \ ({Key(c)} \cup Modifiers(c)))
                       \cup IF opts.distr = {} THEN {} ELSE Modifiers(c)
  <2>1. PressOn(s, c) = [[s EXCEPT !.down = held \cup {Key(c)}]
                            EXCEPT !.typed = typed]
    BY DEF PressOn
  <2>2. ReleaseOn(s, c) = [s EXCEPT !.down = left]
    BY DEF ReleaseOn
  <2> HIDE DEF typed, left
  <2>3. PressOn(s, c) = [down |-> held \cup {Key(c)}, at |-> s.at,
                         acts |-> s.acts, typed |-> typed]
    BY <2>1, <1>1 DEF Screen
  <2>4. ReleaseOn(s, c) = [down |-> left, at |-> s.at, acts |-> s.acts,
                           typed |-> s.typed]
    BY <2>2, <1>1 DEF Screen
  <2> QED BY <2>3, <2>4 DEF Screen, typed, left
<1>2. \A d \in D : screen[d] = Screen(screen[d])
  BY DEF ScreensOK
<1>3. DOMAIN screen = D
  BY DEF ScreensOK
<1>4. screen' = [d \in D |->
                   IF d \notin All THEN screen[d]
                   ELSE IF type = "press" THEN PressOn(screen[d], c)
                   ELSE ReleaseOn(screen[d], c)]
  BY <1>3 DEF FakeKeyMod
<1>5. \A d \in D : screen'[d] = Screen(screen'[d])
  <2>1. ASSUME NEW d \in D PROVE screen'[d] = Screen(screen'[d])
    <3>1. screen'[d] \in {screen[d], PressOn(screen[d], c),
                          ReleaseOn(screen[d], c)}
      BY <1>4
    <3> QED BY <1>1, <1>2, <3>1
  <2> QED BY <2>1
<1>6. ScreensOK'
  BY <1>4, <1>5 DEF ScreensOK
<1>7. Main \in D /\ Main \in All
  BY DEF All
<1> QED BY <1>1, <1>2, <1>4, <1>6, <1>7

(* The other ways to change the screens keep them records. *)
LEMMA ScreensStay ==
    ASSUME OptsOK, ScreensOK
    PROVE  /\ \A type, k, core : FakeKey(type, k, core) => ScreensOK'
           /\ \A type, b : FakeButton(type, b) => ScreensOK'
           /\ \A p : FakeMotion(p) => ScreensOK'
           /\ \A dx : FakeRelative(dx) => ScreensOK'
<1> DEFINE D == {Main} \cup Displays
<1>2. \A d \in D : screen[d] = Screen(screen[d])
  BY DEF ScreensOK
<1>3. DOMAIN screen = D
  BY DEF ScreensOK
<1>1. ASSUME NEW s, NEW type, NEW w, s = Screen(s)
      PROVE  Event(s, type, w) = Screen(Event(s, type, w))
  <2> DEFINE held == IF type = "press" THEN s.down \cup {w} ELSE s.down \ {w}
             done == Append(s.acts, [type |-> type, what |-> w, at |-> s.at])
  <2>1. Event(s, type, w) = [[s EXCEPT !.down = held] EXCEPT !.acts = done]
    BY DEF Event
  <2> HIDE DEF held, done
  <2>2. Event(s, type, w) = [down |-> held, at |-> s.at, acts |-> done,
                             typed |-> s.typed]
    BY <2>1, <1>1 DEF Screen
  <2> QED BY <2>2 DEF Screen
<1>4. \A s, p : s = Screen(s) =>
        [s EXCEPT !.at = p] = Screen([s EXCEPT !.at = p])
  BY DEF Screen
<1>5. ASSUME NEW type, NEW k, NEW core, FakeKey(type, k, core)
      PROVE  ScreensOK'
  <2>1. screen' = [d \in D |->
                 IF d = Main \/ (core /\ d \in opts.distr)
                 THEN Event(screen[d], type, k) ELSE screen[d]]
    BY <1>3, <1>5 DEF FakeKey
  <2>2. \A d \in D : screen'[d] = Screen(screen'[d])
    BY <2>1, <1>1, <1>2
  <2> QED BY <2>1, <2>2 DEF ScreensOK
<1>6. ASSUME NEW type, NEW b, FakeButton(type, b) PROVE ScreensOK'
  <2>1. screen' = [d \in D |->
                 IF d \in All THEN Event(screen[d], type, b) ELSE screen[d]]
    BY <1>3, <1>6 DEF FakeButton
  <2>2. \A d \in D : screen'[d] = Screen(screen'[d])
    BY <2>1, <1>1, <1>2
  <2> QED BY <2>1, <2>2 DEF ScreensOK
<1>7. ASSUME NEW p, FakeMotion(p) PROVE ScreensOK'
  <2>1. screen' = [d \in D |->
                    IF d = Main THEN [screen[d] EXCEPT !.at = NewPlace(p)]
                    ELSE IF d \in opts.distr
                    THEN [screen[d] EXCEPT !.at = p]
                    ELSE screen[d]]
    BY <1>3, <1>7 DEF FakeMotion
  <2>2. \A d \in D : screen'[d] = Screen(screen'[d])
    <3> DEFINE M(s, q) == [s EXCEPT !.at = q]
    <3>1. \A d \in D : screen'[d] \in
                {M(screen[d], NewPlace(p)), M(screen[d], p), screen[d]}
      BY <2>1
    <3>2. \A s, q : s = Screen(s) => M(s, q) = Screen(M(s, q))
      BY <1>4
    <3> HIDE DEF M
    <3> QED BY <3>1, <3>2, <1>2
  <2> QED BY <2>1, <2>2 DEF ScreensOK
<1>8. ASSUME NEW dx, FakeRelative(dx) PROVE ScreensOK'
  <2>1. screen' = [d \in D |->
                 IF d \in All /\ screen[d].at >= 0
                 THEN [screen[d] EXCEPT !.at = @ + dx] ELSE screen[d]]
    BY <1>3, <1>8 DEF FakeRelative
  <2>2. \A d \in D : screen'[d] = Screen(screen'[d])
    <3> DEFINE M(s, q) == [s EXCEPT !.at = q]
    <3>1. \A d \in D : screen'[d] \in
                {M(screen[d], screen[d].at + dx), screen[d]}
      BY <2>1
    <3>2. \A s, q : s = Screen(s) => M(s, q) = Screen(M(s, q))
      BY <1>4
    <3> HIDE DEF M
    <3> QED BY <3>1, <3>2, <1>2
  <2> QED BY <2>1, <2>2 DEF ScreensOK
<1> QED BY <1>5, <1>6, <1>7, <1>8

(* A line of a file keeps them records. *)
LEMMA LineKeepsScreens ==
    ASSUME OptsOK, ScreensOK, ReplayLine(Buttons)
    PROVE  ScreensOK'
<1> DEFINE l == Head(todo)
<1>1. CASE ScriptLine(l)
  BY <1>1, ScreensStay, TypingOnMain DEF ScriptLine
<1>2. CASE EventLine(l, Buttons)
  <2>1. UNCHANGED screen => ScreensOK'
    BY DEF ScreensOK
  <2> QED BY <1>2, <2>1, ScreensStay DEF EventLine
<1> QED BY <1>1, <1>2 DEF ReplayLine

(* At first nothing is held and nothing is faked.                           *)
LEMMA HeldInit == TripInit => HeldInv
<1> SUFFICES ASSUME TripInit PROVE HeldInv
  OBVIOUS
<1>1. OptsOK
  <2>1. 0 \in Int /\ {} \in SUBSET Displays /\ {} \in SUBSET Devices
    OBVIOUS
  <2> QED BY <2>1 DEF TripInit, FakeInit, OptsOK
<1>2. ScreensOK
  <2>1. Blank = Screen(Blank)
    BY DEF Blank, Screen
  <2> QED BY <2>1 DEF TripInit, FakeInit, ScreensOK
<1>3. ~Retyping
  BY DEF TripInit, FakeInit, Retyping
<1> QED BY <1>1, <1>2, <1>3 DEF HeldInv

(* A step that leaves the replayer alone.                                   *)
LEMMA HeldUntouched ==
    ASSUME HeldInv, UNCHANGED fakeVars, Retyping' => Retyping
    PROVE  HeldInv'
  BY DEF HeldInv, fakeVars, OptsOK, ScreensOK, Retyping, Holding

(* HeldInv is inductive: each step of the user, of a replay and of a        *)
(* retyping keeps it.                                                       *)
LEMMA HeldStep ==
    ASSUME HeldInv, [TripNext]_tripVars
    PROVE  HeldInv'
<1>1. CASE UNCHANGED tripVars
  BY <1>1, HeldUntouched DEF tripVars, fakeVars, Retyping
<1>2. CASE Record
  <2>1. ~Retyping'
    BY <1>2 DEF Record, fakeVars, Retyping
  <2> QED BY <1>2, <2>1, HeldUntouched DEF Record
<1>3. CASE UserActs \/ EndRecord
  BY <1>3, HeldUntouched DEF UserActs, EndRecord, fakeVars, Retyping
<1>4. CASE Replay \/ PlayScript
  <2>1. PICK t : BeginFaking("replay", t)
    BY <1>4 DEF Replay, PlayScript
  <2>2. ~Retyping'
    BY <2>1 DEF BeginFaking, Retyping
  <2> QED BY <2>1, <2>2, BeginRetyping DEF HeldInv
<1>5. CASE Retype
  <2>1. PICK t \in Texts : BeginFaking("retype", t)
    BY <1>5 DEF Retype
  <2> QED BY <2>1, BeginRetyping DEF HeldInv
<1>6. CASE Playing
  <2> USE <1>6 DEF Playing
  <2>1. CASE ReplayLine(Buttons)
    <3>1. OptsOK'
      BY <2>1 DEF ReplayLine, HeldInv, OptsOK
    <3>2. ~Retyping'
      BY <2>1 DEF ReplayLine, Retyping
    <3> QED BY <2>1, <3>1, <3>2, LineKeepsScreens DEF HeldInv
  <2>2. CASE CrashOnLine(Buttons) \/ EndOfReplay \/ StopOfReplay \/ TypeStop
               \/ EndOfText
    BY <2>2 DEF CrashOnLine, EndOfReplay, StopOfReplay, TypeStop, EndOfText,
                End, HeldInv, OptsOK, ScreensOK, Retyping
  <2>3. CASE TypeKey
    BY <2>3 DEF TypeKey, HeldInv, OptsOK, ScreensOK, Retyping, Holding
  <2>4. CASE TypePress
    <3>1. OptsOK'
      BY <2>4 DEF TypePress, HeldInv, OptsOK
    <3>2. ScreensOK' /\ screen'[Main].down = screen[Main].down
              \cup {Key(Head(todo))} \cup Modifiers(Head(todo))
      BY <2>4, TypingOnMain DEF TypePress, HeldInv
    <3>3. Retyping' => Retyping
      BY <2>4 DEF TypePress, Retyping
    <3>4. /\ todo' = todo /\ todo # <<>> /\ pressed' = TRUE /\ ~pressed
          /\ downBefore' = downBefore
      BY <2>4 DEF TypePress
    <3> QED BY <3>1, <3>2, <3>3, <3>4 DEF HeldInv, Holding
  <2>5. CASE TypeRelease
    <3>1. OptsOK'
      BY <2>5 DEF TypeRelease, HeldInv, OptsOK
    <3>2. /\ ScreensOK'
          /\ opts.distr = {} => screen'[Main].down =
               screen[Main].down
                 \ ({Key(Head(todo))} \cup Modifiers(Head(todo)))
      <4>1. "release" # "press"
        OBVIOUS
      <4> QED BY <2>5, <4>1, TypingOnMain DEF TypeRelease, HeldInv
    <3>3. Retyping' => Retyping /\ opts.distr = {}
      BY <2>5 DEF TypeRelease, Retyping
    <3>4. /\ todo' = Tail(todo) /\ pressed /\ pressed' = FALSE
          /\ downBefore' = downBefore
      BY <2>5 DEF TypeRelease
    <3>5. todo \in Seq(Chars) /\ todo # <<>> => Tail(todo) \in Seq(Chars)
      OBVIOUS
    <3> QED BY <3>1, <3>2, <3>3, <3>4, <3>5 DEF HeldInv, Holding
  <2> QED BY <2>1, <2>2, <2>3, <2>4, <2>5 DEF FakeNext
<1> QED BY <1>1, <1>2, <1>3, <1>4, <1>5, <1>6 DEF TripNext

(* It ends between two characters. *)
LEMMA NothingHeldStep ==
    ASSUME HeldInv, [TripNext]_tripVars
    PROVE  (Retyping /\ faker' = "idle") /\ tripVars' # tripVars =>
                screen[Main].down \subseteq downBefore
<1> SUFFICES ASSUME Retyping, faker' = "idle", TripNext
             PROVE  screen[Main].down \subseteq downBefore
  OBVIOUS
<1>1. faker = "retype"
  BY DEF Retyping
<1>2. ~(Record \/ Replay \/ PlayScript \/ Retype)
  BY <1>1 DEF Record, Replay, PlayScript, Retype, BeginFaking
<1>3. ~(UserActs \/ EndRecord)
  BY <1>1 DEF UserActs, EndRecord, fakeVars
<1>4. ~(ReplayLine(Buttons) \/ CrashOnLine(Buttons) \/ EndOfReplay
          \/ StopOfReplay)
  BY <1>1 DEF ReplayLine, CrashOnLine, EndOfReplay, StopOfReplay
<1>5. ~(TypeKey \/ TypePress \/ TypeRelease)
  BY <1>1 DEF TypeKey, TypePress, TypeRelease
<1>6. TypeStop \/ EndOfText
  BY <1>2, <1>3, <1>4, <1>5 DEF TripNext, Playing, FakeNext
<1>7. ~pressed
  BY <1>6 DEF TypeStop, EndOfText, HeldInv
<1> QED BY <1>7 DEF HeldInv, Holding

(* A retyping session without a distribution list leaves no key down that   *)
(* was not down when it began, however it ends: TypePress presses what      *)
(* TypeRelease releases, and a session ends between two characters.         *)
THEOREM NothingIsHeld == TripSpec => NothingHeld
<1>1. HeldInv /\ [TripNext]_tripVars => HeldInv'
  BY HeldStep
<1>2. HeldInv /\ [TripNext]_tripVars =>
        [Retyping /\ faker' = "idle" =>
           screen[Main].down \subseteq downBefore]_tripVars
  BY NothingHeldStep
<1> QED BY HeldInit, <1>1, <1>2, PTL DEF TripSpec, NothingHeld

-----------------------------------------------------------------------------
(* The last motion of a file. *)

(* Induction on the natural numbers, for a set of them.                     *)
LEMMA Induction ==
    ASSUME NEW S, 0 \in S, \A n \in Nat : n \in S => n + 1 \in S
    PROVE  Nat \subseteq S
<1> SUFFICES ASSUME Nat \ S # {} PROVE FALSE
  OBVIOUS
<1>1. PICK m \in Nat \ S : \A n \in Nat \ S : <<n, m>> \notin OpToRel(<, Nat)
  BY NatLessThanWellFounded, WFMin
<1>2. m - 1 \in Nat /\ m - 1 < m
  OBVIOUS
<1>3. <<m - 1, m>> \in OpToRel(<, Nat)
  BY <1>2 DEF OpToRel
<1>4. m - 1 \in S
  BY <1>1, <1>2, <1>3
<1>5. (m - 1) + 1 \in S
  BY <1>2, <1>4
<1> QED BY <1>5

(* What a file holds. *)
PressLines  == [dev : {"core", "slave", "master"},
                type : {"press", "release"}, what : Keys \cup Buttons]
MotionLines == [dev : {"core", "slave"}, type : {"motion"}, what : Nat]
FileLines   == PressLines \cup MotionLines
Positions   == Nat \cup {Nowhere}
UserActions == [type : {"press", "release"}, what : Keys \cup Buttons,
                at : Positions]

FileOK ==
    /\ file \in Seq(FileLines) /\ acts \in Seq(UserActions)
    /\ at \in Positions /\ heldAt \in Nat /\ moves \in Nat
    /\ xinput \in BOOLEAN /\ lastMotion \in BOOLEAN /\ long \in BOOLEAN
    /\ rec \in [firstLast : BOOLEAN, action : SUBSET Keys, masters : BOOLEAN]

(* Where the user is, and the file, while a row of motions goes on.         *)
LastInv ==
    /\ (xinput \/ ~rec.firstLast) /\ at # Nowhere => LastPlace(file) = at
    /\ ~xinput /\ rec.firstLast =>
         /\ moves = 0 /\ at # Nowhere =>
              ~lastMotion /\ (long => LastPlace(file) = at)
         /\ moves > 0 => lastMotion
         /\ moves > 1 => heldAt = at

(* Every set of positions of a sequence has a last one.                     *)
LEMMA HasLast ==
    ASSUME NEW n \in Nat, NEW T, T \subseteq 1..n, T # {}
    PROVE  \E i \in T : \A j \in T : j <= i
<1> DEFINE S == {m \in Nat : \A U \in SUBSET (1..m) :
                    U # {} => \E i \in U : \A j \in U : j <= i}
<1>1. 0 \in S
  <2>1. \A U \in SUBSET (1..0) : U = {}
    OBVIOUS
  <2> QED BY <2>1
<1>2. ASSUME NEW m \in Nat, m \in S PROVE m + 1 \in S
  <2>1. ASSUME NEW U \in SUBSET (1..(m + 1)), U # {}
        PROVE  \E i \in U : \A j \in U : j <= i
    <3>1. CASE m + 1 \in U
      BY <3>1
    <3>2. CASE m + 1 \notin U
      <4>1. U \in SUBSET (1..m)
        BY <3>2
      <4> QED BY <4>1, <2>1, <1>2
    <3> QED BY <3>1, <3>2
  <2> QED BY <2>1
<1>3. n \in S
  <2> HIDE DEF S
  <2> QED BY <1>1, <1>2, Induction
<1> QED BY <1>3

(* One more line is the last motion if it is a motion.                      *)
LEMMA LastPlaceOf ==
    ASSUME NEW f \in Seq(FileLines), NEW l \in FileLines
    PROVE  LastPlace(Append(f, l)) =
             IF l.type = "motion" THEN l.what ELSE LastPlace(f)
<1> DEFINE g == Append(f, l)
           n == Len(f)
           M(h) == {i \in DOMAIN h : h[i].type = "motion"}
<1>1. /\ n \in Nat /\ DOMAIN f = 1..n
      /\ DOMAIN g = 1..(n + 1) /\ g[n + 1] = l
      /\ \A i \in 1..n : g[i] = f[i]
  OBVIOUS
<1> HIDE DEF g, n
<1>2. CASE l.type = "motion"
  <2>1. n + 1 \in M(g) /\ \A j \in M(g) : j <= n + 1
    BY <1>1, <1>2
  <2>2. (CHOOSE i \in M(g) : \A j \in M(g) : j <= i) = n + 1
    <3> DEFINE c == CHOOSE i \in M(g) : \A j \in M(g) : j <= i
    <3>1. c \in M(g) /\ \A j \in M(g) : j <= c
      BY <2>1
    <3>2. c \in Nat
      BY <3>1, <1>1
    <3> HIDE DEF c
    <3>3. c <= n + 1 /\ n + 1 <= c
      BY <2>1, <3>1
    <3> QED BY <1>1, <3>2, <3>3 DEF c
  <2> QED BY <1>1, <1>2, <2>1, <2>2 DEF LastPlace, g
<1>3. CASE l.type # "motion"
  <2>1. M(g) = M(f)
    BY <1>1, <1>3
  <2>2. CASE M(f) = {}
    BY <1>3, <2>1, <2>2 DEF LastPlace, g
  <2>3. CASE M(f) # {}
    <3> DEFINE c == CHOOSE i \in M(f) : \A j \in M(f) : j <= i
    <3>1. c \in M(f)
      <4>1. M(f) \subseteq 1..n
        BY <1>1
      <4>2. \E i \in M(f) : \A j \in M(f) : j <= i
        <5> HIDE DEF M
        <5> QED BY <1>1, <2>3, <4>1, HasLast
      <4> HIDE DEF M
      <4> QED BY <4>2
    <3>2. c \in 1..n
      BY <1>1, <3>1
    <3>3. g[c] = f[c]
      BY <1>1, <3>2
    <3>4. LastPlace(g) = g[c]. what
      BY <2>1, <2>3 DEF LastPlace
    <3>5. LastPlace(f) = f[c].what
      BY <2>3 DEF LastPlace
    <3> HIDE DEF c
    <3> QED BY <1>3, <3>3, <3>4, <3>5 DEF g
  <2> QED BY <2>2, <2>3
<1> QED BY <1>2, <1>3

(* What a press, a release or a motion adds to the file.                    *)
Flushed == IF rec.firstLast /\ lastMotion
           THEN Append(file, LineOf("core", "motion", heldAt)) ELSE file

(* What a core press or release writes: the motion held back, if there is   *)
(* one, and then its own line, unless it is a key that is not kept.         *)
LEMMA CoreWrites ==
    ASSUME FileOK, NEW type \in {"press", "release"},
           NEW w \in Keys \cup Buttons, PrintCore(type, w)
    PROVE  /\ Flushed \in Seq(FileLines)
           /\ file' = IF w \in Buttons \/ Keeps(w)
                      THEN Append(Flushed, LineOf("core", type, w))
                      ELSE Flushed
           /\ file' \in Seq(FileLines)
<1>1. LineOf("core", "motion", heldAt) \in FileLines
  BY DEF FileOK, LineOf, FileLines, MotionLines
<1>2. LineOf("core", type, w) \in FileLines
  BY DEF LineOf, FileLines, PressLines
<1>3. \A f \in Seq(FileLines), l \in FileLines :
        f \o <<l>> = Append(f, l) /\ Append(f, l) \in Seq(FileLines)
        /\ f \o <<>> = f
  OBVIOUS
<1>4. Flushed \in Seq(FileLines)
  BY <1>1, <1>3 DEF Flushed, FileOK
<1>5. file \o HeldBack(type) = Flushed
  BY <1>1, <1>3 DEF FileOK, HeldBack, Flushed
<1> QED BY <1>2, <1>3, <1>4, <1>5 DEF PrintCore

(* What an event of an XI device writes: the line of the slave and, if      *)
(* masters are recorded, that of the master.                                *)
LEMMA XIWrites ==
    ASSUME FileOK, NEW type, NEW w, PrintXI(type, w),
           LineOf("slave", type, w) \in FileLines,
           type # "motion" => LineOf("master", type, w) \in FileLines
    PROVE  /\ file' = IF rec.masters /\ type # "motion"
                      THEN Append(Append(file, LineOf("slave", type, w)),
                                  LineOf("master", type, w))
                      ELSE Append(file, LineOf("slave", type, w))
           /\ file' \in Seq(FileLines)
<1>3. \A f \in Seq(FileLines), l \in FileLines :
        f \o <<l>> = Append(f, l) /\ Append(f, l) \in Seq(FileLines)
        /\ f \o <<>> = f
  OBVIOUS
<1> QED BY <1>3 DEF PrintXI, FileOK

(* At first there is no file.                                               *)
LEMMA FileInit == TripInit => FileOK /\ LastInv
<1> SUFFICES ASSUME RecInit PROVE FileOK /\ LastInv
  BY DEF TripInit
<1>1. file \in Seq(FileLines) /\ acts \in Seq(UserActions)
  BY DEF RecInit
<1>2. rec \in [firstLast : BOOLEAN, action : SUBSET Keys, masters : BOOLEAN]
  BY DEF RecInit
<1> QED BY <1>1, <1>2 DEF RecInit, FileOK, LastInv, Positions, Nowhere

(* A recording begins with an empty file.                                   *)
LEMMA FileStarts ==
    ASSUME FileOK, StartRecording
    PROVE  FileOK' /\ LastInv'
  BY RecordingsAssumption
     DEF FileOK, StartRecording, LastInv, Positions, Nowhere

(* A press or release of the user keeps FileOK and LastInv: what was held   *)
(* back is written before it.                                               *)
LEMMA FileActs ==
    ASSUME FileOK, LastInv, NEW type \in {"press", "release"},
           NEW w \in Keys \cup Buttons, Act(type, w)
    PROVE  FileOK' /\ LastInv'
<1>0. \A d \in {"core", "slave", "master"} :
        LineOf(d, type, w) \in FileLines /\ LineOf(d, type, w).type # "motion"
  BY DEF LineOf, PressLines, FileLines
<1>1. LET l == LineOf("core", "motion", heldAt)
      IN  l \in FileLines /\ l.type = "motion" /\ l.what = heldAt
  BY DEF LineOf, MotionLines, FileLines, FileOK
<1>2. acts' \in Seq(UserActions)
  <2>1. [type |-> type, what |-> w, at |-> at] \in UserActions
    BY DEF UserActions, FileOK
  <2> QED BY <2>1 DEF Act, FileOK
<1>5. /\ moves = 0 => long' = long
      /\ moves # 0 /\ long' => moves > 1
      /\ long' \in BOOLEAN
  <2>1. CASE moves = 0
    BY <2>1 DEF Act, FileOK
  <2>2. CASE moves # 0
    <3>1. (moves > 1) \in BOOLEAN
      OBVIOUS
    <3>2. long' = (moves > 1)
      BY <2>2 DEF Act
    <3>3. long' \in BOOLEAN
      BY <3>1, <3>2, Zenon
    <3>4. long' => moves > 1
      BY <3>2, Zenon
    <3> QED BY <2>2, <3>3, <3>4
  <2> QED BY <2>1, <2>2
<1>6. moves' = 0 /\ UNCHANGED <<xinput, rec, at>>
  BY DEF Act
<1>3. CASE xinput
  <2>1. PrintXI(type, w)
    BY <1>3 DEF Act
  <2>2. /\ file' = IF rec.masters
                   THEN Append(Append(file, LineOf("slave", type, w)),
                               LineOf("master", type, w))
                   ELSE Append(file, LineOf("slave", type, w))
        /\ file' \in Seq(FileLines)
    BY <1>0, <2>1, XIWrites
  <2>3. LastPlace(file') = LastPlace(file)
    <3>1. Append(file, LineOf("slave", type, w)) \in Seq(FileLines)
      BY <1>0 DEF FileOK
    <3> QED BY <1>0, <2>2, <3>1, LastPlaceOf DEF FileOK
  <2>4. FileOK'
    BY <1>2, <1>5, <1>6, <2>1, <2>2 DEF PrintXI, FileOK
  <2>5. LastInv'
    BY <1>3, <1>6, <2>3 DEF LastInv
  <2> QED BY <2>4, <2>5
<1>4. CASE ~xinput
  <2>1. PrintCore(type, w)
    BY <1>4 DEF Act
  <2>2. /\ Flushed \in Seq(FileLines) /\ file' \in Seq(FileLines)
        /\ file' = IF w \in Buttons \/ Keeps(w)
                   THEN Append(Flushed, LineOf("core", type, w)) ELSE Flushed
    BY <2>1, CoreWrites
  <2>3. LastPlace(file') = LastPlace(Flushed)
    BY <1>0, <2>2, LastPlaceOf
  <2>4. LastPlace(Flushed) =
          IF rec.firstLast /\ lastMotion THEN heldAt ELSE LastPlace(file)
    BY <1>1, LastPlaceOf DEF FileOK, Flushed
  <2>5. FileOK'
    BY <1>2, <1>5, <1>6, <2>1, <2>2 DEF PrintCore, FileOK
  <2>6. heldAt' = heldAt /\ lastMotion' = FALSE
    BY <2>1 DEF PrintCore
  <2>7. LastInv'
    <3>1. moves \in Nat /\ rec.firstLast \in BOOLEAN /\ lastMotion \in BOOLEAN
      BY DEF FileOK
    <3>2. ~rec.firstLast /\ at # Nowhere => LastPlace(file') = at
      BY <1>4, <2>3, <2>4 DEF LastInv
    <3>3. rec.firstLast /\ at # Nowhere /\ long' => LastPlace(file') = at
      <4> SUFFICES ASSUME rec.firstLast, at # Nowhere, long'
                   PROVE  LastPlace(Flushed) = at
        BY <2>3
      <4>1. CASE moves = 0
        BY <1>4, <1>5, <2>4, <4>1 DEF LastInv
      <4>2. CASE moves # 0
        <5>1. moves > 1 /\ moves > 0
          BY <1>5, <3>1, <4>2
        <5> QED BY <1>4, <2>4, <5>1 DEF LastInv
      <4> QED BY <4>1, <4>2
    <3> QED BY <1>4, <1>6, <2>6, <3>2, <3>3 DEF LastInv
  <2> QED BY <2>5, <2>7
<1> QED BY <1>3, <1>4

(* A motion keeps FileOK and LastInv: the first of a row is written, the    *)
(* others are held back.                                                    *)
LEMMA FileMoves ==
    ASSUME FileOK, LastInv, NEW p \in Places, Move(p)
    PROVE  FileOK' /\ LastInv'
<1>1. p \in Nat /\ p # Nowhere /\ at' = p /\ moves' = moves + 1
      /\ UNCHANGED <<xinput, rec, acts, long>>
  BY PlacesAssumption DEF Move, Nowhere
<1>2. \A d \in {"core", "slave"} :
        LET l == LineOf(d, "motion", p)
        IN  l \in FileLines /\ l.type = "motion" /\ l.what = p
  BY <1>1 DEF LineOf, MotionLines, FileLines
<1>3. CASE xinput
  <2>1. PrintXI("motion", p)
    BY <1>3 DEF Move
  <2>2. /\ file' = Append(file, LineOf("slave", "motion", p))
        /\ file' \in Seq(FileLines)
    BY <1>2, <2>1, XIWrites
  <2>3. LastPlace(file') = p
    BY <1>2, <2>2, LastPlaceOf DEF FileOK
  <2> QED BY <1>1, <1>3, <2>1, <2>2, <2>3
             DEF PrintXI, FileOK, LastInv, Positions
<1>4. CASE ~xinput /\ HoldBack(p)
  BY <1>1, <1>4 DEF HoldBack, FileOK, LastInv, Positions
<1>5. CASE ~xinput /\ PrintMotion(p)
  <2>1. /\ file' = Append(file, LineOf("core", "motion", p))
        /\ file' \in Seq(FileLines)
    BY <1>2, <1>5 DEF PrintMotion, FileOK
  <2>2. LastPlace(file') = p
    BY <1>2, <2>1, LastPlaceOf DEF FileOK
  <2> QED BY <1>1, <1>5, <2>1, <2>2
             DEF PrintMotion, FileOK, LastInv, Positions
<1> QED BY <1>3, <1>4, <1>5 DEF Move, FileOK

(* FileOK and LastInv are inductive.                                        *)
LEMMA FileStep ==
    ASSUME FileOK, LastInv, [TripNext]_tripVars
    PROVE  FileOK' /\ LastInv'
<1>1. CASE UNCHANGED recVars
  BY <1>1 DEF recVars, userVars, FileOK, LastInv
<1>2. CASE Record
  BY <1>2, FileStarts DEF Record
<1>3. CASE UserActs
  BY <1>3, FileActs, FileMoves DEF UserActs, RecNext, Press, Release
<1> QED BY <1>1, <1>2, <1>3 DEF TripNext, tripVars, EndRecord, Replay,
          PlayScript, Retype, Playing

(* With --first-last the last motion in the file before a press or a        *)
(* release is where the pointer is, if the last row of motions was longer   *)
(* than one: the last motion of the row is held back (HeldBack) and         *)
(* written by the press or release (PrintCore).                             *)
THEOREM LastMotionIsKept == TripSpec => []LastIsKept
<1>1. FileOK /\ LastInv => LastIsKept
  BY DEF LastInv, LastIsKept, FileOK
<1> QED BY FileInit, FileStep, <1>1, PTL DEF TripSpec

-----------------------------------------------------------------------------
(* What is typed. *)

(* A character that needs neither Control nor Lock is typed with no         *)
(* modifier or with one of its own row: Modifiers asks the rows in an       *)
(* order of its own.                                                        *)
LEMMA ModsOf ==
    ASSUME NEW c, Plainly(c)
    PROVE  \/ "none" \in Under[c] /\ Modifiers(c) = {}
           \/ \E m \in Mods : m \in Under[c] /\ Modifiers(c) = {m}
<1> DEFINE fits == {i \in DOMAIN Masks : Masks[i] \in Under[c]}
           k == CHOOSE i \in fits : \A j \in fits : i <= j
<1>1. /\ DOMAIN Masks = 1..4 /\ Masks[1] = "shift" /\ Masks[2] = "control"
      /\ Masks[3] = "lock" /\ Masks[4] = "mod5"
      /\ Rows[1] = "shift" /\ Rows[4] = "mod5"
  BY DEF Masks, Rows
<1>2. CASE "none" \in Under[c]
  BY <1>2 DEF Modifiers
<1>3. CASE "none" \notin Under[c] /\ "shift" \in Under[c]
  <2>1. 1 \in fits /\ \A j \in fits : 1 <= j
    BY <1>1, <1>3
  <2>2. k = 1
    <3> HIDE DEF fits
    <3>1. k \in fits /\ \A j \in fits : k <= j
      BY <2>1
    <3>2. k \in 1..4
      BY <1>1, <3>1 DEF fits
    <3> HIDE DEF k
    <3>3. k <= 1 /\ 1 <= k
      BY <2>1, <3>1
    <3> QED BY <3>2, <3>3
  <2>3. Modifiers(c) = {Rows[k]}
    BY <1>3, <2>1 DEF Modifiers
  <2> HIDE DEF k
  <2> QED BY <1>1, <1>3, <2>2, <2>3 DEF Mods
<1>4. CASE Under[c] = {"mod5"}
  <2>1. fits = {4}
    BY <1>1, <1>4
  <2>2. Modifiers(c) = {Rows[k]}
    BY <1>4, <2>1 DEF Modifiers
  <2>3. k = 4
    <3> HIDE DEF fits
    <3>1. \A j \in fits : j = 4
      BY <2>1
    <3>2. 4 \in fits /\ \A j \in fits : 4 <= j
      BY <2>1
    <3> QED BY <3>1, <3>2
  <2> HIDE DEF k
  <2> QED BY <1>1, <1>4, <2>2, <2>3 DEF Mods
<1> QED BY <1>2, <1>3, <1>4 DEF Plainly

(* With no other modifier down such a key types its character.              *)
LEMMA CharTyped ==
    ASSUME NEW c \in Chars, Plainly(c), NEW held, held \cap Mods = {}
    PROVE  Typed(Key(c), held \cup Modifiers(c)) = {c}
<1> DEFINE mods == (held \cup Modifiers(c)) \cap Mods
           mask == IF mods = {} THEN "none" ELSE CHOOSE m \in mods : TRUE
<1>1. mods = Modifiers(c)
  BY ModsOf
<1>2. mask \in Under[c] /\ Cardinality(mods) <= 1
  <2>1. CASE "none" \in Under[c] /\ Modifiers(c) = {}
    <3>1. Cardinality({}) = 0
      BY FS_EmptySet
    <3>2. mods = {}
      BY <1>1, <2>1
    <3> HIDE DEF mods
    <3> QED BY <2>1, <3>1, <3>2
  <2>2. ASSUME NEW m \in Mods, m \in Under[c], Modifiers(c) = {m}
        PROVE  mask \in Under[c] /\ Cardinality(mods) <= 1
    <3>1. mods = {m}
      BY <1>1, <2>2
    <3>2. Cardinality({m}) = 1
      BY FS_Singleton
    <3> HIDE DEF mods
    <3>3. (CHOOSE x \in {m} : TRUE) = m
      OBVIOUS
    <3> QED BY <2>2, <3>1, <3>2, <3>3
  <2> QED BY <2>1, <2>2, ModsOf
<1>3. \A b \in Chars : KeyOf[b] = KeyOf[c] /\ mask \in Under[b] => b = c
  BY <1>2, KeyboardAssumption DEF Chars
<1>4. Typed(Key(c), held \cup Modifiers(c)) =
        {b \in Chars : KeyOf[b] = Key(c) /\ mask \in Under[b]
                         /\ Cardinality(mods) <= 1}
  BY RowFacts DEF Typed, Chars
<1> HIDE DEF mods, mask
<1> QED BY <1>2, <1>3, <1>4 DEF Key

Undisturbed ==
    /\ downBefore \cap Mods = {}
    /\ \A i \in 1..Len(whole) : Plainly(whole[i])

(* What is left to be typed is the end of the file, and what was typed are  *)
(* the characters before it.                                                *)
TypedInv ==
    Retyping =>
        /\ whole \in Seq(Chars) /\ Len(todo) <= Len(whole)
        /\ \A i \in 1..Len(todo) :
             todo[i] = whole[Len(whole) - Len(todo) + i]
        /\ Undisturbed =>
             /\ screen[Main].typed \in Seq(SUBSET Chars)
             /\ Len(screen[Main].typed) =
                  Len(whole) - Len(todo) + IF pressed THEN 1 ELSE 0
             /\ \A i \in 1..Len(screen[Main].typed) :
                  screen[Main].typed[i] = {whole[i]}

(* What neither types nor starts to type keeps TypedInv.                    *)
LEMMA TypedUntouched ==
    ASSUME TypedInv, Retyping' => Retyping,
           UNCHANGED <<whole, todo, pressed, screen, downBefore>>
    PROVE  TypedInv'
  BY DEF TypedInv, Undisturbed

(* A retyping begins with all of its text ahead.                            *)
LEMMA TypedBegins ==
    ASSUME HeldInv, NEW t \in Texts, BeginFaking("retype", t)
    PROVE  TypedInv'
<1>1. t \in Seq(Chars) /\ whole' = t /\ todo' = t /\ pressed' = FALSE
  BY TextsAssumption DEF BeginFaking, Chars
<1>2. screen'[Main].typed = <<>>
  BY DEF BeginFaking, HeldInv, ScreensOK, Blank
<1>3. /\ screen'[Main].typed \in Seq(SUBSET Chars)
      /\ Len(screen'[Main].typed) = 0
  BY <1>2
<1> QED BY <1>1, <1>3 DEF TypedInv

(* Pressing a character leaves it half typed: its modifiers, and then its   *)
(* key, are down.                                                           *)
LEMMA TypedPress ==
    ASSUME HeldInv, TypedInv, TypePress, recorded' = recorded
    PROVE  TypedInv'
<1> SUFFICES ASSUME Retyping' PROVE TypedInv'
  BY DEF TypedInv
<1>1. /\ Retyping /\ todo # <<>> /\ ~pressed /\ pressed' = TRUE
      /\ UNCHANGED <<whole, todo, downBefore>>
  BY DEF TypePress, Retyping
<1> DEFINE s == screen[Main].typed
           c == Head(todo)
           n == Len(whole) - Len(todo)
<1>2. /\ todo \in Seq(Chars) /\ Len(todo) \in Nat /\ Len(todo) > 0
      /\ whole \in Seq(Chars) /\ Len(whole) \in Nat /\ Len(todo) <= Len(whole)
      /\ c = todo[1] /\ c \in Chars
  BY <1>1 DEF HeldInv, TypedInv
<1>3. c = whole[n + 1] /\ n + 1 \in 1..Len(whole)
  BY <1>1, <1>2 DEF TypedInv
<1>4. screen'[Main].typed =
        Append(s, Typed(Key(c), screen[Main].down \cup Modifiers(c)))
  BY TypingOnMain DEF HeldInv, TypePress
<1>5. ASSUME Undisturbed
      PROVE  /\ screen'[Main].typed \in Seq(SUBSET Chars)
             /\ Len(screen'[Main].typed) = n + 1
             /\ \A i \in 1..Len(screen'[Main].typed) :
                  screen'[Main].typed[i] = {whole[i]}
  <2>1. screen[Main].down \cap Mods = {}
    BY <1>1, <1>5 DEF HeldInv, Holding, Undisturbed
  <2>2. Plainly(c)
    BY <1>3, <1>5 DEF Undisturbed
  <2>3. screen'[Main].typed = Append(s, {c})
    BY <1>2, <1>4, <2>1, <2>2, CharTyped
  <2>4. /\ s \in Seq(SUBSET Chars) /\ Len(s) = n
        /\ \A i \in 1..Len(s) : s[i] = {whole[i]}
    BY <1>1, <1>2, <1>5 DEF TypedInv
  <2>5. {c} \in SUBSET Chars
    BY <1>2
  <2> HIDE DEF s, c, n
  <2> QED BY <1>3, <2>3, <2>4, <2>5
<1>6. Undisturbed' => Undisturbed
  BY <1>1 DEF Undisturbed
<1> HIDE DEF s, c
<1> QED BY <1>1, <1>2, <1>5, <1>6 DEF TypedInv

(* Releasing a character has typed it, and moves it from what is ahead to   *)
(* what was typed.                                                          *)
LEMMA TypedRelease ==
    ASSUME HeldInv, TypedInv, TypeRelease, recorded' = recorded
    PROVE  TypedInv'
<1> SUFFICES ASSUME Retyping' PROVE TypedInv'
  BY DEF TypedInv
<1>1. /\ Retyping /\ pressed /\ pressed' = FALSE /\ todo' = Tail(todo)
      /\ UNCHANGED <<whole, downBefore>>
  BY DEF TypeRelease, Retyping
<1>2. /\ todo \in Seq(Chars) /\ todo # <<>>
      /\ Len(todo) \in Nat /\ Len(todo) > 0
      /\ whole \in Seq(Chars) /\ Len(whole) \in Nat /\ Len(todo) <= Len(whole)
  BY <1>1 DEF HeldInv, TypedInv
<1>3. /\ Len(todo') = Len(todo) - 1
      /\ \A i \in 1..Len(todo') : todo'[i] = todo[i + 1]
  BY <1>1, <1>2
<1>4. screen'[Main].typed = screen[Main].typed
  <2>1. "release" # "press"
    OBVIOUS
  <2> QED BY <2>1, TypingOnMain DEF HeldInv, TypeRelease
<1>5. Undisturbed' => Undisturbed
  BY <1>1 DEF Undisturbed
<1>6. \A i \in 1..Len(todo') : todo'[i] = whole[Len(whole) - Len(todo') + i]
  <2>1. ASSUME NEW i \in 1..Len(todo')
        PROVE  todo'[i] = whole[Len(whole) - Len(todo') + i]
    <3>1. i + 1 \in 1..Len(todo) /\ todo'[i] = todo[i + 1]
      BY <1>2, <1>3
    <3>2. todo[i + 1] = whole[Len(whole) - Len(todo) + (i + 1)]
      BY <1>1, <3>1 DEF TypedInv
    <3>3. Len(whole) - Len(todo) + (i + 1) = Len(whole) - Len(todo') + i
      BY <1>2, <1>3
    <3> QED BY <3>1, <3>2, <3>3
  <2> QED BY <2>1
<1>7. Len(whole) - Len(todo') + 0 = Len(whole) - Len(todo) + 1
  BY <1>2, <1>3
<1> QED BY <1>1, <1>2, <1>3, <1>4, <1>5, <1>6, <1>7 DEF TypedInv

(* TypedInv is inductive, together with HeldInv.                            *)
LEMMA TypedStep ==
    ASSUME HeldInv, TypedInv, [TripNext]_tripVars
    PROVE  TypedInv'
<1>1. CASE UNCHANGED tripVars
  BY <1>1, TypedUntouched DEF tripVars, fakeVars, Retyping
<1>2. CASE Record \/ UserActs \/ EndRecord
  <2>1. UNCHANGED fakeVars /\ (Retyping' => Retyping)
    BY <1>2 DEF Record, UserActs, EndRecord, fakeVars, Retyping
  <2> QED BY <2>1, TypedUntouched DEF fakeVars
<1>3. CASE Replay \/ PlayScript
  BY <1>3 DEF Replay, PlayScript, BeginFaking, Retyping, TypedInv
<1>4. CASE Retype
  BY <1>4, TypedBegins DEF Retype
<1>5. CASE Playing
  <2> USE <1>5 DEF Playing
  <2>1. CASE ReplayLine(Buttons) \/ CrashOnLine(Buttons) \/ EndOfReplay
               \/ StopOfReplay \/ TypeStop \/ EndOfText
    BY <2>1 DEF ReplayLine, CrashOnLine, EndOfReplay, StopOfReplay, TypeStop, EndOfText,
                End, Retyping, TypedInv
  <2>2. CASE TypeKey
    BY <2>2, TypedUntouched DEF TypeKey, Retyping
  <2> QED BY <2>1, <2>2, TypedPress, TypedRelease DEF FakeNext
<1> QED BY <1>1, <1>2, <1>3, <1>4, <1>5 DEF TripNext

(* A retyping session types the characters of its text, each once and in    *)
(* their order, through pauses, if no modifier was down before and no       *)
(* character needs Control or Lock: the modifiers pressed for a character   *)
(* are those of the row the server finds it in, and none of the character   *)
(* before is left down.                                                     *)
THEOREM TextIsTyped == TripSpec => []TypedRight
<1>1. TripInit => TypedInv
  BY DEF TripInit, FakeInit, TypedInv, Retyping
<1>2. HeldInv /\ TypedInv => TypedRight
  <2> SUFFICES ASSUME HeldInv, TypedInv, Retyping,
                      downBefore \cap {Rows[i] : i \in DOMAIN Rows} = {},
                      \A i \in DOMAIN whole : Plainly(whole[i])
               PROVE  Starts(screen[Main].typed,
                             [i \in DOMAIN whole |-> {whole[i]}])
    BY DEF TypedRight
  <2> DEFINE s == screen[Main].typed
             t == [i \in DOMAIN whole |-> {whole[i]}]
  <2>1. /\ whole \in Seq(Chars) /\ Len(whole) \in Nat
        /\ DOMAIN whole = 1..Len(whole)
        /\ todo \in Seq(Chars) /\ Len(todo) \in Nat /\ Len(todo) <= Len(whole)
        /\ pressed => Len(todo) > 0
    BY DEF HeldInv, TypedInv
  <2>2. Undisturbed
    BY <2>1, RowFacts DEF Undisturbed
  <2>3. /\ s \in Seq(SUBSET Chars)
        /\ Len(s) = Len(whole) - Len(todo) + IF pressed THEN 1 ELSE 0
        /\ \A i \in 1..Len(s) : s[i] = {whole[i]}
    BY <2>2 DEF TypedInv
  <2>4. Len(s) \in Nat /\ Len(s) <= Len(whole) /\ DOMAIN s = 1..Len(s)
    BY <2>1, <2>3
  <2>5. t \in Seq(SUBSET Chars) /\ Len(t) = Len(whole)
        /\ \A i \in 1..Len(whole) : t[i] = {whole[i]}
    BY <2>1
  <2> HIDE DEF s, t
  <2>6. s = SubSeq(t, 1, Len(s))
    <3>1. /\ SubSeq(t, 1, Len(s)) \in Seq(SUBSET Chars)
          /\ Len(SubSeq(t, 1, Len(s))) = Len(s)
          /\ \A i \in 1..Len(s) : SubSeq(t, 1, Len(s))[i] = t[i]
      BY <2>1, <2>4, <2>5
    <3>2. \A i \in 1..Len(s) : s[i] = SubSeq(t, 1, Len(s))[i]
      <4>1. \A i \in 1..Len(s) : i \in 1..Len(whole)
        BY <2>1, <2>4
      <4> QED BY <2>3, <2>5, <3>1, <4>1, Zenon
    <3> QED BY <2>3, <3>1, <3>2, SeqEqual
  <2> QED BY <2>4, <2>5, <2>6 DEF Starts, s, t
<1>3. HeldInv /\ TypedInv /\ [TripNext]_tripVars => HeldInv' /\ TypedInv'
  BY HeldStep, TypedStep
<1> QED BY HeldInit, <1>1, <1>2, <1>3, PTL DEF TripSpec

-----------------------------------------------------------------------------
(* The entries of a sequence that are about something. *)

(* A function that takes the numbers up to N one by one exists.             *)
LEMMA Recursion ==
    ASSUME NEW N \in Nat, NEW X, NEW e \in X, NEW st \in [1..N -> [X -> X]]
    PROVE  \E g : g = [n \in 0..N |-> IF n = 0 THEN e ELSE st[n][g[n - 1]]]
                  /\ g \in [0..N -> X]
<1> DEFINE B(g, n) == IF n = 0 THEN e ELSE st[n][g[n - 1]]
           S == {m \in Nat : m <= N => \E g : g = [n \in 0..m |-> B(g, n)]
                                              /\ g \in [0..m -> X]}
<1>1. 0 \in S
  <2> DEFINE g == [n \in 0..0 |-> e]
  <2>1. 0..0 = {0}
    OBVIOUS
  <2>2. g = [n \in 0..0 |-> B(g, n)]
    BY <2>1
  <2>3. g \in [0..0 -> X]
    OBVIOUS
  <2> HIDE DEF g, B
  <2> QED BY <2>2, <2>3
<1>2. ASSUME NEW m \in Nat, m \in S PROVE m + 1 \in S
  <2> SUFFICES ASSUME m + 1 <= N
               PROVE  \E h : h = [n \in 0..(m + 1) |-> B(h, n)]
                             /\ h \in [0..(m + 1) -> X]
    OBVIOUS
  <2>1. PICK g : g = [n \in 0..m |-> B(g, n)] /\ g \in [0..m -> X]
    BY <1>2
  <2> DEFINE h == [n \in 0..(m + 1) |-> B(g, n)]
  <2>2. ASSUME NEW n \in 0..m PROVE h[n] = g[n]
    <3>1. n \in 0..(m + 1)
      OBVIOUS
    <3>2. g[n] = B(g, n)
      <4> HIDE DEF B
      <4> QED BY <2>1
    <3>3. h[n] = B(g, n)
      <4> HIDE DEF B
      <4> QED BY <3>1
    <3> QED BY <3>2, <3>3
  <2>3. ASSUME NEW n \in 0..(m + 1) PROVE B(h, n) = B(g, n)
    <3> HIDE DEF h
    <3>1. CASE n = 0
      BY <3>1
    <3>2. CASE n # 0
      <4>1. n - 1 \in 0..m
        BY <3>2
      <4> QED BY <2>2, <3>2, <4>1
    <3> QED BY <3>1, <3>2
  <2>4. h = [n \in 0..(m + 1) |-> B(h, n)]
    <3> DEFINE k == [n \in 0..(m + 1) |-> B(h, n)]
    <3>1. k = [n \in 0..(m + 1) |-> B(g, n)]
      <4> HIDE DEF B, h
      <4> QED BY <2>3
    <3> QED BY <3>1
  <2>5. h \in [0..(m + 1) -> X]
    <3>1. ASSUME NEW n \in 0..(m + 1) PROVE B(g, n) \in X
      <4>1. CASE n = 0
        BY <4>1
      <4>2. CASE n # 0
        <5>1. n - 1 \in 0..m /\ n \in 1..N
          BY <4>2
        <5>2. g[n - 1] \in X
          BY <2>1, <5>1
        <5> QED BY <4>2, <5>1, <5>2
      <4> QED BY <4>1, <4>2
    <3> HIDE DEF B
    <3> QED BY <3>1
  <2> HIDE DEF h, B
  <2> QED BY <2>4, <2>5
<1>3. N \in S
  <2> HIDE DEF S
  <2> QED BY <1>1, <1>2, Induction
<1> HIDE DEF B
<1>4. \E g : g = [n \in 0..N |-> B(g, n)] /\ g \in [0..N -> X]
  BY <1>3
<1> QED BY <1>4 DEF B

-----------------------------------------------------------------------------

(* A line or an act that is about a thing of w is kept.                     *)
Keeping(w, e, t) == IF e.what \in w THEN Append(t, e) ELSE t

(* The recursive function Upto takes the entries one by one.                *)
LEMMA UptoDef ==
    ASSUME NEW S, NEW s \in Seq(S), NEW w
    PROVE  /\ Upto(w, s) \in [0..Len(s) -> Seq(S)]
           /\ Upto(w, s)[0] = <<>>
           /\ \A n \in 1..Len(s) :
                Upto(w, s)[n] = Keeping(w, s[n], Upto(w, s)[n - 1])
<1> DEFINE N == Len(s)
           B(g, n) == IF n = 0 THEN <<>> ELSE Keeping(w, s[n], g[n - 1])
           st == [n \in 1..N |-> [t \in Seq(S) |-> Keeping(w, s[n], t)]]
<1>1. N \in Nat /\ <<>> \in Seq(S)
  OBVIOUS
<1>2. st \in [1..N -> [Seq(S) -> Seq(S)]]
  <2>1. ASSUME NEW n \in 1..N, NEW t \in Seq(S)
        PROVE  Keeping(w, s[n], t) \in Seq(S)
    <3>1. s[n] \in S
      OBVIOUS
    <3> QED BY <3>1 DEF Keeping
  <2> QED BY <2>1
<1>3. PICK h : h = [n \in 0..N |-> IF n = 0 THEN <<>> ELSE st[n][h[n - 1]]]
               /\ h \in [0..N -> Seq(S)]
  <2>1. \A e \in Seq(S), f \in [1..N -> [Seq(S) -> Seq(S)]] :
          \E g : g = [n \in 0..N |-> IF n = 0 THEN e ELSE f[n][g[n - 1]]]
                /\ g \in [0..N -> Seq(S)]
    <3> HIDE DEF N
    <3> QED BY <1>1, Recursion, Zenon
  <2> HIDE DEF st, N
  <2> QED BY <1>1, <1>2, <2>1, Zenon
<1>4. ASSUME NEW n \in 0..N
      PROVE  (IF n = 0 THEN <<>> ELSE st[n][h[n - 1]]) = B(h, n)
  <2>1. CASE n = 0
    BY <2>1
  <2>2. CASE n # 0
    <3>1. n \in 1..N /\ n - 1 \in 0..N
      BY <1>1, <2>2
    <3>2. h[n - 1] \in Seq(S)
      BY <1>3, <3>1
    <3>4. st[n][h[n - 1]] = Keeping(w, s[n], h[n - 1])
      BY <3>1, <3>2
    <3> QED BY <2>2, <3>4
  <2> QED BY <2>1, <2>2
<1>5. h = [n \in 0..N |-> B(h, n)]
  <2> HIDE DEF st, B
  <2> QED BY <1>3, <1>4
<1> DEFINE E == CHOOSE g : g = [n \in 0..N |-> B(g, n)]
<1>6. E = [n \in 0..N |-> B(E, n)]
  <2> HIDE DEF B
  <2> QED BY <1>5
<1>7. Upto(w, s) = E
  BY DEF Upto, Keeping
<1> HIDE DEF E
<1>8. \A n \in 0..N : E[n] = B(E, n)
  <2> HIDE DEF B
  <2> QED BY <1>6
<1>9. E[0] = <<>> /\ \A n \in 1..N : E[n] = Keeping(w, s[n], E[n - 1])
  <2>1. 0 \in 0..N /\ \A n \in 1..N : n \in 0..N /\ n # 0
    BY <1>1
  <2> QED BY <1>8, <2>1
<1>10. DOMAIN E = 0..N
  BY <1>6
<1>11. \A n \in 0..N : E[n] \in Seq(S)
  <2> DEFINE M == {n \in Nat : n <= N => E[n] \in Seq(S)}
  <2>1. 0 \in M
    BY <1>1, <1>9
  <2>2. ASSUME NEW n \in Nat, n \in M PROVE n + 1 \in M
    <3> SUFFICES ASSUME n + 1 <= N PROVE E[n + 1] \in Seq(S)
      OBVIOUS
    <3>1. n + 1 \in 1..N /\ (n + 1) - 1 = n /\ E[n] \in Seq(S)
      BY <1>1, <2>2
    <3>2. E[n + 1] = Keeping(w, s[n + 1], E[n])
      BY <1>9, <3>1
    <3>3. s[n + 1] \in S
      BY <3>1
    <3> QED BY <3>1, <3>2, <3>3 DEF Keeping
  <2>3. Nat \subseteq M
    <3> HIDE DEF M
    <3> QED BY <2>1, <2>2, Induction
  <2> QED BY <1>1, <2>3
<1>12. E \in [0..N -> Seq(S)]
  <2> HIDE DEF B
  <2> QED BY <1>6, <1>11
<1> QED BY <1>7, <1>9, <1>12

(* What is about w of one entry more.                                       *)
LEMMA AboutOf ==
    ASSUME NEW S, NEW w
    PROVE  /\ About(w, <<>>) = <<>>
           /\ \A s \in Seq(S) : About(w, s) \in Seq(S)
           /\ \A s \in Seq(S), e \in S :
                About(w, Append(s, e)) = Keeping(w, e, About(w, s))
<1>1. About(w, <<>>) = <<>>
  <2>1. <<>> \in Seq(S) /\ Len(<<>>) = 0
    OBVIOUS
  <2> QED BY <2>1, UptoDef DEF About
<1>2. ASSUME NEW s \in Seq(S) PROVE About(w, s) \in Seq(S)
  <2>1. Len(s) \in 0..Len(s)
    OBVIOUS
  <2> QED BY <2>1, UptoDef DEF About
<1>3. ASSUME NEW s \in Seq(S), NEW e \in S
      PROVE  About(w, Append(s, e)) = Keeping(w, e, About(w, s))
  <2> DEFINE t == Append(s, e)
             N == Len(s)
             M == {n \in Nat : n <= N => Upto(w, t)[n] = Upto(w, s)[n]}
  <2>1. /\ t \in Seq(S) /\ Len(t) = N + 1 /\ t[N + 1] = e /\ N \in Nat
        /\ \A n \in 1..N : t[n] = s[n]
    OBVIOUS
  <2> HIDE DEF t
  <2>2. /\ Upto(w, s)[0] = <<>> /\ Upto(w, t)[0] = <<>>
        /\ \A n \in 1..N : Upto(w, s)[n] = Keeping(w, s[n], Upto(w, s)[n - 1])
        /\ \A n \in 1..(N + 1) :
             Upto(w, t)[n] = Keeping(w, t[n], Upto(w, t)[n - 1])
    BY <2>1, UptoDef
  <2>3. 0 \in M
    BY <2>2
  <2>4. ASSUME NEW n \in Nat, n \in M PROVE n + 1 \in M
    <3> SUFFICES ASSUME n + 1 <= N PROVE Upto(w, t)[n + 1] = Upto(w, s)[n + 1]
      OBVIOUS
    <3>1. n + 1 \in 1..N /\ n + 1 \in 1..(N + 1) /\ (n + 1) - 1 = n
      BY <2>1
    <3>2. Upto(w, t)[n] = Upto(w, s)[n]
      BY <2>1, <2>4
    <3> QED BY <2>1, <2>2, <3>1, <3>2
  <2>5. N \in M
    <3> HIDE DEF M
    <3> QED BY <2>1, <2>3, <2>4, Induction
  <2>6. N + 1 \in 1..(N + 1) /\ (N + 1) - 1 = N
    BY <2>1
  <2>7. Upto(w, t)[N + 1] = Keeping(w, e, Upto(w, s)[N])
    BY <2>1, <2>2, <2>5, <2>6
  <2> QED BY <2>1, <2>7 DEF About, t
<1> QED BY <1>1, <1>2, <1>3

-----------------------------------------------------------------------------
(* The start of a sequence, and what a file shows. *)

(* The start of a sequence, entry by entry.                                 *)
LEMMA StartsDef ==
    ASSUME NEW S, NEW s \in Seq(S), NEW t \in Seq(S)
    PROVE  Starts(s, t) <=> Len(s) <= Len(t)
                            /\ \A i \in 1..Len(s) : s[i] = t[i]
<1>1. ASSUME Len(s) <= Len(t)
      PROVE  /\ SubSeq(t, 1, Len(s)) \in Seq(S)
             /\ Len(SubSeq(t, 1, Len(s))) = Len(s)
             /\ \A i \in 1..Len(s) : SubSeq(t, 1, Len(s))[i] = t[i]
  BY <1>1
<1>2. ASSUME Len(s) <= Len(t), \A i \in 1..Len(s) : s[i] = t[i]
      PROVE  s = SubSeq(t, 1, Len(s))
  <2>1. \A i \in 1..Len(s) : s[i] = SubSeq(t, 1, Len(s))[i]
    BY <1>1, <1>2, Zenon
  <2> QED BY <1>1, <1>2, <2>1, SeqEqual
<1>3. ASSUME Len(s) <= Len(t), s = SubSeq(t, 1, Len(s))
      PROVE  \A i \in 1..Len(s) : s[i] = t[i]
  BY <1>1, <1>3, Zenon
<1> QED BY <1>2, <1>3, Zenon DEF Starts

(* A start of a sequence is one of a longer one.                            *)
LEMMA StartsLonger ==
    ASSUME NEW S, NEW s \in Seq(S), NEW t \in Seq(S)
    PROVE  /\ Starts(t, t) /\ Starts(<<>>, t)
           /\ \A e \in S : Starts(s, t) => Starts(s, Append(t, e))
<1>1. Starts(t, t)
  BY StartsDef
<1>2. Starts(<<>>, t)
  <2>1. <<>> \in Seq(S) /\ Len(<<>>) = 0 /\ 1..0 = {} /\ Len(t) \in Nat
    OBVIOUS
  <2>2. /\ Len(<<>>) <= Len(t)
        /\ \A i \in 1..Len(<<>>) : <<>>[i] = t[i]
    BY <2>1
  <2> QED BY <2>1, <2>2, StartsDef, Zenon
<1>3. ASSUME NEW e \in S, Starts(s, t) PROVE Starts(s, Append(t, e))
  <2>1. Len(s) <= Len(t) /\ \A i \in 1..Len(s) : s[i] = t[i]
    BY <1>3, StartsDef
  <2>2. /\ Append(t, e) \in Seq(S) /\ Len(Append(t, e)) = Len(t) + 1
        /\ \A i \in 1..Len(t) : Append(t, e)[i] = t[i]
        /\ Len(s) \in Nat /\ Len(t) \in Nat
    OBVIOUS
  <2>3. \A i \in 1..Len(s) : i \in 1..Len(t)
    BY <2>1, <2>2
  <2>4. \A i \in 1..Len(s) : s[i] = Append(t, e)[i]
    BY <2>1, <2>2, <2>3, Zenon
  <2>5. Len(s) <= Len(Append(t, e))
    BY <2>1, <2>2
  <2> QED BY <2>2, <2>4, <2>5, StartsDef
<1> QED BY <1>1, <1>2, <1>3

-----------------------------------------------------------------------------

(* What a replay of the first n lines of f shows of w, in the places of the *)
(* recording: the acts, and where the pointer is then.                      *)
Taken(fo, l) == IF fo THEN l.dev \in {"core", "slave"} ELSE l.dev = "slave"

Seen    == [at : Positions, acts : Seq(UserActions)]
Nothing == [at |-> Nowhere, acts |-> <<>>]

Showing(fo, w, l, r) ==
    IF ~Taken(fo, l) THEN r
    ELSE IF l.type = "motion" THEN [at |-> l.what, acts |-> r.acts]
    ELSE IF l.what \notin w THEN r
    ELSE [at |-> r.at,
          acts |-> Append(r.acts, [type |-> l.type, what |-> l.what,
                                   at |-> r.at])]

Shows(fo, w, f) ==
    CHOOSE g \in [0..Len(f) -> Seen] :
        /\ g[0] = Nothing
        /\ \A n \in 1..Len(f) : g[n] = Showing(fo, w, f[n], g[n - 1])

ShowsAll(fo, w, f) == Shows(fo, w, f)[Len(f)]

(* One line leaves what a screen shows a thing of its kind.                 *)
LEMMA ShowingSeen ==
    ASSUME NEW fo, NEW w, NEW l \in FileLines, NEW r \in Seen
    PROVE  Showing(fo, w, l, r) \in Seen
<1>1. CASE l.type = "motion"
  <2>1. l.what \in Nat
    BY <1>1 DEF FileLines, PressLines, MotionLines
  <2> QED BY <1>1, <2>1 DEF Showing, Seen, Positions
<1>2. CASE l.type # "motion"
  <2>1. l.type \in {"press", "release"} /\ l.what \in Keys \cup Buttons
    BY <1>2 DEF FileLines, PressLines, MotionLines
  <2>2. r.at \in Positions /\ r.acts \in Seq(UserActions)
    BY DEF Seen
  <2>3. [type |-> l.type, what |-> l.what, at |-> r.at] \in UserActions
    BY <2>1, <2>2 DEF UserActions
  <2>4. Append(r.acts, [type |-> l.type, what |-> l.what, at |-> r.at])
          \in Seq(UserActions)
    BY <2>2, <2>3
  <2> QED BY <1>2, <2>2, <2>4 DEF Showing, Seen
<1> QED BY <1>1, <1>2

(* The recursive function Shows takes the lines one by one.                 *)
LEMMA ShowsDef ==
    ASSUME NEW fo, NEW w, NEW f \in Seq(FileLines)
    PROVE  /\ Shows(fo, w, f) \in [0..Len(f) -> Seen]
           /\ Shows(fo, w, f)[0] = Nothing
           /\ \A n \in 1..Len(f) : Shows(fo, w, f)[n] =
                Showing(fo, w, f[n], Shows(fo, w, f)[n - 1])
<1> DEFINE N == Len(f)
           st == [n \in 1..N |-> [r \in Seen |-> Showing(fo, w, f[n], r)]]
<1>1. N \in Nat /\ Nothing \in Seen
  BY DEF Nothing, Seen, Positions, Nowhere
<1>2. st \in [1..N -> [Seen -> Seen]]
  <2>1. \A n \in 1..N : f[n] \in FileLines
    OBVIOUS
  <2> QED BY <2>1, ShowingSeen
<1>3. PICK h : /\ h = [n \in 0..N |-> IF n = 0 THEN Nothing
                                      ELSE st[n][h[n - 1]]]
               /\ h \in [0..N -> Seen]
  <2>1. \A e \in Seen, s \in [1..N -> [Seen -> Seen]] :
          \E g : g = [n \in 0..N |-> IF n = 0 THEN e ELSE s[n][g[n - 1]]]
                /\ g \in [0..N -> Seen]
    <3> HIDE DEF N
    <3> QED BY <1>1, Recursion, Zenon
  <2> HIDE DEF st, N
  <2> QED BY <1>1, <1>2, <2>1, Zenon
<1>4. h[0] = Nothing
  <2>1. 0 \in 0..N
    BY <1>1
  <2> HIDE DEF st
  <2> QED BY <1>3, <2>1
<1>5. ASSUME NEW n \in 1..N PROVE h[n] = Showing(fo, w, f[n], h[n - 1])
  <2>1. n \in 0..N /\ n # 0 /\ n - 1 \in 0..N
    BY <1>1
  <2>2. h[n] = st[n][h[n - 1]]
    <3> HIDE DEF st
    <3> QED BY <1>3, <2>1
  <2>3. h[n - 1] \in Seen
    BY <1>3, <2>1
  <2> QED BY <2>2, <2>3
<1> QED BY <1>3, <1>4, <1>5 DEF Shows

(* What a file shows: nothing if it is empty, and with one more line what   *)
(* that line adds.                                                          *)
LEMMA ShowsOf ==
    ASSUME NEW fo, NEW w
    PROVE  /\ ShowsAll(fo, w, <<>>) = Nothing
           /\ \A f \in Seq(FileLines) : ShowsAll(fo, w, f) \in Seen
           /\ \A f \in Seq(FileLines), l \in FileLines :
                ShowsAll(fo, w, Append(f, l)) =
                  Showing(fo, w, l, ShowsAll(fo, w, f))
<1>1. ShowsAll(fo, w, <<>>) = Nothing
  <2>1. <<>> \in Seq(FileLines) /\ Len(<<>>) = 0
    OBVIOUS
  <2> QED BY <2>1, ShowsDef DEF ShowsAll
<1>2. ASSUME NEW f \in Seq(FileLines) PROVE ShowsAll(fo, w, f) \in Seen
  <2>1. Len(f) \in 0..Len(f)
    OBVIOUS
  <2> QED BY <2>1, ShowsDef DEF ShowsAll
<1>3. ASSUME NEW f \in Seq(FileLines), NEW l \in FileLines
      PROVE  ShowsAll(fo, w, Append(f, l)) =
               Showing(fo, w, l, ShowsAll(fo, w, f))
  <2> DEFINE t == Append(f, l)
             N == Len(f)
             g == Shows(fo, w, f)
             h == Shows(fo, w, t)
             M == {n \in Nat : n <= N => h[n] = g[n]}
  <2>1. /\ t \in Seq(FileLines) /\ Len(t) = N + 1 /\ t[N + 1] = l /\ N \in Nat
        /\ \A n \in 1..N : t[n] = f[n]
    OBVIOUS
  <2> HIDE DEF t
  <2>2. /\ g[0] = Nothing /\ h[0] = Nothing
        /\ \A n \in 1..N : g[n] = Showing(fo, w, f[n], g[n - 1])
        /\ \A n \in 1..(N + 1) : h[n] = Showing(fo, w, t[n], h[n - 1])
    <3>1. /\ g[0] = Nothing
          /\ \A n \in 1..Len(f) : g[n] = Showing(fo, w, f[n], g[n - 1])
      BY ShowsDef
    <3>2. /\ h[0] = Nothing
          /\ \A n \in 1..Len(t) : h[n] = Showing(fo, w, t[n], h[n - 1])
      BY <2>1, ShowsDef
    <3> HIDE DEF g, h
    <3> QED BY <2>1, <3>1, <3>2
  <2> HIDE DEF g, h
  <2>3. 0 \in M
    BY <2>2
  <2>4. ASSUME NEW n \in Nat, n \in M PROVE n + 1 \in M
    <3> SUFFICES ASSUME n + 1 <= N PROVE h[n + 1] = g[n + 1]
      OBVIOUS
    <3>1. n + 1 \in 1..N /\ n + 1 \in 1..(N + 1) /\ (n + 1) - 1 = n
      BY <2>1
    <3>2. h[n] = g[n]
      BY <2>1, <2>4
    <3> QED BY <2>1, <2>2, <3>1, <3>2
  <2>5. N \in M
    <3> HIDE DEF M
    <3> QED BY <2>1, <2>3, <2>4, Induction
  <2>6. N + 1 \in 1..(N + 1) /\ (N + 1) - 1 = N
    BY <2>1
  <2>7. h[N + 1] = Showing(fo, w, l, g[N])
    BY <2>1, <2>2, <2>5, <2>6
  <2> QED BY <2>1, <2>7 DEF ShowsAll, t, g, h
<1> QED BY <1>1, <1>2, <1>3

(* What is shown of the first lines starts what is shown of all.            *)
LEMMA ShowsMore ==
    ASSUME NEW fo, NEW w, NEW f \in Seq(FileLines), NEW n \in 0..Len(f)
    PROVE  Starts(Shows(fo, w, f)[n].acts, ShowsAll(fo, w, f).acts)
<1> DEFINE N == Len(f)
           g == Shows(fo, w, f)
           M == {m \in Nat : n + m <= N => Starts(g[n].acts, g[n + m].acts)}
<1>1. /\ N \in Nat /\ g \in [0..N -> Seen]
      /\ \A i \in 1..N : g[i] = Showing(fo, w, f[i], g[i - 1])
      /\ \A i \in 1..N : f[i] \in FileLines
  BY ShowsDef
<1> HIDE DEF g
<1>2. \A i \in 0..N : g[i] \in Seen /\ g[i].acts \in Seq(UserActions)
  BY <1>1 DEF Seen
<1>3. 0 \in M
  <2>1. n + 0 = n
    OBVIOUS
  <2> QED BY <1>2, <2>1, StartsLonger
<1>4. ASSUME NEW m \in Nat, m \in M PROVE m + 1 \in M
  <2> SUFFICES ASSUME n + (m + 1) <= N
               PROVE  Starts(g[n].acts, g[n + (m + 1)].acts)
    OBVIOUS
  <2> DEFINE i == n + (m + 1)
  <2>1. i \in 1..N /\ i - 1 = n + m /\ n + m \in 0..N
    BY <1>1
  <2>2. Starts(g[n].acts, g[i - 1].acts)
    BY <1>1, <1>4, <2>1
  <2>3. g[i] = Showing(fo, w, f[i], g[i - 1]) /\ g[i - 1] \in Seen
        /\ f[i] \in FileLines
    BY <1>1, <1>2, <2>1
  <2>4. \/ g[i].acts = g[i - 1].acts
        \/ \E e \in UserActions : g[i].acts = Append(g[i - 1].acts, e)
    <3> HIDE DEF i
    <3>1. CASE f[i].type = "motion"
      BY <2>3, <3>1 DEF Showing
    <3>2. CASE f[i].type # "motion"
      <4> DEFINE e == [type |-> f[i].type, what |-> f[i].what,
                       at |-> g[i - 1].at]
      <4>1. /\ f[i].type \in {"press", "release"}
            /\ f[i].what \in Keys \cup Buttons
        BY <2>3, <3>2 DEF FileLines, PressLines, MotionLines
      <4>2. e \in UserActions
        BY <2>3, <4>1 DEF UserActions, Seen
      <4>3. \/ g[i] = g[i - 1]
            \/ g[i] = [at |-> g[i - 1].at, acts |-> Append(g[i - 1].acts, e)]
        BY <2>3, <3>2 DEF Showing
      <4> HIDE DEF e
      <4> QED BY <4>2, <4>3
    <3> QED BY <3>1, <3>2
  <2>5. g[n].acts \in Seq(UserActions) /\ g[i - 1].acts \in Seq(UserActions)
    BY <1>2, <2>1
  <2> HIDE DEF i
  <2>6. Starts(g[n].acts, g[i].acts)
    BY <2>2, <2>4, <2>5, StartsLonger
  <2> QED BY <2>6 DEF i
<1>5. N - n \in Nat /\ n + (N - n) = N
  BY <1>1
<1>6. N - n \in M
  <2> HIDE DEF M
  <2> QED BY <1>3, <1>4, <1>5, Induction
<1> QED BY <1>5, <1>6 DEF ShowsAll, g

-----------------------------------------------------------------------------
(* What a screen shows. *)

(* What displays show, and what of it is no place.                          *)
ScreenActs == [type : {"press", "release"}, what : Keys \cup Buttons,
               at : Int]
Bares      == {"press", "release"} \X (Keys \cup Buttons)

(* An act of the user is one that a screen can show.                        *)
LEMMA UserActsShow ==
    /\ UserActions \subseteq ScreenActs
    /\ \A s \in Seq(UserActions) : s \in Seq(ScreenActs)
<1>1. UserActions \subseteq ScreenActs
  BY DEF UserActions, ScreenActs, Positions, Nowhere
<1> QED BY <1>1, SeqMonotonic

(* Bare, entry by entry and with one more entry.                            *)
LEMMA BareOf ==
    /\ Bare(<<>>) = <<>>
    /\ \A s \in Seq(ScreenActs) :
         /\ Bare(s) \in Seq(Bares) /\ Len(Bare(s)) = Len(s)
         /\ \A e \in ScreenActs :
              Bare(Append(s, e)) = Append(Bare(s), <<e.type, e.what>>)
    /\ \A s, t \in Seq(ScreenActs) : Starts(s, t) => Starts(Bare(s), Bare(t))
<1>1. Bare(<<>>) = <<>>
  <2>1. DOMAIN <<>> = {}
    OBVIOUS
  <2> QED BY <2>1 DEF Bare
<1>2. ASSUME NEW s \in Seq(ScreenActs)
      PROVE  /\ Bare(s) \in Seq(Bares) /\ Len(Bare(s)) = Len(s)
             /\ \A i \in 1..Len(s) : Bare(s)[i] = <<s[i].type, s[i].what>>
  <2>1. /\ DOMAIN s = 1..Len(s) /\ Len(s) \in Nat
        /\ \A i \in 1..Len(s) : s[i] \in ScreenActs
    OBVIOUS
  <2>2. \A i \in 1..Len(s) : <<s[i].type, s[i].what>> \in Bares
    BY <2>1 DEF ScreenActs, Bares
  <2>3. Bare(s) = [i \in 1..Len(s) |-> <<s[i].type, s[i].what>>]
    BY <2>1 DEF Bare
  <2> QED BY <2>1, <2>2, <2>3
<1>3. ASSUME NEW s \in Seq(ScreenActs), NEW e \in ScreenActs
      PROVE  Bare(Append(s, e)) = Append(Bare(s), <<e.type, e.what>>)
  <2> DEFINE t == Append(s, e)
             b == <<e.type, e.what>>
  <2>1. /\ t \in Seq(ScreenActs) /\ Len(t) = Len(s) + 1 /\ Len(s) \in Nat
        /\ \A i \in 1..Len(s) : t[i] = s[i]
        /\ t[Len(s) + 1] = e
    OBVIOUS
  <2>2. b \in Bares
    BY DEF ScreenActs, Bares
  <2> HIDE DEF t, b
  <2>3. /\ Bare(t) \in Seq(Bares) /\ Len(Bare(t)) = Len(s) + 1
        /\ \A i \in 1..(Len(s) + 1) : Bare(t)[i] = <<t[i].type, t[i].what>>
    BY <1>2, <2>1
  <2>4. /\ Append(Bare(s), b) \in Seq(Bares)
        /\ Len(Append(Bare(s), b)) = Len(s) + 1
        /\ \A i \in 1..Len(s) : Append(Bare(s), b)[i] = Bare(s)[i]
        /\ Append(Bare(s), b)[Len(s) + 1] = b
    BY <1>2, <2>1, <2>2
  <2>5. \A i \in 1..(Len(s) + 1) : Bare(t)[i] = Append(Bare(s), b)[i]
    <3>1. ASSUME NEW i \in 1..Len(s) PROVE Bare(t)[i] = Append(Bare(s), b)[i]
      <4>1. i \in 1..(Len(s) + 1)
        BY <2>1
      <4>2. Bare(t)[i] = <<s[i].type, s[i].what>>
        BY <2>1, <2>3, <4>1
      <4>3. Bare(s)[i] = <<s[i].type, s[i].what>>
        BY <1>2
      <4> QED BY <2>4, <4>2, <4>3
    <3>2. Bare(t)[Len(s) + 1] = b
      <4>1. Len(s) + 1 \in 1..(Len(s) + 1)
        BY <2>1
      <4> QED BY <2>1, <2>3, <4>1 DEF b
    <3>3. \A i \in 1..(Len(s) + 1) : i \in 1..Len(s) \/ i = Len(s) + 1
      BY <2>1
    <3> QED BY <2>4, <3>1, <3>2, <3>3
  <2>6. Bare(t) = Append(Bare(s), b)
    <3>1. /\ Len(Bare(t)) = Len(Append(Bare(s), b))
          /\ \A i \in 1..Len(Bare(t)) : Bare(t)[i] = Append(Bare(s), b)[i]
      BY <2>3, <2>4, <2>5
    <3> QED BY <2>3, <2>4, <3>1, SeqEqual
  <2> QED BY <2>6 DEF t, b
<1>4. ASSUME NEW s \in Seq(ScreenActs), NEW t \in Seq(ScreenActs), Starts(s, t)
      PROVE  Starts(Bare(s), Bare(t))
  <2>1. Len(s) <= Len(t) /\ \A i \in 1..Len(s) : s[i] = t[i]
    BY <1>4, StartsDef
  <2>2. \A i \in 1..Len(s) : i \in 1..Len(t)
    <3>1. Len(s) \in Nat /\ Len(t) \in Nat
      OBVIOUS
    <3> QED BY <2>1, <3>1
  <2>3. \A i \in 1..Len(s) : Bare(s)[i] = Bare(t)[i]
    BY <1>2, <2>1, <2>2
  <2>4. /\ Bare(s) \in Seq(Bares) /\ Bare(t) \in Seq(Bares)
        /\ Len(Bare(s)) = Len(s) /\ Len(Bare(t)) = Len(t)
    BY <1>2
  <2>5. /\ Len(Bare(s)) <= Len(Bare(t))
        /\ \A i \in 1..Len(Bare(s)) : Bare(s)[i] = Bare(t)[i]
    BY <2>1, <2>3, <2>4
  <2> QED BY <2>4, <2>5, StartsDef
<1> QED BY <1>1, <1>2, <1>3, <1>4

(* Acts where m takes their places.                                         *)
Moved(m, s) == [i \in DOMAIN s |-> [s[i] EXCEPT !.at = m[@]]]
Put(m, e)   == [type |-> e.type, what |-> e.what, at |-> m[e.at]]

(* Moved, entry by entry and with one more entry.                           *)
LEMMA MovedOf ==
    ASSUME NEW m \in [Positions -> Int]
    PROVE  /\ Moved(m, <<>>) = <<>>
           /\ \A s \in Seq(UserActions) :
                /\ Moved(m, s) \in Seq(ScreenActs)
                /\ Bare(Moved(m, s)) = Bare(s)
                /\ \A e \in UserActions :
                     Moved(m, Append(s, e)) = Append(Moved(m, s), Put(m, e))
           /\ \A s, t \in Seq(UserActions) :
                Starts(s, t) => Starts(Moved(m, s), Moved(m, t))
<1>1. Moved(m, <<>>) = <<>>
  <2>1. DOMAIN <<>> = {}
    OBVIOUS
  <2> QED BY <2>1 DEF Moved
<1>2. ASSUME NEW e \in UserActions
      PROVE  [e EXCEPT !.at = m[@]] = Put(m, e) /\ Put(m, e) \in ScreenActs
  <2>1. /\ e = [type |-> e.type, what |-> e.what, at |-> e.at]
        /\ e.type \in {"press", "release"} /\ e.what \in Keys \cup Buttons
        /\ e.at \in Positions
    BY DEF UserActions
  <2>2. m[e.at] \in Int
    BY <2>1
  <2> QED BY <2>1, <2>2 DEF Put, ScreenActs
<1>3. ASSUME NEW s \in Seq(UserActions)
      PROVE  /\ Moved(m, s) \in Seq(ScreenActs) /\ Len(Moved(m, s)) = Len(s)
             /\ \A i \in 1..Len(s) : Moved(m, s)[i] = Put(m, s[i])
  <2>1. /\ DOMAIN s = 1..Len(s) /\ Len(s) \in Nat
        /\ \A i \in 1..Len(s) : s[i] \in UserActions
    OBVIOUS
  <2>2. Moved(m, s) = [i \in 1..Len(s) |-> Put(m, s[i])]
    <3>1. \A i \in DOMAIN s : [s[i] EXCEPT !.at = m[@]] = Put(m, s[i])
      BY <1>2, <2>1
    <3>2. Moved(m, s) = [i \in DOMAIN s |-> Put(m, s[i])]
      BY <3>1 DEF Moved
    <3> QED BY <2>1, <3>2
  <2>3. \A i \in 1..Len(s) : Put(m, s[i]) \in ScreenActs
    BY <1>2, <2>1
  <2> QED BY <2>1, <2>2, <2>3
<1>4. ASSUME NEW s \in Seq(UserActions), NEW e \in UserActions
      PROVE  Moved(m, Append(s, e)) = Append(Moved(m, s), Put(m, e))
  <2> DEFINE t == Append(s, e)
             b == Put(m, e)
  <2>1. /\ t \in Seq(UserActions) /\ Len(t) = Len(s) + 1 /\ Len(s) \in Nat
        /\ \A i \in 1..Len(s) : t[i] = s[i]
        /\ t[Len(s) + 1] = e
    OBVIOUS
  <2>2. b \in ScreenActs
    BY <1>2
  <2> HIDE DEF t, b
  <2>3. /\ Moved(m, t) \in Seq(ScreenActs) /\ Len(Moved(m, t)) = Len(s) + 1
        /\ \A i \in 1..(Len(s) + 1) : Moved(m, t)[i] = Put(m, t[i])
    BY <1>3, <2>1
  <2>4. /\ Append(Moved(m, s), b) \in Seq(ScreenActs)
        /\ Len(Append(Moved(m, s), b)) = Len(s) + 1
        /\ \A i \in 1..Len(s) : Append(Moved(m, s), b)[i] = Moved(m, s)[i]
        /\ Append(Moved(m, s), b)[Len(s) + 1] = b
    BY <1>3, <2>1, <2>2
  <2>5. \A i \in 1..(Len(s) + 1) : Moved(m, t)[i] = Append(Moved(m, s), b)[i]
    <3>1. ASSUME NEW i \in 1..Len(s)
          PROVE  Moved(m, t)[i] = Append(Moved(m, s), b)[i]
      <4>1. i \in 1..(Len(s) + 1)
        BY <2>1
      <4> QED BY <1>3, <2>1, <2>3, <2>4, <4>1
    <3>2. Moved(m, t)[Len(s) + 1] = b
      <4>1. Len(s) + 1 \in 1..(Len(s) + 1)
        BY <2>1
      <4> QED BY <2>1, <2>3, <4>1 DEF b
    <3>3. \A i \in 1..(Len(s) + 1) : i \in 1..Len(s) \/ i = Len(s) + 1
      BY <2>1
    <3> QED BY <2>4, <3>1, <3>2, <3>3
  <2>6. Moved(m, t) = Append(Moved(m, s), b)
    <3>1. /\ Len(Moved(m, t)) = Len(Append(Moved(m, s), b))
          /\ \A i \in 1..Len(Moved(m, t)) :
               Moved(m, t)[i] = Append(Moved(m, s), b)[i]
      BY <2>3, <2>4, <2>5
    <3> QED BY <2>3, <2>4, <3>1, SeqEqual
  <2> QED BY <2>6 DEF t, b
<1>5. ASSUME NEW s \in Seq(UserActions), NEW t \in Seq(UserActions),
             Starts(s, t)
      PROVE  Starts(Moved(m, s), Moved(m, t))
  <2>1. Len(s) <= Len(t) /\ \A i \in 1..Len(s) : s[i] = t[i]
    BY <1>5, StartsDef
  <2>2. \A i \in 1..Len(s) : i \in 1..Len(t)
    <3>1. Len(s) \in Nat /\ Len(t) \in Nat
      OBVIOUS
    <3> QED BY <2>1, <3>1
  <2>3. \A i \in 1..Len(s) : Moved(m, s)[i] = Moved(m, t)[i]
    BY <1>3, <2>1, <2>2
  <2>4. /\ Moved(m, s) \in Seq(ScreenActs) /\ Moved(m, t) \in Seq(ScreenActs)
        /\ Len(Moved(m, s)) = Len(s) /\ Len(Moved(m, t)) = Len(t)
    BY <1>3
  <2>5. /\ Len(Moved(m, s)) <= Len(Moved(m, t))
        /\ \A i \in 1..Len(Moved(m, s)) : Moved(m, s)[i] = Moved(m, t)[i]
    BY <2>1, <2>3, <2>4
  <2> QED BY <2>4, <2>5, StartsDef
<1>6. ASSUME NEW s \in Seq(UserActions) PROVE Bare(Moved(m, s)) = Bare(s)
  <2> DEFINE t == Moved(m, s)
  <2>1. /\ t \in Seq(ScreenActs) /\ Len(t) = Len(s)
        /\ \A i \in 1..Len(s) : t[i].type = s[i].type /\ t[i].what = s[i].what
    <3>1. \A e : Put(m, e).type = e.type /\ Put(m, e).what = e.what
      BY DEF Put
    <3> QED BY <1>3, <3>1
  <2> HIDE DEF t
  <2>2. DOMAIN t = DOMAIN s /\ DOMAIN s = 1..Len(s)
    BY <2>1
  <2> QED BY <2>1, <2>2 DEF Bare, t
<1> QED BY <1>1, <1>3, <1>4, <1>5, <1>6

-----------------------------------------------------------------------------
(* The recording. *)

(* What the file shows of w is what the user did with w: in the same order, *)
(* and in the same places if every motion is written.  Without XInput the   *)
(* file is of core events, and is not replayed unless they are forced.      *)
RecordInv ==
    \A fo \in BOOLEAN, w \in SUBSET ((Keys \cup Buttons) \ rec.action) :
        LET r == ShowsAll(fo, w, file)
        IN  /\ ~xinput /\ ~fo => r.acts = <<>>
            /\ xinput \/ fo => Bare(r.acts) = Bare(About(w, acts))
            /\ (xinput \/ fo) /\ (xinput \/ ~rec.firstLast) =>
                 r = [at |-> at, acts |-> About(w, acts)]

(* An entry about w is kept in both.                                        *)
LEMMA KeepingBare ==
    ASSUME NEW w, NEW s \in Seq(ScreenActs), NEW t \in Seq(ScreenActs),
           Bare(s) = Bare(t), NEW d \in ScreenActs, NEW e \in ScreenActs,
           d.type = e.type, d.what = e.what
    PROVE  /\ Bare(Keeping(w, d, s)) = Bare(Keeping(w, e, t))
           /\ Keeping(w, d, s) \in Seq(ScreenActs)
<1>1. CASE d.what \in w
  <2>1. Bare(Append(s, d)) = Append(Bare(s), <<d.type, d.what>>)
    BY BareOf
  <2>2. Bare(Append(t, e)) = Append(Bare(t), <<e.type, e.what>>)
    BY BareOf
  <2>3. Append(s, d) \in Seq(ScreenActs)
    OBVIOUS
  <2> QED BY <1>1, <2>1, <2>2, <2>3 DEF Keeping
<1>2. CASE d.what \notin w
  BY <1>2 DEF Keeping
<1> QED BY <1>1, <1>2

(* A press or a release that the file has shows as one.                     *)
LEMMA ShowingPress ==
    ASSUME NEW fo, NEW w, NEW r \in Seen, NEW l \in FileLines,
           l.type # "motion"
    PROVE  /\ [type |-> l.type, what |-> l.what, at |-> r.at] \in UserActions
           /\ Taken(fo, l) => Showing(fo, w, l, r) =
                [at |-> r.at,
                 acts |-> Keeping(w, [type |-> l.type, what |-> l.what,
                                      at |-> r.at], r.acts)]
           /\ ~Taken(fo, l) => Showing(fo, w, l, r) = r
<1>1. l.type \in {"press", "release"} /\ l.what \in Keys \cup Buttons
  BY DEF FileLines, PressLines, MotionLines
<1>2. r = [at |-> r.at, acts |-> r.acts] /\ r.at \in Positions
  BY DEF Seen
<1>3. [type |-> l.type, what |-> l.what, at |-> r.at] \in UserActions
  BY <1>1, <1>2 DEF UserActions
<1> QED BY <1>2, <1>3 DEF Showing, Keeping

(* A press or release of the user adds to what the file shows what it adds  *)
(* to what the user did.                                                    *)
LEMMA RecordActs ==
    ASSUME FileOK, RecordInv, NEW type \in {"press", "release"},
           NEW v \in Keys \cup Buttons, Act(type, v)
    PROVE  RecordInv'
<1> SUFFICES ASSUME NEW fo \in BOOLEAN,
                    NEW w \in SUBSET ((Keys \cup Buttons) \ rec'.action)
             PROVE  LET r == ShowsAll(fo, w, file')
                    IN  /\ ~xinput' /\ ~fo => r.acts = <<>>
                        /\ xinput' \/ fo => Bare(r.acts) = Bare(About(w, acts'))
                        /\ (xinput' \/ fo) /\ (xinput' \/ ~rec'.firstLast) =>
                             r = [at |-> at', acts |-> About(w, acts')]
  BY DEF RecordInv
<1> DEFINE a == [type |-> type, what |-> v, at |-> at]
           r == ShowsAll(fo, w, file)
<1>1. UNCHANGED <<xinput, rec, at>> /\ acts' = Append(acts, a)
  BY DEF Act
<1>2. /\ a \in UserActions
      /\ file \in Seq(FileLines) /\ acts \in Seq(UserActions)
  BY DEF UserActions, FileOK
<1>3. r \in Seen
  BY <1>2, ShowsOf
<1>4. About(w, acts') = Keeping(w, a, About(w, acts))
      /\ About(w, acts) \in Seq(UserActions)
  <2>1. ASSUME NEW s \in Seq(UserActions), NEW e \in UserActions
        PROVE  /\ About(w, Append(s, e)) = Keeping(w, e, About(w, s))
               /\ About(w, s) \in Seq(UserActions)
    <3>1. \A b \in Seq(UserActions), d \in UserActions :
            About(w, Append(b, d)) = Keeping(w, d, About(w, b))
      BY AboutOf
    <3>2. \A b \in Seq(UserActions) : About(w, b) \in Seq(UserActions)
      BY AboutOf
    <3> QED BY <3>1, <3>2
  <2> QED BY <1>1, <1>2, <2>1
<1>9. \A f \in Seq(FileLines), k \in FileLines :
        /\ Append(f, k) \in Seq(FileLines) /\ ShowsAll(fo, w, f) \in Seen
        /\ ShowsAll(fo, w, Append(f, k)) =
             Showing(fo, w, k, ShowsAll(fo, w, f))
  <2>1. \A f \in Seq(FileLines), k \in FileLines :
          Append(f, k) \in Seq(FileLines)
    OBVIOUS
  <2> QED BY <2>1, ShowsOf
<1>5. /\ ~xinput /\ ~fo => r.acts = <<>>
      /\ xinput \/ fo => Bare(r.acts) = Bare(About(w, acts))
      /\ (xinput \/ fo) /\ (xinput \/ ~rec.firstLast) =>
           r = [at |-> at, acts |-> About(w, acts)]
  BY <1>1 DEF RecordInv
<1>6. \A d \in {"core", "slave", "master"} :
        LET l == LineOf(d, type, v)
        IN  /\ l \in FileLines /\ l.type # "motion" /\ l.type = type
            /\ l.what = v /\ l.dev = d
  BY DEF LineOf, PressLines, FileLines
<1> HIDE DEF r, a
<1>7. CASE xinput
  <2> DEFINE l == LineOf("slave", type, v)
             m == LineOf("master", type, v)
  <2>1. PrintXI(type, v)
    BY <1>7 DEF Act
  <2>2. file' = IF rec.masters THEN Append(Append(file, l), m)
                               ELSE Append(file, l)
    BY <1>6, <2>1, XIWrites
  <2>3. Taken(fo, l) /\ ~Taken(fo, m)
    BY <1>6 DEF Taken
  <2>4. /\ l \in FileLines /\ l.type # "motion" /\ l.type = type /\ l.what = v
        /\ m \in FileLines /\ m.type # "motion"
    BY <1>6
  <2> HIDE DEF l, m
  <2>5. r.at = at
    BY <1>5, <1>7
  <2>6. ShowsAll(fo, w, Append(file, l)) =
          [at |-> at, acts |-> Keeping(w, a, About(w, acts))]
    <3>1. ShowsAll(fo, w, Append(file, l)) = Showing(fo, w, l, r)
      BY <1>2, <2>4, ShowsOf DEF r
    <3>2. Showing(fo, w, l, r) = [at |-> at, acts |-> Keeping(w, a, r.acts)]
      BY <1>3, <2>3, <2>4, <2>5, ShowingPress DEF a
    <3> QED BY <1>5, <1>7, <3>1, <3>2
  <2>7. ShowsAll(fo, w, Append(Append(file, l), m)) =
          ShowsAll(fo, w, Append(file, l))
    <3>1. Append(file, l) \in Seq(FileLines)
      BY <1>2, <2>4
    <3>2. ShowsAll(fo, w, Append(file, l)) \in Seen
      BY <3>1, ShowsOf
    <3>3. Showing(fo, w, m, ShowsAll(fo, w, Append(file, l))) =
            ShowsAll(fo, w, Append(file, l))
      BY <2>3, <2>4, <3>2, ShowingPress
    <3> QED BY <1>9, <2>4, <3>1, <3>3
  <2>8. ShowsAll(fo, w, file') =
          [at |-> at, acts |-> Keeping(w, a, About(w, acts))]
    BY <2>2, <2>6, <2>7
  <2> QED BY <1>1, <1>4, <1>7, <2>8
<1>8. CASE ~xinput
  <2> DEFINE l == LineOf("core", type, v)
             m == LineOf("core", "motion", heldAt)
             q == ShowsAll(fo, w, Flushed)
  <2>1. PrintCore(type, v)
    BY <1>8 DEF Act
  <2>2. /\ Flushed \in Seq(FileLines)
        /\ file' = IF v \in Buttons \/ Keeps(v) THEN Append(Flushed, l)
                                                ELSE Flushed
    BY <2>1, CoreWrites
  <2>3. /\ l \in FileLines /\ l.type # "motion" /\ l.type = type /\ l.what = v
        /\ l.dev = "core"
    BY <1>6
  <2>4. m \in FileLines /\ m.type = "motion" /\ m.dev = "core"
    BY DEF LineOf, MotionLines, FileLines, FileOK
  <2>5. Taken(fo, l) <=> fo
    BY <2>3 DEF Taken
  <2>6. Taken(fo, m) <=> fo
    BY <2>4 DEF Taken
  <2> HIDE DEF l
  <2>7. /\ q \in Seen /\ q.acts = r.acts
        /\ ~rec.firstLast => q = r
    <3>1. CASE Flushed = Append(file, m) /\ rec.firstLast
      <4>1. q = Showing(fo, w, m, r)
        BY <1>2, <2>4, <3>1, ShowsOf DEF r
      <4>2. Showing(fo, w, m, r).acts = r.acts
        BY <2>4 DEF Showing
      <4>3. q \in Seen
        BY <2>2, ShowsOf
      <4> QED BY <3>1, <4>1, <4>2, <4>3
    <3>2. CASE Flushed = file
      BY <1>3, <3>2 DEF r
    <3> QED BY <3>1, <3>2 DEF Flushed
  <2> HIDE DEF m, q
  <2>8. CASE ~fo
    <3>1. ShowsAll(fo, w, Append(Flushed, l)) = q
      <4>1. Showing(fo, w, l, q) = q
        <5>1. ~Taken(fo, l)
          BY <2>5, <2>8
        <5> QED BY <5>1 DEF Showing
      <4> QED BY <1>9, <2>2, <2>3, <4>1 DEF q
    <3>2. ShowsAll(fo, w, file') = q
      BY <2>2, <3>1 DEF q
    <3> QED BY <1>1, <1>5, <1>8, <2>7, <2>8, <3>2
  <2>9. CASE fo
    <3> DEFINE e == [type |-> type, what |-> v, at |-> q.at]
    <3>1. e \in UserActions /\ ShowsAll(fo, w, Append(Flushed, l)) =
            [at |-> q.at, acts |-> Keeping(w, e, q.acts)]
      <4>1. /\ e \in UserActions
            /\ Showing(fo, w, l, q) =
                 [at |-> q.at, acts |-> Keeping(w, e, q.acts)]
        <5>1. e = [type |-> l.type, what |-> l.what, at |-> q.at]
          BY <2>3
        <5>2. Taken(fo, l)
          BY <2>5, <2>9
        <5> HIDE DEF e
        <5>3. /\ e \in UserActions
              /\ Taken(fo, l) => Showing(fo, w, l, q) =
                   [at |-> q.at, acts |-> Keeping(w, e, q.acts)]
          BY <2>3, <2>7, <5>1, ShowingPress
        <5> QED BY <5>2, <5>3
      <4> QED BY <1>9, <2>2, <2>3, <4>1 DEF q
    <3>2. v \in w => v \in Buttons \/ Keeps(v)
      BY <1>1 DEF Keeps
    <3>3. v \notin w => Keeping(w, e, q.acts) = q.acts
      BY DEF Keeping
    <3>4. q = [at |-> q.at, acts |-> q.acts] /\ q.acts \in Seq(UserActions)
      BY <2>7 DEF Seen
    <3>5. ShowsAll(fo, w, file') = [at |-> q.at, acts |-> Keeping(w, e, q.acts)]
      <4>1. CASE v \in Buttons \/ Keeps(v)
        BY <2>2, <3>1, <4>1
      <4>2. CASE ~(v \in Buttons \/ Keeps(v))
        BY <2>2, <3>2, <3>3, <3>4, <4>2 DEF q
      <4> QED BY <4>1, <4>2
    <3>6. Bare(Keeping(w, e, q.acts)) = Bare(Keeping(w, a, About(w, acts)))
      <4>1. Bare(q.acts) = Bare(About(w, acts))
        BY <1>5, <2>7, <2>9
      <4>2. e.type = a.type /\ e.what = a.what
        BY DEF a
      <4> HIDE DEF e
      <4> QED BY <1>2, <1>4, <3>1, <3>4, <4>1, <4>2, UserActsShow, KeepingBare
    <3>7. ASSUME ~rec.firstLast
          PROVE  q.at = at /\ e = a /\ q.acts = About(w, acts)
      BY <1>5, <2>7, <2>9, <3>7 DEF a
    <3> HIDE DEF e
    <3>8. Bare(ShowsAll(fo, w, file').acts) = Bare(About(w, acts'))
      BY <1>4, <3>5, <3>6
    <3>9. ~rec.firstLast =>
            ShowsAll(fo, w, file') = [at |-> at, acts |-> About(w, acts')]
      BY <1>4, <3>5, <3>7
    <3> QED BY <1>1, <1>8, <2>9, <3>8, <3>9
  <2> QED BY <2>8, <2>9
<1> QED BY <1>7, <1>8 DEF FileOK

(* A motion adds no press and no release to what the file shows, and its    *)
(* place if it is written.                                                  *)
LEMMA RecordMoves ==
    ASSUME FileOK, RecordInv, NEW p \in Places, Move(p)
    PROVE  RecordInv'
<1> SUFFICES ASSUME NEW fo \in BOOLEAN,
                    NEW w \in SUBSET ((Keys \cup Buttons) \ rec'.action)
             PROVE  LET r == ShowsAll(fo, w, file')
                    IN  /\ ~xinput' /\ ~fo => r.acts = <<>>
                        /\ xinput' \/ fo => Bare(r.acts) = Bare(About(w, acts'))
                        /\ (xinput' \/ fo) /\ (xinput' \/ ~rec'.firstLast) =>
                             r = [at |-> at', acts |-> About(w, acts')]
  BY DEF RecordInv
<1> DEFINE r == ShowsAll(fo, w, file)
<1>1. UNCHANGED <<xinput, rec, acts>> /\ at' = p /\ p \in Nat
  BY PlacesAssumption DEF Move
<1>2. file \in Seq(FileLines) /\ r \in Seen
  BY ShowsOf DEF FileOK
<1>3. /\ ~xinput /\ ~fo => r.acts = <<>>
      /\ xinput \/ fo => Bare(r.acts) = Bare(About(w, acts))
      /\ (xinput \/ fo) /\ (xinput \/ ~rec.firstLast) =>
           r = [at |-> at, acts |-> About(w, acts)]
  BY <1>1 DEF RecordInv
<1>4. \A d \in {"core", "slave"} :
        LET l == LineOf(d, "motion", p)
        IN  l \in FileLines /\ l.type = "motion" /\ l.what = p /\ l.dev = d
  BY <1>1 DEF LineOf, MotionLines, FileLines
<1>5. ASSUME NEW d \in {"core", "slave"}
      PROVE  ShowsAll(fo, w, Append(file, LineOf(d, "motion", p))) =
               IF Taken(fo, LineOf(d, "motion", p))
               THEN [at |-> p, acts |-> r.acts] ELSE r
  <2> DEFINE l == LineOf(d, "motion", p)
  <2>1. l \in FileLines /\ l.type = "motion" /\ l.what = p
    BY <1>4
  <2> HIDE DEF l
  <2>2. ShowsAll(fo, w, Append(file, l)) = Showing(fo, w, l, r)
    BY <1>2, <2>1, ShowsOf
  <2> QED BY <2>1, <2>2 DEF Showing, l
<1> HIDE DEF r
<1>6. CASE xinput
  <2>1. file' = Append(file, LineOf("slave", "motion", p))
    BY <1>4, <1>6, XIWrites DEF Move
  <2>2. Taken(fo, LineOf("slave", "motion", p))
    BY <1>4 DEF Taken
  <2>3. ShowsAll(fo, w, file') = [at |-> p, acts |-> r.acts]
    BY <1>5, <2>1, <2>2
  <2>4. r.acts = About(w, acts)
    BY <1>3, <1>6
  <2> QED BY <1>1, <1>6, <2>3, <2>4
<1>7. CASE ~xinput /\ HoldBack(p)
  <2>1. file' = file /\ rec.firstLast
    BY <1>7 DEF HoldBack
  <2> QED BY <1>1, <1>3, <1>7, <2>1 DEF r
<1>8. CASE ~xinput /\ PrintMotion(p)
  <2>1. file' = Append(file, LineOf("core", "motion", p))
    BY <1>8 DEF PrintMotion
  <2>2. Taken(fo, LineOf("core", "motion", p)) <=> fo
    BY <1>4 DEF Taken
  <2>3. ShowsAll(fo, w, file') =
          IF fo THEN [at |-> p, acts |-> r.acts] ELSE r
    BY <1>5, <2>1, <2>2
  <2>4. ~rec.firstLast /\ fo => r.acts = About(w, acts)
    BY <1>3
  <2> QED BY <1>1, <1>3, <1>8, <2>3, <2>4
<1> QED BY <1>6, <1>7, <1>8 DEF Move, FileOK

(* An empty file shows nothing, and nothing was done.                       *)
LEMMA RecordBegins ==
    ASSUME file = <<>>, acts = <<>>, at = Nowhere
    PROVE  RecordInv
<1>1. ASSUME NEW fo \in BOOLEAN, NEW w
      PROVE  ShowsAll(fo, w, <<>>) = Nothing /\ About(w, <<>>) = <<>>
  BY ShowsOf, AboutOf
<1> QED BY <1>1 DEF RecordInv, Nothing

(* RecordInv is inductive, together with FileOK.                            *)
LEMMA RecordStep ==
    ASSUME FileOK, RecordInv, [TripNext]_tripVars
    PROVE  RecordInv'
<1>1. CASE UNCHANGED recVars
  BY <1>1 DEF recVars, userVars, RecordInv
<1>2. CASE Record
  <2>1. file' = <<>> /\ acts' = <<>> /\ at' = Nowhere
    BY <1>2 DEF Record, StartRecording
  <2>2. ASSUME NEW fo \in BOOLEAN, NEW w
        PROVE  ShowsAll(fo, w, <<>>) = Nothing /\ About(w, <<>>) = <<>>
    BY ShowsOf, AboutOf
  <2> QED BY <2>1, <2>2 DEF RecordInv, Nothing
<1>3. CASE UserActs
  BY <1>3, RecordActs, RecordMoves DEF UserActs, RecNext, Press, Release
<1> QED BY <1>1, <1>2, <1>3 DEF TripNext, tripVars, EndRecord, Replay,
          PlayScript, Retype, Playing

-----------------------------------------------------------------------------
(* Whether places are scaled. *)

(* One resolution is replayed to in a process; while all sessions of it ask *)
(* for the same, motions are scaled if that is asked for and needed.        *)
ScaleInv ==
    /\ fakings \in Nat /\ diff \in {"unset", "used", "unused"}
    /\ switched \in BOOLEAN
    /\ repRes \in Asked \cup {Size, Unset}
    /\ faker # "idle" => fakings > 0
    /\ fakings > 0 => repRes # Unset
    /\ fakings = 0 => diff = "unset"
    /\ ~switched /\ diff # "unset" =>
         diff = IF opts.adjust /\ repRes # Size THEN "used" ELSE "unused"

(* At first no resolution is replayed to.                                   *)
LEMMA ScaleInit == TripInit => ScaleInv
<1> SUFFICES ASSUME faker = "idle", repRes = Unset, diff = "unset",
                    switched = FALSE, fakings = 0
             PROVE  ScaleInv
  BY DEF TripInit, FakeInit
<1>1. /\ fakings \in Nat /\ diff \in {"unset", "used", "unused"}
      /\ switched \in BOOLEAN /\ repRes \in Asked \cup {Size, Unset}
  OBVIOUS
<1>2. ~(faker # "idle") /\ ~(fakings > 0) /\ ~(diff # "unset")
  OBVIOUS
<1> QED BY <1>1, <1>2 DEF ScaleInv

(* The beginning of a session keeps ScaleInv and knows the resolution.      *)
LEMMA ScaleBegins ==
    ASSUME OptsOK, ScaleInv, NEW kind, NEW t, BeginFaking(kind, t)
    PROVE  ScaleInv' /\ repRes' # Unset /\ OptsOK'
<1>1. OptsOK'
  BY FakingsAssumption DEF BeginFaking, OptsOK
<1>2. /\ fakings' = fakings + 1 /\ repRes' = Fitted(opts'.asked)
      /\ switched' = (switched \/ (fakings > 0 /\ opts'.adjust # opts.adjust))
      /\ diff' = diff
  BY DEF BeginFaking
<1>3. opts'.asked \in Asked \cup {Unset}
  BY <1>1 DEF OptsOK
<1>4. repRes' \in Asked \cup {Size} /\ (fakings > 0 => repRes' = repRes)
  BY <1>2, <1>3 DEF Fitted, ScaleInv
<1>5. repRes' # Unset
  BY <1>4, UnsetAssumption
<1>6. switched' \in BOOLEAN
      /\ ~switched' =>
           ~switched /\ (fakings > 0 => opts'.adjust = opts.adjust)
  BY <1>2 DEF ScaleInv
<1> QED BY <1>1, <1>2, <1>4, <1>5, <1>6 DEF ScaleInv

(* After a motion it is settled whether motions are scaled.                 *)
LEMMA ScaleMotion ==
    ASSUME ScaleInv, diff' = Scaling
    PROVE  /\ diff' \in {"used", "unused"}
           /\ ~switched => diff' =
                IF opts.adjust /\ repRes # Size THEN "used" ELSE "unused"
  BY DEF ScaleInv, Scaling

(* A line of the file keeps ScaleInv.                                       *)
LEMMA ScaleLine ==
    ASSUME ScaleInv, ReplayLine(Buttons)
    PROVE  ScaleInv'
<1>1. /\ fakings' = fakings /\ switched' = switched /\ repRes' = repRes
      /\ faker' = faker /\ opts' = opts /\ faker # "idle"
  BY DEF ReplayLine
<1>2. diff' = diff \/ diff' = Scaling
  BY DEF ReplayLine, ScriptLine, EventLine, FakeMotion
<1>3. CASE diff' = diff
  BY <1>1, <1>3 DEF ScaleInv
<1>4. CASE diff' = Scaling
  <2>1. /\ diff' \in {"used", "unused"}
        /\ ~switched => diff' =
             IF opts.adjust /\ repRes # Size THEN "used" ELSE "unused"
    BY <1>4, ScaleMotion
  <2> QED BY <1>1, <2>1 DEF ScaleInv
<1> QED BY <1>2, <1>3, <1>4

(* ScaleInv is inductive.                                                   *)
LEMMA ScaleStep ==
    ASSUME OptsOK, ScaleInv, [TripNext]_tripVars
    PROVE  ScaleInv'
<1>1. CASE UNCHANGED fakeVars
  BY <1>1 DEF fakeVars, ScaleInv
<1>2. CASE Replay \/ PlayScript \/ Retype
  BY <1>2, ScaleBegins DEF Replay, PlayScript, Retype
<1>3. CASE Playing
  <2>1. CASE CrashOnLine(Buttons) \/ EndOfReplay \/ StopOfReplay \/ TypeStop
               \/ EndOfText
    BY <2>1 DEF CrashOnLine, EndOfReplay, StopOfReplay, TypeStop, EndOfText, End, ScaleInv
  <2>2. CASE TypeKey \/ TypePress \/ TypeRelease
    BY <2>2 DEF TypeKey, TypePress, TypeRelease, ScaleInv
  <2> QED BY <1>3, <2>1, <2>2, ScaleLine DEF Playing, FakeNext
<1> QED BY <1>1, <1>2, <1>3
           DEF TripNext, tripVars, Record, UserActs, EndRecord

-----------------------------------------------------------------------------

(* Where a display has the places of the recording.                         *)
PlacesOn(d) == [p \in Positions |-> There(d, p)]

(* A place is replayed to a place, and no place to no place.                *)
LEMMA PlacesFit ==
    ASSUME OptsOK, ScaleInv, repRes # Unset, NEW d
    PROVE  /\ PlacesOn(d) \in [Positions -> Int]
           /\ PlacesOn(d)[Nowhere] = Nowhere
<1>1. /\ repRes \in Nat /\ Size \in Nat \ {0} /\ opts.offset \in Int
      /\ Nowhere \in Positions /\ Nowhere \in Int
  BY SizeAssumption DEF ScaleInv, OptsOK, Positions, Nowhere
<1>2. ASSUME NEW p \in Positions PROVE There(d, p) \in Int
  <2>1. CASE p = Nowhere
    BY <1>1, <2>1 DEF There
  <2>2. CASE p # Nowhere
    <3>1. p \in Nat
      BY <2>2 DEF Positions
    <3>2. p * repRes \in Nat
      BY <1>1, <3>1
    <3>3. (p * repRes) \div Size \in Int
      BY <1>1, <3>2
    <3> QED BY <1>1, <3>1, <3>3 DEF There
  <2> QED BY <2>1, <2>2
<1>3. There(d, Nowhere) = Nowhere
  BY DEF There
<1> QED BY <1>1, <1>2, <1>3 DEF PlacesOn

(* A motion goes there, if all sessions of the process asked for the same.  *)
LEMMA MotionFits ==
    ASSUME OptsOK, ScaleInv, repRes # Unset, NEW p \in Nat, FakeMotion(p)
    PROVE  /\ NewPlace(p) \in Int
           /\ ~switched => NewPlace(p) = There(Main, p)
<1>1. /\ repRes \in Nat /\ Size \in Nat \ {0} /\ opts.offset \in Int
      /\ p # Nowhere
  BY SizeAssumption DEF ScaleInv, OptsOK, Nowhere
<1>2. p * repRes \in Nat
  BY <1>1
<1>3. (p * repRes) \div Size \in Int
  BY <1>1, <1>2
<1>4. NewPlace(p) \in Int
  <2>1. NewPlace(p) \in {(p * repRes) \div Size + opts.offset,
                         p + opts.offset}
    BY DEF NewPlace
  <2> QED BY <1>1, <1>3, <2>1
<1>5. (p * Size) \div Size = p
  BY <1>1
<1>6. ASSUME ~switched PROVE NewPlace(p) = There(Main, p)
  <2>1. diff' = IF opts.adjust /\ repRes # Size THEN "used" ELSE "unused"
    BY <1>6, ScaleMotion DEF FakeMotion
  <2>2. CASE opts.adjust /\ repRes # Size
    BY <1>1, <2>1, <2>2 DEF NewPlace, There
  <2>3. CASE opts.adjust /\ repRes = Size
    BY <1>1, <1>5, <2>1, <2>3 DEF NewPlace, There
  <2>4. CASE ~opts.adjust
    BY <1>1, <2>1, <2>4 DEF NewPlace, There
  <2> QED BY <2>2, <2>3, <2>4
<1> QED BY <1>4, <1>6

(* The file is replayed in one scale, with the pointer it was recorded with. *)
InPlace == ~switched /\ (opts.forced \/ "pointer" \notin opts.gone)

(* A display shows what r says, in the places it has.                       *)
DisplayOK(d, r) ==
    /\ screen[d].acts \in Seq(ScreenActs) /\ screen[d].at \in Int
    /\ Bare(Done(d)) = Bare(r.acts)
    /\ InPlace => /\ screen[d].at = PlacesOn(d)[r.at]
                  /\ Done(d) = Moved(PlacesOn(d), r.acts)

(* The press or release that a display gets, and the motion it follows.     *)
LEMMA ScreenEvents ==
    ASSUME NEW s, s = Screen(s)
    PROVE  /\ \A type, w :
                /\ Event(s, type, w).acts =
                     Append(s.acts, [type |-> type, what |-> w, at |-> s.at])
                /\ Event(s, type, w).at = s.at
           /\ \A p : /\ [s EXCEPT !.at = p].at = p
                     /\ [s EXCEPT !.at = p].acts = s.acts
<1>1. ASSUME NEW type, NEW w
      PROVE  /\ Event(s, type, w).acts =
                  Append(s.acts, [type |-> type, what |-> w, at |-> s.at])
             /\ Event(s, type, w).at = s.at
  <2> DEFINE held == IF type = "press" THEN s.down \cup {w} ELSE s.down \ {w}
             done == Append(s.acts, [type |-> type, what |-> w, at |-> s.at])
  <2>1. Event(s, type, w) = [[s EXCEPT !.down = held] EXCEPT !.acts = done]
    BY DEF Event
  <2> HIDE DEF held, done
  <2>2. Event(s, type, w) = [down |-> held, at |-> s.at, acts |-> done,
                             typed |-> s.typed]
    BY <2>1 DEF Screen
  <2> QED BY <2>2 DEF done
<1>2. ASSUME NEW p
      PROVE  [s EXCEPT !.at = p].at = p /\ [s EXCEPT !.at = p].acts = s.acts
  <2>1. [s EXCEPT !.at = p] = [down |-> s.down, at |-> p, acts |-> s.acts,
                               typed |-> s.typed]
    BY DEF Screen
  <2> QED BY <2>1
<1> QED BY <1>1, <1>2

(* A line that is faked keeps DisplayOK of each display: what the display   *)
(* shows is what the lines read so far show.                                *)
LEMMA DisplayStep ==
    ASSUME OptsOK, ScreensOK, ScaleInv, repRes # Unset,
           NEW d \in All, NEW r \in Seen, DisplayOK(d, r),
           NEW l \in FileLines, EventLine(l, Buttons),
           UNCHANGED <<opts, rec, repRes, switched>>,
           FileOK
    PROVE  DisplayOK(d, Showing(opts.forced, Shown(d), l, r))'
<1> DEFINE m == PlacesOn(d)
           w == Shown(d)
           fo == opts.forced
           e == [type |-> l.type, what |-> l.what, at |-> r.at]
           a == [type |-> l.type, what |-> l.what, at |-> screen[d].at]
           s == screen[d].acts
           D == {Main} \cup Displays
<1>1. /\ m \in [Positions -> Int] /\ m[Nowhere] = Nowhere
  BY PlacesFit
<1>2. PlacesOn(d)' = m /\ Shown(d)' = w /\ opts'.forced = fo
      /\ Done(d)' = About(w, screen'[d].acts)
  <2>1. There(d, 0)' = There(d, 0) /\ \A p : There(d, p)' = There(d, p)
    BY DEF There
  <2>2. PlacesOn(d)' = m
    BY <2>1 DEF PlacesOn, There
  <2> QED BY <2>2 DEF Shown, Done
<1>3. /\ s \in Seq(ScreenActs) /\ screen[d].at \in Int
      /\ Bare(About(w, s)) = Bare(r.acts)
      /\ InPlace => screen[d].at = m[r.at] /\ About(w, s) = Moved(m, r.acts)
  BY DEF DisplayOK, Done
<1>4. /\ r.at \in Positions /\ r.acts \in Seq(UserActions)
      /\ r.acts \in Seq(ScreenActs)
  BY UserActsShow DEF Seen
<1>5. About(w, s) \in Seq(ScreenActs)
  BY <1>3, AboutOf
<1>6. d \in D /\ screen[d] = Screen(screen[d]) /\ DOMAIN screen = D
  BY DEF OptsOK, ScreensOK, All
<1>7. Faked(l) <=> Taken(fo, l)
  BY DEF Faked, Taken
<1> SUFFICES ASSUME NEW q, q = Showing(fo, w, l, r)
             PROVE  /\ screen'[d].acts \in Seq(ScreenActs)
                    /\ screen'[d].at \in Int
                    /\ Bare(About(w, screen'[d].acts)) = Bare(q.acts)
                    /\ InPlace =>
                         /\ screen'[d].at = m[q.at]
                         /\ About(w, screen'[d].acts) = Moved(m, q.acts)
  BY <1>2 DEF DisplayOK, InPlace
<1> HIDE DEF m, w, fo
<1>8. CASE ~Faked(l)
  <2>1. screen' = screen
    BY <1>8 DEF EventLine
  <2>2. q = r
    BY <1>7, <1>8 DEF Showing
  <2> QED BY <1>3, <2>1, <2>2
<1>9. CASE Faked(l) /\ l.type = "motion" /\ Missing(l, Buttons)
  <2>1. screen' = screen /\ ~InPlace
    BY <1>9 DEF EventLine, Missing, DeviceOf, InPlace
  <2>2. q = [at |-> l.what, acts |-> r.acts]
    BY <1>7, <1>9 DEF Showing
  <2> QED BY <1>3, <2>1, <2>2
<1>10. CASE Faked(l) /\ l.type = "motion" /\ ~Missing(l, Buttons)
  <2> DEFINE p == l.what
  <2>1. p \in Nat /\ p \in Positions /\ p # Nowhere
    BY <1>10 DEF FileLines, PressLines, MotionLines, Positions, Nowhere
  <2>2. FakeMotion(p)
    BY <1>10 DEF EventLine
  <2>3. screen'[d] =
          [screen[d] EXCEPT !.at = IF d = Main THEN NewPlace(p) ELSE p]
    BY <1>6, <2>2 DEF FakeMotion, All
  <2> DEFINE z == IF d = Main THEN NewPlace(p) ELSE p
  <2>4. z \in Int /\ (InPlace => z = m[p])
    <3>1. m[p] = There(d, p)
      BY <2>1 DEF m, PlacesOn
    <3>2. d # Main => There(d, p) = p
      BY DEF There
    <3> QED BY <2>1, <2>2, <3>1, <3>2, MotionFits DEF InPlace
  <2>5. q = [at |-> p, acts |-> r.acts]
    BY <1>7, <1>10 DEF Showing
  <2> HIDE DEF z, p
  <2>6. screen'[d].at = z /\ screen'[d].acts = s
    BY <1>6, <2>3, ScreenEvents DEF z
  <2> HIDE DEF s
  <2> QED BY <1>3, <2>4, <2>5, <2>6
<1>11. CASE Faked(l) /\ l.type # "motion"
  <2>1. /\ e \in UserActions
        /\ q = [at |-> r.at, acts |-> Keeping(w, e, r.acts)]
    BY <1>7, <1>11, ShowingPress
  <2>2. a \in ScreenActs /\ e \in ScreenActs
    BY <1>3, <2>1, UserActsShow DEF UserActions, ScreenActs
  <2>3. a.type = e.type /\ a.what = e.what /\ e.what = l.what /\ e.at = r.at
    OBVIOUS
  <2>4. InPlace => a = Put(m, e)
    BY <1>3 DEF Put
  <2> HIDE DEF a, e
  <2>5. CASE screen'[d] = Event(screen[d], l.type, l.what)
    <3>1. screen'[d].acts = Append(s, a) /\ screen'[d].at = screen[d].at
      BY <1>6, <2>5, ScreenEvents DEF a
    <3>2. About(w, screen'[d].acts) = Keeping(w, a, About(w, s))
      <4>1. \A t \in Seq(ScreenActs), b \in ScreenActs :
              About(w, Append(t, b)) = Keeping(w, b, About(w, t))
        BY AboutOf
      <4> QED BY <1>3, <2>2, <3>1, <4>1
    <3>3. Bare(Keeping(w, a, About(w, s))) = Bare(Keeping(w, e, r.acts))
      BY <1>3, <1>4, <1>5, <2>2, <2>3, KeepingBare
    <3>4. ASSUME InPlace
          PROVE  Keeping(w, a, About(w, s)) = Moved(m, Keeping(w, e, r.acts))
      <4>1. Moved(m, Append(r.acts, e)) = Append(Moved(m, r.acts), Put(m, e))
        BY <1>1, <1>4, <2>1, MovedOf
      <4>2. About(w, s) = Moved(m, r.acts) /\ a = Put(m, e)
        BY <1>3, <2>4, <3>4
      <4> QED BY <2>3, <4>1, <4>2 DEF Keeping
    <3>5. Append(s, a) \in Seq(ScreenActs)
      BY <1>3, <2>2
    <3> HIDE DEF s
    <3> QED BY <1>3, <2>1, <3>1, <3>2, <3>3, <3>4, <3>5
  <2>6. CASE screen'[d] = screen[d] /\ l.what \notin w
    <3>1. q = [at |-> r.at, acts |-> r.acts]
      BY <2>1, <2>3, <2>6 DEF Keeping
    <3> QED BY <1>3, <2>6, <3>1
  <2>7. \/ screen'[d] = Event(screen[d], l.type, l.what)
        \/ screen'[d] = screen[d] /\ l.what \notin w
    <3>1. CASE l.what \in Buttons
      <4>1. FakeButton(l.type, l.what)
        BY <1>11, <3>1 DEF EventLine
      <4> QED BY <1>6, <4>1 DEF FakeButton
    <3>2. CASE l.what \notin Buttons
      <4>1. FakeKey(l.type, l.what, opts.forced)
        BY <1>11, <3>2 DEF EventLine
      <4>2. CASE d = Main \/ opts.forced
        BY <1>6, <4>1, <4>2 DEF FakeKey, All
      <4>3. CASE ~(d = Main \/ opts.forced)
        BY <1>6, <3>2, <4>1, <4>3 DEF FakeKey, Shown, w
      <4> QED BY <4>2, <4>3
    <3> QED BY <3>1, <3>2
  <2> QED BY <2>5, <2>6, <2>7
<1> QED BY <1>8, <1>9, <1>10, <1>11

-----------------------------------------------------------------------------
(* The replay of a file. *)

(* What is left of the file is its end, and the displays show what is       *)
(* before it.                                                               *)
Read == Len(file) - Len(todo)

ReplayInv ==
    /\ recording => ~recorded
    /\ recorded =>
         /\ faker \in {"idle", "replay", "gone"} /\ fakings > 0
         /\ todo \in Seq(FileLines) /\ Len(todo) <= Len(file)
         /\ \A i \in 1..Len(todo) : todo[i] = file[Read + i]
         /\ ended = "whole" => todo = <<>>
         /\ \A d \in All :
              DisplayOK(d, Shows(opts.forced, Shown(d), file)[Read])

(* A replay begins with all of the file ahead, and with displays that show  *)
(* nothing.                                                                 *)
LEMMA ReplayBegins ==
    ASSUME OptsOK, ScreensOK, ScaleInv, FileOK, Replay
    PROVE  ReplayInv'
<1>1. /\ BeginFaking("replay", file) /\ recorded' = TRUE /\ recording' = FALSE
      /\ UNCHANGED <<file, rec>>
  BY DEF Replay, recVars
<1>2. ScaleInv' /\ repRes' # Unset /\ OptsOK' /\ fakings' > 0
  <2>1. fakings' = fakings + 1 /\ fakings \in Nat
    BY <1>1 DEF BeginFaking, ScaleInv
  <2> QED BY <1>1, <2>1, ScaleBegins
<1>3. /\ faker' = "replay" /\ todo' = file /\ ended' = "not"
      /\ file \in Seq(FileLines) /\ Len(file) \in Nat
  BY <1>1 DEF BeginFaking, FileOK
<1>4. Read' = 0
  BY <1>1, <1>3 DEF Read
<1>5. ASSUME NEW d \in All'
      PROVE  DisplayOK(d, Shows(opts.forced, Shown(d), file)[Read])'
  <2>1. d \in {Main} \cup Displays
    BY <1>2, <1>5 DEF All, OptsOK
  <2>2. screen'[d] = [Blank EXCEPT !.down = screen[d].down]
    BY <1>1, <2>1 DEF BeginFaking, ScreensOK
  <2>3. screen'[d].acts = <<>> /\ screen'[d].at = -1
    BY <2>2 DEF Blank
  <2>4. Shows(opts'.forced, Shown(d)', file)[0] = Nothing
    BY <1>3, ShowsDef
  <2>5. PlacesOn(d)'[Nowhere] = Nowhere
    BY DEF PlacesOn, There, Positions
  <2>6. About(Shown(d)', <<>>) = <<>> /\ Moved(PlacesOn(d)', <<>>) = <<>>
    <3>1. DOMAIN <<>> = {}
      OBVIOUS
    <3> QED BY <3>1, AboutOf DEF Moved
  <2>7. /\ <<>> \in Seq(ScreenActs) /\ -1 \in Int
    OBVIOUS
  <2>8. DisplayOK(d, Nothing)'
    BY <2>3, <2>5, <2>6, <2>7 DEF DisplayOK, Done, Nothing, Nowhere
  <2>9. Shows(opts'.forced, Shown(d)', file')[Read'] = Nothing
    BY <1>1, <1>4, <2>4
  <2> QED BY <2>8, <2>9
<1>6. \A i \in 1..Len(file) : todo'[i] = file'[Read' + i]
  BY <1>1, <1>3, <1>4
<1> QED BY <1>1, <1>2, <1>3, <1>5, <1>6 DEF ReplayInv

(* A line of the file that is replayed keeps ReplayInv.                     *)
LEMMA ReplayOne ==
    ASSUME OptsOK, ScreensOK, ScaleInv, FileOK, ReplayInv,
           ReplayLine(Buttons), UNCHANGED <<recVars, recording, recorded>>
    PROVE  ReplayInv'
<1> SUFFICES ASSUME recorded PROVE ReplayInv'
  BY DEF ReplayInv
<1> PICK l : l = Head(todo)
  OBVIOUS
<1> DEFINE n == Read
           N == Len(file)
<1>1. /\ UNCHANGED <<faker, opts, repRes, switched, ended, fakings, rec, file,
                     recording, recorded>>
      /\ todo # <<>> /\ todo' = Tail(todo)
  BY DEF ReplayLine, recVars
<1>2. /\ todo \in Seq(FileLines) /\ Len(todo) \in Nat /\ Len(todo) > 0
      /\ file \in Seq(FileLines) /\ N \in Nat /\ Len(todo) <= N
      /\ l = todo[1] /\ l \in FileLines
  BY <1>1 DEF ReplayInv, FileOK
<1>3. l = file[n + 1] /\ n + 1 \in 1..N /\ n \in 0..N /\ (n + 1) - 1 = n
  BY <1>2 DEF ReplayInv, Read
<1>4. /\ todo' \in Seq(FileLines) /\ Len(todo') = Len(todo) - 1
      /\ \A i \in 1..Len(todo') : todo'[i] = todo[i + 1]
  BY <1>1, <1>2
<1>5. Read' = n + 1
  BY <1>1, <1>2, <1>4 DEF Read
<1>6. \A i \in 1..Len(todo') : todo'[i] = file'[Read' + i]
  <2>1. ASSUME NEW i \in 1..Len(todo') PROVE todo'[i] = file'[Read' + i]
    <3>1. i + 1 \in 1..Len(todo) /\ todo'[i] = todo[i + 1]
      BY <1>2, <1>4
    <3>2. todo[i + 1] = file[n + (i + 1)]
      BY <3>1 DEF ReplayInv
    <3>3. n + (i + 1) = Read' + i
      BY <1>2, <1>5 DEF Read
    <3> QED BY <1>1, <3>1, <3>2, <3>3
  <2> QED BY <2>1
<1>7. EventLine(l, Buttons)
  <2>1. l.dev # "prim"
    BY <1>2 DEF FileLines, PressLines, MotionLines
  <2> QED BY <2>1 DEF ReplayLine
<1>8. repRes # Unset
  BY DEF ScaleInv, ReplayInv
<1>9. ended' = "whole" => todo' = <<>>
  BY <1>1 DEF ReplayInv
<1> HIDE DEF n
<1>10. ASSUME NEW d \in All'
       PROVE  DisplayOK(d, Shows(opts.forced, Shown(d), file)[Read])'
  <2> PICK r : r = Shows(opts.forced, Shown(d), file)[n]
    OBVIOUS
  <2>1. d \in All
    BY <1>1 DEF All
  <2>2. r \in Seen /\ Shows(opts.forced, Shown(d), file)[n + 1] =
                        Showing(opts.forced, Shown(d), l, r)
    <3> DEFINE S == Shows(opts.forced, Shown(d), file)
    <3>1. /\ S \in [0..N -> Seen]
          /\ \A k \in 1..N :
               S[k] = Showing(opts.forced, Shown(d), file[k], S[k - 1])
      BY <1>2, ShowsDef
    <3> HIDE DEF S
    <3>2. r = S[n]
      BY DEF S
    <3>3. S[n] \in Seen /\ S[n + 1] = Showing(opts.forced, Shown(d), l, S[n])
      BY <1>3, <3>1
    <3> QED BY <3>2, <3>3 DEF S
  <2>3. DisplayOK(d, r)
    <3>1. \A c \in All :
            DisplayOK(c, Shows(opts.forced, Shown(c), file)[Read])
      BY DEF ReplayInv
    <3> QED BY <2>1, <3>1 DEF n
  <2>4. DisplayOK(d, Showing(opts.forced, Shown(d), l, r))'
    BY <1>1, <1>2, <1>7, <1>8, <2>1, <2>2, <2>3, DisplayStep
  <2>5. Shown(d)' = Shown(d)
    BY <1>1 DEF Shown
  <2>6. Shows(opts'.forced, Shown(d)', file')[Read'] =
          Showing(opts.forced, Shown(d), l, r)
    BY <1>1, <1>5, <2>2, <2>5
  <2> QED BY <1>1, <2>4, <2>5, <2>6
<1> QED BY <1>1, <1>2, <1>4, <1>6, <1>9, <1>10 DEF ReplayInv

(* A step that leaves the file and the displays alone.                      *)
LEMMA ReplayUntouched ==
    ASSUME ReplayInv, recording' => recording, recorded' = recorded,
           UNCHANGED <<opts, todo, file, rec, fakings, screen, switched,
                       repRes>>,
           recorded => /\ faker' \in {"idle", "replay", "gone"}
                       /\ ended' = "whole" => todo = <<>>
    PROVE  ReplayInv'
<1> SUFFICES ASSUME recorded PROVE ReplayInv'
  BY DEF ReplayInv
<1>1. Read' = Read /\ All' = All
  BY DEF Read, All
<1>2. ASSUME NEW d \in All
      PROVE  DisplayOK(d, Shows(opts.forced, Shown(d), file)[Read])'
  <2>1. Shown(d)' = Shown(d) /\ Done(d)' = Done(d)
    BY DEF Shown, Done
  <2>2. PlacesOn(d)' = PlacesOn(d)
    BY DEF PlacesOn, There
  <2>3. DisplayOK(d, Shows(opts.forced, Shown(d), file)[Read])
    BY DEF ReplayInv
  <2> QED BY <1>1, <2>1, <2>2, <2>3 DEF DisplayOK, InPlace
<1> QED BY <1>1, <1>2 DEF ReplayInv

(* ReplayInv is inductive, with the types of the settings, the screens and  *)
(* the file, and ScaleInv.                                                  *)
LEMMA ReplayStep ==
    ASSUME OptsOK, ScreensOK, ScaleInv, FileOK, ReplayInv,
           [TripNext]_tripVars
    PROVE  ReplayInv'
<1>1. CASE UNCHANGED <<rec, file, fakeVars>> /\ recorded' = recorded
               /\ (recording' => recording)
  <2>1. /\ UNCHANGED <<opts, todo, file, rec, faker, ended, fakings, recorded,
                       screen, switched, repRes>>
        /\ recording' => recording
    BY <1>1 DEF fakeVars
  <2>2. recorded => /\ faker' \in {"idle", "replay", "gone"}
                    /\ ended' = "whole" => todo = <<>>
    BY <2>1 DEF ReplayInv
  <2> QED BY <2>1, <2>2, ReplayUntouched
<1>2. CASE Record
  BY <1>2 DEF Record, ReplayInv
<1>3. CASE UserActs
  BY <1>3 DEF UserActs, ReplayInv
<1>4. CASE Replay
  BY <1>4, ReplayBegins
<1>5. CASE PlayScript \/ Retype
  BY <1>5 DEF PlayScript, Retype, ReplayInv
<1>6. CASE Playing
  <2>1. UNCHANGED <<recVars, recording, recorded>>
    BY <1>6 DEF Playing
  <2> SUFFICES ASSUME recorded PROVE ReplayInv'
    BY <2>1 DEF ReplayInv
  <2>2. CASE CrashOnLine(Buttons) \/ EndOfReplay \/ StopOfReplay
    <3>1. /\ UNCHANGED <<opts, todo, file, rec, fakings, recorded, recording,
                         screen, switched, repRes>>
          /\ faker' \in {"idle", "gone"}
          /\ ended' = "whole" => todo = <<>>
      BY <2>1, <2>2 DEF CrashOnLine, EndOfReplay, StopOfReplay, End, recVars
    <3> QED BY <3>1, ReplayUntouched
  <2>3. ~(TypeKey \/ TypeStop \/ TypePress \/ TypeRelease \/ EndOfText)
    BY DEF TypeKey, TypeStop, TypePress, TypeRelease, EndOfText, ReplayInv
  <2> QED BY <1>6, <2>1, <2>2, <2>3, ReplayOne DEF Playing, FakeNext
<1> QED BY <1>1, <1>2, <1>3, <1>4, <1>5, <1>6
        DEF TripNext, tripVars, EndRecord, recVars

TripInv == HeldInv /\ FileOK /\ LastInv /\ RecordInv /\ ScaleInv /\ ReplayInv

(* The five invariants hold at first.                                       *)
LEMMA TripStarts == TripInit => TripInv
<1> SUFFICES ASSUME TripInit PROVE TripInv
  OBVIOUS
<1>1. RecordInv
  BY RecordBegins DEF TripInit, RecInit
<1>2. ReplayInv
  BY DEF TripInit, ReplayInv
<1> QED BY <1>1, <1>2, HeldInit, FileInit, ScaleInit DEF TripInv

(* The invariants together are inductive.                                   *)
LEMMA TripStep == TripInv /\ [TripNext]_tripVars => TripInv'
  BY HeldStep, FileStep, RecordStep, ScaleStep, ReplayStep
     DEF TripInv, HeldInv

(* What a display of a replay shows, what the whole file shows, and what    *)
(* the user did.                                                            *)
LEMMA DisplayShows ==
    ASSUME TripInv, recorded, NEW d \in All
    PROVE  \E r, q \in Seen :
             /\ DisplayOK(d, r) /\ Starts(r.acts, q.acts)
             /\ ended = "whole" => r = q
             /\ ~xinput /\ ~opts.forced => q.acts = <<>>
             /\ xinput \/ opts.forced =>
                  Bare(q.acts) = Bare(About(Shown(d), acts))
             /\ (xinput \/ opts.forced) /\ (xinput \/ ~rec.firstLast) =>
                  q.acts = About(Shown(d), acts)
<1> DEFINE fo == opts.forced
           w == Shown(d)
           q == ShowsAll(fo, w, file)
           r == Shows(fo, w, file)[Read]
<1>1. /\ file \in Seq(FileLines) /\ todo \in Seq(FileLines)
      /\ Len(todo) <= Len(file) /\ (ended = "whole" => todo = <<>>)
      /\ DisplayOK(d, r)
  BY DEF TripInv, FileOK, ReplayInv
<1>2. Read \in 0..Len(file) /\ Len(file) \in 0..Len(file)
      /\ (todo = <<>> => Read = Len(file))
  BY <1>1 DEF Read
<1>3. r \in Seen /\ q \in Seen
  BY <1>1, <1>2, ShowsDef DEF ShowsAll
<1>4. Starts(r.acts, q.acts)
  BY <1>1, <1>2, ShowsMore
<1>5. ended = "whole" => r = q
  BY <1>1, <1>2 DEF ShowsAll
<1>6. fo \in BOOLEAN /\ w \in SUBSET ((Keys \cup Buttons) \ rec.action)
  BY DEF TripInv, HeldInv, OptsOK, Shown
<1>7. /\ ~xinput /\ ~fo => q.acts = <<>>
      /\ xinput \/ fo => Bare(q.acts) = Bare(About(w, acts))
      /\ (xinput \/ fo) /\ (xinput \/ ~rec.firstLast) =>
           q = [at |-> at, acts |-> About(w, acts)]
  BY <1>6 DEF TripInv, RecordInv
<1> HIDE DEF q, r, w, fo
<1>8. /\ DisplayOK(d, r) /\ Starts(r.acts, q.acts)
      /\ ended = "whole" => r = q
      /\ ~xinput /\ ~fo => q.acts = <<>>
      /\ xinput \/ fo => Bare(q.acts) = Bare(About(w, acts))
      /\ (xinput \/ fo) /\ (xinput \/ ~rec.firstLast) => q.acts = About(w, acts)
  BY <1>1, <1>4, <1>5, <1>7
<1> QED BY <1>3, <1>8 DEF fo, w

(* What the user did is what is due, but for the places. *)
LEMMA DueActs ==
    ASSUME TripInv, NEW d
    PROVE  /\ About(Shown(d), acts) \in Seq(UserActions)
           /\ Due(d) = Moved(PlacesOn(d), About(Shown(d), acts))
<1> DEFINE s == About(Shown(d), acts)
<1>1. s \in Seq(UserActions)
  BY AboutOf DEF TripInv, FileOK
<1>2. \A i \in DOMAIN s : s[i].at \in Positions /\ s[i] \in UserActions
  <2>1. DOMAIN s = 1..Len(s) /\ \A i \in 1..Len(s) : s[i] \in UserActions
    BY <1>1
  <2> QED BY <2>1 DEF UserActions
<1>3. \A p \in Positions : PlacesOn(d)[p] = There(d, p)
  BY DEF PlacesOn
<1> HIDE DEF s
<1>4. \A i \in DOMAIN s : [s[i] EXCEPT !.at = There(d, @)]
                            = [s[i] EXCEPT !.at = PlacesOn(d)[@]]
  <2>1. ASSUME NEW i \in DOMAIN s
        PROVE  [s[i] EXCEPT !.at = There(d, s[i].at)]
                 = [s[i] EXCEPT !.at = PlacesOn(d)[s[i].at]]
    BY <1>2, <1>3
  <2> QED BY <2>1
<1>5. Due(d) = [i \in DOMAIN s |-> [s[i] EXCEPT !.at = There(d, @)]]
  BY DEF Due, s
<1>6. Moved(PlacesOn(d), s) =
        [i \in DOMAIN s |-> [s[i] EXCEPT !.at = PlacesOn(d)[@]]]
  BY DEF Moved
<1>7. Due(d) = Moved(PlacesOn(d), s)
  BY <1>4, <1>5, <1>6
<1> QED BY <1>1, <1>7 DEF s

(* While a file is replayed a place is replayed to a place.                 *)
LEMMA FitPlaces ==
    ASSUME TripInv, recorded, NEW d
    PROVE  PlacesOn(d) \in [Positions -> Int]
<1>1. OptsOK /\ ScaleInv /\ repRes # Unset
  BY DEF TripInv, HeldInv, ScaleInv, ReplayInv
<1> QED BY <1>1, PlacesFit

(* The invariants imply SameActs: a display shows what the lines read do    *)
(* (ReplayInv), and the whole file shows what the user did (RecordInv).     *)
LEMMA ActsAreSame == TripInv => SameActs
<1> SUFFICES ASSUME TripInv, recorded, NEW d \in All
             PROVE  /\ Starts(Bare(Done(d)), Bare(Due(d)))
                    /\ ended = "whole" /\ (xinput \/ opts.forced) =>
                         Bare(Done(d)) = Bare(Due(d))
  BY DEF SameActs, Replaying
<1>1. PICK r \in Seen, q \in Seen :
        /\ DisplayOK(d, r) /\ Starts(r.acts, q.acts)
        /\ ended = "whole" => r = q
        /\ ~xinput /\ ~opts.forced => q.acts = <<>>
        /\ xinput \/ opts.forced =>
             Bare(q.acts) = Bare(About(Shown(d), acts))
  BY DisplayShows
<1>2. r.acts \in Seq(ScreenActs) /\ q.acts \in Seq(ScreenActs)
  BY UserActsShow DEF Seen
<1>3. Bare(Due(d)) = Bare(About(Shown(d), acts))
  BY DueActs, FitPlaces, MovedOf
<1>4. Starts(Bare(r.acts), Bare(q.acts)) /\ Bare(Done(d)) = Bare(r.acts)
  BY <1>1, <1>2, BareOf DEF DisplayOK
<1>5. CASE xinput \/ opts.forced
  BY <1>1, <1>3, <1>4, <1>5
<1>6. CASE ~(xinput \/ opts.forced)
  <2>1. Bare(q.acts) = <<>>
    BY <1>1, <1>6, BareOf
  <2>2. Bare(r.acts) = <<>>
    <3>1. Bare(r.acts) \in Seq(Bares) /\ <<>> \in Seq(Bares) /\ Len(<<>>) = 0
      BY <1>2, BareOf
    <3>2. Len(Bare(r.acts)) <= 0
      BY <1>4, <2>1, <3>1, StartsDef
    <3> QED BY <3>1, <3>2
  <2>3. Bare(Due(d)) \in Seq(Bares)
    BY <1>3, DueActs, UserActsShow, BareOf
  <2> QED BY <1>4, <1>6, <2>2, <2>3, StartsLonger
<1> QED BY <1>5, <1>6

(* The invariants imply SamePlaces.                                         *)
LEMMA PlacesAreSame == TripInv => SamePlaces
<1> SUFFICES ASSUME TripInv, recorded, xinput \/ ~rec.firstLast, ~switched,
                    opts.forced \/ "pointer" \notin opts.gone, NEW d \in All
             PROVE  Starts(Done(d), Due(d))
  BY DEF SamePlaces, Replaying
<1>0. InPlace
  BY DEF InPlace
<1>1. PICK r \in Seen, q \in Seen :
        /\ DisplayOK(d, r) /\ Starts(r.acts, q.acts)
        /\ ~xinput /\ ~opts.forced => q.acts = <<>>
        /\ (xinput \/ opts.forced) /\ (xinput \/ ~rec.firstLast) =>
             q.acts = About(Shown(d), acts)
  BY DisplayShows
<1> DEFINE m == PlacesOn(d)
           a == About(Shown(d), acts)
<1>2. /\ m \in [Positions -> Int] /\ a \in Seq(UserActions)
      /\ Due(d) = Moved(m, a) /\ Done(d) = Moved(m, r.acts)
      /\ r.acts \in Seq(UserActions) /\ q.acts \in Seq(UserActions)
  BY <1>0, <1>1, DueActs, FitPlaces DEF DisplayOK, Seen
<1> HIDE DEF m, a
<1>3. CASE xinput \/ opts.forced
  <2>1. Starts(r.acts, a)
    BY <1>1, <1>3 DEF a
  <2> QED BY <1>2, <2>1, MovedOf
<1>4. CASE ~(xinput \/ opts.forced)
  <2>1. q.acts = <<>>
    BY <1>1, <1>4
  <2>2. r.acts = <<>>
    <3>1. Len(r.acts) <= Len(q.acts)
      BY <1>1, <1>2, StartsDef
    <3>2. Len(r.acts) \in Nat /\ Len(q.acts) = 0
      BY <1>2, <2>1
    <3>3. Len(r.acts) = 0
      BY <3>1, <3>2
    <3> QED BY <1>2, <3>3
  <2>3. Done(d) = <<>> /\ Due(d) \in Seq(ScreenActs)
    BY <1>2, <2>2, MovedOf
  <2> QED BY <2>3, StartsLonger
<1> QED BY <1>3, <1>4

(* A replay repeats the presses and releases of the user on every display,  *)
(* each once and in their order, and all of them when it comes to the end   *)
(* of the file, if the events recorded are of the kind that is replayed.    *)
THEOREM ActsRepeated == TripSpec => []SameActs
  BY TripStarts, TripStep, ActsAreSame, PTL DEF TripSpec

(* With every motion recorded the pointer is, at each press and release of  *)
(* a replay, where the user had it, in the resolution asked for; as long    *)
(* as the sessions of the process agree on whether places are scaled        *)
(* (xnee_resolution_newx keeps its first answer).                           *)
THEOREM PlacesRepeated == TripSpec => []SamePlaces
  BY TripStarts, TripStep, PlacesAreSame, PTL DEF TripSpec
=============================================================================
