--------------------------------- MODULE Pace ---------------------------------
(***************************************************************************)
(* The pace of a replay: how long xnee waits before it fakes an event,     *)
(* from the server times in the session file and the time it has taken so  *)
(* far (xnee_time.c and the first half of xnee_fake.c).  What is faked is  *)
(* in Fake, the waiting for protocol data in Replay.  Times are in         *)
(* milliseconds; the clock of the computer is taken to run forwards.       *)
(***************************************************************************)
EXTENDS Integers, Sequences

CONSTANTS
    Files,           \* session files: sequences of lines [kind, time]
    MaxTime,         \* bound: the times of the server
    Speeds,          \* percentages given with --speed-percent
    MaxSpeed,        \* bound: those
    Word,            \* how many values an unsigned long has
    Delays,          \* what the handling of a line may take
    Oversleeps,      \* what usleep may take longer than asked
    MaxSessions      \* bound: replays of one process

(* "event": an event that is faked; "data": a line that is read and not     *)
(* faked (a request, reply or error, an event of a screen there is not);     *)
(* "gone": a motion of a device that is not there any more.  A time of the  *)
(* server has 32 bits and a word 64: what is computed from a time and a     *)
(* speed fits, unless it is negative.                                       *)
ASSUME PaceAssumption ==
    /\ MaxTime \in Nat \ {0} /\ MaxSpeed \in Nat /\ MaxSpeed >= 100
    /\ Word \in Nat /\ MaxTime * MaxSpeed < Word
    /\ Files \subseteq Seq([kind : {"event", "data", "gone"}, time : 1..MaxTime])
    /\ Speeds \subseteq 1..MaxSpeed
    /\ Delays \subseteq Nat /\ Oversleeps \subseteq Nat
    /\ MaxSessions \in Nat

Never == -1          \* last_read_sec and first_read_sec before they are set

VARIABLES
    phase,           \* "idle" or "replay"
    lines,           \* the lines still to read
    tmp,             \* the line read last, static: <<>> before the first
    speed,
    newtime, oldtime,\* server times of this line and of the one before
    firstTime,       \* first_read_time
    loopNr,          \* loop_nr
    firstReplayed,   \* first_replayed_event
    logread,         \* last_logread: the next session notes its first read
    readFirst, readLast,  \* the clock at the first and at the last reading
    stored,          \* stored_recordFirst_diff, static
    collected,       \* collected_time, static: waits too short to sleep
    now,             \* the clock
    sessions,
    owed,            \* history: the waits computed less the waits slept
    took,            \* history: what the computer took for the last event
    ahead,           \* history: by how much the last event was early
    before           \* history: what the last line read in this session is

clockVars == <<readFirst, readLast, now>>
waitVars  == <<stored, collected, owed, took, ahead>>
lineVars  == <<tmp, newtime, oldtime, firstTime, before>>
vars == <<phase, lines, speed, lineVars, loopNr, firstReplayed, logread,
          clockVars, waitVars, sessions>>

Init ==
    /\ phase = "idle" /\ lines = <<>> /\ tmp = <<>> /\ speed = 100
    /\ newtime = 0 /\ oldtime = 0 /\ firstTime = 0
    /\ loopNr = 0 /\ firstReplayed = TRUE /\ logread = TRUE
    /\ readFirst = Never /\ readLast = Never /\ now = 0
    /\ stored = 0 /\ collected = 0 /\ owed = 0 /\ took = 0
    /\ ahead = 0 /\ before = "none" /\ sessions = 0

-----------------------------------------------------------------------------
(* How much to wait: last and first are the time since the last event       *)
(* looked at the clock and since the first reading, d and r the recorded    *)
(* time since the line before and since the first line.                     *)

AtLeast0(n) == IF n > 0 THEN n ELSE 0
Smaller(a, b) == IF a < b THEN a ELSE b

(* Ten times compensation_factor.  The two comparisons that include         *)
(* equality do so in single precision.                                      *)
Compensation(first) ==
    IF stored = 0 THEN 10
    ELSE IF 100 * stored < 99 * first
         THEN IF 10 * stored <= 7 * first THEN 5
              ELSE IF 10 * stored < 8 * first THEN 8 ELSE 9
    ELSE IF 100 * stored > 101 * first
         THEN IF 10 * stored > 13 * first THEN 15
              ELSE IF 10 * stored >= 12 * first THEN 12 ELSE 11
    ELSE 10

NormalAmount(d, first) ==
    LET tenths == d * Compensation(first)
    IN  IF tenths > 50 THEN tenths \div 10 - 1 ELSE tenths \div 10

SlowAmount(last, first, d, r) ==
    IF r > first THEN IF d > last THEN Smaller(d, r - first) ELSE d \div 10
    ELSE IF r < first THEN AtLeast0(d - last) \div 8 ELSE 0

(* Mutant of FastAmount: it sleeps as if it were late, whatever is ahead.   *)
FastAmountLate(last, first, d, r) == IF r # first THEN 10 ELSE 0

FastAmount(last, first, d, r) ==
    IF r > first THEN IF d > last THEN Smaller(d, r - first) ELSE d
    ELSE IF r < first THEN 10 ELSE 0

(* A recorded time at the speed asked for, as the code computes it, and as  *)
(* it should.                                                               *)
ScaledWord(t) == ((t * speed) % Word) \div 100
Scaled(t) == (t * speed) \div 100

DeltaTime(new, old) == AtLeast0(new - old)

(* The recorded times an event is given: none to the first two of a         *)
(* session, but ten milliseconds to the first.  Times are unsigned: a line  *)
(* recorded before the first one is a long time after it.                   *)
LastDiff(new, old) ==
    IF firstReplayed THEN 10 ELSE IF loopNr < 2 THEN 0 ELSE DeltaTime(new, old)
FirstDiff(new, zero) == IF loopNr < 2 THEN 0 ELSE (new - zero) % Word

SleepAmount(last, first, d, r) ==
    CASE speed = 100 -> NormalAmount(d, first)
      [] speed > 100 -> FastAmount(last, first, ScaledWord(d), ScaledWord(r))
      [] speed < 100 -> SlowAmount(last, first, ScaledWord(d), ScaledWord(r))

SleepThresh == 4

(* Mutant of FakeSleep: a long wait forgets the short ones before.          *)
FakeSleepForgets(period) ==
    LET due == period + collected
    IN  IF period > SleepThresh THEN [sleep |-> period, keep |-> 0]
        ELSE IF due > SleepThresh THEN [sleep |-> due, keep |-> 0]
        ELSE [sleep |-> 0, keep |-> due]

(* What xnee_fake_sleep sleeps for a wait, and what it keeps for later.     *)
FakeSleep(period) ==
    LET due == period + collected
    IN  IF due > SleepThresh THEN [sleep |-> due, keep |-> 0]
        ELSE [sleep |-> 0, keep |-> due]

-----------------------------------------------------------------------------

(* The main loop is entered twice: to read the settings, and to replay.     *)
(* The first time it stops at the first line to replay, which is left in    *)
(* tmp, and sets last_logread.  A file without one ends the first time      *)
(* early: last_logread is as the session before left it, and the line that  *)
(* session read last is still in tmp and taken for the first one.           *)
Begin(f, s) ==
    /\ phase = "idle" /\ sessions < MaxSessions
    /\ phase' = "replay" /\ speed' = s
    /\ lines' = IF f = <<>> THEN tmp ELSE f
    /\ logread' = (logread \/ f # <<>>)
    /\ newtime' = 0 /\ oldtime' = 0 /\ firstTime' = 0
    /\ loopNr' = 0 /\ firstReplayed' = TRUE
    /\ readFirst' = Never /\ readLast' = Never /\ now' = 0
    /\ sessions' = sessions + 1 /\ ahead' = 0 /\ took' = 0 /\ before' = "none"
    /\ UNCHANGED <<tmp, stored, collected, owed>>

(* The next line is read, and its time.  Only at the first one may          *)
(* last_logread be set, and then the main loop starts the clock.            *)
Line == lines[1]

LineRead ==
    /\ phase = "replay" /\ lines # <<>>
    /\ lines' = Tail(lines) /\ tmp' = <<Line>>
    /\ oldtime' = newtime /\ newtime' = Line.time
    /\ firstTime' = IF firstTime = 0 THEN Line.time ELSE firstTime
    /\ logread' = (logread /\ newtime = 0)
    /\ before' = Line.kind

AtLoop(reading) == IF logread /\ newtime = 0 THEN now ELSE reading

(* xnee_get_elapsed_time: the first reading of a session starts the clock.  *)
Started(reading, t) == IF reading = Never THEN t ELSE reading

ReadData ==
    \E e \in Delays :
        /\ LineRead /\ Line.kind = "data"
        /\ readFirst' = AtLoop(readFirst) /\ readLast' = AtLoop(readLast)
        /\ now' = now + e
        /\ UNCHANGED <<phase, speed, loopNr, firstReplayed, waitVars, sessions>>

(* xnee_replay_event_handler_sleep_amt: how long to wait for the event just *)
(* read, if the clock says t; a clock that is not started yet starts here.  *)
Zero(t) == Started(AtLoop(readFirst), t)

WaitAt(t) ==
    SleepAmount(t - Started(AtLoop(readLast), t), t - Zero(t),
                LastDiff(newtime', oldtime'), FirstDiff(newtime', firstTime'))

EventSleepAmt(t) ==
    /\ readFirst' = Zero(t) /\ readLast' = t
    /\ loopNr' = Smaller(loopNr + 1, 2) /\ firstReplayed' = FALSE
    /\ stored' = IF speed = 100 THEN FirstDiff(newtime', firstTime') ELSE stored

(* An event is read, waited for and faked.                                  *)
FakeEvent ==
    \E e \in Delays, o \in Oversleeps :
        LET t    == now + e
            wait == WaitAt(t)
            slp  == FakeSleep(wait)
        IN  /\ LineRead /\ Line.kind = "event"
            /\ EventSleepAmt(t)
            /\ o > 0 => slp.sleep > 0
            /\ collected' = slp.keep
            /\ now' = t + slp.sleep + o
            /\ owed' = owed + wait - slp.sleep /\ took' = e + o
            /\ ahead' = Scaled(newtime' - firstTime') - (now' - Zero(t))
            /\ UNCHANGED <<phase, speed, sessions>>

(* The device of a motion is not found: what to wait was computed, but      *)
(* nothing is waited and nothing faked.                                     *)
DeviceGone ==
    \E e \in Delays :
        /\ LineRead /\ Line.kind = "gone"
        /\ EventSleepAmt(now + e)
        /\ now' = now + e
        /\ UNCHANGED <<phase, speed, collected, owed, took, ahead, sessions>>

(* The user stops the session: the line read is not handled, and            *)
(* last_logread is left as it is.                                           *)
Stop ==
    /\ LineRead /\ phase' = "idle"
    /\ UNCHANGED <<speed, loopNr, firstReplayed, clockVars, waitVars, sessions>>

EndOfFile ==
    /\ phase = "replay" /\ lines = <<>>
    /\ phase' = "idle" /\ logread' = TRUE
    /\ UNCHANGED <<lines, speed, lineVars, loopNr, firstReplayed, clockVars,
                   waitVars, sessions>>

Next ==
    \/ \E f \in Files, s \in Speeds : Begin(f, s)
    \/ ReadData \/ FakeEvent \/ DeviceGone \/ Stop \/ EndOfFile

Spec == Init /\ [][Next]_vars

-----------------------------------------------------------------------------

(* Every millisecond asked for is slept or kept for the next wait, across   *)
(* events and sessions, and what is kept is too short to be slept.          *)
WaitsKept == owed = collected /\ collected \in 0 .. SleepThresh

(* What the replay is ahead of the recording, at the speed asked for; a     *)
(* wait that is kept for later counts as waited.                            *)
Lead == ahead - collected

(* An event that is none of the first two of its session is faked, and is   *)
(* not recorded before the line that precedes it.                           *)
Waited ==
    /\ phase = "replay" /\ phase' = "replay" /\ loopNr = 2
    /\ lines' # lines /\ before' = "event" /\ oldtime' <= newtime'

(* After its first two events, a replay at another speed than the recorded  *)
(* one gets ahead of the recording (by more than the rounding) for two      *)
(* reasons only: another line was read since the last event, protocol data  *)
(* or a motion not faked, and the wait recorded before it is lost; or,      *)
(* slowed, it takes the wait before the last event for a part of this one.  *)
(* Slowed, it falls behind from one event to the next only by what the      *)
(* computer takes, never by the waits it asks for.                          *)
DriftExplained ==
    [][Waited /\ speed # 100 =>
        /\ \/ Lead' <= AtLeast0(Lead) + 1
           \/ before # "event"
           \/ /\ speed < 100
              /\ Scaled(newtime' - oldtime') <= readLast' - readLast
        /\ speed > 100 \/ before # "event" \/ Lead' >= Lead - took']_vars
=============================================================================
