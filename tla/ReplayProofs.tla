---------------------------- MODULE ReplayProofs ----------------------------
(***************************************************************************)
(* The replayer gives up, skips and stops as it should, and fakes what its *)
(* file asks for and in that order, for any session files, any thresholds  *)
(* and any number of sessions.                                             *)
(*                                                                         *)
(* None of these properties is inductive.  The counters of the             *)
(* synchronisation loop are static: what they say of the waits of this     *)
(* session is known only from the end of its META phase on, and not at all *)
(* where that phase reads to the end of the file, which leaves them as     *)
(* they were (Spent).  How many events follow a request to stop depends on *)
(* where in the loop the request finds the thread (StopInv), and what has  *)
(* been faked on whether the line in tmp still waits for it (OrderInv).    *)
(***************************************************************************)
EXTENDS Replay, WellFoundedInduction, TLAPS

(* The session is past its META phase.                                      *)
Looping == pc \in {"setup", "line", "process", "fake", "read"}

(* The META phase has read the file to its end: nothing is left to wait for.*)
Spent == /\ pos > Len(file) /\ tmp.line.kind \notin DeviceKinds
         /\ pc \notin {"process", "fake"}

(* Every full time-out took TotThr waits of this session.                   *)
WaitsPaid == waits >= time_out_counter * TotThr + diff_counter

CountersOK ==
    /\ file \in Seq([kind : Kinds, datum : Data \cup {<<>>}])
    /\ pos \in Nat \ {0}
    /\ waits \in Nat /\ skips \in Nat /\ late \in Nat
    /\ diff_counter \in Nat /\ time_out_counter \in Nat

FaultInv ==
    /\ pc # "idle" => result = "running" /\ file # <<>>
    /\ Looping => Spent \/ WaitsPaid
    /\ FaultEarned

(* What is faked out of sync in a row is counted by time_out_counter.       *)
SkipInv ==
    /\ pc = "meta" => skips = 0
    /\ Looping => skips <= time_out_counter
    /\ SkipsBounded

(* A request that finds an event past the test lets it through, and the     *)
(* primitive of the line after it; then the loop is left.                   *)
StopInv ==
    /\ ~interrupt => late = 0
    /\ pc \in {"process", "fake"} => late = 0
    /\ late = 2 => pc = "line" /\ tmp.line.kind = "prim"
    /\ StopPrompt

-----------------------------------------------------------------------------

(* The steps of the loop that look at no counter of it.                     *)
Through == Setup \/ SkipComment \/ HandleDatum \/ HandleDevice \/ HandleOther
             \/ Dispatch \/ FakeEvent \/ ReadLine \/ RequestStop

(* The steps that end a session early.                                      *)
Leaves == SetupFails \/ LeaveOnInterrupt \/ LeaveOnKey

(* Every step of the specification is of one of these kinds.                *)
LEMMA Steps ==
    [Next]_vars => \/ BeginSession \/ ReadMeta \/ Through \/ Leaves
                   \/ Synchronize \/ EndOfFile \/ UNCHANGED vars
  BY DEF Next, Replayer, Through, Leaves

(* Those that only pass through leave the counters, the options and the     *)
(* file alone.                                                              *)
LEMMA ThroughCounts ==
    ASSUME Through
    PROVE  /\ UNCHANGED <<diff_counter, time_out_counter, waits, skips, opts,
                          file, result>>
           /\ pc' = pc \/ (Looping /\ Looping')
  BY DEF Through, Setup, SkipComment, HandleDatum, HandleDevice, HandleOther,
       Dispatch, FakeEvent, ReadLine, RequestStop, syncVars, fileVars, Looping

(* An early end keeps the counters, so the next session inherits them.      *)
LEMMA LeavesCount ==
    ASSUME Leaves
    PROVE  /\ UNCHANGED <<diff_counter, time_out_counter, waits, skips, opts,
                          file, pos, tmp>>
           /\ pc' = "idle"
           /\ result' \in {"record_failure", "interrupted", "stopped", "error"}
  BY DEF Leaves, SetupFails, LeaveOnInterrupt, LeaveOnKey, EndSession,
       syncVars, fileVars

(* The outcomes of one round of xnee_replay_synchronize.                    *)
LEMMA SynchronizeCounts ==
    ASSUME Synchronize
    PROVE  /\ pc = "process"
           /\ UNCHANGED <<opts, file, pos, tmp, interrupt, late>>
           /\ InSync \/ PassByTotal \/ Wait \/ TimeOut
  BY DEF Synchronize, fileVars, stopVars

(* The counters stay numbers, and the line read stays in its file.          *)
LEMMA CountersKept == CountersOK /\ [Next]_vars => CountersOK'
<1> SUFFICES ASSUME CountersOK, [Next]_vars PROVE CountersOK'
  OBVIOUS
<1> USE DEF CountersOK
<1>1. CASE BeginSession
  <2>1. file' \in Seq([kind : Kinds, datum : Data \cup {<<>>}])
    <3>1. file' \in Files
      BY <1>1 DEF BeginSession
    <3> QED BY <3>1, FilesAssumption
  <2>2. /\ pos' = 1 /\ waits' = 0 /\ skips' = 0
        /\ UNCHANGED <<late, diff_counter, time_out_counter>>
    BY <1>1 DEF BeginSession
  <2> QED BY <2>1, <2>2
<1>2. CASE ReadMeta
  <2>1. PICK n \in 1..Len(file) + 1 : pos' = n + 1
    BY <1>2 DEF ReadMeta
  <2>2. /\ UNCHANGED <<file, waits, skips, late>>
        /\ \/ UNCHANGED <<diff_counter, time_out_counter>>
           \/ diff_counter' = 0 /\ time_out_counter' = 0
    BY <1>2 DEF ReadMeta, ResetCounters
  <2> QED BY <2>1, <2>2
<1>3. CASE Through
  <2>1. pos' = pos \/ pos' = pos + 1
    BY <1>3 DEF Through, Setup, SkipComment, HandleDatum, HandleDevice,
         HandleOther, Dispatch, FakeEvent, ReadLine, RequestStop, fileVars
  <2>2. late' = late \/ late' = late + 1 \/ late' = 0
    BY <1>3 DEF Through, Setup, SkipComment, HandleDatum, HandleDevice,
         HandleOther, Dispatch, FakeEvent, ReadLine, RequestStop,
         HandleSession, Emit
  <2> QED BY <1>3, <2>1, <2>2, ThroughCounts
<1>4. CASE Leaves
  <2>1. late' = late \/ late' = 0
    BY <1>4 DEF Leaves, SetupFails, LeaveOnInterrupt, LeaveOnKey
  <2> QED BY <1>4, <2>1, LeavesCount
<1>5. CASE Synchronize
  <2>1. CASE InSync
    BY <1>5, <2>1, SynchronizeCounts DEF InSync, ResetCounters
  <2>2. CASE PassByTotal
    BY <1>5, <2>2, SynchronizeCounts DEF PassByTotal, syncVars
  <2>3. CASE Wait
    BY <1>5, <2>3, SynchronizeCounts DEF Wait
  <2>4. CASE TimeOut
    BY <1>5, <2>4, SynchronizeCounts DEF TimeOut
  <2> QED BY <1>5, <2>1, <2>2, <2>3, <2>4, SynchronizeCounts
<1>6. CASE EndOfFile
  BY <1>6 DEF EndOfFile, ResetCounters, fileVars
<1>7. CASE UNCHANGED vars
  BY <1>7 DEF vars, syncVars, fileVars
<1> QED BY <1>1, <1>2, <1>3, <1>4, <1>5, <1>6, <1>7, Steps

(* They are numbers from the start.                                         *)
LEMMA CountersStart == Init => CountersOK
  BY DEF Init, CountersOK

-----------------------------------------------------------------------------

(* A replay that is not forced fakes at most MaxSkipped device events in a  *)
(* row out of sync.                                                         *)
THEOREM SkipsAreBounded == Spec => []SkipsBounded
<1>1. Init => SkipInv
  BY LimitAssumption DEF Init, SkipInv, SkipsBounded, Looping
<1>2. CountersOK /\ SkipInv /\ [Next]_vars => SkipInv'
  <2> SUFFICES ASSUME CountersOK, SkipInv, [Next]_vars PROVE SkipInv'
    OBVIOUS
  <2> USE LimitAssumption DEF CountersOK, SkipInv, SkipsBounded
  <2>1. CASE BeginSession
    BY <2>1 DEF BeginSession, Looping
  <2>2. CASE ReadMeta
    <3>1. /\ skips = 0 /\ UNCHANGED <<skips, opts>>
          /\ pc' # "meta"
          /\ time_out_counter' = time_out_counter \/ time_out_counter' = 0
      BY <2>2 DEF ReadMeta, ResetCounters, EndSession
    <3> QED BY <3>1
  <2>3. CASE Through
    BY <2>3, ThroughCounts DEF Looping
  <2>4. CASE Leaves
    BY <2>4, LeavesCount DEF Looping
  <2>5. CASE Synchronize
    <3>1. CASE InSync
      BY <2>5, <3>1, SynchronizeCounts DEF InSync, ResetCounters
    <3>2. CASE PassByTotal
      BY <2>5, <3>2, SynchronizeCounts DEF PassByTotal, syncVars, Looping
    <3>3. CASE Wait
      BY <2>5, <3>3, SynchronizeCounts DEF Wait, Looping
    <3>4. CASE TimeOut
      BY <2>5, <3>4, SynchronizeCounts DEF TimeOut, EndSession, Looping
    <3> QED BY <2>5, <3>1, <3>2, <3>3, <3>4, SynchronizeCounts
  <2>6. CASE EndOfFile
    BY <2>6 DEF EndOfFile, EndSession, ResetCounters, fileVars, Looping
  <2>7. CASE UNCHANGED vars
    BY <2>7 DEF vars, syncVars, fileVars, Looping
  <2> QED BY <2>1, <2>2, <2>3, <2>4, <2>5, <2>6, <2>7, Steps
<1>3. SkipInv => SkipsBounded
  BY DEF SkipInv
<1> QED BY <1>1, <1>2, <1>3, CountersStart, CountersKept, PTL DEF Spec

-----------------------------------------------------------------------------

(* A request to stop is honoured within two faked events.                   *)
THEOREM StopIsPrompt == Spec => []StopPrompt
<1>1. Init => StopInv
  BY DEF Init, StopInv, StopPrompt
<1>2. CountersOK /\ StopInv /\ [Next]_vars => StopInv'
  <2> SUFFICES ASSUME CountersOK, StopInv, [Next]_vars PROVE StopInv'
    OBVIOUS
  <2> USE DEF CountersOK, StopInv, StopPrompt, stopVars, fileVars
  <2>1. CASE BeginSession
    BY <2>1 DEF BeginSession
  <2>2. CASE ReadMeta
    <3>1. pc = "meta" /\ UNCHANGED <<interrupt, late>>
          /\ pc' \notin {"process", "fake"}
      BY <2>2 DEF ReadMeta, EndSession
    <3> QED BY <3>1
  <2>3. CASE Setup
    BY <2>3 DEF Setup, HandleSession, Emit
  <2>4. CASE SkipComment \/ HandleDatum \/ HandleDevice \/ HandleOther
               \/ Dispatch
    <3>1. /\ UNCHANGED <<interrupt, late, tmp>>
          /\ pc' \in {"process", "fake"} => ~interrupt \/ pc = "process"
          /\ pc = "line" => tmp.line.kind = "comment" \/ ~interrupt
          /\ pc \in {"line", "process"}
          /\ pc = "process" => pc' = "process"
      BY <2>4 DEF SkipComment, HandleDatum, HandleDevice, HandleOther, Dispatch
    <3> QED BY <3>1
  <2>5. CASE FakeEvent
    BY <2>5 DEF FakeEvent, Emit
  <2>6. CASE ReadLine
    BY <2>6 DEF ReadLine, HandleSession, Emit
  <2>7. CASE Leaves
    BY <2>7 DEF Leaves, SetupFails, LeaveOnInterrupt, LeaveOnKey, EndSession
  <2>8. CASE Synchronize
    BY <2>8, SynchronizeCounts
  <2>9. CASE EndOfFile
    BY <2>9 DEF EndOfFile, EndSession
  <2>10. CASE RequestStop
    BY <2>10 DEF RequestStop
  <2>11. CASE UNCHANGED vars
    BY <2>11 DEF vars
  <2> QED BY <2>1, <2>2, <2>3, <2>4, <2>5, <2>6, <2>7, <2>8, <2>9, <2>10,
             <2>11, Steps DEF Through
<1>3. StopInv => StopPrompt
  BY DEF StopInv
<1> QED BY <1>1, <1>2, <1>3, CountersStart, CountersKept, PTL DEF Spec

-----------------------------------------------------------------------------

(* More time-outs took more waits.                                          *)
LEMMA Product ==
    ASSUME NEW a \in Nat, NEW b \in Nat, NEW t \in Nat, a <= b
    PROVE  a * t <= b * t
<1>1. (b - a) * t >= 0
  BY b - a \in Nat
<1>2. b * t = a * t + (b - a) * t
  OBVIOUS
<1>3. a * t \in Int /\ b * t \in Int /\ (b - a) * t \in Int
  OBVIOUS
<1> QED BY <1>1, <1>2, <1>3

(* A full time-out adds TotThr waits at least.                              *)
LEMMA TimeOutPaid ==
    ASSUME CountersOK, WaitsPaid, TimeOut
    PROVE  WaitsPaid'
<1> USE LimitAssumption DEF CountersOK
<1>1. /\ diff_counter + 1 >= TotThr /\ diff_counter' = 0
      /\ time_out_counter' = time_out_counter + 1 /\ waits' = waits + 1
  BY DEF TimeOut
<1>2. time_out_counter' * TotThr = time_out_counter * TotThr + TotThr
  BY <1>1
<1>3. time_out_counter * TotThr \in Int
  OBVIOUS
<1> QED BY <1>1, <1>2, <1>3 DEF WaitsPaid

(* What gives up after more than MaxSkipped time-outs has waited for them.  *)
LEMMA EnoughPaid ==
    ASSUME NEW w \in Nat, NEW k \in Nat, NEW d \in Nat,
           w >= k * TotThr + d, k > MaxSkipped
    PROVE  w >= (MaxSkipped + 1) * TotThr
<1> USE LimitAssumption
<1>1. k * TotThr \in Int /\ (MaxSkipped + 1) * TotThr \in Int
  OBVIOUS
<1>2. CASE TotThr \in Nat
  <2>1. (MaxSkipped + 1) * TotThr <= k * TotThr
    BY <1>2, Product
  <2> QED BY <1>1, <2>1
<1>3. CASE TotThr \notin Nat
  <2>1. (MaxSkipped + 1) * TotThr <= 0
    BY <1>3
  <2> QED BY <1>1, <2>1
<1> QED BY <1>2, <1>3

(* The META phase of a file that is not empty resets the counters or reads  *)
(* the file to its end.                                                     *)
LEMMA MetaResets ==
    ASSUME CountersOK, ReadMeta, file # <<>>
    PROVE  \/ pc' = "idle" /\ result' = "syntax_error"
           \/ pc' = "setup" /\ UNCHANGED result /\ WaitsPaid'
           \/ pc' = "setup" /\ UNCHANGED result /\ Spent'
<1> USE DEF CountersOK
<1>1. PICK n \in 1..Len(file) + 1 :
        /\ MetaStops(n)
        /\ pos' = n + 1
        /\ \/ /\ n <= Len(file) /\ EndsMeta(file[n])
              /\ ResetCounters
              /\ pc' = "setup" /\ UNCHANGED result
           \/ n <= Len(file) /\ SyntaxError(file[n])
              /\ EndSession("syntax_error")
           \/ /\ n > Len(file)
              /\ tmp' = IF n = 1 THEN tmp
                        ELSE Line(session, n - 1, file[n - 1])
              /\ pc' = "setup"
              /\ UNCHANGED <<diff_counter, time_out_counter, result>>
  BY DEF ReadMeta
<1>2. UNCHANGED <<file, waits>>
  BY DEF ReadMeta
<1>3. CASE ResetCounters /\ pc' = "setup" /\ UNCHANGED result
  BY <1>2, <1>3, LimitAssumption DEF ResetCounters, WaitsPaid
<1>4. CASE EndSession("syntax_error")
  BY <1>4 DEF EndSession
<1>5. CASE n > Len(file)
  <2>1. n - 1 \in 1..Len(file) /\ n # 1 /\ pos' > Len(file')
    BY <1>1, <1>2, <1>5
  <2>2. ~EndsMeta(file[n - 1]) /\ ~SyntaxError(file[n - 1])
    BY <2>1 , <1>1 DEF MetaStops
  <2>3. file[n - 1].kind \notin DeviceKinds
    BY <2>2 DEF EndsMeta, SyntaxError, DeviceKinds
  <2>4. tmp' = Line(session, n - 1, file[n - 1])
    BY <1>1, <1>5, <2>1
  <2>5. tmp'.line = file[n - 1]
    BY <2>4 DEF Line
  <2> QED BY <1>1, <1>5, <2>1, <2>3, <2>5 DEF Spent
<1> QED BY <1>1, <1>3, <1>4, <1>5

(* Nothing was given up before the first session.                           *)
LEMMA FaultStart == Init => FaultInv
  BY DEF Init, FaultInv, Looping, FaultEarned

(* No file is empty.  An empty one leaves the line of the session before it *)
(* in the static buffer, and the counters too.                              *)
NoneEmpty == \A f \in Files : f # <<>>

(* Every step keeps FaultInv.                                               *)
LEMMA FaultInvKept ==
    NoneEmpty => (CountersOK /\ FaultInv /\ [Next]_vars => FaultInv')
<1> SUFFICES ASSUME NoneEmpty, CountersOK, FaultInv, [Next]_vars
             PROVE  FaultInv'
  OBVIOUS
<1> USE DEF CountersOK, FaultInv
<1>1. CASE BeginSession
  BY <1>1 DEF BeginSession, NoneEmpty, Looping, FaultEarned
<1>2. CASE ReadMeta
  <2>1. pc = "meta" /\ UNCHANGED file
    BY <1>2 DEF ReadMeta
  <2> QED BY <1>2, <2>1, MetaResets DEF Looping, FaultEarned
<1>3. CASE Through
  <2>1. pc # "idle" /\ ~RequestStop => Looping /\ Looping'
    BY <1>3 DEF Through, Setup, SkipComment, HandleDatum, HandleDevice,
         HandleOther, Dispatch, FakeEvent, ReadLine, Looping
  <2>2. Spent /\ Looping => Spent'
    BY <1>3 DEF Through, Setup, SkipComment, HandleDatum, HandleDevice,
         HandleOther, Dispatch, FakeEvent, ReadLine, RequestStop, Spent,
         SyncedKinds, DeviceKinds, fileVars
  <2>3. WaitsPaid => WaitsPaid'
    BY <1>3, ThroughCounts DEF WaitsPaid
  <2>4. FaultEarned'
    BY <1>3, ThroughCounts DEF FaultEarned
  <2> QED BY <1>3, <2>1, <2>2, <2>3, <2>4, ThroughCounts DEF Looping
<1>4. CASE Leaves
  BY <1>4, LeavesCount DEF Looping, FaultEarned
<1>5. CASE Synchronize
  <2>1. WaitsPaid /\ result = "running" /\ UNCHANGED file /\ file # <<>>
    BY <1>5, SynchronizeCounts DEF Looping, Spent
  <2>2. CASE InSync
    BY <2>1, <2>2, LimitAssumption
    DEF InSync, ResetCounters, WaitsPaid, Looping, FaultEarned
  <2>3. CASE PassByTotal
    BY <2>1, <2>3 DEF PassByTotal, WaitsPaid, syncVars, Looping, FaultEarned
  <2>4. CASE Wait
    <3>1. WaitsPaid'
      <4>1. time_out_counter * TotThr \in Int
        BY LimitAssumption
      <4> QED BY <2>1, <2>4, <4>1 DEF Wait, WaitsPaid
    <3> QED BY <1>5, <2>1, <2>4, <3>1, SynchronizeCounts
            DEF Wait, Looping, FaultEarned
  <2>5. CASE TimeOut
    <3>1. WaitsPaid'
      BY <2>1, <2>5, TimeOutPaid
    <3>2. CountersOK'
      BY CountersKept DEF CountersOK
    <3>3. CASE pc' = "idle" /\ time_out_counter' > MaxSkipped
      <4>1. waits' >= (MaxSkipped + 1) * TotThr
        BY <3>1, <3>2, <3>3, EnoughPaid DEF WaitsPaid
      <4> QED BY <3>3, <4>1 DEF Looping, FaultEarned
    <3>4. CASE pc' = "fake" /\ UNCHANGED result
      BY <2>1, <3>1, <3>4 DEF FaultEarned
    <3> QED BY <2>5, <3>3, <3>4 DEF TimeOut, EndSession
  <2> QED BY <1>5, <2>2, <2>3, <2>4, <2>5, SynchronizeCounts
<1>6. CASE EndOfFile
  BY <1>6 DEF EndOfFile, EndSession, Looping, FaultEarned
<1>7. CASE UNCHANGED vars
  BY <1>7 DEF vars, syncVars, fileVars, Looping, Spent, WaitsPaid, FaultEarned
<1> QED BY <1>1, <1>2, <1>3, <1>4, <1>5, <1>6, <1>7, Steps

(* A session gives up only after MaxSkipped + 1 full time-outs of its own,  *)
(* if no file is empty.                                                     *)
THEOREM FaultIsEarned ==
    ASSUME NoneEmpty
    PROVE  Spec => []FaultEarned
<1>1. FaultInv => FaultEarned
  BY DEF FaultInv
<1>2. CountersOK /\ FaultInv /\ [Next]_vars => FaultInv'
  BY FaultInvKept
<1> QED BY <1>1, <1>2, FaultStart, CountersStart, CountersKept, PTL DEF Spec

-----------------------------------------------------------------------------

(* The steps and the endings.                                               *)
NamesOK ==
    /\ pc \in {"idle", "meta", "setup", "line", "process", "fake", "read"}
    /\ opts \in Options
    /\ result \in {"complete", "stopped", "interrupted", "error",
                   "synch_fault", "syntax_error", "record_failure", "running"}
    /\ (pc = "idle") = (result # "running")

(* The requests and the bounds.                                             *)
BoundsOK ==
    /\ session \in 0..MaxSessions
    /\ interrupt \in BOOLEAN /\ stops \in 0..MaxStops

(* The thread, the options and the results keep their values.               *)
LEMMA NamesKept == NamesOK /\ [Next]_vars => NamesOK'
<1> SUFFICES ASSUME NamesOK, [Next]_vars PROVE NamesOK'
  OBVIOUS
<1> USE DEF NamesOK
<1>1. CASE BeginSession
  BY <1>1 DEF BeginSession
<1>2. CASE ReadMeta
  <2>1. UNCHANGED opts /\ pc = "meta"
    BY <1>2 DEF ReadMeta
  <2>2. \/ pc' = "setup" /\ UNCHANGED result
        \/ pc' = "idle" /\ result' = "syntax_error"
    BY <1>2 DEF ReadMeta, EndSession
  <2> QED BY <2>1, <2>2
<1>3. CASE Through
  <2>1. pc' = pc \/ pc' \in {"line", "process", "fake", "read"}
    BY <1>3 DEF Through, Setup, SkipComment, HandleDatum, HandleDevice,
         HandleOther, Dispatch, FakeEvent, ReadLine, RequestStop
  <2> QED BY <1>3, <2>1, ThroughCounts DEF Looping
<1>4. CASE Leaves
  BY <1>4, LeavesCount
<1>5. CASE Synchronize
  <2>1. \/ pc' \in {"process", "fake"} /\ UNCHANGED result
        \/ pc' = "idle" /\ result' = "synch_fault"
    BY <1>5 DEF Synchronize, InSync, PassByTotal, Wait, TimeOut, EndSession
  <2> QED BY <1>5, <2>1, SynchronizeCounts
<1>6. CASE EndOfFile
  BY <1>6 DEF EndOfFile, EndSession, fileVars
<1>7. CASE UNCHANGED vars
  BY <1>7 DEF vars, fileVars
<1> QED BY <1>1, <1>2, <1>3, <1>4, <1>5, <1>6, <1>7, Steps

(* The guards keep the bounds on sessions and requests to stop.             *)
LEMMA BoundsKept == BoundsOK /\ [Next]_vars => BoundsOK'
<1> SUFFICES ASSUME BoundsOK, [Next]_vars PROVE BoundsOK'
  OBVIOUS
<1> USE LimitAssumption DEF BoundsOK
<1>1. CASE BeginSession
  BY <1>1 DEF BeginSession, stopVars
<1>2. CASE RequestStop
  BY <1>2 DEF RequestStop, fileVars
<1>3. CASE ~BeginSession /\ ~RequestStop
  <2>1. UNCHANGED <<session, stops>>
    BY <1>3 DEF Next, Replayer, ReadMeta, Setup, SetupFails, SkipComment,
         LeaveOnInterrupt, LeaveOnKey, HandleDatum, HandleDevice, HandleOther,
         Dispatch, Synchronize, FakeEvent, ReadLine, EndOfFile, fileVars,
         stopVars, vars
  <2>2. interrupt' = FALSE \/ UNCHANGED interrupt
    BY <1>3 DEF Next, Replayer, ReadMeta, Setup, SetupFails, SkipComment,
         LeaveOnInterrupt, LeaveOnKey, HandleDatum, HandleDevice, HandleOther,
         Dispatch, Synchronize, FakeEvent, ReadLine, EndOfFile, stopVars, vars
  <2> QED BY <2>1, <2>2
<1> QED BY <1>1, <1>2, <1>3

(* They hold from the start.                                                *)
LEMMA NamesStart == Init => NamesOK /\ BoundsOK
<1>1. Init => NamesOK
  BY DEF Init, NamesOK
<1>2. Init => interrupt \in BOOLEAN
  BY Zenon DEF Init
<1>3. Init => session \in 0..MaxSessions /\ stops \in 0..MaxStops
  BY LimitAssumption DEF Init
<1> QED BY <1>1, <1>2, <1>3 DEF BoundsOK

(* Every variable of the replayer keeps its type; a session has an ending   *)
(* exactly when its thread is idle.                                         *)
THEOREM ReplayTypes == Spec => []TypeOK
<1>1. NamesOK /\ BoundsOK /\ CountersOK => TypeOK
  BY DEF NamesOK, BoundsOK, CountersOK, TypeOK, Promise!Endings
<1> QED BY <1>1, NamesStart, NamesKept, BoundsKept, CountersStart,
           CountersKept, PTL DEF Spec

-----------------------------------------------------------------------------

(* A set of numbers that has 0, and with every number the next, has all.    *)
LEMMA Induction ==
    ASSUME NEW S, 0 \in S, \A n \in Nat : n \in S => n + 1 \in S
    PROVE  Nat \subseteq S
<1> SUFFICES ASSUME Nat \ S # {} PROVE FALSE
  OBVIOUS
<1>1. PICK m \in Nat \ S : \A n \in Nat \ S : <<n, m>> \notin OpToRel(<, Nat)
  BY NatLessThanWellFounded, WFMin
<1>2. m - 1 \in Nat /\ m - 1 < m
  OBVIOUS
<1>3. <<m - 1, m>> \in OpToRel(<, Nat)
  BY <1>2 DEF OpToRel
<1>4. m - 1 \in S
  BY <1>1, <1>2, <1>3
<1>5. (m - 1) + 1 \in S
  BY <1>2, <1>4
<1> QED BY <1>5

(* The recursion of AskedBy has a solution, so that its equation holds.     *)
LEMMA AskedByDef ==
    ASSUME NEW f, Len(f) \in Nat, NEW o, NEW s, NEW x \in 0..Len(f)
    PROVE  /\ x = 0 => AskedBy(f, o, s)[x] = <<>>
           /\ x # 0 /\ Asks(f[x], o) =>
                AskedBy(f, o, s)[x] =
                  Append(AskedBy(f, o, s)[x - 1], [session |-> s, nr |-> x])
           /\ x # 0 /\ ~Asks(f[x], o) =>
                AskedBy(f, o, s)[x] = AskedBy(f, o, s)[x - 1]
<1> DEFINE B(g, n) == IF n = 0 THEN <<>>
                      ELSE IF Asks(f[n], o)
                           THEN Append(g[n - 1], [session |-> s, nr |-> n])
                           ELSE g[n - 1]
           S == {m \in Nat : \E g : g = [n \in 0..m |-> B(g, n)]}
<1>1. 0 \in S
  <2>1. [n \in 0..0 |-> <<>>] = [n \in 0..0 |-> B([k \in 0..0 |-> <<>>], n)]
    OBVIOUS
  <2> QED BY <2>1
<1>2. ASSUME NEW m \in Nat, m \in S PROVE m + 1 \in S
  <2>1. PICK g : g = [n \in 0..m |-> B(g, n)]
    BY <1>2
  <2> DEFINE h == [n \in 0..(m + 1) |-> IF n = m + 1 THEN B(g, n) ELSE g[n]]
  <2>2. ASSUME NEW n \in 0..(m + 1) PROVE h[n] = B(h, n)
    <3>1. n # 0 => n - 1 \in 0..m /\ n - 1 \in 0..(m + 1) /\ n - 1 # m + 1
      OBVIOUS
    <3>2. n # 0 => h[n - 1] = g[n - 1]
      BY <3>1
    <3>3. B(h, n) = B(g, n)
      BY <3>2
    <3>4. n # m + 1 => n \in 0..m
      OBVIOUS
    <3>5. n # m + 1 => g[n] = B(g, n)
      <4> HIDE DEF B
      <4> QED BY <2>1, <3>4
    <3>6. h[n] = B(g, n)
      <4> HIDE DEF B
      <4> QED BY <3>5
    <3> QED BY <3>3, <3>6
  <2>3. h = [n \in 0..(m + 1) |-> B(h, n)]
    <3> HIDE DEF B
    <3> QED BY <2>2
  <2>4. \E k : k = [n \in 0..(m + 1) |-> B(k, n)]
    <3> HIDE DEF h, B
    <3> QED BY <2>3
  <2> QED BY <2>4
<1>3. \E g : g = [n \in 0..Len(f) |-> B(g, n)]
  <2>1. Nat \subseteq S
    <3> HIDE DEF S
    <3> QED BY <1>1, <1>2, Induction
  <2> QED BY <2>1
<1> DEFINE E == CHOOSE g : g = [n \in 0..Len(f) |-> B(g, n)]
<1>4. E = [n \in 0..Len(f) |-> B(E, n)]
  <2> HIDE DEF B
  <2> QED BY <1>3
<1>5. AskedBy(f, o, s) = E
  BY DEF AskedBy
<1>6. E[x] = B(E, x)
  <2> HIDE DEF B, E
  <2> QED BY <1>4
<1> QED BY <1>5, <1>6

(* It starts with nothing;                                                  *)
LEMMA AskedByStart ==
    ASSUME NEW f, Len(f) \in Nat, NEW o, NEW s
    PROVE  AskedBy(f, o, s)[0] = <<>>
<1>1. 0 \in 0..Len(f)
  OBVIOUS
<1> QED BY <1>1, AskedByDef, Zenon

(* a line that asks for an event adds it;                                   *)
LEMMA AskedByAdds ==
    ASSUME NEW f, Len(f) \in Nat, NEW o, NEW s, NEW n \in 1..Len(f),
           Asks(f[n], o)
    PROVE  AskedBy(f, o, s)[n] =
             Append(AskedBy(f, o, s)[n - 1], [session |-> s, nr |-> n])
<1>1. n \in 0..Len(f) /\ n # 0
  OBVIOUS
<1> QED BY <1>1, AskedByDef

(* and any other line adds nothing.                                         *)
LEMMA AskedBySkips ==
    ASSUME NEW f, Len(f) \in Nat, NEW o, NEW s, NEW n \in 1..Len(f),
           ~Asks(f[n], o)
    PROVE  AskedBy(f, o, s)[n] = AskedBy(f, o, s)[n - 1]
<1>1. n \in 0..Len(f) /\ n # 0
  OBVIOUS
<1> QED BY <1>1, AskedByDef, Zenon

(* The events as the promise names them.                                    *)
Asked == [session : Nat, nr : Nat]

(* What the first lines of a file ask for is a sequence of them.            *)
LEMMA AskedByType ==
    ASSUME NEW f, Len(f) \in Nat, NEW o, NEW s \in Nat, NEW n \in 0..Len(f)
    PROVE  AskedBy(f, o, s)[n] \in Seq(Asked)
<1> DEFINE E == AskedBy(f, o, s)
           S == {k \in Nat : k <= Len(f) => E[k] \in Seq(Asked)}
<1>1. 0 \in S
  <2>1. E[0] = <<>>
    BY AskedByStart
  <2>2. <<>> \in Seq(Asked)
    OBVIOUS
  <2> QED BY <2>1, <2>2
<1>2. ASSUME NEW k \in Nat, k \in S PROVE k + 1 \in S
  <2> SUFFICES ASSUME k + 1 <= Len(f) PROVE E[k + 1] \in Seq(Asked)
    OBVIOUS
  <2>1. E[k] \in Seq(Asked)
    BY <1>2
  <2>2. \/ E[k + 1] = Append(E[k], [session |-> s, nr |-> k + 1])
        \/ E[k + 1] = E[k]
    <3>1. k + 1 \in 1..Len(f) /\ (k + 1) - 1 = k
      OBVIOUS
    <3> QED BY <3>1, AskedByAdds, AskedBySkips
  <2>3. [session |-> s, nr |-> k + 1] \in Asked
    BY DEF Asked
  <2>4. Append(E[k], [session |-> s, nr |-> k + 1]) \in Seq(Asked)
    <3> HIDE DEF E
    <3> QED BY <2>1, <2>3
  <2> QED BY <2>1, <2>2, <2>4
<1>3. Nat \subseteq S
  <2> HIDE DEF S
  <2> QED BY <1>1, <1>2, Induction
<1> QED BY <1>3

(* The sequence b goes on where a ends.                                     *)
Within(a, b) ==
    Len(a) <= Len(b) /\ \A i \in 1..Len(a) : a[i] = b[i]

(* What the lines after them ask for comes behind it.                       *)
LEMMA AskedByGrows ==
    ASSUME NEW f, Len(f) \in Nat, NEW o, NEW s \in Nat,
           NEW m \in 0..Len(f), NEW n \in 0..Len(f), m <= n
    PROVE  Within(AskedBy(f, o, s)[m], AskedBy(f, o, s)[n])
<1> DEFINE E == AskedBy(f, o, s)
           S == {k \in Nat : m + k <= Len(f) => Within(E[m], E[m + k])}
<1>0. \A k \in 0..Len(f) : E[k] \in Seq(Asked)
  BY AskedByType
<1>1. 0 \in S
  <2>1. m + 0 = m
    OBVIOUS
  <2> QED BY <1>0, <2>1 DEF Within
<1>2. ASSUME NEW k \in Nat, k \in S PROVE k + 1 \in S
  <2> SUFFICES ASSUME m + (k + 1) <= Len(f)
               PROVE  Within(E[m], E[m + (k + 1)])
    OBVIOUS
  <2> DEFINE j == m + k
  <2>1. Within(E[m], E[j])
    BY <1>2
  <2>2. m + (k + 1) = j + 1 /\ j + 1 \in 1..Len(f) /\ (j + 1) - 1 = j
        /\ j \in 0..Len(f)
    OBVIOUS
  <2>3. \/ E[j + 1] = Append(E[j], [session |-> s, nr |-> j + 1])
        \/ E[j + 1] = E[j]
    <3> HIDE DEF j
    <3>1. \/ E[j + 1] = Append(E[(j + 1) - 1],
                               [session |-> s, nr |-> j + 1])
          \/ E[j + 1] = E[(j + 1) - 1]
      BY <2>2, AskedByAdds, AskedBySkips
    <3> HIDE DEF E
    <3> QED BY <2>2, <3>1
  <2>4. E[m] \in Seq(Asked) /\ E[j] \in Seq(Asked)
    BY <1>0, <2>2
  <2>5. Within(E[m], E[j + 1])
    <3> HIDE DEF E, j
    <3>1. CASE E[j + 1] = E[j]
      BY <2>1, <3>1
    <3>2. ASSUME NEW x, E[j + 1] = Append(E[j], x)
          PROVE  Within(E[m], E[j + 1])
      <4>1. Len(E[j + 1]) = Len(E[j]) + 1
            /\ \A i \in 1..Len(E[j]) : E[j + 1][i] = E[j][i]
        BY <2>4, <3>2
      <4>2. Len(E[m]) \in Nat /\ Len(E[j]) \in Nat
        BY <2>4
      <4>3. Len(E[m]) <= Len(E[j]) /\ \A i \in 1..Len(E[m]) : E[m][i] = E[j][i]
        BY <2>1 DEF Within
      <4>4. Len(E[m]) <= Len(E[j + 1])
        BY <4>1, <4>2, <4>3
      <4>5. ASSUME NEW i \in 1..Len(E[m]) PROVE E[m][i] = E[j + 1][i]
        <5>1. i \in 1..Len(E[j])
          BY <4>2, <4>3
        <5> QED BY <4>1, <4>3, <5>1
      <4> QED BY <4>4, <4>5 DEF Within
    <3> QED BY <2>3, <3>1, <3>2
  <2> QED BY <2>2, <2>5
<1>3. Nat \subseteq S
  <2> HIDE DEF S
  <2> QED BY <1>1, <1>2, Induction
<1>4. n - m \in Nat /\ m + (n - m) = n
  OBVIOUS
<1> QED BY <1>3, <1>4

-----------------------------------------------------------------------------

(* How many lines of the file are dealt with: not the line in tmp as long   *)
(* as an event of it may still be faked.                                    *)
DealtWith ==
    IF pc = "setup" \/ (pc # "read" /\ tmp.line.kind \in FakedKinds(opts))
    THEN tmp.nr - 1 ELSE tmp.nr

(* A session has faked what the lines dealt with ask for; behind the line   *)
(* in tmp the file goes on, or the META phase has read it to its end.       *)
OrderInv ==
    /\ pc = "meta" => out = <<>>
    /\ Looping =>
         /\ tmp.nr \in 1..Len(file)
         /\ tmp = Line(session, tmp.nr, file[tmp.nr])
         /\ pos = tmp.nr + 1 \/ (tmp.nr = Len(file) /\ pos > tmp.nr)
         /\ out = AskedBy(file, opts, session)[DealtWith]

(* What the refinement is proved from.                                      *)
Known == CountersOK /\ NamesOK /\ BoundsOK /\ FaultInv /\ OrderInv

(* To fake the line that is next is what the promise allows.                *)
LEMMA FakedInOrder ==
    ASSUME Known, result = "running", NEW t, NEW m \in 1..Len(file),
           t = Line(session, m, file[m]), Asks(file[m], opts),
           out = AskedBy(file, opts, session)[m - 1],
           Emit(t), UNCHANGED <<file, opts, session, result>>
    PROVE  /\ out' = AskedBy(file, opts, session)[m]
           /\ Promise!Fake
<1> DEFINE E == AskedBy(file, opts, session)
           x == [session |-> session, nr |-> m]
<1>1. Len(file) \in Nat /\ session \in Nat
  BY LimitAssumption DEF Known, CountersOK, BoundsOK
<1>2. m \in 0..Len(file) /\ m - 1 \in 0..Len(file) /\ Len(file) \in 0..Len(file)
      /\ m <= Len(file)
  BY <1>1
<1>3. E[m] = Append(E[m - 1], x)
  BY <1>1, AskedByAdds
<1>4. out' = Append(out, x)
  BY DEF Emit, Line
<1>5. Within(E[m], E[Len(file)])
  BY <1>1, <1>2, AskedByGrows
<1>6. E[m - 1] \in Seq(Asked) /\ E[m] \in Seq(Asked)
      /\ E[Len(file)] \in Seq(Asked)
  BY <1>1, <1>2, AskedByType
<1>7. x \in Asked
  BY <1>1 DEF Asked
<1> DEFINE due == Events(file, opts, session)
<1>8. Len(out) < Len(due) /\ due[Len(out) + 1] = x
  <2>1. due = E[Len(file)] /\ out = E[m - 1]
    BY DEF Events
  <2> HIDE DEF E, x, due
  <2>2. Len(E[m]) = Len(out) + 1 /\ Len(out) \in Nat /\ E[m][Len(out) + 1] = x
    BY <1>3, <1>6, <1>7, <2>1
  <2>3. Len(out) + 1 \in 1..Len(E[m])
    BY <2>2
  <2>4. Len(due) \in Nat
    BY <1>6, <2>1
  <2>5. Len(E[m]) <= Len(due)
        /\ \A i \in 1..Len(E[m]) : E[m][i] = due[i]
    BY <1>5, <2>1 DEF Within
  <2>6. due[Len(out) + 1] = x
    BY <2>2, <2>3, <2>5
  <2> QED BY <2>2, <2>4, <2>5, <2>6
<1>9. due' = due
  BY DEF Events
<1> QED BY <1>3, <1>4, <1>8, <1>9 DEF Promise!Fake

(* The META phase reads up to its first line that asks for something.       *)
LEMMA MetaInOrder ==
    ASSUME Known, ReadMeta
    PROVE  OrderInv' /\ [Promise!Next]_(Promise!vars)
<1> USE DEF Known, CountersOK
<1>1. PICK n \in 1..Len(file) + 1 :
        /\ MetaStops(n)
        /\ pos' = n + 1
        /\ \/ /\ n <= Len(file) /\ tmp' = Line(session, n, file[n])
              /\ pc' = "setup" /\ UNCHANGED result
           \/ EndSession("syntax_error")
           \/ /\ n > Len(file)
              /\ tmp' = IF n = 1 THEN tmp
                        ELSE Line(session, n - 1, file[n - 1])
              /\ pc' = "setup" /\ UNCHANGED result
  BY DEF ReadMeta
<1>2. /\ pc = "meta" /\ file # <<>> /\ result = "running" /\ out = <<>>
      /\ UNCHANGED <<session, file, opts, out>>
  BY DEF ReadMeta, FaultInv, OrderInv
<1>3. UNCHANGED Events(file, opts, session)
  BY <1>2 DEF Events
<1>4. CASE EndSession("syntax_error")
  <2>1. Promise!End("syntax_error")
    BY <1>2, <1>3, <1>4 DEF EndSession, Promise!End
  <2>2. Promise!Next
    BY <2>1 DEF Promise!Next, Promise!Endings
  <2>3. OrderInv'
    BY <1>4 DEF EndSession, OrderInv, Looping
  <2> QED BY <2>2, <2>3
<1>5. ASSUME NEW m \in 1..Len(file), pc' = "setup", UNCHANGED result,
             tmp' = Line(session, m, file[m]),
             pos' = m + 1 \/ (m = Len(file) /\ pos' > m),
             \A i \in 1..(m - 1) : ~EndsMeta(file[i]) /\ ~SyntaxError(file[i])
      PROVE  OrderInv' /\ UNCHANGED Promise!vars
  <2> DEFINE E == AskedBy(file, opts, session)
             S == {k \in Nat : k <= m - 1 => E[k] = <<>>}
  <2>1. 0 \in S
    BY AskedByStart
  <2>2. ASSUME NEW k \in Nat, k \in S PROVE k + 1 \in S
    <3> SUFFICES ASSUME k + 1 <= m - 1 PROVE E[k + 1] = <<>>
      OBVIOUS
    <3> DEFINE j == k + 1
    <3>1. j \in 1..Len(file) /\ j \in 1..(m - 1) /\ j - 1 = k
          /\ E[k] = <<>> /\ Len(file) \in Nat
      BY <2>2
    <3> HIDE DEF j
    <3>2. ~EndsMeta(file[j]) /\ ~SyntaxError(file[j])
      BY <1>5, <3>1
    <3>3. ~Asks(file[j], opts)
      BY <3>2 DEF EndsMeta, SyntaxError, Asks, FakedKinds
    <3>4. E[j] = E[j - 1]
      BY <3>1, <3>3, AskedBySkips
    <3>5. E[j] = <<>>
      BY <3>1, <3>4
    <3> QED BY <3>5 DEF j
  <2>3. Nat \subseteq S
    <3> HIDE DEF S
    <3> QED BY <2>1, <2>2, Induction
  <2>4. E[m - 1] = <<>>
    BY <2>3
  <2>5. tmp'.nr = m
    BY <1>5 DEF Line
  <2> QED BY <1>2, <1>3, <1>5, <2>4, <2>5
          DEF OrderInv, Looping, DealtWith, Promise!vars
<1>6. CASE n <= Len(file) /\ tmp' = Line(session, n, file[n])
           /\ pc' = "setup" /\ UNCHANGED result
  BY <1>1, <1>5, <1>6 DEF MetaStops
<1>7. CASE n > Len(file) /\ pc' = "setup" /\ UNCHANGED result
           /\ tmp' = IF n = 1 THEN tmp ELSE Line(session, n - 1, file[n - 1])
  <2>1. n - 1 \in 1..Len(file) /\ n # 1 /\ n - 1 = Len(file)
    BY <1>2, <1>7
  <2>2. \A i \in 1..((n - 1) - 1) :
          ~EndsMeta(file[i]) /\ ~SyntaxError(file[i])
    BY <1>1, <2>1 DEF MetaStops
  <2>3. pos' > n - 1
    BY <1>1
  <2> QED BY <1>5, <1>7, <2>1, <2>2, <2>3
<1> QED BY <1>1, <1>4, <1>6, <1>7

(* The events of a build are those of the lines its loop waits for.         *)
LEMMA FakedAreSynced == FakedKinds(opts) \subseteq SyncedKinds
  BY DEF FakedKinds, SyncedKinds, DeviceKinds

(* A step that fakes nothing and keeps its line is a step the promise does  *)
(* not see, if no event of the line is left to fake when it is passed.      *)
LEMMA KeepsLine ==
    ASSUME Known, UNCHANGED <<fileVars, out, result>>,
           \/ pc' = pc
           \/ /\ Looping /\ Looping'
              /\ \/ DealtWith' = DealtWith
                 \/ /\ DealtWith' = DealtWith + 1 /\ tmp.nr = DealtWith + 1
                    /\ ~Asks(tmp.line, opts)
    PROVE  OrderInv' /\ UNCHANGED Promise!vars
<1> USE DEF Known, CountersOK
<1>1. UNCHANGED <<session, file, opts, pos, tmp, out, result>>
  BY DEF fileVars
<1>2. UNCHANGED AskedBy(file, opts, session)
  BY <1>1 DEF AskedBy, Asks, FakedKinds
<1>3. UNCHANGED Promise!vars
  <2>1. UNCHANGED Events(file, opts, session)
    BY <1>1, <1>2 DEF Events
  <2> QED BY <1>1, <2>1 DEF Promise!vars
<1>4. CASE pc' = pc
  BY <1>1, <1>2, <1>4, <1>3 DEF OrderInv, Looping, DealtWith
<1>5. CASE Looping /\ Looping' /\ DealtWith' = DealtWith
  BY <1>1, <1>2, <1>5, <1>3 DEF OrderInv, Looping
<1>6. CASE Looping /\ Looping' /\ DealtWith' = DealtWith + 1
           /\ tmp.nr = DealtWith + 1 /\ ~Asks(tmp.line, opts)
  <2> DEFINE m == tmp.nr
  <2>1. /\ m \in 1..Len(file) /\ tmp = Line(session, m, file[m])
        /\ m = DealtWith' /\ m - 1 = DealtWith
        /\ out = AskedBy(file, opts, session)[m - 1]
    <3>1. DealtWith \in Int
      BY <1>6 DEF OrderInv, DealtWith
    <3> QED BY <1>6, <3>1 DEF OrderInv
  <2>2. ~Asks(file[m], opts)
    <3>1. tmp.line = file[m]
      BY <2>1 DEF Line
    <3> QED BY <1>6, <3>1
  <2>3. Len(file) \in Nat
    OBVIOUS
  <2> HIDE DEF m
  <2>4. AskedBy(file, opts, session)[m] = AskedBy(file, opts, session)[m - 1]
    BY <2>1, <2>2, <2>3, AskedBySkips
  <2>5. out' = AskedBy(file, opts, session)'[DealtWith']
    BY <1>1, <1>2, <2>1, <2>4
  <2> QED BY <1>1, <1>3, <1>6, <2>5 DEF OrderInv, Looping
<1> QED BY <1>4, <1>5, <1>6

(* The steps that pass a line on.                                           *)
LEMMA PassesInOrder ==
    ASSUME Known, \/ SkipComment \/ HandleDatum \/ HandleDevice \/ HandleOther
                  \/ Dispatch \/ RequestStop
    PROVE  OrderInv' /\ UNCHANGED Promise!vars
<1>1. UNCHANGED <<fileVars, out, result>>
  BY DEF SkipComment, HandleDatum, HandleDevice, HandleOther, Dispatch,
     RequestStop
<1>2. CASE Dispatch \/ RequestStop
  BY <1>1, <1>2, KeepsLine DEF Dispatch, RequestStop
<1>3. CASE SkipComment \/ HandleDatum \/ HandleOther
  <2>1. pc = "line" /\ pc' = "read" /\ tmp.line.kind \notin FakedKinds(opts)
    BY <1>3, FakedAreSynced
       DEF SkipComment, HandleDatum, HandleOther, FakedKinds
  <2>2. DealtWith' = DealtWith
    BY <1>1, <2>1 DEF DealtWith, fileVars
  <2> QED BY <1>1, <2>1, <2>2, KeepsLine DEF Looping
<1>4. CASE HandleDevice
  <2>1. pc = "line" /\ pc' \in {"process", "fake"}
    BY <1>4 DEF HandleDevice
  <2>2. DealtWith' = DealtWith
    BY <1>1, <2>1 DEF DealtWith, fileVars, FakedKinds
  <2> QED BY <1>1, <2>1, <2>2, KeepsLine DEF Looping
<1> QED BY <1>2, <1>3, <1>4

(* The steps that may fake the line in tmp.                                 *)
LEMMA FakesInOrder ==
    ASSUME Known, Setup \/ FakeEvent
    PROVE  OrderInv' /\ [Promise!Next]_(Promise!vars)
<1> DEFINE m == tmp.nr
<1>1. /\ Looping /\ Looping' /\ result = "running"
      /\ UNCHANGED <<session, file, opts, pos, tmp, result>>
  BY DEF Setup, FakeEvent, Looping, Known, FaultInv, fileVars
<1>2. /\ m \in 1..Len(file) /\ tmp = Line(session, m, file[m])
      /\ tmp.line = file[m]
      /\ out = AskedBy(file, opts, session)[DealtWith]
  BY <1>1 DEF Known, OrderInv, Line
<1>3. UNCHANGED AskedBy(file, opts, session)
  BY <1>1 DEF AskedBy, Asks, FakedKinds
<1>4. ASSUME Emit(tmp), Asks(tmp.line, opts), DealtWith = m - 1,
             DealtWith' = m
      PROVE  OrderInv' /\ Promise!Next
  <2>1. out' = AskedBy(file, opts, session)[m] /\ Promise!Fake
    <3> HIDE DEF m
    <3> QED BY <1>1, <1>2, <1>4, FakedInOrder
  <2>2. OrderInv'
    BY <1>1, <1>2, <1>3, <1>4, <2>1 DEF OrderInv, Looping, Known
  <2> QED BY <2>1, <2>2 DEF Promise!Next
<1>5. CASE FakeEvent /\ tmp.line.kind \in FakedKinds(opts)
  <2>1. DealtWith = m - 1 /\ DealtWith' = m
    BY <1>1, <1>5 DEF FakeEvent, DealtWith
  <2> QED BY <1>4, <1>5, <2>1 DEF FakeEvent, Asks
<1>6. CASE FakeEvent /\ tmp.line.kind \notin FakedKinds(opts)
  <2>1. DealtWith' = DealtWith /\ UNCHANGED out
    BY <1>1, <1>6 DEF FakeEvent, DealtWith
  <2> QED BY <1>1, <2>1, KeepsLine DEF fileVars
<1>7. CASE Setup /\ tmp.line.kind = "prim"
  <2>1. Emit(tmp) /\ pc = "setup" /\ pc' = "line"
    BY <1>7 DEF Setup, HandleSession
  <2>2. tmp.line.kind \notin FakedKinds(opts) /\ UNCHANGED FakedKinds(opts)
    BY <1>1, <1>7 DEF FakedKinds
  <2>3. DealtWith = m - 1 /\ DealtWith' = m
    BY <1>1, <2>1, <2>2 DEF DealtWith
  <2> QED BY <1>4, <1>7, <2>1, <2>3 DEF Asks
<1>8. CASE Setup /\ tmp.line.kind # "prim"
  <2>1. UNCHANGED out /\ pc = "setup" /\ pc' = "line"
    BY <1>8 DEF Setup, HandleSession
  <2>2. UNCHANGED FakedKinds(opts)
    BY <1>1 DEF FakedKinds
  <2>3. CASE tmp.line.kind \in FakedKinds(opts)
    <3>1. DealtWith' = DealtWith
      BY <1>1, <2>1, <2>2, <2>3 DEF DealtWith
    <3> QED BY <1>1, <2>1, <3>1, KeepsLine DEF fileVars
  <2>4. CASE tmp.line.kind \notin FakedKinds(opts)
    <3>1. DealtWith' = DealtWith + 1 /\ tmp.nr = DealtWith + 1
      BY <1>1, <1>2, <2>1, <2>2, <2>4 DEF DealtWith
    <3>2. ~Asks(tmp.line, opts)
      BY <1>8, <2>4 DEF Asks
    <3> QED BY <1>1, <2>1, <3>1, <3>2, KeepsLine DEF fileVars
  <2> QED BY <2>3, <2>4
<1> QED BY <1>5, <1>6, <1>7, <1>8

(* The line read next is the next line of the file.                         *)
LEMMA ReadsInOrder ==
    ASSUME Known, ReadLine
    PROVE  OrderInv' /\ [Promise!Next]_(Promise!vars)
<1> DEFINE m == pos
           E == AskedBy(file, opts, session)
<1>1. /\ Looping /\ Looping' /\ result = "running" /\ pc = "read"
      /\ pc' = "line" /\ m <= Len(file) /\ pos' = m + 1
      /\ tmp' = Line(session, m, file[m]) /\ HandleSession(tmp')
      /\ UNCHANGED <<session, file, opts, result>>
  BY DEF ReadLine, Looping, Known, FaultInv
<1>2. /\ m \in 1..Len(file) /\ tmp.nr = m - 1 /\ out = E[m - 1]
      /\ tmp'.nr = m /\ tmp'.line = file[m] /\ Len(file) \in Nat
  <2>1. tmp.nr \in 1..Len(file) /\ Len(file) \in Nat /\ pos \in Nat
        /\ (pos = tmp.nr + 1 \/ (tmp.nr = Len(file) /\ pos > tmp.nr))
        /\ out = E[DealtWith] /\ DealtWith = tmp.nr
    BY <1>1 DEF Known, OrderInv, CountersOK, DealtWith
  <2> QED BY <1>1, <2>1 DEF Line
<1>3. UNCHANGED E /\ UNCHANGED FakedKinds(opts)
  BY <1>1 DEF AskedBy, Asks, FakedKinds
<1>4. UNCHANGED Events(file, opts, session)
  BY <1>1, <1>3 DEF Events
<1>5. ASSUME out' = E[DealtWith'] PROVE OrderInv'
  BY <1>1, <1>2, <1>3, <1>5 DEF OrderInv, Looping, Known
<1>6. CASE file[m].kind = "prim"
  <2>1. Emit(tmp') /\ Asks(file[m], opts)
        /\ file[m].kind \notin FakedKinds(opts)
    BY <1>1, <1>2, <1>6 DEF HandleSession, Asks, FakedKinds
  <2>2. DealtWith' = m
    BY <1>1, <1>2, <1>3, <2>1 DEF DealtWith
  <2>3. out' = E[m] /\ Promise!Fake
    <3> HIDE DEF m
    <3> QED BY <1>1, <1>2, <2>1, FakedInOrder
  <2> QED BY <1>5, <2>2, <2>3 DEF Promise!Next
<1>7. CASE file[m].kind # "prim"
  <2>1. UNCHANGED out
    BY <1>1, <1>2, <1>7 DEF HandleSession
  <2>2. CASE file[m].kind \in FakedKinds(opts)
    <3>1. DealtWith' = m - 1
      BY <1>1, <1>2, <1>3, <2>2 DEF DealtWith
    <3> QED BY <1>1, <1>2, <1>4, <1>5, <2>1, <3>1 DEF Promise!vars
  <2>3. CASE file[m].kind \notin FakedKinds(opts)
    <3>1. DealtWith' = m
      BY <1>1, <1>2, <1>3, <2>3 DEF DealtWith
    <3>2. ~Asks(file[m], opts)
      BY <1>7, <2>3 DEF Asks
    <3>3. E[m] = E[m - 1]
      <4> HIDE DEF m
      <4> QED BY <1>2, <3>2, AskedBySkips
    <3> QED BY <1>1, <1>2, <1>4, <1>5, <2>1, <3>1, <3>3 DEF Promise!vars
  <2> QED BY <2>2, <2>3
<1> QED BY <1>6, <1>7

(* A session begins with nothing faked.                                     *)
LEMMA BeginsInOrder ==
    ASSUME Known, NamesOK, BeginSession
    PROVE  OrderInv' /\ [Promise!Next]_(Promise!vars)
<1>1. PICK f \in Files : file' = f
  BY DEF BeginSession
<1>2. PICK o \in Options : opts' = o
  BY DEF BeginSession
<1>3. /\ result # "running" /\ session < MaxSessions
      /\ session' = session + 1 /\ result' = "running" /\ out' = <<>>
      /\ pc' = "meta"
  BY DEF BeginSession, NamesOK
<1>4. Events(file, opts, session)' = Events(f, o, session')
  BY <1>1, <1>2 DEF Events, AskedBy, Asks, FakedKinds
<1>5. Promise!Begin(f, o)
  BY <1>3, <1>4 DEF Promise!Begin
<1>6. OrderInv'
  BY <1>3 DEF OrderInv, Looping
<1> QED BY <1>5, <1>6 DEF Promise!Next

(* A session that ends early ends as the promise allows.                    *)
LEMMA EndsInOrder ==
    ASSUME Known, result = "running", UNCHANGED <<session, file, opts, out>>,
           pc' = "idle", NEW how \in Promise!Endings, result' = how,
           how = "complete" => out = Events(file, opts, session)
    PROVE  OrderInv' /\ [Promise!Next]_(Promise!vars)
<1>1. UNCHANGED Events(file, opts, session)
  BY DEF Events, AskedBy, Asks, FakedKinds
<1>2. Promise!End(how)
  BY <1>1 DEF Promise!End
<1>3. OrderInv'
  BY DEF OrderInv, Looping
<1> QED BY <1>2, <1>3 DEF Promise!Next

(* At the end of the file everything it asks for is faked.                  *)
LEMMA FileInOrder ==
    ASSUME Known, EndOfFile
    PROVE  OrderInv' /\ [Promise!Next]_(Promise!vars)
<1>1. /\ pc = "read" /\ pos > Len(file) /\ pc' = "idle"
      /\ result' = "complete" /\ result = "running"
      /\ UNCHANGED <<session, file, opts, out>>
  BY DEF EndOfFile, EndSession, fileVars, Known, FaultInv
<1>2. /\ Len(file) \in Nat /\ tmp.nr \in 1..Len(file)
      /\ pos = tmp.nr + 1 \/ tmp.nr = Len(file)
      /\ out = AskedBy(file, opts, session)[tmp.nr]
  BY <1>1 DEF Known, CountersOK, OrderInv, Looping, DealtWith
<1>3. tmp.nr = Len(file)
  BY <1>1, <1>2
<1>4. out = Events(file, opts, session)
  BY <1>2, <1>3 DEF Events
<1>5. "complete" \in Promise!Endings
  BY DEF Promise!Endings
<1> QED BY <1>1, <1>4, <1>5, EndsInOrder

(* The synchronisation fakes nothing; it goes on or gives up.               *)
LEMMA SynchronizesInOrder ==
    ASSUME Known, Synchronize
    PROVE  OrderInv' /\ [Promise!Next]_(Promise!vars)
<1>1. /\ pc = "process" /\ result = "running" /\ UNCHANGED <<fileVars, out>>
      /\ \/ pc' \in {"process", "fake"} /\ UNCHANGED result
         \/ pc' = "idle" /\ result' = "synch_fault"
  BY DEF Synchronize, InSync, PassByTotal, Wait, TimeOut, EndSession, Known,
     FaultInv
<1>2. CASE pc' \in {"process", "fake"} /\ UNCHANGED result
  <2>1. DealtWith' = DealtWith
    BY <1>1, <1>2 DEF DealtWith, fileVars, FakedKinds
  <2> QED BY <1>1, <1>2, <2>1, KeepsLine DEF Looping
<1>3. CASE pc' = "idle" /\ result' = "synch_fault"
  <2>1. "synch_fault" \in Promise!Endings
    BY DEF Promise!Endings
  <2> QED BY <1>1, <1>3, <2>1, EndsInOrder DEF fileVars
<1> QED BY <1>1, <1>2, <1>3

(* So do the early returns.                                                 *)
LEMMA LeavesInOrder ==
    ASSUME Known, Leaves
    PROVE  OrderInv' /\ [Promise!Next]_(Promise!vars)
<1>1. /\ pc \in {"setup", "line"} /\ UNCHANGED <<session, file, opts, out>>
      /\ pc' = "idle"
  BY DEF Leaves, SetupFails, LeaveOnInterrupt, LeaveOnKey, EndSession, fileVars
<1>2. result = "running"
  BY <1>1 DEF Known, FaultInv
<1>3. result' \in Promise!Endings /\ result' # "complete"
  BY LeavesCount DEF Promise!Endings
<1> QED BY <1>1, <1>2, <1>3, EndsInOrder

(* Every step of the replayer is one of the promise, or none of it.         *)
LEMMA StepsInOrder ==
    Known /\ NamesOK /\ [Next]_vars =>
      OrderInv' /\ [Promise!Next]_(Promise!vars)
<1> SUFFICES ASSUME Known, NamesOK, [Next]_vars
             PROVE  OrderInv' /\ [Promise!Next]_(Promise!vars)
  OBVIOUS
<1>1. CASE BeginSession
  BY <1>1, BeginsInOrder
<1>2. CASE ReadMeta
  BY <1>2, MetaInOrder
<1>3. CASE Through
  BY <1>3, PassesInOrder, FakesInOrder, ReadsInOrder DEF Through
<1>4. CASE Leaves
  BY <1>4, LeavesInOrder
<1>5. CASE Synchronize
  BY <1>5, SynchronizesInOrder
<1>6. CASE EndOfFile
  BY <1>6, FileInOrder
<1>7. CASE UNCHANGED vars
  <2>1. UNCHANGED <<fileVars, out, result, pc>>
    BY <1>7 DEF vars
  <2> QED BY <2>1, KeepsLine
<1> QED BY <1>1, <1>2, <1>3, <1>4, <1>5, <1>6, <1>7, Steps

(* The promise begins where the replayer does.                              *)
LEMMA OrderStart == Init => OrderInv /\ Promise!Init
<1> SUFFICES ASSUME Init PROVE OrderInv /\ Promise!Init
  OBVIOUS
<1>1. /\ file = <<>> /\ session = 0 /\ out = <<>> /\ result = "complete"
      /\ pc = "idle"
  BY DEF Init
<1>2. Len(file) = 0
  BY <1>1
<1>3. Events(file, opts, session) = <<>>
  BY <1>2, AskedByStart DEF Events
<1> QED BY <1>1, <1>3 DEF OrderInv, Looping, Promise!Init

(* The replayer implements the promise of ReplayOrder: it fakes the events  *)
(* its file asks for, in their order and each once, whatever the server, the*)
(* user and the signals do, and a session that ends by itself has faked     *)
(* them all.  (That a session ends is a matter of fairness, which TLC       *)
(* checks.)                                                                 *)
THEOREM PromiseKeptInOrder ==
    ASSUME NoneEmpty
    PROVE  Spec => Promise!Init /\ [][Promise!Next]_(Promise!vars)
<1> DEFINE All == CountersOK /\ NamesOK /\ BoundsOK /\ FaultInv /\ OrderInv
<1>1. Init => All
  <2>1. Init => NamesOK /\ BoundsOK
    BY NamesStart
  <2> QED BY <2>1, CountersStart, FaultStart, OrderStart
<1>2. All /\ [Next]_vars => All' /\ [Promise!Next]_(Promise!vars)
  <2>1. All /\ [Next]_vars => OrderInv' /\ [Promise!Next]_(Promise!vars)
    BY StepsInOrder DEF Known
  <2> QED BY <2>1, CountersKept, NamesKept, BoundsKept, FaultInvKept
<1>3. Init => Promise!Init
  BY OrderStart
<1> QED BY <1>1, <1>2, <1>3, PTL DEF Spec
=============================================================================
