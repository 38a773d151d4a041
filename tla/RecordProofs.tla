---------------------------- MODULE RecordProofs ----------------------------
(***************************************************************************)
(* The limits of a recording, for any limits and any bounds, and the       *)
(* ranges of data a session records, for any numbers, entries, excludes    *)
(* and servers.                                                            *)
(*                                                                         *)
(* LimitsKept is inductive once the counters are known to be numbers.      *)
(* RefusalFinal is not: RefusalInv says why a refusal lasts, namely that   *)
(* without a limit on time it comes from a limit on events or on data,     *)
(* which is still reached because nothing is counted any more.             *)
(*                                                                         *)
(* ListIsWanted is inductive with the types of the lists; what is left to  *)
(* show is what sorting, adding and removing do to a list.  ToldWasAsked   *)
(* needs bounds on all that is in the array, in the slots beyond the       *)
(* count too.  AskedIsTold is shown along the loop that makes the ranges:  *)
(* each step follows from the one before without overwriting what is       *)
(* counted, because there are never more errors than delivered events.     *)
(* What the recursive functions of Ranges compute is shown by induction on *)
(* the numbers up to the length of their list.                             *)
(***************************************************************************)
EXTENDS Record, Ranges, WellFoundedInduction, TLAPS

(* The limits and the counters are numbers.                                 *)
CountersOK ==
    /\ limits \in [events : Int, data : Int, time : Int]
    /\ events \in Nat /\ data \in Nat /\ time \in Nat /\ after \in Nat

(* A refusal that no limit on time made has a limit that is still reached.  *)
RefusalInv ==
    limits.time < 0 =>
        /\ refused => events = limits.events \/ data = limits.data
        /\ after = 0

(* A session that ended by itself has reached a limit; nothing is counted   *)
(* while no session runs.                                                   *)
EndInv ==
    /\ result = "running" <=> pc # "idle"
    /\ session \in Nat
    /\ CompleteEarned

-----------------------------------------------------------------------------

(* Asking for more changes nothing but the clock and the note of a refusal. *)
LEMMA AskingCounts ==
    ASSUME CountersOK, AskMore
    PROVE  time' \in Nat /\ TimeNow \in Nat
  BY DEF CountersOK, AskMore, TimeNow

(* The steps that count nothing.                                            *)
Quiet == EnterLoop \/ LeaveOnInterrupt \/ StopKey \/ NoKey \/ PauseKey
           \/ ResumeKey \/ DispatchRefused \/ EndPoll \/ Tick \/ RequestStop

(* They leave the limits and the counters alone, and the clock and the note *)
(* of a refusal too, unless they ask for more.                              *)
LEMMA QuietCounts ==
    ASSUME Quiet
    PROVE  /\ UNCHANGED <<limits, events, data, after, session>>
           /\ AskMore \/ UNCHANGED <<time, refused>>
  BY DEF Quiet, EnterLoop, LeaveOnInterrupt, StopKey, NoKey, PauseKey,
       ResumeKey, DispatchRefused, EndPoll, Tick, RequestStop, counters,
       clock, histories

(* The steps that record a datum: it is asked for and counted.              *)
LEMMA DatumCounts ==
    ASSUME DispatchEvent \/ DispatchOther
    PROVE  /\ MoreToRecord /\ AskMore /\ pc = "poll"
           /\ UNCHANGED <<limits, pc, result, session>>
           /\ data' = data + 1
           /\ events' = events \/ events' = events + 1
           /\ after' = IF refused THEN after + 1 ELSE after
  BY DEF DispatchEvent, DispatchOther, RecordDatum, Handed

(* A step is one of these, or starts a session, or changes nothing.         *)
LEMMA Steps ==
    [Next]_vars => \/ Start \/ Quiet
                   \/ DispatchEvent \/ DispatchOther
                   \/ UNCHANGED vars
  BY DEF Next, Recorder, Quiet

(* The limits and counters stay numbers in every step.                      *)
LEMMA CountersKept == CountersOK /\ [Next]_vars => CountersOK'
<1> SUFFICES ASSUME CountersOK, [Next]_vars PROVE CountersOK'
  OBVIOUS
<1>1. CASE Start
  BY <1>1, LimitsAssumption DEF Start, CountersOK
<1>2. CASE Quiet
  BY <1>2, QuietCounts, AskingCounts DEF CountersOK
<1>3. CASE DispatchEvent \/ DispatchOther
  BY <1>3, DatumCounts, AskingCounts DEF CountersOK
<1>4. CASE UNCHANGED vars
  BY <1>4 DEF vars, counters, clock, histories, CountersOK
<1> QED BY <1>1, <1>2, <1>3, <1>4, Steps

(* They are numbers from the start.                                         *)
LEMMA CountersStart == Init => CountersOK
  BY LimitsAssumption DEF Init, CountersOK

-----------------------------------------------------------------------------

(* The counters of events and of data never step over their limits, beyond  *)
(* which the negative rest would count as no limit.                         *)
THEOREM LimitsAreKept == Spec => []LimitsKept
<1>1. Init => LimitsKept
  BY LimitsAssumption DEF Init, LimitsKept
<1>2. CountersOK /\ LimitsKept /\ [Next]_vars => LimitsKept'
  <2> SUFFICES ASSUME CountersOK, LimitsKept, [Next]_vars PROVE LimitsKept'
    OBVIOUS
  <2> USE DEF CountersOK, LimitsKept
  <2>1. CASE Start
    BY <2>1, LimitsAssumption DEF Start
  <2>2. CASE Quiet
    BY <2>2, QuietCounts
  <2>3. CASE DispatchEvent \/ DispatchOther
    <3>1. limits.events # events /\ limits.data # data
      BY <2>3, DatumCounts DEF MoreToRecord, Left
    <3> QED BY <2>3, <3>1, DatumCounts
  <2>4. CASE UNCHANGED vars
    BY <2>4 DEF vars, counters
  <2> QED BY <2>1, <2>2, <2>3, <2>4, Steps
<1> QED BY <1>1, <1>2, CountersStart, CountersKept, PTL DEF Spec

(* Without a limit on time, nothing the server sends is recorded once       *)
(* xnee_more_to_record has said no.                                         *)
THEOREM RefusalIsFinal == Spec => []RefusalFinal
<1>1. Init => RefusalInv
  BY DEF Init, RefusalInv
<1>2. CountersOK /\ RefusalInv /\ [Next]_vars => RefusalInv'
  <2> SUFFICES ASSUME CountersOK, RefusalInv, [Next]_vars,
                      limits'.time < 0
               PROVE  /\ refused' => \/ events' = limits'.events
                                     \/ data' = limits'.data
                      /\ after' = 0
    BY DEF RefusalInv
  <2> USE DEF CountersOK, RefusalInv
  <2>1. CASE Start
    BY <2>1 DEF Start
  <2>2. CASE Quiet
    <3>1. UNCHANGED <<limits, events, data, after>>
      BY <2>2, QuietCounts
    <3>2. CASE AskMore
      <4>1. limits.time - TimeNow # 0
        BY <3>1, <3>2, AskingCounts
      <4>2. ~MoreToRecord => events = limits.events \/ data = limits.data
        BY <4>1 DEF MoreToRecord, Left
      <4> QED BY <3>1, <3>2, <4>2 DEF AskMore
    <3>3. CASE UNCHANGED refused
      BY <3>1, <3>3
    <3> QED BY <2>2, <3>2, <3>3, QuietCounts
  <2>3. CASE DispatchEvent \/ DispatchOther
    <3>1. MoreToRecord /\ AskMore /\ UNCHANGED limits
          /\ after' = IF refused THEN after + 1 ELSE after
      BY <2>3, DatumCounts
    <3>2. limits.events # events /\ limits.data # data
      BY <3>1 DEF MoreToRecord, Left
    <3>3. ~refused /\ after = 0
      BY <3>1, <3>2
    <3> QED BY <3>1, <3>3 DEF AskMore
  <2>4. CASE UNCHANGED vars
    BY <2>4 DEF vars, counters, histories
  <2> QED BY <2>1, <2>2, <2>3, <2>4, Steps
<1>3. RefusalInv => RefusalFinal
  BY DEF RefusalInv, RefusalFinal
<1> QED BY <1>1, <1>2, <1>3, CountersStart, CountersKept, PTL DEF Spec

(* A request to stop is dropped by nothing but the end of the session or    *)
(* the recording of an event.                                               *)
THEOREM StopDroppedByEvent == Spec => DroppedByEventOnly
<1>1. ASSUME Next, interrupt, ~interrupt'
      PROVE  pc' = "idle" \/ events' = events + 1
  <2>1. LeaveOnInterrupt \/ DispatchEvent
    BY <1>1 DEF Next, Recorder, Start, EnterLoop, StopKey, NoKey, PauseKey,
         ResumeKey, DispatchRefused, DispatchOther, EndPoll, Tick, RequestStop
  <2> QED BY <2>1 DEF LeaveOnInterrupt, Leave, DispatchEvent
<1>2. [Next]_vars => [interrupt /\ ~interrupt'
                        => pc' = "idle" \/ events' = events + 1]_vars
  BY <1>1
<1> QED BY <1>2, PTL DEF Spec, DroppedByEventOnly

(* A session that ends by itself has reached one of its limits.             *)
THEOREM CompletionEarned == Spec => []CompleteEarned
<1>1. Init => EndInv
  BY DEF Init, EndInv, CompleteEarned
<1>2. CountersOK /\ EndInv /\ [Next]_vars => EndInv'
  <2> SUFFICES ASSUME CountersOK, EndInv, [Next]_vars PROVE EndInv'
    OBVIOUS
  <2> USE DEF EndInv, CompleteEarned, counters, clock, Leave, Poll
  <2>1. CASE Start
    BY <2>1 DEF Start
  <2>2. CASE EnterLoop \/ EndPoll
    <3>1. ~MoreToRecord /\ AskMore => \/ events = limits.events
                                      \/ data = limits.data
                                      \/ time' = limits.time
      BY DEF MoreToRecord, Left, AskMore, TimeNow, CountersOK
    <3>2. UNCHANGED <<limits, counters, session>> /\ AskMore
      BY <2>2 DEF EnterLoop, EndPoll
    <3>3. result' = "running" <=> pc' # "idle"
      BY <2>2 DEF EnterLoop, EndPoll
    <3>4. result' = "complete" => ~MoreToRecord
      BY <2>2 DEF EnterLoop, EndPoll
    <3> QED BY <3>1, <3>2, <3>3, <3>4
  <2>3. CASE LeaveOnInterrupt \/ StopKey \/ NoKey \/ PauseKey \/ ResumeKey
    <3>1. /\ result' # "complete" /\ UNCHANGED session
          /\ result' = "running" <=> pc' # "idle"
      BY <2>3 DEF LeaveOnInterrupt, StopKey, NoKey, PauseKey, ResumeKey
    <3> QED BY <3>1
  <2>4. CASE DispatchRefused \/ DispatchEvent \/ DispatchOther
    <3>1. UNCHANGED <<pc, result, session>> /\ pc = "poll"
      BY <2>4 DEF DispatchRefused, DispatchEvent, DispatchOther, RecordDatum,
           Handed
    <3> QED BY <3>1
  <2>5. CASE Tick \/ RequestStop \/ UNCHANGED vars
    <3>1. UNCHANGED <<pc, result, session, limits, events, data, time>>
      BY <2>5 DEF Tick, RequestStop, vars
    <3> QED BY <3>1
  <2> QED BY <2>1, <2>2, <2>3, <2>4, <2>5 DEF Next, Recorder
<1>3. EndInv => CompleteEarned
  BY DEF EndInv
<1> QED BY <1>1, <1>2, <1>3, CountersStart, CountersKept, PTL DEF Spec

-----------------------------------------------------------------------------

(* The steps, the end and the context.                                      *)
NamesOK ==
    /\ pc \in {"idle", "start", "loop", "poll"}
    /\ limits \in Limits
    /\ context \in {"none", "created", "enabled"}
    /\ result \in {"running", "complete", "stopped", "interrupted",
                   "record_failure"}
    /\ (pc = "idle") = (result # "running")

FlagsOK ==
    /\ stamped \in BOOLEAN /\ ticked \in BOOLEAN /\ interrupt \in BOOLEAN
    /\ refused \in BOOLEAN /\ lost \in BOOLEAN

(* The counters, within the bounds.                                         *)
CountsOK ==
    /\ events \in 0..data /\ data \in 0..MaxData
    /\ time \in Nat /\ after \in Nat
    /\ batch \in 0..MaxBatch
    /\ session \in 0..MaxSessions
    /\ ticks \in 0..MaxTicks /\ stops \in 0..MaxStops

(* The loop, its contexts and its results keep their values.                *)
LEMMA NamesKept == NamesOK /\ [Next]_vars => NamesOK'
<1> SUFFICES ASSUME NamesOK, [Next]_vars PROVE NamesOK'
  OBVIOUS
<1> USE DEF NamesOK, Leave, Poll, contexts
<1>1. CASE Start
  BY <1>1 DEF Start
<1>2. CASE EnterLoop \/ EndPoll
  BY <1>2 DEF EnterLoop, EndPoll
<1>3. CASE LeaveOnInterrupt \/ StopKey \/ NoKey \/ PauseKey \/ ResumeKey
  BY <1>3 DEF LeaveOnInterrupt, StopKey, NoKey, PauseKey, ResumeKey
<1>4. CASE DispatchRefused \/ DispatchEvent \/ DispatchOther
  BY <1>4 DEF DispatchRefused, DispatchEvent, DispatchOther
<1>5. CASE Tick \/ RequestStop \/ UNCHANGED vars
  BY <1>5 DEF Tick, RequestStop, vars
<1> QED BY <1>1, <1>2, <1>3, <1>4, <1>5 DEF Next, Recorder

(* So do the flags of the clock and of the interrupt.                       *)
LEMMA FlagsKept == FlagsOK /\ [Next]_vars => FlagsOK'
<1> SUFFICES ASSUME FlagsOK, [Next]_vars PROVE FlagsOK'
  OBVIOUS
<1>1. ASSUME AskMore PROVE stamped' \in BOOLEAN /\ ticked' \in BOOLEAN
                           /\ refused' \in BOOLEAN
  BY <1>1 DEF AskMore
<1>2. CASE Start
  BY <1>2, OnDataAssumption DEF Start, FlagsOK
<1>3. CASE EnterLoop \/ EndPoll \/ DispatchRefused \/ DispatchOther
  <2>1. AskMore /\ UNCHANGED <<interrupt, lost>>
    BY <1>3 DEF EnterLoop, EndPoll, DispatchRefused, DispatchOther,
         RecordDatum, contexts
  <2> QED BY <2>1, <1>1 DEF FlagsOK
<1>4. CASE DispatchEvent
  <2>1. AskMore /\ interrupt' = FALSE /\ UNCHANGED lost
    BY <1>4 DEF DispatchEvent, RecordDatum, contexts
  <2> QED BY <2>1, <1>1 DEF FlagsOK
<1>5. CASE LeaveOnInterrupt \/ StopKey \/ NoKey \/ PauseKey
  <2>1. /\ UNCHANGED <<stamped, ticked, refused, lost>>
        /\ interrupt' = FALSE \/ UNCHANGED interrupt
    BY <1>5 DEF LeaveOnInterrupt, StopKey, NoKey, PauseKey, contexts, clock,
         histories
  <2> QED BY <2>1 DEF FlagsOK
<1>6. CASE ResumeKey
  <2>1. /\ UNCHANGED <<stamped, ticked, refused, interrupt>>
        /\ lost' \in BOOLEAN
    BY <1>6 DEF ResumeKey, clock, histories
  <2> QED BY <2>1 DEF FlagsOK
<1>7. CASE Tick \/ RequestStop \/ UNCHANGED vars
  <2>1. /\ UNCHANGED <<stamped, refused, lost>>
        /\ ticked' = TRUE \/ UNCHANGED ticked
        /\ interrupt' = TRUE \/ UNCHANGED interrupt
    BY <1>7 DEF Tick, RequestStop, vars, contexts, clock, histories
  <2> QED BY <2>1 DEF FlagsOK
<1> QED BY <1>2, <1>3, <1>4, <1>5, <1>6, <1>7 DEF Next, Recorder

(* The counters stay within their bounds; no more events are counted than   *)
(* data.                                                                    *)
LEMMA CountsKept == CountsOK /\ [Next]_vars => CountsOK'
<1> SUFFICES ASSUME CountsOK, [Next]_vars PROVE CountsOK'
  OBVIOUS
<1> USE BoundAssumption DEF CountsOK
<1>1. ASSUME AskMore PROVE time' \in Nat /\ UNCHANGED ticks
  BY <1>1 DEF AskMore, TimeNow
<1>2. CASE Start
  BY <1>2 DEF Start
<1>3. CASE EnterLoop \/ EndPoll
  <2>1. AskMore /\ UNCHANGED <<events, data, after, batch, session, stops>>
    BY <1>3 DEF EnterLoop, EndPoll, counters
  <2> QED BY <2>1, <1>1
<1>4. CASE DispatchRefused
  <2>1. /\ AskMore /\ UNCHANGED <<events, data, after, session, stops>>
        /\ batch < MaxBatch /\ batch' = batch + 1
    BY <1>4 DEF DispatchRefused, Handed, counters
  <2> QED BY <2>1, <1>1
<1>5. CASE DispatchEvent \/ DispatchOther
  <2>1. /\ AskMore /\ UNCHANGED <<session, stops>>
        /\ batch < MaxBatch /\ batch' = batch + 1
        /\ data < MaxData
    BY <1>5 DEF DispatchEvent, DispatchOther, RecordDatum, Handed
  <2> QED BY <2>1, <1>1, <1>5, DatumCounts
<1>6. CASE LeaveOnInterrupt \/ StopKey \/ NoKey \/ PauseKey \/ ResumeKey
  <2>1. /\ UNCHANGED <<events, data, time, after, session, ticks, stops>>
        /\ batch' = 0 \/ UNCHANGED batch
    BY <1>6 DEF LeaveOnInterrupt, StopKey, NoKey, PauseKey, ResumeKey, Poll,
         counters, clock, histories
  <2> QED BY <2>1
<1>7. CASE Tick
  BY <1>7 DEF Tick, counters, histories
<1>8. CASE RequestStop
  BY <1>8 DEF RequestStop, counters, clock, histories
<1>9. CASE UNCHANGED vars
  BY <1>9 DEF vars, counters, clock, histories
<1> QED BY <1>2, <1>3, <1>4, <1>5, <1>6, <1>7, <1>8, <1>9 DEF Next, Recorder

(* Every variable keeps its type, a session has ended exactly when its      *)
(* thread is idle, and no more events than data are counted.                *)
THEOREM RecordTypes == Spec => []TypeOK
<1>1. Init => NamesOK /\ FlagsOK
  BY DEF Init, NamesOK, FlagsOK
<1>2. Init => CountsOK
  BY BoundAssumption DEF Init, CountsOK
<1>3. NamesOK /\ FlagsOK /\ CountsOK => TypeOK
  BY DEF NamesOK, FlagsOK, CountsOK, TypeOK
<1> QED BY <1>1, <1>2, <1>3, NamesKept, FlagsKept, CountsKept, PTL DEF Spec

-----------------------------------------------------------------------------

(* Induction on the numbers, for a set of them that is given.               *)
LEMMA Induction ==
    ASSUME NEW S, 0 \in S, \A n \in Nat : n \in S => n + 1 \in S
    PROVE  Nat \subseteq S
<1> SUFFICES ASSUME Nat \ S # {} PROVE FALSE
  OBVIOUS
<1>1. PICK m \in Nat \ S : \A n \in Nat \ S : <<n, m>> \notin OpToRel(<, Nat)
  BY NatLessThanWellFounded, WFMin
<1>2. m - 1 \in Nat /\ m - 1 < m
  OBVIOUS
<1>3. <<m - 1, m>> \in OpToRel(<, Nat)
  BY <1>2 DEF OpToRel
<1>4. m - 1 \in S
  BY <1>1, <1>2, <1>3
<1>5. (m - 1) + 1 \in S
  BY <1>2, <1>4
<1> QED BY <1>5

(* What holds at the start and is kept by each of N steps holds throughout. *)
LEMMA UpTo ==
    ASSUME NEW N \in Nat, NEW S,
           0 \in S, \A n \in 1..N : n - 1 \in S => n \in S
    PROVE  \A n \in 0..N : n \in S
<1> DEFINE T == {n \in Nat : n <= N => n \in S}
<1>1. 0 \in T
  OBVIOUS
<1>2. ASSUME NEW n \in Nat, n \in T PROVE n + 1 \in T
  <2>1. CASE n + 1 <= N
    <3>1. n + 1 \in 1..N /\ (n + 1) - 1 = n /\ n \in S
      BY <1>2, <2>1
    <3> QED BY <3>1
  <2>2. CASE ~(n + 1 <= N)
    BY <2>2
  <2> QED BY <2>1, <2>2
<1>3. Nat \subseteq T
  <2> HIDE DEF T
  <2> QED BY <1>1, <1>2, Induction
<1> QED BY <1>3

(* N steps of functions f on values V from b have a course g.               *)
StepsOver(N, V) == [1..N -> [V -> V]]
CourseOf(N, V, b, f, g) ==
    /\ g \in [0..N -> V]
    /\ g[0] = b
    /\ \A n \in 1..N : g[n] = f[n][g[n - 1]]
LEMMA Course ==
    ASSUME NEW N \in Nat, NEW V, NEW b \in V, NEW f \in StepsOver(N, V)
    PROVE  \E g : CourseOf(N, V, b, f, g)
<1> DEFINE Along(m, g) == /\ g \in [0..m -> V]
                          /\ g[0] = b
                          /\ \A n \in 1..m : g[n] = f[n][g[n - 1]]
           S == {m \in 0..N : \E g : Along(m, g)}
<1> USE DEF StepsOver
<1>1. 0 \in S
  <2>1. Along(0, [i \in 0..0 |-> b])
    OBVIOUS
  <2> HIDE DEF Along
  <2> QED BY <2>1
<1>2. ASSUME NEW m \in 1..N, m - 1 \in S PROVE m \in S
  <2>1. PICK g : Along(m - 1, g)
    BY <1>2
  <2> DEFINE v == f[m][g[m - 1]]
             h == [i \in 0..m |-> IF i = m THEN v ELSE g[i]]
  <2>2. v \in V
    BY <2>1
  <2>3. Along(m, h)
    <3>1. h \in [0..m -> V]
      BY <2>1, <2>2
    <3>2. h[0] = b
      BY <2>1
    <3>3. ASSUME NEW n \in 1..m PROVE h[n] = f[n][h[n - 1]]
      <4>1. h[n - 1] = g[n - 1]
        OBVIOUS
      <4>2. CASE n = m
        BY <4>1, <4>2
      <4>3. CASE n # m
        <5>1. n \in 1..(m - 1) /\ h[n] = g[n]
          BY <4>3
        <5>2. g[n] = f[n][g[n - 1]]
          BY <2>1, <5>1
        <5> QED BY <4>1, <5>1, <5>2
      <4> QED BY <4>2, <4>3
    <3> QED BY <3>1, <3>2, <3>3
  <2> HIDE DEF Along
  <2> QED BY <2>3
<1>3. \A m \in 0..N : m \in S
  <2> HIDE DEF S
  <2> QED BY <1>1, <1>2, UpTo
<1>4. N \in S
  <2> HIDE DEF S
  <2> QED BY <1>3
<1> QED BY <1>4 DEF CourseOf

-----------------------------------------------------------------------------

(* The recursive functions of Ranges have solutions: their equations.       *)
LEMMA KeptDef ==
    ASSUME NEW W, NEW s \in Seq(W), NEW set
    PROVE  /\ KeptTo(s, set)[0] = <<>>
           /\ \A n \in 1..Len(s) : KeptTo(s, set)[n] =
                IF s[n] \in set THEN Append(KeptTo(s, set)[n - 1], s[n])
                ELSE KeptTo(s, set)[n - 1]
<1> DEFINE N == Len(s)
           B(g, n) == IF n = 0 THEN <<>>
                      ELSE IF s[n] \in set THEN Append(g[n - 1], s[n])
                      ELSE g[n - 1]
           V == Seq(W)
           b == <<>>
           f == [n \in 1..N |-> [q \in V |->
                   IF s[n] \in set THEN Append(q, s[n]) ELSE q]]
<1>1. N \in Nat /\ b \in V /\ f \in StepsOver(N, V)
  BY DEF StepsOver
<1>2. PICK g : CourseOf(N, V, b, f, g)
  <2> HIDE DEF N, V, b, f
  <2> QED BY <1>1, Course
<1>3. ASSUME NEW n \in 0..N PROVE g[n] = B(g, n)
  <2>1. CASE n = 0
    BY <1>2, <2>1 DEF CourseOf
  <2>2. CASE n # 0
    <3>1. n \in 1..N /\ g[n - 1] \in V
      <4> HIDE DEF N, V, b, f, B
      <4>1. n \in 1..N /\ n - 1 \in 0..N
        BY <1>1, <2>2
      <4>2. g \in [0..N -> V]
        BY <1>2 DEF CourseOf
      <4> QED BY <4>1, <4>2
    <3> QED BY <1>2, <2>2, <3>1 DEF CourseOf
  <2> QED BY <2>1, <2>2
<1>4. g = [n \in 0..N |-> B(g, n)]
  <2> HIDE DEF B
  <2> QED BY <1>2, <1>3 DEF CourseOf
<1>5. KeptTo(s, set) = CHOOSE h : h = [n \in 0..N |-> B(h, n)]
  BY DEF KeptTo
<1>6. KeptTo(s, set) = [n \in 0..N |-> B(KeptTo(s, set), n)]
  <2> HIDE DEF B, N
  <2> QED BY <1>4, <1>5
<1>7. \A n \in 0..N : KeptTo(s, set)[n] = B(KeptTo(s, set), n)
  <2> HIDE DEF B, N
  <2> QED BY <1>6
<1> QED BY <1>1, <1>7

(* The elements of sequences.                                               *)
LEMMA AppendedRange ==
    ASSUME NEW W, NEW q \in Seq(W), NEW v \in W
    PROVE  /\ Append(q, v) \in Seq(W)
           /\ Range(Append(q, v)) = Range(q) \cup {v}
<1> DEFINE a == Append(q, v)
           N == Len(q)
<1>1. a \in Seq(W) /\ N \in Nat /\ DOMAIN q = 1..N /\ DOMAIN a = 1..(N + 1)
      /\ a[N + 1] = v
  OBVIOUS
<1>2. \A i \in 1..N : a[i] = q[i]
  OBVIOUS
<1> HIDE DEF a
<1>3. Range(a) \subseteq Range(q) \cup {v}
  BY <1>1, <1>2 DEF Range
<1>4. Range(q) \cup {v} \subseteq Range(a)
  BY <1>1, <1>2 DEF Range
<1> QED BY <1>1, <1>3, <1>4 DEF a

(* The first n of them.                                                     *)
FirstOf(s, n) == {s[i] : i \in 1..n}
LEMMA FirstFacts ==
    ASSUME NEW W, NEW s \in Seq(W)
    PROVE  /\ FirstOf(s, 0) = {}
           /\ \A n \in 1..Len(s) : /\ FirstOf(s, n) = FirstOf(s, n - 1) \cup {s[n]}
                                  /\ s[n] \in W
           /\ FirstOf(s, Len(s)) = Range(s)
<1>1. FirstOf(s, 0) = {}
  BY DEF FirstOf
<1>2. ASSUME NEW n \in 1..Len(s)
      PROVE  FirstOf(s, n) = FirstOf(s, n - 1) \cup {s[n]} /\ s[n] \in W
  BY DEF FirstOf
<1>3. FirstOf(s, Len(s)) = Range(s)
  BY DEF FirstOf, Range
<1> QED BY <1>1, <1>2, <1>3

(* What is in two lists, one after the other.                               *)
LEMMA ConcatRange ==
    ASSUME NEW W, NEW q \in Seq(W), NEW r \in Seq(W)
    PROVE  /\ q \o r \in Seq(W)
           /\ Range(q \o r) = Range(q) \cup Range(r)
<1> DEFINE c == q \o r
           M == Len(q)
           N == Len(r)
<1>1. /\ c \in Seq(W) /\ M \in Nat /\ N \in Nat /\ DOMAIN c = 1..(M + N)
      /\ DOMAIN q = 1..M /\ DOMAIN r = 1..N
  OBVIOUS
<1>2. \A i \in 1..M : i \in 1..(M + N) /\ c[i] = q[i]
  OBVIOUS
<1>3. \A i \in 1..N : M + i \in 1..(M + N) /\ c[M + i] = r[i]
  OBVIOUS
<1>4. \A i \in 1..(M + N) : i \in 1..M \/ i - M \in 1..N
  BY <1>1
<1>5. \A i \in 1..(M + N) : i - M \in 1..N => c[i] = r[i - M]
  OBVIOUS
<1> HIDE DEF c, M, N
<1>6. Range(c) \subseteq Range(q) \cup Range(r)
  BY <1>1, <1>2, <1>4, <1>5 DEF Range
<1>7. Range(q) \cup Range(r) \subseteq Range(c)
  BY <1>1, <1>2, <1>3 DEF Range
<1> QED BY <1>1, <1>6, <1>7 DEF c

(* Nothing is in an empty list.                                             *)
LEMMA EmptyRange == Range(<<>>) = {}
  BY DEF Range

(* What is kept of a sequence is what it holds of the set.                  *)
LEMMA KeptFacts ==
    ASSUME NEW W, NEW s \in Seq(W), NEW set
    PROVE  /\ Kept(s, set) \in Seq(W)
           /\ Range(Kept(s, set)) = Range(s) \cap set
<1> DEFINE N == Len(s)
           K == KeptTo(s, set)
           Right(n) == K[n] \in Seq(W) /\ Range(K[n]) = FirstOf(s, n) \cap set
           S == {n \in 0..N : Right(n)}
<1>1. N \in Nat
  OBVIOUS
<1>2. Right(0)
  <2>1. K[0] = <<>> /\ <<>> \in Seq(W)
    BY KeptDef
  <2> QED BY <2>1, EmptyRange, FirstFacts
<1>3. ASSUME NEW n \in 1..N, Right(n - 1) PROVE Right(n)
  <2> DEFINE q == K[n - 1]
  <2>1. K[n] = IF s[n] \in set THEN Append(q, s[n]) ELSE q
    BY KeptDef
  <2>2. /\ FirstOf(s, n) = FirstOf(s, n - 1) \cup {s[n]} /\ s[n] \in W
    BY FirstFacts
  <2>3. q \in Seq(W) /\ Range(q) = FirstOf(s, n - 1) \cap set
    BY <1>3
  <2> HIDE DEF q, K
  <2>4. CASE s[n] \in set
    BY <2>1, <2>2, <2>3, <2>4, AppendedRange
  <2>5. CASE s[n] \notin set
    BY <2>1, <2>2, <2>3, <2>5
  <2> QED BY <2>4, <2>5
<1>4. 0 \in S /\ \A n \in 1..N : n - 1 \in S => n \in S
  <2> HIDE DEF Right
  <2> QED BY <1>1, <1>2, <1>3
<1>5. N \in S
  <2> HIDE DEF S
  <2>1. \A n \in 0..N : n \in S
    BY <1>1, <1>4, UpTo
  <2> QED BY <1>1, <2>1
<1> QED BY <1>5, FirstFacts DEF Kept

-----------------------------------------------------------------------------

(* The runs of a list of numbers. *)
Run == {r \in Number \X Number : r[1] <= r[2]}
Span(r) == r[1]..r[2]
Spans(q) == UNION {Span(r) : r \in Range(q)}

(* One more number is one more number in the runs.                          *)
LEMMA ExtendedRuns ==
    ASSUME NEW q \in Seq(Run), NEW n \in Number
    PROVE  /\ Extended(q, n) \in Seq(Run)
           /\ Spans(Extended(q, n)) = Spans(q) \cup {n}
<1> DEFINE k == Len(q)
           p == q[k]
           r == <<p[1], n>>
           one == <<n, n>>
<1> USE NumberAssumption
<1>1. one \in Run /\ Span(one) = {n}
  BY DEF Run, Span, Number
<1>2. CASE k # 0 /\ n = p[2] + 1
  <2>1. k \in 1..Len(q) /\ p \in Run
    BY <1>2
  <2>2. p[1] \in Number /\ p[2] \in Number /\ p[1] <= p[2]
    BY <2>1 DEF Run
  <2>3. r \in Run /\ Span(r) = Span(p) \cup {n}
    BY <1>2, <2>2 DEF Run, Span, Number
  <2>4. Extended(q, n) = [q EXCEPT ![k] = r]
    BY <1>2 DEF Extended
  <2> HIDE DEF r, p
  <2>5. [q EXCEPT ![k] = r] \in Seq(Run)
    BY <2>1, <2>3
  <2>6. Spans([q EXCEPT ![k] = r]) = Spans(q) \cup {n}
    <3> DEFINE e == [q EXCEPT ![k] = r]
    <3>1. DOMAIN e = DOMAIN q /\ k \in DOMAIN q /\ e[k] = r
          /\ \A i \in DOMAIN q : i # k => e[i] = q[i]
      BY <2>1
    <3>2. q[k] = p
      BY DEF p
    <3> HIDE DEF e
    <3>3. Spans(e) \subseteq Spans(q) \cup {n}
      BY <2>3, <3>1, <3>2 DEF Spans, Range
    <3>4. Spans(q) \cup {n} \subseteq Spans(e)
      BY <2>3, <3>1, <3>2 DEF Spans, Range
    <3> QED BY <3>3, <3>4 DEF e
  <2> QED BY <2>4, <2>5, <2>6
<1>3. CASE ~(k # 0 /\ n = p[2] + 1)
  <2>1. Extended(q, n) = Append(q, one)
    BY <1>3 DEF Extended
  <2> HIDE DEF one
  <2>2. Append(q, one) \in Seq(Run)
    BY <1>1
  <2>3. Spans(Append(q, one)) = Spans(q) \cup {n}
    BY <1>1, AppendedRange DEF Spans
  <2> QED BY <2>1, <2>2, <2>3
<1> QED BY <1>2, <1>3

(* The recursion that finds the runs has a solution.                        *)
LEMMA RunsDef ==
    ASSUME NEW s \in Seq(Number)
    PROVE  /\ RunsTo(s)[0] = <<>>
           /\ \A n \in 1..Len(s) : RunsTo(s)[n] = Extended(RunsTo(s)[n - 1], s[n])
<1> DEFINE N == Len(s)
           B(g, n) == IF n = 0 THEN <<>> ELSE Extended(g[n - 1], s[n])
           V == Seq(Run)
           b == <<>>
           f == [n \in 1..N |-> [q \in V |-> Extended(q, s[n])]]
<1>1. N \in Nat /\ b \in V /\ f \in StepsOver(N, V)
  <2>1. \A n \in 1..N : s[n] \in Number
    OBVIOUS
  <2>2. \A q \in V, n \in 1..N : Extended(q, s[n]) \in V
    BY <2>1, ExtendedRuns
  <2>3. N \in Nat /\ b \in V
    OBVIOUS
  <2> HIDE DEF V
  <2> QED BY <2>2, <2>3 DEF StepsOver
<1>2. PICK g : CourseOf(N, V, b, f, g)
  <2> HIDE DEF N, V, b, f
  <2> QED BY <1>1, Course
<1>3. ASSUME NEW n \in 0..N PROVE g[n] = B(g, n)
  <2>1. CASE n = 0
    BY <1>2, <2>1 DEF CourseOf
  <2>2. CASE n # 0
    <3>1. n \in 1..N /\ g[n - 1] \in V
      <4> HIDE DEF N, V, b, f, B
      <4>1. n \in 1..N /\ n - 1 \in 0..N
        BY <1>1, <2>2
      <4>2. g \in [0..N -> V]
        BY <1>2 DEF CourseOf
      <4> QED BY <4>1, <4>2
    <3> QED BY <1>2, <2>2, <3>1 DEF CourseOf
  <2> QED BY <2>1, <2>2
<1>4. g = [n \in 0..N |-> B(g, n)]
  <2> HIDE DEF B
  <2> QED BY <1>2, <1>3 DEF CourseOf
<1>5. RunsTo(s) = CHOOSE h : h = [n \in 0..N |-> B(h, n)]
  BY DEF RunsTo
<1>6. RunsTo(s) = [n \in 0..N |-> B(RunsTo(s), n)]
  <2> HIDE DEF B, N
  <2> QED BY <1>4, <1>5
<1>7. \A n \in 0..N : RunsTo(s)[n] = B(RunsTo(s), n)
  <2> HIDE DEF B, N
  <2> QED BY <1>6
<1> QED BY <1>1, <1>7

(* The runs of a list hold its numbers and no other.                        *)
LEMMA RunsFacts ==
    ASSUME NEW s \in Seq(Number)
    PROVE  Runs(s) \in Seq(Run) /\ Spans(Runs(s)) = Range(s)
<1> DEFINE N == Len(s)
           R == RunsTo(s)
           Right(n) == R[n] \in Seq(Run) /\ Spans(R[n]) = FirstOf(s, n)
           S == {n \in 0..N : Right(n)}
<1>1. N \in Nat
  OBVIOUS
<1>2. Right(0)
  <2>1. R[0] = <<>>
    BY RunsDef
  <2>2. <<>> \in Seq(Run) /\ Spans(<<>>) = {}
    BY EmptyRange DEF Spans
  <2> QED BY <2>1, <2>2, FirstFacts
<1>3. ASSUME NEW n \in 1..N, Right(n - 1) PROVE Right(n)
  <2> DEFINE q == R[n - 1]
  <2>1. R[n] = Extended(q, s[n])
    BY RunsDef
  <2>2. /\ FirstOf(s, n) = FirstOf(s, n - 1) \cup {s[n]} /\ s[n] \in Number
    BY FirstFacts
  <2>3. q \in Seq(Run) /\ Spans(q) = FirstOf(s, n - 1)
    BY <1>3
  <2> HIDE DEF q, R
  <2> QED BY <2>1, <2>2, <2>3, ExtendedRuns
<1>4. 0 \in S /\ \A n \in 1..N : n - 1 \in S => n \in S
  <2> HIDE DEF Right
  <2> QED BY <1>1, <1>2, <1>3
<1>5. N \in S
  <2> HIDE DEF S
  <2>1. \A n \in 0..N : n \in S
    BY <1>1, <1>4, UpTo
  <2> QED BY <1>1, <2>1
<1> QED BY <1>5, FirstFacts DEF Runs

-----------------------------------------------------------------------------

(* The lists. *)
Lists == [Types -> Seq(Number)]
Extra(t) == IF t = "delivered" THEN {ReparentNotify} ELSE {}

(* Sorting a list leaves what is in it.                                     *)
LEMMA SortedFacts ==
    ASSUME NEW l \in Lists
    PROVE  /\ Sorted(l) \in Lists
           /\ \A t \in Types : Range(Sorted(l)[t]) = Range(l[t])
<1> DEFINE all == [i \in Number |-> i]
<1>1. all \in Seq(Number) /\ Range(all) = Number
  BY NumberAssumption DEF Number, Range
<1> HIDE DEF all
<1>2. ASSUME NEW t \in Types
      PROVE  /\ Kept(all, Range(l[t])) \in Seq(Number)
             /\ Range(Kept(all, Range(l[t]))) = Range(l[t])
  <2>1. l[t] \in Seq(Number)
    BY DEF Lists
  <2>2. Range(l[t]) \subseteq Number
    BY <2>1 DEF Range
  <2> DEFINE set == Range(l[t])
             k == Kept(all, set)
  <2>3. k \in Seq(Number) /\ Range(k) = Range(all) \cap set
    BY <1>1, KeptFacts
  <2> QED BY <1>1, <2>2, <2>3
<1>3. Sorted(l) = [t \in Types |-> Kept(all, Range(l[t]))]
  BY DEF Sorted, all
<1> QED BY <1>2, <1>3 DEF Lists

(* A number more is in the list of its type.                                *)
Longer(l, t, n, k) ==
    /\ k \in Lists
    /\ \A u \in Types : Range(k[u]) = Range(l[u]) \cup (IF u = t THEN {n} ELSE {})
LEMMA AddToListFacts ==
    ASSUME NEW l \in Lists, NEW t \in Types, NEW n \in Number
    PROVE  Longer(l, t, n, AddToList(l, t, n))
<1> USE DEF Longer
<1>1. Class(t, n) = t /\ l[t] \in Seq(Number)
  BY DEF Class, Types, Lists
<1>2. CASE n \in Range(l[t])
  BY <1>1, <1>2 DEF AddToList
<1>3. CASE n \notin Range(l[t])
  <2> DEFINE a == Append(l[t], n)
  <2>1. a \in Seq(Number) /\ Range(a) = Range(l[t]) \cup {n}
    BY <1>1, AppendedRange
  <2>2. AddToList(l, t, n) = [l EXCEPT ![t] = a]
    BY <1>1, <1>3 DEF AddToList
  <2> HIDE DEF a
  <2> QED BY <2>1, <2>2 DEF Lists
<1> QED BY <1>2, <1>3

(* A number that is removed is not in the list.                             *)
Shorter(l, t, n, k) ==
    /\ k \in Lists
    /\ \A u \in Types : Range(k[u]) = Range(l[u]) \ (IF u = t THEN {n} ELSE {})
LEMMA RemFromListFacts ==
    ASSUME NEW l \in Lists, NEW t \in Types, NEW n
    PROVE  Shorter(l, t, n, RemFromList(l, t, n))
<1> DEFINE k == Kept(l[t], Number \ {n})
<1>1. l[t] \in Seq(Number)
  BY DEF Lists
<1>2. Range(l[t]) \subseteq Number
  BY <1>1 DEF Range
<1>3. k \in Seq(Number) /\ Range(k) = Range(l[t]) \ {n}
  BY <1>1, <1>2, KeptFacts
<1>4. RemFromList(l, t, n) = [l EXCEPT ![t] = k]
  BY DEF RemFromList
<1> HIDE DEF k
<1>5. Shorter(l, t, n, [l EXCEPT ![t] = k])
  BY <1>3 DEF Lists, Shorter
<1> QED BY <1>4, <1>5

(* An entry adds its numbers, each to the list of its class.                *)
LEMMA NumbersFacts ==
    ASSUME NEW e \in Entries
    PROVE  Numbers(e) \in Seq(Number)
<1> USE NumberAssumption DEF Number
<1>1. e.start \in Number /\ e.stop \in Number \cup {0}
  BY EntriesAssumption
<1>2. CASE e.start < e.stop
  <2>1. \A i \in 1..(e.stop - e.start + 1) : e.start + i - 1 \in Number
    BY <1>1, <1>2
  <2>2. e.stop - e.start + 1 \in Nat
    BY <1>1, <1>2
  <2>3. Numbers(e) = [i \in 1..(e.stop - e.start + 1) |-> e.start + i - 1]
    BY <1>2 DEF Numbers
  <2> QED BY <2>1, <2>2, <2>3
<1>3. CASE ~(e.start < e.stop)
  <2>1. Numbers(e) = <<e.start>>
    BY <1>3 DEF Numbers
  <2> QED BY <1>1, <2>1
<1> QED BY <1>2, <1>3

New(e, t) == {n \in Range(Numbers(e)) : Class(e.type, n) = t}
LEMMA AddRangeStrFacts ==
    ASSUME NEW l \in Lists, NEW e \in Entries
    PROVE  /\ AddRangeStr(l, e) \in Lists
           /\ \A t \in Types : Range(AddRangeStr(l, e)[t]) =
                Range(l[t]) \cup New(e, t)
<1>1. ASSUME NEW t \in Types
      PROVE  /\ AddRangeStr(l, e)[t] \in Seq(Number)
             /\ Range(AddRangeStr(l, e)[t]) =
                  Range(l[t]) \cup New(e, t)
  <2> DEFINE set == {n \in Number \ Range(l[t]) : Class(e.type, n) = t}
             k == Kept(Numbers(e), set)
  <2>1. l[t] \in Seq(Number)
    BY DEF Lists
  <2>2. k \in Seq(Number) /\ Range(k) = Range(Numbers(e)) \cap set
    BY NumbersFacts, KeptFacts
  <2>3. AddRangeStr(l, e)[t] = l[t] \o k
    BY DEF AddRangeStr
  <2>4. Range(Numbers(e)) \subseteq Number
    BY NumbersFacts DEF Range
  <2> HIDE DEF k
  <2>5. l[t] \o k \in Seq(Number) /\ Range(l[t] \o k) = Range(l[t]) \cup Range(k)
    BY <2>1, <2>2, ConcatRange
  <2> QED BY <2>2, <2>3, <2>4, <2>5 DEF New
<1>2. AddRangeStr(l, e) = [t \in Types |-> AddRangeStr(l, e)[t]]
  BY DEF AddRangeStr
<1> QED BY <1>1, <1>2 DEF Lists

(* What the lists are when the ranges are made: what they were, and         *)
(* ReparentNotify at most.                                                  *)
LEMMA MadeLists ==
    ASSUME NEW l \in Lists, NEW act \in BOOLEAN, NEW m,
           added_reparent \in BOOLEAN, SetRanges(l, act, m)
    PROVE  /\ list' \in Lists
           /\ \A t \in Types : /\ Range(l[t]) \subseteq Range(list'[t])
                              /\ Range(list'[t]) \subseteq Range(l[t]) \cup Extra(t)
           /\ active' = act /\ added_reparent' \in BOOLEAN
           /\ setup' = WithRanges(setup, act, list')
           /\ calls' = calls + 1
<1> DEFINE s == Sorted(l)
           u == Undone(s)
           w == Workaround(u, act)
<1>1. s \in Lists /\ \A t \in Types : Range(s[t]) = Range(l[t])
  BY SortedFacts
<1>2. "delivered" \in Types /\ ReparentNotify \in Number
  BY NumberAssumption DEF Types
<1>3. CASE m = "replayer"
  <2>1. /\ list' = w.list /\ active' = w.active /\ added_reparent' = w.added
        /\ setup' = WithRanges(setup, w.active, w.list) /\ calls' = calls + 1
    BY <1>3 DEF SetRanges
  <2> HIDE DEF s
  <2>2. u \in Lists /\ \A t \in Types : /\ Range(s[t]) \ Extra(t) \subseteq Range(u[t])
                                       /\ Range(u[t]) \subseteq Range(s[t])
    <3>1. CASE added_reparent
      <4>1. u = RemFromList(s, "delivered", ReparentNotify)
        BY <3>1 DEF Undone
      <4> QED BY <1>1, <1>2, <4>1, RemFromListFacts DEF Extra, Shorter
    <3>2. CASE ~added_reparent
      BY <1>1, <3>2 DEF Undone
    <3> QED BY <3>1, <3>2
  <2> HIDE DEF u
  <2>3. /\ w.list \in Lists /\ w.active = act /\ w.added \in BOOLEAN
        /\ \A t \in Types : Range(w.list[t]) = Range(u[t]) \cup Extra(t)
    <3>1. CASE ReparentNotify \in Range(u["delivered"])
      <4>1. w.list = u /\ w.active = act /\ w.added = FALSE
        BY <3>1 DEF Workaround
      <4> QED BY <2>2, <3>1, <4>1 DEF Extra
    <3>2. CASE ReparentNotify \notin Range(u["delivered"])
      <4>1. /\ w.list = AddToList(u, "delivered", ReparentNotify)
            /\ w.active = act /\ w.added = TRUE
        BY <3>2 DEF Workaround
      <4>2. Longer(u, "delivered", ReparentNotify, w.list)
        BY <1>2, <2>2, <4>1, AddToListFacts
      <4> QED BY <4>1, <4>2 DEF Extra, Longer
    <3> QED BY <3>1, <3>2
  <2> HIDE DEF w
  <2> QED BY <1>1, <2>1, <2>2, <2>3
<1>4. CASE m # "replayer"
  <2>1. /\ list' = s /\ active' = act /\ added_reparent' = added_reparent
        /\ setup' = WithRanges(setup, act, s) /\ calls' = calls + 1
    BY <1>4 DEF SetRanges
  <2> QED BY <1>1, <2>1
<1> QED BY <1>3, <1>4

-----------------------------------------------------------------------------

(* The lists are lists, and what is wanted are sets of numbers.             *)
ListsOK ==
    /\ list \in Lists /\ active \in BOOLEAN /\ added_reparent \in BOOLEAN
    /\ wanted \in [Types -> SUBSET Number] /\ ever \in [Types -> SUBSET Number]
    /\ \A t \in Types : wanted[t] \subseteq ever[t]
ListInv == ListsOK /\ ListIsWanted

(* What an entry wants is what it adds.                                     *)
LEMMA WantsFacts ==
    ASSUME NEW w \in [Types -> SUBSET Number], NEW e \in Entries
    PROVE  /\ Wants(w, e) \in [Types -> SUBSET Number]
           /\ \A t \in Types : Wants(w, e)[t] =
                w[t] \cup New(e, t)
  BY NumbersFacts DEF Wants, Range, New

(* Fresh data: nothing is in the lists, and nothing is wanted.              *)
LEMMA EmptyLists ==
    /\ EmptyList \in Lists /\ \A t \in Types : Range(EmptyList[t]) = {}
    /\ WantsNothing \in [Types -> SUBSET Number]
    /\ \A t \in Types : WantsNothing[t] = {}
  BY EmptyRange DEF EmptyList, Lists, WantsNothing

(* The lists hold what the user added and did not exclude, whatever sorting *)
(* and workarounds come between, and besides at most ReparentNotify.        *)
LEMMA ListStep ==
    ASSUME ListInv, RangesNext
    PROVE  ListInv'
<1> USE DEF ListInv, ListsOK
<1>1. ASSUME NEW e \in Entries, Add(e) PROVE ListInv'
  <2>1. /\ list' = AddRangeStr(list, e) /\ active' = TRUE
        /\ wanted' = Wants(wanted, e) /\ ever' = Wants(ever, e)
        /\ added_reparent' = added_reparent
    BY <1>1 DEF Add
  <2>2. list' \in Lists /\ \A t \in Types : Range(list'[t]) =
          Range(list[t]) \cup New(e, t)
    BY <2>1, AddRangeStrFacts
  <2>3. wanted' \in [Types -> SUBSET Number] /\ \A t \in Types : wanted'[t] =
          wanted[t] \cup New(e, t)
    BY <2>1, WantsFacts
  <2>4. ever' \in [Types -> SUBSET Number] /\ \A t \in Types : ever'[t] =
          ever[t] \cup New(e, t)
    BY <2>1, WantsFacts
  <2> QED BY <2>1, <2>2, <2>3, <2>4 DEF ListIsWanted
<1>2. ASSUME NEW e \in Entries, OpenProject(e) PROVE ListInv'
  <2>1. /\ list' = AddRangeStr(EmptyList, e) /\ active' = TRUE
        /\ wanted' = Wants(WantsNothing, e) /\ ever' = Wants(ever, e)
        /\ added_reparent' = added_reparent
    BY <1>2 DEF OpenProject
  <2>2. EmptyList \in Lists /\ WantsNothing \in [Types -> SUBSET Number]
    BY EmptyLists
  <2>3. list' \in Lists /\ \A t \in Types : Range(list'[t]) =
          Range(EmptyList[t]) \cup New(e, t)
    BY <2>1, <2>2, AddRangeStrFacts
  <2>4. wanted' \in [Types -> SUBSET Number] /\ \A t \in Types : wanted'[t] =
          WantsNothing[t] \cup New(e, t)
    BY <2>1, <2>2, WantsFacts
  <2>5. ever' \in [Types -> SUBSET Number] /\ \A t \in Types : ever'[t] =
          ever[t] \cup New(e, t)
    BY <2>1, WantsFacts
  <2>6. \A t \in Types : Range(EmptyList[t]) = {} /\ WantsNothing[t] = {}
    BY EmptyLists
  <2>7. \A t \in Types : /\ wanted'[t] \subseteq Range(list'[t])
                       /\ Range(list'[t]) \subseteq wanted'[t]
                       /\ wanted'[t] \subseteq ever'[t]
    BY <2>3, <2>4, <2>5, <2>6
  <2>8. ListsOK'
    BY <2>1, <2>3, <2>4, <2>5, <2>7
  <2>9. ListIsWanted'
    BY <2>7 DEF ListIsWanted
  <2> QED BY <2>8, <2>9
<1>3. ASSUME NEW d \in Excludes, Exclude(d) PROVE ListInv'
  <2>1. /\ list' = RemFromList(list, d.type, d.nr)
        /\ wanted' = [wanted EXCEPT ![d.type] = @ \ {d.nr}]
        /\ UNCHANGED <<active, ever, added_reparent>>
    BY <1>3 DEF Exclude
  <2>2. d.type \in Types
    BY ExcludesAssumption
  <2>3. \A t \in Types : wanted'[t] = wanted[t] \ (IF t = d.type THEN {d.nr} ELSE {})
    BY <2>1, <2>2
  <2>4. list' \in Lists /\ \A t \in Types :
          Range(list'[t]) = Range(list[t]) \ (IF t = d.type THEN {d.nr} ELSE {})
    <3>1. Shorter(list, d.type, d.nr, list')
      BY <2>1, <2>2, RemFromListFacts
    <3> QED BY <3>1 DEF Shorter
  <2>5. ListsOK'
    BY <2>1, <2>3, <2>4
  <2>6. ListIsWanted'
    BY <2>3, <2>4 DEF ListIsWanted
  <2> QED BY <2>5, <2>6
<1>4. ASSUME NEW l \in Lists, NEW act \in BOOLEAN, NEW m, SetRanges(l, act, m),
             \A t \in Types : /\ Range(list[t]) \subseteq Range(l[t])
                             /\ Range(l[t]) \subseteq Range(list[t]) \cup Extra(t),
             UNCHANGED <<wanted, ever>>
      PROVE  ListInv'
  BY <1>4, MadeLists DEF ListIsWanted, Extra
<1>5. CASE Save
  BY <1>4, <1>5 DEF Save
<1>6. CASE StartReplay
  BY <1>4, <1>6 DEF StartReplay
<1>7. CASE StartRecord
  <2> DEFINE l == AddToList(list, "delivered", ReparentNotify)
  <2>1. SetRanges(l, TRUE, "recorder") /\ UNCHANGED <<wanted, ever>>
    BY <1>7 DEF StartRecord
  <2>2. "delivered" \in Types /\ ReparentNotify \in Number
    BY NumberAssumption DEF Types
  <2>4. Longer(list, "delivered", ReparentNotify, l)
    BY <2>2, AddToListFacts
  <2> HIDE DEF l
  <2>3. /\ l \in Lists
        /\ \A t \in Types : /\ Range(list[t]) \subseteq Range(l[t])
                           /\ Range(l[t]) \subseteq Range(list[t]) \cup Extra(t)
    BY <2>4 DEF Extra, Longer
  <2> QED BY <1>4, <2>1, <2>3
<1>8. CASE EndSession
  BY <1>8, EmptyLists DEF EndSession, ListIsWanted
<1>9. CASE FailSession
  BY <1>9 DEF FailSession, ListIsWanted
<1> QED BY <1>1, <1>2, <1>3, <1>5, <1>6, <1>7, <1>8, <1>9 DEF RangesNext

(* The lists hold what the user added and did not exclude, whatever sorting *)
(* and workarounds come between, and besides at most ReparentNotify.        *)
THEOREM ListsAreWanted == RangesSpec => []ListIsWanted
<1>1. RangesInit => ListInv
  BY EmptyLists DEF RangesInit, ListInv, ListsOK, ListIsWanted
<1>2. ListInv /\ UNCHANGED rangesVars => ListInv'
  BY DEF ListInv, ListsOK, ListIsWanted, rangesVars
<1>3. ListInv => ListIsWanted
  BY DEF ListInv
<1> QED BY <1>1, <1>2, <1>3, ListStep, PTL DEF RangesSpec

-----------------------------------------------------------------------------

(* The setup: counts, and an array of slots on some of the indices. *)
Pairs == Nat \X Nat
Slots == [Types -> Pairs]
Arrays == UNION {[D -> Slots] : D \in SUBSET Nat}
Setups == [count : [Types -> Nat], slots : Arrays, known : BOOLEAN]

(* What an array of slots is.                                               *)
LEMMA ArrayFacts ==
    /\ \A s \in Arrays : /\ DOMAIN s \subseteq Nat
                        /\ s = [i \in DOMAIN s |-> s[i]]
                        /\ \A i \in DOMAIN s : s[i] \in Slots
    /\ \A D \in SUBSET Nat : \A s \in [D -> Slots] : s \in Arrays
  BY DEF Arrays

(* A field that is written, if its slot is there.                           *)
IsPut(s, n, t, r, p) ==
    /\ p \in Arrays /\ DOMAIN p = DOMAIN s
    /\ \A i \in DOMAIN s : \A u \in Types :
         p[i][u] = IF i = n /\ u = t THEN r ELSE s[i][u]
LEMMA PutFacts ==
    ASSUME NEW s \in Arrays, NEW n, NEW t \in Types, NEW r \in Pairs
    PROVE  IsPut(s, n, t, r, Put(s, n, t, r))
<1> DEFINE D == DOMAIN s
<1>1. D \in SUBSET Nat /\ s = [i \in D |-> s[i]] /\ \A i \in D : s[i] \in Slots
  BY ArrayFacts
<1>2. CASE n \in D
  <2> DEFINE v == [s[n] EXCEPT ![t] = r]
             p == [s EXCEPT ![n] = v]
  <2>1. Put(s, n, t, r) = p
    BY <1>2 DEF Put
  <2>2. v \in Slots /\ \A u \in Types : v[u] = IF u = t THEN r ELSE s[n][u]
    BY <1>1, <1>2 DEF Slots
  <2> HIDE DEF v, D
  <2>3. p = [i \in D |-> IF i = n THEN v ELSE s[i]]
    BY <1>1, <1>2
  <2>4. p \in [D -> Slots]
    BY <1>1, <2>2, <2>3
  <2>5. p \in Arrays
    BY <1>1, <2>4, ArrayFacts
  <2>6. \A i \in D : p[i] = IF i = n THEN v ELSE s[i]
    BY <2>3
  <2> HIDE DEF p
  <2> QED BY <2>1, <2>2, <2>4, <2>5, <2>6 DEF IsPut, D
<1>3. CASE n \notin D
  BY <1>3 DEF Put, IsPut
<1> QED BY <1>2, <1>3

(* A slot that is allocated has nothing in it; others are as they were, or  *)
(* gone.                                                                    *)
IsAllocated(x, act, n, a) ==
    /\ a \in Arrays
    /\ ~NeedsSlot(x, act, n) => a = x.slots
    /\ NeedsSlot(x, act, n) =>
         /\ DOMAIN a = {n} \cup (IF n = 0 THEN {} ELSE DOMAIN x.slots)
         /\ a[n] = NullRange
         /\ \A i \in DOMAIN a : i # n => a[i] = x.slots[i]
LEMMA AllocatedFacts ==
    ASSUME NEW x \in Setups, NEW act, NEW n \in Nat
    PROVE  IsAllocated(x, act, n, Allocated(x, act, n))
<1> DEFINE s == x.slots
           D == {n} \cup (IF n = 0 THEN {} ELSE DOMAIN s)
           a == [i \in D |-> IF i = n THEN NullRange ELSE s[i]]
<1>1. s \in Arrays
  BY DEF Setups
<1>2. D \in SUBSET Nat /\ \A i \in D : i # n => s[i] \in Slots
  BY <1>1, ArrayFacts
<1>3. NullRange \in Slots
  BY DEF NullRange, Slots, Unset, Pairs
<1>4. a \in [D -> Slots] /\ DOMAIN a = D /\ a[n] = NullRange
      /\ \A i \in D : i # n => a[i] = s[i]
  <2> HIDE DEF s
  <2>1. n \in D
    OBVIOUS
  <2> HIDE DEF D
  <2> QED BY <1>2, <1>3, <2>1
<1>5. a \in Arrays
  <2> HIDE DEF D, a
  <2> QED BY <1>2, <1>4, ArrayFacts
<1>6. Allocated(x, act, n) = IF ~NeedsSlot(x, act, n) THEN s ELSE a
  BY DEF Allocated
<1> HIDE DEF a
<1> QED BY <1>1, <1>4, <1>5, <1>6 DEF IsAllocated

(* The pieces leave a setup a setup.                                        *)
LEMMA SlottedFacts ==
    ASSUME NEW x \in Setups, NEW act, NEW n \in Nat
    PROVE  /\ Slotted(x, act, n) \in Setups
           /\ Slotted(x, act, n).count = x.count
           /\ Slotted(x, act, n).known = x.known
           /\ IsAllocated(x, act, n, Slotted(x, act, n).slots)
<1>1. IsAllocated(x, act, n, Allocated(x, act, n)) /\ Allocated(x, act, n) \in Arrays
  BY AllocatedFacts DEF IsAllocated
<1> QED BY <1>1 DEF Slotted, Setups

(* ... a field that is written...                                           *)
LEMMA WrittenFacts ==
    ASSUME NEW x \in Setups, NEW n \in Nat, NEW t \in Types, NEW r \in Pairs
    PROVE  /\ Written(x, n, t, r) \in Setups
           /\ Written(x, n, t, r).count = x.count
           /\ Written(x, n, t, r).known = x.known
           /\ IsPut(x.slots, n, t, r, Written(x, n, t, r).slots)
<1>1. x.slots \in Arrays
  BY DEF Setups
<1>2. IsPut(x.slots, n, t, r, Put(x.slots, n, t, r))
      /\ Put(x.slots, n, t, r) \in Arrays
  BY <1>1, PutFacts DEF IsPut
<1> QED BY <1>2 DEF Written, Setups

(* ... a range that is counted...                                           *)
LEMMA CountedFacts ==
    ASSUME NEW x \in Setups, NEW t \in Types
    PROVE  /\ Counted(x, t) \in Setups
           /\ Counted(x, t).slots = x.slots
           /\ Counted(x, t).known = x.known
           /\ \A u \in Types : Counted(x, t).count[u] =
                               IF u = t THEN x.count[u] + 1 ELSE x.count[u]
  BY DEF Counted, Setups

(* ... and the vendor that is asked for.                                    *)
LEMMA KnownFacts ==
    ASSUME NEW x \in Setups
    PROVE  Known(x) \in Setups /\ Known(x).slots = x.slots /\ Known(x).count = x.count
  BY DEF Known, Setups

-----------------------------------------------------------------------------

(* What is in the slots. *)
Bounded(B, x) ==
    \A i \in DOMAIN x.slots : \A u \in Types : Span(x.slots[i][u]) \subseteq B[u]
Grown(x, y) == \A u \in Types : x.count[u] <= y.count[u]
NoneIn(B) == \A u \in Types : 0 \in B[u]

(* A piece that puts a range in bounds leaves the slots in bounds.          *)
LEMMA SlottedBounded ==
    ASSUME NEW B, NoneIn(B), NEW x \in Setups, Bounded(B, x), NEW act, NEW n \in Nat
    PROVE  Bounded(B, Slotted(x, act, n))
<1> DEFINE a == Slotted(x, act, n).slots
<1>1. IsAllocated(x, act, n, a)
  BY SlottedFacts
<1>2. \A u \in Types : Span(NullRange[u]) \subseteq B[u]
  BY DEF NullRange, Unset, Span, NoneIn
<1>3. CASE ~NeedsSlot(x, act, n)
  BY <1>1, <1>3 DEF IsAllocated, Bounded
<1>4. CASE NeedsSlot(x, act, n)
  <2> HIDE DEF a
  <2>1. /\ a[n] = NullRange
        /\ \A i \in DOMAIN a : i # n => i \in DOMAIN x.slots /\ a[i] = x.slots[i]
    BY <1>1, <1>4 DEF IsAllocated
  <2>2. \A i \in DOMAIN a : \A u \in Types : Span(a[i][u]) \subseteq B[u]
    BY <1>2, <2>1 DEF Bounded
  <2> QED BY <2>2 DEF Bounded, a
<1> QED BY <1>3, <1>4

(* ... a range that is written in bounds...                                 *)
LEMMA WrittenBounded ==
    ASSUME NEW B, NEW x \in Setups, Bounded(B, x),
           NEW n \in Nat, NEW t \in Types, NEW r \in Pairs, Span(r) \subseteq B[t]
    PROVE  Bounded(B, Written(x, n, t, r))
<1> DEFINE p == Written(x, n, t, r).slots
<1>1. IsPut(x.slots, n, t, r, p)
  BY WrittenFacts
<1> HIDE DEF p
<1>2. \A i \in DOMAIN p : \A u \in Types : Span(p[i][u]) \subseteq B[u]
  BY <1>1 DEF IsPut, Bounded
<1> QED BY <1>2 DEF Bounded, p

(* ... one that is counted...                                               *)
LEMMA CountedBounded ==
    ASSUME NEW B, NEW x \in Setups, Bounded(B, x), NEW t \in Types
    PROVE  Bounded(B, Counted(x, t))
  BY CountedFacts DEF Bounded

(* ... and the vendor that is asked for.                                    *)
LEMMA KnownBounded ==
    ASSUME NEW B, NEW x \in Setups, Bounded(B, x)
    PROVE  Bounded(B, Known(x))
  BY KnownFacts DEF Bounded

(* What xnee_add_range may add for a range r of type t is in bounds.        *)
Allows(B, t, r) ==
    /\ NoneIn(B) /\ Span(r) \subseteq B[t]
    /\ t = "error" => ClientMessage \in B["delivered"]
    /\ t = "device" /\ server = "as_delivered" => Span(r) \subseteq B["delivered"]
    /\ server = "dangerous" => BadCursor \in B["error"]
More(B, t, x, y) ==
    /\ y \in Setups /\ Bounded(B, y) /\ Grown(x, y)
    /\ x.count[t] + 1 <= y.count[t]

(* A range of a request, and what is common to the others.                  *)
LEMMA PlainBounded ==
    ASSUME NEW x \in Setups, NEW act, NEW t \in Types, NEW r \in Pairs,
           NEW B, NoneIn(B), Bounded(B, x), Span(r) \subseteq B[t]
    PROVE  More(B, t, x, AddPlain(x, act, t, r))
<1> DEFINE n == x.count[t]
           v == Slotted(x, act, n)
           w == Written(v, n, t, r)
           y == Counted(w, t)
<1>1. n \in Nat /\ x.count \in [Types -> Nat]
  BY DEF Setups
<1>2. v \in Setups /\ v.count = x.count /\ Bounded(B, v)
  <2> HIDE DEF n
  <2> QED BY <1>1, SlottedFacts, SlottedBounded
<1>3. w \in Setups /\ w.count = x.count /\ Bounded(B, w)
  <2> HIDE DEF n, v
  <2> QED BY <1>1, <1>2, WrittenFacts, WrittenBounded
<1>4. y \in Setups /\ Bounded(B, y)
      /\ \A u \in Types : y.count[u] = IF u = t THEN x.count[u] + 1 ELSE x.count[u]
  <2> HIDE DEF n, v, w
  <2> QED BY <1>1, <1>3, CountedFacts, CountedBounded
<1>5. AddPlain(x, act, t, r) = y
  BY DEF AddPlain
<1> HIDE DEF n, v, w, y
<1> QED BY <1>1, <1>4, <1>5 DEF More, Grown

(* Nor does any piece that follows.                                         *)
LEMMA CountedMore ==
    ASSUME NEW B, NEW t \in Types, NEW x \in Setups, NEW y, More(B, t, x, y),
           NEW u \in Types
    PROVE  More(B, t, x, Counted(y, u))
<1>1. y \in Setups /\ Bounded(B, y) /\ Grown(x, y) /\ x.count[t] + 1 <= y.count[t]
      /\ x.count \in [Types -> Nat] /\ y.count \in [Types -> Nat]
  BY DEF More, Setups
<1>2. Counted(y, u) \in Setups /\ Bounded(B, Counted(y, u))
      /\ \A v \in Types : Counted(y, u).count[v] =
                            IF v = u THEN y.count[v] + 1 ELSE y.count[v]
  BY <1>1, CountedFacts, CountedBounded
<1>3. \A v \in Types : y.count[v] <= Counted(y, u).count[v]
                       /\ Counted(y, u).count[v] \in Nat
  BY <1>1, <1>2
<1> QED BY <1>1, <1>2, <1>3 DEF More, Grown

(* Asking for the vendor adds nothing.                                      *)
LEMMA KnownMore ==
    ASSUME NEW B, NEW t \in Types, NEW x \in Setups, NEW y, More(B, t, x, y)
    PROVE  More(B, t, x, Known(y))
  BY KnownFacts, KnownBounded DEF More, Grown

(* A second range may come with the first.                                  *)
LEMMA WrittenMore ==
    ASSUME NEW B, NEW t \in Types, NEW x \in Setups, NEW y, More(B, t, x, y),
           NEW u \in Types, NEW n \in Nat, NEW r \in Pairs, Span(r) \subseteq B[u]
    PROVE  More(B, t, x, Counted(Written(y, n, u, r), u))
<1>1. More(B, t, x, Written(y, n, u, r))
  BY WrittenFacts, WrittenBounded DEF More, Grown
<1> QED BY <1>1, CountedMore

(* All of xnee_add_range keeps to bounds that allow its range.              *)
LEMMA AddRangeBounded ==
    ASSUME NEW x \in Setups, NEW act, NEW t \in Types, NEW r \in Pairs,
           NEW B, Bounded(B, x), Allows(B, t, r)
    PROVE  More(B, t, x, AddRange(x, act, t, r))
<1> DEFINE cursor == <<BadCursor, BadCursor>>
           message == <<ClientMessage, ClientMessage>>
<1>1. /\ NoneIn(B) /\ Span(r) \subseteq B[t]
      /\ {"error", "delivered", "device"} \subseteq Types
      /\ cursor \in Pairs /\ Span(cursor) = {BadCursor}
      /\ message \in Pairs /\ Span(message) = {ClientMessage}
  BY DEF Allows, Types, Pairs, Span, BadCursor, ClientMessage
<1> HIDE DEF cursor, message
<1>2. ASSUME NEW z \in Setups, Bounded(B, z), Span(r) \subseteq B["delivered"]
      PROVE  More(B, "delivered", z, AddDelivered(z, act, r))
  <2> DEFINE n == z.count["delivered"]
             p == AddPlain(z, act, "delivered", r)
             y == Known(p)
  <2>1. More(B, "delivered", z, p)
    BY <1>1, <1>2, PlainBounded
  <2>2. More(B, "delivered", z, y)
    <3> HIDE DEF p
    <3> QED BY <1>1, <2>1, KnownMore
  <2>3. CASE server # "dangerous"
    BY <2>2, <2>3 DEF AddDelivered
  <2>4. CASE server = "dangerous"
    <3>1. AddDelivered(z, act, r) = Counted(Written(y, n, "error", cursor), "error")
      BY <2>4 DEF AddDelivered, cursor
    <3>2. n \in Nat /\ Span(cursor) \subseteq B["error"]
      BY <1>1, <2>4 DEF Allows, Setups
    <3> HIDE DEF n, y
    <3> QED BY <1>1, <2>2, <3>1, <3>2, WrittenMore
  <2> QED BY <2>3, <2>4
<1>3. CASE t = "delivered"
  BY <1>1, <1>2, <1>3 DEF AddRange
<1>4. CASE t = "error"
  <2> DEFINE n == x.count["error"]
             p == AddPlain(x, act, "error", r)
  <2>1. More(B, t, x, p)
    BY <1>1, <1>4, PlainBounded
  <2>2. AddRange(x, act, t, r) = Counted(Written(p, n, "delivered", message), "delivered")
    BY <1>4 DEF AddRange, AddError, message
  <2>3. n \in Nat /\ Span(message) \subseteq B["delivered"]
    BY <1>1, <1>4 DEF Allows, Setups
  <2> HIDE DEF n, p
  <2> QED BY <1>1, <2>1, <2>2, <2>3, WrittenMore
<1>5. CASE t = "device"
  <2> DEFINE n == x.count["device"]
             v == Slotted(x, act, n)
             y == Written(v, n, "device", r)
  <2>1. n \in Nat
    BY <1>1 DEF Setups
  <2>2. v \in Setups /\ v.count = x.count /\ Bounded(B, v)
    <3> HIDE DEF n
    <3> QED BY <1>1, <1>5, <2>1, SlottedFacts, SlottedBounded
  <2>3. y \in Setups /\ y.count = x.count /\ Bounded(B, y)
    <3> HIDE DEF n, v
    <3> QED BY <1>1, <1>5, <2>1, <2>2, WrittenFacts, WrittenBounded
  <2> HIDE DEF y
  <2>4. ASSUME NEW z \in Setups, Bounded(B, z), Grown(x, z)
        PROVE  More(B, t, x, Counted(z, "device"))
    <3>1. Counted(z, "device") \in Setups /\ Bounded(B, Counted(z, "device"))
          /\ \A u \in Types : Counted(z, "device").count[u] =
               IF u = "device" THEN z.count[u] + 1 ELSE z.count[u]
      BY <1>1, <1>5, <2>4, CountedFacts, CountedBounded
    <3>2. x.count \in [Types -> Nat] /\ z.count \in [Types -> Nat]
      BY DEF Setups
    <3> QED BY <1>1, <1>5, <2>4, <3>1, <3>2 DEF More, Grown
  <2>5. CASE server = "as_delivered" /\ x.known
    <3>1. AddRange(x, act, t, r) = Counted(AddDelivered(y, act, r), "device")
      BY <1>5, <2>5 DEF AddRange, AddDevice, y
    <3>2. More(B, "delivered", y, AddDelivered(y, act, r))
      BY <1>2, <1>5, <2>3, <2>5 DEF Allows
    <3>3. AddDelivered(y, act, r) \in Setups /\ Bounded(B, AddDelivered(y, act, r))
          /\ Grown(x, AddDelivered(y, act, r))
      BY <2>3, <3>2 DEF More, Grown
    <3> QED BY <2>4, <3>1, <3>3
  <2>6. CASE ~(server = "as_delivered" /\ x.known)
    <3>1. AddRange(x, act, t, r) = Counted(y, "device")
      BY <1>5, <2>6 DEF AddRange, AddDevice, y
    <3>2. Grown(x, y)
      BY <2>3 DEF Grown, Setups
    <3> QED BY <2>3, <2>4, <3>1, <3>2
  <2> QED BY <2>5, <2>6
<1>6. CASE t = "request"
  BY <1>1, <1>6, PlainBounded DEF AddRange
<1> QED BY <1>3, <1>4, <1>5, <1>6 DEF Types

(* Without bounds, it is a setup that it leaves.                            *)
Unlimited == [u \in Types |-> Int]
LEMMA AnyBounds ==
    /\ NoneIn(Unlimited) /\ \A x \in Setups : Bounded(Unlimited, x)
    /\ \A t \in Types, r \in Pairs : Allows(Unlimited, t, r)
<1>1. NoneIn(Unlimited)
  BY DEF NoneIn, Unlimited
<1>2. ASSUME NEW x \in Setups PROVE Bounded(Unlimited, x)
  <2>1. x.slots \in Arrays
    BY DEF Setups
  <2>2. ASSUME NEW i \in DOMAIN x.slots, NEW u \in Types
        PROVE  Span(x.slots[i][u]) \subseteq Unlimited[u]
    <3>1. x.slots[i] \in Slots
      BY <2>1, ArrayFacts
    <3>2. x.slots[i][u] \in Pairs
      BY <3>1 DEF Slots
    <3> QED BY <3>2 DEF Pairs, Span, Unlimited
  <2> QED BY <2>2 DEF Bounded
<1>3. ASSUME NEW t \in Types, NEW r \in Pairs PROVE Allows(Unlimited, t, r)
  <2>1. \A u \in Types : Unlimited[u] = Int
    BY DEF Unlimited
  <2>2. Span(r) \subseteq Int
    BY DEF Span, Pairs
  <2>3. "delivered" \in Types /\ "error" \in Types
    BY DEF Types
  <2> QED BY <1>1, <2>1, <2>2, <2>3 DEF Allows, ClientMessage, BadCursor
<1> QED BY <1>1, <1>2, <1>3

(* A run is a pair of numbers.                                              *)
LEMMA RunPairs == Run \subseteq Pairs
  BY NumberAssumption DEF Run, Pairs, Number

(* xnee_add_range leaves a setup.                                           *)
LEMMA AddRangeSetup ==
    ASSUME NEW x \in Setups, NEW act, NEW t \in Types, NEW r \in Pairs
    PROVE  AddRange(x, act, t, r) \in Setups
<1>1. More(Unlimited, t, x, AddRange(x, act, t, r))
  BY AnyBounds, AddRangeBounded
<1> QED BY <1>1 DEF More

(* The recursion over the runs has a solution.                              *)
LEMMA AddedDef ==
    ASSUME NEW x \in Setups, NEW act, NEW t \in Types, NEW runs \in Seq(Run)
    PROVE  LET y == AddedTo(x, act, t, runs)
           IN  /\ y[0] = x
               /\ \A n \in 1..Len(runs) : y[n] = AddRange(y[n - 1], act, t, runs[n])
<1> DEFINE N == Len(runs)
           B(g, n) == IF n = 0 THEN x ELSE AddRange(g[n - 1], act, t, runs[n])
           V == Setups
           f == [n \in 1..N |-> [q \in V |-> AddRange(q, act, t, runs[n])]]
<1>1. N \in Nat /\ f \in StepsOver(N, V)
  <2>1. \A n \in 1..N : runs[n] \in Pairs
    BY RunPairs
  <2>2. \A q \in V, n \in 1..N : AddRange(q, act, t, runs[n]) \in V
    BY <2>1, AddRangeSetup
  <2>3. N \in Nat
    OBVIOUS
  <2> HIDE DEF V
  <2> QED BY <2>2, <2>3 DEF StepsOver
<1>2. PICK g : CourseOf(N, V, x, f, g)
  <2> HIDE DEF N, f
  <2> QED BY <1>1, Course
<1>3. ASSUME NEW n \in 0..N PROVE g[n] = B(g, n)
  <2>1. CASE n = 0
    BY <1>2, <2>1 DEF CourseOf
  <2>2. CASE n # 0
    <3>1. n \in 1..N /\ g[n - 1] \in V
      <4> HIDE DEF N, V, f, B
      <4>1. n \in 1..N /\ n - 1 \in 0..N
        BY <1>1, <2>2
      <4>2. g \in [0..N -> V]
        BY <1>2 DEF CourseOf
      <4> QED BY <4>1, <4>2
    <3> QED BY <1>2, <2>2, <3>1 DEF CourseOf
  <2> QED BY <2>1, <2>2
<1>4. g = [n \in 0..N |-> B(g, n)]
  <2> HIDE DEF B
  <2> QED BY <1>2, <1>3 DEF CourseOf
<1> DEFINE y == AddedTo(x, act, t, runs)
<1>5. y = CHOOSE h : h = [n \in 0..N |-> B(h, n)]
  BY DEF AddedTo
<1>6. y = [n \in 0..N |-> B(y, n)]
  <2> HIDE DEF B, N, y
  <2> QED BY <1>4, <1>5
<1>7. \A n \in 0..N : y[n] = B(y, n)
  <2> HIDE DEF B, N, y
  <2> QED BY <1>6
<1> HIDE DEF y
<1> QED BY <1>1, <1>7 DEF y

(* A set of numbers of one type in bounds. *)
AllowsAll(B, t, set) ==
    /\ NoneIn(B) /\ set \subseteq B[t]
    /\ t = "error" /\ set # {} => ClientMessage \in B["delivered"]
    /\ t = "device" /\ server = "as_delivered" => set \subseteq B["delivered"]
    /\ server = "dangerous" => BadCursor \in B["error"]

(* So does the loop over the runs of a list.                                *)
AllMore(B, t, set, x, y) ==
    /\ y \in Setups /\ Bounded(B, y) /\ Grown(x, y)
    /\ set # {} => x.count[t] + 1 <= y.count[t]
LEMMA AddRunsBounded ==
    ASSUME NEW x \in Setups, NEW act, NEW t \in Types, NEW s \in Seq(Number),
           NEW B, Bounded(B, x), AllowsAll(B, t, Range(s))
    PROVE  AllMore(B, t, Range(s), x, AddRuns(x, act, t, s))
<1> DEFINE runs == Runs(s)
           N == Len(runs)
           y == AddedTo(x, act, t, runs)
           Right(n) == /\ y[n] \in Setups /\ Bounded(B, y[n]) /\ Grown(x, y[n])
                       /\ n # 0 => x.count[t] + 1 <= y[n].count[t]
           S == {n \in 0..N : Right(n)}
<1>1. runs \in Seq(Run) /\ Spans(runs) = Range(s) /\ N \in Nat
  BY RunsFacts
<1> HIDE DEF runs
<1>2. /\ y[0] = x
      /\ \A n \in 1..N : y[n] = AddRange(y[n - 1], act, t, runs[n])
  BY <1>1, AddedDef
<1>3. Right(0)
  <2>1. Grown(x, x)
    BY DEF Grown, Setups
  <2> QED BY <1>2, <2>1
<1> HIDE DEF y
<1>4. ASSUME NEW n \in 1..N, Right(n - 1) PROVE Right(n)
  <2> DEFINE z == y[n - 1]
  <2>1. runs[n] \in Pairs /\ Span(runs[n]) \subseteq Range(s) /\ Range(s) # {}
    <3>1. runs[n] \in Run /\ runs[n] \in Range(runs)
      BY <1>1 DEF Range
    <3>2. Span(runs[n]) # {}
      BY <3>1, NumberAssumption DEF Run, Span, Number
    <3> QED BY <1>1, <3>1, <3>2, RunPairs DEF Spans
  <2>2. Allows(B, t, runs[n])
    BY <2>1 DEF Allows, AllowsAll
  <2>3. z \in Setups /\ Bounded(B, z) /\ Grown(x, z)
    BY <1>4
  <2>4. More(B, t, z, y[n])
    <3> HIDE DEF z
    <3>1. y[n] = AddRange(z, act, t, runs[n])
      BY <1>2 DEF z
    <3> QED BY <2>1, <2>2, <2>3, <3>1, AddRangeBounded
  <2>5. x.count \in [Types -> Nat] /\ z.count \in [Types -> Nat]
        /\ y[n].count \in [Types -> Nat]
    BY <2>3, <2>4 DEF Setups, More
  <2> HIDE DEF z
  <2> QED BY <2>3, <2>4, <2>5 DEF More, Grown
<1>5. 0 \in S /\ \A n \in 1..N : n - 1 \in S => n \in S
  <2> HIDE DEF Right
  <2> QED BY <1>1, <1>3, <1>4
<1>6. N \in S
  <2> HIDE DEF S
  <2>1. \A n \in 0..N : n \in S
    BY <1>1, <1>5, UpTo
  <2> QED BY <1>1, <2>1
<1>7. Range(s) # {} => N # 0
  <2>1. N = 0 => DOMAIN runs = {}
    BY <1>1
  <2>2. N = 0 => Range(runs) = {}
    BY <2>1 DEF Range
  <2> QED BY <1>1, <2>2 DEF Spans
<1>8. AddRuns(x, act, t, s) = y[N]
  BY DEF AddRuns, y, runs
<1> QED BY <1>6, <1>7, <1>8 DEF AllMore

-----------------------------------------------------------------------------

(* Lists in bounds, with what xnee adds to them. *)
AllowsLists(B, l) ==
    /\ NoneIn(B) /\ \A t \in Types : Range(l[t]) \subseteq B[t]
    /\ Range(l["error"]) # {} => ClientMessage \in B["delivered"]
    /\ server = "as_delivered" => Range(l["device"]) \subseteq B["delivered"]
    /\ server = "dangerous" => BadCursor \in B["error"]

(* All of xnee_set_ranges keeps to bounds that allow its lists.             *)
LEMMA WithRangesBounded ==
    ASSUME NEW x \in Setups, NEW act, NEW l \in Lists,
           NEW B, Bounded(B, x), AllowsLists(B, l)
    PROVE  LET y == WithRanges(x, act, l)
           IN  /\ y \in Setups /\ Bounded(B, y) /\ Grown(x, y)
               /\ Range(l["error"]) # {} => y.count["error"] > 0
<1> DEFINE q == AddRuns(x, act, "request", l["request"])
           e == AddRuns(q, act, "error", l["error"])
           d == AddRuns(e, act, "delivered", l["delivered"])
           y == AddRuns(d, act, "device", l["device"])
<1>1. \A t \in Types : l[t] \in Seq(Number) /\ AllowsAll(B, t, Range(l[t]))
  BY DEF Lists, AllowsLists, AllowsAll
<1>2. {"request", "error", "delivered", "device"} \subseteq Types
  BY DEF Types
<1>3. AllMore(B, "request", Range(l["request"]), x, q)
  BY <1>1, <1>2, AddRunsBounded
<1> HIDE DEF q
<1>4. AllMore(B, "error", Range(l["error"]), q, e)
  BY <1>1, <1>2, <1>3, AddRunsBounded DEF AllMore
<1> HIDE DEF e
<1>5. AllMore(B, "delivered", Range(l["delivered"]), e, d)
  BY <1>1, <1>2, <1>4, AddRunsBounded DEF AllMore
<1> HIDE DEF d
<1>6. AllMore(B, "device", Range(l["device"]), d, y)
  BY <1>1, <1>2, <1>5, AddRunsBounded DEF AllMore
<1>7. WithRanges(x, act, l) = y
  BY DEF WithRanges, q, e, d
<1> HIDE DEF y
<1>8. \A u \in Types : /\ x.count[u] \in Nat /\ q.count[u] \in Nat /\ e.count[u] \in Nat
                      /\ d.count[u] \in Nat /\ y.count[u] \in Nat
  BY <1>3, <1>4, <1>5, <1>6 DEF AllMore, Setups
<1>9. Grown(x, y) /\ (Range(l["error"]) # {} => y.count["error"] > 0)
  BY <1>2, <1>3, <1>4, <1>5, <1>6, <1>8 DEF AllMore, Grown
<1> QED BY <1>6, <1>7, <1>9 DEF AllMore

(* The fields of the slots, with what xnee adds to what was asked for.      *)
Asked(b) == [t \in Types |-> b[t] \cup Added(t) \cup {0}]
ToldInv ==
    /\ setup \in Setups /\ calls \in Nat
    /\ Bounded(Asked(ever), setup)
    /\ calls = 0 => DOMAIN setup.slots = {}
    /\ calls = 1 /\ doing # "idle" => Bounded(Asked(wanted), setup)

(* More that is asked for, more that may be told.                           *)
LEMMA BoundedMore ==
    ASSUME NEW B, NEW C, NEW x, Bounded(B, x), \A t \in Types : B[t] \subseteq C[t]
    PROVE  Bounded(C, x)
  BY DEF Bounded

(* Making the ranges of lists in which all was asked for.                   *)
LEMMA MadeTold ==
    ASSUME ToldInv, ListsOK, NEW l \in Lists, NEW act, NEW b,
           \A t \in Types : Range(l[t]) \subseteq b[t] \cup Extra(t),
           \A t \in Types : b[t] \subseteq ever[t],
           setup' = WithRanges(setup, act, l), UNCHANGED <<server, ever>>
    PROVE  /\ setup' \in Setups
           /\ Bounded(Asked(ever)', setup')
           /\ DOMAIN setup.slots = {} =>
                Bounded([t \in Types |-> b[t] \cup Added(t)' \cup {0}], setup')
<1> DEFINE C == [t \in Types |-> b[t] \cup Added(t)' \cup {0}]
           E == Asked(ever)'
<1>1. setup \in Setups /\ Bounded(Unlimited, setup)
  BY AnyBounds DEF ToldInv
<1>2. AllowsLists(Unlimited, l)
  <2>1. \A t \in Types : Unlimited[t] = Int /\ Range(l[t]) \subseteq Int
    BY NumberAssumption DEF Unlimited, Lists, Range, Number
  <2>2. {"error", "delivered", "device"} \subseteq Types
    BY DEF Types
  <2> QED BY <2>1, <2>2, AnyBounds DEF AllowsLists, ClientMessage, BadCursor
<1>3. setup' \in Setups /\ Grown(setup, setup')
      /\ (Range(l["error"]) # {} => setup'.count["error"] > 0)
  BY <1>1, <1>2, WithRangesBounded
<1>4. \A t \in Types : C[t] = b[t] \cup Added(t)' \cup {0} /\ E[t] = ever[t] \cup Added(t)' \cup {0}
  BY DEF Asked
<1>5. \A t \in Types : Added(t) \subseteq Added(t)'
  <2>1. setup.count["error"] \in Nat /\ setup'.count["error"] \in Nat
        /\ setup.count["error"] <= setup'.count["error"]
    BY <1>1, <1>3 DEF Setups, Grown, Types
  <2> QED BY <2>1 DEF Added
<1>6. AllowsLists(C, l) /\ AllowsLists(E, l)
  <2> DEFINE A == [t \in Types |-> Added(t)']
  <2>1. /\ "error" \in Types /\ "delivered" \in Types /\ "device" \in Types
        /\ \A t \in Types : Extra(t) \subseteq A[t]
        /\ Range(l["error"]) # {} => ClientMessage \in A["delivered"]
        /\ server = "as_delivered" => ever["device"] \subseteq A["delivered"]
        /\ server = "dangerous" => BadCursor \in A["error"]
    BY <1>3 DEF Types, Added, Extra
  <2>2. Range(l["device"]) \subseteq ever["device"]
    BY <2>1 DEF Extra
  <2>3. \A t \in Types : C[t] = b[t] \cup A[t] \cup {0} /\ E[t] = ever[t] \cup A[t] \cup {0}
    BY <1>4
  <2> HIDE DEF A, C, E
  <2> QED BY <2>1, <2>2, <2>3 DEF AllowsLists, NoneIn
<1>7. Bounded(E, setup)
  <2>1. \A t \in Types : Asked(ever)[t] = ever[t] \cup Added(t) \cup {0}
    BY DEF Asked
  <2>2. \A t \in Types : Asked(ever)[t] \subseteq E[t]
    BY <1>4, <1>5, <2>1
  <2> HIDE DEF E
  <2> QED BY <2>2, BoundedMore DEF ToldInv
<1>8. DOMAIN setup.slots = {} => Bounded(C, setup)
  BY DEF Bounded
<1>9. Bounded(E, setup')
  <2> HIDE DEF E
  <2> QED BY <1>1, <1>6, <1>7, WithRangesBounded
<1>10. DOMAIN setup.slots = {} => Bounded(C, setup')
  <2> HIDE DEF C
  <2> QED BY <1>1, <1>6, <1>8, WithRangesBounded
<1> QED BY <1>3, <1>9, <1>10

(* What is in bounds stays so while the ranges are left alone and no less   *)
(* is asked for.                                                            *)
LEMMA ToldKept ==
    ASSUME ToldInv, UNCHANGED <<setup, server, calls>>,
           ever \in [Types -> SUBSET Number], ever' \in [Types -> SUBSET Number],
           \A t \in Types : ever[t] \subseteq ever'[t], doing' = "idle"
    PROVE  ToldInv'
<1>1. \A t \in Types : Added(t) \subseteq Added(t)'
  BY DEF Added, Types
<1>2. \A t \in Types : Asked(ever)[t] \subseteq Asked(ever)'[t]
  BY <1>1 DEF Asked
<1>3. Bounded(Asked(ever)', setup)
  BY <1>2, BoundedMore DEF ToldInv
<1> QED BY <1>3 DEF ToldInv

(* Fresh data have a setup without slots.                                   *)
LEMMA EmptySetup ==
    /\ NoRanges \in Setups /\ [NoRanges EXCEPT !.known = TRUE] \in Setups
    /\ DOMAIN NoRanges.slots = {}
    /\ [NoRanges EXCEPT !.known = TRUE].slots = NoRanges.slots
<1>1. <<>> \in Arrays /\ DOMAIN <<>> = {}
  <2>1. <<>> \in [{} -> Slots]
    OBVIOUS
  <2> QED BY <2>1, ArrayFacts
<1> QED BY <1>1 DEF NoRanges, Setups

(* Every step keeps the slots in the bounds of what was asked for.          *)
LEMMA ToldStep ==
    ASSUME ToldInv, ListInv, RangesNext
    PROVE  ToldInv'
<1> USE DEF ListInv
<1>1. ASSUME NEW e \in Entries, Add(e) \/ OpenProject(e) PROVE ToldInv'
  <2>1. ever' = Wants(ever, e) /\ doing' = "idle" /\ UNCHANGED <<setup, server, calls>>
    BY <1>1 DEF Add, OpenProject
  <2>2. ever' \in [Types -> SUBSET Number]
        /\ \A t \in Types : ever'[t] = ever[t] \cup New(e, t)
    BY <2>1, WantsFacts DEF ListsOK
  <2> QED BY <2>1, <2>2, ToldKept DEF ListsOK
<1>2. ASSUME NEW d \in Excludes, Exclude(d) PROVE ToldInv'
  BY <1>2, ToldKept DEF Exclude, ListsOK
<1>3. CASE FailSession
  BY <1>3, ToldKept DEF FailSession, ListsOK
<1>4. CASE EndSession
  BY <1>4, EmptySetup DEF EndSession, NewSetup, ToldInv, Bounded
<1>5. ASSUME NEW l \in Lists, NEW act \in BOOLEAN, NEW m, SetRanges(l, act, m),
             \A t \in Types : Range(l[t]) \subseteq Range(list[t]) \cup Extra(t),
             UNCHANGED <<wanted, ever, server>>
      PROVE  ToldInv'
  <2>1. /\ list' \in Lists /\ setup' = WithRanges(setup, act, list')
        /\ calls' = calls + 1
        /\ \A t \in Types : Range(list'[t]) \subseteq Range(l[t]) \cup Extra(t)
    BY <1>5, MadeLists DEF ListsOK
  <2>2. \A t \in Types : Range(list[t]) \subseteq wanted[t] \cup Extra(t)
    BY DEF ListIsWanted, Extra
  <2>3. \A t \in Types : /\ Range(list'[t]) \subseteq wanted[t] \cup Extra(t)
                       /\ wanted[t] \subseteq ever[t]
    BY <1>5, <2>1, <2>2 DEF ListsOK
  <2>4. /\ setup' \in Setups /\ Bounded(Asked(ever)', setup')
        /\ DOMAIN setup.slots = {} =>
             Bounded([t \in Types |-> wanted[t] \cup Added(t)' \cup {0}], setup')
    BY <1>5, <2>1, <2>3, MadeTold
  <2>5. Asked(wanted)' = [t \in Types |-> wanted[t] \cup Added(t)' \cup {0}]
    BY <1>5 DEF Asked
  <2>6. calls \in Nat /\ (calls' = 1 => DOMAIN setup.slots = {})
    BY <2>1 DEF ToldInv
  <2> QED BY <2>1, <2>4, <2>5, <2>6 DEF ToldInv
<1>6. CASE Save
  BY <1>5, <1>6 DEF Save, ListsOK
<1>7. CASE StartReplay
  BY <1>5, <1>7 DEF StartReplay, ListsOK
<1>8. CASE StartRecord
  <2> DEFINE l == AddToList(list, "delivered", ReparentNotify)
  <2>1. SetRanges(l, TRUE, "recorder") /\ UNCHANGED <<wanted, ever, server>>
    BY <1>8 DEF StartRecord
  <2>2. "delivered" \in Types /\ ReparentNotify \in Number
    BY NumberAssumption DEF Types
  <2>3. Longer(list, "delivered", ReparentNotify, l)
    BY <2>2, AddToListFacts DEF ListsOK
  <2> HIDE DEF l
  <2>4. l \in Lists
        /\ \A t \in Types : Range(l[t]) \subseteq Range(list[t]) \cup Extra(t)
    BY <2>3 DEF Extra, Longer
  <2> QED BY <1>5, <2>1, <2>4
<1> QED BY <1>1, <1>2, <1>3, <1>4, <1>6, <1>7, <1>8 DEF RangesNext

(* Nothing is told that nobody asked for since the data were renewed, and   *)
(* the first ranges made of new data have nothing that is excluded again.   *)
THEOREM NothingElseIsTold == RangesSpec => []ToldWasAsked
<1>1. RangesInit => ToldInv /\ ListInv
  <2>1. RangesInit => ListInv
    BY EmptyLists DEF RangesInit, ListInv, ListsOK, ListIsWanted
  <2>2. RangesInit => ToldInv
    BY EmptySetup DEF RangesInit, ToldInv, Bounded
  <2> QED BY <2>1, <2>2
<1>2. (ToldInv /\ ListInv) /\ [RangesNext]_rangesVars => (ToldInv /\ ListInv)'
  <2>1. ToldInv /\ ListInv /\ UNCHANGED rangesVars => (ToldInv /\ ListInv)'
    <3>1. ListInv /\ UNCHANGED rangesVars => ListInv'
      BY DEF ListInv, ListsOK, ListIsWanted, rangesVars
    <3>2. ToldInv /\ UNCHANGED rangesVars => ToldInv'
      BY DEF ToldInv, Asked, Added, Bounded, rangesVars
    <3> QED BY <3>1, <3>2
  <2> QED BY <2>1, ToldStep, ListStep
<1>3. ToldInv => ToldWasAsked
  <2>1. ASSUME NEW t \in Types, NEW b, Bounded(Asked(b), setup)
        PROVE  Told(t) \subseteq b[t] \cup Added(t)
    <3>1. ASSUME NEW n \in Told(t) PROVE n \in b[t] \cup Added(t)
      <4>1. PICK i \in DOMAIN setup.slots : n \in Span(setup.slots[i][t])
        BY <3>1 DEF Told, Fields, Span
      <4>2. n # 0
        BY <3>1 DEF Told
      <4> QED BY <2>1, <4>1, <4>2 DEF Bounded, Asked
    <3> QED BY <3>1
  <2> QED BY <2>1 DEF ToldInv, ToldWasAsked
<1> QED BY <1>1, <1>2, <1>3, PTL DEF RangesSpec

-----------------------------------------------------------------------------

(* The number of slots when something is to be recorded. *)
Top(x) == MaxRange(x, TRUE)
Dense(x) == 0..(Top(x) - 1) \subseteq DOMAIN x.slots

(* The top is a count and no count is above it.                             *)
LEMMA TopFacts ==
    ASSUME NEW x \in Setups
    PROVE  /\ Top(x) \in Nat /\ \A t \in Types : x.count[t] <= Top(x)
           /\ \E t \in Types : x.count[t] = Top(x)
<1> DEFINE S == {x.count[t] : t \in Types}
           Biggest(m) == \A t \in Types : x.count[t] <= m
<1>1. x.count \in [Types -> Nat]
  BY DEF Setups
<1>2. \E m \in S : Biggest(m)
  <2> DEFINE a == x.count["request"]
             b == x.count["error"]
             c == x.count["delivered"]
             d == x.count["device"]
  <2>1. a \in Nat /\ b \in Nat /\ c \in Nat /\ d \in Nat
    BY <1>1 DEF Types
  <2>2. a \in S /\ b \in S /\ c \in S /\ d \in S
    BY DEF Types
  <2>3. \A m : a <= m /\ b <= m /\ c <= m /\ d <= m => Biggest(m)
    BY DEF Types
  <2> HIDE DEF a, b, c, d, S, Biggest
  <2>4. \E m \in {a, b, c, d} : a <= m /\ b <= m /\ c <= m /\ d <= m
    BY <2>1
  <2> QED BY <2>2, <2>3, <2>4
<1>3. Top(x) = CHOOSE m \in S : Biggest(m)
  BY DEF Top, MaxRange
<1>4. Top(x) \in S /\ Biggest(Top(x))
  <2> HIDE DEF S, Biggest
  <2> QED BY <1>2, <1>3
<1> QED BY <1>1, <1>4

(* What follows a setup: no count is less, no hole below the top is filled, *)
(* no slot below it is lost, and what is counted of the types T is there.   *)
Follows(x, y, T) ==
    /\ y \in Setups /\ Grown(x, y)
    /\ \A i \in 0..(Top(x) - 1) : i \in DOMAIN y.slots <=> i \in DOMAIN x.slots
    /\ \A u \in T : \A i \in DOMAIN x.slots : i < x.count[u] =>
         i \in DOMAIN y.slots /\ y.slots[i][u] = x.slots[i][u]

(* What follows what follows, follows.                                      *)
LEMMA FollowsFollows ==
    ASSUME NEW T \in SUBSET Types, NEW x \in Setups, NEW y, NEW z,
           Follows(x, y, T), Follows(y, z, T)
    PROVE  Follows(x, z, T)
<1>1. y \in Setups /\ z \in Setups
  BY DEF Follows
<1>2. \A u \in Types : x.count[u] \in Nat /\ y.count[u] \in Nat /\ z.count[u] \in Nat
                      /\ x.count[u] <= y.count[u] /\ y.count[u] <= z.count[u]
  BY <1>1 DEF Follows, Grown, Setups
<1>3. Grown(x, z)
  BY <1>2 DEF Grown
<1>4. Top(x) \in Nat /\ Top(y) \in Nat /\ Top(x) <= Top(y)
  <2>1. PICK t \in Types : x.count[t] = Top(x)
    BY TopFacts
  <2>2. y.count[t] <= Top(y) /\ Top(y) \in Nat /\ Top(x) \in Nat
    BY <1>1, TopFacts
  <2> QED BY <1>2, <2>1, <2>2
<1>5. \A i \in 0..(Top(x) - 1) : i \in DOMAIN z.slots <=> i \in DOMAIN x.slots
  <2>1. \A i \in 0..(Top(x) - 1) : i \in 0..(Top(y) - 1)
    BY <1>4
  <2> QED BY <2>1 DEF Follows
<1>6. \A u \in T : \A i \in DOMAIN x.slots : i < x.count[u] =>
        i \in DOMAIN z.slots /\ z.slots[i][u] = x.slots[i][u]
  <2> SUFFICES ASSUME NEW u \in T, NEW i \in DOMAIN x.slots, i < x.count[u]
               PROVE  i \in DOMAIN z.slots /\ z.slots[i][u] = x.slots[i][u]
    OBVIOUS
  <2>1. i \in DOMAIN y.slots /\ y.slots[i][u] = x.slots[i][u]
    BY DEF Follows
  <2>2. i \in Nat
    BY ArrayFacts DEF Setups
  <2>3. i < y.count[u]
    BY <1>2, <2>2
  <2> QED BY <2>1, <2>3 DEF Follows
<1> QED BY <1>1, <1>3, <1>5, <1>6 DEF Follows

(* So an array without holes had none before.                               *)
LEMMA DenseBefore ==
    ASSUME NEW x \in Setups, NEW y, NEW T, Follows(x, y, T), Dense(y)
    PROVE  Dense(x)
<1>1. y \in Setups
  BY DEF Follows
<1>2. \A u \in Types : x.count[u] \in Nat /\ y.count[u] \in Nat
                      /\ x.count[u] <= y.count[u]
  BY <1>1 DEF Follows, Grown, Setups
<1>3. Top(x) \in Nat /\ Top(y) \in Nat /\ Top(x) <= Top(y)
  <2>1. PICK t \in Types : x.count[t] = Top(x)
    BY TopFacts
  <2>2. y.count[t] <= Top(y) /\ Top(y) \in Nat /\ Top(x) \in Nat
    BY <1>1, TopFacts
  <2> QED BY <1>2, <2>1, <2>2
<1>4. \A i \in 0..(Top(x) - 1) : i \in 0..(Top(y) - 1)
  BY <1>3
<1> QED BY <1>4 DEF Dense, Follows

(* With something to be recorded, a slot is made at the top alone.          *)
LEMMA SlotRule ==
    ASSUME NEW x, NEW n
    PROVE  NeedsSlot(x, TRUE, n) <=> n > Top(x) - 1
BY DEF NeedsSlot, Top

(* The pieces follow, each with its own effect.                             *)
LEMMA SlottedFollows ==
    ASSUME NEW x \in Setups, NEW n \in Nat, n <= Top(x)
    PROVE  /\ Follows(x, Slotted(x, TRUE, n), Types)
           /\ Dense(x) => /\ n \in DOMAIN Slotted(x, TRUE, n).slots
                          /\ Dense(Slotted(x, TRUE, n))
<1> DEFINE y == Slotted(x, TRUE, n)
<1>1. y \in Setups /\ y.count = x.count /\ IsAllocated(x, TRUE, n, y.slots)
  BY SlottedFacts
<1> HIDE DEF y
<1>2. Top(y) = Top(x)
  BY <1>1 DEF Top, MaxRange
<1>3. /\ Top(x) \in Nat /\ DOMAIN x.slots \subseteq Nat /\ x.count \in [Types -> Nat]
      /\ \A u \in Types : x.count[u] <= Top(x)
  BY TopFacts, ArrayFacts DEF Setups
<1>4. Grown(x, y)
  BY <1>1, <1>3 DEF Grown
<1>5. CASE n < Top(x)
  <2>0. ~(n > Top(x) - 1)
    BY <1>3, <1>5
  <2>1. ~NeedsSlot(x, TRUE, n)
    BY <2>0, SlotRule, Zenon
  <2>2. y.slots = x.slots
    BY <1>1, <2>1 DEF IsAllocated
  <2>3. n \in 0..(Top(x) - 1)
    BY <1>3, <1>5
  <2> QED BY <1>1, <1>2, <1>4, <2>2, <2>3 DEF Follows, Dense, y
<1>6. CASE n = Top(x)
  <2>0. n > Top(x) - 1
    BY <1>3, <1>6
  <2>1. NeedsSlot(x, TRUE, n)
    BY <2>0, SlotRule, Zenon
  <2>2. /\ n \in DOMAIN y.slots
        /\ n # 0 => DOMAIN y.slots = {n} \cup DOMAIN x.slots
        /\ \A i \in DOMAIN y.slots : i # n => y.slots[i] = x.slots[i]
    BY <1>1, <2>1 DEF IsAllocated
  <2>3. \A i \in 0..(Top(x) - 1) : n # 0 /\ i # n
    BY <1>3, <1>6
  <2>4. \A i \in 0..(Top(x) - 1) : i \in DOMAIN y.slots <=> i \in DOMAIN x.slots
    BY <2>2, <2>3
  <2>5. \A u \in Types : \A i \in DOMAIN x.slots : i < x.count[u] =>
          i \in DOMAIN y.slots /\ y.slots[i][u] = x.slots[i][u]
    <3> SUFFICES ASSUME NEW u \in Types, NEW i \in DOMAIN x.slots, i < x.count[u]
                 PROVE  i \in DOMAIN y.slots /\ y.slots[i][u] = x.slots[i][u]
      OBVIOUS
    <3>1. i \in 0..(Top(x) - 1)
      BY <1>3
    <3> QED BY <2>2, <2>3, <3>1
  <2> QED BY <1>1, <1>2, <1>4, <2>2, <2>4, <2>5 DEF Follows, Dense, y
<1>7. n < Top(x) \/ n = Top(x)
  BY <1>3
<1> QED BY <1>5, <1>6, <1>7

Spares(x, n, t, T) == t \in T => x.count[t] <= n
IsWritten(x, n, t, r, T, y) ==
    /\ Follows(x, y, T)
    /\ n \in DOMAIN x.slots => n \in DOMAIN y.slots /\ y.slots[n][t] = r
    /\ Dense(x) => Dense(y)
LEMMA WrittenFollows ==
    ASSUME NEW T \in SUBSET Types, NEW x \in Setups, NEW n \in Nat, NEW t \in Types,
           NEW r \in Pairs, Spares(x, n, t, T)
    PROVE  IsWritten(x, n, t, r, T, Written(x, n, t, r))
<1> DEFINE y == Written(x, n, t, r)
<1>1. y \in Setups /\ y.count = x.count /\ IsPut(x.slots, n, t, r, y.slots)
  BY WrittenFacts
<1> HIDE DEF y
<1>2. Top(y) = Top(x) /\ DOMAIN y.slots = DOMAIN x.slots
  BY <1>1 DEF Top, MaxRange, IsPut
<1>3. x.count \in [Types -> Nat] /\ DOMAIN x.slots \subseteq Nat
  BY ArrayFacts DEF Setups
<1>4. Grown(x, y)
  BY <1>1, <1>3 DEF Grown
<1>5. \A u \in T : \A i \in DOMAIN x.slots : i < x.count[u] =>
        i \in DOMAIN y.slots /\ y.slots[i][u] = x.slots[i][u]
  <2> SUFFICES ASSUME NEW u \in T, NEW i \in DOMAIN x.slots, i < x.count[u]
               PROVE  y.slots[i][u] = x.slots[i][u]
    BY <1>2
  <2>1. ~(i = n /\ u = t)
    BY <1>3 DEF Spares
  <2> QED BY <1>1, <2>1 DEF IsPut
<1>6. n \in DOMAIN x.slots => y.slots[n][t] = r
  BY <1>1 DEF IsPut
<1> QED BY <1>1, <1>2, <1>4, <1>5, <1>6 DEF Follows, Dense, y, IsWritten

(* ... a range that is counted...                                           *)
LEMMA CountedFollows ==
    ASSUME NEW x \in Setups, NEW t \in Types
    PROVE  Follows(x, Counted(x, t), Types)
<1>1. Counted(x, t) \in Setups /\ Counted(x, t).slots = x.slots
      /\ \A u \in Types : Counted(x, t).count[u] =
                          IF u = t THEN x.count[u] + 1 ELSE x.count[u]
  BY CountedFacts
<1>2. \A u \in Types : x.count[u] \in Nat
  BY DEF Setups
<1>3. Grown(x, Counted(x, t))
  BY <1>1, <1>2 DEF Grown
<1> QED BY <1>1, <1>3 DEF Follows

(* ... and the vendor that is asked for.                                    *)
LEMMA KnownFollows ==
    ASSUME NEW x \in Setups
    PROVE  Follows(x, Known(x), Types)
<1>1. \A u \in Types : x.count[u] \in Nat
  BY DEF Setups
<1> QED BY <1>1, KnownFacts DEF Follows, Grown

(* Less may be said of what follows; and a setup follows itself.            *)
LEMMA FollowsLess ==
    ASSUME NEW x, NEW y, NEW T, NEW U \in SUBSET T, Follows(x, y, T)
    PROVE  Follows(x, y, U)
  BY DEF Follows

LEMMA FollowsSelf ==
    ASSUME NEW x \in Setups, NEW T \in SUBSET Types
    PROVE  Follows(x, x, T)
  BY DEF Follows, Grown, Setups

-----------------------------------------------------------------------------

(* A range that is counted and in its slot; a device event may be there as  *)
(* a delivered event alone.                                                 *)
Has(x, t, r) == \E i \in DOMAIN x.slots : i < x.count[t] /\ x.slots[i][t] = r
Got(x, t, r) ==
    \/ Has(x, t, r)
    \/ t = "device" /\ server = "as_delivered" /\ Has(x, "delivered", r)

(* The fields of which xnee_add_range overwrites none that is counted: an   *)
(* error overwrites the delivered event at its own index.                   *)
Spared(t) == IF t = "error" THEN Types \ {"delivered"} ELSE Types

(* No fewer delivered events than errors, so that the error of a dangerous  *)
(* server overwrites no other.                                              *)
Led(x) == x.count["error"] <= x.count["delivered"]

(* A type spares its own fields.                                            *)
LEMMA SparedFacts ==
    ASSUME NEW t \in Types
    PROVE  t \in Spared(t) /\ Spared(t) \in SUBSET Types
           /\ (t = "device" => "delivered" \in Spared(t))
  BY DEF Spared, Types

(* A range that is there stays there in what follows.                       *)
LEMMA KeepsHas ==
    ASSUME NEW T \in SUBSET Types, NEW x \in Setups, NEW y, Follows(x, y, T),
           NEW t \in T, NEW r, Has(x, t, r)
    PROVE  Has(y, t, r)
<1>1. PICK i \in DOMAIN x.slots : i < x.count[t] /\ x.slots[i][t] = r
  BY DEF Has
<1>2. i \in DOMAIN y.slots /\ y.slots[i][t] = r
  BY <1>1 DEF Follows
<1>3. i \in Nat /\ x.count[t] \in Nat /\ y.count[t] \in Nat /\ x.count[t] <= y.count[t]
  BY <1>1, ArrayFacts DEF Follows, Grown, Setups
<1>4. i < y.count[t]
  BY <1>1, <1>3
<1> QED BY <1>2, <1>4 DEF Has

(* So does one that is there as a delivered event.                          *)
LEMMA KeepsGot ==
    ASSUME NEW T \in SUBSET Types, NEW x \in Setups, NEW y, Follows(x, y, T),
           NEW t \in T, t = "device" => "delivered" \in T, NEW r, Got(x, t, r)
    PROVE  Got(y, t, r)
<1>1. CASE Has(x, t, r)
  BY <1>1, KeepsHas DEF Got
<1>2. CASE t = "device" /\ server = "as_delivered" /\ Has(x, "delivered", r)
  BY <1>2, KeepsHas DEF Got
<1> QED BY <1>1, <1>2 DEF Got

OneMore(x, t, y) ==
    /\ y \in Setups
    /\ \A u \in Types : y.count[u] = IF u = t THEN x.count[u] + 1 ELSE x.count[u]
LEMMA CountedOne ==
    ASSUME NEW x \in Setups, NEW t \in Types
    PROVE  OneMore(x, t, Counted(x, t)) /\ Counted(x, t).slots = x.slots
  BY CountedFacts DEF OneMore

LEMMA PlainCounts ==
    ASSUME NEW x \in Setups, NEW act, NEW t \in Types, NEW r \in Pairs
    PROVE  OneMore(x, t, AddPlain(x, act, t, r))
<1> DEFINE n == x.count[t]
           v == Slotted(x, act, n)
           w == Written(v, n, t, r)
<1>1. n \in Nat
  BY DEF Setups
<1>2. v \in Setups /\ v.count = x.count
  <2> HIDE DEF n
  <2> QED BY <1>1, SlottedFacts
<1>3. w \in Setups /\ w.count = x.count
  <2> HIDE DEF n, v
  <2> QED BY <1>1, <1>2, WrittenFacts
<1>4. AddPlain(x, act, t, r) = Counted(w, t)
  BY DEF AddPlain
<1> HIDE DEF w
<1> QED BY <1>3, <1>4, CountedFacts DEF OneMore

(* Where something is to be recorded, the range is written to its slot...   *)
Placed(x, t, r) ==
    Written(Slotted(x, TRUE, x.count[t]), x.count[t], t, r)
IsPlaced(x, t, r, y) ==
    /\ Follows(x, y, Types) /\ y.count = x.count
    /\ Dense(x) => /\ Dense(y) /\ x.count[t] \in DOMAIN y.slots
                   /\ y.slots[x.count[t]][t] = r
LEMMA PlacedFacts ==
    ASSUME NEW x \in Setups, NEW t \in Types, NEW r \in Pairs
    PROVE  IsPlaced(x, t, r, Placed(x, t, r))
<1> DEFINE n == x.count[t]
           v == Slotted(x, TRUE, n)
           y == Written(v, n, t, r)
<1>1. n \in Nat /\ n <= Top(x)
  BY TopFacts DEF Setups
<1>2. v \in Setups /\ v.count = x.count
  <2> HIDE DEF n
  <2> QED BY <1>1, SlottedFacts
<1>3. Follows(x, v, Types) /\ (Dense(x) => n \in DOMAIN v.slots /\ Dense(v))
  <2> HIDE DEF n
  <2> QED BY <1>1, SlottedFollows
<1> HIDE DEF v
<1>4. Spares(v, n, t, Types)
  <2>1. v.count[t] = n
    BY <1>2
  <2> HIDE DEF n
  <2> QED BY <1>1, <2>1 DEF Spares
<1> HIDE DEF n
<1>5. Types \in SUBSET Types
  OBVIOUS
<1>6. y.count = v.count
  BY <1>1, <1>2, WrittenFacts
<1>7. IsWritten(v, n, t, r, Types, y)
  BY <1>1, <1>2, <1>4, <1>5, WrittenFollows
<1> USE DEF IsWritten
<1> HIDE DEF y
<1>8. Follows(x, y, Types)
  BY <1>3, <1>5, <1>7, FollowsFollows
<1> QED BY <1>2, <1>3, <1>6, <1>7, <1>8 DEF v, y, n, IsPlaced, Placed

(* ... and counted.                                                         *)
LEMMA PlainFollows ==
    ASSUME NEW x \in Setups, NEW t \in Types, NEW r \in Pairs
    PROVE  LET y == AddPlain(x, TRUE, t, r)
           IN  Follows(x, y, Types) /\ (Dense(x) => Has(y, t, r))
<1> DEFINE w == Placed(x, t, r)
           y == Counted(w, t)
<1>1. IsPlaced(x, t, r, w) /\ x.count[t] \in Nat
  BY PlacedFacts DEF Setups
<1>2. AddPlain(x, TRUE, t, r) = y
  BY DEF AddPlain, Placed
<1>3. w \in Setups
  BY <1>1 DEF Follows, IsPlaced
<1> HIDE DEF w
<1>4. y.slots = w.slots /\ y.count[t] = x.count[t] + 1 /\ Follows(w, y, Types)
  BY <1>1, <1>3, CountedFacts, CountedFollows DEF IsPlaced
<1> HIDE DEF y
<1>5. Follows(x, y, Types)
  BY <1>1, <1>4, FollowsFollows DEF IsPlaced
<1>6. Dense(x) => Has(y, t, r)
  BY <1>1, <1>4 DEF Has, IsPlaced
<1> QED BY <1>2, <1>5, <1>6

(* A range that xnee adds besides the one asked for.                        *)
LEMMA BesidesFollows ==
    ASSUME NEW T \in SUBSET Types, NEW x \in Setups, NEW y, Follows(x, y, T),
           NEW u \in Types, NEW n \in Nat, Spares(y, n, u, T), NEW r \in Pairs
    PROVE  Follows(x, Counted(Written(y, n, u, r), u), T)
<1> DEFINE w == Written(y, n, u, r)
<1>1. y \in Setups
  BY DEF Follows
<1>2. Follows(y, w, T)
  BY <1>1, WrittenFollows DEF IsWritten
<1> HIDE DEF w
<1>3. w \in Setups
  BY <1>2 DEF Follows
<1>4. Follows(w, Counted(w, u), Types)
  BY <1>3, CountedFollows
<1>5. Follows(w, Counted(w, u), T)
  BY <1>4, FollowsLess
<1>6. Follows(x, w, T)
  BY <1>2, FollowsFollows
<1>7. Follows(x, Counted(w, u), T)
  BY <1>5, <1>6, FollowsFollows
<1> QED BY <1>7 DEF w

(* The ranges that xnee adds of its own accord, and the types.              *)
LEMMA OwnRanges ==
    /\ <<BadCursor, BadCursor>> \in Pairs /\ <<ClientMessage, ClientMessage>> \in Pairs
    /\ Types \in SUBSET Types /\ "error" \in Types /\ "delivered" \in Types
    /\ "device" \in Types /\ "request" \in Types
  BY DEF Pairs, BadCursor, ClientMessage, Types

(* A delivered event, with the error of a dangerous server...               *)
LEMMA DeliveredFollows ==
    ASSUME NEW x \in Setups, Led(x), NEW r \in Pairs
    PROVE  LET y == AddDelivered(x, TRUE, r)
           IN  Follows(x, y, Types) /\ (Dense(x) => Has(y, "delivered", r))
<1> DEFINE n == x.count["delivered"]
           cursor == <<BadCursor, BadCursor>>
           p == AddPlain(x, TRUE, "delivered", r)
           k == Known(p)
           w == Counted(Written(k, n, "error", cursor), "error")
<1>1. n \in Nat /\ x.count["error"] \in Nat /\ x.count["error"] <= n
  BY OwnRanges DEF Setups, Led
<1>2. Follows(x, p, Types) /\ (Dense(x) => Has(p, "delivered", r))
  BY OwnRanges, PlainFollows
<1>3. p.count["error"] = x.count["error"]
  <2>1. OneMore(x, "delivered", p)
    BY OwnRanges, PlainCounts
  <2> HIDE DEF p
  <2> QED BY <2>1, OwnRanges DEF OneMore
<1> HIDE DEF p
<1>4. p \in Setups
  BY <1>2 DEF Follows
<1>5. Follows(p, k, Types) /\ k.count = p.count
  BY <1>4, KnownFollows, KnownFacts
<1> HIDE DEF k
<1>6. Follows(x, k, Types)
  BY <1>2, <1>5, OwnRanges, FollowsFollows
<1>7. Dense(x) => Has(k, "delivered", r)
  BY <1>2, <1>4, <1>5, OwnRanges, KeepsHas
<1>8. CASE server # "dangerous"
  BY <1>6, <1>7, <1>8 DEF AddDelivered, k, p
<1>9. CASE server = "dangerous"
  <2>1. AddDelivered(x, TRUE, r) = w
    BY <1>9 DEF AddDelivered, k, p
  <2>2. k \in Setups /\ Spares(k, n, "error", Types)
    BY <1>1, <1>3, <1>5 DEF Spares, Follows
  <2> HIDE DEF n, cursor
  <2>3. cursor \in Pairs
    BY OwnRanges DEF cursor
  <2>4. Follows(x, w, Types)
    BY <1>1, <1>6, <2>2, <2>3, OwnRanges, BesidesFollows
  <2>5. Follows(k, k, Types)
    BY <2>2, OwnRanges, FollowsSelf
  <2>6. Follows(k, w, Types)
    BY <1>1, <2>2, <2>3, <2>5, OwnRanges, BesidesFollows
  <2> HIDE DEF w
  <2>7. Dense(x) => Has(w, "delivered", r)
    BY <1>7, <2>2, <2>6, OwnRanges, KeepsHas
  <2> QED BY <2>1, <2>4, <2>7
<1> QED BY <1>8, <1>9

(* ... an error, with its delivered event...                                *)
LEMMA ErrorFollows ==
    ASSUME NEW x \in Setups, NEW r \in Pairs
    PROVE  LET y == AddError(x, TRUE, r)
           IN  Follows(x, y, Spared("error")) /\ (Dense(x) => Has(y, "error", r))
<1> DEFINE n == x.count["error"]
           message == <<ClientMessage, ClientMessage>>
           p == AddPlain(x, TRUE, "error", r)
           w == Counted(Written(p, n, "delivered", message), "delivered")
           T == Spared("error")
<1>1. n \in Nat
  BY OwnRanges DEF Setups
<1>2. Follows(x, p, Types) /\ (Dense(x) => Has(p, "error", r))
  BY OwnRanges, PlainFollows
<1>3. AddError(x, TRUE, r) = w
  BY DEF AddError
<1>4. message \in Pairs /\ T \in SUBSET Types /\ "error" \in T
  BY OwnRanges, SparedFacts
<1>5. Spares(p, n, "delivered", T)
  BY DEF Spares, Spared
<1> HIDE DEF p, n, message, T
<1>6. p \in Setups
  BY <1>2 DEF Follows
<1>7. Follows(x, p, T) /\ Follows(p, p, T)
  BY <1>2, <1>4, <1>6, FollowsLess, FollowsSelf
<1>8. Follows(x, w, T)
  BY <1>1, <1>4, <1>5, <1>7, OwnRanges, BesidesFollows
<1>9. Follows(p, w, T)
  BY <1>1, <1>4, <1>5, <1>6, <1>7, OwnRanges, BesidesFollows
<1> HIDE DEF w
<1>10. Dense(x) => Has(w, "error", r)
  BY <1>2, <1>4, <1>6, <1>9, KeepsHas
<1> QED BY <1>3, <1>8, <1>10 DEF T

(* ... and a device event, with its delivered event or without.             *)
LEMMA DeviceFollows ==
    ASSUME NEW x \in Setups, Led(x), NEW r \in Pairs
    PROVE  LET y == AddDevice(x, TRUE, r)
           IN  Follows(x, y, Types) /\ (Dense(x) => Got(y, "device", r))
<1> DEFINE n == x.count["device"]
           p == Placed(x, "device", r)
           d == AddDelivered(p, TRUE, r)
<1>1. IsPlaced(x, "device", r, p) /\ n \in Nat
  BY OwnRanges, PlacedFacts DEF Setups
<1>2. p = Written(Slotted(x, TRUE, n), n, "device", r)
  BY DEF Placed
<1>3. AddDevice(x, TRUE, r) = IF server = "as_delivered" /\ x.known
                              THEN Counted(d, "device") ELSE Counted(p, "device")
  BY <1>2 DEF AddDevice
<1> HIDE DEF p
<1>4. p \in Setups /\ p.count = x.count
  BY <1>1 DEF IsPlaced, Follows
<1>5. CASE ~(server = "as_delivered" /\ x.known)
  <2> DEFINE y == Counted(p, "device")
  <2>1. y.slots = p.slots /\ y.count["device"] = n + 1 /\ Follows(p, y, Types)
    <3>1. OneMore(p, "device", y) /\ y.slots = p.slots /\ Follows(p, y, Types)
      BY <1>4, OwnRanges, CountedOne, CountedFollows
    <3> HIDE DEF y
    <3> QED BY <1>4, <3>1, OwnRanges DEF OneMore
  <2> HIDE DEF y
  <2>2. Follows(x, y, Types)
    BY <1>1, <2>1, OwnRanges, FollowsFollows DEF IsPlaced
  <2>3. Dense(x) => Has(y, "device", r)
    BY <1>1, <2>1 DEF Has, IsPlaced
  <2> QED BY <1>3, <1>5, <2>2, <2>3 DEF Got, y
<1>6. CASE server = "as_delivered" /\ x.known
  <2> DEFINE y == Counted(d, "device")
  <2>1. Led(p)
    BY <1>4 DEF Led
  <2>2. Follows(p, d, Types) /\ (Dense(p) => Has(d, "delivered", r))
    BY <1>4, <2>1, DeliveredFollows
  <2> HIDE DEF d
  <2>3. d \in Setups
    BY <2>2 DEF Follows
  <2>4. Follows(d, y, Types)
    BY <2>3, OwnRanges, CountedFollows
  <2> HIDE DEF y
  <2>5. Follows(x, d, Types)
    BY <1>1, <2>2, OwnRanges, FollowsFollows DEF IsPlaced
  <2>6. Follows(x, y, Types)
    BY <2>4, <2>5, OwnRanges, FollowsFollows
  <2>7. Dense(x) => Has(y, "delivered", r)
    BY <1>1, <2>2, <2>3, <2>4, OwnRanges, KeepsHas DEF IsPlaced
  <2> QED BY <1>3, <1>6, <2>6, <2>7 DEF Got, y
<1> QED BY <1>5, <1>6

(* What xnee_add_range adds is there, and it takes nothing away that the    *)
(* lists added before.                                                      *)
LEMMA AddRangeFollows ==
    ASSUME NEW x \in Setups, Led(x), NEW t \in Types, NEW r \in Pairs
    PROVE  LET y == AddRange(x, TRUE, t, r)
           IN  Follows(x, y, Spared(t)) /\ (Dense(x) => Got(y, t, r))
<1>1. CASE t = "request"
  BY <1>1, PlainFollows DEF AddRange, Spared, Got
<1>2. CASE t = "error"
  BY <1>2, ErrorFollows DEF AddRange, Got
<1>3. CASE t = "delivered"
  BY <1>3, DeliveredFollows DEF AddRange, Spared, Got
<1>4. CASE t = "device"
  BY <1>4, DeviceFollows DEF AddRange, Spared
<1> QED BY <1>1, <1>2, <1>3, <1>4 DEF Types

(* Such a range is counted.                                                 *)
LEMMA BesidesCounts ==
    ASSUME NEW x \in Setups, NEW n \in Nat, NEW u \in Types, NEW r \in Pairs
    PROVE  OneMore(x, u, Counted(Written(x, n, u, r), u))
<1> DEFINE w == Written(x, n, u, r)
<1>1. w \in Setups /\ w.count = x.count
  BY WrittenFacts
<1> HIDE DEF w
<1>2. OneMore(x, u, Counted(w, u))
  BY <1>1, CountedFacts DEF OneMore
<1> QED BY <1>2 DEF w

(* A delivered event leaves errors led, with its error or without...        *)
LEMMA DeliveredLed ==
    ASSUME NEW x \in Setups, Led(x), NEW act, NEW r \in Pairs
    PROVE  LET y == AddDelivered(x, act, r) IN y \in Setups /\ Led(y)
<1> DEFINE n == x.count["delivered"]
           cursor == <<BadCursor, BadCursor>>
           k == Known(AddPlain(x, act, "delivered", r))
           w == Counted(Written(k, n, "error", cursor), "error")
<1>1. n \in Nat /\ x.count["error"] \in Nat /\ x.count["error"] <= n
  BY OwnRanges DEF Setups, Led
<1>2. OneMore(x, "delivered", k)
  <2> DEFINE p == AddPlain(x, act, "delivered", r)
  <2>1. OneMore(x, "delivered", p)
    BY OwnRanges, PlainCounts
  <2> HIDE DEF p
  <2>2. k \in Setups /\ k.count = p.count
    BY <2>1, KnownFacts DEF OneMore, p
  <2> QED BY <2>1, <2>2 DEF OneMore
<1>3. AddDelivered(x, act, r) = IF server # "dangerous" THEN k ELSE w
  BY DEF AddDelivered
<1> HIDE DEF k
<1>4. k \in Setups /\ k.count["error"] = x.count["error"] /\ k.count["delivered"] = n + 1
  BY <1>2, OwnRanges DEF OneMore
<1> HIDE DEF n, cursor
<1>5. OneMore(k, "error", w)
  BY <1>1, <1>4, OwnRanges, BesidesCounts DEF cursor
<1> HIDE DEF w
<1>6. w \in Setups /\ w.count["error"] = x.count["error"] + 1
      /\ w.count["delivered"] = n + 1
  BY <1>4, <1>5, OwnRanges DEF OneMore
<1>7. Led(k) /\ Led(w)
  BY <1>1, <1>4, <1>6 DEF Led
<1> QED BY <1>3, <1>4, <1>6, <1>7

(* ... so does an error, with its delivered event...                        *)
LEMMA ErrorLed ==
    ASSUME NEW x \in Setups, Led(x), NEW act, NEW r \in Pairs
    PROVE  LET y == AddError(x, act, r) IN y \in Setups /\ Led(y)
<1> DEFINE n == x.count["error"]
           message == <<ClientMessage, ClientMessage>>
           p == AddPlain(x, act, "error", r)
           w == Counted(Written(p, n, "delivered", message), "delivered")
<1>1. n \in Nat /\ x.count["delivered"] \in Nat /\ n <= x.count["delivered"]
  BY OwnRanges DEF Setups, Led
<1>2. OneMore(x, "error", p)
  BY OwnRanges, PlainCounts
<1>3. AddError(x, act, r) = w
  BY DEF AddError
<1> HIDE DEF p
<1>4. p \in Setups /\ p.count["error"] = n + 1
      /\ p.count["delivered"] = x.count["delivered"]
  BY <1>2, OwnRanges DEF OneMore
<1> HIDE DEF n, message
<1>5. OneMore(p, "delivered", w)
  BY <1>1, <1>4, OwnRanges, BesidesCounts DEF message
<1> HIDE DEF w
<1>6. w \in Setups /\ w.count["error"] = n + 1
      /\ w.count["delivered"] = x.count["delivered"] + 1
  BY <1>4, <1>5, OwnRanges DEF OneMore
<1> QED BY <1>1, <1>3, <1>6 DEF Led

(* ... and every range does.                                                *)
LEMMA AddRangeLed ==
    ASSUME NEW x \in Setups, Led(x), NEW act, NEW t \in Types, NEW r \in Pairs
    PROVE  Led(AddRange(x, act, t, r))
<1>1. CASE t = "request"
  <2>1. OneMore(x, t, AddPlain(x, act, t, r))
    BY PlainCounts
  <2>2. AddRange(x, act, t, r) = AddPlain(x, act, t, r)
    BY <1>1 DEF AddRange
  <2> QED BY <1>1, <2>1, <2>2, OwnRanges DEF Led, OneMore
<1>2. CASE t = "error"
  BY <1>2, ErrorLed DEF AddRange
<1>3. CASE t = "delivered"
  BY <1>3, DeliveredLed DEF AddRange
<1>4. CASE t = "device"
  <2> DEFINE n == x.count["device"]
             v == Slotted(x, act, n)
             y == Written(v, n, "device", r)
             d == AddDelivered(y, act, r)
  <2>1. n \in Nat
    BY OwnRanges DEF Setups
  <2>2. AddRange(x, act, t, r) = Counted(d, "device")
        \/ AddRange(x, act, t, r) = Counted(y, "device")
    BY <1>4 DEF AddRange, AddDevice
  <2> HIDE DEF n
  <2>3. v \in Setups /\ v.count = x.count
    BY <2>1, SlottedFacts
  <2> HIDE DEF v
  <2>4. y \in Setups /\ y.count = x.count
    BY <2>1, <2>3, OwnRanges, WrittenFacts
  <2> HIDE DEF y
  <2>5. Led(y)
    BY <2>4 DEF Led
  <2>6. d \in Setups /\ Led(d)
    BY <2>4, <2>5, DeliveredLed
  <2> HIDE DEF d
  <2>7. ASSUME NEW z \in Setups, Led(z) PROVE Led(Counted(z, "device"))
    <3>1. OneMore(z, "device", Counted(z, "device"))
      BY OwnRanges, CountedOne
    <3> QED BY <2>7, <3>1, OwnRanges DEF Led, OneMore
  <2> QED BY <2>2, <2>4, <2>5, <2>6, <2>7
<1> QED BY <1>1, <1>2, <1>3, <1>4 DEF Types

-----------------------------------------------------------------------------

(* The loop over the runs of a list keeps errors led...                     *)
LEMMA AddRunsLed ==
    ASSUME NEW x \in Setups, Led(x), NEW act, NEW t \in Types, NEW s \in Seq(Number)
    PROVE  AddRuns(x, act, t, s) \in Setups /\ Led(AddRuns(x, act, t, s))
<1> DEFINE runs == Runs(s)
           N == Len(runs)
           y == AddedTo(x, act, t, runs)
           Right(n) == y[n] \in Setups /\ Led(y[n])
           S == {n \in 0..N : Right(n)}
<1>1. runs \in Seq(Run) /\ N \in Nat
  BY RunsFacts
<1> HIDE DEF runs
<1>2. /\ y[0] = x
      /\ \A n \in 1..N : y[n] = AddRange(y[n - 1], act, t, runs[n])
  BY <1>1, AddedDef
<1> HIDE DEF y
<1>3. Right(0)
  BY <1>2
<1>4. ASSUME NEW n \in 1..N, Right(n - 1) PROVE Right(n)
  <2> DEFINE z == y[n - 1]
  <2>1. runs[n] \in Pairs
    BY <1>1, RunPairs
  <2>2. z \in Setups /\ Led(z) /\ y[n] = AddRange(z, act, t, runs[n])
    BY <1>2, <1>4
  <2> HIDE DEF z
  <2> QED BY <2>1, <2>2, AddRangeSetup, AddRangeLed
<1>5. 0 \in S /\ \A n \in 1..N : n - 1 \in S => n \in S
  <2> HIDE DEF Right
  <2> QED BY <1>1, <1>3, <1>4
<1>6. N \in S
  <2> HIDE DEF S
  <2>1. \A n \in 0..N : n \in S
    BY <1>1, <1>5, UpTo
  <2> QED BY <1>1, <2>1
<1>7. AddRuns(x, act, t, s) = y[N]
  BY DEF AddRuns, y, runs
<1> QED BY <1>6, <1>7

(* ... and leaves every number of the list in a range that is counted.      *)
Shown(x, t, n) == \E r \in Run : n \in Span(r) /\ Got(x, t, r)
AllShown(x, t, set) == \A n \in set : Shown(x, t, n)

LEMMA AddRunsFollows ==
    ASSUME NEW x \in Setups, Led(x), NEW t \in Types, NEW s \in Seq(Number)
    PROVE  LET y == AddRuns(x, TRUE, t, s)
           IN  Follows(x, y, Spared(t)) /\ (Dense(y) => AllShown(y, t, Range(s)))
<1> DEFINE runs == Runs(s)
           N == Len(runs)
           y == AddedTo(x, TRUE, t, runs)
           T == Spared(t)
           Right(n) == /\ Follows(x, y[n], T) /\ Led(y[n])
                       /\ Dense(y[n]) => \A k \in 1..n : Got(y[n], t, runs[k])
           S == {n \in 0..N : Right(n)}
<1>1. runs \in Seq(Run) /\ Spans(runs) = Range(s) /\ N \in Nat
  BY RunsFacts
<1> HIDE DEF runs
<1>2. /\ y[0] = x
      /\ \A n \in 1..N : y[n] = AddRange(y[n - 1], TRUE, t, runs[n])
  <2> DEFINE Is(act) ==
               LET z == AddedTo(x, act, t, runs)
               IN  /\ z[0] = x
                   /\ \A n \in 1..N : z[n] = AddRange(z[n - 1], act, t, runs[n])
  <2>1. ASSUME NEW act PROVE Is(act)
    BY <1>1, AddedDef
  <2> HIDE DEF Is
  <2>2. Is(TRUE)
    BY <2>1, Zenon
  <2> QED BY <2>2 DEF Is
<1> HIDE DEF y
<1>3. t \in T /\ T \in SUBSET Types /\ (t = "device" => "delivered" \in T)
  BY SparedFacts
<1>4. Right(0)
  <2>1. Follows(x, x, T)
    BY <1>3, FollowsSelf
  <2> QED BY <1>2, <2>1
<1>5. ASSUME NEW n \in 1..N, Right(n - 1) PROVE Right(n)
  <2> DEFINE z == y[n - 1]
             v == y[n]
  <2>1. runs[n] \in Pairs
    BY <1>1, RunPairs
  <2>2. /\ Follows(x, z, T) /\ Led(z)
        /\ Dense(z) => \A k \in 1..(n - 1) : Got(z, t, runs[k])
    BY <1>5
  <2>3. v = AddRange(z, TRUE, t, runs[n])
    BY <1>2
  <2> HIDE DEF z, v
  <2>4. z \in Setups
    BY <2>2 DEF Follows
  <2>5. Follows(z, v, T) /\ (Dense(z) => Got(v, t, runs[n])) /\ Led(v)
    BY <2>1, <2>2, <2>3, <2>4, AddRangeFollows, AddRangeLed
  <2> HIDE DEF T
  <2>6. Follows(x, v, T)
    BY <1>3, <2>2, <2>5, FollowsFollows
  <2>7. Dense(v) => Dense(z)
    BY <2>4, <2>5, DenseBefore
  <2>8. ASSUME Dense(v), NEW k \in 1..n PROVE Got(v, t, runs[k])
    <3>1. CASE k = n
      BY <2>5, <2>7, <2>8, <3>1
    <3>2. CASE k # n
      <4>1. k \in 1..(n - 1)
        BY <3>2
      <4>2. Got(z, t, runs[k])
        BY <2>2, <2>7, <2>8, <4>1
      <4> QED BY <1>3, <2>4, <2>5, <4>2, KeepsGot
    <3> QED BY <3>1, <3>2
  <2> QED BY <2>5, <2>6, <2>8 DEF v
<1>6. 0 \in S /\ \A n \in 1..N : n - 1 \in S => n \in S
  <2> HIDE DEF Right
  <2> QED BY <1>1, <1>4, <1>5
<1>7. Right(N)
  <2> HIDE DEF S, Right
  <2>1. \A n \in 0..N : n \in S
    BY <1>1, <1>6, UpTo
  <2>2. N \in S
    BY <1>1, <2>1
  <2> QED BY <2>2 DEF S
<1> DEFINE w == AddRuns(x, TRUE, t, s)
<1>8. w = y[N]
  BY DEF AddRuns, y, runs
<1> HIDE DEF w
<1>9. ASSUME Dense(w), NEW n \in Range(s) PROVE Shown(w, t, n)
  <2>0. PICK r \in Range(runs) : n \in Span(r)
    BY <1>1, <1>9 DEF Spans
  <2>1. PICK k \in 1..N : n \in Span(runs[k])
    BY <1>1, <2>0 DEF Range
  <2>2. runs[k] \in Run
    BY <1>1
  <2>3. Got(w, t, runs[k])
    BY <1>7, <1>8, <1>9, <2>1
  <2> QED BY <2>1, <2>2, <2>3 DEF Shown
<1> QED BY <1>7, <1>8, <1>9 DEF w, AllShown

(* What is shown stays shown in what follows.                               *)
LEMMA KeepsShown ==
    ASSUME NEW T \in SUBSET Types, NEW x \in Setups, NEW y, Follows(x, y, T),
           NEW t \in T, t = "device" => "delivered" \in T, NEW set, AllShown(x, t, set)
    PROVE  AllShown(y, t, set)
  BY KeepsGot DEF AllShown, Shown

(* All of xnee_set_ranges keeps errors led.                                 *)
LEMMA WithRangesLed ==
    ASSUME NEW x \in Setups, Led(x), NEW act, NEW l \in Lists
    PROVE  Led(WithRanges(x, act, l))
<1> DEFINE q == AddRuns(x, act, "request", l["request"])
           e == AddRuns(q, act, "error", l["error"])
           d == AddRuns(e, act, "delivered", l["delivered"])
           y == AddRuns(d, act, "device", l["device"])
<1>1. \A t \in Types : l[t] \in Seq(Number)
  BY DEF Lists
<1>2. q \in Setups /\ Led(q)
  BY <1>1, OwnRanges, AddRunsLed
<1> HIDE DEF q
<1>3. e \in Setups /\ Led(e)
  BY <1>1, <1>2, OwnRanges, AddRunsLed
<1> HIDE DEF e
<1>4. d \in Setups /\ Led(d)
  BY <1>1, <1>3, OwnRanges, AddRunsLed
<1> HIDE DEF d
<1>5. Led(y)
  BY <1>1, <1>4, OwnRanges, AddRunsLed
<1> QED BY <1>5 DEF WithRanges, q, e, d

(* Ranges without a hole show all of the lists they are made of.            *)
LEMMA WithRangesShown ==
    ASSUME NEW x \in Setups, Led(x), NEW l \in Lists, Dense(WithRanges(x, TRUE, l))
    PROVE  \A t \in Types : AllShown(WithRanges(x, TRUE, l), t, Range(l[t]))
<1> DEFINE q == AddRuns(x, TRUE, "request", l["request"])
           e == AddRuns(q, TRUE, "error", l["error"])
           d == AddRuns(e, TRUE, "delivered", l["delivered"])
           y == AddRuns(d, TRUE, "device", l["device"])
           A(z, t) == AllShown(z, t, Range(l[t]))
<1>1. \A t \in Types : l[t] \in Seq(Number)
  BY DEF Lists
<1>2. Spared("request") = Types /\ Spared("delivered") = Types /\ Spared("device") = Types
      /\ "request" \in Spared("error") /\ "error" \in Spared("error")
      /\ Spared("error") \in SUBSET Types
  BY DEF Spared, Types
<1>3. Follows(x, q, Types) /\ Led(q) /\ (Dense(q) => A(q, "request"))
  BY <1>1, <1>2, OwnRanges, AddRunsLed, AddRunsFollows
<1>4. q \in Setups
  BY <1>3 DEF Follows
<1> HIDE DEF q
<1>5. Follows(q, e, Spared("error")) /\ Led(e) /\ (Dense(e) => A(e, "error"))
  BY <1>1, <1>3, <1>4, OwnRanges, AddRunsLed, AddRunsFollows
<1>6. e \in Setups
  BY <1>5 DEF Follows
<1> HIDE DEF e
<1>7. Follows(e, d, Types) /\ Led(d) /\ (Dense(d) => A(d, "delivered"))
  BY <1>1, <1>2, <1>5, <1>6, OwnRanges, AddRunsLed, AddRunsFollows
<1>8. d \in Setups
  BY <1>7 DEF Follows
<1> HIDE DEF d
<1>9. Follows(d, y, Types) /\ (Dense(y) => A(y, "device"))
  BY <1>1, <1>2, <1>7, <1>8, OwnRanges, AddRunsFollows
<1>10. WithRanges(x, TRUE, l) = y
  BY DEF WithRanges, q, e, d
<1> HIDE DEF y
<1>11. Dense(y) /\ Dense(d) /\ Dense(e) /\ Dense(q)
  BY <1>4, <1>5, <1>6, <1>7, <1>8, <1>9, <1>10, DenseBefore
<1>12. A(y, "request")
  <2>1. A(e, "request")
    BY <1>2, <1>3, <1>4, <1>5, <1>11, KeepsShown
  <2>2. A(d, "request")
    BY <1>6, <1>7, <2>1, OwnRanges, KeepsShown
  <2> QED BY <1>8, <1>9, <2>2, OwnRanges, KeepsShown
<1>13. A(y, "error")
  <2>1. A(d, "error")
    BY <1>5, <1>6, <1>7, <1>11, OwnRanges, KeepsShown
  <2> QED BY <1>8, <1>9, <2>1, OwnRanges, KeepsShown
<1>14. A(y, "delivered")
  BY <1>7, <1>8, <1>9, <1>11, OwnRanges, KeepsShown
<1>15. A(y, "device")
  BY <1>9, <1>11
<1> QED BY <1>10, <1>12, <1>13, <1>14, <1>15 DEF Types

(* The top is the number of slots as soon as something is recorded.         *)
LEMMA TopIs ==
    ASSUME NEW x, NEW act \in BOOLEAN, act
    PROVE  MaxRange(x, act) = Top(x)
<1>1. act = TRUE
  OBVIOUS
<1> QED BY <1>1, Zenon DEF Top

(* What is shown is told, when something is to be recorded.                 *)
LEMMA ShownIsTold ==
    ASSUME setup' \in Setups, active' \in BOOLEAN, active', server' = server,
           NEW t \in Types, NEW n \in Number, Shown(setup', t, n)
    PROVE  \/ n \in Told(t)'
           \/ server = "as_delivered" /\ t = "device" /\ n \in Told("delivered")'
<1>1. PICK r \in Run : n \in Span(r) /\ Got(setup', t, r)
  BY DEF Shown
<1>2. ASSUME NEW u \in Types, Has(setup', u, r) PROVE n \in Told(u)'
  <2> DEFINE x == setup'
  <2>1. PICK i \in DOMAIN x.slots : i < x.count[u] /\ x.slots[i][u] = r
    BY <1>2 DEF Has
  <2>2. i \in Nat /\ x.count[u] \in Nat /\ Top(x) \in Nat /\ x.count[u] <= Top(x)
    BY TopFacts, ArrayFacts DEF Setups
  <2>3. MaxRange(x, active') = Top(x)
    BY TopIs
  <2>4. i \in DOMAIN x.slots \cap 0..(MaxRange(x, active') - 1)
    <3>1. i \in DOMAIN x.slots \cap 0..(Top(x) - 1)
      BY <2>1, <2>2
    <3> QED BY <2>3, <3>1, Zenon
  <2>5. n \in x.slots[i][u][1]..x.slots[i][u][2]
    BY <1>1, <2>1 DEF Span
  <2>6. n \in Fields(u)'
    BY <2>4, <2>5 DEF Fields
  <2>7. n # 0
    BY NumberAssumption DEF Number
  <2> QED BY <2>6, <2>7 DEF Told
<1> QED BY <1>1, <1>2, OwnRanges DEF Got

(* The calls of xnee_set_ranges. *)
Makes(act) ==
    /\ list' \in Lists /\ active' = act /\ server' = server
    /\ setup' = WithRanges(setup, act, list')
LEMMA MakesRanges ==
    ASSUME ListInv, Save \/ StartRecord \/ StartReplay
    PROVE  \E act \in BOOLEAN : Makes(act)
<1> USE DEF ListInv, ListsOK
<1>1. ASSUME NEW l \in Lists, NEW act \in BOOLEAN, NEW m, SetRanges(l, act, m),
             server' = server
      PROVE  Makes(act)
  BY <1>1, MadeLists DEF Makes
<1>2. CASE Save
  BY <1>1, <1>2 DEF Save
<1>3. CASE StartReplay
  BY <1>1, <1>3 DEF StartReplay
<1>4. CASE StartRecord
  <2> DEFINE l == AddToList(list, "delivered", ReparentNotify)
  <2>1. Longer(list, "delivered", ReparentNotify, l)
    BY OwnRanges, NumberAssumption, AddToListFacts
  <2> QED BY <1>1, <1>4, <2>1 DEF StartRecord, Longer
<1> QED BY <1>2, <1>3, <1>4

(* Errors are led in every setup that is reached.                           *)
LEMMA LedStep ==
    ASSUME ToldInv, ListInv, Led(setup), RangesNext
    PROVE  Led(setup)'
<1>1. CASE UNCHANGED setup
  BY <1>1 DEF Led
<1>2. CASE EndSession
  BY <1>2, OwnRanges DEF EndSession, NewSetup, NoRanges, Led
<1>3. CASE Save \/ StartRecord \/ StartReplay
  <2>1. PICK act \in BOOLEAN : Makes(act)
    BY <1>3, MakesRanges
  <2>2. Led(WithRanges(setup, act, list'))
    BY <2>1, WithRangesLed DEF ToldInv, Makes
  <2> QED BY <2>1, <2>2 DEF Led, Makes
<1> QED BY <1>1, <1>2, <1>3
        DEF RangesNext, Add, OpenProject, Exclude, FailSession

(* A call that leaves no hole tells all of the lists.                       *)
LEMMA AskedStep ==
    ASSUME ToldInv, ListInv, Led(setup), RangesNext,
           calls' = calls + 1, active', CountIsAllocated'
    PROVE  \A t \in Types : \A n \in Range(list'[t]) :
             \/ n \in Told(t)'
             \/ server = "as_delivered" /\ t = "device" /\ n \in Told("delivered")'
<1>1. calls' # calls /\ calls' # 0
  BY DEF ToldInv
<1>2. Save \/ StartRecord \/ StartReplay
  BY <1>1 DEF RangesNext, Add, OpenProject, Exclude, FailSession, EndSession
<1>3. PICK act \in BOOLEAN : Makes(act)
  BY <1>2, MakesRanges
<1>4. act = TRUE
  BY <1>3, Zenon DEF Makes
<1>5. /\ list' \in Lists /\ server' = server /\ active' \in BOOLEAN
      /\ setup' = WithRanges(setup, TRUE, list')
  BY <1>3, <1>4, Zenon DEF Makes
<1>6. setup' \in Setups
  BY ToldStep DEF ToldInv
<1>7. Dense(setup')
  <2>1. MaxRange(setup', active') = Top(setup')
    BY <1>5, TopIs
  <2> QED BY <2>1 DEF Dense, CountIsAllocated
<1>8. \A t \in Types : AllShown(setup', t, Range(list'[t]))
  BY <1>5, <1>7, WithRangesShown DEF ToldInv
<1>9. \A t \in Types : Range(list'[t]) \subseteq Number
  BY <1>5 DEF Lists, Range
<1> QED BY <1>5, <1>6, <1>8, <1>9, ShownIsTold DEF AllShown

(* Every call of xnee_set_ranges leaves all of the lists in the ranges, as  *)
(* long as these are allocated.                                             *)
THEOREM AskedForIsTold == RangesSpec => AskedIsTold
<1>1. RangesInit => ToldInv /\ ListInv /\ Led(setup)
  <2>1. RangesInit => ListInv
    BY EmptyLists DEF RangesInit, ListInv, ListsOK, ListIsWanted
  <2>2. RangesInit => ToldInv
    BY EmptySetup DEF RangesInit, ToldInv, Bounded
  <2>3. RangesInit => Led(setup)
    BY OwnRanges DEF RangesInit, NoRanges, Led
  <2> QED BY <2>1, <2>2, <2>3
<1>2. (ToldInv /\ ListInv /\ Led(setup)) /\ [RangesNext]_rangesVars
        => (ToldInv /\ ListInv /\ Led(setup))'
  <2>1. ToldInv /\ ListInv /\ Led(setup) /\ UNCHANGED rangesVars
          => (ToldInv /\ ListInv /\ Led(setup))'
    <3>1. ListInv /\ UNCHANGED rangesVars => ListInv'
      BY DEF ListInv, ListsOK, ListIsWanted, rangesVars
    <3>2. ToldInv /\ UNCHANGED rangesVars => ToldInv'
      BY DEF ToldInv, Asked, Added, Bounded, rangesVars
    <3>3. Led(setup) /\ UNCHANGED rangesVars => Led(setup)'
      BY DEF Led, rangesVars
    <3> QED BY <3>1, <3>2, <3>3
  <2> QED BY <2>1, ToldStep, ListStep, LedStep
<1>3. (ToldInv /\ ListInv /\ Led(setup)) /\ [RangesNext]_rangesVars =>
        [calls' = calls + 1 /\ active' /\ CountIsAllocated' =>
          \A t \in Types : \A n \in Range(list'[t]) :
            \/ n \in Told(t)'
            \/ server = "as_delivered" /\ t = "device" /\ n \in Told("delivered")']_rangesVars
  BY AskedStep
<1> QED BY <1>1, <1>2, <1>3, PTL DEF RangesSpec, AskedIsTold
=============================================================================
