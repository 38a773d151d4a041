---------------------------- MODULE AppletProofs ----------------------------
(***************************************************************************)
(* The threads of the applet, for any number of presses of its buttons.    *)
(*                                                                         *)
(* OneUnlessStopped is inductive: each step that frees the buttons ends a  *)
(* session or completes a press of Stop.  ResetEarned is not: the presses  *)
(* are counted without a lock, so the counter may be ahead of the presses  *)
(* since the last reset; PressInv says which presses it can stand for.     *)
(***************************************************************************)
EXTENDS Applet, FiniteSetTheorems, TLAPS

(* Threads that have counted their press of Stop.                           *)
Counted == {s \in Stoppers : stopper[s] = "done"}

(* What is counted was pressed; a second press was counted before the       *)
(* session data is made anew, and another one each time after that.         *)
PressInv ==
    /\ reset >= 1 => Cardinality(Counted) >= 1
    /\ \A s \in Stoppers : read[s] >= 1 => Cardinality(Counted) >= 1
    /\ reset >= 2 => Cardinality(Counted) >= resets + 2
    /\ updater = "anew" => Cardinality(Counted) >= resets + 2
    /\ resets > 0 => Cardinality(Counted) >= resets + 1

(* Threads of Stop are taken in order.                                      *)
OrderInv ==
    \A s \in Stoppers : stopper[s] # "none" => s <= stops

WorkerSet ==
    [pc : {"none", "begin", "delay", "session", "end", "done"},
     job : Modes, data : 0..MaxResets, runs : Modes \cup {"none"}]

(* The types the counting rests on; the others are FlagsOK's.               *)
ThreadsOK ==
    /\ action \in Modes \cup {"none"}
    /\ xd \in 0..MaxResets /\ resets = xd
    /\ mode \in [0..MaxResets -> Modes \cup {"none"}]
    /\ reset \in Nat /\ alternate \in {0, 1}
    /\ worker \in [Workers -> WorkerSet]
    /\ delay \in [Workers -> 0..MaxDelay]
    /\ stopper \in [Stoppers ->
         {"none", "interrupt", "clear", "read", "write", "done"}]
    /\ read \in [Stoppers -> Nat]
    /\ updater \in {"top", "anew", "alternate", "show"}
    /\ started \in 0..MaxWorkers /\ stops \in 0..MaxStops

FlagsOK == interrupt \in [0..MaxResets -> BOOLEAN]

-----------------------------------------------------------------------------

(* The threads of the applet start idle, the flags and counters at 0.       *)
LEMMA ThreadsStart == Init => ThreadsOK
  BY DelayAssumption, BoundAssumption
  DEF Init, ThreadsOK, Modes, Idle, WorkerSet, Workers, Stoppers

(* A thread of Stop begins with the press that is counted for it.           *)
LEMMA OrderKept == ThreadsOK /\ OrderInv /\ [Next]_vars => OrderInv'
<1> SUFFICES ASSUME ThreadsOK, OrderInv, [Next]_vars PROVE OrderInv'
  OBVIOUS
<1> USE DEF ThreadsOK, OrderInv, sessions, stoppers, Stoppers
<1>1. CASE PressStop
  BY <1>1 DEF PressStop
<1>2. ASSUME NEW s \in Stoppers, Stopper(s) PROVE OrderInv'
  BY <1>2 DEF Stopper, SetInterrupt, ClearAction, ReadCounter, WriteCounter
<1>3. CASE UNCHANGED <<stopper, stops>>
  BY <1>3
<1>4. CASE Updater \/ UNCHANGED vars
  BY <1>4, <1>3 DEF Updater, AskReset, Anew, Alternate, Show, vars
<1>5. ASSUME NEW w \in Workers, Session(w) PROVE OrderInv'
  BY <1>5, <1>3 DEF Session, Begin, Wait, Enter, SeeStop, RecordEvent,
       EndOfItself, Finish
<1>6. ASSUME NEW job \in Modes, Press(job) PROVE OrderInv'
  BY <1>6, <1>3 DEF Press
<1> QED BY <1>1, <1>2, <1>4, <1>5, <1>6 DEF Next

(* The threads keep their steps, and the shared state its kinds.            *)
LEMMA ThreadsKept == ThreadsOK /\ [Next]_vars => ThreadsOK'
<1> SUFFICES ASSUME ThreadsOK, [Next]_vars PROVE ThreadsOK'
  OBVIOUS
<1> USE BoundAssumption, DelayAssumption
    DEF ThreadsOK, sessions, stoppers, counter, update_thread
<1>1. ASSUME NEW job \in Modes, Press(job) PROVE ThreadsOK'
  <2>1. started' \in 0..MaxWorkers /\ started' \in Workers
    BY <1>1 DEF Press, Workers
  <2>2. [pc |-> "begin", job |-> job, data |-> xd, runs |-> "none"]
          \in WorkerSet
    BY DEF WorkerSet
  <2>3. worker' \in [Workers -> WorkerSet]
    BY <1>1, <2>1, <2>2 DEF Press
  <2> QED BY <1>1, <2>1, <2>3 DEF Press
<1>2. CASE PressStop
  <2>1. stops' \in 0..MaxStops /\ stops' \in Stoppers
    BY <1>2 DEF PressStop, Stoppers
  <2> QED BY <1>2, <2>1 DEF PressStop
<1>3. ASSUME NEW w \in Workers, Session(w) PROVE ThreadsOK'
  <2>1. CASE Begin(w)
    <3>1. worker[w].job \in Modes
      BY DEF WorkerSet
    <3>2. worker' \in [Workers -> WorkerSet]
      <4> DEFINE then == [worker[w] EXCEPT !.pc = "delay", !.data = xd]
      <4>1. then \in WorkerSet
        BY DEF WorkerSet
      <4>2. worker' = [worker EXCEPT ![w] = then]
        BY <2>1 DEF Begin
      <4> QED BY <4>1, <4>2
    <3> QED BY <2>1, <3>1, <3>2 DEF Begin
  <2>2. CASE Wait(w)
    <3>1. delay[w] - 1 \in 0..MaxDelay
      BY <2>2 DEF Wait
    <3> QED BY <2>2, <3>1 DEF Wait
  <2>3. CASE Enter(w)
    <3>1. mode' \in [0..MaxResets -> Modes \cup {"none"}]
      BY <2>3 DEF Enter, Modes
    <3>2. worker' \in [Workers -> WorkerSet]
      <4>1. mode'[xd] \in Modes \cup {"none"}
        BY <3>1
      <4> DEFINE then == [worker[w] EXCEPT !.pc = "session", !.data = xd,
                                           !.runs = mode'[xd]]
      <4>2. then \in WorkerSet
        BY <4>1 DEF WorkerSet
      <4>3. worker' = [worker EXCEPT ![w] = then]
        BY <2>3 DEF Enter
      <4> QED BY <4>2, <4>3
    <3> QED BY <2>3, <3>1, <3>2 DEF Enter
  <2>4. CASE SeeStop(w)
    <3>1. worker' \in [Workers -> WorkerSet]
      BY <2>4 DEF SeeStop, WorkerSet
    <3> QED BY <2>4, <3>1 DEF SeeStop
  <2>5. CASE RecordEvent(w)
    BY <2>5 DEF RecordEvent
  <2>6. CASE EndOfItself(w)
    <3>1. worker' \in [Workers -> WorkerSet]
      BY <2>6 DEF EndOfItself, WorkerSet
    <3> QED BY <2>6, <3>1 DEF EndOfItself
  <2>7. CASE Finish(w)
    <3>1. Done \in WorkerSet
      BY DEF WorkerSet, Done, Idle, Modes
    <3>2. worker' \in [Workers -> WorkerSet]
      BY <2>7, <3>1 DEF Finish
    <3> QED BY <2>7, <3>2 DEF Finish
  <2> QED BY <1>3, <2>1, <2>2, <2>3, <2>4, <2>5, <2>6, <2>7 DEF Session
<1>4. ASSUME NEW s \in Stoppers, Stopper(s) PROVE ThreadsOK'
  <2>1. CASE SetInterrupt(s) \/ ClearAction(s)
    BY <2>1 DEF SetInterrupt, ClearAction
  <2>2. CASE ReadCounter(s)
    BY <2>2 DEF ReadCounter
  <2>3. CASE WriteCounter(s)
    <3>1. read[s] + 1 \in Nat
      OBVIOUS
    <3> QED BY <2>3, <3>1 DEF WriteCounter
  <2> QED BY <1>4, <2>1, <2>2, <2>3 DEF Stopper
<1>5. CASE Updater
  BY <1>5 DEF Updater, AskReset, Anew, Alternate, Show
<1>6. CASE UNCHANGED vars
  BY <1>6 DEF vars
<1> QED BY <1>1, <1>2, <1>3, <1>4, <1>5, <1>6 DEF Next

(* Any set of threads is finite, and one thread counts for one.             *)
LEMMA Threads ==
    ASSUME NEW n \in Nat, NEW S \in SUBSET (1..n)
    PROVE  /\ IsFiniteSet(S) /\ Cardinality(S) \in Nat
           /\ \A T \in SUBSET S : Cardinality(T) <= Cardinality(S)
           /\ \A x \in S : Cardinality(S \ {x}) = Cardinality(S) - 1
           /\ \A x : Cardinality(S \cup {x}) <= Cardinality(S) + 1
           /\ \A x : x \notin S => Cardinality(S \cup {x}) = Cardinality(S) + 1
<1>1. IsFiniteSet(1..n)
  BY FS_Interval
<1>2. IsFiniteSet(S)
  BY <1>1, FS_Subset
<1>3. Cardinality(S) \in Nat
  BY <1>2, FS_CardinalityType
<1>4. \A T \in SUBSET S : Cardinality(T) <= Cardinality(S)
  BY <1>2, FS_Subset
<1>5. \A x \in S : Cardinality(S \ {x}) = Cardinality(S) - 1
  BY <1>2, FS_RemoveElement
<1>6. \A x : Cardinality(S \cup {x}) =
               IF x \in S THEN Cardinality(S) ELSE Cardinality(S) + 1
  BY <1>2, FS_AddElement
<1> QED BY <1>2, <1>3, <1>4, <1>5, <1>6

-----------------------------------------------------------------------------

(* 1 while the buttons are free.                                            *)
Free == IF action = "none" THEN 1 ELSE 0

(* What a step does to the sessions, to the presses of Stop and to the      *)
(* buttons: nothing that counts, or it takes free buttons for a session, or *)
(* it ends a session, or it completes a press of Stop.                      *)
LEMMA OneStep ==
    ASSUME ThreadsOK, OrderInv, [Next]_vars
    PROVE  \/ /\ Running' = Running /\ Cleared' = Cleared
              /\ action' = action \/ action' # "none"
           \/ \E x : Running' \subseteq Running \cup {x}
              /\ Cleared' = Cleared /\ action = "none" /\ action' # "none"
           \/ \E x \in Running : Running' = Running \ {x}
              /\ Cleared' = Cleared
           \/ \E x : /\ x \notin Cleared /\ Cleared' = Cleared \cup {x}
                     /\ Running' = Running
<1> USE DEF ThreadsOK, sessions, stoppers, counter, update_thread
<1>1. ASSUME NEW job \in Modes, Press(job)
      PROVE  /\ Running' \subseteq Running \cup {started'}
             /\ Cleared' = Cleared /\ action = "none" /\ action' # "none"
  BY <1>1 DEF Press, Modes, Running, Cleared
<1>2. CASE PressStop
  <2>1. stopper[stops + 1] = "none" \/ stops + 1 \notin Stoppers
    BY DEF OrderInv, Stoppers
  <2>2. Cleared' = Cleared
    BY <1>2, <2>1 DEF PressStop, Cleared
  <2> QED BY <1>2, <2>2 DEF PressStop, Running
<1>3. ASSUME NEW w \in Workers, Session(w)
      PROVE  \/ /\ Running' = Running /\ Cleared' = Cleared
                /\ action' = action \/ action' # "none"
             \/ w \in Running /\ Running' = Running \ {w} /\ Cleared' = Cleared
  <2>1. Cleared' = Cleared
    BY <1>3 DEF Session, Begin, Wait, Enter, SeeStop, RecordEvent,
         EndOfItself, Finish, Cleared
  <2>2. CASE Finish(w)
    <3>1. w \in Running /\ Running' = Running \ {w}
      BY <2>2 DEF Finish, Running, Done, Idle
    <3> QED BY <2>1, <3>1
  <2>3. CASE Begin(w)
    <3>1. Running' = Running
      BY <2>3 DEF Begin, Running, WorkerSet
    <3>2. action' # "none"
      BY <2>3 DEF Begin, WorkerSet, Modes
    <3> QED BY <2>1, <3>1, <3>2
  <2>4. CASE Wait(w) \/ Enter(w) \/ SeeStop(w) \/ RecordEvent(w)
               \/ EndOfItself(w)
    <3>1. action' = action
      BY <2>4 DEF Wait, Enter, SeeStop, RecordEvent, EndOfItself
    <3>2. CASE Wait(w) \/ RecordEvent(w)
      BY <3>2, <3>1, <2>1 DEF Wait, RecordEvent, Running
    <3>3. CASE Enter(w)
      BY <3>3, <3>1, <2>1 DEF Enter, Running, WorkerSet
    <3>4. CASE SeeStop(w) \/ EndOfItself(w)
      BY <3>4, <3>1, <2>1 DEF SeeStop, EndOfItself, Running, WorkerSet
    <3> QED BY <2>4, <3>2, <3>3, <3>4
  <2> QED BY <1>3, <2>2, <2>3, <2>4 DEF Session
<1>4. ASSUME NEW s \in Stoppers, Stopper(s)
      PROVE  /\ Running' = Running
             /\ \/ Cleared' = Cleared /\ action' = action
                \/ s \notin Cleared /\ Cleared' = Cleared \cup {s}
  <2>1. Running' = Running
    BY <1>4 DEF Stopper, SetInterrupt, ClearAction, ReadCounter, WriteCounter,
         Running
  <2>2. CASE ClearAction(s)
    BY <2>1, <2>2 DEF ClearAction, Cleared
  <2>3. CASE SetInterrupt(s) \/ ReadCounter(s) \/ WriteCounter(s)
    BY <2>1, <2>3 DEF SetInterrupt, ReadCounter, WriteCounter, Cleared
  <2> QED BY <1>4, <2>2, <2>3 DEF Stopper
<1>5. CASE Updater \/ UNCHANGED vars
  <2>1. UNCHANGED <<worker, stopper, action>>
    BY <1>5 DEF Updater, AskReset, Anew, Alternate, Show, vars
  <2> QED BY <2>1 DEF Running, Cleared
<1> QED BY <1>1, <1>2, <1>3, <1>4, <1>5 DEF Next

(* A second session is let in only by a press of Stop: of the sessions and  *)
(* the free buttons there is at most one more than presses that took        *)
(* effect.                                                                  *)
THEOREM OneSession == Spec => []OneUnlessStopped
<1> DEFINE Inv == Cardinality(Running) + Free <= 1 + Cardinality(Cleared)
<1>1. Inv => OneUnlessStopped
  BY DEF OneUnlessStopped, Free
<1>2. Init => Inv /\ OrderInv
  <2> SUFFICES ASSUME Init PROVE Inv /\ OrderInv
    OBVIOUS
  <2>1. Running = {} /\ Cleared = {} /\ OrderInv
    BY DEF Init, Running, Cleared, Idle, OrderInv
  <2> QED BY <2>1, FS_EmptySet DEF Free
<1>3. ThreadsOK /\ OrderInv /\ Inv /\ [Next]_vars => Inv'
  <2> SUFFICES ASSUME ThreadsOK, OrderInv, Inv, [Next]_vars PROVE Inv'
    OBVIOUS
  <2> DEFINE R == Cardinality(Running)
             C == Cardinality(Cleared)
  <2>1. /\ Running \in SUBSET (1..MaxWorkers)
        /\ Cleared \in SUBSET (1..MaxStops)
        /\ Running' \in SUBSET (1..MaxWorkers)
        /\ Cleared' \in SUBSET (1..MaxStops)
    BY DEF Running, Cleared, Workers, Stoppers
  <2>2. R \in Nat /\ C \in Nat /\ R' \in Nat /\ C' \in Nat
    BY <2>1, Threads, BoundAssumption
  <2>3. Free \in {0, 1} /\ Free' \in {0, 1}
    BY DEF Free
  <2>4. CASE /\ Running' = Running /\ Cleared' = Cleared
             /\ action' = action \/ action' # "none"
    <3>1. Free' <= Free
      BY <2>4 DEF Free
    <3> QED BY <2>2, <2>3, <2>4, <3>1
  <2>5. ASSUME NEW x, Running' \subseteq Running \cup {x},
               Cleared' = Cleared, action = "none", action' # "none"
        PROVE  Inv'
    <3>1. R' <= R + 1
      <4>1. IsFiniteSet(Running)
        BY <2>1, Threads, BoundAssumption
      <4>2. /\ IsFiniteSet(Running \cup {x})
            /\ Cardinality(Running \cup {x}) \in Nat
            /\ Cardinality(Running \cup {x}) <= R + 1
        <5>1. /\ IsFiniteSet(Running \cup {x})
              /\ Cardinality(Running \cup {x}) = IF x \in Running THEN R ELSE R + 1
          BY <4>1, FS_AddElement
        <5> QED BY <5>1, <2>2
      <4>3. R' <= Cardinality(Running \cup {x})
        BY <4>2, <2>5, FS_Subset
      <4> QED BY <2>2, <4>2, <4>3
    <3>2. Free = 1 /\ Free' = 0
      BY <2>5 DEF Free
    <3> QED BY <2>2, <2>5, <3>1, <3>2
  <2>6. ASSUME NEW x \in Running, Running' = Running \ {x},
               Cleared' = Cleared
        PROVE  Inv'
    <3>1. R' = R - 1
      BY <2>1, <2>6, Threads, BoundAssumption
    <3> QED BY <2>2, <2>3, <2>6, <3>1
  <2>7. ASSUME NEW x, x \notin Cleared, Cleared' = Cleared \cup {x},
               Running' = Running
        PROVE  Inv'
    <3>1. C' = C + 1
      BY <2>1, <2>7, Threads, BoundAssumption
    <3> QED BY <2>2, <2>3, <2>7, <3>1
  <2> QED BY <2>4, <2>5, <2>6, <2>7, OneStep
<1> QED BY <1>1, <1>2, <1>3, ThreadsStart, ThreadsKept, OrderKept, PTL
        DEF Spec

-----------------------------------------------------------------------------

(* The session data is made anew less often than Stop was pressed, and      *)
(* never for one press.                                                     *)
THEOREM ResetsEarned == Spec => []ResetEarned
<1> DEFINE C == Cardinality(Counted)
<1>1. Init => PressInv /\ OrderInv
  BY DEF Init, PressInv, OrderInv, Stoppers
<1>2. ThreadsOK /\ OrderInv /\ PressInv => ResetEarned
  <2> SUFFICES ASSUME ThreadsOK, OrderInv, PressInv, resets > 0
               PROVE  resets < stops
    BY DEF ResetEarned
  <2>1. stops \in Nat /\ resets \in Nat
    BY DEF ThreadsOK
  <2>2. Counted \in SUBSET (1..stops)
    BY <2>1 DEF Counted, OrderInv, Stoppers
  <2>3. C \in Nat /\ C <= stops
    <3>1. IsFiniteSet(1..stops) /\ Cardinality(1..stops) = stops
      BY <2>1, FS_Interval
    <3>2. C <= stops
      BY <2>2, <3>1, FS_Subset
    <3> QED BY <2>1, <2>2, <3>2, Threads
  <2>4. C >= resets + 1
    BY DEF PressInv
  <2> QED BY <2>1, <2>3, <2>4
<1>3. ThreadsOK /\ OrderInv /\ PressInv /\ [Next]_vars => PressInv'
  <2> SUFFICES ASSUME ThreadsOK, OrderInv, PressInv, [Next]_vars PROVE PressInv'
    OBVIOUS
  <2> USE DEF ThreadsOK, PressInv, sessions, stoppers, counter, update_thread
  <2>1. Counted \in SUBSET (1..MaxStops) /\ Counted' \in SUBSET (1..MaxStops)
    BY DEF Counted, Stoppers
  <2>2. C \in Nat /\ C' \in Nat
    BY <2>1, Threads, BoundAssumption
  <2>3. resets \in Nat
    OBVIOUS
  <2> HIDE DEF C
  <2>4. ASSUME Counted' = Counted, UNCHANGED <<reset, read, updater, resets>>
        PROVE  PressInv'
    BY <2>4
  <2>5. ASSUME NEW job \in Modes, Press(job) PROVE PressInv'
    BY <2>4, <2>5 DEF Press, Counted
  <2>6. CASE PressStop
    <3>1. stopper[stops + 1] = "none" \/ stops + 1 \notin Stoppers
      BY DEF OrderInv, Stoppers
    <3>2. Counted' = Counted
      BY <2>6, <3>1 DEF PressStop, Counted
    <3> QED BY <2>4, <2>6, <3>2 DEF PressStop
  <2>7. ASSUME NEW w \in Workers, Session(w) PROVE PressInv'
    <3>1. UNCHANGED <<stopper, read, reset, updater, resets>>
      BY <2>7 DEF Session, Begin, Wait, Enter, SeeStop, RecordEvent,
           EndOfItself, Finish
    <3> QED BY <2>4, <3>1 DEF Counted
  <2>8. ASSUME NEW s \in Stoppers, Stopper(s) PROVE PressInv'
    <3>1. CASE SetInterrupt(s) \/ ClearAction(s)
      BY <2>4, <3>1 DEF SetInterrupt, ClearAction, Counted
    <3>2. CASE ReadCounter(s)
      <4>1. Counted' = Counted
        BY <3>2 DEF ReadCounter, Counted
      <4> QED BY <3>2, <4>1 DEF ReadCounter
    <3>3. CASE WriteCounter(s)
      <4>1. s \notin Counted /\ Counted' = Counted \cup {s}
        BY <3>3 DEF WriteCounter, Counted
      <4>2. Cardinality(Counted') = Cardinality(Counted) + 1
        BY <2>1, <4>1, Threads, BoundAssumption
      <4>3. /\ reset' = read[s] + 1 /\ UNCHANGED <<updater, resets>>
            /\ \A t \in Stoppers : read'[t] \in {0, read[t]}
        BY <3>3 DEF WriteCounter
      <4>4. reset' >= 2 => Cardinality(Counted') >= resets' + 2
        <5>1. reset' >= 2 => Cardinality(Counted) >= 1
          BY <4>3
        <5> QED BY <2>2, <2>3, <4>2, <4>3, <5>1 DEF C
      <4>5. Cardinality(Counted') >= 1
        BY <2>2, <4>2 DEF C
      <4>6. /\ updater' = "anew" => Cardinality(Counted') >= resets' + 2
            /\ resets' > 0 => Cardinality(Counted') >= resets' + 1
        BY <2>2, <2>3, <4>2, <4>3 DEF C
      <4> QED BY <4>4, <4>5, <4>6
    <3> QED BY <2>8, <3>1, <3>2, <3>3 DEF Stopper
  <2>9. CASE Updater
    <3>1. UNCHANGED <<stopper, read>> /\ Counted' = Counted
      BY <2>9 DEF Updater, AskReset, Anew, Alternate, Show, Counted
    <3>2. CASE AskReset
      BY <3>1, <3>2 DEF AskReset
    <3>3. CASE Anew
      BY <2>2, <2>3, <3>1, <3>3 DEF Anew, C
    <3>4. CASE Alternate
      BY <3>1, <3>4 DEF Alternate
    <3>5. CASE Show
      BY <3>1, <3>5 DEF Show
    <3> QED BY <2>9, <3>2, <3>3, <3>4, <3>5 DEF Updater
  <2>10. CASE UNCHANGED vars
    BY <2>4, <2>10 DEF vars, Counted
  <2> QED BY <2>5, <2>6, <2>7, <2>8, <2>9, <2>10 DEF Next
<1> QED BY <1>1, <1>2, <1>3, ThreadsStart, ThreadsKept, OrderKept, PTL
        DEF Spec

-----------------------------------------------------------------------------

(* The interrupt variables stay truth values.                               *)
LEMMA FlagsKept == ThreadsOK /\ FlagsOK /\ [Next]_vars => FlagsOK'
<1> SUFFICES ASSUME ThreadsOK, FlagsOK, [Next]_vars PROVE FlagsOK'
  OBVIOUS
<1>1. \/ UNCHANGED interrupt
      \/ \E d : interrupt' = [interrupt EXCEPT ![d] = TRUE]
      \/ \E d : interrupt' = [interrupt EXCEPT ![d] = FALSE]
  BY DEF Next, Press, PressStop, Session, Begin, Wait, Enter, SeeStop,
     RecordEvent, EndOfItself, Finish, Stopper, SetInterrupt, ClearAction,
     ReadCounter, WriteCounter, Updater, AskReset, Anew, Alternate, Show, vars
<1> QED BY <1>1 DEF FlagsOK

(* Every variable keeps its type; the session data in use is the one of     *)
(* the last reset.                                                          *)
THEOREM AppletTypes == Spec => []TypeOK
<1>1. Init => FlagsOK
  BY DEF Init, FlagsOK
<1>2. ThreadsOK /\ FlagsOK => TypeOK
  BY DEF ThreadsOK, FlagsOK, TypeOK, WorkerSet
<1> QED BY <1>1, <1>2, ThreadsStart, ThreadsKept, FlagsKept, PTL DEF Spec
=============================================================================
