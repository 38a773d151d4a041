------------------------------- MODULE Applet -------------------------------
(***************************************************************************)
(* The panel applet pnee (pnee/src/pnee_impl.c, callbacks.c).  Its Record  *)
(* and Replay buttons start a thread each, which waits for a delay and     *)
(* then runs a session; each press of its Stop button starts a thread that *)
(* asks the session to stop; one more thread, the updater, moves the       *)
(* progress bar, and makes everything anew when Stop was pressed twice in  *)
(* a row.  They share the state of the buttons, a counter of presses and   *)
(* the session data xd, and no lock is held around any of it.              *)
(*                                                                         *)
(* A session is its loop: it looks at the interrupt variable, and it may   *)
(* end by itself; the recorder's writes XNEE_OK to the interrupt variable  *)
(* with each event (Record has the details).  The widgets, their lock and  *)
(* the semaphore around the progress bar, which no thread holds while it   *)
(* waits for another, are left out; so are the state of the progress bar   *)
(* and the preferences window.                                             *)
(***************************************************************************)
EXTENDS Integers, FiniteSets

CONSTANTS
    MaxDelay,   \* largest delay before a session, in seconds
    MaxWorkers, \* bound: presses of Record and Replay that start a session
    MaxStops,   \* bound: presses of Stop
    MaxResets   \* bound: times everything is made anew

ASSUME DelayAssumption == MaxDelay \in Nat
ASSUME BoundAssumption ==
    MaxWorkers \in Nat /\ MaxStops \in Nat /\ MaxResets \in Nat

Modes == {"record", "replay"}

Workers == 1..MaxWorkers
Stoppers == 1..MaxStops

VARIABLES
    action,    \* action_state: "none", "record" or "replay"
    xd,        \* which xnee_data is in use
    mode,      \* for each xnee_data: its mode, "none", "record" or "replay"
    interrupt, \* for each xnee_data: its interrupt variable is not XNEE_OK
    reset,     \* the counter of presses of Stop
    alternate, \* the static do_reset_ctr of the updater
    worker,    \* for each thread of Record and Replay: [pc, job, data, runs]
    delay,     \* for each of them: seconds of delay left
    stopper,   \* for each thread of Stop: where it is
    read,      \* for each of them: the value of the counter it read
    updater,   \* where the updater is
    started,   \* number of threads of Record and Replay
    stops,     \* number of threads of Stop
    resets     \* number of times everything was made anew
sessions == <<worker, delay, started>>
stoppers == <<stopper, read, stops>>
counter == <<reset, alternate>>
update_thread == <<updater, resets>>
vars == <<action, xd, mode, interrupt, counter, sessions, stoppers,
          update_thread>>

Idle == [pc |-> "none", job |-> "record", data |-> 0, runs |-> "none"]
Done == [Idle EXCEPT !.pc = "done"]

Init ==
    /\ action = "none"
    /\ xd = 0
    /\ mode = [d \in 0..MaxResets |-> "none"]
    /\ interrupt = [d \in 0..MaxResets |-> FALSE]
    /\ reset = 0 /\ alternate = 0
    /\ worker = [w \in Workers |-> Idle]
    /\ delay = [w \in Workers |-> 0]
    /\ stopper = [s \in Stoppers |-> "none"]
    /\ read = [s \in Stoppers |-> 0]
    /\ updater = "top"
    /\ started = 0 /\ stops = 0 /\ resets = 0

-----------------------------------------------------------------------------

(* Mutant of Press: whether an action is on is not asked.                   *)
PressAnyTime(job) ==
    /\ started < MaxWorkers
    /\ action' = job
    /\ started' = started + 1
    /\ worker' = [worker EXCEPT ![started'] =
                    [pc |-> "begin", job |-> job, data |-> xd, runs |-> "none"]]
    /\ UNCHANGED <<xd, mode, interrupt, counter, delay, stoppers,
                   update_thread>>

(* pnee_rec_pressed and pnee_rep_pressed, in the thread of the widgets.     *)
Press(job) ==
    /\ started < MaxWorkers
    /\ action = "none"
    /\ action' = job
    /\ started' = started + 1
    /\ worker' = [worker EXCEPT ![started'] =
                    [pc |-> "begin", job |-> job, data |-> xd, runs |-> "none"]]
    /\ UNCHANGED <<xd, mode, interrupt, counter, delay, stoppers,
                   update_thread>>

(* pnee_start_recording and pnee_start_replaying up to the delay: the       *)
(* action is set once more, and the mode of the session data.               *)
Begin(w) ==
    /\ worker[w].pc = "begin"
    /\ action' = worker[w].job
    /\ mode' = [mode EXCEPT ![xd] = worker[w].job]
    /\ \E d \in 0..MaxDelay : delay' = [delay EXCEPT ![w] = d]
    /\ worker' = [worker EXCEPT ![w] = [@ EXCEPT !.pc = "delay", !.data = xd]]
    /\ UNCHANGED <<xd, interrupt, counter, started, stoppers,
                   update_thread>>

(* delay_start: a second passes.  It is left when no action is on.          *)
Wait(w) ==
    /\ worker[w].pc = "delay" /\ delay[w] > 0 /\ action # "none"
    /\ delay' = [delay EXCEPT ![w] = @ - 1]
    /\ UNCHANGED <<action, xd, mode, interrupt, counter, worker,
                   started, stoppers, update_thread>>

(* After the delay: a recording sets the mode once more, a replay does not; *)
(* xnee_start runs whatever mode the data has.  Both begin a session even   *)
(* if the delay was left because Stop was pressed.                          *)
Enter(w) ==
    /\ worker[w].pc = "delay" /\ (delay[w] = 0 \/ action = "none")
    /\ mode' = IF worker[w].job = "record"
                 THEN [mode EXCEPT ![xd] = "record"] ELSE mode
    /\ delay' = [delay EXCEPT ![w] = 0]
    /\ worker' = [worker EXCEPT ![w] =
                    [@ EXCEPT !.pc = "session", !.data = xd, !.runs = mode'[xd]]]
    /\ UNCHANGED <<action, xd, interrupt, counter, started, stoppers,
                   update_thread>>

(* The loop of the session finds the interrupt variable set.                *)
SeeStop(w) ==
    /\ worker[w].pc = "session" /\ interrupt[worker[w].data]
    /\ interrupt' = [interrupt EXCEPT ![worker[w].data] = FALSE]
    /\ worker' = [worker EXCEPT ![w].pc = "end"]
    /\ UNCHANGED <<action, xd, mode, counter, delay, started,
                   stoppers, update_thread>>

(* An event is recorded; the return value of its handler is written to the  *)
(* interrupt variable.                                                      *)
RecordEvent(w) ==
    /\ worker[w].pc = "session" /\ worker[w].runs = "record"
    /\ interrupt' = [interrupt EXCEPT ![worker[w].data] = FALSE]
    /\ UNCHANGED <<action, xd, mode, counter, sessions, stoppers,
                   update_thread>>

(* The session ends by itself: a limit, the end of the file, a key, an      *)
(* error, or xnee_data without a mode.                                      *)
EndOfItself(w) ==
    /\ worker[w].pc = "session"
    /\ worker' = [worker EXCEPT ![w].pc = "end"]
    /\ UNCHANGED <<action, xd, mode, interrupt, counter, delay,
                   started, stoppers, update_thread>>

(* Mutant of Finish: the action stays on.                                   *)
FinishOn(w) ==
    /\ worker[w].pc = "end"
    /\ worker' = [worker EXCEPT ![w] = Done]
    /\ UNCHANGED <<action, xd, mode, interrupt, counter, delay,
                   started, stoppers, update_thread>>

(* The thread of a session ends: no action is on, whoever set it.           *)
Finish(w) ==
    /\ worker[w].pc = "end"
    /\ action' = "none"
    /\ worker' = [worker EXCEPT ![w] = Done]
    /\ UNCHANGED <<xd, mode, interrupt, counter, delay, started,
                   stoppers, update_thread>>

-----------------------------------------------------------------------------

(* pnee_stop_pressed starts a thread, and pnee_stop_pressed_impl asks        *)
(* whether an action is on ...                                              *)
PressStop ==
    /\ stops < MaxStops
    /\ stops' = stops + 1
    /\ stopper' = [stopper EXCEPT ![stops'] =
                     IF action = "none" THEN "clear" ELSE "interrupt"]
    /\ UNCHANGED <<action, xd, mode, interrupt, counter, sessions, read,
                   update_thread>>

(* ... and if it was, sets the interrupt variable, ...                      *)
SetInterrupt(s) ==
    /\ stopper[s] = "interrupt"
    /\ interrupt' = [interrupt EXCEPT ![xd] = TRUE]
    /\ stopper' = [stopper EXCEPT ![s] = "clear"]
    /\ UNCHANGED <<action, xd, mode, counter, sessions, read, stops,
                   update_thread>>

(* ... makes no action on, ...                                              *)
ClearAction(s) ==
    /\ stopper[s] = "clear"
    /\ action' = "none"
    /\ stopper' = [stopper EXCEPT ![s] = "read"]
    /\ UNCHANGED <<xd, mode, interrupt, counter, sessions, read, stops,
                   update_thread>>

(* ... and counts the press, which is a read and a write.                   *)
ReadCounter(s) ==
    /\ stopper[s] = "read"
    /\ read' = [read EXCEPT ![s] = reset]
    /\ stopper' = [stopper EXCEPT ![s] = "write"]
    /\ UNCHANGED <<action, xd, mode, interrupt, counter, sessions,
                   stops, update_thread>>

WriteCounter(s) ==
    /\ stopper[s] = "write"
    /\ reset' = read[s] + 1
    /\ read' = [read EXCEPT ![s] = 0]
    /\ stopper' = [stopper EXCEPT ![s] = "done"]
    /\ UNCHANGED <<action, xd, mode, interrupt, alternate, sessions,
                   stops, update_thread>>

-----------------------------------------------------------------------------

(* pnee_progress_updater, the top of its loop: were there two presses?      *)
AskReset ==
    /\ updater = "top"
    /\ updater' = IF reset >= 2 THEN "anew" ELSE "alternate"
    /\ UNCHANGED <<action, xd, mode, interrupt, counter, sessions,
                   stoppers, resets>>

(* Mutant of Anew: the counter of presses keeps its value.                  *)
AnewCounted ==
    /\ updater = "anew" /\ resets < MaxResets
    /\ xd' = xd + 1
    /\ resets' = resets + 1
    /\ updater' = "alternate"
    /\ UNCHANGED <<action, mode, interrupt, counter, sessions,
                   stoppers>>

(* The session data is closed down and another made; pnee_xnee_init and the *)
(* updater both make the counter 0.                                         *)
Anew ==
    /\ updater = "anew" /\ resets < MaxResets
    /\ xd' = xd + 1
    /\ reset' = 0
    /\ resets' = resets + 1
    /\ updater' = "alternate"
    /\ UNCHANGED <<action, mode, interrupt, alternate, sessions,
                   stoppers>>

(* Every second time the counter is made 0, so that only presses in quick   *)
(* succession add up.                                                       *)
Alternate ==
    /\ updater = "alternate"
    /\ alternate' = 1 - alternate
    /\ reset' = IF alternate = 1 THEN 0 ELSE reset
    /\ updater' = "show"
    /\ UNCHANGED <<action, xd, mode, interrupt, sessions, stoppers,
                   resets>>

(* While an action is on the updater stays in its inner loop and shows how  *)
(* far it is; it goes back to the top when none is.                         *)
Show ==
    /\ updater = "show" /\ action = "none"
    /\ updater' = "top"
    /\ UNCHANGED <<action, xd, mode, interrupt, counter, sessions, stoppers,
                   resets>>

-----------------------------------------------------------------------------

Session(w) == Begin(w) \/ Wait(w) \/ Enter(w) \/ SeeStop(w) \/ RecordEvent(w)
                \/ EndOfItself(w) \/ Finish(w)

Stopper(s) == SetInterrupt(s) \/ ClearAction(s)
                \/ ReadCounter(s) \/ WriteCounter(s)

Updater == AskReset \/ Anew \/ Alternate \/ Show

Next ==
    \/ \E job \in Modes : Press(job)
    \/ PressStop
    \/ \E w \in Workers : Session(w)
    \/ \E s \in Stoppers : Stopper(s)
    \/ Updater

Spec == Init /\ [][Next]_vars

(* The threads are scheduled.  A replay comes to the end of its file; a     *)
(* recording need not end.                                                  *)
FairSpec ==
    /\ Spec
    /\ \A w \in Workers :
         /\ WF_vars(Begin(w) \/ Wait(w) \/ Enter(w) \/ SeeStop(w) \/ Finish(w))
         /\ WF_vars(worker[w].runs = "replay" /\ EndOfItself(w))
    /\ \A s \in Stoppers : WF_vars(Stopper(s))

-----------------------------------------------------------------------------

TypeOK ==
    /\ action \in Modes \cup {"none"}
    /\ xd \in 0..MaxResets /\ resets = xd
    /\ mode \in [0..MaxResets -> Modes \cup {"none"}]
    /\ interrupt \in [0..MaxResets -> BOOLEAN]
    /\ reset \in Nat /\ alternate \in {0, 1}
    /\ worker \in [Workers ->
         [pc : {"none", "begin", "delay", "session", "end", "done"},
          job : Modes, data : 0..MaxResets, runs : Modes \cup {"none"}]]
    /\ delay \in [Workers -> 0..MaxDelay]
    /\ stopper \in [Stoppers ->
         {"none", "interrupt", "clear", "read", "write", "done"}]
    /\ read \in [Stoppers -> Nat]
    /\ updater \in {"top", "anew", "alternate", "show"}
    /\ started \in 0..MaxWorkers /\ stops \in 0..MaxStops

(* Threads of Record and Replay that have not ended, and presses of Stop    *)
(* that have taken effect on the action.                                    *)
Running == {w \in Workers : worker[w].pc \notin {"none", "done"}}
Cleared == {s \in Stoppers : stopper[s] \in {"read", "write", "done"}}

(* The buttons refuse to start a second session while one is running; only  *)
(* a press of Stop lets one more in, for it frees the buttons before the    *)
(* session has ended.                                                       *)
OneUnlessStopped ==
    Cardinality(Running) + (IF action = "none" THEN 1 ELSE 0)
        <= 1 + Cardinality(Cleared)

(* The session data is never closed down for a single press of Stop, nor    *)
(* as often as Stop was pressed, though the presses are counted without a   *)
(* lock against the updater that forgets them.                              *)
ResetEarned == resets > 0 => resets < stops

(* A replay whose button was pressed comes to its end and the buttons are   *)
(* free again, though Stop is never pressed.                                *)
ReplayFrees ==
    (action = "replay" /\ stops = 0) ~> (action = "none" \/ stops > 0)

=============================================================================
