------------------------------- MODULE Record -------------------------------
(***************************************************************************)
(* The recorder: xnee_record_async and xnee_record_dispatch                *)
(* (libxnee/src/xnee_record.c), xnee_more_to_record (xnee_session.c) and   *)
(* the keys of a recording (xnee_km.c).                                    *)
(*                                                                         *)
(* The loop looks at the interrupt variable, at the grabbed keys, lets     *)
(* RECORD hand over the pending data, one call of the dispatch function    *)
(* each, and asks whether there is more to record.  A signal handler or    *)
(* the thread of a user interface sets the interrupt variable at any time. *)
(* One process records several sessions; the time stamp of the limit on    *)
(* time and the interrupt variable survive from one to the next.           *)
(*                                                                         *)
(* Data are counted, not represented; their printing is left out.  So is   *)
(* xd->in_use: the STOP key clears it where the loop is left, and the next *)
(* session sets it again, so its test in the dispatch function is true.    *)
(***************************************************************************)
EXTENDS Integers

CONSTANTS
    Limits,       \* the limits a session may have: [events, data, time],
                  \* negative for no limit
    OnData,       \* the RECORD contexts belong to the data display, which no
                  \* session closes (xnee_record_from_data_display), not to
                  \* the control display, which each opens afresh
    MaxSessions,  \* bound: sessions of one process
    MaxData,      \* bound: data recorded in a session
    MaxBatch,     \* bound: data handed over in one poll of RECORD
    MaxTicks,     \* bound: seconds that pass in a session
    MaxStops      \* bound: requests to stop, over all sessions

ASSUME LimitsAssumption == Limits \subseteq [events : Int, data : Int, time : Int]
ASSUME OnDataAssumption == OnData \in BOOLEAN
ASSUME BoundAssumption ==
    /\ MaxSessions \in Nat /\ MaxData \in Nat /\ MaxBatch \in Nat
    /\ MaxTicks \in Nat /\ MaxStops \in Nat

VARIABLES
    pc,        \* where the recording thread is
    limits,    \* events_max, data_max and time_max of the session
    events,    \* xnee_info.events_recorded
    data,      \* xnee_info.data_recorded
    time,      \* xnee_info.time_recorded
    stamped,   \* the static time_stamp of xnee_record_update_time_left is set
    ticked,    \* a second has begun since time_stamp
    interrupt, \* xnee_info.interrupt is not XNEE_OK
    context,   \* the current RECORD context: "none", "created" or "enabled"
    lost,      \* a context is enabled that the program has no handle of
    batch,     \* data handed over in this poll
    session, ticks, stops,  \* counters for the bounds
    result,    \* history: how the session ended
    refused,   \* history: xnee_more_to_record said no in this session
    after      \* history: data recorded after it said no

counters == <<events, data>>
clock    == <<time, stamped, ticked, ticks>>
contexts == <<context, lost>>
histories == <<refused, after>>
vars == <<pc, limits, counters, clock, interrupt, contexts, batch,
          session, stops, result, histories>>

-----------------------------------------------------------------------------

(* xnee_record_update_time_left: at most one second is counted per call. *)
TimeNow == IF stamped /\ ticked THEN time + 1 ELSE time

(* Of a limit, something is left; a negative rest counts as no limit. *)
Left(max, used) == max - used # 0

(* xnee_more_to_record, after it has updated the time. *)
MoreToRecord ==
    /\ Left(limits.events, events)
    /\ Left(limits.data, data)
    /\ Left(limits.time, TimeNow)

(* What a call of it leaves behind. *)
AskMore ==
    /\ time' = TimeNow /\ stamped' = TRUE /\ ticked' = FALSE
    /\ refused' = (refused \/ ~MoreToRecord)
    /\ UNCHANGED ticks

(* The loop is left and xnee_stop_session called. *)
Leave(how) == pc' = "idle" /\ result' = how

Init ==
    /\ pc = "idle" /\ result = "complete"
    /\ limits \in Limits
    /\ events = 0 /\ data = 0 /\ time = 0
    /\ stamped = FALSE /\ ticked = FALSE
    /\ interrupt = FALSE
    /\ context = "none" /\ lost = FALSE /\ batch = 0
    /\ session = 0 /\ ticks = 0 /\ stops = 0
    /\ refused = FALSE /\ after = 0

(* The end of a session that xnee_start takes for an error, the STOP key    *)
(* too, leaves out xnee_renew_xnee_data, which frees the context.           *)
Freed == result \in {"complete", "interrupted"}

(* xnee_start of a recorder, up to the test before the loop: the counters   *)
(* are cleared and a RECORD context is created.  What an earlier session    *)
(* left enabled goes on sending, unless its connection is closed.           *)
Start ==
    /\ pc = "idle" /\ session < MaxSessions
    /\ session' = session + 1
    /\ limits' \in Limits
    /\ context' = "created"
    /\ lost' = (OnData /\ (lost \/ (context = "enabled" /\ ~Freed)))
    /\ events' = 0 /\ data' = 0 /\ time' = 0 /\ ticks' = 0
    /\ refused' = FALSE /\ after' = 0
    /\ pc' = "start" /\ result' = "running"
    /\ UNCHANGED <<stamped, ticked, interrupt, batch, stops>>

(* The test before the loop; xnee_record_async then enables the context,    *)
(* which the server may refuse.                                             *)
EnterLoop ==
    /\ pc = "start"
    /\ AskMore
    /\ \/ MoreToRecord /\ context' = "enabled" /\ pc' = "loop"
          /\ UNCHANGED result
       \/ MoreToRecord /\ Leave("record_failure") /\ UNCHANGED context
       \/ ~MoreToRecord /\ Leave("complete") /\ UNCHANGED context
    /\ UNCHANGED <<limits, counters, interrupt, lost, batch, session,
                   stops, after>>

(* The top of the loop: the interrupt variable is set. *)
LeaveOnInterrupt ==
    /\ pc = "loop" /\ interrupt
    /\ interrupt' = FALSE
    /\ Leave("interrupted")
    /\ UNCHANGED <<limits, counters, clock, contexts, batch, session,
                   stops, histories>>

(* xnee_handle_rec_key finds STOP pressed. *)
StopKey ==
    /\ pc = "loop" /\ ~interrupt
    /\ Leave("stopped")
    /\ UNCHANGED <<limits, counters, clock, interrupt, contexts, batch,
                   session, stops, histories>>

(* No key, or one that records nothing: INSERT, EXEC.  PAUSE disables and   *)
(* frees the context, if there is one.  RESUME creates another and enables  *)
(* it, whether or not one is enabled already.                               *)
Poll == pc' = "poll" /\ batch' = 0 /\ UNCHANGED result

NoKey ==
    /\ pc = "loop" /\ ~interrupt
    /\ Poll
    /\ UNCHANGED <<limits, counters, clock, interrupt, contexts,
                   session, stops, histories>>

PauseKey ==
    /\ pc = "loop" /\ ~interrupt
    /\ context' = "none"
    /\ Poll
    /\ UNCHANGED <<limits, counters, clock, interrupt, lost, session,
                   stops, histories>>

ResumeKey ==
    /\ pc = "loop" /\ ~interrupt
    /\ lost' = (lost \/ context = "enabled")
    /\ \/ context' = "enabled" /\ Poll
       \/ context' = "created" /\ Leave("record_failure") /\ UNCHANGED batch
    /\ UNCHANGED <<limits, counters, clock, interrupt, session, stops,
                   histories>>

-----------------------------------------------------------------------------

(* xnee_record_dispatch: RECORD hands over a datum.  A server event writes  *)
(* the return value of its handler, XNEE_OK, to the interrupt variable.     *)
Handed ==
    /\ pc = "poll" /\ batch < MaxBatch
    /\ context = "enabled" \/ lost
    /\ batch' = batch + 1

(* Mutant of DispatchRefused: the datum is counted before the test.         *)
DispatchRefusedCounted ==
    /\ Handed
    /\ ~MoreToRecord /\ data < MaxData
    /\ AskMore
    /\ data' = data + 1
    /\ UNCHANGED <<pc, limits, events, interrupt, contexts, session,
                   stops, result, after>>

DispatchRefused ==
    /\ Handed
    /\ ~MoreToRecord
    /\ AskMore
    /\ UNCHANGED <<pc, limits, counters, interrupt, contexts, session,
                   stops, result, after>>

(* Mutants of RecordDatum: the dispatch function leaves the test to the     *)
(* loop; the datum is not counted.                                          *)
RecordDatumUnasked ==
    /\ Handed
    /\ data < MaxData
    /\ data' = data + 1
    /\ after' = IF refused THEN after + 1 ELSE after
    /\ UNCHANGED <<clock, refused>>

RecordDatum ==
    /\ Handed
    /\ MoreToRecord /\ data < MaxData
    /\ AskMore
    /\ data' = data + 1
    /\ after' = IF refused THEN after + 1 ELSE after

DispatchEvent ==
    /\ RecordDatum
    /\ events' = events + 1
    /\ interrupt' = FALSE
    /\ UNCHANGED <<pc, limits, contexts, session, stops, result>>

(* Mutant of DispatchOther: every datum writes the interrupt variable.      *)
DispatchOtherResets ==
    /\ RecordDatum
    /\ interrupt' = FALSE
    /\ UNCHANGED <<pc, limits, events, contexts, session, stops, result>>

(* A request, a reply or a notice of RECORD about a client. *)
DispatchOther ==
    /\ RecordDatum
    /\ UNCHANGED <<pc, limits, events, interrupt, contexts, session,
                   stops, result>>

(* Mutant of EndPoll: the loop goes on whatever the answer.                 *)
EndPollAnyway ==
    /\ pc = "poll"
    /\ AskMore
    /\ pc' = "loop"
    /\ UNCHANGED <<limits, counters, interrupt, contexts, batch,
                   session, stops, result, after>>

(* xnee_process_replies returns and the loop asks whether to go on. *)
EndPoll ==
    /\ pc = "poll"
    /\ AskMore
    /\ \/ MoreToRecord /\ pc' = "loop" /\ UNCHANGED result
       \/ ~MoreToRecord /\ Leave("complete")
    /\ UNCHANGED <<limits, counters, interrupt, contexts, batch,
                   session, stops, after>>

(* A second begins. *)
Tick ==
    /\ ticks < MaxTicks
    /\ ticked' = TRUE /\ ticks' = ticks + 1
    /\ UNCHANGED <<pc, limits, counters, time, stamped, interrupt,
                   contexts, batch, session, stops, result, histories>>

(* signal_handler, or a user interface's thread, asks the session to stop.  *)
RequestStop ==
    /\ stops < MaxStops
    /\ stops' = stops + 1
    /\ interrupt' = TRUE
    /\ UNCHANGED <<pc, limits, counters, clock, contexts, batch,
                   session, result, histories>>

Recorder ==
    \/ EnterLoop
    \/ LeaveOnInterrupt \/ StopKey \/ NoKey \/ PauseKey \/ ResumeKey
    \/ DispatchRefused \/ DispatchEvent \/ DispatchOther
    \/ EndPoll

Next == Start \/ Recorder \/ Tick \/ RequestStop

(* The recording thread is scheduled and RECORD returns from a poll; the    *)
(* server need not send, nor the user press a key.                          *)
Spec == Init /\ [][Next]_vars /\ WF_vars(Recorder)

-----------------------------------------------------------------------------

TypeOK ==
    /\ pc \in {"idle", "start", "loop", "poll"}
    /\ limits \in Limits
    /\ events \in 0..data /\ data \in 0..MaxData
    /\ time \in Nat
    /\ stamped \in BOOLEAN /\ ticked \in BOOLEAN /\ interrupt \in BOOLEAN
    /\ refused \in BOOLEAN /\ lost \in BOOLEAN
    /\ context \in {"none", "created", "enabled"}
    /\ batch \in 0..MaxBatch
    /\ session \in 0..MaxSessions
    /\ ticks \in 0..MaxTicks /\ stops \in 0..MaxStops
    /\ after \in Nat
    /\ (pc = "idle") = (result # "running")
    /\ result \in {"running", "complete", "stopped", "interrupted",
                   "record_failure"}

(* A limit is exact: the test and the increments of the dispatch function   *)
(* keep the counters from stepping over a limit on events or data, where    *)
(* the negative rest would count as no limit for the rest of the session.   *)
LimitsKept ==
    /\ limits.events >= 0 => events <= limits.events
    /\ limits.data >= 0 => data <= limits.data

(* A refusal of xnee_more_to_record is final while no limit on time is set: *)
(* nothing the server sends afterwards is recorded.                         *)
RefusalFinal == limits.time < 0 => after = 0

(* A session that ends by itself has reached one of its limits. *)
CompleteEarned ==
    result = "complete" /\ session > 0 =>
        \/ events = limits.events \/ data = limits.data
        \/ time = limits.time

(* Between its setting and the end of the session, a request to stop is     *)
(* dropped by nothing but the recording of an event, which consumes one     *)
(* datum of the limits.                                                     *)
DroppedByEventOnly ==
    [][interrupt /\ ~interrupt' =>
        pc' = "idle" \/ events' = events + 1]_vars

(* A session whose limit on events is reached ends, though the server goes  *)
(* on sending and keys are pressed.                                         *)
LimitEnds ==
    (pc # "idle" /\ limits.events >= 0 /\ events = limits.events)
        ~> pc = "idle"

=============================================================================
