------------------------------- MODULE Replay -------------------------------
(***************************************************************************)
(* The replayer: xnee_replay_main_loop and xnee_replay_synchronize         *)
(* (libxnee/src/xnee_replay.c), composed with the synchronisation buffer.  *)
(*                                                                         *)
(* One process runs several sessions, one after the other, as gnee, pnee   *)
(* and the library's callers do; the static variables of xnee_replay.c     *)
(* survive from one session to the next.  A session reads its META lines,  *)
(* initialises the buffer, sets up RECORD and then handles the file line   *)
(* by line: a device event waits until the buffer is in sync and is then   *)
(* faked, a datum goes to the buffer, a script primitive is faked as soon  *)
(* as it is read.  A signal handler or another thread may ask the session  *)
(* to stop at any time (the interrupt variable), the user may press the    *)
(* grabbed keys, and the X server sends data whenever RECORD is polled.    *)
(***************************************************************************)
EXTENDS Integers, Sequences

CONSTANTS
    Data, XIBase, MaxThr, MinThr, TotThr, HardPeriod, MaxCount,
    Files,        \* the session files: sequences of lines [kind, datum]
    Options,      \* the settings a session may be started with:
                  \*   sync    xd->sync
                  \*   force   xnee_is_force_replay
                  \*   core    xnee_is_forced_core_device_events
    XInput,       \* built with XNEE_XINPUT_SUPPORT
    MaxSkipped,   \* MAX_SKIPPED_UNSYNC (10 in the code)
    MaxSessions,  \* bound: sessions of one process
    MaxStops      \* bound: requests to stop, over all sessions

(* An event faked with XTest core requests, XI slave and master events, a   *)
(* datum to synchronise with, a script primitive, a comment (META_DATA), a  *)
(* setting or action, and a line only the replay phase accepts.             *)
DeviceKinds == {"core", "slave", "master"}
Kinds == DeviceKinds \cup {"datum", "prim", "comment", "setting", "window"}

ASSUME FilesAssumption ==
    /\ Files \subseteq Seq([kind : Kinds, datum : Data \cup {<<>>}])
    /\ \A f \in Files :
        \A i \in DOMAIN f : f[i].kind = "datum" => f[i].datum \in Data
ASSUME LimitAssumption ==
    /\ MaxSkipped \in Nat /\ TotThr \in Int
    /\ MaxSessions \in Nat /\ MaxStops \in Nat
ASSUME OptionsAssumption ==
    /\ Options \subseteq [sync : BOOLEAN, force : BOOLEAN, core : BOOLEAN]
    /\ XInput \in BOOLEAN

VARIABLES
    buf, cached_max, cached_min, total_diff, sum_max, sum_min,
    upd_ctr, verdict, checked, read, seen, missed,
    pc,                \* where the replaying thread is
    session, file,     \* number and file of the session
    opts,              \* its settings
    pos,               \* position of the next line fgets returns
    tmp,               \* the static line buffer of the main loop
    diff_counter,      \* failed checks since the last time-out
    time_out_counter,  \* time-outs since the buffer was in sync
    interrupt,         \* xnee_info.interrupt is not XNEE_OK
    stops,             \* requests to stop so far
    out,               \* history: what the session faked
    result,            \* history: how the session ended
    waits,             \* history: waits since a check was in sync
    late,              \* history: events faked since the request to stop
    skips              \* history: events in a row faked on a time-out

bufferVars == <<buf, cached_max, cached_min, total_diff, sum_max, sum_min,
                upd_ctr, verdict, checked, read, seen, missed>>
syncVars   == <<diff_counter, time_out_counter, waits, skips>>
stopVars   == <<interrupt, stops>>
fileVars   == <<session, file, opts, pos, tmp>>
vars == <<bufferVars, pc, fileVars, syncVars, stopVars, out, result, late>>

Buffer == INSTANCE SyncBuffer

-----------------------------------------------------------------------------

(* What tmp holds: line number n of the file of session s. *)
Line(s, n, l) == [session |-> s, nr |-> n, line |-> l]
Blank == Line(0, 0, [kind |-> "window", datum |-> <<>>])

(* The lines that end the META phase: xnee_expression_handle_project takes  *)
(* no XI event line ('6', '7') and no NEW-WINDOW line for replay data.      *)
EndsMeta(l)    == l.kind \in {"core", "datum", "prim"}
SyntaxError(l) == l.kind \in {"slave", "master", "window"}

(* The device events xnee_replay_event_handler passes on to XTest. *)
FakedKinds(o) == IF ~XInput THEN {"core"}
                 ELSE IF o.core THEN {"core", "slave"}
                 ELSE {"slave"}

(* Mutant of SyncedKinds: forced core events forget the slave events.       *)
SyncedCoreOnly ==
    IF ~XInput \/ opts.core THEN {"core"} ELSE DeviceKinds

(* The lines the main loop treats as device events: without XInput support  *)
(* XI lines are not recognised, and forced core events skip masters.        *)
SyncedKinds == IF ~XInput THEN {"core"}
               ELSE IF opts.core THEN {"core", "slave"}
               ELSE DeviceKinds

(* What session s has to fake for file f with settings o: of the first n    *)
(* lines, and of all of them.                                               *)
Asks(l, o) == l.kind \in FakedKinds(o) \cup {"prim"}
AskedBy(f, o, s) ==
    LET asked[n \in 0..Len(f)] ==
          IF n = 0 THEN <<>>
          ELSE IF Asks(f[n], o)
               THEN Append(asked[n - 1], [session |-> s, nr |-> n])
               ELSE asked[n - 1]
    IN  asked
Events(f, o, s) == AskedBy(f, o, s)[Len(f)]

Promise == INSTANCE ReplayOrder WITH due <- Events(file, opts, session)

-----------------------------------------------------------------------------

Init ==
    /\ Buffer!Init
    /\ pc = "idle" /\ session = 0 /\ file = <<>> /\ pos = 1 /\ tmp = Blank
    /\ opts \in Options
    /\ diff_counter = 0 /\ time_out_counter = 0
    /\ interrupt = FALSE /\ stops = 0
    /\ out = <<>> /\ result = "complete"
    /\ waits = 0 /\ late = 0 /\ skips = 0

(* The session is over: xnee_replay_main_loop returns. *)
EndSession(how) == pc' = "idle" /\ result' = how

(* The line of t is sent to XTest. *)
Emit(t) ==
    /\ out' = Append(out, [session |-> t.session, nr |-> t.nr])
    /\ late' = IF interrupt THEN late + 1 ELSE late

(* xnee_expression_handle_session: a script primitive is faked at once. *)
HandleSession(t) ==
    IF t.line.kind = "prim" THEN Emit(t) ELSE UNCHANGED <<out, late>>

(* Mutant of ResetCounters: time_out_counter is forgotten.                  *)
ResetDiffOnly ==
    diff_counter' = 0 /\ UNCHANGED time_out_counter

ResetCounters ==
    diff_counter' = 0 /\ time_out_counter' = 0

(* xnee_start of a replayer, up to its META phase. *)
BeginSession ==
    /\ pc = "idle" /\ session < MaxSessions
    /\ \E f \in Files : file' = f
    /\ \E o \in Options : opts' = o
    /\ session' = session + 1
    /\ pos' = 1
    /\ pc' = "meta" /\ result' = "running" /\ out' = <<>>
    /\ waits' = 0 /\ skips' = 0
    /\ UNCHANGED <<bufferVars, tmp, diff_counter, time_out_counter,
                   stopVars, late>>

(* The META phase reads up to the first replayable line.  Its last fgets    *)
(* leaves the line it read in tmp; at the end of the file tmp keeps what    *)
(* it held, and the function returns before the counters are reset.  Then   *)
(* xnee_rep_prepare initialises the buffer.                                 *)
MetaStops(n) ==
    /\ n \in 1..Len(file) + 1
    /\ \A i \in 1..(n - 1) : ~EndsMeta(file[i]) /\ ~SyntaxError(file[i])
    /\ n <= Len(file) => EndsMeta(file[n]) \/ SyntaxError(file[n])

ReadMeta ==
    /\ pc = "meta"
    /\ \E n \in 1..Len(file) + 1 :
        /\ MetaStops(n)
        /\ pos' = n + 1
        /\ \/ /\ n <= Len(file) /\ EndsMeta(file[n])
              /\ tmp' = Line(session, n, file[n])
              /\ ResetCounters
              /\ Buffer!ReplayInit
              /\ pc' = "setup" /\ UNCHANGED result
           \/ /\ n <= Len(file) /\ SyntaxError(file[n])
              /\ tmp' = Line(session, n, file[n])
              /\ EndSession("syntax_error")
              /\ UNCHANGED <<bufferVars, diff_counter, time_out_counter>>
           \/ /\ n > Len(file)
              /\ tmp' = IF n = 1 THEN tmp
                        ELSE Line(session, n - 1, file[n - 1])
              /\ Buffer!ReplayInit
              /\ pc' = "setup"
              /\ UNCHANGED <<diff_counter, time_out_counter, result>>
    /\ UNCHANGED <<session, file, opts, stopVars, out, waits, late, skips>>

(* xnee_setup_rep_recording, which may fail, and the handling of the line   *)
(* the META phase stopped at.                                               *)
Setup ==
    /\ pc = "setup"
    /\ HandleSession(tmp)
    /\ pc' = "line"
    /\ UNCHANGED <<bufferVars, fileVars, syncVars, stopVars, result>>

SetupFails ==
    /\ pc = "setup" /\ opts.sync
    /\ EndSession("record_failure")
    /\ UNCHANGED <<bufferVars, fileVars, syncVars, stopVars, out, late>>

(* A comment line is passed over: neither the interrupt nor the keys are    *)
(* looked at.                                                               *)
SkipComment ==
    /\ pc = "line" /\ tmp.line.kind = "comment"
    /\ pc' = "read"
    /\ UNCHANGED <<bufferVars, fileVars, syncVars, stopVars, out, result,
                   late>>

(* The interrupt variable is set: it is cleared and the loop is left. *)
LeaveOnInterrupt ==
    /\ pc = "line" /\ tmp.line.kind # "comment"
    /\ interrupt
    /\ interrupt' = FALSE /\ late' = 0
    /\ EndSession("interrupted")
    /\ UNCHANGED <<bufferVars, fileVars, syncVars, stops, out>>

(* A grabbed key is found pressed: STOP leaves the loop; RESUME enables     *)
(* the RECORD context again and leaves it when that call returns non-zero.  *)
LeaveOnKey ==
    /\ pc = "line" /\ tmp.line.kind # "comment"
    /\ ~interrupt
    /\ EndSession("stopped") \/ EndSession("error")
    /\ UNCHANGED <<bufferVars, fileVars, syncVars, stopVars, out, late>>

(* The switch on the type of the line. *)
HandleDatum ==
    /\ pc = "line" /\ ~interrupt
    /\ tmp.line.kind = "datum"
    /\ IF Buffer!Bufferable(tmp.line.datum)
       THEN Buffer!Replayed(tmp.line.datum)
       ELSE UNCHANGED bufferVars
    /\ pc' = "read"
    /\ UNCHANGED <<fileVars, syncVars, stopVars, out, result, late>>

(* Mutant of HandleDevice: device lines do not look at the interrupt.       *)
HandleDeviceDeaf ==
    /\ pc = "line"
    /\ tmp.line.kind \in SyncedKinds
    /\ pc' = IF opts.sync THEN "process" ELSE "fake"
    /\ UNCHANGED <<bufferVars, fileVars, syncVars, stopVars, out, result,
                   late>>

HandleDevice ==
    /\ pc = "line" /\ ~interrupt
    /\ tmp.line.kind \in SyncedKinds
    /\ pc' = IF opts.sync THEN "process" ELSE "fake"
    /\ UNCHANGED <<bufferVars, fileVars, syncVars, stopVars, out, result,
                   late>>

HandleOther ==
    /\ pc = "line" /\ ~interrupt
    /\ tmp.line.kind \notin SyncedKinds \cup {"datum", "comment"}
    /\ pc' = "read"
    /\ UNCHANGED <<bufferVars, fileVars, syncVars, stopVars, out, result,
                   late>>

-----------------------------------------------------------------------------

(* xnee_process_replies polls RECORD: the X server hands over any number of *)
(* pending data, each to xnee_replay_dispatch.                              *)
Dispatch ==
    /\ pc = "process"
    /\ \E d \in Data : seen[d] < MaxCount /\ Buffer!Received(d)
    /\ UNCHANGED <<pc, fileVars, syncVars, stopVars, out, result, late>>

(* One round of the loop of xnee_replay_synchronize after the replies are   *)
(* processed.  The loop refreshes the caches before it checks the limits;   *)
(* the check refreshes them again, so its own refresh is the one that       *)
(* shows.  The four outcomes follow.                                        *)
InSync ==
    /\ verdict' = 0
    /\ ResetCounters
    /\ waits' = 0 /\ skips' = 0
    /\ pc' = "fake" /\ UNCHANGED result

(* A difference, but both caches are strictly inside their limits. *)
WithinLimits == cached_min' > MinThr /\ cached_max' < MaxThr

PassByTotal ==
    /\ verdict' # 0 /\ WithinLimits
    /\ pc' = "fake"
    /\ UNCHANGED <<syncVars, result>>

(* Mutant of Wait: the failed check is not counted.                         *)
WaitUncounted ==
    /\ verdict' # 0 /\ ~WithinLimits
    /\ diff_counter + 1 < TotThr
    /\ UNCHANGED <<pc, syncVars, result>>

Wait ==
    /\ verdict' # 0 /\ ~WithinLimits
    /\ diff_counter + 1 < TotThr
    /\ diff_counter' = diff_counter + 1
    /\ waits' = waits + 1
    /\ UNCHANGED <<pc, time_out_counter, skips, result>>

(* Mutant of TimeOut: the counter is tested before it is incremented.       *)
TimeOutTestedFirst ==
    /\ verdict' # 0 /\ ~WithinLimits
    /\ diff_counter + 1 >= TotThr
    /\ diff_counter' = 0
    /\ time_out_counter' = time_out_counter + 1
    /\ waits' = waits + 1
    /\ IF time_out_counter > MaxSkipped /\ ~opts.force
       THEN EndSession("synch_fault") /\ UNCHANGED skips
       ELSE pc' = "fake" /\ skips' = skips + 1 /\ UNCHANGED result

TimeOut ==
    /\ verdict' # 0 /\ ~WithinLimits
    /\ diff_counter + 1 >= TotThr
    /\ diff_counter' = 0
    /\ time_out_counter' = time_out_counter + 1
    /\ waits' = waits + 1
    /\ IF time_out_counter + 1 > MaxSkipped /\ ~opts.force
       THEN EndSession("synch_fault") /\ UNCHANGED skips
       ELSE pc' = "fake" /\ skips' = skips + 1 /\ UNCHANGED result

Synchronize ==
    /\ pc = "process"
    /\ Buffer!CheckBufferLimits
    /\ InSync \/ PassByTotal \/ Wait \/ TimeOut
    /\ UNCHANGED <<fileVars, stopVars, out, late>>

(* xnee_replay_event_handler *)
FakeEvent ==
    /\ pc = "fake"
    /\ IF tmp.line.kind \in FakedKinds(opts) THEN Emit(tmp)
                                       ELSE UNCHANGED <<out, late>>
    /\ pc' = "read"
    /\ UNCHANGED <<bufferVars, fileVars, syncVars, stopVars, result>>

(* The next line, and the end of the file. *)
ReadLine ==
    /\ pc = "read" /\ pos <= Len(file)
    /\ tmp' = Line(session, pos, file[pos])
    /\ pos' = pos + 1
    /\ HandleSession(tmp')
    /\ pc' = "line"
    /\ UNCHANGED <<bufferVars, session, file, opts, syncVars, stopVars, result>>

EndOfFile ==
    /\ pc = "read" /\ pos > Len(file)
    /\ ResetCounters
    /\ EndSession("complete")
    /\ UNCHANGED <<bufferVars, fileVars, stopVars, out, waits, late, skips>>

(* signal_handler, or a user interface's thread, asks the session to stop.  *)
RequestStop ==
    /\ stops < MaxStops
    /\ stops' = stops + 1
    /\ interrupt' = TRUE
    /\ late' = IF interrupt THEN late ELSE 0
    /\ UNCHANGED <<bufferVars, pc, fileVars, syncVars, out, result>>

-----------------------------------------------------------------------------

Replayer ==
    \/ ReadMeta \/ Setup \/ SetupFails
    \/ SkipComment \/ LeaveOnInterrupt \/ LeaveOnKey
    \/ HandleDatum \/ HandleDevice \/ HandleOther
    \/ Dispatch \/ Synchronize
    \/ FakeEvent \/ ReadLine \/ EndOfFile

Next == BeginSession \/ Replayer \/ RequestStop

(* The replaying thread is scheduled; nothing forces the X server to send,  *)
(* the user to start a session or anyone to stop one.                       *)
Spec == Init /\ [][Next]_vars /\ WF_vars(Replayer)

-----------------------------------------------------------------------------

(* The buffer's own types are those of SyncBuffer.                          *)
TypeOK ==
    /\ pc \in {"idle", "meta", "setup", "line", "process", "fake", "read"}
    /\ session \in 0..MaxSessions
    /\ opts \in Options
    /\ pos \in Nat \ {0}
    /\ diff_counter \in Nat /\ time_out_counter \in Nat
    /\ interrupt \in BOOLEAN /\ stops \in 0..MaxStops
    /\ result \in Promise!Endings \cup {"running"}
    /\ (pc = "idle") = (result # "running")
    /\ waits \in Nat /\ late \in Nat /\ skips \in Nat

(* A session gives up only after MaxSkipped + 1 full time-outs of failed    *)
(* checks with not one check in sync between them, although the counters    *)
(* are static, are left alone by the early returns and are reset by the     *)
(* META phase of the next session.                                          *)
FaultEarned ==
    result = "synch_fault" => waits >= (MaxSkipped + 1) * TotThr

(* While a replay is not forced, at most MaxSkipped device events in a row  *)
(* are faked on a time-out, out of sync.                                    *)
SkipsBounded == ~opts.force => skips <= MaxSkipped

(* A request to stop is honoured within two faked events, even across the   *)
(* end of a session: one that was past the test of the interrupt variable,  *)
(* possibly waiting for sync, and a primitive that the reading of the next  *)
(* line fakes before the test.                                              *)
StopPrompt == late <= 2

(* The replayer implements the promise: its events are those of the file,   *)
(* in order, each once, and all of them when it ends by itself.             *)
KeepsPromise == Promise!Spec

(* No session hangs: the synchronisation loop gives up on a server that     *)
(* never sends, and every early return ends the session.                    *)
SessionsEnd == pc # "idle" ~> pc = "idle"

=============================================================================
