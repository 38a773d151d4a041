---------------------------- MODULE ReplayOrder ----------------------------
(***************************************************************************)
(* What a replayer promises its user, whatever its synchronisation does.   *)
(*                                                                         *)
(* A session replays one file.  It fakes the events that the file asks     *)
(* for, in the order of the file and each of them once; and a session that *)
(* reports success without having been told to stop has faked them all.    *)
(* Replay is shown to implement this specification.                        *)
(***************************************************************************)
EXTENDS Naturals, Sequences

CONSTANTS
    Files,           \* the session files
    Options,         \* the settings a session may be started with
    Events(_, _, _), \* what file f with settings o asks session s to fake
    MaxSessions      \* bound: sessions of one process

VARIABLES
    session,         \* number of the session that runs, or ran last
    due,             \* what it has to fake
    out,             \* what it has faked
    result           \* how it ended, "running" while it runs

vars == <<session, due, out, result>>

Endings == {"complete", "stopped", "interrupted", "error", "synch_fault",
            "syntax_error", "record_failure"}

Init == session = 0 /\ due = <<>> /\ out = <<>> /\ result = "complete"

Begin(f, o) ==
    /\ result # "running" /\ session < MaxSessions
    /\ session' = session + 1
    /\ due' = Events(f, o, session')
    /\ out' = <<>>
    /\ result' = "running"

Fake ==
    /\ result = "running"
    /\ Len(out) < Len(due)
    /\ out' = Append(out, due[Len(out) + 1])
    /\ UNCHANGED <<session, due, result>>

End(how) ==
    /\ result = "running"
    /\ how = "complete" => out = due
    /\ result' = how
    /\ UNCHANGED <<session, due, out>>

Next ==
    \/ \E f \in Files, o \in Options : Begin(f, o)
    \/ Fake
    \/ \E how \in Endings : End(how)

(* A session is never left running: it fakes its events or ends early. *)
Spec == Init /\ [][Next]_vars /\ WF_vars(Fake \/ \E how \in Endings : End(how))
=============================================================================
