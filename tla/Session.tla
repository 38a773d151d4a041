------------------------------ MODULE Session ------------------------------
(***************************************************************************)
(* What a session takes from the user and gives back: the auto-repeat of   *)
(* the keyboard, the grabbed keys, the display connections and the handler *)
(* of X errors.  xnee_start (libxnee/src/xnee.c), xnee_prepare,            *)
(* xnee_rep_prepare, xnee_close_down and signal_handler (xnee_session.c),  *)
(* xnee_setup_display (xnee_display.c), the grabs (xnee_grab.c, xnee_km.c) *)
(* and xnee_renew_xnee_data (xnee_alloc.c).                                *)
(*                                                                         *)
(* Auto-repeat belongs to the X server and outlives the program; grabs do  *)
(* not.  Every step of a session may fail, and then xnee_start returns at  *)
(* once.  cnee runs one session and exits, and closes down only if it was  *)
(* good; gnee runs any number and closes down when it is left.  SIGINT may *)
(* come between any two steps.                                             *)
(*                                                                         *)
(* What the loops do besides is in Record and Replay; files are opened or  *)
(* not.  Key names are names X knows, and the user leaves auto-repeat      *)
(* alone while the program runs.                                           *)
(***************************************************************************)
EXTENDS Integers

CONSTANTS
    FrontEnds,   \* subset of {"cnee", "gnee"}
    Keys,        \* actions that may have a key: STOP, PAUSE, ...
    Stop,        \* the one that ends a session
    MaxSessions, \* bound: sessions of a process
    MaxSignals,  \* bound: SIGINTs
    MaxErrors    \* bound: X errors

ASSUME FrontEndsAssumption == FrontEnds \subseteq {"cnee", "gnee"}
ASSUME StopAssumption == Stop \in Keys
ASSUME BoundAssumption ==
    MaxSessions \in Nat /\ MaxSignals \in Nat /\ MaxErrors \in Nat

Modes == {"recorder", "replayer", "retyper", "none", "checker"}

VARIABLES
    front,     \* the front end
    pc,        \* where the process is
    mode,      \* xd->mode
    keep,      \* xd->keep_autorepeat
    displays,  \* the open ones of xd->data, control, fake and grab
    wanted,    \* actions that have a key name: action_keys[].str
    action,    \* actions whose key is known: action_keys[].key is not 0
    grabbed,   \* actions whose key is grabbed at the server
    left,      \* actions that the loop of xnee_grab_all_keys has still ahead
    repeat,    \* auto-repeat of the server is on
    users,     \* history: the user had it on
    saved,     \* xd->autorepeat_saved
    orig,      \* xd->kbd_orig.global_auto_repeat is on
    handler,   \* the X error handler: "program", "grab" or "ungrab"
    interrupt, \* the interrupt variable: "ok", "leave" or "error"
    result,    \* what the last xnee_start returned, "ok" or "error"
    session, signals, errors  \* counters for the bounds
keyboard == <<repeat, users, saved, orig>>
grabs == <<wanted, action, grabbed, left, handler>>
bounds == <<session, signals, errors>>
vars == <<front, pc, mode, keep, displays, grabs, keyboard, interrupt,
          result, bounds>>

Init ==
    /\ front \in FrontEnds
    /\ pc = "idle" /\ mode = "none" /\ keep = FALSE
    /\ displays = {}
    /\ wanted = {} /\ action = {} /\ grabbed = {} /\ left = {}
    /\ users \in BOOLEAN /\ repeat = users
    /\ saved = FALSE /\ orig = FALSE
    /\ handler = "program" /\ interrupt = "ok"
    /\ result = "ok"
    /\ session = 0 /\ signals = 0 /\ errors = 0

-----------------------------------------------------------------------------

(* xnee_start returns an error, and leaves everything as it is.             *)
Fail == pc' = "idle" /\ result' = "error"

Goto(there) == pc' = there /\ UNCHANGED result

(* xnee_reset_autorepeat                                                    *)
ResetAutorepeat ==
    IF saved /\ ~keep /\ "fake" \in displays
      THEN repeat' = orig /\ saved' = FALSE /\ UNCHANGED <<users, orig>>
      ELSE UNCHANGED keyboard

(* xnee_ungrab_keys: one key that is known makes all of them be ungrabbed.  *)
UngrabKeys ==
    IF action # {} /\ "grab" \in displays
      THEN action' = {} /\ grabbed' = {}
      ELSE UNCHANGED <<action, grabbed>>

(* The front end sets the mode and the keys, and calls xnee_start.  gnee    *)
(* sets the keys only for a recording, and never keep-autorepeat, which an  *)
(* option of cnee sets.  A syntax checker is done at once.                  *)
Begin ==
    /\ pc = "idle" /\ session < MaxSessions
    /\ front = "cnee" => session = 0
    /\ session' = session + 1
    /\ mode' \in IF front = "cnee" THEN Modes ELSE {"recorder", "replayer"}
    /\ keep' \in IF front = "cnee" THEN BOOLEAN ELSE {keep}
    /\ IF front = "gnee" /\ mode' = "replayer"
         THEN UNCHANGED wanted
         ELSE \E k \in SUBSET Keys : wanted' = wanted \cup k
    /\ IF mode' = "checker" THEN pc' = "idle" /\ result' = "ok"
                            ELSE Goto("files")
    /\ UNCHANGED <<front, displays, action, grabbed, left, handler, keyboard,
                   interrupt, signals, errors>>

(* xnee_open_files                                                          *)
OpenFiles ==
    /\ pc = "files"
    /\ Goto("displays") \/ Fail
    /\ UNCHANGED <<front, mode, keep, displays, grabs, keyboard, interrupt,
                   bounds>>

(* xnee_setup_display: the data display is opened if it is not, the others  *)
(* are closed and opened anew.  Where one cannot be opened it is NULL, and  *)
(* those after it stay as they are.                                         *)
SetupDisplay(then) ==
    \/ displays' = displays \cup {"data", "control", "fake"} /\ Goto(then)
    \/ "data" \notin displays /\ UNCHANGED displays /\ Fail
    \/ displays' = (displays \cup {"data"}) \ {"control"} /\ Fail
    \/ displays' = (displays \cup {"data", "control"}) \ {"fake"} /\ Fail

SetupDisplays ==
    /\ pc = "displays"
    /\ SetupDisplay(IF mode = "replayer" THEN "meta" ELSE "again")
    /\ UNCHANGED <<front, mode, keep, grabs, keyboard, interrupt, bounds>>

(* The header of the session file is read; an error in it fails.            *)
ReadMeta ==
    /\ pc = "meta"
    /\ Goto("again") \/ Fail
    /\ UNCHANGED <<front, mode, keep, displays, grabs, keyboard, interrupt,
                   bounds>>

(* The displays once more, and xnee_setup_recordext, which fails for a      *)
(* recorder that records nothing.                                           *)
SetupAgain ==
    /\ pc = "again"
    /\ \/ SetupDisplay("repeat")
       \/ mode = "recorder" /\ Fail
          /\ displays' = displays \cup {"data", "control", "fake"}
    /\ UNCHANGED <<front, mode, keep, grabs, keyboard, interrupt, bounds>>

(* Mutant of SetAutorepeat: it does not ask whether the mode was saved.     *)
SetAlways ==
    /\ pc = "repeat"
    /\ IF keep
         THEN UNCHANGED keyboard
         ELSE orig' = repeat /\ repeat' = FALSE /\ saved' = TRUE
              /\ UNCHANGED users
    /\ Goto("grab")
    /\ UNCHANGED <<front, mode, keep, displays, grabs, interrupt, bounds>>

(* xnee_set_autorepeat; the fake display is open.                           *)
SetAutorepeat ==
    /\ pc = "repeat"
    /\ IF saved \/ keep
         THEN UNCHANGED keyboard
         ELSE orig' = repeat /\ repeat' = FALSE /\ saved' = TRUE
              /\ UNCHANGED users
    /\ Goto("grab")
    /\ UNCHANGED <<front, mode, keep, displays, grabs, interrupt, bounds>>

(* Mutant of OpenGrab: the interrupt variable is cleared before.            *)
OpenGrabAfresh ==
    /\ pc = "grab"
    /\ \/ Fail /\ handler' = "ungrab" /\ UNCHANGED <<displays, left>>
       \/ /\ displays' = displays \cup {"grab"} /\ handler' = "grab"
          /\ left' = Keys /\ Goto("keys")
    /\ interrupt' = "ok"
    /\ UNCHANGED <<front, mode, keep, wanted, action, grabbed, keyboard,
                   bounds>>

(* xnee_grab_all_keys saves the error handler after it has replaced it, and *)
(* so leaves another behind.  It fails where two actions have one key, or   *)
(* without a display.                                                       *)
OpenGrab ==
    /\ pc = "grab"
    /\ \/ Fail /\ handler' = "ungrab" /\ UNCHANGED <<displays, left>>
       \/ /\ displays' = displays \cup {"grab"} /\ handler' = "grab"
          /\ left' = Keys /\ Goto("keys")
    /\ UNCHANGED <<front, mode, keep, wanted, action, grabbed, keyboard,
                   interrupt, bounds>>

(* Its loop: the key of each action is looked up and grabbed, if it has a   *)
(* name.  A key another program has grabbed is refused, and the handler of  *)
(* that error sets the interrupt variable.                                  *)
GrabKey(k) ==
    /\ pc = "keys" /\ k \in left
    /\ left' = left \ {k}
    /\ IF k \in wanted
         THEN /\ action' = action \cup {k}
              /\ \/ grabbed' = grabbed \cup {k} /\ UNCHANGED interrupt
                 \/ /\ k \notin grabbed /\ interrupt' = "error"
                    /\ UNCHANGED grabbed
         ELSE action' = action \ {k} /\ UNCHANGED <<grabbed, interrupt>>
    /\ UNCHANGED <<front, pc, mode, keep, displays, wanted, handler,
                   keyboard, result, bounds>>

GrabAllKeys ==
    /\ pc = "keys" /\ left = {}
    /\ handler' = "ungrab" /\ Goto("mode")
    /\ UNCHANGED <<front, mode, keep, displays, wanted, action, grabbed, left,
                   keyboard, interrupt, bounds>>

(* xnee_start up to the loop: a recorder may have no data chosen, an        *)
(* extension may be missing, the recording cannot be set up, or there is    *)
(* nothing to record; without a mode there is nothing to do.  A retyper     *)
(* types its file and is done.                                              *)
StartMode ==
    /\ pc = "mode"
    /\ \/ mode \in {"recorder", "replayer"} /\ Goto("loop")
       \/ mode \in {"recorder", "retyper"} /\ Goto("good")
       \/ mode \in {"recorder", "replayer", "none"} /\ Fail
    /\ UNCHANGED <<front, mode, keep, displays, grabs, keyboard, interrupt,
                   bounds>>

-----------------------------------------------------------------------------

(* The loop finds the interrupt variable set.  A recorder calls             *)
(* xnee_stop_session and returns its value, which is an error unless the    *)
(* user asked to stop; a replayer returns XNEE_OK.                          *)
LeaveOnInterrupt ==
    /\ pc = "loop" /\ interrupt # "ok"
    /\ interrupt' = "ok"
    /\ IF mode = "recorder"
         THEN /\ ResetAutorepeat
              /\ IF interrupt = "error" THEN Fail ELSE Goto("good")
         ELSE Goto("good") /\ UNCHANGED keyboard
    /\ UNCHANGED <<front, mode, keep, displays, grabs, bounds>>

(* The key of STOP, or, for a recorder, a limit, or the end of the file.    *)
LeaveLoop ==
    /\ pc = "loop"
    /\ Goto("good")
    /\ IF mode = "recorder" THEN ResetAutorepeat ELSE UNCHANGED keyboard
    /\ UNCHANGED <<front, mode, keep, displays, grabs, interrupt, bounds>>

(* The context cannot be enabled, RECORD fails, the file is out of sync.    *)
LoopFails ==
    /\ pc = "loop"
    /\ Fail
    /\ UNCHANGED <<front, mode, keep, displays, grabs, keyboard, interrupt,
                   bounds>>

(* A recorded event writes XNEE_OK to the interrupt variable.               *)
RecordEvent ==
    /\ pc = "loop" /\ mode = "recorder"
    /\ interrupt' = "ok"
    /\ UNCHANGED <<front, pc, mode, keep, displays, grabs, keyboard, result,
                   bounds>>

(* An X error arrives, from a window that is gone for instance.             *)
XError ==
    /\ pc = "loop" /\ errors < MaxErrors
    /\ errors' = errors + 1
    /\ interrupt' = IF handler = "program" THEN interrupt ELSE "error"
    /\ UNCHANGED <<front, pc, mode, keep, displays, grabs, keyboard, result,
                   session, signals>>

(* Mutant of EndGood: only the key of STOP is given back.                   *)
EndGoodStop ==
    /\ pc = "good"
    /\ grabbed' = grabbed \ {Stop}
    /\ ResetAutorepeat
    /\ wanted' = {} /\ action' = {}
    /\ pc' = "idle" /\ result' = "ok"
    /\ UNCHANGED <<front, mode, keep, displays, left, handler, interrupt,
                   bounds>>

(* The good end: the keys are ungrabbed, auto-repeat reset and the data of  *)
(* the session renewed, and with it the names of the keys forgotten.        *)
EndGood ==
    /\ pc = "good"
    /\ IF action # {} /\ "grab" \in displays
         THEN grabbed' = {} ELSE UNCHANGED grabbed
    /\ ResetAutorepeat
    /\ wanted' = {} /\ action' = {}
    /\ pc' = "idle" /\ result' = "ok"
    /\ UNCHANGED <<front, mode, keep, displays, left, handler, interrupt,
                   bounds>>

(* signal_handler for SIGINT, of the process whose data is allocated.       *)
Signal ==
    /\ pc # "over" /\ signals < MaxSignals
    /\ signals' = signals + 1
    /\ UngrabKeys
    /\ ResetAutorepeat
    /\ interrupt' = "leave"
    /\ UNCHANGED <<front, pc, mode, keep, displays, wanted, left, handler,
                   result, session, errors>>

(* Mutant of CloseDown: the displays are closed before auto-repeat is reset.*)
CloseDisplaysFirst ==
    /\ pc = "idle" /\ session > 0
    /\ front = "cnee" => result = "ok"
    /\ action' = {} /\ wanted' = {} /\ grabbed' = {}
    /\ displays' = {}
    /\ pc' = "over"
    /\ UNCHANGED <<front, mode, keep, left, handler, keyboard, interrupt,
                   result, bounds>>

(* xnee_close_down and the exit of the process, whose grabs end with it.    *)
CloseDown ==
    /\ pc = "idle" /\ session > 0
    /\ front = "cnee" => result = "ok"
    /\ ResetAutorepeat
    /\ action' = {} /\ wanted' = {} /\ grabbed' = {}
    /\ displays' = {}
    /\ pc' = "over"
    /\ UNCHANGED <<front, mode, keep, left, handler, interrupt, result,
                   bounds>>

(* main of cnee returns the error of xnee_start.                            *)
ExitWithError ==
    /\ pc = "idle" /\ session > 0
    /\ front = "cnee" /\ result = "error"
    /\ action' = {} /\ wanted' = {} /\ grabbed' = {}
    /\ displays' = {}
    /\ pc' = "over"
    /\ UNCHANGED <<front, mode, keep, left, handler, keyboard, interrupt,
                   result, bounds>>

Prepare == OpenFiles \/ SetupDisplays \/ ReadMeta \/ SetupAgain
             \/ SetAutorepeat \/ OpenGrab \/ (\E k \in Keys : GrabKey(k))
             \/ GrabAllKeys \/ StartMode

Next ==
    \/ Begin \/ Prepare
    \/ LeaveOnInterrupt \/ LeaveLoop \/ LoopFails \/ RecordEvent \/ XError
    \/ EndGood
    \/ Signal \/ CloseDown \/ ExitWithError

Spec == Init /\ [][Next]_vars

(* The program runs; the user need not start or leave anything, nor the     *)
(* loop end if nothing asks it to.                                          *)
FairSpec == Spec /\ WF_vars(Prepare \/ EndGood)
                 /\ WF_vars(mode = "replayer" /\ LeaveOnInterrupt)

-----------------------------------------------------------------------------

TypeOK ==
    /\ front \in FrontEnds
    /\ pc \in {"idle", "files", "displays", "meta", "again", "repeat",
               "grab", "keys", "mode", "loop", "good", "over"}
    /\ mode \in Modes
    /\ displays \subseteq {"data", "control", "fake", "grab"}
    /\ wanted \subseteq Keys /\ action \subseteq Keys
    /\ grabbed \subseteq Keys /\ left \subseteq Keys
    /\ keep \in BOOLEAN /\ saved \in BOOLEAN
    /\ repeat \in BOOLEAN /\ users \in BOOLEAN /\ orig \in BOOLEAN
    /\ handler \in {"program", "grab", "ungrab"}
    /\ interrupt \in {"ok", "leave", "error"}
    /\ result \in {"ok", "error"}
    /\ session \in 0..MaxSessions /\ signals \in 0..MaxSignals
    /\ errors \in 0..MaxErrors

(* Whatever failed or was interrupted, and however many sessions ago: as    *)
(* long as the auto-repeat of the server is not what the user had, the      *)
(* program still knows what that was.                                       *)
RepeatKnown == repeat # users => saved /\ orig = users

(* A process that closes down gives the user's auto-repeat back, though it  *)
(* may be an error of an earlier session that left it off, unless the       *)
(* connection it is set on could not be opened.                             *)
ClosedRestores ==
    [][/\ pc # "over" /\ pc' = "over"
       /\ front = "gnee" \/ result = "ok"
       /\ "fake" \in displays
       => repeat' = users]_vars

(* A session that ended well leaves no key grabbed, not even one that an    *)
(* earlier session failed to give back.                                     *)
GoodEndReleases == pc = "idle" /\ result = "ok" => grabbed = {}

(* A replay that was asked to stop by SIGINT, before its loop or in it,     *)
(* ends.                                                                    *)
SignalEnds ==
    (mode = "replayer" /\ interrupt = "leave" /\ pc \notin {"idle", "over"})
        ~> (pc \in {"idle", "over"})

=============================================================================
