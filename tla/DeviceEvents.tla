---------------------------- MODULE DeviceEvents ----------------------------
(***************************************************************************)
(* How a recorder turns the device events of a user into lines of the      *)
(* session file (xnee_record_handle_event and what it calls).              *)
(*                                                                         *)
(* A server with the XInput extension reports every act of the user as an  *)
(* event of the slave device it was done with, may be as one of the master *)
(* device too, and as a core event, which the printer then drops.  Without *)
(* the extension there are core events only.                               *)
(*                                                                         *)
(* A place of the pointer is a number (one axis: the other is treated      *)
(* alike), Nowhere before the first motion that a session could see.       *)
(***************************************************************************)
EXTENDS Naturals, Integers, Sequences

CONSTANTS
    Keys, Buttons,   \* what can be pressed
    Recordings,      \* the settings of a recording
    Places,          \* where the pointer can be moved to; 0 is one of them
    MaxActs          \* bound: acts of the user in one recording

ASSUME PlacesAssumption == Places \subseteq Nat /\ 0 \in Places
ASSUME RecordingsAssumption ==
    Recordings \subseteq
        [firstLast : BOOLEAN, action : SUBSET Keys, masters : BOOLEAN]
ASSUME KeysAssumption == Keys \cap Buttons = {}

VARIABLES
    xinput,          \* the server has XInput and this build knows it
    rec,             \* the recording: the flag --first-last, the keys of
                     \* xnee's own actions, whether masters report too
    down, at,        \* what the user holds down, where he has the pointer
    lastMotion,      \* xnee_info.last_motion: a row of motions has begun
    heldAt,          \* xnee_info.x: the last motion held back
    keySeen,         \* current_modifier_state is no longer NONE_PRESSED
    override,        \* current_grab_mode_override
    file,            \* the lines written
    acts,            \* history: the presses and releases, and where
    moves,           \* history: motions since the last press or release
    long             \* history: the last row of motions had several

userVars == <<down, at, acts, moves, long>>
recVars  == <<xinput, rec, lastMotion, heldAt, keySeen, override, file,
              userVars>>

Nowhere == -1

LineOf(dev, type, what) == [dev |-> dev, type |-> type, what |-> what]

RecInit ==
    /\ xinput \in BOOLEAN
    /\ rec \in [firstLast : {FALSE}, action : {{}}, masters : {FALSE}]
    /\ down = {} /\ at = Nowhere
    /\ lastMotion = FALSE /\ heldAt = 0
    /\ keySeen = FALSE /\ override = FALSE
    /\ file = <<>> /\ acts = <<>> /\ moves = 0 /\ long = TRUE

(* A recording begins.  xnee_record_init runs once in a process: the filter *)
(* keeps what an earlier recording left, and so do the static variables of  *)
(* the key filter.  A key may be down already: the Return of the shell.     *)
StartRecording ==
    /\ rec' \in Recordings
    /\ file' = <<>> /\ acts' = <<>> /\ at' = Nowhere
    /\ moves' = 0 /\ long' = TRUE
    /\ \/ UNCHANGED down
       \/ \E k \in Keys : down' = down \cup {k}
    /\ UNCHANGED <<xinput, lastMotion, heldAt, keySeen, override>>

-----------------------------------------------------------------------------

(* xnee_save_or_print of a key: one that an action uses is not recorded,    *)
(* unless a motion has set the override.                                    *)
Keeps(k) == k \in rec.action => override

(* Mutant of HeldBack: the row of motions is closed by nothing.             *)
HeldBackNever(type) == <<>>

(* The motion that was held back, written before a press or a release. *)
HeldBack(type) ==
    IF rec.firstLast /\ lastMotion /\ type # "motion"
    THEN <<LineOf("core", "motion", heldAt)>> ELSE <<>>

(* xnee_record_handle_event: a row's later motions are only remembered. *)
HoldBack(p) ==
    /\ rec.firstLast /\ lastMotion
    /\ heldAt' = p
    /\ UNCHANGED <<file, lastMotion, override, keySeen>>

(* xnee_record_handle_event_printer of a motion: once a key was seen, it    *)
(* sets the override, which nothing unsets.                                 *)
PrintMotion(p) ==
    /\ ~(rec.firstLast /\ lastMotion)
    /\ file' = Append(file, LineOf("core", "motion", p))
    /\ lastMotion' = TRUE
    /\ override' = (override \/ keySeen)
    /\ UNCHANGED <<heldAt, keySeen>>

(* The printer of a press or a release, and the end of the row of motions.  *)
PrintCore(type, w) ==
    /\ file' = file \o HeldBack(type) \o
            (IF w \in Buttons \/ Keeps(w) THEN <<LineOf("core", type, w)>>
                                          ELSE <<>>)
    /\ keySeen' = (keySeen \/ w \in Keys)
    /\ lastMotion' = FALSE
    /\ UNCHANGED <<heldAt, override>>

(* Mutant of PrintXI: masters report motions as slaves do.                  *)
PrintXIMasters(type, w) ==
    /\ file' = Append(file, LineOf("slave", type, w)) \o
            (IF rec.masters THEN <<LineOf("slave", type, w)>> ELSE <<>>)
    /\ UNCHANGED <<lastMotion, heldAt, keySeen, override>>

(* xnee_handle_xinput_event: no filter applies.  A motion is saved by the   *)
(* event and printed, for a slave only, by the valuator that follows.       *)
PrintXI(type, w) ==
    /\ file' = Append(file, LineOf("slave", type, w)) \o
            (IF rec.masters /\ type # "motion"
             THEN <<LineOf("master", type, w)>> ELSE <<>>)
    /\ UNCHANGED <<lastMotion, heldAt, keySeen, override>>

Act(type, w) ==
    /\ Len(acts) < MaxActs
    /\ IF xinput THEN PrintXI(type, w) ELSE PrintCore(type, w)
    /\ acts' = Append(acts, [type |-> type, what |-> w, at |-> at])
    /\ moves' = 0 /\ long' = (IF moves = 0 THEN long ELSE moves > 1)
    /\ UNCHANGED <<xinput, rec, at>>

Press(w) ==
    /\ w \notin down /\ down' = down \cup {w}
    /\ Act("press", w)

Release(w) ==
    /\ w \in down /\ down' = down \ {w}
    /\ Act("release", w)

Move(p) ==
    /\ p # at /\ at' = p
    /\ moves < 2 /\ Len(acts) < MaxActs
    /\ moves' = moves + 1
    /\ IF xinput THEN PrintXI("motion", p) ELSE HoldBack(p) \/ PrintMotion(p)
    /\ UNCHANGED <<xinput, rec, down, acts, long>>

RecNext ==
    \/ \E w \in Keys \cup Buttons : Press(w) \/ Release(w)
    \/ \E p \in Places : Move(p)
=============================================================================
