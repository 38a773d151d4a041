------------------------------ MODULE RoundTrip ------------------------------
(***************************************************************************)
(* A recorder and a replayer composed: what the user does is recorded by   *)
(* DeviceEvents, and the file is replayed, once or several times, by Fake; *)
(* scripts and texts are played by the same process in between.            *)
(***************************************************************************)
EXTENDS DeviceEvents, Fake

CONSTANTS
    Scripts,         \* session files written by hand
    MaxRecordings    \* bound: recordings of one process

VARIABLES
    recording,       \* a recording runs
    recordings,      \* recordings so far
    recorded         \* history: the file replayed is the one recorded

tripVars == <<recVars, fakeVars, recording, recordings, recorded>>

TripInit == RecInit /\ FakeInit /\ recording = FALSE
            /\ recordings = 0 /\ recorded = FALSE

Record ==
    /\ faker = "idle" /\ ~recording /\ recordings < MaxRecordings
    /\ StartRecording
    /\ recording' = TRUE /\ recordings' = recordings + 1
    /\ recorded' = FALSE
    /\ UNCHANGED fakeVars

UserActs == recording /\ RecNext
            /\ UNCHANGED <<fakeVars, recording, recordings, recorded>>

EndRecord ==
    /\ recording /\ recording' = FALSE
    /\ UNCHANGED <<recVars, fakeVars, recordings, recorded>>

Replay ==
    /\ ~recording /\ file # <<>>
    /\ BeginFaking("replay", file) /\ recorded' = TRUE
    /\ UNCHANGED <<recVars, recording, recordings>>

PlayScript ==
    /\ ~recording
    /\ \E s \in Scripts : BeginFaking("replay", s)
    /\ recorded' = FALSE
    /\ UNCHANGED <<recVars, recording, recordings>>

Retype ==
    /\ ~recording
    /\ \E t \in Texts : BeginFaking("retype", t)
    /\ recorded' = FALSE
    /\ UNCHANGED <<recVars, recording, recordings>>

Playing == FakeNext(Buttons) /\ UNCHANGED <<recVars, recording, recordings,
                                             recorded>>

TripNext ==
    \/ Record \/ UserActs \/ EndRecord
    \/ Replay \/ PlayScript \/ Retype \/ Playing

TripSpec == TripInit /\ [][TripNext]_tripVars

-----------------------------------------------------------------------------

Starts(s, t) == Len(s) <= Len(t) /\ s = SubSeq(t, 1, Len(s))

(* The entries of s that are about a member of w, in their order. *)
Upto(w, s) ==
    LET f[n \in 0..Len(s)] ==
          IF n = 0 THEN <<>>
          ELSE IF s[n].what \in w THEN Append(f[n - 1], s[n]) ELSE f[n - 1]
    IN  f

About(w, s) == Upto(w, s)[Len(s)]

(* What of the user's acts display d has to show: all but the keys of       *)
(* xnee's actions, and on a display of the list no key of an XI device.     *)
Shown(d) ==
    (IF d = Main \/ opts.forced THEN Keys \cup Buttons ELSE Buttons)
        \ rec.action

(* Where the user did it, on display d. *)
There(d, p) ==
    IF p = Nowhere \/ d # Main THEN p
    ELSE (IF opts.adjust THEN (p * repRes) \div Size ELSE p) + opts.offset

Due(d) ==
    LET shown == About(Shown(d), acts)
    IN  [i \in DOMAIN shown |-> [shown[i] EXCEPT !.at = There(d, @)]]

Done(d)   == About(Shown(d), screen[d].acts)
Bare(s)   == [i \in DOMAIN s |-> <<s[i].type, s[i].what>>]
Replaying == recorded /\ ended # "never"

(* A replay repeats the presses and releases of the user on every display,  *)
(* each once and in their order, whatever the options of the recording; and *)
(* all of them when it comes to the end of the file, if the device events   *)
(* recorded are of the kind that is replayed.                               *)
SameActs ==
    Replaying =>
        \A d \in All :
            /\ Starts(Bare(Done(d)), Bare(Due(d)))
            /\ ended = "whole" /\ (xinput \/ opts.forced) =>
                    Bare(Done(d)) = Bare(Due(d))

(* With every motion recorded the pointer is, at each press and release,    *)
(* where the user had it, in the resolution asked for; as long as no        *)
(* session of the process asked to leave the resolution alone, while        *)
(* another one did not, and the pointer recorded is there.                  *)
SamePlaces ==
    Replaying /\ (xinput \/ ~rec.firstLast) /\ ~switched
              /\ (opts.forced \/ "pointer" \notin opts.gone) =>
        \A d \in All : Starts(Done(d), Due(d))

LastPlace(f) ==
    LET motions == {i \in DOMAIN f : f[i].type = "motion"}
    IN  IF motions = {} THEN Nowhere
        ELSE f[CHOOSE i \in motions : \A j \in motions : j <= i].what

(* With --first-last too, the last motion in the file before a press or a   *)
(* release is the place of the pointer then, if the last row of motions was *)
(* longer than one.                                                         *)
LastIsKept ==
    recording /\ moves = 0 /\ at # Nowhere /\ long => LastPlace(file) = at

(* xnee_prot.texi:168: first-last prints the first and last of successive   *)
(* MotionNotify events: the last motion in the file before a press or a     *)
(* release is the place of the pointer then.                                *)
LastIsLast ==
    recording /\ moves = 0 /\ at # Nowhere => LastPlace(file) = at

(* Retyping without a distribution list types the characters of the file,   *)
(* each once and in their order, through pauses; if no modifier was left    *)
(* down before, and no character needs Control or Lock.                     *)
Retyping == ~recorded /\ faker = "retype" /\ opts.distr = {}

Plainly(c) == Under[c] \cap {"none", "shift"} # {} \/ Under[c] = {"mod5"}

TypedRight ==
    /\ Retyping
    /\ downBefore \cap {Rows[i] : i \in DOMAIN Rows} = {}
    /\ \A i \in DOMAIN whole : Plainly(whole[i])
    => Starts(screen[Main].typed, [i \in DOMAIN whole |-> {whole[i]}])

(* A retyping session without a distribution list leaves nothing held down, *)
(* however it ends.                                                         *)
NothingHeld ==
    [][Retyping /\ faker' = "idle" =>
           screen[Main].down \subseteq downBefore]_tripVars
=============================================================================
