-------------------------------- MODULE Fake --------------------------------
(***************************************************************************)
(* How a replayer and a retyper drive the displays: xnee_fake.c with the   *)
(* key symbols, the script lines, the distribution list and the change of  *)
(* resolution.                                                             *)
(*                                                                         *)
(* Main is the display that is faked on; the others are those of the       *)
(* distribution list.  A character is typed with a key, under any of the   *)
(* modifiers Under[c] ("none" among them).                                 *)
(***************************************************************************)
EXTENDS Naturals, Integers, Sequences, FiniteSets

CONSTANTS
    Displays,        \* that events can be distributed to
    Size,            \* the width of the main display
    Asked,           \* the widths a user may ask a replay to be fitted to
    Unset,           \* no width asked
    KeyOf, Under,    \* key and modifiers of every character
    Texts,           \* the files that can be retyped
    Fakings,         \* the settings a session is started with
    MaxFakings       \* bound: replays and retypings of one process

(* The XI devices a file is recorded from: those of gone are not there when *)
(* it is replayed.                                                          *)
Devices == {"pointer", "keyboard"}

ASSUME SizeAssumption == Size \in Nat \ {0} /\ Asked \subseteq Nat
ASSUME UnsetAssumption == Unset \notin Asked \cup {Size}
ASSUME FakingsAssumption ==
    Fakings \subseteq
        [forced : BOOLEAN, asked : Asked \cup {Unset}, offset : Int,
         adjust : BOOLEAN, distr : SUBSET Displays, gone : SUBSET Devices]
ASSUME TextsAssumption == Texts \subseteq Seq(DOMAIN KeyOf)

(* A key under a modifier is one character, and is itself no modifier.      *)
ASSUME KeyboardAssumption ==
    /\ \A c \in DOMAIN KeyOf :
         KeyOf[c] \notin {"shift", "lock", "control", "mod5"}
    /\ \A b, c \in DOMAIN KeyOf :
         KeyOf[b] = KeyOf[c] /\ Under[b] \cap Under[c] # {} => b = c

VARIABLES
    faker,           \* what runs: "idle", "replay" or "retype"; "gone" when
                     \* the process has crashed
    opts,            \* the settings of the session
    todo,            \* what is left of its file: lines, or characters
    whole,           \* history: that file
    screen,          \* per display: what is down, the pointer, the presses
                     \* and releases of events, and the characters typed
    repRes,          \* res_info.replay
    diff,            \* static diff of xnee_resolution_newx
    switched,        \* history: adjustment asked for differently than then
    paused,          \* the mode of xnee_type_file is PAUSE
    pressed,         \* the character being typed has been pressed
    downBefore,      \* history: what was down when the session began
    ended,           \* history: how the session ended
    fakings          \* sessions so far

fakeVars == <<faker, opts, todo, whole, screen, repRes, diff, switched,
              paused, pressed, downBefore, ended, fakings>>

Main  == "main"

(* The display faked on and those xnee_add_display_list has opened. *)
All   == {Main} \cup opts.distr
Blank == [down |-> {}, at |-> -1, acts |-> <<>>, typed |-> <<>>]

FakeInit ==
    /\ faker = "idle" /\ todo = <<>> /\ whole = <<>>
    /\ opts = [forced |-> FALSE, asked |-> Unset, offset |-> 0,
               adjust |-> TRUE, distr |-> {}, gone |-> {}]
    /\ screen = [d \in {Main} \cup Displays |-> Blank]
    /\ repRes = Unset /\ diff = "unset" /\ switched = FALSE
    /\ paused = FALSE /\ pressed = FALSE
    /\ downBefore = {} /\ ended = "never" /\ fakings = 0

(* The resolution to fit to is set once in a process: by the option, or by  *)
(* xnee_replay_init to that of the display.                                 *)
Fitted(asked) ==
    IF repRes # Unset THEN repRes ELSE IF asked = Unset THEN Size ELSE asked

(* xnee_setup_display, which sets the resolution recorded on to that of the *)
(* display whatever the user or the file said, and xnee_replay_init.  What  *)
(* is held down on the displays stays.                                      *)
BeginFaking(kind, t) ==
    /\ faker = "idle" /\ fakings < MaxFakings
    /\ fakings' = fakings + 1
    /\ faker' = kind /\ todo' = t /\ whole' = t
    /\ opts' \in Fakings
    /\ repRes' = Fitted(opts'.asked)
    /\ screen' = [d \in DOMAIN screen |->
                    [Blank EXCEPT !.down = screen[d].down]]
    /\ switched' = (switched \/ (fakings > 0 /\ opts'.adjust # opts.adjust))
    /\ paused' = FALSE /\ pressed' = FALSE
    /\ downBefore' = screen[Main].down /\ ended' = "not"
    /\ UNCHANGED diff

End(how) ==
    /\ faker' = "idle" /\ ended' = how
    /\ UNCHANGED <<opts, todo, whole, screen, repRes, diff, switched,
                   paused, pressed, downBefore, fakings>>

-----------------------------------------------------------------------------
(* Key symbols *)

Masks == <<"shift", "control", "lock", "mod5">>
Rows  == <<"shift", "lock", "control", "mod5">>

(* Mutant of Modifiers: Shift and Lock both give capitals, the last counts. *)
ModifiersLast(c) ==
    LET fits == {i \in DOMAIN Masks : Masks[i] \in Under[c]}
    IN  IF "none" \in Under[c] \/ fits = {} THEN {}
        ELSE {Rows[CHOOSE i \in fits : \A j \in fits : j <= i]}

(* xnee_token_to_km: the masks are tried in their order, and the key taken  *)
(* is the first of the row with the number of the mask in the modifier map. *)
(* A character that needs no modifier, or that no mask gives, gets none.    *)
Modifiers(c) ==
    LET fits == {i \in DOMAIN Masks : Masks[i] \in Under[c]}
    IN  IF "none" \in Under[c] \/ fits = {} THEN {}
        ELSE {Rows[CHOOSE i \in fits : \A j \in fits : i <= j]}

(* xnee_char2keycode *)
Key(c) == KeyOf[c]

(* What a display's clients get from a key with these modifiers held. *)
Typed(k, held) ==
    LET mods == held \cap {Rows[i] : i \in DOMAIN Rows}
        mask == IF mods = {} THEN "none" ELSE CHOOSE m \in mods : TRUE
    IN  {c \in DOMAIN KeyOf : KeyOf[c] = k /\ mask \in Under[c]
                              /\ Cardinality(mods) <= 1}

-----------------------------------------------------------------------------
(* Events *)

Event(s, type, w) ==
    [s EXCEPT !.down = IF type = "press" THEN @ \cup {w} ELSE @ \ {w},
              !.acts = Append(@, [type |-> type, what |-> w, at |-> s.at])]

(* xnee_fake_key_event_impl: the key of an XI device is not distributed. *)
FakeKey(type, k, core) ==
    screen' = [d \in DOMAIN screen |->
                 IF d = Main \/ (core /\ d \in opts.distr)
                 THEN Event(screen[d], type, k) ELSE screen[d]]

FakeButton(type, b) ==
    screen' = [d \in DOMAIN screen |->
                 IF d \in All THEN Event(screen[d], type, b) ELSE screen[d]]

(* Mutant of NewPlace: the offset is scaled too.                            *)
NewPlaceShifted(p) ==
    IF diff' = "used" THEN ((p + opts.offset) * repRes) \div Size
                      ELSE p + opts.offset

(* xnee_resolution_newx, and the offset. *)
NewPlace(p) ==
    (IF diff' = "used" THEN (p * repRes) \div Size ELSE p) + opts.offset

(* Whether to scale is decided by the first motion of the process.          *)
Scaling == IF diff # "unset" THEN diff
           ELSE IF opts.adjust /\ repRes # Size THEN "used"
           ELSE "unused"

(* xnee_fake_motion_event_impl.  A display of the list gets the place as it *)
(* is.                                                                      *)
FakeMotion(p) ==
    /\ diff' = Scaling
    /\ screen' = [d \in DOMAIN screen |->
                    IF d = Main THEN [screen[d] EXCEPT !.at = NewPlace(p)]
                    ELSE IF d \in opts.distr
                    THEN [screen[d] EXCEPT !.at = p]
                    ELSE screen[d]]

FakeRelative(dx) ==
    screen' = [d \in DOMAIN screen |->
                 IF d \in All /\ screen[d].at >= 0
                 THEN [screen[d] EXCEPT !.at = @ + dx] ELSE screen[d]]

(* The modifiers of c go down, then its key. *)
PressOn(s, c) ==
    LET held == s.down \cup Modifiers(c)
    IN  [s EXCEPT !.down = held \cup {Key(c)},
                  !.typed = Append(@, Typed(Key(c), held))]

(* Mutant of ReleaseOn: the modifiers are left to the next character.       *)
ReleaseOnKey(s, c) == [s EXCEPT !.down = @ \ {Key(c)}]

(* With a distribution list the modifiers, released first, are then sent    *)
(* again, as presses, to every display.                                     *)
ReleaseOn(s, c) ==
    [s EXCEPT !.down = (@ \ ({Key(c)} \cup Modifiers(c)))
                       \cup IF opts.distr = {} THEN {} ELSE Modifiers(c)]

(* xnee_fake_key_mod_event *)
FakeKeyMod(type, c) ==
    screen' = [d \in DOMAIN screen |->
                 IF d \notin All THEN screen[d]
                 ELSE IF type = "press" THEN PressOn(screen[d], c)
                 ELSE ReleaseOn(screen[d], c)]

-----------------------------------------------------------------------------
(* Replay *)

(* xnee_replay_event_handler of a build with XInput: unless core events are *)
(* forced, those of slave devices only.                                     *)
Faked(l) == IF opts.forced THEN l.dev \in {"core", "slave"}
                           ELSE l.dev = "slave"

ScriptLine(l) ==
    \/ l.type \in {"press", "release"} /\ FakeButton(l.type, l.what)
       /\ UNCHANGED diff
    \/ l.type = "motion" /\ FakeMotion(l.what)
    \/ l.type = "relative" /\ FakeRelative(l.what) /\ UNCHANGED diff
    \/ l.type = "keypress" /\ FakeKeyMod("press", l.what) /\ UNCHANGED diff
    \/ l.type = "keyrelease" /\ FakeKeyMod("release", l.what)
       /\ UNCHANGED diff

(* xnee_get_xinput_device finds none with the number recorded.  Core events *)
(* need none.                                                               *)
DeviceOf(l, buttons) ==
    IF l.type = "motion" \/ l.what \in buttons THEN "pointer" ELSE "keyboard"

Missing(l, buttons) == ~opts.forced /\ DeviceOf(l, buttons) \in opts.gone

(* A motion of such a device comes to nothing, on the distribution list     *)
(* too.                                                                     *)
EventLine(l, buttons) ==
    \/ ~Faked(l) /\ UNCHANGED <<screen, diff>>
    \/ /\ Faked(l) /\ l.type = "motion" /\ Missing(l, buttons)
       /\ diff' = Scaling /\ UNCHANGED screen
    \/ /\ Faked(l) /\ l.type = "motion" /\ ~Missing(l, buttons)
       /\ FakeMotion(l.what)
    \/ /\ Faked(l) /\ l.type # "motion" /\ ~Missing(l, buttons)
       /\ IF l.what \in buttons THEN FakeButton(l.type, l.what)
          ELSE FakeKey(l.type, l.what, opts.forced)
       /\ UNCHANGED diff

ReplayLine(buttons) ==
    /\ faker = "replay" /\ todo # <<>>
    /\ todo' = Tail(todo)
    /\ IF Head(todo).dev = "prim" THEN ScriptLine(Head(todo))
                                  ELSE EventLine(Head(todo), buttons)
    /\ UNCHANGED <<faker, opts, whole, repRes, switched, paused, pressed,
                   downBefore, ended, fakings>>

(* A key or a button of a missing device: XTest is given no device, and the *)
(* process ends there.                                                      *)
CrashOnLine(buttons) ==
    /\ faker = "replay" /\ todo # <<>>
    /\ LET l == Head(todo)
       IN  l.dev # "prim" /\ Faked(l) /\ l.type # "motion"
               /\ Missing(l, buttons)
    /\ faker' = "gone" /\ ended' = "crashed"
    /\ UNCHANGED <<opts, todo, whole, screen, repRes, diff, switched,
                   paused, pressed, downBefore, fakings>>

(* The end of the file; a request to stop, or the stop key, before it. *)
EndOfReplay  == faker = "replay" /\ todo = <<>> /\ End("whole")
StopOfReplay == faker = "replay" /\ todo # <<>> /\ End("stopped")

-----------------------------------------------------------------------------
(* xnee_type_file *)

(* Between two characters xnee_check_key finds a key of an action: PAUSE,   *)
(* or in a pause any other: the mode is overwritten.                        *)
TypeKey ==
    /\ faker = "retype" /\ todo # <<>> /\ ~pressed
    /\ paused' = ~paused
    /\ UNCHANGED <<faker, opts, todo, whole, screen, repRes, diff, switched,
                   pressed, downBefore, ended, fakings>>

TypeStop == faker = "retype" /\ todo # <<>> /\ ~pressed /\ End("stopped")

TypePress ==
    /\ faker = "retype" /\ todo # <<>> /\ ~paused /\ ~pressed
    /\ FakeKeyMod("press", Head(todo))
    /\ pressed' = TRUE
    /\ UNCHANGED <<faker, opts, todo, whole, repRes, diff, switched, paused,
                   downBefore, ended, fakings>>

TypeRelease ==
    /\ faker = "retype" /\ pressed
    /\ FakeKeyMod("release", Head(todo))
    /\ pressed' = FALSE /\ todo' = Tail(todo)
    /\ UNCHANGED <<faker, opts, whole, repRes, diff, switched, paused,
                   downBefore, ended, fakings>>

EndOfText == faker = "retype" /\ todo = <<>> /\ End("whole")

FakeNext(buttons) ==
    \/ ReplayLine(buttons) \/ CrashOnLine(buttons) \/ EndOfReplay \/ StopOfReplay
    \/ TypeKey \/ TypeStop \/ TypePress \/ TypeRelease \/ EndOfText
=============================================================================
