---------------------------- MODULE SessionProofs ----------------------------
(***************************************************************************)
(* What a session gives back, for any set of keys and any number of        *)
(* sessions, signals and errors.                                           *)
(*                                                                         *)
(* Two inductive invariants: RepeatInv says what autorepeat_saved stands   *)
(* for between any two steps, GrabInv that a key that is grabbed is one    *)
(* the program knows and can give back.  Neither property is inductive:    *)
(* closing down restores only what was saved and is not kept, and a good   *)
(* end ungrabs only if some key is known and the display of the grabs is   *)
(* open.                                                                   *)
(***************************************************************************)
EXTENDS Session, TLAPS

(* Nothing happens before the first session.                                *)
BeforeFirst == session = 0 => pc = "idle" /\ ~saved /\ grabbed = {}

(* While the mode is saved it is the user's; while it is not, auto-repeat   *)
(* is as the user had it.  An option of cnee keeps auto-repeat, before      *)
(* anything is saved.                                                       *)
RepeatInv ==
    /\ session \in Nat
    /\ BeforeFirst
    /\ saved => orig = users
    /\ ~saved => repeat = users
    /\ keep => front = "cnee" /\ ~saved

(* A grabbed key is known by its key and its name, and the display of the   *)
(* grabs is open, from the first of them on.                                *)
GrabInv ==
    /\ session \in Nat
    /\ BeforeFirst
    /\ grabbed \subseteq action /\ action \subseteq wanted
    /\ grabbed # {} \/ pc = "keys" => "grab" \in displays
    /\ GoodEndReleases

-----------------------------------------------------------------------------

(* xnee_reset_autorepeat keeps the meaning of autorepeat_saved.             *)
LEMMA ResetKeeps ==
    ASSUME ResetAutorepeat, saved => orig = users, ~saved => repeat = users
    PROVE  /\ users' = users
           /\ saved' => saved
           /\ saved' => orig' = users'
           /\ ~saved' => repeat' = users'
  BY DEF ResetAutorepeat, keyboard

(* xnee_reset_autorepeat never saves a mode.                                *)
LEMMA ResetLoses == ResetAutorepeat /\ saved' => saved
  BY DEF ResetAutorepeat, keyboard

(* Every step keeps RepeatInv.                                              *)
LEMMA RepeatInvKept == RepeatInv /\ [Next]_vars => RepeatInv'
<1> SUFFICES ASSUME RepeatInv, [Next]_vars PROVE RepeatInv'
  OBVIOUS
<1> USE DEF RepeatInv, BeforeFirst, keyboard, bounds, grabs, Goto, Fail
<1>1. CASE Begin
  <2>1. session' \in Nat /\ session' # 0
    BY <1>1 DEF Begin
  <2>2. keep' => front' = "cnee" /\ ~saved'
    BY <1>1 DEF Begin
  <2> QED BY <1>1, <2>1, <2>2 DEF Begin
<1>2. CASE Prepare
  <2>1. CASE SetAutorepeat
    BY <2>1 DEF SetAutorepeat
  <2>2. CASE OpenGrab \/ (\E k \in Keys : GrabKey(k)) \/ GrabAllKeys
    <3>1. UNCHANGED <<front, keep, keyboard, session>> /\ pc # "idle"
      BY <2>2 DEF OpenGrab, GrabKey, GrabAllKeys
    <3> QED BY <3>1
  <2>3. CASE OpenFiles \/ SetupDisplays \/ ReadMeta \/ SetupAgain \/ StartMode
    <3>1. UNCHANGED <<front, keep, grabs, keyboard, session>> /\ pc # "idle"
      BY <2>3 DEF OpenFiles, SetupDisplays, ReadMeta, SetupAgain, StartMode
    <3> QED BY <3>1
  <2> QED BY <1>2, <2>1, <2>2, <2>3 DEF Prepare
<1>3. CASE LeaveOnInterrupt \/ LeaveLoop
  <2>1. /\ pc = "loop"
        /\ ResetAutorepeat \/ UNCHANGED keyboard
        /\ UNCHANGED <<front, keep, grabs, session>>
    BY <1>3 DEF LeaveOnInterrupt, LeaveLoop
  <2> QED BY <2>1, ResetKeeps
<1>4. CASE LoopFails \/ RecordEvent \/ XError
  <2>1. UNCHANGED <<front, keep, grabs, keyboard, session>> /\ pc # "idle"
    BY <1>4 DEF LoopFails, RecordEvent, XError
  <2> QED BY <2>1
<1>5. CASE EndGood
  <2>1. /\ pc = "good" /\ ResetAutorepeat
        /\ UNCHANGED <<front, keep, session>>
    BY <1>5 DEF EndGood
  <2> QED BY <2>1, ResetKeeps
<1>6. CASE Signal
  <2>1. /\ ResetAutorepeat
        /\ grabbed = {} => grabbed' = {}
        /\ UNCHANGED <<front, pc, keep, session>>
    BY <1>6 DEF Signal, UngrabKeys
  <2> QED BY <2>1, ResetKeeps
<1>7. CASE CloseDown \/ ExitWithError
  <2>1. /\ session # 0
        /\ ResetAutorepeat \/ UNCHANGED keyboard
        /\ UNCHANGED <<front, keep, session>>
    BY <1>7 DEF CloseDown, ExitWithError
  <2> QED BY <2>1, ResetKeeps
<1>8. CASE UNCHANGED vars
  BY <1>8 DEF vars
<1> QED BY <1>1, <1>2, <1>3, <1>4, <1>5, <1>6, <1>7, <1>8 DEF Next

(* As long as the server's auto-repeat is not what the user had, the        *)
(* program still knows what that was.                                       *)
THEOREM RepeatIsKnown == Spec => []RepeatKnown
<1>1. Init => RepeatInv
  BY DEF Init, RepeatInv, BeforeFirst
<1>2. RepeatInv => RepeatKnown
  BY DEF RepeatInv, RepeatKnown
<1> QED BY <1>1, <1>2, RepeatInvKept, PTL DEF Spec

(* A process that closes down gives the user's auto-repeat back, whichever  *)
(* session of it turned it off and however that session ended.              *)
THEOREM ClosingRestores == Spec => ClosedRestores
<1>1. Init => RepeatInv
  BY DEF Init, RepeatInv, BeforeFirst
<1>2. ASSUME RepeatInv, Next, pc # "over", pc' = "over",
             front = "gnee" \/ result = "ok", "fake" \in displays
      PROVE  repeat' = users
  <2>1. CloseDown \/ ExitWithError
    BY <1>2 DEF Next, Begin, Prepare, OpenFiles, SetupDisplays, SetupDisplay,
         ReadMeta, SetupAgain, SetAutorepeat, OpenGrab, GrabKey,
         GrabAllKeys, StartMode,
         LeaveOnInterrupt, LeaveLoop, LoopFails, RecordEvent, XError,
         EndGood, Signal, Goto, Fail
  <2>2. CloseDown
    BY <2>1, <1>2 DEF ExitWithError
  <2>3. CASE saved
    BY <1>2, <2>2, <2>3 DEF CloseDown, RepeatInv, ResetAutorepeat
  <2>4. CASE ~saved
    BY <1>2, <2>2, <2>4 DEF CloseDown, RepeatInv, ResetAutorepeat, keyboard
  <2> QED BY <2>3, <2>4
<1>3. RepeatInv /\ [Next]_vars
        => [/\ pc # "over" /\ pc' = "over"
            /\ front = "gnee" \/ result = "ok"
            /\ "fake" \in displays
            => repeat' = users]_vars
  BY <1>2
<1> QED BY <1>1, <1>3, RepeatInvKept, PTL
    DEF Spec, ClosedRestores

-----------------------------------------------------------------------------

(* Every step keeps GrabInv.                                                *)
LEMMA GrabInvKept == GrabInv /\ [Next]_vars => GrabInv'
<1> SUFFICES ASSUME GrabInv, [Next]_vars PROVE GrabInv'
  OBVIOUS
<1> USE DEF GrabInv, BeforeFirst, GoodEndReleases, grabs, bounds, Goto, Fail
<1>1. CASE Begin
  <2>1. session' \in Nat /\ session' # 0
    BY <1>1 DEF Begin
  <2>2. GoodEndReleases'
    <3>1. pc' = "idle" => mode' = "checker"
      BY <1>1 DEF Begin
    <3>2. pc' = "idle" => front = "cnee"
      BY <3>1, <1>1 DEF Begin
    <3>3. pc' = "idle" => grabbed' = {}
      BY <3>2, <1>1 DEF Begin
    <3> QED BY <3>3
  <2>3. wanted \subseteq wanted'
    BY <1>1 DEF Begin
  <2> QED BY <1>1, <2>1, <2>2, <2>3 DEF Begin
<1>2. CASE Prepare
  <2>1. CASE OpenGrab \/ GrabAllKeys
    <3>1. /\ UNCHANGED <<wanted, action, grabbed, session>>
          /\ pc \in {"grab", "keys"}
          /\ "grab" \in displays \/ pc' = "keys" => "grab" \in displays'
          /\ pc' = "idle" => result' = "error"
      BY <2>1 DEF OpenGrab, GrabAllKeys
    <3> QED BY <3>1
  <2>2. CASE \E k \in Keys : GrabKey(k)
    <3>1. PICK k \in Keys : GrabKey(k)
      BY <2>2
    <3>2. /\ UNCHANGED <<wanted, displays, session, pc, result>> /\ pc = "keys"
          /\ "grab" \in displays
      BY <3>1 DEF GrabKey
    <3>3. CASE k \in wanted
      <4>1. /\ action' = action \cup {k}
            /\ grabbed' \subseteq grabbed \cup {k}
        BY <3>1, <3>3 DEF GrabKey
      <4> QED BY <3>2, <3>3, <4>1
    <3>4. CASE k \notin wanted
      <4>1. action' = action \ {k} /\ grabbed' = grabbed
        BY <3>1, <3>4 DEF GrabKey
      <4> QED BY <3>2, <3>4, <4>1
    <3> QED BY <3>3, <3>4
  <2>3. CASE OpenFiles \/ SetupDisplays \/ ReadMeta \/ SetupAgain
               \/ SetAutorepeat \/ StartMode
    <3>1. /\ UNCHANGED <<grabs, session>> /\ pc # "idle"
          /\ "grab" \in displays => "grab" \in displays'
          /\ pc' = "idle" => result' = "error"
          /\ pc' # "keys"
          /\ UNCHANGED <<saved>> \/ session # 0
      BY <2>3 DEF OpenFiles, SetupDisplays, SetupDisplay, ReadMeta,
           SetupAgain, SetAutorepeat, StartMode, keyboard
    <3> QED BY <3>1
  <2> QED BY <1>2, <2>1, <2>2, <2>3 DEF Prepare
<1>3. CASE LeaveOnInterrupt \/ LeaveLoop \/ LoopFails \/ RecordEvent
             \/ XError
  <2>1. /\ UNCHANGED <<wanted, action, grabbed, displays, session>>
        /\ pc = "loop" /\ pc' # "keys"
        /\ pc' = "idle" => result' = "error"
    BY <1>3 DEF LeaveOnInterrupt, LeaveLoop, LoopFails, RecordEvent, XError
  <2> QED BY <2>1
<1>4. CASE EndGood
  <2>1. grabbed' = {}
    BY <1>4 DEF EndGood
  <2>2. /\ action' = {} /\ wanted' = {} /\ pc = "good"
        /\ UNCHANGED <<displays, session>>
    BY <1>4 DEF EndGood
  <2>3. pc' # "keys"
    BY <1>4 DEF EndGood
  <2> QED BY <2>1, <2>2, <2>3
<1>5. CASE Signal
  <2>1. (action' = {} /\ grabbed' = {}) \/ UNCHANGED <<action, grabbed>>
    BY <1>5 DEF Signal, UngrabKeys
  <2>2. /\ UNCHANGED <<pc, result, wanted, displays, session>>
        /\ saved' => saved
    BY <1>5, ResetLoses DEF Signal
  <2> QED BY <2>1, <2>2
<1>6. CASE CloseDown \/ ExitWithError
  <2>1. /\ wanted' = {} /\ action' = {} /\ grabbed' = {} /\ pc' = "over"
        /\ UNCHANGED session /\ session # 0
    BY <1>6 DEF CloseDown, ExitWithError
  <2> QED BY <2>1
<1>7. CASE UNCHANGED vars
  BY <1>7 DEF vars, keyboard
<1> QED BY <1>1, <1>2, <1>3, <1>4, <1>5, <1>6, <1>7 DEF Next

(* A session that ended well leaves no key grabbed, whatever keys were      *)
(* refused, known or left over by an earlier session.                       *)
THEOREM GoodEndUngrabs == Spec => []GoodEndReleases
<1>1. Init => GrabInv
  BY DEF Init, GrabInv, BeforeFirst, GoodEndReleases
<1>2. GrabInv => GoodEndReleases
  BY DEF GrabInv
<1> QED BY <1>1, <1>2, GrabInvKept, PTL DEF Spec

-----------------------------------------------------------------------------

(* The variables that hold no number: steps of a session, displays, keys,   *)
(* and the values of the error codes.                                       *)
NamesOK ==
    /\ front \in FrontEnds
    /\ pc \in {"idle", "files", "displays", "meta", "again", "repeat",
               "grab", "keys", "mode", "loop", "good", "over"}
    /\ mode \in Modes
    /\ displays \subseteq {"data", "control", "fake", "grab"}
    /\ wanted \subseteq Keys /\ action \subseteq Keys
    /\ grabbed \subseteq Keys /\ left \subseteq Keys
    /\ handler \in {"program", "grab", "ungrab"}
    /\ interrupt \in {"ok", "leave", "error"}
    /\ result \in {"ok", "error"}

(* The flags of the keyboard.                                               *)
FlagsOK ==
    /\ keep \in BOOLEAN /\ saved \in BOOLEAN
    /\ repeat \in BOOLEAN /\ users \in BOOLEAN /\ orig \in BOOLEAN

(* The bounds on sessions, signals and errors.                              *)
CountsOK ==
    /\ session \in 0..MaxSessions /\ signals \in 0..MaxSignals
    /\ errors \in 0..MaxErrors

(* Steps, displays, keys and codes keep their values.                       *)
LEMMA NamesKept == NamesOK /\ [Next]_vars => NamesOK'
<1> SUFFICES ASSUME NamesOK, [Next]_vars PROVE NamesOK'
  OBVIOUS
<1> USE DEF NamesOK, Modes, grabs, Goto, Fail
<1>1. CASE Begin
  BY <1>1 DEF Begin
<1>2. CASE Prepare
  <2>1. CASE OpenFiles
    BY <2>1 DEF OpenFiles
  <2>2. CASE SetupDisplays
    <3>1. /\ pc' \in {"meta", "again", "idle"}
          /\ result' \in {"ok", "error"}
          /\ displays' \subseteq {"data", "control", "fake", "grab"}
      BY <2>2 DEF SetupDisplays, SetupDisplay
    <3>2. UNCHANGED <<front, mode, grabs, interrupt>>
      BY <2>2 DEF SetupDisplays
    <3> QED BY <3>1, <3>2
  <2>3. CASE ReadMeta
    BY <2>3 DEF ReadMeta
  <2>4. CASE SetupAgain
    <3>1. /\ pc' \in {"repeat", "idle"}
          /\ result' \in {"ok", "error"}
          /\ displays' \subseteq {"data", "control", "fake", "grab"}
      BY <2>4 DEF SetupAgain, SetupDisplay
    <3>2. UNCHANGED <<front, mode, grabs, interrupt>>
      BY <2>4 DEF SetupAgain
    <3> QED BY <3>1, <3>2
  <2>5. CASE SetAutorepeat
    BY <2>5 DEF SetAutorepeat
  <2>6. CASE OpenGrab \/ (\E k \in Keys : GrabKey(k)) \/ GrabAllKeys
    <3>1. CASE OpenGrab
      BY <3>1 DEF OpenGrab
    <3>2. CASE \E k \in Keys : GrabKey(k)
      BY <3>2 DEF GrabKey
    <3>3. CASE GrabAllKeys
      BY <3>3 DEF GrabAllKeys
    <3> QED BY <2>6, <3>1, <3>2, <3>3
  <2>7. CASE StartMode
    BY <2>7 DEF StartMode
  <2> QED BY <1>2, <2>1, <2>2, <2>3, <2>4, <2>5, <2>6, <2>7 DEF Prepare
<1>3. CASE LeaveOnInterrupt
  BY <1>3 DEF LeaveOnInterrupt
<1>4. CASE LeaveLoop \/ LoopFails \/ RecordEvent \/ XError
  BY <1>4 DEF LeaveLoop, LoopFails, RecordEvent, XError
<1>5. CASE EndGood
  BY <1>5 DEF EndGood
<1>6. CASE Signal
  BY <1>6 DEF Signal, UngrabKeys
<1>7. CASE CloseDown \/ ExitWithError
  BY <1>7 DEF CloseDown, ExitWithError
<1>8. CASE UNCHANGED vars
  BY <1>8 DEF vars
<1> QED BY <1>1, <1>2, <1>3, <1>4, <1>5, <1>6, <1>7, <1>8 DEF Next

(* xnee_reset_autorepeat, and what leaves the keyboard alone.               *)
LEMMA FlagsReset ==
    ASSUME FlagsOK, ResetAutorepeat \/ UNCHANGED keyboard, UNCHANGED keep
    PROVE  FlagsOK'
<1>1. CASE UNCHANGED keyboard
  BY <1>1 DEF FlagsOK, keyboard
<1>2. CASE repeat' = orig /\ saved' = FALSE /\ UNCHANGED <<users, orig>>
  BY <1>2, Zenon DEF FlagsOK
<1> QED BY <1>1, <1>2 DEF ResetAutorepeat

(* What is noted of auto-repeat stays a truth value.                        *)
LEMMA FlagsKept == FlagsOK /\ [Next]_vars => FlagsOK'
<1> SUFFICES ASSUME FlagsOK, [Next]_vars PROVE FlagsOK'
  OBVIOUS
<1>1. CASE Begin
  BY <1>1 DEF Begin, FlagsOK, keyboard
<1>2. CASE SetAutorepeat
  <2>1. CASE UNCHANGED <<keep, keyboard>>
    BY <2>1 DEF FlagsOK, keyboard
  <2>2. CASE /\ orig' = repeat /\ repeat' = FALSE /\ saved' = TRUE
             /\ UNCHANGED <<users, keep>>
    BY <2>2, Zenon DEF FlagsOK
  <2> QED BY <1>2, <2>1, <2>2 DEF SetAutorepeat
<1>3. CASE ~Begin /\ ~SetAutorepeat
  <2>1. ResetAutorepeat \/ UNCHANGED keyboard
    BY <1>3 DEF Next, Prepare, OpenFiles, SetupDisplays, ReadMeta, SetupAgain,
         OpenGrab, GrabKey, GrabAllKeys, StartMode, LeaveOnInterrupt,
         LeaveLoop, LoopFails, RecordEvent, XError, EndGood, Signal, CloseDown, ExitWithError, vars
  <2>2. UNCHANGED keep
    BY <1>3 DEF Next, Prepare, OpenFiles, SetupDisplays, ReadMeta, SetupAgain,
         OpenGrab, GrabKey, GrabAllKeys, StartMode, LeaveOnInterrupt,
         LeaveLoop, LoopFails, RecordEvent, XError, EndGood, Signal, CloseDown, ExitWithError, vars
  <2> QED BY <2>1, <2>2, FlagsReset
<1> QED BY <1>1, <1>2, <1>3

(* The guards keep the bounds on sessions, signals and errors.              *)
LEMMA CountsKept == CountsOK /\ [Next]_vars => CountsOK'
<1> SUFFICES ASSUME CountsOK, [Next]_vars PROVE CountsOK'
  OBVIOUS
<1> USE BoundAssumption DEF CountsOK
<1>1. CASE Begin
  BY <1>1 DEF Begin
<1>2. CASE XError
  BY <1>2 DEF XError
<1>3. CASE Signal
  BY <1>3 DEF Signal
<1>4. CASE ~Begin /\ ~XError /\ ~Signal
  <2>1. UNCHANGED bounds
    BY <1>4 DEF Next, Prepare, OpenFiles, SetupDisplays, ReadMeta, SetupAgain,
         SetAutorepeat, OpenGrab, GrabKey, GrabAllKeys, StartMode,
         LeaveOnInterrupt, LeaveLoop, LoopFails, RecordEvent, EndGood, CloseDown, ExitWithError, vars
  <2> QED BY <2>1 DEF bounds
<1> QED BY <1>1, <1>2, <1>3, <1>4

(* Every variable keeps its type, and the bounds are kept by the guards.    *)
THEOREM SessionTypes == Spec => []TypeOK
<1>1. Init => NamesOK
  BY DEF Init, NamesOK, Modes
<1>2. Init => FlagsOK
  BY Zenon DEF Init, FlagsOK
<1>3. Init => CountsOK
  BY BoundAssumption DEF Init, CountsOK
<1>4. NamesOK /\ FlagsOK /\ CountsOK => TypeOK
  BY DEF NamesOK, FlagsOK, CountsOK, TypeOK
<1> QED BY <1>1, <1>2, <1>3, <1>4, NamesKept, FlagsKept, CountsKept, PTL
        DEF Spec
=============================================================================
