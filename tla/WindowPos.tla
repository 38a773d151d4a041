----------------------------- MODULE WindowPos -----------------------------
(***************************************************************************)
(* Window positions in a replay (libxnee/src/xnee_window.c).  The session  *)
(* file has a mark for each window that was reparented while it was        *)
(* recorded; RECORD tells the replayer of each window that is reparented   *)
(* now.  Marks and windows are listed as they come, and whenever both      *)
(* lists have an entry the newest of each are taken for a pair: the window *)
(* is moved to where the mark says, in several tries, for a window manager *)
(* may place it elsewhere.                                                 *)
(*                                                                         *)
(* The lists and their indices are static: nothing empties them between    *)
(* the sessions of a process.  Mark n of a session was written for window  *)
(* n of that session, and a position is one number; no two marks of the    *)
(* process say the same position.  A window that is destroyed while it is  *)
(* moved is left out.                                                      *)
(***************************************************************************)
EXTENDS Integers, FiniteSets

CONSTANTS
    Size,        \* XNEE_WINDOW_BUFFER_SIZE, 10 in the code
    MaxMoves,    \* max_nr_of_moves
    Managers,    \* subset of {"exact", "framed", "stubborn"}
    NWindows,    \* bound: windows of a session
    MaxSessions  \* bound: sessions

ASSUME SizeAssumption == Size \in Nat \ {0}
ASSUME MovesAssumption == MaxMoves \in Nat
ASSUME ManagersAssumption == Managers \subseteq {"exact", "framed", "stubborn"}
ASSUME BoundAssumption == NWindows \in Nat /\ MaxSessions \in Nat

Indices == 0..(Size - 1)

(* Window and mark n of a session share the name <<session, n>>.            *)
Windows == (1..MaxSessions) \X (1..NWindows)

Empty == <<0, 0>>    \* a slot whose window is 0
Garbage == <<0, 1>>  \* a slot copied from behind the end of its array

VARIABLES
    pc,        \* "idle", "replaying"; "testing", "moving" in a try; "undefined"
    manager,   \* the kind of window manager
    session,   \* number of sessions begun
    recall,    \* recall_recorded_win_pos
    sess, si,  \* session_windows, session_index
    rec, ri,   \* received_windows, received_index
    last,      \* last_record_window_pos_win, with its parent
    nmoves,    \* nr_of_moves
    at,        \* where each window is
    nmarks,    \* marks read in this session
    opened,    \* windows reparented in this session
    pairs,     \* history: the pairs <<mark, window>> that were tried
    lockstep   \* history: marks and windows came by turns, and in order
lists == <<sess, si, rec, ri>>
seen == <<session, recall, nmarks, opened, lockstep>>
vars == <<pc, manager, lists, last, nmoves, at, pairs, seen>>

-----------------------------------------------------------------------------

(* Where a mark wants its window: at a place of its own.                    *)
Place(m) == NWindows * m[1] + m[2]
Nowhere == 0

(* XMoveWindow and the position read back after it.  A framed window comes  *)
(* out one further by the width of its frame.                               *)
Lands(asked, where) ==
    CASE manager = "exact"  -> asked
      [] manager = "framed" -> asked + 1
      [] OTHER -> where

(* Mutant of RunsOver: the removal does not stop at the end of the list.    *)
RunsToEnd(l, idx) == idx..(Size - 1)

(* The slots that the removal of idx runs over: up to the first one that is *)
(* followed by a window of 0.                                               *)
RunsOver(l, idx) == {i \in idx..(Size - 1) : \A j \in (idx + 1)..i : l[j] # Empty}

(* Each of them is given up for the next; the last one of the array takes   *)
(* what lies behind the array.                                              *)
Shifted(l, idx, behind) ==
    [i \in Indices |-> IF i \notin RunsOver(l, idx) THEN l[i]
                       ELSE IF i = Size - 1 THEN behind ELSE l[i + 1]]

(* The name of a slot is freed before it is given up.                       *)
FreesGarbage(l, idx) == \E i \in RunsOver(l, idx) : l[i] = Garbage

(* xnee_window_remove_window, of the newest entries.                        *)
RemovePair ==
    \E b1, b2 \in {Empty, Garbage} :
        /\ rec' = Shifted(rec, ri - 1, b1) /\ ri' = ri - 1
        /\ sess' = Shifted(sess, si - 1, b2) /\ si' = si - 1
        /\ \/ pc' = "replaying"
           \/ /\ FreesGarbage(rec, ri - 1) \/ FreesGarbage(sess, si - 1)
              /\ pc' = "undefined"

(* xnee_window_add_impl: a full list stays as it is.                        *)
AddImpl(l, idx, w) ==
    IF idx < Size THEN [slots |-> [l EXCEPT ![idx] = w], index |-> idx + 1]
    ELSE [slots |-> l, index |-> idx]

Mark == sess[si - 1]
Window == rec[ri - 1]

Init ==
    /\ pc = "idle" /\ manager \in Managers
    /\ session = 0 /\ recall = FALSE
    /\ sess = [i \in Indices |-> Empty] /\ si = 0
    /\ rec = [i \in Indices |-> Empty] /\ ri = 0
    /\ last = Empty /\ nmoves = 0
    /\ at = [w \in Windows |-> Nowhere]
    /\ nmarks = 0 /\ opened = {}
    /\ pairs = {} /\ lockstep = TRUE

(* A replay starts, with or without the option to recall positions.         *)
Start ==
    /\ pc = "idle" /\ session < MaxSessions
    /\ pc' = "replaying"
    /\ session' = session + 1
    /\ recall' \in BOOLEAN
    /\ nmarks' = 0 /\ opened' = {}
    /\ lockstep' = (lockstep /\ recall' /\ si = 0 /\ ri = 0)
    /\ UNCHANGED <<manager, lists, last, nmoves, at, pairs>>

(* After an entry is added, xnee_window_try_move begins; it returns at once *)
(* if one of the lists is empty.                                            *)
Try(s, r) == pc' = IF s = 0 \/ r = 0 THEN "replaying" ELSE "testing"

(* xnee_expression_handle_newwindow: a mark that finds no place is dropped. *)
ReadMark ==
    /\ pc = "replaying" /\ nmarks < NWindows
    /\ nmarks' = nmarks + 1
    /\ lockstep' = (lockstep /\ Cardinality(opened) \in {nmarks, nmarks + 1})
    /\ LET added == AddImpl(sess, si, <<session, nmarks'>>)
       IN /\ sess' = added.slots /\ si' = added.index
          /\ IF added.index = si THEN pc' = pc ELSE Try(added.index, ri)
    /\ UNCHANGED <<manager, session, recall, rec, ri, last, nmoves, at, opened, pairs>>

(* Mutant of Reparent: the window listed last is not left out.              *)
ReparentAgain(w, other) ==
    /\ pc = "replaying" /\ w[1] = session
    /\ opened' = opened \cup {w}
    /\ lockstep' =
         (lockstep /\ \/ w \in opened /\ last = w /\ ~other
                      \/ w[2] = Cardinality(opened) + 1 /\ nmarks \in {w[2] - 1, w[2]})
    /\ IF w \in opened THEN at' = at
       ELSE \E p \in {Nowhere, Place(w)} : at' = [at EXCEPT ![w] = p]
    /\ IF recall
       THEN LET added == AddImpl(rec, ri, w)
            IN /\ last' = w
               /\ rec' = added.slots /\ ri' = added.index
               /\ Try(si, added.index)
       ELSE UNCHANGED <<last, rec, ri, pc>>
    /\ UNCHANGED <<manager, session, recall, sess, si, nmoves, nmarks, pairs>>

(* xnee_replay_dispatch is handed a ReparentNotify, of a new window or once *)
(* more of one that is open.  The window manager has placed a new window.   *)
(* The one listed last is left out, unless it has got another parent: its   *)
(* frame for instance has been taken away.                                  *)
(* A window that finds no place is not listed, yet a pair is tried.         *)
Reparent(w, other) ==
    /\ pc = "replaying" /\ w[1] = session
    /\ opened' = opened \cup {w}
    /\ lockstep' =
         (lockstep /\ \/ w \in opened /\ last = w /\ ~other
                      \/ w[2] = Cardinality(opened) + 1 /\ nmarks \in {w[2] - 1, w[2]})
    /\ IF w \in opened THEN at' = at
       ELSE \E p \in {Nowhere, Place(w)} : at' = [at EXCEPT ![w] = p]
    /\ IF recall /\ (last # w \/ other)
       THEN LET added == AddImpl(rec, ri, w)
            IN /\ last' = w
               /\ rec' = added.slots /\ ri' = added.index
               /\ Try(si, added.index)
       ELSE UNCHANGED <<last, rec, ri, pc>>
    /\ UNCHANGED <<manager, session, recall, sess, si, nmoves, nmarks, pairs>>

(* The first half of xnee_window_try_move: a window that is in its place is *)
(* done with, another one is moved there.                                   *)
Test ==
    /\ pc = "testing"
    /\ pairs' = pairs \cup {<<Mark, Window>>}
    /\ nmoves' = 0
    /\ IF at[Window] = Place(Mark)
       THEN RemovePair /\ at' = at
       ELSE /\ at' = [at EXCEPT ![Window] = Lands(Place(Mark), @)]
            /\ pc' = "moving"
            /\ UNCHANGED lists
    /\ UNCHANGED <<manager, last, seen>>

(* Mutant of Adjust: the moves are not counted.                             *)
AdjustUncounted ==
    /\ pc = "moving" /\ nmoves < MaxMoves
    /\ IF at[Window] = Place(Mark)
       THEN RemovePair /\ at' = at
       ELSE /\ at' = [at EXCEPT ![Window] = Lands(2 * Place(Mark) - @, @)]
            /\ UNCHANGED <<pc, lists>>
    /\ UNCHANGED <<manager, last, nmoves, pairs, seen>>

(* One round of its loop: what the window is off by is added to what was    *)
(* asked for at first.                                                      *)
Adjust ==
    /\ pc = "moving" /\ nmoves < MaxMoves
    /\ IF at[Window] = Place(Mark)
       THEN RemovePair /\ UNCHANGED <<at, nmoves>>
       ELSE /\ at' = [at EXCEPT ![Window] = Lands(2 * Place(Mark) - @, @)]
            /\ nmoves' = nmoves + 1
            /\ UNCHANGED <<pc, lists>>
    /\ UNCHANGED <<manager, last, pairs, seen>>

(* The loop ends: the entries stay, wherever the window is.                 *)
GiveUp ==
    /\ pc = "moving" /\ nmoves >= MaxMoves
    /\ pc' = "replaying"
    /\ UNCHANGED <<manager, lists, last, nmoves, at, pairs, seen>>

(* The session ends, by its file or by an interrupt, with lists as they are. *)
End ==
    /\ pc = "replaying"
    /\ pc' = "idle"
    /\ UNCHANGED <<manager, lists, last, nmoves, at, pairs, seen>>

Next ==
    \/ Start \/ ReadMark \/ End
    \/ \E w \in Windows, other \in BOOLEAN : Reparent(w, other)
    \/ Test \/ Adjust \/ GiveUp

Spec == Init /\ [][Next]_vars

(* A try is one call that does not wait for anybody.                        *)
Fairness == WF_vars(Test \/ Adjust \/ GiveUp)
FairSpec == Spec /\ Fairness

-----------------------------------------------------------------------------

(* The window manager gets every window into its place soon enough for the  *)
(* loop to notice.                                                          *)
Obeys ==
    \/ manager = "exact" /\ MaxMoves >= 1
    \/ manager = "framed" /\ MaxMoves >= 2

Slot == Windows \cup {Empty, Garbage}

TypeOK ==
    /\ pc \in {"idle", "replaying", "testing", "moving", "undefined"}
    /\ manager \in Managers
    /\ session \in 0..MaxSessions /\ recall \in BOOLEAN
    /\ sess \in [Indices -> Slot] /\ si \in 0..Size
    /\ rec \in [Indices -> Slot] /\ ri \in 0..Size
    /\ last \in Windows \cup {Empty}
    /\ nmoves \in 0..MaxMoves
    /\ at \in [Windows -> Int]
    /\ nmarks \in 0..NWindows /\ opened \subseteq Windows
    /\ pairs \subseteq Windows \X Windows
    /\ lockstep \in BOOLEAN

(* The newest entries belong together as long as marks and windows come by  *)
(* turns and in order, in sessions that recall positions and end with both  *)
(* lists empty.                                                             *)
PairedRight == Obeys /\ lockstep => \A p \in pairs : p[1] = p[2]

(* The removal at the end of a full array reads behind it: the lists stay   *)
(* defined as long as no list is full.                                      *)
DefinedUntilFull ==
    [][ (\A i \in Indices : sess'[i] # Garbage /\ rec'[i] # Garbage)
        \/ si = Size \/ ri = Size
        \/ (\E i \in Indices : sess[i] = Garbage \/ rec[i] = Garbage) ]_vars

(* A try ends, whatever the window manager does.                            *)
TriesEnd == (pc \in {"testing", "moving"}) ~> (pc \in {"replaying", "undefined"})
=============================================================================
