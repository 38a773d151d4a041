--------------------------- MODULE WindowPosProofs ---------------------------
(***************************************************************************)
(* The lists of windows and marks, for lists of any size, any window       *)
(* manager of the three kinds and any number of windows and sessions.      *)
(*                                                                         *)
(* DefinedUntilFull rests on ListsOK: behind the index a list holds        *)
(* nothing but empty slots and garbage.  PairedRight rests on PairInv,     *)
(* which says what the lists hold while marks and windows come by turns,   *)
(* and on the number of moves the window manager needs.                    *)
(***************************************************************************)
EXTENDS WindowPos, FiniteSetTheorems, TLAPS

ListOK(l, idx) ==
    /\ l \in [Indices -> Slot] /\ idx \in 0..Size
    /\ \A i \in Indices : i >= idx => l[i] \in {Empty, Garbage}

ListsOK ==
    /\ ListOK(sess, si) /\ ListOK(rec, ri)
    /\ session \in 0..MaxSessions /\ nmarks \in 0..NWindows
    /\ pc \in {"testing", "moving"} => si > 0 /\ ri > 0
    /\ pc # "idle" => session > 0

-----------------------------------------------------------------------------

(* No window has the name of a slot that is empty or undefined.             *)
LEMMA NamesDiffer ==
    /\ Empty # Garbage
    /\ \A w \in Windows : w # Empty /\ w # Garbage
  BY DEF Empty, Garbage, Windows

(* Adding at the index.                                                     *)
LEMMA Adding ==
    ASSUME NEW l, NEW idx, ListOK(l, idx), NEW w \in Windows
    PROVE  /\ ListOK(AddImpl(l, idx, w).slots, AddImpl(l, idx, w).index)
           /\ AddImpl(l, idx, w).index > 0
           /\ \A i \in Indices : AddImpl(l, idx, w).slots[i] = Garbage
                                    => l[i] = Garbage
<1> USE SizeAssumption DEF ListOK, Slot, Indices
<1>1. CASE idx < Size
  <2>1. /\ AddImpl(l, idx, w).slots = [l EXCEPT ![idx] = w]
        /\ AddImpl(l, idx, w).index = idx + 1
    BY <1>1 DEF AddImpl
  <2> QED BY <1>1, <2>1, NamesDiffer
<1>2. CASE ~(idx < Size)
  <2>1. AddImpl(l, idx, w).slots = l /\ AddImpl(l, idx, w).index = idx
    BY <1>2 DEF AddImpl
  <2> QED BY <1>2, <2>1
<1> QED BY <1>1, <1>2

(* Removing the newest entry leaves what is behind the index as it was, and *)
(* reads behind the array only if the list is full or was read so before.   *)
LEMMA Removing ==
    ASSUME NEW l, NEW idx, ListOK(l, idx), idx > 0,
           NEW b \in {Empty, Garbage}
    PROVE  /\ ListOK(Shifted(l, idx - 1, b), idx - 1)
           /\ idx = Size \/ (\E i \in Indices : l[i] = Garbage)
                \/ \A i \in Indices : Shifted(l, idx - 1, b)[i] # Garbage
<1> USE SizeAssumption DEF ListOK, Slot, Indices
<1> DEFINE s == Shifted(l, idx - 1, b)
<1>1. \A i \in Indices : s[i] = IF i \notin RunsOver(l, idx - 1) THEN l[i]
                                ELSE IF i = Size - 1 THEN b ELSE l[i + 1]
  BY DEF Shifted
<1>2. DOMAIN s = Indices
  BY DEF Shifted
<1>3. s \in [Indices -> Slot]
  <2>1. \A i \in Indices : i # Size - 1 => i + 1 \in Indices
    OBVIOUS
  <2> QED BY <2>1 DEF Shifted
<1>4. idx - 1 \in RunsOver(l, idx - 1)
  BY DEF RunsOver
<1>5. \A i \in Indices : i >= idx - 1 => s[i] \in {Empty, Garbage}
  <2> SUFFICES ASSUME NEW i \in Indices, i >= idx - 1
               PROVE  s[i] \in {Empty, Garbage}
    OBVIOUS
  <2>1. CASE i \notin RunsOver(l, idx - 1)
    <3>1. i >= idx
      BY <1>4, <2>1
    <3> QED BY <1>1, <2>1, <3>1
  <2>2. CASE i \in RunsOver(l, idx - 1) /\ i = Size - 1
    BY <1>1, <2>2
  <2>3. CASE i \in RunsOver(l, idx - 1) /\ i # Size - 1
    <3>1. i + 1 \in Indices /\ i + 1 >= idx
      BY <2>3
    <3> QED BY <1>1, <2>3, <3>1
  <2> QED BY <2>1, <2>2, <2>3
<1>6. ASSUME idx # Size, \A i \in Indices : l[i] # Garbage, NEW i \in Indices
      PROVE  s[i] # Garbage
  <2>1. idx \in Indices /\ l[idx] = Empty
    BY <1>6
  <2>2. i \in RunsOver(l, idx - 1) => i = idx - 1
    <3> SUFFICES ASSUME i \in RunsOver(l, idx - 1), i >= idx PROVE FALSE
      BY DEF RunsOver
    <3>1. idx \in ((idx - 1) + 1)..i
      OBVIOUS
    <3> QED BY <2>1, <3>1 DEF RunsOver
  <2>3. CASE i = idx - 1
    BY <1>1, <1>4, <2>1, <2>3, NamesDiffer
  <2>4. CASE i # idx - 1
    BY <1>1, <1>6, <2>2, <2>4
  <2> QED BY <2>3, <2>4
<1> HIDE DEF s
<1>7. ListOK(s, idx - 1)
  BY <1>3, <1>5
<1> QED BY <1>6, <1>7 DEF s

-----------------------------------------------------------------------------

(* What the steps do to the lists: they leave them alone, or remove the     *)
(* newest of each, or add a mark, or add a window.                          *)
Removes ==
    /\ si > 0 /\ ri > 0
    /\ \E b1, b2 \in {Empty, Garbage} :
        /\ rec' = Shifted(rec, ri - 1, b1) /\ ri' = ri - 1
        /\ sess' = Shifted(sess, si - 1, b2) /\ si' = si - 1

AddsMark ==
    /\ UNCHANGED <<rec, ri>>
    /\ \E m \in Windows : /\ sess' = AddImpl(sess, si, m).slots
                          /\ si' = AddImpl(sess, si, m).index

AddsWindow ==
    /\ UNCHANGED <<sess, si>>
    /\ \E w \in Windows : /\ rec' = AddImpl(rec, ri, w).slots
                          /\ ri' = AddImpl(rec, ri, w).index

(* The next mark has the name of a window.                                  *)
LEMMA MarkNames ==
    ASSUME ListsOK, ReadMark
    PROVE  <<session, nmarks + 1>> \in Windows
  BY BoundAssumption DEF ListsOK, ReadMark, Windows

(* Every step does one of these to the lists.                               *)
LEMMA ListSteps ==
    ASSUME ListsOK, [Next]_vars
    PROVE  UNCHANGED lists \/ Removes \/ AddsMark \/ AddsWindow
<1>1. CASE Start \/ End \/ GiveUp \/ UNCHANGED vars
  BY <1>1 DEF Start, End, GiveUp, vars
<1>2. CASE ReadMark
  <2>1. AddsMark
    BY <1>2, MarkNames DEF ReadMark, AddsMark
  <2> QED BY <2>1
<1>3. ASSUME NEW w \in Windows, NEW other \in BOOLEAN,
             Reparent(w, other)
      PROVE  UNCHANGED lists \/ AddsWindow
  BY <1>3 DEF Reparent, AddsWindow, lists
<1>4. CASE Test \/ Adjust
  BY <1>4 DEF Test, Adjust, RemovePair, Removes, ListsOK
<1> QED BY <1>1, <1>2, <1>3, <1>4 DEF Next

(* Both lists start empty.                                                  *)
LEMMA ListsStart == Init => ListsOK
  BY BoundAssumption, SizeAssumption
  DEF Init, ListsOK, ListOK, Slot

(* What is behind the index of a list is never a window.                    *)
LEMMA ListsKept == ListsOK /\ [Next]_vars => ListsOK'
<1> SUFFICES ASSUME ListsOK, [Next]_vars PROVE ListsOK'
  OBVIOUS
<1> USE DEF ListsOK
<1>1. ListOK(sess', si') /\ ListOK(rec', ri')
  <2>1. CASE UNCHANGED lists
    BY <2>1 DEF lists
  <2>2. CASE Removes
    BY <2>2, Removing DEF Removes
  <2>3. CASE AddsMark
    BY <2>3, Adding DEF AddsMark
  <2>4. CASE AddsWindow
    BY <2>4, Adding DEF AddsWindow
  <2> QED BY <2>1, <2>2, <2>3, <2>4, ListSteps
<1>2. session' \in 0..MaxSessions /\ nmarks' \in 0..NWindows
      /\ (pc' # "idle" => session' > 0)
  BY BoundAssumption DEF Next, Start, ReadMark, End, Reparent, Test, Adjust,
     GiveUp, seen, vars
<1>3. pc' \in {"testing", "moving"} => si' > 0 /\ ri' > 0
  <2>1. CASE Start \/ End \/ GiveUp \/ UNCHANGED vars
    BY <2>1 DEF Start, End, GiveUp, vars, lists
  <2>2. CASE ReadMark
    <3>1. <<session, nmarks + 1>> \in Windows
      BY <2>2, MarkNames
    <3>2. AddImpl(sess, si, <<session, nmarks + 1>>).index > 0
      BY <3>1, Adding
    <3>3. ri \in Nat /\ UNCHANGED ri
      BY <2>2, SizeAssumption DEF ListOK, ReadMark
    <3> QED BY <2>2, <3>2, <3>3 DEF ReadMark, Try
  <2>3. ASSUME NEW w \in Windows, NEW other \in BOOLEAN,
             Reparent(w, other)
        PROVE  pc' \in {"testing", "moving"} => si' > 0 /\ ri' > 0
    <3>1. AddImpl(rec, ri, w).index > 0
      BY Adding
    <3>2. si \in Nat /\ UNCHANGED si /\ pc = "replaying"
      BY <2>3, SizeAssumption DEF ListOK, Reparent
    <3> QED BY <2>3, <3>1, <3>2 DEF Reparent, Try
  <2>4. CASE Test \/ Adjust
    BY <2>4 DEF Test, Adjust, RemovePair, lists
  <2> QED BY <2>1, <2>2, <2>3, <2>4 DEF Next
<1> QED BY <1>1, <1>2, <1>3

(* A list becomes undefined only by a removal from a full array.            *)
THEOREM UndefinedOnlyWhenFull == Spec => DefinedUntilFull
<1>1. ASSUME ListsOK, [Next]_vars, si # Size, ri # Size,
             \A i \in Indices : sess[i] # Garbage,
             \A i \in Indices : rec[i] # Garbage
      PROVE  \A i \in Indices : sess'[i] # Garbage /\ rec'[i] # Garbage
  <2> USE DEF ListsOK
  <2>1. CASE UNCHANGED lists
    BY <1>1, <2>1 DEF lists
  <2>2. CASE Removes
    BY <1>1, <2>2, Removing DEF Removes
  <2>3. CASE AddsMark
    BY <1>1, <2>3, Adding DEF AddsMark
  <2>4. CASE AddsWindow
    BY <1>1, <2>4, Adding DEF AddsWindow
  <2> QED BY <1>1, <2>1, <2>2, <2>3, <2>4, ListSteps
<1>2. ListsOK /\ [Next]_vars =>
        [ (\A i \in Indices : sess'[i] # Garbage /\ rec'[i] # Garbage)
          \/ si = Size \/ ri = Size
          \/ (\E i \in Indices : sess[i] = Garbage \/ rec[i] = Garbage) ]_vars
  BY <1>1
<1> QED BY <1>2, ListsStart, ListsKept, PTL DEF Spec, DefinedUntilFull

-----------------------------------------------------------------------------

(* The windows of the process: those that were reparented belong to this    *)
(* session, the one listed last to this or an earlier one.                  *)
WindowsOK ==
    /\ at \in [Windows -> Int]
    /\ opened \subseteq Windows /\ IsFiniteSet(opened)
    /\ \A w \in opened : w[1] = session
    /\ last \in Windows \cup {Empty}
    /\ last[1] <= session
    /\ session > 0 /\ last[1] = session => last \in opened

(* No mark or window is waited for; or a mark waits; or a window does.      *)
Turn ==
    \/ nmarks = Cardinality(opened) /\ si = 0 /\ ri = 0
    \/ /\ nmarks = Cardinality(opened) + 1 /\ si = 1 /\ ri = 0
       /\ sess[0] = <<session, nmarks>>
    \/ /\ Cardinality(opened) = nmarks + 1 /\ si = 0 /\ ri = 1
       /\ rec[0] = <<session, nmarks + 1>>

(* A pair is tried, of one window, which is in its place after as many      *)
(* moves as the window manager needs.                                       *)
Pair ==
    /\ nmarks = Cardinality(opened) /\ si = 1 /\ ri = 1
    /\ sess[0] = rec[0] /\ rec[0] \in Windows
    /\ pc = "moving" =>
         \/ manager = "exact" /\ nmoves = 0 /\ at[rec[0]] = Place(rec[0])
         \/ manager = "framed" /\ nmoves = 0 /\ at[rec[0]] = Place(rec[0]) + 1
         \/ manager = "framed" /\ nmoves = 1 /\ at[rec[0]] = Place(rec[0])

PairInv ==
    Obeys /\ lockstep =>
        /\ \A p \in pairs : p[1] = p[2]
        /\ \A w \in opened : w[2] <= Cardinality(opened)
        /\ pc = "replaying" => recall /\ Turn
        /\ pc \in {"testing", "moving"} => recall /\ Pair

(* A place is a number.                                                     *)
LEMMA Places == \A m \in Slot : Place(m) \in Int
  BY BoundAssumption DEF Slot, Place, Windows, Empty, Garbage

(* No window is open and no pair was tried before the first session.        *)
LEMMA WindowsStart == Init => WindowsOK /\ PairInv
<1> SUFFICES ASSUME Init PROVE WindowsOK /\ PairInv
  OBVIOUS
<1>1. WindowsOK
  BY FS_EmptySet DEF Init, WindowsOK, Nowhere, Empty
<1>2. PairInv
  BY DEF Init, PairInv
<1> QED BY <1>1, <1>2

(* The names of a try.                                                      *)
LEMMA Newest ==
    ASSUME ListsOK, pc \in {"testing", "moving"}
    PROVE  Mark \in Slot /\ Window \in Slot
  BY SizeAssumption DEF ListsOK, ListOK, Mark, Window, Indices

(* A window is reparented in its own session, and only then listed last.    *)
LEMMA WindowsKept == ListsOK /\ WindowsOK /\ [Next]_vars => WindowsOK'
<1> SUFFICES ASSUME ListsOK, WindowsOK, [Next]_vars PROVE WindowsOK'
  OBVIOUS
<1> USE DEF WindowsOK
<1>1. CASE Start
  <2>1. session' = session + 1 /\ opened' = {} /\ UNCHANGED <<at, last>>
    BY <1>1 DEF Start
  <2>2. session \in Nat /\ last[1] \in Int
    BY DEF ListsOK, Windows, Empty
  <2> QED BY <2>1, <2>2, FS_EmptySet
<1>2. CASE End \/ GiveUp \/ ReadMark \/ UNCHANGED vars
  <2>1. UNCHANGED <<session, at, opened, last>>
    BY <1>2 DEF End, GiveUp, ReadMark, seen, vars
  <2> QED BY <2>1
<1>3. ASSUME NEW w \in Windows, NEW other \in BOOLEAN,
             Reparent(w, other) PROVE WindowsOK'
  <2>1. /\ w[1] = session /\ opened' = opened \cup {w}
        /\ last' = w \/ UNCHANGED last
        /\ UNCHANGED session
    BY <1>3 DEF Reparent
  <2>2. at' \in [Windows -> Int]
    <3>1. Place(w) \in Int /\ Nowhere \in Int
      BY Places DEF Slot, Nowhere
    <3> QED BY <1>3, <3>1 DEF Reparent
  <2>3. IsFiniteSet(opened')
    BY <2>1, FS_AddElement
  <2>4. w[1] \in Int
    BY DEF Windows
  <2> QED BY <2>1, <2>2, <2>3, <2>4
<1>4. CASE Test \/ Adjust
  <2>1. UNCHANGED <<session, opened, last>>
    BY <1>4 DEF Test, Adjust, seen
  <2>2. at' \in [Windows -> Int]
    <3>1. \/ UNCHANGED at
          \/ at' = [at EXCEPT ![Window] = Lands(Place(Mark), @)]
          \/ at' = [at EXCEPT ![Window] = Lands(2 * Place(Mark) - @, @)]
      BY <1>4 DEF Test, Adjust
    <3>2. Place(Mark) \in Int
      BY <1>4, Newest, Places DEF Test, Adjust
    <3>3. ASSUME NEW x \in Int, NEW y \in Int PROVE Lands(x, y) \in Int
      BY DEF Lands
    <3>4. CASE Window \in Windows
      <4>1. at[Window] \in Int
        BY <3>4
      <4>2. Lands(Place(Mark), at[Window]) \in Int
        BY <3>2, <3>3, <4>1
      <4>3. Lands(2 * Place(Mark) - at[Window], at[Window]) \in Int
        <5>1. 2 * Place(Mark) - at[Window] \in Int
          BY <3>2, <4>1
        <5> QED BY <3>3, <4>1, <5>1
      <4> QED BY <3>1, <4>2, <4>3
    <3>5. CASE Window \notin Windows
      BY <3>1, <3>5
    <3> QED BY <3>4, <3>5
  <2> QED BY <2>1, <2>2
<1> QED BY <1>1, <1>2, <1>3, <1>4 DEF Next

(* Adding to an empty list.                                                 *)
LEMMA AddFirst ==
    ASSUME NEW l, ListOK(l, 0), NEW w
    PROVE  /\ AddImpl(l, 0, w).index = 1
           /\ AddImpl(l, 0, w).slots[0] = w
<1>1. AddImpl(l, 0, w) = [slots |-> [l EXCEPT ![0] = w], index |-> 1]
  BY SizeAssumption DEF AddImpl
<1>2. 0 \in DOMAIN l
  BY SizeAssumption DEF ListOK, Indices
<1> QED BY <1>1, <1>2

(* While marks and windows come by turns the lists hold one of each at      *)
(* most.                                                                    *)
LEMMA PairKept == ListsOK /\ WindowsOK /\ PairInv /\ [Next]_vars => PairInv'
<1> SUFFICES ASSUME ListsOK, WindowsOK, PairInv, [Next]_vars,
                    Obeys', lockstep'
             PROVE  /\ \A p \in pairs' : p[1] = p[2]
                    /\ \A w \in opened' : w[2] <= Cardinality(opened')
                    /\ pc' = "replaying" => recall' /\ Turn'
                    /\ pc' \in {"testing", "moving"} => recall' /\ Pair'
  BY DEF PairInv
<1> DEFINE o == Cardinality(opened)
<1>0. Obeys /\ lockstep
  <2>1. UNCHANGED manager
    BY DEF Next, Start, ReadMark, End, Reparent, Test, Adjust, GiveUp, vars
  <2>2. lockstep' => lockstep
    BY DEF Next, Start, ReadMark, End, Reparent, Test, Adjust, GiveUp, vars,
       seen
  <2> QED BY <2>1, <2>2 DEF Obeys
<1>1. /\ \A p \in pairs : p[1] = p[2]
      /\ \A w \in opened : w[2] <= o
      /\ pc = "replaying" => recall /\ Turn
      /\ pc \in {"testing", "moving"} => recall /\ Pair
  BY <1>0 DEF PairInv
<1>2. o \in Nat /\ nmarks \in Nat /\ session \in Nat
  <2>1. o \in Nat
    BY FS_CardinalityType DEF WindowsOK
  <2> QED BY <2>1 DEF ListsOK
<1>3. CASE Start
  <2>1. /\ nmarks' = 0 /\ opened' = {} /\ pc' = "replaying"
        /\ UNCHANGED <<lists, pairs>>
        /\ recall' /\ si = 0 /\ ri = 0
    BY <1>3 DEF Start
  <2> QED BY <1>1, <2>1, FS_EmptySet DEF Turn, lists
<1>4. CASE ReadMark
  <2>1. /\ pc = "replaying" /\ nmarks' = nmarks + 1
        /\ o \in {nmarks, nmarks + 1}
        /\ sess' = AddImpl(sess, si, <<session, nmarks'>>).slots
        /\ si' = AddImpl(sess, si, <<session, nmarks'>>).index
        /\ IF si' = si THEN pc' = pc ELSE Try(si', ri)
        /\ UNCHANGED <<session, recall, rec, ri, opened, pairs, manager>>
    BY <1>4 DEF ReadMark
  <2>2. recall /\ si = 0
    BY <1>1, <1>2, <2>1 DEF Turn
  <2>3. si' = 1 /\ sess'[0] = <<session, nmarks + 1>>
    BY <2>1, <2>2, AddFirst DEF ListsOK
  <2>4. <<session, nmarks + 1>> \in Windows
    BY <1>4, MarkNames
  <2>5. CASE o = nmarks
    <3>1. ri = 0
      BY <1>1, <1>2, <2>1, <2>5 DEF Turn
    <3>2. pc' = "replaying"
      BY <2>1, <2>2, <2>3, <3>1 DEF Try
    <3> QED BY <1>1, <1>2, <2>1, <2>2, <2>3, <2>5, <3>1, <3>2 DEF Turn
  <2>6. CASE o = nmarks + 1
    <3>1. ri = 1 /\ rec[0] = <<session, nmarks + 1>>
      BY <1>1, <1>2, <2>1, <2>6 DEF Turn
    <3>2. pc' = "testing"
      BY <2>1, <2>2, <2>3, <3>1 DEF Try
    <3> QED BY <1>1, <1>2, <2>1, <2>2, <2>3, <2>4, <2>6, <3>1, <3>2 DEF Pair
  <2> QED BY <2>1, <2>5, <2>6
<1>5. ASSUME NEW w \in Windows, NEW other \in BOOLEAN,
             Reparent(w, other)
      PROVE  /\ \A p \in pairs' : p[1] = p[2]
             /\ \A v \in opened' : v[2] <= Cardinality(opened')
             /\ pc' = "replaying" => recall' /\ Turn'
             /\ pc' \in {"testing", "moving"} => recall' /\ Pair'
  <2>1. /\ pc = "replaying" /\ w[1] = session
        /\ opened' = opened \cup {w}
        /\ \/ w \in opened /\ last = w /\ ~other
           \/ w[2] = o + 1 /\ nmarks \in {w[2] - 1, w[2]}
        /\ UNCHANGED <<session, recall, sess, si, nmarks, pairs, manager>>
    BY <1>5 DEF Reparent
  <2>2. recall /\ Turn
    BY <1>1, <2>1
  <2>3. CASE w \in opened /\ last = w /\ ~other
    <3>1. opened' = opened /\ UNCHANGED <<rec, ri, pc>>
      BY <1>5, <2>1, <2>3 DEF Reparent
    <3> QED BY <1>1, <2>1, <2>2, <3>1 DEF Turn
  <2>4. CASE w[2] = o + 1 /\ nmarks \in {w[2] - 1, w[2]}
    <3>1. w \notin opened
      BY <1>1, <1>2, <2>4
    <3>2. Cardinality(opened') = o + 1
      BY <2>1, <3>1, FS_AddElement DEF WindowsOK
    <3>3. \A v \in opened' : v[2] <= o + 1
      <4>1. \A v \in opened : v[2] \in Int
        BY DEF WindowsOK, Windows
      <4> QED BY <1>1, <1>2, <2>1, <2>4, <4>1
    <3>4. last # w
      <4>1. session > 0
        BY <2>1 DEF ListsOK
      <4> QED BY <2>1, <3>1, <4>1 DEF WindowsOK
    <3>5. ri = 0
      BY <1>2, <2>2, <2>4 DEF Turn
    <3>6. /\ rec' = AddImpl(rec, ri, w).slots
          /\ ri' = AddImpl(rec, ri, w).index
          /\ Try(si, ri')
      BY <1>5, <2>2, <3>4 DEF Reparent
    <3>7. ri' = 1 /\ rec'[0] = w
      BY <3>5, <3>6, AddFirst DEF ListsOK
    <3>8. w = <<session, o + 1>>
      BY <2>1, <2>4 DEF Windows
    <3>9. CASE nmarks = o
      <4>1. si = 0
        BY <1>2, <2>2, <3>5, <3>9 DEF Turn
      <4>2. pc' = "replaying"
        BY <3>6, <4>1 DEF Try
      <4> QED BY <1>1, <2>1, <2>2, <3>2, <3>3, <3>7, <3>8, <3>9, <4>1, <4>2
              DEF Turn
    <3>10. CASE nmarks = o + 1
      <4>1. si = 1 /\ sess[0] = <<session, nmarks>>
        BY <1>2, <2>2, <3>5, <3>10 DEF Turn
      <4>2. pc' = "testing"
        BY <3>6, <3>7, <4>1 DEF Try
      <4> QED BY <1>1, <2>1, <2>2, <3>2, <3>3, <3>7, <3>8, <3>10, <4>1, <4>2
              DEF Pair
    <3> QED BY <1>2, <2>4, <3>9, <3>10
  <2> QED BY <2>1, <2>3, <2>4
<1>6. CASE Test \/ Adjust
  <2>1. recall /\ Pair /\ UNCHANGED <<recall, nmarks, opened, manager>>
    BY <1>1, <1>6 DEF Test, Adjust, seen
  <2>2. Mark = rec[0] /\ Window = rec[0]
    BY <2>1 DEF Pair, Mark, Window
  <2>3. \A p \in pairs' : p[1] = p[2]
    BY <1>1, <1>6, <2>2 DEF Test, Adjust
  <2>4. CASE RemovePair
    <3>1. ri' = 0 /\ si' = 0 /\ pc' \in {"replaying", "undefined"}
      BY <2>1, <2>4 DEF RemovePair, Pair
    <3> QED BY <1>1, <2>1, <2>3, <3>1 DEF Pair, Turn
  <2>5. Place(rec[0]) \in Int
    BY <2>1, Places DEF Pair, Slot
  <2>6. CASE Test /\ ~RemovePair
    <3>1. /\ at' = [at EXCEPT ![rec[0]] = Lands(Place(rec[0]), @)]
          /\ pc' = "moving" /\ nmoves' = 0
          /\ UNCHANGED lists
      BY <2>2, <2>6 DEF Test
    <3>2. at'[rec[0]] = Lands(Place(rec[0]), at[rec[0]])
      BY <2>1, <3>1 DEF Pair, WindowsOK
    <3>3. \/ manager = "exact" /\ at'[rec[0]] = Place(rec[0])
          \/ manager = "framed" /\ at'[rec[0]] = Place(rec[0]) + 1
      BY <1>0, <3>2 DEF Lands, Obeys
    <3> QED BY <1>1, <2>1, <2>3, <3>1, <3>3 DEF Pair, lists
  <2>7. CASE Adjust /\ ~RemovePair
    <3>1. /\ at' = [at EXCEPT ![rec[0]] = Lands(2 * Place(rec[0]) - @, @)]
          /\ nmoves' = nmoves + 1 /\ at[rec[0]] # Place(rec[0])
          /\ pc = "moving" /\ UNCHANGED <<pc, lists>>
      BY <2>2, <2>7 DEF Adjust
    <3>2. manager = "framed" /\ nmoves = 0 /\ at[rec[0]] = Place(rec[0]) + 1
      BY <2>1, <3>1 DEF Pair
    <3>3. at'[rec[0]] = Lands(2 * Place(rec[0]) - at[rec[0]], at[rec[0]])
      BY <2>1, <3>1 DEF Pair, WindowsOK
    <3>4. at'[rec[0]] = Place(rec[0])
      BY <2>5, <3>2, <3>3 DEF Lands
    <3> QED BY <1>1, <2>1, <2>3, <3>1, <3>2, <3>4 DEF Pair, lists
  <2> QED BY <1>6, <2>4, <2>6, <2>7
<1>7. CASE GiveUp
  <2>1. Pair /\ pc = "moving" /\ nmoves >= MaxMoves
    BY <1>1, <1>7 DEF GiveUp
  <2> QED BY <1>0, <2>1, MovesAssumption DEF Pair, Obeys
<1>8. CASE End
  BY <1>1, <1>8 DEF End, seen
<1>9. CASE UNCHANGED vars
  BY <1>1, <1>9 DEF vars, seen, lists, Turn, Pair
<1> QED BY <1>3, <1>4, <1>5, <1>6, <1>7, <1>8, <1>9 DEF Next

(* While marks and windows come by turns and in order, each window is moved *)
(* to the place of its own mark, for a window manager that obeys within the *)
(* moves there are.                                                         *)
THEOREM PairsAreRight == Spec => []PairedRight
<1>1. PairInv => PairedRight
  BY DEF PairInv, PairedRight
<1> QED BY <1>1, ListsStart, ListsKept, WindowsStart, WindowsKept, PairKept,
           PTL DEF Spec

-----------------------------------------------------------------------------

(* Before its index a list holds windows and nothing else.                  *)
Filled(l, idx) == \A i \in Indices : i < idx => l[i] \in Windows

FilledOK == Filled(sess, si) /\ Filled(rec, ri)

(* The other variables have values of their kinds.                          *)
KindsOK ==
    /\ pc \in {"idle", "replaying", "testing", "moving", "undefined"}
    /\ manager \in Managers /\ recall \in BOOLEAN /\ lockstep \in BOOLEAN
    /\ nmoves \in 0..MaxMoves
    /\ pairs \subseteq Windows \X Windows

(* The last step of a removal leaves what is before the index.              *)
LEMMA RemovingLeaves ==
    ASSUME NEW l, NEW idx, ListOK(l, idx), idx > 0, Filled(l, idx), NEW b
    PROVE  Filled(Shifted(l, idx - 1, b), idx - 1)
<1> USE SizeAssumption DEF ListOK, Filled, Indices
<1> SUFFICES ASSUME NEW i \in Indices, i < idx - 1
             PROVE  Shifted(l, idx - 1, b)[i] \in Windows
  OBVIOUS
<1>1. i \notin RunsOver(l, idx - 1)
  BY DEF RunsOver
<1> QED BY <1>1 DEF Shifted

(* An entry that is added fills the place at the index.                     *)
LEMMA AddingFills ==
    ASSUME NEW l, NEW idx, ListOK(l, idx), Filled(l, idx), NEW w \in Windows
    PROVE  Filled(AddImpl(l, idx, w).slots, AddImpl(l, idx, w).index)
<1> USE SizeAssumption DEF ListOK, Filled, Indices
<1>1. CASE idx < Size
  <2>1. /\ AddImpl(l, idx, w).slots = [l EXCEPT ![idx] = w]
        /\ AddImpl(l, idx, w).index = idx + 1
    BY <1>1 DEF AddImpl
  <2> QED BY <1>1, <2>1
<1>2. CASE ~(idx < Size)
  <2>1. AddImpl(l, idx, w).slots = l /\ AddImpl(l, idx, w).index = idx
    BY <1>2 DEF AddImpl
  <2> QED BY <1>2, <2>1
<1> QED BY <1>1, <1>2

(* The lists stay filled up to their indices.                               *)
LEMMA FilledKept == ListsOK /\ FilledOK /\ [Next]_vars => FilledOK'
<1> SUFFICES ASSUME ListsOK, FilledOK, [Next]_vars PROVE FilledOK'
  OBVIOUS
<1> USE DEF ListsOK, FilledOK
<1>1. CASE UNCHANGED lists
  BY <1>1 DEF lists, Filled
<1>2. CASE Removes
  BY <1>2, RemovingLeaves DEF Removes
<1>3. CASE AddsMark
  BY <1>3, AddingFills DEF AddsMark, Filled
<1>4. CASE AddsWindow
  BY <1>4, AddingFills DEF AddsWindow, Filled
<1> QED BY <1>1, <1>2, <1>3, <1>4, ListSteps

(* The kinds of the other variables.                                        *)
LEMMA KindsKept ==
    ListsOK /\ FilledOK /\ KindsOK /\ [Next]_vars => KindsOK'
<1> SUFFICES ASSUME ListsOK, FilledOK, KindsOK, [Next]_vars PROVE KindsOK'
  OBVIOUS
<1> USE DEF KindsOK
<1>1. CASE Start \/ End \/ GiveUp \/ UNCHANGED vars
  BY <1>1 DEF Start, End, GiveUp, vars, seen
<1>2. CASE ReadMark
  BY <1>2 DEF ReadMark, Try
<1>3. ASSUME NEW w \in Windows, NEW other \in BOOLEAN,
             Reparent(w, other) PROVE KindsOK'
  BY <1>3 DEF Reparent, Try
<1>4. CASE Test
  <2>1. Mark \in Windows /\ Window \in Windows
    <3>1. /\ si - 1 \in Indices /\ ri - 1 \in Indices
          /\ si - 1 < si /\ ri - 1 < ri
      BY <1>4, SizeAssumption DEF Test, ListsOK, ListOK, Indices
    <3> QED BY <3>1 DEF FilledOK, Filled, Mark, Window, Indices
  <2>2. pairs' \subseteq Windows \X Windows
    BY <1>4, <2>1 DEF Test
  <2> QED BY <1>4, <2>2, MovesAssumption DEF Test, RemovePair, seen
<1>5. CASE Adjust
  BY <1>5, MovesAssumption DEF Adjust, RemovePair, seen
<1> QED BY <1>1, <1>2, <1>3, <1>4, <1>5 DEF Next

(* Every variable has its type; a list holds windows up to its index, so    *)
(* that a pair is always one of a mark and a window.                        *)
THEOREM WindowTypes == Spec => []TypeOK
<1>1. Init => FilledOK /\ KindsOK
  <2> SUFFICES ASSUME Init PROVE FilledOK /\ KindsOK
    OBVIOUS
  <2>1. FilledOK
    BY SizeAssumption DEF Init, FilledOK, Filled, Indices
  <2>2. nmoves \in 0..MaxMoves /\ pairs \subseteq Windows \X Windows
    BY MovesAssumption DEF Init
  <2> QED BY <2>1, <2>2 DEF Init, KindsOK
<1>2. ListsOK /\ WindowsOK /\ FilledOK /\ KindsOK => TypeOK
  BY DEF ListsOK, ListOK, WindowsOK, KindsOK, TypeOK
<1> QED BY <1>1, <1>2, ListsStart, ListsKept, WindowsStart, WindowsKept,
           FilledKept, KindsKept, PTL DEF Spec
=============================================================================
