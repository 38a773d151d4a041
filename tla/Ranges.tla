------------------------------- MODULE Ranges -------------------------------
(***************************************************************************)
(* The ranges of data a session records (libxnee/src/xnee_range.c): the    *)
(* lists of numbers the user builds, one per type of data, and the array   *)
(* of XRecordRange made from them for RECORD and for a project file.       *)
(*                                                                         *)
(* One process, such as gnee, adds and excludes data, saves and opens      *)
(* projects, records and replays.  xnee_set_ranges adds to what earlier    *)
(* calls made; only the end of a session without an error starts anew.     *)
(*                                                                         *)
(* Replies and the data of extensions are handled as requests are, in      *)
(* fields of their own, and are left out.  The size of a list and the      *)
(* failures of malloc are left out, so is store_window_pos: no code but    *)
(* the undoing of the workaround reads it.                                 *)
(***************************************************************************)
EXTENDS Integers, Sequences, Functions

CONSTANTS
    Entries,     \* what a user or a file adds: [type, start, stop], stop 0
                 \* for a single number
    Excludes,    \* what a user excludes: [type, nr]
    Servers,     \* subset of {"modern", "as_delivered", "dangerous"}
    MaxNumber,   \* the largest number of the entries
    MaxEdits,    \* bound: entries added and data excluded
    MaxCalls,    \* bound: calls of xnee_set_ranges on the same data
    MaxStarts    \* bound: sessions started

Types == {"request", "error", "delivered", "device"}
Number == 1..MaxNumber

(* Numbers of the X protocol. *)
KeyPress == 2
MotionNotify == 6
ReparentNotify == 21
ClientMessage == 33
BadCursor == 6

ASSUME NumberAssumption == MaxNumber \in Nat /\ ReparentNotify \in Number
ASSUME EntriesAssumption ==
    Entries \subseteq [type : Types \cup {"event"}, start : Number,
                      stop : Number \cup {0}]
ASSUME ExcludesAssumption == Excludes \subseteq [type : Types, nr : Nat]
ASSUME ServersAssumption ==
    Servers \subseteq {"modern", "as_delivered", "dangerous"}
ASSUME CallsAssumption == {MaxEdits, MaxCalls, MaxStarts} \subseteq Nat

VARIABLES
    doing,   \* "idle", "recording" or "replaying"
    mode,    \* "none", "recorder" or "replayer": the mode last set
    server,  \* the kind of X server
    list,    \* the lists of numbers, xnee_ranges
    active,  \* record_setup->active
    setup,   \* count: data_ranges; slots: range_array, a function on the
             \* indices that hold a range; known: x_vendor_name is set
    added_reparent, \* the static flag of the workaround
    calls,   \* history: calls of xnee_set_ranges since the data were renewed
    edits, starts,   \* counters for the bounds
    wanted,  \* history: what was added and not excluded
    ever     \* history: what was added since the data were renewed
rangesVars == <<doing, mode, server, list, active, setup, added_reparent, calls,
               edits, starts, wanted, ever>>

-----------------------------------------------------------------------------
(* The lists. *)

(* The types of an event that is given as an event only. *)
Class(t, n) ==
    IF t # "event" THEN t
    ELSE IF n \in KeyPress..MotionNotify THEN "device" ELSE "delivered"

(* The elements of a sequence that are in a set, in their order. *)
KeptTo(s, set) ==
    LET kept[n \in 0..Len(s)] ==
          IF n = 0 THEN <<>>
          ELSE IF s[n] \in set THEN Append(kept[n - 1], s[n])
          ELSE kept[n - 1]
    IN kept
Kept(s, set) == KeptTo(s, set)[Len(s)]

(* A range of more than one number goes upwards; of any other the first     *)
(* number alone is taken.                                                   *)
Numbers(e) ==
    IF e.start < e.stop
    THEN [i \in 1..(e.stop - e.start + 1) |-> e.start + i - 1]
    ELSE <<e.start>>

AddToList(l, t, n) ==
    IF n \in Range(l[Class(t, n)]) THEN l
    ELSE [l EXCEPT ![Class(t, n)] = Append(@, n)]

(* Each number is added to the list of its type, unless it is there.        *)
AddRangeStr(l, e) ==
    [t \in Types |->
       l[t] \o Kept(Numbers(e), {n \in Number \ Range(l[t]) : Class(e.type, n) = t})]

(* Mutant of RemFromList: the last number is cut off without the shift. *)
RemLast(l, t, n) ==
    IF n \in Range(l[t]) THEN [l EXCEPT ![t] = SubSeq(@, 1, Len(@) - 1)] ELSE l

RemFromList(l, t, n) == [l EXCEPT ![t] = Kept(@, Number \ {n})]

(* xnee_bsort_all: no list holds a number twice. *)
Sorted(l) == [t \in Types |-> Kept([i \in Number |-> i], Range(l[t]))]

EmptyList == [t \in Types |-> <<>>]

(* xnee_get_nr_of_data, summed up by xnee_start: a ReparentNotify alone     *)
(* does not count.                                                          *)
DataToRecord(l) ==
    \E t \in Types : l[t] # <<>> /\ ~(t = "delivered" /\ l[t] = <<ReparentNotify>>)

-----------------------------------------------------------------------------
(* The array of ranges. *)

Unset == <<0, 0>>
NullRange == [t \in Types |-> Unset]

(* The setup of fresh data: no ranges, and the vendor not asked for. *)
NoRanges == [count |-> [t \in Types |-> 0], slots |-> <<>>, known |-> FALSE]

(* Mutant of NewSetup: the ranges of the last session are not forgotten. *)
KeepSetup == [setup EXCEPT !.known = FALSE]

(* xnee_free_recordext_setup and xnee_reset_xnee_info *)
NewSetup == NoRanges

MaxRange(x, act) ==
    IF act THEN CHOOSE m \in {x.count[t] : t \in Types} :
                  \A t \in Types : x.count[t] <= m
    ELSE 0

NeedsSlot(x, act, nr) == nr > MaxRange(x, act) - 1

(* One slot is allocated, at the index that is asked for, and the array is  *)
(* enlarged to end there.  A first slot starts a new array.                 *)
Allocated(x, act, nr) ==
    IF ~NeedsSlot(x, act, nr) THEN x.slots
    ELSE [i \in {nr} \cup (IF nr = 0 THEN {} ELSE DOMAIN x.slots) |->
            IF i = nr THEN NullRange ELSE x.slots[i]]

(* A field of a slot.  What a write to an index without a slot destroys is  *)
(* not modelled.                                                            *)
Put(slots, nr, t, r) ==
    IF nr \in DOMAIN slots THEN [slots EXCEPT ![nr][t] = r] ELSE slots

Slotted(x, act, nr) == [x EXCEPT !.slots = Allocated(x, act, nr)]
Written(x, nr, t, r) == [x EXCEPT !.slots = Put(x.slots, nr, t, r)]
Counted(x, t) == [x EXCEPT !.count[t] = @ + 1]
Known(x) == [x EXCEPT !.known = TRUE]

(* xnee_add_range for a request. *)
AddPlain(x, act, t, r) ==
    LET nr == x.count[t]
    IN Counted(Written(Slotted(x, act, nr), nr, t, r), t)

(* ... for delivered events: a dangerous server gets an error with them. *)
AddDelivered(x, act, r) ==
    LET nr == x.count["delivered"]
        y == Known(AddPlain(x, act, "delivered", r))
    IN IF server # "dangerous" THEN y
       ELSE Counted(Written(y, nr, "error", <<BadCursor, BadCursor>>), "error")

(* ... for errors: a delivered event comes with them. *)
AddError(x, act, r) ==
    LET nr == x.count["error"]
        y == AddPlain(x, act, "error", r)
    IN Counted(Written(y, nr, "delivered", <<ClientMessage, ClientMessage>>),
               "delivered")

(* ... for device events: X.Org 1.6 to 1.8 gets them as delivered events    *)
(* too, by a nested call before the device events are counted.              *)
AddDevice(x, act, r) ==
    LET nr == x.count["device"]
        y == Written(Slotted(x, act, nr), nr, "device", r)
    IN IF server = "as_delivered" /\ x.known
       THEN Counted(AddDelivered(y, act, r), "device")
       ELSE Counted(y, "device")

AddRange(x, act, t, r) ==
    CASE t = "delivered" -> AddDelivered(x, act, r)
      [] t = "error"     -> AddError(x, act, r)
      [] t = "device"    -> AddDevice(x, act, r)
      [] OTHER           -> AddPlain(x, act, t, r)

(* A number continues the last run or begins a new one. *)
Extended(runs, n) ==
    LET k == Len(runs)
    IN IF k # 0 /\ n = runs[k][2] + 1 THEN [runs EXCEPT ![k] = <<@[1], n>>]
       ELSE Append(runs, <<n, n>>)

(* The longest runs of consecutive numbers, in the order of the list. *)
RunsTo(s) ==
    LET runs[n \in 0..Len(s)] ==
          IF n = 0 THEN <<>> ELSE Extended(runs[n - 1], s[n])
    IN runs

(* Mutant of Runs: the run that is open at the end is not added. *)
UnflushedRuns(s) ==
    LET runs == RunsTo(s)[Len(s)]
    IN IF runs = <<>> THEN runs ELSE SubSeq(runs, 1, Len(runs) - 1)

Runs(s) == RunsTo(s)[Len(s)]

(* The loop of xnee_set_ranges over the runs of one type... *)
AddedTo(x, act, t, runs) ==
    LET added[n \in 0..Len(runs)] ==
          IF n = 0 THEN x ELSE AddRange(added[n - 1], act, t, runs[n])
    IN added
AddRuns(x, act, t, s) == AddedTo(x, act, t, Runs(s))[Len(Runs(s))]

(* ... and over the types in their order. *)
WithRanges(x, act, l) ==
    LET requests  == AddRuns(x, act, "request", l["request"])
        errors    == AddRuns(requests, act, "error", l["error"])
        delivered == AddRuns(errors, act, "delivered", l["delivered"])
    IN AddRuns(delivered, act, "device", l["device"])

-----------------------------------------------------------------------------

(* xnee_undo_workaround: the number is removed if the workaround is         *)
(* believed to have added it.                                               *)
Undone(l) ==
    IF added_reparent THEN RemFromList(l, "delivered", ReparentNotify) ELSE l

(* xnee_do_workaround: adding to the list sets active, which is restored. *)
Workaround(l, act) ==
    IF ReparentNotify \in Range(l["delivered"])
    THEN [list |-> l, active |-> act, added |-> FALSE]
    ELSE [list |-> AddToList(l, "delivered", ReparentNotify),
          active |-> act, added |-> TRUE]

(* xnee_set_ranges on a list and an active flag.  A replayer adjusts the    *)
(* positions of windows by ReparentNotify, hence the workaround.            *)
SetRanges(l, act, m) ==
    LET made == IF m = "replayer" THEN Workaround(Undone(Sorted(l)), act)
                ELSE [list |-> Sorted(l), active |-> act, added |-> added_reparent]
    IN /\ list' = made.list
       /\ active' = made.active
       /\ added_reparent' = made.added
       /\ setup' = WithRanges(setup, made.active, made.list)
       /\ calls' = calls + 1

(* The abstract side of adding: sets. *)
Wants(w, e) ==
    [t \in Types |-> w[t] \cup {n \in Range(Numbers(e)) : Class(e.type, n) = t}]
WantsNothing == [t \in Types |-> {}]

RangesInit ==
    /\ doing = "idle" /\ mode = "none"
    /\ server \in Servers
    /\ list = EmptyList /\ active = FALSE
    /\ setup = [NoRanges EXCEPT !.known = TRUE]
    /\ added_reparent = FALSE
    /\ calls = 0 /\ edits = 0 /\ starts = 0
    /\ wanted = WantsNothing /\ ever = WantsNothing

(* xnee_parse_range, from an option, a dialog or a file. *)
Add(e) ==
    /\ doing = "idle" /\ edits < MaxEdits
    /\ edits' = edits + 1
    /\ list' = AddRangeStr(list, e)
    /\ active' = TRUE
    /\ wanted' = Wants(wanted, e) /\ ever' = Wants(ever, e)
    /\ UNCHANGED <<doing, mode, server, setup, added_reparent, calls, starts>>

(* xnee_rem_data_from_range_str *)
Exclude(d) ==
    /\ doing = "idle" /\ edits < MaxEdits
    /\ edits' = edits + 1
    /\ list' = RemFromList(list, d.type, d.nr)
    /\ wanted' = [wanted EXCEPT ![d.type] = @ \ {d.nr}]
    /\ UNCHANGED <<doing, mode, server, active, setup, added_reparent, calls,
                   starts, ever>>

(* xnee_write_settings_to_file *)
Save ==
    /\ doing = "idle" /\ calls < MaxCalls
    /\ SetRanges(list, active, mode)
    /\ UNCHANGED <<doing, mode, server, edits, starts, wanted, ever>>

(* gnee opens a project: xnee_refresh_ranges, then the lines of the file. *)
OpenProject(e) ==
    /\ doing = "idle" /\ edits < MaxEdits
    /\ edits' = edits + 1
    /\ list' = AddRangeStr(EmptyList, e)
    /\ active' = TRUE
    /\ wanted' = Wants(WantsNothing, e) /\ ever' = Wants(ever, e)
    /\ UNCHANGED <<doing, mode, server, setup, added_reparent, calls, starts>>

(* xnee_start as a recorder: xnee_setup_recordext adds ReparentNotify and   *)
(* sets the ranges; a session that has nothing else to record is refused,   *)
(* and one may fail for other reasons.                                      *)
StartRecord ==
    /\ doing = "idle" /\ calls < MaxCalls /\ starts < MaxStarts
    /\ starts' = starts + 1
    /\ mode' = "recorder"
    /\ SetRanges(AddToList(list, "delivered", ReparentNotify), TRUE, "recorder")
    /\ \/ DataToRecord(list') /\ doing' = "recording"
       \/ doing' = "idle"
    /\ UNCHANGED <<server, edits, wanted, ever>>

(* xnee_start as a replayer: the ranges are set when the replay begins. *)
StartReplay ==
    /\ doing = "idle" /\ calls < MaxCalls /\ starts < MaxStarts
    /\ starts' = starts + 1
    /\ mode' = "replayer"
    /\ SetRanges(list, active, "replayer")
    /\ doing' = "replaying"
    /\ UNCHANGED <<server, edits, wanted, ever>>

(* The session ends well and xnee_renew_xnee_data starts anew. *)
EndSession ==
    /\ doing # "idle"
    /\ doing' = "idle"
    /\ list' = EmptyList /\ active' = FALSE
    /\ setup' = NewSetup
    /\ calls' = 0
    /\ wanted' = WantsNothing /\ ever' = WantsNothing
    /\ UNCHANGED <<mode, server, added_reparent, edits, starts>>

(* The session ends with an error: xnee_start returns before the renewal. *)
FailSession ==
    /\ doing # "idle"
    /\ doing' = "idle"
    /\ UNCHANGED <<mode, server, list, active, setup, added_reparent, calls,
                        edits, starts, wanted, ever>>

RangesNext ==
    \/ \E e \in Entries : Add(e) \/ OpenProject(e)
    \/ \E d \in Excludes : Exclude(d)
    \/ Save
    \/ StartRecord \/ StartReplay \/ EndSession \/ FailSession

RangesSpec == RangesInit /\ [][RangesNext]_rangesVars

-----------------------------------------------------------------------------

(* What RECORD or a project file is told of a type: the ranges of the first *)
(* xnee_get_max_range slots.                                                *)
Fields(t) ==
    UNION {setup.slots[i][t][1]..setup.slots[i][t][2] :
             i \in DOMAIN setup.slots \cap 0..(MaxRange(setup, active) - 1)}
Told(t) == Fields(t) \ {0}

(* What xnee adds of its own accord to what it tells. *)
Added(t) ==
    CASE t = "delivered" -> {ReparentNotify}
            \cup (IF setup.count["error"] > 0 THEN {ClientMessage} ELSE {})
            \cup (IF server = "as_delivered" THEN ever["device"] ELSE {})
      [] t = "error" -> IF server = "dangerous" THEN {BadCursor} ELSE {}
      [] OTHER -> {}

(* The lists hold what the user added and did not exclude, whatever sorting *)
(* and workarounds come between, and besides at most ReparentNotify.        *)
ListIsWanted ==
    \A t \in Types :
        /\ wanted[t] \subseteq Range(list[t])
        /\ Range(list[t]) \subseteq
              wanted[t] \cup (IF t = "delivered" THEN {ReparentNotify} ELSE {})

(* xnee_session.c:93: xnee_get_max_range is the number of ranges allocated. *)
(* Every range that is counted is allocated.                                *)
CountIsAllocated == 0..(MaxRange(setup, active) - 1) \subseteq DOMAIN setup.slots

(* Every call of xnee_set_ranges leaves all of the lists in the ranges, as  *)
(* long as these are allocated.  On a server that takes device events as    *)
(* delivered events, a device event may be told as a delivered one alone.   *)
AskedIsTold ==
    [][calls' = calls + 1 /\ active' /\ CountIsAllocated' =>
        \A t \in Types : \A n \in Range(list'[t]) :
            \/ n \in Told(t)'
            \/ server = "as_delivered" /\ t = "device" /\ n \in Told("delivered")']_rangesVars

(* Nothing is told that nobody asked for since the data were renewed, and   *)
(* the first ranges made of new data have nothing that is excluded again.   *)
ToldWasAsked ==
    \A t \in Types :
        /\ Told(t) \subseteq ever[t] \cup Added(t)
        /\ calls = 1 /\ doing # "idle" => Told(t) \subseteq wanted[t] \cup Added(t)

=============================================================================
