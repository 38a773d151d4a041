-------------------------------- MODULE Gnee --------------------------------
(***************************************************************************)
(* The graphical interface gnee: the widgets of its window, the callbacks  *)
(* that set xd when they change (callbacks.c), the functions that set the  *)
(* widgets from xd (gnee_xnee.c), the lists of what can be recorded        *)
(* (recordables.c) and the files it reads and writes.                      *)
(*                                                                         *)
(* gnee has one thread: a session runs inside the callback of its button,  *)
(* and no widget changes while it does.  What a session does is in Record, *)
(* Replay and Session; here it starts, and ends well or not.  A setting of *)
(* xd is named as in Settings, and so is the widget that shows it.         *)
(***************************************************************************)
EXTENDS Settings, Integers, FiniteSets

CONSTANTS
    Spins,        \* spin buttons of limits and thresholds
    Toggles,      \* check boxes that set a flag
    Combos,       \* combo boxes of keys
    Items,        \* what can be recorded: pairs of a range type and a name
    Prefixes,     \* pairs of names, the first of which begins the second
    Predefined,   \* the pairs of the names "Mouse" and "Keyboard"
    SpinValues, KeyNames,   \* what the user turns a spin button, a combo to
    Recordings,   \* headers of the session files other programs recorded
    MaxActs       \* bound: acts of the user

ASSUME SpinsAssumption ==
    Spins \subseteq LimitOptions
                      \cup {"max-threshold", "min-threshold", "tot-threshold"}
ASSUME TogglesAssumption ==
    Toggles \subseteq {"sync", "force-replay", "verbose",
                       "recall-window-position"}
ASSUME CombosAssumption == Combos \subseteq KeyOptions
ASSUME ItemsAssumption ==
    Items \subseteq RangeTypes \X Lists /\ IsFiniteSet(Items)
ASSUME ValuesAssumption ==
    SpinValues \cup {"-1", "0", "20", "-20", "100"} \subseteq
      Numbers \ {"INT_MAX"}
ASSUME FilesAssumption ==
    HandWritten \cup Recordings \subseteq Seq([option : STRING, arg : STRING])

VARIABLES
    phase,      \* "idle", "recording", "replaying" or "gone"
    xd,         \* the settings
    shown,      \* widget -> what it shows
    included,   \* the items and predefined in the lists on the right
    predef,     \* predef_events
    gates,      \* the check boxes use_speed, use_offset, use_delay
    delay,      \* the static delay
    open,       \* the data display has been opened
    session,    \* header of the session file
    project,    \* the project file
    named,      \* xd has the name of a project
    overridden, \* history: widgets whose setting a session file has changed
    lost,       \* history: a file of gnee's own was not read to its end
    acts        \* counter for the bound
files == <<session, project, named>>
history == <<overridden, lost>>
lists == <<included, predef>>
widgets == <<shown, gates, delay>>
vars == <<phase, xd, widgets, lists, open, files, history, acts>>

Radios == {"clients", "feedback", "human-printout"}
Shown == Spins \cup Toggles \cup Combos \cup Radios
           \cup {"speed-percent", "replay-offset", "time"}

(* The settings gnee starts with.                                           *)
GneeDefault ==
    [Default EXCEPT !["events-to-record"] = "100", !["data-to-record"] = "-1",
                    !["seconds-to-record"] = "-1", !["max-threshold"] = "20",
                    !["min-threshold"] = "-20", !["tot-threshold"] = "20",
                    !["sync"] = "on", !["force-replay"] = "off",
                    !["verbose"] = "off", !["recall-window-position"] = "off",
                    !["speed-percent"] = "100",
                    !["replay-offset"] = "0", !["time"] = "0"]

(* A spin button shows what is within its bounds.                           *)
Clamp(w, v) == IF w = "seconds-to-record" /\ v = "-1" THEN "0" ELSE v

Init ==
    /\ phase = "idle" /\ xd = GneeDefault /\ open = FALSE
    /\ shown = [w \in Shown |->
                  CASE w \in Spins -> Clamp(w, GneeDefault[w])
                    [] w \in Toggles \cup {"clients", "feedback",
                                           "speed-percent", "replay-offset"}
                         -> GneeDefault[w]
                    [] w = "human-printout" -> "xnee"
                    [] w = "time" -> "1"
                    [] OTHER -> "None"]
    /\ included = {} /\ predef = {} /\ gates = {} /\ delay = "0"
    /\ session \in Recordings
    /\ project \in HandWritten \cup {<<>>} /\ named = FALSE
    /\ overridden = {} /\ lost = FALSE /\ acts = 0

Act == phase = "idle" /\ acts < MaxActs /\ acts' = acts + 1
Show(w, v) == shown' = [shown EXCEPT ![w] = v]
SetXd(w, v) == xd' = [xd EXCEPT ![w] = v]
KeepFiles == UNCHANGED <<phase, open, files, lost>>

-----------------------------------------------------------------------------

(* A spin button of the limits or thresholds.                               *)
Turn ==
    /\ Act
    /\ \E w \in Spins : \E v \in {Clamp(w, u) : u \in SpinValues} \ {shown[w]} :
         /\ Show(w, v) /\ SetXd(w, v)
         /\ overridden' = overridden \ {w}
    /\ UNCHANGED <<gates, delay, lists>> /\ KeepFiles

(* A check box.                                                             *)
SwitchTo(w, v) ==
    LET set == [xd EXCEPT ![w] = v]
    IN xd' = IF w = "recall-window-position" /\ v = "on" THEN Recall(set)
                                                        ELSE set

Toggle ==
    /\ Act
    /\ \E w \in Toggles : \E v \in {"on", "off"} \ {shown[w]} :
         /\ Show(w, v) /\ SwitchTo(w, v)
         /\ overridden' = overridden \ {w}
    /\ UNCHANGED <<gates, delay, lists>> /\ KeepFiles

(* A radio button that becomes active; that of the format of Xnee sets what *)
(* that of the human format does.                                           *)
Choose ==
    /\ Act
    /\ \/ \E v \in {"all", "future"} \ {shown["clients"]} :
            Show("clients", v) /\ SetXd("clients", v)
       \/ \E v \in {"feedback-none", "feedback-xosd", "feedback-stderr"}
                     \ {shown["feedback"]} :
            Show("feedback", v) /\ SetXd("feedback", v)
       \/ \E v \in {"xnee", "human"} \ {shown["human-printout"]} :
            Show("human-printout", v) /\ SetXd("human-printout", "on")
    /\ UNCHANGED <<gates, delay, lists, overridden>> /\ KeepFiles

(* combo_change_helper: "None" sets nothing.                                *)
KeyFrom(set, w, key) == IF key = "None" THEN set ELSE [set EXCEPT ![w] = key]

PickKey ==
    /\ Act
    /\ \E w \in Combos : \E key \in (KeyNames \cup {"None"}) \ {shown[w]} :
         Show(w, key) /\ xd' = KeyFrom(xd, w, key)
    /\ UNCHANGED <<gates, delay, lists, overridden>> /\ KeepFiles

(* gx_set_use_speed, gx_set_speed                                           *)
SpeedFor(use, v) == IF use THEN v ELSE "100"

TurnSpeed ==
    /\ Act
    /\ \/ \E v \in SpinValues \ {shown["speed-percent"]} :
            /\ Show("speed-percent", v) /\ UNCHANGED gates
            /\ SetXd("speed-percent", SpeedFor("speed" \in gates, v))
       \/ /\ gates' = IF "speed" \in gates THEN gates \ {"speed"}
                                           ELSE gates \cup {"speed"}
          /\ SetXd("speed-percent",
                   SpeedFor("speed" \in gates', shown["speed-percent"]))
          /\ UNCHANGED shown
    /\ overridden' = overridden \ {"speed-percent"}
    /\ UNCHANGED <<delay, lists>> /\ KeepFiles

(* on_x_offs_spin_changed, on_y_offs_spin_changed, on_offset_toggle_toggled *)
TurnOffset ==
    /\ Act
    /\ \/ \E v \in SpinValues \ {shown["replay-offset"]} :
            /\ Show("replay-offset", v) /\ UNCHANGED gates
            /\ IF "offset" \in gates THEN SetXd("replay-offset", v)
                                     ELSE UNCHANGED xd
       \/ /\ gates' = IF "offset" \in gates THEN gates \ {"offset"}
                                            ELSE gates \cup {"offset"}
          /\ SetXd("replay-offset", IF "offset" \in gates'
                                      THEN shown["replay-offset"] ELSE "0")
          /\ UNCHANGED shown
    /\ UNCHANGED <<delay, lists, overridden>> /\ KeepFiles

(* on_wait_spinbutton_change_value is called whenever the text changes: an  *)
(* arrow has given the button its new value by then, while what is typed    *)
(* becomes its value only afterwards.                                       *)
TurnDelay ==
    /\ Act
    /\ \/ \E v \in SpinValues \cup {shown["time"]} :
            /\ Show("time", v) /\ UNCHANGED gates
            /\ delay' \in {v, shown["time"]}
            /\ SetXd("time", IF "delay" \in gates THEN delay' ELSE "0")
       \/ /\ gates' = IF "delay" \in gates THEN gates \ {"delay"}
                                           ELSE gates \cup {"delay"}
          /\ SetXd("time", IF "delay" \in gates' THEN delay ELSE "0")
          /\ UNCHANGED <<shown, delay>>
    /\ UNCHANGED <<lists, overridden>> /\ KeepFiles

-----------------------------------------------------------------------------

Added(set, items) == [set EXCEPT !["ranges"] = @ \cup items]
Removed(set, items) == [set EXCEPT !["ranges"] = @ \ items]

(* xnee_data2int: no reply has a number.                                    *)
Known(items) == {i \in items : i[1] # "reply-range"}

(* move_between_lists: the lists, and xd or predef_events.                  *)
Move(x, right, include) ==
    /\ included' = IF right THEN included \cup {x} ELSE included \ {x}
    /\ IF x \in Predefined
         THEN /\ predef' = IF include THEN predef \cup {x} ELSE predef \ {x}
              /\ UNCHANGED xd
         ELSE /\ xd' = IF include THEN Added(xd, Known({x}))
                                 ELSE Removed(xd, {x})
              /\ UNCHANGED predef

(* A row is activated with a double click.                                  *)
ActivateRow ==
    /\ Act
    /\ \/ \E x \in (Items \cup Predefined) \ included : Move(x, TRUE, TRUE)
       \/ \E x \in included : Move(x, FALSE, FALSE)
    /\ UNCHANGED <<widgets, overridden>> /\ KeepFiles

(* The buttons between the lists move a row and do the opposite.            *)
ClickButton ==
    /\ Act
    /\ \/ \E x \in (Items \cup Predefined) \ included : Move(x, TRUE, FALSE)
       \/ \E x \in included : Move(x, FALSE, TRUE)
    /\ UNCHANGED <<widgets, overridden>> /\ KeepFiles

-----------------------------------------------------------------------------

(* The lines of a file, in the order read; reading goes on after the        *)
(* classes given.                                                           *)
Reading(set, ls, on) ==
    LET r[n \in 0..Len(ls)] ==
          IF n = 0 THEN [class |-> "blank", set |-> set]
          ELSE IF r[n - 1].class \in on THEN HandleProject(r[n - 1].set, ls[n])
               ELSE r[n - 1]
    IN r[Len(ls)]

(* Settings shown in the window that a file has changed.                    *)
Changed(set) == {w \in Spins \cup Toggles \cup {"speed-percent"} :
                   set[w] # xd[w]}

SaveProject ==
    /\ Act
    /\ project' = ProjectLines(xd, open) /\ named' = TRUE
    /\ UNCHANGED <<phase, xd, widgets, lists, open, session, history>>

(* gnee_set_ranges and gnee_move_recordable: a row on the left whose name   *)
(* begins that of an item in xd goes to the right, and into xd.             *)
Begins(items, left) ==
    {i \in left : \E j \in items :
                     i = j \/ (i[1] = j[1] /\ <<i[2], j[2]>> \in Prefixes)}

Reflected == Spins \cup (Toggles \ {"recall-window-position"})

(* Mutant of Refresh: the thresholds are left out.                          *)
RefreshSome(set) ==
    [w \in Shown |-> IF w \in Reflected \cap (LimitOptions \cup Toggles)
                       THEN Clamp(w, set[w])
                       ELSE IF w = "time" THEN set[w] ELSE shown[w]]

(* gx_set_xd_settings: the widgets that are set from xd.                    *)
Refresh(set) ==
    [w \in Shown |-> IF w \in Reflected THEN Clamp(w, set[w])
                     ELSE IF w = "time" THEN set[w] ELSE shown[w]]

(* The delay that is kept, when the button shows that of xd.                *)
DelayFrom(set) == IF set["time"] # shown["time"] THEN set["time"] ELSE delay

(* The callbacks of the widgets that change set xd again, and the check box *)
(* of the delay is set, which sets the delay that is kept.                  *)
Echo(set) ==
    [w \in DOMAIN set |->
       CASE w \in Reflected /\ Refresh(set)[w] # shown[w] -> Refresh(set)[w]
         [] w = "time" /\ "delay" \notin gates -> DelayFrom(set)
         [] OTHER -> set[w]]

(* A range of replies has no name to look for, which crashes.               *)
ReflectCrashes(set) == \E i \in set["ranges"] : i[1] = "reply-range"
Reflect(set, before) ==
    LET right == Begins(set["ranges"], Items \ before)
    IN /\ shown' = Refresh(set)
       /\ xd' = Added(Echo(set), right)
       /\ gates' = gates \cup {"delay"} /\ delay' = DelayFrom(set)
       /\ included' = before \cup right

(* Opening a project drops all ranges first, and all rows go to the left;   *)
(* predef_events stay.                                                      *)
OpenProject ==
    /\ Act /\ project # <<>>
    /\ LET r == Reading([xd EXCEPT !["ranges"] = {}], project,
                        {"blank", "settings"})
       IN IF r.class = "crash" \/ ReflectCrashes(r.set)
            THEN /\ phase' = "gone"
                 /\ UNCHANGED <<xd, widgets, included, history>>
            ELSE /\ Reflect(r.set, {})
                 /\ overridden' = (overridden \cup Changed(r.set)) \ Reflected
                 /\ lost' = (lost \/ (project \notin HandWritten
                                /\ r.class \notin {"blank", "settings"}))
                 /\ UNCHANGED phase
    /\ named' = TRUE
    /\ UNCHANGED <<predef, open, session, project>>

(* A project that is not there: fclose is called with nothing.              *)
OpenMissing ==
    /\ Act /\ project = <<>>
    /\ phase' = "gone"
    /\ UNCHANGED <<xd, widgets, lists, open, files, history>>

(* gx_save and on_save_button_clicked                                       *)
SaveAgain ==
    /\ Act /\ named
    /\ project' = ProjectLines(xd, open)
    /\ UNCHANGED <<phase, xd, widgets, lists, open, session, named, history>>

(* A session file to replay is chosen; the rows on the right stay.          *)
OpenSession ==
    /\ Act
    /\ IF ReflectCrashes(xd)
         THEN /\ phase' = "gone"
              /\ UNCHANGED <<xd, widgets, included, overridden>>
         ELSE /\ Reflect(xd, included)
              /\ overridden' = overridden \ Reflected
              /\ UNCHANGED phase
    /\ UNCHANGED <<predef, open, files, lost>>

(* The menu, or a key in the spin button of the delay: its signal is        *)
(* connected to gtk_main_quit.                                              *)
Quit ==
    /\ Act /\ phase' = "gone"
    /\ UNCHANGED <<xd, widgets, lists, open, files, history>>

-----------------------------------------------------------------------------

(* Mutant of Recordables: what the lists show is not added again.           *)
RecordablesKept(set) == set

(* gnee_recordable2xd: the events on the right are added.  A predefined     *)
(* name is no range, and is refused.                                        *)
Recordables(set) ==
    Added(set, {i \in included \cap Items :
                  i[1] \in {"device-event-range", "delivered-event-range"}})

(* Mutant of GetGrab: the keys are those set when they were picked.         *)
GetGrabPicked(set) == set

(* gnee_get_grab                                                            *)
GetGrab(set) ==
    [w \in DOMAIN set |-> IF w \in Combos /\ shown[w] # "None" THEN shown[w]
                                                              ELSE set[w]]

(* on_record, gx_start_recording; xnee_start opens the displays, and fails  *)
(* without anything to record, or because of the displays.                  *)
Record ==
    /\ Act
    /\ xd' = GetGrab(Recordables(xd))
    /\ \/ /\ xd'["ranges"] # {}
          /\ phase' = "recording" /\ open' = TRUE
          /\ session' = HeaderLines(xd')
       \/ UNCHANGED <<phase, session>> /\ open' \in {open, TRUE}
    /\ UNCHANGED <<widgets, lists, project, named, history>>

(* on_replay, gx_start_replaying: the keys are not read, and the header of  *)
(* the session sets xd as far as it is read.                                *)
Replay ==
    /\ Act /\ open' = TRUE
    /\ LET r == Reading(xd, session, {"blank", "settings", "info"})
       IN /\ xd' = r.set
          /\ phase' = IF r.class \in {"blank", "settings", "info"}
                        THEN "replaying" ELSE "idle"
          /\ overridden' = overridden \cup Changed(r.set)
    /\ UNCHANGED <<widgets, lists, files, lost>>

(* The first message about a key loads the default font of libxosd, if      *)
(* there is one.                                                            *)
KeyMessage ==
    /\ phase \in {"recording", "replaying"}
    /\ \E w \in Combos : xd[w] # "default"
    /\ xd["feedback"] = "feedback-xosd" /\ xd["font"] = None
    /\ SetXd("font", "terminus")
    /\ UNCHANGED <<phase, widgets, lists, open, files, history, acts>>

(* A session that ends well renews xd: keys and ranges are forgotten.       *)
EndSession ==
    /\ phase \in {"recording", "replaying"} /\ phase' = "idle"
    /\ \/ xd' = [w \in DOMAIN xd |-> IF w \in Combos THEN "default"
                                     ELSE IF w = "ranges" THEN {}
                                     ELSE xd[w]]
       \/ UNCHANGED xd
    /\ UNCHANGED <<widgets, lists, open, files, history, acts>>

Widgets == Turn \/ Toggle \/ Choose \/ PickKey \/ TurnSpeed \/ TurnOffset
             \/ TurnDelay \/ ActivateRow \/ ClickButton
Menus == SaveProject \/ OpenProject \/ OpenMissing \/ SaveAgain
           \/ OpenSession \/ Quit
Sessions == Record \/ Replay \/ KeyMessage \/ EndSession

Next == Widgets \/ Menus \/ Sessions

Spec == Init /\ [][Next]_vars

-----------------------------------------------------------------------------

(* A limit, a threshold or a check box of the window shows what is set,     *)
(* after projects opened and sessions recorded as well, but for what the    *)
(* header of a session replayed since has set, which no widget shows.       *)
GuiReflects ==
    \A w \in Spins \cup Toggles :
      w \in overridden \/ shown[w] = Clamp(w, xd[w])

(* A recording records the events in the list on the right, the second      *)
(* recording too, and after the rows were moved with the buttons.           *)
EventsRecorded ==
    phase = "recording" =>
      \A i \in included \cap Items :
        i[1] = "device-event-range" => i \in xd["ranges"]

(* A recording grabs the keys that are shown, though the session before it  *)
(* has forgotten them.                                                      *)
KeysGrabbed ==
    phase = "recording" =>
      \A w \in Combos : shown[w] # "None" => xd[w] = shown[w]

(* A project gnee has saved is read to its end, unless a session had opened *)
(* the data display when it was saved.                                      *)
LostAfterSession == lost => open

=============================================================================
