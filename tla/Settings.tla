------------------------------ MODULE Settings ------------------------------
(***************************************************************************)
(* The settings of Xnee and the words that set them: the table and the     *)
(* switch of xnee_resource.c, the setters they call (xnee_setget.c,        *)
(* xnee_threshold.c, xnee_resolution.c, xnee_display.c, xnee_range.c), and *)
(* the lines in which the settings are written and read again (print.c,    *)
(* xnee_expr.c).  The processes that use them are Cnee and Gnee.           *)
(*                                                                         *)
(* A setting is named after the option that sets it, and its value is the  *)
(* word given, or "default".  What a word is to the scanning functions is  *)
(* all that is told of it: a number, a truth, a size, a list of data.  A   *)
(* list is good as a whole or refused as a whole.                          *)
(***************************************************************************)
EXTENDS Sequences

CONSTANTS
    Numbers,     \* words sscanf reads as a number; "default" is one of them
    Truths,      \* words xnee_check_true accepts
    Falsehoods,  \* words xnee_check_false accepts
    Sizes,       \* words that are a resolution
    Pairs,       \* words that are two numbers with a comma
    Lists,       \* words that are a list of data of each type
    Displays,    \* words that name displays that can be opened
    Plugins,     \* words that name plugins that can be loaded
    HandWritten  \* project files a user has written, sequences of lines

ASSUME DefaultAssumption == "default" \in Numbers
ASSUME ListsAssumption == {"2-3", "4-6", "7-31", "21"} \subseteq Lists

None == ""  \* the argument that is missing

ASSUME NoneAssumption ==
    None \notin Numbers \cup Truths \cup Falsehoods \cup Sizes \cup Pairs
               \cup Lists

-----------------------------------------------------------------------------

(* The options of the table, those that are said to take an argument and    *)
(* those that are not, as the table goes.                                   *)
FileTable ==
    [takes |-> {"err-file", "out-file", "display", "Dimension", "loops-left"},
     plain |-> {"first-last", "all-events", "all-clients", "future-clients"}]

LimitTable ==
    [takes |-> {"events-to-record", "data-to-record", "seconds-to-record",
                "stop-key", "pause-key", "resume-key", "insert-key",
                "exec-key", "exec-program-key", "time"},
     plain |-> {}]

ReplayTable ==
    [takes |-> {"speed-percent", "recorded-resolution", "replay-resolution",
                "distribute", "plugin"},
     plain |-> {"resolution-adjustment", "record", "replay",
                "synchronised-replay", "no-synchronise",
                "recall-window-position", "human-printout", "force-replay"}]

RangeTypes ==
    {"request-range", "reply-range", "device-event-range",
     "delivered-event-range", "error-range",
     "extension-request-major-range", "extension-request-minor-range",
     "extension-reply-major-range", "extension-reply-minor-range"}

FeedbackTable ==
    [takes |-> RangeTypes,
     plain |-> {"verbose", "buffer-verbose", "store-mouse-position",
                "feedback-xosd", "feedback-stderr", "feedback-none"}]

ThresholdTable ==
    [takes |-> {"max-threshold", "min-threshold", "tot-threshold",
                "replay-offset"},
     plain |-> {"keep-autorepeat", "retype-press-delay",
                "retype-release-delay", "no-reparent-recording",
                "max-window-moves", "record-from-data-display",
                "record-from-control-display"}]

Tables == {FileTable, LimitTable, ReplayTable, FeedbackTable, ThresholdTable}
LibOptions == UNION {t.takes \cup t.plain : t \in Tables}
Plain == UNION {t.plain : t \in Tables}

-----------------------------------------------------------------------------

(* What a setter returns, and the settings it leaves.                       *)
Outcome(ret, set) == [ret |-> ret, set |-> set]
Refused(set) == Outcome("error", set)
Unchanged(set) == Outcome("ok", set)
Crash(set) == Outcome("crash", set)
Accepted(set, name, value) == Outcome("ok", [set EXCEPT ![name] = value])

(* strdup: a missing name crashes.                                          *)
SetName(set, name, arg) ==
    IF arg = None THEN Crash(set) ELSE Accepted(set, name, arg)

(* xnee_set_display_name                                                    *)
SetDisplayName(set, arg) ==
    IF arg = None THEN Unchanged(set) ELSE Accepted(set, "display", arg)

(* xnee_set_key, xnee_set_key_str, xnee_set_exec_prog                       *)
SetKey(set, name, arg) ==
    IF arg = None THEN Refused(set) ELSE Accepted(set, name, arg)

(* xnee_str2int; what is no number is INT_MAX.                              *)
StrToInt(arg) == IF arg \in Numbers THEN arg ELSE "INT_MAX"

(* xnee_set_events_max_str, xnee_set_data_max_str, xnee_set_time_max_str    *)
SetLimit(set, name, arg) ==
    IF StrToInt(arg) = "INT_MAX" THEN Refused(set)
                                 ELSE Accepted(set, name, arg)

(* xnee_set_replay_speed_str                                                *)
SetSpeed(set, arg) ==
    IF arg \in Numbers THEN Accepted(set, "speed-percent", arg)
                       ELSE Refused(set)

(* xnee_set_threshold_str                                                   *)
SetThreshold(set, name, arg) ==
    IF arg \in Numbers THEN Accepted(set, name, arg) ELSE Refused(set)

(* Mutant of Truth: a missing argument is an error.                         *)
TruthGiven(arg) == CASE arg \in Truths -> "true"
                     [] arg \in Falsehoods -> "false"
                     [] OTHER -> "error"

(* xnee_boolstr2int; a missing argument is true.                            *)
Truth(arg) == CASE arg \in Truths \cup {None} -> "true"
                [] arg \in Falsehoods -> "false"
                [] OTHER -> "error"

(* xnee_set_future_clients_str                                              *)
SetFutureClients(set, arg) ==
    IF Truth(arg) = "error"
      THEN Refused(set)
      ELSE Accepted(set, "clients",
                    IF Truth(arg) = "true" THEN "future" ELSE "all")

(* xnee_set_resolution_str                                                  *)
SetAdjustment(set, arg) ==
    IF Truth(arg) = "error"
      THEN Refused(set)
      ELSE Accepted(set, "resolution-adjustment", Truth(arg))

(* xnee_str_to_res; a resolution is set once, and not 1x1 again.            *)
SetResolution(set, name, arg) ==
    CASE arg = None            -> Refused(set)
      [] set[name] # "default" -> Unchanged(set)
      [] arg \in Sizes         -> Accepted(set, name, arg)
      [] OTHER                 -> Refused(set)

(* xnee_set_replay_offset_str returns how many numbers it has read: one is  *)
(* an error, and none is XNEE_OK.                                           *)
SetOffset(set, arg) ==
    CASE arg \in Pairs            -> Accepted(set, "replay-offset", arg)
      [] arg \in Numbers \cup {None} -> Refused(set)
      [] OTHER                    -> Unchanged(set)

(* xnee_add_display_list, xnee_add_display_str                              *)
AddDisplays(set, arg) ==
    IF arg \in Displays
      THEN Accepted(set, "distribute", set["distribute"] \cup {arg})
      ELSE Refused(set)

(* xnee_parse_range                                                         *)
ParseRange(set, type, arg) ==
    CASE arg = None -> Crash(set)
      [] arg \in Lists ->
           Accepted(set, "ranges", set["ranges"] \cup {<<type, arg>>})
      [] OTHER -> Refused(set)

-----------------------------------------------------------------------------

(* The switch of xnee_parse_option_impl, as it goes.  Beside what the       *)
(* setter returns, how many arguments the option has used.                  *)
Using(n, o) == [ret |-> o.ret, set |-> o.set, uses |-> n]

Files(set, option, arg) ==
    Using(1, IF option = "display" THEN SetDisplayName(set, arg)
                                   ELSE SetName(set, option, arg))

Clients(set, option, arg) ==
    CASE option = "first-last"  -> Using(0, Accepted(set, option, "on"))
      [] option = "all-events"  ->
           Using(0, Accepted(set, "ranges",
                         set["ranges"]
                           \cup {<<"delivered-event-range", "7-31">>}))
      [] option = "all-clients" -> Using(0, Accepted(set, "clients", "all"))
      [] option = "future-clients" ->
           Using(IF arg = None THEN 0 ELSE 1, SetFutureClients(set, arg))

Limits(set, option, arg) ==
    Using(1, SetLimit(set, IF option = "loops-left" THEN "events-to-record"
                                                    ELSE option, arg))

Keys(set, option, arg) == Using(1, SetKey(set, option, arg))

TimeAndSpeed(set, option, arg) ==
    Using(1, CASE option = "speed-percent" -> SetSpeed(set, arg)
               [] arg = None               -> Crash(set)
               [] arg \in Numbers          -> Accepted(set, option, arg)
               [] OTHER                    -> Refused(set))

Resolutions(set, option, arg) ==
    Using(1, CASE option = "resolution-adjustment" -> SetAdjustment(set, arg)
               [] option = "Dimension" ->
                    SetResolution(set, "recorded-resolution", arg)
               [] OTHER -> SetResolution(set, option, arg))

Distribute(set, option, arg) == Using(1, AddDisplays(set, arg))

(* Options without an argument, as the switch goes.                         *)
ModeFlags ==
    {"record", "replay", "synchronised-replay", "no-synchronise",
     "recall-window-position", "keep-autorepeat", "human-printout",
     "force-replay"}

Offset(set, option, arg) == Using(1, SetOffset(set, arg))

Plugin(set, option, arg) ==
    Using(1, IF arg \in Plugins THEN Accepted(set, option, arg)
                                ELSE Refused(set))

FeedbackFlags ==
    {"verbose", "buffer-verbose", "store-mouse-position", "feedback-xosd",
     "feedback-stderr"}

(* It is said to use an argument, and does not look at it.                  *)
FeedbackNone(set, option, arg) ==
    Using(1, Accepted(set, "feedback", option))

Thresholds(set, option, arg) == Using(1, SetThreshold(set, option, arg))

Ranges(set, option, arg) == Using(1, ParseRange(set, option, arg))

(* What is no number is accepted: INT_MAX.                                  *)
Delays(set, option, arg) == Using(1, Accepted(set, option, StrToInt(arg)))

DisplayFlags ==
    {"no-reparent-recording", "record-from-data-display",
     "record-from-control-display"}

Flags == ModeFlags \cup FeedbackFlags \cup DisplayFlags

(* The setting of a flag and the value it gets.                             *)
FlagSetting(option) ==
    CASE option \in {"record", "replay"} -> "mode"
      [] option \in {"synchronised-replay", "no-synchronise"} -> "sync"
      [] option \in {"feedback-xosd", "feedback-stderr"} -> "feedback"
      [] option \in {"record-from-data-display",
                     "record-from-control-display"} -> "record-from"
      [] OTHER -> option

FlagValue(option) ==
    CASE option = "record"                      -> "recorder"
      [] option = "replay"                      -> "replayer"
      [] option = "no-synchronise"              -> "off"
      [] option = "record-from-data-display"    -> "data"
      [] option = "record-from-control-display" -> "control"
      [] option \in {"feedback-xosd", "feedback-stderr"} -> option
      [] OTHER -> "on"

(* xnee_set_recall_window_pos: the windows that get a new parent are        *)
(* recorded from then on, and go on being so when it is unset.              *)
Recall(set) ==
    [set EXCEPT !["ranges"] = @ \cup {<<"delivered-event-range", "21">>}]

SetFlag(set, option, arg) ==
    Using(0, Accepted(IF option = "recall-window-position" THEN Recall(set)
                                                           ELSE set,
                      FlagSetting(option), FlagValue(option)))

LimitOptions == {"events-to-record", "data-to-record", "seconds-to-record"}
KeyOptions == {"stop-key", "pause-key", "resume-key", "insert-key",
               "exec-key", "exec-program-key"}

(* xnee_parse_option_impl; an option that is not in the table is unknown.   *)
ParseOption(set, option, arg) ==
    CASE option \in {"err-file", "out-file", "display"} ->
           Files(set, option, arg)
      [] option \in FileTable.plain -> Clients(set, option, arg)
      [] option \in LimitOptions \cup {"loops-left"} ->
           Limits(set, option, arg)
      [] option \in KeyOptions -> Keys(set, option, arg)
      [] option \in {"time", "speed-percent"} ->
           TimeAndSpeed(set, option, arg)
      [] option \in {"Dimension", "recorded-resolution",
                     "replay-resolution", "resolution-adjustment"} ->
           Resolutions(set, option, arg)
      [] option = "distribute" -> Distribute(set, option, arg)
      [] option \in Flags -> SetFlag(set, option, arg)
      [] option = "replay-offset" -> Offset(set, option, arg)
      [] option = "plugin" -> Plugin(set, option, arg)
      [] option = "feedback-none" -> FeedbackNone(set, option, arg)
      [] option \in {"max-threshold", "min-threshold", "tot-threshold"} ->
           Thresholds(set, option, arg)
      [] option \in RangeTypes -> Ranges(set, option, arg)
      [] option \in {"retype-press-delay", "retype-release-delay",
                     "max-window-moves"} -> Delays(set, option, arg)
      [] OTHER -> Using(0, Outcome("unknown", set))

-----------------------------------------------------------------------------

(* A line of a file: its option and argument.  Comments are left out.       *)
Line(option, arg) == [option |-> option, arg |-> arg]
If(cond, line) == IF cond THEN <<line>> ELSE <<>>
On(set, name) == If(set[name] = "on", Line(name, None))
Value(set, name) == <<Line(name, set[name])>>
Blank == Line("", None)

(* xnee_print_distr_list: a line no reader knows.                           *)
DistributionLines(set) ==
    If(set["distribute"] # {}, Line("Distribution display", None))

(* xnee_print_xnee_settings up to the resolution.  Displays, files, keys,   *)
(* resolution, speed, plugin, offset and delay are written as comments.     *)
LimitLines(set) ==
    Value(set, "events-to-record") \o Value(set, "data-to-record")
      \o Value(set, "seconds-to-record") \o On(set, "first-last")
      \o <<Line(IF set["clients"] = "all" THEN "all-clients"
                                          ELSE "future-clients", None)>>
      \o On(set, "store-mouse-position")

(* And on from there; the option of the font is not in the table, so that   *)
(* its name is written as nothing.                                          *)
FeedbackLines(set) ==
    Value(set, "max-threshold") \o Value(set, "min-threshold")
      \o Value(set, "tot-threshold")
      \o <<Line(set["feedback"], None)>>
      \o (IF set["font"] = None THEN <<Blank>>
                                ELSE <<Line(set["font"], None)>>)
      \o On(set, "human-printout") \o On(set, "no-reparent-recording")

(* Mutant of SettingLines: the minimum threshold is written first, and the  *)
(* maximum in its place.                                                    *)
LinesSwapped(set) ==
    DistributionLines(set) \o LimitLines(set)
      \o FeedbackLines([set EXCEPT !["max-threshold"] = set["min-threshold"],
                                   !["min-threshold"] = set["max-threshold"]])

(* xnee_print_xnee_settings                                                 *)
SettingLines(set) ==
    DistributionLines(set) \o LimitLines(set) \o FeedbackLines(set)

(* xnee_print_ranges, xnee_record_print_record_range; the latter writes a   *)
(* line for each type, and 0-0, which reads as nothing, where there is no   *)
(* list: such a line is left out.                                           *)
RangeLines(set) ==
    LET all == set["ranges"]
        S[r \in SUBSET all] ==
            IF r = {} THEN <<>>
            ELSE LET x == CHOOSE x \in r : TRUE
                 IN <<Line(x[1], x[2])>> \o S[r \ {x}]
    IN S[all]

(* Mutant of InfoLines: it is written whatever the display.                 *)
InfoAlways(open) == <<Line("ProjectName", None)>>

(* xnee_print_xnee_resource_settings writes what the project is, but only   *)
(* when the data display is open.                                           *)
InfoLines(open) == If(open, Line("ProjectName", None))

(* xnee_write_settings_to_file                                              *)
ProjectLines(set, open) ==
    InfoLines(open) \o SettingLines(set) \o RangeLines(set)

(* The header of a session file.                                            *)
HeaderLines(set) == SettingLines(set) \o RangeLines(set)

(* xnee_expression_handle_projinfo: anything that begins with a P.          *)
InfoNames == {"ProjectName", "ProjectCreationDate"}

(* xnee_expression_handle_project                                           *)
HandleProject(set, line) ==
    LET o == ParseOption(set, line.option, line.arg)
    IN CASE line = Blank -> [class |-> "blank", set |-> set]
         [] line # Blank /\ o.ret = "ok" ->
              [class |-> "settings", set |-> o.set]
         [] line # Blank /\ o.ret = "crash" ->
              [class |-> "crash", set |-> o.set]
         [] line # Blank /\ o.ret \in {"error", "unknown"} ->
              [class |-> IF line.option \in InfoNames THEN "info"
                                                      ELSE "syntax",
               set |-> o.set]

-----------------------------------------------------------------------------

(* The settings of a new xd, and the requested feedback.                    *)
Default ==
    [o \in ((LibOptions \ Flags) \cup {FlagSetting(f) : f \in Flags}
              \cup {"clients", "ranges", "distribute", "font", "file"}) |->
       CASE o \in {"ranges", "distribute"} -> {}
         [] o = "font"     -> None
         [] o = "mode"     -> "none"
         [] o = "clients"  -> "all"
         [] o = "feedback" -> "feedback-xosd"
         [] OTHER          -> "default"]
=============================================================================
