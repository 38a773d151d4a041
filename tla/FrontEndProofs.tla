--------------------------- MODULE FrontEndProofs ---------------------------
(***************************************************************************)
(* What the window of gnee shows is what is set and recorded, and what     *)
(* cnee and gnee write they can read, for any words, any items, any files  *)
(* others have written, any number of acts and any number of processes.    *)
(*                                                                         *)
(* Both programs use the settings of one library, so that their proofs     *)
(* share what is proved of Settings: what an option can do to the settings *)
(* (ParseEffect), that each line that is written sets what it states to    *)
(* the value it was written from (LimitRead to RangeRead), and that a file *)
(* has a line for all that can be stated (SettingsListed).  Ranges are     *)
(* printed and files are read by recursive functions; Listing and Read     *)
(* have their equations proved by induction on the number of ranges and of *)
(* lines (ListingDef, ReadDef).                                            *)
(*                                                                         *)
(* The invariants of gnee are GneeInv, that the settings are ones that can *)
(* be told and that widgets show them, and LostInv, that before a session  *)
(* gnee has nothing to write that it cannot read.  That of cnee is         *)
(* CneeInv: while a file of its own is read, the lines still to come tell  *)
(* whatever the process has set otherwise (Tells).                         *)
(***************************************************************************)
EXTENDS Cnee, Gnee, FiniteSetTheorems, SequenceTheorems, WellFoundedInduction,
        TLAPS

-----------------------------------------------------------------------------

(* What the settings are between two lines: a function on the names of all  *)
(* settings, in which each value is one that the lines written from it can  *)
(* tell, the ranges are finitely many lists, and the font is that of        *)
(* libxosd or none.                                                         *)
Thresholded == {"max-threshold", "min-threshold", "tot-threshold"}
Feedbacks == {"feedback-none", "feedback-xosd", "feedback-stderr"}
Data == RangeTypes \X Lists
Fits(n, v) ==
    /\ n \in LimitOptions => v \in Numbers \ {"INT_MAX"}
    /\ n \in Thresholded => v \in Numbers
    /\ n = "clients" => v \in {"all", "future"}
    /\ n = "feedback" => v \in Feedbacks

Good(s) ==
    /\ s = [n \in DOMAIN Default |-> s[n]]
    /\ \A n \in DOMAIN Default : Fits(n, s[n])
    /\ s["ranges"] \subseteq Data /\ IsFiniteSet(s["ranges"])
    /\ s["font"] \in {None, "terminus"}

(* What an option can do to the settings s: nothing, or set one of them to  *)
(* a value that fits, but never the font.                                   *)
Effect(s, o, t) ==
    \/ t = s
    \/ \E n, v :
         /\ t = [s EXCEPT ![n] = v]
         /\ Fits(n, v) /\ n # "font"
         /\ n = "ranges" =>
              \E x \in Data : v = s["ranges"] \cup {x}
         /\ n = "distribute" => o = "distribute"

(* What the flag of the window positions can do: two such things at once.   *)
Effects(s, o, t) == \E u : Effect(s, o, u) /\ Effect(u, o, t)

(* A value that is accepted and fits is such an effect.                     *)
LEMMA AcceptedEffect ==
    ASSUME NEW s, NEW o, NEW n, NEW v, Fits(n, v),
           n \notin {"ranges", "distribute", "font"}
    PROVE  Effect(s, o, Accepted(s, n, v).set)
<1>1. Accepted(s, n, v).set = [s EXCEPT ![n] = v]
  BY DEF Accepted, Outcome
<1> QED BY <1>1 DEF Effect

(* An error or a crash leaves the settings as they are.                     *)
LEMMA SameEffect ==
    ASSUME NEW s, NEW o
    PROVE  /\ Effect(s, o, Refused(s).set)
           /\ Effect(s, o, Crash(s).set)
           /\ Effect(s, o, Unchanged(s).set)
  BY DEF Effect, Refused, Crash, Unchanged, Outcome

(* How many arguments an option uses changes nothing else.                  *)
LEMMA UsingSet == \A n, o : Using(n, o).set = o.set /\ Using(n, o).ret = o.ret
  BY DEF Using

(* The effect of each branch of the switch: the names of files and of the   *)
(* display,                                                                 *)
LEMMA FilesEffect ==
    ASSUME NEW s, NEW a, NEW o \in {"err-file", "out-file", "display"}
    PROVE  Effect(s, o, Files(s, o, a).set)
<1>1. Fits(o, a) /\ Fits("display", a)
  BY DEF Fits, LimitOptions, Thresholded
<1> QED BY <1>1, AcceptedEffect, SameEffect, UsingSet DEF Files,
   SetDisplayName, SetName

(* the clients, and the options that stand before them in the table,        *)
LEMMA ClientsEffect ==
    ASSUME NEW s, NEW a, NEW o \in FileTable.plain
    PROVE  Effect(s, o, Clients(s, o, a).set)
<1>1. o \in {"first-last", "all-events", "all-clients", "future-clients"}
  BY DEF FileTable
<1>2. CASE o = "first-last"
  <2>1. Fits("first-last", "on")
    BY DEF Fits, LimitOptions, Thresholded
  <2> QED BY <1>2, <2>1, AcceptedEffect, UsingSet DEF Clients
<1>3. CASE o = "all-events"
  <2> DEFINE x == <<"delivered-event-range", "7-31">>
             v == s["ranges"] \cup {x}
  <2>1. x \in Data
    BY ListsAssumption DEF RangeTypes, Data
  <2>2. Fits("ranges", v)
    BY DEF Fits, LimitOptions, Thresholded
  <2>3. Clients(s, o, a).set = [s EXCEPT !["ranges"] = v]
    BY <1>3, UsingSet DEF Clients, Accepted, Outcome
  <2> QED BY <2>1, <2>2, <2>3 DEF Effect
<1>4. CASE o = "all-clients"
  <2>1. Fits("clients", "all")
    BY DEF Fits, LimitOptions, Thresholded
  <2>2. Clients(s, o, a).set = Accepted(s, "clients", "all").set
    BY <1>4, UsingSet DEF Clients
  <2> QED BY <2>1, <2>2, AcceptedEffect
<1>5. CASE o = "future-clients"
  <2>1. Fits("clients", "all") /\ Fits("clients", "future")
    BY DEF Fits, LimitOptions, Thresholded
  <2>2. Clients(s, o, a).set = SetFutureClients(s, a).set
    BY <1>5, UsingSet DEF Clients
  <2>3. \/ SetFutureClients(s, a) = Refused(s)
        \/ SetFutureClients(s, a) = Accepted(s, "clients", "all")
        \/ SetFutureClients(s, a) = Accepted(s, "clients", "future")
    BY DEF SetFutureClients
  <2> QED BY <2>1, <2>2, <2>3, AcceptedEffect, SameEffect
<1> QED BY <1>1, <1>2, <1>3, <1>4, <1>5

(* the limits, which are numbers other than INT_MAX,                        *)
LEMMA LimitsEffect ==
    ASSUME NEW s, NEW a, NEW o \in LimitOptions \cup {"loops-left"}
    PROVE  Effect(s, o, Limits(s, o, a).set)
<1> DEFINE n == IF o = "loops-left" THEN "events-to-record" ELSE o
<1>1. n \in LimitOptions
  BY DEF LimitOptions
<1>2. Limits(s, o, a).set = SetLimit(s, n, a).set
  BY UsingSet DEF Limits
<1>3. StrToInt(a) # "INT_MAX" => a \in Numbers \ {"INT_MAX"}
  BY DEF StrToInt
<1>4. n \notin Thresholded \cup {"clients", "feedback", "font", "ranges",
                                  "distribute"}
  BY <1>1 DEF LimitOptions, Thresholded
<1> HIDE DEF n
<1>5. StrToInt(a) # "INT_MAX" => Fits(n, a)
  BY <1>1, <1>3, <1>4 DEF Fits
<1> QED BY <1>2, <1>4, <1>5, AcceptedEffect, SameEffect DEF SetLimit

(* the keys,                                                                *)
LEMMA KeysEffect ==
    ASSUME NEW s, NEW a, NEW o \in KeyOptions
    PROVE  Effect(s, o, Keys(s, o, a).set)
<1>1. Fits(o, a) /\ o \notin {"ranges", "distribute", "font"}
  BY DEF Fits, LimitOptions, Thresholded, KeyOptions
<1>2. \/ Keys(s, o, a).set = Accepted(s, o, a).set
      \/ Keys(s, o, a).set = Refused(s).set
  BY UsingSet DEF Keys, SetKey
<1> QED BY <1>1, <1>2, AcceptedEffect, SameEffect

(* the delay and the speed,                                                 *)
LEMMA TimeEffect ==
    ASSUME NEW s, NEW a, NEW o \in {"time", "speed-percent"}
    PROVE  Effect(s, o, TimeAndSpeed(s, o, a).set)
<1>1. /\ Fits(o, a) /\ Fits("speed-percent", a)
      /\ o \notin {"ranges", "distribute", "font"}
  BY DEF Fits, LimitOptions, Thresholded
<1>2. \/ TimeAndSpeed(s, o, a) = Using(1, Accepted(s, o, a))
      \/ TimeAndSpeed(s, o, a) = Using(1, Accepted(s, "speed-percent", a))
      \/ TimeAndSpeed(s, o, a) = Using(1, Refused(s))
      \/ TimeAndSpeed(s, o, a) = Using(1, Crash(s))
  BY DEF TimeAndSpeed, SetSpeed
<1>3. \/ TimeAndSpeed(s, o, a).set = Accepted(s, o, a).set
      \/ TimeAndSpeed(s, o, a).set = Accepted(s, "speed-percent", a).set
      \/ TimeAndSpeed(s, o, a).set = Refused(s).set
      \/ TimeAndSpeed(s, o, a).set = Crash(s).set
  BY <1>2, UsingSet
<1> QED BY <1>1, <1>3, AcceptedEffect, SameEffect

(* the resolutions,                                                         *)
LEMMA ResolutionsEffect ==
    ASSUME NEW s, NEW a, NEW o \in {"Dimension", "recorded-resolution",
                     "replay-resolution", "resolution-adjustment"}
    PROVE  Effect(s, o, Resolutions(s, o, a).set)
<1>1. /\ Fits(o, a) /\ Fits("recorded-resolution", a)
      /\ Fits("resolution-adjustment", Truth(a))
  BY DEF Fits, LimitOptions, Thresholded
<1>2. \/ Resolutions(s, o, a) = Using(1, Accepted(s, o, a))
      \/ Resolutions(s, o, a) = Using(1, Accepted(s, "recorded-resolution", a))
      \/ Resolutions(s, o, a) =
            Using(1, Accepted(s, "resolution-adjustment", Truth(a)))
      \/ Resolutions(s, o, a) = Using(1, Refused(s))
      \/ Resolutions(s, o, a) = Using(1, Unchanged(s))
  BY DEF Resolutions, SetAdjustment, SetResolution
<1>3. \/ Resolutions(s, o, a).set = Accepted(s, o, a).set
      \/ Resolutions(s, o, a).set = Accepted(s, "recorded-resolution", a).set
      \/ Resolutions(s, o, a).set =
            Accepted(s, "resolution-adjustment", Truth(a)).set
      \/ Resolutions(s, o, a).set = Refused(s).set
      \/ Resolutions(s, o, a).set = Unchanged(s).set
  BY <1>2, UsingSet
<1>4. o \notin {"ranges", "distribute", "font"}
  OBVIOUS
<1> QED BY <1>1, <1>3, <1>4, AcceptedEffect, SameEffect

(* the displays of the distribution, the one option that adds one,          *)
LEMMA DistributeEffect ==
    ASSUME NEW s, NEW a
    PROVE  Effect(s, "distribute", Distribute(s, "distribute", a).set)
<1> DEFINE v == s["distribute"] \cup {a}
<1>1. Fits("distribute", v)
  BY DEF Fits, LimitOptions, Thresholded
<1>2. \/ Distribute(s, "distribute", a).set = [s EXCEPT !["distribute"] = v]
      \/ Distribute(s, "distribute", a).set = s
  BY UsingSet DEF Distribute, AddDisplays, Accepted, Refused, Outcome
<1> HIDE DEF v
<1> QED BY <1>1, <1>2 DEF Effect

(* the options without an argument,                                         *)
LEMMA FlagEffect ==
    ASSUME NEW s, NEW a, NEW o \in Flags
    PROVE  Effects(s, o, SetFlag(s, o, a).set)
<1> DEFINE n == FlagSetting(o)
           v == FlagValue(o)
           u == IF o = "recall-window-position" THEN Recall(s) ELSE s
<1>1. Fits(n, v) /\ n \notin {"ranges", "distribute", "font"}
  BY DEF Fits, LimitOptions, Thresholded, Flags, ModeFlags, FeedbackFlags,
     DisplayFlags, FlagSetting, FlagValue, Feedbacks
<1>2. Effect(s, o, u)
  <2> DEFINE x == <<"delivered-event-range", "21">>
             w == s["ranges"] \cup {x}
  <2>1. x \in Data
    BY ListsAssumption DEF RangeTypes, Data
  <2>2. Fits("ranges", w)
    BY DEF Fits, LimitOptions, Thresholded
  <2>3. u = s \/ u = [s EXCEPT !["ranges"] = w]
    BY DEF Recall
  <2> HIDE DEF u
  <2> QED BY <2>1, <2>2, <2>3 DEF Effect
<1>3. SetFlag(s, o, a).set = Accepted(u, n, v).set
  BY UsingSet DEF SetFlag
<1> HIDE DEF u, n, v
<1>4. Effect(u, o, SetFlag(s, o, a).set)
  BY <1>1, <1>3, AcceptedEffect
<1> QED BY <1>2, <1>4 DEF Effects

(* the offset,                                                              *)
LEMMA OffsetEffect ==
    ASSUME NEW s, NEW a
    PROVE  Effect(s, "replay-offset", Offset(s, "replay-offset", a).set)
<1>1. Fits("replay-offset", a)
  BY DEF Fits, LimitOptions, Thresholded
<1>2. \/ Offset(s, "replay-offset", a).set =
             Accepted(s, "replay-offset", a).set
      \/ Offset(s, "replay-offset", a).set = Refused(s).set
      \/ Offset(s, "replay-offset", a).set = Unchanged(s).set
  BY UsingSet DEF Offset, SetOffset
<1> QED BY <1>1, <1>2, AcceptedEffect, SameEffect

(* the plugin,                                                              *)
LEMMA PluginEffect ==
    ASSUME NEW s, NEW a
    PROVE  Effect(s, "plugin", Plugin(s, "plugin", a).set)
<1>1. Fits("plugin", a)
  BY DEF Fits, LimitOptions, Thresholded
<1>2. \/ Plugin(s, "plugin", a).set = Accepted(s, "plugin", a).set
      \/ Plugin(s, "plugin", a).set = Refused(s).set
  BY UsingSet DEF Plugin
<1> QED BY <1>1, <1>2, AcceptedEffect, SameEffect

(* the feedback,                                                            *)
LEMMA FeedbackNoneEffect ==
    ASSUME NEW s, NEW a
    PROVE  Effect(s, "feedback-none", FeedbackNone(s, "feedback-none", a).set)
<1>1. Fits("feedback", "feedback-none")
  BY DEF Fits, LimitOptions, Thresholded, Feedbacks
<1> QED BY <1>1, AcceptedEffect, UsingSet DEF FeedbackNone

(* the thresholds, which are numbers,                                       *)
LEMMA ThresholdsEffect ==
    ASSUME NEW s, NEW a, NEW o \in Thresholded
    PROVE  Effect(s, o, Thresholds(s, o, a).set)
<1>1. a \in Numbers => Fits(o, a)
  BY DEF Fits, LimitOptions, Thresholded
<1>2. o \notin {"ranges", "distribute", "font"}
  BY DEF Thresholded
<1>3. \/ /\ a \in Numbers
         /\ Thresholds(s, o, a).set = Accepted(s, o, a).set
      \/ Thresholds(s, o, a).set = Refused(s).set
  BY UsingSet DEF Thresholds, SetThreshold
<1> QED BY <1>1, <1>2, <1>3, AcceptedEffect, SameEffect

(* the ranges, to which one list is added,                                  *)
LEMMA RangesEffect ==
    ASSUME NEW s, NEW a, NEW o \in RangeTypes
    PROVE  Effect(s, o, Ranges(s, o, a).set)
<1> DEFINE v == s["ranges"] \cup {<<o, a>>}
<1>1. Fits("ranges", v)
  BY DEF Fits, LimitOptions, Thresholded
<1>2. \/ /\ a \in Lists
         /\ Ranges(s, o, a).set = [s EXCEPT !["ranges"] = v]
      \/ Ranges(s, o, a).set = s
  <2>1. Ranges(s, o, a).set = ParseRange(s, o, a).set
    BY UsingSet DEF Ranges
  <2>2. CASE a \in Lists /\ a # None
    <3>1. ParseRange(s, o, a) = Accepted(s, "ranges", v)
      BY <2>2 DEF ParseRange
    <3> HIDE DEF v
    <3> QED BY <2>1, <2>2, <3>1 DEF Accepted, Outcome
  <2>3. CASE a = None
    BY <2>1, <2>3, NoneAssumption DEF ParseRange, Crash, Outcome
  <2>4. CASE a \notin Lists /\ a # None
    BY <2>1, <2>4 DEF ParseRange, Refused, Outcome
  <2> QED BY <2>2, <2>3, <2>4
<1>3. CASE a \in Lists /\ Ranges(s, o, a).set = [s EXCEPT !["ranges"] = v]
  <2>1. <<o, a>> \in Data
    BY <1>3 DEF Data
  <2> QED BY <1>1, <1>3, <2>1 DEF Effect
<1> QED BY <1>2, <1>3 DEF Effect

(* and the delays of a retyper.                                             *)
LEMMA DelaysEffect ==
    ASSUME NEW s, NEW a,
           NEW o \in {"retype-press-delay", "retype-release-delay",
                      "max-window-moves"}
    PROVE  Effect(s, o, Delays(s, o, a).set)
<1>1. Fits(o, StrToInt(a))
  BY DEF Fits, LimitOptions, Thresholded
<1> QED BY <1>1, AcceptedEffect, UsingSet DEF Delays

(* The switch of xnee_parse_option_impl.                                    *)
LEMMA ParseCases ==
    ASSUME NEW s, NEW o, NEW a
    PROVE  \/ o \in {"err-file", "out-file", "display"}
              /\ ParseOption(s, o, a) = Files(s, o, a)
           \/ o \in FileTable.plain /\ ParseOption(s, o, a) = Clients(s, o, a)
           \/ o \in LimitOptions \cup {"loops-left"}
              /\ ParseOption(s, o, a) = Limits(s, o, a)
           \/ o \in KeyOptions /\ ParseOption(s, o, a) = Keys(s, o, a)
           \/ o \in {"time", "speed-percent"}
              /\ ParseOption(s, o, a) = TimeAndSpeed(s, o, a)
           \/ o \in {"Dimension", "recorded-resolution",
                          "replay-resolution", "resolution-adjustment"}
              /\ ParseOption(s, o, a) = Resolutions(s, o, a)
           \/ o = "distribute" /\ ParseOption(s, o, a) = Distribute(s, o, a)
           \/ o \in Flags /\ ParseOption(s, o, a) = SetFlag(s, o, a)
           \/ o = "replay-offset" /\ ParseOption(s, o, a) = Offset(s, o, a)
           \/ o = "plugin" /\ ParseOption(s, o, a) = Plugin(s, o, a)
           \/ o = "feedback-none"
              /\ ParseOption(s, o, a) = FeedbackNone(s, o, a)
           \/ o \in Thresholded /\ ParseOption(s, o, a) = Thresholds(s, o, a)
           \/ o \in RangeTypes /\ ParseOption(s, o, a) = Ranges(s, o, a)
           \/ o \in {"retype-press-delay", "retype-release-delay",
                          "max-window-moves"}
              /\ ParseOption(s, o, a) = Delays(s, o, a)
           \/ ParseOption(s, o, a) = Using(0, Outcome("unknown", s))
  BY DEF ParseOption, Thresholded

(* Whatever the option and its argument, the effect is such a one.          *)
LEMMA ParseEffect ==
    ASSUME NEW s, NEW o, NEW a
    PROVE  Effects(s, o, ParseOption(s, o, a).set)
<1>1. Effect(s, o, Using(0, Outcome("unknown", s)).set)
  BY UsingSet DEF Outcome, Effect
<1>2. Effect(s, o, s)
  BY DEF Effect
<1>3. \A t : Effect(s, o, t) => Effects(s, o, t)
  BY <1>2 DEF Effects
<1> QED BY <1>1, <1>3, ParseCases, FilesEffect, ClientsEffect, LimitsEffect,
           KeysEffect, TimeEffect, ResolutionsEffect, DistributeEffect,
           FlagEffect, OffsetEffect, PluginEffect, FeedbackNoneEffect,
           ThresholdsEffect, RangesEffect, DelaysEffect

(* What an option returns.                                                  *)
Returns == {"ok", "error", "crash", "unknown"}

(* No option returns anything else, so that every line of a file has a      *)
(* class.                                                                   *)
LEMMA ParseReturns ==
    ASSUME NEW s, NEW o, NEW a
    PROVE  ParseOption(s, o, a).ret \in Returns
<1>1. \A t, n, v : Accepted(t, n, v).ret \in Returns
  BY DEF Accepted, Outcome, Returns
<1>2. /\ Refused(s).ret \in Returns /\ Crash(s).ret \in Returns
      /\ Unchanged(s).ret \in Returns
      /\ Outcome("unknown", s).ret \in Returns
  BY DEF Refused, Crash, Unchanged, Outcome, Returns
<1>3. o \in {"err-file", "out-file", "display"} =>
        Files(s, o, a).ret \in Returns
  BY <1>1, <1>2, UsingSet DEF Files, SetDisplayName, SetName
<1>4. o \in FileTable.plain => Clients(s, o, a).ret \in Returns
  <2>1. \A n, v : Using(n, Accepted(s, v, v)).ret = Accepted(s, v, v).ret
    BY UsingSet
  <2>2. SetFutureClients(s, a).ret \in Returns
    BY <1>1, <1>2 DEF SetFutureClients
  <2>3. SUFFICES ASSUME o \in {"first-last", "all-events", "all-clients",
                              "future-clients"}
                 PROVE  Clients(s, o, a).ret \in Returns
    BY DEF FileTable
  <2>4. CASE o = "first-last"
    BY <1>1, <2>4, UsingSet DEF Clients
  <2>5. CASE o = "all-events"
    BY <1>1, <2>5, UsingSet DEF Clients
  <2>6. CASE o = "all-clients"
    BY <1>1, <2>6, UsingSet DEF Clients
  <2>7. CASE o = "future-clients"
    BY <2>2, <2>7, UsingSet DEF Clients
  <2> QED BY <2>3, <2>4, <2>5, <2>6, <2>7
<1>5. Limits(s, o, a).ret \in Returns
  BY <1>1, <1>2, UsingSet DEF Limits, SetLimit
<1>6. Keys(s, o, a).ret \in Returns
  BY <1>1, <1>2, UsingSet DEF Keys, SetKey
<1>7. TimeAndSpeed(s, o, a).ret \in Returns
  BY <1>1, <1>2, UsingSet DEF TimeAndSpeed, SetSpeed
<1>8. Resolutions(s, o, a).ret \in Returns
  BY <1>1, <1>2, UsingSet DEF Resolutions, SetAdjustment, SetResolution
<1>9. Distribute(s, o, a).ret \in Returns
  BY <1>1, <1>2, UsingSet DEF Distribute, AddDisplays
<1>10. SetFlag(s, o, a).ret \in Returns
  BY <1>1, <1>2, UsingSet DEF SetFlag
<1>11. Offset(s, o, a).ret \in Returns
  BY <1>1, <1>2, UsingSet DEF Offset, SetOffset
<1>12. Plugin(s, o, a).ret \in Returns
  BY <1>1, <1>2, UsingSet DEF Plugin
<1>13. FeedbackNone(s, o, a).ret \in Returns
  BY <1>1, <1>2, UsingSet DEF FeedbackNone
<1>14. Thresholds(s, o, a).ret \in Returns
  BY <1>1, <1>2, UsingSet DEF Thresholds, SetThreshold
<1>15. Ranges(s, o, a).ret \in Returns
  BY <1>1, <1>2, UsingSet DEF Ranges, ParseRange
<1>16. Delays(s, o, a).ret \in Returns
  BY <1>1, <1>2, UsingSet DEF Delays
<1>17. Using(0, Outcome("unknown", s)).ret \in Returns
  BY <1>2, UsingSet
<1> QED BY <1>3, <1>4, <1>5, <1>6, <1>7, <1>8, <1>9, <1>10, <1>11, <1>12,
           <1>13, <1>14, <1>15, <1>16, <1>17, ParseCases

(* A good setting stays one, whatever the option; the font does not change, *)
(* and no option but distribute adds a display.                             *)
LEMMA EffectIsGood ==
    ASSUME NEW s, NEW o, NEW t, Good(s), Effect(s, o, t)
    PROVE  /\ Good(t)
           /\ t["font"] = s["font"]
           /\ o # "distribute" => t["distribute"] = s["distribute"]
<1>1. CASE t = s
  BY <1>1
<1>2. ASSUME NEW n, NEW v,
             t = [s EXCEPT ![n] = v], Fits(n, v), n # "font",
             n = "ranges" =>
               \E x \in Data : v = s["ranges"] \cup {x},
             n = "distribute" => o = "distribute"
      PROVE  /\ Good(t)
             /\ t["font"] = s["font"]
             /\ o # "distribute" => t["distribute"] = s["distribute"]
  <2> DEFINE D == DOMAIN Default
  <2>1. DOMAIN s = D /\ DOMAIN t = D /\ t = [m \in D |-> t[m]]
    <3> HIDE DEF D
    <3>1. s = [m \in D |-> s[m]] /\ DOMAIN s = D
      BY DEF Good, D
    <3> QED BY <1>2, <3>1
  <2>2. {"font", "ranges", "distribute"} \subseteq D
    BY DEF Default
  <2> HIDE DEF D
  <2>3. \A m \in D : t[m] = IF m = n THEN v ELSE s[m]
    <3>1. s = [m \in D |-> s[m]]
      BY DEF Good, D
    <3> QED BY <1>2, <3>1
  <2>4. t["font"] = s["font"]
    BY <1>2, <2>2, <2>3
  <2>5. o # "distribute" => t["distribute"] = s["distribute"]
    BY <1>2, <2>2, <2>3
  <2>6. \A m \in D : Fits(m, t[m])
    BY <1>2, <2>3 DEF Good, D
  <2>7. t["ranges"] \subseteq Data /\ IsFiniteSet(t["ranges"])
    <3>1. s["ranges"] \subseteq Data
          /\ IsFiniteSet(s["ranges"])
      BY DEF Good
    <3>2. \A x : IsFiniteSet(s["ranges"] \cup {x})
      BY <3>1, FS_AddElement
    <3>3. CASE n = "ranges"
      <4>1. PICK x \in Data : v = s["ranges"] \cup {x}
        BY <1>2, <3>3
      <4>2. t["ranges"] = s["ranges"] \cup {x}
        BY <2>2, <2>3, <3>3, <4>1
      <4> QED BY <3>1, <3>2, <4>2
    <3>4. CASE n # "ranges"
      BY <2>2, <2>3, <3>1, <3>4
    <3> QED BY <3>3, <3>4
  <2>8. s["font"] \in {None, "terminus"}
    BY DEF Good
  <2> QED BY <2>1, <2>4, <2>5, <2>6, <2>7, <2>8 DEF Good, D
<1> QED BY <1>1, <1>2 DEF Effect

(* And two effects at once are no worse.                                    *)
LEMMA EffectsAreGood ==
    ASSUME NEW s, NEW o, NEW t, Good(s), Effects(s, o, t)
    PROVE  /\ Good(t)
           /\ t["font"] = s["font"]
           /\ o # "distribute" => t["distribute"] = s["distribute"]
<1>1. PICK u : Effect(s, o, u) /\ Effect(u, o, t)
  BY DEF Effects
<1>2. /\ Good(u)
      /\ u["font"] = s["font"]
      /\ o # "distribute" => u["distribute"] = s["distribute"]
  BY <1>1, EffectIsGood
<1>3. /\ Good(t)
      /\ t["font"] = u["font"]
      /\ o # "distribute" => t["distribute"] = u["distribute"]
  BY <1>1, <1>2, EffectIsGood
<1> QED BY <1>2, <1>3

(* Reading a line leaves settings that are good.                            *)
Classes == {"blank", "settings", "info", "syntax", "crash"}

(* A line has one of these classes, and leaves the settings good, the font  *)
(* as it was, and the displays too unless it adds one.                      *)
LEMMA LineRead ==
    ASSUME NEW s, NEW l, Good(s)
    PROVE  LET r == HandleProject(s, l)
           IN  /\ r.class \in Classes
               /\ Good(r.set)
               /\ r.set["font"] = s["font"]
               /\ l.option # "distribute" =>
                    r.set["distribute"] = s["distribute"]
<1> DEFINE o == ParseOption(s, l.option, l.arg)
           r == HandleProject(s, l)
<1>1. o.ret \in Returns
  BY ParseReturns
<1>2. Effects(s, l.option, o.set)
  BY ParseEffect
<1>3. /\ Good(o.set)
      /\ o.set["font"] = s["font"]
      /\ l.option # "distribute" => o.set["distribute"] = s["distribute"]
  BY <1>2, EffectsAreGood
<1>4. r.class \in Classes /\ r.set \in {s, o.set}
  <2> HIDE DEF o
  <2>1. CASE l = Blank
    BY <2>1 DEF HandleProject, Classes
  <2>2. CASE l # Blank
    BY <1>1, <2>2 DEF HandleProject, Classes, Returns, o
  <2> QED BY <2>1, <2>2
<1> QED BY <1>3, <1>4

-----------------------------------------------------------------------------

(* The lines that are written from the settings s: the one that states each *)
(* setting, those of the ranges, and those no reader knows.                 *)
Switches == {"first-last", "store-mouse-position", "human-printout",
             "no-reparent-recording"}
Stated(s) == LimitOptions \cup Thresholded \cup {"clients", "feedback"}
               \cup {n \in Switches : s[n] = "on"}
ClientsLine(v) ==
    Line(IF v = "all" THEN "all-clients" ELSE "future-clients", None)
Says(s, n) ==
    CASE n \in LimitOptions \cup Thresholded -> Line(n, s[n])
      [] n = "clients"  -> ClientsLine(s["clients"])
      [] n = "feedback" -> Line(s["feedback"], None)
      [] n \in Switches -> Line(n, None)
RangeLine(x) == Line(x[1], x[2])
Displayed == Line("Distribution display", None)

(* The settings s with the setting n put to v.                              *)
Put(s, n, v) == [s EXCEPT ![n] = v]

(* Every such line sets what it states to the value it was written from.    *)
LEMMA LimitRead ==
    ASSUME NEW s, NEW n \in LimitOptions, NEW v \in Numbers \ {"INT_MAX"}
    PROVE  /\ HandleProject(s, Line(n, v)).class = "settings"
           /\ HandleProject(s, Line(n, v)).set = Put(s, n, v)
<1>1. Line(n, v) # Blank /\ Line(n, v).option = n /\ Line(n, v).arg = v
  BY DEF Line, Blank, LimitOptions
<1>2. ParseOption(s, n, v) = Limits(s, n, v)
  BY DEF ParseOption, LimitOptions, FileTable, KeyOptions, Flags, ModeFlags,
         FeedbackFlags, DisplayFlags, RangeTypes
<1>3. Limits(s, n, v) = Using(1, Accepted(s, n, v))
  BY DEF Limits, SetLimit, StrToInt, LimitOptions
<1>4. /\ Using(1, Accepted(s, n, v)).ret = "ok"
      /\ Using(1, Accepted(s, n, v)).set = [s EXCEPT ![n] = v]
  BY DEF Using, Accepted, Outcome
<1> QED BY <1>1, <1>2, <1>3, <1>4 DEF HandleProject, Put

(* A threshold is a number, which is what the setter wants.                 *)
LEMMA ThresholdRead ==
    ASSUME NEW s, NEW n \in Thresholded, NEW v \in Numbers
    PROVE  /\ HandleProject(s, Line(n, v)).class = "settings"
           /\ HandleProject(s, Line(n, v)).set = Put(s, n, v)
<1>1. Line(n, v) # Blank /\ Line(n, v).option = n /\ Line(n, v).arg = v
  BY DEF Line, Blank, Thresholded
<1>2. ParseOption(s, n, v) = Thresholds(s, n, v)
  BY DEF ParseOption, LimitOptions, FileTable, KeyOptions, Flags, ModeFlags,
         FeedbackFlags, DisplayFlags, RangeTypes, Thresholded
<1>3. Thresholds(s, n, v) = Using(1, Accepted(s, n, v))
  BY DEF Thresholds, SetThreshold
<1>4. /\ Using(1, Accepted(s, n, v)).ret = "ok"
      /\ Using(1, Accepted(s, n, v)).set = [s EXCEPT ![n] = v]
  BY DEF Using, Accepted, Outcome
<1> QED BY <1>1, <1>2, <1>3, <1>4 DEF HandleProject, Put

(* Two options state the clients; the one that may have an argument is      *)
(* written without.                                                         *)
LEMMA ClientsRead ==
    ASSUME NEW s, NEW v \in {"all", "future"}
    PROVE  /\ HandleProject(s, ClientsLine(v)).class = "settings"
           /\ HandleProject(s, ClientsLine(v)).set = Put(s, "clients", v)
<1> DEFINE o == IF v = "all" THEN "all-clients" ELSE "future-clients"
<1>1. /\ ClientsLine(v) # Blank /\ ClientsLine(v).option = o
      /\ ClientsLine(v).arg = None
  BY DEF Line, Blank, ClientsLine
<1>2. ParseOption(s, o, None) = Clients(s, o, None)
  BY DEF ParseOption, LimitOptions, FileTable, KeyOptions, Flags, ModeFlags,
         FeedbackFlags, DisplayFlags, RangeTypes
<1>3. Clients(s, o, None) = Using(0, Accepted(s, "clients", v))
  <2>1. CASE v = "all"
    BY <2>1 DEF Clients
  <2>2. CASE v = "future"
    <3>1. Truth(None) = "true"
      BY NoneAssumption DEF Truth
    <3>2. SetFutureClients(s, None) = Accepted(s, "clients", "future")
      BY <3>1 DEF SetFutureClients
    <3>3. o = "future-clients"
      BY <2>2
    <3> HIDE DEF o
    <3> QED BY <2>2, <3>2, <3>3 DEF Clients
  <2> QED BY <2>1, <2>2
<1>4. /\ Using(0, Accepted(s, "clients", v)).ret = "ok"
      /\ Using(0, Accepted(s, "clients", v)).set = [s EXCEPT !["clients"] = v]
  BY DEF Using, Accepted, Outcome
<1> HIDE DEF o
<1> QED BY <1>1, <1>2, <1>3, <1>4 DEF HandleProject, Put

(* The feedback is stated by the option that chose it.                      *)
LEMMA FeedbackRead ==
    ASSUME NEW s, NEW v \in Feedbacks
    PROVE  /\ HandleProject(s, Line(v, None)).class = "settings"
           /\ HandleProject(s, Line(v, None)).set = Put(s, "feedback", v)
<1>1. Line(v, None) # Blank /\ Line(v, None).option = v
      /\ Line(v, None).arg = None
  BY DEF Line, Blank, Feedbacks, None
<1>2. /\ ParseOption(s, v, None).ret = "ok"
      /\ ParseOption(s, v, None).set = [s EXCEPT !["feedback"] = v]
  <2>1. CASE v = "feedback-none"
    <3>1. ParseOption(s, v, None) = FeedbackNone(s, v, None)
      BY <2>1 DEF ParseOption, LimitOptions, FileTable, KeyOptions, Flags,
         ModeFlags, FeedbackFlags, DisplayFlags, RangeTypes
    <3> QED BY <3>1 DEF FeedbackNone, Using, Accepted, Outcome
  <2>2. CASE v # "feedback-none"
    <3>1. v \in {"feedback-xosd", "feedback-stderr"}
      BY <2>2 DEF Feedbacks
    <3>2. ParseOption(s, v, None) = SetFlag(s, v, None)
      BY <3>1 DEF ParseOption, LimitOptions, FileTable, KeyOptions, Flags,
         ModeFlags, FeedbackFlags, DisplayFlags, RangeTypes
    <3>3. /\ FlagSetting(v) = "feedback" /\ FlagValue(v) = v
          /\ v # "recall-window-position"
      BY <3>1 DEF FlagSetting, FlagValue
    <3> QED BY <3>2, <3>3 DEF SetFlag, Using, Accepted, Outcome
  <2> QED BY <2>1, <2>2
<1> QED BY <1>1, <1>2 DEF HandleProject, Put

(* A flag is written when it is on, and turns it on.                        *)
LEMMA SwitchRead ==
    ASSUME NEW s, NEW n \in Switches
    PROVE  /\ HandleProject(s, Line(n, None)).class = "settings"
           /\ HandleProject(s, Line(n, None)).set = Put(s, n, "on")
<1>1. Line(n, None) # Blank /\ Line(n, None).option = n
      /\ Line(n, None).arg = None
  BY DEF Line, Blank, Switches, None
<1>2. /\ ParseOption(s, n, None).ret = "ok"
      /\ ParseOption(s, n, None).set = [s EXCEPT ![n] = "on"]
  <2>1. CASE n = "first-last"
    <3>1. ParseOption(s, n, None) = Clients(s, n, None)
      BY <2>1 DEF ParseOption, LimitOptions, FileTable, KeyOptions, Flags,
         ModeFlags, FeedbackFlags, DisplayFlags, RangeTypes
    <3>2. Clients(s, "first-last", None) =
            Using(0, Accepted(s, "first-last", "on"))
      BY DEF Clients
    <3>3. /\ Using(0, Accepted(s, "first-last", "on")).ret = "ok"
          /\ Using(0, Accepted(s, "first-last", "on")).set =
               [s EXCEPT !["first-last"] = "on"]
      BY DEF Using, Accepted, Outcome
    <3> QED BY <2>1, <3>1, <3>2, <3>3
  <2>2. CASE n # "first-last"
    <3>1. n \in {"store-mouse-position", "human-printout",
                 "no-reparent-recording"}
      BY <2>2 DEF Switches
    <3>2. ParseOption(s, n, None) = SetFlag(s, n, None)
      BY <3>1 DEF ParseOption, LimitOptions, FileTable, KeyOptions, Flags,
         ModeFlags, FeedbackFlags, DisplayFlags, RangeTypes
    <3>3. /\ FlagSetting(n) = n /\ FlagValue(n) = "on"
          /\ n # "recall-window-position"
      BY <3>1 DEF FlagSetting, FlagValue
    <3> QED BY <3>2, <3>3 DEF SetFlag, Using, Accepted, Outcome
  <2> QED BY <2>1, <2>2
<1> QED BY <1>1, <1>2 DEF HandleProject, Put

(* A list of data is added to the ranges.                                   *)
LEMMA RangeRead ==
    ASSUME NEW s, NEW x \in Data
    PROVE  /\ HandleProject(s, RangeLine(x)).class = "settings"
           /\ HandleProject(s, RangeLine(x)).set =
                Put(s, "ranges", s["ranges"] \cup {x})
<1>1. RangeLine(x) # Blank /\ RangeLine(x).option = x[1]
      /\ RangeLine(x).arg = x[2]
  BY DEF Line, Blank, RangeLine, RangeTypes, Data
<1>2. x[1] \in RangeTypes /\ x[2] \in Lists /\ x[2] # None
      /\ x = <<x[1], x[2]>>
  BY NoneAssumption DEF Data
<1>3. ParseOption(s, x[1], x[2]) = Ranges(s, x[1], x[2])
  BY <1>2 DEF ParseOption, LimitOptions, FileTable, KeyOptions, Flags,
     ModeFlags, FeedbackFlags, DisplayFlags, RangeTypes
<1>4. ParseRange(s, x[1], x[2]) =
        Accepted(s, "ranges", s["ranges"] \cup {x})
  BY <1>2 DEF ParseRange
<1>5. /\ ParseOption(s, x[1], x[2]).ret = "ok"
      /\ ParseOption(s, x[1], x[2]).set =
           [s EXCEPT !["ranges"] = s["ranges"] \cup {x}]
  <2>1. ParseOption(s, x[1], x[2]) =
          Using(1, Accepted(s, "ranges", s["ranges"] \cup {x}))
    BY <1>3, <1>4 DEF Ranges
  <2> DEFINE v == s["ranges"] \cup {x}
  <2>2. /\ Using(1, Accepted(s, "ranges", v)).ret = "ok"
        /\ Using(1, Accepted(s, "ranges", v)).set = [s EXCEPT !["ranges"] = v]
    <3> HIDE DEF v
    <3> QED BY UsingSet DEF Accepted, Outcome
  <2> QED BY <2>1, <2>2
<1> QED BY <1>1, <1>5 DEF HandleProject, Put

(* A blank line changes nothing.                                            *)
LEMMA BlankRead ==
    ASSUME NEW s
    PROVE  /\ HandleProject(s, Blank).class = "blank"
           /\ HandleProject(s, Blank).set = s
  BY DEF HandleProject

(* The line of the displays is one no reader knows.                         *)
LEMMA DisplayedRead ==
    ASSUME NEW s
    PROVE  /\ HandleProject(s, Displayed).class = "syntax"
           /\ HandleProject(s, Displayed).set = s
<1>1. Displayed # Blank /\ Displayed.option = "Distribution display"
  BY DEF Displayed, Line, Blank
<1>2. ParseOption(s, "Distribution display", Displayed.arg) =
        Using(0, Outcome("unknown", s))
  BY DEF ParseOption, LimitOptions, FileTable, KeyOptions, Flags, ModeFlags,
         FeedbackFlags, DisplayFlags, RangeTypes
<1>3. /\ Using(0, Outcome("unknown", s)).ret = "unknown"
      /\ Using(0, Outcome("unknown", s)).set = s
  BY DEF Using, Outcome
<1>4. "Distribution display" \notin InfoNames
  BY DEF InfoNames
<1> QED BY <1>1, <1>2, <1>3, <1>4 DEF HandleProject, Put


-----------------------------------------------------------------------------

(* A set of numbers that has 0, and the successor of each of its members,   *)
(* has all of them.                                                         *)
LEMMA Induction ==
    ASSUME NEW S, 0 \in S, \A n \in Nat : n \in S => n + 1 \in S
    PROVE  Nat \subseteq S
<1> SUFFICES ASSUME Nat \ S # {} PROVE FALSE
  OBVIOUS
<1>1. PICK m \in Nat \ S : \A n \in Nat \ S : <<n, m>> \notin OpToRel(<, Nat)
  BY NatLessThanWellFounded, WFMin
<1>2. m - 1 \in Nat /\ m - 1 < m
  OBVIOUS
<1>3. <<m - 1, m>> \in OpToRel(<, Nat)
  BY <1>2 DEF OpToRel
<1>4. m - 1 \in S
  BY <1>1, <1>2, <1>3
<1>5. (m - 1) + 1 \in S
  BY <1>2, <1>4
<1> QED BY <1>5

(* The lines of a set of ranges are those of one of them, Pick, and those   *)
(* of the others.                                                           *)
Pick(s) == CHOOSE x \in s : TRUE
Listing(all) ==
    LET S[r \in SUBSET all] ==
          IF r = {} THEN <<>>
          ELSE <<RangeLine(Pick(r))>> \o S[r \ {Pick(r)}]
    IN  S

(* That is the recursion by which the ranges are printed.                   *)
LEMMA RangeLinesListed ==
    ASSUME NEW s
    PROVE  RangeLines(s) = Listing(s["ranges"])[s["ranges"]]
  BY DEF RangeLines, Listing, Pick, RangeLine

(* The subsets of D with at most n elements; what is left of one of them    *)
(* without its pick has fewer.                                              *)
Small(D, n) == {s \in SUBSET D : Cardinality(s) <= n}

(* Facts about these sets, for the induction on the number of ranges.       *)
LEMMA SmallSets ==
    ASSUME NEW D, IsFiniteSet(D)
    PROVE  /\ Small(D, 0) = {{}}
           /\ Small(D, Cardinality(D)) = SUBSET D
           /\ Cardinality(D) \in Nat
           /\ \A n \in Nat : \A s \in Small(D, n + 1) :
                s # {} => /\ Pick(s) \in s /\ Pick(s) \in D
                          /\ s \ {Pick(s)} \in Small(D, n)
           /\ \A n \in Nat : Small(D, n) \subseteq Small(D, n + 1)
<1>1. \A s \in SUBSET D : IsFiniteSet(s) /\ Cardinality(s) \in Nat
                         /\ Cardinality(s) <= Cardinality(D)
  BY FS_Subset, FS_CardinalityType
<1>2. \A s \in SUBSET D : Cardinality(s) = 0 <=> s = {}
  BY <1>1, FS_EmptySet
<1>3. ASSUME NEW n \in Nat, NEW s \in Small(D, n + 1), s # {}
      PROVE  /\ Pick(s) \in s /\ Pick(s) \in D
             /\ s \ {Pick(s)} \in Small(D, n)
  <2>1. Pick(s) \in s
    BY <1>3 DEF Pick
  <2>2. s \in SUBSET D /\ Cardinality(s) <= n + 1
    BY DEF Small
  <2>3. Cardinality(s \ {Pick(s)}) = Cardinality(s) - 1
    BY <1>1, <2>1, <2>2, FS_RemoveElement
  <2> QED BY <1>1, <2>1, <2>2, <2>3 DEF Small
<1> QED BY <1>1, <1>2, <1>3 DEF Small

(* The recursion has a solution, so that its equation holds.                *)
LEMMA ListingDef ==
    ASSUME NEW all, IsFiniteSet(all), NEW s \in SUBSET all
    PROVE  /\ s = {} => Listing(all)[s] = <<>>
           /\ s # {} => Listing(all)[s] =
                <<RangeLine(Pick(s))>> \o Listing(all)[s \ {Pick(s)}]
<1> DEFINE D == all
           B(g, t) == IF t = {} THEN <<>>
                      ELSE <<RangeLine(Pick(t))>> \o g[t \ {Pick(t)}]
           S == {n \in Nat : \E g : g = [t \in Small(D, n) |-> B(g, t)]}
<1>1. 0 \in S
  <2>1. [t \in {{}} |-> <<>>] = [t \in {{}} |-> B([u \in {{}} |-> <<>>], t)]
    OBVIOUS
  <2>2. Small(D, 0) = {{}}
    BY SmallSets
  <2> QED BY <2>1, <2>2
<1>2. ASSUME NEW n \in Nat, n \in S PROVE n + 1 \in S
  <2>1. PICK g : g = [t \in Small(D, n) |-> B(g, t)]
    BY <1>2
  <2> DEFINE h == [t \in Small(D, n + 1) |-> B(g, t)]
  <2>2. ASSUME NEW t \in Small(D, n) PROVE h[t] = g[t]
    <3>1. t \in Small(D, n + 1)
      BY SmallSets
    <3>2. g[t] = B(g, t)
      <4> HIDE DEF B
      <4> QED BY <2>1
    <3>3. h[t] = B(g, t)
      <4> HIDE DEF B
      <4> QED BY <3>1
    <3> QED BY <3>2, <3>3
  <2>3. ASSUME NEW t \in Small(D, n + 1) PROVE B(g, t) = B(h, t)
    <3> HIDE DEF h
    <3>1. CASE t = {}
      BY <3>1
    <3>2. CASE t # {}
      <4>1. t \ {Pick(t)} \in Small(D, n)
        BY <3>2, SmallSets
      <4>2. h[t \ {Pick(t)}] = g[t \ {Pick(t)}]
        BY <2>2, <4>1
      <4> QED BY <4>2
    <3> QED BY <3>1, <3>2
  <2>4. h = [t \in Small(D, n + 1) |-> B(h, t)]
    <3> DEFINE k == [t \in Small(D, n + 1) |-> B(h, t)]
    <3>1. k = [t \in Small(D, n + 1) |-> B(g, t)]
      <4> HIDE DEF B, h
      <4> QED BY <2>3
    <3> QED BY <3>1
  <2>5. n + 1 \in Nat
    BY <1>2
  <2> HIDE DEF h, B
  <2> QED BY <2>4, <2>5
<1>3. \E g : g = [t \in SUBSET D |-> B(g, t)]
  <2>1. Nat \subseteq S
    <3> HIDE DEF S
    <3> QED BY <1>1, <1>2, Induction
  <2>2. Cardinality(D) \in S
    <3> HIDE DEF S
    <3> QED BY <2>1, SmallSets
  <2> QED BY <2>2, SmallSets
<1> DEFINE E == CHOOSE g : g = [t \in SUBSET D |-> B(g, t)]
<1>4. E = [t \in SUBSET D |-> B(E, t)]
  <2> HIDE DEF B
  <2> QED BY <1>3
<1>5. Listing(all) = E
  BY DEF Listing
<1>6. E[s] = B(E, s)
  <2> HIDE DEF B, E
  <2> QED BY <1>4
<1> QED BY <1>5, <1>6


(* A line is among those of a file.                                         *)
Occurs(l, ls) == \E i \in 1 .. Len(ls) : ls[i] = l

(* A file of one line.                                                      *)
LEMMA Single ==
    ASSUME NEW L, NEW l \in L
    PROVE  <<l>> \in Seq(L) /\ Occurs(l, <<l>>)
  BY DEF Occurs

(* Two files one after the other have the lines of both.                    *)
LEMMA Joined ==
    ASSUME NEW L, NEW f \in Seq(L), NEW g \in Seq(L)
    PROVE  /\ f \o g \in Seq(L)
           /\ \A l : Occurs(l, f) => Occurs(l, f \o g)
           /\ \A l : Occurs(l, g) => Occurs(l, f \o g)
<1>1. /\ Len(f) \in Nat /\ Len(g) \in Nat
  BY LenProperties
<1>2. /\ f \o g \in Seq(L)
      /\ Len(f \o g) = Len(f) + Len(g)
      /\ \A i \in 1 .. Len(f) + Len(g) :
           (f \o g)[i] = IF i <= Len(f) THEN f[i] ELSE g[i - Len(f)]
  BY ConcatProperties
<1>3. ASSUME NEW i \in 1 .. Len(f)
      PROVE  i \in 1 .. Len(f \o g) /\ (f \o g)[i] = f[i]
  BY <1>1, <1>2
<1>4. ASSUME NEW i \in 1 .. Len(g)
      PROVE  /\ i + Len(f) \in 1 .. Len(f \o g)
             /\ (f \o g)[i + Len(f)] = g[i]
  <2>1. /\ i + Len(f) \in 1 .. Len(f) + Len(g)
        /\ ~(i + Len(f) <= Len(f)) /\ (i + Len(f)) - Len(f) = i
    BY <1>1
  <2> QED BY <1>2, <2>1
<1> QED BY <1>2, <1>3, <1>4 DEF Occurs

(* The lines of the ranges, each of which has one.                          *)
LEMMA RangesListed ==
    ASSUME NEW s, IsFiniteSet(s["ranges"]),
           NEW L, \A x \in s["ranges"] : RangeLine(x) \in L
    PROVE  /\ RangeLines(s) \in Seq(L)
           /\ \A x \in s["ranges"] : Occurs(RangeLine(x), RangeLines(s))
<1> DEFINE all == s["ranges"]
           Listed(r) == /\ Listing(all)[r] \in Seq(L)
                        /\ \A x \in r : Occurs(RangeLine(x), Listing(all)[r])
           S == {n \in Nat : \A r \in Small(all, n) : Listed(r)}
<1>1. \A r \in SUBSET all :
        /\ r = {} => Listing(all)[r] = <<>>
        /\ r # {} => Listing(all)[r] =
             <<RangeLine(Pick(r))>> \o Listing(all)[r \ {Pick(r)}]
  BY ListingDef
<1>2. 0 \in S
  <2>1. Listed({})
    <3>1. Listing(all)[{}] = <<>>
      BY <1>1
    <3> QED BY <3>1, EmptySeq
  <2>2. Small(all, 0) = {{}}
    BY SmallSets
  <2> HIDE DEF Listed
  <2> QED BY <2>1, <2>2
<1>3. ASSUME NEW n \in Nat, n \in S PROVE n + 1 \in S
  <2>1. ASSUME NEW r \in Small(all, n + 1), r # {} PROVE Listed(r)
    <3> DEFINE x == Pick(r)
               q == r \ {x}
    <3>1. x \in r /\ x \in all /\ q \in Small(all, n)
      BY <2>1, SmallSets
    <3>2. Listed(q)
      <4> HIDE DEF Listed
      <4> QED BY <1>3, <3>1
    <3>3. <<RangeLine(x)>> \in Seq(L) /\ Occurs(RangeLine(x), <<RangeLine(x)>>)
      BY <3>1, Single
    <3>4. Listing(all)[r] = <<RangeLine(x)>> \o Listing(all)[q]
      <4>1. r \in SUBSET all
        BY DEF Small
      <4> QED BY <1>1, <2>1, <4>1
    <3>5. Listing(all)[q] \in Seq(L)
          /\ \A y \in q : Occurs(RangeLine(y), Listing(all)[q])
      BY <3>2
    <3> DEFINE f == <<RangeLine(x)>>
               g == Listing(all)[q]
    <3>6. /\ f \o g \in Seq(L)
          /\ \A l : Occurs(l, f) => Occurs(l, f \o g)
          /\ \A l : Occurs(l, g) => Occurs(l, f \o g)
      <4> HIDE DEF f, g
      <4>1. f \in Seq(L) /\ g \in Seq(L)
        BY <3>3, <3>5 DEF f, g
      <4> QED BY <4>1, Joined
    <3>7. \A y \in r : y = x \/ y \in q
      OBVIOUS
    <3> HIDE DEF x, q, f, g
    <3> QED BY <3>3, <3>4, <3>5, <3>6, <3>7 DEF f, g
  <2>2. Listed({})
    <3>1. Listing(all)[{}] = <<>>
      BY <1>1
    <3> QED BY <3>1, EmptySeq
  <2>3. n + 1 \in Nat
    BY <1>3
  <2> HIDE DEF Listed
  <2>4. \A r \in Small(all, n + 1) : Listed(r)
    BY <2>1, <2>2
  <2> QED BY <2>3, <2>4
<1>4. Listed(all)
  <2>1. Nat \subseteq S
    <3> HIDE DEF S
    <3> QED BY <1>2, <1>3, Induction
  <2>2. Cardinality(all) \in S /\ Small(all, Cardinality(all)) = SUBSET all
    <3> HIDE DEF S, all
    <3>1. IsFiniteSet(all)
      BY DEF all
    <3> QED BY <2>1, <3>1, SmallSets
  <2> HIDE DEF Listed
  <2> QED BY <2>2
<1> QED BY <1>4, RangeLinesListed

(* The file f is made of lines in L, and each in N is among them.           *)
MadeOf(f, L, N) == f \in Seq(L) /\ \A l \in N : Occurs(l, f)

(* One line lists itself,                                                   *)
LEMMA ListsOne ==
    ASSUME NEW L, NEW l \in L
    PROVE  MadeOf(<<l>>, L, {l})
  BY Single DEF MadeOf

(* no line lists nothing,                                                   *)
LEMMA ListsNone ==
    ASSUME NEW L
    PROVE  MadeOf(<<>>, L, {})
  BY EmptySeq DEF MadeOf

(* two files list what each lists,                                          *)
LEMMA ListsBoth ==
    ASSUME NEW L, NEW f, NEW M, MadeOf(f, L, M), NEW g, NEW N, MadeOf(g, L, N)
    PROVE  MadeOf(f \o g, L, M \cup N)
  BY Joined DEF MadeOf

(* and a flag is listed when it is on.                                      *)
LEMMA ListsOn ==
    ASSUME NEW L, NEW s, NEW n, s[n] = "on" => Line(n, None) \in L
    PROVE  MadeOf(On(s, n), L, {l \in {Line(n, None)} : s[n] = "on"})
<1>1. CASE s[n] = "on"
  <2>1. {l \in {Line(n, None)} : s[n] = "on"} = {Line(n, None)}
    BY <1>1
  <2>2. On(s, n) = <<Line(n, None)>>
    BY <1>1 DEF On, If
  <2> QED BY <1>1, <2>1, <2>2, ListsOne
<1>2. CASE s[n] # "on"
  <2>1. {l \in {Line(n, None)} : s[n] = "on"} = {}
    BY <1>2
  <2>2. On(s, n) = <<>>
    BY <1>2 DEF On, If
  <2> QED BY <2>1, <2>2, ListsNone
<1> QED BY <1>1, <1>2

(* A set of lines that has all that the settings s are written with.        *)
Covers(L, s) ==
    /\ \A n \in Stated(s) : Says(s, n) \in L
    /\ \A x \in s["ranges"] : RangeLine(x) \in L
    /\ Blank \in L
    /\ s["distribute"] # {} => Displayed \in L
    /\ s["font"] # None => Line(s["font"], None) \in L

(* The first part of the settings is made of such lines, and states the     *)
(* limits, the clients and two of the flags.                                *)
LEMMA LimitsListed ==
    ASSUME NEW s, NEW L, Covers(L, s)
    PROVE  MadeOf(LimitLines(s), L,
                 {Says(s, n) : n \in Stated(s) \cap
                    (LimitOptions \cup {"first-last", "clients",
                                        "store-mouse-position"})})
<1> DEFINE e == "events-to-record"
           d == "data-to-record"
           t == "seconds-to-record"
           f == "first-last"
           m == "store-mouse-position"
           OnLine(n) == {l \in {Line(n, None)} : s[n] = "on"}
<1>1. /\ Says(s, e) = Line(e, s[e]) /\ Says(s, d) = Line(d, s[d])
      /\ Says(s, t) = Line(t, s[t])
  BY DEF Says, LimitOptions, Thresholded, Switches
<1>2. Says(s, f) = Line(f, None) /\ Says(s, m) = Line(m, None)
  BY DEF Says, LimitOptions, Thresholded, Switches
<1>3. Says(s, "clients") = ClientsLine(s["clients"])
  BY DEF Says, LimitOptions, Thresholded, Switches
<1>4. /\ {e, d, t, "clients"} \subseteq Stated(s)
      /\ f \in Stated(s) <=> s[f] = "on"
      /\ m \in Stated(s) <=> s[m] = "on"
  BY DEF Stated, LimitOptions, Thresholded, Switches
<1>5. /\ MadeOf(<<Says(s, e)>>, L, {Says(s, e)})
      /\ MadeOf(<<Says(s, d)>>, L, {Says(s, d)})
      /\ MadeOf(<<Says(s, t)>>, L, {Says(s, t)})
      /\ MadeOf(<<Says(s, "clients")>>, L, {Says(s, "clients")})
  BY <1>4, ListsOne DEF Covers
<1>6. MadeOf(On(s, f), L, OnLine(f))
  <2>1. s[f] = "on" => Line(f, None) \in L
    BY <1>2, <1>4 DEF Covers
  <2> QED BY <2>1, ListsOn
<1>7. MadeOf(On(s, m), L, OnLine(m))
  <2>1. s[m] = "on" => Line(m, None) \in L
    BY <1>2, <1>4 DEF Covers
  <2> QED BY <2>1, ListsOn
<1>8. LimitLines(s) = <<Says(s, e)>> \o <<Says(s, d)>> \o <<Says(s, t)>>
                        \o On(s, f) \o <<Says(s, "clients")>> \o On(s, m)
  BY <1>1, <1>3 DEF LimitLines, Value, ClientsLine
<1> DEFINE A == {Says(s, e)} \cup {Says(s, d)} \cup {Says(s, t)}
                  \cup OnLine(f) \cup {Says(s, "clients")} \cup OnLine(m)
<1>9. MadeOf(LimitLines(s), L, A)
  <2> HIDE DEF OnLine, e, d, t, f, m
  <2>1. MadeOf(<<Says(s, e)>> \o <<Says(s, d)>>, L,
              {Says(s, e)} \cup {Says(s, d)})
    BY <1>5, ListsBoth
  <2>2. MadeOf(<<Says(s, e)>> \o <<Says(s, d)>> \o <<Says(s, t)>>, L,
              {Says(s, e)} \cup {Says(s, d)} \cup {Says(s, t)})
    BY <1>5, <2>1, ListsBoth
  <2>3. MadeOf(<<Says(s, e)>> \o <<Says(s, d)>> \o <<Says(s, t)>> \o On(s, f),
              L, {Says(s, e)} \cup {Says(s, d)} \cup {Says(s, t)}
                   \cup OnLine(f))
    BY <1>6, <2>2, ListsBoth
  <2>4. MadeOf(<<Says(s, e)>> \o <<Says(s, d)>> \o <<Says(s, t)>> \o On(s, f)
                \o <<Says(s, "clients")>>,
              L, {Says(s, e)} \cup {Says(s, d)} \cup {Says(s, t)}
                   \cup OnLine(f) \cup {Says(s, "clients")})
    BY <1>5, <2>3, ListsBoth
  <2>5. MadeOf(<<Says(s, e)>> \o <<Says(s, d)>> \o <<Says(s, t)>> \o On(s, f)
                \o <<Says(s, "clients")>> \o On(s, m), L, A)
    BY <1>7, <2>4, ListsBoth
  <2> QED BY <1>8, <2>5
<1>10. ASSUME NEW n \in Stated(s) \cap (LimitOptions \cup
                          {"first-last", "clients", "store-mouse-position"})
       PROVE  Says(s, n) \in A
  <2>1. n \in {e, d, t, f, "clients", m}
    BY DEF LimitOptions
  <2>2. CASE n = f
    BY <1>2, <1>4, <2>2
  <2>3. CASE n = m
    BY <1>2, <1>4, <2>3
  <2> QED BY <2>1, <2>2, <2>3
<1> HIDE DEF A
<1> QED BY <1>9, <1>10 DEF MadeOf

(* The second part states the thresholds, the feedback and the other two.   *)
LEMMA FeedbackListed ==
    ASSUME NEW s, NEW L, Covers(L, s)
    PROVE  MadeOf(FeedbackLines(s), L,
                 {Says(s, n) : n \in Stated(s) \cap
                    (Thresholded \cup {"feedback", "human-printout",
                                       "no-reparent-recording"})})
<1> DEFINE x == "max-threshold"
           y == "min-threshold"
           t == "tot-threshold"
           h == "human-printout"
           r == "no-reparent-recording"
           font == IF s["font"] = None THEN <<Blank>>
                                       ELSE <<Line(s["font"], None)>>
           OnLine(n) == {l \in {Line(n, None)} : s[n] = "on"}
<1>1. /\ Says(s, x) = Line(x, s[x]) /\ Says(s, y) = Line(y, s[y])
      /\ Says(s, t) = Line(t, s[t])
  BY DEF Says, LimitOptions, Thresholded, Switches
<1>2. Says(s, h) = Line(h, None) /\ Says(s, r) = Line(r, None)
  BY DEF Says, LimitOptions, Thresholded, Switches
<1>3. Says(s, "feedback") = Line(s["feedback"], None)
  BY DEF Says, LimitOptions, Thresholded, Switches
<1>4. /\ {x, y, t, "feedback"} \subseteq Stated(s)
      /\ h \in Stated(s) <=> s[h] = "on"
      /\ r \in Stated(s) <=> s[r] = "on"
  BY DEF Stated, LimitOptions, Thresholded, Switches
<1>5. /\ MadeOf(<<Says(s, x)>>, L, {Says(s, x)})
      /\ MadeOf(<<Says(s, y)>>, L, {Says(s, y)})
      /\ MadeOf(<<Says(s, t)>>, L, {Says(s, t)})
      /\ MadeOf(<<Says(s, "feedback")>>, L, {Says(s, "feedback")})
  BY <1>4, ListsOne DEF Covers
<1>6. MadeOf(On(s, h), L, OnLine(h))
  <2>1. s[h] = "on" => Line(h, None) \in L
    BY <1>2, <1>4 DEF Covers
  <2> QED BY <2>1, ListsOn
<1>7. MadeOf(On(s, r), L, OnLine(r))
  <2>1. s[r] = "on" => Line(r, None) \in L
    BY <1>2, <1>4 DEF Covers
  <2> QED BY <2>1, ListsOn
<1>8. MadeOf(font, L, {})
  <2>1. MadeOf(<<Blank>>, L, {Blank})
    BY ListsOne DEF Covers
  <2>2. s["font"] # None => MadeOf(<<Line(s["font"], None)>>, L,
                                  {Line(s["font"], None)})
    BY ListsOne DEF Covers
  <2> QED BY <2>1, <2>2 DEF MadeOf
<1>9. FeedbackLines(s) = <<Says(s, x)>> \o <<Says(s, y)>> \o <<Says(s, t)>>
                           \o <<Says(s, "feedback")>> \o font
                           \o On(s, h) \o On(s, r)
  BY <1>1, <1>3 DEF FeedbackLines, Value
<1> DEFINE A == {Says(s, x)} \cup {Says(s, y)} \cup {Says(s, t)}
                  \cup {Says(s, "feedback")} \cup {}
                  \cup OnLine(h) \cup OnLine(r)
<1>10. MadeOf(FeedbackLines(s), L, A)
  <2> HIDE DEF OnLine, x, y, t, h, r, font
  <2>1. MadeOf(<<Says(s, x)>> \o <<Says(s, y)>>, L,
              {Says(s, x)} \cup {Says(s, y)})
    BY <1>5, ListsBoth
  <2>2. MadeOf(<<Says(s, x)>> \o <<Says(s, y)>> \o <<Says(s, t)>>, L,
              {Says(s, x)} \cup {Says(s, y)} \cup {Says(s, t)})
    BY <1>5, <2>1, ListsBoth
  <2>3. MadeOf(<<Says(s, x)>> \o <<Says(s, y)>> \o <<Says(s, t)>>
                \o <<Says(s, "feedback")>>,
              L, {Says(s, x)} \cup {Says(s, y)} \cup {Says(s, t)}
                   \cup {Says(s, "feedback")})
    BY <1>5, <2>2, ListsBoth
  <2>4. MadeOf(<<Says(s, x)>> \o <<Says(s, y)>> \o <<Says(s, t)>>
                \o <<Says(s, "feedback")>> \o font,
              L, {Says(s, x)} \cup {Says(s, y)} \cup {Says(s, t)}
                   \cup {Says(s, "feedback")} \cup {})
    BY <1>8, <2>3, ListsBoth
  <2>5. MadeOf(<<Says(s, x)>> \o <<Says(s, y)>> \o <<Says(s, t)>>
                \o <<Says(s, "feedback")>> \o font \o On(s, h),
              L, {Says(s, x)} \cup {Says(s, y)} \cup {Says(s, t)}
                   \cup {Says(s, "feedback")} \cup {} \cup OnLine(h))
    BY <1>6, <2>4, ListsBoth
  <2>6. MadeOf(<<Says(s, x)>> \o <<Says(s, y)>> \o <<Says(s, t)>>
                \o <<Says(s, "feedback")>> \o font \o On(s, h) \o On(s, r),
              L, A)
    BY <1>7, <2>5, ListsBoth
  <2> QED BY <1>9, <2>6
<1>11. ASSUME NEW n \in Stated(s) \cap (Thresholded \cup
                  {"feedback", "human-printout", "no-reparent-recording"})
       PROVE  Says(s, n) \in A
  <2>1. n \in {x, y, t, "feedback", h, r}
    BY DEF Thresholded
  <2>2. CASE n = h
    BY <1>2, <1>4, <2>2
  <2>3. CASE n = r
    BY <1>2, <1>4, <2>3
  <2> QED BY <2>1, <2>2, <2>3
<1> HIDE DEF A
<1> QED BY <1>10, <1>11 DEF MadeOf

(* The header of a session and a project are made of such lines, and every  *)
(* setting that can be stated is.                                           *)
LEMMA SettingsListed ==
    ASSUME NEW s, NEW L, Covers(L, s), IsFiniteSet(s["ranges"])
    PROVE  LET N == {Says(s, n) : n \in Stated(s)}
                      \cup {RangeLine(x) : x \in s["ranges"]}
           IN  /\ MadeOf(HeaderLines(s), L, N)
               /\ \A opened : (opened => Line("ProjectName", None) \in L) =>
                    MadeOf(ProjectLines(s, opened), L, N)
<1> DEFINE F == DistributionLines(s)
           P == {Says(s, n) : n \in Stated(s) \cap
                    (LimitOptions \cup {"first-last", "clients",
                                        "store-mouse-position"})}
           Q == {Says(s, n) : n \in Stated(s) \cap
                    (Thresholded \cup {"feedback", "human-printout",
                                       "no-reparent-recording"})}
           R == {RangeLine(x) : x \in s["ranges"]}
           T == {Says(s, n) : n \in Stated(s)}
<1>1. MadeOf(F, L, {})
  <2>1. CASE s["distribute"] # {}
    <3>1. F = <<Displayed>>
      BY <2>1 DEF DistributionLines, If, Displayed
    <3>2. MadeOf(<<Displayed>>, L, {Displayed})
      BY <2>1, ListsOne DEF Covers
    <3> QED BY <3>1, <3>2 DEF MadeOf
  <2>2. CASE s["distribute"] = {}
    <3>1. F = <<>>
      BY <2>2 DEF DistributionLines, If
    <3> QED BY <3>1, ListsNone
  <2> QED BY <2>1, <2>2
<1>2. MadeOf(LimitLines(s), L, P) /\ MadeOf(FeedbackLines(s), L, Q)
  BY LimitsListed, FeedbackListed
<1>3. MadeOf(RangeLines(s), L, R)
  <2>1. \A x \in s["ranges"] : RangeLine(x) \in L
    BY DEF Covers
  <2> QED BY <2>1, RangesListed DEF MadeOf
<1>4. T = {} \cup P \cup Q
  BY DEF Stated, LimitOptions, Thresholded, Switches
<1>5. MadeOf(SettingLines(s), L, T)
  <2> HIDE DEF F, P, Q, T
  <2>1. MadeOf(F \o LimitLines(s), L, {} \cup P)
    BY <1>1, <1>2, ListsBoth
  <2>2. MadeOf(F \o LimitLines(s) \o FeedbackLines(s), L, {} \cup P \cup Q)
    BY <1>2, <2>1, ListsBoth
  <2> QED BY <1>4, <2>2 DEF SettingLines, F
<1>6. MadeOf(HeaderLines(s), L, T \cup R)
  <2> HIDE DEF T, R
  <2> QED BY <1>3, <1>5, ListsBoth DEF HeaderLines
<1>7. ASSUME NEW opened, opened => Line("ProjectName", None) \in L
      PROVE  MadeOf(ProjectLines(s, opened), L, T \cup R)
  <2> HIDE DEF T, R
  <2>1. MadeOf(InfoLines(opened), L, {})
    <3>1. CASE opened
      <4>1. InfoLines(opened) = <<Line("ProjectName", None)>>
        BY <3>1 DEF InfoLines, If
      <4>2. MadeOf(<<Line("ProjectName", None)>>, L,
                  {Line("ProjectName", None)})
        BY <1>7, <3>1, ListsOne
      <4> QED BY <4>1, <4>2 DEF MadeOf
    <3>2. CASE ~opened
      <4>1. InfoLines(opened) = <<>>
        BY <3>2 DEF InfoLines, If
      <4> QED BY <4>1, ListsNone
    <3> QED BY <3>1, <3>2
  <2>2. MadeOf(InfoLines(opened) \o SettingLines(s), L, {} \cup T)
    BY <1>5, <2>1, ListsBoth
  <2>3. MadeOf(InfoLines(opened) \o SettingLines(s) \o RangeLines(s), L,
              {} \cup T \cup R)
    BY <1>3, <2>2, ListsBoth
  <2>4. {} \cup T \cup R = T \cup R
    OBVIOUS
  <2> QED BY <2>3, <2>4 DEF ProjectLines
<1> QED BY <1>6, <1>7

-----------------------------------------------------------------------------

(* What the settings are, and how the last line was, when n lines of ls     *)
(* have been read.                                                          *)
Read(s, ls, on) ==
    LET r[n \in 0..Len(ls)] ==
          IF n = 0 THEN [class |-> "blank", set |-> s]
          ELSE IF r[n - 1].class \in on
               THEN HandleProject(r[n - 1].set, ls[n])
               ELSE r[n - 1]
    IN r

(* The recursion has a solution.                                            *)
LEMMA ReadDef ==
    ASSUME NEW s, NEW ls, Len(ls) \in Nat, NEW on, NEW n \in 0..Len(ls)
    PROVE  /\ n = 0 => /\ Read(s, ls, on)[n].class = "blank"
                       /\ Read(s, ls, on)[n].set = s
           /\ n # 0 => \/ Read(s, ls, on)[n] =
                            HandleProject(Read(s, ls, on)[n - 1].set, ls[n])
                       \/ Read(s, ls, on)[n] = Read(s, ls, on)[n - 1]
<1> DEFINE B(g, k) == IF k = 0 THEN [class |-> "blank", set |-> s]
                      ELSE IF g[k - 1].class \in on
                           THEN HandleProject(g[k - 1].set, ls[k])
                           ELSE g[k - 1]
           S == {m \in Nat : \E g : g = [k \in 0..m |-> B(g, k)]}
<1>1. 0 \in S
  <2> DEFINE z == [class |-> "blank", set |-> s]
  <2>1. [k \in 0..0 |-> z] = [k \in 0..0 |-> B([i \in 0..0 |-> z], k)]
    <3>1. \A k \in 0..0 : k = 0
      OBVIOUS
    <3>2. \A g : \A k \in 0..0 : B(g, k) = z
      BY <3>1
    <3> HIDE DEF B, z
    <3> QED BY <3>2
  <2> HIDE DEF z, B
  <2> QED BY <2>1
<1>2. ASSUME NEW m \in Nat, m \in S PROVE m + 1 \in S
  <2>1. PICK g : g = [k \in 0..m |-> B(g, k)]
    BY <1>2
  <2> DEFINE h == [k \in 0..(m + 1) |-> IF k = m + 1 THEN B(g, k) ELSE g[k]]
  <2>2. ASSUME NEW k \in 0..(m + 1) PROVE h[k] = B(h, k)
    <3>1. k # 0 => k - 1 \in 0..m /\ k - 1 \in 0..(m + 1) /\ k - 1 # m + 1
      OBVIOUS
    <3>2. k # 0 => h[k - 1] = g[k - 1]
      <4> HIDE DEF B
      <4> QED BY <3>1
    <3>3. B(h, k) = B(g, k)
      <4> HIDE DEF h
      <4> QED BY <3>2
    <3>4. k # m + 1 => k \in 0..m
      OBVIOUS
    <3>5. k # m + 1 => g[k] = B(g, k)
      <4> HIDE DEF B
      <4> QED BY <2>1, <3>4
    <3>6. h[k] = B(g, k)
      <4> HIDE DEF B
      <4> QED BY <3>5
    <3> QED BY <3>3, <3>6
  <2>3. h = [k \in 0..(m + 1) |-> B(h, k)]
    <3> HIDE DEF B
    <3> QED BY <2>2
  <2>4. \E k : k = [i \in 0..(m + 1) |-> B(k, i)]
    <3> HIDE DEF h, B
    <3> QED BY <2>3
  <2> HIDE DEF B
  <2> QED BY <1>2, <2>4
<1>3. \E g : g = [k \in 0..Len(ls) |-> B(g, k)]
  <2>1. Nat \subseteq S
    <3> HIDE DEF S
    <3> QED BY <1>1, <1>2, Induction
  <2> HIDE DEF B
  <2> QED BY <2>1
<1> DEFINE E == CHOOSE g : g = [k \in 0..Len(ls) |-> B(g, k)]
<1>4. E = [k \in 0..Len(ls) |-> B(E, k)]
  <2> HIDE DEF B
  <2> QED BY <1>3
<1>5. Read(s, ls, on) = E
  BY DEF Read
<1>6. E[n] = B(E, n)
  <2> HIDE DEF B, E
  <2> QED BY <1>4
<1> HIDE DEF E
<1> QED BY <1>5, <1>6

(* What a line does, with the number of the line before it.                 *)
LEMMA ReadNext ==
    ASSUME NEW s, NEW ls, Len(ls) \in Nat, NEW on, NEW m \in Nat,
           m + 1 \in 1..Len(ls)
    PROVE  \/ Read(s, ls, on)[m + 1] =
                HandleProject(Read(s, ls, on)[m].set, ls[m + 1])
           \/ Read(s, ls, on)[m + 1] = Read(s, ls, on)[m]
<1> DEFINE k == m + 1
<1>1. k \in 0..Len(ls) /\ k # 0 /\ k - 1 = m
  OBVIOUS
<1> HIDE DEF k
<1>2. \/ Read(s, ls, on)[k] =
           HandleProject(Read(s, ls, on)[k - 1].set, ls[k])
      \/ Read(s, ls, on)[k] = Read(s, ls, on)[k - 1]
  BY <1>1, ReadDef
<1>3. \/ Read(s, ls, on)[k] = HandleProject(Read(s, ls, on)[m].set, ls[k])
      \/ Read(s, ls, on)[k] = Read(s, ls, on)[m]
  BY <1>1, <1>2
<1> QED BY <1>3 DEF k

(* Reading a file is reading all of its lines.                              *)
LEMMA ReadingIsRead ==
    ASSUME NEW s, NEW ls, NEW on
    PROVE  Reading(s, ls, on) = Read(s, ls, on)[Len(ls)]
  BY DEF Reading, Read

(* A file leaves settings that are good, the font, and the displays too     *)
(* when none of its lines adds one.                                         *)
Undistributing(ls) == \A i \in 1 .. Len(ls) : ls[i].option # "distribute"

(* Such a file is read line by line, and each line keeps that.              *)
LEMMA ReadingGood ==
    ASSUME NEW s, Good(s), NEW ls, Len(ls) \in Nat, NEW on
    PROVE  LET r == Reading(s, ls, on)
           IN  /\ r.class \in Classes
               /\ Good(r.set)
               /\ r.set["font"] = s["font"]
               /\ Undistributing(ls) => r.set["distribute"] = s["distribute"]
<1> DEFINE R == Read(s, ls, on)
           Ok(q) == /\ q.class \in Classes
                    /\ Good(q.set)
                    /\ q.set["font"] = s["font"]
                    /\ Undistributing(ls) =>
                         q.set["distribute"] = s["distribute"]
           S == {n \in Nat : n \in 0..Len(ls) => Ok(R[n])}
<1>1. 0 \in S
  <2>1. R[0].class = "blank" /\ R[0].set = s
    BY ReadDef
  <2>2. Ok(R[0])
    BY <2>1 DEF Classes
  <2> QED BY <2>2
<1>2. ASSUME NEW n \in Nat, n \in S PROVE n + 1 \in S
  <2>1. SUFFICES ASSUME n + 1 \in 0..Len(ls) PROVE Ok(R[n + 1])
    OBVIOUS
  <2>2. n \in 0..Len(ls) /\ n + 1 # 0 /\ (n + 1) - 1 = n
        /\ n + 1 \in 1..Len(ls)
    BY <2>1
  <2>3. Ok(R[n])
    <3> HIDE DEF Ok, R
    <3> QED BY <1>2, <2>2
  <2>4. \/ R[n + 1] = HandleProject(R[n].set, ls[n + 1])
        \/ R[n + 1] = R[n]
    BY <2>2, ReadNext
  <2>5. CASE R[n + 1] = R[n]
    <3> HIDE DEF Ok, R
    <3> QED BY <2>3, <2>5
  <2>6. CASE R[n + 1] = HandleProject(R[n].set, ls[n + 1])
    <3> DEFINE t == R[n].set
               l == ls[n + 1]
               q == HandleProject(t, l)
    <3>1. Good(t) /\ t["font"] = s["font"]
          /\ (Undistributing(ls) => t["distribute"] = s["distribute"])
      BY <2>3
    <3>2. /\ q.class \in Classes
          /\ Good(q.set)
          /\ q.set["font"] = t["font"]
          /\ l.option # "distribute" =>
               q.set["distribute"] = t["distribute"]
      <4> HIDE DEF t, l
      <4> QED BY <3>1, LineRead
    <3>3. Undistributing(ls) => l.option # "distribute"
      BY <2>2 DEF Undistributing
    <3>4. R[n + 1] = q
      BY <2>6
    <3> HIDE DEF t, l, q, R
    <3> QED BY <3>1, <3>2, <3>3, <3>4
  <2> QED BY <2>4, <2>5, <2>6
<1>3. Nat \subseteq S
  <2> HIDE DEF S
  <2> QED BY <1>1, <1>2, Induction
<1>4. Ok(R[Len(ls)])
  <2> HIDE DEF Ok, R
  <2>1. Len(ls) \in 0..Len(ls) /\ Len(ls) \in S
    BY <1>3
  <2> QED BY <2>1
<1> QED BY <1>4, ReadingIsRead

(* The lines gnee and cnee write and can read; one of another program can   *)
(* only be one of these if it is such a line.                               *)
Readable ==
    {Line(n, v) : n \in LimitOptions, v \in Numbers \ {"INT_MAX"}}
      \cup {Line(n, v) : n \in Thresholded, v \in Numbers}
      \cup {ClientsLine(v) : v \in {"all", "future"}}
      \cup {Line(v, None) : v \in Feedbacks}
      \cup {Line(n, None) : n \in Switches}
      \cup {RangeLine(x) : x \in Data}
      \cup {Blank}

(* Each of them is read without an error.                                   *)
LEMMA ReadableRead ==
    ASSUME NEW s, NEW l \in Readable
    PROVE  HandleProject(s, l).class \in {"blank", "settings"}
<1>1. CASE l = Blank
  BY <1>1, BlankRead
<1>2. ASSUME NEW n \in LimitOptions, NEW v \in Numbers \ {"INT_MAX"},
             l = Line(n, v)
      PROVE  HandleProject(s, l).class \in {"blank", "settings"}
  <2>1. HandleProject(s, Line(n, v)).class = "settings"
    BY LimitRead
  <2> QED BY <1>2, <2>1
<1>3. ASSUME NEW n \in Thresholded, NEW v \in Numbers, l = Line(n, v)
      PROVE  HandleProject(s, l).class \in {"blank", "settings"}
  <2>1. HandleProject(s, Line(n, v)).class = "settings"
    BY ThresholdRead
  <2> QED BY <1>3, <2>1
<1>4. ASSUME NEW v \in {"all", "future"}, l = ClientsLine(v)
      PROVE  HandleProject(s, l).class \in {"blank", "settings"}
  <2>1. HandleProject(s, l).class = "settings"
    BY <1>4, ClientsRead
  <2> QED BY <2>1
<1>5. ASSUME NEW v \in Feedbacks, l = Line(v, None)
      PROVE  HandleProject(s, l).class \in {"blank", "settings"}
  <2>1. HandleProject(s, l).class = "settings"
    BY <1>5, FeedbackRead
  <2> QED BY <2>1
<1>6. ASSUME NEW n \in Switches, l = Line(n, None)
      PROVE  HandleProject(s, l).class \in {"blank", "settings"}
  <2>1. HandleProject(s, l).class = "settings"
    BY <1>6, SwitchRead
  <2> QED BY <2>1
<1>7. ASSUME NEW x \in Data, l = RangeLine(x)
      PROVE  HandleProject(s, l).class \in {"blank", "settings"}
  <2>1. HandleProject(s, RangeLine(x)).class = "settings"
    BY RangeRead
  <2> QED BY <1>7, <2>1
<1> QED BY <1>1, <1>2, <1>3, <1>4, <1>5, <1>6, <1>7 DEF Readable

(* So is a file that is made of them.                                       *)
LEMMA ReadingOwn ==
    ASSUME NEW s, NEW ls \in Seq(Readable), NEW on
    PROVE  Reading(s, ls, on).class \in {"blank", "settings"}
<1> DEFINE R == Read(s, ls, on)
           S == {n \in Nat : n \in 0..Len(ls) =>
                               R[n].class \in {"blank", "settings"}}
<1>1. Len(ls) \in Nat
  BY LenProperties
<1>2. 0 \in S
  <2>1. R[0].class = "blank" /\ R[0].set = s
    BY <1>1, ReadDef
  <2> QED BY <2>1
<1>3. ASSUME NEW n \in Nat, n \in S PROVE n + 1 \in S
  <2>1. SUFFICES ASSUME n + 1 \in 0..Len(ls)
                 PROVE  R[n + 1].class \in {"blank", "settings"}
    OBVIOUS
  <2>2. n \in 0..Len(ls) /\ n + 1 # 0 /\ (n + 1) - 1 = n
        /\ n + 1 \in 1..Len(ls)
    BY <1>1, <2>1
  <2>3. R[n].class \in {"blank", "settings"}
    <3> HIDE DEF R
    <3> QED BY <1>3, <2>2
  <2>4. \/ R[n + 1] = HandleProject(R[n].set, ls[n + 1])
        \/ R[n + 1] = R[n]
    <3> DEFINE k == n + 1
    <3>1. k \in 0..Len(ls) /\ k # 0 /\ k - 1 = n
      BY <2>1, <2>2
    <3> HIDE DEF k
    <3>2. \/ R[k] = HandleProject(R[k - 1].set, ls[k])
          \/ R[k] = R[k - 1]
      BY <1>1, <3>1, ReadDef
    <3>3. \/ R[k] = HandleProject(R[n].set, ls[k])
          \/ R[k] = R[n]
      <4> HIDE DEF R
      <4> QED BY <3>1, <3>2
    <3> QED BY <3>3 DEF k
  <2>5. ls[n + 1] \in Readable
    BY <2>2, ElementOfSeq
  <2>6. HandleProject(R[n].set, ls[n + 1]).class \in {"blank", "settings"}
    BY <2>5, ReadableRead
  <2> HIDE DEF R
  <2> QED BY <2>3, <2>4, <2>6
<1>4. Nat \subseteq S
  <2> HIDE DEF S
  <2> QED BY <1>2, <1>3, Induction
<1>5. R[Len(ls)].class \in {"blank", "settings"}
  <2> HIDE DEF R
  <2>1. Len(ls) \in 0..Len(ls) /\ Len(ls) \in S
    BY <1>1, <1>4
  <2> QED BY <2>1
<1> QED BY <1>5, ReadingIsRead

-----------------------------------------------------------------------------

(* The names of the settings, and those among them that the window shows.   *)
Names == DOMAIN Default

(* What is among the names.                                                 *)
LEMMA NamesHave ==
    /\ LimitOptions \cup Thresholded \cup KeyOptions \cup RangeTypes
         \cup Switches \cup {"file", "mode"} \subseteq Names
    /\ {"sync", "force-replay", "verbose", "recall-window-position", "clients",
        "feedback", "human-printout", "speed-percent", "replay-offset", "time",
        "ranges", "distribute", "font"} \subseteq Names
<1>1. /\ LimitTable.takes \subseteq LibOptions
      /\ ThresholdTable.takes \subseteq LibOptions
      /\ ReplayTable.takes \subseteq LibOptions
      /\ FeedbackTable.takes \subseteq LibOptions
      /\ ReplayTable.plain \subseteq LibOptions
      /\ FeedbackTable.plain \subseteq LibOptions
  BY DEF LibOptions, Tables
<1>2. LimitOptions \cup KeyOptions \cup {"time"} \subseteq LimitTable.takes
  BY DEF LimitTable, LimitOptions, KeyOptions
<1>3. Thresholded \cup {"replay-offset"} \subseteq ThresholdTable.takes
  BY DEF ThresholdTable, Thresholded
<1>4. "speed-percent" \in ReplayTable.takes
  BY DEF ReplayTable
<1>5. RangeTypes \subseteq FeedbackTable.takes
  BY DEF FeedbackTable
<1>6. (LimitOptions \cup KeyOptions \cup Thresholded \cup RangeTypes
         \cup {"time", "replay-offset", "speed-percent"}) \cap Flags = {}
  BY DEF LimitOptions, KeyOptions, Thresholded, RangeTypes, Flags, ModeFlags,
         FeedbackFlags, DisplayFlags
<1>7. LibOptions \ Flags \subseteq Names
  BY DEF Names, Default
<1>8. \A f \in Flags : FlagSetting(f) \in Names
  BY DEF Names, Default
<1>9. /\ {"synchronised-replay", "force-replay", "verbose", "human-printout",
          "recall-window-position", "feedback-xosd"} \subseteq Flags
      /\ FlagSetting("synchronised-replay") = "sync"
      /\ FlagSetting("force-replay") = "force-replay"
      /\ FlagSetting("verbose") = "verbose"
      /\ FlagSetting("human-printout") = "human-printout"
      /\ FlagSetting("recall-window-position") = "recall-window-position"
      /\ FlagSetting("feedback-xosd") = "feedback"
  BY DEF Flags, ModeFlags, FeedbackFlags, FlagSetting
<1>10. {"clients", "ranges", "distribute", "font", "file"} \subseteq Names
  BY DEF Names, Default
<1>11. /\ {"record", "store-mouse-position", "no-reparent-recording"}
            \subseteq Flags
       /\ FlagSetting("record") = "mode"
       /\ FlagSetting("store-mouse-position") = "store-mouse-position"
       /\ FlagSetting("no-reparent-recording") = "no-reparent-recording"
  BY DEF Flags, ModeFlags, FeedbackFlags, DisplayFlags, FlagSetting
<1>12. "first-last" \in LibOptions \ Flags
  <2>1. /\ "first-last" \in FileTable.plain
        /\ FileTable.plain \subseteq LibOptions
    BY DEF FileTable, LibOptions, Tables
  <2> QED BY <2>1 DEF Flags, ModeFlags, FeedbackFlags, DisplayFlags
<1>13. Switches \subseteq Names
  BY <1>7, <1>8, <1>9, <1>11, <1>12 DEF Switches
<1>14. {"file", "mode"} \subseteq Names
  BY <1>8, <1>10, <1>11
<1> QED BY <1>1, <1>2, <1>3, <1>4, <1>5, <1>6, <1>7, <1>8, <1>9, <1>10,
           <1>13, <1>14

(* The settings of a new xd are good, without a font and a display.         *)
LEMMA DefaultIsGood ==
    /\ Good(Default)
    /\ Default["font"] = None /\ Default["distribute"] = {}
<1>1. Default = [n \in DOMAIN Default |-> Default[n]]
  BY DEF Default
<1>2. \A n \in DOMAIN Default : Fits(n, Default[n])
  <2>1. SUFFICES ASSUME NEW n \in DOMAIN Default
                 PROVE  Fits(n, Default[n])
    OBVIOUS
  <2>2. Default[n] = CASE n \in {"ranges", "distribute"} -> {}
                       [] n = "font"     -> None
                       [] n = "mode"     -> "none"
                       [] n = "clients"  -> "all"
                       [] n = "feedback" -> "feedback-xosd"
                       [] OTHER          -> "default"
    BY DEF Default
  <2>3. n \in LimitOptions \cup Thresholded => Default[n] = "default"
    BY <2>2 DEF LimitOptions, Thresholded
  <2>4. n = "clients" => Default[n] = "all"
    BY <2>2
  <2>5. n = "feedback" => Default[n] = "feedback-xosd"
    BY <2>2
  <2> QED BY <2>3, <2>4, <2>5, DefaultAssumption DEF Fits, Feedbacks
<1>3. /\ Default["ranges"] = {} /\ Default["font"] = None
      /\ Default["distribute"] = {}
  <2>1. {"ranges", "font", "distribute"} \subseteq DOMAIN Default
    BY DEF Default
  <2> QED BY <2>1 DEF Default
<1> QED BY <1>1, <1>2, <1>3, FS_EmptySet DEF Good

(* Settings that differ from good ones in one that fits, or in the ranges.  *)
LEMMA PutIsGood ==
    ASSUME NEW s, Good(s), NEW n \in Names \ {"font", "ranges"}, NEW v,
           Fits(n, v)
    PROVE  /\ Good(Put(s, n, v))
           /\ \A m \in Names :
                Put(s, n, v)[m] = IF m = n THEN v ELSE s[m]
<1> DEFINE t == Put(s, n, v)
<1>1. s = [m \in Names |-> s[m]]
  BY DEF Good, Names
<1>2. \A m \in Names : t[m] = IF m = n THEN v ELSE s[m]
  BY <1>1 DEF Put
<1>3. Effect(s, "distribute", t)
  BY DEF Effect, Put
<1>4. Good(t)
  BY <1>3, EffectIsGood
<1> QED BY <1>2, <1>4

(* So do settings whose ranges are other lists of data.                     *)
LEMMA RangesAreGood ==
    ASSUME NEW s, Good(s), NEW r, r \subseteq Data,
           IsFiniteSet(r)
    PROVE  /\ Good(Put(s, "ranges", r))
           /\ Put(s, "ranges", r)["ranges"] = r
           /\ \A m \in Names \ {"ranges"} :
                Put(s, "ranges", r)[m] = s[m]
<1> DEFINE t == Put(s, "ranges", r)
<1>1. s = [m \in Names |-> s[m]] /\ "ranges" \in Names /\ "font" \in Names
  BY NamesHave DEF Good, Names
<1>2. t = [m \in Names |-> t[m]]
  BY <1>1 DEF Put
<1>3. \A m \in Names : t[m] = IF m = "ranges" THEN r ELSE s[m]
  BY <1>1 DEF Put
<1>4. \A m \in Names : Fits(m, t[m])
  <2>1. Fits("ranges", r)
    BY DEF Fits, LimitOptions, Thresholded
  <2>2. \A m \in Names : Fits(m, s[m])
    BY DEF Good, Names
  <2> HIDE DEF t
  <2> QED BY <1>3, <2>1, <2>2
<1>5. s["font"] \in {None, "terminus"}
  BY DEF Good
<1> HIDE DEF t
<1>6. t["ranges"] = r /\ t["font"] = s["font"]
  BY <1>1, <1>3
<1>7. Good(t)
  BY <1>2, <1>4, <1>5, <1>6 DEF Good, Names
<1> QED BY <1>3, <1>6, <1>7 DEF t

(* Rows that are moved between the lists of the window add and remove       *)
(* ranges.                                                                  *)
LEMMA AddedIsGood ==
    ASSUME NEW s, Good(s), NEW items, items \subseteq Data,
           IsFiniteSet(items)
    PROVE  /\ Good(Added(s, items)) /\ Good(Removed(s, items))
           /\ Added(s, items)["ranges"] = s["ranges"] \cup items
           /\ \A m \in Names \ {"ranges"} :
                Added(s, items)[m] = s[m] /\ Removed(s, items)[m] = s[m]
<1>1. s["ranges"] \subseteq Data /\ IsFiniteSet(s["ranges"])
  BY DEF Good
<1>2. IsFiniteSet(s["ranges"] \cup items) /\ IsFiniteSet(s["ranges"] \ items)
  BY <1>1, FS_Union, FS_Difference
<1> DEFINE r == s["ranges"] \cup items
           q == s["ranges"] \ items
<1>3. r \subseteq Data /\ q \subseteq Data
  BY <1>1
<1>4. /\ Added(s, items) = Put(s, "ranges", r)
      /\ Removed(s, items) = Put(s, "ranges", q)
  BY DEF Added, Removed, Put
<1>5. IsFiniteSet(r) /\ IsFiniteSet(q)
  BY <1>2
<1> HIDE DEF r, q
<1>6. /\ Good(Put(s, "ranges", r)) /\ Good(Put(s, "ranges", q))
      /\ Put(s, "ranges", r)["ranges"] = r
      /\ \A m \in Names \ {"ranges"} :
           /\ Put(s, "ranges", r)[m] = s[m]
           /\ Put(s, "ranges", q)[m] = s[m]
  BY <1>3, <1>5, RangesAreGood
<1> QED BY <1>4, <1>6 DEF r

-----------------------------------------------------------------------------

(* The files of gnee: those it did not write, and those made of lines it    *)
(* writes, the ones it cannot read included.                                *)
Written == Readable \cup {Displayed, Line("terminus", None),
                          Line("ProjectName", None)}
Foreign == HandWritten \cup Recordings
AnyFile(f) == f \in Foreign \/ f \in Seq(Written)

(* Good settings are written in such lines, and in readable ones when no    *)
(* font is loaded and no display added.                                     *)
LEMMA OwnIsCovered ==
    ASSUME NEW s, Good(s)
    PROVE  /\ Covers(Written, s)
           /\ s["font"] = None /\ s["distribute"] = {} => Covers(Readable, s)
<1>1. \A n \in LimitOptions \cup Thresholded \cup {"clients", "feedback"} :
        Fits(n, s[n])
  BY NamesHave DEF Good, Names
<1>2. ASSUME NEW n \in Stated(s) PROVE Says(s, n) \in Readable
  <2>1. CASE n \in LimitOptions
    <3>1. s[n] \in Numbers \ {"INT_MAX"}
      BY <1>1, <2>1 DEF Fits
    <3>2. Says(s, n) = Line(n, s[n])
      BY <2>1 DEF Says, LimitOptions, Thresholded, Switches
    <3> QED BY <2>1, <3>1, <3>2 DEF Readable
  <2>2. CASE n \in Thresholded
    <3>1. s[n] \in Numbers
      BY <1>1, <2>2 DEF Fits
    <3>2. Says(s, n) = Line(n, s[n])
      BY <2>2 DEF Says, LimitOptions, Thresholded, Switches
    <3> QED BY <2>2, <3>1, <3>2 DEF Readable
  <2>3. CASE n = "clients"
    <3>1. s["clients"] \in {"all", "future"}
      BY <1>1 DEF Fits
    <3>2. Says(s, n) = ClientsLine(s["clients"])
      BY <2>3 DEF Says, LimitOptions, Thresholded, Switches
    <3> QED BY <3>1, <3>2 DEF Readable
  <2>4. CASE n = "feedback"
    <3>1. s["feedback"] \in Feedbacks
      BY <1>1 DEF Fits
    <3>2. Says(s, n) = Line(s["feedback"], None)
      BY <2>4 DEF Says, LimitOptions, Thresholded, Switches
    <3> QED BY <3>1, <3>2 DEF Readable
  <2>5. CASE n \in Switches
    <3>1. Says(s, n) = Line(n, None)
      BY <2>5 DEF Says, LimitOptions, Thresholded, Switches
    <3> QED BY <2>5, <3>1 DEF Readable
  <2> QED BY <2>1, <2>2, <2>3, <2>4, <2>5 DEF Stated
<1>3. ASSUME NEW x \in s["ranges"] PROVE RangeLine(x) \in Readable
  <2>1. x \in Data
    BY DEF Good, Data
  <2> QED BY <2>1 DEF Readable
<1>4. Blank \in Readable
  BY DEF Readable
<1>5. Readable \subseteq Written /\ Displayed \in Written
      /\ Line("terminus", None) \in Written
  BY DEF Written
<1>6. s["font"] \in {None, "terminus"}
  BY DEF Good
<1> QED BY <1>2, <1>3, <1>4, <1>5, <1>6 DEF Covers

(* Hence so are the files that are written from them.                       *)
LEMMA OwnFiles ==
    ASSUME NEW s, Good(s), NEW opened
    PROVE  /\ HeaderLines(s) \in Seq(Written)
           /\ ProjectLines(s, opened) \in Seq(Written)
           /\ s["font"] = None /\ s["distribute"] = {} /\ ~opened =>
                ProjectLines(s, opened) \in Seq(Readable)
<1>1. IsFiniteSet(s["ranges"])
  BY DEF Good
<1>2. Line("ProjectName", None) \in Written
  BY DEF Written
<1> QED BY <1>1, <1>2, OwnIsCovered, SettingsListed DEF MadeOf

(* The length of a file is a number.                                        *)
LEMMA FileFacts ==
    ASSUME NEW f, AnyFile(f)
    PROVE  Len(f) \in Nat
<1>1. CASE f \in Foreign
  <2>1. f \in Seq([option : STRING, arg : STRING])
    BY <1>1, FilesAssumption DEF Foreign
  <2> QED BY <2>1, LenProperties
<1>2. CASE f \in Seq(Written)
  BY <1>2, LenProperties
<1> QED BY <1>1, <1>2 DEF AnyFile

-----------------------------------------------------------------------------

(* What holds of gnee between two acts of the user: the settings are good,  *)
(* every widget shows something, the lists hold what there is, the files    *)
(* are lists of lines, and the window shows what is set.                    *)
ShownOK == shown = [w \in Shown |-> shown[w]]
ListsOK == included \subseteq Items \cup Predefined
FilesOK == AnyFile(session) /\ AnyFile(project)
GneeInv == Good(xd) /\ ShownOK /\ ListsOK /\ FilesOK /\ GuiReflects

(* The settings gnee starts with are good, and have no font and no display. *)
LEMMA StartPlain ==
    /\ Good(GneeDefault)
    /\ GneeDefault["font"] = None /\ GneeDefault["distribute"] = {}
<1>1. /\ Fits("events-to-record", "100") /\ Fits("data-to-record", "-1")
      /\ Fits("seconds-to-record", "-1") /\ Fits("max-threshold", "20")
      /\ Fits("min-threshold", "-20") /\ Fits("tot-threshold", "20")
      /\ Fits("sync", "on") /\ Fits("force-replay", "off")
      /\ Fits("verbose", "off") /\ Fits("recall-window-position", "off")
      /\ Fits("speed-percent", "100") /\ Fits("replay-offset", "0")
      /\ Fits("time", "0")
  BY ValuesAssumption DEF Fits, LimitOptions, Thresholded
<1> DEFINE a == Put(Default, "events-to-record", "100")
           b == Put(a, "data-to-record", "-1")
           c == Put(b, "seconds-to-record", "-1")
           d == Put(c, "max-threshold", "20")
           e == Put(d, "min-threshold", "-20")
           f == Put(e, "tot-threshold", "20")
           g == Put(f, "sync", "on")
           h == Put(g, "force-replay", "off")
           i == Put(h, "verbose", "off")
           j == Put(i, "recall-window-position", "off")
           k == Put(j, "speed-percent", "100")
           l == Put(k, "replay-offset", "0")
           m == Put(l, "time", "0")
           Bare(s) == /\ Good(s)
                       /\ s["font"] = None /\ s["distribute"] = {}
<1>2. GneeDefault = m
  BY DEF GneeDefault, Put
<1>3. ASSUME NEW s, Bare(s), NEW n \in Names \ {"font", "ranges",
                                                 "distribute"},
             NEW v, Fits(n, v)
      PROVE  Bare(Put(s, n, v))
  BY <1>3, PutIsGood, NamesHave
<1>4. {"events-to-record", "data-to-record", "seconds-to-record",
       "max-threshold", "min-threshold", "tot-threshold", "sync",
       "force-replay", "verbose", "recall-window-position",
       "speed-percent", "replay-offset", "time"}
         \subseteq Names \ {"font", "ranges", "distribute"}
  BY NamesHave DEF LimitOptions, Thresholded
<1>5. Bare(Default)
  BY DefaultIsGood
<1> HIDE DEF Bare
<1>6. Bare(a)
  BY <1>1, <1>3, <1>4, <1>5
<1> HIDE DEF a
<1>7. Bare(b)
  BY <1>1, <1>3, <1>4, <1>6
<1> HIDE DEF b
<1>8. Bare(c)
  BY <1>1, <1>3, <1>4, <1>7
<1> HIDE DEF c
<1>9. Bare(d)
  BY <1>1, <1>3, <1>4, <1>8
<1> HIDE DEF d
<1>10. Bare(e)
  BY <1>1, <1>3, <1>4, <1>9
<1> HIDE DEF e
<1>11. Bare(f)
  BY <1>1, <1>3, <1>4, <1>10
<1> HIDE DEF f
<1>12. Bare(g)
  BY <1>1, <1>3, <1>4, <1>11
<1> HIDE DEF g
<1>13. Bare(h)
  BY <1>1, <1>3, <1>4, <1>12
<1> HIDE DEF h
<1>14. Bare(i)
  BY <1>1, <1>3, <1>4, <1>13
<1> HIDE DEF i
<1>15. Bare(j)
  BY <1>1, <1>3, <1>4, <1>14
<1> HIDE DEF j
<1>16. Bare(k)
  BY <1>1, <1>3, <1>4, <1>15
<1> HIDE DEF k
<1>17. Bare(l)
  BY <1>1, <1>3, <1>4, <1>16
<1> HIDE DEF l
<1>18. Bare(m)
  BY <1>1, <1>3, <1>4, <1>17
<1> HIDE DEF m
<1> QED BY <1>2, <1>18 DEF Bare

(* gnee starts in such a state.                                             *)
LEMMA GneeStart == Init => GneeInv
<1> SUFFICES ASSUME Init PROVE GneeInv
  OBVIOUS
<1>1. Good(GneeDefault)
  BY StartPlain
<1>2. Good(xd)
  BY <1>1 DEF Init
<1>3. ShownOK /\ ListsOK
  BY DEF Init, ShownOK, ListsOK
<1>4. FilesOK
  <2>1. <<>> \in Seq(Written)
    BY EmptySeq
  <2> QED BY <2>1 DEF Init, FilesOK, AnyFile, Foreign
<1>5. GuiReflects
  <2>1. SUFFICES ASSUME NEW w \in Spins \cup Toggles
                 PROVE  shown[w] = Clamp(w, xd[w])
    BY DEF GuiReflects
  <2>2. w \in Shown
    BY DEF Shown
  <2>3. CASE w \in Spins
    <3>1. w \notin Toggles \cup {"clients", "feedback", "human-printout",
                                 "speed-percent", "replay-offset", "time"}
      BY <2>3, SpinsAssumption, TogglesAssumption DEF LimitOptions
    <3>2. shown[w] = Clamp(w, GneeDefault[w])
      BY <2>2, <2>3, <3>1 DEF Init
    <3> QED BY <3>2 DEF Init
  <2>4. CASE w \in Toggles
    <3>1. w \notin Spins \cup {"human-printout", "time", "seconds-to-record"}
      BY <2>4, SpinsAssumption, TogglesAssumption DEF LimitOptions
    <3>2. shown[w] = GneeDefault[w]
      BY <2>2, <2>4, <3>1 DEF Init
    <3> QED BY <3>1, <3>2 DEF Init, Clamp
  <2> QED BY <2>1, <2>3, <2>4
<1> QED BY <1>2, <1>3, <1>4, <1>5 DEF GneeInv

(* A widget that is not a spin button or check box, or a setting that none  *)
(* of them shows, leaves the window true.                                   *)
LEMMA Apart ==
    /\ Spins \cup Toggles \subseteq Names \ {"font", "ranges", "distribute",
         "clients", "feedback", "human-printout", "speed-percent",
         "replay-offset", "time"}
    /\ (Spins \cup Toggles) \cap Combos = {}
    /\ Spins \cup Toggles \cup Combos \subseteq Shown
    /\ Combos \subseteq Names \ {"font", "ranges", "distribute"}
    /\ \A w \in Combos : \A v : Fits(w, v)
    /\ Spins \cap Toggles = {}
    /\ Shown \subseteq Names
<1>1. /\ Spins \subseteq LimitOptions \cup Thresholded
      /\ Toggles \subseteq {"sync", "force-replay", "verbose",
                            "recall-window-position"}
      /\ Combos \subseteq KeyOptions
  BY SpinsAssumption, TogglesAssumption, CombosAssumption DEF Thresholded
<1>2. /\ (LimitOptions \cup Thresholded) \cap
           (KeyOptions \cup {"font", "ranges", "distribute", "clients",
             "feedback", "human-printout", "speed-percent", "replay-offset",
             "time", "sync", "force-replay", "verbose",
             "recall-window-position"}) = {}
      /\ KeyOptions \cap {"font", "ranges", "distribute", "sync", "verbose",
             "force-replay", "recall-window-position", "clients",
             "feedback"} = {}
  BY DEF LimitOptions, Thresholded, KeyOptions
<1>3. \A w \in KeyOptions : \A v : Fits(w, v)
  BY <1>2 DEF Fits
<1>4. Spins \cup Toggles \cup Combos \subseteq Shown
  BY DEF Shown
<1>5. Shown \subseteq Names
  BY <1>1, NamesHave DEF Shown, Radios
<1> QED BY <1>1, <1>2, <1>3, <1>4, <1>5, NamesHave

(* One widget that is turned, and the setting it sets.                      *)
LEMMA OneSetting ==
    ASSUME GneeInv, NEW n \in Names \ {"font", "ranges"}, NEW v, Fits(n, v),
           SetXd(n, v)
    PROVE  /\ Good(xd')
           /\ \A m \in Names : xd'[m] = IF m = n THEN v ELSE xd[m]
<1>1. Good(xd)
  BY DEF GneeInv
<1>2. xd' = Put(xd, n, v)
  BY DEF SetXd, Put
<1>3. /\ Good(Put(xd, n, v))
      /\ \A m \in Names : Put(xd, n, v)[m] = IF m = n THEN v ELSE xd[m]
  BY <1>1, PutIsGood
<1>4. ASSUME NEW y, y = Put(xd, n, v) PROVE Good(y)
  BY <1>3, <1>4
<1> QED BY <1>2, <1>3, <1>4

(* One widget that shows another value.                                     *)
LEMMA OneWidget ==
    ASSUME GneeInv, NEW w \in Shown, NEW v, Show(w, v)
    PROVE  /\ ShownOK'
           /\ \A u \in Shown : shown'[u] = IF u = w THEN v ELSE shown[u]
  BY DEF GneeInv, ShownOK, Show

(* The widget and its setting change together, or neither is of a spin      *)
(* button or a check box.                                                   *)
LEMMA StillReflects ==
    ASSUME GuiReflects,
           \A w \in Spins \cup Toggles :
             \/ w \in overridden'
             \/ shown'[w] = Clamp(w, xd'[w])
             \/ shown'[w] = shown[w] /\ xd'[w] = xd[w]
                  /\ (w \in overridden => w \in overridden')
    PROVE  GuiReflects'
  BY DEF GuiReflects, Clamp

(* What holds of the files does not depend on anything else,                *)
LEMMA FilesKept ==
    ASSUME GneeInv, KeepFiles
    PROVE  FilesOK'
  BY DEF GneeInv, KeepFiles, files, FilesOK, AnyFile

(* and what holds of the lists neither.                                     *)
LEMMA ListsKept ==
    ASSUME GneeInv, UNCHANGED lists
    PROVE  ListsOK'
  BY DEF GneeInv, lists, ListsOK

(* A value of a spin button fits the limit or threshold it sets, and is     *)
(* within the bounds.                                                       *)
LEMMA SpinFits ==
    ASSUME NEW w \in Spins, NEW u, Fits(w, u)
    PROVE  /\ Fits(w, Clamp(w, u)) /\ Clamp(w, Clamp(w, u)) = Clamp(w, u)
           /\ \A x \in SpinValues : Fits(w, Clamp(w, x))
<1>1. w \in LimitOptions \cup Thresholded
  BY SpinsAssumption DEF Thresholded
<1>2. w \notin {"clients", "feedback", "font"}
  BY <1>1 DEF LimitOptions, Thresholded
<1>3. \A x : Clamp(w, x) \in {x, "0"} /\ Clamp(w, Clamp(w, x)) = Clamp(w, x)
  BY DEF Clamp
<1>4. /\ "0" \in Numbers \ {"INT_MAX"}
      /\ SpinValues \subseteq Numbers \ {"INT_MAX"}
  BY ValuesAssumption
<1>5. \A x \in Numbers \ {"INT_MAX"} : Fits(w, x)
  BY <1>2 DEF Fits
<1> QED BY <1>3, <1>4, <1>5

(* A spin button shows a value within its bounds, and sets that value.      *)
LEMMA TurnKeeps ==
    ASSUME GneeInv, Turn
    PROVE  GneeInv'
<1>1. PICK w \in Spins, u \in SpinValues :
        /\ Show(w, Clamp(w, u)) /\ SetXd(w, Clamp(w, u))
        /\ overridden' = overridden \ {w}
  BY DEF Turn
<1> DEFINE v == Clamp(w, u)
<1>2. w \in Names \ {"font", "ranges"} /\ w \in Shown
  BY Apart
<1>3. Fits(w, v) /\ Clamp(w, v) = v
  <2>1. SpinValues \subseteq Numbers \ {"INT_MAX"}
    BY ValuesAssumption
  <2>2. Fits(w, xd[w])
    BY <1>2 DEF GneeInv, Good, Names
  <2>3. Fits(w, v)
    BY <2>2, SpinFits
  <2>4. Clamp(w, v) = v
    BY DEF Clamp
  <2> QED BY <2>3, <2>4
<1> HIDE DEF v
<1>4. SetXd(w, v) /\ Show(w, v)
  BY <1>1 DEF v
<1>5. Good(xd') /\ \A m \in Names : xd'[m] = IF m = w THEN v ELSE xd[m]
  BY <1>2, <1>3, <1>4, OneSetting
<1>6. ShownOK' /\ \A x \in Shown : shown'[x] = IF x = w THEN v ELSE shown[x]
  BY <1>2, <1>4, OneWidget
<1>7. GuiReflects'
  <2>1. GuiReflects
    BY DEF GneeInv
  <2> QED BY <1>1, <1>3, <1>5, <1>6, <2>1, Apart, StillReflects
<1>8. FilesOK' /\ ListsOK'
  BY FilesKept, ListsKept DEF Turn
<1> QED BY <1>5, <1>6, <1>7, <1>8 DEF GneeInv

(* A check box shows what it sets; that of the window positions adds a      *)
(* range as well.                                                           *)
LEMMA ToggleKeeps ==
    ASSUME GneeInv, Toggle
    PROVE  GneeInv'
<1>1. PICK w, v :
        /\ w \in Toggles /\ Show(w, v) /\ SwitchTo(w, v)
        /\ overridden' = overridden \ {w}
  BY DEF Toggle
<1>2. w \in Names \ {"font", "ranges"} /\ w \in Shown
  BY <1>1, Apart
<1>3. Fits(w, v) /\ Clamp(w, v) = v
  <2>1. w \in {"sync", "force-replay", "verbose", "recall-window-position"}
    BY <1>1, TogglesAssumption
  <2> QED BY <2>1 DEF Fits, Clamp, LimitOptions, Thresholded
<1>4. /\ Good(xd')
      /\ \A m \in Names \ {"ranges"} : xd'[m] = IF m = w THEN v ELSE xd[m]
  <2> DEFINE p == Put(xd, w, v)
             x == {<<"delivered-event-range", "21">>}
  <2>1. Good(p) /\ \A m \in Names : p[m] = IF m = w THEN v ELSE xd[m]
    BY <1>2, <1>3, PutIsGood DEF GneeInv
  <2>2. xd' = p \/ xd' = Added(p, x)
    BY <1>1 DEF SwitchTo, Recall, Added, Put
  <2>3. x \subseteq Data /\ IsFiniteSet(x)
    BY ListsAssumption, FS_Singleton DEF RangeTypes, Data
  <2> HIDE DEF p, x
  <2>4. /\ Good(Added(p, x))
        /\ \A m \in Names \ {"ranges"} : Added(p, x)[m] = p[m]
    BY <2>1, <2>3, AddedIsGood
  <2>5. ASSUME NEW y, y = p \/ y = Added(p, x)
        PROVE  Good(y) /\ \A m \in Names \ {"ranges"} : y[m] = p[m]
    BY <2>1, <2>4, <2>5
  <2>6. Good(xd') /\ \A m \in Names \ {"ranges"} : xd'[m] = p[m]
    BY <2>2, <2>5
  <2> QED BY <2>1, <2>6
<1>5. ShownOK' /\ \A x \in Shown : shown'[x] = IF x = w THEN v ELSE shown[x]
  BY <1>1, <1>2, OneWidget
<1>6. GuiReflects'
  <2>1. GuiReflects
    BY DEF GneeInv
  <2> QED BY <1>1, <1>3, <1>4, <1>5, <2>1, Apart, StillReflects
<1>7. FilesOK' /\ ListsOK'
  BY FilesKept, ListsKept DEF Toggle
<1> QED BY <1>4, <1>5, <1>6, <1>7 DEF GneeInv

(* A widget and a setting that are of no spin button and no check box.      *)
LEMMA OthersKeep ==
    ASSUME GneeInv, NEW w \in Shown \ (Spins \cup Toggles), NEW v,
           Show(w, v) \/ UNCHANGED shown,
           NEW n \in Names \ (Spins \cup Toggles \cup {"font", "ranges"}),
           NEW u, Fits(n, u), SetXd(n, u) \/ UNCHANGED xd,
           \A x \in Spins \cup Toggles : x \in overridden => x \in overridden'
    PROVE  Good(xd') /\ ShownOK' /\ GuiReflects'
<1>1. Good(xd') /\ \A m \in Names \ {n} : xd'[m] = xd[m]
  <2>1. CASE UNCHANGED xd
    BY <2>1 DEF GneeInv
  <2>2. CASE SetXd(n, u)
    BY <2>2, OneSetting
  <2> QED BY <2>1, <2>2
<1>2. ShownOK' /\ \A x \in Shown \ {w} : shown'[x] = shown[x]
  <2>1. CASE UNCHANGED shown
    BY <2>1 DEF GneeInv, ShownOK
  <2>2. CASE Show(w, v)
    BY <2>2, OneWidget
  <2> QED BY <2>1, <2>2
<1>3. GuiReflects
  BY DEF GneeInv
<1>4. GuiReflects'
  BY <1>1, <1>2, <1>3, Apart, StillReflects
<1> QED BY <1>1, <1>2, <1>4

(* The widgets that no other setting depends on.                            *)
LEMMA RestApart ==
    /\ {"clients", "feedback", "human-printout", "speed-percent",
        "replay-offset", "time"} \subseteq Shown \ (Spins \cup Toggles)
    /\ {"clients", "feedback", "human-printout", "speed-percent",
        "replay-offset", "time"} \subseteq
         Names \ (Spins \cup Toggles \cup {"font", "ranges"})
    /\ \A v : /\ Fits("human-printout", v) /\ Fits("speed-percent", v)
              /\ Fits("replay-offset", v) /\ Fits("time", v)
    /\ \A v \in {"all", "future"} : Fits("clients", v)
    /\ \A v \in Feedbacks : Fits("feedback", v)
<1>1. {"clients", "feedback", "human-printout", "speed-percent",
       "replay-offset", "time"} \subseteq Shown
  BY DEF Shown, Radios
<1>2. /\ \A v : /\ Fits("human-printout", v) /\ Fits("speed-percent", v)
                /\ Fits("replay-offset", v) /\ Fits("time", v)
      /\ \A v \in {"all", "future"} : Fits("clients", v)
      /\ \A v \in Feedbacks : Fits("feedback", v)
  BY DEF Fits, LimitOptions, Thresholded
<1> QED BY <1>1, <1>2, Apart, NamesHave

(* The radio buttons of the clients and of the feedback,                    *)
LEMMA ChooseKeeps ==
    ASSUME GneeInv, Choose
    PROVE  GneeInv'
<1>1. overridden' = overridden
  BY DEF Choose
<1>2. Good(xd') /\ ShownOK' /\ GuiReflects'
  <2>1. ASSUME NEW v \in {"all", "future"},
               Show("clients", v), SetXd("clients", v)
        PROVE  Good(xd') /\ ShownOK' /\ GuiReflects'
    BY <1>1, <2>1, RestApart, OthersKeep
  <2>2. ASSUME NEW v \in Feedbacks,
               Show("feedback", v), SetXd("feedback", v)
        PROVE  Good(xd') /\ ShownOK' /\ GuiReflects'
    BY <1>1, <2>2, RestApart, OthersKeep
  <2>3. ASSUME NEW v,
               Show("human-printout", v), SetXd("human-printout", "on")
        PROVE  Good(xd') /\ ShownOK' /\ GuiReflects'
    BY <1>1, <2>3, RestApart, OthersKeep
  <2> QED BY <2>1, <2>2, <2>3 DEF Choose, Feedbacks
<1>3. FilesOK' /\ ListsOK'
  BY FilesKept, ListsKept DEF Choose
<1> QED BY <1>2, <1>3 DEF GneeInv

(* a combo box, whose key is set when a recording starts,                   *)
LEMMA PickKeyKeeps ==
    ASSUME GneeInv, PickKey
    PROVE  GneeInv'
<1>1. PICK w, key :
        w \in Combos /\ Show(w, key) /\ xd' = KeyFrom(xd, w, key)
  BY DEF PickKey
<1>2. SetXd(w, key) \/ UNCHANGED xd
  BY <1>1 DEF KeyFrom, SetXd
<1>3. overridden' = overridden
  BY DEF PickKey
<1>4. /\ w \in Shown \ (Spins \cup Toggles)
      /\ w \in Names \ (Spins \cup Toggles \cup {"font", "ranges"})
      /\ Fits(w, key)
  BY <1>1, Apart
<1>5. Good(xd') /\ ShownOK' /\ GuiReflects'
  BY <1>1, <1>2, <1>3, <1>4, OthersKeep
<1>6. FilesOK' /\ ListsOK'
  BY FilesKept, ListsKept DEF PickKey
<1> QED BY <1>5, <1>6 DEF GneeInv

(* the speed,                                                               *)
LEMMA TurnSpeedKeeps ==
    ASSUME GneeInv, TurnSpeed
    PROVE  GneeInv'
<1> DEFINE n == "speed-percent"
<1>1. overridden' = overridden \ {n}
  BY DEF TurnSpeed
<1>2. /\ n \in Shown \ (Spins \cup Toggles)
      /\ n \in Names \ (Spins \cup Toggles \cup {"font", "ranges"})
      /\ \A v : Fits(n, v)
  BY RestApart
<1>3. PICK v, u : SetXd(n, u) /\ (Show(n, v) \/ UNCHANGED shown)
  BY DEF TurnSpeed
<1>4. \A x \in Spins \cup Toggles : x \in overridden => x \in overridden'
  BY <1>1, <1>2
<1> HIDE DEF n
<1>5. Good(xd') /\ ShownOK' /\ GuiReflects'
  BY <1>2, <1>3, <1>4, OthersKeep
<1>6. FilesOK' /\ ListsOK'
  BY FilesKept, ListsKept DEF TurnSpeed
<1> QED BY <1>5, <1>6 DEF GneeInv

(* the offset,                                                              *)
LEMMA TurnOffsetKeeps ==
    ASSUME GneeInv, TurnOffset
    PROVE  GneeInv'
<1> DEFINE n == "replay-offset"
<1>1. overridden' = overridden
  BY DEF TurnOffset
<1>2. /\ n \in Shown \ (Spins \cup Toggles)
      /\ n \in Names \ (Spins \cup Toggles \cup {"font", "ranges"})
      /\ \A v : Fits(n, v)
  BY RestApart
<1>3. PICK v, u : /\ SetXd(n, u) \/ UNCHANGED xd
                  /\ Show(n, v) \/ UNCHANGED shown
  BY DEF TurnOffset
<1> HIDE DEF n
<1>4. Good(xd') /\ ShownOK' /\ GuiReflects'
  BY <1>1, <1>2, <1>3, OthersKeep
<1>5. FilesOK' /\ ListsOK'
  BY FilesKept, ListsKept DEF TurnOffset
<1> QED BY <1>4, <1>5 DEF GneeInv

(* and the delay before a session.                                          *)
LEMMA TurnDelayKeeps ==
    ASSUME GneeInv, TurnDelay
    PROVE  GneeInv'
<1> DEFINE n == "time"
<1>1. overridden' = overridden
  BY DEF TurnDelay
<1>2. /\ n \in Shown \ (Spins \cup Toggles)
      /\ n \in Names \ (Spins \cup Toggles \cup {"font", "ranges"})
      /\ \A v : Fits(n, v)
  BY RestApart
<1>3. PICK v, u : /\ SetXd(n, u) \/ UNCHANGED xd
                  /\ Show(n, v) \/ UNCHANGED shown
  BY DEF TurnDelay
<1> HIDE DEF n
<1>4. Good(xd') /\ ShownOK' /\ GuiReflects'
  BY <1>1, <1>2, <1>3, OthersKeep
<1>5. FilesOK' /\ ListsOK'
  BY FilesKept, ListsKept DEF TurnDelay
<1> QED BY <1>4, <1>5 DEF GneeInv

(* What a row of the lists does to the settings.                            *)
LEMMA MoveKeeps ==
    ASSUME GneeInv, NEW x \in Items \cup Predefined, NEW right \in BOOLEAN,
           NEW include \in BOOLEAN, Move(x, right, include),
           UNCHANGED <<widgets, overridden>>
    PROVE  Good(xd') /\ ShownOK' /\ GuiReflects' /\ ListsOK'
<1>1. Good(xd') /\ \A m \in Names \ {"ranges"} : xd'[m] = xd[m]
  <2>1. CASE x \in Predefined
    BY <2>1 DEF Move, GneeInv
  <2>2. CASE x \notin Predefined
    <3>1. x \in Data
      BY <2>2, ItemsAssumption DEF Data
    <3> DEFINE k == Known({x})
               o == {x}
    <3>2. /\ k \subseteq Data /\ IsFiniteSet(k)
          /\ o \subseteq Data /\ IsFiniteSet(o)
      <4>1. k = {} \/ k = {x}
        BY DEF Known
      <4>2. IsFiniteSet({}) /\ IsFiniteSet({x})
        BY FS_EmptySet, FS_Singleton
      <4> QED BY <3>1, <4>1, <4>2
    <3> HIDE DEF k, o
    <3>3. Good(xd)
      BY DEF GneeInv
    <3>4. /\ Good(Added(xd, k)) /\ Good(Removed(xd, o))
          /\ \A m \in Names \ {"ranges"} : /\ Added(xd, k)[m] = xd[m]
                                           /\ Removed(xd, o)[m] = xd[m]
      BY <3>2, <3>3, AddedIsGood
    <3>5. xd' = Added(xd, k) \/ xd' = Removed(xd, o)
      BY <2>2 DEF Move, k, o
    <3>6. ASSUME NEW y, y = Added(xd, k) \/ y = Removed(xd, o)
          PROVE  Good(y) /\ \A m \in Names \ {"ranges"} : y[m] = xd[m]
      BY <3>4, <3>6
    <3> QED BY <3>5, <3>6
  <2> QED BY <2>1, <2>2
<1>2. ShownOK' /\ shown' = shown /\ overridden' = overridden
  BY DEF GneeInv, ShownOK, widgets
<1>3. ListsOK'
  BY DEF GneeInv, ListsOK, Move
<1>4. GuiReflects'
  <2>1. GuiReflects
    BY DEF GneeInv
  <2> QED BY <1>1, <1>2, <2>1, Apart, StillReflects
<1> QED BY <1>1, <1>2, <1>3, <1>4

(* Rows are moved by a double click or by a button.                         *)
LEMMA RowsKeep ==
    ASSUME GneeInv, ActivateRow \/ ClickButton
    PROVE  GneeInv'
<1>1. PICK x \in Items \cup Predefined, right \in BOOLEAN,
           include \in BOOLEAN : Move(x, right, include)
  BY DEF ActivateRow, ClickButton, GneeInv, ListsOK
<1>2. UNCHANGED <<widgets, overridden>> /\ KeepFiles
  BY DEF ActivateRow, ClickButton
<1>3. Good(xd') /\ ShownOK' /\ GuiReflects' /\ ListsOK'
  BY <1>1, <1>2, MoveKeeps
<1>4. FilesOK'
  BY <1>2, FilesKept
<1> QED BY <1>3, <1>4 DEF GneeInv

(* The window is set from settings s that are good: what it reflects shows  *)
(* what is set, and what it does not reflect stays as it was.               *)
LEMMA ReflectKeeps ==
    ASSUME GneeInv, NEW s, Good(s), NEW before,
           before \subseteq Items \cup Predefined, Reflect(s, before)
    PROVE  /\ Good(xd') /\ ShownOK' /\ ListsOK'
           /\ xd'["font"] = s["font"]
           /\ xd'["distribute"] = s["distribute"]
           /\ \A w \in Reflected : shown'[w] = Clamp(w, xd'[w])
           /\ \A w \in (Spins \cup Toggles) \ Reflected :
                shown'[w] = shown[w] /\ xd'[w] = s[w]
<1> DEFINE e == Echo(s)
           right == Begins(s["ranges"], Items \ before)
<1>1. /\ s = [n \in Names |-> s[n]] /\ DOMAIN s = Names
      /\ \A n \in Names : Fits(n, s[n])
      /\ s["ranges"] \subseteq Data /\ IsFiniteSet(s["ranges"])
      /\ s["font"] \in {None, "terminus"}
  <2>1. s = [n \in Names |-> s[n]]
    BY DEF Good, Names
  <2>2. DOMAIN s = Names
    BY <2>1
  <2> QED BY <2>1, <2>2 DEF Good, Names
<1>2. Reflected \subseteq Spins \cup Toggles
  BY DEF Reflected
<1>3. \A w \in Reflected : Refresh(s)[w] = Clamp(w, s[w])
  BY <1>2, Apart DEF Refresh
<1>4. \A w \in Shown \ (Reflected \cup {"time"}) : Refresh(s)[w] = shown[w]
  BY DEF Refresh
<1>5. /\ e = [n \in Names |-> e[n]]
      /\ \A n \in Names :
           \/ n \in Reflected /\ e[n] \in {s[n], Clamp(n, s[n])}
           \/ n = "time"
           \/ n \notin Reflected /\ e[n] = s[n]
  BY <1>1, <1>3 DEF Echo
<1> HIDE DEF e
<1>6. \A n \in Names : Fits(n, e[n])
  <2>1. SUFFICES ASSUME NEW n \in Names PROVE Fits(n, e[n])
    OBVIOUS
  <2>2. Fits(n, s[n])
    BY <1>1
  <2>3. CASE n = "time"
    BY <2>3, RestApart
  <2>4. CASE n \in Reflected \cap Spins
    <3>1. Fits(n, Clamp(n, s[n]))
      BY <2>2, <2>4, SpinFits
    <3> QED BY <1>5, <2>2, <3>1, <2>4, Apart, RestApart
  <2>5. CASE n \in Toggles
    <3>1. n \in {"sync", "force-replay", "verbose", "recall-window-position"}
      BY <2>5, TogglesAssumption
    <3> QED BY <3>1 DEF Fits, LimitOptions, Thresholded
  <2>6. CASE n \notin Reflected /\ n # "time"
    BY <1>5, <2>2, <2>6
  <2> QED BY <1>2, <2>3, <2>4, <2>5, <2>6
<1>7. {"font", "ranges", "distribute"} \cap (Reflected \cup {"time"}) = {}
      /\ {"font", "ranges", "distribute"} \subseteq Names
  BY <1>2, Apart, NamesHave
<1>8. /\ e["font"] = s["font"] /\ e["ranges"] = s["ranges"]
      /\ e["distribute"] = s["distribute"]
  BY <1>5, <1>7
<1>9. Good(e)
  BY <1>1, <1>5, <1>6, <1>8 DEF Good, Names
<1>10. right \subseteq Items /\ right \subseteq Data /\ IsFiniteSet(right)
  <2>1. right \subseteq Items
    BY DEF Begins
  <2>2. Items \subseteq Data /\ IsFiniteSet(Items)
    BY ItemsAssumption DEF Data
  <2> HIDE DEF right
  <2> QED BY <2>1, <2>2, FS_Subset
<1>11. /\ shown' = Refresh(s) /\ xd' = Added(e, right)
       /\ included' = before \cup right
  BY DEF Reflect, e
<1> HIDE DEF right
<1>12. /\ Good(Added(e, right))
       /\ \A m \in Names \ {"ranges"} : Added(e, right)[m] = e[m]
  BY <1>9, <1>10, AddedIsGood
<1>13. ASSUME NEW y, y = Added(e, right)
       PROVE  Good(y) /\ \A m \in Names \ {"ranges"} : y[m] = e[m]
  BY <1>12, <1>13
<1>14. Good(xd') /\ \A m \in Names \ {"ranges"} : xd'[m] = e[m]
  BY <1>11, <1>13
<1>15. ListsOK'
  BY <1>10, <1>11 DEF ListsOK
<1>16. ShownOK'
  BY <1>11 DEF ShownOK, Refresh
<1>17. \A w \in Reflected : shown'[w] = Clamp(w, xd'[w])
  <2>1. SUFFICES ASSUME NEW w \in Reflected
                 PROVE  shown'[w] = Clamp(w, xd'[w])
    OBVIOUS
  <2>2. w \in Names \ {"ranges", "time"}
    BY <1>2, Apart
  <2>3. e[w] \in {s[w], Clamp(w, s[w])}
    BY <1>5, <2>2
  <2>4. xd'[w] = e[w] /\ shown'[w] = Clamp(w, s[w])
    BY <1>3, <1>11, <1>14, <2>2
  <2> QED BY <2>3, <2>4 DEF Clamp
<1>18. ASSUME NEW w \in (Spins \cup Toggles) \ Reflected
       PROVE  shown'[w] = shown[w] /\ xd'[w] = s[w]
  <2>1. w \in Names \ {"ranges", "time"} /\ w \in Shown
    BY Apart
  <2>2. e[w] = s[w]
    BY <1>5, <2>1
  <2> QED BY <1>4, <1>11, <1>14, <2>1, <2>2
<1>19. xd'["font"] = s["font"] /\ xd'["distribute"] = s["distribute"]
  BY <1>7, <1>8, <1>14
<1> QED BY <1>14, <1>15, <1>16, <1>17, <1>18, <1>19

(* Files are only written, and by gnee.                                     *)
LEMMA SaveKeeps ==
    ASSUME GneeInv, SaveProject \/ SaveAgain
    PROVE  GneeInv'
<1>1. UNCHANGED <<xd, widgets, lists, session, history>>
      /\ project' = ProjectLines(xd, open)
  BY DEF SaveProject, SaveAgain
<1>2. AnyFile(ProjectLines(xd, open))
  BY OwnFiles DEF GneeInv, AnyFile
<1> QED BY <1>1, <1>2 DEF GneeInv, ShownOK, ListsOK, FilesOK, AnyFile,
           GuiReflects, widgets, lists, history

(* A file that is not there, and the end of gnee.                           *)
LEMMA QuitKeeps ==
    ASSUME GneeInv, OpenMissing \/ Quit
    PROVE  GneeInv'
<1>1. UNCHANGED <<xd, widgets, lists, files, history>>
  BY DEF OpenMissing, Quit
<1> QED BY <1>1 DEF GneeInv, ShownOK, ListsOK, FilesOK, AnyFile,
           GuiReflects, widgets, lists, files, history

(* What a project leaves of the settings, before the window is set.         *)
LEMMA ProjectRead ==
    ASSUME GneeInv
    PROVE  LET s == [xd EXCEPT !["ranges"] = {}]
               r == Reading(s, project, {"blank", "settings"})
           IN  /\ Good(r.set)
               /\ r.set["font"] = xd["font"]
               /\ Undistributing(project) =>
                    r.set["distribute"] = xd["distribute"]
               /\ project \in Seq(Readable) =>
                    r.class \in {"blank", "settings"}
<1> DEFINE s == Put(xd, "ranges", {})
           r == Reading(s, project, {"blank", "settings"})
<1>1. s = [xd EXCEPT !["ranges"] = {}]
  BY DEF Put
<1>2. Good(xd) /\ {} \subseteq Data /\ IsFiniteSet({})
  BY FS_EmptySet DEF GneeInv
<1>3. Good(s) /\ \A m \in Names \ {"ranges"} : s[m] = xd[m]
  BY <1>2, RangesAreGood
<1>4. s["font"] = xd["font"] /\ s["distribute"] = xd["distribute"]
  BY <1>3, NamesHave
<1>5. Len(project) \in Nat
  BY FileFacts DEF GneeInv, FilesOK
<1> HIDE DEF s
<1>6. /\ Good(r.set) /\ r.set["font"] = s["font"]
      /\ Undistributing(project) => r.set["distribute"] = s["distribute"]
  BY <1>3, <1>5, ReadingGood
<1>7. project \in Seq(Readable) => r.class \in {"blank", "settings"}
  BY ReadingOwn
<1> QED BY <1>1, <1>4, <1>6, <1>7

(* A project is read into the settings, and then the window set from them.  *)
LEMMA OpenProjectKeeps ==
    ASSUME GneeInv, OpenProject
    PROVE  GneeInv'
<1> DEFINE r == Reading([xd EXCEPT !["ranges"] = {}], project,
                        {"blank", "settings"})
           s == r.set
<1>1. Good(s)
  BY ProjectRead
<1>2. FilesOK'
  BY DEF OpenProject, GneeInv, FilesOK, AnyFile
<1>3. CASE r.class = "crash" \/ ReflectCrashes(s)
  <2>1. UNCHANGED <<xd, shown, included, history>>
    BY <1>3 DEF OpenProject, widgets
  <2> QED BY <1>2, <2>1 DEF GneeInv, ShownOK, ListsOK, GuiReflects, history
<1>4. CASE ~(r.class = "crash" \/ ReflectCrashes(s))
  <2>1. /\ Reflect(s, {})
        /\ overridden' = (overridden \cup Changed(s)) \ Reflected
    BY <1>4 DEF OpenProject
  <2> HIDE DEF r, s
  <2>2. /\ Good(xd') /\ ShownOK' /\ ListsOK'
        /\ \A w \in Reflected : shown'[w] = Clamp(w, xd'[w])
        /\ \A w \in (Spins \cup Toggles) \ Reflected :
             shown'[w] = shown[w] /\ xd'[w] = s[w]
    BY <1>1, <2>1, ReflectKeeps
  <2>3. ASSUME NEW w \in (Spins \cup Toggles) \ Reflected,
               w \notin overridden'
        PROVE  xd[w] = s[w] /\ w \notin overridden
    BY <2>1, <2>3 DEF Changed
  <2>4. GuiReflects'
    <3>1. SUFFICES ASSUME NEW w \in Spins \cup Toggles
                   PROVE  w \in overridden' \/ shown'[w] = Clamp(w, xd'[w])
      BY DEF GuiReflects
    <3>2. CASE w \in Reflected
      BY <2>2, <3>2
    <3>3. CASE w \notin Reflected
      <4>1. w \notin overridden => shown[w] = Clamp(w, xd[w])
        BY DEF GneeInv, GuiReflects
      <4> QED BY <2>2, <2>3, <3>3, <4>1
    <3> QED BY <3>2, <3>3
  <2> QED BY <1>2, <2>2, <2>4 DEF GneeInv
<1> QED BY <1>3, <1>4

(* A session file is chosen, which tells the window nothing.                *)
LEMMA OpenSessionKeeps ==
    ASSUME GneeInv, OpenSession
    PROVE  GneeInv'
<1>1. FilesOK'
  BY DEF OpenSession, GneeInv, FilesOK, AnyFile, files
<1>2. CASE ReflectCrashes(xd)
  <2>1. UNCHANGED <<xd, shown, included, overridden>>
    BY <1>2 DEF OpenSession, widgets
  <2> QED BY <1>1, <2>1 DEF GneeInv, ShownOK, ListsOK, GuiReflects
<1>3. CASE ~ReflectCrashes(xd)
  <2>1. Reflect(xd, included) /\ overridden' = overridden \ Reflected
    BY <1>3 DEF OpenSession
  <2>2. /\ Good(xd') /\ ShownOK' /\ ListsOK'
        /\ \A w \in Reflected : shown'[w] = Clamp(w, xd'[w])
        /\ \A w \in (Spins \cup Toggles) \ Reflected :
             shown'[w] = shown[w] /\ xd'[w] = xd[w]
    BY <2>1, ReflectKeeps DEF GneeInv, ListsOK
  <2>3. GuiReflects'
    BY <2>1, <2>2 DEF GneeInv, GuiReflects, Clamp
  <2> QED BY <1>1, <2>2, <2>3 DEF GneeInv
<1> QED BY <1>2, <1>3

-----------------------------------------------------------------------------

(* A recording that starts: the events of the list on the right are among   *)
(* its ranges, and the keys that are shown among its settings.              *)
LEMMA RecordSets ==
    ASSUME GneeInv, xd' = GetGrab(Recordables(xd))
    PROVE  /\ Good(xd')
           /\ \A m \in Names \ (Combos \cup {"ranges"}) : xd'[m] = xd[m]
           /\ \A w \in Combos : shown[w] # "None" => xd'[w] = shown[w]
           /\ \A i \in included \cap Items :
                i[1] = "device-event-range" => i \in xd'["ranges"]
<1> DEFINE events == {i \in included \cap Items :
                  i[1] \in {"device-event-range", "delivered-event-range"}}
           s == Added(xd, events)
           t == GetGrab(s)
<1>1. events \subseteq Data /\ IsFiniteSet(events)
  <2>1. events \subseteq Items
    OBVIOUS
  <2>2. Items \subseteq Data /\ IsFiniteSet(Items)
    BY ItemsAssumption DEF Data
  <2> HIDE DEF events
  <2> QED BY <2>1, <2>2, FS_Subset
<1>2. /\ Good(s) /\ s["ranges"] = xd["ranges"] \cup events
      /\ \A m \in Names \ {"ranges"} : s[m] = xd[m]
  <2> HIDE DEF events
  <2> QED BY <1>1, AddedIsGood DEF GneeInv
<1>3. xd' = t
  BY DEF Recordables
<1>4. \A i \in included \cap Items :
        i[1] = "device-event-range" => i \in s["ranges"]
  BY <1>2
<1> HIDE DEF s
<1>5. s = [n \in Names |-> s[n]] /\ DOMAIN s = Names
  <2>1. s = [n \in Names |-> s[n]]
    BY <1>2 DEF Good, Names
  <2> QED BY <2>1
<1>6. /\ t = [n \in Names |-> t[n]]
      /\ \A n \in Names : t[n] = IF n \in Combos /\ shown[n] # "None"
                                 THEN shown[n] ELSE s[n]
  BY <1>5 DEF GetGrab
<1> HIDE DEF t
<1>7. {"ranges", "font"} \subseteq Names \ Combos
  BY Apart, NamesHave
<1>8. \A n \in Names : Fits(n, t[n])
  <2>1. \A n \in Names : Fits(n, s[n])
    BY <1>2 DEF Good, Names
  <2> QED BY <1>6, <2>1, Apart
<1>9. t["ranges"] = s["ranges"] /\ t["font"] = s["font"]
  BY <1>6, <1>7
<1>10. Good(t)
  BY <1>2, <1>6, <1>8, <1>9 DEF Good, Names
<1>11. \A w \in Combos : shown[w] # "None" => t[w] = shown[w]
  BY <1>6, Apart
<1>12. \A m \in Names \ (Combos \cup {"ranges"}) : t[m] = xd[m]
  BY <1>2, <1>6
<1>13. \A i \in included \cap Items :
        i[1] = "device-event-range" => i \in t["ranges"]
  BY <1>4, <1>9
<1>14. ASSUME NEW y, y = t
       PROVE  /\ Good(y)
              /\ \A m \in Names \ (Combos \cup {"ranges"}) : y[m] = xd[m]
              /\ \A w \in Combos : shown[w] # "None" => y[w] = shown[w]
              /\ \A i \in included \cap Items :
                   i[1] = "device-event-range" => i \in y["ranges"]
  BY <1>10, <1>11, <1>12, <1>13, <1>14
<1> QED BY <1>3, <1>14

(* A recording writes its header from what is set by then.                  *)
LEMMA RecordKeeps ==
    ASSUME GneeInv, Record
    PROVE  GneeInv'
<1>1. xd' = GetGrab(Recordables(xd))
  BY DEF Record
<1>2. Good(xd') /\ \A m \in Names \ (Combos \cup {"ranges"}) : xd'[m] = xd[m]
  BY <1>1, RecordSets
<1>3. UNCHANGED <<widgets, lists, project, history>>
  BY DEF Record
<1>4. session' = HeaderLines(xd') \/ session' = session
  BY DEF Record
<1>5. ASSUME NEW y, Good(y) PROVE AnyFile(HeaderLines(y))
  BY <1>5, OwnFiles DEF AnyFile
<1>6. FilesOK'
  BY <1>2, <1>3, <1>4, <1>5 DEF GneeInv, FilesOK, AnyFile
<1>7. GuiReflects'
  <2>1. GuiReflects
    BY DEF GneeInv
  <2>2. \A w \in Spins \cup Toggles : xd'[w] = xd[w]
    BY <1>2, Apart
  <2> QED BY <1>3, <2>1, <2>2, StillReflects DEF widgets, history
<1> QED BY <1>2, <1>3, <1>6, <1>7 DEF GneeInv, ShownOK, ListsOK, widgets,
   lists

(* The header of a session that is replayed.                                *)
LEMMA SessionRead ==
    ASSUME GneeInv
    PROVE  LET r == Reading(xd, session, {"blank", "settings", "info"})
           IN  /\ Good(r.set)
               /\ r.set["font"] = xd["font"]
               /\ Undistributing(session) =>
                    r.set["distribute"] = xd["distribute"]
<1>1. Len(session) \in Nat /\ Good(xd)
  BY FileFacts DEF GneeInv, FilesOK
<1> QED BY <1>1, ReadingGood

(* A replay reads the header into the settings, and the widgets whose       *)
(* settings it overrides are no longer promised to show them.               *)
LEMMA ReplayKeeps ==
    ASSUME GneeInv, Replay
    PROVE  GneeInv'
<1> DEFINE s == Reading(xd, session, {"blank", "settings", "info"}).set
<1>1. Good(s)
  BY SessionRead
<1>2. xd' = s /\ overridden' = overridden \cup Changed(s)
      /\ UNCHANGED <<widgets, lists, files, lost>>
  BY DEF Replay
<1> HIDE DEF s
<1>3. Good(xd')
  BY <1>1, <1>2
<1>4. GuiReflects'
  <2>1. GuiReflects
    BY DEF GneeInv
  <2>2. \A w \in Spins \cup Toggles : w \in overridden' \/ xd'[w] = xd[w]
    BY <1>2 DEF Changed
  <2> QED BY <1>2, <2>1, <2>2, StillReflects DEF widgets
<1> QED BY <1>2, <1>3, <1>4 DEF GneeInv, ShownOK, ListsOK, FilesOK, AnyFile,
           widgets, lists, files

(* The font of the message about the keys is the one thing a session sets   *)
(* while it runs.                                                           *)
LEMMA KeyMessageKeeps ==
    ASSUME GneeInv, KeyMessage
    PROVE  /\ GneeInv'
           /\ \A m \in Names \ {"font"} : xd'[m] = xd[m]
<1> DEFINE t == Put(xd, "font", "terminus")
<1>1. xd = [m \in Names |-> xd[m]] /\ Good(xd)
      /\ {"font", "ranges"} \subseteq Names
  BY NamesHave DEF GneeInv, Good, Names
<1>2. /\ t = [m \in Names |-> t[m]]
      /\ \A m \in Names : t[m] = IF m = "font" THEN "terminus" ELSE xd[m]
  BY <1>1 DEF Put
<1>3. xd' = t /\ UNCHANGED <<widgets, lists, files, history>>
  BY DEF KeyMessage, SetXd, Put
<1> HIDE DEF t
<1>4. \A m \in Names : Fits(m, t[m])
  <2>1. Fits("font", "terminus")
    BY DEF Fits, LimitOptions, Thresholded
  <2> QED BY <1>1, <1>2, <2>1 DEF Good, Names
<1>5. t["ranges"] = xd["ranges"] /\ t["font"] = "terminus"
  BY <1>1, <1>2
<1>6. Good(t)
  BY <1>1, <1>2, <1>4, <1>5 DEF Good, Names
<1>7. Good(xd') /\ \A m \in Names \ {"font"} : xd'[m] = xd[m]
  BY <1>2, <1>3, <1>6
<1>8. GuiReflects'
  <2>1. GuiReflects
    BY DEF GneeInv
  <2>2. \A w \in Spins \cup Toggles : xd'[w] = xd[w]
    BY <1>7, Apart
  <2> QED BY <1>3, <2>1, <2>2, StillReflects DEF widgets, history
<1> QED BY <1>3, <1>7, <1>8 DEF GneeInv, ShownOK, ListsOK, FilesOK, AnyFile,
           widgets, lists, files

(* A session that ends forgets the keys, or renews xd.                      *)
LEMMA EndSessionKeeps ==
    ASSUME GneeInv, EndSession
    PROVE  /\ GneeInv'
           /\ \A m \in Names \ (Combos \cup {"ranges"}) : xd'[m] = xd[m]
<1> DEFINE t == [w \in DOMAIN xd |-> IF w \in Combos THEN "default"
                                     ELSE IF w = "ranges" THEN {}
                                     ELSE xd[w]]
<1>1. xd = [m \in Names |-> xd[m]] /\ DOMAIN xd = Names /\ Good(xd)
      /\ {"font", "ranges"} \subseteq Names \ Combos
  <2>1. xd = [m \in Names |-> xd[m]]
    BY DEF GneeInv, Good, Names
  <2>2. DOMAIN xd = Names
    BY <2>1
  <2> QED BY <2>1, <2>2, NamesHave, Apart DEF GneeInv
<1>2. /\ t = [m \in Names |-> t[m]]
      /\ \A m \in Names : t[m] = IF m \in Combos THEN "default"
                                 ELSE IF m = "ranges" THEN {}
                                 ELSE xd[m]
  BY <1>1
<1>3. xd' \in {t, xd} /\ UNCHANGED <<widgets, lists, files, history>>
  BY DEF EndSession
<1> HIDE DEF t
<1>4. \A m \in Names : Fits(m, t[m])
  <2>1. Fits("ranges", {})
    BY DEF Fits, LimitOptions, Thresholded
  <2> QED BY <1>1, <1>2, <2>1, Apart DEF Good, Names
<1>5. t["ranges"] = {} /\ t["font"] = xd["font"]
  BY <1>1, <1>2
<1>6. Good(t)
  <2>1. IsFiniteSet({})
    BY FS_EmptySet
  <2> QED BY <1>1, <1>2, <1>4, <1>5, <2>1 DEF Good, Names
<1>7. Good(xd') /\ \A m \in Names \ (Combos \cup {"ranges"}) : xd'[m] = xd[m]
  BY <1>1, <1>2, <1>3, <1>6
<1>8. GuiReflects'
  <2>1. GuiReflects
    BY DEF GneeInv
  <2>2. \A w \in Spins \cup Toggles : xd'[w] = xd[w]
    BY <1>7, Apart
  <2> QED BY <1>3, <2>1, <2>2, StillReflects DEF widgets, history
<1> QED BY <1>3, <1>7, <1>8 DEF GneeInv, ShownOK, ListsOK, FilesOK, AnyFile,
           widgets, lists, files

(* Every act keeps it.                                                      *)
LEMMA GneeKeeps == GneeInv /\ [Next]_vars => GneeInv'
<1>1. ASSUME GneeInv, Next PROVE GneeInv'
  BY <1>1, TurnKeeps, ToggleKeeps, ChooseKeeps, PickKeyKeeps,
     TurnSpeedKeeps, TurnOffsetKeeps, TurnDelayKeeps, RowsKeep, SaveKeeps,
     QuitKeeps, OpenProjectKeeps, OpenSessionKeeps, RecordKeeps, ReplayKeeps,
     KeyMessageKeeps, EndSessionKeeps
     DEF Next, Widgets, Menus, Sessions
<1>2. ASSUME GneeInv, UNCHANGED vars PROVE GneeInv'
  <2>1. UNCHANGED <<xd, shown, included, session, project, overridden>>
    BY <1>2 DEF vars, widgets, lists, files, history
  <2> QED BY <1>2, <2>1 DEF GneeInv, ShownOK, ListsOK, FilesOK, AnyFile,
                            GuiReflects
<1> QED BY <1>1, <1>2

(* So it holds between any two acts of the user.                            *)
LEMMA GneeHolds == Spec => []GneeInv
<1>1. Init => GneeInv
  BY GneeStart
<1>2. GneeInv /\ [Next]_vars => GneeInv'
  BY GneeKeeps
<1> QED BY <1>1, <1>2, PTL DEF Spec

(* The window shows what is set: a limit, a threshold or a check box that   *)
(* no session file has changed since the window was last set shows the      *)
(* value the next session uses (Turn, Toggle, OpenProject, OpenSession).    *)
THEOREM WindowReflects == Spec => []GuiReflects
<1>1. GneeInv => GuiReflects
  BY DEF GneeInv
<1> QED BY <1>1, GneeHolds, PTL

(* While gnee records nothing but the font and the end of the session       *)
(* changes xd: every other act waits until the session is over.             *)
LEMMA RecordingStarts ==
    ASSUME Next, phase' = "recording"
    PROVE  \/ phase # "recording" /\ Record
           \/ phase = "recording" /\ KeyMessage
  BY DEF Next, Widgets, Menus, Sessions, Act, KeepFiles, Turn, Toggle, Choose,
         PickKey, TurnSpeed, TurnOffset, TurnDelay, ActivateRow, ClickButton,
         SaveProject, OpenProject, OpenMissing, SaveAgain, OpenSession, Quit,
         Record, Replay, KeyMessage, EndSession

(* A recording starts with what is shown, and nothing takes that away.      *)
LEMMA RecordingKeeps ==
    GneeInv /\ EventsRecorded /\ KeysGrabbed /\ [Next]_vars =>
      EventsRecorded' /\ KeysGrabbed'
<1> SUFFICES ASSUME GneeInv, EventsRecorded, KeysGrabbed, [Next]_vars,
                    phase' = "recording"
             PROVE  EventsRecorded' /\ KeysGrabbed'
  BY DEF EventsRecorded, KeysGrabbed
<1>1. CASE UNCHANGED vars
  BY <1>1 DEF EventsRecorded, KeysGrabbed, vars, widgets, lists
<1>2. CASE Record
  <2>1. xd' = GetGrab(Recordables(xd)) /\ UNCHANGED <<widgets, lists>>
    BY <1>2 DEF Record
  <2>2. /\ \A w \in Combos : shown[w] # "None" => xd'[w] = shown[w]
        /\ \A i \in included \cap Items :
             i[1] = "device-event-range" => i \in xd'["ranges"]
    BY <2>1, RecordSets
  <2> QED BY <2>1, <2>2 DEF EventsRecorded, KeysGrabbed, widgets, lists
<1>3. CASE phase = "recording" /\ KeyMessage
  <2>1. /\ \A m \in Names \ {"font"} : xd'[m] = xd[m]
        /\ UNCHANGED <<widgets, lists>>
    BY <1>3, KeyMessageKeeps DEF KeyMessage
  <2>2. xd'["ranges"] = xd["ranges"] /\ \A w \in Combos : xd'[w] = xd[w]
    BY <2>1, Apart, NamesHave
  <2> QED BY <1>3, <2>1, <2>2
          DEF EventsRecorded, KeysGrabbed, widgets, lists
<1>4. CASE Next
  BY <1>2, <1>3, <1>4, RecordingStarts
<1> QED BY <1>1, <1>4

(* A recording records every device event of the list on the right, however *)
(* it got there, in a second recording too, for which xd was renewed        *)
(* (gnee_recordable2xd).                                                    *)
THEOREM ListIsRecorded == Spec => []EventsRecorded
<1>1. Init => EventsRecorded /\ KeysGrabbed
  BY DEF Init, EventsRecorded, KeysGrabbed
<1> QED BY <1>1, GneeHolds, RecordingKeeps, PTL DEF Spec

(* A recording grabs every key a combo box shows, though xd forgets them    *)
(* when a session ends well (gnee_get_grab).                                *)
THEOREM ShownKeysGrabbed == Spec => []KeysGrabbed
<1>1. Init => EventsRecorded /\ KeysGrabbed
  BY DEF Init, EventsRecorded, KeysGrabbed
<1> QED BY <1>1, GneeHolds, RecordingKeeps, PTL DEF Spec

-----------------------------------------------------------------------------

(* No file of another hand adds a display: the line of the displays is one  *)
(* no reader knows.                                                         *)
NoneDistributes == \A f \in Foreign : Undistributing(f)

(* Until a session has opened the data display, gnee writes only lines it   *)
(* can read: no font is loaded, no display added, no project named.         *)
LostInv ==
    /\ phase \in {"recording", "replaying"} => open
    /\ xd["font"] # None => open
    /\ xd["distribute"] = {}
    /\ project \in HandWritten \/ open \/ project \in Seq(Readable)
    /\ LostAfterSession

(* A file gnee has written does not add a display either.                   *)
LEMMA OwnUndistributing ==
    ASSUME NoneDistributes, NEW f, AnyFile(f)
    PROVE  Undistributing(f)
<1>1. CASE f \in Foreign
  BY <1>1 DEF NoneDistributes
<1>2. CASE f \in Seq(Written)
  <2>1. \A l \in Written : l.option # "distribute"
    <3>1. ASSUME NEW l, NEW n, NEW v, l = Line(n, v), n # "distribute"
          PROVE  l.option # "distribute"
      BY <3>1 DEF Line
    <3>2. \A n \in LimitOptions \cup Thresholded \cup Feedbacks \cup Switches
                     \cup RangeTypes \cup {"all-clients", "future-clients"} :
            n # "distribute"
      BY DEF LimitOptions, Thresholded, Feedbacks, Switches, RangeTypes
    <3>3. ASSUME NEW l \in Readable PROVE l.option # "distribute"
      <4>1. CASE l = Blank
        BY <4>1 DEF Blank, Line
      <4>2. ASSUME NEW n \in LimitOptions, NEW v, l = Line(n, v)
            PROVE  l.option # "distribute"
        BY <3>1, <3>2, <4>2
      <4>3. ASSUME NEW n \in Thresholded, NEW v, l = Line(n, v)
            PROVE  l.option # "distribute"
        BY <3>1, <3>2, <4>3
      <4>4. ASSUME NEW n \in Feedbacks \cup Switches, l = Line(n, None)
            PROVE  l.option # "distribute"
        BY <3>1, <3>2, <4>4
      <4>5. ASSUME NEW v, l = ClientsLine(v) PROVE l.option # "distribute"
        BY <4>5 DEF ClientsLine, Line
      <4>6. ASSUME NEW x \in Data, l = RangeLine(x)
            PROVE  l.option # "distribute"
        <5>1. x[1] \in RangeTypes
          BY DEF Data
        <5> QED BY <3>1, <3>2, <4>6, <5>1 DEF RangeLine
      <4> QED BY <4>1, <4>2, <4>3, <4>4, <4>5, <4>6 DEF Readable
    <3>4. /\ Displayed.option # "distribute"
          /\ Line("terminus", None).option # "distribute"
          /\ Line("ProjectName", None).option # "distribute"
      BY DEF Displayed, Line
    <3> QED BY <3>3, <3>4 DEF Written
  <2>2. \A i \in 1 .. Len(f) : f[i] \in Written
    BY <1>2, ElementOfSeq
  <2> QED BY <2>1, <2>2 DEF Undistributing
<1> QED BY <1>1, <1>2 DEF AnyFile

(* What an act does to what LostInv speaks of.                              *)
LEMMA SameLoss ==
    ASSUME LostInv, UNCHANGED <<open, project, lost>>,
           xd'["font"] = xd["font"], xd'["distribute"] = xd["distribute"],
           phase' \in {"recording", "replaying"} => open
    PROVE  LostInv'
  BY DEF LostInv, LostAfterSession

(* The widgets change none of that.                                         *)
LEMMA WidgetsLose ==
    ASSUME GneeInv, LostInv, Widgets
    PROVE  LostInv'
<1>1. UNCHANGED <<phase, open, project, lost>>
  BY DEF Widgets, KeepFiles, files, Turn, Toggle, Choose, PickKey, TurnSpeed,
         TurnOffset, TurnDelay, ActivateRow, ClickButton
<1>2. xd = [m \in Names |-> xd[m]] /\ {"font", "distribute"} \subseteq Names
  BY NamesHave DEF GneeInv, Good, Names
<1> DEFINE Kept(y) == /\ y["font"] = xd["font"]
                      /\ y["distribute"] = xd["distribute"]
<1>3. \A n, v : n \notin {"font", "distribute"} => Kept(Put(xd, n, v))
  BY <1>2 DEF Put
<1>4. (Spins \cup Toggles \cup Combos) \cap {"font", "distribute"} = {}
  BY Apart
<1>5. \/ xd' = xd
      \/ \E n, v : n \notin {"font", "distribute"} /\ xd' = Put(xd, n, v)
      \/ \E n, v : /\ n \notin {"font", "distribute"}
                   /\ xd' = Recall(Put(xd, n, v))
  <2>1. CASE Turn
    BY <1>4, <2>1 DEF Turn, SetXd, Put
  <2>8. CASE Toggle
    BY <1>4, <2>8 DEF Toggle, SwitchTo, Put
  <2>2. CASE Choose
    BY <2>2 DEF Choose, SetXd, Put
  <2>3. CASE PickKey
    BY <1>4, <2>3 DEF PickKey, KeyFrom, Put
  <2>4. CASE TurnSpeed
    BY <2>4 DEF TurnSpeed, SetXd, Put
  <2>5. CASE TurnOffset
    BY <2>5 DEF TurnOffset, SetXd, Put
  <2>6. CASE TurnDelay
    BY <2>6 DEF TurnDelay, SetXd, Put
  <2>7. CASE ActivateRow \/ ClickButton
    BY <2>7 DEF ActivateRow, ClickButton, Move, Added, Removed, Put
  <2> QED BY <2>1, <2>2, <2>3, <2>4, <2>5, <2>6, <2>7, <2>8 DEF Widgets
<1>8. \A n, v : n \notin {"font", "distribute"} => Kept(Recall(Put(xd, n, v)))
  BY <1>2 DEF Put, Recall
<1> HIDE DEF Kept
<1>6. Kept(xd')
  BY <1>3, <1>5, <1>8 DEF Kept
<1>7. phase' \in {"recording", "replaying"} => open
  BY <1>1 DEF LostInv
<1> QED BY <1>1, <1>6, <1>7, SameLoss DEF Kept

(* A project that is saved before any session is one of readable lines.     *)
LEMMA SaveLoses ==
    ASSUME GneeInv, LostInv, SaveProject \/ SaveAgain
    PROVE  LostInv'
<1>1. /\ project' = ProjectLines(xd, open)
      /\ UNCHANGED <<phase, xd, open, lost>>
  BY DEF SaveProject, SaveAgain, history
<1>2. ~open => ProjectLines(xd, open) \in Seq(Readable)
  BY OwnFiles DEF GneeInv, LostInv
<1> QED BY <1>1, <1>2 DEF LostInv, LostAfterSession

(* Such a project is read to its end.                                       *)
LEMMA OpenProjectLoses ==
    ASSUME NoneDistributes, GneeInv, LostInv, OpenProject
    PROVE  LostInv'
<1> DEFINE r == Reading([xd EXCEPT !["ranges"] = {}], project,
                        {"blank", "settings"})
           s == r.set
<1>1. /\ Good(s) /\ s["font"] = xd["font"]
      /\ s["distribute"] = xd["distribute"]
      /\ project \in Seq(Readable) => r.class \in {"blank", "settings"}
  <2>1. Undistributing(project)
    BY OwnUndistributing DEF GneeInv, FilesOK
  <2> QED BY <2>1, ProjectRead
<1>2. UNCHANGED <<open, project>>
  BY DEF OpenProject
<1>3. CASE r.class = "crash" \/ ReflectCrashes(s)
  <2>1. UNCHANGED <<xd, lost>> /\ phase' = "gone"
    BY <1>3 DEF OpenProject, history
  <2> QED BY <1>2, <2>1, SameLoss
<1>4. CASE ~(r.class = "crash" \/ ReflectCrashes(s))
  <2>1. /\ Reflect(s, {})
        /\ lost' = (lost \/ (project \notin HandWritten
                               /\ r.class \notin {"blank", "settings"}))
        /\ UNCHANGED phase
    BY <1>4 DEF OpenProject
  <2> HIDE DEF r, s
  <2>2. xd'["font"] = s["font"] /\ xd'["distribute"] = s["distribute"]
    BY <1>1, <2>1, ReflectKeeps
  <2> QED BY <1>1, <1>2, <2>1, <2>2 DEF LostInv, LostAfterSession
<1> QED BY <1>3, <1>4

(* What sets neither a font nor a display loses nothing.                    *)
LEMMA OthersLose ==
    ASSUME GneeInv, LostInv, OpenMissing \/ OpenSession \/ Quit
    PROVE  LostInv'
<1>1. UNCHANGED <<open, project, lost>> /\ phase' \in {phase, "gone"}
  BY DEF OpenMissing, OpenSession, Quit, files, history
<1>2. xd'["font"] = xd["font"] /\ xd'["distribute"] = xd["distribute"]
  <2>1. CASE UNCHANGED xd
    BY <2>1
  <2>2. CASE OpenSession /\ ~ReflectCrashes(xd)
    <3>1. Reflect(xd, included)
      BY <2>2 DEF OpenSession
    <3> QED BY <3>1, ReflectKeeps DEF GneeInv, ListsOK
  <2> QED BY <2>1, <2>2 DEF OpenMissing, OpenSession, Quit
<1> QED BY <1>1, <1>2, SameLoss DEF LostInv

(* A session opens the data display before it loads the font.               *)
LEMMA SessionsLose ==
    ASSUME NoneDistributes, GneeInv, LostInv, Sessions
    PROVE  LostInv'
<1>1. UNCHANGED <<project, lost>> /\ open' \in {open, TRUE}
  BY DEF Sessions, Record, Replay, KeyMessage, EndSession, files, history
<1>2. phase' \in {"recording", "replaying"} => open'
  BY DEF Sessions, Record, Replay, KeyMessage, EndSession, LostInv, Act
<1>3. xd'["distribute"] = {} /\ (xd'["font"] # None => open')
  <2>1. CASE Record
    <3>1. /\ xd'["font"] = xd["font"]
          /\ xd'["distribute"] = xd["distribute"]
      BY <2>1, RecordSets, Apart, NamesHave DEF Record
    <3> QED BY <1>1, <3>1 DEF LostInv
  <2>2. CASE Replay
    <3>1. Undistributing(session)
      BY OwnUndistributing DEF GneeInv, FilesOK
    <3>2. /\ xd'["distribute"] = xd["distribute"] /\ open' = TRUE
      BY <2>2, <3>1, SessionRead DEF Replay
    <3> QED BY <3>2 DEF LostInv
  <2>3. CASE KeyMessage
    <3>1. /\ xd'["distribute"] = xd["distribute"] /\ open' = open /\ open
      BY <2>3, KeyMessageKeeps, NamesHave DEF KeyMessage, LostInv
    <3> QED BY <3>1 DEF LostInv
  <2>4. CASE EndSession
    <3>1. /\ xd'["font"] = xd["font"]
          /\ xd'["distribute"] = xd["distribute"]
      BY <2>4, EndSessionKeeps, Apart, NamesHave
    <3> QED BY <1>1, <3>1 DEF LostInv
  <2> QED BY <2>1, <2>2, <2>3, <2>4 DEF Sessions
<1> QED BY <1>1, <1>2, <1>3 DEF LostInv, LostAfterSession

(* A project gnee has saved is read to its end, however it was changed and  *)
(* saved and opened again, until a session has opened the data display:     *)
(* from then on gnee writes a line about the project in it, at which        *)
(* reading ends.                                                            *)
THEOREM SavedIsRead ==
    ASSUME NoneDistributes
    PROVE  Spec => []LostAfterSession
<1>1. Init => LostInv
  <2> SUFFICES ASSUME Init PROVE LostInv
    OBVIOUS
  <2>1. xd = GneeDefault /\ phase = "idle" /\ lost = FALSE
        /\ project \in HandWritten \cup {<<>>}
    BY DEF Init
  <2>2. <<>> \in Seq(Readable)
    BY EmptySeq
  <2> QED BY <2>1, <2>2, StartPlain DEF LostInv, LostAfterSession
<1>2. GneeInv /\ LostInv /\ [Next]_vars => LostInv'
  <2>1. ASSUME GneeInv, LostInv, Next PROVE LostInv'
    BY <2>1, WidgetsLose, SaveLoses, OpenProjectLoses, OthersLose,
       SessionsLose DEF Next, Menus
  <2>2. ASSUME LostInv, UNCHANGED vars PROVE LostInv'
    <3>1. UNCHANGED <<phase, xd, open, project, lost>>
      BY <2>2 DEF vars, files, history
    <3> QED BY <2>2, <3>1 DEF LostInv, LostAfterSession
  <2> QED BY <2>1, <2>2
<1>3. LostInv => LostAfterSession
  BY DEF LostInv
<1> QED BY <1>1, <1>2, <1>3, GneeHolds, PTL DEF Spec

-----------------------------------------------------------------------------

(* What holds of the errors of a command line: one that is not returned to  *)
(* main ends the process, and one that is returned ends the parsing.        *)
FailedInv ==
    /\ failed \in Forgotten \cup {"nothing", "word"}
    /\ failed = "word" => pc = "shell"
    /\ pc \in {"words", "project"} => failed = "nothing"

(* A command line that was refused starts no session and writes no file,    *)
(* but for the errors main forgets: a missing or wrong project, and a       *)
(* question without an answer (xnee_parse_args, main).                      *)
THEOREM RefusedStartsNone == CneeSpec => RefusedRunsNot
<1> DEFINE Right ==
      /\ pc' \in {"header", "running"} => failed' \in Forgotten \cup {"nothing"}
      /\ sessionFile' # sessionFile => failed \in Forgotten \cup {"nothing"}
      /\ projectFile' # projectFile => failed = "nothing"
<1>1. CneeInit => FailedInv
  BY DEF CneeInit, FailedInv
<1>2. FailedInv /\ [CneeNext]_cneeVars => FailedInv' /\ [Right]_cneeVars
  <2> SUFFICES ASSUME FailedInv, [CneeNext]_cneeVars
               PROVE  FailedInv' /\ [Right]_cneeVars
    OBVIOUS
  <2> USE DEF FailedInv, Forgotten, Leave, NextWord, errors, bounds, filesOnDisk
  <2>1. CASE Invoke
    BY <2>1 DEF Invoke
  <2>2. CASE CneeOption
    BY <2>2 DEF CneeOption
  <2>3. CASE PrintAndLeave \/ WriteSettings
    BY <2>3 DEF PrintAndLeave, WriteSettings
  <2>12. CASE Answer
    BY <2>12 DEF Answer
  <2>4. CASE SetProjectFile
    BY <2>4 DEF SetProjectFile
  <2>5. CASE ReadProjectLine
    BY <2>5 DEF ReadProjectLine
  <2>6. CASE EndProject
    BY <2>6 DEF EndProject
  <2>7. CASE LibOption
    BY <2>7 DEF LibOption, Continue
  <2>8. CASE BadWord \/ CrashOnWord \/ WordsDone
    BY <2>8 DEF BadWord, CrashOnWord, WordsDone
  <2>9. CASE StartRecorder \/ StartReplayer \/ StartOther
    BY <2>9 DEF StartRecorder, StartReplayer, StartOther
  <2>10. CASE ReadHeaderLine \/ HeaderRead \/ Finish
    BY <2>10 DEF ReadHeaderLine, HeaderRead, Finish
  <2>11. CASE UNCHANGED cneeVars
    BY <2>11 DEF cneeVars
  <2> QED
    BY <2>1, <2>2, <2>3, <2>4, <2>5, <2>6, <2>7, <2>8, <2>9, <2>10, <2>11,
       <2>12 DEF CneeNext, Parse, Start
<1>3. [Right]_cneeVars =>
        [/\ pc' \in {"header", "running"} =>
              failed' \in Forgotten \cup {"nothing"}
         /\ sessionFile' # sessionFile => failed \in Forgotten \cup {"nothing"}
         /\ projectFile' # projectFile => failed = "nothing"]_cneeVars
  OBVIOUS
<1> QED
  BY <1>1, <1>2, <1>3, PTL DEF CneeSpec, RefusedRunsNot

(* The settings of cnee have no font.                                       *)
Fontless(s) == Good(s) /\ s["font"] = None

(* The lines written from such settings, and those of them that state one.  *)
Telling(s) == {Says(s, n) : n \in Stated(s)}
                \cup {RangeLine(x) : x \in s["ranges"]}
LinesOf(s) == Telling(s) \cup {Blank}
                \cup {l \in {Displayed} : s["distribute"] # {}}

(* A file that cnee writes is made of them.                                 *)
LEMMA CneeWrites ==
    ASSUME NEW s, Fontless(s)
    PROVE  /\ MadeOf(HeaderLines(s), LinesOf(s), Telling(s))
           /\ MadeOf(ProjectLines(s, FALSE), LinesOf(s), Telling(s))
<1>1. Covers(LinesOf(s), s) /\ IsFiniteSet(s["ranges"])
  BY DEF Covers, LinesOf, Telling, Fontless, Good
<1> QED
  BY <1>1, SettingsListed DEF Telling

(* Reading the line that states a setting sets it to what it was written    *)
(* from.                                                                    *)
LEMMA SaysRead ==
    ASSUME NEW s, Fontless(s), NEW t, NEW n \in Stated(s)
    PROVE  /\ HandleProject(t, Says(s, n)).class = "settings"
           /\ HandleProject(t, Says(s, n)).set = Put(t, n, s[n])
<1>1. n \in LimitOptions \cup Thresholded \cup {"clients", "feedback"}
              \cup Switches
  BY DEF Stated
<1>2. Fits(n, s[n])
  <2>1. n \in Names
    BY <1>1, NamesHave
  <2> QED BY <2>1 DEF Fontless, Good, Names
<1>3. CASE n \in LimitOptions
  <2>1. Says(s, n) = Line(n, s[n])
    BY <1>3 DEF Says, LimitOptions, Switches
  <2>2. s[n] \in Numbers \ {"INT_MAX"}
    BY <1>2, <1>3 DEF Fits
  <2> QED BY <2>1, <2>2, <1>3, LimitRead
<1>4. CASE n \in Thresholded
  <2>1. Says(s, n) = Line(n, s[n])
    BY <1>4 DEF Says, Thresholded, Switches
  <2>2. s[n] \in Numbers
    BY <1>2, <1>4 DEF Fits
  <2> QED BY <2>1, <2>2, <1>4, ThresholdRead
<1>5. CASE n = "clients"
  <2>1. Says(s, n) = ClientsLine(s["clients"])
    BY <1>5 DEF Says, LimitOptions, Thresholded, Switches
  <2>2. s["clients"] \in {"all", "future"}
    BY <1>2, <1>5 DEF Fits
  <2> QED BY <2>1, <2>2, <1>5, ClientsRead
<1>6. CASE n = "feedback"
  <2>1. Says(s, n) = Line(s["feedback"], None)
    BY <1>6 DEF Says, LimitOptions, Thresholded, Switches
  <2>2. s["feedback"] \in Feedbacks
    BY <1>2, <1>6 DEF Fits
  <2> QED BY <2>1, <2>2, <1>6, FeedbackRead
<1>7. CASE n \in Switches
  <2>1. Says(s, n) = Line(n, None)
    BY <1>7 DEF Says, LimitOptions, Thresholded, Switches
  <2>2. s[n] = "on"
    BY <1>7 DEF Stated, LimitOptions, Thresholded, Switches
  <2> QED BY <2>1, <2>2, <1>7, SwitchRead
<1> QED
  BY <1>1, <1>3, <1>4, <1>5, <1>6, <1>7

(* What is still to be read of a file written from s tells what t differs   *)
(* from s in.                                                               *)
Tells(ls, s, t) ==
    /\ ls \in Seq(LinesOf(s))
    /\ \A n \in Stated(s) : t[n] = s[n] \/ Occurs(Says(s, n), ls)
    /\ \A x \in s["ranges"] : x \in t["ranges"] \/ Occurs(RangeLine(x), ls)

(* What reading one of the lines does; only that of the displays is an      *)
(* error.                                                                   *)
LEMMA OneLineRead ==
    ASSUME NEW s, Fontless(s), NEW t, NEW l \in LinesOf(s)
    PROVE  LET r == HandleProject(t, l)
           IN  \/ /\ r.class = "settings"
                  /\ \E n \in Stated(s) : r.set = Put(t, n, s[n])
               \/ /\ r.class = "settings"
                  /\ \E x \in s["ranges"] :
                       r.set = Put(t, "ranges", t["ranges"] \cup {x})
               \/ r.class = "blank" /\ r.set = t
               \/ l = Displayed /\ r.class = "syntax" /\ r.set = t
<1>1. CASE \E n \in Stated(s) : l = Says(s, n)
  BY <1>1, SaysRead
<1>2. CASE \E x \in s["ranges"] : l = RangeLine(x)
  <2>1. PICK x \in s["ranges"] : l = RangeLine(x)
    BY <1>2
  <2>2. x \in Data
    BY <2>1 DEF Fontless, Good
  <2> QED BY <2>1, <2>2, RangeRead
<1>3. CASE l = Blank
  BY <1>3, BlankRead
<1>4. CASE l = Displayed
  BY <1>4, DisplayedRead
<1> QED
  BY <1>1, <1>2, <1>3, <1>4 DEF LinesOf, Telling

(* The line of the displays is the only one that is an error.               *)
LEMMA OneLineClass ==
    ASSUME NEW s, Fontless(s), NEW t, NEW l \in LinesOf(s)
    PROVE  \/ HandleProject(t, l).class \in {"settings", "blank"}
           \/ l = Displayed /\ HandleProject(t, l).class = "syntax"
  BY OneLineRead

(* What a setting or a range is after a line.                               *)
LEMMA PutValues ==
    ASSUME NEW t, Good(t), NEW n \in Names, NEW v
    PROVE  /\ Put(t, n, v)[n] = v
           /\ \A m \in Names \ {n} : Put(t, n, v)[m] = t[m]
<1>1. t = [m \in Names |-> t[m]]
  BY DEF Good, Names
<1> QED
  BY <1>1 DEF Put

(* After a line that could be read, the rest still tells the difference.    *)
LEMMA StillTells ==
    ASSUME NEW s, Fontless(s), NEW t, Good(t), NEW ls, ls # <<>>,
           Tells(ls, s, t),
           HandleProject(t, Head(ls)).class # "syntax"
    PROVE  Tells(Tail(ls), s, HandleProject(t, Head(ls)).set)
<1> DEFINE r == HandleProject(t, Head(ls)).set
           L == LinesOf(s)
<1>1. /\ ls \in Seq(L) /\ Head(ls) \in L /\ Tail(ls) \in Seq(L)
  <2>1. ls \in Seq(L)
    BY DEF Tells
  <2> HIDE DEF L
  <2> QED BY <2>1, HeadTailProperties
<1>2. \A l : Occurs(l, ls) => l = Head(ls) \/ Occurs(l, Tail(ls))
  <2>1. ls \in Seq(L)
    BY <1>1
  <2> HIDE DEF L
  <2>2. /\ Len(ls) \in Nat \ {0} /\ Head(ls) = ls[1]
        /\ Len(Tail(ls)) = Len(ls) - 1
        /\ \A i \in 1 .. Len(ls) - 1 : Tail(ls)[i] = ls[i + 1]
    BY <2>1, HeadTailProperties, EmptySeq, LenProperties
  <2> SUFFICES ASSUME NEW i \in 1 .. Len(ls), i # 1
               PROVE  Occurs(ls[i], Tail(ls))
    BY <2>2 DEF Occurs
  <2>3. i - 1 \in 1 .. Len(Tail(ls)) /\ Tail(ls)[i - 1] = ls[i]
    BY <2>2
  <2> QED BY <2>3 DEF Occurs
<1>3. Stated(s) \subseteq Names \ {"ranges"} /\ "ranges" \in Names
  <2>1. "ranges" \notin LimitOptions \cup Thresholded \cup Switches
    BY DEF Switches, LimitOptions, Thresholded
  <2> QED BY <2>1, NamesHave DEF Stated
<1>4. \/ \E n \in Stated(s) : r = Put(t, n, s[n])
      \/ \E x \in s["ranges"] : r = Put(t, "ranges", t["ranges"] \cup {x})
      \/ r = t
  BY <1>1, OneLineRead
<1>5. /\ \A n \in Stated(s) : t[n] = s[n] => r[n] = s[n]
      /\ t["ranges"] \subseteq r["ranges"]
  <2>1. CASE \E n \in Stated(s) : r = Put(t, n, s[n])
    <3>1. PICK n \in Stated(s) : r = Put(t, n, s[n])
      BY <2>1
    <3> HIDE DEF r
    <3> QED BY <3>1, <1>3, PutValues
  <2>2. CASE \E x \in s["ranges"] : r = Put(t, "ranges", t["ranges"] \cup {x})
    <3>1. PICK x \in s["ranges"] : r = Put(t, "ranges", t["ranges"] \cup {x})
      BY <2>2
    <3>2. \A v : /\ Put(t, "ranges", v)["ranges"] = v
                 /\ \A m \in Names \ {"ranges"} : Put(t, "ranges", v)[m] = t[m]
      BY <1>3, PutValues
    <3> HIDE DEF r
    <3>3. /\ r["ranges"] = t["ranges"] \cup {x}
          /\ \A m \in Names \ {"ranges"} : r[m] = t[m]
      BY <3>1, <3>2
    <3> QED BY <3>3, <1>3
  <2> QED BY <2>1, <2>2, <1>4
<1>6. ASSUME NEW n \in Stated(s)
      PROVE  r[n] = s[n] \/ Occurs(Says(s, n), Tail(ls))
  <2>1. CASE t[n] = s[n]
    BY <2>1, <1>5
  <2>2. CASE Head(ls) = Says(s, n)
    <3>1. r = Put(t, n, s[n])
      BY <2>2, SaysRead
    <3> HIDE DEF r
    <3> QED BY <3>1, <1>3, PutValues
  <2> QED BY <2>1, <2>2, <1>2 DEF Tells
<1>7. ASSUME NEW x \in s["ranges"]
      PROVE  x \in r["ranges"] \/ Occurs(RangeLine(x), Tail(ls))
  <2>1. CASE x \in t["ranges"]
    BY <2>1, <1>5
  <2>2. CASE Head(ls) = RangeLine(x)
    <3>1. x \in Data
      BY DEF Fontless, Good
    <3>2. r = Put(t, "ranges", t["ranges"] \cup {x})
      BY <2>2, <3>1, RangeRead
    <3>3. Put(t, "ranges", t["ranges"] \cup {x})["ranges"]
            = t["ranges"] \cup {x}
      BY <1>3, PutValues
    <3> HIDE DEF r
    <3> QED BY <3>2, <3>3
  <2> QED BY <2>1, <2>2, <1>2 DEF Tells
<1> QED
  BY <1>1, <1>6, <1>7 DEF Tells

(* What holds of cnee: the settings of a process, and those the files were  *)
(* written from, are good and have no font; a file was written by hand, or  *)
(* states all the settings it was written from; and while one of cnee's own *)
(* is read, what is still to come tells what the process has not yet set.   *)
SetsOK == Fontless(set) /\ Fontless(author.project) /\ Fontless(author.session)
AuthorOK == author = [project |-> author.project, session |-> author.session]
Wrote(f, s) == MadeOf(f, LinesOf(s), Telling(s))
OwnOK ==
    /\ \/ projectFile \in HandWritten \cup {<<>>}
       \/ Wrote(projectFile, author.project)
    /\ sessionFile = <<>> \/ Wrote(sessionFile, author.session)
ReadingOK ==
    /\ pc = "project" /\ projectFile \notin HandWritten =>
         Tells(lines, author.project, set)
    /\ pc = "header" => \/ set["file"] = "default" /\ lines = <<>>
                        \/ Tells(lines, author.session, set)
RefusedOK ==
    /\ pc \in {"words", "project"} => refused = Blank
    /\ refused # Blank /\ projectFile \notin HandWritten => refused = Displayed
CneeInv == SetsOK /\ AuthorOK /\ OwnOK /\ ReadingOK /\ RefusedOK

(* A file that has just been opened tells all that it was written from.     *)
LEMMA OpenedTells ==
    ASSUME NEW f, NEW s, NEW t, Wrote(f, s)
    PROVE  Tells(f, s, t)
  BY DEF Wrote, MadeOf, Telling, Tells

(* Settings that are good stay good, whatever option the library is given.  *)
LEMMA OptionKeeps ==
    ASSUME NEW s, Fontless(s), NEW o, NEW a
    PROVE  /\ Fontless(ParseOption(s, o, a).set)
           /\ o \in RangeTypes => Fontless(ParseRange(s, o, a).set)
<1>1. Fontless(ParseOption(s, o, a).set)
  BY ParseEffect, EffectsAreGood DEF Fontless
<1>2. ASSUME o \in RangeTypes
      PROVE  Fontless(ParseRange(s, o, a).set)
  <2>1. Effect(s, o, Ranges(s, o, a).set)
    BY <1>2, RangesEffect
  <2>2. Effect(s, o, ParseRange(s, o, a).set)
    BY <2>1, UsingSet DEF Ranges
  <2> QED BY <2>2, EffectIsGood DEF Fontless
<1> QED BY <1>1, <1>2

(* Nor does a line of a file change that.                                   *)
LEMMA LineKeeps ==
    ASSUME NEW s, Fontless(s), NEW l
    PROVE  /\ Fontless(HandleProject(s, l).set)
           /\ HandleProject(s, l).class \in Classes
  BY LineRead DEF Fontless

(* A process that starts has the default settings, and one that leaves      *)
(* forgets its own.                                                         *)
LEMMA LeaveKeeps ==
    ASSUME CneeInv, Leave, UNCHANGED <<author, projectFile, sessionFile>>,
           refused' = refused
    PROVE  CneeInv'
<1>1. pc' = "shell" /\ Fontless(set')
  BY DefaultIsGood DEF Leave, Fontless
<1> QED
  BY <1>1 DEF CneeInv, SetsOK, AuthorOK, OwnOK, ReadingOK, RefusedOK

(* Before a session starts, words and lines only change the settings.       *)
LEMMA WordKeeps ==
    ASSUME CneeInv, Fontless(set'), pc' \notin {"project", "header"},
           pc' = "words" => pc \in {"words", "project"},
           UNCHANGED <<author, projectFile, sessionFile, refused>>
    PROVE  CneeInv'
  BY DEF CneeInv, SetsOK, AuthorOK, OwnOK, ReadingOK, RefusedOK

(* A process starts with the default settings.                              *)
LEMMA InvokeKeeps ==
    ASSUME CneeInv, Invoke
    PROVE  CneeInv'
<1>1. /\ pc' = "words" /\ set' = Default /\ refused' = Blank
      /\ UNCHANGED <<author, projectFile, sessionFile>>
  BY DEF Invoke, filesOnDisk
<1>2. Fontless(set')
  BY <1>1, DefaultIsGood DEF Fontless
<1> QED
  BY <1>1, <1>2 DEF CneeInv, SetsOK, AuthorOK, OwnOK, ReadingOK, RefusedOK

(* The options of cnee set names of files, the mode and two ranges.         *)
LEMMA CneeOptionKeeps ==
    ASSUME CneeInv, CneeOption
    PROVE  CneeInv'
<1>1. Fontless(set)
  BY DEF CneeInv, SetsOK
<1>2. \A n \in {"file", "mode"} : \A v :
        Fits(n, v) /\ n \in Names \ {"font", "ranges"}
  BY NamesHave DEF Fits, LimitOptions, Thresholded
<1>3. \A n \in {"file", "mode"} : \A v : Fontless(Put(set, n, v))
  <2>1. SUFFICES ASSUME NEW n \in {"file", "mode"}, NEW v
                 PROVE  Fontless(Put(set, n, v))
    OBVIOUS
  <2>2. "font" \in Names
    BY NamesHave
  <2> QED BY <1>1, <1>2, <2>2, PutIsGood DEF Fontless
<1>4. "device-event-range" \in RangeTypes
  BY DEF RangeTypes
<1>5. \A a : Fontless(ParseRange(set, "device-event-range", a).set)
  BY <1>1, <1>4, OptionKeeps
<1>6. \/ set' = Put(set, "file", "given")
      \/ set' = Put(set, "mode", "retyper")
      \/ set' = set
      \/ set' = Put(set, "mode", "checker")
      \/ \E a : set' = ParseRange(set, "device-event-range", a).set
  BY DEF CneeOption, Put
<1>7. /\ pc = "words" /\ pc' = "words"
      /\ UNCHANGED <<author, projectFile, sessionFile, refused>>
  BY DEF CneeOption, NextWord, filesOnDisk, errors
<1> QED
  BY <1>1, <1>3, <1>5, <1>6, <1>7, WordKeeps

(* A project is written from the settings so far.                           *)
LEMMA WriteKeeps ==
    ASSUME CneeInv, WriteSettings
    PROVE  CneeInv'
<1>1. /\ projectFile' = ProjectLines(set, FALSE)
      /\ author' = [author EXCEPT !.project = set]
      /\ pc = "words" /\ pc' = "shell" /\ set' = Default
      /\ UNCHANGED <<sessionFile, refused>>
  BY DEF WriteSettings, Leave, errors
<1>2. /\ author'.project = set /\ author'.session = author.session
      /\ AuthorOK'
  BY <1>1 DEF CneeInv, AuthorOK
<1>3. Fontless(set')
  BY <1>1, DefaultIsGood DEF Fontless
<1>4. Wrote(projectFile', author'.project)
  BY <1>1, <1>2, CneeWrites DEF CneeInv, SetsOK, Wrote
<1>5. refused' = Blank
  BY <1>1 DEF CneeInv, RefusedOK
<1>6. SetsOK'
  BY <1>2, <1>3 DEF CneeInv, SetsOK
<1>7. OwnOK'
  BY <1>1, <1>2, <1>4 DEF CneeInv, OwnOK
<1> QED
  BY <1>1, <1>2, <1>5, <1>6, <1>7 DEF CneeInv, ReadingOK, RefusedOK

(* A project that is opened tells all it was written from.                  *)
LEMMA OpenKeeps ==
    ASSUME CneeInv, SetProjectFile
    PROVE  CneeInv'
<1>1. /\ pc = "words"
      /\ UNCHANGED <<author, projectFile, sessionFile, refused, set>>
      /\ \/ pc' = "start"
         \/ pc' = "project" /\ lines' = projectFile /\ projectFile # <<>>
  BY DEF SetProjectFile, filesOnDisk
<1>2. pc' = "project" /\ projectFile \notin HandWritten =>
        Tells(lines', author.project, set)
  BY <1>1, OpenedTells DEF CneeInv, OwnOK
<1>3. SetsOK' /\ AuthorOK' /\ OwnOK'
  BY <1>1 DEF CneeInv, SetsOK, AuthorOK, OwnOK
<1> QED
  BY <1>1, <1>2, <1>3 DEF CneeInv, ReadingOK, RefusedOK

(* A line that is left after the rest of the file told the difference.      *)
LEMMA ReadProjectKeeps ==
    ASSUME CneeInv, ReadProjectLine
    PROVE  CneeInv'
<1> DEFINE r == HandleProject(set, Head(lines))
<1>1. /\ pc = "project" /\ lines # <<>>
      /\ UNCHANGED <<author, projectFile, sessionFile>>
      /\ \/ /\ r.class \in {"blank", "settings"}
            /\ set' = r.set /\ lines' = Tail(lines)
            /\ UNCHANGED <<pc, refused>>
         \/ /\ r.class = "info" /\ set' = r.set /\ pc' = "words"
            /\ UNCHANGED refused
         \/ /\ r.class = "syntax" /\ set' = r.set /\ pc' = "start"
            /\ refused' = Head(lines)
         \/ r.class = "crash" /\ Leave /\ UNCHANGED refused
  BY DEF ReadProjectLine, filesOnDisk, NextWord
<1>2. Fontless(set) /\ Fontless(r.set) /\ Fontless(author.project)
  BY LineKeeps DEF CneeInv, SetsOK
<1>3. refused = Blank
  BY <1>1 DEF CneeInv, RefusedOK
<1>4. projectFile \notin HandWritten => Tells(lines, author.project, set)
  BY <1>1 DEF CneeInv, ReadingOK
<1>5. ASSUME projectFile \notin HandWritten, r.class # "syntax"
      PROVE  Tells(Tail(lines), author.project, r.set)
  BY <1>1, <1>2, <1>4, <1>5, StillTells DEF Fontless
<1>6. ASSUME projectFile \notin HandWritten, r.class = "syntax"
      PROVE  Head(lines) = Displayed
  <2>1. lines \in Seq(LinesOf(author.project))
    BY <1>4, <1>6 DEF Tells
  <2>2. Head(lines) \in LinesOf(author.project)
    BY <1>1, <2>1
  <2> QED BY <1>2, <1>6, <2>2, OneLineRead
<1> HIDE DEF r
<1>7. CASE r.class \in {"blank", "settings"}
  <2>1. /\ set' = r.set /\ lines' = Tail(lines) /\ pc' = "project"
        /\ refused' = refused
    BY <1>1, <1>7
  <2>2. SetsOK' /\ AuthorOK' /\ OwnOK'
    BY <1>1, <1>2, <2>1 DEF CneeInv, SetsOK, AuthorOK, OwnOK
  <2>3. ReadingOK'
    BY <1>1, <1>5, <1>7, <2>1 DEF ReadingOK
  <2> QED BY <1>3, <2>1, <2>2, <2>3 DEF CneeInv, RefusedOK
<1>8. CASE r.class = "info"
  <2>1. set' = r.set /\ pc' = "words" /\ refused' = refused
    BY <1>1, <1>8
  <2> QED BY <1>1, <1>2, <2>1, WordKeeps
<1>9. CASE r.class = "syntax"
  <2>1. set' = r.set /\ pc' = "start" /\ refused' = Head(lines)
    BY <1>1, <1>9
  <2>2. SetsOK' /\ AuthorOK' /\ OwnOK' /\ ReadingOK'
    BY <1>1, <1>2, <2>1 DEF CneeInv, SetsOK, AuthorOK, OwnOK, ReadingOK
  <2>3. projectFile' \notin HandWritten => refused' = Displayed
    BY <1>1, <1>6, <1>9, <2>1
  <2> QED BY <2>1, <2>2, <2>3 DEF CneeInv, RefusedOK
<1>10. CASE r.class = "crash"
  BY <1>1, <1>10, LeaveKeeps
<1> QED
  BY <1>1, <1>7, <1>8, <1>9, <1>10

(* The other words set what the library lets them set, or end the process.  *)
LEMMA WordsKeep ==
    ASSUME CneeInv,
           \/ EndProject \/ LibOption \/ WordsDone
           \/ PrintAndLeave \/ Answer \/ BadWord \/ CrashOnWord
    PROVE  CneeInv'
<1>1. CASE EndProject
  <2>1. /\ pc = "project" /\ pc' = "words"
        /\ UNCHANGED <<set, author, projectFile, sessionFile, refused>>
    BY <1>1 DEF EndProject, NextWord, filesOnDisk, errors
  <2>2. Fontless(set')
    BY <2>1 DEF CneeInv, SetsOK
  <2> QED BY <2>1, <2>2, WordKeeps
<1>2. CASE LibOption
  <2>1. /\ pc = "words" /\ pc' = "words"
        /\ UNCHANGED <<author, projectFile, sessionFile, refused>>
        /\ \E a : set' = ParseOption(set, word, a).set
    BY <1>2 DEF LibOption, Continue, NextWord, filesOnDisk
  <2>2. Fontless(set')
    BY <2>1, OptionKeeps DEF CneeInv, SetsOK
  <2> QED BY <2>1, <2>2, WordKeeps
<1>3. CASE WordsDone
  <2>1. /\ pc' = "start"
        /\ UNCHANGED <<set, author, projectFile, sessionFile, refused>>
    BY <1>3 DEF WordsDone, filesOnDisk, errors
  <2>2. Fontless(set')
    BY <2>1 DEF CneeInv, SetsOK
  <2> QED BY <2>1, <2>2, WordKeeps
<1>4. CASE PrintAndLeave \/ BadWord \/ CrashOnWord
  BY <1>4, LeaveKeeps DEF PrintAndLeave, BadWord, CrashOnWord, filesOnDisk,
                          errors
<1>5. CASE Answer
  <2>1. /\ UNCHANGED <<author, projectFile, sessionFile, refused>>
        /\ Leave \/ (pc' = "start" /\ UNCHANGED set)
    BY <1>5 DEF Answer, filesOnDisk
  <2>2. CASE Leave
    <3>1. UNCHANGED <<author, projectFile, sessionFile>> /\ refused' = refused
      BY <2>1
    <3> QED BY <2>2, <3>1, LeaveKeeps
  <2>3. CASE pc' = "start" /\ UNCHANGED set
    <3>1. Fontless(set')
      BY <2>3 DEF CneeInv, SetsOK
    <3> QED BY <2>1, <2>3, <3>1, WordKeeps
  <2> QED BY <2>1, <2>2, <2>3
<1> QED
  BY <1>1, <1>2, <1>3, <1>4, <1>5

(* A recorder writes the header of the session, a replayer opens it.        *)
LEMMA StartKeeps ==
    ASSUME CneeInv, StartRecorder \/ StartReplayer \/ StartOther
    PROVE  CneeInv'
<1>1. CASE StartRecorder /\ set["ranges"] # {}
  <2>1. /\ sessionFile' = HeaderLines(set)
        /\ author' = [author EXCEPT !.session = set]
        /\ pc' = "running" /\ UNCHANGED <<set, projectFile, refused>>
    BY <1>1 DEF StartRecorder, errors
  <2>2. /\ author'.session = set /\ author'.project = author.project
        /\ AuthorOK'
    BY <2>1 DEF CneeInv, AuthorOK
  <2>3. Wrote(sessionFile', author'.session)
    BY <2>1, <2>2, CneeWrites DEF CneeInv, SetsOK, Wrote
  <2>4. SetsOK' /\ OwnOK'
    BY <2>1, <2>2, <2>3 DEF CneeInv, SetsOK, OwnOK
  <2> QED BY <2>1, <2>2, <2>4 DEF CneeInv, ReadingOK, RefusedOK
<1>2. CASE StartReplayer /\ ~Leave
  <2>1. /\ pc' = "header"
        /\ UNCHANGED <<set, author, projectFile, sessionFile, refused>>
        /\ \/ set["file"] = "default" /\ lines' = <<>>
           \/ sessionFile # <<>> /\ lines' = sessionFile
    BY <1>2 DEF StartReplayer, filesOnDisk, errors
  <2>2. SetsOK' /\ AuthorOK' /\ OwnOK'
    BY <2>1 DEF CneeInv, SetsOK, AuthorOK, OwnOK
  <2>3. ReadingOK'
    BY <2>1, OpenedTells DEF CneeInv, OwnOK, ReadingOK
  <2> QED BY <2>1, <2>2, <2>3 DEF CneeInv, RefusedOK
<1>3. CASE StartOther /\ ~Leave
  <2>1. /\ pc' = "running"
        /\ UNCHANGED <<set, author, projectFile, sessionFile, refused>>
    BY <1>3 DEF StartOther, filesOnDisk, errors
  <2>2. Fontless(set')
    BY <2>1 DEF CneeInv, SetsOK
  <2> QED BY <2>1, <2>2, WordKeeps
<1>4. CASE /\ Leave
           /\ UNCHANGED <<author, projectFile, sessionFile, refused>>
  BY <1>4, LeaveKeeps
<1> QED
  BY <1>1, <1>2, <1>3, <1>4
     DEF StartRecorder, StartReplayer, StartOther, filesOnDisk, errors

(* So it is with the header; there only the line of the displays ends the   *)
(* process.                                                                 *)
LEMMA ReadHeaderKeeps ==
    ASSUME CneeInv, ReadHeaderLine
    PROVE  CneeInv'
<1> DEFINE r == HandleProject(set, Head(lines))
<1>1. /\ pc = "header" /\ lines # <<>>
      /\ UNCHANGED <<author, projectFile, sessionFile>>
      /\ \/ /\ r.class \in {"blank", "settings", "info"}
            /\ set' = r.set /\ lines' = Tail(lines)
            /\ UNCHANGED <<pc, refused>>
         \/ /\ r.class \in {"syntax", "crash"}
            /\ Leave /\ refused' = Head(lines)
  BY DEF ReadHeaderLine, filesOnDisk
<1>2. Fontless(set) /\ Fontless(r.set) /\ Fontless(author.session)
  BY LineKeeps DEF CneeInv, SetsOK
<1>3. Tells(lines, author.session, set)
  BY <1>1 DEF CneeInv, ReadingOK
<1>4. Head(lines) \in LinesOf(author.session)
  BY <1>1, <1>3 DEF Tells
<1>5. \/ r.class \in {"settings", "blank"}
      \/ Head(lines) = Displayed /\ r.class = "syntax"
  BY <1>2, <1>4, OneLineClass
<1>6. ASSUME r.class # "syntax"
      PROVE  Tells(Tail(lines), author.session, r.set)
  BY <1>1, <1>2, <1>3, <1>6, StillTells DEF Fontless
<1> HIDE DEF r
<1>7. CASE r.class # "syntax"
  <2>1. /\ set' = r.set /\ lines' = Tail(lines) /\ pc' = "header"
        /\ refused' = refused
    BY <1>1, <1>5, <1>7
  <2>2. SetsOK' /\ AuthorOK' /\ OwnOK'
    BY <1>1, <1>2, <2>1 DEF CneeInv, SetsOK, AuthorOK, OwnOK
  <2>3. ReadingOK'
    BY <1>1, <1>6, <1>7, <2>1 DEF ReadingOK
  <2> QED BY <1>1, <2>1, <2>2, <2>3 DEF CneeInv, RefusedOK
<1>8. CASE r.class = "syntax"
  <2>1. Leave /\ refused' = Displayed
    BY <1>1, <1>5, <1>8
  <2>2. pc' = "shell" /\ set' = Default
    BY <2>1 DEF Leave
  <2>3. Fontless(set')
    BY <2>2, DefaultIsGood DEF Fontless
  <2>4. SetsOK' /\ AuthorOK' /\ OwnOK'
    BY <1>1, <2>3 DEF CneeInv, SetsOK, AuthorOK, OwnOK
  <2> QED BY <2>1, <2>2, <2>4 DEF CneeInv, ReadingOK, RefusedOK
<1> QED
  BY <1>7, <1>8

(* Every step keeps it.                                                     *)
LEMMA CneeKeeps == CneeInv /\ [CneeNext]_cneeVars => CneeInv'
<1> SUFFICES ASSUME CneeInv, [CneeNext]_cneeVars
             PROVE  CneeInv'
  OBVIOUS
<1>1. CASE HeaderRead
  <2>1. /\ pc' = "running"
        /\ UNCHANGED <<set, author, projectFile, sessionFile, refused>>
    BY <1>1 DEF HeaderRead, filesOnDisk, errors
  <2>2. Fontless(set')
    BY <2>1 DEF CneeInv, SetsOK
  <2> QED BY <2>1, <2>2, WordKeeps
<1>2. CASE Finish
  BY <1>2, LeaveKeeps DEF Finish, filesOnDisk, errors
<1>3. CASE UNCHANGED cneeVars
  BY <1>3 DEF cneeVars, filesOnDisk, errors, CneeInv, SetsOK, AuthorOK, OwnOK,
              ReadingOK, RefusedOK
<1> QED
  BY <1>1, <1>2, <1>3, InvokeKeeps, CneeOptionKeeps, WriteKeeps, OpenKeeps,
     ReadProjectKeeps, WordsKeep, StartKeeps, ReadHeaderKeeps
     DEF CneeNext, Parse, Start

(* So it holds throughout, for any number of processes.                     *)
LEMMA CneeHolds == CneeSpec => []CneeInv
<1>1. CneeInit => CneeInv
  <2> SUFFICES ASSUME CneeInit
               PROVE  CneeInv
    OBVIOUS
  <2>1. /\ pc = "shell" /\ set = Default /\ refused = Blank
        /\ projectFile \in HandWritten \cup {<<>>} /\ sessionFile = <<>>
        /\ author = [project |-> Default, session |-> Default]
    BY DEF CneeInit
  <2>2. Fontless(Default)
    BY DefaultIsGood DEF Fontless
  <2> QED BY <2>1, <2>2 DEF CneeInv, SetsOK, AuthorOK, OwnOK, ReadingOK,
                            RefusedOK
<1> QED
  BY <1>1, CneeKeeps, PTL DEF CneeSpec

(* A project or a session that has been read to its end has set the limits, *)
(* the thresholds, the clients and the feedback to what they were in the    *)
(* process that wrote it, and every flag and range set there                *)
(* (xnee_set_project_file, the header phase of xnee_replay_main_loop).      *)
THEOREM WhatIsWrittenIsRead == CneeSpec => []WrittenIsRead
<1>1. ASSUME CneeInv
      PROVE  WrittenIsRead
  <2> SUFFICES ASSUME Own, lines = <<>>
               PROVE  /\ \A o \in Limited : set[o] = Author[o]
                      /\ \A o \in Flagged :
                           Author[o] = "on" => set[o] = "on"
                      /\ Author["ranges"] \subseteq set["ranges"]
    BY DEF WrittenIsRead
  <2>1. \/ pc = "project" /\ projectFile \notin HandWritten
        \/ pc = "header" /\ set["file"] # "default"
    BY DEF Own
  <2>2. Tells(lines, Author, set)
    BY <2>1, <1>1 DEF Author, CneeInv, ReadingOK
  <2>3. \A l : ~Occurs(l, lines)
    BY DEF Occurs
  <2>4. /\ \A o \in Stated(Author) : set[o] = Author[o]
        /\ Author["ranges"] \subseteq set["ranges"]
    BY <2>2, <2>3 DEF Tells
  <2>5. Limited \subseteq Stated(Author)
    BY DEF Limited, Stated, Thresholded
  <2>6. \A o \in Flagged : Author[o] = "on" => o \in Stated(Author)
    BY DEF Flagged, Stated, Switches
  <2> QED BY <2>4, <2>5, <2>6
<1> QED
  BY <1>1, CneeHolds, PTL

(* The one line cnee writes and cannot read is that of the displays the     *)
(* session was distributed to (xnee_print_distr_list).                      *)
THEOREM OwnLinesAreReadable == CneeSpec => []OwnIsReadable
<1>1. CneeInv => OwnIsReadable
  <2>1. Displayed.option = "Distribution display"
    BY DEF Displayed, Line
  <2> QED BY <2>1 DEF CneeInv, RefusedOK, OwnIsReadable
<1> QED
  BY <1>1, CneeHolds, PTL
=============================================================================
