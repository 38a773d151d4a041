-------------------------------- MODULE Cnee --------------------------------
(***************************************************************************)
(* The command line of cnee (cnee/src/parse.c, cnee/src/main.c) and the    *)
(* files in which settings travel: a project, written by --write-settings  *)
(* and read by --project, and the header of a session, written by a        *)
(* recorder and read by a replayer (xnee_replay.c, xnee_resource.c).       *)
(*                                                                         *)
(* The words of a command line come one at a time, and the parser looks    *)
(* one word ahead.  There is one project and one session file, and the     *)
(* shell sends the output of a recorder there.                             *)
(* What happens in the session itself is in Session, Record and Replay.    *)
(***************************************************************************)
EXTENDS Settings, Naturals

CONSTANTS
    Options,        \* options the user gives
    Values,         \* other words the user gives
    MaxOptions,     \* bound: options of all command lines, lines by hand
    MaxProcesses    \* bound: processes

Words == Options \cup Values

VARIABLES
    pc,           \* where the process is
    word,         \* argv[i], or None behind the last one
    set,          \* the settings in xd
    lines,        \* the lines of the file being read that are still to come
    projectFile,  \* the project file, <<>> when there is none
    sessionFile,  \* the header of the session file, <<>> when there is none
    author,       \* history: the settings each file was written from
    refused,      \* history: the line that could not be read
    failed,       \* history: what was wrong on the command line
    given, processes  \* counters for the bounds
filesOnDisk == <<projectFile, sessionFile, author>>
errors == <<refused, failed>>
bounds == <<given, processes>>
cneeVars == <<pc, word, set, lines, filesOnDisk, errors, bounds>>

Asking == {"print-event-name", "print-error-name", "print-request-name"}
Needy == {"file", "project", "write-settings", "retype-file",
          "replay-backend"} \cup Asking
Prints == {"help", "version", "print-settings", "print-event-names"}

CneeInit ==
    /\ pc = "shell" /\ word = None /\ set = Default /\ lines = <<>>
    /\ projectFile \in HandWritten \cup {<<>>}
    /\ sessionFile = <<>>
    /\ author = [project |-> Default, session |-> Default]
    /\ refused = Blank /\ failed = "nothing"
    /\ given = Len(projectFile) /\ processes = 0

Ahead == IF given < MaxOptions THEN Words ELSE Values

(* A process starts; without any word it prints an error and leaves.        *)
Invoke ==
    /\ pc = "shell" /\ processes < MaxProcesses
    /\ \E w \in Ahead : word' = w /\ given' = IF w \in Options THEN given + 1
                                                            ELSE given
    /\ set' = Default /\ lines' = <<>> /\ pc' = "words"
    /\ refused' = Blank /\ failed' = "nothing"
    /\ processes' = processes + 1
    /\ UNCHANGED filesOnDisk

-----------------------------------------------------------------------------

(* The process ends, and its settings with it.                              *)
Leave == pc' = "shell" /\ word' = None /\ set' = Default /\ lines' = <<>>

NextWord == /\ pc' = "words"
            /\ \E w \in Ahead \cup {None} :
                 word' = w /\ given' = IF w \in Options THEN given + 1
                                                        ELSE given

(* The next word: the one looked at, or the one behind it.                  *)
Continue(arg, uses) ==
    /\ IF uses = 0 \/ arg = None
         THEN /\ word' = arg /\ pc' = "words"
              /\ given' = IF arg \in Options THEN given + 1 ELSE given
         ELSE NextWord
    /\ UNCHANGED lines

(* xnee_parse_cnee_option for the options that set something, those with an *)
(* argument, which none of them looks at, and those without.                *)
CneeOption ==
    /\ pc = "words"
    /\ \/ word = "file" /\ set' = [set EXCEPT !["file"] = "given"]
       \/ word = "retype-file" /\ set' = [set EXCEPT !["mode"] = "retyper"]
       \/ word = "replay-backend" /\ UNCHANGED set
       \/ word = "check-syntax" /\ set' = [set EXCEPT !["mode"] = "checker"]
       \/ /\ word \in {"keyboard", "mouse"}
          /\ set' = ParseRange(set, "device-event-range",
                        IF word = "keyboard" THEN "2-3" ELSE "4-6").set
    /\ NextWord
    /\ UNCHANGED <<lines, filesOnDisk, errors, processes>>

(* The options that print something, and leave.                             *)
PrintAndLeave ==
    /\ pc = "words" /\ word \in Prints
    /\ Leave
    /\ UNCHANGED <<filesOnDisk, errors, bounds>>

(* The options that answer a question: the number or name of some data, and *)
(* the event base of XInput.  Where there is no answer, the parser returns  *)
(* its error at once, and main prints it and starts the session.            *)
Answer ==
    /\ pc = "words" /\ word \in Asking \cup {"get-xinput-event-base"}
    /\ \/ Leave /\ UNCHANGED failed
       \/ /\ pc' = "start"
          /\ failed' = IF word \in Asking THEN "no name" ELSE "no xinput"
          /\ UNCHANGED <<word, set, lines>>
    /\ UNCHANGED <<filesOnDisk, refused, bounds>>

(* cnee_write_settings_to_file writes what is set so far, and leaves.  The  *)
(* displays are not open yet.                                               *)
WriteSettings ==
    /\ pc = "words" /\ word = "write-settings"
    /\ projectFile' = ProjectLines(set, FALSE)
    /\ author' = [author EXCEPT !.project = set]
    /\ Leave
    /\ UNCHANGED <<sessionFile, errors, bounds>>

(* xnee_set_project_file: a file that is not there is looked for in the     *)
(* directory of resources, but never opened there.                          *)
SetProjectFile ==
    /\ pc = "words" /\ word = "project"
    /\ IF projectFile = <<>>
         THEN pc' = "start" /\ UNCHANGED lines /\ failed' = "no project"
         ELSE pc' = "project" /\ lines' = projectFile /\ UNCHANGED failed
    /\ UNCHANGED <<word, set, filesOnDisk, refused, bounds>>

(* xnee_add_resource: a line that informs of the project ends the reading   *)
(* and nothing is said; one that cannot be read is an error.                *)
ReadProjectLine ==
    /\ pc = "project" /\ lines # <<>>
    /\ LET line == Head(lines)
           l == HandleProject(set, line)
       IN \/ /\ l.class \in {"blank", "settings"}
             /\ set' = l.set /\ lines' = Tail(lines)
             /\ UNCHANGED <<pc, word, refused, failed, given>>
          \/ /\ l.class = "info"
             /\ set' = l.set /\ lines' = <<>> /\ NextWord
             /\ UNCHANGED <<refused, failed>>
          \/ /\ l.class = "syntax"
             /\ set' = l.set /\ lines' = <<>> /\ pc' = "start"
             /\ refused' = line /\ failed' = "project"
             /\ UNCHANGED <<word, given>>
          \/ /\ l.class = "crash"
             /\ Leave /\ UNCHANGED <<refused, failed, given>>
    /\ UNCHANGED <<filesOnDisk, processes>>

EndProject ==
    /\ pc = "project" /\ lines = <<>>
    /\ NextWord
    /\ UNCHANGED <<set, lines, filesOnDisk, errors, processes>>

(* xnee_parse_cli_option, for a word cnee has no option for.                *)
LibOption ==
    /\ pc = "words" /\ word \in LibOptions
    /\ \E arg \in Ahead \cup {None} :
         LET o == ParseOption(set, word, arg)
         IN /\ o.ret = "ok"
            /\ set' = o.set
            /\ Continue(arg, o.uses)
    /\ UNCHANGED <<filesOnDisk, refused, failed, processes>>

(* A word no table has, and an option whose argument is missing or wrong,   *)
(* or a file that cannot be written: these errors the parser does not       *)
(* return.                                                                  *)
Wrong(w) ==
    w \in Values \cup Needy \cup
           {v \in LibOptions \cap {w} : \E arg \in Words \cup {None} :
                                ParseOption(set, v, arg).ret = "error"}

(* Mutant of BadWord: the error is printed, and the words left alone.       *)
BadWordGoesOn ==
    /\ pc = "words" /\ word # None
    /\ Wrong(word)
    /\ pc' = "start" /\ failed' = "word"
    /\ UNCHANGED <<word, set, lines, filesOnDisk, refused, bounds>>

(* An error is printed, and the process closes down and exits.              *)
BadWord ==
    /\ pc = "words" /\ word # None
    /\ Wrong(word)
    /\ Leave /\ failed' = "word"
    /\ UNCHANGED <<filesOnDisk, refused, bounds>>

(* An option that has no argument to scan.                                  *)
CrashOnWord ==
    /\ pc = "words" /\ word \in LibOptions
    /\ ParseOption(set, word, None).ret = "crash"
    /\ Leave
    /\ UNCHANGED <<filesOnDisk, errors, bounds>>

(* main: the session is started, as it is after an error that is returned.  *)
WordsDone ==
    /\ pc = "words" /\ word = None
    /\ pc' = "start"
    /\ UNCHANGED <<word, set, lines, filesOnDisk, errors, bounds>>

Parse == CneeOption \/ PrintAndLeave \/ Answer \/ WriteSettings
           \/ SetProjectFile \/ ReadProjectLine \/ EndProject
           \/ LibOption \/ BadWord \/ CrashOnWord \/ WordsDone

-----------------------------------------------------------------------------

(* A recorder that has data to record writes its header first.              *)
StartRecorder ==
    /\ pc = "start" /\ set["mode"] = "recorder"
    /\ IF set["ranges"] = {}
         THEN Leave /\ UNCHANGED filesOnDisk
         ELSE /\ pc' = "running"
              /\ sessionFile' = HeaderLines(set)
              /\ author' = [author EXCEPT !.session = set]
              /\ UNCHANGED <<word, set, lines, projectFile>>
    /\ UNCHANGED <<errors, bounds>>

(* A replayer reads the header of its file, which has to be there, or of    *)
(* the standard input, where there is none.                                 *)
StartReplayer ==
    /\ pc = "start" /\ set["mode"] = "replayer"
    /\ IF set["file"] # "default" /\ sessionFile = <<>>
         THEN Leave
         ELSE /\ pc' = "header"
              /\ lines' = IF set["file"] = "default" THEN <<>> ELSE sessionFile
              /\ UNCHANGED <<word, set>>
    /\ UNCHANGED <<filesOnDisk, errors, bounds>>

(* A syntax checker is done, a retyper types, and without a mode there is   *)
(* nothing to do.                                                           *)
StartOther ==
    /\ pc = "start" /\ set["mode"] \notin {"recorder", "replayer"}
    /\ IF set["mode"] = "retyper"
         THEN pc' = "running" /\ UNCHANGED <<word, set, lines>>
         ELSE Leave
    /\ UNCHANGED <<filesOnDisk, errors, bounds>>

(* The header phase of xnee_replay_main_loop.                               *)
ReadHeaderLine ==
    /\ pc = "header" /\ lines # <<>>
    /\ LET line == Head(lines)
           l == HandleProject(set, line)
       IN \/ /\ l.class \in {"blank", "settings", "info"}
             /\ set' = l.set /\ lines' = Tail(lines)
             /\ UNCHANGED <<pc, word, refused>>
          \/ /\ l.class \in {"syntax", "crash"}
             /\ Leave /\ refused' = line
    /\ UNCHANGED <<filesOnDisk, failed, bounds>>

HeaderRead ==
    /\ pc = "header" /\ lines = <<>>
    /\ pc' = "running"
    /\ UNCHANGED <<word, set, lines, filesOnDisk, errors, bounds>>

(* The session is over.                                                     *)
Finish ==
    /\ pc = "running"
    /\ Leave
    /\ UNCHANGED <<filesOnDisk, errors, bounds>>

Start == StartRecorder \/ StartReplayer \/ StartOther
           \/ ReadHeaderLine \/ HeaderRead

CneeNext == Invoke \/ Parse \/ Start \/ Finish

CneeSpec == CneeInit /\ [][CneeNext]_cneeVars

-----------------------------------------------------------------------------

(* What is written without being a comment.                                 *)
Limited == LimitOptions \cup {"max-threshold", "min-threshold",
                              "tot-threshold", "clients", "feedback"}
Flagged == {"first-last", "store-mouse-position", "human-printout",
            "no-reparent-recording"}

(* The file is one the program has written.                                 *)
Own == CASE pc = "project" -> projectFile \notin HandWritten
         [] pc = "header"  -> set["file"] # "default" /\ sessionFile # <<>>
         [] OTHER          -> FALSE

(* The settings it was written from.                                        *)
Author == IF pc = "project" THEN author.project ELSE author.session

(* A project or session file that has been read to its end has set the      *)
(* limits, the thresholds, the clients and the feedback to what they were   *)
(* in the process that wrote it, whatever the command line said before, and *)
(* every flag and every range that was set there is set here.               *)
WrittenIsRead ==
    Own /\ lines = <<>> =>
      /\ \A o \in Limited : set[o] = Author[o]
      /\ \A o \in Flagged : Author[o] = "on" => set[o] = "on"
      /\ Author["ranges"] \subseteq set["ranges"]

(* The one line the program writes and cannot read is that of the displays  *)
(* the session was distributed to.                                          *)
OwnIsReadable ==
    refused # Blank /\ projectFile \notin HandWritten =>
      refused.option = "Distribution display"

(* What the parser returns to main, which prints it and forgets it.         *)
Forgotten == {"no project", "project", "no name", "no xinput"}

(* A command line that was refused starts no session and writes no file,    *)
(* but for the errors main forgets: a project that is missing or wrong, and *)
(* a question that has no answer.  Of those only a recorder writes, and     *)
(* only the session file.                                                   *)
RefusedRunsNot ==
    [][/\ pc' \in {"header", "running"} =>
            failed' \in Forgotten \cup {"nothing"}
       /\ sessionFile' # sessionFile => failed \in Forgotten \cup {"nothing"}
       /\ projectFile' # projectFile => failed = "nothing"]_cneeVars
=============================================================================
