# A TLA+ model of Xnee

GNU Xnee records what a user of the X Window System does and replays it.  The
library libxnee does both; cnee, gnee and pnee are its front ends.  This
directory holds TLA+ specifications of the library and of the three front ends,
the TLC configurations that check them on small instances, and proofs, for every
instance, of the properties that matter most.

## The system

A *recorder* asks the RECORD extension of the X server for a selection of
events, requests and replies and writes one line for each to a session file. A
*replayer* reads the file and fakes the device events (keys, buttons, motion)
with XTest.  Between them it waits until the server has produced the other data
the file mentions: that is the *synchronisation*.  A *retyper* types a text.

    cnee: words, projects     gnee: widgets, projects     pnee: buttons, threads
            \                        |                        /
             +---- settings ---- xnee_start / xnee_stop ----+
                                     |
    signal handler, Stop --- interrupt variable ---------+-----------------+
                                                         v                 v
    X server --RECORD--> xnee_record_dispatch --> recorder loop --> session file
    X server --RECORD--> xnee_replay_dispatch --> sync buffer <---- session file
                                |                    |                |
                                v                    v verdict        v
                       window positions     xnee_replay_synchronize -> pace -> XTest

### Components

| component | state | operations | what makes it correct |
|---|---|---|---|
| sync buffer (`xnee_buffer.c`) | one counter per datum, cached extremes with sentinels, totals, static counter of hard updates | count a datum read or received, soft and hard update, check | the cached extremes stand for entries, an alarm has a cause, a drift is found in time |
| replayer (`xnee_replay.c`, lines from `xnee_expr.c`) | position in the file, static line buffer, static time-out counters | META phase, main loop, synchronisation loop, dispatch, keys | each event of its own file once and in order; gives up only when it may; ends; stops when told |
| pace (`xnee_time.c`, `xnee_fake.c`) | server times, two clock readings, static rests | reset, read the clock, compute a wait, sleep or keep it | waits add up; what makes a replay early or late is known |
| faking and retyping (`xnee_fake.c`, `xnee_keysym.c`, `xnee_expr.c`, `xnee_resolution.c`) | what is down on each display, the pointer, static resolution | fake an event, a script line, a character; distribute | the displays show what was recorded |
| recorder (`xnee_record.c`, limits in `xnee_session.c`, keys in `xnee_km.c`) | counters and limits, the clock, RECORD context | loop, dispatch of one datum, pause and resume | limits are exact and final; stops when told |
| device events (`xnee_record.c`, `print.c`) | held-back motion, static override of the action keys | print an event, filter motions | the file says what the user did |
| session life cycle (`xnee.c`, `xnee_session.c`, `xnee_display.c`, `xnee_grab.c`, `xnee_alloc.c`) | displays, grabs, autorepeat, dynamic data | prepare, start, stop, renew | what a session takes it gives back, on every way out |
| ranges (`xnee_range.c`) | selected data per type, ranges handed to RECORD | add, remove, set ranges, workarounds | the ranges are exactly the selection |
| window positions (`xnee_window.c`) | two bounded static lists | read, receive, try to move | a position goes to its window, no list overflows |
| settings (`xnee_resource.c`, `xnee_setget.c`, `xnee_threshold.c`, `print.c`) | the fields of `xnee_data` | parse an option, write a project or header, read it | what is written is read back |
| cnee (`parse.c`, `main.c`) | the words still to parse | parse, open a project, start | a refused command line starts nothing, but for the errors `main` forgets |
| gnee (`callbacks.c`, `gnee_xnee.c`, `recordables.c`) | widgets, lists, what is grabbed | one callback per widget, sessions, projects | the window shows what is set |
| pnee (`pnee_impl.c`, `callbacks.c`) | state of the buttons, interrupt variables, counter of presses, threads | record, replay, stop, update | a stop reaches the session that runs |

### What is hard

* The X server delivers at any time RECORD is polled, in any order against the
  file; the user interface and the signal handler write the interrupt variable
  at any time; the threads of pnee share their state without a lock.
* Values are cached and marked invalid by sentinels, and refreshed in part.
* Static variables (line buffer, time-out counters, time stamp, hard-update
  counter, lists of windows, resolution, clock readings, short waits, the
  override of the keys) live longer than a session, and gnee and pnee run many
  sessions in one process.
* Loops have early returns that skip the resets at their end, and a session may
  fail after any of its steps.
* Limits use a negative rest for "no limit", so stepping over one turns it off.
* Settings live in `xnee_data`, in widgets, in ranges and in files, and go back
  and forth between them.

`PROJECT.json` lists the hazards one by one with their lines.

## Modules

| module | stands for | notes |
|---|---|---|
| `SyncBuffer` | `xnee_buffer.c`, `xnee_replay_init` | actions `Replayed`, `Received`, `UpdateBufferCache`, `CheckBufferLimits`, `ReplayInit` |
| `ReplayOrder` | | the abstract promise: a session fakes its events once and in order, and all of them when it ends by itself |
| `Replay` | `xnee_replay.c` with `SyncBuffer` as `Buffer` | refines `ReplayOrder` with `due <- Events(file, opts, session)` |
| `Pace` | `xnee_time.c`, the sleeping of `xnee_fake.c` | the waits of a replay |
| `Record` | `xnee_record_async`, `xnee_record_dispatch`, `xnee_more_to_record` | |
| `Ranges` | `xnee_range.c`, `xnee_get_max_range`, `xnee_setup_recordext`, the renewal of the ranges | |
| `Session` | `xnee.c`, `xnee_session.c`, `xnee_display.c`, `xnee_grab.c`, `xnee_alloc.c` | many sessions, each step of which may fail |
| `WindowPos` | `xnee_window.c` and the lines and events that call it | |
| `DeviceEvents` | how an act of the user becomes lines of the session file | |
| `Fake` | how lines, scripts and texts become acts on the displays | |
| `RoundTrip` | | `DeviceEvents` and `Fake` composed by the file between them |
| `Settings` | the table and switch of `xnee_resource.c`, the setters, the writing of projects and headers | operators on a record of settings |
| `Cnee` | `parse.c`, `main.c` of cnee | `Settings` with the words of a command line and two files |
| `Gnee` | `callbacks.c`, `gnee_xnee.c`, `recordables.c` of gnee | `Settings` with widgets |
| `Applet` | `pnee_impl.c`, `callbacks.c` of pnee | one process per thread |
| `SyncBufferProofs`, `ReplayProofs`, `SessionProofs`, `WindowPosProofs`, `AppletProofs` | | the proofs about the module of their name |
| `FidelityProofs` | | the proofs about `Pace` and `RoundTrip`: when, where and what a replay repeats |
| `RecordProofs` | | the proofs about `Record` and `Ranges` |
| `FrontEndProofs` | | the proofs about `Cnee` and `Gnee` |
| `MC...` | | constants for TLC |

Definitions named *Mutant* in their comment are deliberately wrong forms of the
definition that follows them.  No specification uses them; `PROJECT.json` pairs
each with the property that detects it.

### SyncBuffer

`buf[d]` is `data_buffer[d[1]][d[2]]`.  Entries of data that do not occur stay
0 and are left out; the loops over the 256 entries of a row start from 0, hence
the 0 in `RowValues`.  The loops that repeat an update ten times without a
change in between are one update.  A cached maximum of -1 and a cached minimum
of +1 mark an invalid value.  `SoftMax`, `SoftMin` say what the soft update
leaves: it refreshes an invalid value from the EVENT row, and finds no mark
when it comes to the REQUEST row.  `read`, `seen`, `missed` and `checked` are
history.  `xnee_is_replayer` holds wherever the buffer is used; when RECORD data
of a replay is handled and `XNEE_USE_SEMAPHORES` is not defined (no build
defines it) there is one thread.

### Replay

`pc` is the place of the replaying thread: `meta` (the META phase), `setup`,
`line` (before the tests at the top of the main loop), `process` (in the loop of
`xnee_replay_synchronize`, where RECORD is polled), `fake`, `read` (before
`fgets`).  A line is its kind and, for a datum, the datum: `core` is a `0,` line
with a device event, `slave` and `master` are `7,` and `6,` lines, `prim` a
script primitive such as `xnee-fake-motion`, `window` stands for lines that only
the replay phase accepts.  The META phase is one action: nothing else looks at
its state, and the interrupt variable is not read in it.  `Events` is what a
file asks for, given the settings: with XInput support and without forced core
events only the slave events of a file reach XTest, because
`xnee_replay_event_handler` drops core and master events then.  The pair of
cache updates in a round of the synchronisation loop is the update inside the
check: an update that finds the caches valid changes nothing, and one that finds
a mark leaves what the next one would leave.  Where the check makes a hard
update, the refreshed caches are among the values the hard update looks at.

### Record

A datum is counted, not represented.  `limits` are the three maxima, negative
for none.  `Left` is the test of a rest against 0 after a negative rest was
mapped to 1.  `TimeNow` is the time after `xnee_record_update_time_left`, which
adds one second per call however many have passed.  `context` and `lost` say
which RECORD contexts deliver.  Where the contexts belong to the data display
(`OnData`), which no session closes, one that a session left enabled (`Freed` is
false: it ended by the STOP key or an error, so `xnee_renew_xnee_data` was not
called) goes on sending in the next session, and every datum arrives twice.  The environment ticks, sends, presses keys and
asks the session to stop.

### Ranges

`list` is `xnee_ranges`, sequences because the workaround of a replay appends to
a sorted list.  `setup` holds `data_ranges` (`count`), `range_array` (`slots`, a
function on the indices that hold a range, so a hole is an index below the
maximum that is missing) and whether the vendor is known (`known`).
`WithRanges` is the loop of `xnee_set_ranges` over the types in their order,
`AddRuns` the one over the runs of a list; the loops are recursive functions on
the positions of a list.  Numbers of data are `1..MaxNumber`.  `AddRange` is `xnee_add_range` with its
workarounds, which write into the slots and counts of other types and call it
again.  `Told(t)` is what RECORD or a project file gets of type `t`.  `Add`,
`Exclude`, `Save`, `OpenProject`, `StartRecord` and `StartReplay` are what cnee
does once and gnee again and again on the same data; only `EndSession` renews
them.  `wanted` and `ever` are histories in sets: what the lists ought to be.
What a write to a hole destroys is not modelled; the properties that follow a
hole say so.

### Pace

Times are milliseconds and the clock runs forwards.  `Begin` stands for the META
phase too: it breaks at the first line to replay (`xnee_replay.c:298`), leaves
that line in `tmp` and sets `last_logread` (`:553-556`), so the clock of a session
starts at its first line however the session before it ended.  Only a file
without a line returns before that; its session takes `last_logread` and the
line in `tmp` as the session before left them.  Then one action per line read:
`ReadData` for a line that is not faked, `FakeEvent` for one that is (`WaitAt`
with the three computations of the wait, `NormalAmount`, `SlowAmount`,
`FastAmount`, and the clock they read), `DeviceGone` for a motion whose XInput
device is missing (a wait is computed, and neither waited nor kept), `Stop` and
`EndOfFile`.  `stored`, `collected` and `logread` are static in the code and
survive a session.  A line recorded before the first one gives an unsigned
difference that wraps at `Word`.  The single-precision comparisons of `xnee_time.c`
differ from exact ones at two ratios, and `Compensation` follows them.  `owed`,
`took`, `ahead` and `before` are histories.  `usleep` takes its microseconds in
32 bits; waits of more than 71 minutes, where that matters, are not modelled.

### DeviceEvents, Fake and RoundTrip

`DeviceEvents` has one action per act of a user (`Press`, `Release`, `Move`);
each writes its lines.  With XInput an act is an event of a slave device, and of
a master if masters are recorded; no filter applies to it.  Without, it is a core
event, which passes the filter of motions (`HoldBack`, `HeldBack`) and the one of
the action keys (`Keeps`).  The filters are static and outlive a recording.

`Fake` has a `screen` for the main display and each display of the distribution
list: what is down, the pointer, the presses and releases and the characters
typed.  A line of a session file, a line of a script and a character have one
action each.  `Modifiers` is `xnee_token_to_km` with the order in which it tries
the masks, `diff` the static of `xnee_resolution_newx`.  A device of the recording
may be missing at the replay (`opts.gone`): its motions come to nothing
(`xnee_fake.c:663`), a key or button of it is passed to XTest with no device and
ends the process (`CrashOnLine`, `:555`).

`RoundTrip` composes the two: the file written by the one is the input of the
other, in one process and in any order with scripts and texts.  `Due(d)` is what
the acts of the user come to on display `d`, `Done(d)` what was faked there; both
leave out what `Shown(d)` does not hold, by the recursive function `Upto`.

### Session

One action per step of `xnee_start`: files, displays, the header, displays again,
autorepeat, grabs, the mode; each may fail, and then `xnee_start` returns at
once.  The keys are grabbed one by one (`OpenGrab`, a `GrabKey` for each action,
`GrabAllKeys`), and `left` says which are still to come.  The loop is `pc = "loop"`, left by `LeaveOnInterrupt`, `LeaveLoop` or
`LoopFails`; a good end gives back (`EndGood`), the process closes down
(`CloseDown`) or exits (`ExitWithError`).  A SIGINT may come between any two
steps, that of one key and the next too; one between the two statements that
note a key and grab it (`xnee_grab.c:372-389`) is not modelled.  `repeat` belongs to the X server and outlives the process; `users` is
what the user had.

### WindowPos

`sess` and `rec` are the two arrays with their indices `si` and `ri`.  A try is
three actions (`Test`, `Adjust`, `GiveUp`), for a window manager that puts a
window where it is told, one that adds a frame, and one that refuses.  `Shifted`
is the removal of the newest entry with what it reads behind the array:
`Garbage`.  `pairs` and `lockstep` are histories.

### Settings, Cnee and Gnee

`Settings` is a module of operators.  A setting is named after its option, its
value is the word given.  What a word is to `sscanf` and to the checks of the
setters is given by constants (`Numbers`, `Truths`, `Lists`, ...).
`ParseOption(set, w, arg)` is `xnee_parse_option`: the new settings, whether the
argument was used, and whether the call succeeded, failed or crashed.
`ProjectLines` and `HeaderLines` are what `print.c` writes, `HandleProject` what
`xnee_expr.c` does with a line.

`Cnee` reads the words of a command line one by one and looks one ahead, as the
parser does.  `BadWord` is an error the parser ends the process for; `Answer`,
`SetProjectFile` and `ReadProjectLine` have errors it returns (`parse.c:671-682`),
after which `main` starts the session with what is set so far.  The project and
the session file outlive the process; `author` is
the record of settings a file was written from.

`Gnee` has one action per callback of a widget.  `shown` is what the widgets
show, `xd` what is set; `Reflect` is `gx_set_xd_settings`, whose changes of the
widgets call the callbacks again (`Echo`).  `overridden` and `lost` are
histories.

### Applet

One program counter per thread: of Record and Replay (`worker`), of Stop
(`stopper`) and the updater.  Everything they share is read and written without
a lock, one access per action: the state of the buttons, the interrupt variable,
the counter of the presses of Stop, which a thread reads in one step and writes
in another.  `xd` is the `xnee_data` in use; the updater makes it anew while
threads still run on the old one.

## Runs

| run | question | instance | states |
|---|---|---|---|
| `sync_buffer` | do the caches stand for the buffer? | four data (an event, two requests, one of them numbered like a button event, a reply), each read and received up to twice, thresholds 1, -1 and 2, a hard update after two soft ones | 382,000 |
| `replay` | does the replayer keep its promise? | two sessions, four files with lines of every kind, three settings, one stop | 91,000 |
| `pace` | is no wait lost, and is a drift explained? | two sessions, half, recorded and double percentage, four files with short, long, backward waits, protocol data and missing devices, and an empty one, times up to 200, a line takes 0, 3 or 25 ms, a sleep up to 1 too many | 458,000 |
| `record` | are the limits exact and final? | two sessions, limits on events, data, both, time and none, up to four data, two per poll, two ticks, one stop, contexts on the data display | 85,000 |
| `round_trip` | is what is replayed what was recorded? | a recording of two acts on keys and buttons with motions between, three ways to record, four ways to replay, with the keyboard missing in one and the pointer in another, two displays, a script, two texts, two sessions | 1,493,000 |
| `session` | is what was taken given back? | cnee, and gnee with three sessions, two keys, two SIGINTs and one X error, each step may fail | 65,000 |
| `ranges` | are the ranges what was asked for? | six entries, three exclusions, three kinds of server, three edits, three calls of `xnee_set_ranges` on the same data, two sessions | 647,000 |
| `window_pos` | does a position go to its window? | lists of two places, two moves, three window managers, two windows in each of two sessions, each with any number of parents | 651,000 |
| `cnee` | is what is written read back? | three processes, up to five options of eighteen kinds, three projects written by hand | 388,000 |
| `gnee` | does the window show what is set? | four acts of the user, sessions among them, three projects, two session files | 494,000 |
| `applet` | is one session run at a time? | two sessions, two presses of Stop, two resets, a delay of one second | 176,000 |
| `first_last` | does `--first-last` print the last motion? | as `round_trip` | violated |

The bounds are small but every case happens in them: two sessions are enough for
a value that survives a session to meet the next one, three for one that fails
between two others; two reads of three data drift over the thresholds and back;
`MaxSkipped` 1 and a total threshold of 2 give sessions that wait, time out, skip
an event and give up; two data per poll let a poll step over a limit; two calls
of `xnee_set_ranges` make a hole, and the third meets it; lists of two places
fill up, refuse an entry and are read behind their end; two presses of Stop are
what the updater waits for, and what it may count twice or forget.  In
`round_trip` a constraint keeps scripts and recordings apart: a process that
records plays only what it recorded.  `CHECK_DEADLOCK FALSE` is given where the
system may stop: after the last session nothing need happen.

### What the properties say

* `CacheAttained`: no phantom drift, whatever happened between two refreshes.
* `AlarmEarned`: the check reports a difference only if there is one.
* `MissedBounded`: a drift is overlooked by at most `HardPeriod` checks in a
  row.  With the code's period of 10 a replay may fake up to ten events
  although a request is beyond its threshold.
* `TotalsExact`: what the totals mean.
* `FaultEarned`, `SkipsBounded`: when a replay gives up, and how often it goes
  on without sync.
* `StopPrompt`: at most two events are faked after a request to stop.
* `KeepsPromise`: `Replay` implements `ReplayOrder`.
* `SessionsEnd`, `LimitEnds`, `SignalEnds`, `TriesEnd`, `ReplayFrees`: liveness.
* `WaitsKept`: waits too short to be slept add up, across events and sessions.
* `DriftExplained`: what makes a replay early or late.
* `LimitsKept`, `RefusalFinal`, `DroppedByEventOnly`: limits and stops of a
  recording.
* `SameActs`, `SamePlaces`, `LastIsKept`: what a round trip preserves; `SamePlaces`
  is about replays that have the pointer recorded.
* `TypedRight`, `NothingHeld`: a text is typed as it is, if no character needs
  Control or Lock, and nothing stays down.
* `RepeatKnown`, `ClosedRestores`, `GoodEndReleases`: auto-repeat and grabs,
  whatever failed and however many sessions ago.
* `ListIsWanted`: sorting, exclusions and the workaround that removes and adds
  ReparentNotify leave the lists what the user made them.
* `AskedIsTold`: all that is listed is in the ranges, although errors, delivered
  and device events write into each other's slots.  The exception is real: on
  X.Org 1.6 to 1.8 a project with device events alone is saved with delivered
  events only, because the nested call allocates the slot again.
* `ToldWasAsked`: nothing is told that was never asked for, and exactly what is
  wanted when ranges are made once.  Made again, they keep what was excluded
  in between: `xnee_set_ranges` only adds.
* `PairedRight`, `DefinedUntilFull`: marks and windows are paired right while
  they come by turns, and the lists are defined until one is full.
* `WrittenIsRead`, `OwnIsReadable`: projects and session headers of cnee.
* `RefusedRunsNot`: a refused command line starts no session and writes no file,
  except where the error is one that `main` forgets (`Forgotten`); such a session
  may write its session file, but no project is written.
* `GuiReflects`, `EventsRecorded`, `KeysGrabbed`, `LostAfterSession`: the window
  of gnee against what is set, recorded, grabbed and saved.
* `OneUnlessStopped`, `ResetEarned`: the threads of pnee.

Each property says in its comment under which conditions it holds; a condition
is there because the code breaks the property without it, and the list below
says how.

### Where code and documentation, or code and intention, differ

`first_last` is violated: `xnee_prot.texi:168` says that first and last of
successive motions are printed, but a row of one motion is followed by one that
was never made (`xnee_record.c:448`).  Besides, the models are faithful to what
the code does where a reader may not expect it:

*Replaying.*
* The requests 2 to 6 are not decremented on reception (`xnee_buffer.c:251`,
  against `xnee_intern.texi:132`), and the soft update skips the REQUEST row
  (`xnee_buffer.c:389`).
* The static line buffer makes an empty file replay the last line of the session
  before it (`xnee_replay.c:216`).
* The newest window received is paired with the newest mark read, whatever lies
  before them; the removal from a full list reads behind it (`xnee_window.c:349`,
  `:259`).
* `--speed-percent` scales the recorded times, so 200 is slower than recorded,
  against `xnee_exampl.texi:119-128`.  A wait is measured from the line before, so
  protocol data or a motion that is not faked between two events lose it.  A slowed replay takes the wait before the last event for a
  part of the next.
* A stop between a press and its release leaves the key down.
* A replay with a device of the recording missing leaves its motions out and
  crashes at its first key or button.
* Core events of a recording are not faked by a build with XInput, unless core
  events are forced.
* `--recorded-resolution` has no effect: `xnee_setup_display` sets it to that of
  the display (`xnee_display.c:109`, against `xnee_exampl.texi:498-500`).  Whether
  places are scaled is decided once in a process.

*Retyping.*  A character that needs Control gets the key of Lock, and one that
needs Lock the key of Control: the masks are in another order than the rows of
the modifier map (`xnee_keysym.c`).  With a distribution list the modifiers are
sent as presses when they are released.  Any action key ends a pause; RESUME makes a RECORD context as well.

*Recording.*
* The dispatch of an event clears the interrupt variable (`xnee_record.c:552`),
  and a limit on time may be stepped over (`xnee_session.c:744`), after which it
  is none.
* A recording on the data display that ends by the STOP key leaves its context
  enabled; the next one records every datum twice.
* Held-back motions survive a recording; so does the override that lets action
  keys into the file.  A recording never distributes.
* Errors and delivered events count in each other's slots (`xnee_range.c:551`);
  a replay after a refused recording is not quiet.

*Sessions.*  An error in cnee leaves auto-repeat off.  A display that cannot be
opened leaves nothing to restore it with.  Grabbing keys loses the program's
handler of X errors.  Renewing the data forgets the names of the keys.

*cnee.*
* `main` overwrites the error of the parser (`main.c:96`): a project that is missing
  or has a syntax error, `--print-event-name`, `--print-error-name` and
  `--print-request-name` with a name or number nobody knows
  (`print.c:1804`, `:1815`, `:1826`) and
  `--get-xinput-event-base` without XInput (`parse.c:596`) are reported, the words
  behind them left unread, and the session starts.
* A project that begins with its name ends the reading there, and nothing is
  said: so are those that gnee writes once a session has opened its displays.
* The font line that XOSD feedback adds, and a header with a distribution list,
  cannot be read back.
* `--future-clients --record` is refused, `--feedback-none` swallows the next
  word, a word that is no number is accepted for `--replay-offset`, and `--time`
  and the ranges crash without an argument.

*gnee.*
* The buttons to include and to exclude are swapped; replies cannot be recorded
  by name, and a project with a range of replies ends the program; the predefined
  Mouse and Keyboard are never recorded.
* The radio button of Xnee's format sets the human one; "None" never unsets a
  key; a replay grabs no keys; unlimited time becomes 0.
* A delay that is typed takes effect with the value before it, one set with the
  arrows with its own; the keys that change the value end gnee, because
  "change_value" is connected to `gtk_main_quit` (`interface.c:1302`).
* To recall window positions adds ReparentNotify to what is recorded, and not to
  recall them leaves it there.
* Opening a project that is missing ends the program.

*pnee.*
* Stop frees the buttons before the session has ended, so a second one may start,
  and the interrupt may reach it instead.
* Two presses of Stop close the session data down under a session that runs.
* A recorder clears the interrupt variable with each event, so that Stop may do
  nothing.

### Fairness

* `Replay`: `WF_vars(Replayer)`, `Record`: `WF_vars(Recorder)`: the thread that
  runs a loop is scheduled and its calls of Xlib return.  The loops sleep but
  never block on something another party must do: a round of the synchronisation
  loop is taken whether or not the server has sent anything.
* `Session`: `Prepare \/ EndGood`, and `LeaveOnInterrupt` of a replayer, whose
  loop looks at the variable at every line.  Not of a recorder: an event may
  clear the variable before it looks.
* `WindowPos`: `Test \/ Adjust \/ GiveUp`, one call that waits for nobody.
* `Applet`: each thread is scheduled; a replay comes to the end of its file, a
  recording need not.

Nothing is assumed of the server, the user or the clock.  `SessionsEnd` relies
on the bounded number of data a server sends between two checks (`MaxCount`),
which stands for the break of `xnee_process_replies` after twenty data.

## Proofs

The eight proof modules prove, for every value of the constants that the named
assumptions of the modules allow (TLC evaluates these on the instances):

`SyncBufferProofs`, for every set of data, all thresholds and every period:
* `TypeCorrect`: `TypeOK`;
* `NoPhantomDrift`: `CacheAttained`.  It is inductive with the type invariant:
  the caches change only to the value of an entry just changed, to a sentinel or
  to a scanned extreme, and an entry that carries the cached value and leaves it
  sets the sentinel in the same step (`RefreshedMax`, `RefreshedMin`);
* `NoFalseAlarm`: `AlarmEarned`, from the former: the verdict is computed from
  caches that are attained, so the reported extreme is an entry;
* `BoundedMiss`: `MissedBounded`.  Alone it is not inductive; `MissedInv`
  relates the number of missed checks to the counter of the soft updates
  (`HardBounds` shows that a hard update misses nothing);
* `HardUpdateExact`: after a hard update the caches bound every entry scanned;
* `TotalsAreExact`: `TotalsExact`.  A total is a sum defined by recursion over a
  set.  That the recursion has a solution, and that the order of adding does not
  matter, is shown by induction on the number of entries; then a datum counted
  changes one summand (and the totals the code keeps) by one.

`ReplayProofs`, for any session files, thresholds and number of sessions:
* `FaultIsEarned`: `FaultEarned`, if no session file is empty (`NoneEmpty`).
  `FaultInv` says that every full time-out counted was paid for with waits of
  *this* session from the end of its META phase on; a META phase that reads to
  the end of the file leaves the static counters alone, and then nothing is left
  to wait for (`Spent`).  An empty file leaves the line before it in the buffer,
  and the counters too: the assumption is needed;
* `SkipsAreBounded`: `SkipsBounded`: skips in a row are counted by the counter of
  time-outs (`SkipInv`);
* `StopIsPrompt`: `StopPrompt`: `StopInv` says how many events may still follow
  at each place of the loop;
* `PromiseKeptInOrder`: the safety part of `KeepsPromise`, again if no session
  file is empty: `Replay` starts as `ReplayOrder` does and each of its steps is one
  of `ReplayOrder` or none.  `Events` filters a file of any length, so its equations
  are proved first; `OrderInv` says that what is faked is what the lines before
  `pos` ask for, less the line in `tmp` while it waits to be faked;
* `ReplayTypes`: `TypeOK`.

`FidelityProofs`, of `Pace`, for any files, speeds and delays:
* `WaitsAreKept`: `WaitsKept`.  The lemmas bound the computed waits: none is
  negative, so an excess is always slept;
* `DriftIsExplained`: `DriftExplained`.  `DriftInv` bounds the clocks, `Running`
  says what they are once the session has faked an event, and that after an event
  `ahead` is what the replay is ahead by now; each of the three ways to compute a
  wait is then bounded.  The proof corrected the property, which had missed
  protocol data recorded at the very time of the event before it.

`FidelityProofs`, of `RoundTrip`, for any keys, buttons, displays, resolutions,
settings, scripts, texts, acts and number of recordings and sessions:
* `ActsRepeated`: `SameActs`, and `PlacesRepeated`: `SamePlaces`.  The display of a
  replay and the user are two machines that never meet; between them stands what a
  file *shows* (`Shows`): the acts, and the pointer at each, that its first lines
  come to.  `RecordInv` says that the file shows of every set of keys and buttons,
  the keys of actions apart, what the user did with them; it has to quantify over
  all sets, because each display filters by its own.  Where motions were left out
  only the acts agree, and without XInput only a replay that forces core events
  sees them.  `ReplayInv` says that a display shows what the lines read so far do,
  in the places `PlacesOn` maps the recorded ones to (`DisplayOK`), and `ScaleInv`
  that while all sessions ask alike the static answer of `xnee_resolution_newx` is
  what each would get anew;
* `LastMotionIsKept`: `LastIsKept`, from `LastInv`, which follows a row of motions:
  from the second on the position held back is where the pointer is;
* `TextIsTyped`: `TypedRight`, and `NothingIsHeld`: `NothingHeld`.  `HeldInv` says
  that nothing is down but what was before and what the character being typed holds
  (`Holding`); `TypedInv` how much of the text is typed.  That `Modifiers` presses a
  modifier the character needs (`ModsOf`) is false of one that needs Lock alone: the
  attempt to prove it corrected the property, which had excluded Control only.
Of the constants they assume that places and widths are numbers, that the display
has a width, that keys and buttons are told apart, that settings and texts are
well-formed, and that a key under a modifier is one character and no modifier itself,
as the keyboard map of a server has it.

`RecordProofs`, for any limits: `LimitsAreKept`, `RefusalIsFinal`,
`StopDroppedByEvent`: the properties of the run.  `RefusalInv` says that the limit
that refused a datum is still reached; `CompletionEarned` (a recording that ends
complete has reached a limit) rests on `EndInv`.  `RecordTypes`: `TypeOK`.

`RecordProofs`, for any entries and exclusions of numbers up to `MaxNumber`, any
servers and any number of edits, calls and sessions:
* `ListsAreWanted`: `ListIsWanted`, inductive with the types of the lists.  The
  lemmas say what sorting, adding a range, removing a number and the workaround
  with its undoing leave in a list, whatever its length;
* `NothingElseIsTold`: `ToldWasAsked`.  `ToldInv` bounds what is in *every* slot of
  the array (`Bounded`), also in those the count does not reach: a later call may
  raise the count over them.  The runs of a list cover the numbers of the list
  (`RunsFacts`), and what `xnee_add_range` adds of its own accord is `Added`;
* `AskedForIsTold`: `AskedIsTold`, along the loops of `xnee_set_ranges`.  A setup
  `Follows` another if no count shrinks, no hole is filled and no counted field is
  overwritten, for the types it names; without a hole at the end there was none
  before (`DenseBefore`), so each range was written to its slot when it was added
  and stays.  An error may overwrite a delivered event, which is why the order of
  the types matters: delivered events come after errors.  On a dangerous server a
  delivered event overwrites an error, but none that is counted, because there are
  never more errors than delivered events (`Led`).

`SessionProofs`, for any keys and any number of sessions, signals and errors:
`RepeatIsKnown` and `ClosingRestores` from `RepeatInv` (while the mode is saved it
is the user's, while it is not the server has the user's), `GoodEndUngrabs` from
`GrabInv` (a grabbed key is known and the display of the grabs is open),
`SessionTypes`.

`WindowPosProofs`, for lists of any size and any window manager of the three
kinds: `UndefinedOnlyWhenFull` from `ListsOK` (behind its index a list holds
nothing but empty slots and garbage), `PairsAreRight` from `PairInv` (while marks
and windows come by turns the lists hold one of each at most, of the same window,
and the window manager needs no more moves than there are), `WindowTypes` (before
its index a list holds windows only).

`AppletProofs`, for any number of threads: `OneSession`: each step that frees the
buttons ends a session or completes a press of Stop; `ResetsEarned`: the counter
is read and written without a lock, and `PressInv` says which presses a value
can stand for; `AppletTypes`.

`FrontEndProofs`, for any words, values, items, project files of other hands,
acts and processes:
* `WindowReflects`, `ListIsRecorded`, `ShownKeysGrabbed`: `GuiReflects`,
  `EventsRecorded` and `KeysGrabbed`.  `GneeInv` says that the settings are ones
  that can be told in a file (`Good`) and that the widgets show them, after every
  callback and the callbacks it causes;
* `SavedIsRead`: `LostAfterSession`, from `LostInv`: before its first session gnee
  has nothing to write that it cannot read.  The hypothesis `NoneDistributes`
  excludes files that add displays by hand: gnee takes them over and writes a line
  for them that no reader knows;
* `RefusedStartsNone`: `RefusedRunsNot`, from `FailedInv`: while the process parses
  nothing has gone wrong, an error the parser does not return ends the process, and
  one it returns (`Forgotten`) ends the parsing;
* `WhatIsWrittenIsRead`, `OwnLinesAreReadable`: `WrittenIsRead` and
  `OwnIsReadable`, from `CneeInv`: while cnee reads a file of its own, the lines to
  come tell whatever is set otherwise (`Tells`).
They share what is proved of `Settings`: what one option can change
(`ParseEffect`), that every line sets what it states to the value it was written
from, and that a file has a line for all that can be stated (`SettingsListed`).

Recursion over a list or a set is proved about in the same way everywhere: the
equations of the recursive function hold because a function that satisfies them
exists, which is shown, like everything that follows, by induction on the length,
from the well-foundedness of the numbers.

Only model-checked is the liveness, which the prover does not do: `SessionsEnd`,
`LimitEnds`, `TriesEnd`, `ReplayFrees`, `SignalEnds` and the fairness of
`KeepsPromise`.

## Not modelled

* The printing of requests, replies and errors and of anything in a form for
  human readers, the numbers and names of data (`xnee_reserved_name`,
  `datastrings.c`), help texts: conversions without state.
* The scanning of the fields of a line; a word is good or not.
* The loading of plugins and the messages of feedback; semaphores, which are
  empty in every build.
* The list of XInput devices, asked from the server once a session.
* Allocation failures, and accessors of one field that only copy it.
* The layout of the windows of gnee and pnee, dialogs without effect on the
  data, the progress bar and the preferences of pnee.
* The old front end in `xnee/`, which `Makefile.am` does not build, swinput's two
  words, test programs, tools, and functions nobody calls
  (`xnee_replay_buffer_handle`, `xnee_replay_buffer_tot_diff`).
