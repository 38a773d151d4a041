----------------------------- MODULE SyncBuffer -----------------------------
(***************************************************************************)
(* The synchronisation buffer of libxnee (libxnee/src/xnee_buffer.c).      *)
(*                                                                         *)
(* While a session file is replayed, every non-device datum read from the  *)
(* file increments its entry of the buffer and every datum the X server    *)
(* reports through RECORD decrements it.  The largest and the smallest     *)
(* entry are cached in meta_data: +1 marks an invalid cached minimum, -1   *)
(* an invalid cached maximum.  Before a device event is faked,             *)
(* xnee_check_buffer_limits compares the caches with three thresholds.     *)
(*                                                                         *)
(* The entries of data that never occur stay 0, so the buffer is a         *)
(* function on Data only; 0 is a candidate of every maximum and minimum,   *)
(* as it is the start value of the loops of the code.                      *)
(***************************************************************************)
EXTENDS Integers, FiniteSets, Functions

CONSTANTS
    Data,        \* the data that occur: pairs <<data_type, data_nr>>
    XIBase,      \* xnee_get_xinput_event_base: first XInput event, 0 if none
    MaxThr,      \* xnee_get_max_threshold (20 unless set by the user)
    MinThr,      \* xnee_get_min_threshold
    TotThr,      \* xnee_get_tot_threshold (40 unless set by the user)
    HardPeriod,  \* soft updates between two hard ones (10 in the code)
    MaxCount     \* bound: how often one datum is read, and how often received

EVENT   == 0     \* XNEE_EVENT
REQUEST == 1     \* XNEE_REQUEST
REPLY   == 2     \* XNEE_REPLY

KeyPress      == 2
ButtonRelease == 5
MotionNotify  == 6

ASSUME DataAssumption ==
    Data \subseteq {EVENT, REQUEST, REPLY} \X Nat /\ IsFiniteSet(Data)
ASSUME ThresholdAssumption ==
    MaxThr \in Nat /\ MinThr \in Int /\ TotThr \in Int
ASSUME BoundAssumption ==
    HardPeriod \in Nat \ {0} /\ MaxCount \in Nat /\ XIBase \in Nat

VARIABLES
    buf,         \* xd->data_buffer
    cached_max,  \* meta_data.cached_max
    cached_min,  \* meta_data.cached_min
    total_diff,  \* meta_data.total_diff
    sum_max,     \* meta_data.sum_max
    sum_min,     \* meta_data.sum_min
    upd_ctr,     \* the static of xnee_check_buffer_limits
    verdict,     \* what xnee_check_buffer_limits returned last
    checked,     \* history: no datum was handled since the last check
    read,        \* history: how often each datum was read from the file
    seen,        \* history: how often each datum was received
    missed       \* history: consecutive checks that overlooked a drift

meta   == <<cached_max, cached_min, total_diff, sum_max, sum_min>>
buffer == <<buf, meta>>
checks == <<upd_ctr, verdict, missed>>
counts == <<read, seen>>
vars   == <<buf, cached_max, cached_min, total_diff, sum_max, sum_min,
            upd_ctr, verdict, checked, read, seen, missed>>

-----------------------------------------------------------------------------

(* Data on a received pass that xnee_replay_buffer_handler does not count:  *)
(* core device events, numbers of XInput device events, numbers 2..6 of any *)
(* type, and number 161.                                                    *)
Ignored(d) ==
    \/ d[1] = EVENT /\ d[2] <= ButtonRelease
    \/ XIBase > 0 /\ d[2] - XIBase \in 0..MotionNotify
    \/ d[2] \in KeyPress..MotionNotify
    \/ d[2] = 161

(* m is the largest (smallest) element of S. *)
IsMaxOf(m, S) == m \in S /\ \A x \in S : x <= m
IsMinOf(m, S) == m \in S /\ \A x \in S : x >= m

(* What the loops of xnee_replay_buffer_max_diff and _min_diff range over,  *)
(* for the rows of the given types.                                         *)
RowValues(types) == {0} \cup {buf[d] : d \in {e \in Data : e[1] \in types}}

(* m is the cached maximum (minimum) after xnee_update_buffer_cache: only   *)
(* an invalid value is refreshed, and only from the EVENT row, since the    *)
(* refresh removes the mark before the REQUEST row is looked at.            *)
SoftMax(m) == IF cached_max = -1 THEN IsMaxOf(m, RowValues({EVENT}))
                                 ELSE m = cached_max
SoftMin(m) == IF cached_min = 1 THEN IsMinOf(m, RowValues({EVENT}))
                                ELSE m = cached_min

(* ... and after xnee_hard_update_buffer_cache, which only widens them.     *)
HardMax(m) == IsMaxOf(m, {cached_max} \cup RowValues({EVENT, REQUEST}))
HardMin(m) == IsMinOf(m, {cached_min} \cup RowValues({EVENT, REQUEST}))

CandidateValues == {cached_max, cached_min} \cup RowValues({EVENT, REQUEST})

(* Mutant of Verdict: a maximum at its threshold is reported, too.          *)
VerdictAtThreshold(mx, mn, tot) ==
    IF mx >= MaxThr THEN mx
    ELSE IF mn < MinThr THEN mn
    ELSE IF tot > TotThr THEN tot
    ELSE 0

(* The value xnee_check_buffer_limits returns for these caches. *)
Verdict(mx, mn, tot) ==
    IF mx > MaxThr THEN mx
    ELSE IF mn < MinThr THEN mn
    ELSE IF tot > TotThr THEN tot
    ELSE 0

(* The entry of d is beyond a threshold.  The default minimum threshold is  *)
(* positive, hence the last conjunct.                                       *)
Drifted(d) == buf[d] > MaxThr \/ (buf[d] < MinThr /\ buf[d] < 0)

(* The rows both updates look at. *)
Scanned == {d \in Data : d[1] \in {EVENT, REQUEST}}

-----------------------------------------------------------------------------

Init ==
    /\ buf = [d \in Data |-> 0]
    /\ cached_max = 0 /\ cached_min = 0
    /\ total_diff = 0 /\ sum_max = 0 /\ sum_min = 0
    /\ upd_ctr = -1
    /\ verdict = 0
    /\ checked = FALSE
    /\ read = [d \in Data |-> 0] /\ seen = [d \in Data |-> 0]
    /\ missed = 0

(* xnee_replay_buffer_handler (.., XNEE_REPLAYED) *)
Replayed(d) ==
    /\ LET new == buf[d] + 1 IN
        /\ buf' = [buf EXCEPT ![d] = new]
        /\ cached_min' = IF cached_min = buf[d] THEN 1 ELSE cached_min
        /\ cached_max' = IF new > cached_max THEN new ELSE cached_max
    /\ total_diff' = total_diff + 1
    /\ sum_max' = sum_max + 1
    /\ sum_min' = sum_min + 1
    /\ read' = [read EXCEPT ![d] = @ + 1]
    /\ checked' = FALSE
    /\ UNCHANGED <<upd_ctr, verdict, missed, seen>>

(* Mutant of Count: a maximum that is decremented is not marked invalid.    *)
CountUnmarked(d) ==
    LET new == buf[d] - 1
    IN  /\ buf' = [buf EXCEPT ![d] = new]
        /\ cached_min' = IF new < cached_min THEN new ELSE cached_min
        /\ total_diff' = total_diff - 1
        /\ sum_max' = sum_max - 1 /\ sum_min' = sum_min - 1
        /\ UNCHANGED cached_max

(* xnee_replay_buffer_handler (.., XNEE_RECEIVED), the counted data *)
Count(d) ==
    LET new == buf[d] - 1
    IN  /\ buf' = [buf EXCEPT ![d] = new]
        /\ cached_max' = IF cached_max = buf[d] THEN -1 ELSE cached_max
        /\ cached_min' = IF new < cached_min THEN new ELSE cached_min
        /\ total_diff' = total_diff - 1
        /\ sum_max' = sum_max - 1
        /\ sum_min' = sum_min - 1

Received(d) ==
    /\ \/ ~Ignored(d) /\ Count(d)
       \/ Ignored(d) /\ UNCHANGED buffer
    /\ seen' = [seen EXCEPT ![d] = @ + 1]
    /\ checked' = FALSE
    /\ UNCHANGED <<upd_ctr, verdict, missed, read>>

(* xnee_update_buffer_cache on its own, as the loop of                      *)
(* xnee_replay_synchronize calls it before the check.                       *)
UpdateBufferCache ==
    /\ \E mx, mn \in CandidateValues :
        /\ SoftMax(mx) /\ SoftMin(mn)
        /\ cached_max' = mx /\ cached_min' = mn
    /\ UNCHANGED <<buf, total_diff, sum_max, sum_min, upd_ctr, verdict,
                   checked, read, seen, missed>>

(* Mutant of HardDue: only the very first update is a hard one.             *)
HardDueOnce == upd_ctr = -1

(* The next update of the caches scans the rows. *)
HardDue == upd_ctr = -1 \/ upd_ctr > HardPeriod

(* xnee_check_buffer_limits *)
CheckBufferLimits ==
    /\ \E mx, mn \in CandidateValues :
        /\ IF HardDue THEN HardMax(mx) /\ HardMin(mn)
                      ELSE SoftMax(mx) /\ SoftMin(mn)
        /\ cached_max' = mx /\ cached_min' = mn
        /\ verdict' = Verdict(mx, mn, total_diff)
        /\ missed' = IF /\ Verdict(mx, mn, total_diff) = 0
                        /\ \E d \in Scanned : Drifted(d)
                     THEN missed + 1 ELSE 0
    /\ upd_ctr' = IF HardDue THEN 1 ELSE upd_ctr + 1
    /\ checked' = TRUE
    /\ UNCHANGED <<buf, total_diff, sum_max, sum_min, read, seen>>

(* Mutant of ReplayInit: meta_data keeps the totals of the last session.    *)
ReplayInitTotalsKept ==
    /\ buf' = [d \in Data |-> 0]
    /\ cached_max' = 0 /\ cached_min' = 0
    /\ read' = [d \in Data |-> 0] /\ seen' = [d \in Data |-> 0]
    /\ checked' = FALSE
    /\ verdict' = 0
    /\ missed' = 0
    /\ UNCHANGED <<upd_ctr, total_diff, sum_max, sum_min>>

(* xnee_replay_init: a new session.  The static upd_ctr keeps its value.    *)
ReplayInit ==
    /\ buf' = [d \in Data |-> 0]
    /\ cached_max' = 0 /\ cached_min' = 0
    /\ total_diff' = 0 /\ sum_max' = 0 /\ sum_min' = 0
    /\ read' = [d \in Data |-> 0] /\ seen' = [d \in Data |-> 0]
    /\ checked' = FALSE
    /\ verdict' = 0
    /\ missed' = 0
    /\ UNCHANGED upd_ctr

(* xnee_replay_main_loop hands no core device event of the file, and no     *)
(* event numbered 0, to the buffer.                                         *)
Bufferable(d) ==
    d[1] = EVENT => d[2] # 0 /\ d[2] \notin KeyPress..MotionNotify

Next ==
    \/ \E d \in Data : Bufferable(d) /\ read[d] < MaxCount /\ Replayed(d)
    \/ \E d \in Data : seen[d] < MaxCount /\ Received(d)
    \/ UpdateBufferCache
    \/ CheckBufferLimits
    \/ ReplayInit

Spec == Init /\ [][Next]_vars

-----------------------------------------------------------------------------

(* The type invariant: the sentinels are the only values of the caches on   *)
(* the far side of 0, so a refreshed cache can be told from an invalid one. *)
TypeOK ==
    /\ buf \in [Data -> Int]
    /\ cached_max \in Int /\ cached_max >= -1
    /\ cached_min \in Int /\ cached_min <= 1
    /\ total_diff \in Int /\ sum_max \in Int /\ sum_min \in Int
    /\ upd_ctr \in {-1} \cup 1..(HardPeriod + 1)
    /\ verdict \in Int
    /\ checked \in BOOLEAN
    /\ read \in [Data -> Nat] /\ seen \in [Data -> Nat]
    /\ missed \in Nat

(* No phantom drift: a cached maximum above 0 (minimum below 0) is the      *)
(* value some entry has now, although entries change in both directions     *)
(* between two refreshes and the refresh scans one row only.                *)
CacheAttained ==
    /\ cached_max > 0 => \E d \in Data : buf[d] = cached_max
    /\ cached_min < 0 => \E d \in Data : buf[d] = cached_min

(* xnee_check_buffer_limits cries wolf never: when it reports a difference, *)
(* an entry really is beyond its threshold or the total is.                 *)
AlarmEarned ==
    checked /\ verdict # 0 =>
        (\E d \in Data : Drifted(d)) \/ total_diff > TotThr

(* A drift of an event or a request is overlooked by at most HardPeriod     *)
(* checks in a row: the soft updates may keep a stale cache, the hard one   *)
(* that follows them finds the entry.                                       *)
MissedBounded == missed <= HardPeriod

(* Right after a hard update the caches bound every entry of the rows it    *)
(* scans.                                                                   *)
HardCheckExact ==
    checked /\ upd_ctr = 1 =>
        \A d \in Scanned : cached_min <= buf[d] /\ buf[d] <= cached_max

(* The three totals of meta_data are the sum of the entries: no path of     *)
(* xnee_replay_buffer_handler changes one without the others, its early     *)
(* returns included, and a new session clears all of them together.         *)
TotalsExact ==
    /\ total_diff = SumFunction(buf)
    /\ sum_max = total_diff /\ sum_min = total_diff

=============================================================================
