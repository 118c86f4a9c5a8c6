------------------------------- MODULE Store -------------------------------
(***************************************************************************)
(* The JSON file store (store/store.go) behind the history, the cumulative *)
(* cost and the daily usage counters.  Every operation changes the data in *)
(* memory and then writes all of it, holding s.mu throughout: temporary    *)
(* file, encode, close, rename.  Any of those may fail, and the server may *)
(* stop between any two.  Every run costs one unit, so one number stands   *)
(* for the three totals and the lifetime counters AddRun moves together.   *)
(***************************************************************************)
EXTENDS Naturals, Sequences, SequencesExt

CONSTANTS
    Callers,    \* request goroutines using the store
    Labels,     \* what a run can be renamed to
    NoLabel,    \* the label a run is saved with
    MaxRuns,    \* length of the history (200)
    MaxStamp,   \* bound of the model: runs completed
    MaxDay,     \* bound of the model: UTC days
    None,       \* nobody holds s.mu; no run to add
    NoFile,     \* the file does not exist
    Partial     \* a file that is not a complete JSON document

ASSUME StoreAssumption ==
    /\ MaxRuns \in Nat \ {0} /\ MaxStamp \in Nat /\ MaxDay \in Nat
    /\ NoLabel \in Labels
    /\ None \notin Callers

Run == [created : Nat, day : Nat, label : Labels]

Data == [runs : Seq(Run), total : Nat, daily : Nat, date : Nat]

ASSUME SentinelAssumption ==
    /\ None \notin Run
    /\ NoFile \notin Data /\ Partial \notin Data /\ NoFile # Partial

VARIABLES
    up,         \* the server is running
    clock,      \* time.Now().UnixNano(), as the number of runs stamped
    today,      \* the UTC date
    pending,    \* pending[c]: the Run persistRun built and has not added yet
    mem,        \* Store.data
    holder,     \* the caller holding s.mu for writing
    step,       \* where the holder is in save
    tmp,        \* the contents of path + ".tmp"
    disk,       \* the contents of path
    acked,      \* history: the data when an operation last returned nil
    attempt     \* history: the data save was last asked to write

files == <<tmp, disk>>
vars == <<up, clock, today, pending, mem, holder, step, files, acked, attempt>>

Steps == {"create", "encode", "close", "rename", "saved"}

TypeOK ==
    /\ up \in BOOLEAN
    /\ clock \in Nat /\ today \in Nat
    /\ pending \in [Callers -> Run \cup {None}]
    /\ mem \in Data \cup {NoFile}
    /\ up => mem \in Data /\ Len(mem.runs) <= MaxRuns
    /\ holder \in Callers \cup {None}
    /\ step \in Steps
    /\ tmp \in Data \cup {NoFile, Partial}
    /\ disk \in Data \cup {NoFile, Partial}
    /\ acked \in Data \cup {NoFile, Partial}
    /\ attempt \in Data \cup {NoFile, Partial}

-----------------------------------------------------------------------------
(* The data and what the operations make of it. *)

\* load, when there is no file.
Blank(day) == [runs |-> <<>>, total |-> 0, daily |-> 0, date |-> day]

\* ensureDailyBucketLocked.
EnsureDaily(d, day) ==
    IF d.date = day THEN d ELSE [d EXCEPT !.daily = 0, !.date = day]

\* Mutant of KeepLast: the history is never trimmed.
KeepAll(runs) == runs

KeepLast(runs) == IF Len(runs) > MaxRuns THEN SubSeq(runs, 1, MaxRuns) ELSE runs

\* Mutant of WithRun: the delta is applied before the bucket is renewed.
WithRunThenBucket(d, run, day) ==
    EnsureDaily([d EXCEPT !.runs = KeepLast(<<run>> \o d.runs),
                          !.total = d.total + 1,
                          !.daily = d.daily + 1], day)

\* AddRun up to save: prepend, trim, totals, bucket, usage delta.
WithRun(d, run, day) ==
    LET e == EnsureDaily(d, day)
    IN  [e EXCEPT !.runs = KeepLast(<<run>> \o d.runs),
                  !.total = d.total + 1,
                  !.daily = e.daily + 1]

WithLabel(d, i, label) == [d EXCEPT !.runs[i].label = label]

\* Mutant of Without: the cost of the deleted run is given back.
WithoutRefunded(d, i) ==
    [d EXCEPT !.runs = RemoveAt(d.runs, i), !.total = d.total - 1]

\* DeleteRun: "cumulative cost and API usage are unchanged".
Without(d, i) == [d EXCEPT !.runs = RemoveAt(d.runs, i)]

Init ==
    /\ up = TRUE
    /\ clock = 0 /\ today = 0
    /\ pending = [c \in Callers |-> None]
    /\ mem = Blank(0)
    /\ holder = None /\ step = "saved"
    /\ tmp = NoFile /\ disk = NoFile
    /\ acked = NoFile /\ attempt = NoFile

-----------------------------------------------------------------------------
(* The operations, up to their call of save. *)

\* persistRun reads the clock before AddRun takes the lock.
Stamp(c) ==
    /\ up /\ clock < MaxStamp
    /\ pending[c] = None /\ holder # c
    /\ clock' = clock + 1
    /\ pending' = [pending EXCEPT ![c] =
                      [created |-> clock + 1, day |-> today, label |-> NoLabel]]
    /\ UNCHANGED <<up, today, mem, holder, step, files, acked, attempt>>

\* c takes s.mu, leaves d in memory and calls save.
Change(c, d) ==
    /\ up /\ holder = None
    /\ mem' = d
    /\ attempt' = d
    /\ holder' = c
    /\ step' = "create"
    /\ UNCHANGED <<up, clock, today, files, acked>>

AddRun(c) ==
    /\ pending[c] # None
    /\ Change(c, WithRun(mem, pending[c], today))
    /\ pending' = [pending EXCEPT ![c] = None]

\* An id that is not found changes nothing and is not saved.
RenameRun(c) ==
    /\ pending[c] = None /\ up
    /\ \E i \in DOMAIN mem.runs, label \in Labels :
          Change(c, WithLabel(mem, i, label))
    /\ UNCHANGED pending

DeleteRun(c) ==
    /\ pending[c] = None /\ up
    /\ \E i \in DOMAIN mem.runs : Change(c, Without(mem, i))
    /\ UNCHANGED pending

-----------------------------------------------------------------------------
(* save, one action per system call; each may fail. *)

At(s) == holder # None /\ step = s

Goto(s) ==
    /\ step' = s
    /\ UNCHANGED <<up, clock, today, pending, mem, holder, acked, attempt>>

\* The operation returns an error; memory keeps the change.
ReturnError ==
    /\ holder' = None
    /\ step' = "saved"
    /\ UNCHANGED <<up, clock, today, pending, mem, acked, attempt>>

\* os.Create truncates whatever a stopped server left behind.
CreateTmp ==
    /\ At("create")
    /\ \/ Goto("encode") /\ tmp' = Partial
       \/ ReturnError /\ UNCHANGED tmp
    /\ UNCHANGED disk

Encode ==
    /\ At("encode")
    /\ \/ Goto("close") /\ tmp' = mem
       \/ ReturnError /\ tmp' = NoFile
    /\ UNCHANGED disk

Close ==
    /\ At("close")
    /\ \/ Goto("rename") /\ UNCHANGED tmp
       \/ ReturnError /\ tmp' = NoFile
    /\ UNCHANGED disk

\* Mutant of Rename: the file is copied over, not renamed into place.
RenameByCopy ==
    /\ At("rename")
    /\ IF disk = Partial
       THEN disk' = tmp /\ tmp' = NoFile /\ Goto("saved")
       ELSE disk' = Partial /\ UNCHANGED tmp /\ Goto("rename")

Rename ==
    /\ At("rename")
    /\ \/ Goto("saved") /\ disk' = tmp /\ tmp' = NoFile
       \/ ReturnError /\ UNCHANGED files

\* Mutant of Return: the outcome of the rename is not waited for.
ReturnEarly ==
    /\ holder # None /\ step \in {"rename", "saved"}
    /\ acked' = mem
    /\ holder' = None
    /\ UNCHANGED <<up, clock, today, pending, mem, step, files, attempt>>

\* The operation returns nil.
Return ==
    /\ At("saved")
    /\ acked' = mem
    /\ holder' = None
    /\ UNCHANGED <<up, clock, today, pending, mem, step, files, attempt>>

-----------------------------------------------------------------------------
(* GET /history, the clock, and the process. *)

\* GetAPIUsageReport renews the bucket in memory and does not save.
Report ==
    /\ up /\ holder = None
    /\ mem' = EnsureDaily(mem, today)
    /\ UNCHANGED <<up, clock, today, pending, holder, step, files, acked, attempt>>

Midnight ==
    /\ today < MaxDay
    /\ today' = today + 1
    /\ UNCHANGED <<up, clock, pending, mem, holder, step, files, acked, attempt>>

\* The process stops; the files stay as they are.
Crash ==
    /\ up
    /\ up' = FALSE
    /\ mem' = NoFile
    /\ pending' = [c \in Callers |-> None]
    /\ holder' = None /\ step' = "saved"
    /\ UNCHANGED <<clock, today, files, acked, attempt>>

\* New and load: a file that does not decode keeps the server from starting.
Restart ==
    /\ ~up /\ disk # Partial
    /\ up' = TRUE
    /\ mem' = IF disk = NoFile THEN Blank(today) ELSE disk
    /\ acked' = disk /\ attempt' = disk
    /\ UNCHANGED <<clock, today, pending, holder, step, files>>

Next ==
    \/ \E c \in Callers : Stamp(c) \/ AddRun(c) \/ RenameRun(c) \/ DeleteRun(c)
    \/ CreateTmp \/ Encode \/ Close \/ Rename \/ Return
    \/ Report \/ Midnight \/ Crash \/ Restart

Spec == Init /\ [][Next]_vars

-----------------------------------------------------------------------------
(* Properties *)

\* "A crash mid-write never corrupts the store" (store.go:5): whenever the
\* process stops, the file is absent or a complete document.
DiskIntact == disk # Partial

\* The file always holds the data of the last operation that returned nil, or
\* of the one being saved; once the latter has returned, with or without an
\* error, only the former.
AckedIsOnDisk ==
    /\ disk \in {acked, attempt}
    /\ up /\ holder = None => disk = acked

\* Money once on disk stays there, across deletions, trimming of the history,
\* failed saves and restarts (store.go:93).
SpendNeverForgotten ==
    [][disk # NoFile => disk' # NoFile /\ disk'.total >= disk.total]_vars

\* The counters of the current bucket cover every run of the history that
\* was completed on the bucket's date (AddRun's order, load, Report).
CompletedOn(d, day) == {i \in DOMAIN d.runs : d.runs[i].day = day}

DailyCoversRuns ==
    up => Cardinality(CompletedOn(mem, mem.date)) <= mem.daily

\* The history is ordered by creation time, "newest first" (store.go:107).
NewestFirst ==
    up => \A i, j \in DOMAIN mem.runs :
              i < j => mem.runs[i].created > mem.runs[j].created

\* The store implements the abstract durable store.
Durable == INSTANCE DurableStore WITH
    Values <- Data, Fresh <- {Blank(day) : day \in 0..MaxDay},
    running <- up, working <- mem, committed <- disk

ImplementsDurable == Durable!Spec

-----------------------------------------------------------------------------
(* The inductive invariant. *)

\* A server that is down has no data and no operation in progress.
DownInv == up <=> mem # NoFile

LockInv == holder # None => up /\ attempt = mem

\* What save has reached: the temporary file is whole before it is renamed.
SaveInv ==
    /\ holder # None /\ step \in {"close", "rename"} => tmp = mem
    /\ holder # None /\ step = "saved" => disk = mem
    /\ up /\ ~(holder # None /\ step = "saved") => disk = acked

\* Of the data in memory or on disk: the bucket is not of a later day than
\* day, nor a run of a later day than the bucket.
Covered(d, day) ==
    /\ Len(d.runs) <= MaxRuns
    /\ d.date <= day
    /\ \A i \in DOMAIN d.runs : d.runs[i].day <= d.date
    /\ Cardinality(CompletedOn(d, d.date)) <= d.daily

CoverInv ==
    /\ today <= MaxDay
    /\ up => Covered(mem, today)
    /\ disk # NoFile => Covered(disk, today)
    /\ \A c \in Callers : pending[c] # None => pending[c].day <= today

\* Memory is never behind the file.
SpendInv == up /\ disk # NoFile => mem.total >= disk.total

StoreInv ==
    /\ TypeOK
    /\ DiskIntact
    /\ AckedIsOnDisk
    /\ DownInv
    /\ LockInv
    /\ SaveInv
    /\ CoverInv
    /\ SpendInv
=============================================================================
