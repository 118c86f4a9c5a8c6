----------------------------- MODULE BatchJobs -----------------------------
(***************************************************************************)
(* Batch mode (api/handler.go submitBatch, pollBatch, BatchStatus and      *)
(* batch/batch.go): the request handler submits the claims to the          *)
(* Anthropic batch service and starts a goroutine that polls it, collects  *)
(* the results, saves the run and keeps the in-memory job that the browser *)
(* polls.  A server restart loses jobs and goroutines, not the history     *)
(* file.  The batch service is external: it ends batches, counts its       *)
(* successes and streams the results in any order.                         *)
(***************************************************************************)
EXTENDS Naturals, Sequences, FiniteSets, Functions

CONSTANTS
    Jobs,           \* batch submissions
    N,              \* claims of a document, numbered 1..N
    MaxTicks,       \* polls before the 25 hour deadline (9000 in the code)
    MaxCrashes,     \* bound of the model: server restarts
    NoBatch,        \* no job under this id
    Unverifiable    \* the verdict of a claim without a usable result

ASSUME BatchAssumption ==
    /\ N \in Nat \ {0} /\ MaxTicks \in Nat \ {0} /\ MaxCrashes \in Nat

Claims == 1..N

VARIABLES
    up,         \* the server is running
    crashes,    \* how often it stopped
    pc,         \* pc[j]: the handler of j, then its polling goroutine
    ticks,      \* ticks[j]: iterations of Poll's loop, 0 outside of it
    read,       \* read[j]: the RequestCounts.Succeeded that Status returned
    out,        \* out[j]: claimsOut
    jobs,       \* jobStore.jobs[j]: a BatchStatusResponse
    told,       \* told[j]: the browser was given the batch id
    mem,        \* the jobs whose run is in Store.data
    disk,       \* the jobs whose run is in history.json
    service,    \* service[j]: ProcessingStatus at Anthropic
    outcome     \* outcome[j]: the claims that succeeded there so far

server == <<up, crashes, pc, ticks, read, out>>
history == <<mem, disk>>
batchService == <<service, outcome>>
vars == <<server, jobs, told, history, batchService>>

Pcs == {"new", "submitting", "refused", "submitted", "polling",
        "reported", "ended", "scored", "saved", "finished", "dead"}

Processing(n) == [status |-> "processing", succeeded |-> n, claims |-> <<>>]
Failed == [status |-> "failed", succeeded |-> 0, claims |-> <<>>]
Done(claims) == [status |-> "done", succeeded |-> N, claims |-> claims]
NotFound == [status |-> "404", succeeded |-> 0, claims |-> <<>>]

Verdicts == Claims \cup {Unverifiable}

Responses ==
    [status : {"processing", "failed", "done", "404"},
     succeeded : 0..N, claims : {<<>>} \cup [Claims -> Verdicts]]

ASSUME SentinelAssumption == NoBatch \notin Responses

TypeOK ==
    /\ up \in BOOLEAN /\ crashes \in 0..MaxCrashes
    /\ pc \in [Jobs -> Pcs]
    /\ ticks \in [Jobs -> 0..MaxTicks]
    /\ read \in [Jobs -> 0..N]
    /\ out \in [Jobs -> {<<>>} \cup [Claims -> Verdicts]]
    /\ jobs \in [Jobs -> Responses \cup {NoBatch}]
    /\ told \in [Jobs -> BOOLEAN]
    /\ mem \subseteq Jobs /\ disk \subseteq Jobs
    /\ service \in [Jobs -> {"absent", "in_progress", "ended"}]
    /\ outcome \in [Jobs -> SUBSET Claims]

Init ==
    /\ up = TRUE /\ crashes = 0
    /\ pc = [j \in Jobs |-> "new"]
    /\ ticks = [j \in Jobs |-> 0]
    /\ read = [j \in Jobs |-> 0]
    /\ out = [j \in Jobs |-> <<>>]
    /\ jobs = [j \in Jobs |-> NoBatch]
    /\ told = [j \in Jobs |-> FALSE]
    /\ mem = {} /\ disk = {}
    /\ service = [j \in Jobs |-> "absent"]
    /\ outcome = [j \in Jobs |-> {}]

Goto(j, from, to) ==
    /\ pc[j] = from
    /\ pc' = [pc EXCEPT ![j] = to]
    /\ UNCHANGED <<up, crashes>>

Set(j, response) == jobs' = [jobs EXCEPT ![j] = response]

-----------------------------------------------------------------------------
(* submitBatch *)

\* A request arrives; an error in extraction or indexing ends it with a 500.
Prepare(j) ==
    /\ up
    /\ Goto(j, "new", "submitting") \/ Goto(j, "new", "refused")
    /\ UNCHANGED <<ticks, read, out, jobs, told, history, batchService>>

\* The service accepts the batch; its reply arrives, or is lost and the
\* request ends with a 500 although the batch runs.
Submit(j) ==
    /\ Goto(j, "submitting", "submitted") \/ Goto(j, "submitting", "refused")
    /\ service' = [service EXCEPT ![j] = "in_progress"]
    /\ UNCHANGED <<ticks, read, out, jobs, told, history, outcome>>

\* The service rejects it, or cannot be reached.
SubmitError(j) ==
    /\ Goto(j, "submitting", "refused")
    /\ UNCHANGED <<ticks, read, out, jobs, told, history, batchService>>

\* Mutant of Register: only the polling goroutine creates the job.
RegisterNothing(j) ==
    /\ Goto(j, "submitted", "polling")
    /\ UNCHANGED <<ticks, read, out, jobs, told, history, batchService>>

\* jobs.set, then the goroutine is started.
Register(j) ==
    /\ Goto(j, "submitted", "polling")
    /\ Set(j, Processing(0))
    /\ UNCHANGED <<ticks, read, out, told, history, batchService>>

\* The 200 with the batch id, written while the goroutine already runs.
Respond(j) ==
    /\ pc[j] \notin {"new", "submitting", "refused", "submitted", "dead"}
    /\ ~told[j]
    /\ told' = [told EXCEPT ![j] = TRUE]
    /\ UNCHANGED <<server, jobs, history, batchService>>

-----------------------------------------------------------------------------
(* Poll *)

\* Mutant of Tick: the deadline is computed anew in every iteration.
TickWithoutDeadline(j) ==
    /\ Goto(j, "polling", "reported")
    /\ service[j] = "in_progress"
    /\ read' = [read EXCEPT ![j] = Cardinality(outcome[j])]
    /\ UNCHANGED <<ticks, out, jobs, told, history, batchService>>

\* Mutant of Tick: one iteration too many before the deadline is noticed.
TickPastDeadline(j) ==
    /\ Goto(j, "polling", "reported")
    /\ service[j] = "in_progress"
    /\ read' = [read EXCEPT ![j] = Cardinality(outcome[j])]
    /\ ticks' = [ticks EXCEPT ![j] = @ + 1]
    /\ UNCHANGED <<out, jobs, told, history, batchService>>

\* One iteration: Status, then progressFn with what it returned.
Tick(j) ==
    /\ Goto(j, "polling", "reported")
    /\ ticks[j] < MaxTicks
    /\ service[j] = "in_progress"
    /\ read' = [read EXCEPT ![j] = Cardinality(outcome[j])]
    /\ ticks' = [ticks EXCEPT ![j] = @ + 1]
    /\ UNCHANGED <<out, jobs, told, history, batchService>>

\* The batch had ended when its status was read.
TickEnded(j) ==
    /\ Goto(j, "polling", "ended")
    /\ ticks[j] < MaxTicks
    /\ service[j] = "ended"
    /\ Set(j, Processing(Cardinality(outcome[j])))
    /\ ticks' = [ticks EXCEPT ![j] = 0]
    /\ UNCHANGED <<read, out, told, history, batchService>>

\* Mutant of Report: the progress shown is what is left to do.
ReportRemaining(j) ==
    /\ Goto(j, "reported", "polling")
    /\ Set(j, Processing(N - read[j]))
    /\ UNCHANGED <<ticks, read, out, told, history, batchService>>

\* jobs.set in progressFn, then the ten second wait.
Report(j) ==
    /\ Goto(j, "reported", "polling")
    /\ Set(j, Processing(read[j]))
    /\ read' = [read EXCEPT ![j] = 0]
    /\ UNCHANGED <<ticks, out, told, history, batchService>>

\* Any error of Status ends the polling for good.
StatusError(j) ==
    /\ Goto(j, "polling", "finished")
    /\ ticks[j] < MaxTicks
    /\ Set(j, Failed)
    /\ ticks' = [ticks EXCEPT ![j] = 0]
    /\ UNCHANGED <<read, out, told, history, batchService>>

\* "batch polling timed out after 25 hours"
Deadline(j) ==
    /\ Goto(j, "polling", "finished")
    /\ ticks[j] = MaxTicks
    /\ Set(j, Failed)
    /\ ticks' = [ticks EXCEPT ![j] = 0]
    /\ UNCHANGED <<read, out, told, history, batchService>>

-----------------------------------------------------------------------------
(* Results, and the rest of pollBatch *)

\* The JSONL lines as they arrive: any order, malformed ones skipped.
Streams == {s \in UNION {[1..n -> Claims] : n \in 0..N} : IsInjective(s)}

\* Mutant of Collect: the results are taken in the order of their lines.
CollectInOrder(j) ==
    /\ Goto(j, "ended", "scored")
    /\ \E lines \in Streams :
          out' = [out EXCEPT ![j] = [c \in Claims |->
                     IF c \in DOMAIN lines /\ lines[c] \in outcome[j]
                     THEN lines[c] ELSE Unverifiable]]
    /\ UNCHANGED <<ticks, read, jobs, told, history, batchService>>

\* Results keyed by custom_id "claim-i", then the loop over the claims; the
\* verdict parsed from the result of claim c is represented by c.
Collect(j) ==
    /\ Goto(j, "ended", "scored")
    /\ \E lines \in Streams :
          LET resultMap == Range(lines) \cap outcome[j]
          IN  out' = [out EXCEPT ![j] = [c \in Claims |->
                         IF c \in resultMap THEN c ELSE Unverifiable]]
    /\ UNCHANGED <<ticks, read, jobs, told, history, batchService>>

ResultsError(j) ==
    /\ Goto(j, "ended", "finished")
    /\ Set(j, Failed)
    /\ UNCHANGED <<ticks, read, out, told, history, batchService>>

\* Mutant of Persist: the run is not saved when the file cannot be written.
PersistIfWritable(j) ==
    /\ Goto(j, "scored", "saved")
    /\ \/ mem' = mem \cup {j} /\ disk' = mem'
       \/ UNCHANGED history
    /\ UNCHANGED <<ticks, read, out, jobs, told, batchService>>

\* persistRun: the run is in memory whether or not the file is written, and
\* an error is only logged.  A later write puts every run on disk.
Persist(j) ==
    /\ Goto(j, "scored", "saved")
    /\ mem' = mem \cup {j}
    /\ disk' \in {disk, mem'}
    /\ UNCHANGED <<ticks, read, out, jobs, told, batchService>>

Finish(j) ==
    /\ Goto(j, "saved", "finished")
    /\ Set(j, Done(out[j]))
    /\ out' = [out EXCEPT ![j] = <<>>]
    /\ UNCHANGED <<ticks, read, told, history, batchService>>

-----------------------------------------------------------------------------
(* The browser, the batch service, and the process. *)

\* What GET /batch/:id answers a browser; it changes nothing.
BatchStatus(j) == IF jobs[j] = NoBatch THEN NotFound ELSE jobs[j]

\* What the service does with a batch that nobody polls any more is left out.
Watched(j) == pc[j] \in {"submitted", "polling", "reported"}

ClaimSucceeds(j) ==
    /\ Watched(j) /\ service[j] = "in_progress"
    /\ \E c \in Claims \ outcome[j] :
          outcome' = [outcome EXCEPT ![j] = @ \cup {c}]
    /\ UNCHANGED <<server, jobs, told, history, service>>

\* The claims that did not succeed errored, expired or were canceled.
BatchEnds(j) ==
    /\ Watched(j) /\ service[j] = "in_progress"
    /\ service' = [service EXCEPT ![j] = "ended"]
    /\ UNCHANGED <<server, jobs, told, history, outcome>>

\* Jobs and goroutines are gone; the history is what the file holds.
Crash ==
    /\ up /\ crashes < MaxCrashes
    /\ up' = FALSE /\ crashes' = crashes + 1
    /\ pc' = [j \in Jobs |-> IF pc[j] = "new" THEN "new" ELSE "dead"]
    /\ jobs' = [j \in Jobs |-> NoBatch]
    /\ mem' = disk
    /\ ticks' = [j \in Jobs |-> 0] /\ read' = [j \in Jobs |-> 0]
    /\ out' = [j \in Jobs |-> <<>>]
    /\ UNCHANGED <<told, disk, batchService>>

Restart ==
    /\ ~up /\ up' = TRUE
    /\ UNCHANGED <<crashes, pc, ticks, read, out, jobs, told, history,
                   batchService>>

Handler(j) ==
    Prepare(j) \/ Submit(j) \/ SubmitError(j) \/ Register(j)

Poller(j) ==
    \/ Tick(j) \/ TickEnded(j) \/ Report(j) \/ StatusError(j) \/ Deadline(j)
    \/ Collect(j) \/ ResultsError(j) \/ Persist(j) \/ Finish(j)

Next ==
    \/ \E j \in Jobs :
          \/ Handler(j) \/ Poller(j) \/ Respond(j)
          \/ ClaimSucceeds(j) \/ BatchEnds(j)
    \/ Crash \/ Restart

Spec == Init /\ [][Next]_vars

\* The server's goroutines run: every HTTP call to the service has a timeout
\* of 30 seconds.  Nothing is assumed of the service or the browser.
FairSpec ==
    /\ Spec
    /\ WF_vars(Restart)
    /\ \A j \in Jobs : WF_vars(Handler(j)) /\ WF_vars(Poller(j))

-----------------------------------------------------------------------------
(* Properties *)

\* When the browser sees "done" and reloads the history, the run is in it
\* (pollBatch saves before it sets the job), unless a restart came between.
DoneIsInHistory ==
    \A j \in Jobs : jobs[j] # NoBatch /\ jobs[j].status = "done" => j \in mem

\* A completed run is in history.json: "once a job is done it's persisted
\* via the store package" (handler.go:30).
DoneIsOnDisk ==
    \A j \in Jobs : jobs[j] # NoBatch /\ jobs[j].status = "done" => j \in disk

\* Every claim carries the verdict of its own result, or none, however the
\* results were ordered and whichever lines were lost.
VerdictsMatchClaims ==
    \A j \in Jobs : jobs[j] # NoBatch /\ jobs[j].status = "done" =>
        \A c \in Claims :
            \/ jobs[j].claims[c] = Unverifiable
            \/ jobs[j].claims[c] = c /\ c \in outcome[j]

\* The answer each browser would get, once it holds a batch id.
view ==
    [j \in Jobs |->
        IF told[j] THEN [status |-> BatchStatus(j).status,
                         succeeded |-> BatchStatus(j).succeeded]
        ELSE [status |-> "unknown", succeeded |-> 0]]

\* A browser that holds a batch id is never told that the job is unknown, and
\* what it is told never goes back: progress only grows, a final answer stays,
\* only a restart makes the job unknown.  And the answer is final in the end,
\* done or failed, even if the service never ends the batch.
Status == INSTANCE JobStatus

ImplementsJobStatus == Status!Spec

-----------------------------------------------------------------------------
(* The inductive invariant. *)

\* claims[c] is the verdict of claim c, which then succeeded at the service.
Matched(claims, succeeded) ==
    /\ claims \in [Claims -> Verdicts]
    /\ \A c \in Claims :
          \/ claims[c] = Unverifiable
          \/ claims[c] = c /\ c \in succeeded

\* Before the job is registered and after a restart nobody can ask for it.
UnregisteredInv(j) ==
    /\ pc[j] \in {"new", "submitting", "refused", "submitted"} => ~told[j]
    /\ pc[j] \in {"new", "submitting", "refused", "submitted", "dead"} =>
          jobs[j] = NoBatch

\* The progress shown never exceeds what was read last, nor that what succeeded.
ProgressInv(j) ==
    pc[j] \in {"polling", "reported", "ended", "scored", "saved"} =>
        /\ jobs[j].succeeded \in 0..Cardinality(outcome[j])
        /\ jobs[j] = Processing(jobs[j].succeeded)
        /\ pc[j] = "reported" =>
              read[j] \in jobs[j].succeeded..Cardinality(outcome[j])

ResultInv(j) ==
    /\ pc[j] \in {"scored", "saved"} => Matched(out[j], outcome[j])
    /\ pc[j] = "saved" => j \in mem
    /\ pc[j] = "finished" =>
          \/ jobs[j] = Failed
          \/ /\ jobs[j] = Done(jobs[j].claims)
             /\ Matched(jobs[j].claims, outcome[j])
             /\ j \in mem

BatchInv ==
    /\ TypeOK
    /\ \A j \in Jobs : UnregisteredInv(j) /\ ProgressInv(j) /\ ResultInv(j)
=============================================================================
