-------------------------- MODULE BatchJobsProofs --------------------------
(***************************************************************************)
(* Proofs about BatchJobs, for any jobs, claims, deadline and number of    *)
(* restarts: a finished job is in the history, every verdict belongs to    *)
(* its claim, and what the browser is told is a behaviour of JobStatus, up *)
(* to its liveness; of that, that an answer is being worked on and comes   *)
(* nearer with every step.                                                 *)
(***************************************************************************)
EXTENDS BatchJobs, FiniteSetTheorems, TLAPS

JobInv(j) == UnregisteredInv(j) /\ ProgressInv(j) /\ ResultInv(j)

-----------------------------------------------------------------------------
(* Counting claims, and the answers. *)

LEMMA ClaimsCounted ==
    ASSUME NEW S \in SUBSET Claims
    PROVE  /\ IsFiniteSet(S) /\ Cardinality(S) \in 0..N
           /\ \A c : Cardinality(S) <= Cardinality(S \cup {c})
<1>1. N \in Nat
  BY BatchAssumption
<1>2. IsFiniteSet(Claims) /\ Cardinality(Claims) = N
  BY <1>1, FS_Interval DEF Claims
<1>3. IsFiniteSet(S) /\ Cardinality(S) <= N /\ Cardinality(S) \in Nat
  BY <1>2, FS_Subset, FS_CardinalityType
<1>4. ASSUME NEW c
      PROVE  Cardinality(S) <= Cardinality(S \cup {c})
  BY <1>3, FS_AddElement
<1>5. Cardinality(S) \in 0..N
  BY <1>1, <1>3
<1> QED
  BY <1>3, <1>4, <1>5

LEMMA Answers ==
    /\ Failed \in Responses
    /\ \A n \in 0..N : /\ Processing(n) \in Responses
                       /\ Processing(n).status = "processing"
                       /\ Processing(n).succeeded = n
    /\ \A claims \in [Claims -> Verdicts] : /\ Done(claims) \in Responses
                                            /\ Done(claims).claims = claims
BY BatchAssumption DEF Responses, Failed, Processing, Done

-----------------------------------------------------------------------------
(* The inductive invariant. *)

LEMMA InitBatchInv == Init => BatchInv
BY BatchAssumption
   DEF Init, BatchInv, TypeOK, Pcs, UnregisteredInv, ProgressInv, ResultInv

\* A job that a step leaves alone keeps its invariant.
LEMMA Frame ==
    ASSUME NEW k \in Jobs, JobInv(k), mem \subseteq mem',
           UNCHANGED <<pc[k], told[k], jobs[k], read[k], out[k], outcome[k]>>
    PROVE  JobInv(k)'
BY DEF JobInv, UnregisteredInv, ProgressInv, ResultInv

LEMMA JobStep ==
    ASSUME BatchInv, NEW j \in Jobs, TypeOK', JobInv(j)', mem \subseteq mem',
           \A k \in Jobs \ {j} :
              UNCHANGED <<pc[k], told[k], jobs[k], read[k], out[k], outcome[k]>>
    PROVE  BatchInv'
<1>1. ASSUME NEW k \in Jobs
      PROVE  JobInv(k)'
  <2>1. JobInv(k)
    BY DEF BatchInv, JobInv
  <2> QED
    BY <2>1, Frame
<1> QED
  BY <1>1 DEF BatchInv, JobInv

LEMMA HandlerInv ==
    ASSUME BatchInv, NEW j \in Jobs, Handler(j)
    PROVE  BatchInv'
<1> USE DEF Goto, Set, history, batchService, JobInv
<1>1. TypeOK /\ JobInv(j)
  BY DEF BatchInv
<1>2. CASE Prepare(j) \/ Submit(j) \/ SubmitError(j)
  <2> USE DEF Prepare, Submit, SubmitError
  <2>1. TypeOK'
    BY <1>1, <1>2 DEF TypeOK, Pcs
  <2>2. JobInv(j)'
    BY <1>1, <1>2 DEF TypeOK, UnregisteredInv, ProgressInv, ResultInv
  <2> QED
    BY <1>1, <1>2, <2>1, <2>2, JobStep DEF TypeOK
<1>3. CASE Register(j)
  <2> USE DEF Register
  <2>1. Processing(0) \in Responses /\ Processing(0).succeeded = 0 /\ N \in Nat
    BY Answers, BatchAssumption
  <2>2. TypeOK'
    BY <1>1, <1>3, <2>1 DEF TypeOK, Pcs
  <2>3. pc'[j] = "polling" /\ jobs'[j] = Processing(0) /\ outcome'[j] = outcome[j]
    BY <1>1, <1>3 DEF TypeOK
  <2>4. Cardinality(outcome[j]) \in 0..N
    BY <1>1, ClaimsCounted DEF TypeOK
  <2>5. JobInv(j)'
    BY <2>1, <2>3, <2>4 DEF UnregisteredInv, ProgressInv, ResultInv
  <2> QED
    BY <1>1, <1>3, <2>2, <2>5, JobStep DEF TypeOK
<1> QED
  BY <1>2, <1>3 DEF Handler

LEMMA RespondInv ==
    ASSUME BatchInv, NEW j \in Jobs, Respond(j)
    PROVE  BatchInv'
<1> USE DEF Respond, server, history, batchService
<1>1. TypeOK /\ JobInv(j)
  BY DEF BatchInv, JobInv
<1>2. TypeOK'
  BY <1>1 DEF TypeOK
<1>3. JobInv(j)'
  BY <1>1 DEF TypeOK, JobInv, UnregisteredInv, ProgressInv, ResultInv
<1> QED
  BY <1>1, <1>2, <1>3, JobStep DEF TypeOK

\* The iterations of Poll: what is shown is what was read, and what was read
\* is what had succeeded.
LEMMA PollInv ==
    ASSUME BatchInv, NEW j \in Jobs, Tick(j) \/ TickEnded(j) \/ Report(j)
    PROVE  BatchInv'
<1> USE DEF Goto, Set, history, batchService
<1>1. TypeOK /\ JobInv(j)
  BY DEF BatchInv, JobInv
<1> DEFINE m == Cardinality(outcome[j])
<1>2. m \in 0..N /\ N \in Nat
  BY <1>1, ClaimsCounted, BatchAssumption DEF TypeOK
<1> HIDE DEF m
<1>3. CASE Tick(j)
  <2> USE DEF Tick
  <2>1. TypeOK'
    BY <1>1, <1>2, <1>3, BatchAssumption DEF TypeOK, Pcs, m
  <2>2. /\ pc[j] = "polling" /\ pc'[j] = "reported" /\ read'[j] = m
        /\ jobs'[j] = jobs[j] /\ outcome'[j] = outcome[j]
    BY <1>1, <1>3 DEF TypeOK, m
  <2>3. JobInv(j)'
    BY <1>1, <1>2, <2>2 DEF JobInv, UnregisteredInv, ProgressInv, ResultInv, m
  <2> QED
    BY <1>1, <1>3, <2>1, <2>3, JobStep DEF TypeOK
<1>4. CASE TickEnded(j)
  <2> USE DEF TickEnded
  <2>1. Processing(m) \in Responses /\ Processing(m).succeeded = m
    BY <1>2, Answers
  <2>2. TypeOK'
    BY <1>1, <1>2, <1>4, <2>1, BatchAssumption DEF TypeOK, Pcs, m
  <2>3. pc'[j] = "ended" /\ jobs'[j] = Processing(m) /\ outcome'[j] = outcome[j]
    BY <1>1, <1>4 DEF TypeOK, m
  <2>4. JobInv(j)'
    BY <1>2, <2>1, <2>3 DEF JobInv, UnregisteredInv, ProgressInv, ResultInv, m
  <2> QED
    BY <1>1, <1>4, <2>2, <2>4, JobStep DEF TypeOK
<1>5. CASE Report(j)
  <2> USE DEF Report
  <2>1. /\ read[j] \in 0..N /\ read[j] <= m
        /\ Processing(read[j]) \in Responses /\ Processing(read[j]).succeeded = read[j]
    BY <1>1, <1>2, <1>5, Answers DEF TypeOK, JobInv, ProgressInv, m
  <2>2. TypeOK'
    BY <1>1, <1>2, <1>5, <2>1 DEF TypeOK, Pcs
  <2>3. /\ pc'[j] = "polling" /\ jobs'[j] = Processing(read[j])
        /\ outcome'[j] = outcome[j]
    BY <1>1, <1>5 DEF TypeOK
  <2>4. JobInv(j)'
    BY <1>2, <2>1, <2>3 DEF JobInv, UnregisteredInv, ProgressInv, ResultInv, m
  <2> QED
    BY <1>1, <1>5, <2>2, <2>4, JobStep DEF TypeOK
<1> QED
  BY <1>3, <1>4, <1>5

\* Whatever goes wrong ends the job as failed.
LEMMA FailInv ==
    ASSUME BatchInv, NEW j \in Jobs, StatusError(j) \/ Deadline(j) \/ ResultsError(j)
    PROVE  BatchInv'
<1> USE DEF StatusError, Deadline, ResultsError, Goto, Set, history, batchService
<1>1. TypeOK /\ Failed \in Responses
  BY Answers DEF BatchInv
<1>2. TypeOK'
  <2>1. CASE StatusError(j) \/ Deadline(j)
    <3>1. ticks' = [ticks EXCEPT ![j] = 0] /\ 0 \in 0..MaxTicks
      BY <2>1, BatchAssumption
    <3>2. ticks' \in [Jobs -> 0..MaxTicks]
      BY <1>1, <3>1 DEF TypeOK
    <3>3. /\ pc' = [pc EXCEPT ![j] = "finished"] /\ jobs' = [jobs EXCEPT ![j] = Failed]
          /\ UNCHANGED <<up, crashes, read, out, told, mem, disk, service, outcome>>
      BY <2>1
    <3> QED
      BY <1>1, <3>2, <3>3 DEF TypeOK, Pcs
  <2>2. CASE ResultsError(j)
    BY <1>1, <2>2 DEF TypeOK, Pcs
  <2> QED
    BY <2>1, <2>2
<1>3. pc'[j] = "finished" /\ jobs'[j] = Failed
  BY <1>1 DEF TypeOK
<1>4. JobInv(j)'
  BY <1>3 DEF JobInv, UnregisteredInv, ProgressInv, ResultInv
<1> QED
  BY <1>1, <1>2, <1>4, JobStep DEF TypeOK

\* The results are matched to their claims, whatever lines came in which order.
LEMMA CollectInv ==
    ASSUME BatchInv, NEW j \in Jobs, Collect(j)
    PROVE  BatchInv'
<1> USE DEF Collect, Goto, history, batchService
<1>1. TypeOK /\ JobInv(j)
  BY DEF BatchInv, JobInv
<1>2. PICK lines \in Streams :
         out' = [out EXCEPT ![j] = [c \in Claims |->
                    IF c \in Range(lines) \cap outcome[j] THEN c ELSE Unverifiable]]
  OBVIOUS
<1> DEFINE results == [c \in Claims |->
                          IF c \in Range(lines) \cap outcome[j] THEN c ELSE Unverifiable]
<1>3. Matched(results, outcome[j])
  BY DEF Matched, Verdicts
<1>4. out' = [out EXCEPT ![j] = results] /\ results \in [Claims -> Verdicts]
  BY <1>2, <1>3 DEF Matched
<1> HIDE DEF results
<1>5. TypeOK'
  BY <1>1, <1>4 DEF TypeOK, Pcs
<1>6. /\ pc[j] = "ended" /\ pc'[j] = "scored" /\ out'[j] = results
      /\ jobs'[j] = jobs[j] /\ outcome'[j] = outcome[j]
  BY <1>1, <1>4 DEF TypeOK
<1>7. JobInv(j)'
  BY <1>1, <1>3, <1>6 DEF JobInv, UnregisteredInv, ProgressInv, ResultInv
<1> QED
  BY <1>1, <1>4, <1>5, <1>7, JobStep DEF TypeOK

\* The run is saved, and then the job is done.
LEMMA FinishInv ==
    ASSUME BatchInv, NEW j \in Jobs, Persist(j) \/ Finish(j)
    PROVE  BatchInv'
<1> USE DEF Goto, Set, history, batchService
<1>1. TypeOK /\ JobInv(j)
  BY DEF BatchInv, JobInv
<1>2. CASE Persist(j)
  <2> USE DEF Persist
  <2>1. TypeOK'
    BY <1>1, <1>2 DEF TypeOK, Pcs
  <2>2. /\ pc[j] = "scored" /\ pc'[j] = "saved" /\ j \in mem'
        /\ UNCHANGED <<jobs[j], out[j], outcome[j]>>
    BY <1>1, <1>2 DEF TypeOK
  <2>3. JobInv(j)'
    BY <1>1, <2>2 DEF JobInv, UnregisteredInv, ProgressInv, ResultInv
  <2> QED
    BY <1>1, <1>2, <2>1, <2>3, JobStep DEF TypeOK
<1>3. CASE Finish(j)
  <2> USE DEF Finish
  <2>1. pc[j] = "saved" /\ j \in mem /\ Matched(out[j], outcome[j])
    BY <1>1, <1>3 DEF JobInv, ResultInv
  <2>2. Done(out[j]) \in Responses /\ Done(out[j]).claims = out[j]
    BY <2>1, Answers DEF Matched
  <2>3. TypeOK'
    BY <1>1, <1>3, <2>2 DEF TypeOK, Pcs
  <2>4. /\ pc'[j] = "finished" /\ jobs'[j] = Done(out[j])
        /\ outcome'[j] = outcome[j] /\ mem' = mem
    BY <1>1, <1>3 DEF TypeOK
  <2>5. JobInv(j)'
    BY <2>1, <2>2, <2>4 DEF JobInv, UnregisteredInv, ProgressInv, ResultInv
  <2> QED
    BY <1>1, <1>3, <2>3, <2>5, JobStep DEF TypeOK
<1> QED
  BY <1>2, <1>3

LEMMA ServiceInv ==
    ASSUME BatchInv, NEW j \in Jobs, ClaimSucceeds(j) \/ BatchEnds(j)
    PROVE  BatchInv'
<1> USE DEF Watched, server, history
<1>1. TypeOK /\ JobInv(j)
  BY DEF BatchInv, JobInv
<1>2. CASE ClaimSucceeds(j)
  <2> USE DEF ClaimSucceeds
  <2>1. PICK c \in Claims : outcome' = [outcome EXCEPT ![j] = @ \cup {c}]
    BY <1>2
  <2>2. TypeOK'
    BY <1>1, <1>2, <2>1 DEF TypeOK
  <2>3. /\ outcome[j] \in SUBSET Claims /\ outcome'[j] = outcome[j] \cup {c}
        /\ UNCHANGED <<pc[j], told[j], jobs[j], read[j], out[j], mem>>
        /\ pc[j] \in {"submitted", "polling", "reported"}
    BY <1>1, <1>2, <2>1 DEF TypeOK
  <2>4. /\ Cardinality(outcome[j]) \in Nat /\ Cardinality(outcome'[j]) \in Nat
        /\ Cardinality(outcome[j]) <= Cardinality(outcome'[j])
    <3>1. outcome'[j] \in SUBSET Claims
      BY <2>2 DEF TypeOK
    <3>2. /\ Cardinality(outcome[j]) \in 0..N /\ Cardinality(outcome'[j]) \in 0..N
          /\ Cardinality(outcome[j]) <= Cardinality(outcome[j] \cup {c})
      BY <2>3, <3>1, ClaimsCounted
    <3> QED
      BY <2>3, <3>2
  <2>5. JobInv(j)'
    BY <1>1, <2>3, <2>4 DEF TypeOK, JobInv, UnregisteredInv, ProgressInv, ResultInv
  <2> QED
    BY <1>1, <1>2, <2>1, <2>2, <2>5, JobStep DEF TypeOK
<1>3. CASE BatchEnds(j)
  <2> USE DEF BatchEnds
  <2>1. TypeOK'
    BY <1>1, <1>3 DEF TypeOK
  <2>2. JobInv(j)'
    BY <1>1, <1>3, Frame
  <2> QED
    BY <1>3, <2>1, <2>2, JobStep
<1> QED
  BY <1>2, <1>3

LEMMA ProcessInv ==
    ASSUME BatchInv, Crash \/ Restart
    PROVE  BatchInv'
<1> USE DEF history, batchService
<1>1. TypeOK
  BY DEF BatchInv
<1>2. CASE Crash
  <2> USE DEF Crash
  <2>1. TypeOK'
    <3>1. /\ pc' \in [Jobs -> Pcs]
          /\ told' \in [Jobs -> BOOLEAN]
          /\ mem' \subseteq Jobs /\ disk' \subseteq Jobs
          /\ service' \in [Jobs -> {"absent", "in_progress", "ended"}]
          /\ outcome' \in [Jobs -> SUBSET Claims]
      BY <1>1, <1>2 DEF TypeOK, Pcs
    <3>2. up' \in BOOLEAN /\ crashes' \in 0..MaxCrashes
      <4>1. up' = FALSE /\ crashes < MaxCrashes /\ crashes' = crashes + 1
        BY <1>2
      <4>2. crashes \in 0..MaxCrashes /\ MaxCrashes \in Nat
        BY <1>1, BatchAssumption DEF TypeOK
      <4>3. crashes' \in 0..MaxCrashes
        BY <4>1, <4>2
      <4> QED
        BY <4>1, <4>3
    <3>3. 0 \in 0..MaxTicks /\ 0 \in 0..N
      BY BatchAssumption
    <3>4. ticks' \in [Jobs -> 0..MaxTicks] /\ read' \in [Jobs -> 0..N]
      BY <1>2, <3>3
    <3>5. /\ out' \in [Jobs -> {<<>>} \cup [Claims -> Verdicts]]
          /\ jobs' \in [Jobs -> Responses \cup {NoBatch}]
      BY <1>2
    <3> QED
      BY <3>1, <3>2, <3>4, <3>5 DEF TypeOK
  <2>2. ASSUME NEW k \in Jobs
        PROVE  JobInv(k)'
    BY <1>1, <1>2, <2>2
    DEF BatchInv, TypeOK, JobInv, UnregisteredInv, ProgressInv, ResultInv
  <2> QED
    BY <2>1, <2>2 DEF BatchInv, JobInv
<1>3. CASE Restart
  <2> USE DEF Restart
  <2>1. TypeOK'
    BY <1>1, <1>3 DEF TypeOK
  <2>2. ASSUME NEW k \in Jobs
        PROVE  JobInv(k)'
    BY <1>3, <2>2, Frame DEF BatchInv, JobInv
  <2> QED
    BY <2>1, <2>2 DEF BatchInv, JobInv
<1> QED
  BY <1>2, <1>3

LEMMA BatchStep == BatchInv /\ [Next]_vars => BatchInv'
<1> SUFFICES ASSUME BatchInv, [Next]_vars
             PROVE  BatchInv'
  OBVIOUS
<1>1. CASE UNCHANGED vars
  BY <1>1 DEF BatchInv, vars, server, history, batchService, TypeOK,
              UnregisteredInv, ProgressInv, ResultInv
<1>2. ASSUME NEW j \in Jobs, Poller(j)
      PROVE  BatchInv'
  BY <1>2, PollInv, FailInv, CollectInv, FinishInv DEF Poller
<1> QED
  BY <1>1, <1>2, HandlerInv, RespondInv, ServiceInv, ProcessInv DEF Next

\* The invariant, for any jobs, claims, deadline and number of restarts.
THEOREM BatchInvariant == Spec => []BatchInv
BY InitBatchInv, BatchStep, PTL DEF Spec
-----------------------------------------------------------------------------
(* What a browser and its user rely on. *)

\* Only a job that finished without an error says "done".
LEMMA DoneJob ==
    ASSUME BatchInv, NEW j \in Jobs, jobs[j] # NoBatch, jobs[j].status = "done"
    PROVE  j \in mem /\ Matched(jobs[j].claims, outcome[j])
<1>1. TypeOK /\ UnregisteredInv(j) /\ ProgressInv(j) /\ ResultInv(j)
  BY DEF BatchInv
<1>2. pc[j] \notin {"polling", "reported", "ended", "scored", "saved"}
  BY <1>1 DEF ProgressInv, Processing
<1>3. pc[j] = "finished"
  BY <1>1, <1>2 DEF TypeOK, Pcs, UnregisteredInv
<1>4. jobs[j] # Failed
  BY DEF Failed
<1> QED
  BY <1>1, <1>3, <1>4 DEF ResultInv

\* "done" is only said of a run that is in the history (handler.go:484).
THEOREM DoneAlwaysInHistory == Spec => []DoneIsInHistory
<1>1. BatchInv => DoneIsInHistory
  BY DoneJob DEF DoneIsInHistory
<1> QED
  BY <1>1, BatchInvariant, PTL

\* Every verdict is that of its own claim (batch.go:208).
THEOREM VerdictsAlwaysMatch == Spec => []VerdictsMatchClaims
<1>1. BatchInv => VerdictsMatchClaims
  BY DoneJob DEF VerdictsMatchClaims, Matched
<1> QED
  BY <1>1, BatchInvariant, PTL

-----------------------------------------------------------------------------
(* The safety part of the refinement: what the browser is told is a step of *)
(* JobStatus or stays the same.  Its liveness is left to TLC.               *)

LEMMA InitStatus == Init => Status!Init
BY DEF Init, view, Status!Init, Status!Unknown

\* What a job shows, by where its goroutine is.
Shows(j) ==
    /\ ~told[j] => view[j] = Status!Unknown
    /\ told[j] => view[j] # Status!Unknown
    /\ told[j] /\ pc[j] \in {"polling", "reported", "ended", "scored", "saved"} =>
          /\ jobs[j].succeeded \in 0..N
          /\ view[j] = Status!Processing(jobs[j].succeeded)
          /\ view[j] \in Status!InProgress
    /\ told[j] /\ pc[j] = "finished" => view[j] \in Status!Final
    /\ told[j] /\ pc[j] = "dead" => view[j] = Status!NotFound
    /\ told[j] => pc[j] \in {"polling", "reported", "ended", "scored", "saved",
                             "finished", "dead"}

AllShown == \A j \in Jobs : Shows(j)

LEMMA Shown == BatchInv => AllShown
<1> SUFFICES ASSUME BatchInv, NEW j \in Jobs
             PROVE  Shows(j)
  BY DEF AllShown
<1>1. TypeOK /\ UnregisteredInv(j) /\ ProgressInv(j) /\ ResultInv(j)
  BY DEF BatchInv
<1>2. ~told[j] => view[j] = Status!Unknown
  BY DEF view, Status!Unknown
<1>3. told[j] => pc[j] \in {"polling", "reported", "ended", "scored",
                            "saved", "finished", "dead"}
  BY <1>1 DEF TypeOK, Pcs, UnregisteredInv
<1>4. ASSUME told[j], pc[j] \in {"polling", "reported", "ended", "scored", "saved"}
      PROVE  /\ jobs[j].succeeded \in 0..N
             /\ view[j] = Status!Processing(jobs[j].succeeded)
             /\ view[j] \in Status!InProgress
  <2> DEFINE n == jobs[j].succeeded
  <2>1. n \in 0..Cardinality(outcome[j]) /\ jobs[j] = Processing(n)
    BY <1>1, <1>4 DEF ProgressInv
  <2>2. n \in 0..N
    <3>1. Cardinality(outcome[j]) \in 0..N /\ N \in Nat
      BY <1>1, ClaimsCounted, BatchAssumption DEF TypeOK
    <3> HIDE DEF n
    <3> QED
      BY <2>1, <3>1
  <2>3. jobs[j] # NoBatch /\ jobs[j].status = "processing"
    BY <2>1, <2>2, Answers, SentinelAssumption
  <2>4. view[j] = Status!Processing(n)
    BY <1>4, <2>3 DEF view, BatchStatus, Status!Processing
  <2> QED
    BY <2>2, <2>4 DEF Status!InProgress
<1>5. ASSUME told[j], pc[j] = "finished"
      PROVE  view[j] \in Status!Final
  <2>1. CASE jobs[j] = Failed
    <3>1. jobs[j] # NoBatch
      BY <2>1, Answers, SentinelAssumption
    <3> QED
      BY <1>5, <2>1, <3>1
      DEF view, BatchStatus, Failed, Status!Final, Status!Failed
  <2>2. CASE jobs[j] = Done(jobs[j].claims) /\ Matched(jobs[j].claims, outcome[j])
    <3>1. jobs[j] # NoBatch
      BY <2>2, Answers, SentinelAssumption DEF Matched
    <3> QED
      BY <1>5, <2>2, <3>1
      DEF view, BatchStatus, Done, Status!Final, Status!Done
  <2> QED
    BY <1>1, <1>5, <2>1, <2>2 DEF ResultInv
<1>6. ASSUME told[j], pc[j] = "dead"
      PROVE  view[j] = Status!NotFound
  BY <1>1, <1>6 DEF UnregisteredInv, view, BatchStatus, NotFound, Status!NotFound
<1>7. told[j] => view[j] # Status!Unknown
  BY <1>3, <1>4, <1>5, <1>6
  DEF Status!Unknown, Status!Processing, Status!Final, Status!Failed, Status!Done,
      Status!NotFound
<1> QED
  BY <1>2, <1>3, <1>4, <1>5, <1>6, <1>7 DEF Shows

LEMMA ShownNext == BatchInv' => AllShown'
BY Shown, PTL

\* The same answers are the same view; one answer that changes is a step of
\* one job, and no step at all while its browser does not know the id.
LEMMA ViewKept ==
    ASSUME UNCHANGED <<jobs, told>>
    PROVE  UNCHANGED view
BY DEF view, BatchStatus

LEMMA ViewOfOne ==
    ASSUME NEW j \in Jobs, \A k \in Jobs \ {j} : UNCHANGED <<jobs[k], told[k]>>
    PROVE  view' = [view EXCEPT ![j] = view'[j]]
BY DEF view, BatchStatus

LEMMA ViewStep ==
    ASSUME BatchInv, BatchInv', [Next]_vars
    PROVE  [Status!Next]_view
<1> USE DEF Goto, Set, server, history, batchService
<1>1. TypeOK /\ TypeOK' /\ AllShown /\ AllShown'
  BY Shown, ShownNext DEF BatchInv
<1>2. CASE UNCHANGED <<jobs, told>>
  BY <1>2, ViewKept
<1>3. ASSUME NEW j \in Jobs, Respond(j)
      PROVE  [Status!Next]_view
  <2>1. view[j] = Status!Unknown /\ Shows(j)'
    BY <1>1, <1>3 DEF AllShown, Shows, Respond
  <2>2. told'[j] /\ pc'[j] = pc[j] /\ pc[j] # "dead"
    BY <1>1, <1>3 DEF TypeOK, Respond
  <2>3. view'[j] \in Status!InProgress \cup Status!Final
    BY <2>1, <2>2 DEF Shows
  <2>4. view' = [view EXCEPT ![j] = view'[j]]
    BY <1>1, <1>3, ViewOfOne DEF TypeOK, Respond
  <2> QED
    BY <2>1, <2>3, <2>4 DEF Status!Next, Status!Give
<1>4. ASSUME NEW j \in Jobs, NEW r, Set(j, r), told' = told
      PROVE  view' = [view EXCEPT ![j] = view'[j]]
  BY <1>1, <1>4, ViewOfOne DEF TypeOK
<1>5. ASSUME NEW j \in Jobs, ~told[j], NEW r, Set(j, r), told' = told
      PROVE  UNCHANGED view
  <2>1. view[j] = Status!Unknown /\ view'[j] = Status!Unknown
    BY <1>1, <1>5 DEF AllShown, Shows
  <2> QED
    BY <1>4, <1>5, <2>1 DEF view
<1>6. ASSUME NEW j \in Jobs, Register(j)
      PROVE  UNCHANGED view
  <2>1. ~told[j]
    BY <1>6 DEF Register, BatchInv, UnregisteredInv
  <2> QED
    BY <1>5, <1>6, <2>1 DEF Register
<1>7. ASSUME NEW j \in Jobs, told[j], TickEnded(j) \/ Report(j)
      PROVE  Status!Progress(j)
  <2> DEFINE n == jobs[j].succeeded
             m == jobs'[j].succeeded
  <2>1. pc[j] \in {"polling", "reported"} /\ pc'[j] \in {"polling", "ended"} /\ told'[j]
    BY <1>1, <1>7 DEF TypeOK, TickEnded, Report
  <2>2. /\ view[j] = Status!Processing(n) /\ view[j] \in Status!InProgress
        /\ view'[j] = Status!Processing(m) /\ n \in 0..N /\ m \in 0..N
    BY <1>1, <1>7, <2>1 DEF AllShown, Shows
  <2>3. m >= n
    <3>1. CASE TickEnded(j)
      <4>1. m = Cardinality(outcome[j])
        BY <1>1, <3>1, ClaimsCounted, Answers DEF TypeOK, TickEnded
      <4> QED
        BY <1>1, <2>1, <4>1, ClaimsCounted DEF BatchInv, TypeOK, ProgressInv
    <3>2. CASE Report(j)
      <4>1. m = read[j] /\ pc[j] = "reported"
        BY <1>1, <3>2, Answers DEF TypeOK, Report
      <4> QED
        BY <4>1 DEF BatchInv, ProgressInv
    <3> QED
      BY <1>7, <3>1, <3>2
  <2>4. view' = [view EXCEPT ![j] = view'[j]]
    BY <1>4, <1>7 DEF TickEnded, Report
  <2>5. view[j].succeeded = n
    BY <2>2 DEF Status!Processing
  <2> HIDE DEF n, m
  <2>6. m \in n..N
    BY <2>2, <2>3, BatchAssumption
  <2> QED
    BY <2>2, <2>4, <2>5, <2>6 DEF Status!Progress
<1>8. ASSUME NEW j \in Jobs, told[j],
             StatusError(j) \/ Deadline(j) \/ ResultsError(j) \/ Finish(j)
      PROVE  Status!Settle(j)
  <2>1. /\ pc[j] \in {"polling", "ended", "saved"}
        /\ pc'[j] = "finished" /\ told'[j]
    BY <1>1, <1>8 DEF TypeOK, StatusError, Deadline, ResultsError, Finish
  <2>2. view[j] \in Status!InProgress /\ view'[j] \in Status!Final
    BY <1>1, <1>8, <2>1 DEF AllShown, Shows
  <2>3. view' = [view EXCEPT ![j] = view'[j]]
    BY <1>4, <1>8 DEF StatusError, Deadline, ResultsError, Finish
  <2> QED
    BY <2>2, <2>3 DEF Status!Settle
<1>9. CASE Crash
  <2>1. ASSUME NEW j \in Jobs
        PROVE  view'[j] = IF view[j] = Status!Unknown THEN Status!Unknown
                          ELSE Status!NotFound
    <3>1. told'[j] = told[j] /\ pc'[j] \in {"new", "dead"}
      BY <1>9, <2>1 DEF Crash
    <3> QED
      BY <1>1, <2>1, <3>1 DEF AllShown, Shows
  <2> QED
    BY <2>1 DEF view, Status!Next, Status!Forget
<1>10. ASSUME NEW j \in Jobs,
              \/ TickEnded(j) \/ Report(j) \/ StatusError(j) \/ Deadline(j)
              \/ ResultsError(j) \/ Finish(j)
       PROVE  [Status!Next]_view
  <2>1. CASE told[j]
    BY <1>7, <1>8, <1>10, <2>1 DEF Status!Next
  <2>2. CASE ~told[j]
    BY <1>5, <1>10, <2>2
    DEF TickEnded, Report, StatusError, Deadline, ResultsError, Finish
  <2> QED
    BY <2>1, <2>2
<1>11. ASSUME NEW j \in Jobs,
              \/ Prepare(j) \/ Submit(j) \/ SubmitError(j) \/ Tick(j) \/ Collect(j)
              \/ Persist(j) \/ ClaimSucceeds(j) \/ BatchEnds(j)
       PROVE  UNCHANGED <<jobs, told>>
  BY <1>11 DEF Prepare, Submit, SubmitError, Tick, Collect, Persist,
               ClaimSucceeds, BatchEnds
<1>12. CASE Restart \/ UNCHANGED vars
  BY <1>12, ViewKept DEF Restart, vars
<1> QED
  BY <1>2, <1>3, <1>6, <1>9, <1>10, <1>11, <1>12 DEF Next, Handler, Poller, Status!Next

\* A browser is never told that a registered job is unknown, its progress never
\* goes back and a final answer stays: JobStatus without its liveness.
THEOREM AnswersNeverGoBack == Spec => Status!Init /\ [][Status!Next]_view
BY InitStatus, ViewStep, BatchInvariant, PTL DEF Spec

-----------------------------------------------------------------------------
(* What an answer "processing" waits for. *)

\* The steps that the goroutines of j have left at most: two for every poll
\* before the deadline, and those around them.
StepsLeft(j) ==
    LET polls == 2 * (MaxTicks - ticks[j])
    IN  CASE pc[j] = "new" -> 2 * MaxTicks + 7 [] pc[j] = "submitting" -> 2 * MaxTicks + 6
          [] pc[j] = "submitted" -> 2 * MaxTicks + 5
          [] pc[j] = "reported" -> polls + 5 [] pc[j] = "polling" -> polls + 4
          [] pc[j] = "ended" -> 3 [] pc[j] = "scored" -> 2 [] pc[j] = "saved" -> 1
          [] OTHER -> 0

\* Every job that is registered and not over is at the service, and a
\* goroutine that has not ended polls it or finishes it.
UnansweredIsPolled ==
    \A j \in Jobs : jobs[j] # NoBatch /\ jobs[j].status = "processing" =>
        /\ pc[j] \in {"polling", "reported", "ended", "scored", "saved"}
        /\ service[j] # "absent"
        /\ StepsLeft(j) \in 1..2 * MaxTicks + 5

\* The service knows every batch that was accepted.
AcceptedInv ==
    \A j \in Jobs :
        pc[j] \in {"submitted", "polling", "reported", "ended", "scored", "saved"}
            => service[j] # "absent"

\* The service does not forget a batch.
LEMMA AcceptedStep ==
    ASSUME BatchInv, AcceptedInv, [Next]_vars
    PROVE  AcceptedInv'
<1>1. TypeOK
  BY DEF BatchInv
<1>2. CASE UNCHANGED vars
  BY <1>2 DEF vars, server, batchService, AcceptedInv
<1>3. ASSUME NEW j \in Jobs, Handler(j)
      PROVE  AcceptedInv'
  BY <1>1, <1>3
     DEF Handler, Prepare, Submit, SubmitError, Register, Goto, batchService, TypeOK, AcceptedInv
<1>4. ASSUME NEW j \in Jobs, Poller(j)
      PROVE  AcceptedInv'
  BY <1>1, <1>4
     DEF Poller, Tick, TickEnded, Report, StatusError, Deadline, Collect, ResultsError, Persist,
         Finish, Goto, batchService, TypeOK, AcceptedInv
<1>5. ASSUME NEW j \in Jobs, Respond(j) \/ ClaimSucceeds(j) \/ BatchEnds(j)
      PROVE  AcceptedInv'
  BY <1>1, <1>5
     DEF Respond, ClaimSucceeds, BatchEnds, server, batchService, TypeOK, AcceptedInv
<1>6. CASE Crash \/ Restart
  BY <1>1, <1>6 DEF Crash, Restart, batchService, TypeOK, AcceptedInv
<1> QED
  BY <1>2, <1>3, <1>4, <1>5, <1>6 DEF Next

\* Nobody is told "processing" of a job without a goroutine that works on it
\* and has few steps left (submitBatch registers the job before it starts the
\* goroutine, and every way out of pollBatch sets a final answer).
THEOREM UnansweredAlwaysPolled == Spec => []UnansweredIsPolled
<1>1. Init => AcceptedInv
  BY DEF Init, AcceptedInv
<1>2. BatchInv /\ AcceptedInv /\ [Next]_vars => AcceptedInv'
  BY AcceptedStep
<1>3. BatchInv /\ AcceptedInv => UnansweredIsPolled
  <2> SUFFICES ASSUME BatchInv, AcceptedInv, NEW j \in Jobs,
                      jobs[j] # NoBatch, jobs[j].status = "processing"
               PROVE  /\ pc[j] \in {"polling", "reported", "ended", "scored", "saved"}
                      /\ service[j] # "absent"
                      /\ StepsLeft(j) \in 1..2 * MaxTicks + 5
    BY DEF UnansweredIsPolled
  <2>1. TypeOK /\ UnregisteredInv(j) /\ ResultInv(j)
    BY DEF BatchInv
  <2>2. pc[j] # "finished"
    BY <2>1 DEF ResultInv, Failed, Done
  <2>3. pc[j] \in {"polling", "reported", "ended", "scored", "saved"}
    BY <2>1, <2>2 DEF TypeOK, Pcs, UnregisteredInv
  <2>4. ticks[j] \in 0..MaxTicks /\ MaxTicks \in Nat
    BY <2>1, BatchAssumption DEF TypeOK
  <2>5. StepsLeft(j) \in 1..2 * MaxTicks + 5
    BY <2>3, <2>4 DEF StepsLeft
  <2> QED
    BY <2>3, <2>5 DEF AcceptedInv
<1> QED
  BY <1>1, <1>2, <1>3, BatchInvariant, PTL DEF Spec

\* A step of the goroutines of j takes off one of its steps at least.
LEMMA OwnStep ==
    ASSUME BatchInv, NEW j \in Jobs, Handler(j) \/ Poller(j)
    PROVE  /\ StepsLeft(j)' < StepsLeft(j)
           /\ \A k \in Jobs \ {j} : StepsLeft(k)' = StepsLeft(k)
<1>1. /\ TypeOK /\ MaxTicks \in Nat /\ ticks[j] \in 0..MaxTicks
  BY BatchAssumption DEF BatchInv, TypeOK
<1>2. \A k \in Jobs \ {j} : pc'[k] = pc[k] /\ ticks'[k] = ticks[k]
  BY <1>1
     DEF Handler, Prepare, Submit, SubmitError, Register, Poller, Tick, TickEnded, Report,
         StatusError, Deadline, Collect, ResultsError, Persist, Finish, Goto, TypeOK
<1>3. \A k \in Jobs \ {j} : StepsLeft(k)' = StepsLeft(k)
  BY <1>2 DEF StepsLeft
<1>4. CASE Handler(j)
  <2>1. /\ ticks' = ticks
        /\ \/ pc[j] = "new" /\ pc'[j] \in {"submitting", "refused"}
           \/ pc[j] = "submitting" /\ pc'[j] \in {"submitted", "refused"}
           \/ pc[j] = "submitted" /\ pc'[j] = "polling"
    BY <1>1, <1>4
       DEF Handler, Prepare, Submit, SubmitError, Register, Goto, TypeOK
  <2> QED
    BY <1>1, <1>3, <2>1 DEF StepsLeft
<1>5. CASE Poller(j)
  <2>1. \/ pc[j] = "polling" /\ pc'[j] = "reported" /\ ticks[j] < MaxTicks /\ ticks'[j] = ticks[j] + 1
        \/ pc[j] = "polling" /\ pc'[j] \in {"ended", "finished"}
        \/ pc[j] = "reported" /\ pc'[j] = "polling" /\ ticks'[j] = ticks[j]
        \/ pc[j] = "ended" /\ pc'[j] \in {"scored", "finished"}
        \/ pc[j] = "scored" /\ pc'[j] = "saved"
        \/ pc[j] = "saved" /\ pc'[j] = "finished"
    BY <1>1, <1>5
       DEF Poller, Tick, TickEnded, Report, StatusError, Deadline, Collect, ResultsError,
           Persist, Finish, Goto, TypeOK
  <2> QED
    BY <1>1, <1>3, <2>1 DEF StepsLeft
<1> QED
  BY <1>4, <1>5

\* What the service, the browser and a restart do takes no job back.
LEMMA OthersStep ==
    ASSUME BatchInv, NEW k \in Jobs,
           \/ \E j \in Jobs : Respond(j) \/ ClaimSucceeds(j) \/ BatchEnds(j)
           \/ Crash \/ Restart
    PROVE  StepsLeft(k)' <= StepsLeft(k)
<1>1. /\ TypeOK /\ MaxTicks \in Nat /\ ticks[k] \in 0..MaxTicks
  BY BatchAssumption DEF BatchInv, TypeOK
<1>2. StepsLeft(k) \in Nat
  BY <1>1 DEF StepsLeft
<1>3. CASE Crash
  <2>1. pc'[k] = IF pc[k] = "new" THEN "new" ELSE "dead"
    BY <1>1, <1>3 DEF Crash, TypeOK
  <2> QED
    BY <1>1, <1>2, <2>1 DEF StepsLeft
<1>4. CASE UNCHANGED <<pc, ticks>>
  <2>1. StepsLeft(k)' = StepsLeft(k)
    BY <1>4 DEF StepsLeft
  <2> QED
    BY <1>2, <2>1
<1> QED
  BY <1>3, <1>4 DEF Respond, ClaimSucceeds, BatchEnds, Restart, server

\* Nothing takes a job further from its answer, neither the service, the
\* browser, the other jobs nor a restart, and each step of its own goroutines
\* takes it nearer: with UnansweredAlwaysPolled, and as long as the goroutines
\* run, every job has a final answer in the end (JobStatus.Answered), also when
\* the service never ends the batch.
THEOREM JobsComeNearer ==
    Spec => [][\A j \in Jobs : /\ StepsLeft(j)' <= StepsLeft(j)
                               /\ Handler(j) \/ Poller(j) => StepsLeft(j)' < StepsLeft(j)]_vars
<1>1. ASSUME BatchInv, [Next]_vars, ~UNCHANGED vars, NEW j \in Jobs
      PROVE  /\ StepsLeft(j)' <= StepsLeft(j)
             /\ Handler(j) \/ Poller(j) => StepsLeft(j)' < StepsLeft(j)
  <2>1. StepsLeft(j) \in Nat
    <3>1. MaxTicks \in Nat /\ ticks[j] \in 0..MaxTicks
      BY <1>1, BatchAssumption DEF BatchInv, TypeOK
    <3> QED
      BY <3>1 DEF StepsLeft
  <2>2. CASE Handler(j) \/ Poller(j)
    <3>1. StepsLeft(j)' < StepsLeft(j)
      BY <1>1, <2>2, OwnStep
    <3>2. StepsLeft(j)' \in Nat
      <4>1. BatchInv'
        BY <1>1, BatchStep
      <4>2. MaxTicks \in Nat /\ ticks'[j] \in 0..MaxTicks
        BY <4>1, BatchAssumption DEF BatchInv, TypeOK
      <4> QED
        BY <4>2 DEF StepsLeft
    <3> QED
      BY <2>1, <3>1, <3>2
  <2>3. ASSUME NEW k \in Jobs, k # j, Handler(k) \/ Poller(k)
        PROVE  StepsLeft(j)' <= StepsLeft(j)
    <3>1. StepsLeft(j)' = StepsLeft(j)
      BY <1>1, <2>3, OwnStep
    <3> QED
      BY <2>1, <3>1
  <2>4. ASSUME ~\E k \in Jobs : Handler(k) \/ Poller(k)
        PROVE  StepsLeft(j)' <= StepsLeft(j)
    BY <1>1, <2>4, OthersStep DEF Next
  <2> QED
    BY <2>2, <2>3, <2>4
<1>2. BatchInv /\ [Next]_vars
        => [\A j \in Jobs : /\ StepsLeft(j)' <= StepsLeft(j)
                            /\ Handler(j) \/ Poller(j) => StepsLeft(j)' < StepsLeft(j)]_vars
  BY <1>1
<1> QED
  BY <1>2, BatchInvariant, PTL DEF Spec
=============================================================================
