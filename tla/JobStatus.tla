----------------------------- MODULE JobStatus -----------------------------
(***************************************************************************)
(* What GET /batch/:id promises a browser that holds a batch id            *)
(* (README.md:667, types.go BatchStatusResponse): the number of claims     *)
(* done only grows, the final answer is final, only a restart of the       *)
(* server makes the job unknown, and every job has a final answer in the   *)
(* end.  BatchJobs implements this; Page relies on it.                     *)
(***************************************************************************)
EXTENDS Naturals

CONSTANTS
    Jobs,
    N           \* claims of a document

VARIABLE view   \* view[j]: the answer the browser would get for j

Unknown == [status |-> "unknown", succeeded |-> 0]     \* no id was given yet
NotFound == [status |-> "404", succeeded |-> 0]
Failed == [status |-> "failed", succeeded |-> 0]
Done == [status |-> "done", succeeded |-> N]
Processing(n) == [status |-> "processing", succeeded |-> n]

InProgress == {Processing(n) : n \in 0..N}
Final == {Failed, Done}

Init == view = [j \in Jobs |-> Unknown]

\* The browser learns the id; by then the job may already be over.
Give(j) ==
    /\ view[j] = Unknown
    /\ \E answer \in InProgress \cup Final : view' = [view EXCEPT ![j] = answer]

Progress(j) ==
    /\ view[j] \in InProgress
    /\ \E n \in view[j].succeeded..N : view' = [view EXCEPT ![j] = Processing(n)]

Settle(j) ==
    /\ view[j] \in InProgress
    /\ \E answer \in Final : view' = [view EXCEPT ![j] = answer]

\* A restart, which loses every job.
Forget ==
    view' = [j \in Jobs |-> IF view[j] = Unknown THEN Unknown ELSE NotFound]

Next == (\E j \in Jobs : Give(j) \/ Progress(j) \/ Settle(j)) \/ Forget

\* Nobody is told "processing" for ever.
Answered == \A j \in Jobs : (view[j] \in InProgress) ~> (view[j] \notin InProgress)

Spec == Init /\ [][Next]_view /\ Answered
=============================================================================
