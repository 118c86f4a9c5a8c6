----------------------------- MODULE StoreLock -----------------------------
(***************************************************************************)
(* Who may touch Store.data when (store/store.go): AddRun, RenameRun and   *)
(* DeleteRun hold s.mu for writing, the getters hold it for reading, and   *)
(* GetAPIUsageReport renews the daily bucket while it holds it for reading.*)
(* The lock is Go's sync.RWMutex: a waiting writer keeps new readers out.  *)
(***************************************************************************)
CONSTANTS
    Threads     \* request goroutines inside a method of the store

VARIABLES
    pc,         \* pc[t]: where goroutine t is in a method
    stale       \* APIUsageDailyDate is not today

vars == <<pc, stale>>

\* Inside a method: a getter "reading" leaves the daily bucket alone, one that
\* is "summing" reads it; a report is "checking" its date before that, and
\* "renewing" it if need be.
Readers == {"reading", "summing", "checking", "renewing"}

Pcs == {"outside", "queued", "waiting", "writing"} \cup Readers

TypeOK ==
    /\ pc \in [Threads -> Pcs]
    /\ stale \in BOOLEAN

Init ==
    /\ pc = [t \in Threads |-> "outside"]
    /\ stale \in BOOLEAN

In(places) == \E t \in Threads : pc[t] \in places

Goto(t, from, to) ==
    /\ pc[t] = from
    /\ pc' = [pc EXCEPT ![t] = to]

-----------------------------------------------------------------------------
(* The lock. *)

RLock(t, to) ==
    /\ ~In({"waiting", "writing"})
    /\ Goto(t, "outside", to)

\* A writer queues behind other writers, then announces itself to readers.
RequestLock(t) ==
    /\ Goto(t, "outside", "queued")
    /\ UNCHANGED stale

Announce(t) ==
    /\ ~In({"waiting", "writing"})
    /\ Goto(t, "queued", "waiting")
    /\ UNCHANGED stale

Lock(t) ==
    /\ ~In({"writing"} \cup Readers)
    /\ Goto(t, "waiting", "writing")
    /\ UNCHANGED stale

-----------------------------------------------------------------------------
(* The methods. *)

\* GetHistory, GetTotals, GetLifetimeVoyageEmbedTokens.
Get(t) == RLock(t, "reading") /\ UNCHANGED stale

GetDailyOpenAlexSpend(t) == RLock(t, "summing") /\ UNCHANGED stale

GetReport(t) == RLock(t, "checking") /\ UNCHANGED stale

\* ensureDailyBucketLocked: the date is compared, then bucket and date are
\* assigned; the report is made of them afterwards.
CheckDate(t) ==
    /\ Goto(t, "checking", IF stale THEN "renewing" ELSE "summing")
    /\ UNCHANGED stale

RenewBucket(t) ==
    /\ Goto(t, "renewing", "summing")
    /\ stale' = FALSE

RUnlock(t) ==
    /\ Goto(t, "reading", "outside") \/ Goto(t, "summing", "outside")
    /\ UNCHANGED stale

\* RenameRun and DeleteRun leave the bucket alone; AddRun renews it.
Unlock(t) ==
    /\ Goto(t, "writing", "outside")
    /\ stale' \in {stale, FALSE}

Midnight ==
    /\ stale' = TRUE
    /\ UNCHANGED pc

Method(t) ==
    \/ RequestLock(t) \/ Announce(t) \/ Lock(t) \/ Unlock(t)
    \/ Get(t) \/ GetDailyOpenAlexSpend(t) \/ RUnlock(t)
    \/ GetReport(t) \/ CheckDate(t) \/ RenewBucket(t)

Next == (\E t \in Threads : Method(t)) \/ Midnight

Spec == Init /\ [][Next]_vars

-----------------------------------------------------------------------------
(* Properties *)

\* An operation that changes the history and saves it is alone in the store.
WriterIsAlone ==
    \A t, u \in Threads :
        pc[t] = "writing" /\ t # u => pc[u] \in {"outside", "queued", "waiting"}

\* "Store is a thread-safe persistent JSON store" (store.go:44): no two
\* goroutines assign the daily bucket at the same time, as two usage reports do
\* that both found yesterday's date.
BucketRaceFree ==
    \A t, u \in Threads : pc[t] = "renewing" /\ pc[u] = "renewing" => t = u
=============================================================================
