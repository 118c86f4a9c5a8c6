---------------------------- MODULE SpendLedger ----------------------------
(***************************************************************************)
(* What a run costs and what the server remembers of it: the preflight cap *)
(* (api/handler.go costLimitOK), the bill (api/cost.go, usage/billing.go)  *)
(* and the totals it is added to (store.go AddRun).  Requests run          *)
(* concurrently and every read of the store is a critical section of its   *)
(* own, so a bill is computed from totals that other runs may since have   *)
(* moved.  Money is counted in the price of one embedding token.           *)
(***************************************************************************)
EXTENDS Integers, FiniteSets

CONSTANTS
    Runs,           \* slots for requests in progress at the same time
    Cap,            \* MAX_COST_USD; 0 is no cap
    VoyageFree,     \* apilimits.VoyageFreeEmbedTokens, for the account's life
    OpenAlexFree,   \* apilimits.OpenAlexDailyFreeUSD, per UTC day
    Usages,         \* what the recorder of one run can hold at its end
    Estimates,      \* what pricing.EstimateFull can predict for a text
    MaxCost,        \* no run uses more than this, free tiers left aside
    Horizon         \* bound of the model: an uncapped server stops there

Consumption == [anthropic : Nat, embed : Nat, openAlex : Nat]

ASSUME LedgerAssumption ==
    /\ IsFiniteSet(Runs)
    /\ Cap \in Nat /\ VoyageFree \in Nat /\ OpenAlexFree \in Nat
    /\ MaxCost \in Nat /\ Horizon \in Nat
    /\ Usages \subseteq Consumption /\ Estimates \subseteq Consumption
    /\ \A u \in Usages : u.anthropic + u.embed + u.openAlex <= MaxCost

VARIABLES
    pc,             \* pc[r]: where slot r's request is
    left,           \* left[r]: budget computed by costLimitOK
    seen,           \* seen[r]: GetLifetimeVoyageEmbedTokens as read by r
    used,           \* used[r]: the run's usage recorder
    bill,           \* bill[r]: the run's CostBreakdown
    total,          \* Data.TotalCostUSD
    lifetime,       \* Data.APIUsageLifetime["voyage"].EmbedTokens
    daily,          \* Data.APIUsageDaily["openalex"].EstSpendUSD
    fresh,          \* Data.APIUsageDailyDate is today
    billedVoyage    \* history: the Voyage lines of every bill ever added

locals == <<left, seen, used, bill>>
store == <<total, lifetime, daily, fresh, billedVoyage>>
vars == <<pc, locals, store>>

Nothing == [anthropic |-> 0, embed |-> 0, openAlex |-> 0]

Sum(b) == b.anthropic + b.embed + b.openAlex

Locations ==
    {"idle", "checked", "estimating", "running", "worked", "pricing", "billed"}

TypeOK ==
    /\ pc \in [Runs -> Locations]
    /\ left \in [Runs -> Nat]
    /\ seen \in [Runs -> Nat]
    /\ used \in [Runs -> Usages \cup {Nothing}]
    /\ bill \in [Runs -> Consumption]
    /\ total \in Nat /\ lifetime \in Nat /\ daily \in Nat
    /\ fresh \in BOOLEAN
    /\ billedVoyage \in Nat

Init ==
    /\ pc = [r \in Runs |-> "idle"]
    /\ left = [r \in Runs |-> 0]
    /\ seen = [r \in Runs |-> 0]
    /\ used = [r \in Runs |-> Nothing]
    /\ bill = [r \in Runs |-> Nothing]
    /\ total = 0 /\ lifetime = 0 /\ daily = 0
    /\ fresh = TRUE
    /\ billedVoyage = 0

-----------------------------------------------------------------------------
(* usage/billing.go *)

\* Mutant of BillableVoyage: a run that crosses the free tier is billed whole.
BillableVoyageWhole(run, before) ==
    IF before >= VoyageFree \/ before + run > VoyageFree THEN run ELSE 0

\* Amounts are never negative here, which leaves out the first early return.
BillableVoyage(run, before) ==
    IF before >= VoyageFree THEN run
    ELSE IF before + run <= VoyageFree THEN 0
    ELSE before + run - VoyageFree

BillableOpenAlex(run, before) ==
    LET remaining == OpenAlexFree - before
    IN  IF before >= OpenAlexFree THEN run
        ELSE IF run <= remaining THEN 0 ELSE run - remaining

\* BuildAuxCosts and SumAuxUSD, the Anthropic part added.
Bill(u, voyageBefore, openAlexBefore) ==
    [anthropic |-> u.anthropic,
     embed     |-> BillableVoyage(u.embed, voyageBefore),
     openAlex  |-> BillableOpenAlex(u.openAlex, openAlexBefore)]

-----------------------------------------------------------------------------
(* Preflight: costLimitOK. *)

\* Mutant of CheckTotals: nothing left is taken for no cap.
CheckTotalsUnguarded(r) ==
    /\ pc[r] = "idle"
    /\ left' = [left EXCEPT ![r] = IF total < Cap THEN Cap - total ELSE 0]
    /\ pc' = [pc EXCEPT ![r] = IF total < Cap THEN "checked" ELSE "running"]
    /\ UNCHANGED <<seen, used, bill, store>>

\* GetTotals.  A request that finds the cap reached is answered 402 and
\* changes nothing; without a cap the other reads are skipped.
CheckTotals(r) ==
    /\ pc[r] = "idle"
    /\ total < IF Cap = 0 THEN Horizon ELSE Cap
    /\ left' = [left EXCEPT ![r] = IF Cap = 0 THEN 0 ELSE Cap - total]
    /\ pc' = [pc EXCEPT ![r] = IF Cap = 0 THEN "running" ELSE "checked"]
    /\ UNCHANGED <<seen, used, bill, store>>

\* The first argument of EstimateFull.
EstimateVoyage(r) ==
    /\ pc[r] = "checked"
    /\ seen' = [seen EXCEPT ![r] = lifetime]
    /\ pc' = [pc EXCEPT ![r] = "estimating"]
    /\ UNCHANGED <<left, used, bill, store>>

\* Mutant of Decide: the estimate leaves the other services out.
DecideOnHaiku(r, e) ==
    /\ pc[r] = "estimating"
    /\ pc' = [pc EXCEPT ![r] = IF e.anthropic > left[r] THEN "idle" ELSE "running"]
    /\ left' = [left EXCEPT ![r] = 0]
    /\ seen' = [seen EXCEPT ![r] = 0]
    /\ UNCHANGED <<used, bill, store>>

\* The second argument, and the comparison of the estimate for the text with
\* what is left of the budget.
Decide(r, e) ==
    /\ pc[r] = "estimating"
    /\ pc' = [pc EXCEPT ![r] =
                  IF Sum(Bill(e, seen[r], daily)) > left[r] THEN "idle" ELSE "running"]
    /\ left' = [left EXCEPT ![r] = 0]
    /\ seen' = [seen EXCEPT ![r] = 0]
    /\ UNCHANGED <<used, bill, store>>

-----------------------------------------------------------------------------
(* The run itself, then buildCostBreakdown and persistRun. *)

\* Extraction, retrieval and scoring, recorded as they happen.
Work(r) ==
    /\ pc[r] = "running"
    /\ \E u \in Usages : used' = [used EXCEPT ![r] = u]
    /\ pc' = [pc EXCEPT ![r] = "worked"]
    /\ UNCHANGED <<left, seen, bill, store>>

\* An error return: the recorder is dropped with the request.
Fail(r) ==
    /\ pc[r] = "worked"
    /\ used' = [used EXCEPT ![r] = Nothing]
    /\ pc' = [pc EXCEPT ![r] = "idle"]
    /\ UNCHANGED <<left, seen, bill, store>>

\* Mutant of ReadVoyage: the run's own tokens are already counted in.
ReadVoyageAfterwards(r) ==
    /\ pc[r] = "worked"
    /\ seen' = [seen EXCEPT ![r] = lifetime + used[r].embed]
    /\ pc' = [pc EXCEPT ![r] = "pricing"]
    /\ UNCHANGED <<left, used, bill, store>>

ReadVoyage(r) ==
    /\ pc[r] = "worked"
    /\ seen' = [seen EXCEPT ![r] = lifetime]
    /\ pc' = [pc EXCEPT ![r] = "pricing"]
    /\ UNCHANGED <<left, used, bill, store>>

\* GetDailyOpenAlexSpend reads the bucket whatever its date is.
Price(r) ==
    /\ pc[r] = "pricing"
    /\ bill' = [bill EXCEPT ![r] = Bill(used[r], seen[r], daily)]
    /\ pc' = [pc EXCEPT ![r] = "billed"]
    /\ UNCHANGED <<left, seen, used, store>>

\* AddRun: totals, ensureDailyBucketLocked and applyUsageDelta under s.mu.
AddRun(r) ==
    /\ pc[r] = "billed"
    /\ total' = total + Sum(bill[r])
    /\ billedVoyage' = billedVoyage + bill[r].embed
    /\ lifetime' = lifetime + used[r].embed
    /\ daily' = (IF fresh THEN daily ELSE 0) + used[r].openAlex
    /\ fresh' = TRUE
    /\ pc' = [pc EXCEPT ![r] = "idle"]
    /\ seen' = [seen EXCEPT ![r] = 0]
    /\ used' = [used EXCEPT ![r] = Nothing]
    /\ bill' = [bill EXCEPT ![r] = Nothing]
    /\ UNCHANGED left

-----------------------------------------------------------------------------
(* The clock, and GET /history. *)

\* The UTC date changes.
Midnight ==
    /\ fresh' = FALSE
    /\ UNCHANGED <<pc, locals, total, lifetime, daily, billedVoyage>>

\* What BuildReport shows as left of a free tier.
Remaining(limit, usage) == IF usage >= limit THEN 0 ELSE limit - usage

\* GetAPIUsageReport calls ensureDailyBucketLocked.
Report ==
    /\ daily' = IF fresh THEN daily ELSE 0
    /\ fresh' = TRUE
    /\ UNCHANGED <<pc, locals, total, lifetime, billedVoyage>>

Step(r) ==
    \/ CheckTotals(r) \/ EstimateVoyage(r)
    \/ \E e \in Estimates : Decide(r, e)
    \/ Work(r) \/ Fail(r)
    \/ ReadVoyage(r) \/ Price(r) \/ AddRun(r)

Next == (\E r \in Runs : Step(r)) \/ Midnight \/ Report

Spec == Init /\ [][Next]_vars

-----------------------------------------------------------------------------
(* Properties *)

\* What an account owes Voyage for x tokens in all.
Over(x) == IF x > VoyageFree THEN x - VoyageFree ELSE 0

\* Whatever the runs' interleaving, the Voyage lines billed so far never
\* exceed what the recorded tokens cost beyond the free tier: a stale
\* lifetime total errs in the user's favour (cost.go, AddRun).
VoyageNeverOverbilled == billedVoyage <= Over(lifetime)

\* The Voyage lines billed so far are exactly that cost: what "exact cost
\* for a completed analysis" (types.go:55) promises of the running total.
VoyageExact == billedVoyage = Over(lifetime)

\* Only a run that another overtook between its reading of the lifetime total
\* and AddRun can be billed too little: every other one pays exactly what its
\* tokens add to the account's debt.
ExactUnlessOvertaken ==
    [][\A r \in Runs : pc[r] = "billed" /\ pc'[r] = "idle" /\ seen[r] = lifetime =>
          billedVoyage' - billedVoyage = Over(lifetime') - Over(lifetime)]_vars

\* The preflight check alone keeps the recorded spend below the cap plus one
\* dearest run per request in progress, however long the server is used.
OvershootBounded ==
    Cap > 0 => total < Cap + Cardinality(Runs) * MaxCost

\* The OpenAlex line of a bill is computed from the spend of the current UTC
\* day, as store.go:133 says GetDailyOpenAlexSpend returns it.
OpenAlexBilledForToday ==
    [][\A r \in Runs : pc[r] = "pricing" /\ pc'[r] = "billed" =>
          bill'[r].openAlex =
              BillableOpenAlex(used[r].openAlex, IF fresh THEN daily ELSE 0)]_vars

\* Usage leaves a run's recorder only into the lifetime counters, which
\* "reflect real API calls, not stored records" (store.go:93).
UsageReachesStore ==
    [][\A r \in Runs : used[r] # Nothing /\ used'[r] = Nothing =>
          lifetime' = lifetime + used[r].embed]_vars

-----------------------------------------------------------------------------
(* The inductive invariant. *)

InProgress == {r \in Runs : pc[r] # "idle"}

\* A lifetime total read by a run is never ahead of the store, and the bill
\* follows from what was read.
SeenInv ==
    \A r \in Runs :
        /\ seen[r] <= lifetime
        /\ pc[r] = "billed" =>
              /\ bill[r].anthropic = used[r].anthropic
              /\ bill[r].embed = BillableVoyage(used[r].embed, seen[r])
              /\ bill[r].openAlex <= used[r].openAlex

\* Every request in progress passed the cap check, and may still add a bill.
BudgetInv ==
    Cap > 0 => total + Cardinality(InProgress) * MaxCost
                  < Cap + Cardinality(Runs) * MaxCost

LedgerInv ==
    /\ TypeOK
    /\ SeenInv
    /\ VoyageNeverOverbilled
    /\ BudgetInv
=============================================================================
