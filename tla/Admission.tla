----------------------------- MODULE Admission -----------------------------
(***************************************************************************)
(* SpendLedger with a memory of what each request was admitted for: what   *)
(* MAX_COST_USD promises of a request that keeps to its estimate.          *)
(***************************************************************************)
EXTENDS SpendLedger

VARIABLES
    promise,    \* history: promise[r]: the estimate that r was admitted with
    overtaken   \* history: requests in progress since another's AddRun

historyVars == <<promise, overtaken>>

InProgressNext == {r \in Runs : pc'[r] # "idle"}

AdmissionInit ==
    /\ Init
    /\ promise = [r \in Runs |-> Nothing]
    /\ overtaken = {}

Undisturbed(r) ==
    /\ promise' = IF pc'[r] = "idle" THEN [promise EXCEPT ![r] = Nothing] ELSE promise
    /\ overtaken' = overtaken \cap InProgressNext

Admit(r) ==
    \E e \in Estimates :
        /\ Decide(r, e)
        /\ promise' = IF pc'[r] = "running" THEN [promise EXCEPT ![r] = e] ELSE promise
        /\ overtaken' = overtaken \cap InProgressNext

Overtake(r) ==
    /\ AddRun(r)
    /\ promise' = [promise EXCEPT ![r] = Nothing]
    /\ overtaken' = InProgressNext

AdmissionNext ==
    \/ \E r \in Runs : Admit(r) \/ Overtake(r)
    \/ \E r \in Runs :
          /\ CheckTotals(r) \/ EstimateVoyage(r) \/ Work(r) \/ Fail(r)
             \/ ReadVoyage(r) \/ Price(r)
          /\ Undisturbed(r)
    \/ (Midnight \/ Report) /\ UNCHANGED historyVars

AdmissionSpec == AdmissionInit /\ [][AdmissionNext]_<<vars, historyVars>>

-----------------------------------------------------------------------------
(* Properties *)

KeepsTo(u, e) ==
    u.anthropic <= e.anthropic /\ u.embed <= e.embed /\ u.openAlex <= e.openAlex

\* "Actual cumulative spend can exceed the cap if estimates are low or many
\* runs complete quickly" (README.md:719), and for no other reason: a run that
\* uses no more than it was estimated to, and that no other run overtook since
\* its preflight check, leaves the total within the cap, whatever happened to
\* the free tiers of the day meanwhile.
FitsCapUnlessOvertaken ==
    [][\A r \in Runs :
          (Cap > 0 /\ AddRun(r) /\ r \notin overtaken /\ KeepsTo(used[r], promise[r]))
              => total' <= Cap]_vars

-----------------------------------------------------------------------------
(* The inductive invariant, LedgerInv aside. *)

Budgeted == {"running", "worked", "pricing", "billed"}

\* What there is room for while r is in progress and not overtaken: the totals
\* are those of its preflight check, the bill of its estimate still fits in
\* what is left of the cap, and so does its own if it kept to the estimate.
Room(r) ==
    /\ pc[r] \in {"checked", "estimating"} => left[r] = Cap - total
    /\ pc[r] \in {"estimating", "pricing", "billed"} => seen[r] = lifetime
    /\ pc[r] \in Budgeted => Sum(Bill(promise[r], lifetime, daily)) <= Cap - total
    /\ pc[r] = "billed" /\ KeepsTo(used[r], promise[r]) => Sum(bill[r]) <= Cap - total

RoomInv ==
    /\ promise \in [Runs -> Estimates \cup {Nothing}]
    /\ Cap > 0 => \A r \in Runs \ overtaken : Room(r)
=============================================================================
