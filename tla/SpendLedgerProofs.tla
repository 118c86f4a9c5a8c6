------------------------- MODULE SpendLedgerProofs -------------------------
(***************************************************************************)
(* Proofs about SpendLedger and Admission, for any number of concurrent    *)
(* requests, any cap, free tiers and usages.  The results on the ledger    *)
(* rest on two facts: a bill is a difference of the convex function Over,  *)
(* so a stale lifetime total can only make it smaller; and every request   *)
(* in progress passed the cap check, so their number bounds what may still *)
(* be added.  Those on prices rest on every count growing with the number  *)
(* of words.                                                               *)
(***************************************************************************)
EXTENDS Admission, Pricing, FiniteSetTheorems, TLAPS

USE LedgerAssumption

-----------------------------------------------------------------------------
(* usage/billing.go *)

\* A bill is the growth of what the account owes in all.
LEMMA BillIsDifference ==
    ASSUME NEW run \in Nat, NEW before \in Nat
    PROVE  /\ Over(before) \in Nat /\ Over(before + run) \in Nat
           /\ BillableVoyage(run, before) = Over(before + run) - Over(before)
BY DEF BillableVoyage, Over

\* BillableVoyageUSD never charges more for an earlier lifetime total, nor
\* more than the run used: the charge grows with the total it is given.
THEOREM BillMonotone ==
    ASSUME NEW run \in Nat, NEW before \in Nat, NEW later \in Nat,
           before <= later
    PROVE  /\ BillableVoyage(run, before) \in Nat
           /\ BillableVoyage(run, before) <= BillableVoyage(run, later)
           /\ BillableVoyage(run, later) <= run
BY DEF BillableVoyage

\* BillableOpenAlexUSD charges at most the run's spend.
LEMMA OpenAlexBillBound ==
    ASSUME NEW run \in Nat, NEW before \in Nat
    PROVE  BillableOpenAlex(run, before) \in 0..run
BY DEF BillableOpenAlex

\* The report and the bills agree: a run is billed for what it uses beyond
\* what the report shows as left of the free tier, of the account's tokens
\* (Voyage) and of the day's credit (OpenAlex) alike.
THEOREM ShownIsFree ==
    ASSUME NEW run \in Nat, NEW before \in Nat
    PROVE  /\ BillableVoyage(run, before) = Remaining(run, Remaining(VoyageFree, before))
           /\ BillableOpenAlex(run, before)
                 = Remaining(run, Remaining(OpenAlexFree, before))
BY DEF BillableVoyage, BillableOpenAlex, Remaining

LEMMA BillType ==
    ASSUME NEW u \in Consumption, NEW v \in Nat, NEW o \in Nat
    PROVE  /\ Bill(u, v, o) \in Consumption
           /\ Bill(u, v, o).anthropic = u.anthropic
           /\ Bill(u, v, o).embed = BillableVoyage(u.embed, v)
           /\ Bill(u, v, o).openAlex <= u.openAlex
<1>1. u.anthropic \in Nat /\ u.embed \in Nat /\ u.openAlex \in Nat
  BY DEF Consumption
<1>2. BillableVoyage(u.embed, v) \in Nat
  <2> DEFINE e == u.embed
  <2>1. e \in Nat
    BY <1>1
  <2> HIDE DEF e
  <2>2. BillableVoyage(e, v) \in Nat
    BY <2>1, BillMonotone
  <2> QED
    BY <2>2 DEF e
<1>3. BillableOpenAlex(u.openAlex, o) \in 0..u.openAlex
  BY <1>1, OpenAlexBillBound
<1> QED
  BY <1>1, <1>2, <1>3 DEF Bill, Consumption

LEMMA UsageType ==
    /\ Usages \cup {Nothing} \subseteq Consumption
    /\ \A u \in Usages \cup {Nothing} : Sum(u) \in Nat /\ Sum(u) <= MaxCost
<1>1. Nothing \in Consumption /\ Sum(Nothing) = 0
  BY DEF Nothing, Consumption, Sum
<1> QED
  BY <1>1 DEF Consumption, Sum

-----------------------------------------------------------------------------
(* Counting the requests in progress. *)

LEMMA InProgressFinite ==
    /\ IsFiniteSet(InProgress)
    /\ Cardinality(InProgress) \in Nat
    /\ Cardinality(Runs) \in Nat
    /\ Cardinality(InProgress) <= Cardinality(Runs)
BY FS_Subset, FS_CardinalityType DEF InProgress

LEMMA Enter ==
    ASSUME NEW r \in Runs, pc \in [Runs -> Locations], pc[r] = "idle",
           NEW l \in Locations, l # "idle", pc' = [pc EXCEPT ![r] = l]
    PROVE  /\ Cardinality(InProgress') = Cardinality(InProgress) + 1
           /\ Cardinality(InProgress') <= Cardinality(Runs)
<1>1. InProgress' = InProgress \cup {r} /\ r \notin InProgress
  BY DEF InProgress
<1>2. InProgress' \subseteq Runs
  BY <1>1 DEF InProgress
<1> QED
  BY <1>1, <1>2, InProgressFinite, FS_AddElement, FS_Subset

LEMMA Leave ==
    ASSUME NEW r \in Runs, pc \in [Runs -> Locations], pc[r] # "idle",
           pc' = [pc EXCEPT ![r] = "idle"]
    PROVE  /\ Cardinality(InProgress') \in Nat
           /\ Cardinality(InProgress) = Cardinality(InProgress') + 1
<1>1. InProgress' = InProgress \ {r} /\ r \in InProgress
  BY DEF InProgress
<1>2. /\ IsFiniteSet(InProgress \ {r})
      /\ Cardinality(InProgress \ {r}) = Cardinality(InProgress) - 1
  BY <1>1, InProgressFinite, FS_RemoveElement
<1>3. Cardinality(InProgress \ {r}) \in Nat
  BY <1>2, FS_CardinalityType
<1> QED
  BY <1>1, <1>2, <1>3, InProgressFinite

LEMMA Times ==
    ASSUME NEW a \in Nat, NEW b \in Nat, a <= b
    PROVE  /\ a * MaxCost \in Nat
           /\ a * MaxCost <= b * MaxCost
           /\ (a + 1) * MaxCost = a * MaxCost + MaxCost
OBVIOUS
-----------------------------------------------------------------------------
(* The inductive invariant *)

LEMMA InitLedgerInv == Init => LedgerInv
<1> SUFFICES ASSUME Init PROVE LedgerInv
  OBVIOUS
<1>1. TypeOK
  BY DEF Init, TypeOK, Locations, Nothing, Consumption
<1>2. SeenInv /\ VoyageNeverOverbilled
  BY DEF Init, SeenInv, VoyageNeverOverbilled, Over
<1>3. Cardinality(InProgress) = 0
  BY FS_EmptySet DEF Init, InProgress
<1>4. BudgetInv
  BY <1>3, InProgressFinite, Times DEF Init, BudgetInv
<1> QED
  BY <1>1, <1>2, <1>4 DEF LedgerInv

\* The steps before the bill touch neither the store nor a bill.
LEMMA WorkStep ==
    ASSUME LedgerInv, NEW r \in Runs,
           CheckTotals(r) \/ EstimateVoyage(r) \/ Work(r) \/ Fail(r)
           \/ ReadVoyage(r) \/ \E e \in Estimates : Decide(r, e)
    PROVE  TypeOK' /\ SeenInv' /\ VoyageNeverOverbilled'
<1> USE DEF LedgerInv, TypeOK, Locations, store
<1>1. TypeOK'
  BY DEF CheckTotals, EstimateVoyage, Decide, Work, Fail, ReadVoyage
<1>2. SeenInv'
  BY DEF CheckTotals, EstimateVoyage, Decide, Work, Fail, ReadVoyage, SeenInv
<1>3. VoyageNeverOverbilled'
  BY DEF CheckTotals, EstimateVoyage, Decide, Work, Fail, ReadVoyage,
         VoyageNeverOverbilled
<1> QED
  BY <1>1, <1>2, <1>3

LEMMA PriceStep ==
    ASSUME LedgerInv, NEW r \in Runs, Price(r)
    PROVE  TypeOK' /\ SeenInv' /\ VoyageNeverOverbilled'
<1> USE DEF LedgerInv, TypeOK, Locations, store, Price
<1> DEFINE b == Bill(used[r], seen[r], daily)
<1>1. /\ b \in Consumption
      /\ b.anthropic = used[r].anthropic
      /\ b.embed = BillableVoyage(used[r].embed, seen[r])
      /\ b.openAlex <= used[r].openAlex
  BY BillType, UsageType
<1> HIDE DEF b
<1>2. bill' = [bill EXCEPT ![r] = b]
  BY DEF b
<1>3. TypeOK'
  BY <1>1, <1>2
<1>4. SeenInv'
  BY <1>1, <1>2 DEF SeenInv
<1>5. VoyageNeverOverbilled'
  BY DEF VoyageNeverOverbilled
<1> QED
  BY <1>3, <1>4, <1>5

\* The bill was computed from a total that is at most today's, so it is at
\* most what the run adds to the account's debt.
LEMMA AddRunStep ==
    ASSUME LedgerInv, NEW r \in Runs, AddRun(r)
    PROVE  /\ TypeOK' /\ SeenInv' /\ VoyageNeverOverbilled'
           /\ total' <= total + MaxCost
<1> USE DEF LedgerInv, TypeOK, Locations, AddRun
<1>1. /\ used[r].anthropic \in Nat /\ used[r].embed \in Nat
      /\ used[r].openAlex \in Nat
      /\ bill[r].anthropic \in Nat /\ bill[r].embed \in Nat
      /\ bill[r].openAlex \in Nat
  BY UsageType DEF Consumption
<1>2. /\ BillableVoyage(used[r].embed, lifetime) \in 0..used[r].embed
      /\ BillableVoyage(used[r].embed, seen[r])
            <= BillableVoyage(used[r].embed, lifetime)
  <2>1. seen[r] \in Nat /\ lifetime \in Nat /\ seen[r] <= lifetime
    BY DEF SeenInv
  <2> QED
    BY <1>1, <2>1 DEF BillableVoyage
<1>3. bill[r].embed <= BillableVoyage(used[r].embed, lifetime)
  BY <1>2 DEF SeenInv
<1>4. Nothing \in Usages \cup {Nothing} /\ Nothing \in Consumption
  BY UsageType
<1>5. TypeOK'
  BY <1>1, <1>4 DEF Sum
<1>6. SeenInv'
  BY <1>1 DEF SeenInv
<1>7. VoyageNeverOverbilled'
  <2>1. /\ Over(lifetime) \in Nat /\ Over(lifetime + used[r].embed) \in Nat
        /\ BillableVoyage(used[r].embed, lifetime)
              = Over(lifetime + used[r].embed) - Over(lifetime)
    BY <1>1, BillIsDifference
  <2>2. lifetime' = lifetime + used[r].embed
        /\ billedVoyage' = billedVoyage + bill[r].embed
    OBVIOUS
  <2>3. Over(lifetime)' = Over(lifetime + used[r].embed)
    BY <2>2 DEF Over
  <2> QED
    BY <1>1, <1>3, <2>1, <2>2, <2>3 DEF VoyageNeverOverbilled
<1>8. Sum(bill[r]) <= Sum(used[r])
  BY <1>1, <1>2, <1>3 DEF SeenInv, Sum
<1>9. total' <= total + MaxCost
  BY <1>1, <1>8, UsageType DEF Sum
<1> QED
  BY <1>5, <1>6, <1>7, <1>9

LEMMA ClockStep ==
    ASSUME LedgerInv, Midnight \/ Report \/ UNCHANGED vars
    PROVE  LedgerInv'
<1>1. InProgress' = InProgress
  BY DEF Midnight, Report, vars, locals, InProgress
<1>2. TypeOK' /\ SeenInv'
  <2>1. /\ UNCHANGED <<pc, left, seen, used, bill, total, lifetime, billedVoyage>>
        /\ daily' \in Nat /\ fresh' \in BOOLEAN
    <3>1. daily \in Nat /\ fresh \in BOOLEAN
      BY DEF LedgerInv, TypeOK
    <3>2. CASE Midnight
      BY <3>1, <3>2 DEF Midnight, locals
    <3>3. CASE Report
      BY <3>1, <3>3 DEF Report, locals
    <3>4. CASE UNCHANGED vars
      BY <3>1, <3>4 DEF vars, locals, store
    <3> QED
      BY <3>2, <3>3, <3>4
  <2> QED
    BY <2>1 DEF LedgerInv, TypeOK, SeenInv
<1>3. VoyageNeverOverbilled'
  BY DEF LedgerInv, VoyageNeverOverbilled, Over, Midnight, Report, vars, store
<1>4. BudgetInv'
  <2>1. total' = total
    BY DEF Midnight, Report, vars, store
  <2> QED
    BY <1>1, <2>1 DEF LedgerInv, BudgetInv
<1> QED
  BY <1>2, <1>3, <1>4 DEF LedgerInv

\* A request enters below the cap and leaves with at most one dearest run.
LEMMA BudgetStep ==
    ASSUME LedgerInv, NEW r \in Runs, Step(r)
    PROVE  BudgetInv'
<1> USE DEF LedgerInv, TypeOK, Locations
<1> SUFFICES ASSUME Cap > 0
             PROVE  total' + Cardinality(InProgress') * MaxCost
                       < Cap + Cardinality(Runs) * MaxCost
  BY DEF BudgetInv
<1>1. total + Cardinality(InProgress) * MaxCost
         < Cap + Cardinality(Runs) * MaxCost
  BY DEF BudgetInv
<1>2. CASE CheckTotals(r)
  <2>1. total < Cap /\ total' = total
    BY <1>2 DEF CheckTotals, store
  <2>2. /\ Cardinality(InProgress') = Cardinality(InProgress) + 1
        /\ Cardinality(InProgress') <= Cardinality(Runs)
    BY <1>2, Enter DEF CheckTotals
  <2>3. Cardinality(InProgress') * MaxCost <= Cardinality(Runs) * MaxCost
    BY <2>2, InProgressFinite, Times
  <2>4. Cardinality(InProgress') * MaxCost \in Nat
        /\ Cardinality(Runs) * MaxCost \in Nat
    BY <2>2, InProgressFinite, Times
  <2> QED
    BY <2>1, <2>3, <2>4
<1>3. CASE total' = total /\ InProgress' = InProgress
  BY <1>1, <1>3
<1>4. CASE total' <= total + MaxCost /\ total' \in Nat
           /\ Cardinality(InProgress') \in Nat
           /\ Cardinality(InProgress) = Cardinality(InProgress') + 1
  <2> DEFINE n == Cardinality(InProgress')
  <2> HIDE DEF n
  <2>1. n \in Nat /\ n * MaxCost \in Nat
        /\ (n + 1) * MaxCost = n * MaxCost + MaxCost
    BY <1>4, Times DEF n
  <2>2. total + (n + 1) * MaxCost < Cap + Cardinality(Runs) * MaxCost
    BY <1>1, <1>4 DEF n
  <2>3. Cardinality(Runs) * MaxCost \in Nat
    BY InProgressFinite, Times
  <2>4. total' + n * MaxCost < Cap + Cardinality(Runs) * MaxCost
    BY <1>4, <2>1, <2>2, <2>3
  <2> QED
    BY <2>4 DEF n
<1>5. CASE EstimateVoyage(r) \/ Work(r) \/ ReadVoyage(r) \/ Price(r)
  BY <1>3, <1>5 DEF EstimateVoyage, Work, ReadVoyage, Price, store, InProgress
<1>6. CASE pc[r] # "idle" /\ pc' = [pc EXCEPT ![r] = "idle"]
           /\ total' <= total + MaxCost /\ total' \in Nat
  BY <1>4, <1>6, Leave
<1>7. CASE Fail(r)
  BY <1>6, <1>7 DEF Fail, store
<1>8. CASE \E e \in Estimates : Decide(r, e)
  <2>1. total' = total
    BY <1>8 DEF Decide, store
  <2>2. pc' = [pc EXCEPT ![r] = "idle"] \/ pc' = [pc EXCEPT ![r] = "running"]
    BY <1>8 DEF Decide
  <2>3. CASE pc' = [pc EXCEPT ![r] = "idle"]
    <3>1. pc[r] # "idle"
      BY <1>8 DEF Decide
    <3>2. total' <= total + MaxCost /\ total' \in Nat
      BY <2>1
    <3> QED
      BY <1>6, <2>3, <3>1, <3>2
  <2>4. CASE pc' = [pc EXCEPT ![r] = "running"]
    BY <1>3, <1>8, <2>1, <2>4 DEF Decide, InProgress
  <2> QED
    BY <2>2, <2>3, <2>4
<1>9. CASE AddRun(r)
  <2>1. total' <= total + MaxCost /\ total' \in Nat
    BY <1>9, AddRunStep
  <2> QED
    BY <1>6, <1>9, <2>1 DEF AddRun
<1> QED
  BY <1>2, <1>5, <1>7, <1>8, <1>9 DEF Step

-----------------------------------------------------------------------------
(* Results *)

\* The ledger's inductive invariant: types, what a run has read compared
\* with the store, no overbilling, and the budget of the requests in progress
\* (costLimitOK, buildCostBreakdown, AddRun).
THEOREM LedgerInductive == Spec => []LedgerInv
<1>1. ASSUME LedgerInv, NEW r \in Runs, Step(r)
      PROVE  LedgerInv'
  <2>1. TypeOK' /\ SeenInv' /\ VoyageNeverOverbilled'
    BY <1>1, WorkStep, PriceStep, AddRunStep DEF Step
  <2> QED
    BY <1>1, <2>1, BudgetStep DEF LedgerInv
<1>2. LedgerInv /\ [Next]_vars => LedgerInv'
  BY <1>1, ClockStep DEF Next
<1> QED
  BY InitLedgerInv, <1>2, PTL DEF Spec

\* For any number of concurrent runs and any usage, the Voyage lines billed
\* never exceed what the recorded tokens cost beyond the free tier.
THEOREM NeverOverbilled == Spec => []VoyageNeverOverbilled
<1>1. LedgerInv => VoyageNeverOverbilled
  BY DEF LedgerInv
<1> QED
  BY LedgerInductive, <1>1, PTL

\* For any cap and any number of request slots, the recorded spend stays
\* below the cap plus one dearest run per slot (costLimitOK).
THEOREM BoundedOvershoot == Spec => []OvershootBounded
<1>1. LedgerInv => OvershootBounded
  <2> SUFFICES ASSUME LedgerInv, Cap > 0
               PROVE  total < Cap + Cardinality(Runs) * MaxCost
    BY DEF OvershootBounded
  <2>1. Cardinality(InProgress) * MaxCost \in Nat
        /\ Cardinality(Runs) * MaxCost \in Nat
    BY InProgressFinite, Times
  <2> QED
    BY <2>1 DEF LedgerInv, BudgetInv, TypeOK
<1> QED
  BY LedgerInductive, <1>1, PTL

\* A step in which a billed run becomes idle is its AddRun.
LEMMA OnlyAddRunLeaves ==
    ASSUME LedgerInv, [Next]_vars, NEW r \in Runs,
           pc[r] = "billed", pc'[r] = "idle"
    PROVE  AddRun(r)
<1> USE DEF LedgerInv, TypeOK, Locations
<1>1. pc' # pc
  OBVIOUS
<1>2. PICK s \in Runs : Step(s)
  BY <1>1 DEF Next, vars, Midnight, Report
<1>3. s = r
  BY <1>2 DEF Step, CheckTotals, EstimateVoyage, Decide, Work, Fail, ReadVoyage,
     Price, AddRun
<1> QED
  BY <1>2, <1>3 DEF Step, CheckTotals, EstimateVoyage, Decide, Work, Fail,
     ReadVoyage, Price

\* Whatever the other runs do, a run that none of them overtook between its
\* reading of the lifetime total and AddRun is billed exactly.
THEOREM UndisturbedIsExact == Spec => ExactUnlessOvertaken
<1>1. ASSUME LedgerInv, [Next]_vars, NEW r \in Runs,
             pc[r] = "billed", pc'[r] = "idle", seen[r] = lifetime
      PROVE  billedVoyage' - billedVoyage = Over(lifetime') - Over(lifetime)
  <2>1. AddRun(r)
    BY <1>1, OnlyAddRunLeaves
  <2>2. lifetime \in Nat /\ used[r].embed \in Nat /\ billedVoyage \in Nat
    BY <1>1, UsageType DEF LedgerInv, TypeOK, Consumption
  <2>3. bill[r].embed = BillableVoyage(used[r].embed, lifetime)
    BY <1>1 DEF LedgerInv, SeenInv
  <2>4. /\ billedVoyage' = billedVoyage + bill[r].embed
        /\ lifetime' = lifetime + used[r].embed
    BY <2>1 DEF AddRun
  <2> QED
    BY <2>2, <2>3, <2>4, BillIsDifference
<1>2. LedgerInv /\ [Next]_vars =>
        [\A r \in Runs : pc[r] = "billed" /\ pc'[r] = "idle" /\ seen[r] = lifetime =>
            billedVoyage' - billedVoyage = Over(lifetime') - Over(lifetime)]_vars
  BY <1>1
<1> QED
  BY <1>2, LedgerInductive, PTL DEF ExactUnlessOvertaken, Spec

-----------------------------------------------------------------------------
(* Admission: the preflight cap is kept by every request that keeps to its  *)
(* estimate and that no other overtakes.  The argument is that a bill grows *)
(* with the usage and with the day's spend, and that the day's spend only   *)
(* shrinks (at midnight) unless a run is added.                             *)

HIDE LedgerAssumption

\* A bill made of no more usage, at no more of the day's spend, is no dearer.
LEMMA SmallerBill ==
    ASSUME NEW u \in Consumption, NEW e \in Consumption, KeepsTo(u, e),
           NEW v \in Nat, NEW o \in Nat, NEW p \in Nat, p <= o
    PROVE  /\ Sum(Bill(u, v, p)) \in Nat
           /\ Sum(Bill(u, v, p)) <= Sum(Bill(e, v, o))
<1>1. /\ u.anthropic \in Nat /\ u.embed \in Nat /\ u.openAlex \in Nat
      /\ e.anthropic \in Nat /\ e.embed \in Nat /\ e.openAlex \in Nat
      /\ u.anthropic <= e.anthropic /\ u.embed <= e.embed
      /\ u.openAlex <= e.openAlex
  BY DEF Consumption, KeepsTo
<1>2. /\ BillableVoyage(u.embed, v) \in Nat /\ BillableVoyage(e.embed, v) \in Nat
      /\ BillableVoyage(u.embed, v) <= BillableVoyage(e.embed, v)
  BY <1>1, LedgerAssumption DEF BillableVoyage
<1>3. /\ BillableOpenAlex(u.openAlex, p) \in Nat
      /\ BillableOpenAlex(e.openAlex, o) \in Nat
      /\ BillableOpenAlex(u.openAlex, p) <= BillableOpenAlex(e.openAlex, o)
  BY <1>1, LedgerAssumption DEF BillableOpenAlex
<1> QED
  BY <1>1, <1>2, <1>3 DEF Bill, Sum

-----------------------------------------------------------------------------
(* pricing/pricing.go: the estimate grows with the text. *)

\* A price is paid per token: more tokens never cost less.
LEMMA DearerByTheToken ==
    ASSUME NEW p \in Nat, NEW n \in Nat, NEW m \in Nat, n <= m
    PROVE  n * p \in Nat /\ n * p <= m * p
<1>1. PICK d \in Nat : m = n + d
  <2>1. m - n \in Nat /\ m = n + (m - n)
    OBVIOUS
  <2> QED
    BY <2>1
<1>2. (n + d) * p = n * p + d * p /\ n * p \in Nat /\ d * p \in Nat
  OBVIOUS
<1> QED
  BY <1>1, <1>2

\* EstimateClaimCount and the counts made of it grow with the text.
LEMMA MoreWordsMoreClaims ==
    ASSUME NEW v \in Nat, NEW w \in Nat, v <= w
    PROVE  /\ EstClaims(v) \in Nat \ {0}
           /\ EstClaims(v) <= EstClaims(w)
BY DEF EstClaims, AtLeast

\* EstimateAuxCosts: so do the searches and the tokens to embed.
LEMMA MoreClaimsMoreWork ==
    ASSUME NEW c \in Nat, NEW d \in Nat, c <= d
    PROVE  /\ EstSearches(c) \in Nat /\ EstSearches(c) <= EstSearches(d)
           /\ EstEmbedTokens(c) \in Nat /\ EstEmbedTokens(c) <= EstEmbedTokens(d)
BY DEF EstSearches, EstEmbedTokens, AtLeast, AtMost

\* CalcExact: more tokens, either way, never cost less.
LEMMA MoreTokensCostMore ==
    ASSUME NEW i \in Nat, NEW j \in Nat, i <= j,
           NEW o \in Nat, NEW q \in Nat, o <= q
    PROVE  /\ CalcExact(i, o) \in Nat
           /\ CalcExact(i, o) <= CalcExact(j, q)
<1> USE PricingAssumption
<1>1. i * InputPrice \in Nat /\ i * InputPrice <= j * InputPrice /\ j * InputPrice \in Nat
  BY DearerByTheToken
<1>2. o * OutputPrice \in Nat /\ o * OutputPrice <= q * OutputPrice /\ q * OutputPrice \in Nat
  BY DearerByTheToken
<1> QED
  BY <1>1, <1>2 DEF CalcExact

\* EstimateFromText: neither fewer words nor the batch discount cost more.
LEMMA EstimateOfMoreText ==
    ASSUME NEW v \in Nat, NEW w \in Nat, v <= w,
           NEW b \in BOOLEAN, NEW d \in BOOLEAN, d => b
    PROVE  /\ EstimateFromText(v, b) \in Nat
           /\ EstimateFromText(v, b) <= EstimateFromText(w, d)
<1> DEFINE cv == EstClaims(v)
           cw == EstClaims(w)
           xv == CalcExact((14 * v) \div 10 + 400, 80 * cv)
           xw == CalcExact((14 * w) \div 10 + 400, 80 * cw)
           sv == CalcExact(1200 * cv, 150 * cv)
           sw == CalcExact(1200 * cw, 150 * cw)
<1>1. cv \in Nat /\ cw \in Nat /\ cv <= cw
  BY MoreWordsMoreClaims
<1>2. EstimateFromText(v, b) = xv + IF b THEN sv \div 2 ELSE sv
  BY DEF EstimateFromText, CalcAnthropic, Tokens
<1>3. EstimateFromText(w, d) = xw + IF d THEN sw \div 2 ELSE sw
  BY DEF EstimateFromText, CalcAnthropic, Tokens
<1> HIDE DEF cv, cw
<1>4. xv \in Nat /\ xw \in Nat /\ xv <= xw
  <2>1. /\ (14 * v) \div 10 + 400 \in Nat /\ (14 * w) \div 10 + 400 \in Nat
        /\ (14 * v) \div 10 + 400 <= (14 * w) \div 10 + 400
    OBVIOUS
  <2>2. 80 * cv \in Nat /\ 80 * cw \in Nat /\ 80 * cv <= 80 * cw
    BY <1>1
  <2> QED
    BY <2>1, <2>2, MoreTokensCostMore
<1>5. sv \in Nat /\ sw \in Nat /\ sv <= sw
  <2>1. /\ 1200 * cv \in Nat /\ 1200 * cw \in Nat /\ 1200 * cv <= 1200 * cw
        /\ 150 * cv \in Nat /\ 150 * cw \in Nat /\ 150 * cv <= 150 * cw
    BY <1>1
  <2> QED
    BY <2>1, MoreTokensCostMore
<1> HIDE DEF xv, xw, sv, sw
<1>6. /\ (IF b THEN sv \div 2 ELSE sv) \in Nat
      /\ (IF b THEN sv \div 2 ELSE sv) <= (IF d THEN sw \div 2 ELSE sw)
  BY <1>5
<1> QED
  BY <1>2, <1>3, <1>4, <1>5, <1>6

\* EstimateFull: a text with no more words, in a mode that is no dearer, is
\* estimated to use no more of any service; and the estimate of any text is one
\* the ledger's assumption allows.
THEOREM EstimateGrows ==
    ASSUME NEW v \in Nat, NEW w \in Nat, v <= w,
           NEW b \in BOOLEAN, NEW d \in BOOLEAN, d => b,
           NEW voyage \in BOOLEAN
    PROVE  /\ Estimate(v, b, voyage) \in Consumption
           /\ KeepsTo(Estimate(v, b, voyage), Estimate(w, d, voyage))
<1> DEFINE cv == EstClaims(v)
           cw == EstClaims(w)
<1>1. cv \in Nat /\ cw \in Nat /\ cv <= cw
  BY MoreWordsMoreClaims
<1>2. /\ EstimateFromText(v, b) \in Nat
      /\ EstimateFromText(v, b) <= EstimateFromText(w, d)
  BY EstimateOfMoreText
<1>3. Estimate(v, b, voyage)
         = [anthropic |-> EstimateFromText(v, b),
            embed     |-> IF voyage THEN EstEmbedTokens(cv) ELSE 0,
            openAlex  |-> SearchPrice * EstSearches(cv)]
  BY DEF Estimate
<1>4. Estimate(w, d, voyage)
         = [anthropic |-> EstimateFromText(w, d),
            embed     |-> IF voyage THEN EstEmbedTokens(cw) ELSE 0,
            openAlex  |-> SearchPrice * EstSearches(cw)]
  BY DEF Estimate
<1> HIDE DEF cv, cw
<1>5. /\ EstSearches(cv) \in Nat /\ EstSearches(cv) <= EstSearches(cw)
      /\ EstEmbedTokens(cv) \in Nat /\ EstEmbedTokens(cv) <= EstEmbedTokens(cw)
      /\ EstSearches(cw) \in Nat
  BY <1>1, MoreClaimsMoreWork
<1>6. /\ SearchPrice * EstSearches(cv) \in Nat
      /\ SearchPrice * EstSearches(cv) <= SearchPrice * EstSearches(cw)
  <2>1. SearchPrice \in Nat
    BY PricingAssumption
  <2>2. /\ EstSearches(cv) * SearchPrice \in Nat
        /\ EstSearches(cv) * SearchPrice <= EstSearches(cw) * SearchPrice
    BY <1>5, <2>1, DearerByTheToken
  <2>3. /\ SearchPrice * EstSearches(cv) = EstSearches(cv) * SearchPrice
        /\ SearchPrice * EstSearches(cw) = EstSearches(cw) * SearchPrice
    BY <1>5, <2>1
  <2> QED
    BY <2>2, <2>3
<1> QED
  BY <1>2, <1>3, <1>4, <1>5, <1>6 DEF Consumption, KeepsTo

\* costLimitOK never refuses a text and admits a longer one: in a state where
\* the check lets a text through, it lets through one with no more words, and
\* the same text with the batch discount, whatever is left of the free tiers.
THEOREM ShorterTextIsAdmitted ==
    ASSUME LedgerInv, NEW r \in Runs,
           NEW v \in Nat, NEW w \in Nat, v <= w,
           NEW b \in BOOLEAN, NEW d \in BOOLEAN, d => b,
           NEW voyage \in BOOLEAN,
           Decide(r, Estimate(w, d, voyage)), pc'[r] = "running"
    PROVE  ~ Sum(Bill(Estimate(v, b, voyage), seen[r], daily)) > left[r]
<1> DEFINE short == Estimate(v, b, voyage)
           long == Estimate(w, d, voyage)
           lifetimeSeen == seen[r]
<1>1. /\ short \in Consumption /\ long \in Consumption
      /\ KeepsTo(short, long) /\ KeepsTo(long, long)
  BY EstimateGrows
<1>2. ~ Sum(Bill(long, lifetimeSeen, daily)) > left[r]
  BY DEF Decide, LedgerInv, TypeOK
<1>3. lifetimeSeen \in Nat /\ daily \in Nat /\ left[r] \in Int
  BY DEF LedgerInv, TypeOK
<1> HIDE DEF short, long, lifetimeSeen
<1>4. /\ Sum(Bill(short, lifetimeSeen, daily)) \in Nat
      /\ Sum(Bill(long, lifetimeSeen, daily)) \in Nat
      /\ Sum(Bill(short, lifetimeSeen, daily))
            <= Sum(Bill(long, lifetimeSeen, daily))
  BY <1>1, <1>3, SmallerBill
<1>5. ~ Sum(Bill(short, lifetimeSeen, daily)) > left[r]
  BY <1>2, <1>3, <1>4
<1> QED
  BY <1>5 DEF short, lifetimeSeen

-----------------------------------------------------------------------------
(* What an admitted request may count on. *)

LEMMA PromiseType == Estimates \cup {Nothing} \subseteq Consumption
BY LedgerAssumption DEF Nothing, Consumption

\* A step of Admission is one of SpendLedger.
LEMMA AdmissionStep ==
    AdmissionNext \/ UNCHANGED <<vars, historyVars>> => [Next]_vars
BY DEF AdmissionNext, Admit, Overtake, Next, Step

-----------------------------------------------------------------------------
(* The steps. *)

\* Another request's step, before its AddRun, leaves the room of r alone.
LEMMA RoomOfOthers ==
    ASSUME LedgerInv, RoomInv, NEW s \in Runs, Step(s), ~AddRun(s),
           NEW r \in Runs, r # s
    PROVE  UNCHANGED <<pc[r], left[r], seen[r], used[r], bill[r],
                       total, lifetime, daily>>
BY DEF LedgerInv, TypeOK, Step, CheckTotals, EstimateVoyage, Decide, Work, Fail,
       ReadVoyage, Price, store

\* The preflight check reads the totals that r is not overtaken from.
LEMMA CheckStep ==
    ASSUME LedgerInv, RoomInv, NEW r \in Runs, r \notin overtaken, Cap > 0,
           CheckTotals(r) \/ EstimateVoyage(r)
    PROVE  /\ UNCHANGED <<total, lifetime>>
           /\ pc'[r] \in {"checked", "estimating"}
           /\ left'[r] = Cap - total
           /\ pc'[r] = "estimating" => seen'[r] = lifetime
BY DEF LedgerInv, TypeOK, RoomInv, Room, CheckTotals, EstimateVoyage, store

\* Decide lets r run only if the bill of the estimate fits.
LEMMA DecideStep ==
    ASSUME LedgerInv, RoomInv, NEW r \in Runs, r \notin overtaken, Cap > 0,
           NEW e \in Estimates, Decide(r, e), pc'[r] # "idle"
    PROVE  /\ UNCHANGED <<total, lifetime, daily>>
           /\ pc'[r] = "running"
           /\ Sum(Bill(e, lifetime, daily)) <= Cap - total
<1>1. seen[r] = lifetime /\ left[r] = Cap - total
  BY DEF RoomInv, Room, Decide
<1>2. total \in Nat /\ lifetime \in Nat /\ daily \in Nat /\ e \in Consumption
  BY PromiseType DEF LedgerInv, TypeOK
<1>3. KeepsTo(e, e)
  BY <1>2 DEF KeepsTo, Consumption
<1>4. Sum(Bill(e, lifetime, daily)) \in Nat
  BY <1>2, <1>3, SmallerBill
<1>5. ~(Sum(Bill(e, seen[r], daily)) > left[r]) /\ pc'[r] = "running"
  BY DEF Decide, LedgerInv, TypeOK
<1> QED
  BY <1>1, <1>2, <1>4, <1>5, LedgerAssumption DEF Decide, store

\* A run that kept to its estimate is billed no more than the estimate.
LEMMA PricedStep ==
    ASSUME LedgerInv, RoomInv, NEW r \in Runs, r \notin overtaken, Cap > 0,
           Price(r), KeepsTo(used[r], promise[r])
    PROVE  Sum(bill'[r]) <= Cap - total
<1>1. /\ used[r] \in Consumption /\ promise[r] \in Consumption
      /\ lifetime \in Nat /\ daily \in Nat /\ total \in Nat
  BY PromiseType, UsageType DEF LedgerInv, TypeOK, RoomInv
<1>2. /\ seen[r] = lifetime
      /\ Sum(Bill(promise[r], lifetime, daily)) <= Cap - total
  BY DEF RoomInv, Room, Price, Budgeted
<1>3. bill'[r] = Bill(used[r], lifetime, daily)
  BY <1>2 DEF Price, LedgerInv, TypeOK
<1>4. KeepsTo(promise[r], promise[r])
  BY <1>1 DEF KeepsTo, Consumption
<1>5. /\ Sum(Bill(used[r], lifetime, daily)) \in Nat
      /\ Sum(Bill(promise[r], lifetime, daily)) \in Nat
      /\ Sum(Bill(used[r], lifetime, daily)) <= Sum(Bill(promise[r], lifetime, daily))
  BY <1>1, <1>4, SmallerBill
<1> QED
  BY <1>1, <1>2, <1>3, <1>5, LedgerAssumption

-----------------------------------------------------------------------------
(* The inductive invariant *)

LEMMA PromiseStep ==
    ASSUME RoomInv, AdmissionNext
    PROVE  promise' \in [Runs -> Estimates \cup {Nothing}]
BY DEF RoomInv, AdmissionNext, Admit, Overtake, Undisturbed, historyVars

\* The step of the request itself.
LEMMA OwnStep ==
    ASSUME LedgerInv, RoomInv, Cap > 0, NEW r \in Runs, r \notin overtaken,
           pc'[r] # "idle",
           \/ Admit(r)
           \/ /\ CheckTotals(r) \/ EstimateVoyage(r) \/ Work(r) \/ Fail(r)
                 \/ ReadVoyage(r) \/ Price(r)
              /\ Undisturbed(r)
    PROVE  Room(r)'
<1> USE DEF Budgeted
<1>1. Room(r) /\ pc \in [Runs -> Locations]
  BY DEF RoomInv, LedgerInv, TypeOK
<1>2. CASE (CheckTotals(r) \/ EstimateVoyage(r)) /\ Undisturbed(r)
  BY <1>2, CheckStep DEF Room
<1>3. CASE Work(r) /\ Undisturbed(r)
  <2>1. UNCHANGED <<promise[r], total, lifetime, daily>>
    BY <1>3 DEF Work, Undisturbed, store
  <2>2. pc[r] = "running" /\ pc'[r] = "worked"
    BY <1>1, <1>3 DEF Work
  <2> QED
    BY <1>1, <2>1, <2>2 DEF Room
<1>4. CASE Fail(r)
  BY <1>1, <1>4 DEF Fail
<1>5. CASE ReadVoyage(r) /\ Undisturbed(r)
  <2>1. UNCHANGED <<promise[r], total, lifetime, daily>>
    BY <1>5 DEF ReadVoyage, Undisturbed, store
  <2>2. pc[r] = "worked" /\ pc'[r] = "pricing" /\ seen'[r] = lifetime
    BY <1>1, <1>5 DEF ReadVoyage, LedgerInv, TypeOK
  <2> QED
    BY <1>1, <2>1, <2>2 DEF Room
<1>6. CASE Price(r) /\ Undisturbed(r)
  <2>1. UNCHANGED <<promise[r], used[r], seen[r], total, lifetime, daily>>
    BY <1>6 DEF Price, Undisturbed, store
  <2>2. pc[r] = "pricing" /\ pc'[r] = "billed"
    BY <1>1, <1>6 DEF Price
  <2>3. KeepsTo(used[r], promise[r]) => Sum(bill'[r]) <= Cap - total
    BY <1>6, PricedStep
  <2> QED
    BY <1>1, <2>1, <2>2, <2>3 DEF Room
<1>7. CASE Admit(r)
  <2>1. PICK e \in Estimates :
           /\ Decide(r, e)
           /\ promise' = IF pc'[r] = "running" THEN [promise EXCEPT ![r] = e]
                         ELSE promise
    BY <1>7 DEF Admit
  <2>2. /\ UNCHANGED <<total, lifetime, daily>>
        /\ pc'[r] = "running"
        /\ Sum(Bill(e, lifetime, daily)) <= Cap - total
    BY <2>1, DecideStep
  <2>3. promise'[r] = e
    BY <2>1, <2>2 DEF RoomInv
  <2> QED
    BY <2>2, <2>3 DEF Room
<1> QED
  BY <1>2, <1>3, <1>4, <1>5, <1>6, <1>7

\* The clock and the report only lower the day's spend.
LEMMA ClockLeavesRoom ==
    ASSUME LedgerInv, RoomInv, Cap > 0, NEW r \in Runs, r \notin overtaken,
           Midnight \/ Report, UNCHANGED historyVars
    PROVE  Room(r)'
<1>1. /\ UNCHANGED <<pc, left, seen, used, bill, total, lifetime, promise>>
      /\ daily \in Nat /\ daily' \in Nat /\ daily' <= daily
  BY DEF Midnight, Report, locals, historyVars, LedgerInv, TypeOK
<1>2. promise[r] \in Consumption /\ lifetime \in Nat /\ total \in Nat
  BY PromiseType DEF RoomInv, LedgerInv, TypeOK
<1>3. KeepsTo(promise[r], promise[r])
  BY <1>2 DEF KeepsTo, Consumption
<1>4. /\ Sum(Bill(promise[r], lifetime, daily')) \in Nat
      /\ Sum(Bill(promise[r], lifetime, daily)) \in Nat
      /\ Sum(Bill(promise[r], lifetime, daily'))
            <= Sum(Bill(promise[r], lifetime, daily))
  BY <1>1, <1>2, <1>3, SmallerBill
<1>5. Sum(Bill(promise[r], lifetime, daily)) <= Cap - total =>
         Sum(Bill(promise[r], lifetime, daily')) <= Cap - total
  BY <1>2, <1>4, LedgerAssumption
<1>6. Room(r)
  BY DEF RoomInv
<1> QED
  BY <1>1, <1>5, <1>6 DEF Room

LEMMA RoomStep ==
    ASSUME LedgerInv, RoomInv, AdmissionNext
    PROVE  RoomInv'
<1> SUFFICES ASSUME Cap > 0, NEW r \in Runs, r \notin overtaken'
             PROVE  Room(r)'
  BY PromiseStep DEF RoomInv
<1>1. CASE pc'[r] = "idle"
  BY <1>1 DEF Room, Budgeted
<1>2. CASE pc'[r] # "idle"
  <2>1. CASE \E s \in Runs : Overtake(s)
    BY <1>2, <2>1 DEF Overtake, InProgressNext
  <2>2. CASE (Midnight \/ Report) /\ UNCHANGED historyVars
    BY <2>2, ClockLeavesRoom DEF historyVars
  <2>3. ASSUME NEW s \in Runs,
               \/ Admit(s)
               \/ /\ CheckTotals(s) \/ EstimateVoyage(s) \/ Work(s) \/ Fail(s)
                     \/ ReadVoyage(s) \/ Price(s)
                  /\ Undisturbed(s)
        PROVE  Room(r)'
    <3>1. r \notin overtaken
      BY <1>2, <2>3 DEF Admit, Undisturbed, InProgressNext
    <3>2. CASE s = r
      BY <1>2, <2>3, <3>1, <3>2, OwnStep
    <3>3. CASE s # r
      <4>1. Step(s) /\ ~AddRun(s)
        BY <2>3 DEF Admit, Step, CheckTotals, EstimateVoyage, Decide, Work, Fail,
           ReadVoyage, Price, AddRun
      <4>2. UNCHANGED <<pc[r], left[r], seen[r], used[r], bill[r],
                        total, lifetime, daily>>
        BY <3>3, <4>1, RoomOfOthers
      <4>3. promise'[r] = promise[r]
        BY <2>3, <3>3 DEF Admit, Undisturbed, RoomInv
      <4>4. Room(r)
        BY <3>1 DEF RoomInv
      <4> QED
        BY <4>2, <4>3, <4>4 DEF Room
    <3> QED
      BY <3>2, <3>3
  <2> QED
    BY <2>1, <2>2, <2>3 DEF AdmissionNext
<1> QED
  BY <1>1, <1>2

-----------------------------------------------------------------------------
(* Results *)

\* Admission only remembers: its behaviours are behaviours of SpendLedger, so
\* that what is proved of the ledger holds of it.
THEOREM OnlyRemembers == AdmissionSpec => Spec
<1>1. AdmissionInit => Init
  BY DEF AdmissionInit
<1>2. [AdmissionNext]_<<vars, historyVars>> => [Next]_vars
  BY AdmissionStep
<1> QED
  BY <1>1, <1>2, PTL DEF AdmissionSpec, Spec

LEMMA RoomInductive == AdmissionSpec => []RoomInv
<1>1. AdmissionInit => RoomInv
  BY DEF AdmissionInit, Init, RoomInv, Room, Budgeted
<1>2. RoomInv /\ UNCHANGED <<vars, historyVars>> => RoomInv'
  BY DEF vars, locals, store, historyVars, RoomInv, Room
<1>3. LedgerInv /\ RoomInv /\ [AdmissionNext]_<<vars, historyVars>> => RoomInv'
  BY <1>2, RoomStep
<1>4. AdmissionSpec => []LedgerInv
  BY OnlyRemembers, LedgerInductive, PTL
<1> QED
  BY <1>1, <1>3, <1>4, PTL DEF AdmissionSpec

\* For any cap, estimates, usages and number of concurrent requests: a request
\* that uses no more than it was estimated to, and that no other run overtook
\* since its preflight check, leaves the recorded spend within the cap
\* (costLimitOK, README.md:719).
THEOREM CapIsKept == AdmissionSpec => FitsCapUnlessOvertaken
<1>1. ASSUME LedgerInv, RoomInv, NEW r \in Runs, Cap > 0, AddRun(r),
             r \notin overtaken, KeepsTo(used[r], promise[r])
      PROVE  total' <= Cap
  <2>1. total' = total + Sum(bill[r]) /\ Sum(bill[r]) <= Cap - total
    BY <1>1 DEF AddRun, RoomInv, Room
  <2>2. total \in Nat /\ Sum(bill[r]) \in Nat
    BY <1>1 DEF LedgerInv, TypeOK, Consumption, Sum
  <2> QED
    BY <2>1, <2>2, LedgerAssumption
<1>2. LedgerInv /\ RoomInv =>
        [\A r \in Runs :
            (Cap > 0 /\ AddRun(r) /\ r \notin overtaken
                /\ KeepsTo(used[r], promise[r])) => total' <= Cap]_vars
  BY <1>1
<1>3. AdmissionSpec => []LedgerInv
  BY OnlyRemembers, LedgerInductive, PTL
<1> QED
  BY <1>2, <1>3, RoomInductive, PTL DEF FitsCapUnlessOvertaken
=============================================================================
