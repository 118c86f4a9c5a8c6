---------------------------- MODULE StoreProofs ----------------------------
(***************************************************************************)
(* Proofs about Store, for any number of callers, any labels, any length   *)
(* of the history and any number of runs and days: the file is whole, what *)
(* was acknowledged is in it, no spend is forgotten, the day's counters    *)
(* cover the day's runs, and the store implements DurableStore.            *)
(***************************************************************************)
EXTENDS Store, FiniteSetTheorems, SequenceTheorems, TLAPS

-----------------------------------------------------------------------------
(* What the operations make of the data. *)

LEMMA RunFields ==
    \A r \in Run : r.created \in Nat /\ r.day \in Nat /\ r.label \in Labels
BY DEF Run

LEMMA DataFields ==
    \A d \in Data : /\ d.runs \in Seq(Run) /\ d.total \in Nat
                    /\ d.daily \in Nat /\ d.date \in Nat
                    /\ Len(d.runs) \in Nat /\ DOMAIN d.runs = 1..Len(d.runs)
                    /\ \A i \in 1..Len(d.runs) : d.runs[i] \in Run
BY LenProperties, ElementOfSeq DEF Data

\* The runs of a day can be counted.
LEMMA Countable ==
    ASSUME NEW d \in Data, NEW day
    PROVE  /\ CompletedOn(d, day) \subseteq 1..Len(d.runs)
           /\ IsFiniteSet(CompletedOn(d, day))
           /\ Cardinality(CompletedOn(d, day)) \in Nat
<1>1. CompletedOn(d, day) \subseteq 1..Len(d.runs) /\ Len(d.runs) \in Nat
  BY DataFields DEF CompletedOn
<1>2. IsFiniteSet(1..Len(d.runs))
  BY <1>1, FS_Interval
<1> QED
  BY <1>1, <1>2, FS_Subset, FS_CardinalityType

LEMMA BlankData ==
    ASSUME NEW day \in Nat
    PROVE  /\ Blank(day) \in Data
           /\ CompletedOn(Blank(day), day) = {}
BY EmptySeq DEF Blank, Data, CompletedOn

\* The new run comes first, the history is shifted, and its end is cut off.
LEMMA Prepended ==
    ASSUME NEW runs \in Seq(Run), NEW run \in Run
    PROVE  LET kept == KeepLast(<<run>> \o runs)
           IN  /\ kept \in Seq(Run)
               /\ Len(kept) \in 1..(Len(runs) + 1) /\ Len(kept) <= MaxRuns
               /\ kept[1] = run
               /\ \A i \in 2..Len(kept) : kept[i] = runs[i - 1]
<1> DEFINE all == <<run>> \o runs
           kept == KeepLast(all)
<1>1. <<run>> \in Seq(Run) /\ Len(<<run>>) = 1 /\ <<run>>[1] = run
  OBVIOUS
<1>2. /\ all \in Seq(Run) /\ Len(all) = Len(runs) + 1 /\ Len(runs) \in Nat
      /\ \A i \in 1..Len(all) : all[i] = IF i <= 1 THEN run ELSE runs[i - 1]
  <2>1. /\ all \in Seq(Run) /\ Len(all) = 1 + Len(runs)
        /\ \A i \in 1..(1 + Len(runs)) :
              all[i] = IF i <= 1 THEN <<run>>[i] ELSE runs[i - 1]
    BY <1>1, ConcatProperties
  <2> QED
    BY <1>1, <2>1, LenProperties
<1>3. MaxRuns \in Nat /\ MaxRuns >= 1
  BY StoreAssumption
<1>4. /\ kept \in Seq(Run)
      /\ Len(kept) = IF Len(all) > MaxRuns THEN MaxRuns ELSE Len(all)
      /\ \A i \in 1..Len(kept) : kept[i] = all[i]
  <2> HIDE DEF all
  <2>1. CASE Len(all) > MaxRuns
    <3>1. kept = SubSeq(all, 1, MaxRuns)
      BY <2>1 DEF KeepLast
    <3>2. \A i \in 1..MaxRuns : all[i] \in Run
      BY <1>2, <1>3, <2>1, ElementOfSeq
    <3> QED
      BY <1>3, <2>1, <3>1, <3>2, SubSeqProperties
  <2>2. CASE ~(Len(all) > MaxRuns)
    BY <1>2, <2>2 DEF KeepLast
  <2> QED
    BY <2>1, <2>2
<1> HIDE DEF all, kept
<1>5. Len(kept) \in 1..(Len(runs) + 1) /\ Len(kept) <= MaxRuns
  BY <1>2, <1>3, <1>4
<1>6. kept[1] = run
  BY <1>2, <1>4, <1>5
<1>7. \A i \in 2..Len(kept) : kept[i] = runs[i - 1]
  BY <1>2, <1>3, <1>4
<1> QED
  BY <1>4, <1>5, <1>6, <1>7 DEF all, kept

LEMMA EnsureDailyData ==
    ASSUME NEW d \in Data, NEW day \in Nat
    PROVE  /\ EnsureDaily(d, day) \in Data
           /\ EnsureDaily(d, day).runs = d.runs
           /\ EnsureDaily(d, day).total = d.total
           /\ EnsureDaily(d, day).date = day
           /\ EnsureDaily(d, day).daily = IF d.date = day THEN d.daily ELSE 0
BY DEF EnsureDaily, Data

LEMMA WithRunData ==
    ASSUME NEW d \in Data, NEW run \in Run, NEW day \in Nat
    PROVE  /\ WithRun(d, run, day) \in Data
           /\ WithRun(d, run, day).runs = KeepLast(<<run>> \o d.runs)
           /\ WithRun(d, run, day).total = d.total + 1
           /\ WithRun(d, run, day).date = day
           /\ WithRun(d, run, day).daily = EnsureDaily(d, day).daily + 1
<1> DEFINE kept == KeepLast(<<run>> \o d.runs)
           e == EnsureDaily(d, day)
<1>1. kept \in Seq(Run)
  BY DataFields, Prepended
<1>2. /\ e \in Data /\ e.date = day /\ e.daily \in Nat
      /\ e = [runs |-> e.runs, total |-> e.total, daily |-> e.daily, date |-> e.date]
  BY EnsureDailyData DEF Data
<1>3. d.total \in Nat
  BY DEF Data
<1>4. WithRun(d, run, day) = [e EXCEPT !.runs = kept, !.total = d.total + 1,
                                       !.daily = e.daily + 1]
  BY DEF WithRun
<1> HIDE DEF kept, e
<1>5. WithRun(d, run, day) = [runs |-> kept, total |-> d.total + 1,
                              daily |-> e.daily + 1, date |-> e.date]
  BY <1>2, <1>4
<1> QED
  BY <1>1, <1>2, <1>3, <1>5 DEF Data, kept, e

LEMMA WithLabelData ==
    ASSUME NEW d \in Data, NEW i \in DOMAIN d.runs, NEW label \in Labels
    PROVE  LET e == WithLabel(d, i, label)
           IN  /\ e \in Data
               /\ e.total = d.total /\ e.daily = d.daily /\ e.date = d.date
               /\ Len(e.runs) = Len(d.runs)
               /\ \A j \in 1..Len(d.runs) : e.runs[j].day = d.runs[j].day
<1>1. /\ d.runs \in Seq(Run) /\ i \in 1..Len(d.runs)
      /\ \A j \in 1..Len(d.runs) : d.runs[j] \in Run
  BY DataFields
<1> DEFINE r == [d.runs[i] EXCEPT !.label = label]
           rs == [d.runs EXCEPT ![i] = r]
<1>2. r \in Run /\ r.day = d.runs[i].day
  BY <1>1 DEF Run
<1> HIDE DEF r
<1>3. /\ rs \in Seq(Run) /\ Len(rs) = Len(d.runs)
      /\ \A j \in 1..Len(d.runs) : rs[j] = IF j = i THEN r ELSE d.runs[j]
  BY <1>1, <1>2, ExceptSeq
<1>4. WithLabel(d, i, label) = [d EXCEPT !.runs = rs]
  BY DEF WithLabel, r, Data
<1> HIDE DEF rs
<1> QED
  BY <1>2, <1>3, <1>4 DEF Data

LEMMA WithoutData ==
    ASSUME NEW d \in Data, NEW i \in DOMAIN d.runs
    PROVE  LET e == Without(d, i)
           IN  /\ e \in Data
               /\ e.total = d.total /\ e.daily = d.daily /\ e.date = d.date
               /\ Len(e.runs) = Len(d.runs) - 1
               /\ \A j \in 1..Len(e.runs) :
                     e.runs[j] = d.runs[IF j < i THEN j ELSE j + 1]
<1> DEFINE s == d.runs
           a == SubSeq(s, 1, i - 1)
           b == SubSeq(s, i + 1, Len(s))
<1>1. /\ s \in Seq(Run) /\ Len(s) \in Nat /\ i \in 1..Len(s)
      /\ \A j \in 1..Len(s) : s[j] \in Run
  BY DataFields
<1> HIDE DEF s
<1>2. /\ a \in Seq(Run) /\ Len(a) = i - 1
      /\ \A j \in 1..(i - 1) : a[j] = s[j]
  <2>1. \A j \in 1..(i - 1) : s[j] \in Run
    BY <1>1
  <2> QED
    BY <1>1, <2>1, SubSeqProperties
<1>3. /\ b \in Seq(Run) /\ Len(b) = Len(s) - i
      /\ \A j \in 1..(Len(s) - i) : b[j] = s[i + j]
  <2>1. \A j \in (i + 1)..Len(s) : s[j] \in Run
    BY <1>1
  <2> QED
    BY <1>1, <2>1, SubSeqProperties
<1> HIDE DEF a, b
<1>4. /\ a \o b \in Seq(Run) /\ Len(a \o b) = Len(s) - 1
      /\ \A j \in 1..(Len(s) - 1) :
            (a \o b)[j] = IF j <= i - 1 THEN a[j] ELSE b[j - (i - 1)]
  BY <1>1, <1>2, <1>3, ConcatProperties
<1>5. ASSUME NEW j \in 1..(Len(s) - 1)
      PROVE  (a \o b)[j] = s[IF j < i THEN j ELSE j + 1]
  <2>1. CASE j < i
    BY <1>1, <1>2, <1>4, <2>1
  <2>2. CASE ~(j < i)
    <3>1. j - (i - 1) \in 1..(Len(s) - i) /\ i + (j - (i - 1)) = j + 1
      BY <1>1, <2>2
    <3> QED
      BY <1>1, <1>3, <1>4, <2>2, <3>1
  <2> QED
    BY <2>1, <2>2
<1>6. Without(d, i) = [d EXCEPT !.runs = a \o b]
  BY DEF Without, RemoveAt, a, b, s
<1> QED
  BY <1>4, <1>5, <1>6 DEF Data, s

-----------------------------------------------------------------------------
(* The day's counters cover the day's runs. *)

\* An injection does not lead into a smaller set.
LEMMA CountInto ==
    ASSUME NEW S, NEW T, IsFiniteSet(T), NEW f \in [S -> T],
           \A a, b \in S : f[a] = f[b] => a = b
    PROVE  Cardinality(S) <= Cardinality(T)
<1>1. f \in Injection(S, T)
  BY DEF Injection, IsInjective
<1> QED
  BY <1>1, FS_Injection

\* Whatever is of an earlier day than day has no run of that day.
LEMMA NoneYet ==
    ASSUME NEW d \in Data, NEW day \in Nat, Covered(d, day), d.date # day
    PROVE  CompletedOn(d, day) = {}
<1>1. d.date < day
  BY DataFields DEF Covered
<1>2. \A i \in DOMAIN d.runs : d.runs[i].day <= d.date /\ d.runs[i].day \in Nat
  BY DataFields, RunFields DEF Covered
<1> QED
  BY <1>1, <1>2, DataFields DEF CompletedOn

LEMMA CoveredBlank ==
    ASSUME NEW day \in Nat
    PROVE  Covered(Blank(day), day)
<1>1. Blank(day) \in Data /\ CompletedOn(Blank(day), Blank(day).date) = {}
  BY BlankData DEF Blank
<1>2. Blank(day).runs = <<>> /\ Blank(day).date = day /\ Blank(day).daily = 0
  BY DEF Blank
<1>3. MaxRuns \in Nat
  BY StoreAssumption
<1> QED
  BY <1>1, <1>2, <1>3, FS_EmptySet DEF Covered

LEMMA CoveredLater ==
    ASSUME NEW d \in Data, NEW day \in Nat, Covered(d, day)
    PROVE  Covered(d, day + 1)
BY DataFields DEF Covered

LEMMA CoveredEnsureDaily ==
    ASSUME NEW d \in Data, NEW day \in Nat, Covered(d, day)
    PROVE  Covered(EnsureDaily(d, day), day)
<1> DEFINE e == EnsureDaily(d, day)
<1>1. CASE d.date = day
  BY <1>1 DEF EnsureDaily
<1>2. CASE d.date # day
  <2>1. /\ e.runs = d.runs /\ e.date = day /\ e.daily = 0
    BY <1>2, EnsureDailyData
  <2>2. CompletedOn(e, day) = {}
    BY <1>2, <2>1, NoneYet DEF CompletedOn
  <2>3. \A i \in DOMAIN d.runs : d.runs[i].day <= day
    BY DataFields, RunFields DEF Covered
  <2>4. Len(d.runs) <= MaxRuns
    BY DEF Covered
  <2> HIDE DEF e
  <2>5. Covered(e, day)
    BY <2>1, <2>2, <2>3, <2>4, FS_EmptySet DEF Covered
  <2> QED
    BY <2>5 DEF e
<1> QED
  BY <1>1, <1>2

LEMMA CoveredWithRun ==
    ASSUME NEW d \in Data, NEW day \in Nat, Covered(d, day),
           NEW run \in Run, run.day <= day
    PROVE  Covered(WithRun(d, run, day), day)
<1> DEFINE e == WithRun(d, run, day)
           S == CompletedOn(e, day)
           T == CompletedOn(d, day)
<1>1. /\ e \in Data /\ e.date = day
      /\ e.daily = (IF d.date = day THEN d.daily ELSE 0) + 1
      /\ Len(e.runs) \in 1..(Len(d.runs) + 1) /\ Len(e.runs) <= MaxRuns
      /\ e.runs[1] = run
      /\ \A i \in 2..Len(e.runs) : e.runs[i] = d.runs[i - 1]
  <2>1. /\ e \in Data /\ e.date = day /\ e.daily = EnsureDaily(d, day).daily + 1
        /\ e.runs = KeepLast(<<run>> \o d.runs)
    BY WithRunData
  <2>2. EnsureDaily(d, day).daily = IF d.date = day THEN d.daily ELSE 0
    BY EnsureDailyData
  <2>3. d.runs \in Seq(Run)
    BY DataFields
  <2> DEFINE kept == KeepLast(<<run>> \o d.runs)
  <2>4. /\ Len(kept) \in 1..(Len(d.runs) + 1) /\ Len(kept) <= MaxRuns
        /\ kept[1] = run
        /\ \A i \in 2..Len(kept) : kept[i] = d.runs[i - 1]
    BY <2>3, Prepended
  <2>5. e.runs = kept
    BY <2>1
  <2> HIDE DEF e, kept
  <2> QED
    BY <2>1, <2>2, <2>4, <2>5
<1> HIDE DEF e
<1>2. /\ d.date \in Nat /\ d.daily \in Nat /\ Len(d.runs) \in Nat
      /\ DOMAIN d.runs = 1..Len(d.runs) /\ DOMAIN e.runs = 1..Len(e.runs)
      /\ Len(e.runs) \in Nat
  BY <1>1, DataFields
<1>3. \A i \in DOMAIN e.runs : e.runs[i].day <= e.date
  <2>1. \A i \in 1..Len(d.runs) : d.runs[i].day <= day
    BY <1>2, DataFields, RunFields DEF Covered
  <2>2. \A i \in 2..Len(e.runs) : i - 1 \in 1..Len(d.runs)
    BY <1>1, <1>2
  <2>3. \A i \in 2..Len(e.runs) : e.runs[i].day <= e.date
    <3>1. \A i \in 2..Len(e.runs) : e.runs[i] = d.runs[i - 1]
      BY <1>1
    <3> QED
      BY <1>1, <2>1, <2>2, <3>1
  <2>4. \A i \in DOMAIN e.runs : i = 1 \/ i \in 2..Len(e.runs)
    BY <1>2
  <2> QED
    BY <1>1, <2>3, <2>4
<1>4. /\ S \subseteq 1..Len(e.runs) /\ IsFiniteSet(S) /\ Cardinality(S) \in Nat
      /\ IsFiniteSet(T) /\ Cardinality(T) \in Nat
  BY <1>1, Countable
<1>5. Cardinality(S \ {1}) <= Cardinality(T)
  <2> DEFINE f == [i \in S \ {1} |-> i - 1]
  <2>1. ASSUME NEW i \in S \ {1}
        PROVE  i \in Nat /\ i - 1 \in T
    <3>1. i \in 2..Len(e.runs) /\ e.runs[i].day = day
      BY <1>2, <1>4 DEF CompletedOn
    <3>2. i - 1 \in 1..Len(d.runs) /\ d.runs[i - 1].day = day
      <4>1. i - 1 \in 1..Len(d.runs)
        BY <1>1, <1>2, <3>1
      <4>2. e.runs[i] = d.runs[i - 1]
        BY <1>1, <3>1
      <4> QED
        BY <3>1, <4>1, <4>2
    <3> QED
      BY <1>2, <3>1, <3>2 DEF CompletedOn
  <2>2. f \in [S \ {1} -> T]
    BY <2>1
  <2>3. \A a, b \in S \ {1} : f[a] = f[b] => a = b
    BY <2>1
  <2> QED
    BY <1>4, <2>2, <2>3, CountInto
<1>6. Cardinality(S) <= Cardinality(T) + 1
  <2>1. Cardinality(S \ {1}) = IF 1 \in S THEN Cardinality(S) - 1 ELSE Cardinality(S)
    BY <1>4, FS_RemoveElement
  <2> QED
    BY <1>4, <1>5, <2>1
<1>7. Cardinality(T) <= IF d.date = day THEN d.daily ELSE 0
  <2>1. CASE d.date = day
    BY <2>1 DEF Covered
  <2>2. CASE d.date # day
    BY <2>2, NoneYet, FS_EmptySet
  <2> QED
    BY <2>1, <2>2
<1>8. Cardinality(S) <= e.daily
  BY <1>1, <1>2, <1>4, <1>6, <1>7
<1>9. Covered(e, day)
  BY <1>1, <1>3, <1>8 DEF Covered
<1> QED
  BY <1>9 DEF e

LEMMA CoveredWithLabel ==
    ASSUME NEW d \in Data, NEW day \in Nat, Covered(d, day),
           NEW i \in DOMAIN d.runs, NEW label \in Labels
    PROVE  Covered(WithLabel(d, i, label), day)
<1> DEFINE e == WithLabel(d, i, label)
<1>1. /\ e \in Data /\ e.daily = d.daily /\ e.date = d.date
      /\ Len(e.runs) = Len(d.runs)
      /\ \A j \in 1..Len(d.runs) : e.runs[j].day = d.runs[j].day
  BY WithLabelData
<1> HIDE DEF e
<1>2. DOMAIN e.runs = 1..Len(d.runs) /\ DOMAIN d.runs = 1..Len(d.runs)
  BY <1>1, DataFields
<1>3. CompletedOn(e, e.date) = CompletedOn(d, d.date)
  BY <1>1, <1>2 DEF CompletedOn
<1>4. Covered(e, day)
  BY <1>1, <1>2, <1>3 DEF Covered
<1> QED
  BY <1>4 DEF e

LEMMA CoveredWithout ==
    ASSUME NEW d \in Data, NEW day \in Nat, Covered(d, day),
           NEW i \in DOMAIN d.runs
    PROVE  Covered(Without(d, i), day)
<1> DEFINE e == Without(d, i)
           S == CompletedOn(e, d.date)
           T == CompletedOn(d, d.date)
           from(j) == IF j < i THEN j ELSE j + 1
           f == [j \in S |-> from(j)]
<1>1. /\ e \in Data /\ e.daily = d.daily /\ e.date = d.date
      /\ Len(e.runs) = Len(d.runs) - 1
      /\ \A j \in 1..Len(e.runs) : e.runs[j] = d.runs[from(j)]
  BY WithoutData
<1> HIDE DEF e
<1>2. /\ DOMAIN e.runs = 1..Len(e.runs) /\ DOMAIN d.runs = 1..Len(d.runs)
      /\ Len(d.runs) \in Nat /\ i \in 1..Len(d.runs)
  BY <1>1, DataFields
<1>3. \A j \in 1..Len(e.runs) : from(j) \in 1..Len(d.runs)
  BY <1>1, <1>2
<1>4. \A j \in DOMAIN e.runs : e.runs[j].day <= e.date
  BY <1>1, <1>2, <1>3 DEF Covered
<1>5. /\ S \subseteq 1..Len(e.runs) /\ IsFiniteSet(S) /\ Cardinality(S) \in Nat
      /\ IsFiniteSet(T) /\ Cardinality(T) \in Nat
  BY <1>1, Countable
<1>6. f \in [S -> T]
  <2>1. ASSUME NEW j \in S
        PROVE  from(j) \in T
    <3>1. j \in 1..Len(e.runs) /\ e.runs[j].day = d.date
      BY <1>2 DEF CompletedOn
    <3> QED
      BY <1>1, <1>2, <1>3, <3>1 DEF CompletedOn
  <2> QED
    BY <2>1
<1>7. \A a, b \in S : f[a] = f[b] => a = b
  BY <1>2, <1>5
<1>8. Cardinality(S) <= d.daily
  <2>1. Cardinality(S) <= Cardinality(T)
    BY <1>5, <1>6, <1>7, CountInto
  <2>2. Cardinality(T) <= d.daily
    BY DEF Covered
  <2> QED
    BY <1>5, <2>1, <2>2, DataFields
<1>9. Covered(e, day)
  <2>1. Len(e.runs) <= MaxRuns
    BY <1>1, <1>2, StoreAssumption DEF Covered
  <2> QED
    BY <1>1, <1>4, <1>8, <2>1 DEF Covered
<1> QED
  BY <1>9 DEF e

-----------------------------------------------------------------------------
(* The inductive invariant. *)

LEMMA InitStoreInv == Init => StoreInv
<1> SUFFICES ASSUME Init
             PROVE  StoreInv
  OBVIOUS
<1>1. mem \in Data /\ mem # NoFile /\ Covered(mem, today) /\ today \in Nat
  BY BlankData, CoveredBlank, SentinelAssumption DEF Init
<1>2. Len(mem.runs) <= MaxRuns
  BY <1>1 DEF Covered
<1>3. TypeOK
  BY <1>1, <1>2 DEF Init, TypeOK, Steps
<1>4. DiskIntact /\ AckedIsOnDisk
  BY SentinelAssumption DEF Init, DiskIntact, AckedIsOnDisk
<1>5. CoverInv
  BY <1>1, StoreAssumption DEF Init, CoverInv
<1>6. DownInv /\ LockInv /\ SaveInv /\ SpendInv
  BY <1>1 DEF Init, DownInv, LockInv, SaveInv, SpendInv
<1> QED
  BY <1>3, <1>4, <1>5, <1>6 DEF StoreInv

\* An operation that takes the lock and leaves d in memory, whatever it is:
\* d must cover its runs and hold no less money than the file.
LEMMA ChangeInv ==
    ASSUME StoreInv, NEW c \in Callers, NEW d \in Data, Change(c, d),
           Covered(d, today), disk # NoFile => d.total >= disk.total,
           pending' = pending \/ pending' = [pending EXCEPT ![c] = None]
    PROVE  StoreInv'
<1> USE DEF Change, files
<1>1. c # None /\ d # NoFile /\ Len(d.runs) <= MaxRuns
  BY StoreAssumption, SentinelAssumption DEF Covered
<1>2. \A b \in Callers : pending'[b] = pending[b] \/ pending'[b] = None
  BY DEF StoreInv, TypeOK
<1>3. TypeOK'
  BY <1>1 DEF StoreInv, TypeOK, Steps
<1>4. DiskIntact' /\ AckedIsOnDisk'
  BY <1>1 DEF StoreInv, DiskIntact, AckedIsOnDisk
<1>5. DownInv' /\ LockInv' /\ SaveInv'
  BY <1>1 DEF StoreInv, DownInv, LockInv, SaveInv
<1>6. CoverInv'
  BY <1>2 DEF StoreInv, CoverInv
<1>7. SpendInv'
  BY DEF SpendInv
<1> QED
  BY <1>3, <1>4, <1>5, <1>6, <1>7 DEF StoreInv

LEMMA OperationInv ==
    ASSUME StoreInv, NEW c \in Callers, AddRun(c) \/ RenameRun(c) \/ DeleteRun(c)
    PROVE  StoreInv'
<1>1. up /\ mem \in Data /\ Covered(mem, today) /\ today \in Nat
  BY DEF StoreInv, TypeOK, CoverInv, AddRun, RenameRun, DeleteRun, Change
<1>2. /\ mem.total \in Nat
      /\ disk # NoFile => disk.total \in Nat /\ mem.total >= disk.total
  BY <1>1, DataFields DEF StoreInv, TypeOK, DiskIntact, SpendInv
<1>3. CASE AddRun(c)
  <2>1. pending[c] \in Run /\ pending[c].day <= today
    BY <1>3 DEF AddRun, StoreInv, TypeOK, CoverInv
  <2> DEFINE d == WithRun(mem, pending[c], today)
  <2>2. d \in Data /\ d.total = mem.total + 1 /\ Covered(d, today)
    BY <1>1, <2>1, WithRunData, CoveredWithRun
  <2>3. Change(c, d) /\ pending' = [pending EXCEPT ![c] = None]
    BY <1>3 DEF AddRun
  <2> HIDE DEF d
  <2>4. disk # NoFile => d.total >= disk.total
    BY <1>2, <2>2
  <2> QED
    BY <2>2, <2>3, <2>4, ChangeInv
<1>4. CASE RenameRun(c)
  <2>1. PICK i \in DOMAIN mem.runs, label \in Labels :
           Change(c, WithLabel(mem, i, label))
    BY <1>4 DEF RenameRun
  <2> DEFINE d == WithLabel(mem, i, label)
  <2>2. d \in Data /\ d.total = mem.total /\ Covered(d, today)
    BY <1>1, WithLabelData, CoveredWithLabel
  <2>3. Change(c, d) /\ pending' = pending
    BY <1>4, <2>1 DEF RenameRun
  <2> HIDE DEF d
  <2> QED
    BY <1>2, <2>2, <2>3, ChangeInv
<1>5. CASE DeleteRun(c)
  <2>1. PICK i \in DOMAIN mem.runs : Change(c, Without(mem, i))
    BY <1>5 DEF DeleteRun
  <2> DEFINE d == Without(mem, i)
  <2>2. d \in Data /\ d.total = mem.total /\ Covered(d, today)
    BY <1>1, WithoutData, CoveredWithout
  <2>3. Change(c, d) /\ pending' = pending
    BY <1>5, <2>1 DEF DeleteRun
  <2> HIDE DEF d
  <2> QED
    BY <1>2, <2>2, <2>3, ChangeInv
<1> QED
  BY <1>3, <1>4, <1>5

LEMMA StampInv ==
    ASSUME StoreInv, NEW c \in Callers, Stamp(c)
    PROVE  StoreInv'
<1> USE DEF Stamp, files
<1> DEFINE run == [created |-> clock + 1, day |-> today, label |-> NoLabel]
<1>1. run \in Run /\ run.day = today
  BY StoreAssumption DEF StoreInv, TypeOK, Run
<1>2. pending' = [pending EXCEPT ![c] = run]
  OBVIOUS
<1> HIDE DEF run
<1>3. TypeOK'
  BY <1>1, <1>2 DEF StoreInv, TypeOK
<1>4. CoverInv'
  <2>1. \A b \in Callers : pending'[b] = pending[b] \/ pending'[b] = run
    BY <1>2 DEF StoreInv, TypeOK
  <2> QED
    BY <1>1, <2>1 DEF StoreInv, TypeOK, CoverInv
<1>5. /\ DiskIntact' /\ AckedIsOnDisk'
      /\ DownInv' /\ LockInv' /\ SaveInv' /\ SpendInv'
  BY DEF StoreInv, DiskIntact, AckedIsOnDisk, DownInv, LockInv, SaveInv, SpendInv
<1> QED
  BY <1>3, <1>4, <1>5 DEF StoreInv

\* A step of save or the return from it.
LEMMA SaveStepInv ==
    ASSUME StoreInv, CreateTmp \/ Encode \/ Close \/ Rename \/ Return
    PROVE  StoreInv'
<1> USE DEF CreateTmp, Encode, Close, Rename, Return, At, Goto, ReturnError, files
<1>1. /\ up /\ mem \in Data /\ mem # NoFile /\ mem # Partial
      /\ attempt = mem /\ holder # None
  BY SentinelAssumption DEF StoreInv, TypeOK, LockInv
<1>2. /\ UNCHANGED <<up, clock, today, pending, mem, attempt>>
      /\ \/ disk' = disk
         \/ Rename /\ tmp = mem /\ disk' = mem /\ step' = "saved"
  BY DEF StoreInv, SaveInv
<1>3. TypeOK'
  BY <1>1, <1>2 DEF StoreInv, TypeOK, Steps
<1>4. DiskIntact'
  BY <1>1, <1>2 DEF StoreInv, DiskIntact
<1>5. SaveInv'
  BY <1>1 DEF StoreInv, TypeOK, SaveInv
<1>6. AckedIsOnDisk'
  BY <1>1, <1>2 DEF StoreInv, TypeOK, AckedIsOnDisk, SaveInv
<1>7. DownInv' /\ LockInv'
  BY <1>1, <1>2 DEF StoreInv, TypeOK, DownInv, LockInv
<1>8. CoverInv'
  BY <1>1, <1>2 DEF StoreInv, CoverInv
<1>9. SpendInv'
  BY <1>1, <1>2, DataFields DEF StoreInv, SpendInv
<1> QED
  BY <1>3, <1>4, <1>5, <1>6, <1>7, <1>8, <1>9 DEF StoreInv

LEMMA ReportInv ==
    ASSUME StoreInv, Report
    PROVE  StoreInv'
<1> USE DEF Report, files
<1>1. mem \in Data /\ Covered(mem, today) /\ today \in Nat
  BY DEF StoreInv, TypeOK, CoverInv
<1>2. mem' \in Data /\ mem'.total = mem.total /\ Covered(mem', today)
  BY <1>1, EnsureDailyData, CoveredEnsureDaily
<1>3. mem' # NoFile /\ Len(mem'.runs) <= MaxRuns
  BY <1>2, SentinelAssumption DEF Covered
<1>4. TypeOK'
  BY <1>2, <1>3 DEF StoreInv, TypeOK
<1>5. DiskIntact' /\ AckedIsOnDisk' /\ DownInv' /\ LockInv' /\ SaveInv'
  BY <1>3 DEF StoreInv, DiskIntact, AckedIsOnDisk, DownInv, LockInv, SaveInv
<1>6. CoverInv'
  BY <1>2 DEF StoreInv, CoverInv
<1>7. SpendInv'
  BY <1>2 DEF StoreInv, SpendInv
<1> QED
  BY <1>4, <1>5, <1>6, <1>7 DEF StoreInv

LEMMA MidnightInv ==
    ASSUME StoreInv, Midnight
    PROVE  StoreInv'
<1> USE DEF Midnight, files
<1>1. today \in Nat /\ today' = today + 1 /\ today' <= MaxDay
  BY StoreAssumption DEF StoreInv, TypeOK
<1>2. TypeOK'
  BY <1>1 DEF StoreInv, TypeOK
<1>3. CoverInv'
  <2>1. up => Covered(mem, today + 1)
    BY <1>1, CoveredLater DEF StoreInv, TypeOK, CoverInv
  <2>2. disk # NoFile => Covered(disk, today + 1)
    BY <1>1, CoveredLater DEF StoreInv, TypeOK, DiskIntact, CoverInv
  <2>3. \A c \in Callers : pending[c] # None => pending[c].day <= today + 1
    BY <1>1, RunFields DEF StoreInv, TypeOK, CoverInv
  <2> QED
    BY <1>1, <2>1, <2>2, <2>3 DEF CoverInv
<1>4. /\ DiskIntact' /\ AckedIsOnDisk'
      /\ DownInv' /\ LockInv' /\ SaveInv' /\ SpendInv'
  BY DEF StoreInv, DiskIntact, AckedIsOnDisk, DownInv, LockInv, SaveInv, SpendInv
<1> QED
  BY <1>2, <1>3, <1>4 DEF StoreInv

LEMMA CrashInv ==
    ASSUME StoreInv, Crash
    PROVE  StoreInv'
<1> USE DEF Crash, files
<1>1. TypeOK'
  BY DEF StoreInv, TypeOK, Steps
<1>2. DiskIntact' /\ AckedIsOnDisk'
  BY DEF StoreInv, DiskIntact, AckedIsOnDisk
<1>3. DownInv' /\ LockInv' /\ SaveInv' /\ SpendInv'
  BY DEF StoreInv, DownInv, LockInv, SaveInv, SpendInv
<1>4. CoverInv'
  BY DEF StoreInv, CoverInv
<1> QED
  BY <1>1, <1>2, <1>3, <1>4 DEF StoreInv

LEMMA RestartInv ==
    ASSUME StoreInv, Restart
    PROVE  StoreInv'
<1> USE DEF Restart, files
<1>1. today \in Nat /\ holder = None
  BY DEF StoreInv, TypeOK, LockInv
<1>2. /\ mem' \in Data /\ Covered(mem', today)
      /\ disk # NoFile => mem' = disk /\ disk.total \in Nat
  <2>1. CASE disk = NoFile
    BY <1>1, <2>1, BlankData, CoveredBlank
  <2>2. CASE disk # NoFile
    BY <2>2, DataFields DEF StoreInv, TypeOK, CoverInv
  <2> QED
    BY <2>1, <2>2
<1>3. mem' # NoFile /\ Len(mem'.runs) <= MaxRuns
  BY <1>2, SentinelAssumption DEF Covered
<1>4. TypeOK'
  BY <1>2, <1>3 DEF StoreInv, TypeOK
<1>5. DiskIntact' /\ AckedIsOnDisk' /\ DownInv' /\ LockInv' /\ SaveInv'
  BY <1>1, <1>3 DEF StoreInv, DiskIntact, AckedIsOnDisk, DownInv, LockInv, SaveInv
<1>6. CoverInv'
  BY <1>2 DEF StoreInv, CoverInv
<1>7. SpendInv'
  BY <1>2 DEF SpendInv
<1> QED
  BY <1>4, <1>5, <1>6, <1>7 DEF StoreInv

LEMMA StutterInv ==
    ASSUME StoreInv, UNCHANGED vars
    PROVE  StoreInv'
BY DEF StoreInv, vars, files, TypeOK, DiskIntact, AckedIsOnDisk, DownInv, LockInv,
       SaveInv, CoverInv, SpendInv

\* The invariant, for any callers and labels, any length of the history and any
\* number of runs and days.
THEOREM StoreInvariant == Spec => []StoreInv
<1>1. StoreInv /\ [Next]_vars => StoreInv'
  BY StampInv, OperationInv, SaveStepInv, ReportInv, MidnightInv, CrashInv,
     RestartInv, StutterInv DEF Next
<1> QED
  BY <1>1, InitStoreInv, PTL DEF Spec
-----------------------------------------------------------------------------
(* What the store guarantees. *)

\* "A crash mid-write never corrupts the store" (store.go:5).
THEOREM DiskAlwaysIntact == Spec => []DiskIntact
BY StoreInvariant, PTL DEF StoreInv

\* What was acknowledged is on disk.
THEOREM AckedAlwaysOnDisk == Spec => []AckedIsOnDisk
BY StoreInvariant, PTL DEF StoreInv

\* The counters of the bucket cover the day's runs.
THEOREM DailyCovers == Spec => []DailyCoversRuns
<1>1. StoreInv => DailyCoversRuns
  BY DEF StoreInv, CoverInv, Covered, DailyCoversRuns
<1> QED
  BY <1>1, StoreInvariant, PTL

\* The file is only replaced by the data in memory, at the rename.
LEMMA DiskStep ==
    ASSUME StoreInv, [Next]_vars
    PROVE  \/ disk' = disk
           \/ Rename /\ up /\ disk' = mem /\ UNCHANGED <<up, mem>>
<1>1. CASE Rename
  <2>1. up /\ tmp = mem
    BY <1>1 DEF Rename, At, StoreInv, LockInv, SaveInv
  <2> QED
    BY <1>1, <2>1 DEF Rename, Goto, ReturnError, files
<1>2. CASE ~Rename
  BY <1>2 DEF Next, vars, files, Stamp, AddRun, RenameRun, DeleteRun, Change,
     CreateTmp, Encode, Close, Return, Report, Midnight, Crash, Restart
<1> QED
  BY <1>1, <1>2

\* Money once on disk stays there (store.go:93).
THEOREM SpendRemembered == Spec => SpendNeverForgotten
<1>1. StoreInv /\ [Next]_vars
         => [disk # NoFile => disk' # NoFile /\ disk'.total >= disk.total]_vars
  <2> SUFFICES ASSUME StoreInv, [Next]_vars, disk # NoFile
               PROVE  disk' # NoFile /\ disk'.total >= disk.total
    OBVIOUS
  <2>1. CASE disk' = disk
    <3>1. disk \in Data
      BY DEF StoreInv, TypeOK, DiskIntact
    <3> QED
      BY <2>1, <3>1, DataFields
  <2>2. CASE up /\ disk' = mem
    BY <2>2 DEF StoreInv, DownInv, SpendInv
  <2> QED
    BY <2>1, <2>2, DiskStep
<1> QED
  BY <1>1, StoreInvariant, PTL DEF Spec, SpendNeverForgotten

-----------------------------------------------------------------------------
(* The store implements the abstract durable store. *)

LEMMA InitDurable == Init => Durable!Init
BY StoreAssumption DEF Init, Durable!Init

LEMMA WorkStep ==
    ASSUME StoreInv, StoreInv', UNCHANGED <<up, disk>>, up
    PROVE  Durable!Work
BY DEF StoreInv, TypeOK, Durable!Work

\* Every step is one of the abstract store or leaves its variables alone.
LEMMA DurableStep ==
    ASSUME StoreInv, StoreInv', [Next]_vars
    PROVE  [Durable!Next]_(Durable!durableVars)
<1> USE DEF files
<1>1. ASSUME NEW c \in Callers, AddRun(c) \/ RenameRun(c) \/ DeleteRun(c)
      PROVE  Durable!Work
  BY <1>1, WorkStep DEF AddRun, RenameRun, DeleteRun, Change
<1>2. CASE Report
  BY <1>2, WorkStep DEF Report, Durable!Next
<1>3. CASE Rename
  <2>1. CASE disk' = disk
    BY <1>3, <2>1 DEF Rename, Goto, ReturnError, Durable!durableVars
  <2>2. CASE up /\ disk' = mem /\ UNCHANGED <<up, mem>>
    BY <2>2 DEF Durable!Next, Durable!Commit
  <2> QED
    BY <2>1, <2>2, DiskStep
<1>4. CASE Crash
  BY <1>4 DEF Crash, Durable!Next, Durable!Crash
<1>5. CASE Restart
  <2>1. today \in 0..MaxDay
    BY StoreAssumption DEF StoreInv, TypeOK, CoverInv
  <2>2. mem' \in IF disk = NoFile THEN {Blank(day) : day \in 0..MaxDay} ELSE {disk}
    BY <1>5, <2>1 DEF Restart
  <2> QED
    BY <1>5, <2>2 DEF Restart, Durable!Next, Durable!Recover
<1>6. ASSUME NEW c \in Callers, Stamp(c)
      PROVE  UNCHANGED Durable!durableVars
  BY <1>6 DEF Stamp, Durable!durableVars
<1>7. CASE CreateTmp \/ Encode \/ Close \/ Return
  BY <1>7 DEF CreateTmp, Encode, Close, Return, Goto, ReturnError, Durable!durableVars
<1>8. CASE Midnight \/ UNCHANGED vars
  BY <1>8 DEF Midnight, vars, Durable!durableVars
<1> QED
  BY <1>1, <1>2, <1>3, <1>4, <1>5, <1>6, <1>7, <1>8 DEF Next, Durable!Next

THEOREM StoreImplementsDurable == Spec => ImplementsDurable
BY InitDurable, DurableStep, StoreInvariant, PTL
   DEF Spec, ImplementsDurable, Durable!Spec

-----------------------------------------------------------------------------
(* The lock that Store's operations hold: at most one goroutine changes and *)
(* saves the history, however many use the store.                           *)

CONSTANT Threads
VARIABLES pc, stale

Mutex == INSTANCE StoreLock

\* At most one goroutine has announced itself as the writer, and none reads
\* while it writes: readers that were in before it have left.
MutexInv ==
    /\ Mutex!TypeOK
    /\ \A t, u \in Threads :
          pc[t] \in {"waiting", "writing"} /\ pc[u] \in {"waiting", "writing"} => t = u
    /\ \A t, u \in Threads : pc[t] = "writing" => pc[u] \notin Mutex!Readers

LEMMA InitMutexInv == Mutex!Init => MutexInv
BY DEF Mutex!Init, MutexInv, Mutex!TypeOK, Mutex!Pcs, Mutex!Readers

LEMMA StepMutexInv == MutexInv /\ [Mutex!Next]_(Mutex!vars) => MutexInv'
<1> SUFFICES ASSUME MutexInv, [Mutex!Next]_(Mutex!vars)
             PROVE  MutexInv'
  OBVIOUS
<1> USE DEF MutexInv, Mutex!TypeOK, Mutex!Pcs, Mutex!Goto, Mutex!In, Mutex!Readers
<1>1. ASSUME NEW t \in Threads, Mutex!RequestLock(t)
      PROVE  MutexInv'
  BY <1>1 DEF Mutex!RequestLock
<1>2. ASSUME NEW t \in Threads, Mutex!Announce(t)
      PROVE  MutexInv'
  BY <1>2 DEF Mutex!Announce
<1>3. ASSUME NEW t \in Threads, Mutex!Get(t) \/ Mutex!GetDailyOpenAlexSpend(t)
      PROVE  MutexInv'
  BY <1>3 DEF Mutex!Get, Mutex!GetDailyOpenAlexSpend, Mutex!RLock
<1>4. ASSUME NEW t \in Threads, Mutex!GetReport(t)
      PROVE  MutexInv'
  BY <1>4 DEF Mutex!GetReport, Mutex!RLock
<1>5. ASSUME NEW t \in Threads, Mutex!Lock(t)
      PROVE  MutexInv'
  BY <1>5 DEF Mutex!Lock
<1>6. ASSUME NEW t \in Threads, Mutex!CheckDate(t)
      PROVE  MutexInv'
  BY <1>6 DEF Mutex!CheckDate
<1>7. ASSUME NEW t \in Threads, Mutex!RenewBucket(t)
      PROVE  MutexInv'
  BY <1>7 DEF Mutex!RenewBucket
<1>8. ASSUME NEW t \in Threads, Mutex!RUnlock(t) \/ Mutex!Unlock(t)
      PROVE  MutexInv'
  BY <1>8 DEF Mutex!RUnlock, Mutex!Unlock
<1>9. CASE Mutex!Midnight
  BY <1>9 DEF Mutex!Midnight
<1>10. CASE UNCHANGED Mutex!vars
  BY <1>10 DEF Mutex!vars
<1> QED
  BY <1>1, <1>2, <1>3, <1>4, <1>5, <1>6, <1>7, <1>8, <1>9, <1>10
     DEF Mutex!Next, Mutex!Method

\* However many requests use the store, whoever changes and saves the history
\* is the only one in it; the race of BucketRaceFree is between two
\* that only hold the lock for reading.
THEOREM WriterAlone == Mutex!Spec => []Mutex!WriterIsAlone
<1>1. MutexInv => Mutex!WriterIsAlone
  BY DEF MutexInv, Mutex!TypeOK, Mutex!Pcs, Mutex!Readers, Mutex!WriterIsAlone
<1> QED
  BY <1>1, InitMutexInv, StepMutexInv, PTL DEF Mutex!Spec
=============================================================================
