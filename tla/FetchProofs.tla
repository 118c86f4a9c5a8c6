----------------------------- MODULE FetchProofs ----------------------------
(***************************************************************************)
(* Proofs about what is asked for several times at once.  RunCache, for    *)
(* any number of callers, keys and results: one fetch per key, agreement   *)
(* of the answers, nobody stranded, and the refinement of the memo table   *)
(* FetchOnce.  HistoryPanel, for any number of runs, labels and requests   *)
(* under way: an open panel at rest shows the history.  Page, for any      *)
(* number of analyses, sign-ins and requests in flight: the button is      *)
(* disabled only while something is to come, and only batches that are     *)
(* done are counted.                                                       *)
(***************************************************************************)
EXTENDS RunCache, HistoryPanel, Page, SequenceTheorems, TLAPS

USE CacheAssumption

\* No goroutine is in sourcesFor and both maps are empty: IInv holds.
LEMMA InitIInv == Init => IInv
BY DEF Init, IInv, TypeOK, Locations, SingleFetch, InflightInv, LedInv,
       ChannelInv, WokenFindsEntry, ReturnedInv, Leading

\* A step of one goroutine keeps every part of the invariant.
LEMMA StepIInv ==
    ASSUME IInv, NEW c \in Callers, Step(c)
    PROVE  IInv'
<1> USE DEF IInv, TypeOK, Locations, Leading
<1>1. CASE Hit(c)
  BY <1>1 DEF Hit, SingleFetch, InflightInv, LedInv, ChannelInv,
              WokenFindsEntry, ReturnedInv
<1>2. CASE Join(c)
  BY <1>2 DEF Join, SingleFetch, InflightInv, LedInv, ChannelInv,
              WokenFindsEntry, ReturnedInv
<1>3. CASE Lead(c)
  <2>1. TypeOK'
    BY <1>3 DEF Lead
  <2>2. \A d \in led : key[d] # key[c]
    BY <1>3 DEF Lead, LedInv, InflightInv
  <2>3. SingleFetch'
    BY <1>3, <2>2 DEF Lead, SingleFetch
  <2>4. InflightInv'
    BY <1>3 DEF Lead, InflightInv
  <2>5. LedInv'
    BY <1>3 DEF Lead, LedInv
  <2>6. ChannelInv'
    BY <1>3 DEF Lead, ChannelInv
  <2>7. WokenFindsEntry' /\ ReturnedInv'
    BY <1>3 DEF Lead, WokenFindsEntry, ReturnedInv
  <2> QED
    BY <2>1, <2>3, <2>4, <2>5, <2>6, <2>7
<1>4. CASE Fetch(c)
  BY <1>4 DEF Fetch, SingleFetch, InflightInv, LedInv, ChannelInv,
              WokenFindsEntry, ReturnedInv
<1>5. CASE Publish(c)
  <2>1. TypeOK'
    BY <1>5 DEF Publish
  <2>2. SingleFetch'
    BY <1>5 DEF Publish, SingleFetch
  <2>3. InflightInv'
    BY <1>5 DEF Publish, InflightInv
  <2>4. LedInv'
    BY <1>5 DEF Publish, LedInv
  <2>5. ChannelInv'
    BY <1>5 DEF Publish, ChannelInv, InflightInv
  <2>6. WokenFindsEntry'
    BY <1>5 DEF Publish, WokenFindsEntry
  \* The caller publishes over a missing entry: nobody returned before it.
  <2>7. \A d \in Callers : pc[d] = "returned" => key[d] # key[c]
    BY <1>5 DEF Publish, InflightInv, ReturnedInv
  <2>8. ReturnedInv'
    BY <1>5, <2>7 DEF Publish, ReturnedInv
  <2> QED
    BY <2>1, <2>2, <2>3, <2>4, <2>5, <2>6, <2>8
<1>6. CASE Wake(c)
  BY <1>6 DEF Wake, SingleFetch, InflightInv, LedInv, ChannelInv,
              WokenFindsEntry, ReturnedInv
<1>7. CASE ReadPublished(c)
  BY <1>7 DEF ReadPublished, SingleFetch, InflightInv, LedInv, ChannelInv,
              WokenFindsEntry, ReturnedInv
<1> QED
  BY <1>1, <1>2, <1>3, <1>4, <1>5, <1>6, <1>7 DEF Step

\* Stuttering, the end of the run included, keeps it too.
LEMMA StutterIInv == IInv /\ UNCHANGED vars => IInv'
BY DEF vars, IInv, TypeOK, SingleFetch, InflightInv, LedInv, ChannelInv,
       WokenFindsEntry, ReturnedInv, Leading

\* What every location of sourcesFor says of the shared maps is invariant
\* (sources/run_cache.go, sourcesFor).
THEOREM Inductive == Spec => []IInv
<1>1. IInv /\ [Next]_vars => IInv'
  BY StepIInv, StutterIInv DEF Next, Finished
<1> QED
  BY InitIInv, <1>1, PTL DEF Spec

\* For any number of goroutines and keys, fetch() runs at most once per key
\* in a run (run_cache.go "sourcesFor runs fetch once per key").
THEOREM FetchOncePerKey == Spec => []SingleFetch
<1>1. IInv => SingleFetch
  BY DEF IInv
<1> QED
  BY Inductive, <1>1, PTL

\* For any number of goroutines and keys, all callers of a key return the
\* same sources, a failed fetch included (sourcesFor's three return paths).
THEOREM CallersAgree == Spec => []Agreement
<1>1. IInv => Agreement
  BY DEF IInv, ReturnedInv, Agreement
<1> QED
  BY Inductive, <1>1, PTL

\* A waiter that left the channel finds its entry, so a map miss is never
\* taken for an empty answer (sourcesFor, the read after the receive).
THEOREM WokenIsServed == Spec => []WokenFindsEntry
<1>1. IInv => WokenFindsEntry
  BY DEF IInv
<1> QED
  BY Inductive, <1>1, PTL

-----------------------------------------------------------------------------
(* Refinement *)

\* What c's return from sourcesFor changes: it ends with the entry of its
\* key in hand, and fills the entry when it was missing.
Returns(c) ==
    /\ pc[c] # "returned"
    /\ pc' = [pc EXCEPT ![c] = "returned"]
    /\ key' = key
    /\ got' \in [Callers -> Results]
    /\ \A d \in Callers \ {c} : got'[d] = got[d]
    /\ sources[key[c]] \in {NoEntry, got'[c]}
    /\ sources' = [sources EXCEPT ![key[c]] = got'[c]]

\* A return is an answer of the memo table.
LEMMA ReturnIsAnswer ==
    ASSUME IInv, NEW c \in Callers, Returns(c)
    PROVE  Memo!Next
<1> DEFINE answer == [d \in Callers |-> IF pc[d] = "returned"
                                        THEN <<key[d], got[d]>> ELSE NoEntry]
<1> USE DEF IInv, TypeOK, Locations, Returns
<1>1. answer[c] = NoEntry
  OBVIOUS
<1>2. answer' = [answer EXCEPT ![c] = <<key[c], got'[c]>>]
  OBVIOUS
<1>3. PICK k \in Keys, v \in Results : k = key[c] /\ v = got'[c]
  OBVIOUS
<1>4. Memo!Answer(c, k, v)
  BY <1>1, <1>2, <1>3 DEF Memo!Answer
<1> HIDE DEF IInv, TypeOK, Returns
<1> QED
  BY <1>4, Zenon DEF Memo!Next

\* A step of one goroutine is an answer of the memo table when it returns
\* from sourcesFor, and a stutter when it does not.
LEMMA MemoStep ==
    ASSUME IInv, NEW c \in Callers, Step(c)
    PROVE  [Memo!Next]_(Memo!memoVars)
<1> USE DEF IInv, TypeOK, Locations
<1>1. CASE Join(c) \/ Lead(c) \/ Fetch(c) \/ Wake(c)
  <2>1. sources' = sources
    BY <1>1 DEF Join, Lead, Fetch, Wake
  <2>2. \A d \in Callers :
          /\ pc'[d] = "returned" <=> pc[d] = "returned"
          /\ pc[d] = "returned" => got'[d] = got[d] /\ key'[d] = key[d]
    BY <1>1 DEF Join, Lead, Fetch, Wake
  <2> QED
    BY <2>1, <2>2 DEF Memo!memoVars
<1>2. CASE Hit(c)
  <2>1. Returns(c)
    BY <1>2 DEF Hit, Returns
  <2> QED
    BY <2>1, ReturnIsAnswer
<1>3. CASE Publish(c)
  <2>1. Returns(c)
    BY <1>3 DEF Publish, Returns, InflightInv, Leading
  <2> QED
    BY <2>1, ReturnIsAnswer
<1>4. CASE ReadPublished(c)
  <2>1. Returns(c)
    BY <1>4 DEF ReadPublished, Returns, WokenFindsEntry
  <2> QED
    BY <2>1, ReturnIsAnswer
<1> QED
  BY <1>1, <1>2, <1>3, <1>4 DEF Step

\* For any number of goroutines and keys, the lock, the in-flight channels
\* and the two maps of sourcesFor implement the memo table FetchOnce.
THEOREM CacheImplementsMemo == Spec => ImplementsMemo
<1>1. Init => Memo!Init
  BY DEF Init, Memo!Init
<1>2. IInv /\ [Next]_vars => [Memo!Next]_(Memo!memoVars)
  <2>1. UNCHANGED vars => UNCHANGED Memo!memoVars
    BY DEF vars, Memo!memoVars
  <2> QED
    BY <2>1, MemoStep DEF Next, Finished
<1> QED
  BY Inductive, <1>1, <1>2, PTL DEF Spec, ImplementsMemo, Memo!Spec

HIDE CacheAssumption

-----------------------------------------------------------------------------
(* Every call returns: what is proved of it. *)

\* Who waits for a fetch waits for a caller of the same key that is fetching,
\* or its channel is closed already.
WaitsForALeader ==
    \A c \in Callers : pc[c] = "waiting" =>
        \/ <<key[c], waitsOn[c]>> \in closed
        \/ waitsOn[c] \in Callers /\ Leading(waitsOn[c]) /\ key[waitsOn[c]] = key[c]

\* The receive from the channel (run_cache.go) never blocks for good: leaders
\* wait for nobody, so there is no circle of callers either.
THEOREM NobodyIsStranded == Spec => []WaitsForALeader
<1>1. IInv => WaitsForALeader
  BY DEF IInv, TypeOK, ChannelInv, InflightInv, WaitsForALeader
<1> QED
  BY <1>1, Inductive, PTL

\* The steps that a caller has left at most.
StepsLeft(c) ==
    CASE pc[c] = "idle" -> 3 [] pc[c] \in {"waiting", "fetching"} -> 2
      [] pc[c] \in {"woken", "fetched"} -> 1 [] OTHER -> 0

\* Every step is one caller's, which then has fewer left: with
\* NobodyIsStranded, and as long as the goroutines run, every call returns
\* (EveryCallReturns), after three steps of its own at most.
THEOREM CallersComeNearer ==
    Spec => [][\E c \in Callers : /\ StepsLeft(c)' < StepsLeft(c)
                                  /\ \A d \in Callers \ {c} : StepsLeft(d)' = StepsLeft(d)]_vars
<1>1. ASSUME IInv, NEW c \in Callers, Step(c)
      PROVE  /\ StepsLeft(c)' < StepsLeft(c)
             /\ \A d \in Callers \ {c} : StepsLeft(d)' = StepsLeft(d)
  <2>1. /\ \A d \in Callers \ {c} : pc'[d] = pc[d]
        /\ \/ pc[c] = "idle" /\ pc'[c] \in {"returned", "waiting", "fetching"}
           \/ pc[c] = "waiting" /\ pc'[c] = "woken"
           \/ pc[c] = "fetching" /\ pc'[c] = "fetched"
           \/ pc[c] \in {"woken", "fetched"} /\ pc'[c] = "returned"
    BY <1>1 DEF IInv, TypeOK, Step, Hit, Join, Lead, Fetch, Publish, Wake, ReadPublished
  <2> QED
    BY <2>1 DEF StepsLeft
<1>2. IInv /\ [Next]_vars
        => [\E c \in Callers : /\ StepsLeft(c)' < StepsLeft(c)
                               /\ \A d \in Callers \ {c} : StepsLeft(d)' = StepsLeft(d)]_vars
  BY <1>1 DEF Next, Finished
<1> QED
  BY <1>2, Inductive, PTL DEF Spec

-----------------------------------------------------------------------------
(* The panel of past runs: requests, answers, and what they make of a copy. *)

LEMMA Removed ==
    ASSUME NEW T, NEW s \in Seq(T), NEW i \in 1..Len(s)
    PROVE  /\ RemoveAt(s, i) \in Seq(T) /\ Len(RemoveAt(s, i)) = Len(s) - 1
           /\ \A j \in 1..(Len(s) - 1) :
                 RemoveAt(s, i)[j] = IF j < i THEN s[j] ELSE s[j + 1]
<1> DEFINE n == Len(s)
           before == SubSeq(s, 1, i - 1)
           after == SubSeq(s, i + 1, n)
<1>1. n \in Nat /\ i \in 1..n /\ \A j \in 1..n : s[j] \in T
  BY LenProperties, ElementOfSeq
<1> HIDE DEF n
<1>2. /\ before \in Seq(T) /\ Len(before) = i - 1
      /\ \A j \in 1..(i - 1) : before[j] = s[j]
  <2>1. /\ before \in Seq(T) /\ Len(before) = IF 1 <= i - 1 THEN i - 1 - 1 + 1 ELSE 0
        /\ \A j \in 1..(i - 1 - 1 + 1) : before[j] = s[1 + j - 1]
    <3>1. 1 \in Int /\ i - 1 \in Int /\ \A j \in 1..(i - 1) : s[j] \in T
      BY <1>1
    <3> QED
      BY <3>1, SubSeqProperties
  <2> HIDE DEF before
  <2> QED
    BY <1>1, <2>1
<1>3. /\ after \in Seq(T) /\ Len(after) = n - i
      /\ \A j \in 1..(n - i) : after[j] = s[i + j]
  <2>1. /\ after \in Seq(T) /\ Len(after) = IF i + 1 <= n THEN n - (i + 1) + 1 ELSE 0
        /\ \A j \in 1..(n - (i + 1) + 1) : after[j] = s[i + 1 + j - 1]
    <3>1. i + 1 \in Int /\ n \in Int /\ \A j \in (i + 1)..n : s[j] \in T
      BY <1>1
    <3> QED
      BY <3>1, SubSeqProperties
  <2> HIDE DEF after
  <2>2. Len(after) = n - i /\ n - (i + 1) + 1 = n - i
    BY <1>1, <2>1
  <2>3. \A j \in 1..(n - i) : i + 1 + j - 1 = i + j
    BY <1>1
  <2> QED
    BY <2>1, <2>2, <2>3
<1>4. RemoveAt(s, i) = before \o after
  BY DEF RemoveAt, n
<1> HIDE DEF before, after
<1>5. /\ before \o after \in Seq(T)
      /\ Len(before \o after) = Len(before) + Len(after)
      /\ \A j \in 1..(Len(before) + Len(after)) :
            (before \o after)[j] = IF j <= Len(before) THEN before[j]
                                   ELSE after[j - Len(before)]
  BY <1>2, <1>3, ConcatProperties
<1>6. /\ before \o after \in Seq(T) /\ Len(before \o after) = n - 1
      /\ \A j \in 1..(n - 1) :
            (before \o after)[j] = IF j <= i - 1 THEN before[j] ELSE after[j - (i - 1)]
  BY <1>1, <1>2, <1>3, <1>5
<1>7. ASSUME NEW j \in 1..(n - 1)
      PROVE  (before \o after)[j] = IF j < i THEN s[j] ELSE s[j + 1]
  <2>1. CASE j < i
    BY <1>1, <1>2, <1>6, <2>1
  <2>2. CASE ~(j < i)
    <3>1. j - (i - 1) \in 1..(n - i) /\ i + (j - (i - 1)) = j + 1 /\ ~(j <= i - 1)
      BY <1>1, <2>2
    <3> QED
      BY <1>3, <1>6, <2>2, <3>1
  <2> QED
    BY <2>1, <2>2
<1> QED
  BY <1>4, <1>6, <1>7 DEF n

\* Whatever else was in a sequence is there when one element is removed.
LEMMA RemovedKeeps ==
    ASSUME NEW T, NEW s \in Seq(T), NEW i \in 1..Len(s), NEW j \in 1..Len(s), j # i
    PROVE  \E k \in DOMAIN RemoveAt(s, i) : RemoveAt(s, i)[k] = s[j]
<1> DEFINE t == RemoveAt(s, i)
<1>1. Len(s) \in Nat /\ DOMAIN t = 1..(Len(s) - 1)
  BY Removed, LenProperties
<1>2. \A k \in 1..(Len(s) - 1) : t[k] = IF k < i THEN s[k] ELSE s[k + 1]
  BY Removed
<1> HIDE DEF t
<1>3. CASE j < i
  <2>1. j \in 1..(Len(s) - 1)
    BY <1>1, <1>3
  <2> QED
    BY <1>1, <1>2, <1>3, <2>1 DEF t
<1>4. CASE ~(j < i)
  <2>1. j - 1 \in 1..(Len(s) - 1) /\ ~(j - 1 < i) /\ (j - 1) + 1 = j
    BY <1>1, <1>4
  <2>2. t[j - 1] = s[j]
    BY <1>2, <2>1
  <2> QED
    BY <1>1, <2>1, <2>2 DEF t
<1> QED
  BY <1>3, <1>4

LEMMA Appended ==
    ASSUME NEW T, NEW s \in Seq(T), NEW e \in T
    PROVE  /\ Append(s, e) \in Seq(T) /\ Len(Append(s, e)) = Len(s) + 1
           /\ DOMAIN Append(s, e) = 1..(Len(s) + 1)
           /\ \A j \in 1..Len(s) : Append(s, e)[j] = s[j]
           /\ Append(s, e)[Len(s) + 1] = e
<1>1. /\ Append(s, e) \in Seq(T) /\ Len(Append(s, e)) = Len(s) + 1
      /\ \A j \in 1..Len(s) : Append(s, e)[j] = s[j]
      /\ Append(s, e)[Len(s) + 1] = e
  BY AppendProperties
<1> QED
  BY <1>1, LenProperties

\* Answers of two kinds are not the same, nor are those about two runs.
LEMMA Distinct ==
    /\ \A q, r, l : Delete(q) # Patch(r, l)
    /\ \A q, r : Delete(q) = Delete(r) => q = r
    /\ \A q, r, k, l : Patch(q, k) = Patch(r, l) => q = r /\ k = l
    /\ \A h, q, l : /\ Fetched(h).kind = "runs" /\ Fetched(h).runs = h
                    /\ Delete(q).kind = "delete" /\ Patch(q, l).kind = "patch"
                    /\ Delete(q).run = q /\ Patch(q, l).run = q /\ Patch(q, l).label = l
    /\ Error.kind = "error" /\ Recorded.kind = "recorded" /\ Get.kind = "get"
<1>1. \A q, r, l : Delete(q).kind = "delete" /\ Patch(r, l).kind = "patch"
  BY DEF Delete, Patch
<1>2. \A q, r, l : Delete(q).run = q /\ Patch(r, l).run = r /\ Patch(r, l).label = l
  BY DEF Delete, Patch
<1>3. \A h : Fetched(h).kind = "runs" /\ Fetched(h).runs = h
  BY DEF Fetched
<1>4. Error.kind = "error" /\ Recorded.kind = "recorded" /\ Get.kind = "get"
  BY DEF Error, Recorded, Get
<1>5. \A q, r, l : Delete(q) # Patch(r, l)
  BY <1>1
<1>6. \A q, r : Delete(q) = Delete(r) => q = r
  BY <1>2
<1>7. \A q, r, k, l : Patch(q, k) = Patch(r, l) => q = r /\ k = l
  BY <1>2
<1> QED
  BY <1>1, <1>2, <1>3, <1>4, <1>5, <1>6, <1>7

-----------------------------------------------------------------------------
LEMMA NoneAppended ==
    ASSUME NEW T, NEW s \in Seq(T), NEW e \in T, NEW i \in 0..Len(s), NEW a
    PROVE  NoneAfter(Append(s, e), i, a) <=> NoneAfter(s, i, a) /\ e # a
<1>1. /\ Len(s) \in Nat /\ Len(Append(s, e)) = Len(s) + 1
      /\ \A j \in 1..Len(s) : Append(s, e)[j] = s[j]
      /\ Append(s, e)[Len(s) + 1] = e
  BY Appended, LenProperties
<1> DEFINE t == Append(s, e)
<1> HIDE DEF t
<1>2. (i + 1)..(Len(s) + 1) = ((i + 1)..Len(s)) \cup {Len(s) + 1}
  BY <1>1
<1>3. \A j \in (i + 1)..Len(s) : j \in 1..Len(s)
  BY <1>1
<1> QED
  BY <1>1, <1>2, <1>3 DEF NoneAfter, t

\* t is s without its first element.
Shifted(s, t) ==
    Len(s) = Len(t) + 1 /\ \A j \in 1..Len(t) : t[j] = s[j + 1]

LEMMA NoneShifted ==
    ASSUME NEW s, NEW t, Len(t) \in Nat, Shifted(s, t), NEW i \in 0..Len(t), NEW a
    PROVE  NoneAfter(t, i, a) <=> NoneAfter(s, i + 1, a)
<1>1. ASSUME NoneAfter(t, i, a), NEW j \in (i + 2)..(Len(t) + 1)
      PROVE  s[j] # a
  <2>1. j - 1 \in (i + 1)..Len(t) /\ j - 1 \in 1..Len(t) /\ (j - 1) + 1 = j
    OBVIOUS
  <2> QED
    BY <1>1, <2>1 DEF NoneAfter, Shifted
<1>2. ASSUME NoneAfter(s, i + 1, a), NEW j \in (i + 1)..Len(t)
      PROVE  t[j] # a
  <2>1. j + 1 \in (i + 1 + 1)..(Len(t) + 1) /\ j \in 1..Len(t)
    OBVIOUS
  <2> QED
    BY <1>2, <2>1 DEF NoneAfter, Shifted
<1>3. i + 1 + 1 = i + 2
  OBVIOUS
<1> QED
  BY <1>1, <1>2, <1>3 DEF NoneAfter, Shifted

LEMMA NoneFirst ==
    ASSUME NEW s, Len(s) \in Nat \ {0}, NEW a
    PROVE  NoneAfter(s, 0, a) <=> s[1] # a /\ NoneAfter(s, 1, a)
<1>1. (0 + 1)..Len(s) = {1} \cup ((1 + 1)..Len(s))
  OBVIOUS
<1> QED
  BY <1>1 DEF NoneAfter

-----------------------------------------------------------------------------
(* What the answers make of a copy. *)

\* A list that has just been given needs no change.
LEMMA YieldsItself ==
    ASSUME NEW h, NEW s, Len(s) \in Nat
    PROVE  Yields(h, s, Len(s), h)
<1>1. \A a : NoneAfter(s, Len(s), a)
  BY DEF NoneAfter
<1> QED
  BY <1>1 DEF Yields, LabelledAs

LEMMA LabelShifted ==
    ASSUME NEW s, NEW t, Len(t) \in Nat, Shifted(s, t), NEW i \in 0..Len(t),
           NEW copy, NEW r, NEW label, LabelledAs(copy, s, i + 1, r, label)
    PROVE  LabelledAs(copy, t, i, r, label)
<1>1. CASE label = copy[r] /\ \A l \in Labels : NoneAfter(s, i + 1, Patch(r, l))
  BY <1>1, NoneShifted DEF LabelledAs
<1>2. ASSUME NEW j \in (i + 2)..(Len(t) + 1), s[j] = Patch(r, label),
             \A l \in Labels : NoneAfter(s, j, Patch(r, l))
      PROVE  LabelledAs(copy, t, i, r, label)
  <2> DEFINE k == j - 1
  <2>1. k \in (i + 1)..Len(t) /\ k \in 1..Len(t) /\ k \in 0..Len(t) /\ k + 1 = j
    OBVIOUS
  <2> HIDE DEF k
  <2>2. t[k] = Patch(r, label)
    BY <1>2, <2>1 DEF Shifted
  <2>3. \A l \in Labels : NoneAfter(t, k, Patch(r, l))
    BY <1>2, <2>1, NoneShifted
  <2> QED
    BY <2>1, <2>2, <2>3 DEF LabelledAs
<1>3. i + 1 + 1 = i + 2
  OBVIOUS
<1> QED
  BY <1>1, <1>2, <1>3 DEF LabelledAs, Shifted

\* The first answer has been handled.
LEMMA YieldsShifted ==
    ASSUME NEW s, NEW t, Len(t) \in Nat, Shifted(s, t), NEW i \in 0..Len(t),
           NEW copy, NEW h, Yields(copy, s, i + 1, h)
    PROVE  Yields(copy, t, i, h)
<1>1. \A r : NoneAfter(t, i, Delete(r)) <=> NoneAfter(s, i + 1, Delete(r))
  BY NoneShifted
<1>2. \A r \in DOMAIN h : LabelledAs(copy, t, i, r, h[r])
  BY LabelShifted DEF Yields
<1> QED
  BY <1>1, <1>2 DEF Yields

\* The first answer is a deletion or a renaming, and is applied to the copy.
LEMMA YieldsDeleted ==
    ASSUME NEW s, Len(s) \in Nat \ {0}, NEW q, s[1] = Delete(q),
           NEW copy, NEW h, Yields(copy, s, 0, h)
    PROVE  Yields(Without(copy, q), s, 1, h)
<1>1. \A r : NoneAfter(s, 0, Delete(r)) <=> r # q /\ NoneAfter(s, 1, Delete(r))
  BY NoneFirst, Distinct
<1>2. DOMAIN h = {r \in DOMAIN Without(copy, q) : NoneAfter(s, 1, Delete(r))}
  BY <1>1 DEF Yields, Without
<1>3. ASSUME NEW r \in DOMAIN h
      PROVE  LabelledAs(Without(copy, q), s, 1, r, h[r])
  <2>1. Without(copy, q)[r] = copy[r]
    BY <1>2 DEF Without
  <2>2. LabelledAs(copy, s, 0, r, h[r])
    BY DEF Yields
  <2>3. \A l : NoneAfter(s, 0, Patch(r, l)) => NoneAfter(s, 1, Patch(r, l))
    BY NoneFirst
  <2>4. CASE h[r] = copy[r] /\ \A l \in Labels : NoneAfter(s, 0, Patch(r, l))
    BY <2>1, <2>3, <2>4 DEF LabelledAs
  <2>5. ASSUME NEW j \in (0 + 1)..Len(s), s[j] = Patch(r, h[r]),
               \A l \in Labels : NoneAfter(s, j, Patch(r, l))
        PROVE  LabelledAs(Without(copy, q), s, 1, r, h[r])
    <3>1. j # 1
      BY <2>5, Distinct
    <3>2. j \in (1 + 1)..Len(s)
      BY <3>1
    <3> QED
      BY <2>5, <3>2 DEF LabelledAs
  <2> QED
    BY <2>2, <2>4, <2>5 DEF LabelledAs
<1> QED
  BY <1>2, <1>3 DEF Yields

LEMMA YieldsRenamed ==
    ASSUME NEW s, Len(s) \in Nat \ {0}, NEW q, NEW label \in Labels,
           s[1] = Patch(q, label),
           NEW copy, NEW h, Yields(copy, s, 0, h)
    PROVE  Yields(WithLabel(copy, q, label), s, 1, h)
<1> DEFINE new == WithLabel(copy, q, label)
<1>1. \A r : NoneAfter(s, 0, Delete(r)) <=> NoneAfter(s, 1, Delete(r))
  BY NoneFirst, Distinct
<1>2. DOMAIN h = {r \in DOMAIN new : NoneAfter(s, 1, Delete(r))}
  BY <1>1 DEF Yields, WithLabel
<1>3. ASSUME NEW r \in DOMAIN h
      PROVE  LabelledAs(new, s, 1, r, h[r])
  <2>1. new[r] = IF r = q THEN label ELSE copy[r]
    BY <1>2 DEF WithLabel
  <2> HIDE DEF new
  <2>2. LabelledAs(copy, s, 0, r, h[r])
    BY DEF Yields
  <2>3. \A l : NoneAfter(s, 0, Patch(r, l)) => s[1] # Patch(r, l) /\ NoneAfter(s, 1, Patch(r, l))
    BY NoneFirst
  <2>4. CASE h[r] = copy[r] /\ \A l \in Labels : NoneAfter(s, 0, Patch(r, l))
    <3>1. r # q
      BY <2>3, <2>4
    <3> QED
      BY <2>1, <2>3, <2>4, <3>1 DEF LabelledAs
  <2>5. ASSUME NEW j \in (0 + 1)..Len(s), s[j] = Patch(r, h[r]),
               \A l \in Labels : NoneAfter(s, j, Patch(r, l))
        PROVE  LabelledAs(new, s, 1, r, h[r])
    <3>1. CASE j = 1
      <4>1. r = q /\ h[r] = label
        BY <2>5, <3>1, Distinct
      <4> QED
        BY <2>1, <2>5, <3>1, <4>1 DEF LabelledAs
    <3>2. CASE j # 1
      <4>1. j \in (1 + 1)..Len(s)
        BY <3>2
      <4> QED
        BY <2>5, <4>1 DEF LabelledAs
    <3> QED
      BY <3>1, <3>2
  <2> QED
    BY <2>2, <2>4, <2>5 DEF LabelledAs
<1> QED
  BY <1>2, <1>3 DEF Yields

\* The server applies a change and gives it as the last answer.
LEMMA LabelAppended ==
    ASSUME NEW T, NEW s \in Seq(T), NEW e \in T, NEW i \in 0..Len(s), NEW copy,
           NEW r, NEW label, LabelledAs(copy, s, i, r, label),
           \A l \in Labels : e # Patch(r, l)
    PROVE  LabelledAs(copy, Append(s, e), i, r, label)
<1> DEFINE t == Append(s, e)
<1>1. /\ Len(s) \in Nat /\ Len(t) = Len(s) + 1
      /\ \A j \in 1..Len(s) : t[j] = s[j]
  BY Appended, LenProperties
<1>2. \A j \in 0..Len(s) :
         (\A l \in Labels : NoneAfter(s, j, Patch(r, l)))
         => \A l \in Labels : NoneAfter(t, j, Patch(r, l))
  BY NoneAppended
<1> HIDE DEF t
<1>3. CASE label = copy[r] /\ \A l \in Labels : NoneAfter(s, i, Patch(r, l))
  BY <1>2, <1>3 DEF LabelledAs, t
<1>4. ASSUME NEW j \in (i + 1)..Len(s), s[j] = Patch(r, label),
             \A l \in Labels : NoneAfter(s, j, Patch(r, l))
      PROVE  LabelledAs(copy, t, i, r, label)
  <2>1. j \in 1..Len(s) /\ j \in 0..Len(s) /\ j \in (i + 1)..(Len(s) + 1)
    BY <1>1
  <2>2. t[j] = Patch(r, label) /\ j \in (i + 1)..Len(t)
    BY <1>1, <1>4, <2>1
  <2>3. \A l \in Labels : NoneAfter(t, j, Patch(r, l))
    BY <1>2, <1>4, <2>1
  <2> QED
    BY <2>2, <2>3 DEF LabelledAs
<1> QED
  BY <1>3, <1>4 DEF LabelledAs, t

LEMMA YieldsThenDelete ==
    ASSUME NEW T, NEW s \in Seq(T), NEW q, Delete(q) \in T, NEW i \in 0..Len(s),
           NEW copy, NEW h, Yields(copy, s, i, h)
    PROVE  Yields(copy, Append(s, Delete(q)), i, Without(h, q))
<1> DEFINE t == Append(s, Delete(q))
<1>1. \A r : NoneAfter(t, i, Delete(r)) <=> NoneAfter(s, i, Delete(r)) /\ r # q
  BY NoneAppended, Distinct
<1>2. DOMAIN Without(h, q) = {r \in DOMAIN copy : NoneAfter(t, i, Delete(r))}
  <2> HIDE DEF t
  <2> QED
    BY <1>1 DEF Yields, Without
<1>3. ASSUME NEW r \in DOMAIN Without(h, q)
      PROVE  LabelledAs(copy, t, i, r, Without(h, q)[r])
  <2>1. r \in DOMAIN h /\ Without(h, q)[r] = h[r]
    BY DEF Without
  <2>2. LabelledAs(copy, s, i, r, h[r])
    BY <2>1 DEF Yields
  <2>3. \A l \in Labels : Delete(q) # Patch(r, l)
    BY Distinct
  <2> QED
    BY <2>1, <2>2, <2>3, LabelAppended
<1> QED
  BY <1>2, <1>3 DEF Yields

LEMMA YieldsThenPatch ==
    ASSUME NEW T, NEW s \in Seq(T), NEW q, NEW label \in Labels, Patch(q, label) \in T,
           NEW i \in 0..Len(s), NEW copy, NEW h, Yields(copy, s, i, h)
    PROVE  Yields(copy, Append(s, Patch(q, label)), i, WithLabel(h, q, label))
<1> DEFINE t == Append(s, Patch(q, label))
           new == WithLabel(h, q, label)
<1>1. \A r : NoneAfter(t, i, Delete(r)) <=> NoneAfter(s, i, Delete(r))
  BY NoneAppended, Distinct
<1>2. DOMAIN new = {r \in DOMAIN copy : NoneAfter(t, i, Delete(r))}
  <2> HIDE DEF t
  <2> QED
    BY <1>1 DEF Yields, WithLabel
<1>3. ASSUME NEW r \in DOMAIN new
      PROVE  LabelledAs(copy, t, i, r, new[r])
  <2>1. r \in DOMAIN h /\ new[r] = IF r = q THEN label ELSE h[r]
    BY DEF WithLabel
  <2>2. CASE r = q
    <3>1. /\ Len(s) \in Nat /\ Len(t) = Len(s) + 1
          /\ t[Len(s) + 1] = Patch(q, label)
      BY Appended, LenProperties
    <3> HIDE DEF t, new
    <3>2. Len(s) + 1 \in (i + 1)..Len(t)
      BY <3>1
    <3>3. \A a : NoneAfter(t, Len(s) + 1, a)
      BY <3>1 DEF NoneAfter
    <3> QED
      BY <2>1, <2>2, <3>1, <3>2, <3>3 DEF LabelledAs
  <2>3. CASE r # q
    <3>1. LabelledAs(copy, s, i, r, h[r])
      BY <2>1 DEF Yields
    <3>2. \A l \in Labels : Patch(q, label) # Patch(r, l)
      BY <2>3, Distinct
    <3> QED
      BY <2>1, <2>3, <3>1, <3>2, LabelAppended
  <2> QED
    BY <2>2, <2>3
<1> QED
  BY <1>2, <1>3 DEF Yields

LEMMA YieldsThenOther ==
    ASSUME NEW T, NEW s \in Seq(T), NEW e \in T, NEW i \in 0..Len(s),
           \A r, l : e # Delete(r) /\ e # Patch(r, l),
           NEW copy, NEW h, Yields(copy, s, i, h)
    PROVE  Yields(copy, Append(s, e), i, h)
<1>1. \A r : NoneAfter(Append(s, e), i, Delete(r)) <=> NoneAfter(s, i, Delete(r))
  BY NoneAppended
<1>2. \A r \in DOMAIN h : LabelledAs(copy, Append(s, e), i, r, h[r])
  BY LabelAppended DEF Yields
<1> QED
  BY <1>1, <1>2 DEF Yields

\* The lists on their way, when the first answer is handled or one is added.
LEMMA ListsShifted ==
    ASSUME NEW T, NEW s \in Seq(T), NEW t \in Seq(T), Shifted(s, t), NEW h, ListsYield(s, h)
    PROVE  ListsYield(t, h)
<1> SUFFICES ASSUME NEW i \in DOMAIN t, t[i].kind = "runs", NoneAfter(t, i, Recorded)
             PROVE  Yields(t[i].runs, t, i, h)
  BY DEF ListsYield
<1>1. /\ Len(t) \in Nat /\ i \in 1..Len(t) /\ i \in 0..Len(t)
      /\ DOMAIN s = 1..Len(s) /\ Len(s) = Len(t) + 1
  BY LenProperties DEF Shifted
<1>2. i + 1 \in DOMAIN s /\ t[i] = s[i + 1]
  BY <1>1 DEF Shifted
<1>3. NoneAfter(s, i + 1, Recorded)
  BY <1>1, NoneShifted
<1>4. Yields(t[i].runs, s, i + 1, h)
  BY <1>2, <1>3 DEF ListsYield
<1> QED
  BY <1>1, <1>4, YieldsShifted

LEMMA ListsAppended ==
    ASSUME NEW T, NEW s \in Seq(T), NEW e \in T, e.kind # "runs", NEW h, NEW new,
           \A i \in 0..Len(s) : \A copy :
              Yields(copy, s, i, h) => Yields(copy, Append(s, e), i, new),
           ListsYield(s, h)
    PROVE  ListsYield(Append(s, e), new)
<1> DEFINE t == Append(s, e)
<1> SUFFICES ASSUME NEW i \in DOMAIN t, t[i].kind = "runs", NoneAfter(t, i, Recorded)
             PROVE  Yields(t[i].runs, t, i, new)
  BY DEF ListsYield
<1>1. /\ Len(s) \in Nat /\ DOMAIN s = 1..Len(s) /\ DOMAIN t = 1..(Len(s) + 1)
      /\ \A j \in 1..Len(s) : t[j] = s[j]
      /\ t[Len(s) + 1] = e
  BY Appended, LenProperties
<1>2. i \in 1..Len(s) /\ i \in 0..Len(s) /\ t[i] = s[i]
  <2> HIDE DEF t
  <2>1. i # Len(s) + 1
    BY <1>1
  <2> QED
    BY <1>1, <2>1
<1>3. NoneAfter(s, i, Recorded)
  BY <1>2, NoneAppended
<1>4. Yields(s[i].runs, s, i, h)
  <2> HIDE DEF t
  <2> QED
    BY <1>1, <1>2, <1>3 DEF ListsYield
<1> QED
  BY <1>2, <1>4

-----------------------------------------------------------------------------
(* Types *)

LEMMA HistoriesClosed ==
    ASSUME NEW h \in Histories, NEW r \in Runs, NEW label \in Labels
    PROVE  /\ Without(h, r) \in Histories /\ WithLabel(h, r, label) \in Histories
           /\ WithRun(h, r) \in Histories
<1>1. DOMAIN h \in SUBSET Runs /\ h \in [DOMAIN h -> Labels]
  BY DEF Histories
<1>2. Without(h, r) \in [DOMAIN h \ {r} -> Labels]
  BY <1>1 DEF Without
<1>3. WithLabel(h, r, label) \in [DOMAIN h -> Labels]
  BY <1>1 DEF WithLabel
<1>4. WithRun(h, r) \in [DOMAIN h \cup {r} -> Labels]
  BY <1>1, PanelAssumption DEF WithRun
<1>5. DOMAIN h \ {r} \in SUBSET Runs /\ DOMAIN h \cup {r} \in SUBSET Runs
  BY <1>1
<1> QED
  BY <1>1, <1>2, <1>3, <1>4, <1>5 DEF Histories

LEMMA AnswerKinds ==
    /\ \A a \in Answers : a.kind = "runs" => \E h \in Histories : a = Fetched(h)
    /\ \A a \in Answers : a.kind = "error" => a = Error
    /\ \A a \in Changes : /\ a \in Answers /\ a \in Requests /\ a.run \in Runs
                          /\ \/ a.kind = "delete" /\ a = Delete(a.run)
                             \/ /\ a.kind = "patch" /\ a.label \in Labels
                                /\ a = Patch(a.run, a.label)
    /\ \A h \in Histories : Fetched(h) \in Answers
    /\ Error \in Answers /\ Recorded \in Answers /\ Get \in Requests
<1>1. \A a \in Changes : /\ a.run \in Runs
                         /\ \/ a.kind = "delete" /\ a = Delete(a.run)
                            \/ /\ a.kind = "patch" /\ a.label \in Labels
                               /\ a = Patch(a.run, a.label)
  BY Distinct DEF Changes
<1>2. \A a \in Answers : a.kind = "runs" => \E h \in Histories : a = Fetched(h)
  BY <1>1, Distinct DEF Answers
<1>3. \A a \in Answers : a.kind = "error" => a = Error
  BY <1>1, Distinct DEF Answers
<1> QED
  BY <1>1, <1>2, <1>3 DEF Answers, Requests

-----------------------------------------------------------------------------
(* Every action of the panel preserves its invariant. *)

LEMMA InitPanelInv == PanelInit => PanelInv
<1> SUFFICES ASSUME PanelInit
             PROVE  PanelInv
  OBVIOUS
<1>1. requests = <<>> /\ answers = <<>> /\ ~open /\ runs = Null /\ ~fetching
  BY DEF PanelInit
<1>2. /\ <<>> \in Seq(Requests) /\ <<>> \in Seq(Answers)
      /\ Len(answers) = 0 /\ Len(requests) = 0 /\ DOMAIN answers = {}
  BY <1>1, EmptySeq
<1>3. history \in Histories
  <2>1. history \in [{} -> Labels]
    BY DEF PanelInit
  <2> QED
    BY <2>1 DEF Histories
<1>4. UnderWay <= MaxFlight
  BY <1>2, PanelAssumption DEF UnderWay
<1>5. PanelTypeOK
  BY <1>1, <1>2, <1>3, <1>4 DEF PanelInit, PanelTypeOK
<1>6. NoneAfter(answers, 0, Error)
  BY <1>2 DEF NoneAfter
<1>7. CopyInv
  BY <1>1, <1>2, <1>6 DEF CopyInv, ListsYield
<1> QED
  BY <1>5, <1>7 DEF PanelInv

\* A GET that is under way stays so, at whatever place of the sequences.
LEMMA StillUnderWay ==
    ASSUME GetUnderWay,
           \A j \in DOMAIN requests : requests[j] = Get =>
               \E k \in DOMAIN requests' : requests'[k] = Get,
           \A j \in DOMAIN answers : answers[j].kind \in {"runs", "error"} =>
               \E k \in DOMAIN answers' : answers'[k].kind \in {"runs", "error"}
    PROVE  GetUnderWay'
BY DEF GetUnderWay

\* The user sends one request at most, and no copy changes.
LEMMA UserInv ==
    ASSUME PanelInv, User
    PROVE  PanelInv'
<1> DEFINE Sent(q) == UnderWay < MaxFlight /\ requests' = Append(requests, q)
           Moved ==
             /\ UNCHANGED <<history, toCome, answers, runs, broken, failed, overtaken>>
             /\ open' \in BOOLEAN /\ fetching' \in BOOLEAN /\ editing' \in Runs \cup {Null}
             /\ \/ /\ requests' = requests /\ fetching' = fetching
                   /\ open' => open \/ runs # Null
                \/ Sent(Get) /\ fetching' = TRUE
                \/ \E q \in Changes : Sent(q) /\ fetching' = fetching /\ open' = open
<1>1. Moved
  <2> USE DEF PanelInv, PanelTypeOK, Send, network, panel
  <2>1. CASE toggle
    BY <2>1 DEF toggle
  <2>2. ASSUME NEW r \in Runs, Edit(r)
        PROVE  Moved
    BY <2>2 DEF Edit
  <2>3. ASSUME NEW r \in Runs, deleteRun(r)
        PROVE  Moved
    BY <2>3 DEF deleteRun, Changes
  <2>4. ASSUME NEW r \in Runs, saveLabel(r)
        PROVE  Moved
    BY <2>4 DEF saveLabel, Changes
  <2> QED
    BY <2>1, <2>2, <2>3, <2>4 DEF User
<1>2. PanelTypeOK /\ CopyInv /\ Len(requests) \in Nat /\ Len(answers) \in Nat
  BY LenProperties DEF PanelInv, PanelTypeOK
<1>3. \A q \in Requests : Sent(q) =>
         /\ requests' \in Seq(Requests) /\ Len(requests') = Len(requests) + 1
         /\ DOMAIN requests' = 1..(Len(requests) + 1)
         /\ DOMAIN requests = 1..Len(requests)
         /\ \A j \in 1..Len(requests) : requests'[j] = requests[j]
         /\ requests'[Len(requests) + 1] = q
  BY <1>2, Appended, LenProperties DEF PanelTypeOK
<1>4. \A q \in Changes : q \in Requests
  BY AnswerKinds
<1>5. Get \in Requests
  BY AnswerKinds
<1>6. GetUnderWay => GetUnderWay'
  <2> SUFFICES ASSUME NEW j \in DOMAIN requests, requests[j] = Get
               PROVE  \E k \in DOMAIN requests' : requests'[k] = Get
    BY <1>1, StillUnderWay
  <2> HIDE DEF Sent
  <2> QED
    BY <1>1, <1>2, <1>3, <1>4, <1>5
<1>7. Sent(Get) => GetUnderWay'
  <2> HIDE DEF Sent
  <2>1. Sent(Get) => Len(requests) + 1 \in DOMAIN requests' /\ requests'[Len(requests) + 1] = Get
    BY <1>2, <1>3, <1>5
  <2> QED
    BY <2>1 DEF GetUnderWay
<1>8. PanelTypeOK'
  <2>1. requests' \in Seq(Requests) /\ UnderWay' <= MaxFlight
    <3>1. CASE requests' = requests
      BY <1>1, <1>2, <3>1 DEF PanelTypeOK, UnderWay
    <3>2. ASSUME NEW q \in Requests, Sent(q)
          PROVE  requests' \in Seq(Requests) /\ UnderWay' <= MaxFlight
      BY <1>1, <1>2, <1>3, <3>2, PanelAssumption DEF UnderWay
    <3> QED
      BY <1>1, <1>4, <1>5, <3>1, <3>2
  <2>2. fetching' => GetUnderWay'
    BY <1>1, <1>2, <1>6, <1>7 DEF PanelTypeOK
  <2> QED
    BY <1>1, <1>2, <2>1, <2>2 DEF PanelTypeOK
<1>9. CopyInv'
  BY <1>1, <1>2, <1>6, <1>7 DEF CopyInv
<1> QED
  BY <1>8, <1>9 DEF PanelInv

\* What an answer to request i changes in the sequences.
LEMMA AnswerMoves ==
    ASSUME PanelTypeOK, NEW i \in DOMAIN requests, NEW a \in Answers, Respond(i, a)
    PROVE  /\ requests' \in Seq(Requests) /\ answers' \in Seq(Answers)
           /\ answers' = Append(answers, a)
           /\ UnderWay' <= MaxFlight
           /\ requests[i] # Get => (GetUnderWay => GetUnderWay')
           /\ a.kind \in {"runs", "error"} => GetUnderWay'
<1>1. /\ requests' = RemoveAt(requests, i) /\ answers' = Append(answers, a)
      /\ i \in 1..Len(requests) /\ Len(requests) \in Nat /\ Len(answers) \in Nat
      /\ requests \in Seq(Requests) /\ answers \in Seq(Answers)
      /\ DOMAIN answers = 1..Len(answers) /\ DOMAIN requests = 1..Len(requests)
  BY LenProperties DEF Respond, PanelTypeOK
<1>2. requests' \in Seq(Requests) /\ Len(requests') = Len(requests) - 1
  BY <1>1, Removed
<1>3. /\ answers' \in Seq(Answers) /\ Len(answers') = Len(answers) + 1
      /\ DOMAIN answers' = 1..(Len(answers) + 1)
      /\ \A j \in 1..Len(answers) : answers'[j] = answers[j]
      /\ answers'[Len(answers) + 1] = a
  BY <1>1, Appended
<1>4. UnderWay' <= MaxFlight
  BY <1>1, <1>2, <1>3 DEF UnderWay, PanelTypeOK
<1>5. ASSUME requests[i] # Get, GetUnderWay
      PROVE  GetUnderWay'
  <2>1. ASSUME NEW j \in DOMAIN requests, requests[j] = Get
        PROVE  \E k \in DOMAIN requests' : requests'[k] = Get
    <3>1. j \in 1..Len(requests) /\ j # i
      BY <1>1, <1>5, <2>1
    <3>2. \E k \in DOMAIN RemoveAt(requests, i) : RemoveAt(requests, i)[k] = requests[j]
      BY <1>1, <3>1, RemovedKeeps
    <3> QED
      BY <1>1, <2>1, <3>2
  <2>2. \A j \in DOMAIN answers : j \in DOMAIN answers' /\ answers'[j] = answers[j]
    BY <1>1, <1>3
  <2> QED
    BY <1>5, <2>1, <2>2, StillUnderWay
<1>6. ASSUME a.kind \in {"runs", "error"}
      PROVE  GetUnderWay'
  <2>1. Len(answers) + 1 \in DOMAIN answers'
    BY <1>1, <1>3
  <2> QED
    BY <1>3, <1>6, <2>1 DEF GetUnderWay
<1> QED
  BY <1>1, <1>2, <1>3, <1>4, <1>5, <1>6

\* A new list is the history.
LEMMA HistoryInv ==
    ASSUME PanelInv, NEW i \in DOMAIN requests, History(i)
    PROVE  PanelInv'
<1> DEFINE a == Fetched(history)
<1>1. PanelTypeOK /\ CopyInv
  BY DEF PanelInv
<1>2. /\ Respond(i, a)
      /\ UNCHANGED <<history, toCome, runs, open, fetching, editing, broken, failed, overtaken>>
  BY DEF History, Respond, panel
<1>3. a \in Answers /\ a.kind = "runs" /\ a.runs = history
  BY <1>1, AnswerKinds, Distinct DEF PanelTypeOK
<1>4. /\ \A r, l : a # Delete(r) /\ a # Patch(r, l)
      /\ a # Error /\ a # Recorded
  BY <1>3, Distinct
<1> HIDE DEF a
<1>5. /\ requests' \in Seq(Requests) /\ answers' \in Seq(Answers)
      /\ answers' = Append(answers, a)
      /\ UnderWay' <= MaxFlight /\ GetUnderWay'
  BY <1>1, <1>2, <1>3, AnswerMoves
<1>6. PanelTypeOK'
  BY <1>1, <1>2, <1>5 DEF PanelTypeOK
<1>7. /\ answers \in Seq(Answers) /\ Len(answers) \in Nat /\ DOMAIN answers = 1..Len(answers)
      /\ DOMAIN answers' = 1..(Len(answers) + 1) /\ Len(answers') = Len(answers) + 1
      /\ \A j \in 1..Len(answers) : answers'[j] = answers[j]
      /\ answers'[Len(answers) + 1] = a
  BY <1>1, <1>3, <1>5, Appended, LenProperties DEF PanelTypeOK
<1>8. NoneAfter(answers, 0, Error) => NoneAfter(answers', 0, Error)
  BY <1>3, <1>4, <1>5, <1>7, NoneAppended
<1>9. ListsYield(answers, history) => ListsYield(answers', history)
  <2> SUFFICES ASSUME ListsYield(answers, history), NEW j \in DOMAIN answers',
                      answers'[j].kind = "runs", NoneAfter(answers', j, Recorded)
               PROVE  Yields(answers'[j].runs, answers', j, history)
    BY DEF ListsYield
  <2>1. CASE j = Len(answers')
    <3>1. answers'[j].runs = history /\ Len(answers') \in Nat
      BY <1>3, <1>7, <2>1
    <3> QED
      BY <2>1, <3>1, YieldsItself
  <2>2. CASE j # Len(answers')
    <3>1. j \in DOMAIN answers /\ j \in 0..Len(answers) /\ answers'[j] = answers[j]
      BY <1>7, <2>2
    <3>2. NoneAfter(answers, j, Recorded)
      BY <1>3, <1>5, <1>7, <3>1, NoneAppended
    <3>3. Yields(answers[j].runs, answers, j, history)
      BY <3>1, <3>2 DEF ListsYield
    <3>4. Yields(answers[j].runs, Append(answers, a), j, history)
      BY <1>3, <1>4, <1>7, <3>1, <3>3, YieldsThenOther
    <3> QED
      BY <1>5, <3>1, <3>4
  <2> QED
    BY <2>1, <2>2
<1>10. CopyInv'
  BY <1>1, <1>2, <1>5, <1>8, <1>9 DEF CopyInv
<1> QED
  BY <1>6, <1>10 DEF PanelInv

\* A change of the history is the next answer, and the last word on its run.
LEMMA HistoryItemInv ==
    ASSUME PanelInv, NEW i \in DOMAIN requests, HistoryItem(i)
    PROVE  PanelInv'
<1> DEFINE a == requests[i]
<1>1. PanelTypeOK /\ CopyInv
  BY DEF PanelInv
<1>2. /\ Respond(i, a) /\ a \in Changes
      /\ history' = IF a.kind = "delete" THEN Without(history, a.run)
                    ELSE WithLabel(history, a.run, a.label)
      /\ UNCHANGED <<toCome, runs, open, fetching, editing, broken, failed, overtaken>>
  BY DEF HistoryItem, Respond, panel
<1> HIDE DEF a
<1>3. /\ a \in Answers /\ a.run \in Runs
      /\ \/ a.kind = "delete" /\ a = Delete(a.run)
         \/ a.kind = "patch" /\ a.label \in Labels /\ a = Patch(a.run, a.label)
  BY <1>2, AnswerKinds
<1>4. a # Get /\ a # Error /\ a.kind # "runs"
  BY <1>3, Distinct
<1>5. /\ requests' \in Seq(Requests) /\ answers' \in Seq(Answers)
      /\ answers' = Append(answers, a)
      /\ UnderWay' <= MaxFlight /\ (GetUnderWay => GetUnderWay')
  BY <1>1, <1>2, <1>3, <1>4, AnswerMoves DEF a
<1>6. history' \in Histories
  <2>1. history \in Histories /\ NoLabel \in Labels
    BY <1>1, PanelAssumption DEF PanelTypeOK
  <2>2. CASE a.kind = "delete"
    <3>1. Without(history, a.run) \in Histories
      BY <1>3, <2>1, HistoriesClosed
    <3> QED
      BY <1>2, <2>2, <3>1
  <2>3. CASE a.kind = "patch" /\ a.label \in Labels
    <3>1. WithLabel(history, a.run, a.label) \in Histories
      BY <1>3, <2>1, <2>3, HistoriesClosed
    <3> QED
      BY <1>2, <2>3, <3>1
  <2> QED
    BY <1>3, <2>2, <2>3
<1>7. PanelTypeOK'
  BY <1>1, <1>2, <1>5, <1>6 DEF PanelTypeOK
<1>8. answers \in Seq(Answers) /\ 0 \in 0..Len(answers)
  BY <1>1, LenProperties DEF PanelTypeOK
<1>9. ASSUME NEW j \in 0..Len(answers), NEW copy, Yields(copy, answers, j, history)
      PROVE  Yields(copy, Append(answers, a), j, history')
  <2>1. CASE a.kind = "delete"
    BY <1>2, <1>3, <1>8, <1>9, <2>1, YieldsThenDelete
  <2>2. CASE a.kind = "patch"
    BY <1>2, <1>3, <1>8, <1>9, <2>2, YieldsThenPatch
  <2> QED
    BY <1>3, <2>1, <2>2
<1>10. ListsYield(answers, history) => ListsYield(answers', history')
  BY <1>3, <1>4, <1>5, <1>8, <1>9, ListsAppended
<1>11. /\ NoneAfter(answers, 0, Error) => NoneAfter(answers', 0, Error)
       /\ NoneAfter(answers', 0, Recorded) => NoneAfter(answers, 0, Recorded)
  BY <1>3, <1>4, <1>5, <1>8, NoneAppended
<1>12. CopyInv'
  BY <1>1, <1>2, <1>5, <1>8, <1>9, <1>10, <1>11 DEF CopyInv
<1> QED
  BY <1>7, <1>12 DEF PanelInv

LEMMA FailInv ==
    ASSUME PanelInv, NEW i \in DOMAIN requests, Fail(i)
    PROVE  PanelInv'
<1> DEFINE a == IF requests[i] = Get THEN Error ELSE requests[i]
<1>1. PanelTypeOK
  BY DEF PanelInv
<1>2. /\ Respond(i, a) /\ failed' = TRUE
      /\ UNCHANGED <<history, toCome, runs, open, fetching, editing, broken, overtaken>>
  BY DEF Fail, Respond, panel
<1>3. requests[i] \in Requests
  BY <1>1, ElementOfSeq, LenProperties DEF PanelTypeOK
<1>4. a \in Answers /\ (requests[i] = Get => a.kind = "error")
  BY <1>3, AnswerKinds, Distinct DEF Requests
<1> HIDE DEF a
<1>5. /\ requests' \in Seq(Requests) /\ answers' \in Seq(Answers)
      /\ UnderWay' <= MaxFlight /\ (GetUnderWay => GetUnderWay')
  BY <1>1, <1>2, <1>4, AnswerMoves
<1>6. PanelTypeOK'
  BY <1>1, <1>2, <1>5 DEF PanelTypeOK
<1>7. CopyInv'
  BY <1>2 DEF CopyInv
<1> QED
  BY <1>6, <1>7 DEF PanelInv

\* A new run: what is on its way before the page is told need not have it.
LEMMA AddRunInv ==
    ASSUME PanelInv, NEW r \in Runs, AddRun(r)
    PROVE  PanelInv'
<1>1. PanelTypeOK /\ CopyInv
  BY DEF PanelInv
<1>2. /\ toCome' = toCome \ {r} /\ UnderWay < MaxFlight
      /\ history' = WithRun(history, r)
      /\ answers' = Append(answers, Recorded)
      /\ UNCHANGED <<requests, runs, open, fetching, editing, broken, failed, overtaken>>
  BY DEF AddRun, panel
<1>3. /\ Recorded \in Answers /\ Recorded # Error /\ Recorded.kind \notin {"runs", "error"}
  BY AnswerKinds, Distinct
<1>4. /\ answers \in Seq(Answers) /\ Len(answers) \in Nat /\ Len(requests) \in Nat
      /\ 0 \in 0..Len(answers) /\ DOMAIN answers = 1..Len(answers)
  BY <1>1, LenProperties DEF PanelTypeOK
<1>5. /\ answers' \in Seq(Answers) /\ Len(answers') = Len(answers) + 1
      /\ DOMAIN answers' = 1..(Len(answers) + 1)
      /\ \A j \in 1..Len(answers) : answers'[j] = answers[j]
      /\ answers'[Len(answers) + 1] = Recorded
  BY <1>2, <1>3, <1>4, Appended
<1>6. GetUnderWay => GetUnderWay'
  <2>1. \A j \in DOMAIN answers : j \in DOMAIN answers' /\ answers'[j] = answers[j]
    BY <1>4, <1>5
  <2> QED
    BY <1>2, <2>1, StillUnderWay
<1>7. PanelTypeOK'
  <2>1. UnderWay' <= MaxFlight
    BY <1>2, <1>4, <1>5, PanelAssumption DEF UnderWay
  <2>2. history' \in Histories
    BY <1>1, <1>2, HistoriesClosed, PanelAssumption DEF PanelTypeOK
  <2> QED
    BY <1>1, <1>2, <1>5, <1>6, <2>1, <2>2 DEF PanelTypeOK
<1>8. \A j \in 0..Len(answers) : ~NoneAfter(answers', j, Recorded)
  BY <1>2, <1>3, <1>4, NoneAppended
<1>9. NoneAfter(answers, 0, Error) => NoneAfter(answers', 0, Error)
  BY <1>2, <1>3, <1>4, NoneAppended
<1>10. ListsYield(answers', history')
  <2> SUFFICES ASSUME NEW j \in DOMAIN answers', answers'[j].kind = "runs",
                      NoneAfter(answers', j, Recorded)
               PROVE  FALSE
    BY DEF ListsYield
  <2>1. j # Len(answers) + 1
    BY <1>3, <1>5
  <2>2. j \in 0..Len(answers)
    BY <1>4, <1>5, <2>1
  <2> QED
    BY <1>8, <2>2
<1>11. CopyInv'
  BY <1>1, <1>2, <1>4, <1>6, <1>8, <1>9, <1>10 DEF CopyInv
<1> QED
  BY <1>7, <1>11 DEF PanelInv

\* What handling an answer leaves: if none was overtaken it was the first.
LEMMA Handled ==
    ASSUME PanelTypeOK, NEW i \in DOMAIN answers, Take(i)
    PROVE  /\ answers \in Seq(Answers) /\ answers' \in Seq(Answers)
           /\ Len(answers) \in Nat \ {0} /\ Len(answers') \in Nat
           /\ Len(answers') = Len(answers) - 1 /\ answers[i] \in Answers
           /\ overtaken' \in BOOLEAN
           /\ ~overtaken' => ~overtaken /\ i = 1 /\ Shifted(answers, answers')
<1>1. /\ answers \in Seq(Answers) /\ Len(answers) \in Nat /\ i \in 1..Len(answers)
      /\ answers[i] \in Answers /\ answers' = RemoveAt(answers, i)
      /\ overtaken' = (overtaken \/ i # 1) /\ overtaken \in BOOLEAN
  BY LenProperties, ElementOfSeq DEF Take, PanelTypeOK
<1>2. /\ answers' \in Seq(Answers) /\ Len(answers') = Len(answers) - 1
      /\ \A j \in 1..(Len(answers) - 1) :
            answers'[j] = IF j < i THEN answers[j] ELSE answers[j + 1]
  BY <1>1, Removed
<1>3. Len(answers) \in Nat \ {0} /\ Len(answers') \in Nat
  BY <1>1, <1>2
<1>4. ASSUME i = 1
      PROVE  Shifted(answers, answers')
  <2>1. \A j \in 1..Len(answers') : answers'[j] = answers[j + 1]
    BY <1>1, <1>2, <1>4
  <2> QED
    BY <1>1, <1>2, <2>1 DEF Shifted
<1> QED
  BY <1>1, <1>2, <1>3, <1>4

\* Handling a change or a "recorded" takes no GET off the way.
LEMMA HandledKeepsGet ==
    ASSUME PanelTypeOK, NEW i \in DOMAIN answers, Take(i),
           answers[i].kind \notin {"runs", "error"}, requests' = requests, GetUnderWay
    PROVE  GetUnderWay'
<1>1. /\ answers \in Seq(Answers) /\ DOMAIN answers = 1..Len(answers)
      /\ answers' = RemoveAt(answers, i)
  BY LenProperties DEF Take, PanelTypeOK
<1>2. ASSUME NEW j \in DOMAIN answers, answers[j].kind \in {"runs", "error"}
      PROVE  \E k \in DOMAIN answers' : answers'[k].kind \in {"runs", "error"}
  <2>1. j \in 1..Len(answers) /\ i \in 1..Len(answers) /\ j # i
    BY <1>1, <1>2
  <2>2. \E k \in DOMAIN RemoveAt(answers, i) : RemoveAt(answers, i)[k] = answers[j]
    BY <1>1, <2>1, RemovedKeeps
  <2> QED
    BY <1>1, <1>2, <2>2
<1> QED
  BY <1>2, StillUnderWay

\* What is left of the answers when the first was no reason to doubt them.
LEMMA LeftAnswers ==
    ASSUME NEW s \in Seq(Answers), NEW t \in Seq(Answers), Shifted(s, t), NEW h,
           NoneAfter(s, 0, Error), ListsYield(s, h)
    PROVE  /\ s[1] # Error /\ NoneAfter(t, 0, Error) /\ ListsYield(t, h)
           /\ NoneAfter(t, 0, Recorded) => NoneAfter(s, 1, Recorded)
<1>1. Len(t) \in Nat /\ Len(s) \in Nat \ {0} /\ 0 \in 0..Len(t) /\ 0 + 1 = 1
  BY LenProperties DEF Shifted
<1>2. \A a : NoneAfter(t, 0, a) <=> NoneAfter(s, 1, a)
  BY <1>1, NoneShifted
<1>3. s[1] # Error /\ NoneAfter(s, 1, Error)
  BY <1>1, NoneFirst
<1>4. ListsYield(t, h)
  BY ListsShifted
<1> QED
  BY <1>2, <1>3, <1>4

\* The list that replaces the copy is the history, but for what is to come.
LEMMA ShowFetchedInv ==
    ASSUME PanelInv, NEW i \in DOMAIN answers, ShowFetched(i)
    PROVE  PanelInv'
<1>1. PanelTypeOK /\ CopyInv
  BY DEF PanelInv
<1>2. /\ Take(i) /\ answers[i].kind \in {"runs", "error"}
      /\ runs' = IF answers[i] = Error THEN runs ELSE answers[i].runs
      /\ fetching' = FALSE
      /\ UNCHANGED <<requests, open, editing, broken, history, toCome, failed>>
  BY DEF ShowFetched, Take
<1>3. /\ answers \in Seq(Answers) /\ answers' \in Seq(Answers)
      /\ Len(answers) \in Nat \ {0} /\ Len(answers') \in Nat
      /\ Len(answers') = Len(answers) - 1 /\ answers[i] \in Answers
      /\ overtaken' \in BOOLEAN
      /\ ~overtaken' => ~overtaken /\ i = 1 /\ Shifted(answers, answers')
  BY <1>1, <1>2, Handled
<1>4. answers[i] = Error \/ \E h \in Histories : answers[i] = Fetched(h)
  BY <1>2, <1>3, AnswerKinds
<1>5. answers[i] # Error => answers[i].runs \in Histories /\ answers[i].kind = "runs"
  BY <1>4, Distinct
<1>6. PanelTypeOK'
  <2>1. UnderWay' <= MaxFlight
    <3>1. Len(requests) \in Nat
      BY <1>1, LenProperties DEF PanelTypeOK
    <3> QED
      BY <1>1, <1>2, <1>3, <3>1, PanelAssumption DEF UnderWay, PanelTypeOK
  <2>2. runs' \in Histories \cup {Null}
    BY <1>1, <1>2, <1>5 DEF PanelTypeOK
  <2> QED
    BY <1>1, <1>2, <1>3, <2>1, <2>2 DEF PanelTypeOK
<1>7. CopyInv'
  <2> SUFFICES ASSUME ~failed', ~overtaken', ~broken'
               PROVE  /\ NoneAfter(answers', 0, Error)
                      /\ ListsYield(answers', history')
                      /\ open' => runs' # Null \/ GetUnderWay'
                      /\ runs' # Null /\ NoneAfter(answers', 0, Recorded) /\ ~GetUnderWay'
                            => Yields(runs', answers', 0, history')
    BY DEF CopyInv
  <2>1. /\ NoneAfter(answers, 0, Error) /\ ListsYield(answers, history)
        /\ i = 1 /\ Shifted(answers, answers') /\ history' = history
    BY <1>1, <1>2, <1>3 DEF CopyInv
  <2>2. /\ answers[1] # Error /\ NoneAfter(answers', 0, Error)
        /\ ListsYield(answers', history)
        /\ NoneAfter(answers', 0, Recorded) => NoneAfter(answers, 1, Recorded)
    BY <1>3, <2>1, LeftAnswers
  <2>3. /\ runs' = answers[1].runs /\ runs' \in Histories
        /\ answers[1].kind = "runs" /\ runs' # Null
    BY <1>2, <1>5, <2>1, <2>2, SentinelAssumption
  <2>4. ASSUME NoneAfter(answers', 0, Recorded)
        PROVE  Yields(runs', answers', 0, history)
    <3>1. 1 \in DOMAIN answers /\ 0 \in 0..Len(answers') /\ 0 + 1 = 1
      BY <1>3, <2>1
    <3>2. Yields(answers[1].runs, answers, 1, history)
      BY <2>1, <2>2, <2>3, <2>4, <3>1 DEF ListsYield
    <3> QED
      BY <1>3, <2>1, <2>3, <3>1, <3>2, YieldsShifted
  <2> QED
    BY <2>1, <2>2, <2>3, <2>4
<1> QED
  BY <1>6, <1>7 DEF PanelInv

\* A change is applied to the copy as the server applied it to the history.
LEMMA ShowChangeInv ==
    ASSUME PanelInv, NEW i \in DOMAIN answers, ShowChange(i)
    PROVE  PanelInv'
<1> DEFINE a == answers[i]
<1>1. PanelTypeOK /\ CopyInv
  BY DEF PanelInv
<1>2. /\ Take(i) /\ a \in Changes
      /\ runs' = IF runs = Null THEN Null
                 ELSE IF a.kind = "delete" THEN Without(runs, a.run)
                 ELSE WithLabel(runs, a.run, a.label)
      /\ editing' \in {Null, editing} /\ broken' = (runs = Null)
      /\ UNCHANGED <<requests, open, fetching, history, toCome, failed>>
  BY DEF ShowChange, Take
<1>3. /\ a.run \in Runs
      /\ \/ a.kind = "delete" /\ a = Delete(a.run)
         \/ a.kind = "patch" /\ a.label \in Labels /\ a = Patch(a.run, a.label)
  BY <1>2, AnswerKinds
<1>4. a.kind \notin {"runs", "error"} /\ a # Recorded
  BY <1>3, Distinct
<1>5. /\ answers \in Seq(Answers) /\ answers' \in Seq(Answers)
      /\ Len(answers) \in Nat \ {0} /\ Len(answers') \in Nat
      /\ Len(answers') = Len(answers) - 1
      /\ overtaken' \in BOOLEAN
      /\ ~overtaken' => ~overtaken /\ i = 1 /\ Shifted(answers, answers')
  BY <1>1, <1>2, Handled
<1>6. GetUnderWay => GetUnderWay'
  BY <1>1, <1>2, <1>4, HandledKeepsGet
<1> HIDE DEF a
<1>7. runs' \in Histories \cup {Null} /\ (runs # Null => runs' # Null)
  <2>1. runs \in Histories \cup {Null} /\ NoLabel \in Labels
    BY <1>1, PanelAssumption DEF PanelTypeOK
  <2>2. CASE runs = Null
    BY <1>2, <2>2
  <2>3. CASE runs # Null /\ a.kind = "delete"
    <3>1. Without(runs, a.run) \in Histories
      BY <1>3, <2>1, <2>3, HistoriesClosed
    <3> QED
      BY <1>2, <2>3, <3>1, SentinelAssumption
  <2>4. CASE runs # Null /\ a.kind = "patch" /\ a.label \in Labels
    <3>1. WithLabel(runs, a.run, a.label) \in Histories
      BY <1>3, <2>1, <2>4, HistoriesClosed
    <3> QED
      BY <1>2, <2>4, <3>1, SentinelAssumption
  <2> QED
    BY <1>3, <2>2, <2>3, <2>4
<1>8. PanelTypeOK'
  <2>1. UnderWay' <= MaxFlight
    <3>1. Len(requests) \in Nat
      BY <1>1, LenProperties DEF PanelTypeOK
    <3> QED
      BY <1>1, <1>2, <1>5, <3>1, PanelAssumption DEF UnderWay, PanelTypeOK
  <2>2. editing' \in Runs \cup {Null} /\ broken' \in BOOLEAN
    BY <1>1, <1>2 DEF PanelTypeOK
  <2>3. /\ history' \in Histories /\ toCome' \subseteq Runs
        /\ requests' \in Seq(Requests)
        /\ open' \in BOOLEAN /\ fetching' \in BOOLEAN /\ failed' \in BOOLEAN
        /\ fetching' => GetUnderWay'
    BY <1>1, <1>2, <1>6 DEF PanelTypeOK
  <2> QED
    BY <1>5, <1>7, <2>1, <2>2, <2>3 DEF PanelTypeOK
<1>9. CopyInv'
  <2> SUFFICES ASSUME ~failed', ~overtaken', ~broken'
               PROVE  /\ NoneAfter(answers', 0, Error)
                      /\ ListsYield(answers', history')
                      /\ open' => runs' # Null \/ GetUnderWay'
                      /\ runs' # Null /\ NoneAfter(answers', 0, Recorded) /\ ~GetUnderWay'
                            => Yields(runs', answers', 0, history')
    BY DEF CopyInv
  <2>1. runs # Null /\ history' = history
    BY <1>2
  <2>2. CASE ~broken
    <3>1. /\ NoneAfter(answers, 0, Error) /\ ListsYield(answers, history)
          /\ i = 1 /\ Shifted(answers, answers') /\ a = answers[1]
      BY <1>1, <1>2, <1>5, <2>2 DEF CopyInv, a
    <3>2. /\ NoneAfter(answers', 0, Error) /\ ListsYield(answers', history)
          /\ NoneAfter(answers', 0, Recorded) => NoneAfter(answers, 1, Recorded)
      BY <1>5, <3>1, LeftAnswers
    <3>3. ASSUME NoneAfter(answers', 0, Recorded), ~GetUnderWay'
          PROVE  Yields(runs', answers', 0, history)
      <4>1. NoneAfter(answers, 0, Recorded)
        BY <1>4, <1>5, <3>1, <3>2, <3>3, NoneFirst
      <4>2. Yields(runs, answers, 0, history)
        BY <1>1, <1>2, <1>5, <1>6, <2>1, <2>2, <3>3, <4>1 DEF CopyInv
      <4>3. Yields(runs', answers, 1, history)
        <5>1. CASE a.kind = "delete"
          <6>1. runs' = Without(runs, a.run) /\ answers[1] = Delete(a.run)
            BY <1>2, <1>3, <2>1, <3>1, <5>1
          <6> QED
            BY <1>5, <4>2, <6>1, YieldsDeleted
        <5>2. CASE a.kind = "patch" /\ a.label \in Labels
          <6>1. /\ runs' = WithLabel(runs, a.run, a.label)
                /\ answers[1] = Patch(a.run, a.label)
            BY <1>2, <1>3, <2>1, <3>1, <5>2
          <6> QED
            BY <1>5, <4>2, <5>2, <6>1, YieldsRenamed
        <5> QED
          BY <1>3, <5>1, <5>2
      <4>4. 0 \in 0..Len(answers') /\ 0 + 1 = 1
        BY <1>5
      <4> QED
        BY <1>5, <3>1, <4>3, <4>4, YieldsShifted
    <3> QED
      BY <1>7, <2>1, <3>2, <3>3
  <2>3. CASE broken
    BY <1>2, <2>3 DEF Take
  <2> QED
    BY <2>2, <2>3
<1> QED
  BY <1>8, <1>9 DEF PanelInv

\* A recorded run sends an open panel for the list, and a closed one forgets.
LEMMA RefreshInv ==
    ASSUME PanelInv, NEW i \in DOMAIN answers, Refresh(i)
    PROVE  PanelInv'
<1> DEFINE Sent == requests' = Append(requests, Get) /\ fetching' = TRUE /\ runs' = runs
           Forgets == runs' = Null /\ requests' = requests /\ fetching' = fetching
<1>1. PanelTypeOK /\ CopyInv
  BY DEF PanelInv
<1>2. /\ Take(i) /\ answers[i] = Recorded
      /\ (open /\ Sent) \/ (~open /\ Forgets)
      /\ UNCHANGED <<open, editing, broken, history, toCome, failed>>
  BY DEF Refresh, Take
<1>3. /\ answers \in Seq(Answers) /\ answers' \in Seq(Answers)
      /\ Len(answers) \in Nat \ {0} /\ Len(answers') \in Nat
      /\ Len(answers') = Len(answers) - 1
      /\ overtaken' \in BOOLEAN
      /\ ~overtaken' => ~overtaken /\ i = 1 /\ Shifted(answers, answers')
  BY <1>1, <1>2, Handled
<1>4. requests \in Seq(Requests) /\ Len(requests) \in Nat /\ Get \in Requests
  BY <1>1, AnswerKinds, LenProperties DEF PanelTypeOK
<1>5. CASE Sent
  <2>1. /\ requests' \in Seq(Requests) /\ Len(requests') = Len(requests) + 1
        /\ DOMAIN requests' = 1..(Len(requests) + 1)
        /\ requests'[Len(requests) + 1] = Get
    BY <1>4, <1>5, Appended
  <2>2. GetUnderWay'
    <3>1. Len(requests) + 1 \in DOMAIN requests'
      BY <1>4, <2>1
    <3> QED
      BY <2>1, <3>1 DEF GetUnderWay
  <2>3. UnderWay' <= MaxFlight
    BY <1>1, <1>3, <1>4, <2>1, PanelAssumption DEF UnderWay, PanelTypeOK
  <2>4. PanelTypeOK'
    BY <1>1, <1>2, <1>3, <1>5, <2>1, <2>2, <2>3 DEF PanelTypeOK
  <2>5. CopyInv'
    BY <1>1, <1>2, <1>3, <2>2, LeftAnswers DEF CopyInv
  <2> QED
    BY <2>4, <2>5 DEF PanelInv
<1>6. CASE Forgets /\ ~open
  <2>1. GetUnderWay => GetUnderWay'
    <3>1. answers[i].kind \notin {"runs", "error"}
      BY <1>2, Distinct
    <3> QED
      BY <1>1, <1>2, <1>6, <3>1, HandledKeepsGet
  <2>2. UnderWay' <= MaxFlight
    BY <1>1, <1>3, <1>4, <1>6, PanelAssumption DEF UnderWay, PanelTypeOK
  <2>3. PanelTypeOK'
    BY <1>1, <1>2, <1>3, <1>6, <2>1, <2>2 DEF PanelTypeOK
  <2>4. CopyInv'
    BY <1>1, <1>2, <1>3, <1>6, LeftAnswers DEF CopyInv
  <2> QED
    BY <2>3, <2>4 DEF PanelInv
<1> QED
  BY <1>2, <1>5, <1>6

LEMMA StutterPanelInv == PanelInv /\ UNCHANGED panelVars => PanelInv'
BY DEF panelVars, network, panel, PanelInv, PanelTypeOK, UnderWay, GetUnderWay,
       CopyInv

LEMMA StepPanelInv == PanelInv /\ [PanelNext]_panelVars => PanelInv'
<1> SUFFICES ASSUME PanelInv, [PanelNext]_panelVars
             PROVE  PanelInv'
  OBVIOUS
<1>1. CASE User
  BY <1>1, UserInv
<1>2. CASE Server
  BY <1>2, HistoryInv, HistoryItemInv, FailInv, AddRunInv DEF Server
<1>3. CASE Page
  BY <1>3, ShowFetchedInv, ShowChangeInv, RefreshInv DEF Page
<1>4. CASE UNCHANGED panelVars
  BY <1>4, StutterPanelInv
<1> QED
  BY <1>1, <1>2, <1>3, <1>4 DEF PanelNext

\* What is on its way to the panel, and the panel's own copy with it, make
\* the history the server has (App.jsx HistoryPanel, any number of runs,
\* labels and requests under way).
THEOREM PanelInvariant == PanelSpec => []PanelInv
BY InitPanelInv, StepPanelInv, PTL DEF PanelSpec

\* However openings, renamings, deletions and finished runs overlap, an open
\* panel at rest shows the server's history, if no request failed and no
\* answer overtook another (App.jsx "mark stale so next open re-fetches").
THEOREM PanelAlwaysCurrent == PanelSpec => []PanelIsCurrent
<1>1. PanelInv => PanelIsCurrent
  <2> SUFFICES ASSUME PanelInv, open, requests = <<>>, answers = <<>>,
                      ~failed, ~overtaken, ~broken
               PROVE  runs = history
    BY DEF PanelIsCurrent
  <2>1. DOMAIN answers = {} /\ DOMAIN requests = {} /\ Len(answers) = 0
    BY EmptySeq
  <2>2. ~GetUnderWay /\ \A a : NoneAfter(answers, 0, a)
    BY <2>1 DEF GetUnderWay, NoneAfter
  <2>3. runs # Null /\ Yields(runs, answers, 0, history)
    BY <2>2 DEF PanelInv, CopyInv
  <2>4. DOMAIN history = DOMAIN runs
    BY <2>2, <2>3 DEF Yields
  <2>5. ASSUME NEW r \in DOMAIN history
        PROVE  history[r] = runs[r]
    <3>1. LabelledAs(runs, answers, 0, r, history[r])
      BY <2>3 DEF Yields
    <3> QED
      BY <2>1, <3>1 DEF LabelledAs
  <2>6. /\ history = [r \in DOMAIN history |-> history[r]]
        /\ runs = [r \in DOMAIN runs |-> runs[r]]
    BY <2>3 DEF PanelInv, PanelTypeOK, Histories
  <2> QED
    BY <2>4, <2>5, <2>6
<1> QED
  BY <1>1, PanelInvariant, PTL

-----------------------------------------------------------------------------
(* The page: sessions, answers and the requests for them. *)

\* The answers to GET /batch/:id are told apart by their status.
LEMMA StatusesDiffer ==
    /\ Job!Unknown # Job!NotFound /\ Job!Done # Job!Unknown
    /\ \A answer \in Job!InProgress \cup Job!Final : answer # Job!Unknown
    /\ \A answer \in Job!InProgress : answer # Job!Done /\ answer # Job!NotFound
    /\ \A answer \in Job!InProgress : answer.status = "processing"
    /\ Job!Done.status = "done" /\ Job!Done \in Job!Final
BY DEF Job!Unknown, Job!NotFound, Job!Done, Job!Failed, Job!Processing,
       Job!InProgress, Job!Final

\* The answers that a batch can have keep their set under every step of the
\* server.
Views == [Batches -> {Job!Unknown, Job!NotFound} \cup Job!InProgress \cup Job!Final]

LEMMA ViewSteps ==
    ASSUME view \in Views, [Job!Next]_view
    PROVE  /\ view' \in Views
           /\ \A b \in Batches : view[b] # Job!Unknown => view'[b] # Job!Unknown
           /\ \A b \in Batches : view[b] \in {Job!Done, Job!NotFound}
                                    => view'[b] \in {Job!Done, Job!NotFound}
<1>1. CASE UNCHANGED view
  BY <1>1
<1>2. ASSUME NEW b \in Batches, NEW answer \in Job!InProgress \cup Job!Final,
             view[b] \in {Job!Unknown} \cup Job!InProgress,
             view' = [view EXCEPT ![b] = answer]
      PROVE  /\ view' \in Views
             /\ \A c \in Batches : view[c] # Job!Unknown => view'[c] # Job!Unknown
             /\ \A c \in Batches : view[c] \in {Job!Done, Job!NotFound}
                                      => view'[c] \in {Job!Done, Job!NotFound}
  <2>1. view[b] \notin {Job!Done, Job!NotFound} /\ answer # Job!Unknown
    BY <1>2, StatusesDiffer
  <2>2. \A c \in Batches : view'[c] = IF c = b THEN answer ELSE view[c]
    BY <1>2 DEF Views
  <2>3. view' \in Views
    BY <1>2 DEF Views
  <2> QED
    BY <2>1, <2>2, <2>3
<1>3. CASE \E b \in Batches : Job!Give(b)
  BY <1>2, <1>3 DEF Job!Give
<1>4. CASE \E b \in Batches : Job!Progress(b)
  <2>1. PICK b \in Batches : Job!Progress(b)
    BY <1>4
  <2>2. /\ view[b] \in Job!InProgress
        /\ \E n \in view[b].succeeded..0 : view' = [view EXCEPT ![b] = Job!Processing(n)]
    BY <2>1 DEF Job!Progress
  <2>3. view[b].succeeded = 0
    BY <2>2 DEF Job!InProgress, Job!Processing
  <2>4. view' = [view EXCEPT ![b] = Job!Processing(0)]
    BY <2>2, <2>3
  <2>5. Job!Processing(0) \in Job!InProgress
    BY DEF Job!InProgress
  <2> QED
    BY <1>2, <2>2, <2>4, <2>5
<1>5. CASE \E b \in Batches : Job!Settle(b)
  BY <1>2, <1>5 DEF Job!Settle
<1>6. CASE Job!Forget
  BY <1>6, StatusesDiffer DEF Job!Forget, Views
<1> QED
  BY <1>1, <1>3, <1>4, <1>5, <1>6 DEF Job!Next

\* Whatever is done to the sessions, the map and the ages keep their type.
LEMMA SessionSteps ==
    ASSUME PageAssumption, Session!SessionType,
           \/ \E t \in 1..MaxLogins : Session!Login(t) \/ Session!Logout(t)
           \/ Session!Cleanup \/ Session!Hour \/ Session!ForgetSessions
           \/ UNCHANGED <<sessions, age>>
    PROVE  Session!SessionType'
<1> USE DEF PageAssumption, Session!SessionType
<1>1. ASSUME NEW dead, Session!Drop(dead)
      PROVE  Session!SessionType'
  <2>1. \A t \in 1..MaxLogins : (IF t \in dead THEN 0 ELSE age[t]) \in 0..Life + 1
    OBVIOUS
  <2>2. sessions' \subseteq 1..MaxLogins
    BY <1>1 DEF Session!Drop
  <2>3. age' = [t \in 1..MaxLogins |-> IF t \in dead THEN 0 ELSE age[t]]
    BY <1>1 DEF Session!Drop
  <2> QED
    BY <2>1, <2>2, <2>3
<1>2. ASSUME NEW t \in 1..MaxLogins, Session!Login(t)
      PROVE  Session!SessionType'
  BY <1>2 DEF Session!Login
<1>3. CASE Session!Hour
  <2>1. \A t \in 1..MaxLogins : age[t] \in 0..Life + 1
    OBVIOUS
  <2>2. \A t \in 1..MaxLogins :
           (IF t \in sessions /\ age[t] <= Life THEN age[t] + 1 ELSE age[t]) \in 0..Life + 1
    BY <2>1
  <2> QED
    BY <1>3, <2>2 DEF Session!Hour
<1> QED
  BY <1>1, <1>2, <1>3 DEF Session!Logout, Session!Cleanup, Session!ForgetSessions

\* A page that was just opened.
LEMMA InitPageInv == PageInit => PageInv
<1> SUFFICES ASSUME PageInit
             PROVE  PageInv
  OBVIOUS
<1>1. calls = <<>> /\ timers = {} /\ calls \in Seq(Calls) /\ Len(calls) = 0 /\ DOMAIN calls = {}
  BY EmptySeq DEF PageInit
<1>2. PageTypeOK
  <2>1. MaxCalls \in Nat /\ MaxLogins \in Nat /\ Life \in Nat
    BY PageAssumption
  <2>2. Session!SessionType
    BY <2>1 DEF PageInit, Session!SessionInit, Session!SessionType
  <2>3. view \in [Batches -> {Job!Unknown, Job!NotFound} \cup Job!InProgress \cup Job!Final]
    BY DEF PageInit, Job!Init
  <2>4. /\ logins \in 0..MaxLogins /\ token \in 0..logins /\ leaving \in 0..logins
        /\ by \in [Analyses -> 0..logins]
    BY <2>1 DEF PageInit
  <2>5. post \in [Analyses -> Places]
    BY DEF PageInit, Places
  <2>6. /\ loading \in BOOLEAN /\ recorded \subseteq Batches
        /\ awaited \in Analyses \cup {None} /\ timers \subseteq Batches
        /\ ref \in timers \cup {None}
    BY DEF PageInit
  <2>7. Len(calls) <= MaxCalls
    BY <1>1, <2>1
  <2> QED
    BY <1>1, <2>2, <2>3, <2>4, <2>5, <2>6, <2>7 DEF PageTypeOK
<1>3. ButtonInv
  BY DEF PageInit, ButtonInv
<1>4. \A b \in Batches : ~Polled(b)
  BY <1>1 DEF Polled
<1>5. StartedInv /\ RecordedInv
  BY <1>1, <1>4 DEF PageInit, StartedInv, RecordedInv, Job!Init, Analyses
<1> QED
  BY <1>2, <1>3, <1>5 DEF PageInv

\* What only the server does leaves the page as it is.
LEMMA ServerOnlyInv ==
    ASSUME PageInv, ServerOnly, [Job!Next]_view, Session!SessionType',
           \A b \in Batches : view[b] = Job!Unknown => view'[b] = Job!Unknown
    PROVE  PageInv'
<1> USE DEF ServerOnly, user, shown, poll
<1>1. view \in Views
  BY DEF PageInv, PageTypeOK, Views
<1>2. /\ view' \in Views
      /\ \A b \in Batches : view[b] # Job!Unknown => view'[b] # Job!Unknown
      /\ \A b \in Batches : view[b] \in {Job!Done, Job!NotFound}
                                    => view'[b] \in {Job!Done, Job!NotFound}
  BY <1>1, ViewSteps
<1>3. PageTypeOK'
  BY <1>2 DEF PageInv, PageTypeOK, Views
<1>4. ButtonInv'
  BY DEF PageInv, ButtonInv, Coming
<1>5. StartedInv'
  BY <1>2 DEF PageInv, StartedInv, Polled
<1>6. RecordedInv'
  BY <1>2 DEF PageInv, RecordedInv
<1> QED
  BY <1>3, <1>4, <1>5, <1>6 DEF PageInv

\* Time, the sweep of the sessions, a restart and a job that settles.
LEMMA ServerInv ==
    ASSUME PageAssumption, PageInv,
           TimePasses \/ Sweep \/ ServerRestart \/ \E b \in Batches : JobMoves(b)
    PROVE  PageInv'
<1>1. Session!SessionType /\ view \in Views
  BY DEF PageInv, PageTypeOK, Views
<1>2. CASE TimePasses \/ Sweep
  <2>1. Session!SessionType'
    BY <1>1, <1>2, SessionSteps DEF TimePasses, Sweep
  <2> QED
    BY <1>2, <2>1, ServerOnlyInv DEF TimePasses, Sweep
<1>3. CASE ServerRestart
  <2>1. Session!SessionType' /\ Job!Forget /\ ServerOnly
    BY <1>1, <1>3, SessionSteps DEF ServerRestart
  <2>2. \A b \in Batches : view[b] = Job!Unknown => view'[b] = Job!Unknown
    BY <2>1 DEF Job!Forget
  <2> QED
    BY <2>1, <2>2, ServerOnlyInv DEF Job!Next
<1>4. ASSUME NEW b \in Batches, JobMoves(b)
      PROVE  PageInv'
  <2>1. Session!SessionType' /\ Job!Settle(b) /\ ServerOnly
    BY <1>1, <1>4, SessionSteps DEF JobMoves
  <2>2. view[b] # Job!Unknown
    BY <2>1, StatusesDiffer DEF Job!Settle
  <2>3. \A c \in Batches : view[c] = Job!Unknown => view'[c] = Job!Unknown
    BY <1>1, <2>1, <2>2 DEF Job!Settle, Views
  <2> QED
    BY <2>1, <2>3, ServerOnlyInv DEF Job!Next
<1> QED
  BY <1>2, <1>3, <1>4

\* Nothing that clearBatchPoll leaves is polled that was not.
LEMMA ClearedPoll ==
    ASSUME PageAssumption, PageInv, clearBatchPoll
    PROVE  timers' \subseteq Batches /\ ref' \in timers' \cup {None} /\ timers' \subseteq timers
BY DEF PageInv, PageTypeOK, clearBatchPoll

\* Signing in and out: a new session has started nothing, one that is being
\* left is excepted, and a page that is signed out has no session.
LEMMA SignInInv ==
    ASSUME PageAssumption, PageInv, handleLogin \/ handleLogout \/ SignedOut
    PROVE  PageInv'
<1> USE DEF shown, poll
<1>1. /\ PageTypeOK /\ ButtonInv /\ StartedInv /\ RecordedInv
      /\ logins \in Nat /\ \A x \in Analyses : by[x] \in 0..logins
  BY DEF PageInv, PageTypeOK, PageAssumption
<1>2. CASE handleLogin
  <2>1. logins' = logins + 1 /\ logins' \in 1..MaxLogins /\ token' = logins'
    BY <1>1, <1>2 DEF handleLogin, PageAssumption, PageTypeOK
  <2>2. Session!SessionType'
    BY <1>1, <1>2, <2>1, SessionSteps DEF handleLogin, PageTypeOK
  <2>3. by \in [Analyses -> 0..logins']
    BY <1>1, <2>1 DEF PageTypeOK
  <2>4. /\ token' \in 0..logins' /\ leaving' \in 0..logins'
        /\ logins' \in 0..MaxLogins
    BY <1>1, <1>2, <2>1 DEF handleLogin, PageTypeOK
  <2>5. PageTypeOK'
    BY <1>1, <1>2, <2>2, <2>3, <2>4 DEF handleLogin, PageTypeOK
  <2>6. \A x \in Analyses : by'[x] # token'
    BY <1>1, <1>2, <2>1 DEF handleLogin
  <2>7. ButtonInv'
    BY <2>6 DEF ButtonInv
  <2>8. StartedInv' /\ RecordedInv'
    BY <1>1, <1>2 DEF handleLogin, StartedInv, RecordedInv, Polled
  <2> QED
    BY <2>5, <2>7, <2>8 DEF PageInv
<1>3. CASE handleLogout
  <2>1. /\ leaving' = token /\ token # 0 /\ clearBatchPoll /\ awaited' = None
        /\ UNCHANGED <<server, logins, token, post, by, loading, recorded, calls>>
    BY <1>3 DEF handleLogout
  <2>2. timers' \subseteq Batches /\ ref' \in timers' \cup {None} /\ timers' \subseteq timers
    BY <2>1, ClearedPoll
  <2>3. PageTypeOK'
    BY <1>1, <2>1, <2>2 DEF PageTypeOK, server, Session!SessionType
  <2>4. ButtonInv'
    BY <2>1 DEF ButtonInv
  <2>5. StartedInv' /\ RecordedInv'
    BY <1>1, <2>1, <2>2 DEF StartedInv, RecordedInv, Polled, server
  <2> QED
    BY <2>3, <2>4, <2>5 DEF PageInv
<1>4. CASE SignedOut
  <2>1. leaving' = 0 /\ token' = 0 /\ UNCHANGED <<view, logins, post, by, shown, poll>>
    BY <1>4 DEF SignedOut
  <2>2. leaving \in 1..MaxLogins
    BY <1>1, <1>4 DEF SignedOut, PageTypeOK, PageAssumption
  <2>3. Session!SessionType'
    BY <1>1, <1>4, <2>2, SessionSteps DEF SignedOut, PageTypeOK
  <2>4. PageTypeOK'
    BY <1>1, <2>1, <2>3 DEF PageTypeOK
  <2>5. ButtonInv'
    BY <1>1, <2>1 DEF ButtonInv, StartedInv
  <2>6. StartedInv' /\ RecordedInv'
    BY <1>1, <2>1 DEF StartedInv, RecordedInv, Polled
  <2> QED
    BY <2>4, <2>5, <2>6 DEF PageInv
<1> QED
  BY <1>2, <1>3, <1>4

\* Whoever has started an analysis is still waiting for it.
LEMMA StartInv ==
    ASSUME PageAssumption, PageInv, NEW x \in Analyses, analyze(x)
    PROVE  PageInv'
<1>1. /\ PageTypeOK /\ StartedInv /\ RecordedInv
      /\ logins \in Nat /\ token \in 0..logins /\ token # 0
      /\ post[x] = "new" /\ post' = [post EXCEPT ![x] = "sent"]
      /\ by' = [by EXCEPT ![x] = token] /\ loading' = TRUE /\ awaited' = x
      /\ clearBatchPoll /\ UNCHANGED <<server, user, recorded, calls>>
  BY DEF PageInv, PageTypeOK, PageAssumption, analyze, Goto
<1>2. timers' \subseteq Batches /\ ref' \in timers' \cup {None} /\ timers' \subseteq timers
  BY <1>1, ClearedPoll
<1>3. post' \in [Analyses -> Places] /\ by' \in [Analyses -> 0..logins]
  BY <1>1 DEF PageTypeOK, Places
<1>4. PageTypeOK'
  BY <1>1, <1>2, <1>3 DEF PageTypeOK, server, user, Session!SessionType
<1>5. Coming'
  BY <1>1 DEF Coming, PageTypeOK
<1>6. StartedInv' /\ RecordedInv'
  BY <1>1, <1>2
     DEF StartedInv, RecordedInv, Polled, server, PageTypeOK, Analyses
<1> QED
  BY <1>4, <1>5, <1>6 DEF PageInv, ButtonInv

\* A reply on its way is something to come.
LEMMA ReplyInv ==
    ASSUME PageAssumption, PageInv, NEW x \in Analyses, Reply(x)
    PROVE  PageInv'
<1> DEFINE replies == {"401", "failed", "accepted", "reading"}
<1>1. /\ PageTypeOK /\ StartedInv /\ RecordedInv /\ post[x] = "sent"
      /\ UNCHANGED <<sessions, age, user, by, shown, poll>>
      /\ \E to \in replies : Goto(x, "sent", to)
      /\ [Job!Give(x) /\ x \in Batches]_view
      /\ post'[x] = "accepted" => x \in Batches /\ Job!Give(x)
      /\ x \in Batches => post'[x] # "reading"
      /\ post'[x] \in replies
      /\ x \in Batches /\ post'[x] # "accepted" => UNCHANGED view
  BY DEF PageInv, PageTypeOK, PageAssumption, Reply, Arrive, Lost, Goto, server, Analyses
<1>2. /\ post' \in [Analyses -> Places]
      /\ \A y \in Analyses \ {x} : post'[y] = post[y]
  BY <1>1 DEF PageTypeOK, Places, Goto
<1>3. view \in Views
  BY <1>1 DEF PageTypeOK, Views
<1>4. [Job!Next]_view
  BY <1>1 DEF Job!Next
<1>5. /\ view' \in Views
      /\ \A b \in Batches : view[b] # Job!Unknown => view'[b] # Job!Unknown
      /\ \A b \in Batches : view[b] \in {Job!Done, Job!NotFound}
                               => view'[b] \in {Job!Done, Job!NotFound}
  BY <1>3, <1>4, ViewSteps
<1>6. PageTypeOK'
  BY <1>1, <1>2, <1>5 DEF PageTypeOK, Views, user, shown, poll, Session!SessionType
<1>7. Coming'
  BY <1>1 DEF Coming
<1>8. \A b \in Batches \ {x} : view'[b] = view[b]
  BY <1>1, <1>3 DEF Job!Give, Views
<1>9. post'[x] = "accepted" => view'[x] # Job!Unknown
  BY <1>1, <1>3, StatusesDiffer DEF Job!Give, Views
<1>10. StartedInv'
  BY <1>1, <1>2, <1>5, <1>8, <1>9 DEF StartedInv, Polled, poll, Analyses
<1>11. RecordedInv'
  BY <1>1, <1>5 DEF RecordedInv, poll, shown
<1> QED
  BY <1>6, <1>7, <1>10, <1>11 DEF PageInv, ButtonInv

\* A reply that ends the analysis and a stream that ends give the button back.
LEMMA OverInv ==
    ASSUME PageAssumption, PageInv, NEW x \in Analyses,
           Unauthorized(x) \/ Refused(x) \/ (x \in Streams /\ EndOfStream(x))
    PROVE  PageInv'
<1>1. /\ PageTypeOK /\ ButtonInv /\ StartedInv /\ RecordedInv
      /\ UNCHANGED <<server, logins, leaving, by, recorded, poll>>
      /\ token' \in {token, 0} /\ logins \in Nat
      /\ loading' = FALSE \/ (loading' = loading /\ token' = token /\ post[x] = "read")
      /\ awaited' \in {awaited, None}
      /\ post[x] \notin {"new", "sent"}
      /\ \E to \in {"read", "over"} : post' = [post EXCEPT ![x] = to]
      /\ x \in Batches => post[x] \in {"401", "failed"} /\ post'[x] = "over"
  BY DEF PageInv, PageTypeOK, PageAssumption, Unauthorized, Refused, EndOfStream, LastEvent,
         Close, Break, Goto, Ends, user, Analyses
<1>2. /\ post' \in [Analyses -> Places] /\ post'[x] \in {"read", "over"}
      /\ \A y \in Analyses \ {x} : post'[y] = post[y]
  BY <1>1 DEF PageTypeOK, Places
<1>3. PageTypeOK'
  <2>1. loading' \in BOOLEAN
    BY <1>1 DEF PageTypeOK
  <2>2. token' \in 0..logins' /\ awaited' \in Analyses \cup {None}
    BY <1>1 DEF PageTypeOK
  <2> QED
    BY <1>1, <1>2, <2>1, <2>2 DEF PageTypeOK, server, poll, Session!SessionType
<1>4. ButtonInv'
  <2>1. CASE loading' = FALSE
    BY <2>1 DEF ButtonInv
  <2>2. CASE loading' = loading /\ token' = token /\ post[x] = "read"
    <3>1. ASSUME Coming
          PROVE  Coming'
      BY <1>1, <1>2, <2>2, <3>1 DEF Coming, poll
    <3>2. ASSUME NEW y \in Analyses, post'[y] # "new" /\ by'[y] = token'
          PROVE  post[y] # "new" /\ by[y] = token
      BY <1>1, <1>2, <2>2, <3>2
    <3> QED
      BY <1>1, <2>2, <3>1, <3>2 DEF ButtonInv
  <2> QED
    BY <1>1, <2>1, <2>2
<1>5. StartedInv' /\ RecordedInv'
  BY <1>1, <1>2 DEF StartedInv, RecordedInv, Polled, poll, server, Analyses
<1> QED
  BY <1>3, <1>4, <1>5 DEF PageInv

\* An answer that is not there yet is none of those that count.
LEMMA CallsDistinct ==
    Pending \notin Final /\ "processing" \notin Final /\ "done" # Pending
BY DEF Pending, Final

\* A request that is sent leaves the others as they are.
LEMMA Requested ==
    ASSUME PageAssumption, PageInv, NEW b \in Batches, NEW first \in BOOLEAN, Request(b, first)
    PROVE  /\ calls' \in Seq(Calls) /\ Len(calls') <= MaxCalls
           /\ \A i \in DOMAIN calls : i \in DOMAIN calls' /\ calls'[i] = calls[i]
           /\ \A i \in DOMAIN calls' :
                 i \in DOMAIN calls \/ calls'[i] = [batch |-> b, first |-> first, answer |-> Pending]
           /\ \E i \in DOMAIN calls' : calls'[i] = [batch |-> b, first |-> first, answer |-> Pending]
<1> DEFINE call == [batch |-> b, first |-> first, answer |-> Pending]
<1>1. /\ calls \in Seq(Calls) /\ call \in Calls /\ MaxCalls \in Nat
      /\ Len(calls) < MaxCalls /\ calls' = Append(calls, call)
  BY DEF PageInv, PageTypeOK, PageAssumption, Request, Calls
<1> HIDE DEF call
<1>2. /\ Append(calls, call) \in Seq(Calls) /\ Len(Append(calls, call)) = Len(calls) + 1
      /\ DOMAIN Append(calls, call) = 1..(Len(calls) + 1)
      /\ \A j \in 1..Len(calls) : Append(calls, call)[j] = calls[j]
      /\ Append(calls, call)[Len(calls) + 1] = call
  BY <1>1, Appended
<1>3. Len(calls) \in Nat /\ DOMAIN calls = 1..Len(calls)
  BY <1>1, LenProperties
<1>4. /\ calls' \in Seq(Calls) /\ Len(calls') <= MaxCalls
      /\ \A i \in DOMAIN calls : i \in DOMAIN calls' /\ calls'[i] = calls[i]
      /\ \A i \in DOMAIN calls' : i \in DOMAIN calls \/ calls'[i] = call
      /\ \E i \in DOMAIN calls' : calls'[i] = call
  BY <1>1, <1>2, <1>3
<1> QED
  BY <1>4 DEF call

\* The first request of a poll.
LEMMA PollInv ==
    ASSUME PageAssumption, PageInv, NEW b \in Batches, pollBatch(b)
    PROVE  PageInv'
<1>1. /\ PageTypeOK /\ StartedInv /\ RecordedInv
      /\ post[b] = "accepted" /\ post' = [post EXCEPT ![b] = "over"]
      /\ clearBatchPoll /\ Request(b, TRUE)
      /\ UNCHANGED <<server, user, by, loading, recorded, awaited>>
      /\ b \in Analyses
  BY DEF PageInv, pollBatch, Goto, Analyses
<1>2. timers' \subseteq Batches /\ ref' \in timers' \cup {None} /\ timers' \subseteq timers
  BY <1>1, ClearedPoll
<1>3. /\ calls' \in Seq(Calls) /\ Len(calls') <= MaxCalls
      /\ \A i \in DOMAIN calls : i \in DOMAIN calls' /\ calls'[i] = calls[i]
      /\ \A i \in DOMAIN calls' :
            i \in DOMAIN calls \/ calls'[i] = [batch |-> b, first |-> TRUE, answer |-> Pending]
      /\ \E i \in DOMAIN calls' : calls'[i] = [batch |-> b, first |-> TRUE, answer |-> Pending]
  BY <1>1, Requested
<1>4. /\ post' \in [Analyses -> Places] /\ post'[b] = "over"
      /\ \A y \in Analyses \ {b} : post'[y] = post[y]
  BY <1>1 DEF PageTypeOK, Places
<1>5. PageTypeOK'
  BY <1>1, <1>2, <1>3, <1>4 DEF PageTypeOK, server, user, Session!SessionType
<1>6. Coming'
  BY <1>3 DEF Coming
<1>7. \A c \in Batches : Polled(c)' => Polled(c) \/ c = b
  BY <1>2, <1>3 DEF Polled
<1>8. StartedInv'
  BY <1>1, <1>4, <1>7 DEF StartedInv, server
<1>9. RecordedInv'
  BY <1>1, <1>3, CallsDistinct DEF RecordedInv, server
<1> QED
  BY <1>5, <1>6, <1>8, <1>9 DEF PageInv, ButtonInv

\* Another request of a running interval.
LEMMA FireInv ==
    ASSUME PageAssumption, PageInv, NEW b \in Batches, Fire(b)
    PROVE  PageInv'
<1>1. /\ PageTypeOK /\ ButtonInv /\ StartedInv /\ RecordedInv
      /\ b \in timers /\ Request(b, FALSE)
      /\ UNCHANGED <<server, user, post, by, shown, ref, timers>>
  BY DEF PageInv, Fire
<1>2. /\ calls' \in Seq(Calls) /\ Len(calls') <= MaxCalls
      /\ \A i \in DOMAIN calls : i \in DOMAIN calls' /\ calls'[i] = calls[i]
      /\ \A i \in DOMAIN calls' :
            i \in DOMAIN calls \/ calls'[i] = [batch |-> b, first |-> FALSE, answer |-> Pending]
  BY <1>1, Requested
<1>3. PageTypeOK'
  BY <1>1, <1>2 DEF PageTypeOK, server, user, shown, Session!SessionType
<1>4. Coming'
  BY <1>1 DEF Coming
<1>5. \A c \in Batches : Polled(c)' => Polled(c)
  BY <1>1, <1>2 DEF Polled
<1>6. StartedInv'
  BY <1>1, <1>5 DEF StartedInv, server
<1>7. RecordedInv'
  BY <1>1, <1>2, CallsDistinct DEF RecordedInv, server, shown
<1> QED
  BY <1>3, <1>4, <1>6, <1>7 DEF PageInv, ButtonInv

\* "done" is answered of a batch only when it is.
LEMMA AnswerInv ==
    ASSUME PageAssumption, PageInv, NEW i \in 1..MaxCalls, Answer(i) \/ NoAnswer(i)
    PROVE  PageInv'
<1>1. /\ PageTypeOK /\ ButtonInv /\ StartedInv /\ RecordedInv
      /\ calls \in Seq(Calls) /\ i \in DOMAIN calls /\ DOMAIN calls = 1..Len(calls)
      /\ \A j \in DOMAIN calls : calls[j] \in Calls
  BY LenProperties, ElementOfSeq DEF PageInv, PageTypeOK, Answer, NoAnswer, AnswerTo
<1>2. PICK answer \in {"processing"} \cup Final :
         /\ AnswerTo(i, answer)
         /\ answer = "done" => view[calls[i].batch] = Job!Done
  <2>1. CASE NoAnswer(i)
    BY <2>1 DEF NoAnswer, Final
  <2>2. CASE Answer(i) /\ view[calls[i].batch] \in Job!InProgress
    BY <2>2, StatusesDiffer DEF Answer, Final
  <2>3. CASE Answer(i) /\ view[calls[i].batch] = Job!Done
    BY <2>3, StatusesDiffer DEF Answer, Final
  <2>4. CASE Answer(i) /\ view[calls[i].batch] \notin Job!InProgress \cup {Job!Done}
    BY <2>4 DEF Answer, Final
  <2> QED
    BY <2>1, <2>2, <2>3, <2>4
<1>3. /\ calls' = [calls EXCEPT ![i].answer = answer]
      /\ UNCHANGED <<server, user, post, by, shown, ref, timers>>
  BY <1>2 DEF AnswerTo
<1>4. /\ DOMAIN calls' = DOMAIN calls /\ calls' \in Seq(Calls) /\ Len(calls') = Len(calls)
      /\ \A j \in DOMAIN calls \ {i} : calls'[j] = calls[j]
      /\ calls'[i].batch = calls[i].batch /\ calls'[i].first = calls[i].first
      /\ calls'[i].answer = answer
  <2>1. [calls[i] EXCEPT !.answer = answer] \in Calls
    BY <1>1, <1>2 DEF Calls
  <2>2. calls' = [calls EXCEPT ![i] = [calls[i] EXCEPT !.answer = answer]]
    BY <1>3
  <2>3. calls' \in Seq(Calls) /\ Len(calls') = Len(calls)
    BY <1>1, <2>1, <2>2, ExceptSeq
  <2> QED
    BY <1>1, <2>2, <2>3 DEF Calls
<1>5. PageTypeOK'
  BY <1>1, <1>3, <1>4 DEF PageTypeOK, server, user, shown, Session!SessionType
<1>6. Coming => Coming'
  BY <1>1, <1>3, <1>4 DEF Coming
<1>7. ButtonInv'
  BY <1>1, <1>3, <1>6 DEF ButtonInv, user, shown
<1>8. \A c \in Batches : Polled(c)' => Polled(c)
  BY <1>1, <1>3, <1>4 DEF Polled
<1>9. \A c \in Batches : Polled(c) => Polled(c)'
  BY <1>1, <1>3, <1>4 DEF Polled
<1>10. StartedInv'
  BY <1>1, <1>3, <1>8, <1>9 DEF StartedInv, server
<1>11. RecordedInv'
  BY <1>1, <1>2, <1>3, <1>4 DEF RecordedInv, server, shown
<1> QED
  BY <1>5, <1>7, <1>10, <1>11 DEF PageInv

\* The answer that is handled is the only request that goes; a first one
\* leaves an interval behind, and a final one gives the button back.
LEMMA HandleInv ==
    ASSUME PageAssumption, PageInv, NEW i \in 1..MaxCalls, Handle(i)
    PROVE  PageInv'
<1> DEFINE call == calls[i]
           b == call.batch
<1>1. /\ PageTypeOK /\ ButtonInv /\ StartedInv /\ RecordedInv
      /\ calls \in Seq(Calls) /\ i \in 1..Len(calls) /\ DOMAIN calls = 1..Len(calls)
      /\ \A j \in DOMAIN calls : calls[j] \in Calls
      /\ Len(calls) \in Nat /\ MaxCalls \in Nat /\ Len(calls) <= MaxCalls
  BY LenProperties, ElementOfSeq DEF PageInv, PageTypeOK, Handle, PageAssumption
<1>2. /\ call \in Calls /\ b \in Batches /\ call.first \in BOOLEAN
      /\ call.answer \in {"processing"} \cup Final
  <2>1. call \in Calls /\ call.answer # Pending
    BY <1>1 DEF Handle
  <2> QED
    BY <2>1 DEF Calls
<1>3. /\ Intervals(call) /\ Show(call) /\ calls' = RemoveAt(calls, i)
      /\ recorded' = IF call.answer = "done" THEN recorded \cup {b} ELSE recorded
      /\ awaited' \in {awaited, None}
      /\ UNCHANGED <<server, user, post, by>>
  BY DEF Handle, Ends
<1>4. /\ calls' \in Seq(Calls) /\ Len(calls') = Len(calls) - 1
      /\ DOMAIN calls' = 1..(Len(calls) - 1)
      /\ \A j \in 1..(Len(calls) - 1) : calls'[j] = IF j < i THEN calls[j] ELSE calls[j + 1]
  <2>1. /\ RemoveAt(calls, i) \in Seq(Calls) /\ Len(RemoveAt(calls, i)) = Len(calls) - 1
        /\ \A j \in 1..(Len(calls) - 1) :
              RemoveAt(calls, i)[j] = IF j < i THEN calls[j] ELSE calls[j + 1]
    BY <1>1, Removed
  <2>2. DOMAIN calls' = 1..Len(calls')
    BY <1>3, <2>1, LenProperties
  <2> QED
    BY <1>3, <2>1, <2>2
<1>5. \A j \in DOMAIN calls' : \E k \in DOMAIN calls : calls'[j] = calls[k]
  <2> SUFFICES ASSUME NEW j \in 1..(Len(calls) - 1)
               PROVE  \E k \in DOMAIN calls : calls'[j] = calls[k]
    BY <1>4
  <2>1. j \in DOMAIN calls /\ j + 1 \in DOMAIN calls
    BY <1>1
  <2> QED
    BY <1>4, <2>1
<1>6. \A j \in DOMAIN calls : j # i => \E k \in DOMAIN calls' : calls'[k] = calls[j]
  BY <1>1, <1>3, RemovedKeeps
<1> HIDE DEF call, b
<1>7. /\ timers' \subseteq timers \cup {b} /\ ref' \in timers' \cup {None}
      /\ call.answer \notin Final => timers \subseteq timers'
      /\ call.first => b \in timers'
  BY <1>1, <1>2, <1>3 DEF Intervals, PageTypeOK, b
<1>8. loading' \in BOOLEAN /\ (loading' => loading /\ call.answer \notin Final)
  BY <1>1, <1>3 DEF Show, PageTypeOK
<1>9. PageTypeOK'
  <2>1. /\ Len(calls') <= MaxCalls /\ timers' \subseteq Batches
        /\ recorded' \subseteq Batches /\ awaited' \in Analyses \cup {None}
    BY <1>1, <1>2, <1>3, <1>4, <1>7 DEF PageTypeOK
  <2> QED
    BY <1>1, <1>3, <1>4, <1>7, <1>8, <2>1
       DEF PageTypeOK, server, user, Session!SessionType
<1>10. ButtonInv'
  <2> SUFFICES ASSUME loading', leaving' = 0,
                      \E x \in Analyses : post'[x] # "new" /\ by'[x] = token'
               PROVE  Coming'
    BY DEF ButtonInv
  <2>1. call.answer \notin Final /\ timers \subseteq timers' /\ Coming
    BY <1>1, <1>3, <1>7, <1>8 DEF ButtonInv, user
  <2>2. CASE \E x \in Analyses : post[x] \in {"sent", "401", "failed", "accepted", "reading"}
    BY <1>3, <2>2 DEF Coming
  <2>3. CASE timers # {}
    BY <2>1, <2>3 DEF Coming
  <2>4. ASSUME NEW j \in DOMAIN calls, calls[j].first
        PROVE  Coming'
    <3>1. CASE j = i
      BY <1>7, <2>4, <3>1 DEF Coming, call
    <3>2. CASE j # i
      BY <1>6, <2>4, <3>2 DEF Coming
    <3> QED
      BY <3>1, <3>2
  <2> QED
    BY <2>1, <2>2, <2>3, <2>4 DEF Coming
<1>11. \A c \in Batches : Polled(c)' => Polled(c)
  BY <1>1, <1>5, <1>7 DEF Polled, call, b
<1>12. StartedInv'
  BY <1>1, <1>3, <1>11 DEF StartedInv, server
<1>13. RecordedInv'
  <2>1. call.answer = "done" => view[b] \in {Job!Done, Job!NotFound}
    BY <1>1, <1>2 DEF RecordedInv, call, b
  <2> QED
    BY <1>1, <1>3, <1>5, <2>1 DEF RecordedInv, server
<1> QED
  BY <1>9, <1>10, <1>12, <1>13 DEF PageInv

\* Every step keeps the invariant.
LEMMA NextPageInv ==
    ASSUME PageAssumption, PageInv, [PageNext]_pageVars
    PROVE  PageInv'
<1>1. CASE UNCHANGED pageVars
  BY <1>1
     DEF pageVars, server, user, shown, poll, PageInv, PageTypeOK, ButtonInv, StartedInv,
         RecordedInv, Coming, Polled, Session!SessionType
<1>2. CASE handleLogin \/ handleLogout \/ SignedOut
  BY <1>2, SignInInv
<1>3. CASE TimePasses \/ Sweep \/ ServerRestart \/ \E b \in Batches : JobMoves(b)
  BY <1>3, ServerInv
<1>4. ASSUME NEW x \in Analyses, analyze(x) \/ Reply(x) \/ HandleReply(x)
      PROVE  PageInv'
  BY <1>4, StartInv, ReplyInv, OverInv, PollInv DEF HandleReply
<1>5. ASSUME NEW s \in Streams, EndOfStream(s)
      PROVE  PageInv'
  BY <1>5, OverInv DEF Analyses
<1>6. ASSUME NEW b \in Batches, Fire(b)
      PROVE  PageInv'
  BY <1>6, FireInv
<1>7. ASSUME NEW i \in 1..MaxCalls, Answer(i) \/ NoAnswer(i) \/ Handle(i)
      PROVE  PageInv'
  BY <1>7, AnswerInv, HandleInv
<1> QED
  BY <1>1, <1>2, <1>3, <1>4, <1>5, <1>6, <1>7 DEF PageNext

\* In every reachable state the types hold, only known batches are polled and
\* only finished ones are counted (onCostRecorded, App.jsx), and the Analyze
\* button is disabled only while something is to come that gives it back: for
\* any number of batches, streams, sign-ins and requests in flight.
THEOREM PageInvariant == PageSpec => []PageInv
<1>1. PageInit => PageInv
  BY InitPageInv
<1>2. PageInv /\ [PageNext]_pageVars => PageInv'
  BY NextPageInv, PageAssumption
<1> QED
  BY <1>1, <1>2, PTL DEF PageSpec

\* Whatever the page does, what it can be told of its batches changes only as
\* JobStatus allows; BatchJobs keeps to JobStatus on the server's side.
THEOREM PageKeepsStatus == PageSpec => JobsKeepStatus
<1>1. PageInit => Job!Init
  BY DEF PageInit
<1>2. [PageNext]_pageVars => [Job!Next]_view
  BY DEF PageNext, pageVars, server, handleLogin, handleLogout, SignedOut, TimePasses, Sweep,
         ServerRestart, ServerOnly, JobMoves, analyze, Reply, Arrive, Lost, HandleReply,
         Unauthorized, Refused, pollBatch, EndOfStream, LastEvent, Close, Break, Fire,
         Answer, NoAnswer, AnswerTo, Handle, Job!Next, Analyses
<1> QED
  BY <1>1, <1>2, PTL DEF PageSpec, JobsKeepStatus

\* No step makes a token valid that is not, unless it is issued by that step.
LEMMA RefusedAgain ==
    ASSUME PageAssumption, PageInv, [PageNext]_pageVars,
           NEW t \in 1..logins, ~Session!Valid(t)
    PROVE  ~Session!Valid(t)'
<1>1. /\ Session!SessionType /\ logins \in Nat /\ Life \in Nat
      /\ t \in 1..MaxLogins /\ age[t] \in 0..Life + 1
  BY DEF PageInv, PageTypeOK, PageAssumption, Session!SessionType
<1>2. ASSUME NEW dead, Session!Drop(dead)
      PROVE  ~Session!Valid(t)'
  BY <1>1, <1>2 DEF Session!Drop, Session!Valid
<1>3. CASE handleLogin
  <2>1. t # logins' /\ Session!Login(logins')
    BY <1>1, <1>3 DEF handleLogin
  <2> QED
    BY <1>1, <2>1 DEF Session!Login, Session!Valid, Session!SessionType
<1>4. CASE TimePasses
  BY <1>1, <1>4 DEF TimePasses, Session!Hour, Session!Valid
<1>5. CASE SignedOut \/ Sweep \/ ServerRestart
  BY <1>2, <1>5
     DEF SignedOut, Sweep, ServerRestart, Session!Logout, Session!Cleanup,
         Session!ForgetSessions, Session!Valid
<1>6. CASE UNCHANGED <<sessions, age>>
  BY <1>6 DEF Session!Valid
<1> QED
  BY <1>3, <1>4, <1>5, <1>6
     DEF PageNext, pageVars, server, handleLogout, JobMoves, analyze, Reply, Arrive, Lost,
         HandleReply, Unauthorized, Refused, pollBatch, EndOfStream, LastEvent, Close, Break,
         Fire, Answer, NoAnswer, AnswerTo, Handle

\* A token that Middleware (auth.go) refuses once is refused ever after: no
\* sign-in, sweep, restart or delay brings a session back.
THEOREM RefusedStaysRefused == PageSpec => RefusedForGood
<1>1. PageInv /\ [PageNext]_pageVars
        => [\A t \in 1..logins : ~Session!Valid(t) => ~Session!Valid(t)']_pageVars
  BY RefusedAgain, PageAssumption
<1> QED
  BY <1>1, PageInvariant, PTL DEF PageSpec, RefusedForGood

\* With a single batch clearBatchPoll and the ticks always find the interval.
LEMMA OneIntervalKept ==
    ASSUME PageAssumption, \A b, c \in Batches : b = c,
           PageInv, OneInterval, [PageNext]_pageVars
    PROVE  OneInterval'
<1>1. timers \subseteq Batches /\ timers \subseteq {ref}
  BY DEF PageInv, PageTypeOK, OneInterval
<1>2. CASE clearBatchPoll
  BY <1>1, <1>2 DEF clearBatchPoll, OneInterval
<1>3. CASE UNCHANGED <<ref, timers>>
  BY <1>1, <1>3 DEF OneInterval
<1>4. ASSUME NEW i \in 1..MaxCalls, Handle(i)
      PROVE  OneInterval'
  <2>1. calls \in Seq(Calls) /\ i \in DOMAIN calls
    BY <1>4 DEF PageInv, PageTypeOK, Handle
  <2>2. calls[i] \in Calls
    BY <2>1, ElementOfSeq, LenProperties
  <2>3. calls[i].batch \in Batches
    BY <2>2 DEF Calls
  <2>4. Intervals(calls[i])
    BY <1>4 DEF Handle
  <2> QED
    BY <1>1, <2>3, <2>4 DEF Intervals, OneInterval
<1> QED
  BY <1>2, <1>3, <1>4
     DEF PageNext, pageVars, poll, handleLogin, handleLogout, SignedOut, TimePasses, Sweep,
         ServerRestart, ServerOnly, JobMoves, analyze, Reply, Arrive, Lost, HandleReply,
         Unauthorized, Refused, pollBatch, EndOfStream, LastEvent, Close, Break, Fire,
         Answer, NoAnswer, AnswerTo

\* A page that runs one batch has one interval at most, the one that
\* batchPollRef holds (App.jsx pollBatch); with two batches TLC finds two
\* intervals (MCPageTwice.cfg).
THEOREM OneBatchOneInterval ==
    ASSUME \A b, c \in Batches : b = c
    PROVE  PageSpec => []OneInterval
<1>1. PageInit => OneInterval
  BY DEF PageInit, OneInterval
<1>2. PageInv /\ OneInterval /\ [PageNext]_pageVars => OneInterval'
  BY OneIntervalKept, PageAssumption
<1> QED
  BY <1>1, <1>2, PageInvariant, PTL DEF PageSpec
=============================================================================
