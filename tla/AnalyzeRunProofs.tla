-------------------------- MODULE AnalyzeRunProofs --------------------------
(***************************************************************************)
(* Proofs about AnalyzeRun, for any number of claims and any usage: the    *)
(* bill is made from complete data, no goroutine waits on the channel,     *)
(* every claim is reported once, and a run is never stuck and comes nearer *)
(* to its end with every step.                                             *)
(***************************************************************************)
EXTENDS AnalyzeRun, SumTheorems, SequenceTheorems

-----------------------------------------------------------------------------
(* What the steps of a goroutine rely on. *)

USE RunAssumption

\* TokensInv's two totals, as sums.
TotalsAdd ==
    main \notin {"extracting", "error"} =>
        /\ total = ExtractTok + Sum(spent, Added)
        /\ recorded = ExtractTok + Sum(spent, Claims)

\* TokensInv without them.
Settled ==
    /\ \A c \in Claims : pc[c] \in {"unborn", "scoring"} => spent[c] = 0
    /\ \A c \in Claims :
          pc[c] \in {"stored", "counted", "exited"} => results[c] # "none"
    /\ main \in {"billed", "finished"} =>
          billed = [total |-> total, recorded |-> recorded]

TokensParts == TokensInv <=> TotalsAdd /\ Settled

LEMMA TokensSplit == TokensParts
<1>1. \A S : SpentBy(S) = Sum(spent, S)
  BY DEF SpentBy, Sum
<1> QED
  BY <1>1 DEF TokensParts, TokensInv, TotalsAdd, Settled

\* The same of the next state.
LEMMA TokensSplitNext == TokensInv' <=> TotalsAdd' /\ Settled'
<1>1. TokensParts'
  BY TokensSplit, PTL
<1> QED
  BY <1>1 DEF TokensParts

\* The claims are counted in Nat, and so is every subset of them.
LEMMA ClaimSets ==
    ASSUME NEW S \in SUBSET Claims
    PROVE  IsFiniteSet(S) /\ Cardinality(S) \in Nat /\ Total \in Nat
<1>1. IsFiniteSet(S) /\ IsFiniteSet(Claims)
  BY FS_Subset
<1> QED
  BY <1>1, FS_CardinalityType DEF Total

LEMMA SpentIsNat ==
    ASSUME TypeOK
    PROVE  \A c \in Claims : spent[c] \in Nat
<1>1. spent \in [Claims -> Tokens \cup {0}]
  BY DEF TypeOK
<1>2. Tokens \cup {0} \subseteq Nat
  OBVIOUS
<1> QED
  BY <1>1, <1>2

\* What an element that is appended or taken changes in the set of elements.
LEMMA AppendedSet ==
    ASSUME NEW T, NEW s \in Seq(T), NEW x \in T
    PROVE  /\ Append(s, x) \in Seq(T) /\ Len(Append(s, x)) = Len(s) + 1
           /\ ToSet(Append(s, x)) = ToSet(s) \cup {x}
<1>1. /\ Append(s, x) \in Seq(T) /\ Len(Append(s, x)) = Len(s) + 1
      /\ \A i \in 1..Len(s) : Append(s, x)[i] = s[i]
      /\ Append(s, x)[Len(s) + 1] = x
  BY AppendProperties
<1>2. /\ Len(s) \in Nat /\ DOMAIN s = 1..Len(s)
      /\ DOMAIN Append(s, x) = 1..(Len(s) + 1)
  BY <1>1, LenProperties
<1>3. 1..(Len(s) + 1) = (1..Len(s)) \cup {Len(s) + 1}
  BY <1>2
<1> DEFINE a == Append(s, x)
<1> HIDE DEF a
<1>4. {a[i] : i \in (1..Len(s)) \cup {Len(s) + 1}} = {s[i] : i \in 1..Len(s)} \cup {x}
  BY <1>1 DEF a
<1> QED
  BY <1>1, <1>2, <1>3, <1>4 DEF a, ToSet

LEMMA TakenSet ==
    ASSUME NEW T, NEW s \in Seq(T), s # <<>>
    PROVE  /\ Head(s) \in T /\ Tail(s) \in Seq(T) /\ Len(Tail(s)) + 1 = Len(s)
           /\ ToSet(s) = {Head(s)} \cup ToSet(Tail(s))
<1>1. /\ Head(s) \in T /\ Tail(s) \in Seq(T) /\ Len(Tail(s)) = Len(s) - 1
      /\ \A i \in 1..Len(Tail(s)) : Tail(s)[i] = s[i + 1]
      /\ Head(s) = s[1]
  BY HeadTailProperties
<1>2. /\ Len(s) \in Nat \ {0} /\ DOMAIN s = 1..Len(s)
      /\ DOMAIN Tail(s) = 1..(Len(s) - 1)
  BY <1>1, LenProperties, EmptySeq
<1> DEFINE t == Tail(s)
<1> HIDE DEF t
<1>3. {s[i] : i \in 1..Len(s)} = {s[1]} \cup {t[i] : i \in 1..(Len(s) - 1)}
  <2>1. ASSUME NEW i \in 1..Len(s), i # 1
        PROVE  i - 1 \in 1..(Len(s) - 1) /\ s[i] = t[i - 1]
    BY <1>1, <1>2, <2>1 DEF t
  <2>2. ASSUME NEW i \in 1..(Len(s) - 1)
        PROVE  i + 1 \in 1..Len(s) /\ t[i] = s[i + 1]
    BY <1>1, <1>2 DEF t
  <2>3. 1 \in 1..Len(s)
    BY <1>2
  <2> QED
    BY <2>1, <2>2, <2>3
<1>4. Len(Tail(s)) + 1 = Len(s)
  BY <1>1, <1>2
<1>5. ToSet(s) = {s[i] : i \in 1..Len(s)} /\ ToSet(t) = {t[i] : i \in 1..(Len(s) - 1)}
  BY <1>2 DEF t, ToSet
<1> QED
  BY <1>1, <1>3, <1>4, <1>5 DEF t

\* A goroutine that runs does so while the handler drains the channel.
LEMMA Alive ==
    ASSUME TypeOK, PhaseInv, NEW c \in Claims, pc[c] \notin {"unborn", "exited"}
    PROVE  main = "draining" /\ ~closed
BY DEF TypeOK, PhaseInv, AllExited

\* A goroutine that goes on keeps the phase.
LEMMA PhaseFrame ==
    ASSUME TypeOK, PhaseInv, main = "draining", ~closed, UNCHANGED <<main, closed>>,
           NEW c \in Claims, pc[c] # "unborn", NEW to, to # "unborn",
           pc' = [pc EXCEPT ![c] = to]
    PROVE  PhaseInv'
<1>1. \A d \in Claims : pc[d] # "unborn"
  BY DEF PhaseInv
<1>2. \A d \in Claims : pc'[d] # "unborn"
  BY <1>1 DEF TypeOK
<1> QED
  BY <1>2 DEF PhaseInv

\* Claims that neither start nor end keep their numbers and their events.
LEMMA ProgressFrame ==
    ASSUME ProgressInv, UNCHANGED <<streaming, done, n, channel, events>>,
           Counted' = Counted, Exited' = Exited,
           \A c \in Claims : pc'[c] = "counted" => pc[c] = "counted"
    PROVE  ProgressInv'
<1>1. CASE streaming
  BY <1>1 DEF ProgressInv, NumbersInv
<1>2. CASE ~streaming
  BY <1>2 DEF ProgressInv
<1> QED
  BY <1>1, <1>2

\* Steps that add no tokens keep the totals.
LEMMA TotalsFrame ==
    ASSUME TotalsAdd, UNCHANGED <<spent, total, recorded>>, Added' = Added,
           main' \notin {"extracting", "error"} =>
               main \notin {"extracting", "error"}
    PROVE  TotalsAdd'
BY DEF TotalsAdd

-----------------------------------------------------------------------------
(* The steps of a goroutine preserve the invariant. *)

LEMMA ScoreInv ==
    ASSUME RunInv, NEW c \in Claims, Score(c), UNCHANGED streaming
    PROVE  RunInv'
<1> USE DEF Goto
<1>1. TypeOK /\ PhaseInv /\ ProgressInv /\ TotalsAdd /\ Settled
  BY TokensSplit DEF RunInv, TokensParts
<1>2. main = "draining" /\ ~closed
  BY <1>1, Alive DEF Score
<1>3. PICK t \in Tokens : spent' = [spent EXCEPT ![c] = t] /\ recorded' = recorded + t
  BY DEF Score
<1>4. Added' = Added /\ Counted' = Counted /\ Exited' = Exited
  BY <1>1 DEF Score, TypeOK, Added, Counted, Exited
<1>5. TypeOK'
  BY <1>1, <1>3 DEF Score, TypeOK
<1>6. PhaseInv'
  BY <1>1, <1>2, PhaseFrame DEF Score
<1>7. ProgressInv'
  BY <1>1, <1>4, ProgressFrame DEF Score, TypeOK
<1>8. Settled'
  BY <1>1, <1>2, <1>3 DEF Score, Settled, TypeOK
<1>9. TotalsAdd'
  <2>1. \A d \in Claims : spent[d] \in Nat
    BY <1>1, SpentIsNat
  <2>2. spent[c] = 0 /\ spent'[c] = t /\ \A d \in Claims \ {c} : spent'[d] = spent[d]
    BY <1>1, <1>3 DEF Score, Settled, TypeOK
  <2>3. Sum(spent', Claims) = Sum(spent, Claims) + t
    <3>1. t \in Nat
      OBVIOUS
    <3> HIDE DEF Score
    <3> QED
      BY <2>1, <2>2, <3>1, SumExcept
  <2>4. Sum(spent', Added) = Sum(spent, Added)
    <3>1. IsFiniteSet(Added) /\ \A d \in Added : d \in Claims \ {c}
      BY ClaimSets DEF Score, Added
    <3> QED
      BY <2>1, <2>2, <3>1, SumSame
  <2>5. Sum(spent, Claims) \in Nat
    BY <2>1, SumOfPicked
  <2>6. total = ExtractTok + Sum(spent, Added) /\ recorded = ExtractTok + Sum(spent, Claims)
    BY <1>1, <1>2 DEF TotalsAdd
  <2>7. total' = total /\ recorded' = recorded + t /\ t \in Nat
    BY <1>3 DEF Score
  <2>8. recorded' = ExtractTok + Sum(spent', Claims)
    BY <2>3, <2>5, <2>6, <2>7
  <2> QED
    BY <1>4, <2>4, <2>6, <2>7, <2>8 DEF TotalsAdd
<1> QED
  BY <1>5, <1>6, <1>7, <1>8, <1>9, TokensSplitNext DEF RunInv

LEMMA ScoreErrorInv ==
    ASSUME RunInv, NEW c \in Claims, ScoreError(c), UNCHANGED streaming
    PROVE  RunInv'
<1> USE DEF Goto, ScoreError
<1>1. TypeOK /\ PhaseInv /\ ProgressInv /\ TotalsAdd /\ Settled
  BY TokensSplit DEF RunInv, TokensParts
<1>2. main = "draining" /\ ~closed
  BY <1>1, Alive
<1>3. Added' = Added /\ Counted' = Counted /\ Exited' = Exited
  BY <1>1 DEF TypeOK, Added, Counted, Exited
<1>4. TypeOK'
  BY <1>1 DEF TypeOK
<1>5. PhaseInv'
  BY <1>1, <1>2, PhaseFrame
<1>6. ProgressInv'
  BY <1>1, <1>3, ProgressFrame DEF TypeOK
<1>7. Settled'
  BY <1>1, <1>2 DEF Settled, TypeOK
<1>8. TotalsAdd'
  BY <1>1, <1>3, TotalsFrame
<1> QED
  BY <1>4, <1>5, <1>6, <1>7, <1>8, TokensSplitNext DEF RunInv

LEMMA AddTokensInv ==
    ASSUME RunInv, NEW c \in Claims, AddTokens(c), UNCHANGED streaming
    PROVE  RunInv'
<1> USE DEF Goto, AddTokens
<1>1. TypeOK /\ PhaseInv /\ ProgressInv /\ TotalsAdd /\ Settled
  BY TokensSplit DEF RunInv, TokensParts
<1>2. main = "draining" /\ ~closed
  BY <1>1, Alive
<1>3. c \notin Added /\ Added' = Added \cup {c} /\ Counted' = Counted /\ Exited' = Exited
  BY <1>1 DEF TypeOK, Added, Counted, Exited
<1>4. \A d \in Claims : spent[d] \in Nat
  BY <1>1, SpentIsNat
<1>5. TypeOK'
  BY <1>1, <1>4 DEF TypeOK
<1>6. PhaseInv'
  BY <1>1, <1>2, PhaseFrame
<1>7. ProgressInv'
  BY <1>1, <1>3, ProgressFrame DEF TypeOK
<1>8. Settled'
  BY <1>1, <1>2 DEF Settled, TypeOK
<1>9. TotalsAdd'
  <2>1. IsFiniteSet(Added) /\ \A d \in Added : spent[d] \in Nat
    BY <1>4, ClaimSets DEF Added
  <2>2. Sum(spent, Added \cup {c}) = Sum(spent, Added) + spent[c]
    BY <1>3, <1>4, <2>1, SumWith
  <2>3. Sum(spent, Added) \in Nat /\ spent[c] \in Nat
    BY <1>4, <2>1, SumOfPicked
  <2>4. total = ExtractTok + Sum(spent, Added) /\ recorded = ExtractTok + Sum(spent, Claims)
    BY <1>1, <1>2 DEF TotalsAdd
  <2>5. total' = ExtractTok + Sum(spent, Added \cup {c})
    BY <2>2, <2>3, <2>4
  <2> QED
    BY <1>3, <2>4, <2>5 DEF TotalsAdd
<1> QED
  BY <1>5, <1>6, <1>7, <1>8, <1>9, TokensSplitNext DEF RunInv

LEMMA StoreResultInv ==
    ASSUME RunInv, NEW c \in Claims, StoreResult(c), UNCHANGED streaming
    PROVE  RunInv'
<1> USE DEF Goto, StoreResult
<1>1. TypeOK /\ PhaseInv /\ ProgressInv /\ TotalsAdd /\ Settled
  BY TokensSplit DEF RunInv, TokensParts
<1>2. main = "draining" /\ ~closed
  BY <1>1, Alive
<1>3. Added' = Added /\ Counted' = Counted /\ Exited' = Exited
  BY <1>1 DEF TypeOK, Added, Counted, Exited
<1>4. TypeOK'
  BY <1>1 DEF TypeOK, Verdicts
<1>5. PhaseInv'
  BY <1>1, <1>2, PhaseFrame
<1>6. ProgressInv'
  BY <1>1, <1>3, ProgressFrame DEF TypeOK
<1>7. Settled'
  BY <1>1, <1>2 DEF Settled, TypeOK
<1>8. TotalsAdd'
  BY <1>1, <1>3, TotalsFrame
<1> QED
  BY <1>4, <1>5, <1>6, <1>7, <1>8, TokensSplitNext DEF RunInv

\* The number that the counter gives is above those it has given.
LEMMA CountInv ==
    ASSUME RunInv, NEW c \in Claims, Count(c), UNCHANGED streaming
    PROVE  RunInv'
<1> USE DEF Goto, Count
<1>1. TypeOK /\ PhaseInv /\ NumbersInv /\ TotalsAdd /\ Settled
  BY TokensSplit DEF RunInv, TokensParts, ProgressInv
<1>2. main = "draining" /\ ~closed
  BY <1>1, Alive
<1>3. Added' = Added /\ Exited' = Exited /\ Counted' = Counted \cup {c} /\ c \notin Counted
  BY <1>1 DEF TypeOK, Added, Counted, Exited
<1>4. done \in Nat /\ done' = Cardinality(Counted') /\ done' <= Total
  <2>1. Counted \in SUBSET Claims /\ Counted' \in SUBSET Claims
    BY DEF Counted
  <2>2. Cardinality(Counted \cup {c}) = Cardinality(Counted) + 1
    BY <1>3, <2>1, ClaimSets, FS_AddElement
  <2>3. Cardinality(Counted') <= Total
    BY <2>1, FS_Subset DEF Total
  <2> QED
    BY <1>1, <1>3, <2>1, <2>2, <2>3, ClaimSets DEF NumbersInv
<1>5. done' \in 0..Total /\ n' \in [Claims -> 0..Total]
  <2>1. done + 1 \in 0..Total
    BY <1>4, ClaimSets
  <2> QED
    BY <1>1, <2>1 DEF TypeOK
<1>6. TypeOK'
  BY <1>1, <1>5 DEF TypeOK
<1>7. PhaseInv'
  BY <1>1, <1>2, PhaseFrame
<1>8. ProgressInv'
  <2>1. \A d \in Counted : n'[d] = n[d] /\ n[d] \in 1..done
    BY <1>1, <1>3 DEF NumbersInv, TypeOK, Counted
  <2>2. n'[c] = done + 1
    BY <1>1 DEF TypeOK
  <2>3. \A d, e \in Counted' : n'[d] = n'[e] => d = e
    <3>1. \A d, e \in Counted : n'[d] = n'[e] => d = e
      BY <1>1, <2>1 DEF NumbersInv
    <3>2. \A d \in Counted : n'[d] # n'[c]
      BY <1>4, <2>1, <2>2
    <3> QED
      BY <1>3, <3>1, <3>2
  <2>4. \A d \in Counted' : n'[d] \in 1..done'
    BY <1>3, <1>4, <2>1, <2>2
  <2>5. {n'[d] : d \in Exited'} = {n[d] : d \in Exited}
    BY <1>3, <2>1 DEF Exited, Counted
  <2> QED
    BY <1>1, <1>3, <1>4, <2>3, <2>4, <2>5 DEF ProgressInv, NumbersInv
<1>9. Settled'
  BY <1>1, <1>2 DEF Settled, TypeOK
<1>10. TotalsAdd'
  BY <1>1, <1>3, TotalsFrame
<1> QED
  BY <1>6, <1>7, <1>8, <1>9, <1>10, TokensSplitNext DEF RunInv

\* A number moves from its claim to the channel.
LEMMA SendInv ==
    ASSUME RunInv, NEW c \in Claims, Send(c), UNCHANGED streaming
    PROVE  RunInv'
<1> USE DEF Goto, Send
<1>1. TypeOK /\ PhaseInv /\ ProgressInv /\ TotalsAdd /\ Settled
  BY TokensSplit DEF RunInv, TokensParts
<1>2. main = "draining" /\ ~closed
  BY <1>1, Alive
<1>3. streaming /\ NumbersInv
  BY <1>1 DEF ProgressInv, TypeOK
<1>4. Added' = Added /\ Counted' = Counted /\ Exited' = Exited \cup {c}
      /\ c \in Counted \ Exited
  BY <1>1 DEF TypeOK, Added, Counted, Exited
<1>5. n[c] \in 1..Total /\ done \in 0..Total /\ Total \in Nat
  BY <1>1, <1>3, <1>4, ClaimSets DEF NumbersInv, TypeOK
<1>6. /\ channel' \in Seq(1..Total) /\ Len(channel') = Len(channel) + 1
      /\ ToSet(channel') = ToSet(channel) \cup {n[c]}
  <2>1. channel \in Seq(1..Total)
    BY <1>1 DEF TypeOK
  <2>2. channel' = Append(channel, n[c])
    OBVIOUS
  <2> QED
    BY <1>5, <2>1, <2>2, AppendedSet
<1>7. TypeOK'
  <2>1. Len(channel') <= Total
    BY <1>1, <1>5, <1>6 DEF TypeOK
  <2>2. /\ main' \in {"extracting", "indexing", "draining", "billed", "finished", "error"}
        /\ {streaming', expired', closed'} \subseteq BOOLEAN
        /\ pc' \in [Claims -> {"unborn", "scoring", "scored", "added", "stored",
                               "counted", "exited"}]
    BY <1>1 DEF TypeOK
  <2> QED
    BY <1>1, <1>6, <2>1, <2>2 DEF TypeOK
<1>8. PhaseInv'
  BY <1>1, <1>2, PhaseFrame
<1>9. ProgressInv'
  <2>1. Cardinality(Exited \cup {c}) = Cardinality(Exited) + 1
    BY <1>4, ClaimSets, FS_AddElement DEF Exited
  <2>2. Len(channel') + Len(events') = Cardinality(Exited')
    <3>1. Len(channel) \in Nat /\ Len(events) \in Nat
      BY <1>1 DEF TypeOK
    <3>2. Len(channel) + Len(events) = Cardinality(Exited)
      BY <1>3 DEF NumbersInv
    <3> QED
      BY <1>4, <1>6, <2>1, <3>1, <3>2
  <2>3. ToSet(channel') \cup ToSet(events') = {n'[d] : d \in Exited'}
    BY <1>3, <1>4, <1>6 DEF NumbersInv
  <2>4. done' = Cardinality(Counted')
    BY <1>3, <1>4 DEF NumbersInv
  <2>5. /\ \A d, e \in Counted' : n'[d] = n'[e] => d = e
        /\ \A d \in Counted' : n'[d] \in 1..done'
    BY <1>3, <1>4 DEF NumbersInv
  <2> QED
    BY <1>3, <2>2, <2>3, <2>4, <2>5 DEF ProgressInv, NumbersInv
<1>10. Settled'
  BY <1>1, <1>2 DEF Settled, TypeOK
<1>11. TotalsAdd'
  BY <1>1, <1>4, TotalsFrame
<1> QED
  BY <1>7, <1>8, <1>9, <1>10, <1>11, TokensSplitNext DEF RunInv

LEMMA ExitInv ==
    ASSUME RunInv, NEW c \in Claims, Exit(c), UNCHANGED streaming
    PROVE  RunInv'
<1> USE DEF Goto, Exit
<1>1. TypeOK /\ PhaseInv /\ ProgressInv /\ TotalsAdd /\ Settled
  BY TokensSplit DEF RunInv, TokensParts
<1>2. main = "draining" /\ ~closed
  BY <1>1, Alive
<1>3. Added' = Added
  BY <1>1 DEF TypeOK, Added
<1>4. TypeOK'
  BY <1>1 DEF TypeOK
<1>5. PhaseInv'
  BY <1>1, <1>2, PhaseFrame
<1>6. ProgressInv'
  BY <1>1 DEF ProgressInv, TypeOK
<1>7. Settled'
  BY <1>1, <1>2 DEF Settled, TypeOK
<1>8. TotalsAdd'
  BY <1>1, <1>3, TotalsFrame
<1> QED
  BY <1>4, <1>5, <1>6, <1>7, <1>8, TokensSplitNext DEF RunInv

-----------------------------------------------------------------------------
(* The steps of the handler preserve the invariant. *)

LEMMA InitRunInv ==
    ASSUME Init
    PROVE  RunInv
<1>1. Added = {} /\ Counted = {} /\ Exited = {}
  BY DEF Init, Added, Counted, Exited
<1>2. TypeOK
  <2>1. Total \in Nat /\ 0 \in 0..Total
    BY ClaimSets
  <2>2. channel \in Seq(1..Total) /\ events \in Seq(1..Total) /\ Len(channel) = 0
    BY DEF Init
  <2>3. billed \in [total : Nat, recorded : Nat]
    BY DEF Init, NoBill
  <2>4. streaming \in BOOLEAN /\ expired \in BOOLEAN /\ closed \in BOOLEAN
    BY DEF Init
  <2> QED
    BY <2>1, <2>2, <2>3, <2>4 DEF Init, TypeOK, Verdicts
<1>3. PhaseInv
  BY DEF Init, PhaseInv
<1>4. NumbersInv
  <2>1. ToSet(channel) = {} /\ ToSet(events) = {} /\ Len(channel) + Len(events) = 0
    BY DEF Init, ToSet
  <2> QED
    BY <1>1, <2>1, FS_EmptySet DEF Init, NumbersInv
<1>5. ProgressInv
  BY <1>4 DEF Init, ProgressInv
<1>6. TotalsAdd /\ Settled
  BY DEF Init, TotalsAdd, Settled
<1> QED
  BY <1>2, <1>3, <1>5, <1>6, TokensSplit DEF RunInv, TokensParts

\* The steps that move nothing but the handler itself.
LEMMA HandlerMoves ==
    ASSUME RunInv,
           Abort \/ CloseProgress \/ Finish,
           UNCHANGED streaming
    PROVE  RunInv'
<1>1. TypeOK /\ PhaseInv /\ ProgressInv /\ TotalsAdd /\ Settled
  BY TokensSplit DEF RunInv, TokensParts
<1>2. UNCHANGED <<expired, claimVars, events, billed, streaming>>
  BY DEF Abort, CloseProgress, Finish
<1>3. Added' = Added /\ Counted' = Counted /\ Exited' = Exited
  BY <1>2 DEF claimVars, Added, Counted, Exited
<1>4. TypeOK'
  BY <1>1, <1>2 DEF Abort, CloseProgress, Finish, TypeOK, claimVars
<1>5. PhaseInv'
  BY <1>1, <1>2 DEF Abort, CloseProgress, Finish, PhaseInv, AllExited, claimVars, TypeOK
<1>6. ProgressInv'
  BY <1>1, <1>2, <1>3, ProgressFrame DEF claimVars
<1>7. Settled'
  BY <1>1, <1>2 DEF Abort, CloseProgress, Finish, Settled, claimVars
<1>8. TotalsAdd'
  BY <1>1, <1>2, <1>3, TotalsFrame DEF Abort, CloseProgress, Finish, claimVars
<1> QED
  BY <1>4, <1>5, <1>6, <1>7, <1>8, TokensSplitNext DEF RunInv

LEMMA ExpireInv ==
    ASSUME RunInv, Expire
    PROVE  RunInv'
<1>1. TypeOK /\ PhaseInv /\ ProgressInv /\ TotalsAdd /\ Settled
  BY TokensSplit DEF RunInv, TokensParts
<1>2. UNCHANGED <<streaming, main, claimVars, closed, events, billed>> /\ expired' = TRUE
  BY DEF Expire
<1>3. Added' = Added /\ Counted' = Counted /\ Exited' = Exited
  BY <1>2 DEF claimVars, Added, Counted, Exited
<1>4. TypeOK'
  BY <1>1, <1>2 DEF TypeOK, claimVars
<1>5. PhaseInv'
  BY <1>1, <1>2 DEF PhaseInv, AllExited, claimVars
<1>6. ProgressInv'
  BY <1>1, <1>2, <1>3, ProgressFrame DEF claimVars
<1>7. Settled'
  BY <1>1, <1>2 DEF Settled, claimVars
<1>8. TotalsAdd'
  BY <1>1, <1>2, <1>3, TotalsFrame DEF claimVars
<1> QED
  BY <1>4, <1>5, <1>6, <1>7, <1>8, TokensSplitNext DEF RunInv

\* The totals start with what the extraction used: no claim has spent yet.
LEMMA ExtractInv ==
    ASSUME RunInv, Extract, UNCHANGED streaming
    PROVE  RunInv'
<1> USE DEF Extract
<1>1. TypeOK /\ PhaseInv /\ ProgressInv /\ TotalsAdd /\ Settled
  BY TokensSplit DEF RunInv, TokensParts
<1>2. \A c \in Claims : pc[c] = "unborn" /\ spent[c] = 0
  BY <1>1 DEF PhaseInv, Settled
<1>3. Added' = {} /\ Counted' = Counted /\ Exited' = Exited
  BY <1>2 DEF Added, Counted, Exited
<1>4. TypeOK'
  BY <1>1 DEF TypeOK
<1>5. PhaseInv'
  BY <1>1 DEF PhaseInv, AllExited
<1>6. ProgressInv'
  BY <1>1, <1>3, ProgressFrame
<1>7. Settled'
  BY <1>1 DEF Settled
<1>8. TotalsAdd'
  <2>1. Sum(spent, {}) = 0
    BY SumOfEmpty
  <2>2. Sum(spent, Claims) = 0
    BY <1>2, SumOfZeros
  <2>3. ExtractTok = ExtractTok + 0
    OBVIOUS
  <2> QED
    BY <1>3, <2>1, <2>2, <2>3 DEF TotalsAdd
<1> QED
  BY <1>4, <1>5, <1>6, <1>7, <1>8, TokensSplitNext DEF RunInv

LEMMA SpawnInv ==
    ASSUME RunInv, Spawn, UNCHANGED streaming
    PROVE  RunInv'
<1> USE DEF Spawn
<1>1. TypeOK /\ PhaseInv /\ ProgressInv /\ TotalsAdd /\ Settled
  BY TokensSplit DEF RunInv, TokensParts
<1>2. \A c \in Claims : pc[c] = "unborn" /\ pc'[c] = "scoring"
  BY <1>1 DEF PhaseInv
<1>3. Added' = Added /\ Counted' = Counted /\ Exited' = Exited
  BY <1>2 DEF Added, Counted, Exited
<1>4. TypeOK'
  BY <1>1 DEF TypeOK
<1>5. PhaseInv'
  <2>1. ~closed
    <3>1. \E c \in Claims : TRUE
      OBVIOUS
    <3> QED
      BY <1>1, <1>2, <3>1 DEF PhaseInv, AllExited
  <2> QED
    BY <1>1, <2>1 DEF PhaseInv, TypeOK
<1>6. ProgressInv'
  BY <1>1, <1>2, <1>3, ProgressFrame
<1>7. Settled'
  BY <1>1, <1>2 DEF Settled
<1>8. TotalsAdd'
  BY <1>1, <1>3, TotalsFrame
<1> QED
  BY <1>4, <1>5, <1>6, <1>7, <1>8, TokensSplitNext DEF RunInv

\* A number moves from the channel to the events.
LEMMA DrainInv ==
    ASSUME RunInv, Drain, UNCHANGED streaming
    PROVE  RunInv'
<1> USE DEF Drain
<1>1. TypeOK /\ PhaseInv /\ ProgressInv /\ TotalsAdd /\ Settled
  BY TokensSplit DEF RunInv, TokensParts
<1>2. streaming /\ NumbersInv
  BY <1>1 DEF ProgressInv, TypeOK
<1>3. Added' = Added /\ Counted' = Counted /\ Exited' = Exited
  BY DEF Added, Counted, Exited
<1>4. /\ channel \in Seq(1..Total) /\ events \in Seq(1..Total)
      /\ channel # <<>> /\ channel' = Tail(channel)
      /\ events' = Append(events, Head(channel))
  BY <1>1 DEF TypeOK
<1>5. /\ Head(channel) \in 1..Total /\ channel' \in Seq(1..Total)
      /\ Len(channel') + 1 = Len(channel)
      /\ ToSet(channel) = {Head(channel)} \cup ToSet(channel')
  <2>1. /\ Head(channel) \in 1..Total /\ Tail(channel) \in Seq(1..Total)
        /\ Len(Tail(channel)) + 1 = Len(channel)
        /\ ToSet(channel) = {Head(channel)} \cup ToSet(Tail(channel))
    <3> HIDE DEF Drain
    <3> QED
      BY <1>4, TakenSet
  <2> QED
    BY <1>4, <2>1
<1>6. /\ events' \in Seq(1..Total) /\ Len(events') = Len(events) + 1
      /\ ToSet(events') = ToSet(events) \cup {Head(channel)}
  BY <1>4, <1>5, AppendedSet
<1>7. /\ Len(channel) \in Nat /\ Len(channel') \in Nat /\ Len(events) \in Nat
      /\ Total \in Nat
  BY <1>4, <1>5, LenProperties, ClaimSets
<1>8. TypeOK'
  <2>1. Len(channel') <= Total
    BY <1>1, <1>5, <1>7 DEF TypeOK
  <2> QED
    BY <1>1, <1>5, <1>6, <2>1 DEF TypeOK
<1>9. PhaseInv'
  BY <1>1 DEF PhaseInv, AllExited
<1>10. ProgressInv'
  <2>1. Len(channel') + Len(events') = Len(channel) + Len(events)
    BY <1>5, <1>6, <1>7
  <2>2. ToSet(channel') \cup ToSet(events') = ToSet(channel) \cup ToSet(events)
    BY <1>5, <1>6
  <2> QED
    BY <1>2, <1>3, <2>1, <2>2 DEF ProgressInv, NumbersInv
<1>11. Settled'
  BY <1>1 DEF Settled
<1>12. TotalsAdd'
  BY <1>1, <1>3, TotalsFrame
<1> QED
  BY <1>8, <1>9, <1>10, <1>11, <1>12, TokensSplitNext DEF RunInv

LEMMA BillRunInv ==
    ASSUME RunInv, BillRun, UNCHANGED streaming
    PROVE  RunInv'
<1> USE DEF BillRun
<1>1. TypeOK /\ PhaseInv /\ ProgressInv /\ TotalsAdd /\ Settled
  BY TokensSplit DEF RunInv, TokensParts
<1>2. Added' = Added /\ Counted' = Counted /\ Exited' = Exited
  BY DEF claimVars, Added, Counted, Exited
<1>3. TypeOK'
  BY <1>1 DEF TypeOK, claimVars
<1>4. PhaseInv'
  BY <1>1 DEF PhaseInv, AllExited, claimVars
<1>5. ProgressInv'
  BY <1>1, <1>2, ProgressFrame DEF claimVars
<1>6. Settled'
  BY <1>1 DEF Settled, claimVars
<1>7. TotalsAdd'
  BY <1>1, <1>2, TotalsFrame DEF claimVars
<1> QED
  BY <1>3, <1>4, <1>5, <1>6, <1>7, TokensSplitNext DEF RunInv

LEMMA StutterInv ==
    ASSUME RunInv, UNCHANGED vars
    PROVE  RunInv'
<1>1. TypeOK /\ PhaseInv /\ ProgressInv /\ TotalsAdd /\ Settled
  BY TokensSplit DEF RunInv, TokensParts
<1> USE DEF vars, claimVars
<1>2. Added' = Added /\ Counted' = Counted /\ Exited' = Exited
  BY DEF Added, Counted, Exited
<1>3. TypeOK'
  BY <1>1 DEF TypeOK
<1>4. PhaseInv'
  BY <1>1 DEF PhaseInv, AllExited
<1>5. ProgressInv'
  BY <1>1, <1>2, ProgressFrame
<1>6. Settled'
  BY <1>1 DEF Settled
<1>7. TotalsAdd'
  BY <1>1, <1>2, TotalsFrame
<1> QED
  BY <1>3, <1>4, <1>5, <1>6, <1>7, TokensSplitNext DEF RunInv

-----------------------------------------------------------------------------
(* The theorems. *)

\* Every step of the handler, of a goroutine or of time keeps the invariant.
LEMMA RunStep ==
    ASSUME RunInv, [Next]_vars
    PROVE  RunInv'
<1>1. CASE Handler
  BY <1>1, HandlerMoves, ExtractInv, SpawnInv, DrainInv, BillRunInv DEF Handler
<1>2. CASE Expire
  BY <1>2, ExpireInv
<1>3. CASE Stopped
  BY <1>3, StutterInv DEF Stopped
<1>4. ASSUME NEW c \in Claims, Claim(c)
      PROVE  RunInv'
  BY <1>4, ScoreInv, ScoreErrorInv, AddTokensInv, StoreResultInv, CountInv,
     SendInv, ExitInv DEF Claim
<1>5. CASE UNCHANGED vars
  BY <1>5, StutterInv
<1> QED
  BY <1>1, <1>2, <1>3, <1>4, <1>5 DEF Next

\* RunInv is inductive: it holds of every run of any number of claims, however
\* their goroutines interleave and whenever the deadline comes.
THEOREM RunInvariant == Spec => []RunInv
<1>1. Init => RunInv
  BY InitRunInv
<1>2. RunInv /\ [Next]_vars => RunInv'
  BY RunStep
<1> QED
  BY <1>1, <1>2, PTL DEF Spec

\* No goroutine waits on the channel: the claims whose numbers are in it have
\* ended, and the one about to send has not.
THEOREM NoSenderBlocks == Spec => []SendersNeverBlock
<1>1. RunInv => SendersNeverBlock
  <2> SUFFICES ASSUME RunInv, NEW c \in Claims, pc[c] = "counted"
               PROVE  Len(channel) < Total
    BY DEF SendersNeverBlock
  <2>1. TypeOK /\ NumbersInv
    BY DEF RunInv, ProgressInv
  <2>2. Exited \in SUBSET Claims /\ Exited # Claims
    BY DEF Exited
  <2>3. Cardinality(Exited) < Total
    <3>1. Cardinality(Exited) <= Total /\ (Cardinality(Exited) = Total => Exited = Claims)
      BY <2>2, FS_Subset DEF Total
    <3> QED
      BY <2>2, <3>1, ClaimSets
  <2>4. Len(channel) \in Nat /\ Len(events) \in Nat
    BY <2>1 DEF TypeOK
  <2>5. Len(channel) + Len(events) = Cardinality(Exited)
    BY <2>1 DEF NumbersInv
  <2> QED
    BY <2>2, <2>3, <2>4, <2>5, ClaimSets
<1> QED
  BY <1>1, RunInvariant, PTL

\* At the final event every claim has been counted with a number of its own
\* from 1 to their number, so each number is out once.
THEOREM EveryClaimIsReported == Spec => []EveryClaimReported
<1>1. RunInv => EveryClaimReported
  <2> SUFFICES ASSUME RunInv, streaming, main \in {"billed", "finished"}
               PROVE  Len(events) = Total /\ ToSet(events) = 1..Total
    BY DEF EveryClaimReported
  <2>1. TypeOK /\ PhaseInv /\ NumbersInv
    BY DEF RunInv, ProgressInv
  <2>2. channel = <<>> /\ Exited = Claims /\ Counted = Claims
    BY <2>1 DEF PhaseInv, AllExited, Exited, Counted
  <2>3. Len(channel) = 0 /\ ToSet(channel) = {}
    BY <2>2 DEF ToSet
  <2>4. Len(events) = Total
    <3>1. Len(events) \in Nat /\ Len(channel) + Len(events) = Total
      BY <2>1, <2>2 DEF TypeOK, NumbersInv, Total
    <3> QED
      BY <2>3, <3>1
  <2>5. ToSet(events) = {n[c] : c \in Claims}
    BY <2>1, <2>2, <2>3 DEF NumbersInv
  <2>6. n \in [Claims -> 1..Total] /\ \A c, d \in Claims : n[c] = n[d] => c = d
    <3>1. done = Total
      BY <2>1, <2>2 DEF NumbersInv, Total
    <3> QED
      BY <2>1, <2>2, <3>1 DEF NumbersInv, TypeOK
  <2>7. {n[c] : c \in Claims} = 1..Total
    <3>1. n \in Injection(Claims, 1..Total)
      BY <2>6 DEF Injection, IsInjective
    <3>2. IsFiniteSet(1..Total) /\ Cardinality(1..Total) = Total
      BY ClaimSets, FS_Interval
    <3>3. n \in Surjection(Claims, 1..Total)
      BY <3>1, <3>2, FS_Injection DEF Total
    <3> QED
      BY <2>6, <3>3 DEF Surjection
  <2> QED
    BY <2>4, <2>5, <2>7
<1> QED
  BY <1>1, RunInvariant, PTL

\* The bill of a run is complete, and both of its totals agree: when it is
\* made every claim has ended, so every claim has added its tokens.
THEOREM BillIsComplete == Spec => []BilledInFull
<1>1. RunInv => BilledInFull
  <2> SUFFICES ASSUME RunInv, main \in {"billed", "finished"}
               PROVE  /\ \A c \in Claims : results[c] # "none"
                      /\ billed.total = ExtractTok + SpentBy(Claims)
                      /\ billed.recorded = billed.total
    BY DEF BilledInFull
  <2>1. PhaseInv /\ TokensInv
    BY DEF RunInv
  <2>2. \A c \in Claims : pc[c] = "exited"
    BY <2>1 DEF PhaseInv, AllExited
  <2>3. Added = Claims
    BY <2>2 DEF Added
  <2> QED
    BY <2>1, <2>2, <2>3 DEF TokensInv
<1> QED
  BY <1>1, RunInvariant, PTL

-----------------------------------------------------------------------------
(* Every run can go on and comes nearer to its end. *)

\* While a run has not ended, the guard of some step of its handler or of a
\* goroutine holds, without an answer of a provider: an error is a step too.
GoesOn ==
    main \notin {"finished", "error"} =>
        \/ main \in {"extracting", "indexing", "billed"}
        \/ main = "draining" /\ (channel # <<>> \/ closed \/ AllExited)
        \/ \E c \in Claims :
              \/ pc[c] \in {"scoring", "scored", "added", "stored"}
              \/ pc[c] = "counted" /\ Len(channel) < Total

\* RunInv leaves a run no way to be stuck: who drains an open channel has
\* goroutines that have not ended, and none of them waits to send.
THEOREM RunNeverStuck == Spec => []GoesOn
<1>1. RunInv /\ SendersNeverBlock => GoesOn
  <2> SUFFICES ASSUME RunInv, SendersNeverBlock, main = "draining", ~AllExited
               PROVE  \E c \in Claims :
                         \/ pc[c] \in {"scoring", "scored", "added", "stored"}
                         \/ pc[c] = "counted" /\ Len(channel) < Total
    BY DEF RunInv, TypeOK, GoesOn
  <2>1. PICK c \in Claims : pc[c] # "exited"
    BY DEF AllExited
  <2>2. pc[c] \in {"scoring", "scored", "added", "stored", "counted"}
    BY <2>1 DEF RunInv, TypeOK, PhaseInv
  <2> QED
    BY <2>2 DEF SendersNeverBlock
<1> QED
  BY <1>1, RunInvariant, NoSenderBlocks, PTL

\* The steps that a goroutine has left, its event in the channel included.
StepsOf(place) ==
    CASE place = "scored" -> 5 [] place = "added" -> 4 [] place = "stored" -> 3
      [] place = "counted" -> 2 [] place = "exited" -> 0 [] OTHER -> 6

ToDo == [c \in Claims |-> StepsOf(pc[c])]

Stage ==
    CASE main = "extracting" -> 4 [] main = "indexing" -> 3 [] main = "draining" -> 2
      [] main = "billed" -> 1 [] OTHER -> 0

\* Either is a step that a run takes at most once.
Once == (IF closed THEN 0 ELSE 1) + (IF expired THEN 0 ELSE 1)

\* A bound of the steps that a run has left.
StepsLeft == Sum(ToDo, Claims) + Len(channel) + Stage + Once

\* A goroutine's step lowers the sum by what it lowers its own number.
LEMMA LessToDo ==
    ASSUME TypeOK, NEW c \in Claims, NEW to, pc' = [pc EXCEPT ![c] = to]
    PROVE  /\ Sum(ToDo, Claims) \in Nat /\ Sum(ToDo', Claims) \in Nat
           /\ Sum(ToDo', Claims) + StepsOf(pc[c]) = Sum(ToDo, Claims) + StepsOf(to)
<1> DEFINE f == ToDo
           g == [d \in Claims |-> StepsOf(pc'[d])]
           R == Claims \ {c}
<1>1. \A place : StepsOf(place) \in Nat
  BY DEF StepsOf
<1>2. /\ \A d \in Claims : f[d] \in Nat /\ g[d] \in Nat
      /\ \A d \in R : g[d] = f[d]
      /\ f[c] = StepsOf(pc[c]) /\ g[c] = StepsOf(to)
      /\ IsFiniteSet(R) /\ IsFiniteSet(Claims)
  <2>1. IsFiniteSet(R)
    BY ClaimSets
  <2>2. \A d \in Claims : pc'[d] = IF d = c THEN to ELSE pc[d]
    BY DEF TypeOK
  <2>3. \A d \in Claims : f[d] = StepsOf(pc[d]) /\ g[d] = StepsOf(pc'[d])
    BY DEF ToDo
  <2> HIDE DEF f, g
  <2> QED
    BY <1>1, <2>1, <2>2, <2>3
<1>3. ToDo' = g
  BY DEF ToDo
<1> HIDE DEF f, g, R
<1>4. Sum(g, R) = Sum(f, R) /\ Sum(f, R) \in Nat
  <2>1. \A d \in R : d \in Claims
    BY DEF R
  <2>2. Sum(g, R) = Sum(f, R)
    BY <1>2, <2>1, SumSame
  <2>3. Sum(f, R) \in Nat
    BY <1>2, <2>1, SumOfPicked
  <2> QED
    BY <2>2, <2>3
<1>5. Sum(f, Claims) = f[c] + Sum(f, Claims \ {c}) /\ Sum(g, Claims) = g[c] + Sum(g, Claims \ {c})
  BY <1>2, SumWithout
<1>6. Sum(f, Claims) = f[c] + Sum(f, R) /\ Sum(g, Claims) = g[c] + Sum(g, R)
  BY <1>5 DEF R
<1>7. f[c] \in Nat /\ g[c] \in Nat
  BY <1>2
<1>8. /\ Sum(f, Claims) \in Nat /\ Sum(g, Claims) \in Nat
      /\ Sum(g, Claims) + f[c] = Sum(f, Claims) + g[c]
  BY <1>4, <1>6, <1>7
<1> QED
  BY <1>2, <1>3, <1>8 DEF f

\* Everything that is counted is a natural number.
LEMMA StepsLeftIsNat ==
    ASSUME RunInv
    PROVE  /\ StepsLeft \in Nat /\ Sum(ToDo, Claims) \in Nat
           /\ Len(channel) \in Nat /\ Stage \in Nat /\ Once \in Nat
<1>1. \A c \in Claims : ToDo[c] \in Nat
  BY DEF ToDo, StepsOf
<1>2. Sum(ToDo, Claims) \in Nat
  BY <1>1, SumOfPicked
<1>3. Len(channel) \in Nat
  BY LenProperties DEF RunInv, TypeOK
<1>4. Stage \in Nat
  BY DEF Stage
<1>5. Once \in Nat
  BY DEF Once
<1> QED
  BY <1>2, <1>3, <1>4, <1>5 DEF StepsLeft

\* A step of a goroutine: only Send puts something into the channel, and it
\* takes off two.
LEMMA ClaimShortens ==
    ASSUME RunInv, NEW c \in Claims, Claim(c)
    PROVE  StepsLeft' < StepsLeft
<1>1. TypeOK /\ Stage' = Stage /\ Once' = Once /\ channel \in Seq(1..Total)
  BY DEF RunInv, TypeOK, Claim, Score, ScoreError, AddTokens, StoreResult, Count, Send, Exit,
         Goto, Stage, Once
<1>2. \E to : /\ pc' = [pc EXCEPT ![c] = to]
              /\ \/ StepsOf(to) < StepsOf(pc[c]) /\ channel' = channel
                 \/ StepsOf(to) = 0 /\ StepsOf(pc[c]) = 2 /\ Len(channel') = Len(channel) + 1
  <2>1. CASE Score(c) \/ ScoreError(c)
    <3>1. StepsOf("scored") < StepsOf("scoring")
      BY DEF StepsOf
    <3> QED
      BY <2>1, <3>1 DEF Score, ScoreError, Goto
  <2>2. CASE AddTokens(c)
    <3>1. StepsOf("added") < StepsOf("scored")
      BY DEF StepsOf
    <3> QED
      BY <2>2, <3>1 DEF AddTokens, Goto
  <2>3. CASE StoreResult(c)
    <3>1. StepsOf("stored") < StepsOf("added")
      BY DEF StepsOf
    <3> QED
      BY <2>3, <3>1 DEF StoreResult, Goto
  <2>4. CASE Count(c)
    <3>1. StepsOf("counted") < StepsOf("stored")
      BY DEF StepsOf
    <3> QED
      BY <2>4, <3>1 DEF Count, Goto
  <2>5. CASE Exit(c)
    <3>1. StepsOf("exited") < StepsOf("stored")
      BY DEF StepsOf
    <3> QED
      BY <2>5, <3>1 DEF Exit, Goto
  <2>6. CASE Send(c)
    <3>1. StepsOf("exited") = 0 /\ StepsOf("counted") = 2
      BY DEF StepsOf
    <3>2. c \in Counted /\ NumbersInv
      BY <2>6 DEF Send, Goto, Counted, RunInv, ProgressInv
    <3>3. done \in 0..Total /\ n[c] \in 1..done
      BY <1>1, <3>2 DEF NumbersInv, TypeOK
    <3>4. n[c] \in 1..Total
      BY <3>3, ClaimSets
    <3>5. Len(Append(channel, n[c])) = Len(channel) + 1
      BY <1>1, <3>4, AppendedSet
    <3> QED
      BY <2>6, <3>1, <3>5 DEF Send, Goto
  <2> QED
    BY <2>1, <2>2, <2>3, <2>4, <2>5, <2>6 DEF Claim
<1>3. PICK to : /\ pc' = [pc EXCEPT ![c] = to]
                /\ \/ StepsOf(to) < StepsOf(pc[c]) /\ channel' = channel
                   \/ StepsOf(to) = 0 /\ StepsOf(pc[c]) = 2 /\ Len(channel') = Len(channel) + 1
  BY <1>2
<1>4. /\ Sum(ToDo, Claims) \in Nat /\ Sum(ToDo', Claims) \in Nat
      /\ Sum(ToDo', Claims) + StepsOf(pc[c]) = Sum(ToDo, Claims) + StepsOf(to)
  BY <1>1, <1>3, LessToDo
<1>5. Len(channel) \in Nat /\ Stage \in Nat /\ Once \in Nat
  BY StepsLeftIsNat
<1>6. StepsOf(pc[c]) \in Nat /\ StepsOf(to) \in Nat
  BY DEF StepsOf
<1>7. StepsLeft' = Sum(ToDo', Claims) + Len(channel') + Stage + Once
  BY <1>1 DEF StepsLeft
<1>8. Sum(ToDo', Claims) + Len(channel') < Sum(ToDo, Claims) + Len(channel)
  BY <1>3, <1>4, <1>5, <1>6
<1>9. Len(channel') \in Nat
  BY <1>3, <1>5
<1> QED
  BY <1>4, <1>5, <1>7, <1>8, <1>9 DEF StepsLeft

\* A step of the handler, and the deadline.
LEMMA HandlerShortens ==
    ASSUME RunInv, Handler \/ Expire
    PROVE  StepsLeft' < StepsLeft
<1>1. ToDo' = ToDo
  <2>1. CASE Spawn
    <3>1. \A c \in Claims : StepsOf(pc'[c]) = StepsOf(pc[c])
      BY <2>1 DEF RunInv, PhaseInv, Spawn, StepsOf
    <3> QED
      BY <3>1 DEF ToDo
  <2> QED
    BY <2>1 DEF Handler, Abort, Extract, CloseProgress, Drain, BillRun, Finish, Expire,
                claimVars, ToDo
<1>2. \/ Len(channel') < Len(channel) /\ Stage' = Stage /\ Once' = Once
      \/ channel' = channel /\ Stage' < Stage /\ Once' = Once
      \/ channel' = channel /\ Stage' = Stage /\ Once' < Once
  <2>1. CASE Drain
    <3>1. channel \in Seq(1..Total)
      BY DEF RunInv, TypeOK
    <3>2. Len(Tail(channel)) + 1 = Len(channel) /\ Len(channel) \in Nat
      BY <2>1, <3>1, TakenSet, LenProperties DEF Drain
    <3>3. Len(Tail(channel)) \in Nat
      BY <2>1, <3>1, TakenSet, LenProperties DEF Drain
    <3>4. Len(channel') < Len(channel)
      BY <2>1, <3>2, <3>3 DEF Drain
    <3>5. Stage' = Stage /\ Once' = Once
      BY <2>1 DEF Drain, Stage, Once
    <3> QED
      BY <3>4, <3>5
  <2>2. CASE CloseProgress \/ Expire
    BY <2>2 DEF CloseProgress, Expire, claimVars, Stage, Once, RunInv, TypeOK
  <2>3. CASE Abort \/ Extract \/ Spawn \/ BillRun \/ Finish
    BY <2>3 DEF Abort, Extract, Spawn, BillRun, Finish, claimVars, Stage, Once
  <2> QED
    BY <2>1, <2>2, <2>3 DEF Handler
<1>3. /\ Sum(ToDo, Claims) \in Nat /\ Len(channel) \in Nat /\ Stage \in Nat /\ Once \in Nat
  BY StepsLeftIsNat
<1>4. Stage' \in Nat /\ Once' \in Nat
  BY DEF Stage, Once
<1>5. StepsLeft' = Sum(ToDo, Claims) + Len(channel') + Stage' + Once'
  BY <1>1 DEF StepsLeft
<1>6. Len(channel') \in Nat
  <2>1. RunInv'
    BY RunStep DEF Next
  <2> QED
    BY <2>1, LenProperties DEF RunInv, TypeOK
<1> QED
  BY <1>2, <1>3, <1>4, <1>5, <1>6 DEF StepsLeft

\* No goroutine has done anything yet.
LEMMA AllToDo == Init => StepsLeft = 6 * Total + 6
<1> SUFFICES ASSUME Init
             PROVE  StepsLeft = 6 * Total + 6
  OBVIOUS
<1>1. \A c \in Claims : ToDo[c] = 6
  BY DEF Init, ToDo, StepsOf
<1>2. Sum(ToDo, Claims) = 6 * Total
  BY <1>1, SumOfSame DEF Total
<1>3. Len(channel) = 0 /\ Stage = 4 /\ Once = 2
  BY DEF Init, Stage, Once
<1>4. Total \in Nat
  BY ClaimSets
<1> QED
  BY <1>2, <1>3, <1>4 DEF StepsLeft

\* A run is over after at most 6 * Total + 6 steps, whatever their order: every
\* step but the waiting of a run that has ended leaves it fewer.  With
\* RunNeverStuck, and as long as the goroutines are scheduled, it ends
\* (RunEnds).
THEOREM RunIsShort ==
    Spec => StepsLeft = 6 * Total + 6 /\ [][StepsLeft' < StepsLeft /\ StepsLeft \in Nat]_vars
<1>1. RunInv /\ [Next]_vars => [StepsLeft' < StepsLeft /\ StepsLeft \in Nat]_vars
  BY StepsLeftIsNat, ClaimShortens, HandlerShortens DEF Next, Stopped
<1> QED
  BY <1>1, AllToDo, RunInvariant, PTL DEF Spec
=============================================================================
