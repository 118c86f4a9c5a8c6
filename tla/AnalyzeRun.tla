----------------------------- MODULE AnalyzeRun -----------------------------
(***************************************************************************)
(* An instant analysis (api/handler.go AnalyzeStream, and processSync when *)
(* streaming is FALSE): extraction and indexing, then one goroutine per    *)
(* claim that scores it, adds its tokens to the run's totals, stores its   *)
(* result and reports progress on a channel that the request handler       *)
(* drains; then the bill, the history and the final event.                 *)
(***************************************************************************)
EXTENDS Naturals, Sequences, SequencesExt, FiniteSets, FiniteSetsExt

CONSTANTS
    Claims,     \* the claims extracted from the document
    Tokens,     \* what a scoring call can use
    ExtractTok  \* what the extraction used

ASSUME RunAssumption ==
    /\ IsFiniteSet(Claims) /\ Claims # {}
    /\ Tokens \subseteq Nat \ {0} /\ ExtractTok \in Nat

Total == Cardinality(Claims)

VARIABLES
    streaming,  \* TRUE for AnalyzeStream, FALSE for processSync
    main,       \* where the request handler is
    expired,    \* the context ended: 180 seconds passed, or the client left
    pc,         \* pc[c]: where the goroutine of claim c is
    spent,      \* spent[c]: sr.InputTokens + sr.OutputTokens
    results,    \* results[c]: "none" until written
    total,      \* totalInput + totalOutput, guarded by mu
    recorded,   \* the Anthropic tokens in the usage recorder
    done,       \* the atomic counter
    n,          \* n[c]: what done.Add(1) returned to c
    channel,    \* progressCh, of capacity Total
    closed,     \* progressCh has been closed
    events,     \* the Done fields of the progress events sent
    billed      \* the run's CostBreakdown: totals and snapshot, or empty

claimVars == <<pc, spent, results, total, recorded, done, n, channel>>
vars == <<streaming, main, expired, claimVars, closed, events, billed>>

Verdicts == {"none", "scored", "unverifiable"}
NoBill == [total |-> 0, recorded |-> 0]

TypeOK ==
    /\ main \in {"extracting", "indexing", "draining", "billed", "finished", "error"}
    /\ {streaming, expired, closed} \subseteq BOOLEAN
    /\ pc \in [Claims -> {"unborn", "scoring", "scored", "added", "stored",
                          "counted", "exited"}]
    /\ spent \in [Claims -> Tokens \cup {0}]
    /\ results \in [Claims -> Verdicts]
    /\ total \in Nat /\ recorded \in Nat
    /\ done \in 0..Total /\ n \in [Claims -> 0..Total]
    /\ channel \in Seq(1..Total) /\ Len(channel) <= Total
    /\ events \in Seq(1..Total)
    /\ billed \in [total : Nat, recorded : Nat]

Init ==
    /\ streaming \in BOOLEAN
    /\ main = "extracting"
    /\ expired = FALSE /\ closed = FALSE
    /\ pc = [c \in Claims |-> "unborn"]
    /\ spent = [c \in Claims |-> 0]
    /\ results = [c \in Claims |-> "none"]
    /\ total = 0 /\ recorded = 0
    /\ done = 0 /\ n = [c \in Claims |-> 0]
    /\ channel = <<>> /\ events = <<>>
    /\ billed = NoBill

-----------------------------------------------------------------------------
(* The request handler up to the goroutines. *)

\* An error ends the request with an "error" event or a 500.
Abort ==
    /\ main \in {"extracting", "indexing"}
    /\ main' = "error"
    /\ UNCHANGED <<expired, claimVars, closed, events, billed>>

Extract ==
    /\ main = "extracting" /\ ~expired
    /\ main' = "indexing"
    /\ total' = ExtractTok
    /\ recorded' = ExtractTok
    /\ UNCHANGED <<expired, pc, spent, results, done, n, channel, closed, events,
                   billed>>

\* Sources are indexed: a fetch that fails leaves its sources out, not the run
\* (a document that cannot be embedded ends it, which is Abort).
Spawn ==
    /\ main = "indexing"
    /\ main' = "draining"
    /\ pc' = [c \in Claims |-> "scoring"]
    /\ UNCHANGED <<expired, spent, results, total, recorded, done, n, channel,
                   closed, events, billed>>

Expire ==
    /\ ~expired
    /\ expired' = TRUE
    /\ UNCHANGED <<streaming, main, claimVars, closed, events, billed>>

-----------------------------------------------------------------------------
(* The goroutine of a claim. *)

Goto(c, from, to) ==
    /\ pc[c] = from
    /\ pc' = [pc EXCEPT ![c] = to]
    /\ UNCHANGED <<main, expired, closed, events, billed>>

\* Score: the answer, its usage recorded under the recorder's lock.
Score(c) ==
    /\ ~expired
    /\ Goto(c, "scoring", "scored")
    /\ \E t \in Tokens :
          /\ spent' = [spent EXCEPT ![c] = t]
          /\ recorded' = recorded + t
    /\ UNCHANGED <<results, total, done, n, channel>>

\* Score returns an error: no tokens, and the verdict is fixed.
ScoreError(c) ==
    /\ Goto(c, "scoring", "scored")
    /\ UNCHANGED <<spent, results, total, recorded, done, n, channel>>

AddTokens(c) ==
    /\ Goto(c, "scored", "added")
    /\ total' = total + spent[c]
    /\ UNCHANGED <<spent, results, recorded, done, n, channel>>

StoreResult(c) ==
    /\ Goto(c, "added", "stored")
    /\ results' = [results EXCEPT ![c] = IF spent[c] = 0
                                         THEN "unverifiable" ELSE "scored"]
    /\ UNCHANGED <<spent, total, recorded, done, n, channel>>

\* done.Add(1).
Count(c) ==
    /\ streaming
    /\ Goto(c, "stored", "counted")
    /\ done' = done + 1
    /\ n' = [n EXCEPT ![c] = done + 1]
    /\ UNCHANGED <<spent, results, total, recorded, channel>>

\* Mutant of Send: a claim without an answer returns before it sends.
SendIfScored(c) ==
    /\ results[c] = "scored"
    /\ Goto(c, "counted", "exited")
    /\ Len(channel) < Total
    /\ channel' = Append(channel, n[c])
    /\ UNCHANGED <<spent, results, total, recorded, done, n>>

\* Mutant of Send: a second event, on a channel sized for one per claim.
SendTwice(c) ==
    /\ Goto(c, "counted", "exited")
    /\ Len(channel) < Total
    /\ channel' = channel \o <<n[c], n[c]>>
    /\ UNCHANGED <<spent, results, total, recorded, done, n>>

\* The send on the buffered channel, then the deferred wg.Done().
Send(c) ==
    /\ Goto(c, "counted", "exited")
    /\ Len(channel) < Total
    /\ channel' = Append(channel, n[c])
    /\ UNCHANGED <<spent, results, total, recorded, done, n>>

\* Mutant of Exit: a claim without an answer returns without wg.Done().
ExitIfScored(c) ==
    /\ ~streaming /\ results[c] = "scored"
    /\ Goto(c, "stored", "exited")
    /\ UNCHANGED <<spent, results, total, recorded, done, n, channel>>

\* processSync has no channel.
Exit(c) ==
    /\ ~streaming
    /\ Goto(c, "stored", "exited")
    /\ UNCHANGED <<spent, results, total, recorded, done, n, channel>>

-----------------------------------------------------------------------------
(* The end of the run. *)

AllExited == \A c \in Claims : pc[c] = "exited"

\* wg.Wait(), then close(progressCh) or processSync's next line.
CloseProgress ==
    /\ main = "draining" /\ ~closed
    /\ AllExited
    /\ closed' = TRUE
    /\ UNCHANGED <<main, expired, claimVars, events, billed>>

Drain ==
    /\ main = "draining" /\ channel # <<>>
    /\ events' = Append(events, Head(channel))
    /\ channel' = Tail(channel)
    /\ UNCHANGED <<main, expired, pc, spent, results, total, recorded, done, n,
                   closed, billed>>

\* Mutant of BillRun: the handler stops at the event of the last claim.
BillAtLastEvent ==
    /\ main = "draining"
    /\ IF streaming THEN Total \in ToSet(events) ELSE closed
    /\ billed' = [total |-> total, recorded |-> recorded]
    /\ main' = "billed"
    /\ UNCHANGED <<expired, claimVars, closed, events>>

\* Mutant of BillRun: the handler does not wait for the channel to close.
BillWhenEmpty ==
    /\ main = "draining" /\ channel = <<>>
    /\ billed' = [total |-> total, recorded |-> recorded]
    /\ main' = "billed"
    /\ UNCHANGED <<expired, claimVars, closed, events>>

\* The range loop ends; buildCostBreakdown from the totals and the recorder.
BillRun ==
    /\ main = "draining" /\ channel = <<>> /\ closed
    /\ billed' = [total |-> total, recorded |-> recorded]
    /\ main' = "billed"
    /\ UNCHANGED <<expired, claimVars, closed, events>>

\* persistRun, then the "done" event or the JSON response.
Finish ==
    /\ main = "billed"
    /\ main' = "finished"
    /\ UNCHANGED <<expired, claimVars, closed, events, billed>>

Claim(c) ==
    /\ \/ Score(c) \/ ScoreError(c) \/ AddTokens(c) \/ StoreResult(c)
       \/ Count(c) \/ Send(c) \/ Exit(c)
    /\ UNCHANGED streaming

Handler ==
    /\ \/ Abort \/ Extract \/ Spawn
       \/ CloseProgress \/ Drain \/ BillRun \/ Finish
    /\ UNCHANGED streaming

Stopped == main \in {"finished", "error"} /\ UNCHANGED vars

Next ==
    \/ Handler \/ Expire \/ Stopped
    \/ \E c \in Claims : Claim(c)

Spec == Init /\ [][Next]_vars

\* Goroutines run, and every call carries the context of 180 seconds.
FairSpec == Spec /\ WF_vars(Handler) /\ \A c \in Claims : WF_vars(Claim(c))

-----------------------------------------------------------------------------
(* Properties *)

SpentBy(claims) == MapThenSumSet(LAMBDA c : spent[c], claims)

\* The bill and the history are made from complete data: every claim has its
\* result, and the token totals added under mu agree with the recorder's, so
\* the cost and the API usage saved for a run describe the same calls.
BilledInFull ==
    main \in {"billed", "finished"} =>
        /\ \A c \in Claims : results[c] # "none"
        /\ billed.total = ExtractTok + SpentBy(Claims)
        /\ billed.recorded = billed.total

\* A goroutine never waits on the channel, so a client that reads slowly
\* holds up neither scoring nor the run's deadline.
SendersNeverBlock ==
    \A c \in Claims : pc[c] = "counted" => Len(channel) < Total

\* When the final event goes out every claim's progress has been reported,
\* each count once.
EveryClaimReported ==
    streaming /\ main \in {"billed", "finished"} =>
        Len(events) = Total /\ ToSet(events) = 1..Total

\* Progress events carry "claims scored so far" (types.go:131): a later event
\* never carries a smaller number.
ProgressInOrder ==
    \A i, j \in DOMAIN events : i < j => events[i] < events[j]

\* Every run ends, with a result or with an error.
RunEnds == <>(main \in {"finished", "error"})

-----------------------------------------------------------------------------
(* The inductive invariant. *)

Added == {c \in Claims : pc[c] \in {"added", "stored", "counted", "exited"}}
Counted == {c \in Claims : pc[c] \in {"counted", "exited"}}
Exited == {c \in Claims : pc[c] = "exited"}

\* The goroutines live between Spawn and the closing of the channel.
PhaseInv ==
    /\ \A c \in Claims :
          pc[c] = "unborn" <=> main \in {"extracting", "indexing", "error"}
    /\ closed => AllExited
    /\ main \in {"billed", "finished"} => closed /\ channel = <<>>

\* The counter has given every claim a number of its own, and the numbers of
\* the claims that have sent theirs are in the channel or out as events.
NumbersInv ==
    /\ \A c, d \in Counted : n[c] = n[d] => c = d
    /\ \A c \in Counted : n[c] \in 1..done
    /\ done = Cardinality(Counted)
    /\ Len(channel) + Len(events) = Cardinality(Exited)
    /\ ToSet(channel) \cup ToSet(events) = {n[c] : c \in Exited}

ProgressInv ==
    IF streaming THEN NumbersInv
    ELSE channel = <<>> /\ events = <<>> /\ \A c \in Claims : pc[c] # "counted"

\* mu's totals hold the tokens of the claims that have added theirs, the
\* recorder those of all that were answered.
TokensInv ==
    /\ \A c \in Claims : pc[c] \in {"unborn", "scoring"} => spent[c] = 0
    /\ \A c \in Claims :
          pc[c] \in {"stored", "counted", "exited"} => results[c] # "none"
    /\ main \notin {"extracting", "error"} =>
          /\ total = ExtractTok + SpentBy(Added)
          /\ recorded = ExtractTok + SpentBy(Claims)
    /\ main \in {"billed", "finished"} =>
          billed = [total |-> total, recorded |-> recorded]

RunInv == TypeOK /\ PhaseInv /\ ProgressInv /\ TokensInv
=============================================================================
