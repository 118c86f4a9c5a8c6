----------------------------- MODULE FetchOnce -----------------------------
(***************************************************************************)
(* What the per-run fetch cache (sources/run_cache.go) promises to the     *)
(* goroutines that share it: a memo table.  The first answer given for a   *)
(* key fixes the answer every other caller of that key gets, a failed      *)
(* fetch (an empty result) included.                                       *)
(***************************************************************************)
CONSTANTS
    Callers,    \* the (claim, provider) goroutines of one analysis run
    Keys,       \* cache keys, "kind:lower-cased query"
    Results,    \* what a fetch can return, the empty result among them
    NoEntry     \* the absence of a map entry

VARIABLES
    memo,       \* memo[k]: the result fixed for k, or NoEntry
    answer      \* answer[c]: <<k, v>> once c was answered, or NoEntry

memoVars == <<memo, answer>>

Init ==
    /\ memo = [k \in Keys |-> NoEntry]
    /\ answer = [c \in Callers |-> NoEntry]

Answer(c, k, v) ==
    /\ answer[c] = NoEntry
    /\ memo[k] \in {NoEntry, v}
    /\ memo' = [memo EXCEPT ![k] = v]
    /\ answer' = [answer EXCEPT ![c] = <<k, v>>]

Next == \E c \in Callers, k \in Keys, v \in Results : Answer(c, k, v)

Spec == Init /\ [][Next]_memoVars
=============================================================================
