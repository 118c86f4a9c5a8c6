------------------------------ MODULE RunCache ------------------------------
(***************************************************************************)
(* RunCache.sourcesFor (sources/run_cache.go): the cache that deduplicates *)
(* the outbound requests of one analysis run.  Every (claim, provider)     *)
(* goroutine calls it once; concurrent callers of a key wait on a channel  *)
(* that the goroutine doing the fetch closes.  One action per section      *)
(* executed under c.mu, and one for the fetch, which runs without it.      *)
(***************************************************************************)
EXTENDS Naturals

CONSTANTS
    Callers,    \* the (claim, provider) goroutines of one analysis run
    Keys,       \* cache keys, "kind:lower-cased query"
    Results,    \* what a fetch can return
    Nil,        \* the empty result: a failed request or no hit
    NoEntry,    \* the absence of a map entry
    NoChan      \* the absence of an in-flight channel

ASSUME CacheAssumption ==
    /\ Nil \in Results
    /\ NoEntry \notin Results
    /\ NoChan \notin Callers

VARIABLES
    pc,         \* pc[c]: where caller c is in sourcesFor
    key,        \* key[c]: the key c asks for
    sources,    \* RunCache.sources
    inflight,   \* RunCache.inflight: the channel of k, named after its creator
    closed,     \* the channels that have been closed, as <<k, creator>>
    waitsOn,    \* waitsOn[c]: the creator of the channel c blocks on
    got,        \* got[c]: the local s of c, then what c returned
    led         \* the callers that executed fetch()

vars == <<pc, key, sources, inflight, closed, waitsOn, got, led>>

Locations == {"idle", "waiting", "woken", "fetching", "fetched", "returned"}

TypeOK ==
    /\ pc \in [Callers -> Locations]
    /\ key \in [Callers -> Keys]
    /\ sources \in [Keys -> Results \cup {NoEntry}]
    /\ inflight \in [Keys -> Callers \cup {NoChan}]
    /\ closed \subseteq Keys \X Callers
    /\ waitsOn \in [Callers -> Callers \cup {NoChan}]
    /\ got \in [Callers -> Results]
    /\ led \subseteq Callers

Init ==
    /\ pc = [c \in Callers |-> "idle"]
    /\ key \in [Callers -> Keys]
    /\ sources = [k \in Keys |-> NoEntry]
    /\ inflight = [k \in Keys |-> NoChan]
    /\ closed = {}
    /\ waitsOn = [c \in Callers |-> NoChan]
    /\ got = [c \in Callers |-> Nil]
    /\ led = {}

-----------------------------------------------------------------------------
(* The first critical section: hit, join a fetch in flight, or lead one. *)

Hit(c) ==
    /\ pc[c] = "idle"
    /\ sources[key[c]] # NoEntry
    /\ got' = [got EXCEPT ![c] = sources[key[c]]]
    /\ pc' = [pc EXCEPT ![c] = "returned"]
    /\ UNCHANGED <<key, sources, inflight, closed, waitsOn, led>>

Join(c) ==
    /\ pc[c] = "idle"
    /\ sources[key[c]] = NoEntry
    /\ inflight[key[c]] # NoChan
    /\ waitsOn' = [waitsOn EXCEPT ![c] = inflight[key[c]]]
    /\ pc' = [pc EXCEPT ![c] = "waiting"]
    /\ UNCHANGED <<key, sources, inflight, closed, got, led>>

\* Mutant of Lead: the in-flight map is not consulted.
LeadUnchecked(c) ==
    /\ pc[c] = "idle"
    /\ sources[key[c]] = NoEntry
    /\ inflight' = [inflight EXCEPT ![key[c]] = c]
    /\ led' = led \cup {c}
    /\ pc' = [pc EXCEPT ![c] = "fetching"]
    /\ UNCHANGED <<key, sources, closed, waitsOn, got>>

Lead(c) ==
    /\ pc[c] = "idle"
    /\ sources[key[c]] = NoEntry
    /\ inflight[key[c]] = NoChan
    /\ inflight' = [inflight EXCEPT ![key[c]] = c]
    /\ led' = led \cup {c}
    /\ pc' = [pc EXCEPT ![c] = "fetching"]
    /\ UNCHANGED <<key, sources, closed, waitsOn, got>>

-----------------------------------------------------------------------------
(* The leader: the fetch, outside the lock, then the section that publishes. *)

\* fetch(), such as fetchOpenAlexHTTP: what the provider answers, or Nil when
\* the request or the decoding of its answer fails.
Fetch(c) ==
    /\ pc[c] = "fetching"
    /\ \E r \in Results : got' = [got EXCEPT ![c] = r]
    /\ pc' = [pc EXCEPT ![c] = "fetched"]
    /\ UNCHANGED <<key, sources, inflight, closed, waitsOn, led>>

\* Mutant of Publish: a failed fetch is dropped instead of being remembered.
PublishSuccessOnly(c) ==
    /\ pc[c] = "fetched"
    /\ sources' = IF got[c] = Nil
                  THEN sources ELSE [sources EXCEPT ![key[c]] = got[c]]
    /\ inflight' = [inflight EXCEPT ![key[c]] = NoChan]
    /\ closed' = closed \cup {<<key[c], c>>}
    /\ pc' = [pc EXCEPT ![c] = "returned"]
    /\ UNCHANGED <<key, waitsOn, got, led>>

\* Mutant of Publish: the in-flight entry is not deleted.
PublishKeepsInflight(c) ==
    /\ pc[c] = "fetched"
    /\ sources' = [sources EXCEPT ![key[c]] = got[c]]
    /\ closed' = closed \cup {<<key[c], c>>}
    /\ pc' = [pc EXCEPT ![c] = "returned"]
    /\ UNCHANGED <<key, inflight, waitsOn, got, led>>

\* Mutant of Publish: the channel is never closed.
PublishWithoutClose(c) ==
    /\ pc[c] = "fetched"
    /\ sources' = [sources EXCEPT ![key[c]] = got[c]]
    /\ inflight' = [inflight EXCEPT ![key[c]] = NoChan]
    /\ pc' = [pc EXCEPT ![c] = "returned"]
    /\ UNCHANGED <<key, closed, waitsOn, got, led>>

Publish(c) ==
    /\ pc[c] = "fetched"
    /\ sources' = [sources EXCEPT ![key[c]] = got[c]]
    /\ inflight' = [inflight EXCEPT ![key[c]] = NoChan]
    /\ closed' = closed \cup {<<key[c], c>>}
    /\ pc' = [pc EXCEPT ![c] = "returned"]
    /\ UNCHANGED <<key, waitsOn, got, led>>

-----------------------------------------------------------------------------
(* A waiter: the receive on the channel, then the section that reads. *)

\* Mutant of Wake: the waiter does not block on the channel.
WakeEarly(c) ==
    /\ pc[c] = "waiting"
    /\ pc' = [pc EXCEPT ![c] = "woken"]
    /\ UNCHANGED <<key, sources, inflight, closed, waitsOn, got, led>>

Wake(c) ==
    /\ pc[c] = "waiting"
    /\ <<key[c], waitsOn[c]>> \in closed
    /\ pc' = [pc EXCEPT ![c] = "woken"]
    /\ UNCHANGED <<key, sources, inflight, closed, waitsOn, got, led>>

\* A Go map read of a missing key yields the empty slice.
ReadPublished(c) ==
    /\ pc[c] = "woken"
    /\ got' = [got EXCEPT ![c] = IF sources[key[c]] = NoEntry
                                 THEN Nil ELSE sources[key[c]]]
    /\ pc' = [pc EXCEPT ![c] = "returned"]
    /\ UNCHANGED <<key, sources, inflight, closed, waitsOn, led>>

-----------------------------------------------------------------------------

Step(c) ==
    \/ Hit(c) \/ Join(c) \/ Lead(c)
    \/ Fetch(c) \/ Publish(c)
    \/ Wake(c) \/ ReadPublished(c)

\* The run's wg.Wait() is over: nothing is left to do.
Finished ==
    /\ \A c \in Callers : pc[c] = "returned"
    /\ UNCHANGED vars

Next == (\E c \in Callers : Step(c)) \/ Finished

Spec == Init /\ [][Next]_vars

\* Goroutines are scheduled, and a fetch ends: its request carries the run's
\* context, which expires 180 seconds after the run began.
FairSpec == Spec /\ \A c \in Callers : WF_vars(Step(c))

-----------------------------------------------------------------------------
(* Properties *)

\* At most one fetch per key within a run, however the callers interleave
\* (run_cache.go "sourcesFor runs fetch once per key").
SingleFetch ==
    \A c, d \in led : key[c] = key[d] => c = d

\* Callers of one key all return the same result, whether they fetched,
\* waited or came later, and whether the fetch succeeded or failed.
Agreement ==
    \A c, d \in Callers :
        /\ pc[c] = "returned" /\ pc[d] = "returned"
        /\ key[c] = key[d]
        => got[c] = got[d]

\* A caller that came out of the channel finds the entry: it never mistakes
\* a map miss for an empty result.
WokenFindsEntry ==
    \A c \in Callers : pc[c] = "woken" => sources[key[c]] # NoEntry

\* Every call of sourcesFor returns: no waiter is left on a channel that
\* nobody will close.
EveryCallReturns == \A c \in Callers : <>(pc[c] = "returned")

\* The cache implements the memo table: an answer is given at the step in
\* which a caller returns.
Memo == INSTANCE FetchOnce WITH
    memo <- sources,
    answer <- [c \in Callers |-> IF pc[c] = "returned"
                                 THEN <<key[c], got[c]>> ELSE NoEntry]

ImplementsMemo == Memo!Spec

-----------------------------------------------------------------------------
(* The inductive invariant: what each location says of the shared maps. *)

Leading(c) == pc[c] \in {"fetching", "fetched"}

\* The channel of a key is open exactly while its creator is fetching.
InflightInv ==
    /\ \A k \in Keys : inflight[k] # NoChan =>
          Leading(inflight[k]) /\ key[inflight[k]] = k
    /\ \A c \in Callers : Leading(c) =>
          inflight[key[c]] = c /\ sources[key[c]] = NoEntry

\* A fetch belongs to a leader in flight, or its result has been published.
LedInv ==
    /\ \A c \in Callers : Leading(c) => c \in led
    /\ \A c \in led : Leading(c) \/ sources[key[c]] # NoEntry

\* A channel is closed only after the entry is in place, and a waiter holds
\* the channel of its key's leader, in flight or closed.
ChannelInv ==
    /\ \A ch \in closed : sources[ch[1]] # NoEntry
    /\ \A c \in Callers : pc[c] = "waiting" =>
          \/ inflight[key[c]] = waitsOn[c] /\ waitsOn[c] # NoChan
          \/ <<key[c], waitsOn[c]>> \in closed

\* Whoever returned returned the entry of its key.
ReturnedInv ==
    \A c \in Callers : pc[c] = "returned" =>
        /\ sources[key[c]] = got[c]
        /\ sources[key[c]] # NoEntry

IInv ==
    /\ TypeOK
    /\ SingleFetch
    /\ InflightInv
    /\ LedInv
    /\ ChannelInv
    /\ WokenFindsEntry
    /\ ReturnedInv
=============================================================================
