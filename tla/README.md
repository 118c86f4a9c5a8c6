# Claim Inspector: specifications, model checks and proofs

Claim Inspector takes a document, has a language model extract its claims,
gathers public sources for each of them, splits and indexes those sources, has
each claim scored against the passages retrieved for it, and keeps a history of
runs with their cost. A Go server (`backend/`) does the work; a React page
(`frontend/`) drives it. This directory holds TLA+ modules of the server's and
the page's stateful parts, TLC configurations that check them on small
instances, and theorems that TLAPS checks for every instance.

Paths in this file are relative to the repository; line numbers are those of
the commit beside which the modules are kept. `PROJECT.json` says for every
definition which lines it translates.

## 1. Inventory

| Component | Source | State | Operations | What is hard |
|---|---|---|---|---|
| Run cache | `sources/run_cache.go` | `sources`, `inflight`, `articles`, per run | `sourcesFor`, `wikiArticle`, `storeWikiArticle` | Callers of one key interleave; waiters block on a channel the leader closes |
| Source gathering | `sources/fetcher.go`, `sources/openalex.go`, `api/rag.go` | per-claim lists, `byURL` | `FetchAll`, `fetchWikipedia*`, merge, fall-back | Look-up, request and store are separate; copies arrive in any order |
| Chunking | `corpus/chunk.go` | the loop of `Split` | `Split`, `ChunkSource`, `Tokenize` | Boundary arithmetic; byte offsets |
| Index and embedding cache | `retrieval/index.go`, `store.go`, `voyage.go` | `Index.items`, one file per URL | `AddSources`, `indexOne`, `Load`, `Save`, `Retrieve` | One temporary name for concurrent runs; crashes in a write |
| Instant analysis | `api/handler.go` `AnalyzeStream`, `processSync` | totals, results, progress channel | extract, index, score, report, bill | Goroutine per claim, deadline, client that leaves |
| Batch analysis | `api/handler.go`, `batch/batch.go` | `jobStore`, polling goroutines | `submitBatch`, `pollBatch`, `BatchStatus`, `Poll`, `Results` | External service, restarts, lost replies, results in any order |
| Spending | `api/cost.go`, `usage/`, `pricing/`, `apilimits/` | recorder per run, totals in the store | `costLimitOK`, `buildCostBreakdown`, record | Every read of a total is a critical section of its own |
| Store | `store/store.go` | `Data` in memory, `history.json` | `AddRun`, `RenameRun`, `DeleteRun`, getters, `save` | Crash or error between steps, midnight, read-write lock |
| Ranking | `retrieval/index.go`, `lexical.go`, `embedder.go` | `Index.items` | `Retrieve` | Two signals of different scales, either of which may be missing |
| Sessions | `auth/auth.go` | token map | `Login`, `Valid`, `Logout`, clean-up | Expiry against the hourly clean-up; a restart forgets everybody |
| Page | `frontend/src/App.jsx` | React state, poll interval, token, a copy of the history | analyze, read the stream, poll, sign in and out, fetch, rename and delete past runs | Callbacks of an earlier batch or session run late; streams that break; a copy that is edited and replaced |
| Conversion | `convert/convert.go` | none | document to text | Pure input |
| Start | `cmd/server/main.go`, `envload/` | none | wiring, environment | – |

**Interactions.** The page calls `POST /estimate`, `POST /analyze`,
`POST /analyze/stream`, `GET /batch/:id` and the history endpoints. A request
handler converts the file, checks the cap against the store, extracts claims,
runs a goroutine per claim that gathers sources through the run's cache, hands
the merged sources to a new index (which shares the embedding cache directory
with all other runs), and scores the claims: in goroutines of its own for an
instant analysis, through the provider's batch service otherwise. Both ways end
in `persistRun`, which builds the bill from totals it reads from the store and
then adds run, cost and usage to that store, which writes the whole file.

**What makes each part correct.**

* Run cache: one fetch per key; everybody who asks gets the same answer; nobody
  is left waiting, and an empty answer is not a missing one.
* Gathering: the longest copy of a source that any claim kept is indexed.
* Chunking: nothing up to the overlap is lost between two passages; the loop ends.
* Embedding cache: a run ranks with vectors of the text it has, whatever the
  file holds.
* Instant analysis: the bill is made from the tokens of *all* scored claims;
  every claim is reported once; a run ends.
* Batch: the browser's answers never go backwards, a `done` job is in the
  history, verdicts belong to their claims, every job settles.
* Spending: free tiers are used once; the cap is overshot by a bounded amount.
* Store: the file is whole at any instant, what was acknowledged is in it, and
  deleting a run does not forget what it cost.
* Page: polling ends when the answer is final, and the button comes back; at rest
  the panel shows the history that the server has.
* Ranking: a passage that is better on both signals is not left out for a worse
  one; a claim that shares a term with the index is not sent back to the
  providers.
* Sessions: a token is accepted for a day at most and leaves the map.

The hazards are in `PROJECT.json`, each at its line with the properties that
look for it. Those without a property have a note: a failed run's usage, the
order of the history and the bytes of a cut character are departures shown by
configurations of their own (section 5); of a submission whose reply is lost no
text of the repository says what should happen; and the decoding of provider
answers, where PubMed's papers are lost, is not modelled.

## 2. Modules

`MCx.tla` extends `x.tla` with the model values' permutations and the constant
sets that a `.cfg` cannot write. `xProofs.tla` extends `x.tla` with theorems.
`SpendLedgerProofs` is also about `Admission`, `StoreProofs` about `StoreLock`, and
`GatherProofs` about `Retrieval`; `SpendLedgerProofs` also about `Pricing`.
`FetchProofs` is about requests whose answers come late and out of order, in `RunCache`,
`HistoryPanel` and `Page`, and `IndexOneProofs` about the two parts of
indexing one source, `ChunkSplit` and `CorpusCache`. Of modules that are extended
together, all but one prefix the usual names (`PanelInit`, `PageSpec`, `SplitSpec` and
so on). `SumTheorems` has lemmas about sums over finite sets.

### RunCache, FetchOnce — `RunCache.sourcesFor`

`FetchOnce` is the abstract memo table: in one atomic step a caller is answered
with the entry of its key, and an entry, once there, stays. `RunCache` has one action
per critical section of `sourcesFor`: the look-up (hit, join or lead), the
fetch, which runs without the lock, the publication (which writes the entry,
removes the in-flight record and closes the channel), the return, and the
re-read of a woken waiter. A channel is named after the goroutine that made it,
so that a later fetch of the same key is told apart from the one waited for.

### Gather, Retrieval — from the claims to their passages

`FetchAll` runs for every claim at once. Its Wikipedia path looks titles up in
the article cache, requests those that are missing in one request and stores
the reply article by article (only a longer body replaces one); its query
providers answer through `sourcesFor`, which is here the memo of `FetchOnce`
that `RunCache` implements. The relevance filter waits for all providers and may keep any
subset; what it keeps is merged into `byURL`, and the index is built
when all claims have merged. `Wanted` stands for routing and title search.

Then each claim retrieves. `Retrieval` translates the overlap of two bags of
terms, the hybrid score and the choice of the best `TopK`, with ties in any
order; a similarity is a given percentage, and none when the embedding of the
query failed. A claim that retrieves nothing fetches again *without* the cache
(`Refetch`).

### ChunkSplit — `corpus.Split`

One text, given by its length and the offsets of its blanks; a passage is a pair
of offsets; each iteration is a step. `Trimmed` says where a piece's ends are once blanks are
removed; a piece of blanks alone is skipped.

### CorpusCache — `indexOne` and `DiskCache` for one URL

Runs chunk the current text, load, hit or miss, embed, and save in the steps of
the system calls: create or truncate the temporary file, write, rename. A file is an
inode, so that a run that still holds the descriptor goes on writing to a file
another run has renamed; a rename may find nothing to move, or fail and leave the file where it is. `Garbage` is any content that is not one whole write,
and what does not parse is a miss. Between loads the article may change and
change back; the server may crash.

### SpendLedger, Admission, Pricing — cap, bill, totals

A request slot goes through the cap check, its estimate, the work that fills its recorder,
the read of the lifetime total, the read of the day's spend and `AddRun`. Money is counted
in units of one embedding token's price, so that all lines of a bill are natural
numbers. `fresh` says whether the stored daily bucket is today's. A run may fail
after using services, in which case its recorder is dropped. `Remaining` is
what the usage report shows as left of a free tier.

`Pricing` has the price of a run and the estimate made from the number of words
of its text, truncations included; the TLC instance takes its estimates and
usages from there. `Admission` adds a memory to the ledger: the estimate a
request was admitted with, and which requests were overtaken since by another
run's `AddRun`.

### Store, DurableStore — `store.go`

`Store` has the data in memory and the contents of the file and of its temporary
file. An operation changes memory, then goes through create, encode, close and
rename with the lock held; any of them may fail (the temporary file is removed,
memory keeps the change, the caller gets the error) and the server may crash between any
two, and restart from the file. `DurableStore` promises this much and no more:
the stored value changes atomically, to what some operation asked for, and
survives crashes. Every run costs one unit, so one number stands for the totals
`AddRun` moves together.

### StoreLock — the read-write lock

Go's `sync.RWMutex` (a waiting writer keeps new readers out) with the methods of
the store as clients: writers, getters that leave the daily bucket alone,
`GetDailyOpenAlexSpend`, which reads it, and `GetAPIUsageReport`, which compares its date,
renews it if need be while it only holds the lock for reading, and then reads it.

### BatchJobs, JobStatus — batch mode on the server

`submitBatch` up to registering the job and answering; the goroutine with the
poll loop, the collection of results, `persistRun` and the final job state;
`BatchStatus`, which changes nothing and is the operator of what it would
answer; restarts. The batch service is external: it ends batches, counts
successes, returns results in any order and may lose the reply to a submission.

`JobStatus` is what a browser that holds a batch id may rely on: progress only grows,
a final answer stays, only a restart makes the job unknown, and nobody is told
"processing" for ever. `BatchJobs` is checked to implement it, under the mapping that
takes the answer of `BatchStatus` to each id the browser was given.

### AnalyzeRun — an instant analysis

The handler's phases, a goroutine per claim (score, add tokens, store the
result, count, send, exit), the progress channel with its capacity, the
goroutine that closes it, the deadline. `streaming` chooses `AnalyzeStream`
or `processSync`, which waits without a channel.

### Sessions — `auth/auth.go`

One action per critical section of the token map. Time is the age of a session
in periods of the sweep; `Valid` and the sweep compare in opposite directions,
so that at the very instant of expiry a session is neither valid nor swept.

### Page — `App.jsx` with the sessions and the jobs of the server

JavaScript is single threaded, so an action is the code between two awaits:
`analyze` up to its request, what follows its answer, the last event of a
stream and its end, a tick of `pollBatch` before and after its await, the
interval, signing in, and the two halves of signing out. Several polls may be in
flight, as the interval does not wait for answers. `by[x]` is the token captured
in the closures of analysis `x`, which a sign-out does not change.

The server is not a free environment: tokens are those of `Sessions`, answers to polls
those of `JobStatus`, and a restart loses both. Requests and
answers may be lost. The answers of an old tick and the
expiry of the token in the middle of a batch come out of this composition.

### HistoryPanel — the panel of past runs

The page's copy of the history: fetched when the panel opens without one and when a run is
recorded while it is open, forgotten when a run is recorded while it is closed,
and edited in place after a deletion or a renaming. The server's history is the
other half of the state. Requests and answers are sequences from which any
element may be taken next; `failed` and `overtaken` remember that one was lost
or came out of turn. `broken` is an exception while rendering.

## 3. What the runs show

Unless said otherwise a run passes. A *violation* run checks one statement quoted
from the repository, and TLC shows how the code departs from it (section 5). The
configurations that no row names (`MCStoreOrder.cfg` and so on) show the other
departures and are listed there too; with `-continue` TLC reports all of those that
one of them states.

Where a module's safety is proved, its run also checks the inductive invariant of
the proof (`IInv`, `LedgerInv`, `StoreInv`, `BatchInv`, `RunInv`, `GatherInv`,
`CorpusInv`, `PanelInv`, `PageInv`), whose first part is the type invariant.

| Run | Question | Bounds, and why they are enough |
|---|---|---|
| RunCache | One fetch per key, the inductive invariant; every call returns; refinement of `FetchOnce` | 4 callers, 2 keys, a value and the empty result: a leader, two waiters and a late caller on one key, or two keys in flight |
| SpendLedger | Voyage is never overbilled, and exactly billed unless runs overlap; the cap is overshot by a bounded amount, and not by a run that keeps to its estimate and is not overtaken | 3 slots, used again and again below the cap; the prices of the code, a text of 20 words and one of 60; free tiers that one run crosses; an estimate below the usage (the batch discount, for work done in instant mode); midnight at any time |
| Store | File whole, acknowledged data on disk, daily and total spend never forgotten; refinement of `DurableStore` | 2 callers, a history of 2 that a third run overflows, one midnight, crashes at any step without limit |
| StoreLockRace | *violation*: two usage reports assign the bucket at once | 2 goroutines: each enters a report, each finds yesterday's date |
| BatchJobs | Done is in the history, verdicts match claims; refinement of `JobStatus` | 2 jobs, so that one's save writes the other's run to disk; 2 claims, so that results can be swapped; 2 polls before the deadline, so that progress can grow; one restart |
| AnalyzeRun | Billed in full, no sender blocks, every claim reported once, a run ends; streamed or not | 3 claims, two token amounts, errors and the deadline at any step |
| Page | Polling ends; the button comes back, and is not disabled without something to come that gives it back; sessions leave the map | a batch and an instant analysis in either order, 3 polls in flight (two of the interval over a late one), 1 sign-in that expires, is signed out or forgotten. `MCPageAgain.cfg` is the same with 2 sign-ins and 2 polls and takes three minutes |
| PageLost | *violation*: polled until settled | 2 batches |
| HistoryPanel | At rest, an open panel shows the server's history, unless a request failed or an answer was overtaken | 2 runs, so that one is changed while the other finishes; 2 labels; 3 requests and answers under way: two changes and a fetch, or two fetches and a change |
| Gather | The article cache is not behind any copy a claim was given; the longest copy kept is indexed; no claim with a term in common is sent back; no better passage is left out | 2 claims that share one title and one query, one title of its own, one paper; bodies up to 2 with the indexing limit at 2, so that a copy may be too short; similarities below and above zero, the closest in terms being the least similar; 1 passage per claim |
| CorpusCache | Vectors belong to their texts; the cache file is damaged only by overlapping saves | 3 runs: two that save at once, a third that reads what they leave; 2 versions of the text |
| ChunkSplit | Facts up to the overlap are kept, the loop invariant (with it that passages fit), termination | texts of 0 to 10 bytes with every placing of blanks, size 4, overlap 2: no window, one, an exactly full one, four |

Symmetry is used where only safety is checked (`Store`, `SpendLedger`,
`CorpusCache`, `HistoryPanel`), over identical callers, slots and runs.

Every property of a passing run has a mutant: a plausible bug in one definition
under which TLC finds the property violated. Mutated definitions stand beside the
ones they replace and are marked as such.

`CHECK_DEADLOCK FALSE` is used where the modelled system really stops: all
batches of a bounded model are over, a page has used its sign-ins or is
unmounted, every run has indexed its source, the splitter has returned. `RunCache`, `SpendLedger`,
`Store` and `AnalyzeRun` are checked for deadlock.

### Fairness

* `RunCache`, `AnalyzeRun`: weak fairness of every goroutine's step. Go
  schedules every runnable goroutine, and requests end because clients and
  contexts have timeouts.
* `BatchJobs`: weak fairness of handler, poller and restart; none of the batch
  service or the browser. That every job settles (`Answered` in `JobStatus`)
  holds although the service may never end a batch, because the poll loop has a
  deadline.
* `Page`: the browser runs timers and callbacks; a request is answered or fails,
  and so is a stream read to its end (`RunEnds` of `AnalyzeRun`); jobs
  settle, which is `Answered` of `JobStatus`; the clock and the sweep go on. Nothing
  is assumed of the user, of what is answered, or of restarts. The fairness of
  polls is stated for the oldest one in flight, so that each has its turn.
* `ChunkSplit`: the loop runs on.

## 4. What is proved

All theorems hold for every value of the constants that satisfies the
assumptions named in the modules. Each invariance proof has the same course: the
initial states satisfy the inductive invariant, every action preserves it (a
lemma per action, or per group of actions that touch the same parts), and the
property follows from it.

**FetchProofs, the run cache.** From `CacheAssumption` (the empty result is a result; a
missing entry is none; "no channel" is no caller). `SingleFetch` is not
inductive: it does not say that a caller who finds no entry and no channel is
the only one. `IInv` adds that a channel is in the map exactly while its creator
fetches (`InflightInv`), that whoever led is still fetching or has published
(`LedInv`), that closed channels have entries and a waiter holds the channel of
its key's leader (`ChannelInv`), and that returned values are entries
(`ReturnedInv`). From it: `FetchOncePerKey`, `CallersAgree`, `WokenIsServed`,
and `CacheImplementsMemo`, the refinement of `FetchOnce`, in which the step that
publishes changes the memo, the step that returns answers, and all else stutters.
`NobodyIsStranded` says whom a waiter waits for: a caller that leads its key and waits for
nobody.

**FetchProofs, the history panel.** From `PanelAssumption` (new runs have one of the labels, at least one
request fits) and `SentinelAssumption` (`null` is no list). `PanelIsCurrent` speaks
of the panel at rest and says nothing of what is still to come. `CopyInv` does, for the
page that no failure, overtaking or exception has touched: every list on its way yields the
history, unless a run was recorded after it; so does the panel's copy, unless a run
was recorded or a list is being fetched; and an open panel has a copy or waits for one.
That a copy *yields* the history (`Yields`) relates it to the changes among the answers behind it
without recursion: a run is in the history if it is in the copy and not deleted by an
answer, with the label of the last answer that renames it, or else its own. So each action needs a fact about
one end of the sequence of answers. The server appends a change as it applies it
(`YieldsThenDelete`, `YieldsThenPatch`), the page takes the first answer and applies it to
its copy (`YieldsDeleted`, `YieldsRenamed`, `YieldsShifted`). From it:
`PanelAlwaysCurrent`. That an overtaken answer breaks it is shown in section 5.

**FetchProofs, the page.** From the assumptions of `Page`. That the button comes back is a
liveness property; what can go wrong about it in one step is that the last thing still to
come goes away and leaves the button disabled. `ButtonInv` says that this never happens: as long as
the session waits, a submission or a stream is not over, an interval runs, or
the first request of a poll is unanswered, which sets the interval after its answer
(`Coming`). It needs `StartedInv`: a batch is polled by one call of `pollBatch` at most, and
only after it has its id, which the server gave before. `RecordedInv` says that only what
is done is counted. Every action of page and server has its lemma; a poll that answers, and may
clear the interval, show a result or sign the user out, is `HandleInv`.
From the invariant: `PageInvariant` and `PageKeepsStatus`, that all this composition does to a
job is what `JobStatus` allows, so what is proved of `BatchJobs` and what is assumed by
`Page` meet. `RefusedStaysRefused` is about the sessions inside: once refused, a
token never comes back, although `Valid` and the sweep read the clock apart.
`OneBatchOneInterval`: with one batch, the interval is always the one that `clearBatchPoll`
stops; with two it need not be (section 5).

**SpendLedgerProofs.** From `LedgerAssumption` (a finite number of slots, no run
uses more than `MaxCost`). `BillMonotone`: a run billed from an
older lifetime total pays no more than from the current one. `LedgerInv` adds that totals read are
never ahead of the store (`SeenInv`) and that total plus one dearest run per
request in progress stays below cap plus one per slot (`BudgetInv`). From it:
`NeverOverbilled`, `BoundedOvershoot`, and `UndisturbedIsExact`, for which
`OnlyAddRunLeaves` finds the one action behind the step. `BudgetInv` needs cardinalities of sets that change by
one element (`Enter`, `Leave`) and the distributivity lemma `Times`.
`ShownIsFree` relates the bill to the report: for Voyage and OpenAlex alike, a run is
billed for what it uses beyond what the report shows as remaining.

Of `Pricing`, from `PricingAssumption` (prices are natural numbers, those of a token even, as the batch discount halves them).
`EstimateGrows`: through all its truncations and bounds, `EstimateFull` never estimates less for
more words, nor more for the batch discount, and always something that
`LedgerAssumption` allows as an estimate. Products of a price and a count are not linear, and
`DearerByTheToken` takes them apart. With `SmallerBill`, `ShorterTextIsAdmitted`: the cap check is fair to texts.

Of `Admission`, from the same assumption. `OnlyRemembers`: its
behaviours are the ledger's, so `LedgerInv` holds of them. `FitsCapUnlessOvertaken`
speaks of the last step of a request only; `RoomInv` follows it from its check:
while it is not overtaken, what it read of the totals is still so, and the bill of its
estimate, made again at today's totals, fits in what is left. Nobody else moves
the totals then, midnight only lowers the day's spend, and a bill grows with
usage and spend (`SmallerBill`). From it: `CapIsKept`.

**StoreProofs.** From `StoreAssumption` and `SentinelAssumption` (an absent file
and a partial write are no data, "nobody" is no caller). The properties speak of
the file between operations and are lost in the middle of one. `StoreInv` says
what a save has reached at each of its steps: the data in memory is what the holder of the lock
set out to write (`LockInv`), the temporary file is whole before it is renamed,
and until then the file is what was acknowledged last (`SaveInv`). `DailyCoversRuns`
compares the bucket with the runs of *its* day, so it is kept only as long as no run in the history
is of a later day than the bucket; `CoverInv` says so of memory, file and runs not yet added. Its
lemmas follow `ensureDailyBucketLocked`, `AddRun` with its trimming, `RenameRun`
and `DeleteRun` through histories of any length (`CountInto` bounds how many runs a
sequence has that another has not). From it: `DiskAlwaysIntact`, `AckedAlwaysOnDisk`, `DailyCovers`,
`SpendRemembered`, an action property for which `SpendInv` knows that memory is
never behind the file, and `StoreImplementsDurable`, the refinement of
`DurableStore`: the rename commits, a crash and a restart map to the abstract ones, and every other
step of a save stutters.

Of `StoreLock`, from nothing: `WriterIsAlone` is not inductive, since a second
writer could be let in beside the first. `MutexInv` adds that one goroutine at
most has announced itself as the writer. From it: `WriterAlone`.

**BatchJobsProofs.** From `BatchAssumption` and `SentinelAssumption` (an unknown
job is no response). Three facts per job make `BatchInv`: nobody has an id that is not
registered (`UnregisteredInv`), the progress shown is at most what was read
last, and that at most what succeeded (`ProgressInv`), and from the collection on each
claim's verdict is its own or none, and the run is in the history before the job is done
(`ResultInv`). `Frame` and `JobStep` reduce a step to the one job it is about.
From it: `DoneAlwaysInHistory`, `VerdictsAlwaysMatch`, and
`AnswersNeverGoBack`, the safety part of the refinement of `JobStatus`: each
step maps to a step of one job's answer, to a restart that forgets all, or to a
stutter (`ViewStep`). The rest of that refinement is `Answered`, a liveness property.

**AnalyzeRunProofs, SumTheorems.** From `RunAssumption` (a finite, non-empty set of claims;
an answer costs at least one token). `RunInv` says which goroutines exist in which phase
(`PhaseInv`), that counting gave every claim a number of its own and that
channel and events together hold the numbers of those that sent theirs
(`NumbersInv`), and that mu's totals are the sum over the claims that have added
their tokens and the recorder's the sum over all that were answered (`TokensInv`). From
it: `NoSenderBlocks`, as the channel holds fewer than one number per claim while
one is still to send; `EveryClaimIsReported`, in which the numbers are distinct and
bounded by their count, so that they are all of `1..Total`, and a sequence as long as
that has no room for a repetition; `BillIsComplete`. `SumTheorems` proves of `MapThenSumSet` what the prover cannot take
from its recursive definition: a sum changes with one summand, with one element
more, and not with what lies outside the set; a sum of equal numbers is a product (`SumOfSame`).

**IndexOneProofs.** Of `ChunkSplit`, from `SplitAssumption` (overlap below size).
`FactsAreKept` speaks of the end of the loop only. `IInv` says the same of its
course: every stretch of at most `Overlap + 1` bytes that has no blank at its
ends and ends at or before `Frontier` (the current start plus the overlap) is whole in a
passage already cut, and a running loop has text left beyond it. A step moves
the frontier to `end`; a stretch that crosses the old one begins at or after
`start`, so it lies in the window just cut (`NewWindow`). From it: `NothingIsLost` and
`PassagesAlwaysFit`.

Of `CorpusCache`, from `CacheAssumption` (sentinels are no versions and no
runs). `DamageNeedsOverlap` is not inductive: a lone writer could hold an inode
that has become the cache file. `CorpusInv` adds that a run's inode is its own
until it opens the temporary file and never has both names (`FreshInv`), and that, as long as
no two runs were saving at once, who saves writes to the temporary file, empty or with its own vectors
(`AloneInv`). `VectorInv` carries `VectorsMatchTexts` through the steps of a
save, where a failed write must not undo it. From it: `VectorsAlwaysMatch` and `OnlyOverlapDamages`.

**GatherProofs.** From `GatherAssumption` (finitely many claims and sources, finite bags of terms,
no claim whose text is a passage, an indexing limit above zero) and `RetrievalAssumption`.
`LongestIsIndexed` speaks of the state after the index is made and compares it
with what claims kept; before that, copies are in any goroutine's hands. `GatherInv` adds
that a claim's findings are frozen once its queries are answered and its filter has run, and all
merged when it says so (`FoundInv`), that `byURL` is the longest body
merged so far and one that somebody merged (`LongestInv`), that the index is `byURL` from the
moment all claims have merged (`IndexInv`), and that what a claim retrieved is still a best choice of
the index (`RankInv`). These are inductive together (`SourcesInv`); on top of them, `CopiesInv` is about
the article cache, which has no part in what is indexed of a single claim but in what
the next one is served: whatever requests overlapped, it is not behind any copy that
a claim was given. `GatheringFrame` disposes of everything a claim does before its filter.
From it: `LongestAlwaysIndexed`; `MatchedNeverRefetched`, since nothing is
retrieved only if nothing scores (`BestIsEmpty`), and one shared term scores
under each of the three formulas (`ScoreOfShared`); `BetterAlwaysRetrieved`, from
`BestIsBest` and `ScoreOfBetter`, which finds the only case in which more shared terms and no less similarity score less: a
similarity that is positive for the better passage and not for the other.

**What the liveness properties rest on.** That something must eventually happen follows from
three things: some step is possible as long as it has not happened, every step brings it
nearer, and possible steps are taken. The first two are properties of states and
steps, and are proved for any number of goroutines, jobs, claims and bytes; the
third is the fairness of section 3.

| Liveness, checked by TLC | A step is possible | A step brings it nearer |
|---|---|---|
| `EveryCallReturns` (`RunCache`) | `NobodyIsStranded`: a waiter's leader is at work | `CallersComeNearer`: a caller has 3 steps at most, and no other caller adds to them |
| `RunEnds` (`AnalyzeRun`) | `RunNeverStuck`: handler, closer or a worker can go on | `RunIsShort`: each step lowers a measure that begins at `6 * Total + 6` (TLC's state graph for 3 claims is exactly that deep) |
| `Answered` (`BatchJobs`) | `UnansweredAlwaysPolled`: the job's goroutine is at work | `JobsComeNearer`: its own steps lower a measure of at most `2 * MaxTicks + 5`, and nobody else's raise it |
| `Returns` (`ChunkSplit`) | `SplitNeverStuck`: there is an end to cut at (`SomethingToCut`) | `EveryStartIsNew`: the next window starts further on, within the text |

The measure of an instant analysis is a sum over claims, which one goroutine lowers by one
summand; that of a batch counts the polls left, so that a service that never ends a
batch changes nothing.

**Model-checked only.** The liveness properties themselves, as fairness (`ENABLED`) is out of
the prover's reach: those of the table, `PollingEnds`, `PageSettles` and
`SessionsEnd` of `Page`, and with `Answered` the rest of `ImplementsJobStatus`. For `Page`, only `Coming`
is proved, not a measure: the user may begin again and again.

## 5. Where the code departs from its texts

With a run of their own (quotations in `PROJECT.json`):

* *Thread-safe* (`StoreLockRace`): the usage report writes under the read lock, so two reports
  write at the same time.
  Writers are alone all the same (`WriterAlone`).
* *Poll until done or failed* (`PageLost`): a late tick clears the interval of
  the next batch.

Stated in the modules, false of the code, and shown by the configuration named
when TLC is run with it:

| Text | Statement, configuration | What happens |
|---|---|---|
| "exact cost for a completed analysis" (`types.go:55`) | `VoyageExact`, `MCSpendLedgerTexts.cfg` | Overlapping runs use the same rest of the free tier. `NeverOverbilled` proves the error to be in the user's favour, `UndisturbedIsExact` that only overtaken runs have it |
| Totals "track real API consumption" (`README.md:190`) | `UsageReachesStore`, `MCSpendLedgerTexts.cfg` | A run that fails half-way leaves no trace |
| "OpenAlex estimated spend for the current UTC day" (`store.go:133`) | `OpenAlexBilledForToday`, `MCSpendLedgerTexts.cfg` | The getter returns yesterday's bucket until something renews it |
| History "newest first" (`store.go:107`) | `NewestFirst`, `MCStoreOrder.cfg` | The time is taken before the lock |
| "once a job is done it's persisted" (`handler.go:30`) | `DoneIsOnDisk`, `MCBatchJobsDisk.cfg` | An error of saving is only logged |
| "claims scored so far" (`types.go:131`) | `ProgressInOrder`, `MCAnalyzeRunOrder.cfg` | Counting and sending are two steps |
| "run count since you signed in" (`README.md:176`) | `CountedOnce`, `MCPageTwice.cfg` | The interval starts even if the first tick was the last |
| – (the interval is set after the first answer, `App.jsx:779`) | `OneInterval`, `MCPageTwice.cfg` | A stream that breaks after its last event gives the button back while the first answer of a batch is awaited; with the batch started then there are two intervals, and `clearBatchPoll` stops only the later one |
| "mark stale so next open re-fetches" (`App.jsx:351`) | `PanelIsAlwaysCurrent`, `MCHistoryPanelTexts.cfg` | An answer asked for earlier arrives afterwards and replaces the mark |
| – (a list is filtered after an await, `App.jsx:361`, `366`) | `NeverBroken`, `MCHistoryPanelTexts.cfg` | The closed panel is marked stale while a deletion or a renaming is under way; its end updates `null`, which throws while rendering, and no error boundary keeps the page |
| "one ... fetch per key" (`README.md:13`) | `OneFetchPerKey`, `MCGatherTwice.cfg` | True of `sourcesFor`, where it is proved; not of the article cache |
| "hybrid rank all chunks", "lexical-only fallbacks apply when one signal is missing" (`README.md:86-87`) | `BetterIsAlwaysRetrieved`, `MCGatherRank.cfg` | A similarity that turns positive moves a passage from the overlap alone to 45% of it, so that it can fall behind one that is less similar and shares fewer terms |
| "skip re-embed on unchanged text" (`README.md:12`) | `UnchangedIsNotEmbedded`, `MCCorpusCacheReuse.cfg` | A character cut by a chunk border is replaced when the cache is written |

## 6. Not modelled, and why

* Floating point: prices, estimates and similarities are exact numbers here, in
  units of the price of an embedding token and in percent.
* Prompts, the text of answers and pages, the relevance rules, the tokenizer and the
  decoding of provider answers: data the models abstract to what properties tell apart. A
  provider's query may answer nothing, which covers answers that do not
  decode.
* File upload, the debounced estimate and rendering in the page;
  percentages and units in the usage report.
* `Split` called with an overlap that is not below its size: `ChunkSource`, its
  only caller, passes 750 and 150.
* Conversion of files and server start: pure input and wiring.
* Clocks that run backwards; file systems that reorder a rename and the write
  before it (the code does not call `Sync`, and neither README nor comments
  promise durability against power loss, only `Crash` of the process is modelled).

## 7. Plan

Written in this order, the most important behaviour first: run cache, spending,
store, lock, batch jobs, instant analysis, page, gathering, embedding cache,
chunking; then sessions and their composition with the page and the jobs,
ranking and its composition with gathering, prices and estimates and what the
cap promises, the history panel. Next:

1. Compositions: `AnalyzeRun` and `BatchJobs` with `SpendLedger` and `Store`, so
   that the bill is that of a run and the acknowledgement that of a save.

## 8. Running

    tlc -workers 2 -config MCStore.cfg MCStore.tla
    tlapm FetchProofs.tla
