-------------------------------- MODULE Page --------------------------------
(***************************************************************************)
(* The page (frontend/src/App.jsx): analyze in both modes, pollBatch with  *)
(* its tick closure and its interval, clearBatchPoll, signing in and out.  *)
(* JavaScript is single threaded: an action is what runs between two       *)
(* awaits.  Several GET /batch/:id may be in flight, since the interval    *)
(* does not wait for the previous answer, and a page that was signed out   *)
(* still handles what it had asked for.                                    *)
(*                                                                         *)
(* The server is what the page can see of it: login sessions (Sessions)    *)
(* and the answers to GET /batch/:id (JobStatus, which BatchJobs           *)
(* implements).  What is only displayed is left out: the progress bar, the *)
(* number of claims done, and which message explains a failure.            *)
(***************************************************************************)
EXTENDS Naturals, Sequences, SequencesExt

CONSTANTS
    Batches,    \* batch analyses the user may start, one after the other
    Streams,    \* instant analyses
    MaxCalls,   \* bound of the model: status requests in flight
    MaxLogins,  \* bound of the model: sign-ins
    Life,       \* see Sessions
    None        \* no interval, no analysis

ASSUME PageAssumption ==
    /\ MaxCalls \in Nat \ {0} /\ MaxLogins \in Nat \ {0} /\ Life \in Nat \ {0}
    /\ Batches \cap Streams = {} /\ None \notin Batches \cup Streams

Analyses == Batches \cup Streams

VARIABLES
    sessions, age,  \* see Sessions; a token is the number of its sign-in
    view,       \* see JobStatus
    logins,     \* sign-ins so far
    token,      \* the token state, 0 when signed out
    leaving,    \* the token whose POST /logout is in flight, or 0
    post,       \* post[x]: where the request that starts x is
    by,         \* by[x]: the token in the closures of x
    loading,    \* the loading state: the Analyze button is disabled
    ref,        \* batchPollRef.current
    timers,     \* the batches with a running interval
    calls,      \* status requests in flight, oldest first
    recorded,   \* the batches onCostRecorded was called for
    awaited     \* auxiliary: the analysis whose end the user waits for

Session == INSTANCE Sessions WITH Tokens <- 1..MaxLogins
Job == INSTANCE JobStatus WITH Jobs <- Batches, N <- 0

server == <<sessions, age, view>>
user == <<logins, token, leaving>>
shown == <<loading, recorded, awaited>>
poll == <<ref, timers, calls>>
pageVars == <<server, user, post, by, shown, poll>>

\* "sent": in flight; then, until the page handles it, the kind of answer;
\* "read": a stream whose last event was read; "over": nothing more comes.
Places == {"new", "sent", "401", "failed", "accepted", "reading", "read", "over"}

Pending == "pending"
Final == {"done", "failed"}  \* answers that end the polling; "failed" is any failure
Calls == [batch : Batches, first : BOOLEAN, answer : {Pending, "processing"} \cup Final]

PageTypeOK ==
    /\ Session!SessionType
    /\ view \in [Batches -> {Job!Unknown, Job!NotFound} \cup Job!InProgress \cup Job!Final]
    /\ logins \in 0..MaxLogins /\ token \in 0..logins /\ leaving \in 0..logins
    /\ post \in [Analyses -> Places] /\ by \in [Analyses -> 0..logins]
    /\ loading \in BOOLEAN
    /\ recorded \subseteq Batches /\ awaited \in Analyses \cup {None}
    /\ timers \subseteq Batches /\ ref \in timers \cup {None}
    /\ calls \in Seq(Calls) /\ Len(calls) <= MaxCalls

PageInit ==
    /\ Session!SessionInit /\ Job!Init
    /\ logins = 0 /\ token = 0 /\ leaving = 0
    /\ post = [x \in Analyses |-> "new"] /\ by = [x \in Analyses |-> 0]
    /\ loading = FALSE /\ recorded = {} /\ awaited = None
    /\ ref = None /\ timers = {} /\ calls = <<>>

Goto(x, from, to) == post[x] = from /\ post' = [post EXCEPT ![x] = to]

Ends(x) == awaited' = IF awaited = x THEN None ELSE awaited

-----------------------------------------------------------------------------
(* Signing in and out. *)

\* Mutant of clearBatchPoll: the reference stays.
clearBatchPollOnly ==
    /\ timers' = timers \ {ref}
    /\ UNCHANGED ref

clearBatchPoll ==
    /\ ref' = None
    /\ timers' = timers \ {ref}

\* POST /login and its answer; nothing else is on the page meanwhile.
handleLogin ==
    /\ token = 0 /\ logins < MaxLogins
    /\ logins' = logins + 1
    /\ Session!Login(logins')
    /\ token' = logins'
    /\ UNCHANGED <<view, leaving, post, by, shown, poll>>

\* handleLogout up to its await; loading stays as it is.
handleLogout ==
    /\ token # 0 /\ leaving = 0
    /\ clearBatchPoll
    /\ leaving' = token
    /\ awaited' = None
    /\ UNCHANGED <<server, logins, token, post, by, loading, recorded, calls>>

\* The server drops the session, or refuses or never gets the request; the
\* page signs out all the same, whoever is signed in by now.
SignedOut ==
    /\ leaving # 0
    /\ Session!Logout(leaving) \/ UNCHANGED <<sessions, age>>
    /\ leaving' = 0 /\ token' = 0
    /\ UNCHANGED <<view, logins, post, by, shown, poll>>

-----------------------------------------------------------------------------
(* Starting an analysis. *)

\* The Analyze button, in either mode, up to the await of the POST.
analyze(x) ==
    /\ token # 0 /\ ~loading
    /\ Goto(x, "new", "sent")
    /\ by' = [by EXCEPT ![x] = token]
    /\ clearBatchPoll
    /\ loading' = TRUE
    /\ awaited' = x
    /\ UNCHANGED <<server, user, recorded, calls>>

\* Middleware, then the handler: 401, an error, 402 and the like, the id of a
\* batch that the server now knows, or the first byte of the stream.
Arrive(x) ==
    /\ post[x] = "sent"
    /\ IF ~Session!Valid(by[x])
       THEN Goto(x, "sent", "401") /\ UNCHANGED view
       ELSE \/ Goto(x, "sent", "failed") /\ UNCHANGED view
            \/ x \in Batches /\ Goto(x, "sent", "accepted") /\ Job!Give(x)
            \/ x \in Streams /\ Goto(x, "sent", "reading") /\ UNCHANGED view
    /\ UNCHANGED <<sessions, age, user, by, shown, poll>>

\* The request never gets there, or its answer is lost.
Lost(x) ==
    /\ Goto(x, "sent", "failed")
    /\ UNCHANGED <<server, user, by, shown, poll>>

\* A 401 signs the page out.
Unauthorized(x) ==
    /\ Goto(x, "401", "over")
    /\ token' = 0
    /\ loading' = FALSE
    /\ Ends(x)
    /\ UNCHANGED <<server, logins, leaving, by, recorded, poll>>

\* Mutant of Refused: the button is not given back.
RefusedQuietly(x) ==
    /\ Goto(x, "failed", "over")
    /\ UNCHANGED <<server, user, by, shown, poll>>

\* 402, another status, or an exception.
Refused(x) ==
    /\ Goto(x, "failed", "over")
    /\ loading' = FALSE
    /\ Ends(x)
    /\ UNCHANGED <<server, user, by, recorded, poll>>

Request(b, first) ==
    /\ Len(calls) < MaxCalls
    /\ calls' = Append(calls, [batch |-> b, first |-> first, answer |-> Pending])

\* The batch id: pollBatch, up to the await of its first tick.
pollBatch(b) ==
    /\ Goto(b, "accepted", "over")
    /\ clearBatchPoll
    /\ Request(b, TRUE)
    /\ UNCHANGED <<server, user, by, loading, recorded, awaited>>

-----------------------------------------------------------------------------
(* Reading a stream. *)

\* "done" and "error"; the page reads on until the stream is closed.
LastEvent(s) ==
    /\ Goto(s, "reading", "read")
    /\ loading' = FALSE /\ Ends(s)
    /\ UNCHANGED <<server, user, by, recorded, poll>>

\* Mutant of Close: only an event ends an analysis.
CloseQuietly(s) ==
    /\ Goto(s, "reading", "over") \/ Goto(s, "read", "over")
    /\ UNCHANGED <<server, user, by, shown, poll>>

\* The end of the stream, which is an error before the last event.
Close(s) ==
    /\ \/ Goto(s, "reading", "over") /\ loading' = FALSE /\ Ends(s)
       \/ Goto(s, "read", "over") /\ UNCHANGED <<loading, awaited>>
    /\ UNCHANGED <<server, user, by, recorded, poll>>

\* The connection breaks: an error even after the last event.
Break(s) ==
    /\ Goto(s, "reading", "over") \/ Goto(s, "read", "over")
    /\ loading' = FALSE /\ Ends(s)
    /\ UNCHANGED <<server, user, by, recorded, poll>>

-----------------------------------------------------------------------------
(* Polling a batch. *)

\* The interval fires every 8 seconds, whatever is in flight.
Fire(b) ==
    /\ b \in timers
    /\ Request(b, FALSE)
    /\ UNCHANGED <<server, user, post, by, shown, ref, timers>>

AnswerTo(i, answer) ==
    /\ i \in DOMAIN calls /\ calls[i].answer = Pending
    /\ calls' = [calls EXCEPT ![i].answer = answer]
    /\ UNCHANGED <<server, user, post, by, shown, ref, timers>>

\* Middleware (401) and BatchStatus, which does not know every job (404).
Answer(i) ==
    /\ i \in DOMAIN calls
    /\ LET job == view[calls[i].batch]
       IN  AnswerTo(i, IF /\ Session!Valid(by[calls[i].batch])
                          /\ job \in Job!InProgress \cup {Job!Done}
                       THEN job.status ELSE "failed")

\* No connection, a proxy's error, a broken answer.
NoAnswer(i) == AnswerTo(i, "failed")

\* Mutant of Intervals: an error does not stop the interval.
IntervalsUntilDone(call) ==
    LET final == call.answer = "done"
        kept == IF final THEN timers \ {ref} ELSE timers
    IN  IF call.first
        THEN timers' = kept \cup {call.batch} /\ ref' = call.batch
        ELSE timers' = kept /\ ref' = IF final THEN None ELSE ref

\* What tick leaves of the intervals, and the setInterval that follows the
\* first tick whatever its answer was.
Intervals(call) ==
    LET kept == IF call.answer \in Final THEN timers \ {ref} ELSE timers
    IN  IF call.first
        THEN timers' = kept \cup {call.batch} /\ ref' = call.batch
        ELSE /\ timers' = kept
             /\ ref' = IF call.answer \in Final THEN None ELSE ref

\* Mutant of Show: an error leaves the page waiting.
ShowQuietly(call) == loading' = (loading /\ call.answer # "done")

\* What tick does to the page: the button is given back at the end.
Show(call) == loading' = (loading /\ call.answer \notin Final)

\* The rest of tick, after the await; onCostRecorded when the job is done.
Handle(i) ==
    /\ i \in DOMAIN calls /\ calls[i].answer # Pending
    /\ LET call == calls[i]
           b == call.batch
       IN  /\ Intervals(call)
           /\ Show(call)
           /\ recorded' = IF call.answer = "done" THEN recorded \cup {b} ELSE recorded
           /\ IF call.answer \in Final THEN Ends(b) ELSE UNCHANGED awaited
    /\ calls' = RemoveAt(calls, i)
    /\ UNCHANGED <<server, user, post, by>>

-----------------------------------------------------------------------------
(* The server, as far as the page sees it. *)

ServerOnly == UNCHANGED <<user, post, by, shown, poll>>

JobMoves(b) == Job!Settle(b) /\ UNCHANGED <<sessions, age>> /\ ServerOnly

TimePasses == Session!Hour /\ UNCHANGED view /\ ServerOnly

Sweep == Session!Cleanup /\ UNCHANGED view /\ ServerOnly

\* Jobs and sessions are only in memory; the streams break.
ServerRestart == sessions # {} /\ Session!ForgetSessions /\ Job!Forget /\ ServerOnly

Reply(x) == Arrive(x) \/ Lost(x)
HandleReply(x) == Unauthorized(x) \/ Refused(x) \/ (x \in Batches /\ pollBatch(x))
EndOfStream(s) == LastEvent(s) \/ Close(s) \/ Break(s)

PageNext ==
    \/ handleLogin \/ handleLogout \/ SignedOut
    \/ TimePasses \/ Sweep \/ ServerRestart
    \/ \E x \in Analyses : analyze(x) \/ Reply(x) \/ HandleReply(x)
    \/ \E s \in Streams : EndOfStream(s)
    \/ \E b \in Batches : Fire(b) \/ JobMoves(b)
    \/ \E i \in 1..MaxCalls : Answer(i) \/ NoAnswer(i) \/ Handle(i)

PageSpec == PageInit /\ [][PageNext]_pageVars

\* Requests are answered or fail, the oldest poll first where it matters;
\* answers are handled and intervals fire; a stream ends (AnalyzeRun.RunEnds)
\* and a job settles (JobStatus.Answered); time passes and sessions are swept.
\* Nothing is assumed of the user or of restarts.
PageFairSpec ==
    /\ PageSpec
    /\ \A x \in Analyses : WF_pageVars(Reply(x)) /\ WF_pageVars(HandleReply(x))
    /\ \A s \in Streams : WF_pageVars(EndOfStream(s))
    /\ \A b \in Batches : WF_pageVars(Fire(b)) /\ WF_pageVars(JobMoves(b))
    /\ WF_pageVars(Answer(1) \/ NoAnswer(1)) /\ WF_pageVars(Handle(1)) /\ WF_pageVars(SignedOut)
    /\ WF_pageVars(TimePasses) /\ WF_pageVars(Sweep)

-----------------------------------------------------------------------------
(* Properties *)

Polled(b) == b \in timers \/ \E i \in DOMAIN calls : calls[i].batch = b

\* A page that runs one batch does not poll it for ever: once the job is
\* settled or forgotten, requests and interval end, although the interval is
\* started after a first tick that may already have been the last, and
\* although a tick may come back while the page is signing out.
PollingEnds ==
    \A b \in Batches :
        (view[b] \notin {Job!Unknown} \cup Job!InProgress) ~> ~Polled(b)

\* An instant analysis gives the Analyze button back whatever happens to the
\* stream, and a batch does unless the page is signed out: every answer and
\* every failure, of the submission or of a later request, leads there.
\* Signing out is the one way to strand a page: handleLogout (App.jsx:634)
\* clears the interval and leaves loading set.
PageSettles ==
    /\ \A s \in Streams : (post[s] = "sent") ~> ~loading
    /\ \A b \in Batches : (post[b] = "sent") ~> (~loading \/ token # by[b])

\* "24h session, in-memory on server" (README.md:596): every session is gone
\* from the map in the end, also one that nobody uses or signs out of.
SessionsEnd ==
    \A t \in 1..MaxLogins : (t \in sessions) ~> (t \notin sessions)

\* "poll GET /batch/:id every few seconds until status is done or failed"
\* (README.md:667): while the user waits for a batch that was accepted, the
\* page polls it.
PolledUntilSettled ==
    awaited \in Batches /\ post[awaited] = "over" => Polled(awaited)

\* The session's "run count since you signed in" (README.md:176) counts a run
\* once.
CountedOnce ==
    [][\A i \in DOMAIN calls :
          Handle(i) /\ calls[i].answer = "done" => calls[i].batch \notin recorded]_pageVars

\* The interval that runs is the one that clearBatchPoll would stop.
OneInterval == timers \subseteq {ref}

\* A token that the server refuses once, because the user signed out, a day
\* has passed or the server was restarted, is never let in again.
RefusedForGood ==
    [][\A t \in 1..logins : ~Session!Valid(t) => ~Session!Valid(t)']_pageVars

\* What the page sees of its jobs is what JobStatus promises, and BatchJobs
\* keeps.
JobsKeepStatus == Job!Init /\ [][Job!Next]_view

-----------------------------------------------------------------------------
(* The inductive invariant. *)

\* A submission or a stream that is not over, an interval, or the first
\* request of a poll, which sets the interval after its answer.
Coming ==
    \/ \E x \in Analyses : post[x] \in {"sent", "401", "failed", "accepted", "reading"}
    \/ timers # {}
    \/ \E i \in DOMAIN calls : calls[i].first

\* The Analyze button is not disabled in vain: in a session that has started
\* an analysis, and that the user is not leaving, something is still to come
\* after which the page gives it back.
ButtonInv ==
    (loading /\ leaving = 0 /\ \E x \in Analyses : post[x] # "new" /\ by[x] = token)
        => Coming

\* Only a batch with an id is polled, and once by pollBatch; the server has
\* given the id before the page has it.
StartedInv ==
    /\ \A x \in Analyses : post[x] = "new" <=> by[x] = 0
    /\ \A b \in Batches :
          /\ post[b] \in {"new", "sent", "401", "failed"} => view[b] = Job!Unknown
          /\ post[b] = "accepted" => view[b] # Job!Unknown /\ ~Polled(b)
          /\ Polled(b) => post[b] = "over" /\ view[b] # Job!Unknown

\* The session's spend and run count take up only batches that are done.
RecordedInv ==
    \A b \in Batches :
        b \in recorded \/ (\E i \in DOMAIN calls : calls[i].batch = b /\ calls[i].answer = "done")
            => view[b] \in {Job!Done, Job!NotFound}

PageInv == PageTypeOK /\ ButtonInv /\ StartedInv /\ RecordedInv
=============================================================================
