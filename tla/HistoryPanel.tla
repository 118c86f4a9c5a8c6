---------------------------- MODULE HistoryPanel ----------------------------
(***************************************************************************)
(* The panel of past fact-checks (frontend/src/App.jsx HistoryPanel): a    *)
(* copy of the server's history that is fetched when the panel opens and   *)
(* when a run is recorded, and edited in place when the user renames or    *)
(* deletes one.  Nothing serialises the requests: an action is what runs   *)
(* between two awaits, the server handles requests in any order, and its   *)
(* answers are handled in any order.  The page is signed in throughout and *)
(* nobody else changes the history; its limit is left out (Store has it),  *)
(* and labels have no blanks around them.                                  *)
(***************************************************************************)
EXTENDS Naturals, Sequences, SequencesExt

CONSTANTS
    Runs,       \* ids of runs
    Labels,
    NoLabel,    \* the label a run is stored with
    MaxFlight,  \* bound of the model: requests and answers under way
    Null        \* null

ASSUME PanelAssumption ==
    NoLabel \in Labels /\ Null \notin Runs /\ MaxFlight \in Nat \ {0}

VARIABLES
    history,    \* the runs that the server has, with their labels
    toCome,     \* runs that are not finished yet
    requests,   \* sent and not handled by the server
    answers,    \* not handled by the page yet, in the order they were given
    runs,       \* the panel's copy, or Null
    open, editing,
    fetching,   \* the loading state: the spinner turns
    broken,     \* an exception while rendering has unmounted the page
    failed,     \* auxiliary: some request was refused or lost
    overtaken   \* auxiliary: some answer overtook an earlier one

network == <<requests, answers>>
panel == <<runs, open, fetching, editing, broken>>
panelVars == <<history, toCome, network, panel, failed, overtaken>>

Histories == UNION {[S -> Labels] : S \in SUBSET Runs}

ASSUME SentinelAssumption == Null \notin Histories

Get == [kind |-> "get"]
Delete(r) == [kind |-> "delete", run |-> r]
Patch(r, label) == [kind |-> "patch", run |-> r, label |-> label]
Fetched(h) == [kind |-> "runs", runs |-> h]
Error == [kind |-> "error"]         \* of a GET
Recorded == [kind |-> "recorded"]   \* the "done" of an analysis

Changes == {Delete(r) : r \in Runs} \cup {Patch(r, l) : r \in Runs, l \in Labels}
Requests == {Get} \cup Changes
Answers == {Fetched(h) : h \in Histories} \cup Changes \cup {Error, Recorded}

UnderWay == Len(requests) + Len(answers)

GetUnderWay ==
    \/ \E i \in DOMAIN requests : requests[i] = Get
    \/ \E i \in DOMAIN answers : answers[i].kind \in {"runs", "error"}

\* The spinner turns only while something is under way.
PanelTypeOK ==
    /\ history \in Histories /\ toCome \subseteq Runs
    /\ requests \in Seq(Requests) /\ answers \in Seq(Answers)
    /\ UnderWay <= MaxFlight
    /\ runs \in Histories \cup {Null}
    /\ open \in BOOLEAN /\ fetching \in BOOLEAN /\ editing \in Runs \cup {Null}
    /\ broken \in BOOLEAN /\ failed \in BOOLEAN /\ overtaken \in BOOLEAN
    /\ fetching => GetUnderWay

PanelInit ==
    /\ history = <<>> /\ toCome = Runs
    /\ requests = <<>> /\ answers = <<>>
    /\ runs = Null /\ open = FALSE /\ fetching = FALSE /\ editing = Null
    /\ broken = FALSE /\ failed = FALSE /\ overtaken = FALSE

Without(h, r) == [q \in DOMAIN h \ {r} |-> h[q]]
WithLabel(h, r, label) == [q \in DOMAIN h |-> IF q = r THEN label ELSE h[q]]
WithRun(h, r) == [q \in DOMAIN h \cup {r} |-> IF q = r THEN NoLabel ELSE h[q]]

-----------------------------------------------------------------------------
(* The user. *)

Send(request) ==
    /\ UnderWay < MaxFlight
    /\ requests' = Append(requests, request)
    /\ UNCHANGED <<history, toCome, answers, failed, overtaken>>

Shown(r) == ~broken /\ open /\ runs # Null /\ r \in DOMAIN runs

toggle ==
    /\ ~broken
    /\ open' = ~open
    /\ IF ~open /\ runs = Null
       THEN Send(Get) /\ fetching' = TRUE
       ELSE UNCHANGED <<history, toCome, network, fetching, failed, overtaken>>
    /\ UNCHANGED <<runs, editing, broken>>

\* "rename", and Escape or "cancel".
Edit(r) ==
    /\ Shown(r)
    /\ editing' = IF editing = r THEN Null ELSE r
    /\ UNCHANGED <<history, toCome, network, runs, open, fetching, broken, failed,
                   overtaken>>

\* "del", up to its await; a run that is being renamed has no such button.
deleteRun(r) ==
    /\ Shown(r) /\ editing # r
    /\ Send(Delete(r))
    /\ UNCHANGED panel

\* "save", up to its await; the input stays until the answer is there.
saveLabel(r) ==
    /\ Shown(r) /\ editing = r
    /\ \E label \in Labels : Send(Patch(r, label))
    /\ UNCHANGED panel

-----------------------------------------------------------------------------
(* The server. *)

Respond(i, answer) ==
    /\ requests' = RemoveAt(requests, i)
    /\ answers' = Append(answers, answer)
    /\ UNCHANGED <<toCome, panel, overtaken>>

History(i) ==
    /\ requests[i] = Get
    /\ Respond(i, Fetched(history))
    /\ UNCHANGED <<history, failed>>

\* An unknown id is answered 404, which the page does not look at.
HistoryItem(i) ==
    /\ requests[i] \in Changes
    /\ LET change == requests[i]
       IN  history' = IF change.kind = "delete" THEN Without(history, change.run)
                      ELSE WithLabel(history, change.run, change.label)
    /\ Respond(i, requests[i])
    /\ UNCHANGED failed

\* Refused or lost; the page handles this like success, but for a GET.
Fail(i) ==
    /\ Respond(i, IF requests[i] = Get THEN Error ELSE requests[i])
    /\ failed' = TRUE
    /\ UNCHANGED history

\* A run is stored, and then the page is told.
AddRun(r) ==
    /\ r \in toCome /\ toCome' = toCome \ {r}
    /\ UnderWay < MaxFlight
    /\ history' = WithRun(history, r)
    /\ answers' = Append(answers, Recorded)
    /\ UNCHANGED <<requests, panel, failed, overtaken>>

-----------------------------------------------------------------------------
(* The page, after an await. *)

\* Answer i is handled, now or never.
Take(i) ==
    /\ ~broken
    /\ answers' = RemoveAt(answers, i)
    /\ overtaken' = (overtaken \/ i # 1)
    /\ UNCHANGED <<history, toCome, failed>>

\* Mutant of ShowFetched: there is no finally.
ShowFetchedOnly(i) ==
    /\ answers[i].kind \in {"runs", "error"}
    /\ Take(i)
    /\ runs' = IF answers[i] = Error THEN runs ELSE answers[i].runs
    /\ fetching' = (fetching /\ answers[i] = Error)
    /\ UNCHANGED <<requests, open, editing, broken>>

\* The end of fetchHistory; only a good answer replaces the copy.
ShowFetched(i) ==
    /\ answers[i].kind \in {"runs", "error"}
    /\ Take(i)
    /\ runs' = IF answers[i] = Error THEN runs ELSE answers[i].runs
    /\ fetching' = FALSE
    /\ UNCHANGED <<requests, open, editing, broken>>

\* The ends of deleteRun and saveLabel: their updates are functions of the
\* copy, and there may be none by now.
ShowChange(i) ==
    /\ answers[i] \in Changes
    /\ Take(i)
    /\ LET change == answers[i]
       IN  /\ runs' = IF runs = Null THEN Null
                      ELSE IF change.kind = "delete" THEN Without(runs, change.run)
                      ELSE WithLabel(runs, change.run, change.label)
           /\ editing' = IF change.kind = "patch" THEN Null ELSE editing
    /\ broken' = (runs = Null)
    /\ UNCHANGED <<requests, open, fetching>>

\* Mutant of Refresh: a closed panel keeps its copy.
RefreshIfOpen(i) ==
    /\ answers[i] = Recorded
    /\ Take(i)
    /\ IF open
       THEN requests' = Append(requests, Get) /\ fetching' = TRUE
       ELSE UNCHANGED <<requests, fetching>>
    /\ UNCHANGED <<runs, open, editing, broken>>

\* onCostRecorded changes refreshKey, and the effect runs.
Refresh(i) ==
    /\ answers[i] = Recorded
    /\ Take(i)
    /\ IF open
       THEN requests' = Append(requests, Get) /\ fetching' = TRUE /\ UNCHANGED runs
       ELSE runs' = Null /\ UNCHANGED <<requests, fetching>>
    /\ UNCHANGED <<open, editing, broken>>

User == toggle \/ \E r \in Runs : Edit(r) \/ deleteRun(r) \/ saveLabel(r)
Server ==
    \/ \E i \in DOMAIN requests : History(i) \/ HistoryItem(i) \/ Fail(i)
    \/ \E r \in Runs : AddRun(r)
Page == \E i \in DOMAIN answers : ShowFetched(i) \/ ShowChange(i) \/ Refresh(i)

PanelNext == User \/ Server \/ Page

PanelSpec == PanelInit /\ [][PanelNext]_panelVars

-----------------------------------------------------------------------------
(* Properties *)

\* "mark stale so next open re-fetches" (App.jsx:351): once nothing is under
\* way, an open panel shows what the server has, with the labels it has, after
\* any mixture of openings, deletions, renamings and finished runs, however
\* their requests overlapped, as long as none failed and the answers came in
\* the order the server gave them.
PanelIsCurrent ==
    (open /\ requests = <<>> /\ answers = <<>> /\ ~failed /\ ~overtaken /\ ~broken)
        => runs = history

\* The same in whatever order the answers come.
PanelIsAlwaysCurrent ==
    (open /\ requests = <<>> /\ answers = <<>> /\ ~failed /\ ~broken)
        => runs = history

\* Deleting and renaming update a copy that is there.
NeverBroken == ~broken

-----------------------------------------------------------------------------
(* The inductive invariant. *)

NoneAfter(s, i, answer) ==
    \A j \in (i + 1)..Len(s) : s[j] # answer

\* The label that r has in copy, unless an answer after the first i of s
\* changes it: then the last that does.
LabelledAs(copy, s, i, r, label) ==
    \/ label = copy[r] /\ \A l \in Labels : NoneAfter(s, i, Patch(r, l))
    \/ \E j \in (i + 1)..Len(s) :
          s[j] = Patch(r, label) /\ \A l \in Labels : NoneAfter(s, j, Patch(r, l))

\* The changes among the answers of s after the first i make h of copy.
Yields(copy, s, i, h) ==
    /\ DOMAIN h = {r \in DOMAIN copy : NoneAfter(s, i, Delete(r))}
    /\ \A r \in DOMAIN h : LabelledAs(copy, s, i, r, h[r])

\* The lists among the answers of s make h, unless a run was recorded after.
ListsYield(s, h) ==
    \A i \in DOMAIN s :
        s[i].kind = "runs" /\ NoneAfter(s, i, Recorded) => Yields(s[i].runs, s, i, h)

\* A list that is on its way will be the server's history, unless a run was
\* recorded after it; so will the panel's copy, unless a run was recorded or
\* it is being fetched again; and an open panel has a copy or waits for one.
CopyInv ==
    ~failed /\ ~overtaken /\ ~broken =>
        /\ NoneAfter(answers, 0, Error)
        /\ ListsYield(answers, history)
        /\ open => runs # Null \/ GetUnderWay
        /\ runs # Null /\ NoneAfter(answers, 0, Recorded) /\ ~GetUnderWay
              => Yields(runs, answers, 0, history)

PanelInv == PanelTypeOK /\ CopyInv
=============================================================================
