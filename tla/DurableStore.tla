---------------------------- MODULE DurableStore ----------------------------
(***************************************************************************)
(* What the JSON store (store/store.go) promises: the file goes from one   *)
(* complete version of the data to the next in a single step, that version *)
(* being the one in memory, and a restart finds exactly the last one.      *)
(***************************************************************************)
CONSTANTS
    Values,     \* the versions of the data
    Fresh,      \* those a server without a file starts from
    NoFile      \* history.json does not exist

VARIABLES
    running,    \* the server is up
    working,    \* the data in memory, or NoFile when the server is down
    committed   \* the file, or NoFile

durableVars == <<running, working, committed>>

Init ==
    /\ running = TRUE
    /\ working \in Fresh
    /\ committed = NoFile

Work ==
    /\ running
    /\ working' \in Values
    /\ UNCHANGED <<running, committed>>

Commit ==
    /\ running
    /\ committed' = working
    /\ UNCHANGED <<running, working>>

Crash ==
    /\ running
    /\ running' = FALSE
    /\ working' = NoFile
    /\ UNCHANGED committed

Recover ==
    /\ ~running
    /\ running' = TRUE
    /\ working' \in IF committed = NoFile THEN Fresh ELSE {committed}
    /\ UNCHANGED committed

Next == Work \/ Commit \/ Crash \/ Recover

Spec == Init /\ [][Next]_durableVars
=============================================================================
