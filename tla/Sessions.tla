------------------------------ MODULE Sessions ------------------------------
(***************************************************************************)
(* The login sessions of the server (auth/auth.go): a map from tokens to   *)
(* expiry times, in memory only, swept by a background goroutine.  Time is *)
(* the age of a session in units of the sweep's period, cut off once it is *)
(* past the expiry time.  Every action is one critical section of m.mu.    *)
(***************************************************************************)
EXTENDS Naturals

CONSTANTS
    Tokens,
    Life        \* age at which a session expires (24 hours)

VARIABLES
    sessions,   \* the tokens in Manager.sessions
    age         \* age[t]: how long ago t was issued, while it is in the map

sessionVars == <<sessions, age>>

SessionType ==
    /\ sessions \subseteq Tokens
    /\ age \in [Tokens -> 0..Life + 1]

SessionInit ==
    /\ sessions = {}
    /\ age = [t \in Tokens |-> 0]

\* now.Before(expires)
Valid(t) == t \in sessions /\ age[t] < Life

\* The right password; tokens are random and never issued twice.
Login(t) ==
    /\ sessions' = sessions \cup {t}
    /\ age' = [age EXCEPT ![t] = 0]

\* What Logout does to the map, and with it to the ages.
Drop(dead) ==
    /\ sessions' = sessions \ dead
    /\ age' = [t \in Tokens |-> IF t \in dead THEN 0 ELSE age[t]]

\* POST /logout, behind Middleware: an expired token is refused.
Logout(t) == Valid(t) /\ Drop({t})

\* Mutant of Expired: the comparison is the wrong way round.
ExpiredInverted(t) == t \in sessions /\ age[t] < Life

\* now.After(expires): at the very instant a session is neither valid nor
\* swept.
Expired(t) == t \in sessions /\ age[t] > Life

\* One round of cleanup.
Cleanup ==
    /\ \E t \in Tokens : Expired(t)
    /\ Drop({t \in Tokens : Expired(t)})

Hour ==
    /\ \E t \in sessions : age[t] <= Life
    /\ age' = [t \in Tokens |->
                  IF t \in sessions /\ age[t] <= Life THEN age[t] + 1 ELSE age[t]]
    /\ UNCHANGED sessions

\* The server stops and starts again.
ForgetSessions == Drop(sessions)
=============================================================================
