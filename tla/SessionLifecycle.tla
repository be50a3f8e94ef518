--------------------------- MODULE SessionLifecycle ---------------------------
(***************************************************************************)
(* What the login sessions promise, without requests, clocks or columns: a *)
(* session is opened once, each of its tokens is new to the whole system,  *)
(* and once closed it stays closed and its tokens are worth nothing.       *)
(* AuthSessions implements it.                                             *)
(***************************************************************************)
CONSTANTS Sessions, Tokens, None

VARIABLES
    state,   \* where a session stands
    token,   \* its token, None before the first and once closed
    spent    \* tokens no session will be given any more

States == {"unopened", "open", "closed"}

Init ==
    /\ state = [s \in Sessions |-> "unopened"]
    /\ token = [s \in Sessions |-> None]
    /\ spent = {}

\* createLoginSession.
Open(s) ==
    /\ state[s] = "unopened"
    /\ state' = [state EXCEPT ![s] = "open"]
    /\ UNCHANGED <<token, spent>>

\* The first token of a login, or the next one of a refresh.
Issue(s, t) ==
    /\ state[s] = "open"
    /\ t \notin spent
    /\ token' = [token EXCEPT ![s] = t]
    /\ spent' = spent \cup {t}
    /\ UNCHANGED state

\* Logout, revocation, deactivation, replay: any number of sessions at once.
Close(S) ==
    /\ \A s \in S : state[s] = "open"
    /\ state' = [s \in Sessions |-> IF s \in S THEN "closed" ELSE state[s]]
    /\ token' = [s \in Sessions |-> IF s \in S THEN None ELSE token[s]]
    /\ UNCHANGED spent

\* A token that was generated and is given to no session.
Void(t) ==
    /\ t \notin spent
    /\ spent' = spent \cup {t}
    /\ UNCHANGED <<state, token>>

Next ==
    \/ \E s \in Sessions : Open(s) \/ \E t \in Tokens : Issue(s, t)
    \/ \E S \in SUBSET Sessions : Close(S)
    \/ \E t \in Tokens : Void(t)

Spec == Init /\ [][Next]_<<state, token, spent>>
=============================================================================
