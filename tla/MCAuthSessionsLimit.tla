------------------------- MODULE MCAuthSessionsLimit -------------------------
(***************************************************************************)
(* Two instances of AuthSessions on the same ids, of which the initial     *)
(* state chooses the one that moves: overlapping requests without          *)
(* auto-revocation, and one request at a time with it, which shows what    *)
(* the overlap is to blame for.                                            *)
(***************************************************************************)
EXTENDS AuthSessions, TLC

CONSTANT loneRequest

VARIABLES
    serial,      \* the instance without overlap moves
    nowS, activeS, sessS, insertsS, reqS, mintedS, deliveredS, interruptedS

Serial == INSTANCE AuthSessions
    WITH Requests <- {loneRequest}, MaxConcurrentSessions <- 2,
         AutoRevokeOldestSession <- TRUE, ReplayActionRevoke <- FALSE,
         now <- nowS, active <- activeS, sess <- sessS, inserts <- insertsS,
         req <- reqS, minted <- mintedS, delivered <- deliveredS,
         interrupted <- interruptedS

varsS == <<nowS, activeS, sessS, insertsS, reqS, mintedS, deliveredS, interruptedS>>

MCInit == serial \in BOOLEAN /\ Init /\ Serial!Init

MCNext ==
    /\ UNCHANGED serial
    /\ \/ ~serial /\ Next /\ UNCHANGED varsS
       \/ serial /\ Serial!Next /\ UNCHANGED vars

MCSpec == MCInit /\ [][MCNext]_<<vars, varsS, serial>>

\* Handlers, session ids and token values are interchangeable.
Symmetry == Permutations(Requests) \cup Permutations(Sessions)
                                   \cup Permutations(Tokens)

\* Logins that do not overlap never exceed the limit, and evict down to it.
SessionCapSerial == Serial!SessionCap

\* Without overlap the token a client is sent is the one that is stored.
DeliveredIsCurrentSerial == Serial!DeliveredIsCurrent
=============================================================================
