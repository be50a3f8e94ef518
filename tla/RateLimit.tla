-------------------------------- MODULE RateLimit --------------------------------
(***************************************************************************)
(* The guard every request passes first: at most Limit requests of one key *)
(* in any Window, by the instants of accepted requests kept in the memory  *)
(* of the process. It runs before the guard that recognises the user       *)
(* (app.module.ts:88-96), so its key is always the address, which people   *)
(* behind one address share. One tier; keys of other tiers are alike. The  *)
(* array of instants is a set of entries, of which those of one instant    *)
(* have different numbers: its order decides nothing but a header.         *)
(***************************************************************************)
EXTENDS Naturals, FiniteSets

CONSTANTS
    Addresses,
    Limit, Window,     \* of the tier
    SweepAge,          \* 2 minutes
    MaxInstant,        \* bound on time
    NoAddress

ASSUME RateLimitAssumption ==
    /\ Limit \in Nat \ {0} /\ Window \in Nat \ {0} /\ MaxInstant \in Nat \ {0}
    /\ SweepAge \in Nat /\ SweepAge >= Window
    /\ NoAddress \notin Addresses

VARIABLES
    stamps,      \* RateLimitGuard.storage
    instant,
    accepted,    \* entries of the requests accepted since the restart (auxiliary)
    refused      \* the address just refused, if any (auxiliary)

rateVars == <<stamps, instant, accepted, refused>>

-----------------------------------------------------------------------------
Times == 1..MaxInstant

Entry == [at : Times, nr : 1..Limit]

RateInit ==
    /\ stamps = [a \in Addresses |-> {}]
    /\ instant = 1
    /\ accepted = [a \in Addresses |-> {}]
    /\ refused = NoAddress

Younger(S, age) == {e \in S : instant < e.at + age}

InWindow(S) == Younger(S, Window)

AtLimit(S) == Cardinality(S) >= Limit

\* The entry that is pushed: one more of this instant.
Stamp(S) ==
    [at |-> instant,
     nr |-> CHOOSE n \in 1..Limit : [at |-> instant, nr |-> n] \notin S]

\* Without an await: one step.
CanActivate(a) ==
    LET recent == InWindow(stamps[a]) IN
    IF AtLimit(recent)
    THEN /\ stamps' = [stamps EXCEPT ![a] = recent]
         /\ refused' = a
         /\ UNCHANGED <<instant, accepted>>
    ELSE /\ stamps' = [stamps EXCEPT ![a] = recent \cup {Stamp(recent)}]
         /\ accepted' = [accepted EXCEPT ![a] = @ \cup {Stamp(recent)}]
         /\ refused' = NoAddress
         /\ UNCHANGED instant

\* Mutant: the timer empties the storage.
SweptAll(S) == {}

Swept(S) == Younger(S, SweepAge)

\* The timer, whenever it fires. Requests between sweeps keep only what counts.
Sweep ==
    /\ stamps' = [a \in Addresses |-> Swept(stamps[a])]
    /\ refused' = NoAddress
    /\ UNCHANGED <<instant, accepted>>

NextInstant ==
    /\ instant < MaxInstant
    /\ instant' = instant + 1
    /\ refused' = NoAddress
    /\ UNCHANGED <<stamps, accepted>>

RestartGuard ==
    /\ stamps' = [a \in Addresses |-> {}]
    /\ accepted' = [a \in Addresses |-> {}]
    /\ refused' = NoAddress
    /\ UNCHANGED instant

RateNext ==
    (\E a \in Addresses : CanActivate(a)) \/ Sweep \/ NextInstant \/ RestartGuard

RateSpec == RateInit /\ [][RateNext]_rateVars

-----------------------------------------------------------------------------
\* Every variable keeps its type; a key has at most Limit instants.
RateTypeOK ==
    /\ stamps \in [Addresses -> SUBSET Entry]
    /\ \A a \in Addresses : Cardinality(stamps[a]) <= Limit
    /\ instant \in Times
    /\ accepted \in [Addresses -> SUBSET Entry]
    /\ refused \in Addresses \cup {NoAddress}

\* The promise of a sliding window: in no stretch of Window instants, wherever it
\* begins, does a process accept more than Limit requests of an address.
WindowBound ==
    \A a \in Addresses, first \in Times :
       Cardinality({e \in accepted[a] : first <= e.at /\ e.at < first + Window}) <= Limit

\* A request is refused only because Limit requests were accepted less than a Window
\* ago: refused ones do not count, and no sweep or old request makes it later.
RefusalExplained ==
    \A a \in Addresses :
       refused = a =>
          Cardinality({e \in accepted[a] : instant < e.at + Window}) >= Limit

\* The limit is exact: never too many accepted, never one refused for nothing.
WindowExact == WindowBound /\ RefusalExplained
=============================================================================
