----------------------------- MODULE CandidateTokens -----------------------------
(***************************************************************************)
(* Links by which a candidate reaches an onboarding case without an        *)
(* account. A link may be used many times until it expires or is revoked;  *)
(* issuing another revokes the outstanding ones, in one transaction.       *)
(* A validation reads the row, judges its copy, then counts the use.       *)
(***************************************************************************)
EXTENDS Naturals, FiniteSets

CONSTANTS
    Cases,        \* onboarding cases
    Links,        \* rows of CandidateAccessTokens
    Visitors,     \* requests executed at the same time
    MaxUses,      \* uses of one link (bound)
    Absent

ASSUME CandidateTokensAssumption ==
    /\ MaxUses \in Nat \ {0} /\ Absent \notin Cases \cup Links
    /\ IsFiniteSet(Links) /\ IsFiniteSet(Visitors)

VARIABLES
    link,
    visitor,
    valid,     \* validations of each link answered as valid (auxiliary)
    late       \* of these, the ones read before and counted after a revocation (auxiliary)

linkVars == <<link, visitor, valid, late>>

-----------------------------------------------------------------------------
Link == [case : Cases \cup {Absent}, expired : BOOLEAN, revoked : BOOLEAN,
         consumed : 0..MaxUses]

\* Mutant: a new row begins with NULL uses.
NoLinkNull == [case |-> Absent, expired |-> FALSE, revoked |-> FALSE, consumed |-> Absent]

NoLink == [case |-> Absent, expired |-> FALSE, revoked |-> FALSE, consumed |-> 0]

\* issueToken() has revoked (revokes are the links its transaction locks) and is
\* about to insert; validateToken() has read row and is about to count. overlaps:
\* another issue for the case ran meanwhile (auxiliary).
VisitorSteps == {"idle", "create", "judge", "count"}

Visitor == [at : VisitorSteps, case : Cases \cup {Absent}, revokes : SUBSET Links,
            row : Links \cup {Absent}, usable : BOOLEAN, overlaps : BOOLEAN]

NoVisitor == [at |-> "idle", case |-> Absent, revokes |-> {}, row |-> Absent,
              usable |-> FALSE, overlaps |-> FALSE]

Stored(k) == link[k].case # Absent

Outstanding(case) == {k \in Links : link[k].case = case /\ ~link[k].revoked}

\* Mutant: links that were used count as spent.
RevokedByIssueUnused(case) == {k \in Outstanding(case) : link[k].consumed = 0}

\* revokeOutstanding: expired ones too.
RevokedByIssue(case) == Outstanding(case)

\* Mutant: a revoked link is usable until it expires.
UsableStored(k) == Stored(k)

Usable(k) == Stored(k) /\ ~link[k].revoked

LinksInit ==
    /\ link = [k \in Links |-> NoLink]
    /\ visitor = [v \in Visitors |-> NoVisitor]
    /\ valid = [k \in Links |-> 0] /\ late = [k \in Links |-> 0]

VisitorAt(v, step) == visitor[v].at = step

Becomes(v, new) == visitor' = [visitor EXCEPT ![v] = new]

-----------------------------------------------------------------------------
(* issueToken.                                                             *)

\* The rows it revokes stay locked until it commits.
IssueRevoke(v) ==
    /\ VisitorAt(v, "idle")
    /\ \E case \in Cases :
          LET others == {w \in Visitors : visitor[w].case = case} IN
          /\ \A w \in others : visitor[w].revokes \cap Outstanding(case) = {}
          /\ visitor' = [w \in Visitors |->
                IF w = v
                THEN [NoVisitor EXCEPT !.at = "create", !.case = case,
                                       !.revokes = RevokedByIssue(case),
                                       !.overlaps = others # {}]
                ELSE IF w \in others THEN [visitor[w] EXCEPT !.overlaps = TRUE]
                ELSE visitor[w]]
    /\ UNCHANGED <<link, valid, late>>

\* The insert and the commit. Which free row it takes does not matter.
IssueCreate(v) ==
    LET new == CHOOSE k \in Links : ~Stored(k) IN
    /\ VisitorAt(v, "create")
    /\ \E k \in Links : ~Stored(k)
    /\ link' = [k \in Links |->
          IF k = new THEN [NoLink EXCEPT !.case = visitor[v].case]
          ELSE IF k \in visitor[v].revokes THEN [link[k] EXCEPT !.revoked = TRUE]
          ELSE link[k]]
    /\ Becomes(v, NoVisitor)
    /\ UNCHANGED <<valid, late>>

-----------------------------------------------------------------------------
(* validateToken.                                                          *)

FindByTokenHash(v) ==
    /\ VisitorAt(v, "idle")
    /\ \E k \in Links : Becomes(v, [NoVisitor EXCEPT !.at = "judge", !.row = k,
                                                     !.usable = Usable(k)])
    /\ UNCHANGED <<link, valid, late>>

\* Unknown, revoked and expired get the same answer. Expiry is judged by the
\* clock of this moment.
JudgeLink(v) ==
    /\ VisitorAt(v, "judge")
    /\ IF visitor[v].usable /\ ~link[visitor[v].row].expired
       THEN Becomes(v, [visitor[v] EXCEPT !.at = "count"])
       ELSE Becomes(v, NoVisitor)
    /\ UNCHANGED <<link, valid, late>>

Counted(n) == n + 1

\* No condition but the id. A row that an issue has locked is waited for.
IncrementConsumedCount(v) ==
    LET k == visitor[v].row IN
    /\ VisitorAt(v, "count")
    /\ \A w \in Visitors : k \notin visitor[w].revokes
    /\ link[k].consumed < MaxUses
    /\ link' = [link EXCEPT ![k].consumed = Counted(@)]
    /\ valid' = [valid EXCEPT ![k] = @ + 1]
    /\ late' = [late EXCEPT ![k] = IF link[k].revoked THEN @ + 1 ELSE @]
    /\ Becomes(v, NoVisitor)

-----------------------------------------------------------------------------
\* revokeTokensForOnboarding: one statement.
RevokeTokens ==
    /\ \E case \in Cases :
          /\ \A w \in Visitors : visitor[w].revokes \cap Outstanding(case) = {}
          /\ link' = [k \in Links |->
                [link[k] EXCEPT !.revoked = @ \/ k \in Outstanding(case)]]
    /\ UNCHANGED <<visitor, valid, late>>

\* A statement fails: an issue is rolled back, a validation answers nothing.
VisitorFails(v) ==
    /\ ~VisitorAt(v, "idle")
    /\ Becomes(v, NoVisitor)
    /\ UNCHANGED <<link, valid, late>>

ExpireLink ==
    /\ \E k \in Links : /\ Stored(k)
                        /\ link' = [link EXCEPT ![k].expired = TRUE]
    /\ UNCHANGED <<visitor, valid, late>>

LinksNext ==
    \/ \E v \in Visitors :
          \/ IssueRevoke(v) \/ IssueCreate(v)
          \/ FindByTokenHash(v) \/ JudgeLink(v) \/ IncrementConsumedCount(v)
          \/ VisitorFails(v)
    \/ RevokeTokens \/ ExpireLink

LinksSpec == LinksInit /\ [][LinksNext]_linkVars

-----------------------------------------------------------------------------
\* Every variable keeps its type.
LinksTypeOK ==
    /\ link \in [Links -> Link]
    /\ visitor \in [Visitors -> Visitor]
    /\ valid \in [Links -> 0..MaxUses] /\ late \in [Links -> 0..MaxUses]

\* Validations overlap without losing a use: the row counts exactly the valid answers.
UsesCounted == \A k \in Links : link[k].consumed = valid[k]

\* A revoked link is answered as valid only to validations that read it before the
\* revocation: one each, whatever comes after.
LateUseBound ==
    \A k \in Links : link[k].revoked =>
       late[k] + Cardinality({v \in Visitors : /\ visitor[v].row = k
                                               /\ visitor[v].usable})
       <= Cardinality(Visitors)

\* One link of a case at a time: a case has a second outstanding link only when two
\* issues overlapped, each blind to the other's new row.
SecondLinkExplained ==
    [][\A case \in Cases :
          /\ Cardinality(Outstanding(case)) <= 1
          /\ Cardinality(Outstanding(case)') > 1
          => \E v \in Visitors : /\ VisitorAt(v, "create") /\ visitor[v].case = case
                                 /\ visitor[v].overlaps
                                 /\ visitor'[v] = NoVisitor]_linkVars

\* Overlapping validations and revocations: no use is lost, and few come late.
UsesAccounted == UsesCounted /\ LateUseBound
=============================================================================
