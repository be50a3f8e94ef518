--------------------------- MODULE PlatformProofs ----------------------------
(* Theorems about the components that keep their own state beside the others: *)
(* candidate links, the user import, the rate limiter, and the lockout of a   *)
(* login, for every number of requests executed at the same time.             *)
EXTENDS LoginLockout, MCPlatform, FiniteSetTheorems, SequenceTheorems, TLAPS

-----------------------------------------------------------------------------
(* Candidate links.                                                        *)

\* A free row was never used; a row that is not revoked was never used late.
LinkOK(k) ==
    /\ link[k] \in Link
    /\ link[k].consumed = valid[k]
    /\ late[k] <= valid[k]
    /\ ~Stored(k) => ~link[k].revoked /\ valid[k] = 0
    /\ ~link[k].revoked => late[k] = 0

VisitorOK(q) ==
    /\ q \in Visitor
    /\ q.at # "create" => q.case = Absent /\ q.revokes = {}
    /\ q.at = "create" => q.case \in Cases
    /\ q.at \in {"judge", "count"} => q.row \in Links
    /\ q.at = "count" => q.usable
    /\ q.usable => q.row \in Links /\ Stored(q.row)
    /\ \A k \in q.revokes : Stored(k)

\* A validation in execution that judged the row usable.
Holders(k) == {v \in Visitors : visitor[v].row = k /\ visitor[v].usable}

\* Two issues of one case know of each other; an issue that knows of none revokes
\* every outstanding link of its case.
IssuesOverlap ==
    \A v, w \in Visitors :
       v # w /\ visitor[v].case = visitor[w].case /\ visitor[v].case # Absent
       => visitor[v].overlaps

LoneIssueSeesAll ==
    \A v \in Visitors :
       visitor[v].at = "create" /\ ~visitor[v].overlaps
       => Outstanding(visitor[v].case) \subseteq visitor[v].revokes

LinksTyped ==
    /\ link \in [Links -> Link] /\ visitor \in [Visitors -> Visitor]
    /\ valid \in [Links -> 0..MaxUses] /\ late \in [Links -> 0..MaxUses]

LinksIInv ==
    /\ LinksTyped
    /\ \A k \in Links : LinkOK(k)
    /\ \A v \in Visitors : VisitorOK(visitor[v])
    /\ LateUseBound
    /\ IssuesOverlap
    /\ LoneIssueSeesAll

LEMMA NoVisitorTypes ==
    /\ NoVisitor \in Visitor /\ NoVisitor.at = "idle" /\ NoVisitor.case = Absent
    /\ NoVisitor.revokes = {} /\ NoVisitor.row = Absent /\ ~NoVisitor.usable
    /\ ~NoVisitor.overlaps
BY DEF NoVisitor, Visitor, VisitorSteps

LEMMA NoVisitorOK == VisitorOK(NoVisitor)
BY NoVisitorTypes DEF VisitorOK

LEMMA NoLinkTypes ==
    NoLink \in Link /\ NoLink.case = Absent /\ ~NoLink.revoked /\ NoLink.consumed = 0
BY CandidateTokensAssumption DEF NoLink, Link

LEMMA LinksInitOK == LinksInit => LinksIInv
<1> USE CandidateTokensAssumption
<1> SUFFICES ASSUME LinksInit PROVE LinksIInv
  OBVIOUS
<1>1. LinksTyped
  BY NoLinkTypes, NoVisitorTypes DEF LinksInit, LinksTyped
<1>2. \A k \in Links : LinkOK(k)
  BY NoLinkTypes DEF LinksInit, LinkOK, Stored
<1>3. \A v \in Visitors : VisitorOK(visitor[v])
  BY NoVisitorOK DEF LinksInit
<1>4. LateUseBound
  BY <1>2, NoLinkTypes DEF LinksInit, LateUseBound
<1>5. IssuesOverlap /\ LoneIssueSeesAll
  BY NoVisitorTypes DEF LinksInit, IssuesOverlap, LoneIssueSeesAll
<1> QED BY <1>1, <1>2, <1>3, <1>4, <1>5 DEF LinksIInv

LEMMA HoldersFinite ==
    \A k \in Links : IsFiniteSet(Holders(k)) /\ Cardinality(Holders(k)) \in Nat
<1> SUFFICES ASSUME NEW k \in Links
             PROVE  IsFiniteSet(Holders(k)) /\ Cardinality(Holders(k)) \in Nat
  OBVIOUS
<1>1. Holders(k) \in SUBSET Visitors
  BY DEF Holders
<1> QED BY <1>1, CandidateTokensAssumption, FS_Subset, FS_CardinalityType

LEMMA LateUseBoundHolders ==
    LateUseBound <=> \A k \in Links : link[k].revoked =>
                        late[k] + Cardinality(Holders(k)) <= Cardinality(Visitors)
BY DEF LateUseBound, Holders

\* Fewer hold a usable copy of a row used no later than before, or nobody ever did.
LEMMA LateKeeps ==
    ASSUME LinksIInv, LinksTyped',
           \A k \in Links : link'[k].revoked =>
              \/ ~link[k].revoked /\ late'[k] = 0
              \/ /\ link[k].revoked /\ late'[k] = late[k]
                 /\ Holders(k)' \subseteq Holders(k)
              \/ /\ link[k].revoked /\ late'[k] = late[k] + 1
                 /\ \E v \in Holders(k) : Holders(k)' \subseteq Holders(k) \ {v}
    PROVE  LateUseBound'
<1> USE CandidateTokensAssumption
<1> SUFFICES ASSUME NEW k \in Links, link'[k].revoked
             PROVE  late'[k] + Cardinality(Holders(k)') <= Cardinality(Visitors)
  BY DEF LateUseBound, Holders
<1> DEFINE old == Holders(k)
           new == Holders(k)'
<1>0. /\ Cardinality(Visitors) \in Nat
      /\ IsFiniteSet(old) /\ Cardinality(old) \in Nat
      /\ IsFiniteSet(new) /\ Cardinality(new) \in Nat
      /\ Cardinality(new) <= Cardinality(Visitors)
  <2>1. new \in SUBSET Visitors
    BY DEF Holders
  <2>2. IsFiniteSet(new) /\ Cardinality(new) <= Cardinality(Visitors)
    BY <2>1, FS_Subset
  <2> QED BY <2>2, HoldersFinite, FS_CardinalityType
<1>1. link[k].revoked => late[k] + Cardinality(old) <= Cardinality(Visitors)
  BY LateUseBoundHolders DEF LinksIInv
<1>2. late[k] \in Nat /\ late'[k] \in Nat
  BY DEF LinksIInv, LinksTyped
<1>3. CASE ~link[k].revoked /\ late'[k] = 0
  BY <1>0, <1>3
<1>4. ASSUME link[k].revoked, late'[k] = late[k], new \subseteq old
      PROVE  late'[k] + Cardinality(new) <= Cardinality(Visitors)
  <2>1. Cardinality(new) <= Cardinality(old)
    BY <1>0, <1>4, FS_Subset
  <2> HIDE DEF old, new
  <2> QED BY <1>0, <1>1, <1>2, <1>4, <2>1
<1>5. ASSUME NEW v \in old, link[k].revoked, late'[k] = late[k] + 1, new \subseteq old \ {v}
      PROVE  late'[k] + Cardinality(new) <= Cardinality(Visitors)
  <2>1. IsFiniteSet(old \ {v}) /\ Cardinality(old \ {v}) = Cardinality(old) - 1
    BY <1>0, <1>5, FS_RemoveElement
  <2>2. Cardinality(new) <= Cardinality(old \ {v})
    BY <1>5, <2>1, FS_Subset
  <2> HIDE DEF old, new
  <2> QED BY <1>0, <1>1, <1>2, <1>5, <2>1, <2>2
<1> QED BY <1>3, <1>4, <1>5

\* A step of one visitor that touches no row and begins no issue.
LEMMA VisitorKeeps ==
    ASSUME LinksIInv, NEW v \in Visitors, NEW new, VisitorOK(new),
           new.case = Absent, new.at # "create",
           new.usable => \/ Usable(new.row)
                         \/ visitor[v].usable /\ visitor[v].row = new.row,
           Becomes(v, new), UNCHANGED <<link, valid, late>>
    PROVE  LinksIInv'
<1>1. visitor' = [visitor EXCEPT ![v] = new]
  BY DEF Becomes
<1>2. new \in Visitor
  BY DEF VisitorOK
<1>3. LinksTyped'
  BY <1>1, <1>2 DEF LinksTyped, LinksIInv
<1>4. \A w \in Visitors : visitor'[w] = IF w = v THEN new ELSE visitor[w]
  BY <1>1 DEF LinksTyped, LinksIInv
<1>5. ASSUME NEW k \in Links PROVE LinkOK(k)'
  BY DEF LinksIInv, LinkOK, Stored
<1>6. ASSUME NEW w \in Visitors PROVE VisitorOK(visitor[w])'
  <2>1. VisitorOK(visitor'[w])
    BY <1>4 DEF LinksIInv
  <2> QED BY <2>1 DEF VisitorOK, Stored
<1>7. LateUseBound'
  <2>1. ASSUME NEW k \in Links, link[k].revoked PROVE Holders(k)' \subseteq Holders(k)
    BY <1>4, <2>1 DEF Holders, Usable
  <2> QED BY <1>3, <2>1, LateKeeps
<1>8. IssuesOverlap' /\ LoneIssueSeesAll'
  BY <1>4 DEF LinksIInv, IssuesOverlap, LoneIssueSeesAll, Outstanding
<1> QED BY <1>3, <1>5, <1>6, <1>7, <1>8 DEF LinksIInv

LEMMA FindKeeps ==
    ASSUME LinksIInv, NEW v \in Visitors, FindByTokenHash(v) PROVE LinksIInv'
<1>1. PICK k \in Links : Becomes(v, [NoVisitor EXCEPT !.at = "judge", !.row = k,
                                                     !.usable = Usable(k)])
  BY DEF FindByTokenHash
<1> DEFINE usable == Usable(k)
           new == [NoVisitor EXCEPT !.at = "judge", !.row = k, !.usable = usable]
<1>2. usable \in BOOLEAN
  BY DEF Usable, Stored, LinksIInv, LinksTyped, Link
<1>3. usable => Stored(k)
  BY DEF Usable
<1>4. Becomes(v, new) /\ UNCHANGED <<link, valid, late>>
  BY <1>1 DEF FindByTokenHash
<1>5. usable => Usable(k)
  OBVIOUS
<1> HIDE DEF usable
<1>6. /\ new \in Visitor /\ new.at = "judge" /\ new.row = k /\ new.usable = usable
      /\ new.case = Absent /\ new.revokes = {}
  BY <1>2, NoVisitorTypes DEF Visitor, VisitorSteps
<1> HIDE DEF new
<1>7. VisitorOK(new)
  BY <1>3, <1>6 DEF VisitorOK
<1> QED BY <1>4, <1>5, <1>6, <1>7, VisitorKeeps

LEMMA VisitorGone ==
    ASSUME LinksIInv, NEW v \in Visitors, Becomes(v, NoVisitor),
           UNCHANGED <<link, valid, late>>
    PROVE  LinksIInv'
BY NoVisitorTypes, NoVisitorOK, VisitorKeeps

LEMMA JudgeKeeps ==
    ASSUME LinksIInv, NEW v \in Visitors, JudgeLink(v) PROVE LinksIInv'
<1> DEFINE q == visitor[v]
           new == [q EXCEPT !.at = "count"]
<1>1. q.at = "judge" /\ VisitorOK(q) /\ q \in Visitor
  BY DEF JudgeLink, VisitorAt, LinksIInv, VisitorOK
<1>2. CASE Becomes(v, NoVisitor)
  BY <1>2, VisitorGone DEF JudgeLink
<1>3. CASE q.usable /\ Becomes(v, new)
  <2>1. /\ new \in Visitor /\ new.at = "count" /\ new.row = q.row /\ new.usable = q.usable
        /\ new.case = q.case /\ new.revokes = q.revokes
    BY <1>1 DEF Visitor, VisitorSteps
  <2> HIDE DEF new
  <2>2. VisitorOK(new) /\ new.case = Absent
    BY <1>1, <1>3, <2>1 DEF VisitorOK
  <2> QED BY <1>3, <2>1, <2>2, VisitorKeeps DEF JudgeLink
<1> QED BY <1>2, <1>3 DEF JudgeLink

LEMMA IssueRevokeKeeps ==
    ASSUME LinksIInv, NEW v \in Visitors, IssueRevoke(v) PROVE LinksIInv'
<1> USE CandidateTokensAssumption
<1>1. PICK case \in Cases :
         visitor' = [w \in Visitors |->
                IF w = v
                THEN [NoVisitor EXCEPT !.at = "create", !.case = case,
                                       !.revokes = RevokedByIssue(case),
                                       !.overlaps = {u \in Visitors : visitor[u].case = case} # {}]
                ELSE IF w \in {u \in Visitors : visitor[u].case = case}
                     THEN [visitor[w] EXCEPT !.overlaps = TRUE]
                ELSE visitor[w]]
  BY DEF IssueRevoke
<1> DEFINE others == {u \in Visitors : visitor[u].case = case}
           revokes == RevokedByIssue(case)
           overlaps == others # {}
           new == [NoVisitor EXCEPT !.at = "create", !.case = case,
                                    !.revokes = revokes, !.overlaps = overlaps]
<1>2. revokes = Outstanding(case) /\ revokes \subseteq Links /\ \A k \in revokes : Stored(k)
  BY DEF RevokedByIssue, Outstanding, Stored
<1>3. /\ new \in Visitor /\ new.at = "create" /\ new.case = case /\ new.revokes = revokes
      /\ new.overlaps = overlaps /\ ~new.usable
  <2> HIDE DEF revokes, overlaps
  <2>1. overlaps \in BOOLEAN
    BY DEF overlaps
  <2> QED BY <1>2, <2>1, NoVisitorTypes DEF Visitor, VisitorSteps
<1>4. visitor'[v] = new
  BY <1>1
<1>5. ASSUME NEW w \in Visitors, w # v
      PROVE  /\ visitor'[w] \in Visitor
             /\ visitor'[w].at = visitor[w].at /\ visitor'[w].case = visitor[w].case
             /\ visitor'[w].revokes = visitor[w].revokes
             /\ visitor'[w].row = visitor[w].row /\ visitor'[w].usable = visitor[w].usable
             /\ visitor'[w].overlaps = (visitor[w].overlaps \/ visitor[w].case = case)
  <2>1. visitor[w] \in Visitor
    BY DEF LinksIInv, LinksTyped
  <2>2. visitor'[w] = IF visitor[w].case = case THEN [visitor[w] EXCEPT !.overlaps = TRUE]
                      ELSE visitor[w]
    BY <1>1, <1>5
  <2> QED BY <2>1, <2>2 DEF Visitor
<1>6. UNCHANGED <<link, valid, late>>
  BY DEF IssueRevoke
<1>7. LinksTyped'
  <2>1. visitor' \in [Visitors -> Visitor]
    BY <1>1, <1>3, <1>4, <1>5
  <2> QED BY <1>6, <2>1 DEF LinksTyped, LinksIInv
<1>8. \A k \in Links : LinkOK(k)'
  BY <1>6 DEF LinksIInv, LinkOK, Stored
<1> HIDE DEF new, revokes
<1>9. ASSUME NEW w \in Visitors PROVE VisitorOK(visitor[w])'
  <2>1. VisitorOK(visitor[w])
    BY DEF LinksIInv
  <2>2. CASE w = v
    BY <1>2, <1>3, <1>4, <1>6, <2>2 DEF VisitorOK, Stored
  <2>3. CASE w # v
    BY <1>5, <1>6, <2>1, <2>3 DEF VisitorOK, Stored
  <2> QED BY <2>2, <2>3
<1>10. LateUseBound'
  <2>1. ASSUME NEW k \in Links PROVE Holders(k)' \subseteq Holders(k)
    BY <1>3, <1>4, <1>5 DEF Holders
  <2> QED BY <1>6, <1>7, <2>1, LateKeeps
<1>11. visitor[v].case = Absent /\ case # Absent
  BY DEF IssueRevoke, VisitorAt, LinksIInv, VisitorOK
<1>12. IssuesOverlap'
  <2> SUFFICES ASSUME NEW u \in Visitors, NEW w \in Visitors, u # w,
                      visitor'[u].case = visitor'[w].case, visitor'[u].case # Absent
               PROVE  visitor'[u].overlaps
    BY DEF IssuesOverlap
  <2>1. CASE u = v
    BY <1>3, <1>4, <1>5, <2>1
  <2>2. CASE w = v
    BY <1>3, <1>4, <1>5, <2>2
  <2>3. CASE u # v /\ w # v
    <3>1. visitor[u].overlaps
      BY <1>5, <2>3 DEF LinksIInv, IssuesOverlap
    <3> QED BY <1>5, <2>3, <3>1
  <2> QED BY <2>1, <2>2, <2>3
<1>13. LoneIssueSeesAll'
  <2> SUFFICES ASSUME NEW w \in Visitors, visitor'[w].at = "create", ~visitor'[w].overlaps
               PROVE  Outstanding(visitor'[w].case) \subseteq visitor'[w].revokes
    BY <1>6 DEF LoneIssueSeesAll, Outstanding
  <2>1. CASE w = v
    BY <1>2, <1>3, <1>4, <2>1
  <2>2. CASE w # v
    BY <1>5, <2>2 DEF LinksIInv, LoneIssueSeesAll
  <2> QED BY <2>1, <2>2
<1> QED BY <1>7, <1>8, <1>9, <1>10, <1>12, <1>13 DEF LinksIInv

\* What a statement may do to rows while no use is counted: revoke some, let some
\* expire, take free ones.
LEMMA RowsKeep ==
    ASSUME LinksIInv, link' \in [Links -> Link], UNCHANGED <<valid, late>>,
           \A k \in Links :
              /\ link'[k].consumed = link[k].consumed
              /\ Stored(k) => Stored(k)'
              /\ link[k].revoked => link'[k].revoked
              /\ ~Stored(k)' => ~link'[k].revoked
    PROVE  \A k \in Links : LinkOK(k)'
<1> SUFFICES ASSUME NEW k \in Links PROVE LinkOK(k)'
  OBVIOUS
<1>1. LinkOK(k)
  BY DEF LinksIInv
<1> QED BY <1>1 DEF LinkOK, Stored

LEMMA RevokeTokensKeeps ==
    ASSUME LinksIInv, RevokeTokens PROVE LinksIInv'
<1> USE CandidateTokensAssumption
<1>1. PICK case \in Cases : link' = [k \in Links |->
                [link[k] EXCEPT !.revoked = @ \/ k \in Outstanding(case)]]
  BY DEF RevokeTokens
<1>2. UNCHANGED <<visitor, valid, late>>
  BY DEF RevokeTokens
<1>3. ASSUME NEW k \in Links
      PROVE  /\ link'[k] \in Link
             /\ link'[k].case = link[k].case /\ link'[k].consumed = link[k].consumed
             /\ link[k].revoked => link'[k].revoked
             /\ ~Stored(k) => ~link'[k].revoked
  <2> DEFINE gone == link[k].revoked \/ k \in Outstanding(case)
  <2>1. link[k] \in Link /\ (~Stored(k) => ~link[k].revoked)
    BY DEF LinksIInv, LinkOK
  <2>2. gone \in BOOLEAN /\ (link[k].revoked => gone) /\ (~Stored(k) => ~gone)
    BY <2>1 DEF Link, Outstanding, Stored
  <2>3. link'[k] = [link[k] EXCEPT !.revoked = gone]
    BY <1>1
  <2> HIDE DEF gone
  <2> QED BY <2>1, <2>2, <2>3 DEF Link
<1>4. link' \in [Links -> Link]
  BY <1>1, <1>3
<1>5. \A k \in Links : LinkOK(k)'
  BY <1>2, <1>3, <1>4, RowsKeep DEF Stored
<1>6. LinksTyped'
  BY <1>2, <1>4 DEF LinksTyped, LinksIInv
<1>7. ASSUME NEW w \in Visitors PROVE VisitorOK(visitor[w])'
  <2>1. VisitorOK(visitor[w])
    BY DEF LinksIInv
  <2> QED BY <1>2, <1>3, <2>1 DEF VisitorOK, Stored, Visitor
<1>8. LateUseBound'
  <2>1. \A k \in Links : Holders(k)' = Holders(k)
    BY <1>2 DEF Holders
  <2>2. \A k \in Links : ~link[k].revoked => late[k] = 0
    BY DEF LinksIInv, LinkOK
  <2> QED BY <1>2, <1>6, <2>1, <2>2, LateKeeps
<1>9. IssuesOverlap' /\ LoneIssueSeesAll'
  <2>1. \A c \in Cases : Outstanding(c)' \subseteq Outstanding(c)
    BY <1>3 DEF Outstanding
  <2>2. \A v \in Visitors : visitor[v].at = "create" => visitor[v].case \in Cases
    BY DEF LinksIInv, VisitorOK
  <2>3. LoneIssueSeesAll'
    <3> SUFFICES ASSUME NEW v \in Visitors, visitor[v].at = "create", ~visitor[v].overlaps
                 PROVE  Outstanding(visitor[v].case)' \subseteq visitor[v].revokes
      BY <1>2 DEF LoneIssueSeesAll, Outstanding
    <3>1. Outstanding(visitor[v].case) \subseteq visitor[v].revokes
      BY DEF LinksIInv, LoneIssueSeesAll
    <3> QED BY <1>2, <1>3, <3>1 DEF Outstanding
  <2> QED BY <1>2, <2>3 DEF LinksIInv, IssuesOverlap
<1> QED BY <1>5, <1>6, <1>7, <1>8, <1>9 DEF LinksIInv

LEMMA ExpireLinkKeeps ==
    ASSUME LinksIInv, ExpireLink PROVE LinksIInv'
<1>1. PICK n \in Links : link' = [link EXCEPT ![n].expired = TRUE]
  BY DEF ExpireLink
<1>2. UNCHANGED <<visitor, valid, late>>
  BY DEF ExpireLink
<1>3. ASSUME NEW k \in Links
      PROVE  /\ link'[k] \in Link
             /\ link'[k].case = link[k].case /\ link'[k].consumed = link[k].consumed
             /\ link'[k].revoked = link[k].revoked
  <2>1. link[k] \in Link
    BY DEF LinksIInv, LinkOK
  <2>2. link'[k] = IF k = n THEN [link[k] EXCEPT !.expired = TRUE] ELSE link[k]
    BY <1>1 DEF LinksIInv, LinksTyped
  <2> QED BY <2>1, <2>2 DEF Link
<1>4. link' \in [Links -> Link]
  BY <1>1, <1>3 DEF LinksIInv, LinksTyped
<1>5. \A k \in Links : LinkOK(k)'
  <2>1. \A k \in Links : ~Stored(k) => ~link[k].revoked
    BY DEF LinksIInv, LinkOK
  <2> QED BY <1>2, <1>3, <1>4, <2>1, RowsKeep DEF Stored
<1>6. LinksTyped'
  BY <1>2, <1>4 DEF LinksTyped, LinksIInv
<1>7. ASSUME NEW w \in Visitors PROVE VisitorOK(visitor[w])'
  <2>1. VisitorOK(visitor[w])
    BY DEF LinksIInv
  <2> QED BY <1>2, <1>3, <2>1 DEF VisitorOK, Stored, Visitor
<1>8. LateUseBound'
  <2>1. \A k \in Links : Holders(k)' = Holders(k)
    BY <1>2 DEF Holders
  <2> QED BY <1>2, <1>3, <1>6, <2>1, LateKeeps
<1>9. IssuesOverlap' /\ LoneIssueSeesAll'
  BY <1>2, <1>3 DEF LinksIInv, IssuesOverlap, LoneIssueSeesAll, Outstanding
<1> QED BY <1>5, <1>6, <1>7, <1>8, <1>9 DEF LinksIInv

LEMMA IssueCreateEffect ==
    ASSUME LinksIInv, NEW v \in Visitors, IssueCreate(v)
    PROVE  \E n \in Links :
             /\ ~Stored(n) /\ link' \in [Links -> Link]
             /\ link'[n].case = visitor[v].case /\ ~link'[n].revoked
             /\ \A k \in Links : link'[k].consumed = link[k].consumed
             /\ \A k \in Links \ {n} :
                   /\ link'[k].case = link[k].case
                   /\ link'[k].revoked <=> link[k].revoked \/ k \in visitor[v].revokes
<1> USE CandidateTokensAssumption
<1> DEFINE q == visitor[v]
<1>1. PICK n \in Links :
        /\ ~Stored(n)
        /\ link' = [k \in Links |->
             IF k = n THEN [NoLink EXCEPT !.case = visitor[v].case]
             ELSE IF k \in visitor[v].revokes THEN [link[k] EXCEPT !.revoked = TRUE]
             ELSE link[k]]
  BY DEF IssueCreate
<1>2. q.case \in Cases
  BY DEF IssueCreate, VisitorAt, LinksIInv, VisitorOK
<1>3. /\ link'[n] \in Link /\ link'[n].case = q.case /\ ~link'[n].revoked
      /\ link'[n].consumed = 0 /\ link[n].consumed = 0
  <2>1. link'[n] = [NoLink EXCEPT !.case = q.case]
    BY <1>1
  <2>2. link[n].consumed = 0
    BY <1>1 DEF LinksIInv, LinkOK
  <2> QED BY <1>2, <2>1, <2>2, NoLinkTypes DEF Link
<1>4. ASSUME NEW k \in Links \ {n}
      PROVE  /\ link'[k] \in Link /\ link'[k].consumed = link[k].consumed
             /\ link'[k].case = link[k].case
             /\ link'[k].revoked <=> link[k].revoked \/ k \in q.revokes
  <2>1. link[k] \in Link
    BY DEF LinksIInv, LinkOK
  <2>2. link'[k] = IF k \in q.revokes THEN [link[k] EXCEPT !.revoked = TRUE] ELSE link[k]
    BY <1>1
  <2> QED BY <2>1, <2>2 DEF Link
<1>5. link' \in [Links -> Link]
  BY <1>1, <1>3, <1>4
<1> QED BY <1>1, <1>3, <1>4, <1>5

LEMMA IssueCreateKeeps ==
    ASSUME LinksIInv, NEW v \in Visitors, IssueCreate(v) PROVE LinksIInv'
<1> USE CandidateTokensAssumption
<1> DEFINE q == visitor[v]
<1>1. PICK n \in Links :
             /\ ~Stored(n) /\ link' \in [Links -> Link]
             /\ link'[n].case = visitor[v].case /\ ~link'[n].revoked
             /\ \A k \in Links : link'[k].consumed = link[k].consumed
             /\ \A k \in Links \ {n} :
                   /\ link'[k].case = link[k].case
                   /\ link'[k].revoked <=> link[k].revoked \/ k \in visitor[v].revokes
  BY IssueCreateEffect
<1>2. q.at = "create" /\ q.case \in Cases /\ q.case # Absent /\ VisitorOK(q)
  BY DEF IssueCreate, VisitorAt, LinksIInv, VisitorOK
<1>3. /\ visitor' = [visitor EXCEPT ![v] = NoVisitor]
      /\ UNCHANGED <<valid, late>>
  BY DEF IssueCreate, Becomes
<1>4. \A w \in Visitors : visitor'[w] = IF w = v THEN NoVisitor ELSE visitor[w]
  BY <1>3 DEF LinksIInv, LinksTyped
<1>5. LinksTyped'
  BY <1>1, <1>3, NoVisitorTypes DEF LinksTyped, LinksIInv
<1>6. \A k \in Links : Stored(k) => Stored(k)'
  BY <1>1 DEF Stored
<1>7. ASSUME NEW k \in Links PROVE LinkOK(k)'
  <2>1. \A j \in Links : ~Stored(j) => ~link[j].revoked
    BY DEF LinksIInv, LinkOK
  <2>2. \A j \in Links : link[j].revoked => link'[j].revoked
    BY <1>1, <2>1
  <2>3. \A j \in Links : ~Stored(j)' => ~link'[j].revoked
    BY <1>1, <1>2, <2>1 DEF Stored, VisitorOK
  <2> QED BY <1>1, <1>3, <1>6, <2>2, <2>3, RowsKeep
<1>8. ASSUME NEW w \in Visitors PROVE VisitorOK(visitor[w])'
  <2>1. CASE w = v
    BY <1>4, <2>1, NoVisitorTypes DEF VisitorOK
  <2>2. CASE w # v
    <3>1. VisitorOK(visitor[w])
      BY DEF LinksIInv
    <3> QED BY <1>4, <1>6, <2>2, <3>1 DEF VisitorOK, Visitor
  <2> QED BY <2>1, <2>2
<1>9. LateUseBound'
  <2>1. \A k \in Links : Holders(k)' \subseteq Holders(k)
    BY <1>4, NoVisitorTypes DEF Holders
  <2>2. \A k \in Links : ~link[k].revoked => late[k] = 0
    BY DEF LinksIInv, LinkOK
  <2> QED BY <1>3, <1>5, <2>1, <2>2, LateKeeps
<1>10. IssuesOverlap'
  BY <1>4, NoVisitorTypes DEF LinksIInv, IssuesOverlap
<1>11. LoneIssueSeesAll'
  <2> SUFFICES ASSUME NEW w \in Visitors, w # v,
                      visitor[w].at = "create", ~visitor[w].overlaps
               PROVE  {k \in Links : link'[k].case = visitor[w].case /\ ~link'[k].revoked}
                      \subseteq visitor[w].revokes
    BY <1>4, NoVisitorTypes DEF LoneIssueSeesAll, Outstanding
  <2>1. visitor[w].case # q.case
    BY <1>2 DEF LinksIInv, IssuesOverlap
  <2>2. Outstanding(visitor[w].case) \subseteq visitor[w].revokes
    BY DEF LinksIInv, LoneIssueSeesAll
  <2> QED BY <1>1, <2>1, <2>2 DEF Outstanding
<1> QED BY <1>5, <1>7, <1>8, <1>9, <1>10, <1>11 DEF LinksIInv

LEMMA CountKeeps ==
    ASSUME LinksIInv, NEW v \in Visitors, IncrementConsumedCount(v) PROVE LinksIInv'
<1> USE CandidateTokensAssumption
<1> DEFINE q == visitor[v]
<1>1. PICK n \in Links : n = q.row /\ q.usable /\ Stored(n)
  BY DEF IncrementConsumedCount, VisitorAt, LinksIInv, VisitorOK
<1>2. /\ link[n].consumed < MaxUses
      /\ link' = [link EXCEPT ![n].consumed = Counted(@)]
      /\ valid' = [valid EXCEPT ![n] = @ + 1]
      /\ late' = [late EXCEPT ![n] = IF link[n].revoked THEN @ + 1 ELSE @]
      /\ visitor' = [visitor EXCEPT ![v] = NoVisitor]
  BY <1>1 DEF IncrementConsumedCount, Becomes
<1>3. \A w \in Visitors : visitor'[w] = IF w = v THEN NoVisitor ELSE visitor[w]
  BY <1>2 DEF LinksIInv, LinksTyped
<1>4. ASSUME NEW k \in Links
      PROVE  /\ link'[k] \in Link /\ link'[k].case = link[k].case
             /\ link'[k].revoked = link[k].revoked
             /\ link'[k].consumed = IF k = n THEN link[k].consumed + 1 ELSE link[k].consumed
  <2>1. link[k] \in Link
    BY DEF LinksIInv, LinkOK
  <2>2. link'[k] = IF k = n THEN [link[k] EXCEPT !.consumed = Counted(link[k].consumed)]
                   ELSE link[k]
    BY <1>2 DEF LinksIInv, LinksTyped
  <2>3. link[k].consumed \in 0..MaxUses
    BY <2>1 DEF Link
  <2>4. k = n => link[k].consumed + 1 \in 0..MaxUses
    BY <1>2, <2>3
  <2> QED BY <2>1, <2>2, <2>3, <2>4 DEF Link, Counted
<1>5. ASSUME NEW k \in Links
      PROVE  /\ valid'[k] \in 0..MaxUses /\ late'[k] \in 0..MaxUses
             /\ valid'[k] = link'[k].consumed /\ late'[k] <= valid'[k]
             /\ late'[k] = IF k = n /\ link[k].revoked THEN late[k] + 1 ELSE late[k]
             /\ ~link[k].revoked => late'[k] = 0
             /\ k # n => valid'[k] = valid[k]
  <2>1. /\ valid[k] \in 0..MaxUses /\ late[k] \in 0..MaxUses /\ link[k].consumed = valid[k]
        /\ late[k] <= valid[k] /\ (~link[k].revoked => late[k] = 0)
    BY DEF LinksIInv, LinksTyped, LinkOK
  <2>2. valid'[k] = IF k = n THEN valid[k] + 1 ELSE valid[k]
    BY <1>2 DEF LinksIInv, LinksTyped
  <2>3. late'[k] = IF k = n /\ link[k].revoked THEN late[k] + 1 ELSE late[k]
    BY <1>2 DEF LinksIInv, LinksTyped
  <2> QED BY <1>2, <1>4, <2>1, <2>2, <2>3
<1>6. LinksTyped'
  BY <1>2, <1>4, <1>5, NoVisitorTypes DEF LinksTyped, LinksIInv
<1>7. ASSUME NEW k \in Links PROVE LinkOK(k)'
  <2>1. ~Stored(k)' => ~link'[k].revoked /\ valid'[k] = 0
    BY <1>1, <1>4, <1>5 DEF Stored, LinksIInv, LinkOK
  <2> QED BY <1>4, <1>5, <2>1 DEF LinkOK
<1>8. ASSUME NEW w \in Visitors PROVE VisitorOK(visitor[w])'
  <2>1. CASE w = v
    BY <1>3, <2>1, NoVisitorTypes DEF VisitorOK
  <2>2. CASE w # v
    <3>1. VisitorOK(visitor[w])
      BY DEF LinksIInv
    <3> QED BY <1>3, <1>4, <2>2, <3>1 DEF VisitorOK, Stored, Visitor
  <2> QED BY <2>1, <2>2
<1>9. LateUseBound'
  <2>1. ASSUME NEW k \in Links, k # n PROVE Holders(k)' \subseteq Holders(k)
    BY <1>3, NoVisitorTypes DEF Holders
  <2>2. v \in Holders(n) /\ Holders(n)' \subseteq Holders(n) \ {v}
    BY <1>1, <1>3, NoVisitorTypes DEF Holders
  <2> QED BY <1>4, <1>5, <1>6, <2>1, <2>2, LateKeeps
<1>10. IssuesOverlap' /\ LoneIssueSeesAll'
  BY <1>3, <1>4, NoVisitorTypes DEF LinksIInv, IssuesOverlap, LoneIssueSeesAll, Outstanding
<1> QED BY <1>6, <1>7, <1>8, <1>9, <1>10 DEF LinksIInv

LEMMA LinksStepKeeps == LinksIInv /\ [LinksNext]_linkVars => LinksIInv'
<1> SUFFICES ASSUME LinksIInv, [LinksNext]_linkVars PROVE LinksIInv'
  OBVIOUS
<1>1. ASSUME NEW v \in Visitors, VisitorFails(v) PROVE LinksIInv'
  BY <1>1, VisitorGone DEF VisitorFails
<1>2. ASSUME UNCHANGED linkVars PROVE LinksIInv'
  BY <1>2 DEF linkVars, LinksIInv, LinksTyped, LinkOK, VisitorOK, Stored, LateUseBound,
              IssuesOverlap, LoneIssueSeesAll, Outstanding
<1> QED BY <1>1, <1>2, IssueRevokeKeeps, IssueCreateKeeps, FindKeeps, JudgeKeeps,
           CountKeeps, RevokeTokensKeeps, ExpireLinkKeeps DEF LinksNext

LEMMA LinksInvariant == LinksSpec => []LinksIInv
BY LinksInitOK, LinksStepKeeps, PTL DEF LinksSpec

\* Type correctness of the candidate links.
THEOREM LinksTypeCorrect == LinksSpec => []LinksTypeOK
<1>1. LinksIInv => LinksTypeOK
  BY DEF LinksIInv, LinksTyped, LinksTypeOK
<1> QED BY LinksInvariant, <1>1, PTL

\* No use of a link is lost, and few come late.
THEOREM LinkUses == LinksSpec => []UsesAccounted
<1>1. LinksIInv => UsesAccounted
  BY DEF LinksIInv, LinkOK, UsesAccounted, UsesCounted
<1> QED BY LinksInvariant, <1>1, PTL

SecondLinkStep ==
    \A case \in Cases :
       /\ Cardinality(Outstanding(case)) <= 1
       /\ Cardinality(Outstanding(case)') > 1
       => \E v \in Visitors : /\ VisitorAt(v, "create") /\ visitor[v].case = case
                              /\ visitor[v].overlaps
                              /\ visitor'[v] = NoVisitor

\* Fewer outstanding links are no more of them.
LEMMA FewerOutstanding ==
    ASSUME \A case \in Cases : Outstanding(case)' \subseteq Outstanding(case)
    PROVE  SecondLinkStep
<1> USE CandidateTokensAssumption
<1> SUFFICES ASSUME NEW case \in Cases PROVE Cardinality(Outstanding(case)') <= Cardinality(Outstanding(case))
                    /\ Cardinality(Outstanding(case)) \in Nat /\ Cardinality(Outstanding(case)') \in Nat
  BY DEF SecondLinkStep
<1>1. Outstanding(case) \in SUBSET Links /\ Outstanding(case)' \in SUBSET Outstanding(case)
  BY DEF Outstanding
<1>2. IsFiniteSet(Outstanding(case))
  BY <1>1, FS_Subset
<1> QED BY <1>1, <1>2, FS_Subset, FS_CardinalityType

LEMMA SecondLinkHolds == LinksIInv /\ [LinksNext]_linkVars => SecondLinkStep
<1> USE CandidateTokensAssumption
<1> SUFFICES ASSUME LinksIInv, [LinksNext]_linkVars PROVE SecondLinkStep
  OBVIOUS
<1>1. ASSUME NEW v \in Visitors, IssueCreate(v) PROVE SecondLinkStep
  <2> DEFINE q == visitor[v]
  <2>1. PICK n \in Links :
             /\ link'[n].case = q.case
             /\ \A k \in Links \ {n} :
                   /\ link'[k].case = link[k].case
                   /\ link'[k].revoked <=> link[k].revoked \/ k \in q.revokes
    BY <1>1, IssueCreateEffect
  <2>2. VisitorAt(v, "create") /\ visitor'[v] = NoVisitor
    BY <1>1 DEF IssueCreate, Becomes, LinksIInv, LinksTyped
  <2>3. CASE q.overlaps
    <3>1. ASSUME NEW case \in Cases, case # q.case
          PROVE  /\ Cardinality(Outstanding(case)') <= Cardinality(Outstanding(case))
                 /\ Cardinality(Outstanding(case)) \in Nat
                 /\ Cardinality(Outstanding(case)') \in Nat
      <4>1. Outstanding(case) \in SUBSET Links /\ Outstanding(case)' \in SUBSET Outstanding(case)
        BY <2>1, <3>1 DEF Outstanding
      <4>2. IsFiniteSet(Outstanding(case))
        BY <4>1, FS_Subset
      <4> QED BY <4>1, <4>2, FS_Subset, FS_CardinalityType
    <3> QED BY <2>2, <2>3, <3>1 DEF SecondLinkStep
  <2>4. CASE ~q.overlaps
    <3>1. Outstanding(q.case) \subseteq q.revokes
      BY <2>2, <2>4 DEF LinksIInv, LoneIssueSeesAll, VisitorAt
    <3> SUFFICES ASSUME NEW case \in Cases
                 PROVE  /\ Cardinality(Outstanding(case)) \in Nat
                        /\ Cardinality(Outstanding(case)') \in Nat
                        /\ \/ Cardinality(Outstanding(case)') <= Cardinality(Outstanding(case))
                           \/ Cardinality(Outstanding(case)') <= 1
      BY DEF SecondLinkStep
    <3>2. Outstanding(case) \in SUBSET Links /\ Outstanding(case)' \in SUBSET Links
      BY DEF Outstanding
    <3>3. IsFiniteSet(Outstanding(case)) /\ IsFiniteSet(Outstanding(case)')
      BY <3>2, FS_Subset
    <3>4. CASE case = q.case
      <4>1. Outstanding(case)' \in SUBSET {n}
        BY <2>1, <3>1, <3>4 DEF Outstanding
      <4>2. Cardinality(Outstanding(case)') <= 1
        <5>1. IsFiniteSet({n}) /\ Cardinality({n}) = 1
          BY FS_Singleton
        <5>2. Cardinality(Outstanding(case)') <= Cardinality({n})
          BY <4>1, <5>1, FS_Subset
        <5> QED BY <5>1, <5>2
      <4>3. Cardinality(Outstanding(case)) \in Nat /\ Cardinality(Outstanding(case)') \in Nat
        BY <3>3, FS_CardinalityType
      <4> QED BY <4>2, <4>3
    <3>5. CASE case # q.case
      <4>1. Outstanding(case)' \in SUBSET Outstanding(case)
        BY <2>1, <3>5 DEF Outstanding
      <4> QED BY <3>3, <4>1, FS_Subset, FS_CardinalityType
    <3> QED BY <3>4, <3>5
  <2> QED BY <2>3, <2>4
<1>2. ASSUME RevokeTokens PROVE SecondLinkStep
  <2>1. PICK case \in Cases : link' = [k \in Links |->
                [link[k] EXCEPT !.revoked = @ \/ k \in Outstanding(case)]]
    BY <1>2 DEF RevokeTokens
  <2>2. ASSUME NEW k \in Links
        PROVE  link'[k].case = link[k].case /\ (link[k].revoked => link'[k].revoked)
    <3>1. link[k] \in Link
      BY DEF LinksIInv, LinkOK
    <3> QED BY <2>1, <3>1 DEF Link
  <2> QED BY <2>2, FewerOutstanding DEF Outstanding
<1>3. ASSUME ExpireLink PROVE SecondLinkStep
  <2>1. PICK n \in Links : link' = [link EXCEPT ![n].expired = TRUE]
    BY <1>3 DEF ExpireLink
  <2>2. ASSUME NEW k \in Links
        PROVE  link'[k].case = link[k].case /\ link'[k].revoked = link[k].revoked
    <3>1. link[k] \in Link
      BY DEF LinksIInv, LinkOK
    <3> QED BY <2>1, <3>1 DEF Link, LinksIInv, LinksTyped
  <2> QED BY <2>2, FewerOutstanding DEF Outstanding
<1>4. ASSUME NEW v \in Visitors, IncrementConsumedCount(v) PROVE SecondLinkStep
  <2>1. link' = [link EXCEPT ![visitor[v].row].consumed = Counted(@)]
    BY <1>4 DEF IncrementConsumedCount
  <2>2. ASSUME NEW k \in Links
        PROVE  link'[k].case = link[k].case /\ link'[k].revoked = link[k].revoked
    <3>1. link[k] \in Link
      BY DEF LinksIInv, LinkOK
    <3> QED BY <2>1, <3>1 DEF Link, LinksIInv, LinksTyped
  <2> QED BY <2>2, FewerOutstanding DEF Outstanding
<1>5. ASSUME UNCHANGED link PROVE SecondLinkStep
  BY <1>5, FewerOutstanding DEF Outstanding
<1> QED BY <1>1, <1>2, <1>3, <1>4, <1>5 DEF LinksNext, IssueRevoke, FindByTokenHash,
           JudgeLink, VisitorFails, linkVars

\* A case has a second outstanding link only when two issues overlapped.
THEOREM OneLinkPerCase == LinksSpec => SecondLinkExplained
<1>1. LinksIInv /\ [LinksNext]_linkVars => [SecondLinkStep]_linkVars
  BY SecondLinkHolds
<1> QED BY LinksInvariant, <1>1, PTL DEF LinksSpec, SecondLinkExplained, SecondLinkStep

-----------------------------------------------------------------------------
(* User import.                                                            *)

Transacting == {"insert", "log", "drop"}

\* What a request holds.
ImporterOK(q) ==
    /\ q \in Importer
    /\ q.at \in Transacting =>
          /\ q.token \in ImportTokens /\ q.rows = batch[q.token].rows
          /\ q.row \in 1..(Len(q.rows) + 1)
          /\ batch[q.token].state # "none"
    /\ q.at \notin Transacting => q.token = NoToken
    /\ q.at = "log" => q.row <= Len(q.rows)
    /\ q.at = "drop" => runs[q.token] > 0
    /\ q.at \in {"insert", "log"} /\ ~q.overlaps /\ ~batch[q.token].unanswered
          => runs[q.token] = 0
    /\ q.at = "judge" /\ ~q.stale => \A n \in Names : accounts[n] > 0 => n \in q.found

\* A batch holds no name twice and, unless stale, no name of an account; after a
\* commit it is kept only until that commit drops it, unless the commit was not answered.
BatchOK(t) ==
    /\ batch[t] \in Batch
    /\ batch[t].state = "none" => batch[t].rows = <<>> /\ runs[t] = 0
    /\ \A i, j \in DOMAIN batch[t].rows : batch[t].rows[i] = batch[t].rows[j] => i = j
    /\ ~batch[t].stale => \A i \in DOMAIN batch[t].rows : accounts[batch[t].rows[i]] = 0
    /\ runs[t] > 0 /\ batch[t].state = "cached" =>
          \/ batch[t].unanswered
          \/ \E k \in Importers : importer[k].at = "drop" /\ importer[k].token = t

\* Two commits of one token know of each other.
CommitsOverlap ==
    \A c, k \in Importers :
       c # k /\ importer[c].token = importer[k].token /\ importer[c].token # NoToken
       => importer[c].overlaps

\* Rows logged, or tried to, by transactions that have not committed.
Pending(n) ==
    {p \in Importers \X (1..MaxRows) :
        /\ importer[p[1]].at \in {"insert", "log"}
        /\ p[2] < importer[p[1]].row
        /\ importer[p[1]].rows[p[2]] = n}

NameOK(n) ==
    /\ imported[n] <= accounts[n]
    /\ imported[n] + Cardinality(Pending(n)) <= logged[n] + swallowed[n]

ImportTyped ==
    /\ accounts \in [Names -> 0..MaxAccounts] /\ logged \in [Names -> 0..MaxEvents]
    /\ swallowed \in [Names -> 0..MaxEvents]
    /\ batch \in [ImportTokens -> Batch] /\ importer \in [Importers -> Importer]
    /\ imported \in [Names -> 0..MaxAccounts]
    /\ runs \in [ImportTokens -> Nat] /\ boots \in 0..MaxBoots

ImportIInv ==
    /\ ImportTyped
    /\ \A c \in Importers : ImporterOK(importer[c])
    /\ \A t \in ImportTokens : BatchOK(t)
    /\ CommitsOverlap
    /\ \A n \in Names : NameOK(n)

LEMMA RowsAreSequences ==
    /\ <<>> \in Rows
    /\ \A rows \in Rows : /\ rows \in Seq(Names) /\ DOMAIN rows = 1..Len(rows)
                          /\ Len(rows) \in 0..MaxRows
<1> USE UserImportAssumption
<1>1. ASSUME NEW rows \in Rows
      PROVE  /\ rows \in Seq(Names) /\ DOMAIN rows = 1..Len(rows)
             /\ Len(rows) \in 0..MaxRows
  <2>1. PICK m \in 0..MaxRows : rows \in [1..m -> Names]
    BY DEF Rows, BoundedSeq, SeqOf
  <2>2. rows \in Seq(Names) /\ Len(rows) = m
    BY <2>1
  <2> QED BY <2>1, <2>2
<1>2. <<>> \in [1..0 -> Names] /\ 0 \in 0..MaxRows
  OBVIOUS
<1>3. <<>> \in Rows
  BY <1>2 DEF Rows, BoundedSeq, SeqOf
<1> QED BY <1>1, <1>3

LEMMA NoImporterTypes ==
    /\ NoImporter \in Importer /\ NoImporter.at = "idle" /\ NoImporter.token = NoToken
    /\ NoImporter.row = 0 /\ ~NoImporter.overlaps
BY RowsAreSequences DEF NoImporter, Importer, ImporterSteps

LEMMA NoImporterOK == ImporterOK(NoImporter)
BY NoImporterTypes DEF ImporterOK, Transacting

LEMMA NoBatchTypes ==
    NoBatch \in Batch /\ NoBatch.state = "none" /\ NoBatch.rows = <<>>
BY RowsAreSequences DEF NoBatch, Batch

LEMMA PendingFinite ==
    ASSUME NEW n
    PROVE  /\ IsFiniteSet(Pending(n)) /\ Cardinality(Pending(n)) \in Nat
           /\ IsFiniteSet(Pending(n)') /\ Cardinality(Pending(n)') \in Nat
<1> USE UserImportAssumption
<1>1. IsFiniteSet(Importers \X (1..MaxRows))
  <2>1. IsFiniteSet(1..MaxRows)
    BY FS_Interval
  <2> QED BY <2>1, FS_Product
<1>2. /\ Pending(n) \in SUBSET (Importers \X (1..MaxRows))
      /\ Pending(n)' \in SUBSET (Importers \X (1..MaxRows))
  BY DEF Pending
<1> QED BY <1>1, <1>2, FS_Subset, FS_CardinalityType

LEMMA ImportInitOK == ImportInit => ImportIInv
<1> USE UserImportAssumption
<1> SUFFICES ASSUME ImportInit PROVE ImportIInv
  OBVIOUS
<1>1. ImportTyped
  <2>1. 0 \in 0..MaxAccounts /\ 0 \in 0..MaxEvents /\ 0 \in 0..MaxBoots /\ 0 \in Nat
    OBVIOUS
  <2> QED BY <2>1, NoImporterTypes, NoBatchTypes DEF ImportInit, ImportTyped, Zero
<1>2. \A c \in Importers : ImporterOK(importer[c])
  BY NoImporterOK DEF ImportInit
<1>3. \A t \in ImportTokens : BatchOK(t)
  BY NoBatchTypes DEF ImportInit, BatchOK
<1>4. CommitsOverlap
  BY NoImporterTypes DEF ImportInit, CommitsOverlap
<1>5. ASSUME NEW n \in Names PROVE NameOK(n)
  <2>1. Pending(n) = {}
    BY NoImporterTypes DEF ImportInit, Pending
  <2> QED BY <2>1, FS_EmptySet DEF NameOK, ImportInit, Zero
<1> QED BY <1>1, <1>2, <1>3, <1>4, <1>5 DEF ImportIInv

\* Names whose accounts and events are the same, with no more rows pending.
LEMMA NamesKeep ==
    ASSUME ImportIInv, ImportTyped', UNCHANGED <<logged, swallowed, imported>>,
           \A n \in Names : /\ accounts[n] <= accounts'[n]
                            /\ Pending(n)' \subseteq Pending(n)
    PROVE  \A n \in Names : NameOK(n)'
<1> SUFFICES ASSUME NEW n \in Names PROVE NameOK(n)'
  OBVIOUS
<1>1. Cardinality(Pending(n)') <= Cardinality(Pending(n))
  BY PendingFinite, FS_Subset
<1>2. /\ imported[n] \in Nat /\ logged[n] \in Nat /\ accounts[n] \in Nat
      /\ swallowed[n] \in Nat /\ accounts'[n] \in Nat
  BY DEF ImportIInv, ImportTyped
<1>3. NameOK(n) /\ accounts[n] <= accounts'[n]
  BY DEF ImportIInv
<1>4. Cardinality(Pending(n)) \in Nat /\ Cardinality(Pending(n)') \in Nat
  BY PendingFinite
<1> QED BY <1>1, <1>2, <1>3, <1>4 DEF NameOK

LEMMA PendingOfSame ==
    ASSUME \A c \in Importers :
              \/ importer'[c].at \notin {"insert", "log"}
              \/ /\ importer[c].at \in {"insert", "log"}
                 /\ importer'[c].row = importer[c].row
                 /\ importer'[c].rows = importer[c].rows
    PROVE  \A n \in Names : Pending(n)' \subseteq Pending(n)
BY DEF Pending

\* A step of one request that writes nothing.
LEMMA ImporterKeeps ==
    ASSUME ImportIInv, NEW c \in Importers, NEW new, ImporterOK(new), Goes(c, new),
           UNCHANGED <<accounts, logged, swallowed, batch, imported, runs, boots>>,
           importer[c].at # "drop", new.at # "drop",
           \/ new.token = NoToken
           \/ /\ new.token = importer[c].token /\ new.overlaps = importer[c].overlaps
              /\ new.rows = importer[c].rows /\ new.row = importer[c].row
              /\ importer[c].at \in {"insert", "log"}
    PROVE  ImportIInv'
<1> USE UserImportAssumption
<1>1. importer' = [importer EXCEPT ![c] = new] /\ new \in Importer
  BY DEF Goes, ImporterOK
<1>2. ImportTyped'
  BY <1>1 DEF ImportIInv, ImportTyped
<1>3. \A k \in Importers : importer'[k] = IF k = c THEN new ELSE importer[k]
  BY <1>1 DEF ImportIInv, ImportTyped
<1>4. ASSUME NEW k \in Importers PROVE ImporterOK(importer[k])'
  <2>1. ImporterOK(importer'[k])
    BY <1>3 DEF ImportIInv
  <2> QED BY <2>1 DEF ImporterOK
<1>5. ASSUME NEW t \in ImportTokens PROVE BatchOK(t)'
  <2>1. BatchOK(t)
    BY DEF ImportIInv
  <2> QED BY <1>3, <2>1 DEF BatchOK
<1>6. CommitsOverlap'
  BY <1>3 DEF ImportIInv, CommitsOverlap
<1>7. new.at \in {"insert", "log"} => new.token # NoToken
  BY DEF ImporterOK, Transacting
<1>8. \A n \in Names : Pending(n)' \subseteq Pending(n)
  BY <1>3, <1>7, PendingOfSame
<1>9. \A n \in Names : NameOK(n)'
  <2>1. \A n \in Names : accounts[n] <= accounts'[n]
    BY DEF ImportIInv, ImportTyped
  <2> QED BY <1>2, <1>8, <2>1, NamesKeep
<1> QED BY <1>2, <1>4, <1>5, <1>6, <1>9 DEF ImportIInv

LEMMA ValidateKeeps ==
    ASSUME ImportIInv, NEW c \in Importers, Validate(c) PROVE ImportIInv'
<1>1. PICK rows \in Rows : Goes(c, [NoImporter EXCEPT !.at = "lookup", !.rows = rows])
  BY DEF Validate
<1> DEFINE new == [NoImporter EXCEPT !.at = "lookup", !.rows = rows]
<1>2. new \in Importer /\ new.at = "lookup" /\ new.token = NoToken
  BY NoImporterTypes DEF Importer, ImporterSteps
<1>3. Goes(c, new) /\ importer[c].at # "drop"
  BY <1>1 DEF Validate, ImporterAt
<1> HIDE DEF new
<1>4. ImporterOK(new)
  BY <1>2 DEF ImporterOK, Transacting
<1> QED BY <1>2, <1>3, <1>4, ImporterKeeps DEF Validate

LEMMA FindNamesKeeps ==
    ASSUME ImportIInv, NEW c \in Importers, FindNames(c) PROVE ImportIInv'
<1> DEFINE q == importer[c]
           found == {n \in Names : accounts[n] > 0}
           new == [q EXCEPT !.at = "judge", !.found = found]
<1>1. q.at = "lookup" /\ ImporterOK(q) /\ q \in Importer
  BY DEF FindNames, ImporterAt, ImportIInv, ImporterOK
<1>2. /\ new \in Importer /\ new.at = "judge" /\ new.token = q.token /\ new.found = found
  BY <1>1 DEF Importer, ImporterSteps
<1>3. Goes(c, new)
  BY DEF FindNames
<1> HIDE DEF new
<1>4. ImporterOK(new) /\ new.token = NoToken
  BY <1>1, <1>2 DEF ImporterOK, Transacting
<1> QED BY <1>1, <1>2, <1>3, <1>4, ImporterKeeps DEF FindNames

LEMMA InsertRowKeeps ==
    ASSUME ImportIInv, NEW c \in Importers, InsertRow(c) PROVE ImportIInv'
<1> DEFINE q == importer[c]
           new == [q EXCEPT !.at = "log"]
<1>1. q.at = "insert" /\ ImporterOK(q) /\ q \in Importer /\ q.row <= Len(q.rows)
  BY DEF InsertRow, ImporterAt, ImportIInv, ImporterOK
<1>2. /\ new \in Importer /\ new.at = "log" /\ new.token = q.token /\ new.rows = q.rows
      /\ new.row = q.row /\ new.overlaps = q.overlaps
  BY <1>1 DEF Importer, ImporterSteps
<1>3. Goes(c, new)
  BY DEF InsertRow
<1> HIDE DEF new
<1>4. ImporterOK(new)
  BY <1>1, <1>2 DEF ImporterOK, Transacting
<1> QED BY <1>1, <1>2, <1>3, <1>4, ImporterKeeps DEF InsertRow

LEMMA ImporterFailsKeeps ==
    ASSUME ImportIInv, NEW c \in Importers, ImporterFails(c) PROVE ImportIInv'
BY NoImporterTypes, NoImporterOK, ImporterKeeps
   DEF ImporterFails, BatchAfterFailure, ImporterAt

\* A fresh token keeps rows that no name clashes with.
LEMMA JudgeRowsKeeps ==
    ASSUME ImportIInv, NEW c \in Importers, JudgeRows(c) PROVE ImportIInv'
<1> USE UserImportAssumption
<1> DEFINE q == importer[c]
<1>1. q.at = "judge" /\ ImporterOK(q) /\ q \in Importer /\ Goes(c, NoImporter)
  BY DEF JudgeRows, ImporterAt, ImportIInv, ImporterOK
<1>2. CASE UNCHANGED batch
  BY <1>1, <1>2, NoImporterTypes, NoImporterOK, ImporterKeeps DEF JudgeRows
<1>3. ASSUME NEW t \in ImportTokens, Clean(q.rows, q.found), batch[t].state = "none",
             batch' = [batch EXCEPT ![t] = [state |-> "cached", rows |-> q.rows,
                                            expired |-> FALSE, stale |-> q.stale,
                                            unanswered |-> FALSE]]
      PROVE  ImportIInv'
  <2> DEFINE new == [state |-> "cached", rows |-> q.rows,
                     expired |-> FALSE, stale |-> q.stale, unanswered |-> FALSE]
  <2>1. new \in Batch /\ new.state = "cached" /\ new.rows = q.rows /\ new.stale = q.stale
    BY <1>1 DEF Batch, Importer
  <2>2. \A u \in ImportTokens : batch'[u] = IF u = t THEN new ELSE batch[u]
    BY <1>3 DEF ImportIInv, ImportTyped
  <2>3. /\ importer' = [importer EXCEPT ![c] = NoImporter]
        /\ UNCHANGED <<accounts, logged, swallowed, imported, runs, boots>>
    BY <1>1 DEF Goes, JudgeRows
  <2>4. ImportTyped'
    BY <1>3, <2>1, <2>3, NoImporterTypes DEF ImportIInv, ImportTyped
  <2>5. \A k \in Importers : importer'[k] = IF k = c THEN NoImporter ELSE importer[k]
    BY <2>3 DEF ImportIInv, ImportTyped
  <2> HIDE DEF new
  <2>6. ASSUME NEW k \in Importers PROVE ImporterOK(importer[k])'
    <3>1. ImporterOK(importer'[k])
      BY <2>5, NoImporterOK DEF ImportIInv
    <3> QED BY <1>3, <2>2, <2>3, <3>1 DEF ImporterOK, Transacting
  <2>7. ASSUME NEW u \in ImportTokens PROVE BatchOK(u)'
    <3>1. CASE u # t
      <4>1. BatchOK(u) /\ batch'[u] = batch[u]
        BY <2>2, <3>1 DEF ImportIInv
      <4>2. ASSUME NEW k \in Importers, importer[k].at = "drop"
            PROVE  importer'[k] = importer[k]
        BY <1>1, <2>5, <4>2
      <4> QED BY <2>3, <4>1, <4>2 DEF BatchOK
    <3>2. CASE u = t
      <4>1. batch'[t] = new /\ runs'[t] = 0
        BY <1>3, <2>2, <2>3 DEF ImportIInv, BatchOK
      <4>2. DOMAIN q.rows = 1..Len(q.rows) /\ Len(q.rows) \in Nat /\ q.rows \in Seq(Names)
        BY <1>1, RowsAreSequences DEF Importer
      <4>3. \A i, j \in DOMAIN q.rows : q.rows[i] = q.rows[j] => i = j
        <5> SUFFICES ASSUME NEW i \in DOMAIN q.rows, NEW j \in DOMAIN q.rows, j < i
                     PROVE  q.rows[i] # q.rows[j]
          BY <4>2
        <5>1. j \in 1..(i - 1)
          BY <4>2
        <5> QED BY <1>3, <5>1 DEF Clean
      <4>4. ~q.stale => \A i \in DOMAIN q.rows : accounts[q.rows[i]] = 0
        <5> SUFFICES ASSUME ~q.stale, NEW i \in DOMAIN q.rows
                     PROVE  accounts[q.rows[i]] = 0
          OBVIOUS
        <5>1. q.rows[i] \in Names /\ q.rows[i] \notin q.found
          BY <1>3, <4>2 DEF Clean
        <5>2. ~(accounts[q.rows[i]] > 0)
          BY <1>1, <5>1 DEF ImporterOK
        <5>3. accounts[q.rows[i]] \in Nat
          BY <5>1 DEF ImportIInv, ImportTyped
        <5> QED BY <5>2, <5>3
      <4> QED BY <2>1, <2>3, <3>2, <4>1, <4>3, <4>4 DEF BatchOK
    <3> QED BY <3>1, <3>2
  <2>8. CommitsOverlap'
    BY <2>5, NoImporterTypes DEF ImportIInv, CommitsOverlap
  <2>9. \A n \in Names : NameOK(n)'
    <3>1. \A n \in Names : accounts[n] <= accounts'[n]
      BY <2>3 DEF ImportIInv, ImportTyped
    <3>2. \A n \in Names : Pending(n)' \subseteq Pending(n)
      BY <2>5, NoImporterTypes, PendingOfSame
    <3> QED BY <2>3, <2>4, <3>1, <3>2, NamesKeep
  <2> QED BY <2>4, <2>6, <2>7, <2>8, <2>9 DEF ImportIInv
<1> QED BY <1>2, <1>3 DEF JudgeRows

\* Batches that keep their rows and are not made stale or cached anew.
LEMMA BatchesKeep ==
    ASSUME ImportIInv, UNCHANGED <<accounts, logged, swallowed, importer, imported, runs, boots>>,
           batch' \in [ImportTokens -> Batch],
           \A t \in ImportTokens :
              /\ batch'[t].rows = batch[t].rows /\ batch'[t].stale = batch[t].stale
              /\ batch'[t].unanswered = batch[t].unanswered
              /\ \/ batch'[t].state = batch[t].state
                 \/ batch[t].state = "cached" /\ batch'[t].state = "gone"
    PROVE  ImportIInv'
<1>1. ImportTyped'
  BY DEF ImportIInv, ImportTyped
<1>2. ASSUME NEW k \in Importers PROVE ImporterOK(importer[k])'
  <2>1. ImporterOK(importer[k])
    BY DEF ImportIInv
  <2> QED BY <2>1 DEF ImporterOK, Transacting
<1>3. ASSUME NEW t \in ImportTokens PROVE BatchOK(t)'
  <2>1. BatchOK(t)
    BY DEF ImportIInv
  <2> QED BY <2>1 DEF BatchOK
<1>4. CommitsOverlap'
  BY DEF ImportIInv, CommitsOverlap
<1>5. \A n \in Names : NameOK(n)'
  <2>1. \A n \in Names : accounts[n] <= accounts'[n]
    BY DEF ImportIInv, ImportTyped
  <2>2. \A n \in Names : Pending(n)' \subseteq Pending(n)
    BY DEF Pending
  <2> QED BY <1>1, <2>1, <2>2, NamesKeep
<1> QED BY <1>1, <1>2, <1>3, <1>4, <1>5 DEF ImportIInv

LEMMA ExpireBatchKeeps ==
    ASSUME ImportIInv, ExpireBatch PROVE ImportIInv'
<1>1. PICK t \in ImportTokens : batch' = [batch EXCEPT ![t].expired = TRUE]
  BY DEF ExpireBatch
<1>2. ASSUME NEW u \in ImportTokens
      PROVE  /\ batch'[u] \in Batch /\ batch'[u].rows = batch[u].rows
             /\ batch'[u].stale = batch[u].stale /\ batch'[u].state = batch[u].state
             /\ batch'[u].unanswered = batch[u].unanswered
  <2>1. batch[u] \in Batch
    BY DEF ImportIInv, ImportTyped
  <2>2. batch'[u] = IF u = t THEN [batch[u] EXCEPT !.expired = TRUE] ELSE batch[u]
    BY <1>1 DEF ImportIInv, ImportTyped
  <2> QED BY <2>1, <2>2 DEF Batch
<1>3. batch' \in [ImportTokens -> Batch]
  BY <1>1, <1>2 DEF ImportIInv, ImportTyped
<1> QED BY <1>2, <1>3, BatchesKeep DEF ExpireBatch

LEMMA BeginKeeps ==
    ASSUME ImportIInv, NEW c \in Importers, NEW t \in ImportTokens, ImporterAt(c, "idle"),
           batch[t].state = "cached", BeginTransaction(c, t),
           UNCHANGED <<accounts, logged, swallowed, imported, runs, boots>>
    PROVE  ImportIInv'
<1> USE UserImportAssumption
<1> DEFINE others == {k \in Importers \ {c} : importer[k].token = t}
           overlaps == others # {}
           rows == batch[t].rows
           new == [NoImporter EXCEPT !.at = "insert", !.token = t, !.rows = rows,
                                     !.row = 1, !.overlaps = overlaps]
<1>1. /\ UNCHANGED batch
      /\ importer' = [k \in Importers |->
            IF k = c THEN new
            ELSE IF k \in others THEN [importer[k] EXCEPT !.overlaps = TRUE]
            ELSE importer[k]]
  BY DEF BeginTransaction, Committing
<1>2. rows \in Rows /\ Len(rows) \in Nat
  BY RowsAreSequences DEF ImportIInv, ImportTyped, Batch
<1>3. /\ new \in Importer /\ new.at = "insert" /\ new.token = t /\ new.rows = rows
      /\ new.row = 1 /\ new.overlaps = overlaps
  <2>1. overlaps \in BOOLEAN
    OBVIOUS
  <2> HIDE DEF overlaps, rows
  <2> QED BY <1>2, <2>1, NoImporterTypes DEF Importer, ImporterSteps
<1>4. importer'[c] = new
  BY <1>1
<1>5. ASSUME NEW k \in Importers, k # c
      PROVE  /\ importer'[k] \in Importer
             /\ importer'[k].at = importer[k].at /\ importer'[k].token = importer[k].token
             /\ importer'[k].rows = importer[k].rows /\ importer'[k].row = importer[k].row
             /\ importer'[k].found = importer[k].found
             /\ importer'[k].stale = importer[k].stale
             /\ importer[k].overlaps \/ importer[k].token = t => importer'[k].overlaps
  <2>1. importer[k] \in Importer
    BY DEF ImportIInv, ImportTyped
  <2>2. importer'[k] = IF importer[k].token = t THEN [importer[k] EXCEPT !.overlaps = TRUE]
                       ELSE importer[k]
    BY <1>1, <1>5
  <2> QED BY <2>1, <2>2 DEF Importer
<1> HIDE DEF new
<1>6. ImportTyped'
  <2>1. importer' \in [Importers -> Importer]
    BY <1>1, <1>3, <1>4, <1>5
  <2> QED BY <1>1, <2>1 DEF ImportIInv, ImportTyped
\* Whoever committed this token before and was answered is about to drop it.
<1>7. ~overlaps /\ ~batch[t].unanswered => runs[t] = 0
  <2> SUFFICES ASSUME ~overlaps, ~batch[t].unanswered, runs[t] # 0 PROVE FALSE
    OBVIOUS
  <2>1. runs[t] > 0
    BY DEF ImportIInv, ImportTyped
  <2>2. PICK k \in Importers : importer[k].at = "drop" /\ importer[k].token = t
    BY <2>1 DEF ImportIInv, BatchOK
  <2>3. k # c
    BY <2>2 DEF ImporterAt
  <2> QED BY <2>2, <2>3
<1>8. ASSUME NEW k \in Importers PROVE ImporterOK(importer[k])'
  <2>1. CASE k = c
    <3>1. /\ importer'[c] \in Importer /\ importer'[c].at = "insert"
          /\ importer'[c].token = t /\ importer'[c].rows = batch'[t].rows
          /\ importer'[c].row = 1 /\ importer'[c].overlaps = overlaps
      BY <1>1, <1>3, <1>4
    <3>2. 1 \in 1..(Len(batch'[t].rows) + 1)
      BY <1>1, <1>2
    <3> HIDE DEF overlaps
    <3> QED BY <1>1, <1>7, <2>1, <3>1, <3>2 DEF ImporterOK, Transacting
  <2>2. CASE k # c
    <3>1. ImporterOK(importer[k])
      BY DEF ImportIInv
    <3> QED BY <1>1, <1>5, <2>2, <3>1 DEF ImporterOK, Transacting
  <2> QED BY <2>1, <2>2
<1>9. ASSUME NEW u \in ImportTokens PROVE BatchOK(u)'
  <2>1. BatchOK(u)
    BY DEF ImportIInv
  <2>2. ASSUME NEW k \in Importers, importer[k].at = "drop"
        PROVE  importer'[k].at = "drop" /\ importer'[k].token = importer[k].token
    BY <1>5, <2>2 DEF ImporterAt
  <2> QED BY <1>1, <2>1, <2>2 DEF BatchOK
<1>10. CommitsOverlap'
  <2> SUFFICES ASSUME NEW j \in Importers, NEW k \in Importers, j # k,
                      importer'[j].token = importer'[k].token,
                      importer'[j].token # NoToken
               PROVE  importer'[j].overlaps
    BY DEF CommitsOverlap
  <2>1. CASE j = c
    <3>1. k # c /\ importer[k].token = t
      BY <1>3, <1>4, <1>5, <2>1
    <3>2. overlaps
      BY <3>1
    <3> HIDE DEF overlaps
    <3> QED BY <1>3, <1>4, <2>1, <3>2
  <2>2. CASE k = c
    BY <1>3, <1>4, <1>5, <2>2
  <2>3. CASE j # c /\ k # c
    <3>1. importer[j].overlaps
      BY <1>5, <2>3 DEF ImportIInv, CommitsOverlap
    <3> QED BY <1>5, <2>3, <3>1
  <2> QED BY <2>1, <2>2, <2>3
<1>11. \A n \in Names : NameOK(n)'
  <2>1. \A n \in Names : accounts[n] <= accounts'[n]
    BY DEF ImportIInv, ImportTyped
  <2>2. ASSUME NEW n \in Names PROVE Pending(n)' \subseteq Pending(n)
    <3> SUFFICES ASSUME NEW k \in Importers, NEW i \in 1..MaxRows,
                        importer'[k].at \in {"insert", "log"}, i < importer'[k].row,
                        importer'[k].rows[i] = n
                 PROVE  /\ importer[k].at \in {"insert", "log"} /\ i < importer[k].row
                        /\ importer[k].rows[i] = n
      BY DEF Pending
    <3>1. k # c
      BY <1>3, <1>4
    <3> QED BY <1>5, <3>1
  <2> QED BY <1>6, <2>1, <2>2, NamesKeep
<1> QED BY <1>6, <1>8, <1>9, <1>10, <1>11 DEF ImportIInv

LEMMA CommitKeeps ==
    ASSUME ImportIInv, NEW c \in Importers, Commit(c) PROVE ImportIInv'
<1>1. PICK t \in ImportTokens :
         batch[t].state = "cached" /\ (Refuse(c, t) \/ BeginTransaction(c, t))
  BY DEF Commit
<1>2. UNCHANGED <<accounts, logged, swallowed, imported, runs, boots>> /\ ImporterAt(c, "idle")
  BY DEF Commit
<1>3. CASE Refuse(c, t)
  <2>1. ASSUME NEW u \in ImportTokens
        PROVE  /\ batch'[u] \in Batch /\ batch'[u].rows = batch[u].rows
               /\ batch'[u].stale = batch[u].stale
               /\ batch'[u].unanswered = batch[u].unanswered
               /\ batch'[u].state = IF u = t THEN "gone" ELSE batch[u].state
    <3>1. batch[u] \in Batch
      BY DEF ImportIInv, ImportTyped
    <3>2. batch'[u] = IF u = t THEN [batch[u] EXCEPT !.state = "gone"] ELSE batch[u]
      BY <1>3 DEF Refuse, ImportIInv, ImportTyped
    <3> QED BY <3>1, <3>2 DEF Batch
  <2>2. batch' \in [ImportTokens -> Batch]
    BY <1>3, <2>1 DEF Refuse, ImportIInv, ImportTyped
  <2> QED BY <1>1, <1>2, <1>3, <2>1, <2>2, BatchesKeep DEF Refuse
<1>4. CASE BeginTransaction(c, t)
  BY <1>1, <1>2, <1>4, BeginKeeps
<1> QED BY <1>1, <1>3, <1>4

\* The event of a row is written or swallowed before the row counts as pending.
LEMMA LogRowKeeps ==
    ASSUME ImportIInv, NEW c \in Importers, LogRow(c) PROVE ImportIInv'
<1> USE UserImportAssumption
<1> DEFINE q == importer[c]
           new == [q EXCEPT !.at = "insert", !.row = q.row + 1]
<1>1. q.at = "log" /\ ImporterOK(q) /\ q \in Importer
  BY DEF LogRow, ImporterAt, ImportIInv, ImporterOK
<1>2. /\ q.rows \in Rows /\ q.rows \in Seq(Names) /\ Len(q.rows) \in 0..MaxRows
      /\ DOMAIN q.rows = 1..Len(q.rows)
  BY <1>1, RowsAreSequences DEF Importer
<1>3. q.row \in 1..Len(q.rows) /\ q.row \in 1..MaxRows
  BY <1>1, <1>2 DEF ImporterOK, Transacting
<1>4. PICK n \in Names : n = q.rows[q.row]
  BY <1>2, <1>3
<1>5. /\ logged[n] + swallowed[n] < MaxEvents
      /\ \/ logged' = [logged EXCEPT ![n] = @ + 1] /\ swallowed' = swallowed
         \/ swallowed' = [swallowed EXCEPT ![n] = @ + 1] /\ logged' = logged
      /\ importer' = [importer EXCEPT ![c] = new]
      /\ UNCHANGED <<accounts, batch, imported, runs, boots>>
  BY <1>4 DEF LogRow, LoggedName, Goes
<1>6. /\ new \in Importer /\ new.at = "insert" /\ new.token = q.token /\ new.rows = q.rows
      /\ new.row = q.row + 1 /\ new.overlaps = q.overlaps
  <2>1. q.row + 1 \in Nat
    BY <1>3
  <2> QED BY <1>1, <2>1 DEF Importer, ImporterSteps
<1> HIDE DEF new
<1>7. \A k \in Importers : importer'[k] = IF k = c THEN new ELSE importer[k]
  BY <1>5 DEF ImportIInv, ImportTyped
<1>8. \A m \in Names :
         /\ logged[m] \in Nat /\ swallowed[m] \in Nat
         /\ logged'[m] \in 0..MaxEvents /\ swallowed'[m] \in 0..MaxEvents
         /\ logged'[m] + swallowed'[m]
            = logged[m] + swallowed[m] + (IF m = n THEN 1 ELSE 0)
  <2>1. logged \in [Names -> 0..MaxEvents] /\ swallowed \in [Names -> 0..MaxEvents]
    BY DEF ImportIInv, ImportTyped
  <2> QED BY <1>5, <2>1
<1>9. ImportTyped'
  <2>1. logged' \in [Names -> 0..MaxEvents] /\ swallowed' \in [Names -> 0..MaxEvents]
    BY <1>5, <1>8 DEF ImportIInv, ImportTyped
  <2> QED BY <1>5, <1>6, <2>1 DEF ImportIInv, ImportTyped
<1>10. ImporterOK(new)
  <2>1. new.row \in 1..(Len(new.rows) + 1)
    BY <1>2, <1>3, <1>6
  <2> QED BY <1>1, <1>6, <2>1 DEF ImporterOK, Transacting
<1>11. ASSUME NEW k \in Importers PROVE ImporterOK(importer[k])'
  <2>1. ImporterOK(importer'[k])
    BY <1>7, <1>10 DEF ImportIInv
  <2> QED BY <1>5, <2>1 DEF ImporterOK
<1>12. ASSUME NEW t \in ImportTokens PROVE BatchOK(t)'
  <2>1. BatchOK(t)
    BY DEF ImportIInv
  <2>2. ASSUME NEW k \in Importers, importer[k].at = "drop"
        PROVE  importer'[k] = importer[k]
    BY <1>1, <1>7, <2>2
  <2> QED BY <1>5, <2>1, <2>2 DEF BatchOK
<1>13. CommitsOverlap'
  BY <1>6, <1>7 DEF ImportIInv, CommitsOverlap
<1>14. ASSUME NEW m \in Names PROVE NameOK(m)'
  <2> DEFINE old == Pending(m)
             next == Pending(m)'
  <2>1. next \subseteq old \cup (IF m = n THEN {<<c, q.row>>} ELSE {})
    <3> SUFFICES ASSUME NEW k \in Importers, NEW i \in 1..MaxRows,
                        importer'[k].at \in {"insert", "log"}, i < importer'[k].row,
                        importer'[k].rows[i] = m, ~(m = n /\ k = c /\ i = q.row)
                 PROVE  /\ importer[k].at \in {"insert", "log"} /\ i < importer[k].row
                        /\ importer[k].rows[i] = m
      BY DEF Pending
    <3>1. CASE k # c
      BY <1>7, <3>1
    <3>2. CASE k = c
      BY <1>1, <1>3, <1>4, <1>6, <1>7, <3>2
    <3> QED BY <3>1, <3>2
  <2>2. /\ IsFiniteSet(old) /\ Cardinality(old) \in Nat /\ Cardinality(next) \in Nat
    BY PendingFinite
  <2>3. /\ imported[m] \in Nat /\ imported'[m] = imported[m]
        /\ accounts'[m] = accounts[m]
    BY <1>5 DEF ImportIInv, ImportTyped
  <2>4. NameOK(m)
    BY DEF ImportIInv
  <2>5. CASE m # n
    <3>1. Cardinality(next) <= Cardinality(old)
      BY <2>1, <2>2, <2>5, FS_Subset
    <3> QED BY <1>8, <2>2, <2>3, <2>4, <2>5, <3>1 DEF NameOK
  <2>6. CASE m = n
    <3>1. IsFiniteSet(old \cup {<<c, q.row>>})
      BY <2>2, FS_AddElement
    <3>2. Cardinality(old \cup {<<c, q.row>>}) <= Cardinality(old) + 1
      <4> HIDE DEF old
      <4>1. Cardinality(old \cup {<<c, q.row>>}) \in {Cardinality(old), Cardinality(old) + 1}
        BY <2>2, FS_AddElement, Zenon
      <4> QED BY <2>2, <4>1
    <3>3. Cardinality(next) <= Cardinality(old \cup {<<c, q.row>>})
      BY <2>1, <2>6, <3>1, FS_Subset
    <3>4. Cardinality(old \cup {<<c, q.row>>}) \in Nat
      BY <3>1, FS_CardinalityType
    <3>5. Cardinality(next) <= Cardinality(old) + 1
      <4> HIDE DEF next, old
      <4> QED BY <2>2, <3>2, <3>3, <3>4
    <3> QED BY <1>8, <2>2, <2>3, <2>4, <2>6, <3>5 DEF NameOK
  <2> QED BY <2>5, <2>6
<1> QED BY <1>9, <1>11, <1>12, <1>13, <1>14 DEF ImportIInv

LEMMA DropTokenKeeps ==
    ASSUME ImportIInv, NEW c \in Importers, DropToken(c) PROVE ImportIInv'
<1> USE UserImportAssumption
<1> DEFINE q == importer[c]
<1>1. q.at = "drop" /\ ImporterOK(q)
  BY DEF DropToken, ImporterAt, ImportIInv, ImporterOK
<1>2. PICK t \in ImportTokens : t = q.token /\ batch[t].state # "none"
  BY <1>1 DEF ImporterOK, Transacting
<1>3. /\ batch' = [batch EXCEPT ![t] = [batch[t] EXCEPT !.state = "gone"]]
      /\ importer' = [importer EXCEPT ![c] = NoImporter]
      /\ UNCHANGED <<accounts, logged, swallowed, imported, runs, boots>>
  BY <1>2 DEF DropToken, Remaining, Goes
<1>4. ASSUME NEW u \in ImportTokens
      PROVE  /\ batch'[u] \in Batch /\ batch'[u].rows = batch[u].rows
             /\ batch'[u].stale = batch[u].stale
             /\ batch'[u].unanswered = batch[u].unanswered
             /\ batch'[u].state = IF u = t THEN "gone" ELSE batch[u].state
  <2>1. batch[u] \in Batch
    BY DEF ImportIInv, ImportTyped
  <2>2. batch'[u] = IF u = t THEN [batch[u] EXCEPT !.state = "gone"] ELSE batch[u]
    BY <1>3 DEF ImportIInv, ImportTyped
  <2> QED BY <2>1, <2>2 DEF Batch
<1>5. ImportTyped'
  <2>1. batch' \in [ImportTokens -> Batch]
    BY <1>3, <1>4 DEF ImportIInv, ImportTyped
  <2> QED BY <1>3, <2>1, NoImporterTypes DEF ImportIInv, ImportTyped
<1>6. \A k \in Importers : importer'[k] = IF k = c THEN NoImporter ELSE importer[k]
  BY <1>3 DEF ImportIInv, ImportTyped
<1>7. ASSUME NEW k \in Importers PROVE ImporterOK(importer[k])'
  <2>1. ImporterOK(importer'[k])
    BY <1>6, NoImporterOK DEF ImportIInv
  <2> QED BY <1>2, <1>3, <1>4, <2>1 DEF ImporterOK, Transacting
<1>8. ASSUME NEW u \in ImportTokens PROVE BatchOK(u)'
  <2>1. BatchOK(u)
    BY DEF ImportIInv
  <2>2. ASSUME u # t, NEW k \in Importers, importer[k].at = "drop", importer[k].token = u
        PROVE  importer'[k] = importer[k]
    BY <1>2, <1>6, <2>2
  <2> QED BY <1>2, <1>3, <1>4, <2>1, <2>2 DEF BatchOK
<1>9. CommitsOverlap'
  BY <1>6, NoImporterTypes DEF ImportIInv, CommitsOverlap
<1>10. \A n \in Names : NameOK(n)'
  <2>1. \A n \in Names : accounts[n] <= accounts'[n]
    BY <1>3 DEF ImportIInv, ImportTyped
  <2>2. \A n \in Names : Pending(n)' \subseteq Pending(n)
    BY <1>6, NoImporterTypes, PendingOfSame
  <2> QED BY <1>3, <1>5, <2>1, <2>2, NamesKeep
<1> QED BY <1>5, <1>7, <1>8, <1>9, <1>10 DEF ImportIInv

LEMMA RestartProcessKeeps ==
    ASSUME ImportIInv, RestartProcess PROVE ImportIInv'
<1> USE UserImportAssumption
<1>1. /\ boots < MaxBoots /\ boots' = boots + 1
      /\ importer' = [c \in Importers |-> NoImporter]
      /\ UNCHANGED <<accounts, logged, swallowed, imported, runs>>
  BY DEF RestartProcess
<1>2. ASSUME NEW u \in ImportTokens
      PROVE  /\ batch'[u] \in Batch /\ batch'[u].state # "cached"
             /\ batch'[u].rows = batch[u].rows
             /\ batch'[u].state = "none" <=> batch[u].state = "none"
             /\ batch[u].state # "none" => batch'[u].stale = batch[u].stale
  <2>1. batch[u] \in Batch
    BY DEF ImportIInv, ImportTyped
  <2>2. batch'[u] = IF batch[u].state = "none" THEN NoBatch
                    ELSE [batch[u] EXCEPT !.state = "gone"]
    BY DEF RestartProcess, Remaining
  <2>3. batch[u].state = "none" => batch[u].rows = <<>>
    BY DEF ImportIInv, BatchOK
  <2>4. CASE batch[u].state = "none"
    BY <2>2, <2>3, <2>4, NoBatchTypes
  <2>5. CASE batch[u].state # "none"
    BY <2>1, <2>2, <2>5 DEF Batch
  <2> QED BY <2>4, <2>5
<1>3. ImportTyped'
  <2>1. batch' \in [ImportTokens -> Batch]
    BY <1>2 DEF RestartProcess
  <2>2. boots' \in 0..MaxBoots
    BY <1>1 DEF ImportIInv, ImportTyped
  <2> QED BY <1>1, <2>1, <2>2, NoImporterTypes DEF ImportIInv, ImportTyped
<1>4. ASSUME NEW k \in Importers PROVE ImporterOK(importer[k])'
  <2>1. importer'[k] = NoImporter
    BY <1>1
  <2> QED BY <2>1, NoImporterTypes DEF ImporterOK, Transacting
<1>5. ASSUME NEW u \in ImportTokens PROVE BatchOK(u)'
  <2>1. BatchOK(u)
    BY DEF ImportIInv
  <2>2. DOMAIN <<>> = {}
    OBVIOUS
  <2> QED BY <1>1, <1>2, <2>1, <2>2 DEF BatchOK
<1>6. CommitsOverlap'
  BY <1>1, NoImporterTypes DEF CommitsOverlap
<1>7. \A n \in Names : NameOK(n)'
  <2>1. \A n \in Names : accounts[n] <= accounts'[n]
    BY <1>1 DEF ImportIInv, ImportTyped
  <2>2. \A n \in Names : Pending(n)' \subseteq Pending(n)
    BY <1>1, NoImporterTypes, PendingOfSame
  <2> QED BY <1>1, <1>3, <2>1, <2>2, NamesKeep
<1> QED BY <1>3, <1>4, <1>5, <1>6, <1>7 DEF ImportIInv

\* New accounts make every lookup and every batch kept stale.
LEMMA AddedEffect ==
    ASSUME ImportIInv, NEW c \in Importers, NEW new \in Importer, NEW unheard,
           Added(c, new, unheard)
    PROVE  /\ importer' \in [Importers -> Importer] /\ importer'[c] = new
           /\ \A k \in Importers \ {c} :
                /\ importer'[k].at = importer[k].at
                /\ importer'[k].token = importer[k].token
                /\ importer'[k].rows = importer[k].rows
                /\ importer'[k].row = importer[k].row
                /\ importer[k].overlaps => importer'[k].overlaps
                /\ ~importer'[k].overlaps => ~importer[k].overlaps
                /\ importer[k].at = "judge" => importer'[k].stale
           /\ batch' \in [ImportTokens -> Batch]
           /\ \A t \in ImportTokens :
                /\ batch'[t].state = batch[t].state /\ batch'[t].rows = batch[t].rows
                /\ batch[t].state # "none" => batch'[t].stale
                /\ batch[t].unanswered \/ t = unheard => batch'[t].unanswered
<1>1. ASSUME NEW k \in Importers \ {c}
      PROVE  /\ importer'[k] \in Importer
             /\ importer'[k].at = importer[k].at /\ importer'[k].token = importer[k].token
             /\ importer'[k].rows = importer[k].rows /\ importer'[k].row = importer[k].row
             /\ importer[k].overlaps => importer'[k].overlaps
             /\ ~importer'[k].overlaps => ~importer[k].overlaps
             /\ importer[k].at = "judge" => importer'[k].stale
  <2>1. importer[k] \in Importer
    BY DEF ImportIInv, ImportTyped
  <2>2. importer'[k] = IF importer[k].at = "judge"
                       THEN [importer[k] EXCEPT !.stale = TRUE] ELSE importer[k]
    BY DEF Added, ImporterAt
  <2> QED BY <2>1, <2>2 DEF Importer
<1>2. importer'[c] = new
  BY DEF Added
<1>3. importer' \in [Importers -> Importer]
  BY <1>1, <1>2 DEF Added
<1>4. ASSUME NEW t \in ImportTokens
      PROVE  /\ batch'[t] \in Batch
             /\ batch'[t].state = batch[t].state /\ batch'[t].rows = batch[t].rows
             /\ batch[t].state # "none" => batch'[t].stale
             /\ batch[t].unanswered \/ t = unheard => batch'[t].unanswered
  <2>1. batch[t] \in Batch
    BY DEF ImportIInv, ImportTyped
  <2>2. batch'[t] = [batch[t] EXCEPT !.stale = batch[t].state # "none",
                                     !.unanswered = @ \/ t = unheard]
    BY DEF Added
  <2> QED BY <2>1, <2>2 DEF Batch
<1>5. batch' \in [ImportTokens -> Batch]
  BY <1>4 DEF Added
<1> QED BY <1>1, <1>2, <1>3, <1>4, <1>5

LEMMA CreateAccountKeeps ==
    ASSUME ImportIInv, CreateAccount PROVE ImportIInv'
<1> USE UserImportAssumption
<1>1. PICK n \in Names : accounts[n] = 0 /\ accounts' = [accounts EXCEPT ![n] = 1]
  BY DEF CreateAccount
<1>2. UNCHANGED <<logged, swallowed, imported, runs, boots>>
  BY DEF CreateAccount
<1>3. PICK c \in Importers : Added(c, IF ImporterAt(c, "judge")
                                      THEN [importer[c] EXCEPT !.stale = TRUE]
                                      ELSE importer[c], NoToken)
  BY DEF CreateAccount
<1> DEFINE new == IF ImporterAt(c, "judge") THEN [importer[c] EXCEPT !.stale = TRUE]
                  ELSE importer[c]
<1>4. /\ new \in Importer
      /\ new.at = importer[c].at /\ new.token = importer[c].token
      /\ new.rows = importer[c].rows /\ new.row = importer[c].row
      /\ importer[c].overlaps => new.overlaps
      /\ ~new.overlaps => ~importer[c].overlaps
      /\ new.at = "judge" => new.stale
  <2>1. importer[c] \in Importer
    BY DEF ImportIInv, ImportTyped
  <2> QED BY <2>1 DEF Importer, ImporterAt
<1> HIDE DEF new
<1>5. Added(c, new, NoToken)
  BY <1>3 DEF new
<1>6. /\ importer' \in [Importers -> Importer] /\ batch' \in [ImportTokens -> Batch]
      /\ \A k \in Importers :
           /\ importer'[k].at = importer[k].at /\ importer'[k].token = importer[k].token
           /\ importer'[k].rows = importer[k].rows /\ importer'[k].row = importer[k].row
           /\ importer[k].overlaps => importer'[k].overlaps
           /\ ~importer'[k].overlaps => ~importer[k].overlaps
           /\ importer'[k].at = "judge" => importer'[k].stale
      /\ \A t \in ImportTokens :
           /\ batch'[t].state = batch[t].state /\ batch'[t].rows = batch[t].rows
           /\ batch[t].state # "none" => batch'[t].stale
           /\ batch[t].unanswered => batch'[t].unanswered
  <2> HIDE DEF new
  <2> QED BY <1>4, <1>5, AddedEffect
<1>7. \A m \in Names : accounts[m] <= accounts'[m] /\ accounts'[m] \in 0..MaxAccounts
  BY <1>1 DEF ImportIInv, ImportTyped
<1>8. ImportTyped'
  <2>1. accounts' \in [Names -> 0..MaxAccounts]
    BY <1>1, <1>7 DEF ImportIInv, ImportTyped
  <2> QED BY <1>2, <1>6, <2>1 DEF ImportIInv, ImportTyped
<1>9. ASSUME NEW k \in Importers PROVE ImporterOK(importer[k])'
  <2>1. ImporterOK(importer[k]) /\ importer'[k] \in Importer
    BY <1>6 DEF ImportIInv
  <2> QED BY <1>2, <1>6, <2>1 DEF ImporterOK, Transacting
<1>10. ASSUME NEW t \in ImportTokens PROVE BatchOK(t)'
  <2>1. BatchOK(t) /\ batch'[t] \in Batch
    BY <1>6 DEF ImportIInv
  <2>2. DOMAIN <<>> = {}
    OBVIOUS
  <2> QED BY <1>2, <1>6, <2>1, <2>2 DEF BatchOK
<1>11. CommitsOverlap'
  BY <1>6 DEF ImportIInv, CommitsOverlap
<1>12. \A m \in Names : NameOK(m)'
  <2>1. \A m \in Names : Pending(m)' \subseteq Pending(m)
    BY <1>6, PendingOfSame
  <2> QED BY <1>2, <1>7, <1>8, <2>1, NamesKeep
<1> QED BY <1>8, <1>9, <1>10, <1>11, <1>12 DEF ImportIInv

LEMMA OccurrencesFinite ==
    ASSUME NEW n, NEW rows \in Rows
    PROVE  /\ IsFiniteSet({i \in DOMAIN rows : rows[i] = n})
           /\ Occurrences(n, rows) \in Nat
<1>1. DOMAIN rows = 1..Len(rows) /\ Len(rows) \in Int
  BY UserImportAssumption, RowsAreSequences
<1>2. IsFiniteSet(DOMAIN rows)
  BY <1>1, FS_Interval
<1>3. {i \in DOMAIN rows : rows[i] = n} \in SUBSET DOMAIN rows
  OBVIOUS
<1> QED BY <1>2, <1>3, FS_Subset, FS_CardinalityType DEF Occurrences

\* What a commit does to the tables.
LEMMA CommitEffect ==
    ASSUME ImportIInv, NEW c \in Importers, RowsCommitted(c)
    PROVE  \E t \in ImportTokens :
             /\ t = importer[c].token /\ batch[t].rows = importer[c].rows
             /\ batch[t].rows \in Rows /\ batch[t].state # "none"
             /\ importer[c].row = Len(batch[t].rows) + 1
             /\ \A n \in Names :
                  /\ accounts'[n] = accounts[n] + Occurrences(n, batch[t].rows)
                  /\ imported'[n] = imported[n] + Occurrences(n, batch[t].rows)
                  /\ accounts'[n] <= MaxAccounts
             /\ accounts' = [n \in Names |-> accounts'[n]]
             /\ imported' = [n \in Names |-> imported'[n]]
             /\ runs' = [runs EXCEPT ![t] = @ + 1]
<1> USE UserImportAssumption
<1> DEFINE q == importer[c]
<1>1. q.at = "insert" /\ ImporterOK(q)
  BY DEF RowsCommitted, ImporterAt, ImportIInv
<1>2. PICK t \in ImportTokens : t = q.token
  BY <1>1 DEF ImporterOK, Transacting
<1>3. batch[t].rows = q.rows /\ batch[t].state # "none" /\ q.row \in 1..(Len(q.rows) + 1)
  BY <1>1, <1>2 DEF ImporterOK, Transacting
<1>4. q.rows \in Rows
  BY <1>1 DEF ImporterOK, Importer
<1>5. q.rows \in Seq(Names) /\ Len(q.rows) \in Nat
  BY <1>4, RowsAreSequences
<1>6. q.row = Len(q.rows) + 1
  BY <1>3, <1>5 DEF RowsCommitted, AllInserted
<1>7. SubSeq(q.rows, 1, q.row - 1) = q.rows
  <2>1. q.row - 1 = Len(q.rows)
    BY <1>5, <1>6
  <2> QED BY <1>5, <2>1, SubSeqFull
<1> DEFINE Plus(count) == [n \in Names |-> count[n] + Occurrences(n, q.rows)]
<1>8. /\ \A n \in Names : Plus(accounts)[n] <= MaxAccounts
      /\ accounts' = Plus(accounts) /\ imported' = Plus(imported)
      /\ runs' = [runs EXCEPT ![t] = @ + 1]
  BY <1>2, <1>7 DEF RowsCommitted
<1> QED BY <1>2, <1>3, <1>4, <1>6, <1>8

\* The rows of a commit were pending.
LEMMA CommittedWerePending ==
    ASSUME ImportIInv, NEW c \in Importers, RowsCommitted(c), NEW n \in Names,
           \A k \in Importers : importer'[k].at \in {"insert", "log"} =>
              /\ k # c /\ importer[k].at = importer'[k].at
              /\ importer[k].row = importer'[k].row /\ importer[k].rows = importer'[k].rows
    PROVE  Cardinality(Pending(n)') + Occurrences(n, importer[c].rows)
           <= Cardinality(Pending(n))
<1> USE UserImportAssumption
<1>1. PICK rows \in Rows : /\ rows = importer[c].rows
                           /\ importer[c].row = Len(rows) + 1
                           /\ importer[c].at = "insert"
  BY CommitEffect DEF RowsCommitted, ImporterAt
<1>2. Len(rows) \in 0..MaxRows /\ DOMAIN rows = 1..Len(rows)
  BY RowsAreSequences
<1> DEFINE old == Pending(n)
           next == Pending(n)'
           occ == {i \in DOMAIN rows : rows[i] = n}
           removed == {<<c, i>> : i \in occ}
           f == [i \in occ |-> <<c, i>>]
<1>3. /\ IsFiniteSet(old) /\ Cardinality(old) \in Nat
      /\ IsFiniteSet(next) /\ Cardinality(next) \in Nat
  BY PendingFinite
<1>4. removed \subseteq old
  <2> SUFFICES ASSUME NEW i \in occ PROVE <<c, i>> \in old
    OBVIOUS
  <2>1. i \in 1..MaxRows /\ i < Len(rows) + 1
    BY <1>2
  <2> QED BY <1>1, <2>1 DEF Pending
<1>5. next \subseteq old \ removed
  <2> SUFFICES ASSUME NEW k \in Importers, NEW i \in 1..MaxRows,
                      importer'[k].at \in {"insert", "log"}, i < importer'[k].row,
                      importer'[k].rows[i] = n
               PROVE  <<k, i>> \in old \ removed
    BY DEF Pending
  <2> QED BY DEF Pending
<1>6. IsFiniteSet(removed) /\ Cardinality(removed) \in Nat
  BY <1>3, <1>4, FS_Subset, FS_CardinalityType
<1>7. Cardinality(occ) <= Cardinality(removed)
  <2>1. f \in [occ -> removed]
    OBVIOUS
  <2>2. \A i, j \in occ : f[i] = f[j] => i = j
    OBVIOUS
  <2>3. f \in Injection(occ, removed)
    <3> HIDE DEF f, occ, removed
    <3> QED BY <2>1, <2>2 DEF Injection, IsInjective
  <2> HIDE DEF f, occ, removed
  <2> QED BY <1>6, <2>3, FS_Injection
<1>8. Cardinality(old \ removed) = Cardinality(old) - Cardinality(removed)
  <2>1. old \cap removed = removed
    BY <1>4
  <2> HIDE DEF old, removed
  <2> QED BY <1>3, <2>1, FS_Difference
<1>9. IsFiniteSet(old \ removed) /\ Cardinality(next) <= Cardinality(old \ removed)
  <2>1. IsFiniteSet(old \ removed)
    BY <1>3, FS_Difference
  <2> HIDE DEF old, next, removed
  <2> QED BY <1>5, <2>1, FS_Subset
<1>10. Cardinality(occ) = Occurrences(n, importer[c].rows) /\ Cardinality(occ) \in Nat
  BY <1>1, OccurrencesFinite DEF Occurrences
<1> HIDE DEF old, next, removed, occ
<1>11. Cardinality(next) + Cardinality(occ) <= Cardinality(old)
  BY <1>3, <1>6, <1>7, <1>8, <1>9, <1>10
<1> QED BY <1>10, <1>11 DEF old, next

\* Rows are committed; the request goes on to drop the token, or never learns of it.
LEMMA RowsCommittedKeeps ==
    ASSUME ImportIInv, NEW c \in Importers, RowsCommitted(c),
           NEW new \in Importer, NEW unheard, Added(c, new, unheard),
           \/ /\ new.at = "drop" /\ new.token = importer[c].token
              /\ new.rows = importer[c].rows /\ new.row = importer[c].row
              /\ new.overlaps = importer[c].overlaps
           \/ new = NoImporter /\ unheard = importer[c].token
    PROVE  ImportIInv'
<1> USE UserImportAssumption
<1> DEFINE q == importer[c]
<1>1. q.at = "insert" /\ ImporterOK(q) /\ q \in Importer
  BY DEF RowsCommitted, ImporterAt, ImportIInv, ImporterOK
<1>2. PICK t \in ImportTokens :
             /\ t = importer[c].token /\ batch[t].rows = importer[c].rows
             /\ batch[t].rows \in Rows /\ batch[t].state # "none"
             /\ importer[c].row = Len(batch[t].rows) + 1
             /\ \A n \in Names :
                  /\ accounts'[n] = accounts[n] + Occurrences(n, batch[t].rows)
                  /\ imported'[n] = imported[n] + Occurrences(n, batch[t].rows)
                  /\ accounts'[n] <= MaxAccounts
             /\ accounts' = [n \in Names |-> accounts'[n]]
             /\ imported' = [n \in Names |-> imported'[n]]
             /\ runs' = [runs EXCEPT ![t] = @ + 1]
  BY CommitEffect
<1>3. UNCHANGED <<logged, swallowed, boots>>
  BY DEF RowsCommitted
<1>4. \/ new.at = "drop" /\ new.token = t /\ new.rows = q.rows /\ new.row = q.row
         /\ new.overlaps = q.overlaps
      \/ new = NoImporter /\ unheard = t
  BY <1>2
<1>5. /\ importer' \in [Importers -> Importer] /\ importer'[c] = new
      /\ \A k \in Importers \ {c} :
           /\ importer'[k].at = importer[k].at
           /\ importer'[k].token = importer[k].token
           /\ importer'[k].rows = importer[k].rows
           /\ importer'[k].row = importer[k].row
           /\ importer[k].overlaps => importer'[k].overlaps
           /\ ~importer'[k].overlaps => ~importer[k].overlaps
           /\ importer[k].at = "judge" => importer'[k].stale
      /\ batch' \in [ImportTokens -> Batch]
      /\ \A u \in ImportTokens :
           /\ batch'[u].state = batch[u].state /\ batch'[u].rows = batch[u].rows
           /\ batch[u].state # "none" => batch'[u].stale
           /\ batch[u].unanswered \/ u = unheard => batch'[u].unanswered
  BY AddedEffect
<1>6. \A n \in Names :
         /\ Occurrences(n, batch[t].rows) \in Nat
         /\ accounts[n] \in Nat /\ imported[n] \in Nat
         /\ logged[n] \in Nat /\ swallowed[n] \in Nat
         /\ imported[n] <= accounts[n]
  <2> SUFFICES ASSUME NEW n \in Names
               PROVE  /\ Occurrences(n, batch[t].rows) \in Nat
                      /\ accounts[n] \in Nat /\ imported[n] \in Nat
         /\ logged[n] \in Nat /\ swallowed[n] \in Nat
                      /\ imported[n] <= accounts[n]
    OBVIOUS
  <2>1. Occurrences(n, batch[t].rows) \in Nat
    BY <1>2, OccurrencesFinite
  <2> QED BY <2>1 DEF ImportIInv, ImportTyped, NameOK
<1>7. \A n \in Names : /\ accounts'[n] \in 0..MaxAccounts /\ imported'[n] \in 0..MaxAccounts
                       /\ imported'[n] <= accounts'[n]
  BY <1>2, <1>6
<1>8. \A u \in ImportTokens : /\ runs[u] \in Nat
                              /\ runs'[u] = IF u = t THEN runs[u] + 1 ELSE runs[u]
                              /\ runs'[u] \in Nat
  BY <1>2 DEF ImportIInv, ImportTyped
<1>9. ImportTyped'
  <2>1. accounts' \in [Names -> 0..MaxAccounts] /\ imported' \in [Names -> 0..MaxAccounts]
    BY <1>2, <1>7
  <2>2. runs' \in [ImportTokens -> Nat]
    BY <1>2, <1>8 DEF ImportIInv, ImportTyped
  <2> QED BY <1>3, <1>5, <2>1, <2>2 DEF ImportIInv, ImportTyped
<1>10. ASSUME NEW k \in Importers PROVE ImporterOK(importer[k])'
  <2>1. CASE k = c
    <3>1. q.row \in 1..(Len(q.rows) + 1) /\ runs'[t] > 0
      BY <1>1, <1>8 DEF ImporterOK, Transacting
    <3>2. CASE new = NoImporter
      BY <1>5, <2>1, <3>2, NoImporterTypes DEF ImporterOK, Transacting
    <3>3. CASE new.at = "drop" /\ new.token = t /\ new.rows = q.rows /\ new.row = q.row
      BY <1>2, <1>5, <2>1, <3>1, <3>3 DEF ImporterOK, Transacting
    <3> QED BY <1>4, <3>2, <3>3
  <2>2. CASE k # c
    <3>1. ImporterOK(importer[k]) /\ importer'[k] \in Importer
      BY <1>5 DEF ImportIInv
    <3>2. importer[k].token = t => importer[k].overlaps
      BY <1>2, <2>2 DEF ImportIInv, CommitsOverlap
    <3>3. importer[k].at \in Transacting => importer[k].token \in ImportTokens
      BY <3>1 DEF ImporterOK
    <3>4. importer[k].token # t /\ importer[k].token \in ImportTokens
          => runs'[importer[k].token] = runs[importer[k].token]
      BY <1>8
    <3>5. importer[k].at = "drop" => runs'[importer[k].token] > 0
      BY <1>8, <3>1, <3>3 DEF ImporterOK, Transacting
    <3> QED BY <1>5, <2>2, <3>1, <3>2, <3>3, <3>4, <3>5 DEF ImporterOK, Transacting
  <2> QED BY <2>1, <2>2
<1>11. ASSUME NEW u \in ImportTokens PROVE BatchOK(u)'
  <2>1. BatchOK(u) /\ batch'[u] \in Batch
    BY <1>5 DEF ImportIInv
  <2>2. DOMAIN <<>> = {}
    OBVIOUS
  <2>3. runs'[u] > 0 /\ batch'[u].state = "cached" =>
          \/ batch'[u].unanswered
          \/ \E k \in Importers : importer'[k].at = "drop" /\ importer'[k].token = u
    <3>1. CASE u = t
      BY <1>4, <1>5, <3>1
    <3>2. CASE u # t
      <4> SUFFICES ASSUME runs[u] > 0, batch[u].state = "cached", ~batch[u].unanswered
                   PROVE  \E k \in Importers : importer'[k].at = "drop" /\ importer'[k].token = u
        BY <1>5, <1>8, <3>2
      <4>1. PICK k \in Importers : importer[k].at = "drop" /\ importer[k].token = u
        BY <2>1 DEF BatchOK
      <4>2. k # c
        BY <1>1, <4>1
      <4> QED BY <1>5, <4>1, <4>2
    <3> QED BY <3>1, <3>2
  <2>4. batch'[u].state = "none" => batch'[u].rows = <<>> /\ runs'[u] = 0
    BY <1>2, <1>5, <1>8, <2>1 DEF BatchOK
  <2>5. ~batch'[u].stale => batch'[u].rows = <<>>
    BY <1>5, <2>1 DEF BatchOK
  <2> QED BY <1>5, <2>1, <2>2, <2>3, <2>4, <2>5 DEF BatchOK
<1>12. CommitsOverlap'
  <2>1. \A k \in Importers :
           /\ importer'[k].token \in {importer[k].token, NoToken}
           /\ importer'[k].token # NoToken /\ importer[k].overlaps
              => importer'[k].overlaps
    BY <1>2, <1>4, <1>5, NoImporterTypes
  <2> QED BY <2>1 DEF ImportIInv, CommitsOverlap
<1>13. ASSUME NEW n \in Names PROVE NameOK(n)'
  <2>1. Cardinality(Pending(n)') + Occurrences(n, importer[c].rows)
        <= Cardinality(Pending(n))
    BY <1>4, <1>5, NoImporterTypes, CommittedWerePending
  <2>2. Cardinality(Pending(n)') \in Nat /\ Cardinality(Pending(n)) \in Nat
    BY PendingFinite
  <2>3. imported[n] + Cardinality(Pending(n)) <= logged[n] + swallowed[n]
    BY DEF ImportIInv, NameOK
  <2>4. imported'[n] + Cardinality(Pending(n)') <= logged[n] + swallowed[n]
    <3>1. imported'[n] = imported[n] + Occurrences(n, importer[c].rows)
      BY <1>2
    <3>2. Occurrences(n, importer[c].rows) \in Nat /\ imported[n] \in Nat
          /\ logged[n] \in Nat /\ swallowed[n] \in Nat
      BY <1>2, <1>6
    <3> QED BY <2>1, <2>2, <2>3, <3>1, <3>2
  <2> QED BY <1>3, <1>7, <2>4 DEF NameOK
<1> QED BY <1>9, <1>10, <1>11, <1>12, <1>13 DEF ImportIInv

LEMMA CommitTransactionKeeps ==
    ASSUME ImportIInv, NEW c \in Importers, CommitTransaction(c) PROVE ImportIInv'
<1> DEFINE q == importer[c]
           new == [q EXCEPT !.at = "drop"]
<1>1. RowsCommitted(c) /\ Added(c, new, NoToken)
  BY DEF CommitTransaction
<1>2. q \in Importer
  BY DEF ImportIInv, ImportTyped
<1>3. /\ new \in Importer /\ new.at = "drop" /\ new.token = q.token
      /\ new.rows = q.rows /\ new.row = q.row /\ new.overlaps = q.overlaps
  BY <1>2 DEF Importer, ImporterSteps
<1> HIDE DEF new
<1> QED BY <1>1, <1>3, RowsCommittedKeeps

LEMMA CommitUnansweredKeeps ==
    ASSUME ImportIInv, NEW c \in Importers, CommitUnanswered(c) PROVE ImportIInv'
BY NoImporterTypes, RowsCommittedKeeps DEF CommitUnanswered

LEMMA ImportStepKeeps == ImportIInv /\ [ImportNext]_importVars => ImportIInv'
<1> SUFFICES ASSUME ImportIInv, [ImportNext]_importVars PROVE ImportIInv'
  OBVIOUS
<1>1. ASSUME UNCHANGED importVars PROVE ImportIInv'
  BY <1>1 DEF importVars, ImportIInv, ImportTyped, ImporterOK, Transacting, BatchOK,
              CommitsOverlap, NameOK, Pending
<1> QED BY <1>1, ValidateKeeps, FindNamesKeeps, JudgeRowsKeeps, CommitKeeps,
           InsertRowKeeps, LogRowKeeps, CommitTransactionKeeps, CommitUnansweredKeeps,
           DropTokenKeeps, ImporterFailsKeeps, CreateAccountKeeps, ExpireBatchKeeps, RestartProcessKeeps
           DEF ImportNext

LEMMA ImportInvariant == ImportSpec => []ImportIInv
BY ImportInitOK, ImportStepKeeps, PTL DEF ImportSpec

\* Type correctness of the bulk import.
THEOREM ImportTypeCorrect == ImportSpec => []ImportTypeOK
<1>1. ImportIInv => ImportTypeOK
  BY DEF ImportIInv, ImportTyped, ImportTypeOK
<1> QED BY ImportInvariant, <1>1, PTL

\* Only a COMMIT that is applied, answered or not, counts as a commit.
LEMMA CommitsAre ==
    ASSUME ImportIInv, [ImportNext]_importVars, NEW c \in Importers, Commits(c)
    PROVE  RowsCommitted(c)
<1>1. runs' # runs /\ importer[c].at = "insert" /\ importer'[c].at # "insert"
  BY DEF Commits, ImporterAt
<1>2. PICK k \in Importers : CommitTransaction(k) \/ CommitUnanswered(k)
  BY <1>1 DEF ImportNext, Validate, FindNames, JudgeRows, Commit, InsertRow, LogRow,
              DropToken, ImporterFails, CreateAccount, ExpireBatch, RestartProcess,
              importVars
<1>3. RowsCommitted(k) /\ \E new, unheard : Added(k, new, unheard)
  BY <1>2 DEF CommitTransaction, CommitUnanswered
<1>4. k = c
  <2> SUFFICES ASSUME k # c PROVE FALSE
    OBVIOUS
  <2>1. importer'[c] = importer[c]
    BY <1>1, <1>3 DEF Added, ImporterAt
  <2> QED BY <1>1, <2>1
<1> QED BY <1>3, <1>4

\* The step formulas of the action properties.
ImportedTwiceStep ==
    \A c \in Importers :
       Commits(c) /\ runs[importer[c].token] > 0
       => importer[c].overlaps \/ batch[importer[c].token].unanswered

ImportedClashStep ==
    \A c \in Importers, n \in Names :
       Commits(c) /\ accounts'[n] > accounts[n] /\ accounts'[n] > 1
       => batch[importer[c].token].stale

AllOrNothingStep ==
    \A c \in Importers, n \in Names :
       Commits(c) => accounts'[n] = accounts[n] + Occurrences(n, batch[importer[c].token].rows)

RetryStep ==
    \A t \in ImportTokens :
       /\ batch[t].state = "cached" /\ batch'[t].state = "gone"
       => batch[t].expired \/ runs[t] > 0 \/ boots' # boots

\* A request that no other commit of its token overlaps, and none without an answer
\* precedes, is the first to commit it.
LEMMA ImportedTwiceHolds ==
    ImportIInv /\ [ImportNext]_importVars => ImportedTwiceStep
<1> SUFFICES ASSUME ImportIInv, NEW c \in Importers, Commits(c),
                    runs[importer[c].token] > 0
             PROVE  importer[c].overlaps \/ batch[importer[c].token].unanswered
  BY DEF ImportedTwiceStep
<1>1. ImporterOK(importer[c]) /\ importer[c].at = "insert"
  BY DEF ImportIInv, Commits, ImporterAt
<1> QED BY <1>1 DEF ImporterOK

\* Rows that do not repeat add at most one account of a name, and none of a name
\* that is not among them.
LEMMA DistinctRowsOccurOnce ==
    ASSUME NEW n, NEW rows \in Rows,
           \A i, j \in DOMAIN rows : rows[i] = rows[j] => i = j
    PROVE  /\ Occurrences(n, rows) \in {0, 1}
           /\ Occurrences(n, rows) # 0 => \E i \in DOMAIN rows : rows[i] = n
<1> DEFINE occ == {i \in DOMAIN rows : rows[i] = n}
<1>1. Occurrences(n, rows) = Cardinality(occ)
  BY DEF Occurrences
<1>2. CASE occ = {}
  <2>1. Cardinality(occ) = 0
    BY <1>2, FS_EmptySet
  <2> QED BY <1>1, <2>1
<1>3. CASE occ # {}
  <2>1. PICK i \in DOMAIN rows : rows[i] = n
    BY <1>3
  <2>2. occ = {i}
    BY <2>1
  <2>3. Cardinality({i}) = 1
    BY FS_Singleton
  <2>4. Occurrences(n, rows) = 1
    BY <1>1, <2>2, <2>3
  <2> QED BY <2>1, <2>4
<1> QED BY <1>2, <1>3

LEMMA ImportedClashHolds ==
    ImportIInv /\ [ImportNext]_importVars => ImportedClashStep
<1> SUFFICES ASSUME ImportIInv, [ImportNext]_importVars, NEW c \in Importers,
                    NEW n \in Names, Commits(c), accounts'[n] > accounts[n],
                    accounts'[n] > 1, ~batch[importer[c].token].stale
             PROVE  FALSE
  BY DEF ImportedClashStep
<1>1. RowsCommitted(c)
  BY CommitsAre
<1>2. PICK t \in ImportTokens :
             /\ t = importer[c].token /\ batch[t].rows \in Rows
             /\ accounts'[n] = accounts[n] + Occurrences(n, batch[t].rows)
  BY <1>1, CommitEffect
<1>3. /\ \A i, j \in DOMAIN batch[t].rows : batch[t].rows[i] = batch[t].rows[j] => i = j
      /\ \A i \in DOMAIN batch[t].rows : accounts[batch[t].rows[i]] = 0
  BY <1>2 DEF ImportIInv, BatchOK
<1>4. accounts[n] \in Nat
  BY UserImportAssumption DEF ImportIInv, ImportTyped
<1>5. /\ Occurrences(n, batch[t].rows) \in {0, 1}
      /\ Occurrences(n, batch[t].rows) # 0
         => \E i \in DOMAIN batch[t].rows : batch[t].rows[i] = n
  BY <1>2, <1>3, DistinctRowsOccurOnce
<1>6. Occurrences(n, batch[t].rows) = 1
  BY <1>2, <1>4, <1>5
<1>7. accounts[n] = 0
  BY <1>3, <1>5, <1>6
<1> QED BY <1>2, <1>6, <1>7

LEMMA AllOrNothingHolds ==
    ImportIInv /\ [ImportNext]_importVars => AllOrNothingStep
<1> SUFFICES ASSUME ImportIInv, [ImportNext]_importVars, NEW c \in Importers,
                    NEW n \in Names, Commits(c)
             PROVE  accounts'[n]
                    = accounts[n] + Occurrences(n, batch[importer[c].token].rows)
  BY DEF AllOrNothingStep
<1> QED BY CommitsAre, CommitEffect

\* A batch leaves the memory by expiring, by the commit that holds it, or with the
\* process.
LEMMA RetryHolds ==
    ImportIInv /\ [ImportNext]_importVars => RetryStep
<1> SUFFICES ASSUME ImportIInv, [ImportNext]_importVars, NEW t \in ImportTokens,
                    batch[t].state = "cached", batch'[t].state = "gone"
             PROVE  batch[t].expired \/ runs[t] > 0 \/ boots' # boots
  BY DEF RetryStep
<1>0. batch \in [ImportTokens -> Batch] /\ batch'[t] # batch[t] /\ batch[t] \in Batch
  BY DEF ImportIInv, ImportTyped
<1>1. ASSUME NEW c \in Importers, JudgeRows(c) PROVE FALSE
  BY <1>0, <1>1 DEF JudgeRows
<1>2. ASSUME NEW c \in Importers, Commit(c) PROVE batch[t].expired
  BY <1>0, <1>2 DEF Commit, Refuse, BeginTransaction
<1>3. ASSUME NEW c \in Importers, DropToken(c) PROVE runs[t] > 0
  <2>1. ImporterOK(importer[c]) /\ importer[c].at = "drop"
    BY <1>3 DEF DropToken, ImporterAt, ImportIInv
  <2>2. t = importer[c].token
    BY <1>0, <1>3 DEF DropToken
  <2> QED BY <2>1, <2>2 DEF ImporterOK
<1>4. ASSUME NEW c \in Importers, NEW new, NEW unheard, Added(c, new, unheard) PROVE FALSE
  BY <1>0, <1>4 DEF Added, Batch
<1>5. ASSUME NEW c \in Importers, CommitTransaction(c) \/ CommitUnanswered(c)
      PROVE  FALSE
  BY <1>4, <1>5 DEF CommitTransaction, CommitUnanswered
<1>6. ASSUME CreateAccount PROVE FALSE
  BY <1>4, <1>6 DEF CreateAccount
<1>7. ASSUME ExpireBatch PROVE FALSE
  BY <1>0, <1>7 DEF ExpireBatch, Batch
<1>8. ASSUME RestartProcess PROVE boots' # boots
  BY <1>8, UserImportAssumption DEF RestartProcess, ImportIInv, ImportTyped
<1>9. ASSUME NEW c \in Importers,
             Validate(c) \/ FindNames(c) \/ InsertRow(c) \/ LogRow(c) \/ ImporterFails(c)
      PROVE  FALSE
  BY <1>0, <1>9 DEF Validate, FindNames, InsertRow, LogRow, ImporterFails, BatchAfterFailure
<1>10. ASSUME UNCHANGED importVars PROVE FALSE
  BY <1>0, <1>10 DEF importVars
<1> QED BY <1>1, <1>2, <1>3, <1>5, <1>6, <1>7, <1>8, <1>9, <1>10 DEF ImportNext

\* A token imports its rows twice only in commits that overlap or after one that was
\* applied without an answer, and a name gets a second account only from rows validated
\* before the first one.
THEOREM ImportsDoubleOnlyInRaces == ImportSpec => ImportsExplained
<1>1. ImportIInv /\ [ImportNext]_importVars
      => [ImportedTwiceStep]_importVars /\ [ImportedClashStep]_importVars
  BY ImportedTwiceHolds, ImportedClashHolds
<1>2. ImportSpec => [][ImportedTwiceStep]_importVars
  BY ImportInvariant, <1>1, PTL DEF ImportSpec
<1>3. ImportSpec => [][ImportedClashStep]_importVars
  BY ImportInvariant, <1>1, PTL DEF ImportSpec
<1> QED BY <1>2, <1>3 DEF ImportsExplained, ImportedTwiceExplained,
                          ImportedClashExplained, ImportedTwiceStep, ImportedClashStep

\* An import happens entirely, the event of each account written or swallowed, or
\* stays to be tried again.
THEOREM ImportsAreWhole == ImportSpec => ImportsWhole
<1>1. ImportIInv => UnloggedSwallowed
  <2> SUFFICES ASSUME ImportIInv, NEW n \in Names
               PROVE  imported[n] <= logged[n] + swallowed[n]
    BY DEF UnloggedSwallowed
  <2>1. Cardinality(Pending(n)) \in Nat
    BY PendingFinite
  <2>2. imported[n] \in Nat /\ logged[n] \in Nat /\ swallowed[n] \in Nat
    BY UserImportAssumption DEF ImportIInv, ImportTyped
  <2>3. imported[n] + Cardinality(Pending(n)) <= logged[n] + swallowed[n]
    BY DEF ImportIInv, NameOK
  <2> QED BY <2>1, <2>2, <2>3
<1>2. ImportIInv /\ [ImportNext]_importVars
      => [AllOrNothingStep]_importVars /\ [RetryStep]_importVars
  BY AllOrNothingHolds, RetryHolds
<1>3. ImportSpec => []UnloggedSwallowed
  BY ImportInvariant, <1>1, PTL
<1>4. ImportSpec => [][AllOrNothingStep]_importVars
  BY ImportInvariant, <1>2, PTL DEF ImportSpec
<1>5. ImportSpec => [][RetryStep]_importVars
  BY ImportInvariant, <1>2, PTL DEF ImportSpec
<1> QED BY <1>3, <1>4, <1>5 DEF ImportsWhole, AllOrNothing, RetryPossible,
                                AllOrNothingStep, RetryStep

-----------------------------------------------------------------------------
(* Rate limiting.                                                          *)

\* What is stored of a key: nothing but accepted requests, and all of the window.
KeyOK(a) ==
    /\ stamps[a] \subseteq accepted[a]
    /\ {e \in accepted[a] : instant < e.at + Window} \subseteq stamps[a]
    /\ \A e \in accepted[a] : e.at <= instant

RateIInv ==
    /\ RateTypeOK
    /\ \A a \in Addresses : KeyOK(a)
    /\ WindowBound

LEMMA EntriesFinite == \A S \in SUBSET Entry : IsFiniteSet(S)
<1>1. Limit \in Nat /\ MaxInstant \in Nat
  BY RateLimitAssumption
<1>2. IsFiniteSet(1..MaxInstant) /\ IsFiniteSet(1..Limit)
  BY <1>1, FS_Interval
<1>3. IsFiniteSet((1..MaxInstant) \X (1..Limit))
  BY <1>2, FS_Product
<1> DEFINE toEntry == [p \in (1..MaxInstant) \X (1..Limit) |-> [at |-> p[1], nr |-> p[2]]]
<1>4. toEntry \in Surjection((1..MaxInstant) \X (1..Limit), Entry)
  <2>1. toEntry \in [(1..MaxInstant) \X (1..Limit) -> Entry]
    BY DEF Entry, Times
  <2>2. ASSUME NEW e \in Entry PROVE \E p \in (1..MaxInstant) \X (1..Limit) : toEntry[p] = e
    <3>1. <<e.at, e.nr>> \in (1..MaxInstant) \X (1..Limit)
      BY DEF Entry, Times
    <3>2. e = [at |-> e.at, nr |-> e.nr]
      BY DEF Entry
    <3> QED BY <3>1, <3>2
  <2> QED BY <2>1, <2>2 DEF Surjection
<1>5. IsFiniteSet(Entry)
  BY <1>3, <1>4, FS_Surjection
<1> QED BY <1>5, FS_Subset

LEMMA CountIsNat ==
    ASSUME NEW S, S \in SUBSET Entry
    PROVE  IsFiniteSet(S) /\ Cardinality(S) \in Nat
BY EntriesFinite, FS_CardinalityType

\* Fewer entries of one set are fewer.
LEMMA CountMonotone ==
    ASSUME NEW S \in SUBSET Entry, NEW T \in SUBSET S
    PROVE  Cardinality(T) <= Cardinality(S)
BY EntriesFinite, FS_Subset

\* Below the limit, an instant has a number left.
LEMMA StampFresh ==
    ASSUME RateTypeOK, NEW S \in SUBSET Entry, ~AtLimit(S)
    PROVE  /\ Stamp(S) \in Entry \ S
           /\ Stamp(S).at = instant
           /\ Cardinality(S \cup {Stamp(S)}) <= Limit
<1>0. Limit \in Nat \ {0} /\ instant \in Times
  BY RateLimitAssumption DEF RateTypeOK
<1>1. \E n \in 1..Limit : [at |-> instant, nr |-> n] \notin S
  <2> SUFFICES ASSUME \A n \in 1..Limit : [at |-> instant, nr |-> n] \in S PROVE FALSE
    OBVIOUS
  <2> DEFINE number == [n \in 1..Limit |-> [at |-> instant, nr |-> n]]
  <2>1. number \in Injection(1..Limit, S)
    BY DEF Injection, IsInjective
  <2>2. Cardinality(1..Limit) = Limit
    BY <1>0, FS_Interval
  <2>3. IsFiniteSet(S) /\ Cardinality(S) \in Nat
    BY CountIsNat
  <2> HIDE DEF number
  <2>4. Cardinality(1..Limit) <= Cardinality(S)
    BY <2>1, <2>3, FS_Injection
  <2> QED BY <2>2, <2>3, <2>4, <1>0 DEF AtLimit
<1>2. Stamp(S) \in Entry \ S /\ Stamp(S).at = instant
  <2> DEFINE n0 == CHOOSE n \in 1..Limit : [at |-> instant, nr |-> n] \notin S
  <2>1. n0 \in 1..Limit /\ [at |-> instant, nr |-> n0] \notin S
    BY <1>1
  <2>2. Stamp(S) = [at |-> instant, nr |-> n0]
    BY DEF Stamp
  <2> HIDE DEF n0
  <2> QED BY <2>1, <2>2, <1>0 DEF Entry
<1>3. IsFiniteSet(S) /\ Cardinality(S) \in Nat
  BY CountIsNat
<1>4. Cardinality(S \cup {Stamp(S)}) = Cardinality(S) + 1
  BY <1>2, <1>3, FS_AddElement
<1> QED BY <1>0, <1>2, <1>3, <1>4 DEF AtLimit

LEMMA RateInitially == RateInit => RateIInv
<1> SUFFICES ASSUME RateInit PROVE RateIInv
  OBVIOUS
<1>0. MaxInstant \in Nat \ {0} /\ Limit \in Nat \ {0}
  BY RateLimitAssumption
<1>1. Cardinality({}) = 0
  BY FS_EmptySet
<1>2. RateTypeOK
  <2>1. 1 \in Times
    BY <1>0 DEF Times
  <2>2. \A a \in Addresses : Cardinality(stamps[a]) <= Limit
    BY <1>0, <1>1 DEF RateInit
  <2> QED BY <2>1, <2>2 DEF RateInit, RateTypeOK
<1>3. WindowBound
  <2> SUFFICES ASSUME NEW a \in Addresses, NEW first \in Times
               PROVE  Cardinality({e \in accepted[a] : first <= e.at /\ e.at < first + Window})
                        <= Limit
    BY DEF WindowBound
  <2>1. {e \in accepted[a] : first <= e.at /\ e.at < first + Window} = {}
    BY DEF RateInit
  <2> QED BY <2>1, <1>0, <1>1
<1>4. \A a \in Addresses : KeyOK(a)
  BY DEF RateInit, KeyOK
<1> QED BY <1>2, <1>3, <1>4 DEF RateIInv

\* A step that accepts nothing keeps the bound.
LEMMA BoundKept ==
    ASSUME WindowBound, accepted' = accepted PROVE WindowBound'
BY DEF WindowBound, Times

\* A step that accepts an entry of now where the window has room keeps it.
LEMMA AcceptKeepsBound ==
    ASSUME RateIInv, NEW a \in Addresses, CanActivate(a), ~AtLimit(InWindow(stamps[a]))
    PROVE  RateIInv'
<1> DEFINE recent == InWindow(stamps[a])
           entry == Stamp(recent)
<1>0. /\ Limit \in Nat \ {0} /\ Window \in Nat \ {0} /\ MaxInstant \in Nat
      /\ instant \in Times
      /\ stamps \in [Addresses -> SUBSET Entry] /\ accepted \in [Addresses -> SUBSET Entry]
  BY RateLimitAssumption DEF RateIInv, RateTypeOK
<1>1. recent \in SUBSET Entry /\ recent \subseteq stamps[a]
  BY <1>0 DEF InWindow, Younger
<1>2. /\ entry \in Entry \ recent /\ entry.at = instant
      /\ Cardinality(recent \cup {entry}) <= Limit
  BY <1>1, StampFresh DEF RateIInv
<1>3. /\ stamps' = [stamps EXCEPT ![a] = recent \cup {entry}]
      /\ accepted' = [accepted EXCEPT ![a] = accepted[a] \cup {entry}]
      /\ refused' = NoAddress /\ instant' = instant
  BY DEF CanActivate
<1>k. \A e \in accepted[a] : (instant < e.at + Window) => e \in recent
  BY DEF RateIInv, KeyOK, InWindow, Younger
<1> HIDE DEF recent, entry
<1>4. RateTypeOK'
  <2>1. \A b \in Addresses : Cardinality(stamps'[b]) <= Limit
    BY <1>0, <1>2, <1>3 DEF RateIInv, RateTypeOK
  <2>2. stamps' \in [Addresses -> SUBSET Entry] /\ accepted' \in [Addresses -> SUBSET Entry]
    BY <1>0, <1>1, <1>2, <1>3
  <2> QED BY <1>0, <1>3, <2>1, <2>2 DEF RateTypeOK, Entry, Times
<1>5. ASSUME NEW b \in Addresses PROVE KeyOK(b)'
  <2>1. CASE b # a
    BY <2>1, <1>0, <1>3 DEF RateIInv, KeyOK
  <2>2. CASE b = a
    <3>1. /\ stamps'[a] = recent \cup {entry} /\ accepted'[a] = accepted[a] \cup {entry}
      BY <1>0, <1>3
    <3>2. recent \subseteq accepted[a] /\ \A e \in accepted[a] : e.at <= instant
      BY <1>1 DEF RateIInv, KeyOK
    <3>3. stamps'[a] \subseteq accepted'[a]
      BY <3>1, <3>2
    <3>4. \A e \in accepted'[a] : e.at <= instant'
      <4>1. instant <= instant
        BY <1>0 DEF Times
      <4> QED BY <4>1, <3>1, <3>2, <1>2, <1>3
    <3>5. {e \in accepted'[a] : instant' < e.at + Window} \subseteq stamps'[a]
      BY <3>1, <1>k, <1>3
    <3> QED BY <2>2, <3>3, <3>4, <3>5 DEF KeyOK
  <2> QED BY <2>1, <2>2
<1>6. WindowBound'
  <2> SUFFICES ASSUME NEW b \in Addresses, NEW first \in Times
               PROVE  Cardinality({e \in accepted'[b] : first <= e.at /\ e.at < first + Window})
                        <= Limit
    BY DEF WindowBound, Times
  <2> DEFINE within(S) == {e \in S : first <= e.at /\ e.at < first + Window}
  <2>0. within(accepted[b]) \in SUBSET Entry /\ Cardinality(within(accepted[b])) <= Limit
    BY <1>0 DEF RateIInv, WindowBound
  <2>1. CASE b # a
    BY <2>0, <2>1, <1>3
  <2>2. CASE b = a /\ ~(first <= instant /\ instant < first + Window)
    <3>1. within(accepted'[b]) = within(accepted[b])
      BY <2>2, <1>0, <1>2, <1>3
    <3> QED BY <3>1, <2>0
  <2>3. CASE b = a /\ first <= instant /\ instant < first + Window
    <3>1. ASSUME NEW e \in accepted[a], first <= e.at PROVE e \in recent
      <4>1. e.at \in Times
        BY <1>0 DEF Entry
      <4>2. instant < e.at + Window
        BY <2>3, <3>1, <4>1, <1>0 DEF Times
      <4> QED BY <4>2, <1>k
    <3>2. within(accepted'[b]) \subseteq recent \cup {entry}
      BY <2>3, <3>1, <1>0, <1>3
    <3>3. recent \cup {entry} \in SUBSET Entry
      BY <1>1, <1>2
    <3> DEFINE some == within(accepted'[b])
    <3> HIDE DEF some
    <3>4. Cardinality(some) <= Cardinality(recent \cup {entry})
      BY <3>2, <3>3, CountMonotone DEF some
    <3>5. some \in SUBSET Entry
      BY <3>2, <3>3 DEF some
    <3>6. Cardinality(some) \in Nat /\ Cardinality(recent \cup {entry}) \in Nat
      BY <3>3, <3>5, CountIsNat
    <3> QED BY <3>4, <3>6, <1>0, <1>2 DEF some
  <2> QED BY <2>1, <2>2, <2>3
<1> QED BY <1>4, <1>5, <1>6 DEF RateIInv

\* Entries that go are out of the window.
LEMMA ForgetKeeps ==
    ASSUME RateIInv, accepted' = accepted, instant' = instant,
           refused' \in Addresses \cup {NoAddress},
           stamps' \in [Addresses -> SUBSET Entry],
           \A b \in Addresses : /\ stamps'[b] \subseteq stamps[b]
                                /\ InWindow(stamps[b]) \subseteq stamps'[b]
    PROVE  RateIInv'
<1>1. \A b \in Addresses : Cardinality(stamps'[b]) <= Limit
  <2> SUFFICES ASSUME NEW b \in Addresses PROVE Cardinality(stamps'[b]) <= Limit
    OBVIOUS
  <2>1. stamps[b] \in SUBSET Entry /\ stamps'[b] \in SUBSET stamps[b]
    BY DEF RateIInv, RateTypeOK
  <2>2. Cardinality(stamps'[b]) <= Cardinality(stamps[b])
    BY <2>1, CountMonotone
  <2>3. Cardinality(stamps'[b]) \in Nat /\ Cardinality(stamps[b]) \in Nat
    BY <2>1, CountIsNat
  <2>4. Cardinality(stamps[b]) <= Limit /\ Limit \in Nat
    BY RateLimitAssumption DEF RateIInv, RateTypeOK
  <2> QED BY <2>2, <2>3, <2>4
<1>2. RateTypeOK'
  BY <1>1 DEF RateIInv, RateTypeOK, Entry, Times
<1>3. \A b \in Addresses : KeyOK(b)'
  BY DEF RateIInv, KeyOK, InWindow, Younger
<1>4. WindowBound'
  BY BoundKept DEF RateIInv
<1> QED BY <1>2, <1>3, <1>4 DEF RateIInv

LEMMA RateStep == RateIInv /\ [RateNext]_rateVars => RateIInv'
<1> SUFFICES ASSUME RateIInv, [RateNext]_rateVars PROVE RateIInv'
  OBVIOUS
<1>0. /\ Window \in Nat \ {0} /\ SweepAge \in Nat /\ SweepAge >= Window
      /\ Limit \in Nat \ {0} /\ MaxInstant \in Nat \ {0} /\ instant \in Times
      /\ stamps \in [Addresses -> SUBSET Entry] /\ accepted \in [Addresses -> SUBSET Entry]
  BY RateLimitAssumption DEF RateIInv, RateTypeOK
<1>1. ASSUME NEW a \in Addresses, CanActivate(a) PROVE RateIInv'
  <2>1. CASE AtLimit(InWindow(stamps[a]))
    <3>1. /\ stamps' = [stamps EXCEPT ![a] = InWindow(stamps[a])]
          /\ refused' = a /\ instant' = instant /\ accepted' = accepted
      BY <1>1, <2>1 DEF CanActivate
    <3>2. \A b \in Addresses : InWindow(stamps[b]) \subseteq stamps[b]
      BY DEF InWindow, Younger
    <3>3. /\ stamps' \in [Addresses -> SUBSET Entry]
          /\ \A b \in Addresses : /\ stamps'[b] \subseteq stamps[b]
                                  /\ InWindow(stamps[b]) \subseteq stamps'[b]
      BY <3>1, <3>2, <1>0
    <3> QED BY <3>1, <3>3, ForgetKeeps
  <2>2. CASE ~AtLimit(InWindow(stamps[a]))
    BY <1>1, <2>2, AcceptKeepsBound
  <2> QED BY <2>1, <2>2
<1>2. CASE Sweep
  <2>1. /\ stamps' = [a \in Addresses |-> Swept(stamps[a])]
        /\ refused' = NoAddress /\ instant' = instant /\ accepted' = accepted
    BY <1>2 DEF Sweep
  <2>2. ASSUME NEW b \in Addresses
        PROVE  /\ Swept(stamps[b]) \subseteq stamps[b]
               /\ InWindow(stamps[b]) \subseteq Swept(stamps[b])
    <3>1. ASSUME NEW e \in stamps[b], instant < e.at + Window PROVE instant < e.at + SweepAge
      <4>1. e.at \in Times
        BY <1>0 DEF Entry
      <4> QED BY <3>1, <4>1, <1>0 DEF Times
    <3> QED BY <3>1 DEF Swept, InWindow, Younger
  <2>3. \A b \in Addresses : stamps'[b] = Swept(stamps[b])
    BY <2>1
  <2>4. stamps' \in [Addresses -> SUBSET Entry]
    BY <2>1, <2>2, <1>0
  <2> QED BY <2>1, <2>2, <2>3, <2>4, ForgetKeeps
<1>3. CASE NextInstant
  <2>1. /\ instant' = instant + 1 /\ instant' \in Times
        /\ refused' = NoAddress /\ stamps' = stamps /\ accepted' = accepted
    BY <1>3, <1>0 DEF NextInstant, Times
  <2>2. RateTypeOK'
    BY <2>1 DEF RateIInv, RateTypeOK, Entry, Times
  <2>3. ASSUME NEW b \in Addresses PROVE KeyOK(b)'
    <3>1. \A e \in accepted[b] : e.at \in Times
      BY <1>0 DEF Entry
    <3>2. \A e \in accepted[b] : (instant + 1 < e.at + Window) => (instant < e.at + Window)
      BY <3>1, <1>0 DEF Times
    <3>3. \A e \in accepted[b] : (e.at <= instant) => (e.at <= instant + 1)
      BY <3>1, <1>0 DEF Times
    <3> QED BY <3>2, <3>3, <2>1 DEF RateIInv, KeyOK
  <2>4. WindowBound'
    BY <2>1, BoundKept DEF RateIInv
  <2> QED BY <2>2, <2>3, <2>4 DEF RateIInv
<1>4. CASE RestartGuard
  <2>1. /\ stamps' = [a \in Addresses |-> {}] /\ accepted' = [a \in Addresses |-> {}]
        /\ refused' = NoAddress /\ instant' = instant
    BY <1>4 DEF RestartGuard
  <2>2. Cardinality({}) = 0
    BY FS_EmptySet
  <2>3. RateTypeOK'
    <3>1. \A a \in Addresses : Cardinality(stamps'[a]) <= Limit
      BY <2>1, <2>2, <1>0
    <3> QED BY <2>1, <3>1, <1>0 DEF RateTypeOK, Entry, Times
  <2>4. \A b \in Addresses : KeyOK(b)'
    BY <2>1 DEF KeyOK
  <2>5. WindowBound'
    <3> SUFFICES ASSUME NEW a \in Addresses, NEW first \in Times
                 PROVE  Cardinality({e \in accepted'[a] : first <= e.at /\ e.at < first + Window})
                          <= Limit
      BY DEF WindowBound, Times
    <3> DEFINE none == {e \in accepted'[a] : first <= e.at /\ e.at < first + Window}
    <3>1. none = {}
      BY <2>1
    <3> HIDE DEF none
    <3>2. Cardinality(none) <= Limit
      BY <3>1, <2>2, <1>0
    <3> QED BY <3>2 DEF none
  <2> QED BY <2>3, <2>4, <2>5 DEF RateIInv
<1>5. CASE UNCHANGED rateVars
  BY <1>5 DEF rateVars, RateIInv, RateTypeOK, KeyOK, WindowBound, Entry, Times
<1> QED BY <1>1, <1>2, <1>3, <1>4, <1>5 DEF RateNext

LEMMA RateInvariant == RateSpec => []RateIInv
BY RateInitially, RateStep, PTL DEF RateSpec

\* Every variable of the rate limiter keeps its type, and a key never stores more than
\* Limit instants, whatever the timer and the clock do.
THEOREM RateTypeCorrect == RateSpec => []RateTypeOK
<1>1. RateIInv => RateTypeOK
  BY DEF RateIInv
<1> QED BY <1>1, RateInvariant, PTL

\* A refusal says that the window is full, and any other step refuses nobody.
LEMMA RefusalStep == RateIInv /\ RefusalExplained /\ [RateNext]_rateVars => RefusalExplained'
<1> SUFFICES ASSUME RateIInv, RefusalExplained, [RateNext]_rateVars PROVE RefusalExplained'
  OBVIOUS
<1>0. NoAddress \notin Addresses
  BY RateLimitAssumption
<1>1. ASSUME refused' = NoAddress PROVE RefusalExplained'
  BY <1>0, <1>1 DEF RefusalExplained
<1>2. CASE UNCHANGED rateVars
  BY <1>2 DEF rateVars, RefusalExplained
<1>3. ASSUME NEW a \in Addresses, CanActivate(a), AtLimit(InWindow(stamps[a]))
      PROVE  RefusalExplained'
  <2>1. refused' = a /\ instant' = instant /\ accepted' = accepted
    BY <1>3 DEF CanActivate
  <2> DEFINE full == {e \in accepted[a] : instant < e.at + Window}
  <2>2. full \in SUBSET Entry
    BY DEF RateIInv, RateTypeOK
  <2>3. InWindow(stamps[a]) \subseteq full
    BY DEF RateIInv, KeyOK, InWindow, Younger
  <2> HIDE DEF full
  <2>4. Cardinality(InWindow(stamps[a])) <= Cardinality(full)
    BY <2>2, <2>3, CountMonotone
  <2>5. Cardinality(InWindow(stamps[a])) \in Nat /\ Cardinality(full) \in Nat /\ Limit \in Nat
    BY <2>2, <2>3, CountIsNat, RateLimitAssumption
  <2>6. Cardinality(full) >= Limit
    BY <2>4, <2>5, <1>3 DEF AtLimit
  <2> QED BY <2>1, <2>6 DEF RefusalExplained, full
<1>4. ASSUME RateNext PROVE
      \/ refused' = NoAddress
      \/ \E a \in Addresses : CanActivate(a) /\ AtLimit(InWindow(stamps[a]))
  BY <1>4 DEF RateNext, CanActivate, Sweep, NextInstant, RestartGuard
<1> QED BY <1>1, <1>2, <1>3, <1>4

\* The limit is exact: no stretch of Window instants accepts more than Limit requests of
\* an address, and a refusal means that Limit were accepted less than a Window ago.
THEOREM WindowIsExact == RateSpec => []WindowExact
<1>1. RateInit => RefusalExplained
  BY RateLimitAssumption DEF RateInit, RefusalExplained
<1>2. RateSpec => []RefusalExplained
  BY <1>1, RefusalStep, RateInvariant, PTL DEF RateSpec
<1>3. RateIInv => WindowBound
  BY DEF RateIInv
<1> QED BY <1>2, <1>3, RateInvariant, PTL DEF WindowExact

-----------------------------------------------------------------------------
(* The three together.                                                     *)

\* Whichever of the three moves, the others keep their types: every variable of the
\* composed module has its type.
THEOREM PlatformTypesCorrect == PlatformSpec => []TypesOK
<1>1. PlatformSpec => ImportSpec /\ LinksSpec /\ RateSpec
  <2>1. PlatformInit => ImportInit /\ LinksInit /\ RateInit
    BY DEF PlatformInit
  <2>2. [PlatformNext]_platformVars =>
           [ImportNext]_importVars /\ [LinksNext]_linkVars /\ [RateNext]_rateVars
    BY DEF PlatformNext, platformVars, importVars, linkVars, rateVars
  <2> QED BY <2>1, <2>2, PTL DEF PlatformSpec, ImportSpec, LinksSpec, RateSpec
<1> QED BY <1>1, ImportTypeCorrect, LinksTypeCorrect, RateTypeCorrect, PTL DEF TypesOK

-----------------------------------------------------------------------------
(* Login lockout.                                                          *)

USE DEF Steps

LEMMA IdleTyped == Idle \in Request
BY DEF Idle, Request

LEMMA GotoFields ==
    ASSUME TypeOK, NEW r \in Requests, NEW step \in Steps, Goto(r, step)
    PROVE  /\ req' \in [Requests -> Request]
           /\ req'[r].at = step /\ req'[r].count = req[r].count
           /\ \A q \in Requests \ {r} : req'[q] = req[q]
           /\ slow' = slow
BY DEF TypeOK, Goto, Request

LEMMA FinishFields ==
    ASSUME TypeOK, NEW r \in Requests, Finish(r)
    PROVE  /\ req' \in [Requests -> Request]
           /\ req'[r].at = "idle"
           /\ \A q \in Requests \ {r} : req'[q] = req[q]
           /\ slow' = slow \ {r}
BY IdleTyped DEF TypeOK, Finish, Idle

LEMMA TypeStep == TypeOK /\ [Next]_vars => TypeOK'
<1> SUFFICES ASSUME TypeOK, [Next]_vars PROVE TypeOK'
  OBVIOUS
<1>1. ASSUME NEW r \in Requests, ReadUser(r) PROVE TypeOK'
  <2>1. [at |-> "verify", count |-> failed_login_count] \in Request
    BY DEF TypeOK, Request
  <2>2. QED  BY <1>1, <2>1 DEF ReadUser, TypeOK
<1>2. ASSUME NEW r \in Requests, VerifyPassword(r) PROVE TypeOK'
  BY <1>2, GotoFields DEF VerifyPassword, TypeOK
<1>3. ASSUME NEW r \in Requests, RecordFailedLogin(r) PROVE TypeOK'
  <2>1. req' \in [Requests -> Request] /\ slow' \subseteq Requests
    BY <1>3, GotoFields, FinishFields DEF RecordFailedLogin, TypeOK
  <2>2. QED  BY <1>3, <2>1 DEF RecordFailedLogin, TypeOK
<1>4. ASSUME NEW r \in Requests, LockUser(r) PROVE TypeOK'
  BY <1>4, IdleTyped, LockoutAssumption DEF LockUser, TypeOK
<1>5. ASSUME NEW r \in Requests, ResetFailedLogin(r) PROVE TypeOK'
  BY <1>5, FinishFields DEF ResetFailedLogin, TypeOK
<1>6. ASSUME NEW r \in Requests, RequestFails(r) PROVE TypeOK'
  BY <1>6, FinishFields DEF RequestFails, TypeOK
<1>7. CASE UnlockUser
  BY <1>7 DEF UnlockUser, TypeOK
<1>8. CASE Tick
  BY <1>8 DEF Tick, TypeOK
<1>9. CASE UNCHANGED vars
  BY <1>9 DEF vars, TypeOK
<1>10. QED
  BY <1>1, <1>2, <1>3, <1>4, <1>5, <1>6, <1>7, <1>8, <1>9 DEF Next, Attempt

\* Every variable keeps its type.
THEOREM TypeCorrect == Spec => []TypeOK
<1>1. Init => TypeOK
  BY IdleTyped DEF Init, TypeOK
<1>2. QED  BY <1>1, TypeStep, PTL DEF Spec

-----------------------------------------------------------------------------
(* The bound on the guesses. An attempt that read a count too low to lock    *)
(* adds a guess that nothing accounts for; one that read a higher count adds *)
(* a guess and a lock to come, or a lost one.                                *)

Locking == {r \in Requests : req[r].at = "lock"}

Low == {r \in Requests : req[r].at \in {"verify", "record"} /\ ~Locks(r)}

Slack ==
    guesses - lost - Cardinality(Locking) + Cardinality(Low)
        <= MaxFailedLoginAttempts - 2 + Cardinality(Requests)

GInv == NoFailureLost /\ Slack

LEMMA CardsTyped ==
    ASSUME NEW S \in SUBSET Requests
    PROVE  /\ IsFiniteSet(S) /\ Cardinality(S) \in Nat
           /\ Cardinality(S) <= Cardinality(Requests)
           /\ Cardinality(Requests) \in Nat \ {0}
           /\ \A r \in S : /\ Cardinality(S \ {r}) = Cardinality(S) - 1
                           /\ Cardinality(S) >= 1
           /\ \A r \in Requests \ S :
                 /\ Cardinality(S \cup {r}) = Cardinality(S) + 1
                 /\ Cardinality(S \cup {r}) <= Cardinality(Requests)
<1>1. IsFiniteSet(Requests) /\ Requests # {}
  BY LockoutAssumption
<1>2. /\ IsFiniteSet(S) /\ Cardinality(S) \in Nat
      /\ Cardinality(S) <= Cardinality(Requests)
  BY <1>1, FS_Subset, FS_CardinalityType
<1>3. Cardinality(Requests) \in Nat \ {0}
  BY <1>1, FS_CardinalityType, FS_EmptySet
<1>4. ASSUME NEW r \in S
      PROVE  Cardinality(S \ {r}) = Cardinality(S) - 1 /\ Cardinality(S) >= 1
  <2>1. Cardinality(S \ {r}) = Cardinality(S) - 1
    BY <1>2, FS_RemoveElement
  <2>2. Cardinality(S \ {r}) \in Nat
    BY <1>2, FS_RemoveElement, FS_CardinalityType
  <2>3. QED  BY <1>2, <2>1, <2>2
<1>5. ASSUME NEW r \in Requests \ S
      PROVE  /\ Cardinality(S \cup {r}) = Cardinality(S) + 1
             /\ Cardinality(S \cup {r}) <= Cardinality(Requests)
  <2>1. Cardinality(S \cup {r}) = Cardinality(S) + 1
    BY <1>2, FS_AddElement
  <2>2. S \cup {r} \subseteq Requests
    OBVIOUS
  <2>3. QED  BY <1>1, <2>1, <2>2, FS_Subset
<1>6. QED  BY <1>2, <1>3, <1>4, <1>5

\* Nobody is low where the threshold is one.
LEMMA LowNeedsRoom ==
    ASSUME TypeOK, MaxFailedLoginAttempts = 1 PROVE Low = {}
BY DEF Low, Locks, TypeOK, Request

\* With no guesses since the last lock there is room for every attempt.
LEMMA SlackAfterReset ==
    ASSUME TypeOK, guesses = 0, lost = 0 PROVE Slack
<1>1. /\ Cardinality(Low) \in Nat /\ Cardinality(Low) <= Cardinality(Requests)
      /\ Cardinality(Locking) \in Nat /\ Cardinality(Requests) \in Nat \ {0}
  <2>1. Low \in SUBSET Requests /\ Locking \in SUBSET Requests
    BY DEF Low, Locking
  <2>2. QED  BY <2>1, CardsTyped
<1>2. MaxFailedLoginAttempts \in Nat \ {0}
  BY LockoutAssumption
<1>3. CASE MaxFailedLoginAttempts = 1
  <2>1. Cardinality(Low) = 0
    BY <1>3, LowNeedsRoom, FS_EmptySet
  <2>2. QED  BY <1>1, <1>3, <2>1 DEF Slack
<1>4. CASE MaxFailedLoginAttempts # 1
  BY <1>1, <1>2, <1>4 DEF Slack
<1>5. QED  BY <1>3, <1>4

LEMMA GStep == TypeOK /\ GInv /\ [Next]_vars => GInv'
<1> SUFFICES ASSUME TypeOK, GInv, [Next]_vars PROVE GInv'
  OBVIOUS
<1>0. /\ Low \in SUBSET Requests /\ Locking \in SUBSET Requests
      /\ guesses \in Nat /\ lost \in Nat /\ failed_login_count \in Nat
      /\ MaxFailedLoginAttempts \in Nat \ {0}
      /\ guesses <= failed_login_count
      /\ TypeOK'
  BY LockoutAssumption, TypeStep DEF Low, Locking, TypeOK, GInv, NoFailureLost
<1>c. /\ Cardinality(Low) \in Nat /\ Cardinality(Locking) \in Nat
      /\ Cardinality(Requests) \in Nat \ {0}
      /\ Cardinality(Low) <= Cardinality(Requests)
  BY <1>0, CardsTyped
<1>s. guesses - lost - Cardinality(Locking) + Cardinality(Low)
         <= MaxFailedLoginAttempts - 2 + Cardinality(Requests)
  BY DEF GInv, Slack
<1>1. ASSUME NEW r \in Requests, ReadUser(r) PROVE GInv'
  <2>1. /\ req'[r] = [at |-> "verify", count |-> failed_login_count]
        /\ \A q \in Requests \ {r} : req'[q] = req[q]
        /\ req[r].at = "idle"
        /\ UNCHANGED <<failed_login_count, guesses, lost>>
    BY <1>1 DEF ReadUser, TypeOK
  <2>2. Locking' = Locking
    BY <2>1 DEF Locking
  <2>3. CASE failed_login_count + 1 >= MaxFailedLoginAttempts
    <3>1. Low' = Low
      BY <2>1, <2>3 DEF Low, Locks
    <3>2. QED  BY <2>1, <2>2, <3>1 DEF GInv, NoFailureLost, Slack
  <2>4. CASE ~(failed_login_count + 1 >= MaxFailedLoginAttempts)
    <3>1. Low' = Low \cup {r} /\ r \notin Low
      BY <2>1, <2>4 DEF Low, Locks
    <3>2. Cardinality(Low') <= Cardinality(Requests) /\ Cardinality(Low') \in Nat
      BY <1>0, <1>c, <3>1, CardsTyped
    <3>3. Slack'
      BY <1>0, <1>c, <2>1, <2>2, <2>4, <3>2 DEF Slack
    <3>4. QED  BY <2>1, <3>3 DEF GInv, NoFailureLost
  <2>5. QED  BY <2>3, <2>4
<1>2. ASSUME NEW r \in Requests, VerifyPassword(r) PROVE GInv'
  <2>1. /\ req[r].at = "verify" /\ req'[r].at \in {"reset", "record"}
        /\ req'[r].count = req[r].count
        /\ \A q \in Requests \ {r} : req'[q] = req[q]
        /\ UNCHANGED <<failed_login_count, guesses, lost>>
    BY <1>2, GotoFields DEF VerifyPassword
  <2>2. Locking' = Locking
    BY <2>1 DEF Locking
  <2>3. Low' = Low \/ (r \in Low /\ Low' = Low \ {r})
    <3>1. CASE req'[r].at = "record"
      BY <2>1, <3>1 DEF Low, Locks
    <3>2. CASE req'[r].at = "reset"
      <4>1. Low' = Low \ {r}
        BY <2>1, <3>2 DEF Low, Locks
      <4>2. QED  BY <4>1
    <3>3. QED  BY <2>1, <3>1, <3>2
  <2>4. Cardinality(Low') <= Cardinality(Low) /\ Cardinality(Low') \in Nat
    BY <1>0, <1>c, <2>3, CardsTyped
  <2>5. Slack'
    BY <1>0, <1>c, <1>s, <2>1, <2>2, <2>4 DEF Slack
  <2>6. QED  BY <2>1, <2>5 DEF GInv, NoFailureLost
<1>3. ASSUME NEW r \in Requests, RecordFailedLogin(r) PROVE GInv'
  <2>1. /\ req[r].at = "record" /\ \A q \in Requests \ {r} : req'[q] = req[q]
        /\ guesses' = guesses + 1 /\ failed_login_count' = failed_login_count + 1
        /\ lost' = lost
    BY <1>3, GotoFields, FinishFields DEF RecordFailedLogin
  <2>2. NoFailureLost'
    BY <1>0, <2>1 DEF NoFailureLost
  <2>3. CASE Locks(r)
    <3>1. req'[r].at = "lock"
      BY <1>3, <2>3, GotoFields DEF RecordFailedLogin
    <3>2. Low' = Low /\ Locking' = Locking \cup {r} /\ r \notin Locking
      BY <2>1, <2>3, <3>1 DEF Low, Locking, Locks
    <3>3. Cardinality(Locking') = Cardinality(Locking) + 1
      BY <1>0, <3>2, CardsTyped
    <3>4. Slack'
      BY <1>0, <1>c, <1>s, <2>1, <3>2, <3>3 DEF Slack
    <3>5. QED  BY <2>2, <3>4 DEF GInv
  <2>4. CASE ~Locks(r)
    <3>1. req'[r].at = "idle"
      BY <1>3, <2>4, FinishFields DEF RecordFailedLogin
    <3>2. Locking' = Locking /\ Low' = Low \ {r} /\ r \in Low
      BY <2>1, <2>4, <3>1 DEF Low, Locking, Locks
    <3>3. Cardinality(Low') = Cardinality(Low) - 1
      BY <1>0, <3>2, CardsTyped
    <3>4. Slack'
      BY <1>0, <1>c, <1>s, <2>1, <3>2, <3>3 DEF Slack
    <3>5. QED  BY <2>2, <3>4 DEF GInv
  <2>5. QED  BY <2>3, <2>4
<1>4. ASSUME guesses' = 0, lost' = 0 PROVE GInv'
  <2>1. Slack'
    <3>1. (TypeOK /\ guesses = 0 /\ lost = 0 => Slack)'
      BY SlackAfterReset, PTL
    <3>2. QED  BY <1>0, <1>4, <3>1
  <2>2. NoFailureLost'
    BY <1>0, <1>4 DEF NoFailureLost, TypeOK
  <2>3. QED  BY <2>1, <2>2 DEF GInv
<1>5. ASSUME NEW r \in Requests, RequestFails(r) PROVE GInv'
  <2>1. /\ req'[r].at = "idle" /\ \A q \in Requests \ {r} : req'[q] = req[q]
        /\ UNCHANGED <<failed_login_count, guesses>>
    BY <1>5, FinishFields DEF RequestFails
  <2>2. CASE req[r].at = "lock"
    <3>1. Locking' = Locking \ {r} /\ r \in Locking /\ Low' = Low
      BY <2>1, <2>2 DEF Locking, Low, Locks
    <3>2. Cardinality(Locking') = Cardinality(Locking) - 1 /\ lost' = lost + 1
      BY <1>0, <1>5, <2>2, <3>1, CardsTyped DEF RequestFails
    <3>3. Slack'
      BY <1>0, <1>c, <1>s, <2>1, <3>1, <3>2 DEF Slack
    <3>4. QED  BY <2>1, <3>3 DEF GInv, NoFailureLost
  <2>3. CASE req[r].at # "lock"
    <3>1. Locking' = Locking /\ lost' = lost
      BY <1>5, <2>1, <2>3 DEF Locking, RequestFails
    <3>2. Low' = Low \ {r}
      BY <2>1 DEF Low, Locks
    <3>3. Cardinality(Low') <= Cardinality(Low) /\ Cardinality(Low') \in Nat
      <4>1. CASE r \in Low
        BY <1>0, <1>c, <3>2, <4>1, CardsTyped
      <4>2. CASE r \notin Low
        BY <1>c, <3>2, <4>2
      <4>3. QED  BY <4>1, <4>2
    <3>4. Slack'
      BY <1>0, <1>c, <1>s, <2>1, <3>1, <3>3 DEF Slack
    <3>5. QED  BY <2>1, <3>4 DEF GInv, NoFailureLost
  <2>4. QED  BY <2>2, <2>3
<1>6. CASE UNCHANGED <<failed_login_count, guesses, lost, req>>
  BY <1>6 DEF GInv, NoFailureLost, Slack, Low, Locking, Locks
<1>7. QED
  BY <1>1, <1>2, <1>3, <1>4, <1>5, <1>6
  DEF Next, Attempt, LockUser, ResetFailedLogin, UnlockUser, Tick, vars

\* The bound on guesses with its slack: what the requests that read the count and have
\* not written yet may add.
THEOREM GuessInvariance == Spec => []GInv
<1>1. Init => GInv
  <2> SUFFICES ASSUME Init PROVE GInv
    OBVIOUS
  <2>1. TypeOK
    BY IdleTyped DEF Init, TypeOK
  <2>2. QED  BY <2>1, SlackAfterReset DEF Init, GInv, NoFailureLost
<1>2. QED  BY <1>1, GStep, TypeCorrect, PTL DEF Spec

\* The failure count loses no failure, however attempts overlap.
THEOREM NoFailureIsLost == Spec => []NoFailureLost
<1>1. GInv => NoFailureLost
  BY DEF GInv
<1>2. QED  BY <1>1, GuessInvariance, PTL

\* The lockout comes late by less than twice the attempts in execution.
THEOREM GuessesAreBounded == Spec => []GuessBound
<1>1. TypeOK /\ GInv => GuessBound
  <2> SUFFICES ASSUME TypeOK, GInv PROVE GuessBound
    OBVIOUS
  <2>1. Low \in SUBSET Requests /\ Locking \in SUBSET Requests
    BY DEF Low, Locking
  <2>2. /\ Cardinality(Low) \in Nat /\ Cardinality(Locking) \in Nat
        /\ Cardinality(Locking) <= Cardinality(Requests)
        /\ Cardinality(Requests) \in Nat
    BY <2>1, CardsTyped
  <2>3. guesses \in Nat /\ lost \in Nat /\ MaxFailedLoginAttempts \in Nat
    BY LockoutAssumption DEF TypeOK
  <2>4. QED  BY <2>2, <2>3 DEF GInv, Slack, GuessBound
<1>2. QED  BY <1>1, TypeCorrect, GuessInvariance, PTL

-----------------------------------------------------------------------------
(* Who changes the lockout of a locked account.                              *)

\* Nobody reads the row of a locked account, so every attempt under way was there
\* when the lock was written.
LockedAreSlow ==
    Locked => \A r \in Requests : req[r].at # "idle" => r \in slow

LEMMA LockedAreSlowStep == TypeOK /\ LockedAreSlow /\ [Next]_vars => LockedAreSlow'
<1> SUFFICES ASSUME TypeOK, LockedAreSlow, [Next]_vars, Locked',
                    NEW q \in Requests, req'[q].at # "idle"
             PROVE  q \in slow'
  BY DEF LockedAreSlow
<1>1. ASSUME NEW r \in Requests, ReadUser(r) PROVE FALSE
  BY <1>1 DEF ReadUser, Locked
<1>2. ASSUME NEW r \in Requests, VerifyPassword(r) PROVE q \in slow'
  <2>1. slow' = slow /\ Locked /\ req[q].at # "idle"
    BY <1>2, GotoFields DEF VerifyPassword, Locked
  <2>2. QED  BY <2>1 DEF LockedAreSlow
<1>3. ASSUME NEW r \in Requests, Finish(r), UNCHANGED <<now, locked_until>>
      PROVE  q \in slow'
  <2>1. slow' = slow \ {r} /\ q # r /\ req[q].at # "idle"
    BY <1>3, FinishFields
  <2>2. QED  BY <1>3, <2>1 DEF LockedAreSlow, Locked
<1>4. ASSUME NEW r \in Requests, RecordFailedLogin(r) PROVE q \in slow'
  <2>1. CASE Locks(r)
    <3>1. slow' = slow /\ Locked /\ req[q].at # "idle"
      BY <1>4, <2>1, GotoFields DEF RecordFailedLogin, Locked
    <3>2. QED  BY <3>1 DEF LockedAreSlow
  <2>2. CASE ~Locks(r)
    BY <1>3, <1>4, <2>2 DEF RecordFailedLogin
  <2>3. QED  BY <2>1, <2>2
<1>5. ASSUME NEW r \in Requests, LockUser(r) PROVE q \in slow'
  <2>1. req'[r].at = "idle" /\ \A p \in Requests \ {r} : req'[p] = req[p]
    BY <1>5 DEF LockUser, TypeOK, Idle
  <2>2. QED  BY <1>5, <2>1 DEF LockUser
<1>6. ASSUME locked_until' = None PROVE FALSE
  BY <1>6 DEF Locked
<1>7. ASSUME NEW r \in Requests, RequestFails(r) PROVE q \in slow'
  BY <1>3, <1>7 DEF RequestFails
<1>8. CASE Tick
  <2>1. Locked /\ UNCHANGED <<req, slow>>
    BY <1>8 DEF Tick, Locked, TypeOK
  <2>2. QED  BY <2>1 DEF LockedAreSlow
<1>9. CASE UNCHANGED vars
  BY <1>9 DEF vars, LockedAreSlow, Locked
<1>10. QED
  BY <1>1, <1>2, <1>4, <1>5, <1>6, <1>7, <1>8, <1>9
  DEF Next, Attempt, ResetFailedLogin, UnlockUser

\* For any number of attempts and any settings: whoever changes the count or the
\* lock of a locked account is an administrator or read the row before the lock.
THEOREM LockChangesExplained == Spec => LockChangeExplained
<1>1. Init => LockedAreSlow
  BY DEF Init, LockedAreSlow, Locked
<1>2. TypeOK /\ LockedAreSlow /\ [Next]_vars =>
         [Locked /\ <<failed_login_count, locked_until>>'
                       # <<failed_login_count, locked_until>>
          => \/ UnlockUser
             \/ \E r \in slow : req[r].at \in {"record", "lock", "reset"}
                               /\ req'[r] # req[r]]_vars
  <2> SUFFICES ASSUME TypeOK, LockedAreSlow, Next, ~UnlockUser, Locked,
                      <<failed_login_count, locked_until>>'
                        # <<failed_login_count, locked_until>>
               PROVE  \E r \in slow : req[r].at \in {"record", "lock", "reset"}
                                     /\ req'[r] # req[r]
    OBVIOUS
  <2>1. PICK r \in Requests : RecordFailedLogin(r) \/ LockUser(r) \/ ResetFailedLogin(r)
    BY DEF Next, Attempt, ReadUser, VerifyPassword, RequestFails, Tick
  <2>2. req[r].at \in {"record", "lock", "reset"} /\ req'[r].at # req[r].at
    <3>1. CASE RecordFailedLogin(r)
      BY <3>1, GotoFields, FinishFields DEF RecordFailedLogin
    <3>2. CASE LockUser(r)
      BY <3>2 DEF LockUser, TypeOK, Idle
    <3>3. CASE ResetFailedLogin(r)
      BY <3>3, FinishFields DEF ResetFailedLogin
    <3>4. QED  BY <2>1, <3>1, <3>2, <3>3
  <2>3. QED  BY <2>2 DEF LockedAreSlow
<1>3. QED  BY <1>1, <1>2, LockedAreSlowStep, TypeCorrect, PTL DEF Spec, LockChangeExplained
==============================================================================
