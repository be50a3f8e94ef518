--------------------------- MODULE AuthorityProofs ---------------------------
(* Theorems about delegations and about the resolution of permissions, for   *)
(* every set of people, rules, roles and permissions.                         *)
EXTENDS MCAuthority, FiniteSetTheorems, WellFoundedInduction, TLAPS

-----------------------------------------------------------------------------
(* Delegations.                                                            *)

DelegationRowOK(row) ==
    /\ row \in Delegation
    /\ ~row.stored => ~row.active

\* What a request holds: of the rules it looked at, none is broken until it is
\* overtaken.
CallOK(q) ==
    /\ q \in Call
    /\ q.at \in {"chain", "chainTo", "insert"} =>
          /\ q.from \in People /\ q.to \in People /\ q.start \in Instants
          /\ q.end \in Instants
    /\ q.at = "write" => q.row \in Delegated /\ delegation[q.row].stored
    /\ ~q.overtaken =>
          /\ q.at \in {"chain", "chainTo", "insert"} =>
                ~Overlaps(q.from, q.start, q.end, Nobody)
          /\ q.at \in {"chainTo", "insert"} => ~Acting(q.from)
          /\ q.at = "insert" => ~Acting(q.to)
          /\ q.at = "write" /\ q.end # Nobody =>
                ~Overlaps(delegation[q.row].from, delegation[q.row].start, q.end, q.row)

DelegationIInv ==
    /\ delegation \in [Delegated -> Delegation]
    /\ \A d \in Delegated : DelegationRowOK(delegation[d])
    /\ call \in [Callers -> Call]
    /\ \A c \in Callers : CallOK(call[c])
    /\ now \in Instants

LEMMA NoCallTypes ==
    NoCall \in Call /\ NoCall.at = "idle" /\ NoCall.end = Nobody /\ ~NoCall.overtaken
BY DelegationsAssumption DEF NoCall, Call, CallSteps, Instants

LEMMA NoCallOK == CallOK(NoCall)
BY NoCallTypes DEF CallOK

LEMMA DelegationInitOK == DelegationInit => DelegationIInv
<1> USE DelegationsAssumption
<1> SUFFICES ASSUME DelegationInit PROVE DelegationIInv
  OBVIOUS
<1>1. NoDelegation \in Delegation /\ ~NoDelegation.active
  BY DEF NoDelegation, Delegation
<1>2. \A d \in Delegated : DelegationRowOK(delegation[d])
  BY <1>1 DEF DelegationInit, DelegationRowOK
<1>3. \A c \in Callers : CallOK(call[c])
  BY NoCallOK DEF DelegationInit
<1> QED BY <1>1, <1>2, <1>3, NoCallTypes DEF DelegationInit, DelegationIInv, Instants

\* A step of one request that writes no row.
LEMMA MoveKeeps ==
    ASSUME DelegationIInv, NEW c \in Callers, NEW new, CallOK(new),
           call' = [call EXCEPT ![c] = new], UNCHANGED <<delegation, now>>
    PROVE  DelegationIInv'
<1>1. new \in Call
  BY DEF CallOK
<1>2. call' \in [Callers -> Call]
  BY <1>1 DEF DelegationIInv
<1>3. ASSUME NEW k \in Callers PROVE CallOK(call[k])'
  <2>1. CallOK(call'[k])
    BY DEF DelegationIInv
  <2> QED BY <2>1 DEF CallOK, Overlaps, Meets, Acting, InForce
<1>4. ASSUME NEW d \in Delegated PROVE DelegationRowOK(delegation[d])'
  BY DEF DelegationIInv, DelegationRowOK
<1> QED BY <1>2, <1>3, <1>4 DEF DelegationIInv

\* A step that writes rows or lets the time pass: whatever was looked at is overtaken.
LEMMA ChangeKeeps ==
    ASSUME DelegationIInv, NEW c, Changed(c), now' \in Instants,
           delegation' \in [Delegated -> Delegation],
           \A d \in Delegated :
              /\ DelegationRowOK(delegation'[d])
              /\ delegation[d].stored => delegation'[d].stored
    PROVE  DelegationIInv'
<1>1. ASSUME NEW k \in Callers PROVE call'[k] \in Call /\ CallOK(call[k])'
  <2>1. CASE k = c
    <3>1. call'[k] = NoCall
      BY <2>1 DEF Changed
    <3>2. CallOK(call[k])'
      BY <3>1, NoCallTypes DEF CallOK
    <3> QED BY <3>1, <3>2, NoCallTypes
  <2>2. CASE k # c
    <3> DEFINE old == call[k]
               new == [old EXCEPT !.overtaken = old.at # "idle"]
    <3>1. call'[k] = new
      BY <2>2 DEF Changed
    <3>2. CallOK(old) /\ old \in Call
      BY DEF DelegationIInv
    <3>3. /\ new \in Call /\ new.at = old.at /\ new.from = old.from /\ new.to = old.to
          /\ new.start = old.start /\ new.end = old.end /\ new.row = old.row
          /\ new.overtaken = (old.at # "idle")
      BY <3>2 DEF Call
    <3> HIDE DEF new
    <3>4. CallOK(call[k])'
      BY <3>1, <3>2, <3>3 DEF CallOK
    <3> QED BY <3>1, <3>3, <3>4
  <2> QED BY <2>1, <2>2
<1>2. call' \in [Callers -> Call]
  BY <1>1 DEF Changed
<1>3. ASSUME NEW d \in Delegated PROVE DelegationRowOK(delegation[d])'
  BY DEF DelegationRowOK
<1> QED BY <1>1, <1>2, <1>3 DEF DelegationIInv

LEMMA CreateKeeps ==
    ASSUME DelegationIInv, NEW c \in Callers, Create(c) PROVE DelegationIInv'
<1> USE DelegationsAssumption
<1>1. PICK p \in People, q \in People, start \in Instants, end \in Instants :
         /\ ~Overlaps(p, start, end, Nobody)
         /\ Open(c, [NoCall EXCEPT !.at = "chain", !.from = p, !.to = q,
                                   !.start = start, !.end = end])
  BY DEF Create
<1> DEFINE new == [NoCall EXCEPT !.at = "chain", !.from = p, !.to = q,
                                 !.start = start, !.end = end]
<1>2. /\ new.at = "chain" /\ new.from = p /\ new.to = q
      /\ new.start = start /\ new.end = end
  BY NoCallTypes DEF Call
<1>3. ~new.overtaken
  BY NoCallTypes DEF Call
<1>6. new \in Call
  <2>1. start \in 0..MaxTime
    BY DEF Instants
  <2> QED BY <2>1, NoCallTypes DEF Call, CallSteps
<1> HIDE DEF new
<1>4. CallOK(new)
  BY <1>1, <1>2, <1>3, <1>6 DEF CallOK
<1>5. call' = [call EXCEPT ![c] = new] /\ UNCHANGED <<delegation, now>>
  BY <1>1 DEF Open, Create, new
<1> QED BY <1>4, <1>5, MoveKeeps

LEMMA CheckKeeps ==
    ASSUME DelegationIInv, NEW c \in Callers, CheckChain(c) PROVE DelegationIInv'
<1> DEFINE q == call[c]
<1>0. CallOK(q) /\ q \in Call
  BY DEF DelegationIInv
<1>1. CASE CheckNotActing(c, "chain", call[c].from, "chainTo")
  <2> DEFINE new == [q EXCEPT !.at = "chainTo"]
  <2>1. CASE Acting(q.from)
    BY <1>1, <2>1, NoCallOK, MoveKeeps DEF CheckNotActing
  <2>2. CASE ~Acting(q.from)
    <3>1. /\ new \in Call /\ new.at = "chainTo" /\ new.from = q.from /\ new.to = q.to
          /\ new.start = q.start /\ new.end = q.end /\ new.row = q.row
          /\ new.overtaken = q.overtaken
      BY <1>0 DEF Call, CallSteps
    <3>2. call' = [call EXCEPT ![c] = new] /\ q.at = "chain" /\ UNCHANGED <<delegation, now>>
      BY <1>1, <2>2 DEF CheckNotActing
    <3> HIDE DEF new
    <3>3. CallOK(new)
      BY <1>0, <2>2, <3>1, <3>2 DEF CallOK
    <3> QED BY <3>2, <3>3, MoveKeeps
  <2> QED BY <2>1, <2>2
<1>2. CASE CheckNotActing(c, "chainTo", call[c].to, "insert")
  <2> DEFINE new == [q EXCEPT !.at = "insert"]
  <2>1. CASE Acting(q.to)
    BY <1>2, <2>1, NoCallOK, MoveKeeps DEF CheckNotActing
  <2>2. CASE ~Acting(q.to)
    <3>1. /\ new \in Call /\ new.at = "insert" /\ new.from = q.from /\ new.to = q.to
          /\ new.start = q.start /\ new.end = q.end /\ new.row = q.row
          /\ new.overtaken = q.overtaken
      BY <1>0 DEF Call, CallSteps
    <3>2. call' = [call EXCEPT ![c] = new] /\ q.at = "chainTo" /\ UNCHANGED <<delegation, now>>
      BY <1>2, <2>2 DEF CheckNotActing
    <3> HIDE DEF new
    <3>3. CallOK(new)
      BY <1>0, <2>2, <3>1, <3>2 DEF CallOK
    <3> QED BY <3>2, <3>3, MoveKeeps
  <2> QED BY <2>1, <2>2
<1> QED BY <1>1, <1>2 DEF CheckChain

LEMMA InsertEffect ==
    ASSUME DelegationIInv, NEW c \in Callers, InsertDelegation(c)
    PROVE  \E d \in Delegated :
             /\ ~delegation[d].stored
             /\ delegation' \in [Delegated -> Delegation]
             /\ \A e \in Delegated \ {d} : delegation'[e] = delegation[e]
             /\ delegation'[d].stored /\ delegation'[d].active
             /\ delegation'[d].from = call[c].from /\ delegation'[d].to = call[c].to
             /\ delegation'[d].start = call[c].start /\ delegation'[d].end = call[c].end
<1> DEFINE q == call[c]
           new == [stored |-> TRUE, from |-> q.from, to |-> q.to,
                   start |-> q.start, end |-> q.end, active |-> TRUE]
<1>1. PICK d \in Delegated : /\ ~delegation[d].stored
                             /\ delegation' = [delegation EXCEPT ![d] = new]
  BY DEF InsertDelegation
<1>2. /\ q.from \in People /\ q.to \in People /\ q.start \in Instants
      /\ q.end \in Instants
  BY DEF DelegationIInv, CallOK, InsertDelegation
<1>3. q.start \in 0..MaxTime /\ q.end \in 0..MaxTime
  BY <1>2 DEF Instants
<1>4. new \in Delegation
  BY <1>2, <1>3 DEF Delegation
<1>5. delegation' \in [Delegated -> Delegation]
  BY <1>1, <1>4 DEF DelegationIInv
<1>6. delegation'[d] = new /\ \A e \in Delegated \ {d} : delegation'[e] = delegation[e]
  BY <1>1 DEF DelegationIInv
<1> QED BY <1>1, <1>5, <1>6

LEMMA WriteEffect ==
    ASSUME DelegationIInv, NEW c \in Callers, WriteDelegation(c)
    PROVE  LET d == call[c].row IN
             /\ d \in Delegated /\ delegation[d].stored
             /\ delegation' \in [Delegated -> Delegation]
             /\ \A e \in Delegated \ {d} : delegation'[e] = delegation[e]
             /\ delegation'[d].stored /\ delegation'[d].from = delegation[d].from
             /\ delegation'[d].start = delegation[d].start
             /\ delegation'[d].end = OrStored(call[c].end, delegation[d].end)
             /\ delegation'[d].active = OrStored(call[c].active, delegation[d].active)
<1> DEFINE q == call[c]
           d == q.row
           old == delegation[d]
<1>1. d \in Delegated /\ old.stored /\ q \in Call /\ old \in Delegation
  BY DEF DelegationIInv, CallOK, WriteDelegation
<1> DEFINE end == OrStored(q.end, old.end)
           active == OrStored(q.active, old.active)
           new == [old EXCEPT !.end = end, !.active = active]
<1>2. end \in 0..MaxTime
  <2>1. q.end \in 0..MaxTime \cup {Nobody}
    BY <1>1 DEF Call, Instants
  <2>2. old.end \in 0..MaxTime
    BY <1>1 DEF Delegation
  <2> QED BY <2>1, <2>2 DEF OrStored
<1>3. active \in BOOLEAN
  BY <1>1, Zenon DEF Call, Delegation, OrStored
<1>4. delegation' = [delegation EXCEPT ![d] = new]
  BY DEF WriteDelegation
<1> HIDE DEF end, active
<1>5. /\ new \in Delegation /\ new.stored /\ new.from = old.from /\ new.start = old.start
      /\ new.end = end /\ new.active = active
  BY <1>1, <1>2, <1>3 DEF Delegation
<1> HIDE DEF new
<1>6. /\ delegation' \in [Delegated -> Delegation] /\ delegation'[d] = new
      /\ \A e \in Delegated \ {d} : delegation'[e] = delegation[e]
  BY <1>1, <1>4, <1>5 DEF DelegationIInv
<1> QED BY <1>1, <1>5, <1>6 DEF end, active

\* Cancellation and the deletion of a user end delegations and do nothing else.
LEMMA EndEffect ==
    ASSUME DelegationIInv, Cancel \/ EndAllForUser
    PROVE  /\ delegation' \in [Delegated -> Delegation]
           /\ \A d \in Delegated :
                \/ delegation'[d] = delegation[d]
                \/ ~delegation'[d].active /\ delegation'[d].stored = delegation[d].stored
<1> USE DelegationsAssumption
<1>0. now \in 0..MaxTime
  BY DEF DelegationIInv, Instants
<1>1. ASSUME NEW d \in Delegated
      PROVE  LET new == [delegation[d] EXCEPT !.active = FALSE, !.end = now]
             IN  /\ new \in Delegation /\ ~new.active
                 /\ new.stored = delegation[d].stored
  <2>1. delegation[d] \in Delegation
    BY DEF DelegationIInv
  <2> QED BY <1>0, <2>1 DEF Delegation
<1>2. CASE Cancel
  <2>1. PICK d \in Delegated :
           delegation' = [delegation EXCEPT ![d].active = FALSE, ![d].end = now]
    BY <1>2 DEF Cancel
  <2> DEFINE new == [delegation[d] EXCEPT !.active = FALSE, !.end = now]
  <2>2. delegation' = [delegation EXCEPT ![d] = new]
    BY <2>1 DEF DelegationIInv
  <2>3. new \in Delegation /\ ~new.active /\ new.stored = delegation[d].stored
    BY <1>1
  <2> HIDE DEF new
  <2> QED BY <2>2, <2>3 DEF DelegationIInv
<1>3. CASE EndAllForUser
  <2>1. PICK p \in People :
          delegation' = [d \in Delegated |->
             IF /\ p \in {delegation[d].from, delegation[d].to}
                /\ delegation[d].active /\ delegation[d].end > now
             THEN [delegation[d] EXCEPT !.active = FALSE, !.end = now]
             ELSE delegation[d]]
    BY <1>3 DEF EndAllForUser
  <2>2. ASSUME NEW d \in Delegated
        PROVE  /\ delegation'[d] \in Delegation
               /\ \/ delegation'[d] = delegation[d]
                  \/ ~delegation'[d].active /\ delegation'[d].stored = delegation[d].stored
    <3> DEFINE new == [delegation[d] EXCEPT !.active = FALSE, !.end = now]
    <3>1. delegation'[d] \in {new, delegation[d]}
      BY <2>1
    <3>2. new \in Delegation /\ ~new.active /\ new.stored = delegation[d].stored
      BY <1>1
    <3> HIDE DEF new
    <3> QED BY <3>1, <3>2 DEF DelegationIInv
  <2>3. delegation' \in [Delegated -> Delegation]
    BY <2>1, <2>2
  <2> QED BY <2>2, <2>3
<1> QED BY <1>2, <1>3

LEMMA UpdateKeeps ==
    ASSUME DelegationIInv, NEW c \in Callers, Update(c) PROVE DelegationIInv'
<1> USE DelegationsAssumption
<1>1. PICK d \in Delegated, end \in Instants \cup {Nobody}, active \in BOOLEAN \cup {Nobody} :
         /\ delegation[d].stored
         /\ end # Nobody => ~Overlaps(delegation[d].from, delegation[d].start, end, d)
         /\ Open(c, [NoCall EXCEPT !.at = "write", !.row = d, !.end = end,
                                   !.active = active])
  BY DEF Update
<1> DEFINE new == [NoCall EXCEPT !.at = "write", !.row = d, !.end = end, !.active = active]
<1>2. new.at = "write" /\ new.row = d /\ new.end = end
  BY NoCallTypes DEF Call
<1>3. new \in Call
  BY NoCallTypes DEF Call, CallSteps
<1>4. call' = [call EXCEPT ![c] = new] /\ UNCHANGED <<delegation, now>>
  BY <1>1 DEF Open, Update
<1> HIDE DEF new
<1>5. CallOK(new)
  BY <1>1, <1>2, <1>3 DEF CallOK
<1> QED BY <1>4, <1>5, MoveKeeps

LEMMA DelegationStepKeeps == DelegationIInv /\ [DelegationNext]_delegationVars => DelegationIInv'
<1> USE DelegationsAssumption
<1> SUFFICES ASSUME DelegationIInv, [DelegationNext]_delegationVars PROVE DelegationIInv'
  OBVIOUS
<1>0. \A d \in Delegated : DelegationRowOK(delegation[d]) /\ now \in Instants
  BY DEF DelegationIInv
<1>1. ASSUME NEW c \in Callers, Create(c) \/ CheckChain(c) \/ Update(c)
      PROVE  DelegationIInv'
  BY <1>1, CreateKeeps, CheckKeeps, UpdateKeeps
<1>2. ASSUME NEW c \in Callers, InsertDelegation(c) PROVE DelegationIInv'
  <2>1. PICK d \in Delegated :
             /\ delegation' \in [Delegated -> Delegation]
             /\ \A e \in Delegated \ {d} : delegation'[e] = delegation[e]
             /\ delegation'[d].stored
    BY <1>2, InsertEffect
  <2>2. ASSUME NEW e \in Delegated
        PROVE  /\ DelegationRowOK(delegation'[e])
               /\ delegation[e].stored => delegation'[e].stored
    BY <1>0, <2>1 DEF DelegationRowOK
  <2> QED BY <1>0, <1>2, <2>1, <2>2, ChangeKeeps DEF InsertDelegation
<1>3. ASSUME NEW c \in Callers, WriteDelegation(c) PROVE DelegationIInv'
  <2> DEFINE d == call[c].row
  <2>1. /\ d \in Delegated /\ delegation' \in [Delegated -> Delegation]
        /\ \A e \in Delegated \ {d} : delegation'[e] = delegation[e]
        /\ delegation'[d].stored
    BY <1>3, WriteEffect
  <2>2. ASSUME NEW e \in Delegated
        PROVE  /\ DelegationRowOK(delegation'[e])
               /\ delegation[e].stored => delegation'[e].stored
    BY <1>0, <2>1 DEF DelegationRowOK
  <2> QED BY <1>0, <1>3, <2>1, <2>2, ChangeKeeps DEF WriteDelegation
<1>4. ASSUME NEW c \in Callers, CallFails(c) PROVE DelegationIInv'
  BY <1>4, NoCallOK, MoveKeeps DEF CallFails
<1>5. ASSUME Cancel \/ EndAllForUser PROVE DelegationIInv'
  <2>1. /\ delegation' \in [Delegated -> Delegation]
        /\ \A d \in Delegated :
             \/ delegation'[d] = delegation[d]
             \/ ~delegation'[d].active /\ delegation'[d].stored = delegation[d].stored
    BY <1>5, EndEffect
  <2>2. ASSUME NEW d \in Delegated
        PROVE  /\ DelegationRowOK(delegation'[d])
               /\ delegation[d].stored => delegation'[d].stored
    BY <1>0, <2>1 DEF DelegationRowOK
  <2>3. Changed(Nobody) /\ now' \in Instants
    BY <1>5, Zenon DEF Cancel, EndAllForUser, DelegationIInv
  <2> QED BY <2>1, <2>2, <2>3, ChangeKeeps
<1>6. ASSUME Tick PROVE DelegationIInv'
  <2>1. now' \in Instants
    BY <1>0, <1>6 DEF Tick, Instants, DelegationIInv
  <2> QED BY <1>0, <1>6, <2>1, ChangeKeeps DEF Tick, DelegationIInv
<1>7. ASSUME UNCHANGED delegationVars PROVE DelegationIInv'
  BY <1>7 DEF delegationVars, DelegationIInv, DelegationRowOK, CallOK, Overlaps, Meets,
              Acting, InForce
<1> QED BY <1>1, <1>2, <1>3, <1>4, <1>5, <1>6, <1>7 DEF DelegationNext

\* The request that writes ends.
LEMMA WriterEnds ==
    ASSUME DelegationIInv, NEW c \in Callers, Changed(c), call[c].at # "idle"
    PROVE  Ends(c, call[c].at)
BY NoCallTypes DEF Changed, Ends

\* A row that did not change, seen in the next state.
LEMMA InForceNext ==
    ASSUME NEW d, now' = now,
           \/ delegation'[d] = delegation[d]
           \/ ~delegation'[d].active
    PROVE  InForce(d)' => InForce(d) /\ delegation'[d] = delegation[d]
BY DEF InForce

LEMMA ClashSymmetric == ASSUME NEW d, NEW e, Clash(d, e) PROVE Clash(e, d)
BY DEF Clash, Meets

\* When rows are only ended, no two begin to clash or to be chained.
LEMMA EndingBreaksNothing ==
    ASSUME NEW d \in Delegated, NEW e \in Delegated,
           \A k \in Delegated : delegation'[k] = delegation[k] \/ ~delegation'[k].active
    PROVE  /\ Clash(d, e)' => Clash(d, e)
           /\ now' = now => (Chained(d, e)' => Chained(d, e))
BY DEF Clash, Meets, Chained, InForce

DelegationClashStep ==
    \A d, e \in Delegated :
       ~Clash(d, e) /\ Clash(d, e)'
       => \E c \in Callers :
             \/ Revives(c)
             \/ call[c].at \in {"insert", "write"} /\ Ends(c, call[c].at)
                /\ call[c].overtaken

DelegationChainStep ==
    \A d, e \in Delegated :
       ~Chained(d, e) /\ Chained(d, e)'
       => \/ now' # now
          \/ \E c \in Callers :
                \/ Ends(c, "write")
                \/ Ends(c, "insert") /\ call[c].overtaken
                \/ Ends(c, "insert") /\ ~InForce(d) /\ InForce(e)

LEMMA InsertExplained ==
    ASSUME DelegationIInv, NEW c \in Callers, InsertDelegation(c)
    PROVE  DelegationClashStep /\ DelegationChainStep
<1> USE DelegationsAssumption
<1> DEFINE q == call[c]
<1>1. PICK n \in Delegated :
             /\ ~delegation[n].stored
             /\ \A e \in Delegated \ {n} : delegation'[e] = delegation[e]
             /\ delegation'[n].from = q.from /\ delegation'[n].to = q.to
             /\ delegation'[n].start = q.start /\ delegation'[n].end = q.end
  BY InsertEffect
<1>2. ~delegation[n].active
  BY <1>1 DEF DelegationIInv, DelegationRowOK
<1>3. q.at = "insert" /\ Ends(c, "insert") /\ now' = now
  BY WriterEnds DEF InsertDelegation
<1>4. ~q.overtaken => ~Overlaps(q.from, q.start, q.end, Nobody) /\ ~Acting(q.from)
                      /\ ~Acting(q.to)
  BY <1>3 DEF DelegationIInv, CallOK
<1>5. ASSUME NEW e \in Delegated, Clash(n, e)' PROVE q.overtaken
  <2>1. e # n /\ delegation'[e] = delegation[e]
    BY <1>1, <1>5 DEF Clash
  <2>2. /\ delegation[e].active /\ delegation[e].from = q.from
        /\ Meets(e, q.start, q.end)
    BY <1>1, <1>5, <2>1 DEF Clash, Meets
  <2>3. Overlaps(q.from, q.start, q.end, Nobody)
    BY <2>2 DEF Overlaps
  <2> QED BY <1>4, <2>3
<1>6. DelegationClashStep
  <2> SUFFICES ASSUME NEW d \in Delegated, NEW e \in Delegated,
                      ~Clash(d, e), Clash(d, e)'
               PROVE  q.overtaken
    BY <1>3 DEF DelegationClashStep
  <2>1. CASE d = n
    BY <1>5, <2>1
  <2>2. CASE e = n
    <3>1. Clash(e, d)'
      BY DEF Clash, Meets
    <3> QED BY <1>5, <2>2, <3>1
  <2>3. CASE d # n /\ e # n
    BY <1>1, <2>3 DEF Clash, Meets
  <2> QED BY <2>1, <2>2, <2>3
<1>7. DelegationChainStep
  <2> SUFFICES ASSUME NEW d \in Delegated, NEW e \in Delegated,
                      ~Chained(d, e), Chained(d, e)'
               PROVE  \/ q.overtaken
                      \/ ~InForce(d) /\ InForce(e)
    BY <1>3 DEF DelegationChainStep
  <2>0. d # e
    BY DEF Chained
  <2>1. CASE d = n
    BY <1>1, <1>2, <1>3, <2>0, <2>1 DEF Chained, InForce
  <2>2. CASE e = n
    <3>1. delegation'[d] = delegation[d] /\ InForce(d)
      BY <1>1, <1>3, <2>0, <2>2 DEF Chained, InForce
    <3>2. q.from = delegation[d].to \/ q.to = delegation[d].to
      BY <1>1, <2>2, <3>1 DEF Chained
    <3>3. Acting(q.from) \/ Acting(q.to)
      BY <3>1, <3>2 DEF Acting
    <3> QED BY <1>4, <3>3
  <2>3. CASE d # n /\ e # n
    BY <1>1, <1>3, <2>3 DEF Chained, InForce
  <2> QED BY <2>1, <2>2, <2>3
<1> QED BY <1>6, <1>7

LEMMA WriteExplained ==
    ASSUME DelegationIInv, NEW c \in Callers, WriteDelegation(c)
    PROVE  DelegationClashStep /\ DelegationChainStep
<1> USE DelegationsAssumption
<1> DEFINE q == call[c]
<1>0. q.row \in Delegated
  BY WriteEffect
<1>1. PICK n \in Delegated :
      /\ n = q.row
      /\ \A e \in Delegated \ {n} : delegation'[e] = delegation[e]
      /\ delegation'[n].from = delegation[n].from
      /\ delegation'[n].start = delegation[n].start
      /\ delegation'[n].end = OrStored(q.end, delegation[n].end)
      /\ delegation'[n].active = OrStored(q.active, delegation[n].active)
  BY <1>0, WriteEffect
<1>2. q.at = "write" /\ Ends(c, "write") /\ now' = now
  BY WriterEnds DEF WriteDelegation
<1>3. ~q.overtaken /\ q.end # Nobody =>
         ~Overlaps(delegation[n].from, delegation[n].start, q.end, n)
  BY <1>1, <1>2 DEF DelegationIInv, CallOK
<1>4. ASSUME NEW e \in Delegated, ~Clash(n, e), Clash(n, e)'
      PROVE  q.active = TRUE \/ q.overtaken
  <2> SUFFICES ASSUME ~(q.active = TRUE \/ q.overtaken) PROVE FALSE
    OBVIOUS
  <2>0. q.active # TRUE /\ ~q.overtaken
    OBVIOUS
  <2>1. e # n /\ delegation'[e] = delegation[e] /\ delegation'[n].active
    BY <1>1, <1>4 DEF Clash
  <2>2. delegation[n].active
    <3>1. q.active \in {FALSE, Nobody} /\ delegation[n].active \in BOOLEAN
      BY <1>1, <2>0 DEF DelegationIInv, Call, Delegation
    <3> QED BY <1>1, <2>1, <3>1 DEF OrStored
  <2>3. /\ delegation[e].active /\ delegation[e].from = delegation[n].from
        /\ Meets(e, delegation[n].start, delegation'[n].end)
    BY <1>1, <1>4, <2>1 DEF Clash, Meets
  <2>4. CASE q.end = Nobody
    BY <1>1, <1>4, <2>1, <2>2, <2>3, <2>4 DEF Clash, Meets, OrStored
  <2>5. CASE q.end # Nobody
    BY <1>1, <1>3, <2>0, <2>1, <2>3, <2>5 DEF Overlaps, OrStored
  <2> QED BY <2>4, <2>5
<1>5. DelegationClashStep
  <2> SUFFICES ASSUME NEW d \in Delegated, NEW e \in Delegated,
                      ~Clash(d, e), Clash(d, e)'
               PROVE  q.active = TRUE \/ q.overtaken
    BY <1>2 DEF DelegationClashStep, Revives
  <2>1. CASE d = n
    BY <1>4, <2>1
  <2>2. CASE e = n
    <3>1. Clash(e, d)' /\ ~Clash(e, d)
      BY DEF Clash, Meets
    <3> QED BY <1>4, <2>2, <3>1
  <2>3. CASE d # n /\ e # n
    BY <1>1, <2>3 DEF Clash, Meets
  <2> QED BY <2>1, <2>2, <2>3
<1>6. DelegationChainStep
  BY <1>2 DEF DelegationChainStep
<1> QED BY <1>5, <1>6

LEMMA DelegationExplained ==
    DelegationIInv /\ [DelegationNext]_delegationVars
    => DelegationClashStep /\ DelegationChainStep
<1> SUFFICES ASSUME DelegationIInv, [DelegationNext]_delegationVars
             PROVE  DelegationClashStep /\ DelegationChainStep
  OBVIOUS
<1>1. ASSUME NEW c \in Callers, InsertDelegation(c)
      PROVE  DelegationClashStep /\ DelegationChainStep
  BY <1>1, InsertExplained
<1>2. ASSUME NEW c \in Callers, WriteDelegation(c)
      PROVE  DelegationClashStep /\ DelegationChainStep
  BY <1>2, WriteExplained
<1>3. ASSUME \A k \in Delegated : delegation'[k] = delegation[k] \/ ~delegation'[k].active
      PROVE  DelegationClashStep /\ DelegationChainStep
  BY <1>3, EndingBreaksNothing DEF DelegationClashStep, DelegationChainStep
<1>4. ASSUME NEW c \in Callers,
             Create(c) \/ CheckChain(c) \/ Update(c) \/ CallFails(c)
      PROVE  UNCHANGED delegation
  BY <1>4 DEF Create, CheckChain, CheckNotActing, Update, CallFails
<1>5. ASSUME Tick \/ UNCHANGED delegationVars PROVE UNCHANGED delegation
  BY <1>5 DEF Tick, delegationVars
<1>6. ASSUME Cancel \/ EndAllForUser
      PROVE  \A k \in Delegated : delegation'[k] = delegation[k] \/ ~delegation'[k].active
  BY <1>6, EndEffect
<1> QED BY <1>1, <1>2, <1>3, <1>4, <1>5, <1>6 DEF DelegationNext

LEMMA DelegationInvariant == DelegationSpec => []DelegationIInv
BY DelegationInitOK, DelegationStepKeeps, PTL DEF DelegationSpec

\* Type correctness of the delegations.
THEOREM DelegationTypeCorrect == DelegationSpec => []DelegationTypeOK
<1>1. DelegationIInv => DelegationTypeOK
  BY DEF DelegationIInv, DelegationTypeOK
<1> QED BY DelegationInvariant, <1>1, PTL

\* Rules D3 and D5 for any number of requests.
THEOREM DelegationRules == DelegationSpec => RulesExplained
<1>1. DelegationIInv /\ [DelegationNext]_delegationVars
      => [DelegationClashStep]_delegationVars /\ [DelegationChainStep]_delegationVars
  BY DelegationExplained
<1>2. DelegationSpec => [][DelegationClashStep]_delegationVars
  BY DelegationInvariant, <1>1, PTL DEF DelegationSpec
<1>3. DelegationSpec => [][DelegationChainStep]_delegationVars
  BY DelegationInvariant, <1>1, PTL DEF DelegationSpec
<1> QED BY <1>2, <1>3 DEF RulesExplained, ClashExplained, ChainExplained,
                          DelegationClashStep, DelegationChainStep

-----------------------------------------------------------------------------
(* Permission resolution.                                                  *)

LEMMA LeastNumber ==
    ASSUME NEW S \in SUBSET Nat, S # {}
    PROVE  \E n \in S : \A m \in S : n <= m
<1> DEFINE Upto(n) == 0..n
           Family == {Upto(n) : n \in S}
<1>1. Family \subseteq FiniteSubsetsOf(Nat) /\ Family # {}
  <2>1. ASSUME NEW n \in S PROVE Upto(n) \in SUBSET Nat /\ IsFiniteSet(Upto(n))
    BY FS_Interval
  <2> HIDE DEF Upto
  <2> QED BY <2>1 DEF FiniteSubsetsOf
<1>2. PICK M \in Family : \A N \in Family : <<N, M>> \notin StrictSubsetOrdering(Nat)
  <2> HIDE DEF Family
  <2> QED BY <1>1, FS_StrictSubsetOrderingWellFounded, WFMin, Zenon
<1>3. PICK n \in S : M = Upto(n)
  OBVIOUS
<1>4. ASSUME NEW m \in S, m < n PROVE FALSE
  <2>1. Upto(m) \subseteq Upto(n) /\ n \in Upto(n) /\ n \notin Upto(m)
    BY <1>4
  <2>2. Upto(m) \in FiniteSubsetsOf(Nat) /\ Upto(n) \in FiniteSubsetsOf(Nat)
    BY <1>1
  <2> HIDE DEF Upto
  <2>3. <<Upto(m), Upto(n)>> \in StrictSubsetOrdering(Nat)
    BY <2>1, <2>2 DEF StrictSubsetOrdering, FiniteSubsetsOf
  <2> QED BY <1>2, <1>3, <2>3
<1> QED BY <1>4

\* The recursive query, level by level.
IsLevels(upTo, roles, depth) ==
    upTo = [n \in 0..depth |->
              IF n = 0 THEN roles
              ELSE upTo[n - 1] \cup UNION {Below[q] : q \in upTo[n - 1]}]

LEMMA LevelsDefined ==
    ASSUME NEW roles, NEW depth \in Nat
    PROVE  \E upTo : IsLevels(upTo, roles, depth)
<1> DEFINE Bad == {d \in Nat : ~\E upTo : IsLevels(upTo, roles, d)}
<1> SUFFICES ASSUME Bad # {} PROVE FALSE
  OBVIOUS
<1>1. PICK d \in Bad : \A m \in Bad : d <= m
  <2>1. Bad \in SUBSET Nat
    OBVIOUS
  <2> HIDE DEF Bad
  <2> QED BY <2>1, LeastNumber
<1>2. CASE d = 0
  <2> DEFINE f == [n \in 0..0 |-> roles]
  <2>1. IsLevels(f, roles, 0)
    BY DEF IsLevels
  <2> QED BY <1>2, <2>1
<1>3. CASE d # 0
  <2>1. d - 1 \in Nat /\ d - 1 \notin Bad
    BY <1>1, <1>3
  <2>2. PICK g : IsLevels(g, roles, d - 1)
    BY <2>1
  <2> DEFINE last == g[d - 1] \cup UNION {Below[q] : q \in g[d - 1]}
             f == [n \in 0..d |-> IF n = d THEN last ELSE g[n]]
  <2>3. ASSUME NEW n \in 0..d
        PROVE  f[n] = IF n = 0 THEN roles
                      ELSE f[n - 1] \cup UNION {Below[q] : q \in f[n - 1]}
    <3>1. CASE n = d
      <4>1. f[n] = last /\ f[n - 1] = g[d - 1]
        BY <1>3, <3>1
      <4> QED BY <1>3, <3>1, <4>1
    <3>2. CASE n # d
      <4>1. n \in 0..(d - 1)
        BY <3>2
      <4>2. g[n] = IF n = 0 THEN roles
                   ELSE g[n - 1] \cup UNION {Below[q] : q \in g[n - 1]}
        BY <2>2, <4>1 DEF IsLevels
      <4>3. f[n] = g[n] /\ (n # 0 => f[n - 1] = g[n - 1])
        BY <3>2
      <4> HIDE DEF f
      <4> QED BY <4>2, <4>3
    <3> QED BY <3>1, <3>2
  <2>4. f = [n \in 0..d |-> f[n]]
    OBVIOUS
  <2>5. IsLevels(f, roles, d)
    <3> HIDE DEF f
    <3> QED BY <2>3, <2>4 DEF IsLevels
  <2> QED BY <2>5
<1> QED BY <1>2, <1>3

LEMMA RolesFromLevels ==
    ASSUME NEW roles
    PROVE  \E upTo : /\ IsLevels(upTo, roles, MaxDepth)
                     /\ RolesFrom(roles) = upTo[MaxDepth]
<1> DEFINE f == CHOOSE upTo : IsLevels(upTo, roles, MaxDepth)
<1>1. IsLevels(f, roles, MaxDepth)
  BY LevelsDefined, EffectivePermissionsAssumption
<1>2. RolesFrom(roles) = f[MaxDepth]
  BY DEF RolesFrom, IsLevels
<1> QED BY <1>1, <1>2

\* What the recursive query returns: only roles reachable from the ones held.
LEMMA RolesFromReachable ==
    ASSUME NEW roles \in SUBSET Roles
    PROVE  /\ roles \subseteq RolesFrom(roles)
           /\ RolesFrom(roles) \subseteq Reachable(roles)
<1> USE EffectivePermissionsAssumption
<1>1. PICK upTo : IsLevels(upTo, roles, MaxDepth) /\ RolesFrom(roles) = upTo[MaxDepth]
  BY RolesFromLevels
<1>2. \A n \in 0..MaxDepth :
         upTo[n] = IF n = 0 THEN roles
                   ELSE upTo[n - 1] \cup UNION {Below[q] : q \in upTo[n - 1]}
  BY <1>1 DEF IsLevels
<1> DEFINE Bad == {n \in 0..MaxDepth : ~(roles \subseteq upTo[n] /\ upTo[n] \subseteq Reachable(roles))}
<1>3. Bad = {}
  <2> SUFFICES ASSUME Bad # {} PROVE FALSE
    OBVIOUS
  <2>1. PICK n \in Bad : \A m \in Bad : n <= m
    <3>1. Bad \in SUBSET Nat
      OBVIOUS
    <3> HIDE DEF Bad
    <3> QED BY <3>1, LeastNumber
  <2>2. CASE n = 0
    BY <1>2, <2>1, <2>2 DEF Reachable
  <2>3. CASE n # 0
    <3>1. n - 1 \in 0..MaxDepth /\ n - 1 \notin Bad
      BY <2>1, <2>3
    <3>2. roles \subseteq upTo[n - 1] /\ upTo[n - 1] \subseteq Reachable(roles)
      BY <3>1
    <3>3. upTo[n] = upTo[n - 1] \cup UNION {Below[q] : q \in upTo[n - 1]}
      BY <1>2, <2>1, <2>3
    <3>4. ASSUME NEW q \in Reachable(roles), NEW k \in Below[q] PROVE k \in Reachable(roles)
      BY <3>4 DEF Reachable
    <3> HIDE DEF Bad
    <3>5. roles \subseteq upTo[n] /\ upTo[n] \subseteq Reachable(roles)
      BY <3>2, <3>3, <3>4
    <3> QED BY <2>1, <3>5 DEF Bad
  <2> QED BY <2>2, <2>3
<1> QED BY <1>1, <1>3

\* The hierarchy is no deeper than the query looks.
HierarchyWithinDepth ==
    \A roles \in SUBSET Roles : Reachable(roles) \subseteq RolesFrom(roles)

\* Every round of the query that does not close the set adds a role, so the depth
\* suffices for any hierarchy of at most MaxDepth + 1 roles, cycles or not.
LEMMA LevelsCloseOrGrow ==
    ASSUME NEW roles \in SUBSET Roles, IsFiniteSet(Roles),
           NEW upTo, IsLevels(upTo, roles, MaxDepth), NEW n \in 0..MaxDepth
    PROVE  /\ upTo[n] \subseteq Roles
           /\ \/ \A q \in upTo[n] : Below[q] \subseteq upTo[n]
              \/ Cardinality(upTo[n]) >= n + 1
<1> USE EffectivePermissionsAssumption
<1> DEFINE Closed(k) == \A q \in upTo[k] : Below[q] \subseteq upTo[k]
           Good(k) == upTo[k] \subseteq Roles /\ (Closed(k) \/ Cardinality(upTo[k]) >= k + 1)
           Bad == {k \in 0..MaxDepth : ~Good(k)}
<1>1. \A k \in 0..MaxDepth :
         upTo[k] = IF k = 0 THEN roles
                   ELSE upTo[k - 1] \cup UNION {Below[q] : q \in upTo[k - 1]}
  BY DEF IsLevels
<1>2. Bad = {}
  <2> SUFFICES ASSUME Bad # {} PROVE FALSE
    OBVIOUS
  <2>1. PICK k \in Bad : \A m \in Bad : k <= m
    <3>1. Bad \in SUBSET Nat
      OBVIOUS
    <3> HIDE DEF Bad
    <3> QED BY <3>1, LeastNumber
  <2>2. k \in 0..MaxDepth
    OBVIOUS
  <2>3. CASE k = 0
    <3>1. upTo[0] = roles
      BY <1>1, <2>2, <2>3
    <3>2. CASE roles = {}
      BY <2>1, <2>3, <3>1, <3>2
    <3>3. CASE roles # {}
      <4>1. PICK q \in roles : TRUE
        BY <3>3
      <4>2. IsFiniteSet(roles) /\ {q} \in SUBSET roles
        BY <4>1, FS_Subset
      <4>3. Cardinality({q}) = 1 /\ Cardinality({q}) <= Cardinality(roles)
        BY <4>2, FS_Subset, FS_Singleton
      <4>4. Cardinality(roles) \in Nat
        BY <4>2, FS_CardinalityType
      <4>5. Cardinality(roles) >= 0 + 1
        BY <4>3, <4>4
      <4> QED BY <2>1, <2>3, <3>1, <4>5
    <3> QED BY <3>2, <3>3
  <2>4. CASE k # 0
    <3>1. k - 1 \in 0..MaxDepth /\ Good(k - 1)
      BY <2>1, <2>4
    <3>2. upTo[k] = upTo[k - 1] \cup UNION {Below[q] : q \in upTo[k - 1]}
      BY <1>1, <2>2, <2>4
    <3>3. upTo[k - 1] \subseteq Roles /\ upTo[k] \subseteq Roles
      BY <3>1, <3>2
    <3>4. CASE Closed(k - 1)
      <4>1. upTo[k] = upTo[k - 1]
        BY <3>2, <3>4
      <4>2. Closed(k)
        BY <3>4, <4>1
      <4> QED BY <2>1, <3>3, <4>2
    <3>5. CASE ~Closed(k - 1)
      <4>1. PICK q \in upTo[k] : q \notin upTo[k - 1]
        BY <3>2, <3>5
      <4>2. IsFiniteSet(upTo[k]) /\ IsFiniteSet(upTo[k - 1])
        BY <3>3, FS_Subset
      <4>3. Cardinality(upTo[k - 1] \cup {q}) = Cardinality(upTo[k - 1]) + 1
        BY <4>1, <4>2, FS_AddElement
      <4>4. upTo[k - 1] \cup {q} \in SUBSET upTo[k]
        BY <3>2
      <4>5. Cardinality(upTo[k - 1] \cup {q}) <= Cardinality(upTo[k])
        BY <4>2, <4>4, FS_Subset
      <4>6. Cardinality(upTo[k]) \in Nat /\ Cardinality(upTo[k - 1]) \in Nat
        BY <4>2, FS_CardinalityType
      <4>7. Cardinality(upTo[k - 1]) >= k
        BY <2>2, <3>1, <3>5
      <4>8. Cardinality(upTo[k]) >= k + 1
        BY <2>2, <4>3, <4>5, <4>6, <4>7
      <4> QED BY <2>1, <3>3, <4>8
    <3> QED BY <3>4, <3>5
  <2> QED BY <2>3, <2>4
<1> QED BY <1>2

LEMMA ClosedReachable ==
    ASSUME NEW roles \in SUBSET Roles, NEW closed \in SUBSET Roles,
           roles \subseteq closed, \A q \in closed : Below[q] \subseteq closed
    PROVE  Reachable(roles) \subseteq closed
BY DEF Reachable

\* A hierarchy of few roles is within the depth of the query.
THEOREM SmallHierarchyWithinDepth ==
    ASSUME IsFiniteSet(Roles), Cardinality(Roles) <= MaxDepth + 1
    PROVE  HierarchyWithinDepth
<1> USE EffectivePermissionsAssumption
<1> SUFFICES ASSUME NEW roles \in SUBSET Roles
             PROVE  Reachable(roles) \subseteq RolesFrom(roles)
  BY DEF HierarchyWithinDepth
<1>1. PICK upTo : IsLevels(upTo, roles, MaxDepth) /\ RolesFrom(roles) = upTo[MaxDepth]
  BY RolesFromLevels
<1>2. roles \subseteq RolesFrom(roles)
  BY RolesFromReachable
<1> DEFINE all == RolesFrom(roles)
<1>3. /\ all \subseteq Roles
      /\ (\A q \in all : Below[q] \subseteq all) \/ Cardinality(all) >= MaxDepth + 1
  <2>1. MaxDepth \in 0..MaxDepth
    OBVIOUS
  <2>2. /\ upTo[MaxDepth] \subseteq Roles
        /\ \/ \A q \in upTo[MaxDepth] : Below[q] \subseteq upTo[MaxDepth]
           \/ Cardinality(upTo[MaxDepth]) >= MaxDepth + 1
    <3> HIDE EffectivePermissionsAssumption
    <3> QED BY <1>1, <2>1, LevelsCloseOrGrow
  <2> QED BY <1>1, <2>2
<1>4. CASE \A q \in all : Below[q] \subseteq all
  BY <1>2, <1>3, <1>4, ClosedReachable
<1>5. CASE Cardinality(all) >= MaxDepth + 1
  <2>1. Cardinality(all) <= Cardinality(Roles) /\ (Cardinality(all) = Cardinality(Roles) => all = Roles)
    BY <1>3, FS_Subset
  <2>2. Cardinality(all) \in Nat /\ Cardinality(Roles) \in Nat
    BY <1>3, FS_Subset, FS_CardinalityType
  <2>3. all = Roles
    <3> HIDE DEF all
    <3> QED BY <1>5, <2>1, <2>2
  <2>4. Reachable(roles) \subseteq Roles
    BY DEF Reachable
  <2> QED BY <2>3, <2>4
<1> QED BY <1>3, <1>4, <1>5

-----------------------------------------------------------------------------
(* What a request knows.                                                   *)

Sourced(seen, p) == \E s \in seen : ByRole(s, p) \/ p \in s.granted \/ ByDelegation(s, p)

Known(seen, answer) ==
    \A p \in answer : Sourced(seen, p) /\ \E s \in seen : p \notin s.revoked

Excused(seen, answer) ==
    \A p \in Perms \ answer :
       \/ \E s \in seen : ~s.on \/ p \in s.revoked
       \/ /\ \E s \in seen : ~ByRole(s, p)
          /\ \E s \in seen : p \notin s.granted
          /\ \E s \in seen : ~ByDelegation(s, p)

SomeActive(seen) == \E s \in seen : s.on

\* Each scratch copy is the truth of an instant since the request began.
ScratchOK(q) ==
    /\ q.at \in {"active", "admin"} => q.asks = "has"
    /\ q.at = "scope" => q.asks = "preview"
    /\ q.at = "lookup" => q.asks # "preview"
    /\ q.at = "admin" => SomeActive(q.seen)
    /\ q.at \in {"roles", "overrides", "delegations"} /\ q.asks # "preview"
       => SomeActive(q.seen)
    /\ q.at \in {"overrides", "delegations"}
       => \E s \in q.seen : q.byRole = PermsOf(RolesFrom(s.held))
    /\ q.at = "delegations"
       => \E s \in q.seen : q.granted = s.granted /\ q.revoked = s.revoked

Fits(seen, answer) ==
    /\ answer # {} => SomeActive(seen)
    /\ Known(seen, answer)
    /\ HierarchyWithinDepth => Excused(seen, answer)

CacheOK(q) == q.kept => Fits(q.seen, q.cache)

AnswerFits(asks, seen, answer) ==
    /\ answer # {} /\ asks # "preview" => SomeActive(seen)
    /\ (asks = "has" /\ \E s \in seen : IsAdmin(s)) \/ Known(seen, answer)
    /\ HierarchyWithinDepth => Excused(seen, answer)

AnswerOK(q) == q.answered => AnswerFits(q.asks, q.seen, q.answer)

RequestOK(q) ==
    /\ q \in Request
    /\ q.at # "idle" => ThisInstant \in q.seen
    /\ ScratchOK(q) /\ CacheOK(q) /\ AnswerOK(q)

SourcesOK ==
    /\ on \in BOOLEAN /\ held \subseteq Roles /\ delegated \subseteq Perms
    /\ override \in [Overrides -> Override]
    /\ \A o \in Overrides : override[o].phase # "none" => override[o].perm \in Perms
    /\ changes \in 0..MaxChanges

PermissionsIInv ==
    /\ SourcesOK
    /\ request \in [Requests -> Request]
    /\ \A r \in Requests : RequestOK(request[r])

LEMMA InstantTypes == SourcesOK => ThisInstant \in Snapshot
BY DEF SourcesOK, ThisInstant, Snapshot, OverridesInForce

LEMMA NoRequestTypes ==
    NoRequest \in Request /\ NoRequest.at = "idle" /\ ~NoRequest.kept /\ ~NoRequest.answered
BY DEF NoRequest, Request, RequestSteps, Questions

LEMMA NoRequestOK == RequestOK(NoRequest)
BY NoRequestTypes DEF RequestOK, ScratchOK, CacheOK, AnswerOK

LEMMA PermissionsInitOK == PermissionsInit => PermissionsIInv
<1> USE EffectivePermissionsAssumption
<1> SUFFICES ASSUME PermissionsInit PROVE PermissionsIInv
  OBVIOUS
<1>1. SourcesOK
  <2>1. NoOverride \in Override /\ NoOverride.phase = "none"
    BY DEF NoOverride, Override
  <2>2. 0 \in 0..MaxChanges
    OBVIOUS
  <2> QED BY <2>1, <2>2 DEF PermissionsInit, SourcesOK
<1> QED BY <1>1, NoRequestTypes, NoRequestOK DEF PermissionsInit, PermissionsIInv

\* A step of one request.
LEMMA RequestStepKeeps ==
    ASSUME PermissionsIInv, NEW r \in Requests, NEW new, RequestOK(new),
           request' = [request EXCEPT ![r] = new], UNCHANGED Data
    PROVE  PermissionsIInv'
<1>1. SourcesOK' /\ ThisInstant' = ThisInstant
  BY DEF PermissionsIInv, SourcesOK, Data, ThisInstant, OverridesInForce
<1>2. new \in Request /\ request' \in [Requests -> Request]
  BY DEF PermissionsIInv, RequestOK
<1>3. ASSUME NEW k \in Requests PROVE RequestOK(request[k])'
  <2>1. RequestOK(request'[k])
    BY DEF PermissionsIInv
  <2> QED BY <1>1, <2>1 DEF RequestOK
<1> QED BY <1>1, <1>2, <1>3 DEF PermissionsIInv

\* What is known of some instants is known of more of them.
LEMMA MoreInstants ==
    ASSUME NEW seen, NEW more, seen \subseteq more
    PROVE  /\ SomeActive(seen) => SomeActive(more)
           /\ \A answer : Fits(seen, answer) => Fits(more, answer)
           /\ \A asks, answer : AnswerFits(asks, seen, answer) => AnswerFits(asks, more, answer)
<1>1. SomeActive(seen) => SomeActive(more)
  BY DEF SomeActive
<1>2. \A answer : Known(seen, answer) => Known(more, answer)
  BY DEF Known, Sourced
<1>3. \A answer : Excused(seen, answer) => Excused(more, answer)
  BY DEF Excused
<1> QED BY <1>1, <1>2, <1>3 DEF Fits, AnswerFits

LEMMA BeginRequestKeeps ==
    ASSUME PermissionsIInv, NEW r \in Requests, BeginRequest(r) PROVE PermissionsIInv'
<1> DEFINE new == [NoRequest EXCEPT !.at = "ready", !.seen = {ThisInstant}]
<1>1. /\ new \in Request /\ new.at = "ready" /\ new.seen = {ThisInstant}
      /\ ~new.kept /\ ~new.answered
  BY NoRequestTypes, InstantTypes DEF PermissionsIInv, Request, RequestSteps
<1>2. request' = [request EXCEPT ![r] = new] /\ UNCHANGED Data
  BY DEF BeginRequest
<1> HIDE DEF new
<1>3. RequestOK(new)
  BY <1>1 DEF RequestOK, ScratchOK, CacheOK, AnswerOK
<1> QED BY <1>2, <1>3, RequestStepKeeps

LEMMA AskKeeps ==
    ASSUME PermissionsIInv, NEW r \in Requests, Ask(r) PROVE PermissionsIInv'
<1> DEFINE q == request[r]
<1>1. q \in Request /\ RequestOK(q) /\ q.at = "ready"
  BY DEF PermissionsIInv, Ask, At
<1>2. PICK question \in Questions :
         request' = [request EXCEPT ![r].at = FirstStep[question], ![r].asks = question,
                                    ![r].answered = FALSE, ![r].answer = {}]
  BY DEF Ask
<1> DEFINE new == [q EXCEPT !.at = FirstStep[question], !.asks = question,
                            !.answered = FALSE, !.answer = {}]
<1>3. /\ new \in Request /\ new.at = FirstStep[question] /\ new.asks = question
      /\ ~new.answered /\ new.seen = q.seen /\ new.kept = q.kept /\ new.cache = q.cache
  <2>1. FirstStep[question] \in RequestSteps
    BY DEF Questions, FirstStep, RequestSteps
  <2> QED BY <1>1, <2>1 DEF Request
<1>4. request' = [request EXCEPT ![r] = new] /\ UNCHANGED Data
  BY <1>2 DEF Ask, PermissionsIInv
<1> HIDE DEF new
<1>5. new.at \in {"lookup", "active", "scope"}
      /\ (new.at = "lookup" => new.asks = "effective")
      /\ (new.at = "active" => new.asks = "has")
      /\ (new.at = "scope" => new.asks = "preview")
  BY <1>3 DEF Questions, FirstStep
<1>6. RequestOK(new)
  BY <1>1, <1>3, <1>5 DEF RequestOK, ScratchOK, CacheOK, AnswerOK
<1> QED BY <1>4, <1>6, RequestStepKeeps

\* A request goes on, having read nothing.
LEMMA GoToKeeps ==
    ASSUME PermissionsIInv, NEW r \in Requests, NEW step \in RequestSteps,
           GoTo(r, step), request[r].at # "idle",
           ScratchOK([request[r] EXCEPT !.at = step])
    PROVE  PermissionsIInv'
<1> DEFINE q == request[r]
           new == [q EXCEPT !.at = step]
<1>1. q \in Request /\ RequestOK(q)
  BY DEF PermissionsIInv
<1>2. /\ new \in Request /\ new.asks = q.asks /\ new.seen = q.seen /\ new.kept = q.kept
      /\ new.cache = q.cache /\ new.answered = q.answered /\ new.answer = q.answer
  BY <1>1 DEF Request
<1>3. request' = [request EXCEPT ![r] = new] /\ UNCHANGED Data /\ ScratchOK(new)
  BY DEF GoTo, PermissionsIInv
<1> HIDE DEF new
<1>4. RequestOK(new)
  BY <1>1, <1>2, <1>3 DEF RequestOK, CacheOK, AnswerOK
<1> QED BY <1>3, <1>4, RequestStepKeeps

LEMMA AnsweredOK ==
    ASSUME PermissionsIInv, NEW r \in Requests, NEW answer \in SUBSET Perms,
           request[r].at # "idle", AnswerFits(request[r].asks, request[r].seen, answer)
    PROVE  /\ RequestOK(Answered(r, answer))
           /\ Answered(r, answer).seen = request[r].seen
           /\ Answered(r, answer).at = "ready" /\ Answered(r, answer).answered
           /\ Answered(r, answer).asks = request[r].asks
           /\ Answered(r, answer).answer = answer
<1> DEFINE q == request[r]
           new == Answered(r, answer)
<1>1. q \in Request /\ RequestOK(q)
  BY DEF PermissionsIInv
<1>2. /\ new \in Request /\ new.at = "ready" /\ new.asks = q.asks /\ new.seen = q.seen
      /\ new.kept = q.kept /\ new.cache = q.cache /\ new.answered /\ new.answer = answer
  BY <1>1 DEF Answered, Request, RequestSteps
<1> HIDE DEF new
<1>3. RequestOK(new)
  BY <1>1, <1>2 DEF RequestOK, ScratchOK, CacheOK, AnswerOK
<1> QED BY <1>2, <1>3 DEF new

LEMMA AnswerKeeps ==
    ASSUME PermissionsIInv, NEW r \in Requests, NEW answer \in SUBSET Perms,
           request[r].at # "idle", AnswerFits(request[r].asks, request[r].seen, answer),
           Answer(r, answer)
    PROVE  PermissionsIInv'
BY AnsweredOK, RequestStepKeeps DEF Answer

LEMMA KeepKeeps ==
    ASSUME PermissionsIInv, NEW r \in Requests, NEW result \in SUBSET Perms,
           request[r].at # "idle", Fits(request[r].seen, result), Keep(r, result)
    PROVE  PermissionsIInv'
<1> DEFINE told == Answered(r, result)
           new == [told EXCEPT !.kept = TRUE, !.cache = result]
<1>1. AnswerFits(request[r].asks, request[r].seen, result)
  BY DEF Fits, AnswerFits
<1>2. /\ RequestOK(told) /\ told.seen = request[r].seen
      /\ told.at = "ready" /\ told.answered /\ told.asks = request[r].asks
      /\ told.answer = result
  BY <1>1, AnsweredOK
<1>3. request' = [request EXCEPT ![r] = new] /\ UNCHANGED Data
  BY DEF Keep
<1> HIDE DEF told
<1>4. /\ new \in Request /\ new.kept /\ new.cache = result /\ new.at = "ready"
      /\ new.seen = request[r].seen /\ new.answered /\ new.answer = result
      /\ new.asks = request[r].asks
  BY <1>2 DEF RequestOK, Request
<1> HIDE DEF new
<1>5. ThisInstant \in new.seen
  BY <1>2, <1>4 DEF RequestOK
<1>6. RequestOK(new)
  BY <1>1, <1>4, <1>5 DEF RequestOK, ScratchOK, CacheOK, AnswerOK
<1> QED BY <1>3, <1>6, RequestStepKeeps

LEMMA HasActiveKeeps ==
    ASSUME PermissionsIInv, NEW r \in Requests, HasActive(r) PROVE PermissionsIInv'
<1> DEFINE q == request[r]
<1>1. q \in Request /\ RequestOK(q) /\ q.at = "active" /\ ThisInstant \in q.seen
  BY DEF PermissionsIInv, HasActive, At, RequestOK
<1>2. ThisInstant.on = on
  BY DEF ThisInstant
<1>3. CASE on
  <2> DEFINE new == [q EXCEPT !.at = "admin"]
  <2>1. new.at = "admin" /\ new.asks = q.asks /\ new.seen = q.seen
    BY <1>1 DEF Request
  <2> HIDE DEF new
  <2>2. ScratchOK(new)
    BY <1>1, <1>2, <1>3, <2>1 DEF RequestOK, ScratchOK, SomeActive
  <2>3. "admin" \in RequestSteps /\ GoTo(r, "admin")
    BY <1>3 DEF HasActive, RequestSteps
  <2> QED BY <1>1, <2>2, <2>3, GoToKeeps DEF new
<1>4. CASE ~on
  <2>1. AnswerFits(q.asks, q.seen, {})
    BY <1>1, <1>2, <1>4 DEF AnswerFits, Known, Excused
  <2>2. Answer(r, {})
    BY <1>4 DEF HasActive
  <2> QED BY <1>1, <2>1, <2>2, AnswerKeeps
<1> QED BY <1>3, <1>4

LEMMA HasAdminKeeps ==
    ASSUME PermissionsIInv, NEW r \in Requests, HasAdmin(r) PROVE PermissionsIInv'
<1> DEFINE q == request[r]
<1>1. q \in Request /\ RequestOK(q) /\ q.at = "admin" /\ ThisInstant \in q.seen
  BY DEF PermissionsIInv, HasAdmin, At, RequestOK
<1>2. q.asks = "has" /\ SomeActive(q.seen)
  BY <1>1 DEF RequestOK, ScratchOK
<1>3. CASE RolesFrom(held) \cap AdminRoles # {}
  <2>1. RolesFrom(held) \subseteq Reachable(held)
    BY RolesFromReachable DEF PermissionsIInv, SourcesOK
  <2>2. ThisInstant.held = held
    BY DEF ThisInstant
  <2>3. IsAdmin(ThisInstant)
    BY <1>3, <2>1, <2>2 DEF IsAdmin
  <2>4. AnswerFits(q.asks, q.seen, Perms)
    BY <1>1, <1>2, <2>3 DEF AnswerFits, Excused
  <2>5. Answer(r, Perms)
    BY <1>3 DEF HasAdmin
  <2> QED BY <1>1, <2>4, <2>5, AnswerKeeps
<1>4. CASE ~(RolesFrom(held) \cap AdminRoles # {})
  <2> DEFINE new == [q EXCEPT !.at = "lookup"]
  <2>1. new.at = "lookup" /\ new.asks = "has"
    BY <1>1, <1>2 DEF Request
  <2> HIDE DEF new
  <2>2. ScratchOK(new)
    BY <2>1 DEF ScratchOK
  <2>3. "lookup" \in RequestSteps /\ GoTo(r, "lookup")
    BY <1>4 DEF HasAdmin, RequestSteps
  <2> QED BY <1>1, <2>2, <2>3, GoToKeeps DEF new
<1> QED BY <1>3, <1>4

LEMMA LookupKeeps ==
    ASSUME PermissionsIInv, NEW r \in Requests, Lookup(r) PROVE PermissionsIInv'
<1> DEFINE q == request[r]
<1>1. q \in Request /\ RequestOK(q) /\ q.at = "lookup" /\ ThisInstant \in q.seen
  BY DEF PermissionsIInv, Lookup, At, RequestOK
<1>2. ThisInstant.on = on
  BY DEF ThisInstant
<1>3. CASE q.kept /\ Answer(r, q.cache)
  <2>1. q.cache \in SUBSET Perms
    BY <1>1 DEF Request
  <2>2. AnswerFits(q.asks, q.seen, q.cache)
    BY <1>1, <1>3 DEF RequestOK, CacheOK, Fits, AnswerFits
  <2> QED BY <1>1, <1>3, <2>1, <2>2, AnswerKeeps
<1>4. CASE on /\ GoTo(r, "roles")
  <2> DEFINE new == [q EXCEPT !.at = "roles"]
  <2>1. new.at = "roles" /\ new.seen = q.seen
    BY <1>1 DEF Request
  <2> HIDE DEF new
  <2>2. ScratchOK(new)
    BY <1>1, <1>2, <1>4, <2>1 DEF ScratchOK, SomeActive
  <2>3. "roles" \in RequestSteps
    BY DEF RequestSteps
  <2> QED BY <1>1, <1>4, <2>2, <2>3, GoToKeeps DEF new
<1>5. CASE ~on /\ Keep(r, {})
  <2>1. Fits(q.seen, {})
    BY <1>1, <1>2, <1>5 DEF Fits, Known, Excused
  <2> QED BY <1>1, <1>5, <2>1, KeepKeeps
<1> QED BY <1>3, <1>4, <1>5 DEF Lookup

LEMMA InScopeKeeps ==
    ASSUME PermissionsIInv, NEW r \in Requests, InScope(r) PROVE PermissionsIInv'
<1> DEFINE q == request[r]
<1>1. q \in Request /\ RequestOK(q) /\ q.at = "scope" /\ q.asks = "preview"
  BY DEF PermissionsIInv, InScope, At, RequestOK, ScratchOK
<1>2. PICK step \in {"roles", "ready"} : GoTo(r, step)
  BY DEF InScope
<1> DEFINE new == [q EXCEPT !.at = step]
<1>3. new.at = step /\ new.asks = "preview" /\ step \in RequestSteps
  BY <1>1 DEF Request, RequestSteps
<1> HIDE DEF new
<1>4. ScratchOK(new)
  BY <1>3 DEF ScratchOK
<1> QED BY <1>1, <1>2, <1>3, <1>4, GoToKeeps DEF new

LEMMA ReadRolesKeeps ==
    ASSUME PermissionsIInv, NEW r \in Requests, ReadRoles(r) PROVE PermissionsIInv'
<1> DEFINE q == request[r]
           byRole == PermsOf(RolesFrom(held))
           new == [q EXCEPT !.at = "overrides", !.byRole = byRole]
<1>1. q \in Request /\ RequestOK(q) /\ q.at = "roles" /\ ThisInstant \in q.seen
  BY DEF PermissionsIInv, ReadRoles, At, RequestOK
<1>2. byRole \in SUBSET Perms
  <2>1. RolesFrom(held) \subseteq Roles
    BY RolesFromReachable DEF PermissionsIInv, SourcesOK, Reachable
  <2> QED BY <2>1, EffectivePermissionsAssumption DEF PermsOf
<1>3. ThisInstant.held = held
  BY DEF ThisInstant
<1>4. request' = [request EXCEPT ![r] = new] /\ UNCHANGED Data
  BY DEF ReadRoles, PermissionsIInv
<1> HIDE DEF byRole
<1>5. /\ new \in Request /\ new.at = "overrides" /\ new.byRole = byRole
      /\ new.asks = q.asks /\ new.seen = q.seen /\ new.kept = q.kept
      /\ new.cache = q.cache /\ new.answered = q.answered /\ new.answer = q.answer
  BY <1>1, <1>2 DEF Request, RequestSteps
<1> HIDE DEF new
<1>6. ScratchOK(new)
  <2>1. new.byRole = PermsOf(RolesFrom(ThisInstant.held))
    BY <1>3, <1>5 DEF byRole
  <2> QED BY <1>1, <1>5, <2>1 DEF RequestOK, ScratchOK
<1>7. RequestOK(new)
  BY <1>1, <1>5, <1>6 DEF RequestOK, CacheOK, AnswerOK
<1> QED BY <1>4, <1>7, RequestStepKeeps

LEMMA ReadOverridesKeeps ==
    ASSUME PermissionsIInv, NEW r \in Requests, ReadOverrides(r) PROVE PermissionsIInv'
<1> DEFINE q == request[r]
           granted == OverridesInForce(TRUE)
           revoked == OverridesInForce(FALSE)
           new == [q EXCEPT !.at = "delegations", !.granted = granted, !.revoked = revoked]
<1>1. q \in Request /\ RequestOK(q) /\ q.at = "overrides" /\ ThisInstant \in q.seen
  BY DEF PermissionsIInv, ReadOverrides, At, RequestOK
<1>2. granted \in SUBSET Perms /\ revoked \in SUBSET Perms
  BY DEF PermissionsIInv, SourcesOK, OverridesInForce
<1>3. ThisInstant.granted = granted /\ ThisInstant.revoked = revoked
  BY DEF ThisInstant
<1>4. request' = [request EXCEPT ![r] = new] /\ UNCHANGED Data
  BY DEF ReadOverrides, PermissionsIInv
<1> HIDE DEF granted, revoked
<1>5. /\ new \in Request /\ new.at = "delegations" /\ new.byRole = q.byRole
      /\ new.granted = granted /\ new.revoked = revoked
      /\ new.asks = q.asks /\ new.seen = q.seen /\ new.kept = q.kept
      /\ new.cache = q.cache /\ new.answered = q.answered /\ new.answer = q.answer
  BY <1>1, <1>2 DEF Request, RequestSteps
<1> HIDE DEF new
<1>6. ScratchOK(new)
  BY <1>1, <1>3, <1>5 DEF RequestOK, ScratchOK
<1>7. RequestOK(new)
  BY <1>1, <1>5, <1>6 DEF RequestOK, CacheOK, AnswerOK
<1> QED BY <1>4, <1>7, RequestStepKeeps

\* What the three reads combine to, though each may be of another instant.
LEMMA CombinedFits ==
    ASSUME PermissionsIInv, NEW r \in Requests, request[r].at = "delegations",
           NEW conferred,
           conferred = IF DelegationsConfer THEN delegated ELSE {}
    PROVE  /\ Combined(r, conferred) \in SUBSET Perms
           /\ Known(request[r].seen, Combined(r, conferred))
           /\ HierarchyWithinDepth => Excused(request[r].seen, Combined(r, conferred))
<1> DEFINE q == request[r]
           result == Combined(r, conferred)
<1>1. q \in Request /\ RequestOK(q) /\ ThisInstant \in q.seen
  BY DEF PermissionsIInv, RequestOK
<1>2. PICK s1 \in q.seen : q.byRole = PermsOf(RolesFrom(s1.held))
  BY <1>1 DEF RequestOK, ScratchOK
<1>3. PICK s2 \in q.seen : q.granted = s2.granted /\ q.revoked = s2.revoked
  BY <1>1 DEF RequestOK, ScratchOK
<1>4. s1.held \in SUBSET Roles
  BY <1>1 DEF Request, Snapshot
<1>5. RolesFrom(s1.held) \subseteq Reachable(s1.held)
      /\ (HierarchyWithinDepth => Reachable(s1.held) \subseteq RolesFrom(s1.held))
  BY <1>4, RolesFromReachable DEF HierarchyWithinDepth
<1>6. \A p : /\ p \in q.byRole => ByRole(s1, p)
             /\ HierarchyWithinDepth /\ p \notin q.byRole => ~ByRole(s1, p)
  BY <1>2, <1>5 DEF ByRole, PermsOf
<1>7. \A p : p \in conferred <=> ByDelegation(ThisInstant, p)
  BY DEF ByDelegation, ThisInstant
<1>8. result = (q.byRole \cup q.granted \cup conferred) \ q.revoked
  BY DEF Combined
<1>9. result \in SUBSET Perms
  BY <1>1, <1>8 DEF PermissionsIInv, SourcesOK, Request
<1> HIDE DEF result
<1>10. Known(q.seen, result)
  BY <1>1, <1>2, <1>3, <1>6, <1>7, <1>8 DEF Known, Sourced
<1>11. ASSUME HierarchyWithinDepth PROVE Excused(q.seen, result)
  <2> SUFFICES ASSUME NEW p \in Perms \ result
               PROVE  \/ \E s \in q.seen : ~s.on \/ p \in s.revoked
                      \/ /\ \E s \in q.seen : ~ByRole(s, p)
                         /\ \E s \in q.seen : p \notin s.granted
                         /\ \E s \in q.seen : ~ByDelegation(s, p)
    BY DEF Excused
  <2>1. CASE p \in q.revoked
    BY <1>3, <2>1
  <2>2. CASE p \notin q.revoked
    <3>1. p \notin q.byRole /\ p \notin q.granted /\ p \notin conferred
      BY <1>8, <2>2
    <3> QED BY <1>1, <1>2, <1>3, <1>6, <1>7, <1>11, <3>1
  <2> QED BY <2>1, <2>2
<1> QED BY <1>9, <1>10, <1>11 DEF result

LEMMA ReadDelegationsKeeps ==
    ASSUME PermissionsIInv, NEW r \in Requests, ReadDelegations(r) PROVE PermissionsIInv'
<1> DEFINE q == request[r]
           conferred == IF DelegationsConfer THEN delegated ELSE {}
           result == Combined(r, conferred)
<1>1. q \in Request /\ RequestOK(q) /\ q.at = "delegations"
  BY DEF PermissionsIInv, ReadDelegations, At
<1>2. /\ result \in SUBSET Perms /\ Known(q.seen, result)
      /\ HierarchyWithinDepth => Excused(q.seen, result)
  BY <1>1, CombinedFits
<1>3. q.asks # "preview" => SomeActive(q.seen)
  BY <1>1 DEF RequestOK, ScratchOK
<1>4. IF q.asks = "preview" THEN Answer(r, result) ELSE Keep(r, result)
  BY DEF ReadDelegations
<1> HIDE DEF result
<1>5. CASE q.asks = "preview"
  <2>1. AnswerFits(q.asks, q.seen, result)
    BY <1>2, <1>5 DEF AnswerFits
  <2> QED BY <1>1, <1>2, <1>4, <1>5, <2>1, AnswerKeeps
<1>6. CASE q.asks # "preview"
  <2>1. Fits(q.seen, result)
    BY <1>2, <1>3, <1>6 DEF Fits
  <2> QED BY <1>1, <1>2, <1>4, <1>6, <2>1, KeepKeeps
<1> QED BY <1>5, <1>6

LEMMA EndRequestKeeps ==
    ASSUME PermissionsIInv, NEW r \in Requests, EndRequest(r) PROVE PermissionsIInv'
BY NoRequestOK, RequestStepKeeps DEF EndRequest

\* A change of the sources while requests run: each learns of the new instant.
LEMMA ChangeKeepsAnswers ==
    ASSUME PermissionsIInv,
           NEW newOn \in BOOLEAN, NEW newHeld \in SUBSET Roles,
           NEW newOverride \in [Overrides -> Override], NEW newDelegated \in SUBSET Perms,
           \A o \in Overrides :
              newOverride[o].phase # "none" => newOverride[o].perm \in Perms,
           Change(newOn, newHeld, newOverride, newDelegated)
    PROVE  PermissionsIInv'
<1> USE EffectivePermissionsAssumption
<1>1. SourcesOK'
  <2>1. changes' \in 0..MaxChanges
    BY DEF Change, PermissionsIInv, SourcesOK
  <2> QED BY <2>1 DEF Change, SourcesOK
<1>2. ThisInstant' \in Snapshot
  BY <1>1 DEF SourcesOK, ThisInstant, Snapshot, OverridesInForce
<1> DEFINE instant == ThisInstant'
           learned(k) == [request[k] EXCEPT !.seen = @ \cup {instant}]
<1>3. request' = [k \in Requests |->
                     IF request[k].at = "idle" THEN request[k] ELSE learned(k)]
  BY DEF Change
<1>4. ASSUME NEW k \in Requests PROVE RequestOK(request[k])'
  <2> DEFINE q == request[k]
  <2>1. q \in Request /\ RequestOK(q)
    BY DEF PermissionsIInv
  <2>2. CASE q.at = "idle"
    <3>1. request'[k] = q
      BY <1>3, <2>2
    <3> QED BY <2>1, <2>2, <3>1 DEF RequestOK
  <2>3. CASE q.at # "idle"
    <3> DEFINE new == learned(k)
    <3>1. request'[k] = new
      BY <1>3, <2>3
    <3> HIDE DEF instant
    <3>2. /\ new \in Request /\ new.seen = q.seen \cup {instant}
          /\ new.at = q.at /\ new.asks = q.asks /\ new.byRole = q.byRole
          /\ new.granted = q.granted /\ new.revoked = q.revoked /\ new.kept = q.kept
          /\ new.cache = q.cache /\ new.answered = q.answered /\ new.answer = q.answer
      <4>1. instant \in Snapshot
        BY <1>2 DEF instant
      <4> QED BY <2>1, <4>1 DEF Request
    <3> HIDE DEF new
    <3>3. q.seen \subseteq new.seen /\ instant \in new.seen
      BY <3>2
    <3>4. /\ SomeActive(q.seen) => SomeActive(new.seen)
          /\ Fits(q.seen, q.cache) => Fits(new.seen, q.cache)
          /\ AnswerFits(q.asks, q.seen, q.answer) => AnswerFits(q.asks, new.seen, q.answer)
      BY <3>3, MoreInstants
    <3>5. ScratchOK(new)
      BY <2>1, <3>2, <3>3, <3>4 DEF RequestOK, ScratchOK
    <3>6. CacheOK(new) /\ AnswerOK(new)
      BY <2>1, <3>2, <3>4 DEF RequestOK, CacheOK, AnswerOK
    <3>7. ThisInstant' \in new.seen
      BY <3>3 DEF instant
    <3> QED BY <3>1, <3>2, <3>5, <3>6, <3>7 DEF RequestOK
  <2> QED BY <2>2, <2>3
<1>5. request' \in [Requests -> Request]
  <2>1. \A k \in Requests : request'[k] \in Request
    BY <1>4 DEF RequestOK
  <2>2. request' = [k \in Requests |-> request'[k]]
    BY <1>3
  <2> QED BY <2>1, <2>2
<1> QED BY <1>1, <1>4, <1>5 DEF PermissionsIInv

LEMMA OverrideBecomesKeeps ==
    ASSUME PermissionsIInv, NEW o \in Overrides, NEW new \in Override,
           new.phase # "none" => new.perm \in Perms, OverrideBecomes(o, new)
    PROVE  PermissionsIInv'
<1> DEFINE newOverride == [override EXCEPT ![o] = new]
<1>1. /\ override \in [Overrides -> Override]
      /\ \A k \in Overrides : override[k].phase # "none" => override[k].perm \in Perms
      /\ on \in BOOLEAN /\ held \in SUBSET Roles /\ delegated \in SUBSET Perms
  BY DEF PermissionsIInv, SourcesOK
<1>2. /\ newOverride \in [Overrides -> Override]
      /\ \A k \in Overrides :
            newOverride[k].phase # "none" => newOverride[k].perm \in Perms
  BY <1>1
<1>3. Change(on, held, newOverride, delegated)
  BY DEF OverrideBecomes
<1> HIDE DEF newOverride
<1> QED BY <1>1, <1>2, <1>3, ChangeKeepsAnswers

LEMMA SourcesChangeKeepsAnswers ==
    ASSUME PermissionsIInv,
           \/ ChangeRoles \/ ChangeDelegations \/ SwitchUser
           \/ CreateOverride \/ EndOverride \/ BeginOverride
    PROVE  PermissionsIInv'
<1>1. /\ override \in [Overrides -> Override]
      /\ \A k \in Overrides : override[k].phase # "none" => override[k].perm \in Perms
      /\ on \in BOOLEAN /\ held \in SUBSET Roles /\ delegated \in SUBSET Perms
  BY DEF PermissionsIInv, SourcesOK
<1>2. CASE ChangeRoles
  <2>1. PICK q \in Roles :
           Change(on, IF q \in held THEN held \ {q} ELSE held \cup {q}, override, delegated)
    BY <1>2 DEF ChangeRoles
  <2>2. (IF q \in held THEN held \ {q} ELSE held \cup {q}) \in SUBSET Roles
    BY <1>1
  <2> QED BY <1>1, <2>1, <2>2, ChangeKeepsAnswers
<1>3. CASE ChangeDelegations
  <2>1. PICK p \in Perms :
           Change(on, held, override,
                  IF p \in delegated THEN delegated \ {p} ELSE delegated \cup {p})
    BY <1>3 DEF ChangeDelegations
  <2>2. (IF p \in delegated THEN delegated \ {p} ELSE delegated \cup {p}) \in SUBSET Perms
    BY <1>1
  <2> QED BY <1>1, <2>1, <2>2, ChangeKeepsAnswers
<1>4. CASE SwitchUser
  <2>1. (~on) \in BOOLEAN
    BY <1>1
  <2>2. Change(~on, held, override, delegated)
    BY <1>4 DEF SwitchUser
  <2> QED BY <1>1, <2>1, <2>2, ChangeKeepsAnswers
<1>5. CASE CreateOverride
  <2> DEFINE free == {o \in Overrides : override[o].phase = "none"}
  <2>1. PICK p \in Perms, granted \in BOOLEAN, phase \in {"future", "inForce"} :
           /\ free # {}
           /\ OverrideBecomes(CHOOSE o \in free : TRUE,
                              [perm |-> p, granted |-> granted, phase |-> phase])
    BY <1>5 DEF CreateOverride
  <2> DEFINE o == CHOOSE o \in free : TRUE
             new == [perm |-> p, granted |-> granted, phase |-> phase]
  <2>2. o \in Overrides
    BY <2>1
  <2>3. new \in Override /\ new.perm \in Perms
    BY DEF Override
  <2> QED BY <2>1, <2>2, <2>3, OverrideBecomesKeeps
<1>6. CASE EndOverride
  <2>1. PICK o \in Overrides :
           /\ override[o].phase \in {"future", "inForce"}
           /\ OverrideBecomes(o, [override[o] EXCEPT !.phase = "ended"])
    BY <1>6 DEF EndOverride
  <2>2. /\ [override[o] EXCEPT !.phase = "ended"] \in Override
        /\ [override[o] EXCEPT !.phase = "ended"].perm \in Perms
    BY <1>1, <2>1 DEF Override
  <2> QED BY <2>1, <2>2, OverrideBecomesKeeps
<1>7. CASE BeginOverride
  <2>1. PICK o \in Overrides :
           /\ override[o].phase = "future"
           /\ OverrideBecomes(o, [override[o] EXCEPT !.phase = "inForce"])
    BY <1>7 DEF BeginOverride
  <2>2. /\ [override[o] EXCEPT !.phase = "inForce"] \in Override
        /\ [override[o] EXCEPT !.phase = "inForce"].perm \in Perms
    BY <1>1, <2>1 DEF Override
  <2> QED BY <2>1, <2>2, OverrideBecomesKeeps
<1> QED BY <1>2, <1>3, <1>4, <1>5, <1>6, <1>7

LEMMA PermissionsStepKeeps ==
    PermissionsIInv /\ [PermissionsNext]_permissionVars => PermissionsIInv'
<1> SUFFICES ASSUME PermissionsIInv, [PermissionsNext]_permissionVars
             PROVE  PermissionsIInv'
  OBVIOUS
<1>1. ASSUME UNCHANGED permissionVars PROVE PermissionsIInv'
  <2>1. SourcesOK' /\ ThisInstant' = ThisInstant /\ request' = request
    BY <1>1 DEF permissionVars, PermissionsIInv, SourcesOK, ThisInstant, OverridesInForce
  <2>2. ASSUME NEW k \in Requests PROVE RequestOK(request[k])'
    BY <2>1 DEF PermissionsIInv, RequestOK
  <2> QED BY <2>1, <2>2 DEF PermissionsIInv
<1> QED BY <1>1, BeginRequestKeeps, AskKeeps, HasActiveKeeps, HasAdminKeeps, LookupKeeps,
           InScopeKeeps, ReadRolesKeeps, ReadOverridesKeeps, ReadDelegationsKeeps,
           EndRequestKeeps, SourcesChangeKeepsAnswers DEF PermissionsNext

LEMMA PermissionsInvariant == PermissionsSpec => []PermissionsIInv
BY PermissionsInitOK, PermissionsStepKeeps, PTL DEF PermissionsSpec

\* Type correctness of the permission resolution.
THEOREM PermissionsTypeCorrect == PermissionsSpec => []PermissionsTypeOK
<1>1. PermissionsIInv => PermissionsTypeOK
  BY DEF PermissionsIInv, SourcesOK, PermissionsTypeOK
<1> QED BY PermissionsInvariant, <1>1, PTL

\* No permission out of nothing, whatever the hierarchy.
THEOREM NoPermissionInvented == PermissionsSpec => []NothingInvented
<1>1. PermissionsIInv => NothingInvented
  <2> SUFFICES ASSUME PermissionsIInv, NEW r \in Requests, Questioned(r)
               PROVE  LET seen == request[r].seen IN
                      /\ request[r].answer # {} /\ request[r].asks # "preview"
                         => \E s \in seen : s.on
                      /\ \A p \in request[r].answer :
                            \/ request[r].asks = "has" /\ \E s \in seen : IsAdmin(s)
                            \/ /\ \E s \in seen : ByRole(s, p) \/ p \in s.granted
                                                  \/ ByDelegation(s, p)
                               /\ \E s \in seen : p \notin s.revoked
    BY DEF NothingInvented
  <2>1. AnswerFits(request[r].asks, request[r].seen, request[r].answer)
    BY DEF PermissionsIInv, RequestOK, AnswerOK, Questioned
  <2> QED BY <2>1 DEF AnswerFits, SomeActive, Known, Sourced
<1> QED BY PermissionsInvariant, <1>1, PTL

\* With a hierarchy within the depth of the query, answers neither invent nor
\* withhold permissions, although every source is read at another instant.
THEOREM AnswersAreFaithful ==
    ASSUME HierarchyWithinDepth
    PROVE  PermissionsSpec => []AnswersFaithful
<1>1. PermissionsIInv => NothingWithheld
  <2> SUFFICES ASSUME PermissionsIInv, NEW r \in Requests, Questioned(r)
               PROVE  \A p \in Perms \ request[r].answer :
                         \/ \E s \in request[r].seen : ~s.on \/ p \in s.revoked
                         \/ /\ \E s \in request[r].seen : ~ByRole(s, p)
                            /\ \E s \in request[r].seen : p \notin s.granted
                            /\ \E s \in request[r].seen : ~ByDelegation(s, p)
    BY DEF NothingWithheld
  <2>1. AnswerFits(request[r].asks, request[r].seen, request[r].answer)
    BY DEF PermissionsIInv, RequestOK, AnswerOK, Questioned
  <2> QED BY <2>1 DEF AnswerFits, Excused
<1>2. PermissionsSpec => []NothingWithheld
  BY PermissionsInvariant, <1>1, PTL
<1> QED BY NoPermissionInvented, <1>2, PTL DEF AnswersFaithful

-----------------------------------------------------------------------------
(* Both together.                                                          *)

\* Whichever of the two moves, the other keeps its types: every variable of the
\* composed module has its type.
THEOREM AuthorityTypesCorrect == Spec => []TypesOK
<1>1. Spec => DelegationSpec /\ PermissionsSpec
  <2>1. Init => DelegationInit /\ PermissionsInit
    BY DEF Init
  <2>2. [Next]_vars => [DelegationNext]_delegationVars /\ [PermissionsNext]_permissionVars
    BY DEF Next, vars, delegationVars, permissionVars
  <2> QED BY <2>1, <2>2, PTL DEF Spec, DelegationSpec, PermissionsSpec
<1> QED BY <1>1, DelegationTypeCorrect, PermissionsTypeCorrect, PTL DEF TypesOK
==============================================================================
