--------------------------- MODULE OrgUnitTreeProofs ---------------------------
(* Theorems about OrgUnitTree, for every number of units and of overlapping   *)
(* requests and every type registry: what keeps the tree a tree, and what the *)
(* rules promise although nothing runs in a transaction.                      *)
EXTENDS OrgUnitTree, TLAPS

USE DEF Steps, Operations, Flags

\* The types of two units can carry an edge of the tree.
Edge(t, p) == p \in Created /\ <<t, unit[p].type>> \in Rules

\* What a request has established about its input once CheckParent is behind
\* it. Types never change and rows never go away, so it stays established.
Placed(r) ==
    IF req[r].parent = None
    THEN req[r].op = "create" /\ IsRootType(req[r].type)
    ELSE Edge(req[r].type, req[r].parent)

RequestPlaced(r) ==
    /\ req[r].op \in {"update", "move", "deactivate", "delete"} =>
          req[r].unit \in Created
    /\ req[r].op = "create" => req[r].type \in Types
    /\ req[r].op = "create" /\ req[r].at = "root" =>
          req[r].parent = None /\ IsRootType(req[r].type)
    /\ req[r].op = "create" /\ req[r].at \in {"sibling", "write"} => Placed(r)
    /\ req[r].op = "move" =>
          /\ req[r].parent # None
          /\ req[r].type = unit[req[r].unit].type
          /\ req[r].at # "parent" => Placed(r)
    /\ req[r].at = "root" => req[r].op = "create"
    /\ req[r].at = "ancestors" => req[r].op = "move"
    /\ req[r].at = "children" => req[r].op \in {"deactivate", "delete"}
    /\ req[r].at = "idle" => req[r].op = None

IInv ==
    /\ TypeOK
    /\ EdgesObeyRules
    /\ \A r \in Requests : RequestPlaced(r)

LEMMA IdleTyped == Idle \in Request
BY DEF Idle, Request

LEMMA GotoFields ==
    ASSUME TypeOK, NEW r \in Requests, NEW step \in Steps, Goto(r, step)
    PROVE  /\ req' \in [Requests -> Request]
           /\ req'[r].at = step /\ req'[r].op = req[r].op
           /\ req'[r].unit = req[r].unit /\ req'[r].type = req[r].type
           /\ req'[r].parent = req[r].parent /\ req'[r].code = req[r].code
           /\ \A q \in Requests \ {r} : req'[q] = req[q]
<1>1. req \in [Requests -> Request] /\ req' = [req EXCEPT ![r].at = step]
  BY DEF TypeOK, Goto
<1>2. req'[r] \in Request
  BY <1>1 DEF Request
<1>3. QED  BY <1>1, <1>2 DEF Request

LEMMA FinishFields ==
    ASSUME TypeOK, NEW r \in Requests, Finish(r)
    PROVE  /\ req' \in [Requests -> Request]
           /\ req'[r].at = "idle" /\ req'[r].op = None
           /\ \A q \in Requests \ {r} : req'[q] = req[q]
BY IdleTyped DEF TypeOK, Finish, Idle

\* The rows a write produces are rows.
LEMMA RowsTyped ==
    ASSUME TypeOK, NEW r \in Requests, RequestPlaced(r),
           Insert(r) \/ UpdateAttributes(r) \/ Reparent(r) \/ SetInactive(r)
    PROVE  unit' \in [Units -> Row]
<1>1. req[r] \in Request /\ unit \in [Units -> Row]
  BY DEF TypeOK
<1>2. CASE Insert(r)
  <2>1. PICK u \in Units : unit' = [unit EXCEPT ![u] = NewRow(r)]
    BY <1>2 DEF Insert
  <2>2. NewRow(r) \in Row
    BY <1>1 DEF NewRow, Request, Row
  <2>3. QED  BY <1>1, <2>1, <2>2
<1>3. CASE UpdateAttributes(r)
  <2> DEFINE old == unit[req[r].unit]
             new == [type |-> old.type, parent |-> old.parent,
                     code |-> IF req[r].code = None THEN old.code ELSE req[r].code,
                     is_active |-> IF req[r].isActive = "absent" THEN old.is_active
                                   ELSE req[r].isActive = "true"]
  <2>1. req[r].unit \in Units
    BY <1>3 DEF UpdateAttributes, RequestPlaced, Created
  <2>2. unit' = [unit EXCEPT ![req[r].unit] = new]
    BY <1>3 DEF UpdateAttributes
  <2>3. old \in Row
    BY <1>1, <2>1
  <2>4. new \in Row
    BY <1>1, <2>3 DEF Request, Row
  <2> HIDE DEF new
  <2>5. QED  BY <1>1, <2>2, <2>4
<1>4. CASE Reparent(r)
  <2>1. req[r].unit \in Units /\ req[r].parent \in Units \cup {None}
    BY <1>1, <1>4 DEF Reparent, RequestPlaced, Created, Request
  <2>2. unit' = [unit EXCEPT ![req[r].unit].parent = req[r].parent]
    BY <1>4 DEF Reparent
  <2>3. QED  BY <1>1, <2>1, <2>2 DEF Row
<1>5. CASE SetInactive(r)
  <2>1. unit' = [unit EXCEPT ![req[r].unit].is_active = FALSE]
    BY <1>5 DEF SetInactive
  <2>2. QED  BY <1>1, <2>1 DEF Row
<1>6. QED  BY <1>2, <1>3, <1>4, <1>5

-----------------------------------------------------------------------------
\* Rows never go away and a unit keeps its type.
TypesStay == \A u \in Created : u \in Created' /\ unit'[u].type = unit[u].type

\* What a request knows survives the steps of the others.
LEMMA PlacedStays ==
    ASSUME TypesStay, NEW q \in Requests, RequestPlaced(q), req'[q] = req[q]
    PROVE  RequestPlaced(q)'
<1>1. ASSUME NEW t, NEW p, Edge(t, p) PROVE Edge(t, p)'
  BY <1>1 DEF Edge, TypesStay
<1>2. Placed(q) => Placed(q)'
  BY <1>1 DEF Placed
<1>3. \A u : u \in Created => u \in Created' /\ unit'[u].type = unit[u].type
  BY DEF TypesStay
<1>4. QED  BY <1>2, <1>3 DEF RequestPlaced

Checks(r) ==
    \/ CheckRoot(r) \/ CheckParent(r) \/ CheckAncestors(r) \/ CheckSibling(r)
    \/ CheckChildren(r)

Writes(r) == Insert(r) \/ UpdateAttributes(r) \/ Reparent(r) \/ SetInactive(r)

LEMMA CheckShape ==
    ASSUME TypeOK, NEW r \in Requests, Checks(r)
    PROVE  \E step \in Steps : Goto(r, step) /\ UNCHANGED <<unit, overtaken>>
BY DEF Checks, CheckRoot, CheckParent, CheckAncestors, CheckSibling, CheckChildren

LEMMA TypesStayStep == IInv /\ [Next]_vars => TypesStay
<1> SUFFICES ASSUME IInv, [Next]_vars PROVE TypesStay
  OBVIOUS
<1>0. unit \in [Units -> Row]
  BY DEF IInv, TypeOK
<1>1. ASSUME unit' = unit PROVE TypesStay
  BY <1>1 DEF TypesStay, Created
<1>2. ASSUME NEW r \in Requests, Insert(r) PROVE TypesStay
  <2>1. PICK u \in Units \ Created : \E row : unit' = [unit EXCEPT ![u] = row]
    BY <1>2 DEF Insert, NewRow
  <2>2. QED  BY <1>0, <2>1 DEF TypesStay, Created
<1>3. ASSUME NEW r \in Requests, UpdateAttributes(r) PROVE TypesStay
  BY <1>0, <1>3 DEF TypesStay, Created, UpdateAttributes
<1>4. ASSUME NEW r \in Requests, Reparent(r) PROVE TypesStay
  BY <1>0, <1>4 DEF TypesStay, Created, Reparent, Row
<1>5. ASSUME NEW r \in Requests, SetInactive(r) PROVE TypesStay
  BY <1>0, <1>5 DEF TypesStay, Created, SetInactive, Row
<1>6. ASSUME NEW u \in Units, Activate(u) PROVE TypesStay
  BY <1>0, <1>6 DEF TypesStay, Created, Activate, Row
<1>7. ASSUME NEW r \in Requests, Arrive(r) \/ Checks(r) \/ RequestFails(r)
      PROVE  unit' = unit
  BY <1>7 DEF Arrive, StartCreate, StartUpdate, StartMove, StartDeactivate, Checks,
              CheckRoot, CheckParent, CheckAncestors, CheckSibling, CheckChildren,
              RequestFails
<1>8. QED
  BY <1>1, <1>2, <1>3, <1>4, <1>5, <1>6, <1>7 DEF Next, Advance, Checks, vars

-----------------------------------------------------------------------------
(* The steps of the inductive invariant, by kind of step.                    *)

LEMMA ReadStep ==
    ASSUME IInv, NEW r \in Requests, unit' = unit, req' \in [Requests -> Request],
           \A q \in Requests \ {r} : req'[q] = req[q], RequestPlaced(r)',
           overtaken' \in SUBSET overtaken
    PROVE  IInv'
<1>1. ASSUME NEW q \in Requests, q # r PROVE RequestPlaced(q)'
  BY <1>1, PlacedStays DEF IInv, TypesStay, Created
<1>2. EdgesObeyRules' /\ unit' \in [Units -> Row]
  BY DEF IInv, TypeOK, EdgesObeyRules, Created
<1>3. QED  BY <1>1, <1>2 DEF IInv, TypeOK

LEMMA CreateStep ==
    ASSUME IInv, NEW r \in Requests, NEW t \in Types, NEW p \in Units \cup {None},
           NEW c \in Codes, NEW flag \in Flags, StartCreate(r, t, p, c, flag)
    PROVE  IInv'
<1> USE OrgUnitAssumption
<1>1. req \in [Requests -> Request] /\ UNCHANGED <<unit, overtaken>>
  BY DEF IInv, TypeOK, StartCreate
<1>2. PICK step \in {"root", "parent"} :
         /\ step = "root" => p = None /\ IsRootType(t)
         /\ req' = [req EXCEPT ![r] =
                [at |-> step, op |-> "create", unit |-> None, type |-> t,
                 parent |-> p, code |-> c, isActive |-> flag]]
  BY DEF StartCreate
<1>3. req' \in [Requests -> Request]
  BY <1>1, <1>2 DEF Request
<1>4. RequestPlaced(r)'
  BY <1>1, <1>2 DEF RequestPlaced
<1>5. QED  BY <1>1, <1>2, <1>3, <1>4, ReadStep

LEMMA UpdateStep ==
    ASSUME IInv, NEW r \in Requests, NEW u \in Units, NEW c \in Codes \cup {None},
           NEW flag \in Flags, StartUpdate(r, u, c, flag)
    PROVE  IInv'
<1> USE OrgUnitAssumption
<1>1. req \in [Requests -> Request] /\ UNCHANGED <<unit, overtaken>> /\ u \in Created
      /\ unit[u] \in Row
  BY DEF IInv, TypeOK, StartUpdate
<1>2. PICK step \in {"write", "sibling"} :
         req' = [req EXCEPT ![r] =
                [at |-> step, op |-> "update", unit |-> u, type |-> None,
                 parent |-> unit[u].parent, code |-> c, isActive |-> flag]]
  BY DEF StartUpdate
<1>3. req' \in [Requests -> Request]
  BY <1>1, <1>2 DEF Request, Row
<1>4. RequestPlaced(r)'
  BY <1>1, <1>2 DEF RequestPlaced, Created
<1>5. QED  BY <1>1, <1>2, <1>3, <1>4, ReadStep

LEMMA MoveStep ==
    ASSUME IInv, NEW r \in Requests, NEW u \in Units, NEW p \in Units,
           StartMove(r, u, p)
    PROVE  IInv'
<1> USE OrgUnitAssumption
<1>1. req \in [Requests -> Request] /\ UNCHANGED <<unit, overtaken>> /\ u \in Created
      /\ unit[u] \in Row
  BY DEF IInv, TypeOK, StartMove
<1>2. req' = [req EXCEPT ![r] =
                [at |-> "parent", op |-> "move", unit |-> u,
                 type |-> unit[u].type, parent |-> p, code |-> unit[u].code,
                 isActive |-> "absent"]]
  BY DEF StartMove
<1>3. req' \in [Requests -> Request]
  BY <1>1, <1>2 DEF Request, Row
<1>4. RequestPlaced(r)'
  BY <1>1, <1>2 DEF RequestPlaced, Created
<1>5. QED  BY <1>1, <1>2, <1>3, <1>4, ReadStep

LEMMA DeactivateStep ==
    ASSUME IInv, NEW r \in Requests, NEW u \in Units,
           NEW op \in {"deactivate", "delete"}, StartDeactivate(r, u, op)
    PROVE  IInv'
<1> USE OrgUnitAssumption
<1>1. req \in [Requests -> Request] /\ UNCHANGED <<unit, overtaken>> /\ u \in Created
  BY DEF IInv, TypeOK, StartDeactivate
<1>2. req' = [req EXCEPT ![r] = [at |-> "children", op |-> op, unit |-> u,
                type |-> None, parent |-> None, code |-> None,
                isActive |-> "absent"]]
  BY DEF StartDeactivate
<1>3. req' \in [Requests -> Request]
  BY <1>1, <1>2 DEF Request
<1>4. RequestPlaced(r)'
  BY <1>1, <1>2 DEF RequestPlaced, Created
<1>5. QED  BY <1>1, <1>2, <1>3, <1>4, ReadStep

LEMMA FailStep ==
    ASSUME IInv, NEW r \in Requests, RequestFails(r)
    PROVE  IInv'
<1>1. unit' = unit /\ Finish(r) /\ overtaken' \in SUBSET overtaken
  BY DEF RequestFails
<1>2. RequestPlaced(r)'
  BY <1>1, FinishFields, OrgUnitAssumption DEF RequestPlaced, IInv
<1>3. QED  BY <1>1, <1>2, FinishFields, ReadStep DEF IInv

\* A test moves a request on, with what the test has established.
LEMMA ChecksStep ==
    ASSUME IInv, NEW r \in Requests, Checks(r)
    PROVE  IInv'
<1> USE OrgUnitAssumption
<1>1. PICK step \in Steps : Goto(r, step) /\ UNCHANGED <<unit, overtaken>>
  BY CheckShape DEF IInv
<1>2. /\ req' \in [Requests -> Request]
      /\ req'[r].at = step /\ req'[r].op = req[r].op
      /\ req'[r].unit = req[r].unit /\ req'[r].type = req[r].type
      /\ req'[r].parent = req[r].parent
      /\ \A q \in Requests \ {r} : req'[q] = req[q]
  BY <1>1, GotoFields DEF IInv
<1>3. RequestPlaced(r) /\ req[r] \in Request
  BY DEF IInv, TypeOK
<1>4. Created' = Created /\ \A t, p : Edge(t, p)' <=> Edge(t, p)
  BY <1>1 DEF Created, Edge
<1>5. Placed(r)' <=> Placed(r)
  BY <1>2, <1>4 DEF Placed
<1>6. RequestPlaced(r)'
  <2>0. /\ req[r].op \in Operations \cup {None}
        /\ req'[r].at = step
        /\ req'[r].op = "move" => req'[r].type = unit'[req'[r].unit].type
    BY <1>1, <1>2, <1>3 DEF Request, RequestPlaced
  <2>1. CASE CheckRoot(r)
    <3>1. req[r].at = "root" /\ step = "sibling"
      BY <1>2, <2>1, GotoFields DEF CheckRoot, IInv
    <3>2. req[r].op = "create" => Placed(r)
      BY <1>3, <3>1 DEF RequestPlaced, Placed
    <3>3. QED  BY <1>2, <1>3, <1>4, <1>5, <2>0, <3>1, <3>2 DEF RequestPlaced
  <2>2. CASE CheckParent(r)
    <3>1. /\ req[r].at = "parent"
          /\ step = IF req[r].op = "move" THEN "ancestors" ELSE "sibling"
      BY <1>2, <2>2, GotoFields DEF CheckParent, IInv
    <3>2. req[r].parent # None /\ Placed(r)
      BY <2>2 DEF CheckParent, Placed, Edge, Created
    <3>3. QED  BY <1>2, <1>3, <1>4, <1>5, <2>0, <3>1, <3>2 DEF RequestPlaced
  <2>3. CASE CheckAncestors(r)
    <3>1. req[r].at = "ancestors" /\ step = "sibling"
      BY <1>2, <2>3, GotoFields DEF CheckAncestors, IInv
    <3>2. QED  BY <1>2, <1>3, <1>4, <1>5, <2>0, <3>1 DEF RequestPlaced
  <2>4. CASE CheckSibling(r)
    <3>1. req[r].at = "sibling" /\ step = "write"
      BY <1>2, <2>4, GotoFields DEF CheckSibling, IInv
    <3>2. QED  BY <1>2, <1>3, <1>4, <1>5, <2>0, <3>1 DEF RequestPlaced
  <2>5. CASE CheckChildren(r)
    <3>1. req[r].at = "children" /\ step = "write"
      BY <1>2, <2>5, GotoFields DEF CheckChildren, IInv
    <3>2. QED  BY <1>2, <1>3, <1>4, <1>5, <2>0, <3>1 DEF RequestPlaced
  <2>6. QED  BY <2>1, <2>2, <2>3, <2>4, <2>5 DEF Checks
<1>7. QED  BY <1>1, <1>2, <1>6, ReadStep

-----------------------------------------------------------------------------
(* The steps that write. Each leaves the other requests alone and ends its   *)
(* own, so what remains of the invariant is the tree.                        *)

LEMMA WriteStep ==
    ASSUME IInv, NEW r \in Requests, FinishWriting(r), TypesStay,
           unit' \in [Units -> Row], EdgesObeyRules'
    PROVE  IInv'
<1>1. /\ req' \in [Requests -> Request]
      /\ req'[r].at = "idle" /\ req'[r].op = None
      /\ \A q \in Requests \ {r} : req'[q] = req[q]
      /\ overtaken' \subseteq Requests
  BY FinishFields DEF IInv, TypeOK, FinishWriting, Busy
<1>2. RequestPlaced(r)'
  BY <1>1, OrgUnitAssumption DEF RequestPlaced
<1>3. ASSUME NEW q \in Requests, q # r PROVE RequestPlaced(q)'
  BY <1>1, <1>3, PlacedStays DEF IInv
<1>4. QED  BY <1>1, <1>2, <1>3 DEF IInv, TypeOK

\* An edge that obeys the rules goes on doing so when its units keep their types.
LEMMA EdgesStay ==
    ASSUME IInv, TypesStay, NEW u \in Created,
           unit'[u].parent = unit[u].parent, unit'[u].type = unit[u].type
    PROVE  IF unit'[u].parent = None
           THEN IsRootType(unit'[u].type)
           ELSE /\ unit'[u].parent \in Created'
                /\ <<unit'[u].type, unit'[unit'[u].parent].type>> \in Rules
BY DEF IInv, EdgesObeyRules, TypesStay

LEMMA InsertStep ==
    ASSUME IInv, NEW r \in Requests, Insert(r), TypesStay
    PROVE  IInv'
<1> USE OrgUnitAssumption
<1>1. /\ req[r].at = "write" /\ req[r].op = "create" /\ RequestPlaced(r)
      /\ unit \in [Units -> Row] /\ FinishWriting(r)
  BY DEF Insert, IInv, TypeOK
<1>2. PICK u \in Units \ Created : unit' = [unit EXCEPT ![u] = NewRow(r)]
  BY DEF Insert
<1>3. Placed(r) /\ req[r].type \in Types
  BY <1>1 DEF RequestPlaced
<1>4. /\ unit'[u].type = req[r].type /\ unit'[u].parent = req[r].parent
      /\ Created' = Created \cup {u}
      /\ \A x \in Units \ {u} : unit'[x] = unit[x]
  BY <1>1, <1>2, <1>3 DEF Created, NewRow
<1>5. EdgesObeyRules'
  <2> SUFFICES ASSUME NEW x \in Created'
               PROVE  IF unit'[x].parent = None
                      THEN IsRootType(unit'[x].type)
                      ELSE /\ unit'[x].parent \in Created'
                           /\ <<unit'[x].type, unit'[unit'[x].parent].type>> \in Rules
    BY DEF EdgesObeyRules
  <2>1. CASE x = u
    BY <1>3, <1>4, <2>1 DEF Placed, Edge, TypesStay
  <2>2. CASE x # u
    BY <1>4, <2>2, EdgesStay DEF Created
  <2>3. QED  BY <2>1, <2>2
<1>6. unit' \in [Units -> Row]
  BY <1>1, RowsTyped DEF IInv
<1>7. QED  BY <1>1, <1>5, <1>6, WriteStep

\* A write that keeps every parent keeps every edge.
LEMMA ParentsKept ==
    ASSUME IInv, TypesStay, Created' = Created,
           \A x \in Created : unit'[x].parent = unit[x].parent
    PROVE  EdgesObeyRules'
<1> SUFFICES ASSUME NEW x \in Created
             PROVE  IF unit'[x].parent = None
                    THEN IsRootType(unit'[x].type)
                    ELSE /\ unit'[x].parent \in Created'
                         /\ <<unit'[x].type, unit'[unit'[x].parent].type>> \in Rules
  BY DEF EdgesObeyRules
<1>1. QED  BY EdgesStay DEF TypesStay

LEMMA AttributesStep ==
    ASSUME IInv, NEW r \in Requests, UpdateAttributes(r), TypesStay
    PROVE  IInv'
<1>1. /\ unit \in [Units -> Row] /\ FinishWriting(r) /\ RequestPlaced(r)
      /\ req[r].unit \in Created
  BY DEF UpdateAttributes, IInv, TypeOK, RequestPlaced
<1>2. Created' = Created /\ \A x \in Created : unit'[x].parent = unit[x].parent
  BY <1>1 DEF UpdateAttributes, Created
<1>3. unit' \in [Units -> Row]
  BY <1>1, RowsTyped DEF IInv
<1>4. QED  BY <1>1, <1>2, <1>3, ParentsKept, WriteStep

LEMMA InactiveStep ==
    ASSUME IInv, NEW r \in Requests, SetInactive(r), TypesStay
    PROVE  IInv'
<1>1. /\ unit \in [Units -> Row] /\ FinishWriting(r) /\ RequestPlaced(r)
      /\ unit' = [unit EXCEPT ![req[r].unit].is_active = FALSE]
  BY DEF SetInactive, IInv, TypeOK
<1>2. Created' = Created /\ \A x \in Created : unit'[x].parent = unit[x].parent
  BY <1>1 DEF Created, Row
<1>3. unit' \in [Units -> Row]
  BY <1>1, RowsTyped DEF IInv
<1>4. QED  BY <1>1, <1>2, <1>3, ParentsKept, WriteStep

LEMMA ReparentStep ==
    ASSUME IInv, NEW r \in Requests, Reparent(r), TypesStay
    PROVE  IInv'
<1>1. /\ unit \in [Units -> Row] /\ FinishWriting(r) /\ RequestPlaced(r)
      /\ req[r].at = "write" /\ req[r].op = "move"
      /\ unit' = [unit EXCEPT ![req[r].unit].parent = req[r].parent]
  BY DEF Reparent, IInv, TypeOK
<1>2. /\ req[r].unit \in Created /\ req[r].parent # None
      /\ Edge(unit[req[r].unit].type, req[r].parent)
  BY <1>1 DEF RequestPlaced, Placed
<1>3. /\ Created' = Created /\ req[r].unit \in Units
      /\ unit'[req[r].unit].parent = req[r].parent
      /\ \A x \in Units \ {req[r].unit} : unit'[x] = unit[x]
  BY <1>1, <1>2 DEF Created, Row
<1>4. EdgesObeyRules'
  <2> SUFFICES ASSUME NEW x \in Created'
               PROVE  IF unit'[x].parent = None
                      THEN IsRootType(unit'[x].type)
                      ELSE /\ unit'[x].parent \in Created'
                           /\ <<unit'[x].type, unit'[unit'[x].parent].type>> \in Rules
    BY DEF EdgesObeyRules
  <2>1. CASE x = req[r].unit
    BY <1>2, <1>3, <2>1 DEF Edge, TypesStay
  <2>2. CASE x # req[r].unit
    BY <1>3, <2>2, EdgesStay DEF Created
  <2>3. QED  BY <2>1, <2>2
<1>5. unit' \in [Units -> Row]
  BY <1>1, RowsTyped DEF IInv
<1>6. QED  BY <1>1, <1>4, <1>5, WriteStep

LEMMA ActivateStep ==
    ASSUME IInv, NEW u \in Units, Activate(u), TypesStay
    PROVE  IInv'
<1>1. /\ unit \in [Units -> Row] /\ req' = req /\ u \in Created
      /\ unit' = [unit EXCEPT ![u].is_active = TRUE]
      /\ overtaken' \subseteq Requests
  BY DEF Activate, Busy, IInv, TypeOK
<1>2. Created' = Created /\ \A x \in Created : unit'[x].parent = unit[x].parent
  BY <1>1 DEF Created, Row
<1>3. unit' \in [Units -> Row]
  BY <1>1 DEF Row
<1>4. \A q \in Requests : RequestPlaced(q)'
  BY <1>1, PlacedStays DEF IInv
<1>5. QED  BY <1>1, <1>2, <1>3, <1>4, ParentsKept DEF IInv, TypeOK

-----------------------------------------------------------------------------
LEMMA InitInvariant == Init => IInv
<1> SUFFICES ASSUME Init PROVE IInv
  OBVIOUS
<1>1. TypeOK
  BY IdleTyped DEF Init, TypeOK, NoRow, Row
<1>2. Created = {}
  BY DEF Init, Created, NoRow
<1>3. \A r \in Requests : RequestPlaced(r)
  BY OrgUnitAssumption DEF Init, Idle, RequestPlaced
<1>4. QED  BY <1>1, <1>2, <1>3 DEF IInv, EdgesObeyRules

LEMMA NextInvariant == IInv /\ [Next]_vars => IInv'
<1> SUFFICES ASSUME IInv, [Next]_vars PROVE IInv'
  OBVIOUS
<1>1. TypesStay
  BY TypesStayStep
<1>2. ASSUME NEW r \in Requests, Arrive(r) PROVE IInv'
  BY <1>2, CreateStep, UpdateStep, MoveStep, DeactivateStep DEF Arrive
<1>3. ASSUME NEW r \in Requests, Advance(r) PROVE IInv'
  BY <1>1, <1>3, ChecksStep, InsertStep, AttributesStep, ReparentStep, InactiveStep
     DEF Advance, Checks
<1>4. ASSUME NEW r \in Requests, RequestFails(r) PROVE IInv'
  BY <1>4, FailStep
<1>5. ASSUME NEW u \in Units, Activate(u) PROVE IInv'
  BY <1>1, <1>5, ActivateStep
<1>6. CASE UNCHANGED vars
  BY <1>6 DEF vars, IInv, TypeOK, EdgesObeyRules, Created, RequestPlaced, Placed, Edge
<1>7. QED  BY <1>2, <1>3, <1>4, <1>5, <1>6 DEF Next

\* The inductive invariant holds in every reachable state: the edges obey the rules, and
\* so does the edge each request is about to write.
THEOREM Invariance == Spec => []IInv
BY InitInvariant, NextInvariant, PTL DEF Spec

\* Every variable keeps its type.
THEOREM TypeCorrect == Spec => []TypeOK
<1>1. IInv => TypeOK
  BY DEF IInv
<1>2. QED  BY Invariance, <1>1, PTL

\* The type rules hold of every edge although the handlers that create and move
\* units test them on rows read long before the write, without a transaction.
THEOREM EdgesAlwaysObeyRules == Spec => []EdgesObeyRules
<1>1. IInv => EdgesObeyRules
  BY DEF IInv
<1>2. QED  BY Invariance, <1>1, PTL

-----------------------------------------------------------------------------
(* What each step does, in terms of the fields the properties speak of.      *)

\* A request that checks moves to its next step with the fields it had.
LEMMA CheckFields ==
    ASSUME IInv, NEW r \in Requests, Checks(r)
    PROVE  /\ UNCHANGED <<unit, overtaken>>
           /\ \A q \in Requests \ {r} : req'[q] = req[q]
           /\ req'[r].op = req[r].op /\ req'[r].unit = req[r].unit
           /\ req'[r].type = req[r].type /\ req'[r].parent = req[r].parent
           /\ req'[r].code = req[r].code
           /\ CheckRoot(r) => req'[r].at = "sibling"
           /\ CheckParent(r) =>
                 req'[r].at = IF req[r].op = "move" THEN "ancestors" ELSE "sibling"
           /\ CheckAncestors(r) => req'[r].at = "sibling"
           /\ CheckSibling(r) => req'[r].at = "write"
           /\ CheckChildren(r) => req'[r].at = "write"
<1>1. TypeOK
  BY DEF IInv
<1>2. PICK step \in Steps : Goto(r, step) /\ UNCHANGED <<unit, overtaken>>
  BY <1>1, CheckShape
<1>3. /\ req'[r].at = step /\ req'[r].op = req[r].op /\ req'[r].unit = req[r].unit
      /\ req'[r].type = req[r].type /\ req'[r].parent = req[r].parent
      /\ req'[r].code = req[r].code /\ \A q \in Requests \ {r} : req'[q] = req[q]
  BY <1>1, <1>2, GotoFields
<1>4. ASSUME CheckParent(r)
      PROVE  req'[r].at = IF req[r].op = "move" THEN "ancestors" ELSE "sibling"
  <2>1. CASE req[r].op = "move"
    BY <1>1, <1>4, <2>1, GotoFields DEF CheckParent
  <2>2. CASE req[r].op # "move"
    BY <1>1, <1>4, <2>2, GotoFields DEF CheckParent
  <2> QED BY <2>1, <2>2
<1>5. CheckRoot(r) => req'[r].at = "sibling"
  BY <1>1, GotoFields DEF CheckRoot
<1>6. CheckAncestors(r) => req'[r].at = "sibling"
  BY <1>1, GotoFields DEF CheckAncestors
<1>7. CheckSibling(r) => req'[r].at = "write"
  BY <1>1, GotoFields DEF CheckSibling
<1>8. CheckChildren(r) => req'[r].at = "write"
  BY <1>1, GotoFields DEF CheckChildren
<1> QED BY <1>2, <1>3, <1>4, <1>5, <1>6, <1>7, <1>8

LEMMA InsertEffect ==
    ASSUME IInv, NEW r \in Requests, Insert(r)
    PROVE  \E n \in Units \ Created :
              /\ Created' = Created \cup {n}
              /\ unit'[n].type = req[r].type
              /\ unit'[n].parent = req[r].parent /\ unit'[n].code = req[r].code
              /\ req[r].parent \in Created \cup {None}
              /\ req[r].parent # None => Edge(req[r].type, req[r].parent)
              /\ \A x \in Units \ {n} : unit'[x] = unit[x]
<1>1. PICK n \in Units \ Created : unit' = [unit EXCEPT ![n] = NewRow(r)]
  BY DEF Insert
<1>2. unit \in [Units -> Row] /\ req[r].type \in Types /\ Placed(r) /\ None \notin Types
  BY OrgUnitAssumption DEF IInv, TypeOK, RequestPlaced, Insert
<1>3. unit'[n] = NewRow(r) /\ \A x \in Units \ {n} : unit'[x] = unit[x]
  BY <1>1, <1>2
<1>4. Created' = Created \cup {n}
  BY <1>2, <1>3 DEF Created, NewRow
<1>5. req[r].parent \in Created \cup {None}
      /\ (req[r].parent # None => Edge(req[r].type, req[r].parent))
  BY <1>2 DEF Placed, Edge
<1>6. /\ NewRow(r).type = req[r].type /\ NewRow(r).parent = req[r].parent
      /\ NewRow(r).code = req[r].code
  BY DEF NewRow
<1> QED BY <1>3, <1>4, <1>5, <1>6

LEMMA UpdateEffect ==
    ASSUME IInv, NEW r \in Requests, UpdateAttributes(r)
    PROVE  /\ req[r].unit \in Created /\ Created' = Created
           /\ \A x \in Units : /\ unit'[x].parent = unit[x].parent
                               /\ unit'[x].type = unit[x].type
           /\ unit'[req[r].unit].code =
                 IF req[r].code = None THEN unit[req[r].unit].code ELSE req[r].code
           /\ \A x \in Units \ {req[r].unit} : unit'[x] = unit[x]
<1> DEFINE u == req[r].unit
           new == [type |-> unit[u].type, parent |-> unit[u].parent,
                   code |-> IF req[r].code = None THEN unit[u].code ELSE req[r].code,
                   is_active |-> IF req[r].isActive = "absent" THEN unit[u].is_active
                                 ELSE req[r].isActive = "true"]
<1>1. unit \in [Units -> Row] /\ u \in Created /\ u \in Units
  BY DEF IInv, TypeOK, RequestPlaced, UpdateAttributes, Created
<1>2. unit' = [unit EXCEPT ![u] = new]
  BY DEF UpdateAttributes
<1>3. unit'[u] = new /\ \A x \in Units \ {u} : unit'[x] = unit[x]
  BY <1>1, <1>2
<1>4. /\ unit'[u].parent = unit[u].parent /\ unit'[u].type = unit[u].type
      /\ unit'[u].code = IF req[r].code = None THEN unit[u].code ELSE req[r].code
  BY <1>3
<1> HIDE DEF new
<1>5. \A x \in Units : unit'[x].parent = unit[x].parent /\ unit'[x].type = unit[x].type
  BY <1>3, <1>4
<1>6. Created' = Created
  BY <1>5 DEF Created
<1> QED BY <1>1, <1>3, <1>4, <1>5, <1>6

LEMMA ReparentEffect ==
    ASSUME IInv, NEW r \in Requests, Reparent(r)
    PROVE  /\ req[r].unit \in Created /\ req[r].parent \in Created /\ Created' = Created
           /\ unit' = [unit EXCEPT ![req[r].unit].parent = req[r].parent]
           /\ unit'[req[r].unit].parent = req[r].parent
           /\ \A x \in Units : /\ unit'[x].type = unit[x].type
                               /\ unit'[x].code = unit[x].code
                               /\ unit'[x].is_active = unit[x].is_active
           /\ \A x \in Units \ {req[r].unit} : unit'[x] = unit[x]
<1>1. /\ unit \in [Units -> Row] /\ RequestPlaced(r)
      /\ req[r].at = "write" /\ req[r].op = "move"
      /\ unit' = [unit EXCEPT ![req[r].unit].parent = req[r].parent]
  BY DEF IInv, TypeOK, Reparent
<1>2. req[r].unit \in Created /\ req[r].parent \in Created
  BY <1>1 DEF RequestPlaced, Placed, Edge
<1>3. /\ req[r].unit \in Units
      /\ \A x \in Units \ {req[r].unit} : unit'[x] = unit[x]
      /\ unit'[req[r].unit] = [unit[req[r].unit] EXCEPT !.parent = req[r].parent]
  BY <1>1, <1>2 DEF Created
<1>4. unit[req[r].unit] \in Row
  BY <1>1, <1>3
<1>5. /\ unit'[req[r].unit].parent = req[r].parent
      /\ unit'[req[r].unit].type = unit[req[r].unit].type
      /\ unit'[req[r].unit].code = unit[req[r].unit].code
      /\ unit'[req[r].unit].is_active = unit[req[r].unit].is_active
  BY <1>3, <1>4 DEF Row
<1>6. \A x \in Units : /\ unit'[x].type = unit[x].type
                       /\ unit'[x].code = unit[x].code
                       /\ unit'[x].is_active = unit[x].is_active
  BY <1>3, <1>5
<1>7. Created' = Created
  BY <1>6 DEF Created
<1> QED BY <1>1, <1>2, <1>3, <1>5, <1>6, <1>7

\* setActiveStatus(false), softDelete and activate().
LEMMA FlagEffect ==
    ASSUME IInv, NEW u \in Units, NEW flag \in BOOLEAN,
           unit' = [unit EXCEPT ![u].is_active = flag]
    PROVE  /\ Created' = Created
           /\ unit'[u].is_active = flag
           /\ \A x \in Units : /\ unit'[x].parent = unit[x].parent
                               /\ unit'[x].type = unit[x].type
                               /\ unit'[x].code = unit[x].code
           /\ \A x \in Units \ {u} : unit'[x] = unit[x]
BY DEF IInv, TypeOK, Created, Row

LEMMA WriteEnds ==
    ASSUME IInv, NEW r \in Requests, Writes(r)
    PROVE  /\ req[r].at = "write" /\ FinishWriting(r)
           /\ req'[r].at = "idle" /\ req'[r].op = None
           /\ \A q \in Requests \ {r} : req'[q] = req[q]
<1>1. req[r].at = "write" /\ FinishWriting(r)
  BY DEF Writes, Insert, UpdateAttributes, Reparent, SetInactive
<1>2. QED  BY <1>1, FinishFields DEF IInv, FinishWriting

LEMMA ReadsOnly ==
    ASSUME IInv, NEW r \in Requests, Arrive(r) \/ Checks(r)
    PROVE  /\ UNCHANGED <<unit, overtaken>>
           /\ \A q \in Requests \ {r} : req'[q] = req[q]
           /\ Arrive(r) => req[r].at = "idle"
           /\ Checks(r) => req[r].at # "idle"
<1>1. req \in [Requests -> Request]
  BY DEF IInv, TypeOK
<1>2. CASE Arrive(r)
  <2>1. ~Checks(r)
    BY <1>2 DEF Arrive, StartCreate, StartUpdate, StartMove, StartDeactivate, Checks,
                CheckRoot, CheckParent, CheckAncestors, CheckSibling, CheckChildren
  <2>2. QED
    BY <1>1, <1>2, <2>1 DEF Arrive, StartCreate, StartUpdate, StartMove, StartDeactivate
<1>3. CASE Checks(r)
  <2>1. req[r].at # "idle"
    BY <1>3 DEF Checks, CheckRoot, CheckParent, CheckAncestors, CheckSibling,
                CheckChildren
  <2>2. ~Arrive(r)
    BY <2>1 DEF Arrive, StartCreate, StartUpdate, StartMove, StartDeactivate
  <2>3. QED  BY <1>3, <2>1, <2>2, CheckFields
<1>4. QED  BY <1>2, <1>3

-----------------------------------------------------------------------------
(* No cycles. A type has one parent type, so a cycle of units would make the *)
(* types on it a set that the registry closes; but every unit was created    *)
(* under units whose types lead to a root type, and roots do not move.       *)

\* The chain of parent types above t reaches a root type.
Grounded(t) ==
    \A T \in SUBSET Types :
        /\ t \in T
        /\ \A rule \in Rules : rule[1] \in T => rule[2] \in T
        => \E x \in T : IsRootType(x)

RootsStay(r) ==
    /\ req[r].op = "create" => (IsRootType(req[r].type) <=> req[r].parent = None)
    /\ req[r].op = "move" => unit[req[r].unit].parent # None

TreeInv ==
    /\ IInv
    /\ \A u \in Created : /\ Grounded(unit[u].type)
                          /\ IsRootType(unit[u].type) => unit[u].parent = None
    /\ \A r \in Requests : RootsStay(r)

LEMMA RootGrounded ==
    ASSUME NEW t \in Types, IsRootType(t) PROVE Grounded(t)
BY DEF Grounded

LEMMA GroundedBelow ==
    ASSUME NEW t \in Types, NEW p \in Types, <<t, p>> \in Rules, Grounded(p)
    PROVE  Grounded(t)
<1> SUFFICES ASSUME NEW T \in SUBSET Types, t \in T,
                    \A rule \in Rules : rule[1] \in T => rule[2] \in T
             PROVE  \E x \in T : IsRootType(x)
  BY DEF Grounded
<1>1. p \in T
  <2>1. <<t, p>>[1] = t /\ <<t, p>>[2] = p
    OBVIOUS
  <2>2. QED  BY <2>1
<1>2. QED  BY <1>1 DEF Grounded

\* The parents of a cycle would be grounded in a root, which has no parent.
LEMMA TreeIsAcyclic == TreeInv => Acyclic
<1> SUFFICES ASSUME TreeInv, NEW S \in SUBSET Created, S # {},
                    \A x \in S : unit[x].parent \in S
             PROVE  FALSE
  BY DEF Acyclic
<1> USE OrgUnitAssumption
<1> DEFINE T == {unit[x].type : x \in S}
<1>1. /\ \A x \in S : x \in Units /\ unit[x].type \in Types
      /\ None \notin S
  BY DEF TreeInv, IInv, TypeOK, Created, Row
<1>2. \A x \in S : <<unit[x].type, unit[unit[x].parent].type>> \in Rules
  BY <1>1 DEF TreeInv, IInv, EdgesObeyRules
<1>3. ASSUME NEW rule \in Rules, rule[1] \in T
      PROVE  rule[2] \in T
  <2>1. PICK x \in S : rule[1] = unit[x].type
    BY <1>3
  <2> DEFINE edge == <<unit[x].type, unit[unit[x].parent].type>>
  <2>2. edge \in Rules /\ edge[1] = rule[1] /\ edge[2] = unit[unit[x].parent].type
    BY <1>2, <2>1
  <2> HIDE DEF edge
  <2>3. rule = edge
    BY <2>2
  <2>4. unit[x].parent \in S
    OBVIOUS
  <2>5. QED  BY <2>2, <2>3, <2>4
<1>4. PICK x \in S : TRUE
  OBVIOUS
<1>5. Grounded(unit[x].type) /\ unit[x].type \in T /\ T \in SUBSET Types
  BY <1>1, <1>4 DEF TreeInv
<1>6. \E t \in T : IsRootType(t)
  <2> HIDE DEF T
  <2>1. QED  BY <1>3, <1>5 DEF Grounded
<1>7. PICK y \in S : IsRootType(unit[y].type)
  BY <1>6
<1>8. unit[y].parent = None
  BY <1>7 DEF TreeInv
<1>9. QED  BY <1>1, <1>7, <1>8

\* No step makes a root of a unit that has a parent.
ParentsStay ==
    \A u \in Created : unit[u].parent # None => unit'[u].parent # None

LEMMA RootsStayOfOthers ==
    ASSUME TreeInv, ParentsStay, NEW q \in Requests, req'[q] = req[q]
    PROVE  RootsStay(q)'
BY DEF TreeInv, IInv, RequestPlaced, ParentsStay, RootsStay

\* A step that keeps types and parents keeps the tree.
LEMMA TreeKept ==
    ASSUME TreeInv, IInv', Created' = Created,
           \A x \in Created : /\ unit'[x].type = unit[x].type
                              /\ unit'[x].parent = unit[x].parent,
           \A q \in Requests : req'[q] = req[q] \/ RootsStay(q)'
    PROVE  TreeInv'
<1>1. ParentsStay
  BY DEF ParentsStay
<1>2. \A q \in Requests : RootsStay(q)'
  BY <1>1, RootsStayOfOthers
<1>3. \A u \in Created' : /\ Grounded(unit[u].type)'
                          /\ IsRootType(unit'[u].type) => unit'[u].parent = None
  BY DEF TreeInv, Grounded
<1>4. QED  BY <1>2, <1>3 DEF TreeInv

LEMMA IdleRootsStay ==
    ASSUME NEW r \in Requests, req'[r].op = None PROVE RootsStay(r)'
BY OrgUnitAssumption DEF RootsStay

LEMMA ReadsKeepTree ==
    ASSUME TreeInv, IInv', NEW r \in Requests, Arrive(r) \/ Checks(r)
    PROVE  TreeInv'
<1>0. /\ IInv /\ RequestPlaced(r) /\ RootsStay(r) /\ req \in [Requests -> Request]
  BY DEF TreeInv, IInv, TypeOK
<1>1. UNCHANGED <<unit, overtaken>> /\ \A q \in Requests \ {r} : req'[q] = req[q]
  BY <1>0, ReadsOnly
<1>2. CASE Arrive(r)
  <2>1. ASSUME NEW t \in Types, NEW p \in Units \cup {None}, NEW c \in Codes,
               NEW flag \in Flags, StartCreate(r, t, p, c, flag)
        PROVE  RootsStay(r)'
    <3>1. /\ req'[r].op = "create" /\ req'[r].type = t /\ req'[r].parent = p
          /\ IsRootType(t) <=> p = None
      BY <1>0, <2>1 DEF StartCreate
    <3>2. QED  BY <3>1 DEF RootsStay, IsRootType
  <2>2. ASSUME NEW u \in Units, NEW c \in Codes \cup {None}, NEW flag \in Flags,
               StartUpdate(r, u, c, flag)
        PROVE  RootsStay(r)'
    <3>1. req'[r].op = "update"
      BY <1>0, <2>2 DEF StartUpdate
    <3>2. QED  BY <3>1 DEF RootsStay
  <2>3. ASSUME NEW u \in Units, NEW p \in Units, StartMove(r, u, p)
        PROVE  RootsStay(r)'
    <3>1. /\ req'[r].op = "move" /\ req'[r].unit = u /\ unit[u].parent # None
          /\ unit' = unit
      BY <1>0, <2>3 DEF StartMove
    <3>2. QED  BY <3>1 DEF RootsStay
  <2>4. ASSUME NEW u \in Units, NEW op \in {"deactivate", "delete"},
               StartDeactivate(r, u, op)
        PROVE  RootsStay(r)'
    <3>1. req'[r].op \in {"deactivate", "delete"}
      BY <1>0, <2>4 DEF StartDeactivate
    <3>2. QED  BY <3>1 DEF RootsStay
  <2>5. RootsStay(r)'
    BY <1>2, <2>1, <2>2, <2>3, <2>4 DEF Arrive
  <2>6. QED  BY <1>1, <2>5, TreeKept DEF Created
<1>3. CASE Checks(r)
  <2>1. /\ req'[r].op = req[r].op /\ req'[r].type = req[r].type
        /\ req'[r].parent = req[r].parent /\ req'[r].unit = req[r].unit
    BY <1>0, <1>3, CheckFields
  <2>2. RootsStay(r)'
    BY <1>0, <1>1, <2>1 DEF RootsStay
  <2>3. QED  BY <1>1, <2>2, TreeKept DEF Created
<1>4. QED  BY <1>2, <1>3

LEMMA WritesKeepTree ==
    ASSUME TreeInv, IInv', NEW r \in Requests, Writes(r)
    PROVE  TreeInv'
<1>0. /\ IInv /\ RequestPlaced(r) /\ RootsStay(r) /\ unit \in [Units -> Row]
      /\ Created \subseteq Units
  BY DEF TreeInv, IInv, TypeOK, Created
<1>1. /\ req'[r].op = None /\ \A q \in Requests \ {r} : req'[q] = req[q]
  BY <1>0, WriteEnds
<1>2. \A q \in Requests : req'[q] = req[q] \/ RootsStay(q)'
  BY <1>1, IdleRootsStay
<1>3. CASE Insert(r)
  <2>1. PICK n \in Units \ Created :
              /\ Created' = Created \cup {n}
              /\ unit'[n].type = req[r].type /\ unit'[n].parent = req[r].parent
              /\ req[r].parent # None => Edge(req[r].type, req[r].parent)
              /\ \A x \in Units \ {n} : unit'[x] = unit[x]
    BY <1>0, <1>3, InsertEffect
  <2>2. /\ req[r].type \in Types
        /\ IsRootType(req[r].type) <=> req[r].parent = None
    BY <1>0, <1>3 DEF Insert, RequestPlaced, RootsStay
  <2>3. Grounded(req[r].type)
    <3>1. CASE req[r].parent = None
      BY <2>2, <3>1, RootGrounded
    <3>2. CASE req[r].parent # None
      <4>1. /\ Grounded(unit[req[r].parent].type)
            /\ <<req[r].type, unit[req[r].parent].type>> \in Rules
        BY <2>1, <3>2 DEF Edge, TreeInv
      <4>2. unit[req[r].parent].type \in Types
        BY <4>1, OrgUnitAssumption
      <4>3. QED  BY <2>2, <4>1, <4>2, GroundedBelow
    <3>3. QED  BY <3>1, <3>2
  <2>4. \A u \in Created' : /\ Grounded(unit'[u].type)
                            /\ IsRootType(unit'[u].type) => unit'[u].parent = None
    BY <1>0, <2>1, <2>2, <2>3 DEF TreeInv
  <2>5. ParentsStay
    BY <1>0, <2>1 DEF ParentsStay
  <2>6. \A q \in Requests : RootsStay(q)'
    BY <1>2, <2>5, RootsStayOfOthers
  <2>7. QED  BY <2>4, <2>6 DEF TreeInv, Grounded, IsRootType
<1>4. CASE UpdateAttributes(r)
  BY <1>0, <1>2, <1>4, UpdateEffect, TreeKept
<1>5. CASE Reparent(r)
  <2>1. /\ req[r].unit \in Created /\ req[r].parent \in Created /\ Created' = Created
        /\ unit'[req[r].unit].parent = req[r].parent
        /\ \A x \in Units : unit'[x].type = unit[x].type
        /\ \A x \in Units \ {req[r].unit} : unit'[x] = unit[x]
    BY <1>0, <1>5, ReparentEffect
  <2>2. ~IsRootType(unit[req[r].unit].type) /\ req[r].parent # None
    <3>1. unit[req[r].unit].parent # None
      BY <1>0, <1>5 DEF Reparent, RootsStay
    <3>2. QED  BY <1>0, <2>1, <3>1, OrgUnitAssumption DEF TreeInv
  <2>3. \A u \in Created' : /\ Grounded(unit'[u].type)
                            /\ IsRootType(unit'[u].type) => unit'[u].parent = None
    BY <1>0, <2>1, <2>2 DEF TreeInv
  <2>4. ParentsStay
    BY <1>0, <2>1, <2>2 DEF ParentsStay
  <2>5. \A q \in Requests : RootsStay(q)'
    BY <1>2, <2>4, RootsStayOfOthers
  <2>6. QED  BY <2>3, <2>5 DEF TreeInv, Grounded, IsRootType
<1>6. CASE SetInactive(r)
  <2>1. req[r].unit \in Units /\ unit' = [unit EXCEPT ![req[r].unit].is_active = FALSE]
    BY <1>0, <1>6 DEF SetInactive, RequestPlaced
  <2>2. QED  BY <1>0, <1>2, <2>1, FlagEffect, TreeKept
<1>7. QED  BY <1>3, <1>4, <1>5, <1>6 DEF Writes

LEMMA TreeStep == TreeInv /\ [Next]_vars => TreeInv'
<1> SUFFICES ASSUME TreeInv, [Next]_vars PROVE TreeInv'
  OBVIOUS
<1>0. IInv /\ IInv'
  BY NextInvariant DEF TreeInv
<1>1. ASSUME NEW r \in Requests, RequestFails(r) PROVE TreeInv'
  <2>1. unit' = unit /\ Finish(r)
    BY <1>1 DEF RequestFails
  <2>2. req'[r].op = None /\ \A q \in Requests \ {r} : req'[q] = req[q]
    BY <1>0, <2>1, FinishFields DEF IInv
  <2>3. QED  BY <1>0, <2>1, <2>2, IdleRootsStay, TreeKept DEF Created
<1>2. ASSUME NEW u \in Units, Activate(u) PROVE TreeInv'
  <2>1. unit' = [unit EXCEPT ![u].is_active = TRUE] /\ req' = req
    BY <1>2 DEF Activate
  <2>2. QED  BY <1>0, <2>1, FlagEffect, TreeKept DEF Created
<1>3. CASE UNCHANGED vars
  BY <1>0, <1>3, TreeKept DEF vars, Created
<1>4. QED
  BY <1>0, <1>1, <1>2, <1>3, ReadsKeepTree, WritesKeepTree
     DEF Next, Advance, Checks, Writes

LEMMA TreeInit == Init => TreeInv
<1> SUFFICES ASSUME Init PROVE TreeInv
  OBVIOUS
<1>1. Created = {}
  BY DEF Init, Created, NoRow
<1>2. \A r \in Requests : RootsStay(r)
  BY OrgUnitAssumption DEF Init, Idle, RootsStay
<1>3. QED  BY <1>1, <1>2, InitInvariant DEF TreeInv

\* No interleaving of moves makes a cycle, under any registry: what keeps the tree a
\* tree is that a type has one parent type (C5, M4), not the descendant test (M3),
\* which another move can overtake.
THEOREM NoCycles == Spec => []Acyclic
<1>1. Spec => []TreeInv
  BY TreeInit, TreeStep, PTL DEF Spec
<1>2. QED  BY <1>1, TreeIsAcyclic, PTL

-----------------------------------------------------------------------------
(* Closed units.                                                             *)

\* A request about to make u a parent.
Attaching(r, u) ==
    /\ req[r].at \in {"ancestors", "sibling", "write"}
    /\ req[r].op \in {"create", "move"}
    /\ req[r].parent = u

\* Nothing attaches to a closed unit, so it stays closed or is activated.
LEMMA ClosedStays ==
    ASSUME IInv, [Next]_vars, NEW u \in Units, Closed(u),
           \A q \in Requests : Attaching(q, u)' => Attaching(q, u)
    PROVE  Closed(u)' \/ unit'[u].is_active
BY TypesStayStep DEF Closed, Attaching, TypesStay

LEMMA ReadsKeepClosed ==
    ASSUME IInv, NEW r \in Requests, NEW u \in Units, Closed(u),
           Arrive(r) \/ Checks(r) \/ RequestFails(r)
    PROVE  /\ unit' = unit
           /\ \A q \in Requests : Attaching(q, u)' => Attaching(q, u)
<1>1. unit' = unit
  BY DEF Arrive, StartCreate, StartUpdate, StartMove, StartDeactivate, Checks,
         CheckRoot, CheckParent, CheckAncestors, CheckSibling, CheckChildren,
         RequestFails
<1>2. req \in [Requests -> Request] /\ RequestPlaced(r) /\ ~Attaching(r, u)
  BY DEF IInv, TypeOK, Closed, Attaching
<1>3. CASE Arrive(r)
  <2>1. /\ \A q \in Requests \ {r} : req'[q] = req[q]
        /\ \/ req'[r].at \in {"root", "parent", "children"}
           \/ req'[r].op = "update"
    BY <1>2, <1>3 DEF Arrive, StartCreate, StartUpdate, StartMove, StartDeactivate
  <2>2. QED  BY <1>1, <2>1 DEF Attaching
<1>4. CASE Checks(r)
  <2>1. PICK step \in Steps : Goto(r, step)
    BY <1>4, CheckShape DEF IInv
  <2>2. /\ req'[r].at = step /\ req'[r].op = req[r].op
        /\ req'[r].parent = req[r].parent
        /\ \A q \in Requests \ {r} : req'[q] = req[q]
    BY <2>1, GotoFields DEF IInv
  <2>3. CASE CheckRoot(r)
    BY <1>1, <1>2, <2>2, <2>3, OrgUnitAssumption
       DEF CheckRoot, RequestPlaced, Attaching
  <2>4. CASE CheckParent(r)
    BY <1>1, <2>2, <2>4 DEF CheckParent, Closed, Attaching
  <2>5. CASE CheckAncestors(r) \/ CheckSibling(r)
    BY <1>1, <1>2, <2>2, <2>5 DEF CheckAncestors, CheckSibling, Attaching
  <2>6. CASE CheckChildren(r)
    BY <1>1, <1>2, <2>2, <2>6 DEF CheckChildren, RequestPlaced, Attaching
  <2>7. QED  BY <1>1, <1>4, <2>3, <2>4, <2>5, <2>6 DEF Checks
<1>5. CASE RequestFails(r)
  BY <1>1, <1>5, FinishFields DEF RequestFails, Attaching, IInv
<1>6. QED  BY <1>3, <1>4, <1>5, <1>1

LEMMA WritesKeepClosed ==
    ASSUME IInv, NEW r \in Requests, NEW u \in Units, Closed(u), Writes(r)
    PROVE  /\ \A q \in Requests : Attaching(q, u)' => Attaching(q, u)
           /\ Children(u)' \subseteq Children(u)
<1>1. /\ req \in [Requests -> Request] /\ unit \in [Units -> Row]
      /\ RequestPlaced(r) /\ ~Attaching(r, u) /\ Finish(r)
  BY DEF IInv, TypeOK, Closed, Attaching, Writes, Insert, UpdateAttributes, Reparent,
         SetInactive, FinishWriting
<1>2. \A q \in Requests : Attaching(q, u)' => Attaching(q, u)
  BY <1>1, FinishFields DEF IInv, Attaching
<1>3. ASSUME NEW x \in Created', unit'[x].parent = u
      PROVE  x \in Created /\ unit[x].parent = u
  <2>1. CASE Insert(r)
    <3>1. PICK n \in Units \ Created : unit' = [unit EXCEPT ![n] = NewRow(r)]
      BY <2>1 DEF Insert
    <3>2. req[r].parent # u
      BY <1>1, <2>1 DEF Insert, Attaching
    <3>3. x # n
      BY <1>1, <1>3, <3>1, <3>2 DEF NewRow
    <3>4. QED  BY <1>1, <1>3, <3>1, <3>3 DEF Created
  <2>2. CASE UpdateAttributes(r)
    <3>1. req[r].unit \in Created
      BY <1>1, <2>2 DEF UpdateAttributes, RequestPlaced
    <3>2. QED  BY <1>1, <1>3, <2>2, <3>1 DEF UpdateAttributes, Created
  <2>3. CASE Reparent(r)
    <3>1. unit' = [unit EXCEPT ![req[r].unit].parent = req[r].parent]
      BY <2>3 DEF Reparent
    <3>2. req[r].parent # u
      BY <1>1, <2>3 DEF Reparent, Attaching
    <3>3. x # req[r].unit
      BY <1>1, <1>3, <3>1, <3>2 DEF Created, Row
    <3>4. QED  BY <1>1, <1>3, <3>1, <3>3 DEF Created
  <2>4. CASE SetInactive(r)
    <3>1. unit' = [unit EXCEPT ![req[r].unit].is_active = FALSE]
      BY <2>4 DEF SetInactive
    <3>2. QED  BY <1>1, <1>3, <3>1 DEF Created, Row
  <2>5. QED  BY <2>1, <2>2, <2>3, <2>4 DEF Writes
<1>4. Children(u)' \subseteq Children(u)
  BY <1>3 DEF Children
<1>5. QED  BY <1>2, <1>4

LEMMA ClosedStep ==
    ASSUME IInv, [Next]_vars, NEW u \in Units, Closed(u)
    PROVE  /\ Closed(u)' \/ unit'[u].is_active
           /\ Children(u)' \subseteq Children(u)
<1>1. ASSUME NEW r \in Requests, Arrive(r) \/ Checks(r) \/ RequestFails(r)
      PROVE  /\ Closed(u)' \/ unit'[u].is_active
             /\ Children(u)' \subseteq Children(u)
  BY <1>1, ReadsKeepClosed, ClosedStays DEF Children, Created
<1>2. ASSUME NEW r \in Requests, Writes(r)
      PROVE  /\ Closed(u)' \/ unit'[u].is_active
             /\ Children(u)' \subseteq Children(u)
  BY <1>2, WritesKeepClosed, ClosedStays
<1>3. ASSUME NEW x \in Units, Activate(x)
      PROVE  /\ Closed(u)' \/ unit'[u].is_active
             /\ Children(u)' \subseteq Children(u)
  <2>1. unit \in [Units -> Row] /\ req' = req
        /\ unit' = [unit EXCEPT ![x].is_active = TRUE]
    BY <1>3 DEF Activate, IInv, TypeOK
  <2>2. \A q \in Requests : Attaching(q, u)' => Attaching(q, u)
    BY <2>1 DEF Attaching
  <2>3. Children(u)' \subseteq Children(u)
    BY <2>1 DEF Children, Created, Row
  <2>4. QED  BY <2>2, <2>3, ClosedStays
<1>4. CASE UNCHANGED vars
  BY <1>4 DEF vars, Closed, Children, Created
<1>5. QED
  BY <1>1, <1>2, <1>3, <1>4 DEF Next, Advance, Checks, Writes

\* Once the requests that saw a unit active are over, a deactivated or deleted
\* unit gets no child until it is activated.
THEOREM InactiveUnitsGetNoChildren == Spec => InactiveGetsNoChildren
<1>1. IInv /\ [Next]_vars =>
          \A u \in Units : Closed(u) => /\ Closed(u)' \/ unit'[u].is_active
                                        /\ Children(u)' \subseteq Children(u)
  BY ClosedStep
<1>2. QED  BY Invariance, <1>1, PTL DEF Spec, InactiveGetsNoChildren

-----------------------------------------------------------------------------
(* What a request knows that no write overtook: its tests are complete.      *)

\* What C7 and M5 establish, of the row the request read.
CodeTested(r) ==
    /\ req[r].op = "update" => req[r].parent = unit[req[r].unit].parent
    /\ req[r].op = "move" => req[r].code = unit[req[r].unit].code
    /\ req[r].at = "write" /\ req[r].op = "create" =>
          SameCode(req[r].parent, req[r].code) = {}
    /\ req[r].at = "write" /\ req[r].op = "move" =>
          \/ SameCode(req[r].parent, req[r].code) = {}
          \/ req[r].unit \in SameCode(req[r].parent, req[r].code)
    /\ req[r].at = "write" /\ req[r].op = "update" /\ req[r].code # None =>
          \/ req[r].code = unit[req[r].unit].code
          \/ SameCode(req[r].parent, req[r].code) = {}

\* What C4, C6 and D1 establish.
FlagTested(r) ==
    /\ req[r].op \in {"deactivate", "delete"} => req[r].at \in {"children", "write"}
    /\ req[r].op = "create" /\ req[r].parent = None /\ req[r].at \in {"sibling", "write"} =>
          ActiveRoots = {}
    /\ req[r].op \in {"create", "move"} /\ req[r].parent # None
       /\ req[r].at \in {"ancestors", "sibling", "write"} =>
          unit[req[r].parent].is_active
    /\ req[r].op \in {"deactivate", "delete"} /\ req[r].at = "write" =>
          \A x \in Children(req[r].unit) : ~unit[x].is_active

TestedInv ==
    /\ IInv
    /\ overtaken \subseteq Busy
    /\ \A r \in Requests \ overtaken : CodeTested(r) /\ FlagTested(r)

LEMMA IdleTested ==
    ASSUME NEW r \in Requests, req'[r].at = "idle", req'[r].op = None
    PROVE  CodeTested(r)' /\ FlagTested(r)'
BY OrgUnitAssumption DEF CodeTested, FlagTested

LEMMA TestedStays ==
    ASSUME NEW r \in Requests, CodeTested(r), FlagTested(r), unit' = unit,
           req'[r] = req[r]
    PROVE  CodeTested(r)' /\ FlagTested(r)'
BY DEF CodeTested, FlagTested, SameCode, Children, ActiveRoots, Created

LEMMA ArrivesTested ==
    ASSUME IInv, NEW r \in Requests, Arrive(r)
    PROVE  CodeTested(r)' /\ FlagTested(r)'
<1>0. req \in [Requests -> Request]
  BY DEF IInv, TypeOK
<1>1. ASSUME NEW t \in Types, NEW p \in Units \cup {None}, NEW c \in Codes,
             NEW flag \in Flags, StartCreate(r, t, p, c, flag)
      PROVE  CodeTested(r)' /\ FlagTested(r)'
  <2>1. req'[r].op = "create" /\ req'[r].at \in {"root", "parent"}
    BY <1>0, <1>1 DEF StartCreate
  <2>2. QED  BY <2>1 DEF CodeTested, FlagTested
<1>2. ASSUME NEW u \in Units, NEW c \in Codes \cup {None}, NEW flag \in Flags,
             StartUpdate(r, u, c, flag)
      PROVE  CodeTested(r)' /\ FlagTested(r)'
  <2>1. /\ req'[r].op = "update" /\ req'[r].unit = u
        /\ req'[r].parent = unit[u].parent /\ req'[r].code = c /\ unit' = unit
        /\ req'[r].at = IF c \in {None, unit[u].code} THEN "write" ELSE "sibling"
    BY <1>0, <1>2 DEF StartUpdate
  <2>2. req'[r].at = "write" => c = None \/ c = unit[u].code
    BY <2>1
  <2>3. QED  BY <2>1, <2>2 DEF CodeTested, FlagTested
<1>3. ASSUME NEW u \in Units, NEW p \in Units, StartMove(r, u, p)
      PROVE  CodeTested(r)' /\ FlagTested(r)'
  <2>1. /\ req'[r].op = "move" /\ req'[r].at = "parent" /\ unit' = unit
        /\ req'[r].unit = u /\ req'[r].code = unit[u].code
    BY <1>0, <1>3 DEF StartMove
  <2>2. QED  BY <2>1 DEF CodeTested, FlagTested
<1>4. ASSUME NEW u \in Units, NEW op \in {"deactivate", "delete"},
             StartDeactivate(r, u, op)
      PROVE  CodeTested(r)' /\ FlagTested(r)'
  <2>1. req'[r].op \in {"deactivate", "delete"} /\ req'[r].at = "children"
    BY <1>0, <1>4 DEF StartDeactivate
  <2>2. QED  BY <2>1 DEF CodeTested, FlagTested
<1>5. QED  BY <1>1, <1>2, <1>3, <1>4 DEF Arrive

\* Each test establishes its part.
LEMMA ChecksTested ==
    ASSUME IInv, NEW r \in Requests, Checks(r), CodeTested(r), FlagTested(r)
    PROVE  CodeTested(r)' /\ FlagTested(r)'
<1>0. RequestPlaced(r)
  BY DEF IInv
<1>1. /\ unit' = unit /\ req'[r].op = req[r].op /\ req'[r].unit = req[r].unit
      /\ req'[r].parent = req[r].parent /\ req'[r].code = req[r].code
      /\ SameCode(req[r].parent, req[r].code)' = SameCode(req[r].parent, req[r].code)
      /\ ActiveRoots' = ActiveRoots
      /\ \A u : Children(u)' = Children(u)
  BY CheckFields DEF SameCode, ActiveRoots, Children, Created
<1>2. CASE CheckRoot(r)
  <2>1. /\ req[r].op = "create" /\ req[r].parent = None /\ ActiveRoots = {}
        /\ req'[r].at = "sibling"
    BY <1>0, <1>2, CheckFields DEF CheckRoot, RequestPlaced
  <2>2. QED  BY <1>1, <2>1 DEF CodeTested, FlagTested
<1>3. CASE CheckParent(r)
  <2>1. /\ req[r].parent # None /\ unit[req[r].parent].is_active
        /\ req'[r].at \in {"ancestors", "sibling"} /\ req[r].at = "parent"
    BY <1>3, CheckFields, OrgUnitAssumption DEF CheckParent, Created
  <2>2. QED  BY <1>1, <2>1 DEF CodeTested, FlagTested
<1>4. CASE CheckAncestors(r)
  <2>1. req'[r].at = "sibling" /\ req[r].at = "ancestors" /\ req[r].op = "move"
    BY <1>0, <1>4, CheckFields DEF CheckAncestors, RequestPlaced
  <2>2. QED  BY <1>1, <2>1 DEF CodeTested, FlagTested
<1>5. CASE CheckSibling(r)
  <2>1. /\ req'[r].at = "write" /\ req[r].at = "sibling"
        /\ \/ SameCode(req[r].parent, req[r].code) = {}
           \/ req[r].op = "move" /\ req[r].unit \in SameCode(req[r].parent, req[r].code)
    BY <1>5, CheckFields DEF CheckSibling
  <2>2. req[r].op \notin {"deactivate", "delete"}
    BY <2>1 DEF FlagTested
  <2>3. CodeTested(r)'
    BY <1>1, <2>1 DEF CodeTested, SameCode, Created
  <2>4. FlagTested(r)'
    BY <1>1, <2>1, <2>2 DEF FlagTested
  <2>5. QED  BY <2>3, <2>4
<1>6. CASE CheckChildren(r)
  <2>1. /\ req[r].op \in {"deactivate", "delete"}
        /\ \A x \in Children(req[r].unit) : ~unit[x].is_active
        /\ req'[r].at = "write"
    BY <1>0, <1>6, CheckFields DEF CheckChildren, RequestPlaced
  <2>2. QED  BY <1>1, <2>1 DEF CodeTested, FlagTested
<1>7. QED  BY <1>2, <1>3, <1>4, <1>5, <1>6 DEF Checks

\* A write overtakes whoever is under way, so those it leaves are idle.
LEMMA TestedStep == TestedInv /\ [Next]_vars => TestedInv'
<1> SUFFICES ASSUME TestedInv, [Next]_vars PROVE TestedInv'
  OBVIOUS
<1>0. IInv /\ IInv' /\ \A q \in Requests : RequestPlaced(q)
  BY NextInvariant DEF TestedInv, IInv
<1>1. ASSUME NEW q \in Requests, q \notin Busy, req'[q] = req[q]
      PROVE  CodeTested(q)' /\ FlagTested(q)'
  <2>1. req[q].at = "idle" /\ req[q].op = None
    BY <1>0, <1>1 DEF Busy, RequestPlaced
  <2>2. QED  BY <1>1, <2>1, IdleTested
<1>2. ASSUME NEW r \in Requests, Arrive(r) \/ Checks(r) PROVE TestedInv'
  <2>1. /\ UNCHANGED <<unit, overtaken>> /\ \A q \in Requests \ {r} : req'[q] = req[q]
        /\ Arrive(r) => r \notin overtaken
    BY <1>0, <1>2, ReadsOnly DEF TestedInv, Busy
  <2>2. Checks(r) => req'[r].at # "idle"
    BY <1>0, CheckFields DEF Checks
  <2>3. overtaken' \subseteq Busy'
    BY <1>2, <2>1, <2>2 DEF TestedInv, Busy
  <2>4. ASSUME NEW q \in Requests \ overtaken PROVE CodeTested(q)' /\ FlagTested(q)'
    <3>1. CASE q = r
      BY <1>0, <1>2, <2>4, <3>1, ArrivesTested, ChecksTested DEF TestedInv
    <3>2. CASE q # r
      BY <2>1, <2>4, <3>2, TestedStays DEF TestedInv
    <3>3. QED  BY <3>1, <3>2
  <2>5. QED  BY <1>0, <2>1, <2>3, <2>4 DEF TestedInv
<1>3. ASSUME NEW r \in Requests, Writes(r) PROVE TestedInv'
  <2>1. /\ overtaken' = (overtaken \cup Busy) \ {r}
        /\ req'[r].at = "idle" /\ req'[r].op = None
        /\ \A q \in Requests \ {r} : req'[q] = req[q]
    BY <1>0, <1>3, WriteEnds DEF FinishWriting
  <2>2. overtaken' \subseteq Busy'
    BY <2>1 DEF TestedInv, Busy
  <2>3. ASSUME NEW q \in Requests \ overtaken' PROVE CodeTested(q)' /\ FlagTested(q)'
    <3>1. CASE q = r
      BY <2>1, <3>1, IdleTested
    <3>2. CASE q # r
      BY <1>1, <2>1, <2>3, <3>2
    <3>3. QED  BY <3>1, <3>2
  <2>4. QED  BY <1>0, <2>2, <2>3 DEF TestedInv
<1>4. ASSUME NEW r \in Requests, RequestFails(r) PROVE TestedInv'
  <2>1. /\ unit' = unit /\ overtaken' = overtaken \ {r}
        /\ req'[r].at = "idle" /\ req'[r].op = None
        /\ \A q \in Requests \ {r} : req'[q] = req[q]
    BY <1>0, <1>4, FinishFields DEF RequestFails, IInv
  <2>2. overtaken' \subseteq Busy'
    BY <2>1 DEF TestedInv, Busy
  <2>3. ASSUME NEW q \in Requests \ overtaken' PROVE CodeTested(q)' /\ FlagTested(q)'
    <3>1. CASE q = r
      BY <2>1, <3>1, IdleTested
    <3>2. CASE q # r
      BY <2>1, <2>3, <3>2, TestedStays DEF TestedInv
    <3>3. QED  BY <3>1, <3>2
  <2>4. QED  BY <1>0, <2>2, <2>3 DEF TestedInv
<1>5. ASSUME NEW u \in Units, Activate(u) PROVE TestedInv'
  <2>1. req' = req /\ overtaken' = overtaken \cup Busy
    BY <1>5 DEF Activate
  <2>2. overtaken' \subseteq Busy'
    BY <2>1 DEF TestedInv, Busy
  <2>3. ASSUME NEW q \in Requests \ overtaken' PROVE CodeTested(q)' /\ FlagTested(q)'
    BY <1>1, <2>1, <2>3
  <2>4. QED  BY <1>0, <2>2, <2>3 DEF TestedInv
<1>6. CASE UNCHANGED vars
  <2>1. \A q \in Requests \ overtaken : CodeTested(q)' /\ FlagTested(q)'
    BY <1>6, TestedStays DEF vars, TestedInv
  <2>2. QED  BY <1>0, <1>6, <2>1 DEF vars, TestedInv, Busy
<1>7. QED
  BY <1>2, <1>3, <1>4, <1>5, <1>6 DEF Next, Advance, Checks, Writes

LEMMA TestedInit == Init => TestedInv
<1> SUFFICES ASSUME Init PROVE TestedInv
  OBVIOUS
<1>1. \A r \in Requests : CodeTested(r) /\ FlagTested(r)
  BY OrgUnitAssumption DEF Init, Idle, CodeTested, FlagTested
<1>2. QED  BY <1>1, InitInvariant DEF TestedInv, Init

LEMMA Tested == Spec => []TestedInv
BY TestedInit, TestedStep, PTL DEF Spec

\* A write that no other one overtook has complete tests.
LEMMA WriteTested ==
    ASSUME TestedInv, NEW r \in Requests, Writes(r), ~OvertakenWrite
    PROVE  CodeTested(r) /\ FlagTested(r)
<1>1. req[r].at = "write" /\ req'[r].at = "idle"
  BY WriteEnds DEF TestedInv
<1>2. r \notin overtaken
  BY <1>1 DEF OvertakenWrite
<1>3. QED  BY <1>2 DEF TestedInv

\* The steps that leave the table alone, for the three theorems below.
LEMMA TableKept ==
    ASSUME IInv, NEW r \in Requests, Arrive(r) \/ Checks(r) \/ RequestFails(r)
    PROVE  unit' = unit
BY ReadsOnly DEF RequestFails

-----------------------------------------------------------------------------
(* Sibling codes.                                                          *)

LEMMA ShapeKept ==
    ASSUME Created' = Created,
           \A x \in Units : unit'[x].parent = unit[x].parent /\ unit'[x].code = unit[x].code,
           NEW u \in Units, NEW x \in Units
    PROVE  ShareCode(u, x)' => ShareCode(u, x)
BY DEF ShareCode

LEMMA SharedCodeStep ==
    ASSUME TestedInv, [Next]_vars, ~OvertakenWrite, NEW u \in Units, NEW x \in Units,
           ShareCode(u, x)'
    PROVE  ShareCode(u, x)
<1>0. IInv /\ Created \subseteq Units
  BY DEF TestedInv, Created
<1>1. CASE unit' = unit
  BY <1>1 DEF ShareCode, Created
<1>2. ASSUME NEW r \in Requests, Insert(r) PROVE ShareCode(u, x)
  <2>1. PICK n \in Units \ Created :
              /\ Created' = Created \cup {n}
              /\ unit'[n].parent = req[r].parent /\ unit'[n].code = req[r].code
              /\ \A y \in Units \ {n} : unit'[y] = unit[y]
    BY <1>0, <1>2, InsertEffect
  <2>2. SameCode(req[r].parent, req[r].code) = {}
    BY <1>2, WriteTested DEF Insert, Writes, CodeTested
  <2>3. QED  BY <1>0, <2>1, <2>2 DEF ShareCode, SameCode
<1>3. ASSUME NEW r \in Requests, UpdateAttributes(r) PROVE ShareCode(u, x)
  <2>1. /\ req[r].unit \in Created /\ Created' = Created
        /\ \A y \in Units : unit'[y].parent = unit[y].parent
        /\ unit'[req[r].unit].code =
                 IF req[r].code = None THEN unit[req[r].unit].code ELSE req[r].code
        /\ \A y \in Units \ {req[r].unit} : unit'[y] = unit[y]
    BY <1>0, <1>3, UpdateEffect
  <2>2. /\ req[r].parent = unit[req[r].unit].parent
        /\ req[r].code # None => \/ req[r].code = unit[req[r].unit].code
                                 \/ SameCode(req[r].parent, req[r].code) = {}
    BY <1>3, WriteTested DEF UpdateAttributes, Writes, CodeTested
  <2>3. CASE unit'[req[r].unit].code = unit[req[r].unit].code
    <3>1. \A y \in Units : unit'[y].code = unit[y].code
      BY <2>1, <2>3
    <3>2. QED  BY <2>1, <3>1, ShapeKept
  <2>4. CASE /\ unit'[req[r].unit].code = req[r].code
             /\ SameCode(req[r].parent, req[r].code) = {}
    <3>1. ASSUME NEW z \in Created, z # req[r].unit, unit[z].code = req[r].code
          PROVE  unit[z].parent # unit[req[r].unit].parent
      BY <2>2, <2>4, <3>1 DEF SameCode
    <3>2. QED  BY <1>0, <2>1, <2>4, <3>1 DEF ShareCode
  <2>5. QED  BY <2>1, <2>2, <2>3, <2>4
<1>4. ASSUME NEW r \in Requests, Reparent(r) PROVE ShareCode(u, x)
  <2>1. /\ req[r].unit \in Created /\ req[r].parent \in Created /\ Created' = Created
        /\ unit'[req[r].unit].parent = req[r].parent
        /\ \A y \in Units : unit'[y].code = unit[y].code
        /\ \A y \in Units \ {req[r].unit} : unit'[y] = unit[y]
    BY <1>0, <1>4, ReparentEffect
  <2>2. /\ req[r].code = unit[req[r].unit].code
        /\ \/ SameCode(req[r].parent, req[r].code) = {}
           \/ req[r].unit \in SameCode(req[r].parent, req[r].code)
    BY <1>4, WriteTested DEF Reparent, Writes, CodeTested
  <2>3. CASE req[r].unit \in SameCode(req[r].parent, req[r].code)
    <3>1. unit[req[r].unit].parent = req[r].parent
      BY <2>3 DEF SameCode
    <3>2. \A y \in Units : unit'[y].parent = unit[y].parent
      BY <2>1, <3>1
    <3>3. QED  BY <2>1, <3>2, ShapeKept
  <2>4. CASE SameCode(req[r].parent, req[r].code) = {}
    BY <1>0, <2>1, <2>2, <2>4 DEF ShareCode, SameCode
  <2>5. QED  BY <2>2, <2>3, <2>4
<1>5. ASSUME NEW r \in Requests, SetInactive(r) PROVE ShareCode(u, x)
  <2>1. req[r].unit \in Units /\ unit' = [unit EXCEPT ![req[r].unit].is_active = FALSE]
    BY <1>0, <1>5 DEF SetInactive, IInv, RequestPlaced
  <2>2. QED  BY <1>0, <2>1, FlagEffect, ShapeKept
<1>6. ASSUME NEW y \in Units, Activate(y) PROVE ShareCode(u, x)
  BY <1>0, <1>6, FlagEffect, ShapeKept DEF Activate
<1>7. QED
  BY <1>0, <1>1, <1>2, <1>3, <1>4, <1>5, <1>6, TableKept
     DEF Next, Advance, Checks, vars

\* Two children of a parent get one code only by an overtaken write: C7 and M5 are
\* complete, although a PATCH tests a new code only and a move the new siblings only.
THEOREM SharedCodesNeedOvertaking == Spec => SharedCodeExplained
<1>1. TestedInv /\ [Next]_vars =>
          \A u, x \in Units : ShareCode(u, x)' => ShareCode(u, x) \/ OvertakenWrite
  BY SharedCodeStep
<1>2. QED  BY Tested, <1>1, PTL DEF Spec, SharedCodeExplained

-----------------------------------------------------------------------------
(* Active roots.                                                           *)

\* Where parents and types stay, only a reactivation makes an active root.
LEMMA RootsReactivated ==
    ASSUME Created' = Created,
           \A y \in Units : unit'[y].parent = unit[y].parent /\ unit'[y].type = unit[y].type,
           NEW u \in ActiveRoots'
    PROVE  u \in ActiveRoots \/ Reactivated(u)
BY DEF ActiveRoots, Reactivated, Created

LEMMA SecondRootStep ==
    ASSUME TestedInv, [Next]_vars, ~OvertakenWrite,
           NEW u \in ActiveRoots', NEW x \in ActiveRoots', u # x
    PROVE  {u, x} \subseteq ActiveRoots \/ Reactivated(u) \/ Reactivated(x)
<1>0. IInv /\ Created \subseteq Units
  BY DEF TestedInv, Created
<1>1. CASE unit' = unit
  BY <1>1 DEF ActiveRoots, Created
<1>2. ASSUME NEW r \in Requests, Insert(r) PROVE {u, x} \subseteq ActiveRoots
  <2>1. PICK n \in Units \ Created :
              /\ Created' = Created \cup {n}
              /\ unit'[n].parent = req[r].parent
              /\ \A y \in Units \ {n} : unit'[y] = unit[y]
    BY <1>0, <1>2, InsertEffect
  <2>2. CASE req[r].parent = None
    <3>1. ActiveRoots = {}
      BY <1>2, <2>2, WriteTested DEF Insert, Writes, FlagTested
    <3>2. ActiveRoots' \subseteq {n}
      BY <1>0, <2>1, <3>1 DEF ActiveRoots
    <3>3. QED  BY <3>2
  <2>3. CASE req[r].parent # None
    BY <1>0, <2>1, <2>3 DEF ActiveRoots
  <2>4. QED  BY <2>2, <2>3
<1>3. ASSUME NEW r \in Requests, UpdateAttributes(r)
      PROVE  {u, x} \subseteq ActiveRoots \/ Reactivated(u) \/ Reactivated(x)
  BY <1>0, <1>3, UpdateEffect, RootsReactivated
<1>4. ASSUME NEW r \in Requests, Reparent(r) PROVE {u, x} \subseteq ActiveRoots
  <2>1. /\ req[r].unit \in Created /\ req[r].parent \in Created /\ Created' = Created
        /\ unit'[req[r].unit].parent = req[r].parent
        /\ \A y \in Units : /\ unit'[y].type = unit[y].type
                            /\ unit'[y].is_active = unit[y].is_active
        /\ \A y \in Units \ {req[r].unit} : unit'[y] = unit[y]
    BY <1>0, <1>4, ReparentEffect
  <2>2. QED  BY <1>0, <2>1, OrgUnitAssumption DEF ActiveRoots
<1>5. ASSUME NEW r \in Requests, SetInactive(r)
      PROVE  {u, x} \subseteq ActiveRoots \/ Reactivated(u) \/ Reactivated(x)
  <2>1. req[r].unit \in Units /\ unit' = [unit EXCEPT ![req[r].unit].is_active = FALSE]
    BY <1>0, <1>5 DEF SetInactive, IInv, RequestPlaced
  <2>2. QED  BY <1>0, <2>1, FlagEffect, RootsReactivated
<1>6. ASSUME NEW y \in Units, Activate(y)
      PROVE  {u, x} \subseteq ActiveRoots \/ Reactivated(u) \/ Reactivated(x)
  BY <1>0, <1>6, FlagEffect, RootsReactivated DEF Activate
<1>7. QED
  BY <1>0, <1>1, <1>2, <1>3, <1>4, <1>5, <1>6, TableKept
     DEF Next, Advance, Checks, vars

\* A second active root comes only from an overtaken creation or a reactivation.
THEOREM SecondRootNeedsCause == Spec => SecondRootExplained
<1>1. TestedInv /\ [Next]_vars =>
          \A u, x \in ActiveRoots' :
             \/ u = x
             \/ {u, x} \subseteq ActiveRoots
             \/ Reactivated(u) \/ Reactivated(x)
             \/ OvertakenWrite
  BY SecondRootStep
<1>2. QED  BY Tested, <1>1, PTL DEF Spec, SecondRootExplained

-----------------------------------------------------------------------------
(* Active units under inactive ones.                                       *)

LEMMA OrphanStep ==
    ASSUME TestedInv, [Next]_vars, ~OvertakenWrite, NEW u \in Units, Orphaned(u)',
           ~Reactivated(u)
    PROVE  Orphaned(u) \/ Patched(unit[u].parent)
<1>0. IInv /\ Created \subseteq Units /\ None \notin Units
  BY OrgUnitAssumption DEF TestedInv, Created
<1>1. CASE unit' = unit
  BY <1>1 DEF Orphaned, Created
<1>2. ASSUME NEW y \in Created, unit[y].parent # None PROVE unit[y].parent \in Created
  BY <1>0, <1>2 DEF IInv, EdgesObeyRules
<1>3. ASSUME NEW r \in Requests, Insert(r) PROVE Orphaned(u)
  <2>1. PICK n \in Units \ Created :
              /\ Created' = Created \cup {n}
              /\ unit'[n].parent = req[r].parent
              /\ req[r].parent \in Created \cup {None}
              /\ \A y \in Units \ {n} : unit'[y] = unit[y]
    BY <1>0, <1>3, InsertEffect
  <2>2. req[r].parent # None => unit[req[r].parent].is_active
    BY <1>3, WriteTested DEF Insert, Writes, FlagTested
  <2>3. CASE u = n
    BY <1>0, <2>1, <2>2, <2>3 DEF Orphaned
  <2>4. CASE u # n
    <3>1. u \in Created /\ unit'[u] = unit[u]
      BY <2>1, <2>4 DEF Orphaned
    <3>2. unit[u].parent \in Created
      BY <1>2, <3>1 DEF Orphaned
    <3>3. QED  BY <1>0, <2>1, <3>1, <3>2 DEF Orphaned
  <2>5. QED  BY <2>3, <2>4
<1>4. ASSUME NEW r \in Requests, UpdateAttributes(r)
      PROVE  Orphaned(u) \/ Patched(unit[u].parent)
  <2>1. /\ Created' = Created
        /\ \A y \in Units : unit'[y].parent = unit[y].parent
        /\ \A y \in Units \ {req[r].unit} : unit'[y] = unit[y]
    BY <1>0, <1>4, UpdateEffect
  <2>2. u \in Created /\ unit[u].is_active /\ unit[u].parent \in Created
    BY <1>2, <2>1 DEF Orphaned, Reactivated
  <2>3. CASE unit[u].parent = req[r].unit
    <3>1. req[r].op = "update" /\ req[r].at = "write" /\ req'[r].at = "idle"
      BY <1>0, <1>4, WriteEnds DEF Writes, UpdateAttributes
    <3>2. QED  BY <2>3, <3>1 DEF Patched
  <2>4. CASE unit[u].parent # req[r].unit
    BY <1>0, <2>1, <2>2, <2>4 DEF Orphaned
  <2>5. QED  BY <2>3, <2>4
<1>5. ASSUME NEW r \in Requests, Reparent(r) PROVE Orphaned(u)
  <2>1. /\ req[r].unit \in Created /\ req[r].parent \in Created /\ Created' = Created
        /\ unit'[req[r].unit].parent = req[r].parent
        /\ \A y \in Units : unit'[y].is_active = unit[y].is_active
        /\ \A y \in Units \ {req[r].unit} : unit'[y] = unit[y]
    BY <1>0, <1>5, ReparentEffect
  <2>2. unit[req[r].parent].is_active
    BY <1>0, <1>5, <2>1, WriteTested DEF Reparent, Writes, FlagTested
  <2>3. CASE u = req[r].unit
    BY <1>0, <2>1, <2>2, <2>3 DEF Orphaned
  <2>4. CASE u # req[r].unit
    <3>1. unit[u].parent \in Created
      BY <1>2, <2>1, <2>4 DEF Orphaned
    <3>2. QED  BY <1>0, <2>1, <2>4, <3>1 DEF Orphaned
  <2>5. QED  BY <2>3, <2>4
<1>6. ASSUME NEW r \in Requests, SetInactive(r) PROVE Orphaned(u)
  <2>1. /\ req[r].unit \in Units /\ unit' = [unit EXCEPT ![req[r].unit].is_active = FALSE]
    BY <1>0, <1>6 DEF SetInactive, IInv, RequestPlaced
  <2>2. /\ Created' = Created /\ ~unit'[req[r].unit].is_active
        /\ \A y \in Units : unit'[y].parent = unit[y].parent
        /\ \A y \in Units \ {req[r].unit} : unit'[y] = unit[y]
    BY <1>0, <2>1, FlagEffect
  <2>3. \A y \in Children(req[r].unit) : ~unit[y].is_active
    BY <1>6, WriteTested DEF SetInactive, Writes, FlagTested
  <2>4. /\ u \in Created /\ u # req[r].unit /\ unit[u].is_active
        /\ unit[u].parent \in Created
    BY <1>2, <2>2 DEF Orphaned
  <2>5. unit[u].parent # req[r].unit
    BY <2>3, <2>4 DEF Children
  <2>6. QED  BY <1>0, <2>2, <2>4, <2>5 DEF Orphaned
<1>7. ASSUME NEW y \in Units, Activate(y) PROVE Orphaned(u)
  <2>1. /\ Created' = Created /\ unit'[y].is_active
        /\ \A z \in Units : unit'[z].parent = unit[z].parent
        /\ \A z \in Units \ {y} : unit'[z] = unit[z]
    BY <1>0, <1>7, FlagEffect DEF Activate
  <2>2. u \in Created /\ unit[u].is_active /\ unit[u].parent \in Created
    BY <1>2, <2>1 DEF Orphaned, Reactivated
  <2>3. unit[u].parent # y
    BY <2>1, <2>2 DEF Orphaned
  <2>4. QED  BY <1>0, <2>1, <2>2, <2>3 DEF Orphaned
<1>8. QED
  BY <1>0, <1>1, <1>3, <1>4, <1>5, <1>6, <1>7, TableKept
     DEF Next, Advance, Checks, vars

\* An active unit comes to stand under an inactive one only by an overtaken write, or
\* by activate() or a PATCH: C6, M1 and D1 leave no other gap.
THEOREM OrphansNeedCause == Spec => OrphanExplained
<1>1. TestedInv /\ [Next]_vars =>
          \A u \in Units : Orphaned(u)' =>
             \/ Orphaned(u) \/ Reactivated(u) \/ Patched(unit[u].parent)
             \/ OvertakenWrite
  BY OrphanStep
<1>2. QED  BY Tested, <1>1, PTL DEF Spec, OrphanExplained
=============================================================================
