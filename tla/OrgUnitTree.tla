------------------------------ MODULE OrgUnitTree ------------------------------
(***************************************************************************)
(* The organisation tree: org-units.service.ts with its validation and tree*)
(* services over masters.tbl_Org_Unit, whose rows point to their parent.   *)
(*                                                                         *)
(* Nothing here runs in a transaction: a handler reads for one rule after  *)
(* another (C1..C10, M1..M7, D1..D5) and ends in one INSERT or UPDATE that *)
(* tests nothing. So a request is a state machine (req), each rule is      *)
(* tested on the table of its moment, and other requests write in between. *)
(* The set overtaken is no state of the code: it remembers the requests    *)
(* during which another one wrote.                                         *)
(***************************************************************************)
EXTENDS Naturals

CONSTANTS
    Units,       \* org_unit_id values
    Requests,    \* requests the server executes at the same time
    Types,       \* tbl_Org_Unit_Types, all active; no code writes them
    Level,       \* their level
    Rules,       \* <<child, parent>>: the rows findHierarchyRule finds; a type has
                 \* one column parent_unit_type_id
    Codes,
    None         \* SQL NULL

ASSUME OrgUnitAssumption ==
    /\ Level \in [Types -> Nat]
    /\ Rules \subseteq Types \X Types
    /\ \A rule, other \in Rules : rule[1] = other[1] => rule = other
    /\ None \notin Units /\ None \notin Types /\ None \notin Codes
    /\ None \notin {"create", "update", "move", "deactivate", "delete"}

VARIABLES
    unit,    \* tbl_Org_Unit, type = None where there is no row
    req,
    overtaken

vars == <<unit, req, overtaken>>

-----------------------------------------------------------------------------
Row == [type : Types \cup {None}, parent : Units \cup {None},
        code : Codes \cup {None}, is_active : BOOLEAN]

NoRow == [type |-> None, parent |-> None, code |-> None, is_active |-> FALSE]

Operations == {"create", "update", "move", "deactivate", "delete"}

\* What a request tests or writes next.
Steps == {"idle", "root", "parent", "ancestors", "sibling", "children", "write"}

\* The optional isActive of an input.
Flags == {"true", "false", "absent"}

\* The input of a handler and what it keeps of the row it read.
Request == [at : Steps, op : Operations \cup {None}, unit : Units \cup {None},
            type : Types \cup {None}, parent : Units \cup {None},
            code : Codes \cup {None}, isActive : Flags]

Idle == [at |-> "idle", op |-> None, unit |-> None, type |-> None,
         parent |-> None, code |-> None, isActive |-> "absent"]

Created == {u \in Units : unit[u].type # None}

Children(u) == {x \in Created : unit[x].parent = u}

IsRootType(t) == Level[t] = 1

\* findActiveRoot.
ActiveRoots ==
    {u \in Created : /\ unit[u].parent = None
                     /\ IsRootType(unit[u].type)
                     /\ unit[u].is_active}

\* findAncestors, the node included: what the recursive query reaches.
PathToRoot(u) ==
    {a \in Units : \A S \in SUBSET Units :
        (u \in S /\ \A x \in S : unit[x].parent \in S \cup {None}) => a \in S}

\* findByCode.
SameCode(parent, code) ==
    {x \in Created : unit[x].parent = parent /\ unit[x].code = code}

Goto(r, step) == req' = [req EXCEPT ![r].at = step]

Finish(r) == req' = [req EXCEPT ![r] = Idle]

Busy == {r \in Requests : req[r].at # "idle"}

\* The request r ends with its write, which overtakes the others.
FinishWriting(r) == Finish(r) /\ overtaken' = (overtaken \cup Busy) \ {r}

Init ==
    /\ unit = [u \in Units |-> NoRow]
    /\ req = [r \in Requests |-> Idle]
    /\ overtaken = {}

-----------------------------------------------------------------------------
(* Requests arrive; the tests that need no second read are made at once. A *)
(* test that fails ends the request: RequestFails below.                   *)

\* C2, C3. No isActive is as good as true (NewRow).
StartCreate(r, t, p, c, flag) ==
    /\ req[r].at = "idle"
    /\ IsRootType(t) <=> p = None
    /\ req' = [req EXCEPT ![r] =
                  [at |-> IF IsRootType(t) THEN "root" ELSE "parent",
                   op |-> "create", unit |-> None, type |-> t, parent |-> p,
                   code |-> c, isActive |-> flag]]
    /\ UNCHANGED <<unit, overtaken>>

\* PATCH without parentId. Only a new code has to be free.
StartUpdate(r, u, c, flag) ==
    /\ req[r].at = "idle"
    /\ u \in Created
    /\ req' = [req EXCEPT ![r] =
                  [at |-> IF c \in {None, unit[u].code} THEN "write" ELSE "sibling",
                   op |-> "update", unit |-> u, type |-> None,
                   parent |-> unit[u].parent, code |-> c, isActive |-> flag]]
    /\ UNCHANGED <<unit, overtaken>>

\* D5, M2.
StartMove(r, u, p) ==
    /\ req[r].at = "idle"
    /\ u \in Created
    /\ unit[u].parent # None
    /\ u # p
    /\ req' = [req EXCEPT ![r] =
                  [at |-> "parent", op |-> "move", unit |-> u,
                   type |-> unit[u].type, parent |-> p, code |-> unit[u].code,
                   isActive |-> "absent"]]
    /\ UNCHANGED <<unit, overtaken>>

\* D5.
StartDeactivate(r, u, op) ==
    /\ req[r].at = "idle"
    /\ u \in Created
    /\ unit[u].parent # None
    /\ req' = [req EXCEPT ![r] =
                  [at |-> "children", op |-> op, unit |-> u, type |-> None,
                   parent |-> None, code |-> None, isActive |-> "absent"]]
    /\ UNCHANGED <<unit, overtaken>>

-----------------------------------------------------------------------------
(* The tests that read.                                                    *)

\* Mutant: C4 is not tested.
CheckRootNone(r) ==
    /\ req[r].at = "root"
    /\ Goto(r, "sibling")
    /\ UNCHANGED <<unit, overtaken>>

\* C4.
CheckRoot(r) ==
    /\ req[r].at = "root"
    /\ ActiveRoots = {}
    /\ Goto(r, "sibling")
    /\ UNCHANGED <<unit, overtaken>>

\* Mutant: the parent may be inactive.
CheckParentInactive(r) ==
    /\ req[r].at = "parent"
    /\ req[r].parent \in Created
    /\ <<req[r].type, unit[req[r].parent].type>> \in Rules
    /\ Goto(r, IF req[r].op = "move" THEN "ancestors" ELSE "sibling")
    /\ UNCHANGED <<unit, overtaken>>

\* C6 and C5, M1 and M4.
CheckParent(r) ==
    /\ req[r].at = "parent"
    /\ req[r].parent \in Created
    /\ unit[req[r].parent].is_active
    /\ <<req[r].type, unit[req[r].parent].type>> \in Rules
    /\ Goto(r, IF req[r].op = "move" THEN "ancestors" ELSE "sibling")
    /\ UNCHANGED <<unit, overtaken>>

\* M3. On a cycle the recursive query would fail (MAXRECURSION).
CheckAncestors(r) ==
    /\ req[r].at = "ancestors"
    /\ \E a \in PathToRoot(req[r].parent) : unit[a].parent = None
    /\ req[r].unit \notin PathToRoot(req[r].parent)
    /\ Goto(r, "sibling")
    /\ UNCHANGED <<unit, overtaken>>

\* Mutant: only a creation looks at the siblings.
CheckSiblingOfCreate(r) ==
    /\ req[r].at = "sibling"
    /\ SameCode(req[r].parent, req[r].code) = {} \/ req[r].op # "create"
    /\ Goto(r, "write")
    /\ UNCHANGED <<unit, overtaken>>

\* C7 and M5. findByCode returns some row; M5 accepts the unit itself.
CheckSibling(r) ==
    /\ req[r].at = "sibling"
    /\ \/ SameCode(req[r].parent, req[r].code) = {}
       \/ req[r].op = "move" /\ req[r].unit \in SameCode(req[r].parent, req[r].code)
    /\ Goto(r, "write")
    /\ UNCHANGED <<unit, overtaken>>

\* Mutant: D1 accepts any children.
CheckChildrenOfDelete(r) ==
    /\ req[r].at = "children"
    /\ Children(req[r].unit) = {} \/ req[r].op = "deactivate"
    /\ Goto(r, "write")
    /\ UNCHANGED <<unit, overtaken>>

\* D1 looks for active children, D2 for any.
CheckChildren(r) ==
    /\ req[r].at = "children"
    /\ \A x \in Children(req[r].unit) :
          req[r].op = "deactivate" /\ ~unit[x].is_active
    /\ Goto(r, "write")
    /\ UNCHANGED <<unit, overtaken>>

-----------------------------------------------------------------------------
(* The statements that write.                                              *)

NewRow(r) ==
    [type |-> req[r].type, parent |-> req[r].parent, code |-> req[r].code,
     is_active |-> req[r].isActive # "false"]

Insert(r) ==
    /\ req[r].at = "write"
    /\ req[r].op = "create"
    /\ \E u \in Units \ Created : unit' = [unit EXCEPT ![u] = NewRow(r)]
    /\ FinishWriting(r)

\* COALESCE(@1, org_code) and COALESCE(@5, is_active).
UpdateAttributes(r) ==
    /\ req[r].at = "write"
    /\ req[r].op = "update"
    /\ LET old == unit[req[r].unit]
       IN  unit' = [unit EXCEPT ![req[r].unit] =
              [type |-> old.type, parent |-> old.parent,
               code |-> IF req[r].code = None THEN old.code ELSE req[r].code,
               is_active |-> IF req[r].isActive = "absent" THEN old.is_active
                            ELSE req[r].isActive = "true"]]
    /\ FinishWriting(r)

\* Mutant: the parameters of the UPDATE swapped.
ReparentSwapped(r) ==
    /\ req[r].at = "write"
    /\ req[r].op = "move"
    /\ unit' = [unit EXCEPT ![req[r].parent].parent = req[r].unit]
    /\ FinishWriting(r)

Reparent(r) ==
    /\ req[r].at = "write"
    /\ req[r].op = "move"
    /\ unit' = [unit EXCEPT ![req[r].unit].parent = req[r].parent]
    /\ FinishWriting(r)

\* setActiveStatus(false) and softDelete are the same statement.
SetInactive(r) ==
    /\ req[r].at = "write"
    /\ req[r].op \in {"deactivate", "delete"}
    /\ unit' = [unit EXCEPT ![req[r].unit].is_active = FALSE]
    /\ FinishWriting(r)

\* activate() tests that the row exists, and no row ever goes away.
Activate(u) ==
    /\ u \in Created
    /\ unit' = [unit EXCEPT ![u].is_active = TRUE]
    /\ overtaken' = overtaken \cup Busy
    /\ UNCHANGED req

\* A test refuses (any above, or scope, references or assigned users: C10, M6,
\* M7, D3, D4, which depend on other tables), a statement fails, or the process
\* dies before the write.
RequestFails(r) ==
    /\ req[r].at # "idle"
    /\ Finish(r)
    /\ overtaken' = overtaken \ {r}
    /\ UNCHANGED unit

Arrive(r) ==
    \/ \E t \in Types, p \in Units \cup {None}, c \in Codes,
          flag \in Flags \ {"absent"} : StartCreate(r, t, p, c, flag)
    \/ \E u \in Units, c \in Codes \cup {None}, flag \in Flags :
          StartUpdate(r, u, c, flag)
    \/ \E u \in Units, p \in Units : StartMove(r, u, p)
    \/ \E u \in Units, op \in {"deactivate", "delete"} : StartDeactivate(r, u, op)

Advance(r) ==
    \/ CheckRoot(r) \/ CheckParent(r) \/ CheckAncestors(r) \/ CheckSibling(r)
    \/ CheckChildren(r)
    \/ Insert(r) \/ UpdateAttributes(r) \/ Reparent(r) \/ SetInactive(r)

Next ==
    \/ \E r \in Requests : Arrive(r) \/ Advance(r) \/ RequestFails(r)
    \/ \E u \in Units : Activate(u)

Spec == Init /\ [][Next]_vars

-----------------------------------------------------------------------------
(* What must hold of it.                                                   *)

\* Every variable keeps its type.
TypeOK ==
    /\ unit \in [Units -> Row]
    /\ req \in [Requests -> Request]
    /\ overtaken \subseteq Requests

\* Every edge of the tree obeys a hierarchy rule and only root types are roots,
\* although each is tested on a parent, and for a parent, of an earlier moment.
EdgesObeyRules ==
    \A u \in Created :
        IF unit[u].parent = None
        THEN IsRootType(unit[u].type)
        ELSE /\ unit[u].parent \in Created
             /\ <<unit[u].type, unit[unit[u].parent].type>> \in Rules

\* No set of units hangs on itself, although a move tests a tree that another move
\* changes: every approval chain (getApprovalChain) ends in a root, and the
\* recursive queries terminate.
Acyclic ==
    \A S \in (SUBSET Created) \ {{}} : \E u \in S : unit[u].parent \notin S

\* u is inactive and no request under way saw it active as a parent.
Closed(u) ==
    /\ u \in Created
    /\ ~unit[u].is_active
    /\ \A r \in Requests : ~(/\ req[r].at \in {"ancestors", "sibling", "write"}
                             /\ req[r].op \in {"create", "move"}
                             /\ req[r].parent = u)

\* A deactivated or deleted unit gets no child, by creation or by a move, unless
\* it is activated again.
InactiveGetsNoChildren ==
    [][\A u \in Units : Closed(u) => /\ Closed(u)' \/ unit'[u].is_active
                                     /\ Children(u)' \subseteq Children(u)]_vars

\* A request writes although another one wrote after its first read.
OvertakenWrite ==
    \E r \in overtaken : req[r].at = "write" /\ req'[r].at = "idle"

\* activate(), or a PATCH with isActive: neither tests C4, C6 or D1.
Reactivated(u) == u \in Created /\ ~unit[u].is_active /\ unit'[u].is_active

Patched(u) ==
    \E r \in Requests : /\ req[r].op = "update" /\ req[r].unit = u
                        /\ req[r].at = "write" /\ req'[r].at = "idle"

ShareCode(u, x) ==
    /\ u # x /\ {u, x} \subseteq Created
    /\ unit[u].parent = unit[x].parent
    /\ unit[u].code = unit[x].code

\* Two children of a parent come to have one code (C7, M5) only by a write that
\* another one overtook between its first read and its end.
SharedCodeExplained ==
    [][\A u, x \in Units : ShareCode(u, x)' => ShareCode(u, x) \/ OvertakenWrite]_vars

\* A second active root (C4) comes only from an overtaken creation, or from
\* activate() or a PATCH of an inactive root.
SecondRootExplained ==
    [][\A u, x \in ActiveRoots' :
          \/ u = x
          \/ {u, x} \subseteq ActiveRoots
          \/ Reactivated(u) \/ Reactivated(x)
          \/ OvertakenWrite]_vars

\* An active unit under an inactive one.
Orphaned(u) ==
    /\ u \in Created /\ unit[u].is_active
    /\ unit[u].parent # None /\ ~unit[unit[u].parent].is_active

\* An active unit comes to stand under an inactive one (C6, M1, D1) only by an
\* overtaken write, by activate() or a PATCH of the unit, or by a PATCH of the parent.
OrphanExplained ==
    [][\A u \in Units : Orphaned(u)' =>
          \/ Orphaned(u) \/ Reactivated(u) \/ Patched(unit[u].parent)
          \/ OvertakenWrite]_vars
=============================================================================
