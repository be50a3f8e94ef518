---------------------------- MODULE MastersProofs ----------------------------
(* Theorems about the master tables of salary grades and of the organisation, *)
(* for every set of rows, requests, codes and records.                        *)
EXTENDS MCMasters, FiniteSetTheorems, TLAPS

-----------------------------------------------------------------------------
(* Salary grade masters.                                                   *)

RecordSteps == {"refs", "duplicate", "writeRecord"}

\* What a request on a master table carries.
MasterRequestOK(q) ==
    /\ q.at = "code" => q.target # None /\ q.code \in Codes
    /\ q.at \in {"code", "write"} =>
          /\ q.kind \in Kinds
          /\ q.target = None => /\ q.code \in Codes
                                /\ q.min \in Salaries \cup {None}
                                /\ q.max \in Salaries \cup {None}
                                /\ ValidSalaryRange(q.min, q.max)
          /\ q.target # None => q.target \in Ids /\ q.code \in Codes \cup {Absent}

\* What a request on a record carries. The combination it tests has the masters it
\* will write.
RecordRequestOK(q) ==
    /\ q.at \in RecordSteps =>
          /\ q.target = None => q.input \in Combination /\ Whole(q.input)
          /\ q.target # None => q.target \in Records /\ q.input \in ComboInput
    /\ q.at \in {"refs", "duplicate"} =>
          /\ q.effective \in Combination
          /\ \A k \in Kinds : q.input.ref[k] \in Ids => q.effective.ref[k] = q.input.ref[k]

\* What a request that nobody overtook read of a master table is still so.
MasterFresh(q) ==
    /\ q.at = "write" /\ q.target = None => FindByCode(q.kind, q.code) = {}
    /\ q.at \in {"code", "write"} /\ q.target # None =>
          /\ q.target \in Live(q.kind)
          /\ ValidSalaryRange(Given(q.min, master[q.kind][q.target].min),
                              Given(q.max, master[q.kind][q.target].max))
    /\ q.at = "write" /\ q.target # None /\ q.code # Absent =>
          FindByCode(q.kind, q.code) = {} \/ q.target \in FindByCode(q.kind, q.code)

\* The combinations a request tests and writes, as things are.
Tests(q) == IF q.target = None THEN q.input ELSE Tested(q.input, record[q.target].combo)
Writes(q) == IF q.target = None THEN q.input ELSE Merge(q.input, record[q.target].combo)

RecordFresh(q) ==
    /\ q.at \in RecordSteps /\ q.target # None => q.target \in LiveRecords
    /\ q.at \in {"refs", "duplicate"} => q.effective = Tests(q)
    /\ q.at = "writeRecord" => FindDuplicate(Writes(q), q.target) = {}

SalaryRequestOK(q) ==
    /\ q \in Request
    /\ MasterRequestOK(q) /\ RecordRequestOK(q)
    /\ ~q.overtaken => MasterFresh(q) /\ RecordFresh(q)

SalaryTables ==
    /\ master \in [Kinds -> [Ids -> MasterRow]]
    /\ record \in [Records -> RecordRow]
    /\ \A k \in Kinds : \A i \in Live(k) : master[k][i].code \in Codes
    /\ \A x \in Records : record[x].state # "none" => record[x].combo \in Combination

SalaryIInv ==
    /\ SalaryTables
    /\ req \in [Requests -> Request]
    /\ \A r \in Requests : SalaryRequestOK(req[r])

LEMMA IdleTypes ==
    /\ Idle \in Request /\ Idle.at = "idle" /\ Idle.kind = None /\ Idle.target = None
    /\ ~Idle.overtaken
BY DEF Idle, Request, Steps, CodeInput, SalaryInput, ComboInput, NoCombination, Combination

LEMMA IdleOK == SalaryRequestOK(Idle)
BY IdleTypes DEF SalaryRequestOK, MasterRequestOK, RecordRequestOK, MasterFresh,
                 RecordFresh, RecordSteps

LEMMA StartOK ==
    ASSUME NEW codes \in [Kinds -> [Ids -> Codes \cup {None}]], StartWith(codes)
    PROVE  SalaryIInv
<1> USE SalaryGradeAssumption
<1>1. NoMaster \in MasterRow /\ NoMaster.state = "none"
  BY DEF NoMaster, MasterRow, States
<1>2. ASSUME NEW k \in Kinds, NEW i \in Ids
      PROVE  /\ master[k][i] \in MasterRow
             /\ master[k][i].state = "live" => master[k][i].code \in Codes
  <2>1. codes[k][i] \in Codes \cup {None}
    OBVIOUS
  <2>2. master[k][i] = IF codes[k][i] = None THEN NoMaster
                       ELSE [NoMaster EXCEPT !.state = "live", !.code = codes[k][i]]
    BY DEF StartWith
  <2>3. CASE codes[k][i] = None
    BY <1>1, <2>2, <2>3
  <2>4. CASE codes[k][i] # None
    BY <1>1, <2>1, <2>2, <2>4 DEF MasterRow, States
  <2> QED BY <2>3, <2>4
<1>3. master \in [Kinds -> [Ids -> MasterRow]]
  <2>1. /\ master = [k \in Kinds |-> master[k]]
        /\ \A k \in Kinds : master[k] = [i \in Ids |-> master[k][i]]
    BY DEF StartWith
  <2> QED BY <1>2, <2>1
<1>4. NoRecord \in RecordRow /\ NoRecord.state = "none"
  BY DEF NoRecord, RecordRow, States, NoCombination, Combination
<1>5. SalaryTables
  BY <1>2, <1>3, <1>4 DEF SalaryTables, Live, StartWith
<1> QED BY <1>5, IdleTypes, IdleOK DEF SalaryIInv, StartWith

LEMMA SalaryInitOK == Init => SalaryIInv
BY StartOK, SalaryGradeAssumption DEF Init

LEMMA MergeTypes ==
    ASSUME NEW input \in ComboInput, NEW old \in Combination
    PROVE  /\ Merge(input, old) \in Combination
           /\ \A k \in Kinds : Merge(input, old).ref[k]
                               = IF input.ref[k] = Absent THEN old.ref[k] ELSE input.ref[k]
BY DEF Merge, Given, ComboInput, Combination

LEMMA TestedTypes ==
    ASSUME NEW input \in ComboInput, NEW old \in Combination
    PROVE  /\ Tested(input, old) \in Combination
           /\ \A k \in Kinds : input.ref[k] \in Ids => Tested(input, old).ref[k] = input.ref[k]
BY SalaryGradeAssumption DEF Tested, OrOld, ComboInput, Combination

\* What is written was tested, unless it has a NULL.
LEMMA WholeIsTested ==
    ASSUME NEW input \in ComboInput, NEW old \in Combination, Whole(Merge(input, old))
    PROVE  Merge(input, old) = Tested(input, old)
<1>1. \A k \in Kinds : Given(input.ref[k], old.ref[k]) = OrOld(input.ref[k], old.ref[k])
  BY DEF Whole, Joins, Merge, Given, OrOld
<1>2. Given(input.variant, old.variant) = OrOld(input.variant, old.variant)
  BY DEF Whole, Merge, Given, OrOld
<1> QED BY <1>1, <1>2 DEF Merge, Tested

\* A step of one request that writes no table.
LEMMA SalaryRequestKeeps ==
    ASSUME SalaryIInv, NEW r \in Requests, NEW new, SalaryRequestOK(new),
           req' = [req EXCEPT ![r] = new], UNCHANGED <<master, record>>
    PROVE  SalaryIInv'
<1>1. SalaryTables'
  BY DEF SalaryIInv, SalaryTables, Live
<1>2. new \in Request /\ req' \in [Requests -> Request]
  BY DEF SalaryIInv, SalaryRequestOK
<1>3. ASSUME NEW k \in Requests PROVE SalaryRequestOK(req[k])'
  <2>1. SalaryRequestOK(req'[k])
    BY DEF SalaryIInv
  <2>2. master' = master /\ record' = record
    OBVIOUS
  <2> QED BY <2>1, <2>2 DEF SalaryRequestOK, MasterRequestOK, RecordRequestOK, MasterFresh,
                       RecordFresh, Tests, Writes, FindByCode, Live, LiveRecords, FindDuplicate
<1> QED BY <1>1, <1>2, <1>3 DEF SalaryIInv

LEMMA StartCreateKeeps ==
    ASSUME SalaryIInv, NEW r \in Requests, NEW k \in Kinds, NEW c \in Codes,
           NEW min \in Salaries \cup {None}, NEW max \in Salaries \cup {None},
           StartCreate(r, k, c, min, max)
    PROVE  SalaryIInv'
<1> USE SalaryGradeAssumption
<1> DEFINE new == [Idle EXCEPT !.at = "write", !.kind = k, !.code = c,
                               !.min = min, !.max = max]
<1>1. /\ new \in Request /\ new.at = "write" /\ new.kind = k /\ new.target = None
      /\ new.code = c /\ new.min = min /\ new.max = max
  BY IdleTypes DEF Request, Steps, CodeInput, SalaryInput
<1>2. req' = [req EXCEPT ![r] = new] /\ UNCHANGED <<master, record>>
      /\ FindByCode(k, c) = {} /\ ValidSalaryRange(min, max)
  BY DEF StartCreate
<1> HIDE DEF new
<1>3. SalaryRequestOK(new)
  BY <1>1, <1>2 DEF SalaryRequestOK, MasterRequestOK, RecordRequestOK, MasterFresh,
                    RecordFresh, RecordSteps
<1> QED BY <1>2, <1>3, SalaryRequestKeeps

LEMMA StartUpdateKeeps ==
    ASSUME SalaryIInv, NEW r \in Requests, NEW k \in Kinds, NEW i \in Ids,
           NEW c \in Codes \cup {Absent}, NEW min \in SalaryInput, NEW max \in SalaryInput,
           StartUpdate(r, k, i, c, min, max)
    PROVE  SalaryIInv'
<1> USE SalaryGradeAssumption
<1> DEFINE step == IF c \in {Absent, master[k][i].code} THEN "write" ELSE "code"
           new == [Idle EXCEPT !.at = step, !.kind = k, !.target = i, !.code = c,
                               !.min = min, !.max = max]
<1>1. step \in {"write", "code"} /\ step \in Steps /\ (step = "code" => c \in Codes)
      /\ (step = "write" /\ c # Absent => c = master[k][i].code)
  BY DEF Steps
<1>2. req' = [req EXCEPT ![r] = new] /\ UNCHANGED <<master, record>> /\ i \in Live(k)
      /\ ValidSalaryRange(Given(min, master[k][i].min), Given(max, master[k][i].max))
  BY DEF StartUpdate, TestedSalary
<1> HIDE DEF step
<1>3. /\ new \in Request /\ new.at = step /\ new.kind = k /\ new.target = i
      /\ new.code = c /\ new.min = min /\ new.max = max
  BY <1>1, IdleTypes DEF Request, CodeInput
<1> HIDE DEF new
<1>4. i # None
  OBVIOUS
<1>5. step = "write" /\ c # Absent => i \in FindByCode(k, c)
  BY <1>1, <1>2 DEF FindByCode
<1>6. SalaryRequestOK(new)
  BY <1>1, <1>2, <1>3, <1>4, <1>5 DEF SalaryRequestOK, MasterRequestOK, RecordRequestOK,
                    MasterFresh, RecordFresh, RecordSteps
<1> QED BY <1>2, <1>6, SalaryRequestKeeps

\* A request that goes on, whose new step asks for no more.
LEMMA CheckCodeKeeps ==
    ASSUME SalaryIInv, NEW r \in Requests, CheckCode(r) PROVE SalaryIInv'
<1> DEFINE q == req[r]
           new == [q EXCEPT !.at = "write"]
<1>1. q \in Request /\ SalaryRequestOK(q) /\ q.at = "code"
      /\ (FindByCode(q.kind, q.code) = {} \/ q.target \in FindByCode(q.kind, q.code))
  BY DEF SalaryIInv, CheckCode
<1>2. /\ new \in Request /\ new.at = "write" /\ new.kind = q.kind /\ new.target = q.target
      /\ new.code = q.code /\ new.min = q.min /\ new.max = q.max
      /\ new.overtaken = q.overtaken
  BY <1>1 DEF Request, Steps
<1>3. req' = [req EXCEPT ![r] = new] /\ UNCHANGED <<master, record>>
  BY DEF CheckCode, Goto, SalaryIInv
<1> HIDE DEF new
<1>4. SalaryRequestOK(new)
  BY <1>1, <1>2 DEF SalaryRequestOK, MasterRequestOK, RecordRequestOK, MasterFresh,
                    RecordFresh, RecordSteps
<1> QED BY <1>3, <1>4, SalaryRequestKeeps

LEMMA CreateRecordKeeps ==
    ASSUME SalaryIInv, NEW r \in Requests, CreateRecord(r) PROVE SalaryIInv'
<1> USE SalaryGradeAssumption
<1>1. PICK combo \in Combos :
         req' = [req EXCEPT ![r] = [Idle EXCEPT !.at = "refs", !.input = combo,
                                                !.effective = combo]]
  BY DEF CreateRecord
<1> DEFINE new == [Idle EXCEPT !.at = "refs", !.input = combo, !.effective = combo]
<1>2. combo \in Combination /\ combo \in ComboInput /\ Whole(combo)
  BY DEF Combination, ComboInput, Whole, Joins
<1>3. /\ new \in Request /\ new.at = "refs" /\ new.target = None /\ new.input = combo
      /\ new.effective = combo
  BY <1>2, IdleTypes DEF Request, Steps
<1> HIDE DEF new
<1>4. SalaryRequestOK(new)
  BY <1>2, <1>3 DEF SalaryRequestOK, MasterRequestOK, RecordRequestOK, MasterFresh,
                    RecordFresh, RecordSteps, Tests
<1> QED BY <1>1, <1>4, SalaryRequestKeeps DEF new, CreateRecord

LEMMA UpdateRecordKeeps ==
    ASSUME SalaryIInv, NEW r \in Requests, UpdateRecord(r) PROVE SalaryIInv'
<1> USE SalaryGradeAssumption
<1>1. PICK x \in FoundRecords, input \in Changes :
         req' = [req EXCEPT ![r] =
             [Idle EXCEPT !.at = "refs", !.target = x, !.input = input,
                          !.effective = Tested(input, record[x].combo)]]
  BY DEF UpdateRecord
<1> DEFINE tested == Tested(input, record[x].combo)
           new == [Idle EXCEPT !.at = "refs", !.target = x, !.input = input,
                               !.effective = tested]
<1>2. /\ input \in ComboInput /\ x \in Records /\ x # None
      /\ record[x].combo \in Combination
  BY DEF ComboInput, FoundRecords, LiveRecords, SalaryIInv, SalaryTables
<1>3. /\ tested \in Combination
      /\ \A k \in Kinds : input.ref[k] \in Ids => tested.ref[k] = input.ref[k]
  BY <1>2, TestedTypes
<1>4. req' = [req EXCEPT ![r] = new] /\ UNCHANGED <<master, record>>
  BY <1>1 DEF UpdateRecord
<1> HIDE DEF tested
<1>5. /\ new \in Request /\ new.at = "refs" /\ new.target = x /\ new.input = input
      /\ new.effective = tested
  BY <1>2, <1>3, IdleTypes DEF Request, Steps
<1> HIDE DEF new
<1>6. Tests(new) = tested /\ x \in LiveRecords
  BY <1>2, <1>5 DEF Tests, tested, FoundRecords
<1>7. SalaryRequestOK(new)
  BY <1>1, <1>2, <1>3, <1>5, <1>6 DEF SalaryRequestOK, MasterRequestOK, RecordRequestOK,
                    MasterFresh, RecordFresh, RecordSteps
<1> QED BY <1>4, <1>7, SalaryRequestKeeps

LEMMA CheckReferencesKeeps ==
    ASSUME SalaryIInv, NEW r \in Requests, CheckReferences(r) PROVE SalaryIInv'
<1> DEFINE q == req[r]
           new == [q EXCEPT !.at = "duplicate"]
<1>1. q \in Request /\ SalaryRequestOK(q) /\ q.at = "refs"
  BY DEF SalaryIInv, CheckReferences
<1>2. /\ new \in Request /\ new.at = "duplicate" /\ new.target = q.target
      /\ new.input = q.input /\ new.effective = q.effective /\ new.overtaken = q.overtaken
  BY <1>1 DEF Request, Steps
<1>3. req' = [req EXCEPT ![r] = new] /\ UNCHANGED <<master, record>>
  BY DEF CheckReferences, Goto, SalaryIInv
<1> HIDE DEF new
<1>4. SalaryRequestOK(new)
  BY <1>1, <1>2 DEF SalaryRequestOK, MasterRequestOK, RecordRequestOK, MasterFresh,
                    RecordFresh, RecordSteps, Tests, Writes
<1> QED BY <1>3, <1>4, SalaryRequestKeeps

LEMMA CheckDuplicateKeeps ==
    ASSUME SalaryIInv, NEW r \in Requests, CheckDuplicate(r) PROVE SalaryIInv'
<1> DEFINE q == req[r]
           new == [q EXCEPT !.at = "writeRecord", !.effective = NoCombination]
<1>1. q \in Request /\ SalaryRequestOK(q) /\ q.at = "duplicate"
      /\ FindDuplicate(q.effective, q.target) = {}
  BY DEF SalaryIInv, CheckDuplicate
<1>2. /\ new \in Request /\ new.at = "writeRecord" /\ new.target = q.target
      /\ new.input = q.input /\ new.overtaken = q.overtaken
  BY <1>1 DEF Request, Steps, NoCombination, Combination
<1>3. req' = [req EXCEPT ![r] = new] /\ UNCHANGED <<master, record>>
  BY DEF CheckDuplicate, SalaryIInv
<1> HIDE DEF new
<1>4. ASSUME ~q.overtaken PROVE FindDuplicate(Writes(new), new.target) = {}
  <2>1. FindDuplicate(Tests(q), q.target) = {}
    BY <1>1, <1>4 DEF SalaryRequestOK, RecordFresh
  <2>2. CASE q.target = None
    BY <1>2, <2>1, <2>2 DEF Tests, Writes
  <2>3. CASE q.target # None
    <3>1. q.target \in LiveRecords /\ q.input \in ComboInput
      BY <1>1, <1>4, <2>3 DEF SalaryRequestOK, RecordFresh, RecordRequestOK, RecordSteps
    <3>2. record[q.target].combo \in Combination
      BY <3>1 DEF LiveRecords, SalaryIInv, SalaryTables
    <3>3. /\ Writes(new) = Merge(q.input, record[q.target].combo)
          /\ Tests(q) = Tested(q.input, record[q.target].combo)
      BY <1>2, <2>3 DEF Writes, Tests
    <3>4. CASE Whole(Writes(new))
      BY <1>2, <2>1, <3>1, <3>2, <3>3, <3>4, WholeIsTested
    <3>5. CASE ~Whole(Writes(new))
      BY <3>5 DEF FindDuplicate
    <3> QED BY <3>4, <3>5
  <2> QED BY <2>2, <2>3
<1>5. SalaryRequestOK(new)
  BY <1>1, <1>2, <1>4 DEF SalaryRequestOK, MasterRequestOK, RecordRequestOK, MasterFresh,
                    RecordFresh, RecordSteps
<1> QED BY <1>3, <1>5, SalaryRequestKeeps

LEMMA RequestFailsKeeps ==
    ASSUME SalaryIInv, NEW r \in Requests, RequestFails(r) PROVE SalaryIInv'
BY IdleOK, SalaryRequestKeeps DEF RequestFails

\* The other requests when a table of theirs is written: done, untouched or overtaken.
After(q, new) == new = Idle \/ new = q \/ new = [q EXCEPT !.overtaken = TRUE]

LEMMA AfterTypes ==
    ASSUME NEW q \in Request, NEW new, After(q, new)
    PROVE  /\ new \in Request
           /\ new # Idle => /\ new.at = q.at /\ new.kind = q.kind /\ new.target = q.target
                            /\ new.code = q.code /\ new.min = q.min /\ new.max = q.max
                            /\ new.input = q.input /\ new.effective = q.effective
           /\ new # Idle /\ ~new.overtaken => new = q
<1>1. CASE new = Idle
  BY <1>1, IdleTypes
<1>2. CASE new = q
  BY <1>2
<1>3. CASE new = [q EXCEPT !.overtaken = TRUE]
  BY <1>3 DEF Request
<1> QED BY <1>1, <1>2, <1>3 DEF After

LEMMA MasterWriteKeeps ==
    ASSUME SalaryIInv, NEW k \in Kinds, UNCHANGED record,
           master' \in [Kinds -> [Ids -> MasterRow]],
           \A j \in Kinds \ {k} : master'[j] = master[j],
           \A i \in Ids : master'[k][i].state = "live" => master'[k][i].code \in Codes,
           req' \in [Requests -> Request],
           \A q \in Requests : /\ After(req[q], req'[q])
                               /\ req'[q] = req[q] /\ req[q] # Idle => req[q].kind # k
                                                                     \/ req[q].overtaken
    PROVE  SalaryIInv'
<1>1. SalaryTables'
  BY DEF SalaryIInv, SalaryTables, Live
<1>2. ASSUME NEW q \in Requests PROVE SalaryRequestOK(req[q])'
  <2>0. PICK old, new : old = req[q] /\ new = req'[q]
    OBVIOUS
  <2>1. old \in Request /\ SalaryRequestOK(old) /\ After(old, new)
        /\ (new = old /\ old # Idle => old.kind # k \/ old.overtaken)
    BY <2>0 DEF SalaryIInv
  <2>2. CASE new = Idle
    BY <2>0, <2>2, IdleTypes DEF SalaryRequestOK, MasterRequestOK, RecordRequestOK,
                                 MasterFresh, RecordFresh, RecordSteps
  <2>3. CASE new # Idle
    <3>1. /\ new \in Request
          /\ new.at = old.at /\ new.kind = old.kind /\ new.target = old.target
          /\ new.code = old.code /\ new.min = old.min /\ new.max = old.max
          /\ new.input = old.input /\ new.effective = old.effective
          /\ ~new.overtaken => new = old
      BY <2>1, <2>3, AfterTypes
    <3>2. MasterRequestOK(new) /\ RecordRequestOK(new)
      BY <2>1, <3>1 DEF SalaryRequestOK, MasterRequestOK, RecordRequestOK
    <3>3. ASSUME ~new.overtaken PROVE MasterFresh(new)' /\ RecordFresh(new)'
      <4>1. new = old /\ MasterFresh(old) /\ RecordFresh(old) /\ old.kind # k
        BY <2>1, <2>3, <3>1, <3>3 DEF SalaryRequestOK
      <4>2. old.at \in {"code", "write"} => old.kind \in Kinds
        BY <2>1 DEF SalaryRequestOK, MasterRequestOK
      <4>3. old.at \in {"code", "write"} => master'[old.kind] = master[old.kind]
        BY <4>1, <4>2
      <4>4. ASSUME old.at \in {"code", "write"}
            PROVE  /\ Live(old.kind)' = Live(old.kind)
                   /\ FindByCode(old.kind, old.code)' = FindByCode(old.kind, old.code)
        BY <4>3, <4>4 DEF Live, FindByCode
      <4>5. MasterFresh(old)'
        BY <4>1, <4>3, <4>4 DEF MasterFresh
      <4>6. RecordFresh(old)'
        BY <4>1 DEF RecordFresh, Tests, Writes, LiveRecords, FindDuplicate
      <4> QED BY <4>1, <4>5, <4>6
    <3> QED BY <2>0, <3>1, <3>2, <3>3 DEF SalaryRequestOK, MasterRequestOK, RecordRequestOK,
               MasterFresh, RecordFresh, Tests, Writes, FindByCode, Live, LiveRecords, FindDuplicate
  <2> QED BY <2>2, <2>3
<1> QED BY <1>1, <1>2 DEF SalaryIInv

LEMMA RecordWriteKeeps ==
    ASSUME SalaryIInv, UNCHANGED master, record' \in [Records -> RecordRow],
           \A x \in Records : record'[x].state # "none" => record'[x].combo \in Combination,
           req' \in [Requests -> Request],
           \A q \in Requests : /\ After(req[q], req'[q])
                               /\ req'[q] = req[q] /\ req[q] # Idle
                                  => req[q].at \notin RecordSteps \/ req[q].overtaken
    PROVE  SalaryIInv'
<1>1. SalaryTables'
  BY DEF SalaryIInv, SalaryTables, Live
<1>2. ASSUME NEW q \in Requests PROVE SalaryRequestOK(req[q])'
  <2>0. PICK old, new : old = req[q] /\ new = req'[q]
    OBVIOUS
  <2>1. old \in Request /\ SalaryRequestOK(old) /\ After(old, new)
        /\ (new = old /\ old # Idle => old.at \notin RecordSteps \/ old.overtaken)
    BY <2>0 DEF SalaryIInv
  <2>2. CASE new = Idle
    BY <2>0, <2>2, IdleTypes DEF SalaryRequestOK, MasterRequestOK, RecordRequestOK,
                                 MasterFresh, RecordFresh, RecordSteps
  <2>3. CASE new # Idle
    <3>1. /\ new \in Request
          /\ new.at = old.at /\ new.kind = old.kind /\ new.target = old.target
          /\ new.code = old.code /\ new.min = old.min /\ new.max = old.max
          /\ new.input = old.input /\ new.effective = old.effective
          /\ ~new.overtaken => new = old
      BY <2>1, <2>3, AfterTypes
    <3>2. MasterRequestOK(new) /\ RecordRequestOK(new)
      BY <2>1, <3>1 DEF SalaryRequestOK, MasterRequestOK, RecordRequestOK
    <3>3. ASSUME ~new.overtaken PROVE MasterFresh(new)' /\ RecordFresh(new)'
      <4>1. new = old /\ MasterFresh(old) /\ old.at \notin RecordSteps
        BY <2>1, <2>3, <3>1, <3>3 DEF SalaryRequestOK
      <4>2. MasterFresh(old)'
        BY <4>1 DEF MasterFresh, FindByCode, Live
      <4>3. RecordFresh(old)'
        BY <4>1 DEF RecordFresh, RecordSteps
      <4> QED BY <4>1, <4>2, <4>3
    <3> QED BY <2>0, <3>1, <3>2, <3>3 DEF SalaryRequestOK, MasterRequestOK, RecordRequestOK,
               MasterFresh, RecordFresh, Tests, Writes, FindByCode, Live, LiveRecords, FindDuplicate
  <2> QED BY <2>2, <2>3
<1> QED BY <1>1, <1>2 DEF SalaryIInv

\* How Finish treats the requests.
LEMMA FinishAfter ==
    ASSUME req \in [Requests -> Request], NEW r \in Requests, NEW R, Finish(r, R)
    PROVE  /\ req' \in [Requests -> Request] /\ req'[r] = Idle
           /\ \A q \in Requests : /\ After(req[q], req'[q])
                                  /\ req'[q] = req[q] /\ req[q] # Idle
                                     => q \notin R \/ req[q].overtaken \/ q = r
           /\ \A q \in Requests \ {r} : req'[q].at = req[q].at /\ req'[q].kind = req[q].kind
                 /\ req'[q].target = req[q].target /\ req'[q].code = req[q].code
                 /\ req'[q].input = req[q].input
<1>1. \A q \in Requests :
         req'[q] = IF q = r THEN Idle
                   ELSE IF q \in R THEN [req[q] EXCEPT !.overtaken = TRUE] ELSE req[q]
  BY DEF Finish
<1>2. \A q \in Requests : /\ After(req[q], req'[q])
                          /\ req'[q] = req[q] /\ req[q] # Idle
                             => q \notin R \/ req[q].overtaken \/ q = r
  <2> SUFFICES ASSUME NEW q \in Requests
               PROVE  /\ After(req[q], req'[q])
                      /\ req'[q] = req[q] /\ req[q] # Idle
                         => q \notin R \/ req[q].overtaken \/ q = r
    OBVIOUS
  <2>1. req[q] \in Request
    OBVIOUS
  <2> QED BY <1>1, <2>1 DEF After, Request
<1>3. \A q \in Requests : req'[q] \in Request
  BY <1>2, AfterTypes
<1>4. req' = [q \in Requests |-> req'[q]]
  BY DEF Finish
<1>5. \A q \in Requests \ {r} : req'[q].at = req[q].at /\ req'[q].kind = req[q].kind
                 /\ req'[q].target = req[q].target /\ req'[q].code = req[q].code
                 /\ req'[q].input = req[q].input
  <2> SUFFICES ASSUME NEW q \in Requests \ {r}
               PROVE  req'[q].at = req[q].at /\ req'[q].kind = req[q].kind
                 /\ req'[q].target = req[q].target /\ req'[q].code = req[q].code
                 /\ req'[q].input = req[q].input
    OBVIOUS
  <2>1. req[q] \in Request
    OBVIOUS
  <2> QED BY <1>1, <2>1 DEF Request
<1> QED BY <1>1, <1>2, <1>3, <1>4, <1>5

LEMMA OneRowWritten ==
    ASSUME SalaryTables, NEW k \in Kinds, NEW i \in Ids, NEW row \in MasterRow,
           master' = [master EXCEPT ![k][i] = row]
    PROVE  /\ master' \in [Kinds -> [Ids -> MasterRow]]
           /\ \A j \in Kinds \ {k} : master'[j] = master[j]
           /\ \A j \in Ids : master'[k][j] = IF j = i THEN row ELSE master[k][j]
BY DEF SalaryTables

LEMMA InsertEffect ==
    ASSUME SalaryIInv, NEW r \in Requests, NEW k \in Kinds, Insert(r, k)
    PROVE  \E i \in Ids, row \in MasterRow :
             /\ master[k][i].state = "none"
             /\ row = NewMaster(req[r]) /\ row.state = "live" /\ row.code = req[r].code
             /\ row.min = req[r].min /\ row.max = req[r].max
             /\ row.code \in Codes /\ ValidSalaryRange(row.min, row.max)
             /\ master' \in [Kinds -> [Ids -> MasterRow]]
             /\ \A j \in Kinds \ {k} : master'[j] = master[j]
             /\ \A j \in Ids : master'[k][j] = IF j = i THEN row ELSE master[k][j]
<1>1. PICK i \in Ids : master[k][i].state = "none"
                       /\ master' = [master EXCEPT ![k][i] = NewMaster(req[r])]
  BY DEF Insert
<1> DEFINE row == NewMaster(req[r])
<1>2. MasterRequestOK(req[r]) /\ req[r].at = "write" /\ req[r].target = None
  BY DEF Insert, SalaryIInv, SalaryRequestOK
<1>3. /\ req[r].code \in Codes /\ req[r].min \in Salaries \cup {None}
      /\ req[r].max \in Salaries \cup {None} /\ ValidSalaryRange(req[r].min, req[r].max)
  BY <1>2 DEF MasterRequestOK
<1>4. /\ row \in MasterRow /\ row.state = "live" /\ row.code = req[r].code
      /\ row.min = req[r].min /\ row.max = req[r].max
  BY <1>3 DEF NewMaster, MasterRow, States
<1>5. /\ master' \in [Kinds -> [Ids -> MasterRow]]
      /\ \A j \in Kinds \ {k} : master'[j] = master[j]
      /\ \A j \in Ids : master'[k][j] = IF j = i THEN row ELSE master[k][j]
  <2> HIDE DEF row
  <2> QED BY <1>1, <1>4, OneRowWritten DEF SalaryIInv, row
<1> QED BY <1>1, <1>3, <1>4, <1>5

LEMMA UpdateEffect ==
    ASSUME SalaryIInv, NEW r \in Requests, NEW k \in Kinds, Update(r, k)
    PROVE  \E i \in Ids, row \in MasterRow :
             /\ i = req[r].target
             /\ master[k][i].state = "live" =>
                  /\ row.state = "live" /\ row.code = Given(req[r].code, master[k][i].code)
                  /\ row.code \in Codes
                  /\ row.min = Given(req[r].min, master[k][i].min)
                  /\ row.max = Given(req[r].max, master[k][i].max)
             /\ master[k][i].state # "live" => row = master[k][i]
             /\ master' \in [Kinds -> [Ids -> MasterRow]]
             /\ \A j \in Kinds \ {k} : master'[j] = master[j]
             /\ \A j \in Ids : master'[k][j] = IF j = i THEN row ELSE master[k][j]
<1> USE SalaryGradeAssumption
<1>1. /\ req[r] \in Request /\ MasterRequestOK(req[r])
      /\ req[r].at = "write" /\ req[r].target # None
  BY DEF Update, SalaryIInv, SalaryRequestOK
<1>2. PICK i \in Ids : i = req[r].target
  BY <1>1 DEF MasterRequestOK
<1> DEFINE old == master[k][i]
           row == IF old.state = "live" THEN Updated(old, req[r]) ELSE old
<1>3. old \in MasterRow /\ (old.state = "live" => old.code \in Codes)
  BY DEF SalaryIInv, SalaryTables, Live
<1>4. req[r].code \in Codes \cup {Absent} /\ req[r].min \in SalaryInput
      /\ req[r].max \in SalaryInput
  BY <1>1 DEF MasterRequestOK, Request
<1>5. ASSUME old.state = "live"
      PROVE  /\ row \in MasterRow /\ row.state = "live"
             /\ row.code = Given(req[r].code, old.code) /\ row.code \in Codes
             /\ row.min = Given(req[r].min, old.min)
             /\ row.max = Given(req[r].max, old.max)
  <2>1. row = Updated(old, req[r])
    BY <1>5
  <2>2. /\ Given(req[r].code, old.code) \in Codes
        /\ Given(req[r].min, old.min) \in Salaries \cup {None}
        /\ Given(req[r].max, old.max) \in Salaries \cup {None}
    BY <1>3, <1>4, <1>5 DEF Given, SalaryInput, MasterRow
  <2> HIDE DEF row, old
  <2> QED BY <1>3, <1>5, <2>1, <2>2 DEF Updated, MasterRow
<1>6. row \in MasterRow /\ (old.state # "live" => row = old)
  BY <1>3, <1>5
<1>7. master' = [master EXCEPT ![k][i] = row]
  BY <1>2 DEF Update
<1>8. /\ master' \in [Kinds -> [Ids -> MasterRow]]
      /\ \A j \in Kinds \ {k} : master'[j] = master[j]
      /\ \A j \in Ids : master'[k][j] = IF j = i THEN row ELSE master[k][j]
  <2> HIDE DEF row
  <2> QED BY <1>6, <1>7, OneRowWritten DEF SalaryIInv
<1> HIDE DEF row
<1> QED BY <1>2, <1>5, <1>6, <1>8

LEMMA InsertKeeps ==
    ASSUME SalaryIInv, NEW r \in Requests, NEW k \in Kinds, Insert(r, k)
    PROVE  SalaryIInv'
<1>1. PICK i \in Ids, row \in MasterRow :
             /\ row.state = "live" /\ row.code \in Codes
             /\ master' \in [Kinds -> [Ids -> MasterRow]]
             /\ \A j \in Kinds \ {k} : master'[j] = master[j]
             /\ \A j \in Ids : master'[k][j] = IF j = i THEN row ELSE master[k][j]
  BY InsertEffect
<1>2. \A j \in Ids : master'[k][j].state = "live" => master'[k][j].code \in Codes
  BY <1>1 DEF SalaryIInv, SalaryTables, Live
<1>3. /\ req' \in [Requests -> Request] /\ UNCHANGED record
      /\ \A q \in Requests : /\ After(req[q], req'[q])
                             /\ req'[q] = req[q] /\ req[q] # Idle
                                => q \notin OnMaster(k) \/ req[q].overtaken \/ q = r
      /\ req'[r] = Idle
  BY FinishAfter DEF Insert, SalaryIInv
<1>4. \A q \in Requests : req'[q] = req[q] /\ req[q] # Idle
         => req[q].kind # k \/ req[q].overtaken
  BY <1>3 DEF OnMaster
<1> QED BY <1>1, <1>2, <1>3, <1>4, MasterWriteKeeps

LEMMA UpdateKeeps ==
    ASSUME SalaryIInv, NEW r \in Requests, NEW k \in Kinds, Update(r, k)
    PROVE  SalaryIInv'
<1>1. PICK i \in Ids, row \in MasterRow :
             /\ master[k][i].state = "live" => row.code \in Codes
             /\ master[k][i].state # "live" => row = master[k][i]
             /\ master' \in [Kinds -> [Ids -> MasterRow]]
             /\ \A j \in Kinds \ {k} : master'[j] = master[j]
             /\ \A j \in Ids : master'[k][j] = IF j = i THEN row ELSE master[k][j]
  BY UpdateEffect
<1>2. \A j \in Ids : master'[k][j].state = "live" => master'[k][j].code \in Codes
  BY <1>1 DEF SalaryIInv, SalaryTables, Live
<1>3. /\ req' \in [Requests -> Request] /\ UNCHANGED record
      /\ \A q \in Requests : /\ After(req[q], req'[q])
                             /\ req'[q] = req[q] /\ req[q] # Idle
                                => q \notin OnMaster(k) \/ req[q].overtaken \/ q = r
      /\ req'[r] = Idle
  BY FinishAfter DEF Update, SalaryIInv
<1>4. \A q \in Requests : req'[q] = req[q] /\ req[q] # Idle
         => req[q].kind # k \/ req[q].overtaken
  BY <1>3 DEF OnMaster
<1> QED BY <1>1, <1>2, <1>3, <1>4, MasterWriteKeeps

\* A removal overtakes the requests of R.
LEMMA OvertakenAfter ==
    ASSUME req \in [Requests -> Request], NEW R,
           req' = [q \in Requests |->
                      IF q \in R THEN [req[q] EXCEPT !.overtaken = TRUE] ELSE req[q]]
    PROVE  /\ req' \in [Requests -> Request]
           /\ \A q \in Requests : /\ After(req[q], req'[q])
                                  /\ req'[q] = req[q] /\ req[q] # Idle
                                     => q \notin R \/ req[q].overtaken
           /\ \A q \in Requests : req'[q].at = req[q].at /\ req'[q].kind = req[q].kind
                 /\ req'[q].target = req[q].target /\ req'[q].code = req[q].code
                 /\ req'[q].input = req[q].input
<1>1. ASSUME NEW q \in Requests
      PROVE  /\ req'[q] \in Request
             /\ After(req[q], req'[q])
             /\ req'[q] = req[q] /\ req[q] # Idle => q \notin R \/ req[q].overtaken
             /\ req'[q].at = req[q].at /\ req'[q].kind = req[q].kind
             /\ req'[q].target = req[q].target /\ req'[q].code = req[q].code
             /\ req'[q].input = req[q].input
  <2>1. req[q] \in Request
    OBVIOUS
  <2>2. req'[q] = IF q \in R THEN [req[q] EXCEPT !.overtaken = TRUE] ELSE req[q]
    OBVIOUS
  <2> QED BY <2>1, <2>2 DEF After, Request
<1> QED BY <1>1

LEMMA RemoveEffect ==
    ASSUME SalaryIInv, NEW k \in Kinds, NEW i \in Ids, Remove(k, i)
    PROVE  \E row \in MasterRow :
             /\ row.state = "deleted" /\ row.code = master[k][i].code
             /\ master[k][i].state = "live"
             /\ master' \in [Kinds -> [Ids -> MasterRow]]
             /\ \A j \in Kinds \ {k} : master'[j] = master[j]
             /\ \A j \in Ids : master'[k][j] = IF j = i THEN row ELSE master[k][j]
<1> DEFINE row == [master[k][i] EXCEPT !.state = "deleted"]
<1>1. master[k][i] \in MasterRow /\ master[k][i].state = "live"
  BY DEF SalaryIInv, SalaryTables, Remove, Live
<1>2. row \in MasterRow /\ row.state = "deleted" /\ row.code = master[k][i].code
  BY <1>1 DEF MasterRow, States
<1>3. master' = [master EXCEPT ![k][i] = row]
  BY DEF Remove
<1> HIDE DEF row
<1>4. /\ master' \in [Kinds -> [Ids -> MasterRow]]
      /\ \A j \in Kinds \ {k} : master'[j] = master[j]
      /\ \A j \in Ids : master'[k][j] = IF j = i THEN row ELSE master[k][j]
  BY <1>2, <1>3, OneRowWritten DEF SalaryIInv
<1> QED BY <1>1, <1>2, <1>4

LEMMA RemoveKeeps ==
    ASSUME SalaryIInv, NEW k \in Kinds, NEW i \in Ids, Remove(k, i)
    PROVE  SalaryIInv'
<1>1. PICK row \in MasterRow :
             /\ row.state = "deleted"
             /\ master' \in [Kinds -> [Ids -> MasterRow]]
             /\ \A j \in Kinds \ {k} : master'[j] = master[j]
             /\ \A j \in Ids : master'[k][j] = IF j = i THEN row ELSE master[k][j]
  BY RemoveEffect
<1>2. \A j \in Ids : master'[k][j].state = "live" => master'[k][j].code \in Codes
  BY <1>1 DEF SalaryIInv, SalaryTables, Live
<1>3. /\ req' \in [Requests -> Request] /\ UNCHANGED record
      /\ \A q \in Requests : /\ After(req[q], req'[q])
                             /\ req'[q] = req[q] /\ req[q] # Idle
                                => q \notin OnMaster(k) \/ req[q].overtaken
  BY OvertakenAfter DEF Remove, SalaryIInv
<1>4. \A q \in Requests : req'[q] = req[q] /\ req[q] # Idle
         => req[q].kind # k \/ req[q].overtaken
  BY <1>3 DEF OnMaster
<1> QED BY <1>1, <1>2, <1>3, <1>4, MasterWriteKeeps

LEMMA InsertRecordEffect ==
    ASSUME SalaryIInv, NEW r \in Requests, InsertRecord(r)
    PROVE  \E x \in Records, row \in RecordRow :
             /\ record[x].state = "none"
             /\ row.state = "live" /\ row.combo = req[r].input /\ row.combo \in Combination
             /\ record' \in [Records -> RecordRow]
             /\ \A y \in Records : record'[y] = IF y = x THEN row ELSE record[y]
<1>1. PICK x \in Records : /\ record[x].state = "none"
                           /\ record' = [record EXCEPT ![x] = [state |-> "live",
                                                               combo |-> req[r].input]]
  BY DEF InsertRecord
<1> DEFINE row == [state |-> "live", combo |-> req[r].input]
<1>2. req[r].input \in Combination
  BY DEF InsertRecord, SalaryIInv, SalaryRequestOK, RecordRequestOK, RecordSteps
<1>3. row \in RecordRow /\ row.state = "live" /\ row.combo = req[r].input
  BY <1>2 DEF RecordRow, States
<1> HIDE DEF row
<1>4. /\ record' \in [Records -> RecordRow]
      /\ \A y \in Records : record'[y] = IF y = x THEN row ELSE record[y]
  BY <1>1, <1>3 DEF SalaryIInv, SalaryTables, row
<1> QED BY <1>1, <1>2, <1>3, <1>4

LEMMA WriteRecordEffect ==
    ASSUME SalaryIInv, NEW r \in Requests, WriteRecord(r)
    PROVE  \E x \in Records, row \in RecordRow :
             /\ x = req[r].target /\ x # None
             /\ req[r].input \in ComboInput
             /\ record[x].state = "live" =>
                  /\ row.state = "live" /\ row.combo = Merge(req[r].input, record[x].combo)
                  /\ row.combo \in Combination /\ record[x].combo \in Combination
             /\ record[x].state # "live" => row = record[x]
             /\ record' \in [Records -> RecordRow]
             /\ \A y \in Records : record'[y] = IF y = x THEN row ELSE record[y]
<1>1. req[r].at = "writeRecord" /\ req[r].target # None /\ RecordRequestOK(req[r])
  BY DEF WriteRecord, SalaryIInv, SalaryRequestOK
<1>2. PICK x \in Records : x = req[r].target
  BY <1>1 DEF RecordRequestOK, RecordSteps
<1>3. req[r].input \in ComboInput
  BY <1>1 DEF RecordRequestOK, RecordSteps
<1> DEFINE old == record[x]
           row == IF old.state = "live"
                  THEN [old EXCEPT !.combo = Merge(req[r].input, old.combo)] ELSE old
<1>4. old \in RecordRow /\ (old.state # "none" => old.combo \in Combination)
  BY DEF SalaryIInv, SalaryTables
<1>5. record' = [record EXCEPT ![x] = row]
  BY <1>2 DEF WriteRecord
<1>6. ASSUME old.state = "live"
      PROVE  /\ row \in RecordRow /\ row.state = "live"
             /\ row.combo = Merge(req[r].input, old.combo)
             /\ row.combo \in Combination /\ old.combo \in Combination
  <2>1. Merge(req[r].input, old.combo) \in Combination
    BY <1>3, <1>4, <1>6, MergeTypes
  <2> HIDE DEF old
  <2> QED BY <1>4, <1>6, <2>1 DEF RecordRow
<1>7. row \in RecordRow /\ (old.state # "live" => row = old)
  BY <1>4, <1>6
<1> HIDE DEF row
<1>8. /\ record' \in [Records -> RecordRow]
      /\ \A y \in Records : record'[y] = IF y = x THEN row ELSE record[y]
  BY <1>5, <1>7 DEF SalaryIInv, SalaryTables
<1> QED BY <1>1, <1>2, <1>3, <1>6, <1>7, <1>8

LEMMA RemoveRecordEffect ==
    ASSUME SalaryIInv, RemoveRecord
    PROVE  \E x \in Records, row \in RecordRow :
             /\ record[x].state = "live" /\ row.state = "deleted"
             /\ row.combo = record[x].combo /\ row.combo \in Combination
             /\ record' \in [Records -> RecordRow]
             /\ \A y \in Records : record'[y] = IF y = x THEN row ELSE record[y]
<1>1. PICK x \in FoundRecords : record' = [record EXCEPT ![x].state = "deleted"]
  BY DEF RemoveRecord
<1> DEFINE row == [record[x] EXCEPT !.state = "deleted"]
<1>2. /\ x \in Records /\ record[x].state = "live" /\ record[x] \in RecordRow
      /\ record[x].combo \in Combination
  BY DEF FoundRecords, LiveRecords, SalaryIInv, SalaryTables
<1>3. row \in RecordRow /\ row.state = "deleted" /\ row.combo = record[x].combo
  BY <1>2 DEF RecordRow, States
<1>4. record' = [record EXCEPT ![x] = row]
  BY <1>1
<1> HIDE DEF row
<1>5. /\ record' \in [Records -> RecordRow]
      /\ \A y \in Records : record'[y] = IF y = x THEN row ELSE record[y]
  BY <1>2, <1>3, <1>4 DEF SalaryIInv, SalaryTables
<1> QED BY <1>2, <1>3, <1>5

LEMMA RecordWritesKeep ==
    ASSUME SalaryIInv,
           (\E r \in Requests : InsertRecord(r) \/ WriteRecord(r)) \/ RemoveRecord
    PROVE  SalaryIInv'
<1>1. record' \in [Records -> RecordRow]
      /\ \A x \in Records : record'[x].state # "none" => record'[x].combo \in Combination
  <2>1. PICK x \in Records, row \in RecordRow :
             /\ row.combo \in Combination \/ row = record[x]
             /\ record' \in [Records -> RecordRow]
             /\ \A y \in Records : record'[y] = IF y = x THEN row ELSE record[y]
    <3>1. CASE \E r \in Requests : InsertRecord(r)
      BY <3>1, InsertRecordEffect
    <3>2. CASE \E r \in Requests : WriteRecord(r)
      BY <3>2, WriteRecordEffect
    <3>3. CASE RemoveRecord
      BY <3>3, RemoveRecordEffect
    <3> QED BY <3>1, <3>2, <3>3
  <2> QED BY <2>1 DEF SalaryIInv, SalaryTables
<1>2. /\ req' \in [Requests -> Request] /\ UNCHANGED master
      /\ \A q \in Requests : /\ After(req[q], req'[q])
                             /\ req'[q] = req[q] /\ req[q] # Idle
                                => q \notin OnRecords \/ req[q].overtaken
  <2>1. CASE \E r \in Requests : InsertRecord(r) \/ WriteRecord(r)
    BY <2>1, FinishAfter DEF InsertRecord, WriteRecord, SalaryIInv
  <2>2. CASE RemoveRecord
    <3>1. req' = [q \in Requests |->
                      IF q \in OnRecords THEN [req[q] EXCEPT !.overtaken = TRUE]
                      ELSE req[q]]
      BY <2>2 DEF RemoveRecord
    <3>2. UNCHANGED master /\ req \in [Requests -> Request]
      BY <2>2 DEF RemoveRecord, SalaryIInv
    <3> QED BY <3>1, <3>2, OvertakenAfter
  <2> QED BY <2>1, <2>2
<1>3. \A q \in Requests : req'[q] = req[q] /\ req[q] # Idle
         => req[q].at \notin RecordSteps \/ req[q].overtaken
  BY <1>2 DEF OnRecords, RecordSteps
<1> QED BY <1>1, <1>2, <1>3, RecordWriteKeeps

\* The steps that the five masters share, by what they do.
LEMMA NextForms ==
    ASSUME Next
    PROVE  \/ \E r \in Requests :
                \/ \E k \in Kinds :
                      \/ \E c \in Codes, min, max \in Salaries \cup {None} :
                            StartCreate(r, k, c, min, max)
                      \/ \E i \in Ids, c \in Codes \cup {Absent}, min, max \in SalaryInput :
                            StartUpdate(r, k, i, c, min, max)
                      \/ Insert(r, k) \/ Update(r, k)
                \/ CheckCode(r) \/ RecordStep(r) \/ RequestFails(r)
           \/ \E k \in Kinds, i \in Ids : Remove(k, i)
           \/ RemoveRecord
<1>1. ASSUME NEW r \in Requests, MasterStep(r)
      PROVE  \/ \E k \in Kinds :
                      \/ \E c \in Codes, min, max \in Salaries \cup {None} :
                            StartCreate(r, k, c, min, max)
                      \/ \E i \in Ids, c \in Codes \cup {Absent}, min, max \in SalaryInput :
                            StartUpdate(r, k, i, c, min, max)
                      \/ Insert(r, k) \/ Update(r, k)
             \/ CheckCode(r)
  <2>1. Kinds = {"grade", "category", "designation", "tier", "benefit"}
    BY DEF Kinds
  <2>2. None \in Salaries \cup {None} /\ Absent \in SalaryInput
    BY DEF SalaryInput
  <2>3. CASE CreateGrade(r) \/ CreateCategory(r) \/ CreateDesignation(r)
             \/ CreateTier(r) \/ CreateBenefit(r)
    BY <2>1, <2>2, <2>3 DEF CreateGrade, CreateCategory, CreateDesignation, CreateTier,
                            CreateBenefit
  <2>4. CASE UpdateGrade(r) \/ UpdateCategory(r) \/ UpdateDesignation(r)
             \/ UpdateTier(r) \/ UpdateBenefit(r)
    BY <2>1, <2>2, <2>4 DEF UpdateGrade, UpdateCategory, UpdateDesignation, UpdateTier,
                            UpdateBenefit
  <2>5. CASE InsertGrade(r) \/ InsertCategory(r) \/ InsertDesignation(r)
             \/ InsertTier(r) \/ InsertBenefit(r)
    BY <2>1, <2>5 DEF InsertGrade, InsertCategory, InsertDesignation, InsertTier,
                      InsertBenefit
  <2>6. CASE WriteGrade(r) \/ WriteCategory(r) \/ WriteDesignation(r)
             \/ WriteTier(r) \/ WriteBenefit(r)
    BY <2>1, <2>6 DEF WriteGrade, WriteCategory, WriteDesignation, WriteTier, WriteBenefit
  <2> QED BY <1>1, <2>3, <2>4, <2>5, <2>6 DEF MasterStep
<1>2. ASSUME RemoveGrade \/ RemoveCategory \/ RemoveDesignation \/ RemoveTier
             \/ RemoveBenefit
      PROVE  \E k \in Kinds, i \in Ids : Remove(k, i)
  BY <1>2 DEF Kinds, RemoveGrade, RemoveCategory, RemoveDesignation, RemoveTier,
              RemoveBenefit
<1> QED BY <1>1, <1>2 DEF Next

LEMMA SalaryStepKeeps == SalaryIInv /\ [Next]_vars => SalaryIInv'
<1> SUFFICES ASSUME SalaryIInv, [Next]_vars PROVE SalaryIInv'
  OBVIOUS
<1>1. ASSUME UNCHANGED vars PROVE SalaryIInv'
  BY <1>1 DEF vars, SalaryIInv, SalaryTables, SalaryRequestOK, MasterRequestOK,
              RecordRequestOK, MasterFresh, RecordFresh, Tests, Writes, FindByCode, Live,
              LiveRecords, FindDuplicate
<1>2. ASSUME NEW r \in Requests, RecordStep(r) PROVE SalaryIInv'
  BY <1>2, CreateRecordKeeps, UpdateRecordKeeps, CheckReferencesKeeps, CheckDuplicateKeeps,
     RecordWritesKeep DEF RecordStep
<1>3. ASSUME RemoveRecord PROVE SalaryIInv'
  BY <1>3, RecordWritesKeep
<1> QED BY <1>1, <1>2, <1>3, NextForms, StartCreateKeeps, StartUpdateKeeps, CheckCodeKeeps,
           InsertKeeps, UpdateKeeps, RemoveKeeps, RequestFailsKeeps

LEMMA SalaryInvariant == Spec => []SalaryIInv
BY SalaryInitOK, SalaryStepKeeps, PTL DEF Spec

\* Type correctness of the salary-grade masters.
THEOREM SalaryTypeCorrect == Spec => []TypeOK
<1>1. SalaryIInv => TypeOK
  BY SalaryGradeAssumption DEF SalaryIInv, SalaryTables, TypeOK
<1> QED BY SalaryInvariant, <1>1, PTL

-----------------------------------------------------------------------------
(* Deletion.                                                               *)

\* A step writes one row of one table at most, and no deleted one.
LEMMA DeletedRowsStay ==
    ASSUME SalaryIInv, [Next]_vars
    PROVE  /\ \A k \in Kinds, i \in Ids :
                 master[k][i].state = "deleted" => master'[k][i] = master[k][i]
           /\ \A x \in Records : record[x].state = "deleted" => record'[x] = record[x]
<1> DEFINE Goal == /\ \A k \in Kinds, i \in Ids :
                         master[k][i].state = "deleted" => master'[k][i] = master[k][i]
                   /\ \A x \in Records : record[x].state = "deleted" => record'[x] = record[x]
<1>1. ASSUME UNCHANGED <<master, record>> PROVE Goal
  BY <1>1
<1>2. ASSUME NEW r \in Requests, NEW k \in Kinds, Insert(r, k) PROVE Goal
  <2>1. PICK i \in Ids, row \in MasterRow :
             /\ master[k][i].state = "none"
             /\ \A j \in Kinds \ {k} : master'[j] = master[j]
             /\ \A j \in Ids : master'[k][j] = IF j = i THEN row ELSE master[k][j]
    BY <1>2, InsertEffect
  <2>2. UNCHANGED record
    BY <1>2 DEF Insert
  <2>3. ASSUME NEW j \in Kinds, NEW d \in Ids, master[j][d].state = "deleted"
        PROVE  master'[j][d] = master[j][d]
    <3>1. CASE j = k
      <4>1. d # i
        BY <2>1, <2>3, <3>1
      <4> QED BY <2>1, <3>1, <4>1
    <3>2. CASE j # k
      BY <2>1, <3>2
    <3> QED BY <3>1, <3>2
  <2> QED BY <2>2, <2>3
<1>3. ASSUME NEW r \in Requests, NEW k \in Kinds, Update(r, k) PROVE Goal
  <2>1. PICK i \in Ids, row \in MasterRow :
             /\ master[k][i].state # "live" => row = master[k][i]
             /\ \A j \in Kinds \ {k} : master'[j] = master[j]
             /\ \A j \in Ids : master'[k][j] = IF j = i THEN row ELSE master[k][j]
    BY <1>3, UpdateEffect
  <2> QED BY <1>3, <2>1 DEF Update
<1>4. ASSUME NEW k \in Kinds, NEW i \in Ids, Remove(k, i) PROVE Goal
  <2>1. PICK row \in MasterRow :
             /\ master[k][i].state = "live"
             /\ \A j \in Kinds \ {k} : master'[j] = master[j]
             /\ \A j \in Ids : master'[k][j] = IF j = i THEN row ELSE master[k][j]
    BY <1>4, RemoveEffect
  <2>2. UNCHANGED record
    BY <1>4 DEF Remove
  <2>3. ASSUME NEW j \in Kinds, NEW d \in Ids, master[j][d].state = "deleted"
        PROVE  master'[j][d] = master[j][d]
    <3>1. CASE j = k
      <4>1. d # i
        BY <2>1, <2>3, <3>1
      <4> QED BY <2>1, <3>1, <4>1
    <3>2. CASE j # k
      BY <2>1, <3>2
    <3> QED BY <3>1, <3>2
  <2> QED BY <2>2, <2>3
<1>5. ASSUME NEW r \in Requests, InsertRecord(r) PROVE Goal
  BY <1>5, InsertRecordEffect DEF InsertRecord
<1>6. ASSUME NEW r \in Requests, WriteRecord(r) PROVE Goal
  <2>1. PICK x \in Records, row \in RecordRow :
             /\ record[x].state # "live" => row = record[x]
             /\ \A y \in Records : record'[y] = IF y = x THEN row ELSE record[y]
    BY <1>6, WriteRecordEffect
  <2> QED BY <1>6, <2>1 DEF WriteRecord
<1>7. ASSUME RemoveRecord PROVE Goal
  BY <1>7, RemoveRecordEffect DEF RemoveRecord
<1>8. ASSUME NEW r \in Requests,
             \/ \E k \in Kinds, c \in Codes, min, max \in Salaries \cup {None} :
                   StartCreate(r, k, c, min, max)
             \/ \E k \in Kinds, i \in Ids, c \in Codes \cup {Absent}, min, max \in SalaryInput :
                   StartUpdate(r, k, i, c, min, max)
             \/ CheckCode(r) \/ CreateRecord(r) \/ UpdateRecord(r) \/ CheckReferences(r)
             \/ CheckDuplicate(r) \/ RequestFails(r)
      PROVE  UNCHANGED <<master, record>>
  BY <1>8 DEF StartCreate, StartUpdate, CheckCode, CreateRecord, UpdateRecord,
              CheckReferences, CheckDuplicate, RequestFails
<1>9. UNCHANGED vars => UNCHANGED <<master, record>>
  BY DEF vars
<1> HIDE DEF Goal
<1>10. Goal
  BY <1>1, <1>2, <1>3, <1>4, <1>5, <1>6, <1>7, <1>8, <1>9, NextForms DEF RecordStep
<1> QED BY <1>10 DEF Goal

\* A request past the test of the references has passed it with the same body.
LEMMA TestedWith ==
    ASSUME SalaryIInv, [Next]_vars, NEW q \in Requests,
           req'[q].at \in {"duplicate", "writeRecord"}
    PROVE  /\ req'[q].input = req[q].input
           /\ \/ req[q].at \in {"duplicate", "writeRecord"}
              \/ CheckReferences(q)
<1> DEFINE Goal == /\ req'[q].input = req[q].input
                   /\ \/ req[q].at \in {"duplicate", "writeRecord"}
                      \/ CheckReferences(q)
<1>1. ASSUME req'[q].input = req[q].input, req'[q].at = req[q].at PROVE Goal
  BY <1>1
<1>2. req \in [Requests -> Request] /\ req[q] \in Request
  BY DEF SalaryIInv
<1>3. ASSUME NEW r \in Requests, NEW new, req' = [req EXCEPT ![r] = new],
             r = q => new.at \notin {"duplicate", "writeRecord"}
      PROVE  Goal
  BY <1>1, <1>2, <1>3
<1>4. ASSUME NEW r \in Requests, NEW R, Finish(r, R) PROVE Goal
  BY <1>1, <1>2, <1>4, FinishAfter, IdleTypes
<1>5. ASSUME RemoveRecord \/ \E k \in Kinds, i \in Ids : Remove(k, i) PROVE Goal
  <2>1. PICK R : req' = [p \in Requests |->
                      IF p \in R THEN [req[p] EXCEPT !.overtaken = TRUE] ELSE req[p]]
    <3>1. CASE RemoveRecord
      BY <3>1 DEF RemoveRecord
    <3>2. CASE \E k \in Kinds, i \in Ids : Remove(k, i)
      BY <3>2 DEF Remove
    <3> QED BY <1>5, <3>1, <3>2
  <2>2. req'[q].input = req[q].input /\ req'[q].at = req[q].at
    BY <1>2, <2>1, OvertakenAfter
  <2> QED BY <1>1, <2>2
<1>6. ASSUME NEW r \in Requests, CheckReferences(r) PROVE Goal
  BY <1>2, <1>6 DEF CheckReferences, Goto, Request
<1>7. ASSUME NEW r \in Requests, CheckDuplicate(r) PROVE Goal
  BY <1>2, <1>7 DEF CheckDuplicate, Request
<1>8. ASSUME NEW r \in Requests, CheckCode(r) PROVE Goal
  BY <1>2, <1>8 DEF CheckCode, Goto, Request
<1>9. ASSUME NEW r \in Requests,
             \/ \E k \in Kinds, c \in Codes, min, max \in Salaries \cup {None} :
                   StartCreate(r, k, c, min, max)
             \/ \E k \in Kinds, i \in Ids, c \in Codes \cup {Absent}, min, max \in SalaryInput :
                   StartUpdate(r, k, i, c, min, max)
             \/ CreateRecord(r) \/ UpdateRecord(r) \/ RequestFails(r)
      PROVE  Goal
  <2> SUFFICES \E new : /\ req' = [req EXCEPT ![r] = new]
                        /\ new.at \notin {"duplicate", "writeRecord"}
    BY <1>3
  <2>1. \A step \in Steps : [Idle EXCEPT !.at = step].at = step
    BY IdleTypes DEF Request
  <2>2. Idle.at = "idle"
    BY IdleTypes
  <2>3. CASE \E k \in Kinds, c \in Codes, min, max \in Salaries \cup {None} :
                   StartCreate(r, k, c, min, max)
    <3>1. PICK k \in Kinds, c \in Codes, min \in Salaries \cup {None},
               max \in Salaries \cup {None} : StartCreate(r, k, c, min, max)
      BY <2>3
    <3> DEFINE new == [Idle EXCEPT !.at = "write", !.kind = k, !.code = c,
                                   !.min = min, !.max = max]
    <3>2. new.at = "write"
      BY IdleTypes DEF Request
    <3>3. req' = [req EXCEPT ![r] = new]
      BY <3>1 DEF StartCreate
    <3> HIDE DEF new
    <3> QED BY <3>2, <3>3
  <2>4. CASE \E k \in Kinds, i \in Ids, c \in Codes \cup {Absent}, min, max \in SalaryInput :
                   StartUpdate(r, k, i, c, min, max)
    <3>1. PICK k \in Kinds, i \in Ids, c \in Codes \cup {Absent}, min \in SalaryInput,
               max \in SalaryInput : StartUpdate(r, k, i, c, min, max)
      BY <2>4
    <3> DEFINE step == IF c \in {Absent, master[k][i].code} THEN "write" ELSE "code"
               new == [Idle EXCEPT !.at = step, !.kind = k, !.target = i, !.code = c,
                                   !.min = min, !.max = max]
    <3>2. new.at = step /\ step \in {"write", "code"}
      BY IdleTypes DEF Request
    <3>3. req' = [req EXCEPT ![r] = new]
      BY <3>1 DEF StartUpdate
    <3> HIDE DEF new, step
    <3> QED BY <3>2, <3>3
  <2>5. CASE CreateRecord(r)
    <3>1. PICK combo \in Combos :
             req' = [req EXCEPT ![r] = [Idle EXCEPT !.at = "refs", !.input = combo,
                                                    !.effective = combo]]
      BY <2>5 DEF CreateRecord
    <3>2. [Idle EXCEPT !.at = "refs", !.input = combo, !.effective = combo].at = "refs"
      BY IdleTypes DEF Request
    <3> QED BY <3>1, <3>2
  <2>6. CASE UpdateRecord(r)
    <3>1. PICK x \in FoundRecords, input \in Changes :
             req' = [req EXCEPT ![r] =
                [Idle EXCEPT !.at = "refs", !.target = x, !.input = input,
                             !.effective = Tested(input, record[x].combo)]]
      BY <2>6 DEF UpdateRecord
    <3>2. [Idle EXCEPT !.at = "refs", !.target = x, !.input = input,
                       !.effective = Tested(input, record[x].combo)].at = "refs"
      BY IdleTypes DEF Request
    <3> QED BY <3>1, <3>2
  <2>7. CASE RequestFails(r)
    BY <2>7, IdleTypes DEF RequestFails
  <2> QED BY <1>9, <2>3, <2>4, <2>5, <2>6, <2>7
<1>10. ASSUME NEW r \in Requests, InsertRecord(r) \/ WriteRecord(r)
                                  \/ \E k \in Kinds : Insert(r, k) \/ Update(r, k)
       PROVE  \E R : Finish(r, R)
  BY <1>10 DEF InsertRecord, WriteRecord, Insert, Update
<1>11. UNCHANGED vars => Goal
  BY <1>1 DEF vars
<1> HIDE DEF Goal
<1>12. Goal
  BY <1>4, <1>5, <1>6, <1>7, <1>8, <1>9, <1>10, <1>11, NextForms DEF RecordStep
<1> QED BY <1>12 DEF Goal

DeletedStep ==
    /\ \A k \in Kinds, i \in Ids :
          master[k][i].state = "deleted" => master'[k][i] = master[k][i]
    /\ \A x \in Records : record[x].state = "deleted" => record'[x] = record[x]

RetiredStep ==
    \A k \in Kinds, i \in Ids :
       Retired(k, i) => Retired(k, i)' /\ Referrers(k, i)' \subseteq Referrers(k, i)

LEMMA RetiredStays ==
    ASSUME SalaryIInv, [Next]_vars, NEW k \in Kinds, NEW i \in Ids, Retired(k, i)
    PROVE  Retired(k, i)'
<1> USE SalaryGradeAssumption
<1>1. master'[k][i].state = "deleted"
  BY DeletedRowsStay DEF Retired
<1>2. ASSUME NEW q \in OnRecords', req'[q].at # "refs" PROVE req'[q].input.ref[k] # i
  <2>1. q \in Requests /\ req'[q].at \in {"duplicate", "writeRecord"}
    BY <1>2 DEF OnRecords
  <2>2. req'[q].input = req[q].input
        /\ (req[q].at \in {"duplicate", "writeRecord"} \/ CheckReferences(q))
    BY <2>1, TestedWith
  <2>3. CASE req[q].at \in {"duplicate", "writeRecord"}
    BY <2>1, <2>2, <2>3 DEF Retired, OnRecords
  <2>4. CASE CheckReferences(q)
    <3>1. req[q].effective.ref[k] \in Live(k) /\ req[q].at = "refs"
      BY <2>4 DEF CheckReferences
    <3>2. req[q].effective.ref[k] # i
      BY <3>1 DEF Retired, Live
    <3>3. req[q].input.ref[k] \in Ids => req[q].effective.ref[k] = req[q].input.ref[k]
      BY <2>1, <3>1 DEF SalaryIInv, SalaryRequestOK, RecordRequestOK
    <3> QED BY <2>2, <3>2, <3>3
  <2> QED BY <2>2, <2>3, <2>4
<1> QED BY <1>1, <1>2 DEF Retired

LEMMA RetiredGainsNone ==
    ASSUME SalaryIInv, [Next]_vars, NEW k \in Kinds, NEW i \in Ids, Retired(k, i)
    PROVE  Referrers(k, i)' \subseteq Referrers(k, i)
<1> USE SalaryGradeAssumption
<1>1. ASSUME UNCHANGED record PROVE Referrers(k, i)' \subseteq Referrers(k, i)
  BY <1>1 DEF Referrers, LiveRecords
<1>2. ASSUME NEW r \in Requests, InsertRecord(r)
      PROVE  Referrers(k, i)' \subseteq Referrers(k, i)
  <2>1. PICK x \in Records, row \in RecordRow :
             /\ row.combo = req[r].input
             /\ \A y \in Records : record'[y] = IF y = x THEN row ELSE record[y]
    BY <1>2, InsertRecordEffect
  <2>2. req[r].input.ref[k] # i
    BY <1>2 DEF InsertRecord, Retired, OnRecords
  <2> QED BY <2>1, <2>2 DEF Referrers, LiveRecords
<1>3. ASSUME NEW r \in Requests, WriteRecord(r)
      PROVE  Referrers(k, i)' \subseteq Referrers(k, i)
  <2>1. PICK x \in Records, row \in RecordRow :
             /\ req[r].input \in ComboInput
             /\ record[x].state = "live" =>
                  /\ row.combo = Merge(req[r].input, record[x].combo)
                  /\ record[x].combo \in Combination
             /\ record[x].state # "live" => row = record[x]
             /\ \A y \in Records : record'[y] = IF y = x THEN row ELSE record[y]
    BY <1>3, WriteRecordEffect
  <2>2. req[r].input.ref[k] # i
    BY <1>3 DEF WriteRecord, Retired, OnRecords
  <2>3. ASSUME record[x].state = "live", row.combo.ref[k] = i
        PROVE  record[x].combo.ref[k] = i
    BY <2>1, <2>2, <2>3, MergeTypes
  <2> QED BY <2>1, <2>3 DEF Referrers, LiveRecords
<1>4. ASSUME RemoveRecord PROVE Referrers(k, i)' \subseteq Referrers(k, i)
  <2>1. PICK x \in Records, row \in RecordRow :
             /\ row.state = "deleted"
             /\ \A y \in Records : record'[y] = IF y = x THEN row ELSE record[y]
    BY <1>4, RemoveRecordEffect
  <2> QED BY <2>1 DEF Referrers, LiveRecords
<1>5. ASSUME NEW r \in Requests,
             \/ \E j \in Kinds, c \in Codes, min, max \in Salaries \cup {None} :
                   StartCreate(r, j, c, min, max)
             \/ \E j \in Kinds, d \in Ids, c \in Codes \cup {Absent}, min, max \in SalaryInput :
                   StartUpdate(r, j, d, c, min, max)
             \/ \E j \in Kinds : Insert(r, j) \/ Update(r, j)
             \/ CheckCode(r) \/ CreateRecord(r) \/ UpdateRecord(r) \/ CheckReferences(r)
             \/ CheckDuplicate(r) \/ RequestFails(r)
      PROVE  UNCHANGED record
  BY <1>5 DEF StartCreate, StartUpdate, Insert, Update, CheckCode, CreateRecord,
              UpdateRecord, CheckReferences, CheckDuplicate, RequestFails
<1>6. (\E j \in Kinds, d \in Ids : Remove(j, d)) \/ UNCHANGED vars => UNCHANGED record
  BY DEF Remove, vars
<1> QED BY <1>1, <1>2, <1>3, <1>4, <1>5, <1>6, NextForms DEF RecordStep

\* Deletion holds against whatever is in execution: no request changes a deleted row,
\* and a master whose deletion every request on records has seen gains no record.
THEOREM DeletionHolds == Spec => RetirementHolds
<1>1. SalaryIInv /\ [Next]_vars => [DeletedStep]_vars /\ [RetiredStep]_vars
  BY DeletedRowsStay, RetiredStays, RetiredGainsNone DEF DeletedStep, RetiredStep
<1>2. Spec => [][DeletedStep]_vars
  BY SalaryInvariant, <1>1, PTL DEF Spec
<1>3. Spec => [][RetiredStep]_vars
  BY SalaryInvariant, <1>1, PTL DEF Spec
<1> QED BY <1>2, <1>3 DEF RetirementHolds, DeletedIsFinal, RetiredGainsNoRecords,
                          DeletedStep, RetiredStep

-----------------------------------------------------------------------------
(* How often one code can be live.                                         *)

\* The tables hold no code twice at the start.
SeededOnce ==
    \A k \in Kinds : \A i, j \in Ids :
       Seeded[k][i] = Seeded[k][j] /\ Seeded[k][i] # None => i = j

Holders(k, c) == FindByCode(k, c) \cup {req[r].target : r \in PendingUpdates(k, c)}

BoundOf(k, c) ==
    Cardinality(Holders(k, c)) + Cardinality(PendingCreates(k, c)) <= Cardinality(Requests)

LEMMA CodeBoundIs == CodeBound <=> \A k \in Kinds, c \in Codes : BoundOf(k, c)
BY DEF CodeBound, BoundOf, Holders

\* Fewer holders and fewer writers.
LEMMA FewerStill ==
    ASSUME NEW H, IsFiniteSet(H), NEW C, IsFiniteSet(C), NEW n \in Nat,
           Cardinality(H) + Cardinality(C) <= n,
           NEW H2 \in SUBSET H, NEW C2 \in SUBSET C
    PROVE  Cardinality(H2) + Cardinality(C2) <= n
<1>1. /\ IsFiniteSet(H2) /\ Cardinality(H2) <= Cardinality(H)
      /\ IsFiniteSet(C2) /\ Cardinality(C2) <= Cardinality(C)
  BY FS_Subset
<1>2. /\ Cardinality(H) \in Nat /\ Cardinality(C) \in Nat
      /\ Cardinality(H2) \in Nat /\ Cardinality(C2) \in Nat
  BY <1>1, FS_CardinalityType
<1> QED BY <1>1, <1>2

\* A writer of a new row becomes its holder.
LEMMA OneInserted ==
    ASSUME NEW H, IsFiniteSet(H), NEW C, IsFiniteSet(C), NEW n \in Nat,
           Cardinality(H) + Cardinality(C) <= n, NEW i, NEW r \in C,
           NEW H2 \in SUBSET (H \cup {i}), NEW C2 \in SUBSET (C \ {r})
    PROVE  Cardinality(H2) + Cardinality(C2) <= n
<1>1. /\ IsFiniteSet(H \cup {i}) /\ IsFiniteSet(C \ {r})
      /\ Cardinality(C \ {r}) = Cardinality(C) - 1
  BY FS_AddElement, FS_RemoveElement
<1>2. Cardinality(H \cup {i}) \in {Cardinality(H), Cardinality(H) + 1}
  BY FS_AddElement, Zenon
<1>3. Cardinality(H) \in Nat /\ Cardinality(C) \in Nat
  BY FS_CardinalityType
<1>4. Cardinality(H \cup {i}) + Cardinality(C \ {r}) <= n
  BY <1>1, <1>2, <1>3
<1> QED BY <1>1, <1>4, FewerStill

\* The targets of writers are no more than the writers.
LEMMA TargetsOfWriters ==
    ASSUME NEW R, IsFiniteSet(R), NEW U \in SUBSET R, NEW C \in SUBSET R,
           U \cap C = {}, NEW f
    PROVE  Cardinality({f[r] : r \in U}) + Cardinality(C) <= Cardinality(R)
<1> DEFINE T == {f[r] : r \in U}
           g == [r \in U |-> f[r]]
<1>1. IsFiniteSet(U) /\ IsFiniteSet(C)
  BY FS_Subset
<1>2. g \in Surjection(U, T)
  <2>1. g \in [U -> T] /\ \A t \in T : \E r \in U : g[r] = t
    OBVIOUS
  <2> HIDE DEF g, T
  <2> QED BY <2>1 DEF Surjection
<1>3. IsFiniteSet(T) /\ Cardinality(T) <= Cardinality(U)
  <2> HIDE DEF g, T
  <2> QED BY <1>1, <1>2, FS_Surjection
<1>4. Cardinality(U \cup C) = Cardinality(U) + Cardinality(C)
  <2>1. Cardinality(U \cup C) = Cardinality(U) + Cardinality(C) - Cardinality(U \cap C)
    BY <1>1, FS_Union
  <2>2. Cardinality(U \cap C) = 0
    BY FS_EmptySet
  <2>3. Cardinality(U) \in Nat /\ Cardinality(C) \in Nat
    BY <1>1, FS_CardinalityType
  <2> QED BY <2>1, <2>2, <2>3
<1>5. Cardinality(U \cup C) <= Cardinality(R)
  <2>1. U \cup C \in SUBSET R
    OBVIOUS
  <2> QED BY <2>1, FS_Subset
<1>6. /\ Cardinality(U) \in Nat /\ Cardinality(C) \in Nat /\ Cardinality(T) \in Nat
      /\ Cardinality(R) \in Nat
  <2> HIDE DEF T
  <2> QED BY <1>1, <1>3, FS_CardinalityType
<1> HIDE DEF T, g
<1>7. Cardinality(T) + Cardinality(C) <= Cardinality(R)
  BY <1>3, <1>4, <1>5, <1>6
<1> QED BY <1>7 DEF T

LEMMA HoldersFinite ==
    ASSUME SalaryIInv, NEW k \in Kinds, NEW c \in Codes
    PROVE  /\ IsFiniteSet(Holders(k, c)) /\ IsFiniteSet(PendingCreates(k, c))
           /\ Cardinality(Requests) \in Nat
<1> USE SalaryGradeAssumption
<1>1. Holders(k, c) \in SUBSET Ids
  <2>1. FindByCode(k, c) \subseteq Ids
    BY DEF FindByCode, Live
  <2>2. ASSUME NEW r \in PendingUpdates(k, c) PROVE req[r].target \in Ids
    BY DEF PendingUpdates, SalaryIInv, SalaryRequestOK, MasterRequestOK
  <2> QED BY <2>1, <2>2 DEF Holders
<1>2. PendingCreates(k, c) \in SUBSET Requests
  BY DEF PendingCreates
<1> QED BY <1>1, <1>2, FS_Subset, FS_CardinalityType

LEMMA BoundShrinks ==
    ASSUME SalaryIInv, NEW k \in Kinds, NEW c \in Codes, BoundOf(k, c),
           Holders(k, c)' \subseteq Holders(k, c),
           PendingCreates(k, c)' \subseteq PendingCreates(k, c)
    PROVE  BoundOf(k, c)'
<1>1. /\ IsFiniteSet(Holders(k, c)) /\ IsFiniteSet(PendingCreates(k, c))
      /\ Cardinality(Requests) \in Nat
  BY HoldersFinite
<1>2. Cardinality(Holders(k, c)') + Cardinality(PendingCreates(k, c)')
      <= Cardinality(Requests)
  BY <1>1, FewerStill DEF BoundOf
<1> QED BY <1>2 DEF BoundOf

\* A code that no live row has is held by its writers only.
LEMMA BoundOfUnused ==
    ASSUME NEW k \in Kinds, NEW c \in Codes, FindByCode(k, c)' = {}
    PROVE  BoundOf(k, c)'
<1> USE SalaryGradeAssumption
<1> DEFINE f == [r \in Requests |-> req'[r].target]
           U == PendingUpdates(k, c)'
           C == PendingCreates(k, c)'
<1>1. U \in SUBSET Requests /\ C \in SUBSET Requests /\ U \cap C = {}
  BY DEF PendingUpdates, PendingCreates
<1>2. Holders(k, c)' = {f[r] : r \in U}
  BY <1>1 DEF Holders
<1> HIDE DEF f, U, C
<1>3. Cardinality({f[r] : r \in U}) + Cardinality(C) <= Cardinality(Requests)
  <2>1. IsFiniteSet(Requests)
    OBVIOUS
  <2> HIDE SalaryGradeAssumption
  <2> QED BY <1>1, <2>1, TargetsOfWriters, Zenon
<1> QED BY <1>2, <1>3 DEF BoundOf, C

\* Steps after which no request is about to write that was not before.
LEMMA NoNewWriters ==
    ASSUME NEW k, NEW c,
           \A q \in Requests : \/ req'[q].at # "write"
                               \/ /\ req'[q].at = req[q].at /\ req'[q].kind = req[q].kind
                                  /\ req'[q].target = req[q].target
                                  /\ req'[q].code = req[q].code
    PROVE  /\ PendingCreates(k, c)' \subseteq PendingCreates(k, c)
           /\ {req[r].target : r \in PendingUpdates(k, c)}'
              \subseteq {req[r].target : r \in PendingUpdates(k, c)}
BY DEF PendingCreates, PendingUpdates

LEMMA BoundNoWrites ==
    ASSUME SalaryIInv, CodeBound, UNCHANGED master,
           \A q \in Requests : \/ req'[q].at # "write"
                               \/ /\ req'[q].at = req[q].at /\ req'[q].kind = req[q].kind
                                  /\ req'[q].target = req[q].target
                                  /\ req'[q].code = req[q].code
    PROVE  CodeBound'
<1> SUFFICES ASSUME NEW k \in Kinds, NEW c \in Codes PROVE BoundOf(k, c)'
  BY DEF CodeBound, BoundOf, Holders
<1>1. BoundOf(k, c)
  BY CodeBoundIs
<1>2. FindByCode(k, c)' = FindByCode(k, c)
  BY DEF FindByCode, Live
<1>3. Holders(k, c)' \subseteq Holders(k, c)
      /\ PendingCreates(k, c)' \subseteq PendingCreates(k, c)
  BY <1>2, NoNewWriters DEF Holders
<1> QED BY <1>1, <1>3, BoundShrinks

\* A step of one request, which becomes new.
LEMMA BoundStarts ==
    ASSUME SalaryIInv, CodeBound, NEW r \in Requests, NEW new, UNCHANGED master,
           req' = [req EXCEPT ![r] = new],
           new.at = "write" /\ new.code \in Codes =>
              \/ FindByCode(new.kind, new.code) = {}
              \/ new.target # None /\ new.target \in FindByCode(new.kind, new.code)
    PROVE  CodeBound'
<1> SUFFICES ASSUME NEW k \in Kinds, NEW c \in Codes PROVE BoundOf(k, c)'
  BY DEF CodeBound, BoundOf, Holders
<1>1. BoundOf(k, c)
  BY CodeBoundIs
<1>2. FindByCode(k, c)' = FindByCode(k, c)
  BY DEF FindByCode, Live
<1>3. req'[r] = new /\ \A q \in Requests \ {r} : req'[q] = req[q]
  BY DEF SalaryIInv
<1>4. CASE FindByCode(k, c) = {}
  BY <1>2, <1>4, BoundOfUnused
<1>5. CASE FindByCode(k, c) # {}
  <2>1. new.at = "write" /\ new.kind = k /\ new.code = c
        => new.target # None /\ new.target \in FindByCode(k, c)
    BY <1>5
  <2>2. PendingCreates(k, c)' \subseteq PendingCreates(k, c)
    BY <1>3, <2>1 DEF PendingCreates
  <2>3. ASSUME NEW q \in PendingUpdates(k, c)' PROVE req'[q].target \in Holders(k, c)
    <3>1. CASE q = r
      BY <1>3, <2>1, <3>1 DEF PendingUpdates, Holders
    <3>2. CASE q # r
      BY <1>3, <3>2 DEF PendingUpdates, Holders
    <3> QED BY <3>1, <3>2
  <2>4. Holders(k, c)' \subseteq Holders(k, c)
    BY <1>2, <2>3 DEF Holders
  <2> QED BY <1>1, <2>2, <2>4, BoundShrinks
<1> QED BY <1>4, <1>5

LEMMA BoundStartCreate ==
    ASSUME SalaryIInv, CodeBound, NEW r \in Requests, NEW k \in Kinds, NEW c \in Codes,
           NEW min \in Salaries \cup {None}, NEW max \in Salaries \cup {None},
           StartCreate(r, k, c, min, max)
    PROVE  CodeBound'
<1> DEFINE new == [Idle EXCEPT !.at = "write", !.kind = k, !.code = c,
                               !.min = min, !.max = max]
<1>1. new.kind = k /\ new.code = c
  BY IdleTypes DEF Request
<1>2. req' = [req EXCEPT ![r] = new] /\ UNCHANGED master /\ FindByCode(k, c) = {}
  BY DEF StartCreate
<1> HIDE DEF new
<1> QED BY <1>1, <1>2, BoundStarts

LEMMA BoundStartUpdate ==
    ASSUME SalaryIInv, CodeBound, NEW r \in Requests, NEW k \in Kinds, NEW i \in Ids,
           NEW c \in Codes \cup {Absent}, NEW min \in SalaryInput, NEW max \in SalaryInput,
           StartUpdate(r, k, i, c, min, max)
    PROVE  CodeBound'
<1> USE SalaryGradeAssumption
<1> DEFINE step == IF c \in {Absent, master[k][i].code} THEN "write" ELSE "code"
           new == [Idle EXCEPT !.at = step, !.kind = k, !.target = i, !.code = c,
                               !.min = min, !.max = max]
<1>1. step = "write" /\ c \in Codes => i \in FindByCode(k, c)
  BY DEF FindByCode, StartUpdate
<1>2. req' = [req EXCEPT ![r] = new] /\ UNCHANGED master
  BY DEF StartUpdate
<1> HIDE DEF step
<1>3. new.at = step /\ new.kind = k /\ new.target = i /\ new.code = c
  BY IdleTypes DEF Request
<1> HIDE DEF new
<1> QED BY <1>1, <1>2, <1>3, BoundStarts

LEMMA BoundCheckCode ==
    ASSUME SalaryIInv, CodeBound, NEW r \in Requests, CheckCode(r)
    PROVE  CodeBound'
<1> DEFINE q == req[r]
           new == [q EXCEPT !.at = "write"]
<1>1. q \in Request /\ MasterRequestOK(q) /\ q.at = "code"
      /\ (FindByCode(q.kind, q.code) = {} \/ q.target \in FindByCode(q.kind, q.code))
  BY DEF SalaryIInv, SalaryRequestOK, CheckCode
<1>2. new.kind = q.kind /\ new.target = q.target /\ new.code = q.code
  BY <1>1 DEF Request
<1>3. q.target # None
  BY <1>1 DEF MasterRequestOK
<1>4. req' = [req EXCEPT ![r] = new] /\ UNCHANGED master
  BY DEF CheckCode, Goto, SalaryIInv
<1> HIDE DEF new
<1> QED BY <1>1, <1>2, <1>3, <1>4, BoundStarts

LEMMA BoundInsert ==
    ASSUME SalaryIInv, CodeBound, NEW r \in Requests, NEW j \in Kinds, Insert(r, j)
    PROVE  CodeBound'
<1> SUFFICES ASSUME NEW k \in Kinds, NEW c \in Codes PROVE BoundOf(k, c)'
  BY DEF CodeBound, BoundOf, Holders
<1>1. BoundOf(k, c)
  BY CodeBoundIs
<1>2. PICK i \in Ids, row \in MasterRow :
             /\ row.code = req[r].code
             /\ \A x \in Kinds \ {j} : master'[x] = master[x]
             /\ \A x \in Ids : master'[j][x] = IF x = i THEN row ELSE master[j][x]
  BY InsertEffect
<1>3. /\ req'[r] = Idle
      /\ \A q \in Requests \ {r} : req'[q].at = req[q].at /\ req'[q].kind = req[q].kind
                 /\ req'[q].target = req[q].target /\ req'[q].code = req[q].code
  BY FinishAfter DEF Insert, SalaryIInv
<1>4. /\ PendingCreates(k, c)' \subseteq PendingCreates(k, c)
      /\ {req[q].target : q \in PendingUpdates(k, c)}'
         \subseteq {req[q].target : q \in PendingUpdates(k, c)}
  BY <1>3, IdleTypes, NoNewWriters
<1>5. CASE k = j /\ c = req[r].code
  <2>1. r \in PendingCreates(k, c) /\ r \notin PendingCreates(k, c)'
    BY <1>3, <1>5, IdleTypes DEF PendingCreates, Insert
  <2>2. FindByCode(k, c)' \subseteq FindByCode(k, c) \cup {i}
    BY <1>2, <1>5 DEF FindByCode, Live
  <2>3. Holders(k, c)' \in SUBSET (Holders(k, c) \cup {i})
    BY <1>4, <2>2 DEF Holders
  <2>4. PendingCreates(k, c)' \in SUBSET (PendingCreates(k, c) \ {r})
    BY <1>4, <2>1
  <2>5. /\ IsFiniteSet(Holders(k, c)) /\ IsFiniteSet(PendingCreates(k, c))
        /\ Cardinality(Requests) \in Nat
    BY HoldersFinite
  <2>6. Cardinality(Holders(k, c)') + Cardinality(PendingCreates(k, c)')
        <= Cardinality(Requests)
    BY <1>1, <2>1, <2>3, <2>4, <2>5, OneInserted DEF BoundOf
  <2> QED BY <2>6 DEF BoundOf
<1>6. CASE ~(k = j /\ c = req[r].code)
  <2>1. FindByCode(k, c)' \subseteq FindByCode(k, c)
    BY <1>2, <1>6 DEF FindByCode, Live
  <2>2. Holders(k, c)' \subseteq Holders(k, c)
    BY <1>4, <2>1 DEF Holders
  <2> QED BY <1>1, <1>4, <2>2, BoundShrinks
<1> QED BY <1>5, <1>6

LEMMA BoundUpdate ==
    ASSUME SalaryIInv, CodeBound, NEW r \in Requests, NEW j \in Kinds, Update(r, j)
    PROVE  CodeBound'
<1> SUFFICES ASSUME NEW k \in Kinds, NEW c \in Codes PROVE BoundOf(k, c)'
  BY DEF CodeBound, BoundOf, Holders
<1>1. BoundOf(k, c)
  BY CodeBoundIs
<1>2. PICK i \in Ids, row \in MasterRow :
             /\ i = req[r].target
             /\ master[j][i].state = "live" =>
                   row.code = Given(req[r].code, master[j][i].code)
             /\ master[j][i].state # "live" => row = master[j][i]
             /\ \A x \in Kinds \ {j} : master'[x] = master[x]
             /\ \A x \in Ids : master'[j][x] = IF x = i THEN row ELSE master[j][x]
  BY UpdateEffect
<1>3. /\ req'[r] = Idle
      /\ \A q \in Requests \ {r} : req'[q].at = req[q].at /\ req'[q].kind = req[q].kind
                 /\ req'[q].target = req[q].target /\ req'[q].code = req[q].code
  BY FinishAfter DEF Update, SalaryIInv
<1>4. /\ PendingCreates(k, c)' \subseteq PendingCreates(k, c)
      /\ {req[q].target : q \in PendingUpdates(k, c)}'
         \subseteq {req[q].target : q \in PendingUpdates(k, c)}
  BY <1>3, IdleTypes, NoNewWriters
<1>5. ASSUME NEW x \in FindByCode(k, c)' PROVE x \in Holders(k, c)
  <2>1. CASE k = j /\ x = i
    <3>1. row.state = "live" /\ row.code = c /\ i \in Ids
      BY <1>2, <1>5, <2>1 DEF FindByCode, Live
    <3>2. master[j][i].state = "live" /\ Given(req[r].code, master[j][i].code) = c
      BY <1>2, <3>1
    <3>3. CASE req[r].code = c
      BY <1>2, <2>1, <3>3 DEF Holders, PendingUpdates, Update
    <3>4. CASE req[r].code # c
      BY <2>1, <3>1, <3>2, <3>4 DEF Given, Holders, FindByCode, Live
    <3> QED BY <3>3, <3>4
  <2>2. CASE ~(k = j /\ x = i)
    BY <1>2, <1>5, <2>2 DEF FindByCode, Live, Holders
  <2> QED BY <2>1, <2>2
<1>6. Holders(k, c)' \subseteq Holders(k, c)
  BY <1>4, <1>5 DEF Holders
<1> QED BY <1>1, <1>4, <1>6, BoundShrinks

LEMMA BoundRemove ==
    ASSUME SalaryIInv, CodeBound, NEW j \in Kinds, NEW i \in Ids, Remove(j, i)
    PROVE  CodeBound'
<1> SUFFICES ASSUME NEW k \in Kinds, NEW c \in Codes PROVE BoundOf(k, c)'
  BY DEF CodeBound, BoundOf, Holders
<1>1. BoundOf(k, c)
  BY CodeBoundIs
<1>2. PICK row \in MasterRow :
             /\ row.state = "deleted"
             /\ \A x \in Kinds \ {j} : master'[x] = master[x]
             /\ \A x \in Ids : master'[j][x] = IF x = i THEN row ELSE master[j][x]
  BY RemoveEffect
<1>3. FindByCode(k, c)' \subseteq FindByCode(k, c)
  BY <1>2 DEF FindByCode, Live
<1>4. \A q \in Requests : req'[q].at = req[q].at /\ req'[q].kind = req[q].kind
                 /\ req'[q].target = req[q].target /\ req'[q].code = req[q].code
  BY OvertakenAfter DEF Remove, SalaryIInv
<1>5. /\ PendingCreates(k, c)' \subseteq PendingCreates(k, c)
      /\ {req[q].target : q \in PendingUpdates(k, c)}'
         \subseteq {req[q].target : q \in PendingUpdates(k, c)}
  BY <1>4, NoNewWriters
<1>6. Holders(k, c)' \subseteq Holders(k, c)
  BY <1>3, <1>5 DEF Holders
<1> QED BY <1>1, <1>5, <1>6, BoundShrinks

LEMMA BoundOnRecords ==
    ASSUME SalaryIInv, CodeBound,
           RemoveRecord \/ \E r \in Requests : RecordStep(r) \/ RequestFails(r)
    PROVE  CodeBound'
<1>1. req \in [Requests -> Request]
  BY DEF SalaryIInv
<1>2. ASSUME NEW r \in Requests, NEW new, req' = [req EXCEPT ![r] = new],
             new.at # "write", UNCHANGED master
      PROVE  CodeBound'
  BY <1>1, <1>2, BoundNoWrites
<1>3. ASSUME NEW r \in Requests, InsertRecord(r) \/ WriteRecord(r) PROVE CodeBound'
  <2>1. UNCHANGED master /\ Finish(r, OnRecords)
    BY <1>3 DEF InsertRecord, WriteRecord
  <2>2. /\ req'[r] = Idle
        /\ \A q \in Requests \ {r} : req'[q].at = req[q].at /\ req'[q].kind = req[q].kind
                 /\ req'[q].target = req[q].target /\ req'[q].code = req[q].code
    BY <1>1, <2>1, FinishAfter
  <2> QED BY <2>1, <2>2, IdleTypes, BoundNoWrites
<1>4. ASSUME RemoveRecord PROVE CodeBound'
  <2>1. UNCHANGED master /\ req' = [q \in Requests |->
                      IF q \in OnRecords THEN [req[q] EXCEPT !.overtaken = TRUE]
                      ELSE req[q]]
    BY <1>4 DEF RemoveRecord
  <2>2. \A q \in Requests : req'[q].at = req[q].at /\ req'[q].kind = req[q].kind
                 /\ req'[q].target = req[q].target /\ req'[q].code = req[q].code
    BY <1>1, <2>1, OvertakenAfter
  <2> QED BY <2>1, <2>2, BoundNoWrites
<1>5. ASSUME NEW r \in Requests, CreateRecord(r) PROVE CodeBound'
  <2>1. PICK combo \in Combos :
           req' = [req EXCEPT ![r] = [Idle EXCEPT !.at = "refs", !.input = combo,
                                                  !.effective = combo]]
    BY <1>5 DEF CreateRecord
  <2>2. [Idle EXCEPT !.at = "refs", !.input = combo, !.effective = combo].at = "refs"
    BY IdleTypes DEF Request
  <2> QED BY <1>2, <1>5, <2>1, <2>2 DEF CreateRecord
<1>6. ASSUME NEW r \in Requests, UpdateRecord(r) PROVE CodeBound'
  <2>1. PICK x \in FoundRecords, input \in Changes :
           req' = [req EXCEPT ![r] =
              [Idle EXCEPT !.at = "refs", !.target = x, !.input = input,
                           !.effective = Tested(input, record[x].combo)]]
    BY <1>6 DEF UpdateRecord
  <2>2. [Idle EXCEPT !.at = "refs", !.target = x, !.input = input,
                     !.effective = Tested(input, record[x].combo)].at = "refs"
    BY IdleTypes DEF Request
  <2> QED BY <1>2, <1>6, <2>1, <2>2 DEF UpdateRecord
<1>7. ASSUME NEW r \in Requests, CheckReferences(r) PROVE CodeBound'
  <2>1. req' = [req EXCEPT ![r] = [req[r] EXCEPT !.at = "duplicate"]] /\ UNCHANGED master
    BY <1>1, <1>7 DEF CheckReferences, Goto
  <2>2. [req[r] EXCEPT !.at = "duplicate"].at = "duplicate"
    BY <1>1 DEF Request
  <2> QED BY <1>2, <2>1, <2>2
<1>8. ASSUME NEW r \in Requests, CheckDuplicate(r) PROVE CodeBound'
  <2>1. req' = [req EXCEPT ![r] = [req[r] EXCEPT !.at = "writeRecord",
                                                 !.effective = NoCombination]]
        /\ UNCHANGED master
    BY <1>1, <1>8 DEF CheckDuplicate
  <2>2. [req[r] EXCEPT !.at = "writeRecord", !.effective = NoCombination].at = "writeRecord"
    BY <1>1 DEF Request
  <2> QED BY <1>2, <2>1, <2>2
<1>9. ASSUME NEW r \in Requests, RequestFails(r) PROVE CodeBound'
  BY <1>2, <1>9, IdleTypes DEF RequestFails
<1> QED BY <1>3, <1>4, <1>5, <1>6, <1>7, <1>8, <1>9 DEF RecordStep

LEMMA CodeBoundKept == SalaryIInv /\ CodeBound /\ [Next]_vars => CodeBound'
<1> SUFFICES ASSUME SalaryIInv, CodeBound, [Next]_vars PROVE CodeBound'
  OBVIOUS
<1>1. ASSUME UNCHANGED vars PROVE CodeBound'
  BY <1>1, BoundNoWrites DEF vars
<1> QED BY <1>1, NextForms, BoundStartCreate, BoundStartUpdate, BoundCheckCode, BoundInsert,
           BoundUpdate, BoundRemove, BoundOnRecords

LEMMA CodeBoundAtFirst ==
    ASSUME SeededOnce, Requests # {}, Init PROVE CodeBound
<1> USE SalaryGradeAssumption
<1> SUFFICES ASSUME NEW k \in Kinds, NEW c \in Codes PROVE BoundOf(k, c)
  BY CodeBoundIs
<1>1. PendingUpdates(k, c) = {} /\ PendingCreates(k, c) = {}
  BY IdleTypes DEF PendingUpdates, PendingCreates, Init, StartWith
<1>2. Cardinality(PendingCreates(k, c)) = 0
  BY <1>1, FS_EmptySet
<1>3. \A i \in FindByCode(k, c) : i \in Ids /\ Seeded[k][i] = c
  <2> SUFFICES ASSUME NEW i \in Ids, i \in Live(k), master[k][i].code = c
               PROVE  Seeded[k][i] = c
    BY DEF FindByCode, Live
  <2>1. master[k][i] = IF Seeded[k][i] = None THEN NoMaster
                       ELSE [NoMaster EXCEPT !.state = "live", !.code = Seeded[k][i]]
    BY DEF Init, StartWith
  <2>2. Seeded[k][i] # None
    BY <2>1 DEF Live, NoMaster
  <2> QED BY <2>1, <2>2 DEF NoMaster
<1>4. \A i, j \in FindByCode(k, c) : i = j
  BY <1>3 DEF SeededOnce
<1>5. Cardinality(Holders(k, c)) <= 1
  <2>1. Holders(k, c) = FindByCode(k, c)
    BY <1>1 DEF Holders
  <2>2. CASE FindByCode(k, c) = {}
    BY <2>1, <2>2, FS_EmptySet
  <2>3. CASE FindByCode(k, c) # {}
    <3>1. PICK i : FindByCode(k, c) = {i}
      BY <1>4, <2>3
    <3>2. Cardinality({i}) = 1
      BY FS_Singleton, Zenon
    <3> QED BY <2>1, <3>1, <3>2
  <2> QED BY <2>2, <2>3
<1>6. Cardinality(Requests) \in Nat /\ Cardinality(Requests) # 0
  BY FS_CardinalityType, FS_EmptySet
<1>7. Cardinality(Holders(k, c)) \in Nat
  BY <1>1, FS_CardinalityType, FS_Subset, SalaryInitOK, HoldersFinite
<1> QED BY <1>2, <1>5, <1>6, <1>7 DEF BoundOf

\* A code is never live more often than requests overlap, if the tables have it once
\* at the start.
THEOREM CodesBounded ==
    ASSUME SeededOnce, Requests # {}
    PROVE  Spec => []CodeBound
<1>1. Init => CodeBound
  BY CodeBoundAtFirst
<1> QED BY SalaryInvariant, <1>1, CodeBoundKept, PTL DEF Spec

-----------------------------------------------------------------------------
(* Only requests that were overtaken break what the services promise.      *)

IntegrityStep ==
    Integrity /\ (\A r \in Requests : req[r].overtaken => req'[r].at # "idle")
       => Integrity'

LEMMA InsertIntegrity ==
    ASSUME SalaryIInv, Integrity, NEW r \in Requests, NEW k \in Kinds, Insert(r, k),
           ~req[r].overtaken
    PROVE  Integrity'
<1>1. PICK i \in Ids, row \in MasterRow :
             /\ master[k][i].state = "none"
             /\ row.state = "live" /\ row.code = req[r].code
             /\ ValidSalaryRange(row.min, row.max)
             /\ \A j \in Kinds \ {k} : master'[j] = master[j]
             /\ \A j \in Ids : master'[k][j] = IF j = i THEN row ELSE master[k][j]
  BY InsertEffect
<1>2. FindByCode(k, req[r].code) = {}
  BY DEF Insert, SalaryIInv, SalaryRequestOK, MasterFresh
<1>3. UNCHANGED record
  BY DEF Insert
<1>4. ASSUME NEW h \in Kinds, NEW x \in Live(h)', NEW y \in Live(h)',
             master'[h][x].code = master'[h][y].code
      PROVE  x = y
  <2>1. CASE h # k
    BY <1>1, <1>4, <2>1 DEF Live, Integrity
  <2>2. CASE h = k /\ x # i /\ y # i
    BY <1>1, <1>4, <2>2 DEF Live, Integrity
  <2>3. CASE h = k /\ x = i /\ y # i
    BY <1>1, <1>2, <1>4, <2>3 DEF Live, FindByCode
  <2>4. CASE h = k /\ x # i /\ y = i
    BY <1>1, <1>2, <1>4, <2>4 DEF Live, FindByCode
  <2> QED BY <2>1, <2>2, <2>3, <2>4
<1>5. "grade" \in Kinds
  BY DEF Kinds
<1>6. \A x \in Live("grade")' : ValidSalaryRange(master'["grade"][x].min,
                                                 master'["grade"][x].max)
  BY <1>1, <1>5 DEF Live, Integrity
<1> QED BY <1>3, <1>4, <1>6 DEF Integrity, LiveRecords

LEMMA UpdateIntegrity ==
    ASSUME SalaryIInv, Integrity, NEW r \in Requests, NEW k \in Kinds, Update(r, k),
           ~req[r].overtaken
    PROVE  Integrity'
<1>1. PICK i \in Ids, row \in MasterRow :
             /\ i = req[r].target
             /\ master[k][i].state = "live" =>
                  /\ row.state = "live" /\ row.code = Given(req[r].code, master[k][i].code)
                  /\ row.min = Given(req[r].min, master[k][i].min)
                  /\ row.max = Given(req[r].max, master[k][i].max)
             /\ \A j \in Kinds \ {k} : master'[j] = master[j]
             /\ \A j \in Ids : master'[k][j] = IF j = i THEN row ELSE master[k][j]
  BY UpdateEffect
<1>2. /\ i \in Live(k)
      /\ ValidSalaryRange(Given(req[r].min, master[k][i].min),
                          Given(req[r].max, master[k][i].max))
      /\ req[r].code # Absent => FindByCode(k, req[r].code) = {}
                                 \/ i \in FindByCode(k, req[r].code)
  BY <1>1 DEF Update, SalaryIInv, SalaryRequestOK, MasterFresh
<1>3. /\ row.state = "live" /\ row.code = Given(req[r].code, master[k][i].code)
      /\ ValidSalaryRange(row.min, row.max)
  BY <1>1, <1>2 DEF Live
<1>4. ASSUME NEW j \in Live(k), j # i PROVE master[k][j].code # row.code
  <2>1. CASE req[r].code = Absent
    BY <1>2, <1>3, <1>4, <2>1 DEF Given, Integrity
  <2>2. CASE req[r].code # Absent
    BY <1>2, <1>3, <1>4, <2>2 DEF Given, Integrity, FindByCode
  <2> QED BY <2>1, <2>2
<1>5. ASSUME NEW h \in Kinds, NEW x \in Live(h)', NEW y \in Live(h)',
             master'[h][x].code = master'[h][y].code
      PROVE  x = y
  <2>1. CASE h # k
    BY <1>1, <1>5, <2>1 DEF Live, Integrity
  <2>2. CASE h = k /\ x # i /\ y # i
    BY <1>1, <1>5, <2>2 DEF Live, Integrity
  <2>3. CASE h = k /\ x = i /\ y # i
    BY <1>1, <1>4, <1>5, <2>3 DEF Live
  <2>4. CASE h = k /\ x # i /\ y = i
    BY <1>1, <1>4, <1>5, <2>4 DEF Live
  <2> QED BY <2>1, <2>2, <2>3, <2>4
<1>6. "grade" \in Kinds
  BY DEF Kinds
<1>7. \A x \in Live("grade")' : ValidSalaryRange(master'["grade"][x].min,
                                                 master'["grade"][x].max)
  BY <1>1, <1>3, <1>6 DEF Live, Integrity
<1>8. UNCHANGED record
  BY DEF Update
<1> QED BY <1>5, <1>7, <1>8 DEF Integrity, LiveRecords

LEMMA RemoveIntegrity ==
    ASSUME SalaryIInv, Integrity, NEW k \in Kinds, NEW i \in Ids, Remove(k, i)
    PROVE  Integrity'
<1>1. PICK row \in MasterRow :
             /\ row.state = "deleted"
             /\ \A j \in Kinds \ {k} : master'[j] = master[j]
             /\ \A j \in Ids : master'[k][j] = IF j = i THEN row ELSE master[k][j]
  BY RemoveEffect
<1>2. ASSUME NEW h \in Kinds
      PROVE  \A x \in Live(h)' : x \in Live(h) /\ master'[h][x] = master[h][x]
  BY <1>1 DEF Live
<1>3. "grade" \in Kinds /\ UNCHANGED record
  BY DEF Kinds, Remove
<1>4. \A h \in Kinds : \A x, y \in Live(h)' :
         master'[h][x].code = master'[h][y].code => x = y
  BY <1>2 DEF Integrity
<1>5. \A x \in Live("grade")' : ValidSalaryRange(master'["grade"][x].min,
                                                 master'["grade"][x].max)
  BY <1>2, <1>3 DEF Integrity
<1> QED BY <1>3, <1>4, <1>5 DEF Integrity, LiveRecords

\* The records after a write.
LEMMA RecordsIntegrity ==
    ASSUME Integrity, UNCHANGED master, NEW x \in Records, NEW row,
           \A y \in Records : record'[y] = IF y = x THEN row ELSE record[y],
           row.state = "live" => FindDuplicate(row.combo, x) = {}
    PROVE  Integrity'
<1>1. ASSUME NEW y \in LiveRecords', NEW z \in LiveRecords',
             Whole(record'[y].combo), record'[y].combo = record'[z].combo
      PROVE  y = z
  <2>1. CASE y # x /\ z # x
    BY <1>1, <2>1 DEF LiveRecords, Integrity
  <2>2. CASE y = x /\ z # x
    BY <1>1, <2>2 DEF LiveRecords, FindDuplicate
  <2>3. CASE y # x /\ z = x
    BY <1>1, <2>3 DEF LiveRecords, FindDuplicate
  <2> QED BY <2>1, <2>2, <2>3
<1> QED BY <1>1 DEF Integrity, Live

LEMMA OnlyOvertakenStep == SalaryIInv /\ [Next]_vars => [IntegrityStep]_vars
<1> USE SalaryGradeAssumption
<1> SUFFICES ASSUME SalaryIInv, [Next]_vars, Integrity,
                    \A r \in Requests : req[r].overtaken => req'[r].at # "idle"
             PROVE  Integrity'
  BY DEF IntegrityStep
<1>1. ASSUME UNCHANGED <<master, record>> PROVE Integrity'
  BY <1>1 DEF Integrity, Live, LiveRecords
<1>2. ASSUME NEW r \in Requests, NEW R, Finish(r, R) PROVE ~req[r].overtaken
  <2>1. req'[r] = Idle
    BY <1>2, FinishAfter DEF SalaryIInv
  <2> QED BY <2>1, IdleTypes
<1>3. ASSUME NEW r \in Requests, NEW k \in Kinds, Insert(r, k) \/ Update(r, k)
      PROVE  Integrity'
  <2>1. ~req[r].overtaken
    BY <1>2, <1>3 DEF Insert, Update
  <2> QED BY <1>3, <2>1, InsertIntegrity, UpdateIntegrity
<1>4. ASSUME NEW r \in Requests, InsertRecord(r) PROVE Integrity'
  <2>1. /\ ~req[r].overtaken /\ req[r].at = "writeRecord" /\ req[r].target = None
        /\ UNCHANGED master
    BY <1>2, <1>4 DEF InsertRecord
  <2>2. RecordFresh(req[r])
    BY <2>1 DEF SalaryIInv, SalaryRequestOK
  <2>3. FindDuplicate(req[r].input, None) = {}
    BY <2>1, <2>2 DEF RecordFresh, Writes
  <2>4. PICK x \in Records, row \in RecordRow :
             /\ row.combo = req[r].input
             /\ record[x].state = "none"
             /\ \A y \in Records : record'[y] = IF y = x THEN row ELSE record[y]
    BY <1>4, InsertRecordEffect
  <2>5. FindDuplicate(row.combo, x) = {}
    <3>1. None \notin LiveRecords
      BY DEF LiveRecords
    <3> QED BY <2>3, <2>4, <3>1 DEF FindDuplicate
  <2> QED BY <2>1, <2>4, <2>5, RecordsIntegrity
<1>5. ASSUME NEW r \in Requests, WriteRecord(r) PROVE Integrity'
  <2>1. /\ ~req[r].overtaken /\ req[r].at = "writeRecord" /\ req[r].target # None
        /\ UNCHANGED master
    BY <1>2, <1>5 DEF WriteRecord
  <2>2. RecordFresh(req[r])
    BY <2>1 DEF SalaryIInv, SalaryRequestOK
  <2>3. FindDuplicate(Merge(req[r].input, record[req[r].target].combo), req[r].target) = {}
    BY <2>1, <2>2 DEF RecordFresh, Writes
  <2>4. PICK x \in Records, row \in RecordRow :
             /\ x = req[r].target
             /\ record[x].state = "live" =>
                   row.combo = Merge(req[r].input, record[x].combo)
             /\ record[x].state # "live" => row = record[x]
             /\ \A y \in Records : record'[y] = IF y = x THEN row ELSE record[y]
    BY <1>5, WriteRecordEffect
  <2>5. row.state = "live" => FindDuplicate(row.combo, x) = {}
    BY <2>3, <2>4
  <2> QED BY <2>1, <2>4, <2>5, RecordsIntegrity
<1>6. ASSUME RemoveRecord PROVE Integrity'
  <2>1. PICK x \in Records, row \in RecordRow :
             /\ row.state = "deleted"
             /\ \A y \in Records : record'[y] = IF y = x THEN row ELSE record[y]
    BY <1>6, RemoveRecordEffect
  <2> QED BY <1>6, <2>1, RecordsIntegrity DEF RemoveRecord
<1>7. ASSUME NEW r \in Requests,
             \/ \E k \in Kinds, c \in Codes, min, max \in Salaries \cup {None} :
                   StartCreate(r, k, c, min, max)
             \/ \E k \in Kinds, i \in Ids, c \in Codes \cup {Absent}, min, max \in SalaryInput :
                   StartUpdate(r, k, i, c, min, max)
             \/ CheckCode(r) \/ CreateRecord(r) \/ UpdateRecord(r) \/ CheckReferences(r)
             \/ CheckDuplicate(r) \/ RequestFails(r)
      PROVE  UNCHANGED <<master, record>>
  BY <1>7 DEF StartCreate, StartUpdate, CheckCode, CreateRecord, UpdateRecord,
              CheckReferences, CheckDuplicate, RequestFails
<1>8. UNCHANGED vars => UNCHANGED <<master, record>>
  BY DEF vars
<1> QED BY <1>1, <1>3, <1>4, <1>5, <1>6, <1>7, <1>8, NextForms, RemoveIntegrity
           DEF RecordStep

NullsStep ==
    \A x \in BrokenRecords' \ BrokenRecords :
       \E r \in Requests : /\ req[r].at = "writeRecord" /\ req[r].target = x
                            /\ GivesNull(req[r].input) /\ req'[r].at = "idle"

LEMMA NullsNeedNulls == SalaryIInv /\ [Next]_vars => [NullsStep]_vars
<1> USE SalaryGradeAssumption
<1> SUFFICES ASSUME SalaryIInv, [Next]_vars PROVE NullsStep
  OBVIOUS
<1>1. ASSUME UNCHANGED record PROVE NullsStep
  BY <1>1 DEF NullsStep, BrokenRecords, LiveRecords
<1>2. ASSUME NEW r \in Requests, InsertRecord(r) PROVE NullsStep
  <2>1. PICK x \in Records, row \in RecordRow :
             /\ row.combo = req[r].input
             /\ \A y \in Records : record'[y] = IF y = x THEN row ELSE record[y]
    BY <1>2, InsertRecordEffect
  <2>2. Whole(req[r].input)
    BY <1>2 DEF InsertRecord, SalaryIInv, SalaryRequestOK, RecordRequestOK, RecordSteps
  <2> QED BY <2>1, <2>2 DEF NullsStep, BrokenRecords, LiveRecords
<1>3. ASSUME NEW r \in Requests, WriteRecord(r) PROVE NullsStep
  <2>1. PICK x \in Records, row \in RecordRow :
             /\ x = req[r].target
             /\ req[r].input \in ComboInput
             /\ record[x].state = "live" =>
                  /\ row.combo = Merge(req[r].input, record[x].combo)
                  /\ record[x].combo \in Combination
             /\ record[x].state # "live" => row = record[x]
             /\ \A y \in Records : record'[y] = IF y = x THEN row ELSE record[y]
    BY <1>3, WriteRecordEffect
  <2>2. req[r].at = "writeRecord" /\ req'[r].at = "idle"
    BY <1>3, FinishAfter, IdleTypes DEF WriteRecord, SalaryIInv
  <2>3. ASSUME NEW y \in BrokenRecords' \ BrokenRecords
        PROVE  y = x /\ GivesNull(req[r].input)
    <3>1. y = x
      BY <2>1, <2>3 DEF BrokenRecords, LiveRecords
    <3>2. record[x].state = "live"
      BY <2>1, <2>3, <3>1 DEF BrokenRecords, LiveRecords
    <3>3. Whole(record[x].combo) /\ ~Whole(Merge(req[r].input, record[x].combo))
      BY <2>1, <2>3, <3>1, <3>2 DEF BrokenRecords, LiveRecords
    <3>4. GivesNull(req[r].input)
      BY <3>3 DEF GivesNull, Whole, Joins, Merge, Given
    <3> QED BY <3>1, <3>4
  <2> QED BY <2>1, <2>2, <2>3 DEF NullsStep
<1>4. ASSUME RemoveRecord PROVE NullsStep
  <2>1. PICK x \in Records, row \in RecordRow :
             /\ row.state = "deleted"
             /\ \A y \in Records : record'[y] = IF y = x THEN row ELSE record[y]
    BY <1>4, RemoveRecordEffect
  <2> QED BY <2>1 DEF NullsStep, BrokenRecords, LiveRecords
<1>5. ASSUME NEW r \in Requests,
             \/ \E j \in Kinds, c \in Codes, min, max \in Salaries \cup {None} :
                   StartCreate(r, j, c, min, max)
             \/ \E j \in Kinds, d \in Ids, c \in Codes \cup {Absent}, min, max \in SalaryInput :
                   StartUpdate(r, j, d, c, min, max)
             \/ \E j \in Kinds : Insert(r, j) \/ Update(r, j)
             \/ CheckCode(r) \/ CreateRecord(r) \/ UpdateRecord(r) \/ CheckReferences(r)
             \/ CheckDuplicate(r) \/ RequestFails(r)
      PROVE  UNCHANGED record
  BY <1>5 DEF StartCreate, StartUpdate, Insert, Update, CheckCode, CreateRecord,
              UpdateRecord, CheckReferences, CheckDuplicate, RequestFails
<1>6. (\E j \in Kinds, d \in Ids : Remove(j, d)) \/ UNCHANGED vars => UNCHANGED record
  BY DEF Remove, vars
<1> QED BY <1>1, <1>2, <1>3, <1>4, <1>5, <1>6, NextForms DEF RecordStep

\* What the services promise is lost in two ways only: codes, combinations and salary
\* ranges by a request that another one overtook, and the masters or the office setup of
\* a live record by a body with a null, which is tested as the old value.
THEOREM LossesOnlyExplained == Spec => LossesExplained
<1>1. Spec => [][IntegrityStep]_vars
  BY SalaryInvariant, OnlyOvertakenStep, PTL DEF Spec
<1>2. Spec => [][NullsStep]_vars
  BY SalaryInvariant, NullsNeedNulls, PTL DEF Spec
<1> QED BY <1>1, <1>2 DEF LossesExplained, OnlyOvertakenBreak, IntegrityStep,
                          NullsExplained, NullsStep

-----------------------------------------------------------------------------
(* Fiscal years and budget categories.                                     *)

\* What a request carries, and what it read if nobody overtook it.
JobOK(q) ==
    /\ q \in Job
    /\ q.at # "idle" => q.table \in Tables
    /\ q.at = "insert" => q.code \in RowCodes /\ q.flag \in {"live", "deleted"}
    /\ q.at \in {"reactivate", "lookup", "write"} => q.target \in Stored(q.table)
    /\ q.at \in {"reactivate", "lookup"} => q.code \in RowCodes
    /\ ~q.overtaken =>
          /\ q.at = "insert" => WithCode(q.table, q.code) = {}
          /\ q.at = "reactivate" => q.target \in WithCode(q.table, q.code)
          /\ q.at = "write" /\ q.code \notin Falsy => Free(q.table, q.code, q.target)

OrgIInv ==
    /\ table \in [Tables -> [Rows -> TableRow]]
    /\ job \in [Clients -> Job]
    /\ \A j \in Clients : JobOK(job[j])

LEMMA NoJobTypes ==
    /\ NoJob \in Job /\ NoJob.at = "idle" /\ ~NoJob.overtaken /\ NoJob.table = Null
BY DEF NoJob, Job, JobSteps, Flags

LEMMA NoJobOK == JobOK(NoJob)
BY NoJobTypes DEF JobOK

LEMMA OrgInitOK == OrgInit => OrgIInv
<1> SUFFICES ASSUME OrgInit PROVE OrgIInv
  OBVIOUS
<1> DEFINE none == [state |-> "none", code |-> Null]
<1>1. none \in TableRow /\ none.state = "none"
  BY DEF TableRow, RowStates
<1>2. table = [t \in Tables |-> [x \in Rows |-> none]]
  BY DEF OrgInit
<1> HIDE DEF none
<1>3. table \in [Tables -> [Rows -> TableRow]]
  BY <1>1, <1>2
<1> QED BY <1>3, NoJobTypes, NoJobOK DEF OrgInit, OrgIInv

\* A step of one request that writes no table.
LEMMA JobKeeps ==
    ASSUME OrgIInv, NEW j \in Clients, NEW new, JobOK(new),
           job' = [job EXCEPT ![j] = new], UNCHANGED table
    PROVE  OrgIInv'
<1>1. table' \in [Tables -> [Rows -> TableRow]]
  BY DEF OrgIInv
<1>2. new \in Job /\ job' \in [Clients -> Job]
  BY DEF OrgIInv, JobOK
<1>3. ASSUME NEW k \in Clients PROVE JobOK(job[k])'
  <2>1. JobOK(job'[k])
    BY DEF OrgIInv
  <2> QED BY <2>1 DEF JobOK, WithCode, Stored, Free
<1> QED BY <1>1, <1>2, <1>3 DEF OrgIInv

LEMMA BeginInsertKeeps ==
    ASSUME OrgIInv, NEW j \in Clients, NEW t \in Tables, NEW c \in RowCodes,
           NEW flag \in {"live", "deleted"}, BeginInsert(j, t, c, flag)
    PROVE  OrgIInv'
<1> DEFINE new == [at |-> "insert", table |-> t, target |-> Null, code |-> c,
                   flag |-> flag, overtaken |-> FALSE]
<1>1. JobOK(new)
  BY DEF JobOK, Job, JobSteps, Flags, BeginInsert
<1>2. job' = [job EXCEPT ![j] = new] /\ UNCHANGED table
  BY DEF BeginInsert, Begin
<1> HIDE DEF new
<1> QED BY <1>1, <1>2, JobKeeps

LEMMA BeginReactivateKeeps ==
    ASSUME OrgIInv, NEW j \in Clients, NEW t \in Tables, NEW c \in RowCodes,
           BeginReactivate(j, t, c)
    PROVE  OrgIInv'
<1>1. PICK x \in WithCode(t, c) : Begin(j, t, "reactivate", x, c, "live")
  BY DEF BeginReactivate
<1> DEFINE new == [at |-> "reactivate", table |-> t, target |-> x, code |-> c,
                   flag |-> "live", overtaken |-> FALSE]
<1>2. x \in Rows /\ x \in Stored(t)
  BY DEF WithCode, Stored
<1>3. JobOK(new)
  BY <1>2 DEF JobOK, Job, JobSteps, Flags
<1>4. job' = [job EXCEPT ![j] = new] /\ UNCHANGED table
  BY <1>1 DEF Begin
<1> HIDE DEF new
<1> QED BY <1>3, <1>4, JobKeeps

LEMMA BeginUpdateKeeps ==
    ASSUME OrgIInv, NEW j \in Clients, NEW t \in Tables, BeginUpdate(j, t)
    PROVE  OrgIInv'
<1> USE OrgMastersAssumption
<1>1. PICK x \in Stored(t), c \in RowCodes \cup {Null, NotGiven}, flag \in Flags :
         Begin(j, t, IF c \in Falsy \cup {table[t][x].code} THEN "write" ELSE "lookup",
               x, c, flag)
  BY DEF BeginUpdate
<1> DEFINE step == IF c \in Falsy \cup {table[t][x].code} THEN "write" ELSE "lookup"
           new == [at |-> step, table |-> t, target |-> x, code |-> c,
                   flag |-> flag, overtaken |-> FALSE]
<1>2. /\ step \in JobSteps /\ step \in {"write", "lookup"}
      /\ step = "lookup" => c \in RowCodes
      /\ step = "write" /\ c \notin Falsy => x \in WithCode(t, c)
  BY DEF JobSteps, WithCode, Falsy
<1>3. job' = [job EXCEPT ![j] = new] /\ UNCHANGED table
  BY <1>1 DEF Begin
<1> HIDE DEF step
<1>4. x \in Rows
  BY DEF Stored
<1>5. new \in Job
  BY <1>2, <1>4 DEF Job
<1>6. JobOK(new)
  BY <1>2, <1>5 DEF JobOK, Free
<1> HIDE DEF new
<1> QED BY <1>3, <1>6, JobKeeps

LEMMA LookupKeeps ==
    ASSUME OrgIInv, NEW j \in Clients, Lookup(j) PROVE OrgIInv'
<1> DEFINE q == job[j]
           new == [q EXCEPT !.at = "write"]
<1>1. q \in Job /\ JobOK(q) /\ q.at = "lookup" /\ Free(q.table, q.code, q.target)
  BY DEF OrgIInv, Lookup
<1>2. /\ new \in Job /\ new.at = "write" /\ new.table = q.table /\ new.target = q.target
      /\ new.code = q.code /\ new.overtaken = q.overtaken
  BY <1>1 DEF Job, JobSteps
<1>3. job' = [job EXCEPT ![j] = new] /\ UNCHANGED table
  BY DEF Lookup, OrgIInv
<1> HIDE DEF new
<1>4. JobOK(new)
  BY <1>1, <1>2 DEF JobOK
<1> QED BY <1>3, <1>4, JobKeeps

LEMMA JobFailsKeeps ==
    ASSUME OrgIInv, NEW j \in Clients, JobFails(j) PROVE OrgIInv'
BY NoJobOK, JobKeeps DEF JobFails

RowWritten(t, x, row) == table' = [table EXCEPT ![t][x] = row]

\* A write of one row of t, after which every other request on t
\* is overtaken.
LEMMA TableWriteKeeps ==
    ASSUME OrgIInv, NEW t \in Tables, NEW x \in Rows, NEW row \in TableRow,
           row.state # "none",
           RowWritten(t, x, row),
           job' \in [Clients -> Job],
           \A k \in Clients :
              \/ job'[k] = NoJob
              \/ job[k].table # t /\ job'[k] = job[k]
              \/ job'[k] = [job[k] EXCEPT !.overtaken = TRUE]
    PROVE  OrgIInv'
<1> USE OrgMastersAssumption
<1>1. /\ table' \in [Tables -> [Rows -> TableRow]]
      /\ \A s \in Tables \ {t} : table'[s] = table[s]
      /\ \A y \in Rows : table'[t][y] = IF y = x THEN row ELSE table[t][y]
  BY DEF OrgIInv, RowWritten
<1>2. \A s \in Tables : Stored(s) \subseteq Stored(s)'
  BY <1>1 DEF Stored
<1>3. ASSUME NEW k \in Clients PROVE JobOK(job[k])'
  <2>0. PICK old, new : old = job[k] /\ new = job'[k]
    OBVIOUS
  <2>1. /\ old \in Job /\ JobOK(old)
        /\ \/ new = NoJob
           \/ old.table # t /\ new = old
           \/ new = [old EXCEPT !.overtaken = TRUE]
    BY <2>0 DEF OrgIInv
  <2>2. CASE new = NoJob
    BY <2>0, <2>2, NoJobTypes DEF JobOK
  <2>3. CASE old.table # t /\ new = old
    <3>1. CASE old.at = "idle"
      BY <2>0, <2>1, <2>3, <3>1 DEF JobOK
    <3>2. CASE old.at # "idle"
      <4>1. old.table \in Tables \ {t}
        BY <2>1, <2>3, <3>2 DEF JobOK
      <4>2. table'[old.table] = table[old.table]
        BY <1>1, <4>1
      <4> QED BY <2>0, <2>1, <2>3, <4>2 DEF JobOK, WithCode, Stored, Free
    <3> QED BY <3>1, <3>2
  <2>4. CASE new = [old EXCEPT !.overtaken = TRUE]
    <3>1. /\ new \in Job /\ new.overtaken /\ new.at = old.at /\ new.table = old.table
          /\ new.target = old.target /\ new.code = old.code /\ new.flag = old.flag
      BY <2>1, <2>4 DEF Job
    <3>2. old.at # "idle" => Stored(old.table) \subseteq Stored(old.table)'
      BY <1>2, <2>1 DEF JobOK
    <3>3. /\ new.at # "idle" => new.table \in Tables
          /\ new.at = "insert" => new.code \in RowCodes /\ new.flag \in {"live", "deleted"}
          /\ new.at \in {"reactivate", "lookup"} => new.code \in RowCodes
      BY <2>1, <3>1 DEF JobOK
    <3>4. new.at \in {"reactivate", "lookup", "write"} => new.target \in Stored(new.table)'
      BY <2>1, <3>1, <3>2 DEF JobOK
    <3> QED BY <2>0, <3>1, <3>3, <3>4 DEF JobOK
  <2> QED BY <2>1, <2>2, <2>3, <2>4
<1> QED BY <1>1, <1>3 DEF OrgIInv

\* The requests after a write of t.
LEMMA DoneAfter ==
    ASSUME job \in [Clients -> Job], NEW j \in Clients, NEW t, Done(j, t)
    PROVE  /\ job' \in [Clients -> Job] /\ job'[j] = NoJob
           /\ \A k \in Clients :
                \/ job'[k] = NoJob
                \/ job[k].table # t /\ job'[k] = job[k]
                \/ job'[k] = [job[k] EXCEPT !.overtaken = TRUE]
<1>1. \A k \in Clients :
         job'[k] = IF k = j THEN NoJob
                   ELSE IF job[k].table = t THEN [job[k] EXCEPT !.overtaken = TRUE]
                   ELSE job[k]
  BY DEF Done
<1>2. ASSUME NEW k \in Clients PROVE job'[k] \in Job
  <2>1. job[k] \in Job
    OBVIOUS
  <2>2. [job[k] EXCEPT !.overtaken = TRUE] \in Job
    BY <2>1 DEF Job
  <2> QED BY <1>1, <2>1, <2>2, NoJobTypes
<1>3. job' = [k \in Clients |-> job'[k]]
  BY DEF Done
<1> QED BY <1>1, <1>2, <1>3

LEMMA InsertRowEffect ==
    ASSUME OrgIInv, NEW j \in Clients, NEW t \in Tables, InsertRow(j, t)
    PROVE  \E x \in Rows \ Stored(t), row \in TableRow :
             /\ row.state # "none" /\ row.code = job[j].code
             /\ RowWritten(t, x, row)
<1>1. PICK x \in Rows \ Stored(t) :
         table' = [table EXCEPT ![t][x] = [state |-> job[j].flag, code |-> job[j].code]]
  BY DEF InsertRow
<1> DEFINE row == [state |-> job[j].flag, code |-> job[j].code]
<1>2. job[j].code \in RowCodes /\ job[j].flag \in {"live", "deleted"}
  BY DEF InsertRow, OrgIInv, JobOK
<1>3. row \in TableRow /\ row.state # "none" /\ row.code = job[j].code
  BY <1>2 DEF TableRow, RowStates
<1> HIDE DEF row
<1>4. RowWritten(t, x, row)
  BY <1>1 DEF row, RowWritten
<1> QED BY <1>2, <1>3, <1>4

LEMMA WriteRowEffect ==
    ASSUME OrgIInv, NEW j \in Clients, NEW t \in Tables, WriteRow(j, t)
    PROVE  \E x \in Stored(t), row \in TableRow :
             /\ x = job[j].target /\ row.state # "none"
             /\ row.code = IF job[j].code = NotGiven THEN table[t][x].code ELSE job[j].code
             /\ RowWritten(t, x, row)
<1>1. PICK x \in Stored(t) : x = job[j].target
  BY DEF WriteRow, OrgIInv, JobOK
<1> DEFINE old == table[t][x]
           row == NewValues(old, job[j])
<1>2. /\ x \in Rows /\ old \in TableRow /\ old.state # "none"
      /\ job[j].code \in RowCodes \cup {Null, NotGiven} /\ job[j].flag \in Flags
  BY DEF OrgIInv, Stored, Job
<1>3. RowWritten(t, x, row)
  BY <1>1 DEF WriteRow, RowWritten
<1> HIDE DEF old
<1>4. /\ row \in TableRow /\ row.state # "none"
      /\ row.code = IF job[j].code = NotGiven THEN old.code ELSE job[j].code
  BY <1>2 DEF NewValues, TableRow, RowStates, Flags
<1> HIDE DEF row
<1> QED BY <1>1, <1>3, <1>4 DEF old

LEMMA SoftDeleteEffect ==
    ASSUME OrgIInv, NEW t \in Tables, NEW x \in Rows, SoftDelete(t, x)
    PROVE  \E row \in TableRow :
             /\ row.state = "deleted"
             /\ row.code = table[t][x].code /\ x \in Stored(t)
             /\ RowWritten(t, x, row)
<1> DEFINE row == [table[t][x] EXCEPT !.state = "deleted"]
<1>1. table[t][x] \in TableRow /\ x \in Stored(t)
  BY DEF SoftDelete, OrgIInv, Stored
<1>2. row \in TableRow /\ row.state = "deleted" /\ row.code = table[t][x].code
  BY <1>1 DEF TableRow, RowStates
<1>3. RowWritten(t, x, row)
  BY DEF SoftDelete, RowWritten
<1> HIDE DEF row
<1> QED BY <1>1, <1>2, <1>3

LEMMA SoftDeleteKeeps ==
    ASSUME OrgIInv, NEW t \in Tables, NEW x \in Rows, SoftDelete(t, x) PROVE OrgIInv'
<1>1. PICK row \in TableRow : /\ row.state = "deleted"
                              /\ RowWritten(t, x, row)
  BY SoftDeleteEffect
<1>2. \A k \in Clients : job'[k] = IF job[k].table = t
                                   THEN [job[k] EXCEPT !.overtaken = TRUE] ELSE job[k]
  BY DEF SoftDelete
<1>3. ASSUME NEW k \in Clients
      PROVE  /\ job'[k] \in Job
             /\ \/ job[k].table # t /\ job'[k] = job[k]
                \/ job'[k] = [job[k] EXCEPT !.overtaken = TRUE]
  <2>1. job[k] \in Job
    BY DEF OrgIInv
  <2> QED BY <1>2, <2>1 DEF Job
<1>4. job' = [k \in Clients |-> job'[k]]
  BY DEF SoftDelete
<1>5. job' \in [Clients -> Job]
  BY <1>3, <1>4
<1> QED BY <1>1, <1>3, <1>5, TableWriteKeeps

LEMMA RowWritesKeep ==
    ASSUME OrgIInv, NEW j \in Clients, NEW t \in Tables, InsertRow(j, t) \/ WriteRow(j, t)
    PROVE  OrgIInv'
<1>1. PICK x \in Rows, row \in TableRow :
             /\ row.state # "none"
             /\ RowWritten(t, x, row)
  BY InsertRowEffect, WriteRowEffect DEF Stored
<1>2. /\ job' \in [Clients -> Job]
      /\ \A k \in Clients :
                \/ job'[k] = NoJob
                \/ job[k].table # t /\ job'[k] = job[k]
                \/ job'[k] = [job[k] EXCEPT !.overtaken = TRUE]
  BY DoneAfter DEF InsertRow, WriteRow, OrgIInv
<1> QED BY <1>1, <1>2, TableWriteKeeps

\* The steps the two services share, by what they do.
LEMMA OrgForms ==
    ASSUME OrgNext
    PROVE  \/ \E j \in Clients :
                \/ \E t \in Tables, c \in RowCodes :
                      \/ \E flag \in {"live", "deleted"} : BeginInsert(j, t, c, flag)
                      \/ BeginReactivate(j, t, c)
                \/ \E t \in Tables : BeginUpdate(j, t) \/ InsertRow(j, t) \/ WriteRow(j, t)
                \/ Lookup(j) \/ JobFails(j)
           \/ \E t \in Tables, x \in Rows : SoftDelete(t, x)
<1>1. "fiscalYear" \in Tables /\ "budgetCategory" \in Tables
  BY DEF Tables
<1>2. ASSUME NEW j \in Clients, CreateFiscalYear(j) \/ CreateBudgetCategory(j)
      PROVE  \E t \in Tables, c \in RowCodes :
                \/ \E flag \in {"live", "deleted"} : BeginInsert(j, t, c, flag)
                \/ BeginReactivate(j, t, c)
  BY <1>1, <1>2 DEF CreateFiscalYear, CreateBudgetCategory, NewCodes
<1>3. ASSUME NEW j \in Clients,
             \/ UpdateFiscalYear(j) \/ UpdateBudgetCategory(j) \/ InsertFiscalYear(j)
             \/ InsertBudgetCategory(j) \/ WriteFiscalYear(j) \/ WriteBudgetCategory(j)
      PROVE  \E t \in Tables : BeginUpdate(j, t) \/ InsertRow(j, t) \/ WriteRow(j, t)
  BY <1>1, <1>3 DEF UpdateFiscalYear, UpdateBudgetCategory, InsertFiscalYear,
                    InsertBudgetCategory, WriteFiscalYear, WriteBudgetCategory
<1>4. ASSUME DeleteFiscalYear \/ DeleteBudgetCategory
      PROVE  \E t \in Tables, x \in Rows : SoftDelete(t, x)
  BY <1>1, <1>4 DEF DeleteFiscalYear, DeleteBudgetCategory
<1> QED BY <1>2, <1>3, <1>4 DEF OrgNext

LEMMA OrgStepKeeps == OrgIInv /\ [OrgNext]_orgVars => OrgIInv'
<1> SUFFICES ASSUME OrgIInv, [OrgNext]_orgVars PROVE OrgIInv'
  OBVIOUS
<1>1. ASSUME UNCHANGED orgVars PROVE OrgIInv'
  BY <1>1 DEF orgVars, OrgIInv, Stored, JobOK, WithCode, Free
<1> QED BY <1>1, OrgForms, BeginInsertKeeps, BeginReactivateKeeps, BeginUpdateKeeps,
           LookupKeeps, JobFailsKeeps, RowWritesKeep, SoftDeleteKeeps

LEMMA OrgInvariant == OrgSpec => []OrgIInv
BY OrgInitOK, OrgStepKeeps, PTL DEF OrgSpec

\* Type correctness of fiscal years and budget categories.
THEOREM OrgMastersTypeCorrect == OrgSpec => []OrgTypeOK
<1>1. OrgIInv => OrgTypeOK
  BY OrgMastersAssumption DEF OrgIInv, OrgTypeOK
<1> QED BY OrgInvariant, <1>1, PTL

-----------------------------------------------------------------------------
LEMMA AtMostOne ==
    ASSUME NEW S, IsFiniteSet(S)
    PROVE  Cardinality(S) <= 1 <=> \A x, y \in S : x = y
<1>1. Cardinality(S) \in Nat
  BY FS_CardinalityType
<1>2. ASSUME Cardinality(S) <= 1, NEW x \in S, NEW y \in S, x # y PROVE FALSE
  <2>1. {x, y} \in SUBSET S
    OBVIOUS
  <2>2. Cardinality({x, y}) <= Cardinality(S)
    BY <2>1, FS_Subset
  <2>3. Cardinality({x}) = 1 /\ IsFiniteSet({x})
    BY FS_Singleton, Zenon
  <2>4. Cardinality({x} \cup {y}) = Cardinality({x}) + 1
    <3>1. y \notin {x}
      BY <1>2
    <3> QED BY <2>3, <3>1, FS_AddElement, Zenon
  <2>5. {x} \cup {y} = {x, y}
    OBVIOUS
  <2> QED BY <1>1, <1>2, <2>2, <2>3, <2>4, <2>5
<1>3. ASSUME \A x, y \in S : x = y PROVE Cardinality(S) <= 1
  <2>1. CASE S = {}
    BY <2>1, FS_EmptySet
  <2>2. CASE S # {}
    <3>1. PICK x : S = {x}
      BY <1>3, <2>2
    <3>2. Cardinality({x}) = 1
      BY FS_Singleton, Zenon
    <3> QED BY <3>1, <3>2
  <2> QED BY <2>1, <2>2
<1> QED BY <1>2, <1>3

DuplicateStep ==
    \A t \in Tables, c \in RowCodes :
       (/\ Cardinality(LiveWithCode(t, c)) <= 1
        /\ Cardinality(WithCode(t, c)) <= 1
        /\ \A j \in Clients : job[j].overtaken \/ BlankWrite(j, c) => job'[j].at # "idle")
       => Cardinality(LiveWithCode(t, c)') <= 1

LEMMA RowsFinite ==
    ASSUME NEW t, NEW c
    PROVE  /\ IsFiniteSet(WithCode(t, c)) /\ IsFiniteSet(LiveWithCode(t, c))
           /\ IsFiniteSet(LiveWithCode(t, c)')
<1>1. /\ WithCode(t, c) \in SUBSET Rows /\ LiveWithCode(t, c) \in SUBSET Rows
      /\ LiveWithCode(t, c)' \in SUBSET Rows
  BY DEF LiveWithCode, WithCode, Stored
<1> QED BY <1>1, OrgMastersAssumption, FS_Subset

\* One row of s gets a code, or keeps it; another code than c needs no test.
LEMMA WriteDuplicates ==
    ASSUME OrgIInv, NEW s \in Tables, NEW x \in Rows, NEW row \in TableRow,
           RowWritten(s, x, row),
           NEW t \in Tables, NEW c \in RowCodes,
           \/ x \in WithCode(s, row.code)
           \/ Free(s, row.code, x)
           \/ c # row.code,
           \A y, z \in WithCode(t, c) : y = z
    PROVE  \A y, z \in LiveWithCode(t, c)' : y = z
<1>1. /\ \A u \in Tables \ {s} : table'[u] = table[u]
      /\ \A y \in Rows : table'[s][y] = IF y = x THEN row ELSE table[s][y]
  BY DEF OrgIInv, RowWritten
<1>2. CASE t # s \/ c # row.code
  <2>1. LiveWithCode(t, c)' \subseteq WithCode(t, c)
    BY <1>1, <1>2 DEF LiveWithCode, WithCode, Stored
  <2> QED BY <2>1
<1>3. CASE t = s /\ c = row.code
  <2>1. \A y \in LiveWithCode(t, c)' :
           y # x => y \in WithCode(t, c) /\ table[t][y].state = "live"
    <3> SUFFICES ASSUME NEW y \in LiveWithCode(t, c)', y # x
                 PROVE  y \in WithCode(t, c) /\ table[t][y].state = "live"
      OBVIOUS
    <3>1. y \in Rows /\ table'[t][y].state = "live" /\ table'[t][y].code = c
      BY DEF LiveWithCode, WithCode, Stored
    <3>2. table'[t][y] = table[t][y]
      BY <1>1, <1>3, <3>1
    <3> QED BY <3>1, <3>2 DEF WithCode, Stored
  <2>2. CASE x \in WithCode(t, c)
    BY <2>1, <2>2
  <2>3. CASE WithCode(t, c) = {}
    BY <2>1, <2>3
  <2>4. CASE \E y \in WithCode(t, c) : y = x \/ table[t][y].state = "deleted"
    BY <2>1, <2>4
  <2> QED BY <1>3, <2>2, <2>3, <2>4 DEF Free
<1> QED BY <1>2, <1>3

LEMMA DuplicatesExplained == OrgIInv /\ [OrgNext]_orgVars => [DuplicateStep]_orgVars
<1> USE OrgMastersAssumption
<1> SUFFICES ASSUME OrgIInv, [OrgNext]_orgVars, NEW t \in Tables, NEW c \in RowCodes,
                    Cardinality(LiveWithCode(t, c)) <= 1, Cardinality(WithCode(t, c)) <= 1,
                    \A j \in Clients :
                       job[j].overtaken \/ BlankWrite(j, c) => job'[j].at # "idle"
             PROVE  Cardinality(LiveWithCode(t, c)') <= 1
  BY DEF DuplicateStep
<1>1. \A y, z \in WithCode(t, c) : y = z
  BY RowsFinite, AtMostOne
<1> DEFINE Goal == \A y, z \in LiveWithCode(t, c)' : y = z
<1>2. ASSUME UNCHANGED table PROVE Goal
  BY <1>1, <1>2 DEF LiveWithCode, WithCode, Stored
<1>3. ASSUME NEW j \in Clients, NEW s, Done(j, s) PROVE ~job[j].overtaken /\ ~BlankWrite(j, c)
  <2>1. job'[j] = NoJob
    BY <1>3, DoneAfter DEF OrgIInv
  <2> QED BY <2>1, NoJobTypes
<1>4. ASSUME NEW j \in Clients, NEW s \in Tables, InsertRow(j, s) PROVE Goal
  <2>1. ~job[j].overtaken /\ job[j].at = "insert" /\ job[j].table = s
    BY <1>3, <1>4 DEF InsertRow
  <2>2. WithCode(s, job[j].code) = {}
    BY <2>1 DEF OrgIInv, JobOK
  <2>3. PICK x \in Rows, row \in TableRow :
             row.code = job[j].code /\ RowWritten(s, x, row)
    BY <1>4, InsertRowEffect
  <2>4. Free(s, row.code, x)
    BY <2>2, <2>3 DEF Free
  <2> QED BY <1>1, <2>3, <2>4, WriteDuplicates
<1>5. ASSUME NEW j \in Clients, NEW s \in Tables, WriteRow(j, s) PROVE Goal
  <2>1. /\ ~job[j].overtaken /\ job[j].at \in {"reactivate", "write"}
        /\ job[j].table = s /\ JobOK(job[j]) /\ ~BlankWrite(j, c)
    BY <1>3, <1>5 DEF WriteRow, OrgIInv
  <2>2. PICK x \in Stored(s), row \in TableRow :
             /\ x = job[j].target
             /\ row.code = IF job[j].code = NotGiven THEN table[s][x].code ELSE job[j].code
             /\ RowWritten(s, x, row)
    BY <1>5, WriteRowEffect
  <2>3. x \in Rows
    BY DEF Stored
  <2>4. x \in WithCode(s, row.code) \/ Free(s, row.code, x) \/ c # row.code
    <3>1. CASE job[j].code = NotGiven
      BY <2>2, <3>1 DEF WithCode
    <3>2. CASE job[j].code # NotGiven /\ job[j].at = "reactivate"
      BY <2>1, <2>2, <3>2 DEF JobOK
    <3>3. CASE job[j].code \in {Null, Blank} /\ job[j].at = "write"
      BY <2>1, <2>2, <3>3 DEF BlankWrite
    <3>4. CASE job[j].code \notin Falsy /\ job[j].at = "write"
      BY <2>1, <2>2, <3>4 DEF JobOK, Falsy
    <3> QED BY <2>1, <3>1, <3>2, <3>3, <3>4 DEF Falsy
  <2> QED BY <1>1, <2>2, <2>3, <2>4, WriteDuplicates
<1>6. ASSUME NEW s \in Tables, NEW x \in Rows, SoftDelete(s, x) PROVE Goal
  <2>1. PICK row \in TableRow : /\ row.code = table[s][x].code /\ x \in Stored(s)
                                /\ RowWritten(s, x, row)
    BY <1>6, SoftDeleteEffect
  <2>2. x \in WithCode(s, row.code)
    BY <2>1 DEF WithCode
  <2> QED BY <1>1, <2>1, <2>2, WriteDuplicates
<1>7. ASSUME NEW j \in Clients,
             \/ \E s \in Tables, d \in RowCodes :
                   \/ \E flag \in {"live", "deleted"} : BeginInsert(j, s, d, flag)
                   \/ BeginReactivate(j, s, d)
             \/ \E s \in Tables : BeginUpdate(j, s)
             \/ Lookup(j) \/ JobFails(j)
      PROVE  UNCHANGED table
  BY <1>7 DEF BeginInsert, BeginReactivate, BeginUpdate, Begin, Lookup, JobFails
<1>8. UNCHANGED orgVars => UNCHANGED table
  BY DEF orgVars
<1>9. Goal
  <2> HIDE DEF Goal
  <2> QED BY <1>2, <1>4, <1>5, <1>6, <1>7, <1>8, OrgForms
<1> QED BY <1>9, RowsFinite, AtMostOne

\* A code of fiscal years or budget categories comes to be live twice only where a
\* request overtook the writer, two stored rows had the code, or it is the empty code.
THEOREM DuplicatesOnlyExplained == OrgSpec => DuplicateExplained
<1>1. OrgSpec => [][DuplicateStep]_orgVars
  BY OrgInvariant, DuplicatesExplained, PTL DEF OrgSpec
<1> QED BY <1>1 DEF DuplicateExplained, DuplicateStep

-----------------------------------------------------------------------------
(* Both together.                                                          *)

\* Whichever of the two tables moves, the other keeps its types, whatever the scenario
\* and the row that is there at the start.
THEOREM MastersTypesCorrect == MCSpec => []TypesOK
<1>1. MCInit => SalaryIInv
  <2>1. SeedTwo \in [Kinds -> [Ids -> Codes \cup {None}]]
    BY MCMastersAssumption DEF SeedTwo, SeedOne, Kinds
  <2>2. ASSUME StartWith(SeedTwo) PROVE SalaryIInv
    BY <2>1, <2>2, StartOK
  <2> QED BY <2>2, SalaryInitOK DEF MCInit
<1>2. [MCNext]_<<vars, orgVars, scenario>> => [Next]_vars /\ [OrgNext]_orgVars
  BY DEF MCNext, SalaryStep, OrgStep
<1>3. MCInit => OrgInit
  BY DEF MCInit
<1>4. MCSpec => []SalaryIInv
  BY <1>1, <1>2, SalaryStepKeeps, PTL DEF MCSpec
<1>5. MCSpec => OrgSpec
  BY <1>2, <1>3, PTL DEF MCSpec, OrgSpec
<1>6. SalaryIInv => TypeOK
  BY SalaryGradeAssumption DEF SalaryIInv, SalaryTables, TypeOK
<1> QED BY <1>4, <1>5, <1>6, OrgMastersTypeCorrect, PTL DEF TypesOK
==============================================================================
