---------------------------- MODULE MigrationProofs ----------------------------
(***************************************************************************)
(* Migration 0004 for any rows of earlier releases and any number of       *)
(* workers: the constraint fails only over rows that requests inserted     *)
(* while it ran or over new names that clash, and the row that keeps the   *)
(* name is the one with a meeting.                                         *)
(***************************************************************************)
EXTENDS ClassMigration, FiniteSetTheorems, WellFoundedInduction, TLAPS

LEMMA RankInRange == \A s \in Statuses : StatusRank(s) \in -1..9
PROOF
<1> SUFFICES ASSUME NEW s \in Statuses PROVE StatusRank(s) \in -1..9
  OBVIOUS
<1>1. CASE s \in {"LIVE", "READY", "PROVIDER_RESPONSE_INVALID", "PROVIDER_STATE_UNKNOWN"}
  BY <1>1 DEF StatusRank
<1>2. CASE s \in {"PROVISIONING", "RESERVED", "DRAFT", "FAILED"}
  BY <1>2 DEF StatusRank
<1>3. CASE s \in {"ENDED", "CANCELLED", "RETRYABLE_FAILED", "NON_RETRYABLE_FAILED"}
  BY <1>3 DEF StatusRank
<1> QED
  BY <1>1, <1>2, <1>3 DEF Statuses

\* The sort key of the migration orders the rows totally.
LEMMA PreferredTotal ==
    ASSUME TableType, NEW i \in Rows, NEW j \in Rows, i # j
    PROVE  Preferred(i, j) \/ Preferred(j, i)
PROOF
<1>1. PICK n \in Nat : table \in [1..n -> RowType]
  BY DEF TableType
<1>2. i \in Nat /\ j \in Nat /\ table[i] \in RowType /\ table[j] \in RowType
  BY <1>1 DEF Rows
<1>3. \A s \in Statuses : StatusRank(s) \in -1..9
  BY RankInRange
<1>4. /\ StatusRank(table[i].status) \in -1..9
      /\ StatusRank(table[j].status) \in -1..9
      /\ table[i].calendar \in BOOLEAN /\ table[j].calendar \in BOOLEAN
      /\ table[i].active \in BOOLEAN /\ table[j].active \in BOOLEAN
  BY <1>2, <1>3 DEF RowType
<1>5. CASE table[i].calendar # table[j].calendar
  BY <1>4, <1>5 DEF Preferred
<1>6. CASE /\ table[i].calendar = table[j].calendar
           /\ StatusRank(table[i].status) # StatusRank(table[j].status)
  BY <1>4, <1>6 DEF Preferred
<1>7. CASE /\ table[i].calendar = table[j].calendar
           /\ StatusRank(table[i].status) = StatusRank(table[j].status)
           /\ table[i].active # table[j].active
  BY <1>4, <1>7 DEF Preferred
<1>8. CASE /\ table[i].calendar = table[j].calendar
           /\ StatusRank(table[i].status) = StatusRank(table[j].status)
           /\ table[i].active = table[j].active
  <2>1. i < j \/ j < i
    BY <1>2
  <2> QED
    BY <2>1, <1>8 DEF Preferred
<1> QED
  BY <1>5, <1>6, <1>7, <1>8

\* Counting rows, and comparing them, say the same.
LEMMA AtMostOneCounted ==
    ASSUME NEW S, IsFiniteSet(S)
    PROVE  AtMostOne(S) <=> Cardinality(S) <= 1
PROOF
<1>1. Cardinality(S) \in Nat
  BY FS_CardinalityType
<1>2. ASSUME AtMostOne(S) PROVE Cardinality(S) <= 1
  <2>1. CASE S = {}
    BY <2>1, FS_EmptySet
  <2>2. CASE S # {}
    <3>1. PICK x : x \in S
      BY <2>2
    <3>2. S = {x}
      BY <1>2, <3>1 DEF AtMostOne
    <3> QED
      BY <3>2, FS_Singleton
  <2> QED
    BY <2>1, <2>2
<1>3. ASSUME Cardinality(S) <= 1, NEW x \in S, NEW y \in S PROVE x = y
  <2>1. Cardinality(S \ {x}) = Cardinality(S) - 1 /\ IsFiniteSet(S \ {x})
    BY FS_RemoveElement
  <2>2. Cardinality(S \ {x}) \in Nat
    BY <2>1, FS_CardinalityType
  <2>3. Cardinality(S \ {x}) = 0
    BY <2>1, <2>2, <1>1, <1>3
  <2>4. S \ {x} = {}
    BY <2>1, <2>3, FS_EmptySet
  <2> QED
    BY <2>4
<1> QED
  BY <1>2, <1>3 DEF AtMostOne

LEMMA NamedFinite ==
    ASSUME TableType
    PROVE  \A S \in SUBSET Named : IsFiniteSet(S)
PROOF
<1>1. PICK n \in Nat : table \in [1..n -> RowType]
  BY DEF TableType
<1>2. IsFiniteSet(1..n)
  BY FS_Interval
<1>3. Named \subseteq 1..n
  BY <1>1 DEF Named, Rows
<1> QED
  BY <1>2, <1>3, FS_Subset

----------------------------------------------------------------------------
LEMMA MigrationInit == Init => MigrationInv
PROOF
<1> SUFFICES ASSUME Init PROVE MigrationInv
  OBVIOUS
<1>1. TableType
  <2>1. PICK n \in 0..(MaxRows - 1) :
           table \in [1..n -> {Row(TRUE, h.status, h.calendar, h.active) :
                                 h \in HistoricalRows}]
    BY DEF Init
  <2>2. {Row(TRUE, h.status, h.calendar, h.active) : h \in HistoricalRows} \subseteq RowType
    <3>1. ASSUME NEW h \in HistoricalRows
          PROVE  Row(TRUE, h.status, h.calendar, h.active) \in RowType
      <4>1. h.status \in Statuses /\ h.calendar \in BOOLEAN /\ h.active \in BOOLEAN
        BY RowsAssumption
      <4> QED
        BY <4>1 DEF Row, RowType
    <3> QED
      BY <3>1
  <2>3. n \in Nat
    BY RowsAssumption
  <2>4. table \in [1..n -> RowType]
    BY <2>1, <2>2
  <2> QED
    BY <2>3, <2>4 DEF TableType
<1>2. /\ mig = [at |-> "before", todo |-> {}, renamed |-> {}]
      /\ raced = FALSE
  BY DEF Init
<1>3. mig.at = "before" /\ MigType /\ mig.renamed \subseteq Rows
  BY <1>2 DEF MigType
<1> QED
  BY <1>1, <1>2, <1>3
     DEF MigrationInv, Migrating, OneLeft, FailsOnlyIfRacedOrClashing

\* A step of a worker leaves the migration alone and is noted in raced.
LEMMA WorkerStep ==
    ASSUME MigrationInv, TableType', NEW w \in Workers, Served, UNCHANGED mig,
           Rows \subseteq Rows'
    PROVE  MigrationInv'
PROOF
<1>1. Migrating' <=> Migrating
  BY DEF Migrating
<1>2. raced' \in BOOLEAN /\ (raced => raced') /\ (Migrating => raced')
  BY DEF Served, MigrationInv, Migrating
<1>3. OneLeft'
  BY <1>2 DEF OneLeft, Migrating
<1>4. NamesClash => NamesClash'
  BY DEF NamesClash
<1> QED
  BY <1>1, <1>2, <1>3, <1>4 DEF MigrationInv, MigType, FailsOnlyIfRacedOrClashing

\* Storing a status in a row, which keeps its calendar id or gets one, keeps the
\* type of the table.
LEMMA BecomesType ==
    ASSUME TableType, NEW i, NEW status \in Statuses,
           NEW calendar \in {table[i].calendar, TRUE}, Becomes(i, status, calendar)
    PROVE  TableType'
PROOF
<1>1. PICK n \in Nat : table \in [1..n -> RowType]
  BY DEF TableType
<1>2. table' = [k \in 1..n |->
                  IF k = i THEN Row(table[i].named, status, calendar, TRUE) ELSE table[k]]
  BY <1>1 DEF Becomes
<1>3. ASSUME i \in 1..n PROVE Row(table[i].named, status, calendar, TRUE) \in RowType
  <2>1. table[i].named \in BOOLEAN /\ table[i].calendar \in BOOLEAN
    BY <1>1, <1>3 DEF RowType
  <2>2. calendar \in BOOLEAN
    BY <2>1
  <2> QED
    BY <2>1, <2>2 DEF Row, RowType
<1>4. ASSUME NEW k \in 1..n PROVE table'[k] \in RowType
  BY <1>1, <1>2, <1>3
<1>5. table' \in [1..n -> RowType]
  BY <1>2, <1>4
<1> QED
  BY <1>5 DEF TableType

LEMMA MigrationNext == MigrationInv /\ [Next]_vars => MigrationInv'
PROOF
<1> SUFFICES ASSUME MigrationInv, [Next]_vars PROVE MigrationInv'
  OBVIOUS
<1> USE DEF MigrationInv
<1>1. CASE FindDuplicates
  <2>1. TableType' /\ MigType' /\ raced' \in BOOLEAN
    BY <1>1 DEF FindDuplicates, TableType, MigType
  <2>5. mig'.renamed \subseteq Rows'
    BY <1>1 DEF FindDuplicates, MigType, Rows
  <2>2. ~raced' => AllIdle'
    BY <1>1 DEF FindDuplicates, AllIdle
  <2>3. mig'.at = "list" \/ (mig'.at = "rename" /\ Cardinality(Named) <= 1)
    <3>1. IsFiniteSet(Named)
      BY NamedFinite
    <3>2. Cardinality(Named) \in Nat
      BY <3>1, FS_CardinalityType
    <3> QED
      BY <1>1, <3>2 DEF FindDuplicates, MigType
  <2>4. OneLeft'
    <3>1. CASE mig'.at = "list"
      BY <3>1 DEF OneLeft
    <3>2. CASE mig'.at = "rename" /\ Cardinality(Named) <= 1
      <4>1. AtMostOne(Named)
        BY <3>2, NamedFinite, AtMostOneCounted
      <4>2. Named' = Named
        BY <1>1 DEF FindDuplicates, Named, Rows
      <4> QED
        BY <4>1, <4>2 DEF AtMostOne, OneLeft
    <3> QED
      BY <2>3, <3>1, <3>2
  <2> QED
    BY <2>1, <2>2, <2>3, <2>4, <2>5 DEF FailsOnlyIfRacedOrClashing
<1>2. CASE ListGroup
  <2>1. TableType' /\ MigType'
    <3>1. Rows \subseteq Nat
      BY DEF TableType, Rows
    <3> QED
      BY <1>2, <3>1 DEF ListGroup, TableType, MigType, Named
  <2>2. mig'.at = "rename" /\ mig'.todo = {i \in Named : \E j \in Named : Preferred(j, i)}
    BY <1>2 DEF ListGroup, MigType
  <2>3. AtMostOne(Named \ mig'.todo)
    BY <2>2, PreferredTotal DEF AtMostOne, Named
  <2>4. Named' = Named
    BY <1>2 DEF ListGroup, Named, Rows
  <2>5. OneLeft'
    BY <2>3, <2>4 DEF AtMostOne, OneLeft
  <2>6. (Migrating' /\ ~raced') => AllIdle'
    BY <1>2 DEF ListGroup, Migrating, AllIdle
  <2>7. mig'.renamed \subseteq Rows'
    BY <1>2 DEF ListGroup, MigType, Rows
  <2> QED
    BY <1>2, <2>1, <2>2, <2>5, <2>6, <2>7 DEF ListGroup, FailsOnlyIfRacedOrClashing
<1>3. ASSUME NEW k \in Rows, RenameDuplicate(k) PROVE MigrationInv'
  <2>1. /\ TableType' /\ MigType'
        /\ mig.at = "rename" /\ mig'.at = "rename"
        /\ mig'.renamed \cup mig'.todo = mig.renamed \cup mig.todo
        /\ mig'.renamed \subseteq Rows'
    <3>1. mig.todo \subseteq Nat
      BY DEF MigType
    <3> QED
      BY <1>3, <3>1 DEF RenameDuplicate, TableType, MigType, Rows
  <2>2. Named' = Named /\ raced' = raced /\ (AllIdle => AllIdle')
    BY <1>3 DEF RenameDuplicate, Named, Rows, AllIdle
  <2> QED
    BY <2>1, <2>2 DEF OneLeft, AtMostOne, Migrating, FailsOnlyIfRacedOrClashing
<1>4. CASE EndRenames
  <2>1. /\ TableType' /\ MigType'
        /\ mig.at = "rename" /\ mig'.at = "constrain" /\ mig'.todo = {}
        /\ mig'.renamed \cup mig'.todo = mig.renamed \cup mig.todo
        /\ mig'.renamed \subseteq Rows'
    BY <1>4 DEF EndRenames, TableType, MigType, Rows
  <2>2. Named' = Named /\ raced' = raced /\ (AllIdle => AllIdle')
    BY <1>4 DEF EndRenames, Named, Rows, AllIdle
  <2> QED
    BY <2>1, <2>2 DEF OneLeft, AtMostOne, Migrating, FailsOnlyIfRacedOrClashing
<1>5. CASE AddConstraint
  <2>1. TableType'
    <3>1. PICK n \in Nat : table \in [1..n -> RowType]
      BY DEF TableType
    <3>2. table' \in [1..n -> RowType]
      BY <1>5, <3>1 DEF AddConstraint, Rows, RowType
    <3> QED
      BY <3>2 DEF TableType
  <2>2. mig'.at = "done" /\ MigType' /\ raced' = raced /\ mig'.renamed = {}
    BY <1>5 DEF AddConstraint, MigType
  <2> QED
    BY <2>1, <2>2 DEF OneLeft, Migrating, FailsOnlyIfRacedOrClashing
<1>6. CASE ConstraintViolated
  <2>1. TableType' /\ MigType' /\ mig'.at = "failed" /\ raced' = raced
        /\ mig'.renamed = {} /\ NamesClash' = NamesClash
    BY <1>6 DEF ConstraintViolated, RolledBack, TableType, MigType, NamesClash, Rows
  <2>2. mig.at = "constrain" /\ ~NamesUnique
    BY <1>6 DEF ConstraintViolated
  <2>3. CASE Cardinality(Named \ mig.renamed) <= 1
    <3>1. PICK i \in mig.renamed : \/ NewName[i] \in OtherNames
                                  \/ \E j \in mig.renamed \ {i} : NewName[i] = NewName[j]
      BY <2>2, <2>3 DEF NamesUnique
    <3>2. NamesClash
      BY <3>1 DEF NamesClash
    <3> QED
      BY <2>1, <3>2 DEF OneLeft, Migrating, FailsOnlyIfRacedOrClashing
  <2>4. CASE ~(Cardinality(Named \ mig.renamed) <= 1)
    <3>1. IsFiniteSet(Named \ mig.renamed)
      BY NamedFinite
    <3>2. ~AtMostOne(Named \ mig.renamed)
      BY <2>4, <3>1, AtMostOneCounted
    <3>3. Named \ (mig.renamed \cup mig.todo) = Named \ mig.renamed
      BY <2>2
    <3>4. raced
      BY <2>2, <3>2, <3>3 DEF OneLeft
    <3> QED
      BY <2>1, <3>4 DEF OneLeft, Migrating, FailsOnlyIfRacedOrClashing
  <2> QED
    BY <2>3, <2>4
<1>7. ASSUME NEW w \in Workers, Request(w) PROVE MigrationInv'
  <2>1. CASE Look(w)
    BY <2>1, WorkerStep DEF Look, Goto, TableType, Rows
  <2>2. CASE Insert(w)
    <3>1. TableType'
      <4>1. PICK n \in Nat : table \in [1..n -> RowType]
        BY DEF TableType
      <4>2. CASE UNCHANGED table
        BY <4>2 DEF TableType
      <4>3. ASSUME NEW i, i = Cardinality(Rows) + 1,
                   table' = [j \in Rows \cup {i} |->
                               IF j = i THEN NewDraft ELSE table[j]]
            PROVE  TableType'
        <5>1. Rows = 1..n /\ i = n + 1
          <6>1. Rows = 1..n
            BY <4>1 DEF Rows
          <6>2. Cardinality(1..n) = n
            <7>1. Cardinality(1..n) = IF 1 > n THEN 0 ELSE n - 1 + 1
              BY FS_Interval, n \in Int, 1 \in Int, Zenon
            <7> QED
              BY <7>1
          <6> QED
            BY <4>3, <6>1, <6>2
        <5>2. Rows \cup {i} = 1..(n + 1)
          BY <5>1
        <5>3. NewDraft \in RowType
          BY DEF NewDraft, Row, RowType, Statuses
        <5>4. table' \in [1..(n + 1) -> RowType]
          BY <4>1, <4>3, <5>1, <5>2, <5>3
        <5> QED
          BY <5>4 DEF TableType
      <4> QED
        BY <2>2, <4>2, <4>3 DEF Insert
    <3>2. Rows \subseteq Rows'
      BY <2>2 DEF Insert, Rows
    <3> QED
      BY <2>2, <3>1, <3>2, WorkerStep DEF Insert, Goto
  <2>3. CASE Begin(w)
    BY <2>3, WorkerStep DEF Begin, Goto, TableType, Rows
  <2>4. CASE LockRow(w)
    BY <2>4, WorkerStep DEF LockRow, Goto, TableType, Rows
  <2>5. CASE CommitClaim(w) \/ StoreResult(w)
    <3>1. PICK status \in {"PROVISIONING", "READY"},
               calendar \in {table[target[w]].calendar, TRUE} :
                 Becomes(target[w], status, calendar)
      BY <2>5 DEF CommitClaim, StoreResult
    <3>2. status \in Statuses
      BY DEF Statuses
    <3>3. TableType'
      BY <3>1, <3>2, BecomesType
    <3> QED
      BY <2>5, <3>1, <3>3, WorkerStep DEF CommitClaim, StoreResult, Goto, Becomes, Rows
  <2>6. CASE ProviderCreates(w) \/ BeginStore(w) \/ Abort(w)
    BY <2>6, WorkerStep DEF ProviderCreates, BeginStore, Abort, Goto, TableType, Rows
  <2> QED
    BY <1>7, <2>1, <2>2, <2>3, <2>4, <2>5, <2>6 DEF Request, Transaction
<1>8. ASSUME NEW w \in Workers, BreakDeadlock(w) PROVE MigrationInv'
  <2>1. TableType'
    BY <1>8 DEF BreakDeadlock, TableType
  <2>2. CASE Goto(w, "idle", NoTarget) /\ UNCHANGED mig
    BY <1>8, <2>1, <2>2, WorkerStep DEF Goto, BreakDeadlock, Rows
  <2>3. CASE RolledBack /\ UNCHANGED <<pc, target, raced>>
    <3>1. raced
      BY <1>8 DEF BreakDeadlock, Deadlocked, Migrating, AllIdle
    <3>2. MigType' /\ mig'.at = "failed" /\ raced' = raced /\ mig'.renamed = {}
      BY <2>3 DEF RolledBack, MigType
    <3> QED
      BY <2>1, <3>1, <3>2 DEF OneLeft, Migrating, FailsOnlyIfRacedOrClashing
  <2> QED
    BY <1>8, <2>2, <2>3 DEF BreakDeadlock
<1>9. CASE UNCHANGED vars
  BY <1>9 DEF vars, TableType, MigType, Migrating, AllIdle, OneLeft, AtMostOne,
              Named, Rows, NamesClash, FailsOnlyIfRacedOrClashing
<1> QED
  BY <1>1, <1>2, <1>3, <1>4, <1>5, <1>6, <1>7, <1>8, <1>9 DEF Next, Migration

\* FailsOnlyIfRacedOrClashing: whatever rows of a class earlier releases left, in
\* any status, with or without a reservation, and however many requests run, the
\* migration rolls back only if requests were served while it ran or two of the
\* new names clash: its renames leave exactly the row its sort key prefers.
THEOREM MigrationFailsForAReason == Spec => []FailsOnlyIfRacedOrClashing
PROOF
<1>1. MigrationInv => FailsOnlyIfRacedOrClashing
  BY DEF MigrationInv
<1> QED
  BY MigrationInit, MigrationNext, <1>1, PTL DEF Spec

----------------------------------------------------------------------------
(***************************************************************************)
(* Which row keeps the name.                                               *)
(***************************************************************************)

\* A set of numbers that is not empty has a smallest one.
LEMMA Smallest ==
    ASSUME NEW T \in SUBSET Nat, T # {}
    PROVE  \E x \in T : \A y \in T : x <= y
PROOF
<1>1. PICK R : R = OpToRel(<, Nat)
  OBVIOUS
<1>2. IsWellFoundedOn(R, Nat)
  BY <1>1, NatLessThanWellFounded
<1>3. PICK x \in T : \A y \in T : ~(<<y, x>> \in R)
  BY <1>2, WFMin
<1>4. ASSUME NEW y \in T PROVE x <= y
  <2>1. R = {ss \in Nat \X Nat : ss[1] < ss[2]}
    BY <1>1 DEF OpToRel
  <2>2. PICK p : p = <<y, x>>
    OBVIOUS
  <2>3. p \in Nat \X Nat /\ p[1] = y /\ p[2] = x
    BY <2>2
  <2>4. p \notin R
    BY <1>3, <2>2
  <2>5. ~(y < x)
    BY <2>1, <2>3, <2>4
  <2> QED
    BY <2>5
<1> QED
  BY <1>4

\* Of any rows of the class, the sort key puts one first.
LEMMA OneComesFirst ==
    ASSUME TableType, NEW S \in SUBSET Rows, S # {}
    PROVE  \E i \in S : \A j \in S : ~Preferred(j, i)
PROOF
<1>1. PICK n \in Nat : table \in [1..n -> RowType]
  BY DEF TableType
<1>2. \A i \in S : /\ i \in Nat /\ table[i].calendar \in BOOLEAN
                   /\ table[i].active \in BOOLEAN /\ table[i].status \in Statuses
  BY <1>1 DEF Rows, RowType
<1>3. \A s \in Statuses : StatusRank(s) \in -1..9
  BY RankInRange
<1>4. \A i \in S : StatusRank(table[i].status) \in -1..9
  BY <1>2, <1>3
<1>5. PICK T \in SUBSET S : /\ T # {}
                            /\ \A i \in T, j \in S : table[j].calendar => table[i].calendar
                            /\ \A i \in T, j \in S : table[i].calendar = table[j].calendar
                                                        => j \in T
  <2>1. CASE \E i \in S : table[i].calendar
    <3>1. PICK T : T = {i \in S : table[i].calendar}
      OBVIOUS
    <3> QED
      BY <1>2, <2>1, <3>1
  <2>2. CASE \A i \in S : ~table[i].calendar
    BY <2>2
  <2> QED
    BY <2>1, <2>2
<1>6. PICK U \in SUBSET T :
         /\ U # {}
         /\ \A i \in U, j \in T : StatusRank(table[j].status) <= StatusRank(table[i].status)
         /\ \A i \in U, j \in T :
               StatusRank(table[j].status) = StatusRank(table[i].status) => j \in U
  <2>1. PICK R : R = {9 - StatusRank(table[i].status) : i \in T}
    OBVIOUS
  <2>2. R \in SUBSET Nat /\ R # {}
    <3>1. ASSUME NEW i \in T PROVE 9 - StatusRank(table[i].status) \in Nat
      BY <1>4
    <3> QED
      BY <1>5, <2>1, <3>1
  <2>3. PICK r \in R : \A s \in R : r <= s
    BY <2>2, Smallest
  <2>4. PICK i \in T : r = 9 - StatusRank(table[i].status)
    BY <2>1, <2>3
  <2>5. PICK U : U = {k \in T : StatusRank(table[k].status) = StatusRank(table[i].status)}
    OBVIOUS
  <2>6. ASSUME NEW k \in U, NEW j \in T
        PROVE  StatusRank(table[j].status) <= StatusRank(table[k].status)
    <3>1. r <= 9 - StatusRank(table[j].status)
      BY <2>1, <2>3
    <3>2. StatusRank(table[k].status) = StatusRank(table[i].status)
      BY <2>5
    <3>3. StatusRank(table[i].status) \in -1..9 /\ StatusRank(table[j].status) \in -1..9
      BY <1>4
    <3>4. StatusRank(table[j].status) <= StatusRank(table[i].status)
      BY <2>4, <3>1, <3>3
    <3> QED
      BY <3>2, <3>4
  <2> QED
    BY <2>4, <2>5, <2>6
<1>7. PICK V \in SUBSET U : /\ V # {}
                            /\ \A i \in V, j \in U : table[j].active => table[i].active
                            /\ \A i \in V, j \in U : table[i].active = table[j].active
                                                        => j \in V
  <2>1. CASE \E i \in U : table[i].active
    <3>1. PICK V : V = {i \in U : table[i].active}
      OBVIOUS
    <3> QED
      BY <1>2, <2>1, <3>1
  <2>2. CASE \A i \in U : ~table[i].active
    BY <1>6, <2>2
  <2> QED
    BY <2>1, <2>2
<1>8. V \in SUBSET Nat
  BY <1>2
<1>9. PICK i \in V : \A j \in V : i <= j
  BY <1>7, <1>8, Smallest
<1>10. ASSUME NEW j \in S, Preferred(j, i) PROVE FALSE
  <2>1. i \in U /\ i \in T /\ i \in S
    OBVIOUS
  <2>2. table[j].calendar = table[i].calendar
    BY <1>2, <1>5, <1>10, <2>1 DEF Preferred
  <2>3. j \in T
    BY <1>5, <2>1, <2>2
  <2>4. StatusRank(table[j].status) <= StatusRank(table[i].status)
    BY <1>6, <2>1, <2>3
  <2>5. StatusRank(table[j].status) = StatusRank(table[i].status)
    BY <1>4, <1>10, <2>1, <2>2, <2>4 DEF Preferred
  <2>6. j \in U
    BY <1>6, <2>1, <2>3, <2>5
  <2>7. table[j].active = table[i].active
    BY <1>2, <1>7, <1>10, <2>1, <2>2, <2>5, <2>6 DEF Preferred
  <2>8. j \in V
    BY <1>7, <2>6, <2>7
  <2>9. j < i
    BY <1>10, <2>2, <2>5, <2>7 DEF Preferred
  <2> QED
    BY <1>8, <1>9, <2>8, <2>9
<1> QED
  BY <1>10

\* It is a row with a meeting, if there is one.
LEMMA MeetingKeepsName ==
    ASSUME TableType, NEW S \in SUBSET Rows, HasMeeting(S)
    PROVE  \E i \in S : table[i].calendar /\ \A j \in S : ~Preferred(j, i)
PROOF
<1>1. PICK k \in S : table[k].calendar
  BY DEF HasMeeting
<1>2. PICK i \in S : \A j \in S : ~Preferred(j, i)
  BY <1>1, OneComesFirst
<1>3. \A j \in S : table[j].calendar \in BOOLEAN
  BY DEF TableType, Rows, RowType
<1>4. table[i].calendar
  BY <1>1, <1>2, <1>3 DEF Preferred
<1> QED
  BY <1>2, <1>4

----------------------------------------------------------------------------
(***************************************************************************)
(* The requests                                                            *)
(***************************************************************************)

\* What the step of one request must leave for the claims to stay disjoint.
LEMMA ClaimKept ==
    ASSUME ClaimInv, NEW w \in Workers, NEW i \in Nat,
           NEW label \in OnRow \cup {"idle", "insert"}, Goto(w, label, i),
           Rows \subseteq Rows',
           \A v \in Workers \ {w} : pc[v] \in InCharge =>
              /\ table'[target[v]].status = table[target[v]].status
              /\ table'[target[v]].calendar = table[target[v]].calendar
              /\ label \in InCharge => target[v] # i,
           \A j \in Rows' : table'[j].status = "DRAFT" => ~table'[j].calendar,
           label \in OnRow => i \in Rows',
           label \in InCharge => ~table'[i].calendar,
           label = "hold" => Claimable(table'[i]),
           label \in {"call", "created", "store"} => table'[i].status = "PROVISIONING"
    PROVE  ClaimInv'
PROOF
<1>1. /\ pc' \in [Workers -> OnRow \cup {"idle", "insert"}]
      /\ target' \in [Workers -> Nat]
      /\ pc'[w] = label /\ target'[w] = i
      /\ \A v \in Workers \ {w} : pc'[v] = pc[v] /\ target'[v] = target[v]
  BY DEF ClaimInv, Goto
<1>2. {"hold", "call", "created", "store"} = InCharge
  BY DEF InCharge
<1>3. ASSUME NEW v \in Workers
      PROVE  /\ pc'[v] \in OnRow => target'[v] \in Rows'
             /\ pc'[v] \in InCharge => ~table'[target'[v]].calendar
             /\ pc'[v] = "hold" => Claimable(table'[target'[v]])
             /\ pc'[v] \in {"call", "created", "store"} =>
                   table'[target'[v]].status = "PROVISIONING"
  <2>1. CASE v = w
    BY <1>1, <2>1
  <2>2. CASE v # w
    <3>1. pc'[v] = pc[v] /\ target'[v] = target[v] /\ v \in Workers \ {w}
      BY <1>1, <2>2
    <3> QED
      BY <1>2, <3>1 DEF ClaimInv, Claimable
  <2> QED
    BY <2>1, <2>2
<1>4. ASSUME NEW v \in Workers, NEW u \in Workers, v # u,
             pc'[v] \in InCharge, pc'[u] \in InCharge
      PROVE  target'[v] # target'[u]
  <2>1. CASE v = w
    BY <1>1, <1>4, <2>1
  <2>2. CASE u = w
    BY <1>1, <1>4, <2>2
  <2>3. CASE v # w /\ u # w
    BY <1>1, <1>4, <2>3 DEF ClaimInv
  <2> QED
    BY <2>1, <2>2, <2>3
<1> QED
  BY <1>1, <1>3, <1>4 DEF ClaimInv

\* A step that changes no row, and takes charge of none.
LEMMA MovesKept ==
    ASSUME ClaimInv, UNCHANGED table, NEW w \in Workers, NEW i \in Nat,
           NEW label \in OnRow \cup {"idle", "insert"}, Goto(w, label, i),
           label \in OnRow => i \in Rows,
           label \in InCharge => pc[w] \in InCharge /\ i = target[w],
           label = "hold" => pc[w] = "hold",
           label \in {"call", "created", "store"} => pc[w] \in {"call", "created", "store"}
    PROVE  ClaimInv'
PROOF
<1>1. Rows' = Rows
  BY DEF Rows
<1>2. \A v \in Workers \ {w} :
         pc[v] \in InCharge /\ label \in InCharge => target[v] # i
  BY DEF ClaimInv
<1>3. /\ label \in InCharge => ~table[i].calendar
      /\ label = "hold" => Claimable(table[i])
      /\ label \in {"call", "created", "store"} => table[i].status = "PROVISIONING"
  BY DEF ClaimInv, InCharge
<1>4. \A j \in Rows' : table'[j].status = "DRAFT" => ~table'[j].calendar
  BY <1>1 DEF ClaimInv
<1> QED
  BY <1>1, <1>2, <1>3, <1>4, ClaimKept DEF Claimable

\* Only the request in charge of a row changes its status.
LEMMA BecomesKept ==
    ASSUME TableType, ClaimInv, NEW w \in Workers, pc[w] \in InCharge,
           NEW status \in {"PROVISIONING", "READY"}, NEW calendar \in BOOLEAN,
           NEW label \in {"call", "idle"}, NEW i \in Nat,
           Becomes(target[w], status, calendar), Goto(w, label, i),
           label = "call" => i = target[w] /\ status = "PROVISIONING" /\ ~calendar
    PROVE  /\ ClaimInv' /\ Rows' = Rows
           /\ \A j \in Rows : table'[j].named = table[j].named
           /\ \A j \in Rows \ {target[w]} : table'[j] = table[j]
           /\ table'[target[w]].calendar = calendar
PROOF
<1>1. PICK n \in Nat : table \in [1..n -> RowType]
  BY DEF TableType
<1>2. PICK r : r = Row(table[target[w]].named, status, calendar, TRUE)
  OBVIOUS
<1>3. r.named = table[target[w]].named /\ r.status = status /\ r.calendar = calendar
  BY <1>2 DEF Row
<1>4. target[w] \in Rows /\ Rows = 1..n
  BY <1>1 DEF ClaimInv, InCharge, OnRow, Rows
<1>5. table' = [table EXCEPT ![target[w]] = r]
  BY <1>2 DEF Becomes
<1>6. /\ Rows' = Rows /\ table'[target[w]] = r
      /\ \A j \in Rows \ {target[w]} : table'[j] = table[j]
  BY <1>1, <1>4, <1>5 DEF Rows
<1>7. \A j \in Rows' : table'[j].status = "DRAFT" => ~table'[j].calendar
  BY <1>3, <1>6 DEF ClaimInv
<1>8. \A v \in Workers \ {w} : pc[v] \in InCharge =>
         target[v] \in Rows \ {target[w]}
  BY DEF ClaimInv, InCharge, OnRow
<1>9. ClaimInv'
  <2>1. label \in OnRow \cup {"idle", "insert"} /\ label # "hold"
    BY DEF OnRow
  <2>2. \A v \in Workers \ {w} : pc[v] \in InCharge =>
              /\ table'[target[v]].status = table[target[v]].status
              /\ table'[target[v]].calendar = table[target[v]].calendar
              /\ label \in InCharge => target[v] # i
    BY <1>6, <1>8 DEF InCharge
  <2>3. /\ label \in OnRow => i \in Rows'
        /\ label \in InCharge => ~table'[i].calendar
        /\ label \in {"call", "created", "store"} => table'[i].status = "PROVISIONING"
    BY <1>3, <1>4, <1>6 DEF OnRow, InCharge
  <2> QED
    BY <1>6, <1>7, <2>1, <2>2, <2>3, ClaimKept
<1> QED
  BY <1>3, <1>6, <1>9

\* What the step of a request must leave; whatever it does during the migration
\* is noted in raced.
LEMMA RequestLeaves ==
    ASSUME MigrationInv, KeptInv, Served, UNCHANGED <<mig, constrained>>,
           mig.at # "done" => \A i \in Rows' : table'[i].named,
           mig.at = "done" /\ ~raced => OneClass'
    PROVE  KeptInv'
PROOF
<1>1. /\ mig.at \in {"rename", "constrain"} => raced'
      /\ mig.at = "done" /\ ~raced' => ~raced
  BY DEF MigrationInv, Served, Migrating
<1> QED
  BY <1>1 DEF KeptInv

LEMMA MovesLeave ==
    ASSUME MigrationInv, ClaimInv, KeptInv, UNCHANGED <<table, mig, constrained>>,
           NEW w \in Workers, NEW i \in Nat,
           NEW label \in OnRow \cup {"idle", "insert"}, Goto(w, label, i),
           label \in OnRow => i \in Named \/ (pc[w] \in OnRow /\ i = target[w])
    PROVE  KeptInv'
PROOF
<1>1. Rows' = Rows /\ Named' = Named
  BY DEF Rows, Named
<1>2. mig.at # "done" => \A j \in Rows' : table'[j].named
  BY <1>1 DEF KeptInv
<1>3. ASSUME mig.at = "done", ~raced PROVE OneClass'
  <2>1. OneClass
    BY <1>3 DEF KeptInv
  <2>2. \A v \in Workers : pc'[v] \in OnRow => target'[v] \in Named
    BY <2>1 DEF OneClass, ClaimInv, Goto
  <2>3. HasMeeting(Rows)' = HasMeeting(Rows) /\ HasMeeting(Named)' = HasMeeting(Named)
    BY <1>1 DEF HasMeeting
  <2> QED
    BY <1>1, <2>1, <2>2, <2>3 DEF OneClass, AtMostOne
<1>4. Served
  BY DEF Goto
<1> QED
  BY <1>2, <1>3, <1>4, RequestLeaves

LEMMA RequestKept ==
    ASSUME MigrationInv, ClaimInv, KeptInv, NEW w \in Workers, Request(w)
    PROVE  ClaimInv' /\ KeptInv'
PROOF
<1>1. PICK n \in Nat : table \in [1..n -> RowType]
  BY DEF MigrationInv, TableType
<1>2. /\ Rows = 1..n /\ Named \subseteq Rows /\ Named \subseteq Nat
      /\ target[w] \in Nat /\ NoTarget \in Nat
      /\ pc[w] \in OnRow => target[w] \in Rows
  BY <1>1 DEF Rows, Named, NoTarget, ClaimInv
<1>3. InCharge \subseteq OnRow /\ InCharge \cap {"found", "want", "idle", "insert"} = {}
  BY DEF InCharge, OnRow
<1>4. CASE Look(w) \/ Abort(w)
  <2>1. UNCHANGED <<table, mig, constrained>>
    BY <1>4 DEF Look, Abort
  <2>2. PICK label \in {"idle", "insert", "found"}, i \in Named \cup {NoTarget} :
           Goto(w, label, i) /\ (label = "found" => i \in Named)
    BY <1>4 DEF Look, Abort
  <2>3. label \in OnRow \cup {"idle", "insert"} /\ i \in Nat /\ label \notin InCharge
        /\ (label \in OnRow => i \in Named /\ i \in Rows)
    BY <1>2, <1>3, <2>2 DEF OnRow
  <2> QED
    BY <2>1, <2>2, <2>3, MovesKept, MovesLeave
<1>5. CASE Insert(w)
  <2>1. CASE \E i \in Named : Goto(w, "found", i) /\ UNCHANGED table
    <3>1. PICK i \in Named : Goto(w, "found", i) /\ UNCHANGED table
      BY <2>1
    <3>2. i \in Nat /\ i \in Rows /\ "found" \in OnRow /\ "found" \notin InCharge
      BY <1>2, <1>3 DEF OnRow
    <3> QED
      BY <1>5, <3>1, <3>2, MovesKept, MovesLeave DEF Insert
  <2>2. CASE /\ constrained => Named = {}
             /\ LET i == Cardinality(Rows) + 1
                IN  /\ table' = [j \in Rows \cup {i} |->
                                   IF j = i THEN NewDraft ELSE table[j]]
                    /\ Goto(w, "found", i)
    <3>1. PICK i : i = Cardinality(Rows) + 1
      OBVIOUS
    <3>2. i = n + 1 /\ i \in Nat /\ i \notin Rows
      <4>1. Cardinality(1..n) = n
        BY FS_Interval
      <4> QED
        BY <1>2, <3>1, <4>1
    <3>3. PICK r : r = NewDraft
      OBVIOUS
    <3>4. r.named /\ r.status = "DRAFT" /\ ~r.calendar
      BY <3>3 DEF NewDraft, Row
    <3>5. /\ table' = [j \in Rows \cup {i} |-> IF j = i THEN r ELSE table[j]]
          /\ Goto(w, "found", i)
      BY <2>2, <3>1, <3>3
    <3>6. /\ Rows' = Rows \cup {i} /\ table'[i] = r
          /\ \A j \in Rows : table'[j] = table[j]
      BY <3>2, <3>5 DEF Rows
    <3>7. \A v \in Workers \ {w} : pc[v] \in InCharge => target[v] \in Rows
      BY <1>3 DEF ClaimInv
    <3>8. ClaimInv'
      <4>1. "found" \in OnRow /\ "found" \notin InCharge
        BY <1>3 DEF OnRow
      <4>2. \A j \in Rows' : table'[j].status = "DRAFT" => ~table'[j].calendar
        BY <3>4, <3>6 DEF ClaimInv
      <4> QED
        BY <3>2, <3>5, <3>6, <3>7, <4>1, <4>2, ClaimKept
    <3>9. mig.at # "done" => \A j \in Rows' : table'[j].named
      BY <3>4, <3>6 DEF KeptInv
    <3>10. ASSUME mig.at = "done", ~raced PROVE OneClass'
      <4>1. OneClass /\ Named = {}
        BY <2>2, <3>10 DEF KeptInv
      <4>2. ~HasMeeting(Rows) /\ \A v \in Workers : pc[v] \notin OnRow
        BY <4>1 DEF OneClass, HasMeeting
      <4>3. Named' = {i}
        BY <3>4, <3>6, <4>1 DEF Named
      <4>4. ~HasMeeting(Rows)'
        BY <3>4, <3>6, <4>2 DEF HasMeeting
      <4>5. \A v \in Workers : pc'[v] \in OnRow => target'[v] = i
        BY <3>5, <4>2 DEF Goto, ClaimInv
      <4> QED
        BY <4>3, <4>4, <4>5 DEF OneClass, AtMostOne
    <3>11. KeptInv'
      BY <1>5, <3>5, <3>9, <3>10, RequestLeaves DEF Insert, Goto
    <3> QED
      BY <3>8, <3>11
  <2> QED
    BY <1>5, <2>1, <2>2 DEF Insert
<1>6. CASE Begin(w) \/ ProviderCreates(w) \/ BeginStore(w)
  <2>1. PICK label \in {"want", "created", "store"} :
           /\ Goto(w, label, target[w]) /\ pc[w] \in OnRow
           /\ label # "want" => pc[w] \in {"call", "created", "store"}
           /\ UNCHANGED <<table, mig, constrained>>
    BY <1>6 DEF Begin, ProviderCreates, BeginStore, OnRow
  <2>2. label \in OnRow /\ label # "hold" /\ (label \in InCharge => label # "want")
        /\ {"call", "created", "store"} \subseteq InCharge
    BY <1>3 DEF OnRow, InCharge
  <2> QED
    BY <1>2, <2>1, <2>2, MovesKept, MovesLeave
<1>7. CASE LockRow(w)
  <2>1. /\ pc[w] = "want" /\ pc[w] \in OnRow /\ UNCHANGED <<table, mig, constrained>>
        /\ RowFree(target[w])
    BY <1>7 DEF LockRow, OnRow
  <2>2. CASE Goto(w, "idle", NoTarget)
    BY <1>2, <1>3, <2>1, <2>2, MovesKept, MovesLeave DEF OnRow
  <2>3. CASE Claimable(table[target[w]]) /\ Goto(w, "hold", target[w])
    <3>1. "hold" \in OnRow /\ Rows' = Rows
      BY <2>1 DEF OnRow, Rows
    <3>2. \A v \in Workers \ {w} : pc[v] \in InCharge => target[v] # target[w]
      BY <2>1, <2>3 DEF ClaimInv, Claimable, InCharge, RowFree, LockedByWorker
    <3>3. \A j \in Rows' : table'[j].status = "DRAFT" => ~table'[j].calendar
      BY <2>1, <3>1 DEF ClaimInv
    <3>4. ClaimInv'
      <4>1. ~table[target[w]].calendar /\ table' = table
        BY <1>2, <2>1, <2>3 DEF ClaimInv, Claimable
      <4> QED
        BY <1>2, <2>1, <2>3, <3>1, <3>2, <3>3, <4>1, ClaimKept DEF Claimable
    <3>5. KeptInv'
      BY <1>2, <2>1, <2>3, <3>1, MovesLeave
    <3> QED
      BY <3>4, <3>5
  <2> QED
    BY <1>7, <2>2, <2>3 DEF LockRow
<1>8. CASE CommitClaim(w) \/ StoreResult(w)
  <2>1. /\ pc[w] \in InCharge /\ pc[w] \in OnRow /\ UNCHANGED <<mig, constrained>>
        /\ Served /\ TableType
    BY <1>8 DEF CommitClaim, StoreResult, InCharge, OnRow, Goto, MigrationInv
  <2>2. table[target[w]].calendar \in BOOLEAN /\ target[w] \in Rows
    BY <1>1, <1>2, <2>1 DEF RowType
  <2>3. PICK status \in {"PROVISIONING", "READY"}, calendar \in BOOLEAN,
             label \in {"call", "idle"}, i \in Nat :
           /\ Becomes(target[w], status, calendar) /\ Goto(w, label, i)
           /\ label = "call" => i = target[w] /\ status = "PROVISIONING" /\ ~calendar
           /\ calendar = table[target[w]].calendar \/ calendar
    <3>1. CASE CommitClaim(w)
      <4>1. ~table[target[w]].calendar
        BY <2>2, <3>1 DEF CommitClaim, ClaimInv, InCharge
      <4>2. Becomes(target[w], "PROVISIONING", table[target[w]].calendar)
            /\ Goto(w, "call", target[w])
        BY <3>1 DEF CommitClaim
      <4> QED
        BY <1>2, <2>2, <4>1, <4>2
    <3>2. CASE StoreResult(w)
      <4>1. Becomes(target[w], "READY", TRUE) /\ Goto(w, "idle", NoTarget)
        BY <3>2 DEF StoreResult
      <4> QED
        BY <1>2, <4>1
    <3> QED
      BY <1>8, <3>1, <3>2
  <2>4. /\ ClaimInv' /\ Rows' = Rows
        /\ \A j \in Rows : table'[j].named = table[j].named
        /\ \A j \in Rows \ {target[w]} : table'[j] = table[j]
        /\ table'[target[w]].calendar = calendar
    BY <2>1, <2>3, BecomesKept
  <2>5. Named' = Named
    BY <2>4 DEF Named
  <2>6. mig.at # "done" => \A j \in Rows' : table'[j].named
    BY <2>4 DEF KeptInv
  <2>7. ASSUME mig.at = "done", ~raced PROVE OneClass'
    <3>1. OneClass
      BY <2>7 DEF KeptInv
    <3>2. target[w] \in Named
      BY <2>1, <3>1 DEF OneClass
    <3>3. HasMeeting(Rows)' => HasMeeting(Named)'
      <4>1. CASE calendar
        BY <2>4, <2>5, <3>2, <4>1 DEF HasMeeting
      <4>2. CASE ~calendar
        <5>1. \A j \in Rows : table'[j].calendar = table[j].calendar
          BY <2>3, <2>4, <4>2
        <5> QED
          BY <1>2, <2>4, <2>5, <3>1, <5>1 DEF HasMeeting, OneClass
      <4> QED
        BY <4>1, <4>2
    <3>4. \A v \in Workers : pc'[v] \in OnRow => target'[v] \in Named
      BY <2>3, <3>1, <3>2 DEF OneClass, Goto, ClaimInv, OnRow
    <3> QED
      BY <2>5, <3>1, <3>3, <3>4 DEF OneClass, AtMostOne
  <2> QED
    BY <2>1, <2>4, <2>6, <2>7, RequestLeaves
<1> QED
  BY <1>4, <1>5, <1>6, <1>7, <1>8 DEF Request, Transaction

----------------------------------------------------------------------------
(***************************************************************************)
(* The migration                                                           *)
(***************************************************************************)

\* It changes only the names of rows.
LEMMA MigrationLeavesClaims ==
    ASSUME ClaimInv, UNCHANGED <<pc, target>>, Rows' = Rows,
           \A i \in Rows : /\ table'[i].status = table[i].status
                           /\ table'[i].calendar = table[i].calendar
    PROVE  ClaimInv'
PROOF
<1>1. \A w \in Workers : pc[w] \in InCharge => target[w] \in Rows
  BY DEF ClaimInv, OnRow, InCharge
<1> QED
  BY <1>1 DEF ClaimInv, InCharge, Claimable

\* A step of the migration before its commit.
LEMMA MigrationMoves ==
    ASSUME ClaimInv, KeptInv, UNCHANGED <<table, constrained, pc, target>>,
           mig.at # "done", mig'.at # "done",
           mig'.at \in {"failed", "list"} => mig'.todo = {} /\ mig'.renamed = {},
           mig'.at \in {"rename", "constrain"} /\ ~raced' /\ HasMeeting(Rows) =>
              HasMeeting(Named \ (mig'.renamed \cup mig'.todo)),
           mig'.at # "before"
    PROVE  ClaimInv' /\ KeptInv'
PROOF
<1>1. Rows' = Rows /\ Named' = Named
  BY DEF Rows, Named
<1>2. ClaimInv'
  BY <1>1, MigrationLeavesClaims
<1>3. KeptInv'
  BY <1>1 DEF KeptInv, HasMeeting
<1> QED
  BY <1>2, <1>3

LEMMA MigrationKept ==
    ASSUME MigrationInv, ClaimInv, KeptInv, Migration
    PROVE  ClaimInv' /\ KeptInv'
PROOF
<1>1. MigType /\ TableType
  BY DEF MigrationInv
<1>2. mig.at # "done" => Named = Rows
  BY DEF KeptInv, Named
<1>3. CASE FindDuplicates
  <2>1. /\ mig.at \in {"before", "failed"} /\ mig'.at \in {"list", "rename"}
        /\ mig'.todo = {} /\ mig'.renamed = {}
        /\ UNCHANGED <<table, constrained, pc, target>>
    BY <1>1, <1>3 DEF FindDuplicates, MigType, KeptInv
  <2>2. HasMeeting(Rows) => HasMeeting(Named \ (mig'.renamed \cup mig'.todo))
    BY <1>2, <2>1 DEF HasMeeting
  <2> QED
    BY <2>1, <2>2, MigrationMoves
<1>4. CASE ListGroup
  <2>1. /\ mig.at = "list" /\ mig'.at = "rename" /\ mig'.renamed = {}
        /\ mig'.todo = {i \in Named : \E j \in Named : Preferred(j, i)}
        /\ UNCHANGED <<table, constrained, pc, target, raced>>
    BY <1>1, <1>4 DEF ListGroup, MigType, KeptInv
  <2>2. ASSUME HasMeeting(Rows)
        PROVE  HasMeeting(Named \ (mig'.renamed \cup mig'.todo))
    <3>1. PICK i \in Named : table[i].calendar /\ \A j \in Named : ~Preferred(j, i)
      BY <1>1, <1>2, <2>1, <2>2, MeetingKeepsName
    <3> QED
      BY <2>1, <3>1 DEF HasMeeting
  <2> QED
    BY <2>1, <2>2, MigrationMoves
<1>5. CASE (\E i \in Rows : RenameDuplicate(i)) \/ EndRenames
  <2>1. /\ mig.at = "rename" /\ mig'.at \in {"rename", "constrain"}
        /\ mig'.renamed \cup mig'.todo = mig.renamed \cup mig.todo
        /\ UNCHANGED <<table, constrained, pc, target, raced>>
    <3>1. CASE EndRenames
      BY <1>1, <3>1 DEF EndRenames, MigType
    <3>2. CASE \E i \in Rows : RenameDuplicate(i)
      <4>1. PICK i \in Rows : RenameDuplicate(i)
        BY <3>2
      <4>2. /\ mig.at = "rename" /\ mig'.at = "rename" /\ i \in mig.todo
            /\ mig'.todo = mig.todo \ {i} /\ mig'.renamed = mig.renamed \cup {i}
            /\ UNCHANGED <<table, constrained, pc, target, raced>>
        BY <1>1, <4>1 DEF RenameDuplicate, MigType
      <4> QED
        BY <4>2
    <3> QED
      BY <1>5, <3>1, <3>2
  <2>2. ~raced' /\ HasMeeting(Rows) =>
           HasMeeting(Named \ (mig'.renamed \cup mig'.todo))
    BY <2>1 DEF KeptInv
  <2> QED
    BY <2>1, <2>2, MigrationMoves
<1>6. CASE AddConstraint
  <2>1. /\ mig.at = "constrain" /\ mig'.at = "done" /\ constrained'
        /\ UNCHANGED <<pc, target, raced>> /\ mig.todo = {}
    BY <1>6 DEF AddConstraint, MigrationInv
  <2>2. /\ Rows' = Rows
        /\ \A i \in Rows : /\ table'[i].status = table[i].status
                           /\ table'[i].calendar = table[i].calendar
                           /\ table'[i].named <=> table[i].named /\ i \notin mig.renamed
    <3>1. PICK n \in Nat : table \in [1..n -> RowType]
      BY <1>1 DEF TableType
    <3> QED
      BY <1>6, <3>1 DEF AddConstraint, Rows, RowType
  <2>3. ClaimInv'
    BY <2>1, <2>2, MigrationLeavesClaims
  <2>4. ASSUME ~raced PROVE OneClass'
    <3>1. Named' = Named \ (mig.renamed \cup mig.todo)
      BY <2>1, <2>2 DEF Named
    <3>2. AtMostOne(Named)'
      BY <2>1, <2>4, <3>1 DEF MigrationInv, OneLeft, AtMostOne
    <3>3. HasMeeting(Rows)' => HasMeeting(Named)'
      <4>1. HasMeeting(Rows)' => HasMeeting(Rows)
        BY <2>2 DEF HasMeeting
      <4>2. HasMeeting(Rows) => HasMeeting(Named \ (mig.renamed \cup mig.todo))
        BY <2>1, <2>4 DEF KeptInv
      <4>3. \A i \in Named' : i \in Rows
        BY <3>1 DEF Named
      <4> QED
        BY <2>2, <3>1, <4>1, <4>2, <4>3 DEF HasMeeting
    <3>4. \A w \in Workers : pc'[w] \notin OnRow
      BY <2>1, <2>4 DEF MigrationInv, Migrating, AllIdle, OnRow
    <3> QED
      BY <3>2, <3>3, <3>4 DEF OneClass
  <2> QED
    BY <2>1, <2>3, <2>4 DEF KeptInv
<1>7. CASE ConstraintViolated
  <2>1. /\ mig.at = "constrain" /\ mig'.at = "failed"
        /\ mig'.todo = {} /\ mig'.renamed = {}
        /\ UNCHANGED <<table, constrained, pc, target>>
    BY <1>7 DEF ConstraintViolated, RolledBack
  <2> QED
    BY <2>1, MigrationMoves
<1> QED
  BY <1>3, <1>4, <1>5, <1>6, <1>7 DEF Migration

LEMMA DeadlockKept ==
    ASSUME MigrationInv, ClaimInv, KeptInv, NEW w \in Workers, BreakDeadlock(w)
    PROVE  ClaimInv' /\ KeptInv'
PROOF
<1>1. mig.at = "constrain" /\ UNCHANGED <<table, constrained>>
  BY DEF BreakDeadlock, Deadlocked
<1>2. CASE RolledBack /\ UNCHANGED <<pc, target, raced>>
  <2>1. mig'.at = "failed" /\ mig'.todo = {} /\ mig'.renamed = {}
    BY <1>2 DEF RolledBack
  <2> QED
    BY <1>1, <1>2, <2>1, MigrationMoves
<1>3. CASE Goto(w, "idle", NoTarget) /\ UNCHANGED mig
  <2>1. NoTarget \in Nat /\ "idle" \notin OnRow /\ "idle" \notin InCharge
    BY DEF NoTarget, OnRow, InCharge
  <2> QED
    BY <1>1, <1>3, <2>1, MovesKept, MovesLeave
<1> QED
  BY <1>2, <1>3 DEF BreakDeadlock

LEMMA KeptInit == DraftsAreNew /\ Init => ClaimInv /\ KeptInv
PROOF
<1> SUFFICES ASSUME DraftsAreNew, Init PROVE ClaimInv /\ KeptInv
  OBVIOUS
<1>1. PICK n \in 0..(MaxRows - 1) :
         table \in [1..n -> {Row(TRUE, h.status, h.calendar, h.active) :
                                 h \in HistoricalRows}]
  BY DEF Init
<1>2. \A i \in Rows : /\ table[i].named
                      /\ table[i].status = "DRAFT" => ~table[i].calendar
  <2>1. ASSUME NEW i \in Rows
        PROVE  table[i].named /\ (table[i].status = "DRAFT" => ~table[i].calendar)
    <3>1. PICK h \in HistoricalRows : table[i] = Row(TRUE, h.status, h.calendar, h.active)
      BY <1>1 DEF Rows
    <3> QED
      BY <3>1 DEF Row, DraftsAreNew
  <2> QED
    BY <2>1
<1>3. /\ \A w \in Workers : pc[w] = "idle"
      /\ pc \in [Workers -> OnRow \cup {"idle", "insert"}]
      /\ target \in [Workers -> Nat]
  BY DEF Init, NoTarget
<1>4. ClaimInv
  BY <1>2, <1>3 DEF ClaimInv, OnRow, InCharge
<1>5. KeptInv
  BY <1>2 DEF Init, KeptInv
<1> QED
  BY <1>4, <1>5

LEMMA KeptNext == MigrationInv /\ ClaimInv /\ KeptInv /\ [Next]_vars
                     => ClaimInv' /\ KeptInv'
PROOF
<1> SUFFICES ASSUME MigrationInv, ClaimInv, KeptInv, [Next]_vars
             PROVE  ClaimInv' /\ KeptInv'
  OBVIOUS
<1>1. CASE Migration
  BY <1>1, MigrationKept
<1>2. ASSUME NEW w \in Workers, Request(w) \/ BreakDeadlock(w)
      PROVE  ClaimInv' /\ KeptInv'
  BY <1>2, RequestKept, DeadlockKept
<1>3. CASE UNCHANGED vars
  <2>1. UNCHANGED <<table, constrained, mig, pc, target, raced>>
    BY <1>3 DEF vars
  <2>2. Rows' = Rows /\ Named' = Named
    BY <2>1 DEF Rows, Named
  <2>3. ClaimInv'
    BY <2>1, <2>2, MigrationLeavesClaims
  <2>4. OneClass => OneClass'
    BY <2>1, <2>2 DEF OneClass, AtMostOne, HasMeeting
  <2> QED
    BY <2>1, <2>2, <2>3, <2>4 DEF KeptInv, HasMeeting
<1> QED
  BY <1>1, <1>2, <1>3 DEF Next

\* NoSecondMeeting: if no request was served while the migration ran, provision()
\* creates no meeting for a class that has one under any of its rows, since the
\* row it finds is the one the sort key of the migration put first.
THEOREM MigrationKeepsTheMeeting == DraftsAreNew => (Spec => NoSecondMeeting)
PROOF
<1> SUFFICES ASSUME DraftsAreNew PROVE Spec => NoSecondMeeting
  OBVIOUS
<1>1. Init => MigrationInv /\ ClaimInv /\ KeptInv
  BY MigrationInit, KeptInit
<1>2. MigrationInv /\ ClaimInv /\ KeptInv /\ [Next]_vars
         => (MigrationInv /\ ClaimInv /\ KeptInv)'
  BY MigrationNext, KeptNext
<1>3. MigrationInv /\ ClaimInv /\ KeptInv =>
         \A w \in Workers :
            (/\ mig.at = "done" /\ ~raced
             /\ pc[w] = "call" /\ pc'[w] = "created")
               => \A i \in Rows : ~table[i].calendar
  <2> SUFFICES ASSUME ClaimInv, KeptInv, NEW w \in Workers,
                      mig.at = "done", ~raced, pc[w] = "call"
               PROVE  \A i \in Rows : ~table[i].calendar
    OBVIOUS
  <2>1. OneClass
    BY DEF KeptInv
  <2>2. target[w] \in Named /\ ~table[target[w]].calendar
    BY <2>1 DEF OneClass, ClaimInv, OnRow, InCharge
  <2>3. ~HasMeeting(Named)
    BY <2>1, <2>2 DEF OneClass, AtMostOne, HasMeeting
  <2> QED
    BY <2>1, <2>3 DEF OneClass, HasMeeting
<1> QED
  BY <1>1, <1>2, <1>3, PTL DEF Spec, NoSecondMeeting
=============================================================================
