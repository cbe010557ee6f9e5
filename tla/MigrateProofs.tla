--------------------------- MODULE MigrateProofs ---------------------------
(***************************************************************************)
(* Theorems about Migrate, for any number of processes.                    *)
(*                                                                         *)
(* SchemaInOrder and ServingLatest need each other, and what a process     *)
(* still has to apply: an upper part of the versions, never more than one  *)
(* step ahead of the schema, however far other processes have brought the  *)
(* schema since the process read user_version.                             *)
(***************************************************************************)
EXTENDS Migrate, TLAPS

Levels == {0} \cup Versions

Above(n) == {v \in Versions : v > n}

\* A process inside Open has applied, or found applied, the versions up to n.
TodoOK ==
    \A p \in Processes : pc[p] \in {"opened", "migrating"} =>
        \E n \in Levels :
            /\ todo[p] = Above(n)
            /\ \E k \in Levels : SchemaIs(k) /\ n <= k

IInv == TypeOK /\ SchemaInOrder /\ ServingLatest /\ TodoOK

----------------------------------------------------------------------------

LEMMA OneLevel ==
    ASSUME NEW j \in Levels, NEW k \in Levels, SchemaIs(j), SchemaIs(k)
    PROVE  j = k
  BY DEF Levels, Versions, SchemaIs

\* A script that follows on n raises the level by one, or is v3 or v6 run on its
\* own result (v3 on that of v4 as well) and leaves the level what it was.
LEMMA ScriptLevel ==
    ASSUME NEW k \in Levels, NEW v \in Versions, SchemaIs(k), Script(v), v <= k + 1
    PROVE  \/ k + 1 = v /\ SchemaIs(v)'
           \/ v = 3 /\ k \in {3, 4} /\ SchemaIs(k)'
           \/ v = 6 /\ k = 6 /\ SchemaIs(6)'
  <1> USE DEF Levels, Versions, SchemaIs, Script
  <1>1. CASE v = 1
    BY <1>1 DEF CreateSnapshots
  <1>2. CASE v = 2
    BY <1>2 DEF CreateRuns
  <1>3. CASE v = 3
    BY <1>3 DEF RebuildSnapshots
  <1>4. CASE v = 4
    BY <1>4 DEF ReshapeRuns
  <1>5. CASE v = 5
    BY <1>5 DEF DropStatus
  <1>6. CASE v = 6
    BY <1>6 DEF CascadeRuns
  <1> QED
    BY <1>1, <1>2, <1>3, <1>4, <1>5, <1>6

\* The oldest version above n is the one that follows n.
LEMMA OldestAbove ==
    ASSUME NEW n \in Levels, NEW v \in Above(n), \A u \in Above(n) : v <= u
    PROVE  v = n + 1 /\ Above(n) \ {v} = Above(v)
  BY DEF Levels, Versions, Above

----------------------------------------------------------------------------
(* IInv is inductive.                                                      *)

LEMMA InitIInv == Init => IInv
  BY DEF Init, IInv, TypeOK, SchemaInOrder, ServingLatest, TodoOK, SchemaIs,
         PC, SnapshotsForms, RunsForms, Versions

LEMMA OpenIInv ==
    ASSUME IInv, NEW p \in Processes, Open(p)
    PROVE  IInv'
  <1> DEFINE pending == {v \in Versions : v > version}
  <1> USE DEF IInv
  <1>1. TypeOK'
    BY DEF Open, Becomes, TypeOK, PC, schema
  <1>2. SchemaInOrder'
    BY DEF Open, SchemaInOrder, SchemaIs, schema
  <1>3. PICK k \in Levels : SchemaIs(k) /\ (version = k \/ (version = 3 /\ k = 4))
    BY DEF SchemaInOrder, Levels
  <1>4. pending = {} => version = 6 /\ k = 6
    BY <1>3 DEF Versions, Levels, TypeOK
  <1>5. ServingLatest'
    BY <1>3, <1>4 DEF Open, Becomes, ServingLatest, SchemaIs, TypeOK, schema
  <1>6. TodoOK'
    <2>1. version <= k /\ pending = Above(version) /\ version \in Levels
      BY <1>3 DEF Levels, Versions, Above, TypeOK
    <2> QED
      BY <1>3, <2>1 DEF Open, Becomes, TodoOK, SchemaIs, TypeOK, schema
  <1> QED
    BY <1>1, <1>2, <1>5, <1>6

LEMMA ApplyIInv ==
    ASSUME IInv, NEW p \in Processes, ApplyMigration(p)
    PROVE  IInv'
  <1> USE DEF IInv
  <1>1. PICK v \in todo[p] :
          /\ \A u \in todo[p] : v <= u
          /\ Script(v)
          /\ version' = v
          /\ todo' = [todo EXCEPT ![p] = @ \ {v}]
    BY DEF ApplyMigration
  <1>2. PICK n \in Levels :
          /\ todo[p] = Above(n)
          /\ \E k \in Levels : SchemaIs(k) /\ n <= k
    BY DEF ApplyMigration, TodoOK
  <1>3. PICK k \in Levels : SchemaIs(k) /\ n <= k
    BY <1>2
  <1>4. v \in Versions /\ v = n + 1 /\ Above(n) \ {v} = Above(v)
    BY <1>1, <1>2, OldestAbove DEF Above
  <1>5. \/ k + 1 = v /\ SchemaIs(v)'
        \/ v = 3 /\ k \in {3, 4} /\ SchemaIs(k)'
        \/ v = 6 /\ k = 6 /\ SchemaIs(6)'
    BY <1>1, <1>3, <1>4, ScriptLevel DEF Levels, Versions
  <1>6. PICK l \in Levels : SchemaIs(l)' /\ k <= l /\ v <= l
                            /\ (v = l \/ (v = 3 /\ l = 4))
    BY <1>4, <1>5 DEF Levels, Versions
  <1>7. TypeOK'
    <2>1. snapshotsTable' \in SnapshotsForms /\ runsTable' \in RunsForms
      BY <1>6 DEF SchemaIs, Levels, Versions, SnapshotsForms, RunsForms
    <2>2. todo' \in [Processes -> SUBSET Versions]
      BY <1>1 DEF TypeOK
    <2> QED
      BY <1>1, <1>4, <2>1, <2>2 DEF ApplyMigration, TypeOK
  <1>8. SchemaInOrder'
    BY <1>1, <1>6 DEF SchemaInOrder, Levels
  <1>9. ServingLatest'
    <2> SUFFICES ASSUME NEW q \in Processes, pc'[q] = "serving"
                 PROVE  SchemaIs(6)' /\ version' = 6 /\ foreignKeys'[q]
      BY DEF ServingLatest
    <2>1. SchemaIs(6) /\ foreignKeys[q]
      BY DEF ApplyMigration, ServingLatest
    <2>2. k = 6
      BY <1>3, <2>1, OneLevel DEF Levels, Versions
    <2> QED
      BY <1>1, <1>4, <1>5, <2>1, <2>2 DEF ApplyMigration, Versions
  <1>10. TodoOK'
    <2> SUFFICES ASSUME NEW q \in Processes, pc'[q] \in {"opened", "migrating"}
                 PROVE  \E m \in Levels :
                          /\ todo'[q] = Above(m)
                          /\ \E j \in Levels : SchemaIs(j)' /\ m <= j
      BY DEF TodoOK, Above
    <2>1. CASE q = p
      BY <1>1, <1>2, <1>4, <1>6, <2>1 DEF TypeOK, Levels
    <2>2. CASE q # p
      <3>1. PICK m \in Levels :
              /\ todo[q] = Above(m)
              /\ \E j \in Levels : SchemaIs(j) /\ m <= j
        BY DEF ApplyMigration, TodoOK
      <3>2. m <= k
        BY <1>3, <3>1, OneLevel
      <3> QED
        BY <1>1, <1>6, <2>2, <3>1, <3>2 DEF TypeOK, Levels, Versions
    <2> QED
      BY <2>1, <2>2
  <1> QED
    BY <1>7, <1>8, <1>9, <1>10

LEMMA VerifyIInv ==
    ASSUME IInv, NEW p \in Processes, Verify(p)
    PROVE  IInv'
  <1> USE DEF IInv
  <1>1. PICK n \in Levels :
          /\ todo[p] = Above(n)
          /\ \E k \in Levels : SchemaIs(k) /\ n <= k
    BY DEF Verify, TodoOK
  <1>2. n = 6
    BY <1>1 DEF Verify, Above, Levels, Versions
  <1>3. SchemaIs(6)
    BY <1>1, <1>2 DEF Levels, Versions
  <1>4. version = 6
    BY <1>3, OneLevel DEF SchemaInOrder, Levels, Versions
  <1>5. TypeOK'
    BY DEF Verify, Becomes, TypeOK, PC, schema
  <1>6. SchemaInOrder' /\ SchemaIs(6)'
    BY <1>3 DEF Verify, SchemaInOrder, SchemaIs, schema
  <1>7. ServingLatest'
    BY <1>4, <1>6 DEF Verify, Becomes, ServingLatest, TypeOK
  <1>8. TodoOK'
    BY DEF Verify, Becomes, TodoOK, Above, SchemaIs, TypeOK, schema
  <1> QED
    BY <1>5, <1>6, <1>7, <1>8

LEMMA LocalIInv ==
    ASSUME IInv, NEW p \in Processes,
           DisableForeignKeys(p) \/ Stop(p) \/ UNCHANGED vars
    PROVE  IInv'
  <1> USE DEF IInv
  <1>1. UNCHANGED <<schema, version>>
    BY DEF DisableForeignKeys, Stop, vars
  <1>2. TypeOK'
    BY DEF DisableForeignKeys, Stop, Becomes, TypeOK, PC, schema, vars, locals
  <1>3. SchemaInOrder'
    BY <1>1 DEF SchemaInOrder, SchemaIs, schema
  <1>4. ServingLatest'
    BY <1>1 DEF DisableForeignKeys, Stop, Becomes, ServingLatest, TypeOK, SchemaIs,
                schema, vars, locals
  <1>5. TodoOK'
    BY <1>1 DEF DisableForeignKeys, Stop, Becomes, TodoOK, TypeOK, SchemaIs, Above,
                schema, vars, locals
  <1> QED
    BY <1>2, <1>3, <1>4, <1>5

LEMMA StepIInv == IInv /\ [Next]_vars => IInv'
  <1> SUFFICES ASSUME IInv, [Next]_vars
               PROVE  IInv'
    OBVIOUS
  <1>1. CASE UNCHANGED vars
    BY <1>1, LocalIInv, ProcessesAssumption
  <1>2. ASSUME NEW p \in Processes,
               \/ Open(p) \/ DisableForeignKeys(p) \/ ApplyMigration(p)
               \/ Verify(p) \/ Stop(p)
        PROVE  IInv'
    BY <1>2, OpenIInv, ApplyIInv, VerifyIInv, LocalIInv
  <1> QED
    BY <1>1, <1>2 DEF Next

LEMMA Invariance == Spec => []IInv
  BY InitIInv, StepIInv, PTL DEF Spec

----------------------------------------------------------------------------

\* The type invariant of meta.Open's state, for any number of processes.
THEOREM MigrateTypes == Spec => []TypeOK
  <1>1. IInv => TypeOK
    BY DEF IInv
  <1> QED
    BY <1>1, Invariance, PTL

\* Whoever else opens the database, and whatever stops when, a process that
\* serves has the newest schema and enforced foreign keys, for ever.
THEOREM Serving == Spec => []ServingLatest
  <1>1. IInv => ServingLatest
    BY DEF IInv
  <1> QED
    BY <1>1, Invariance, PTL

\* user_version says which scripts have been applied, but for a v3 replayed.
THEOREM InVersionOrder == Spec => []SchemaInOrder
  <1>1. IInv => SchemaInOrder
    BY DEF IInv
  <1> QED
    BY <1>1, Invariance, PTL

----------------------------------------------------------------------------
(* One process at a time: user_version is the schema's level without       *)
(* exception, because the process's list starts right above it.            *)

OneProcess == \A p, q \in Processes : p = q

TodoExact ==
    \A p \in Processes : pc[p] \in {"opened", "migrating"} => todo[p] = Above(version)

ExactInv == IInv /\ VersionIsSchema /\ TodoExact

LEMMA StepExact ==
    ASSUME OneProcess
    PROVE  ExactInv /\ [Next]_vars => ExactInv'
  <1> SUFFICES ASSUME ExactInv, [Next]_vars
               PROVE  VersionIsSchema' /\ TodoExact'
    BY StepIInv DEF ExactInv
  <1> USE DEF ExactInv, VersionIsSchema
  <1>1. CASE UNCHANGED vars
    BY <1>1 DEF TodoExact, SchemaIs, Above, vars, schema, locals
  <1>2. ASSUME NEW p \in Processes, Open(p)
        PROVE  VersionIsSchema' /\ TodoExact'
    BY <1>2 DEF OneProcess, Open, Becomes, TodoExact, SchemaIs, Above, schema,
                IInv, TypeOK
  <1>3. ASSUME NEW p \in Processes, ApplyMigration(p)
        PROVE  VersionIsSchema' /\ TodoExact'
    <2>1. PICK v \in todo[p] :
            /\ \A u \in todo[p] : v <= u
            /\ Script(v)
            /\ version' = v
            /\ todo' = [todo EXCEPT ![p] = @ \ {v}]
      BY <1>3 DEF ApplyMigration
    <2>2. version \in Levels /\ todo[p] = Above(version)
      BY <1>3 DEF ApplyMigration, TodoExact, IInv, TypeOK, Levels
    <2>3. v \in Versions /\ v = version + 1 /\ Above(version) \ {v} = Above(v)
      BY <2>1, <2>2, OldestAbove DEF Above
    <2>4. SchemaIs(v)'
      BY <2>1, <2>2, <2>3, ScriptLevel DEF Levels, Versions
    <2>5. TodoExact'
      BY <1>3, <2>1, <2>2, <2>3 DEF OneProcess, ApplyMigration, TodoExact, Above,
                                    IInv, TypeOK
    <2> QED
      BY <2>1, <2>4, <2>5
  <1>4. ASSUME NEW p \in Processes, DisableForeignKeys(p) \/ Verify(p) \/ Stop(p)
        PROVE  VersionIsSchema' /\ TodoExact'
    BY <1>4 DEF OneProcess, DisableForeignKeys, Verify, Stop, Becomes, TodoExact,
                SchemaIs, Above, schema, IInv, TypeOK
  <1> QED
    BY <1>1, <1>2, <1>3, <1>4 DEF Next

\* Processes that open the database one after another, each killed at any point,
\* leave a database whose user_version is exactly its schema: the next Open
\* applies each missing script once, in order, to the schema it was written for.
THEOREM AloneExact ==
    ASSUME OneProcess
    PROVE  Spec => []VersionIsSchema
  <1>1. Init => ExactInv
    BY InitIInv DEF Init, ExactInv, VersionIsSchema, TodoExact
  <1>2. ExactInv => VersionIsSchema
    BY DEF ExactInv
  <1> QED
    BY <1>1, <1>2, StepExact, PTL DEF Spec
=============================================================================
