-------------------------- MODULE MigrationProofs --------------------------
(***************************************************************************)
(* Theorems about the schema migrations, for any number of replicas, any   *)
(* builds, and any number of migrations and statements.                    *)
(***************************************************************************)
EXTENDS Migration, WellFoundedInduction, TLAPS

(* A replica stands at a version of its build, and begins it from the start. *)
PositionInv ==
    \A r \in Replicas :
        /\ version[r] \in VersionsOf(r)
        /\ pc[r] \in {"read", "mark", "exited"} => index[r] = 1

(* What a replica has left behind is in the schema.                         *)
PassedInv ==
    \A r \in Replicas : \A v \in VersionsOf(r) :
        v < version[r] \/ pc[r] = "running" => HasVersion(r, v)

(* So is the part of the current file behind the index.                     *)
LoopInv ==
    \A r \in Replicas : pc[r] = "exec" =>
        \A i \in 1..NumStatements :
            i < index[r] => Statement(version[r], File(r), i) \in executed

(* While a version is not contested, its row records the file of whoever    *)
(* applies it.                                                              *)
RecordInv ==
    \A r \in Replicas : pc[r] = "exec" /\ version[r] \notin contested =>
        checksum[version[r]] = File(r)

Inv ==
    /\ TypeOK
    /\ index \in [Replicas -> Nat \ {0}]
    /\ PositionInv
    /\ PassedInv
    /\ LoopInv
    /\ RecordInv
    /\ CleanIsApplied
    /\ VersionsInOrder

-----------------------------------------------------------------------------
(* The least of some versions.                                              *)
LEMMA LeastVersion ==
    ASSUME NEW S \in SUBSET Nat, S # {}
    PROVE  Min(S) \in S /\ \A v \in S : Min(S) <= v
<1> DEFINE R == OpToRel(<, Nat)
<1>1. IsWellFoundedOn(R, Nat)
  BY NatLessThanWellFounded
<1>2. ASSUME NEW v \in Nat, NEW w \in Nat, <<v, w>> \notin R PROVE w <= v
  <2>1. ~(v < w)
    BY <1>2 DEF OpToRel
  <2> QED
    BY <2>1
<1> HIDE DEF R
<1>3. S \subseteq Nat
  OBVIOUS
<1>4. PICK w \in S : \A v \in S : <<v, w>> \notin R
  BY <1>1, <1>3, WFMin, Zenon
<1>5. \A v \in S : w <= v
  BY <1>2, <1>3, <1>4, Zenon
<1> QED
  BY <1>5 DEF Min

LEMMA FileType ==
    ASSUME NEW r \in Replicas, NEW v \in VersionsOf(r)
    PROVE  v \in Nat /\ v \in Versions /\ Embedded[r][v] \in Files
BY EmbeddedAssumption DEF VersionsOf, Versions

(* The version a build begins with.                                         *)
LEMMA FirstVersion ==
    ASSUME NEW r \in Replicas
    PROVE  /\ Min(VersionsOf(r)) \in VersionsOf(r)
           /\ \A v \in VersionsOf(r) : ~(v < Min(VersionsOf(r)))
<1>1. VersionsOf(r) \in SUBSET Nat /\ VersionsOf(r) # {}
  BY EmbeddedAssumption DEF VersionsOf
<1>2. /\ Min(VersionsOf(r)) \in VersionsOf(r)
      /\ \A v \in VersionsOf(r) : Min(VersionsOf(r)) <= v
  BY <1>1, LeastVersion, Zenon
<1> DEFINE m == Min(VersionsOf(r))
<1> HIDE DEF m
<1>3. m \in Nat /\ \A v \in VersionsOf(r) : v \in Nat /\ m <= v
  BY <1>1, <1>2, Zenon DEF m
<1>4. \A v \in VersionsOf(r) : ~(v < m)
  BY <1>3
<1> QED
  BY <1>2, <1>4, Zenon DEF m

(* What was executed stays executed, and what was contested contested.      *)
LEMMA AppliedStable ==
    ASSUME executed \subseteq executed', NEW v, NEW f, Applied(v, f)
    PROVE  Applied(v, f)'
BY DEF Applied, Statement

LEMMA MigratedStable ==
    ASSUME executed \subseteq executed', NEW v, Migrated(v)
    PROVE  Migrated(v)'
BY AppliedStable DEF Migrated, VersionsOf

LEMMA HasStable ==
    ASSUME executed \subseteq executed', contested \subseteq contested',
           NEW r, NEW v, HasVersion(r, v)
    PROVE  HasVersion(r, v)'
BY AppliedStable, MigratedStable DEF HasVersion

-----------------------------------------------------------------------------
(* What the queries of a replica do to the database.                        *)
Written(r) ==
    \/ PutDirty(r)
    \/ index[r] <= NumStatements /\ PutStatement(r)
    \/ pc[r] = "exec" /\ index[r] > NumStatements /\ PutClean(r)
    \/ UNCHANGED <<rowVars, executed>>

(* The end of the statement loop: the current version is complete.          *)
LEMMA LoopDone ==
    ASSUME Inv, NEW r \in Replicas, version[r] \in VersionsOf(r),
           pc[r] = "exec", index[r] > NumStatements
    PROVE  Applied(version[r], File(r)) /\ Migrated(version[r])
<1>1. NumStatements \in Nat /\ index[r] \in Nat
  BY EmbeddedAssumption DEF Inv
<1>2. \A i \in 1..NumStatements : i < index[r]
  BY <1>1
<1> QED
  BY <1>2 DEF Inv, LoopInv, Migrated, Applied, File

LEMMA WriteTypes ==
    ASSUME Inv, NEW r \in Replicas, version[r] \in VersionsOf(r), Written(r)
    PROVE  /\ mark' \in [Versions -> {"absent", "dirty", "clean"}]
           /\ checksum' \in [Versions -> Files \union {NoFile}]
           /\ contested' \subseteq Versions
           /\ contested \subseteq contested'
           /\ executed' \subseteq Statements
           /\ executed \subseteq executed'
<1>1. version[r] \in Versions /\ File(r) \in Files
  BY FileType DEF File
<1>2. CASE PutDirty(r)
  <2> USE DEF PutDirty, Record
  <2>1. mark' \in [Versions -> {"absent", "dirty", "clean"}]
    BY <1>2 DEF Inv, TypeOK
  <2>2. checksum' \in [Versions -> Files \union {NoFile}]
    BY <1>1, <1>2 DEF Inv, TypeOK
  <2>3. contested' \subseteq Versions /\ contested \subseteq contested'
    BY <1>1, <1>2 DEF Inv, TypeOK
  <2>4. executed' = executed
    BY <1>2
  <2> QED
    BY <2>1, <2>2, <2>3, <2>4 DEF Inv, TypeOK
<1>3. CASE index[r] <= NumStatements /\ PutStatement(r)
  <2>1. index[r] \in 1..NumStatements
    BY <1>3, EmbeddedAssumption DEF Inv
  <2>2. Statement(version[r], File(r), index[r]) \in Statements
    BY <1>1, <2>1 DEF Statement, Statements
  <2> QED
    BY <1>3, <2>2 DEF PutStatement, rowVars, Inv, TypeOK
<1>4. CASE PutClean(r)
  BY <1>1, <1>4 DEF PutClean, Inv, TypeOK
<1>5. CASE UNCHANGED <<rowVars, executed>>
  BY <1>5 DEF rowVars, Inv, TypeOK
<1> QED
  BY <1>2, <1>3, <1>4, <1>5 DEF Written

LEMMA WriteKeepsClean ==
    ASSUME Inv, NEW r \in Replicas, version[r] \in VersionsOf(r), Written(r)
    PROVE  CleanIsApplied'
<1>1. executed \subseteq executed' /\ contested \subseteq contested'
  BY WriteTypes
<1>t. /\ mark \in [Versions -> {"absent", "dirty", "clean"}]
      /\ checksum \in [Versions -> Files \union {NoFile}]
  BY DEF Inv, TypeOK
<1> SUFFICES ASSUME NEW v \in Versions, mark'[v] = "clean"
             PROVE  /\ Migrated(v)
                    /\ v \notin contested => Applied(v, checksum'[v])
  <2>1. \A v \in Versions : Migrated(v) => Migrated(v)'
    BY <1>1, MigratedStable
  <2>2. \A v \in Versions : Applied(v, checksum'[v]) => Applied(v, checksum[v])'
    BY <1>1 DEF Applied, Statement
  <2> QED
    BY <1>1, <2>1, <2>2 DEF CleanIsApplied, VersionsOf, Versions
<1>2. CASE mark[v] = "clean" /\ checksum'[v] = checksum[v]
  BY <1>2 DEF Inv, CleanIsApplied
<1>3. CASE mark[v] # "clean" \/ checksum'[v] # checksum[v]
  <2>1. ~PutDirty(r)
    BY <1>3, <1>t DEF PutDirty, Record
  <2>2. PutClean(r) /\ pc[r] = "exec" /\ index[r] > NumStatements /\ v = version[r]
    BY <1>3, <2>1, <1>t DEF Written, PutStatement, PutClean, rowVars
  <2>3. checksum' = checksum /\ contested' = contested
    BY <2>2 DEF PutClean
  <2>4. v \notin contested => checksum[v] = File(r)
    BY <2>2 DEF Inv, RecordInv
  <2>5. Applied(v, File(r)) /\ Migrated(v)
    BY <2>2, LoopDone
  <2> QED
    BY <2>3, <2>4, <2>5
<1> QED
  BY <1>2, <1>3

LEMMA WriteKeepsOrder ==
    ASSUME Inv, NEW r \in Replicas, version[r] \in VersionsOf(r), pc[r] # "running",
           Written(r)
    PROVE  VersionsInOrder'
<1>1. executed \subseteq executed' /\ contested \subseteq contested'
  BY WriteTypes
<1>2. ASSUME NEW s \in executed'
      PROVE  \E q \in Replicas :
                 /\ s.version \in VersionsOf(q) /\ s.file = Embedded[q][s.version]
                 /\ \A v \in VersionsOf(q) : v < s.version => HasVersion(q, v)
  <2>1. CASE s \in executed
    BY <2>1 DEF Inv, VersionsInOrder
  <2>2. CASE s \notin executed
    <3>1. s = Statement(version[r], File(r), index[r])
      BY <2>2 DEF Written, PutDirty, Record, PutStatement, PutClean
    <3>2. s.version = version[r] /\ s.file = Embedded[r][version[r]]
      BY <3>1 DEF Statement, File
    <3>3. \A v \in VersionsOf(r) : v < version[r] => HasVersion(r, v)
      BY DEF Inv, PassedInv
    <3> QED
      BY <3>2, <3>3
  <2> QED
    BY <2>1, <2>2
<1>3. \A q \in Replicas : \A v \in VersionsOf(q) : HasVersion(q, v) => HasVersion(q, v)'
  BY <1>1, HasStable
<1> QED
  BY <1>2, <1>3 DEF VersionsInOrder, VersionsOf

(* Whoever applies a version finds its own file recorded, or has been       *)
(* overwritten and the version is contested.                                *)
LEMMA WriteKeepsRecord ==
    ASSUME Inv, NEW r \in Replicas, version[r] \in VersionsOf(r), Written(r),
           NEW q \in Replicas, pc[q] = "exec", version[q] \notin contested'
    PROVE  checksum'[version[q]] = File(q)
<1>1. version[q] \notin contested
  BY WriteTypes
<1>2. checksum[version[q]] = File(q)
  BY <1>1 DEF Inv, RecordInv
<1>3. version[q] \in Versions /\ File(q) \in Files
  BY FileType DEF Inv, PositionInv, File
<1>4. CASE PutDirty(r)
  <2>1. CASE version[q] = version[r]
    <3>1. checksum[version[r]] \in {NoFile, File(r)}
      BY <1>4, <2>1 DEF PutDirty, Record
    <3>2. File(q) # NoFile
      BY <1>3, EmbeddedAssumption
    <3>3. checksum[version[r]] = File(r) /\ File(r) = File(q)
      BY <1>2, <2>1, <3>1, <3>2
    <3>4. checksum' = [checksum EXCEPT ![version[r]] = File(r)]
      BY <1>4 DEF PutDirty, Record
    <3> QED
      BY <1>3, <2>1, <3>3, <3>4 DEF Inv, TypeOK
  <2>2. CASE version[q] # version[r]
    BY <1>2, <1>4, <2>2, <1>3 DEF PutDirty, Record, Inv, TypeOK
  <2> QED
    BY <2>1, <2>2
<1>5. CASE ~PutDirty(r)
  BY <1>2, <1>5 DEF Written, PutStatement, PutClean, rowVars
<1> QED
  BY <1>4, <1>5

-----------------------------------------------------------------------------
LEMMA InitInv == Init => Inv
<1> SUFFICES ASSUME Init PROVE Inv
  OBVIOUS
<1> USE DEF Init
<1>1. \A r \in Replicas : version[r] \in VersionsOf(r) /\ version[r] \in Versions
  BY FirstVersion, FileType
<1>2. TypeOK /\ index \in [Replicas -> Nat \ {0}]
  BY <1>1 DEF TypeOK
<1>3. PassedInv
  BY FirstVersion DEF PassedInv
<1>4. PositionInv /\ LoopInv /\ RecordInv
  BY <1>1 DEF PositionInv, LoopInv, RecordInv
<1>5. CleanIsApplied /\ VersionsInOrder
  BY DEF CleanIsApplied, VersionsInOrder
<1> QED
  BY <1>2, <1>3, <1>4, <1>5 DEF Inv

(* A step of r writes for r and moves r alone, so the part of the invariant *)
(* that is about r is all that is left to show of it.                       *)
LEMMA LocalStep ==
    ASSUME Inv, NEW r \in Replicas,
           \/ pc[r] # "running" /\ Written(r)
           \/ UNCHANGED <<rowVars, executed>>,
           NEW p \in {"read", "mark", "exec", "running", "exited"},
           NEW w \in VersionsOf(r), NEW i \in Nat \ {0},
           pc' = [pc EXCEPT ![r] = p],
           version' = [version EXCEPT ![r] = w],
           index' = [index EXCEPT ![r] = i],
           p \in {"read", "mark", "exited"} => i = 1,
           \A v \in VersionsOf(r) : v < w \/ p = "running" => HasVersion(r, v)',
           p = "exec" =>
               /\ w \notin contested' => checksum'[w] = Embedded[r][w]
               /\ \A j \in 1..NumStatements :
                     j < i => Statement(w, Embedded[r][w], j) \in executed'
    PROVE  Inv'
<1>0. version[r] \in VersionsOf(r)
  BY DEF Inv, PositionInv
<1>1. /\ mark' \in [Versions -> {"absent", "dirty", "clean"}]
      /\ checksum' \in [Versions -> Files \union {NoFile}]
      /\ contested' \subseteq Versions
      /\ contested \subseteq contested'
      /\ executed' \subseteq Statements
      /\ executed \subseteq executed'
  <2>1. CASE Written(r)
    BY <1>0, <2>1, WriteTypes
  <2>2. CASE UNCHANGED <<rowVars, executed>>
    BY <2>2 DEF rowVars, Inv, TypeOK
  <2> QED
    BY <2>1, <2>2
<1>2. CleanIsApplied' /\ VersionsInOrder'
  <2>1. CASE pc[r] # "running" /\ Written(r)
    BY <1>0, <2>1, WriteKeepsClean, WriteKeepsOrder
  <2>2. CASE UNCHANGED <<rowVars, executed>>
    <3>1. UNCHANGED <<mark, checksum, contested, executed>>
      BY <2>2 DEF rowVars
    <3>2. CleanIsApplied'
      BY <3>1 DEF Inv, CleanIsApplied, Migrated, Applied, Statement, VersionsOf
    <3>3. VersionsInOrder'
      BY <3>1 DEF Inv, VersionsInOrder, HasVersion, Migrated, Applied, Statement,
                  VersionsOf
    <3> QED
      BY <3>2, <3>3
  <2> QED
    BY <2>1, <2>2
<1>3. TypeOK' /\ index' \in [Replicas -> Nat \ {0}]
  <2>1. w \in Versions
    BY FileType
  <2> QED
    BY <1>1, <2>1 DEF Inv, TypeOK
<1>4. \A q \in Replicas : pc'[q] = IF q = r THEN p ELSE pc[q]
  BY DEF Inv, TypeOK
<1>5. \A q \in Replicas : version'[q] = IF q = r THEN w ELSE version[q]
  BY DEF Inv, TypeOK
<1>6. \A q \in Replicas : index'[q] = IF q = r THEN i ELSE index[q]
  BY DEF Inv, TypeOK
<1>7. PositionInv'
  BY <1>4, <1>5, <1>6 DEF Inv, PositionInv, VersionsOf
<1>8. PassedInv'
  <2> SUFFICES ASSUME NEW q \in Replicas, NEW v \in VersionsOf(q),
                      v < version'[q] \/ pc'[q] = "running"
               PROVE  HasVersion(q, v)'
    BY DEF PassedInv, VersionsOf
  <2>1. CASE q = r
    BY <1>4, <1>5, <2>1
  <2>2. CASE q # r
    <3>1. HasVersion(q, v)
      BY <1>4, <1>5, <2>2 DEF Inv, PassedInv
    <3> QED
      BY <1>1, <3>1, HasStable
  <2> QED
    BY <2>1, <2>2
<1>9. LoopInv'
  <2> SUFFICES ASSUME NEW q \in Replicas, pc'[q] = "exec",
                      NEW j \in 1..NumStatements, j < index'[q]
               PROVE  Statement(version'[q], Embedded[q][version'[q]], j) \in executed'
    BY DEF LoopInv, File, Statement
  <2>1. CASE q = r
    BY <1>4, <1>5, <1>6, <2>1
  <2>2. CASE q # r
    BY <1>1, <1>4, <1>5, <1>6, <2>2 DEF Inv, LoopInv, File
  <2> QED
    BY <2>1, <2>2
<1>10. RecordInv'
  <2> SUFFICES ASSUME NEW q \in Replicas, pc'[q] = "exec", version'[q] \notin contested'
               PROVE  checksum'[version'[q]] = Embedded[q][version'[q]]
    BY DEF RecordInv, File
  <2>1. CASE q = r
    BY <1>4, <1>5, <2>1
  <2>2. CASE q # r
    <3>1. pc[q] = "exec" /\ version'[q] = version[q]
      BY <1>4, <1>5, <2>2
    <3>2. CASE Written(r)
      BY <1>0, <3>1, <3>2, WriteKeepsRecord DEF File
    <3>3. CASE UNCHANGED <<rowVars, executed>>
      BY <3>1, <3>3 DEF rowVars, Inv, RecordInv, File
    <3> QED
      BY <3>2, <3>3
  <2> QED
    BY <2>1, <2>2
<1> QED
  BY <1>2, <1>3, <1>7, <1>8, <1>9, <1>10 DEF Inv

(* The next version: the build has none between, and what lies before it is *)
(* in the schema.                                                           *)
LEMMA NextVersionInv ==
    ASSUME Inv, NEW r \in Replicas, pc[r] # "running",
           Written(r), HasVersion(r, version[r]), NextVersion(r)
    PROVE  Inv'
<1> DEFINE later == {v \in VersionsOf(r) : v > version[r]}
<1>0. /\ version[r] \in VersionsOf(r)
      /\ \A v \in VersionsOf(r) : v \in Nat
  BY FileType DEF Inv, PositionInv
<1>1. index' = [index EXCEPT ![r] = 1]
  BY DEF NextVersion
<1>2. \A v \in VersionsOf(r) : v <= version[r] => HasVersion(r, v)'
  <2> SUFFICES ASSUME NEW v \in VersionsOf(r), v <= version[r]
               PROVE  HasVersion(r, v)'
    OBVIOUS
  <2>1. v < version[r] \/ v = version[r]
    BY <1>0
  <2>2. HasVersion(r, v)
    BY <2>1 DEF Inv, PassedInv
  <2> QED
    BY <1>0, <2>2, WriteTypes, HasStable
<1>3. 1 \in Nat \ {0}
  OBVIOUS
<1>4. CASE later = {}
  <2>1. /\ pc' = [pc EXCEPT ![r] = "running"]
        /\ version' = [version EXCEPT ![r] = version[r]]
    BY <1>4 DEF NextVersion, Inv, TypeOK
  <2>2. \A v \in VersionsOf(r) : HasVersion(r, v)'
    BY <1>0, <1>2, <1>4
  <2> QED
    BY <1>0, <1>1, <1>3, <2>1, <2>2, LocalStep
<1>5. CASE later # {}
  <2>1. PICK w : w = Min(later)
    OBVIOUS
  <2>2. /\ pc' = [pc EXCEPT ![r] = "read"]
        /\ version' = [version EXCEPT ![r] = w]
    BY <1>5, <2>1 DEF NextVersion
  <2>3. w \in later /\ \A v \in later : w <= v
    <3>1. later \in SUBSET Nat
      BY <1>0
    <3> HIDE DEF later
    <3> QED
      BY <1>5, <2>1, <3>1, LeastVersion, Zenon
  <2>4. w \in VersionsOf(r) /\ \A v \in VersionsOf(r) : v < w => v <= version[r]
    BY <1>0, <2>3
  <2>5. \A v \in VersionsOf(r) : v < w => HasVersion(r, v)'
    BY <1>2, <2>4
  <2> QED
    BY <1>1, <1>3, <2>2, <2>4, <2>5, LocalStep
<1> QED
  BY <1>4, <1>5

LEMMA ExitInv ==
    ASSUME Inv, NEW r \in Replicas,
           \/ pc[r] # "running" /\ Written(r)
           \/ UNCHANGED <<rowVars, executed>>,
           Exit(r)
    PROVE  Inv'
<1>1. PICK w : w = Min(VersionsOf(r))
  OBVIOUS
<1>2. /\ pc' = [pc EXCEPT ![r] = "exited"]
      /\ version' = [version EXCEPT ![r] = w]
      /\ index' = [index EXCEPT ![r] = 1]
  BY <1>1 DEF Exit
<1>3. w \in VersionsOf(r) /\ \A v \in VersionsOf(r) : ~(v < w)
  BY <1>1, FirstVersion
<1>4. "exited" \in {"read", "mark", "exec", "running", "exited"} /\ 1 \in Nat \ {0}
  OBVIOUS
<1> QED
  BY <1>2, <1>3, <1>4, LocalStep

-----------------------------------------------------------------------------
LEMMA ReadStateInv ==
    ASSUME Inv, NEW r \in Replicas, ReadState(r)
    PROVE  Inv'
<1>1. version[r] \in VersionsOf(r)
  BY DEF ReadState, Inv, PositionInv
<1>2. Written(r) /\ executed' = executed /\ contested' = contested /\ pc[r] # "running"
  BY DEF ReadState, Written, rowVars
<1>3. CASE Exit(r)
  BY <1>1, <1>2, <1>3, ExitInv
<1>4. CASE /\ mark[version[r]] = "clean" /\ checksum[version[r]] = File(r)
           /\ NextVersion(r)
  <2>1. /\ Migrated(version[r])
        /\ version[r] \notin contested => Applied(version[r], File(r))
    BY <1>1, <1>4, FileType DEF Inv, CleanIsApplied
  <2>2. HasVersion(r, version[r])
    BY <2>1 DEF HasVersion, File
  <2> QED
    BY <1>1, <1>2, <1>4, <2>2, NextVersionInv
<1>5. CASE pc' = [pc EXCEPT ![r] = "mark"] /\ UNCHANGED <<version, index>>
  <2>1. /\ version' = [version EXCEPT ![r] = version[r]]
        /\ index' = [index EXCEPT ![r] = index[r]] /\ index[r] \in Nat \ {0}
    BY <1>5 DEF Inv, TypeOK
  <2>2. index[r] = 1
    BY DEF ReadState, Inv, PositionInv
  <2>3. \A v \in VersionsOf(r) : v < version[r] => HasVersion(r, v)'
    BY <1>2, HasStable DEF Inv, PassedInv
  <2> QED
    BY <1>1, <1>2, <1>5, <2>1, <2>2, <2>3, LocalStep
<1> QED
  BY <1>3, <1>4, <1>5 DEF ReadState

LEMMA MarkDirtyInv ==
    ASSUME Inv, NEW r \in Replicas, MarkDirty(r)
    PROVE  Inv'
<1>1. version[r] \in VersionsOf(r) /\ version[r] \in Versions
  BY FileType DEF Inv, PositionInv
<1>2. Written(r) /\ executed' = executed /\ pc[r] # "running"
  BY DEF MarkDirty, Written, PutDirty, Record
<1>3. /\ version' = [version EXCEPT ![r] = version[r]]
      /\ index' = [index EXCEPT ![r] = index[r]] /\ index[r] \in Nat \ {0}
  BY DEF MarkDirty, Inv, TypeOK
<1>4. contested \subseteq contested'
  BY <1>1, <1>2, WriteTypes
<1>5. \A v \in VersionsOf(r) : v < version[r] => HasVersion(r, v)'
  BY <1>2, <1>4, HasStable DEF Inv, PassedInv
<1>6. pc' = [pc EXCEPT ![r] = "exec"]
  BY DEF MarkDirty
<1>7. \A j \in 1..NumStatements : ~(j < index[r])
  BY EmbeddedAssumption DEF MarkDirty, Inv, PositionInv
<1>8. checksum'[version[r]] = Embedded[r][version[r]]
  BY <1>1 DEF MarkDirty, PutDirty, Record, File, Inv, TypeOK
<1> QED
  BY <1>1, <1>2, <1>3, <1>5, <1>6, <1>7, <1>8, LocalStep

LEMMA ExecStatementInv ==
    ASSUME Inv, NEW r \in Replicas, ExecStatement(r)
    PROVE  Inv'
<1>1. version[r] \in VersionsOf(r)
  BY DEF ExecStatement, Inv, PositionInv
<1>2. Written(r) /\ pc[r] # "running"
  BY DEF ExecStatement, Written
<1>3. /\ pc' = [pc EXCEPT ![r] = "exec"]
      /\ version' = [version EXCEPT ![r] = version[r]]
      /\ index' = [index EXCEPT ![r] = index[r] + 1] /\ index[r] \in Nat \ {0}
  BY DEF ExecStatement, Inv, TypeOK
<1>4. executed \subseteq executed' /\ UNCHANGED <<checksum, contested>>
  BY DEF ExecStatement, PutStatement, rowVars
<1>5. \A v \in VersionsOf(r) : v < version[r] => HasVersion(r, v)'
  BY <1>4, HasStable DEF Inv, PassedInv
<1>6. ASSUME NEW j \in 1..NumStatements, j < index[r] + 1
      PROVE  Statement(version[r], Embedded[r][version[r]], j) \in executed'
  <2>1. j < index[r] \/ j = index[r]
    BY <1>3, <1>6, EmbeddedAssumption
  <2>2. CASE j < index[r]
    BY <1>4, <2>2 DEF ExecStatement, Inv, LoopInv, File
  <2>3. CASE j = index[r]
    BY <2>3 DEF ExecStatement, PutStatement, File
  <2> QED
    BY <2>1, <2>2, <2>3
<1>7. index[r] + 1 \in Nat \ {0}
  BY <1>3
<1>8. version[r] \notin contested' => checksum'[version[r]] = Embedded[r][version[r]]
  BY <1>4 DEF ExecStatement, Inv, RecordInv, File
<1> QED
  BY <1>1, <1>2, <1>3, <1>5, <1>6, <1>7, <1>8, LocalStep

LEMMA MarkCleanInv ==
    ASSUME Inv, NEW r \in Replicas, MarkClean(r)
    PROVE  Inv'
<1>1. version[r] \in VersionsOf(r)
  BY DEF MarkClean, Inv, PositionInv
<1>2. Written(r) /\ pc[r] # "running"
  BY DEF MarkClean, Written
<1>3. HasVersion(r, version[r])
  BY <1>1, LoopDone DEF MarkClean, HasVersion, File
<1> QED
  BY <1>1, <1>2, <1>3, NextVersionInv DEF MarkClean

LEMMA FaultInv ==
    ASSUME Inv, NEW r \in Replicas, Fault(r)
    PROVE  Inv'
<1>1. \/ pc[r] # "running" /\ Written(r)
      \/ UNCHANGED <<rowVars, executed>>
  BY DEF Fault, Written
<1> QED
  BY <1>1, ExitInv DEF Fault

LEMMA RestartInv ==
    ASSUME Inv, NEW r \in Replicas, Restart(r)
    PROVE  Inv'
<1>1. /\ UNCHANGED <<rowVars, executed>>
      /\ pc' = [pc EXCEPT ![r] = "read"]
      /\ version' = [version EXCEPT ![r] = version[r]] /\ version[r] \in VersionsOf(r)
      /\ index' = [index EXCEPT ![r] = 1]
  BY DEF Restart, Inv, TypeOK, PositionInv
<1>2. \A v \in VersionsOf(r) : v < version[r] => HasVersion(r, v)'
  BY <1>1, HasStable DEF rowVars, Inv, PassedInv
<1>3. "read" \in {"read", "mark", "exec", "running", "exited"} /\ 1 \in Nat \ {0}
  OBVIOUS
<1> QED
  BY <1>1, <1>2, <1>3, LocalStep

LEMMA NextInv == Inv /\ [Next]_vars => Inv'
<1> SUFFICES ASSUME Inv, [Next]_vars PROVE Inv'
  OBVIOUS
<1>1. ASSUME NEW r \in Replicas, Migrate(r) PROVE Inv'
  BY <1>1, ReadStateInv, MarkDirtyInv, ExecStatementInv, MarkCleanInv DEF Migrate
<1>2. ASSUME NEW r \in Replicas, Restart(r) PROVE Inv'
  BY <1>2, RestartInv
<1>3. ASSUME NEW r \in Replicas, Fault(r) PROVE Inv'
  BY <1>3, FaultInv
<1>4. CASE UNCHANGED vars
  <2>1. UNCHANGED <<pc, version, index, mark, checksum, contested, executed>>
    BY <1>4 DEF vars, rowVars
  <2>2. TypeOK' /\ PositionInv' /\ LoopInv' /\ RecordInv'
    BY <2>1 DEF Inv, TypeOK, PositionInv, LoopInv, RecordInv, File, VersionsOf
  <2>3. PassedInv' /\ CleanIsApplied' /\ VersionsInOrder'
    BY <2>1 DEF Inv, PassedInv, CleanIsApplied, VersionsInOrder, HasVersion, Migrated,
                Applied, Statement, VersionsOf
  <2> QED
    BY <2>1, <2>2, <2>3 DEF Inv
<1> QED
  BY <1>1, <1>2, <1>3, <1>4 DEF Next, Calm

THEOREM Invariance == Spec => []Inv
BY InitInv, NextInv, PTL DEF Spec

(* The type invariant.                                                      *)
THEOREM MigrationTypes == Spec => []TypeOK
<1>1. Inv => TypeOK
  BY DEF Inv
<1> QED
  BY <1>1, Invariance, PTL

(* A replica that serves has every version of its build in its schema,      *)
(* whoever applied it, or another build's file of a contested one.          *)
THEOREM StartedMigrated == Spec => []StartedIsMigrated
<1>1. Inv => StartedIsMigrated
  BY DEF Inv, PassedInv, StartedIsMigrated
<1> QED
  BY <1>1, Invariance, PTL

(* A row that is not dirty records a migration that was executed, or is     *)
(* contested and stands above one that was.                                 *)
THEOREM CleanApplied == Spec => []CleanIsApplied
<1>1. Inv => CleanIsApplied
  BY DEF Inv
<1> QED
  BY <1>1, Invariance, PTL

(* The migrations of a build are there before a later one of it begins, on  *)
(* whatever replica, with or without gaps between the versions.             *)
THEOREM InOrder == Spec => []VersionsInOrder
<1>1. Inv => VersionsInOrder
  BY DEF Inv
<1> QED
  BY <1>1, Invariance, PTL

-----------------------------------------------------------------------------
(* A row becomes dirty only by a replica that goes on to apply it, or fails; *)
(* a replica that leaves the statements without failing clears the row.     *)
LEMMA OrphanStep ==
    ASSUME Inv, [Next]_vars, NEW v \in Versions, ~Orphaned(v), Orphaned(v)'
    PROVE  \E r \in Replicas : Fault(r)
<1> SUFFICES ASSUME ~ \E r \in Replicas : Fault(r) PROVE FALSE
  OBVIOUS
<1> USE DEF Orphaned
<1>t. /\ mark \in [Versions -> {"absent", "dirty", "clean"}]
      /\ pc \in [Replicas -> {"read", "mark", "exec", "running", "exited"}]
      /\ version \in [Replicas -> Versions]
  BY DEF Inv, TypeOK
<1>1. ASSUME NEW r \in Replicas, pc[r] # "exec", UNCHANGED rowVars,
             \A q \in Replicas \ {r} : pc'[q] = pc[q] /\ version'[q] = version[q]
      PROVE  FALSE
  BY <1>1 DEF rowVars
<1>2. ASSUME NEW r \in Replicas, ReadState(r) PROVE FALSE
  BY <1>t, <1>1, <1>2 DEF ReadState, Exit, NextVersion
<1>3. ASSUME NEW r \in Replicas, MarkDirty(r) PROVE FALSE
  <2>1. version[r] \in Versions
    BY <1>3, FileType DEF MarkDirty, Inv, PositionInv
  <2>2. pc'[r] = "exec" /\ version' = version /\ \A q \in Replicas \ {r} : pc'[q] = pc[q]
    BY <1>t, <1>3 DEF MarkDirty
  <2>3. v # version[r] => mark'[v] = mark[v]
    BY <1>t, <1>3 DEF MarkDirty, PutDirty, Record
  <2>4. pc[r] # "exec"
    BY <1>3 DEF MarkDirty
  <2> QED
    BY <2>2, <2>3, <2>4
<1>4. ASSUME NEW r \in Replicas, ExecStatement(r) PROVE FALSE
  BY <1>4 DEF ExecStatement, PutStatement, rowVars
<1>5. ASSUME NEW r \in Replicas, MarkClean(r) PROVE FALSE
  <2>1. version[r] \in Versions
    BY <1>5, FileType DEF MarkClean, Inv, PositionInv
  <2>2. mark' = [mark EXCEPT ![version[r]] = "clean"]
    BY <1>5 DEF MarkClean, PutClean
  <2>3. v # version[r] /\ mark[v] = "dirty"
    BY <1>t, <2>1, <2>2
  <2>4. \A q \in Replicas \ {r} : pc'[q] = pc[q] /\ version'[q] = version[q]
    BY <1>t, <1>5 DEF MarkClean, NextVersion
  <2> QED
    BY <2>3, <2>4
<1>6. ASSUME NEW r \in Replicas, Restart(r) PROVE FALSE
  BY <1>t, <1>1, <1>6 DEF Restart
<1>7. CASE UNCHANGED vars
  BY <1>7 DEF vars, rowVars
<1> QED
  BY <1>2, <1>3, <1>4, <1>5, <1>6, <1>7 DEF Next, Calm, Migrate

(* However many replicas migrate at once, only a fault leaves a dirty row   *)
(* with nobody to clear it.                                                 *)
THEOREM FaultsOrphan == Spec => OnlyFaultsOrphan
<1>1. Inv /\ [Next]_vars =>
          [\A v \in Versions :
              ~Orphaned(v) /\ Orphaned(v)' => \E r \in Replicas : Fault(r)]_vars
  BY OrphanStep
<1> QED
  BY <1>1, Invariance, PTL DEF Spec, OnlyFaultsOrphan
=============================================================================
