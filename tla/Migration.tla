----------------------------- MODULE Migration -----------------------------
(***************************************************************************)
(* The schema migrations of internal/migration/migration.go.  Every        *)
(* replica runs them when it starts, and nothing but the table of          *)
(* migrations stands between replicas that start together: applyMigration  *)
(* reads a version's row, marks it dirty, executes the statements, marks   *)
(* it clean, each a query of its own.  A replica whose migrations fail     *)
(* exits and is restarted by its deployment.                               *)
(*                                                                         *)
(* A build has whatever positive versions its files are named for, at      *)
(* least one (go:embed does not compile otherwise), and not the same as    *)
(* another build.  A file is a model value: its checksum is as good as its *)
(* text.  Executing a statement twice is executing it once (CREATE TABLE   *)
(* IF NOT EXISTS).                                                         *)
(***************************************************************************)
EXTENDS Naturals, FiniteSetsExt

CONSTANTS Replicas,
          Files,          \* the contents of migration files
          NoFile,         \* the checksum column of a row that is not there
          Embedded,       \* Embedded[r][v]: the file of version v in r's build
          NumStatements   \* the statements of a file

ASSUME EmbeddedAssumption ==
    /\ NoFile \notin Files
    /\ NumStatements \in Nat
    /\ \A r \in Replicas :
          /\ DOMAIN Embedded[r] # {} /\ DOMAIN Embedded[r] \subseteq Nat \ {0}
          /\ Embedded[r] \in [DOMAIN Embedded[r] -> Files]

VARIABLES pc,        \* pc[r]: the query r is about to do, or how it ended
          version,   \* version[r]: the migration r is at
          index,     \* index[r]: the statement r executes next
          mark,      \* mark[v]: the row of version v: absent, dirty or clean
          checksum,  \* checksum[v]: the file recorded in the row of v
          contested, \* the versions whose row was overwritten with another
                     \* file (history, no column of the table)
          executed   \* the statements executed: of which version, which file

rowVars == <<mark, checksum, contested>>
vars == <<pc, version, index, rowVars, executed>>

(* The versions of a build, and of all builds.                              *)
VersionsOf(r) == DOMAIN Embedded[r]
Versions == UNION {VersionsOf(r) : r \in Replicas}

Statement(v, f, i) == [version |-> v, file |-> f, index |-> i]
Statements == [version : Versions, file : Files, index : 1..NumStatements]

TypeOK ==
    /\ pc \in [Replicas -> {"read", "mark", "exec", "running", "exited"}]
    /\ version \in [Replicas -> Versions]
    /\ index \in [Replicas -> Nat]
    /\ mark \in [Versions -> {"absent", "dirty", "clean"}]
    /\ checksum \in [Versions -> Files \union {NoFile}]
    /\ contested \subseteq Versions
    /\ executed \subseteq Statements

Init ==
    /\ pc = [r \in Replicas |-> "read"]
    /\ version = [r \in Replicas |-> Min(VersionsOf(r))]
    /\ index = [r \in Replicas |-> 1]
    /\ mark = [v \in Versions |-> "absent"]
    /\ checksum = [v \in Versions |-> NoFile]
    /\ contested = {}
    /\ executed = {}

-----------------------------------------------------------------------------
(* The file r is applying.                                                  *)
File(r) == Embedded[r][version[r]]

(* loadMigrations sorts the files by version, with or without gaps: the     *)
(* next one is the least of the later ones, and without one Run returns.    *)
NextVersion(r) ==
    LET later == {v \in VersionsOf(r) : v > version[r]} IN
    /\ \/ /\ later = {}
          /\ pc' = [pc EXCEPT ![r] = "running"]
          /\ UNCHANGED version
       \/ /\ later # {}
          /\ pc' = [pc EXCEPT ![r] = "read"]
          /\ version' = [version EXCEPT ![r] = Min(later)]
    /\ index' = [index EXCEPT ![r] = 1]

(* os.Exit(1) of main: the next process begins with the first version.      *)
Exit(r) ==
    /\ pc' = [pc EXCEPT ![r] = "exited"]
    /\ version' = [version EXCEPT ![r] = Min(VersionsOf(r))]
    /\ index' = [index EXCEPT ![r] = 1]

(* Mutant: the dirty mark is not looked at.                                 *)
ReadIgnoringDirty(r) ==
    /\ pc[r] = "read"
    /\ \/ /\ mark[version[r]] = "absent"
          /\ pc' = [pc EXCEPT ![r] = "mark"]
          /\ UNCHANGED <<version, index>>
       \/ mark[version[r]] # "absent" /\ checksum[version[r]] # File(r) /\ Exit(r)
       \/ /\ mark[version[r]] # "absent"
          /\ checksum[version[r]] = File(r)
          /\ NextVersion(r)
    /\ UNCHANGED <<rowVars, executed>>

(* A version without a row is to be applied; a dirty one and one with       *)
(* another checksum end the start; a clean one is done.                     *)
ReadState(r) ==
    /\ pc[r] = "read"
    /\ \/ /\ mark[version[r]] = "absent"
          /\ pc' = [pc EXCEPT ![r] = "mark"]
          /\ UNCHANGED <<version, index>>
       \/ mark[version[r]] = "dirty" /\ Exit(r)
       \/ mark[version[r]] = "clean" /\ checksum[version[r]] # File(r) /\ Exit(r)
       \/ /\ mark[version[r]] = "clean"
          /\ checksum[version[r]] = File(r)
          /\ NextVersion(r)
    /\ UNCHANGED <<rowVars, executed>>

(* The row of the current version is written with the file of r.            *)
Record(r, m) ==
    LET v == version[r] IN
    /\ mark' = [mark EXCEPT ![v] = m]
    /\ checksum' = [checksum EXCEPT ![v] = File(r)]
    /\ contested' = IF checksum[v] \in {NoFile, File(r)} THEN contested
                    ELSE contested \union {v}
    /\ UNCHANGED executed

(* Mutant: the row is written as clean before the statements are executed.  *)
PutCleanFirst(r) == Record(r, "clean")

(* What the INSERT, a statement of the file and the UPDATE change.          *)
PutDirty(r) == Record(r, "dirty")

PutStatement(r) ==
    /\ executed' = executed \union {Statement(version[r], File(r), index[r])}
    /\ UNCHANGED rowVars

PutClean(r) ==
    /\ mark' = [mark EXCEPT ![version[r]] = "clean"]
    /\ UNCHANGED <<checksum, contested, executed>>

MarkDirty(r) ==
    /\ pc[r] = "mark"
    /\ PutDirty(r)
    /\ pc' = [pc EXCEPT ![r] = "exec"]
    /\ UNCHANGED <<version, index>>

(* Mutant: the loop over the statements runs one round too many.            *)
ExecPastEnd(r) ==
    /\ pc[r] = "exec"
    /\ index[r] <= NumStatements + 1
    /\ PutStatement(r)
    /\ index' = [index EXCEPT ![r] = @ + 1]
    /\ UNCHANGED <<pc, version>>

ExecStatement(r) ==
    /\ pc[r] = "exec"
    /\ index[r] <= NumStatements
    /\ PutStatement(r)
    /\ index' = [index EXCEPT ![r] = @ + 1]
    /\ UNCHANGED <<pc, version>>

(* Mutant: the error of the UPDATE is dropped, and the row stays dirty.      *)
MoveOnDirty(r) ==
    /\ pc[r] = "exec"
    /\ index[r] > NumStatements
    /\ PutClean(r) \/ UNCHANGED <<rowVars, executed>>
    /\ NextVersion(r)

MarkClean(r) ==
    /\ pc[r] = "exec"
    /\ index[r] > NumStatements
    /\ PutClean(r)
    /\ NextVersion(r)

Migrate(r) ==
    \/ ReadState(r)
    \/ MarkDirty(r)
    \/ ExecStatement(r)
    \/ MarkClean(r)

(* A query fails, perhaps after it was applied, the file does not parse, or *)
(* the replica stops.                                                       *)
Fault(r) ==
    /\ pc[r] # "exited"
    /\ \/ pc[r] = "mark" /\ PutDirty(r)
       \/ pc[r] = "exec" /\ index[r] <= NumStatements /\ PutStatement(r)
       \/ pc[r] = "exec" /\ index[r] > NumStatements /\ PutClean(r)
       \/ UNCHANGED <<rowVars, executed>>
    /\ Exit(r)

(* The deployment starts the replica again.                                 *)
Restart(r) ==
    /\ pc[r] = "exited"
    /\ pc' = [pc EXCEPT ![r] = "read"]
    /\ UNCHANGED <<version, index, rowVars, executed>>

Calm == \E r \in Replicas : Migrate(r) \/ Restart(r)
Next == Calm \/ \E r \in Replicas : Fault(r)

Spec == Init /\ [][Next]_vars

-----------------------------------------------------------------------------
Applied(v, f) == \A i \in 1..NumStatements : Statement(v, f, i) \in executed

(* Some build's file of version v has been executed completely.             *)
Migrated(v) == \E q \in Replicas : v \in VersionsOf(q) /\ Applied(v, Embedded[q][v])

(* The schema has what r's own build says of version v, or v is contested:  *)
(* replicas with different files for it found no row together.  Then the    *)
(* later INSERT names the file and the first UPDATE clears the mark, and r  *)
(* may take the file of another build for its own.                          *)
HasVersion(r, v) == Applied(v, Embedded[r][v]) \/ (v \in contested /\ Migrated(v))

(* A replica that serves has its schema, whoever applied it: Run returns no *)
(* error only if every version was executed here or read as clean with the  *)
(* checksum of this build.  Only a contested version may be another's.      *)
StartedIsMigrated ==
    \A r \in Replicas : pc[r] = "running" =>
        \A v \in VersionsOf(r) : HasVersion(r, v)

(* A clean row records a file that was executed completely, unless replicas *)
(* with different files raced for the row.  Even then, however they         *)
(* overwrite each other's marks and checksums, it never stands above files  *)
(* that are all incomplete; but it may record one that nobody executed.     *)
CleanIsApplied ==
    \A v \in Versions : mark[v] = "clean" =>
        /\ Migrated(v)
        /\ v \notin contested => Applied(v, checksum[v])

(* No statement runs before the earlier versions of its build are there,    *)
(* even when another replica is applying them.  Between builds there is no  *)
(* such order: a version that one build lacks is applied after its later    *)
(* ones.                                                                    *)
VersionsInOrder ==
    \A s \in executed : \E r \in Replicas :
        /\ s.version \in VersionsOf(r) /\ s.file = Embedded[r][s.version]
        /\ \A v \in VersionsOf(r) : v < s.version => HasVersion(r, v)

(* A dirty row that nobody is about to clear: from here on every start fails *)
(* until an operator repairs the table.                                     *)
Orphaned(v) ==
    mark[v] = "dirty" /\ ~ \E r \in Replicas : pc[r] = "exec" /\ version[r] = v

(* Only a fault leaves such a row.  Replicas that migrate at once, restart  *)
(* on each other's marks or disagree about a file never do: whoever puts a  *)
(* dirty mark, or puts it back, is still there to clear it.                 *)
OnlyFaultsOrphan ==
    [][\A v \in Versions :
          ~Orphaned(v) /\ Orphaned(v)' => \E r \in Replicas : Fault(r)]_vars
=============================================================================
