-------------------------- MODULE SchemaMigrations ---------------------------
(***************************************************************************)
(* db/schema.py: processes of several releases apply their bundled         *)
(* migrations to one database.  A step is one statement awaited by         *)
(* apply_migrations; the statements of a transaction take effect together  *)
(* when it commits, and a lost connection rolls it back and gives up the   *)
(* session's advisory lock.                                                *)
(***************************************************************************)
EXTENDS Naturals

CONSTANTS
  Procs,        \* processes that call apply_migrations
  Versions,     \* versions of the bundled scripts, in the order of their names
  Checksums,    \* checksums of scripts
  Bundles,      \* what a release may bundle: [some versions -> Checksums]
  NoChecksum,   \* a version with no row in the history table
  NoProc,       \* the advisory lock is free
  MaxLosses     \* bound: connections lost

ASSUME VersionsAssumption == Versions \subseteq Nat
ASSUME BundlesAssumption ==
  \A b \in Bundles : DOMAIN b \subseteq Versions /\ \A v \in DOMAIN b : b[v] \in Checksums
ASSUME NullsAssumption ==
  NoChecksum \notin Checksums /\ NoProc \notin Procs /\ MaxLosses \in Nat

VARIABLES
  lock,       \* the process that holds MIGRATION_LOCK_ID, or NoProc
  history,    \* committed rows: version -> checksum, or NoChecksum
  ran,        \* committed runs of each version's script
  schema,     \* the script whose effects the schema holds, per version
  pc,         \* pc[p]: the statement p awaits next
  bundle,     \* bundle[p]: the release p runs
  seen,       \* seen[p]: the history p fetched
  passed,     \* passed[p]: versions p has dealt with
  outcome,    \* outcome[p]: how the call ended, or is about to end
  losses      \* connections lost so far

vars == <<lock, history, ran, schema, pc, bundle, seen, passed, outcome, losses>>

History == [Versions -> Checksums \cup {NoChecksum}]
Empty == [v \in Versions |-> NoChecksum]
Steps == {"lock", "create", "fetch", "loop", "script", "record", "commit", "unlock", "end"}
Outcomes == {"none", "done", "unknown", "changed", "failed", "conflict"}

TypeOK ==
  /\ lock \in Procs \cup {NoProc}
  /\ history \in History
  /\ ran \in [Versions -> Nat]
  /\ schema \in History
  /\ pc \in [Procs -> Steps]
  /\ bundle \in [Procs -> Bundles]
  /\ seen \in [Procs -> History]
  /\ passed \in [Procs -> SUBSET Versions]
  /\ outcome \in [Procs -> Outcomes]
  /\ losses \in 0 .. MaxLosses

Init ==
  /\ lock = NoProc
  /\ history = Empty
  /\ ran = [v \in Versions |-> 0]
  /\ schema = Empty
  /\ pc = [p \in Procs |-> "lock"]
  /\ bundle \in [Procs -> Bundles]
  /\ seen = [p \in Procs |-> Empty]
  /\ passed = [p \in Procs |-> {}]
  /\ outcome = [p \in Procs |-> "none"]
  /\ losses = 0

Goto(p, step) == pc' = [pc EXCEPT ![p] = step]
End(p, result) == Goto(p, "unlock") /\ outcome' = [outcome EXCEPT ![p] = result]

-----------------------------------------------------------------------------
\* Mutated form of the first statement: no advisory lock is taken.
LockNothing(p) ==
  /\ pc[p] = "lock"
  /\ Goto(p, "create")
  /\ UNCHANGED <<lock, history, ran, schema, bundle, seen, passed, outcome, losses>>

\* SELECT pg_advisory_lock: waits until the lock is free.
Lock(p) ==
  /\ pc[p] = "lock"
  /\ lock = NoProc
  /\ lock' = p
  /\ Goto(p, "create")
  /\ UNCHANGED <<history, ran, schema, bundle, seen, passed, outcome, losses>>

\* CREATE TABLE IF NOT EXISTS: the history, empty until a row is committed.
CreateTable(p) ==
  /\ pc[p] = "create"
  /\ Goto(p, "fetch")
  /\ UNCHANGED <<lock, history, ran, schema, bundle, seen, passed, outcome, losses>>

Unknown(p) == {v \in Versions : history[v] # NoChecksum} \ DOMAIN bundle[p]

\* Mutated form of Fetch: versions unknown to this release are ignored.
FetchIgnoringUnknown(p) ==
  /\ pc[p] = "fetch"
  /\ seen' = [seen EXCEPT ![p] = history]
  /\ Goto(p, "loop") /\ UNCHANGED outcome
  /\ UNCHANGED <<lock, history, ran, schema, bundle, passed, losses>>

\* Mutated form of Fetch: only the rows are kept, versions without one are not.
FetchRowsOnly(p) ==
  /\ pc[p] = "fetch"
  /\ seen' = [seen EXCEPT ![p] = [v \in {w \in Versions : history[w] # NoChecksum} |-> history[v]]]
  /\ Goto(p, "loop") /\ UNCHANGED outcome
  /\ UNCHANGED <<lock, history, ran, schema, bundle, passed, losses>>

\* The history is read, and a version this release does not know is refused.
Fetch(p) ==
  /\ pc[p] = "fetch"
  /\ seen' = [seen EXCEPT ![p] = history]
  /\ IF Unknown(p) # {} THEN End(p, "unknown")
     ELSE Goto(p, "loop") /\ UNCHANGED outcome
  /\ UNCHANGED <<lock, history, ran, schema, bundle, passed, losses>>

\* The migrations of the loop that are not unchanged.
Remaining(p) == {v \in DOMAIN bundle[p] \ passed[p] : seen[p][v] # bundle[p][v]}

\* Mutated form of the order: the migrations come in any order.
NextInAnyOrder(p, v) == v \in Remaining(p)

\* The next migration: the loop follows the order of the names.
NextVersion(p, v) == v \in Remaining(p) /\ \A u \in Remaining(p) : v <= u

\* Every migration of the release is applied.
FinishLoop(p) ==
  /\ pc[p] = "loop"
  /\ Remaining(p) = {}
  /\ End(p, "done")
  /\ UNCHANGED <<lock, history, ran, schema, bundle, seen, passed, losses>>

\* An applied script with another checksum is refused.
RejectChanged(p) ==
  /\ pc[p] = "loop"
  /\ \E v \in Versions : NextVersion(p, v) /\ seen[p][v] # NoChecksum
  /\ End(p, "changed")
  /\ UNCHANGED <<lock, history, ran, schema, bundle, seen, passed, losses>>

\* connection.transaction() starts for the next pending migration.
BeginTransaction(p) ==
  /\ pc[p] = "loop"
  /\ \E v \in Versions : NextVersion(p, v) /\ seen[p][v] = NoChecksum
  /\ Goto(p, "script")
  /\ UNCHANGED <<lock, history, ran, schema, bundle, seen, passed, outcome, losses>>

\* The script is executed; its effects stay in the transaction.
RunScript(p) ==
  /\ pc[p] = "script"
  /\ Goto(p, "record")
  /\ UNCHANGED <<lock, history, ran, schema, bundle, seen, passed, outcome, losses>>

\* The history row is inserted; a row of another transaction conflicts.
Record(p) ==
  /\ pc[p] = "record"
  /\ IF \E v \in Versions : NextVersion(p, v) /\ history[v] # NoChecksum
       THEN End(p, "conflict")
       ELSE Goto(p, "commit") /\ UNCHANGED outcome
  /\ UNCHANGED <<lock, history, ran, schema, bundle, seen, passed, losses>>

\* A statement fails: a transaction is rolled back, and finally unlocks.
StatementFails(p) ==
  /\ pc[p] \in {"create", "fetch", "script", "record", "commit"}
  /\ End(p, "failed")
  /\ UNCHANGED <<lock, history, ran, schema, bundle, seen, passed, losses>>

\* Mutated form of Commit: the transaction holds the script only.
CommitWithoutRow(p) ==
  /\ pc[p] = "commit"
  /\ \E v \in Versions :
       /\ NextVersion(p, v)
       /\ ran' = [ran EXCEPT ![v] = @ + 1]
       /\ schema' = [schema EXCEPT ![v] = bundle[p][v]]
       /\ passed' = [passed EXCEPT ![p] = @ \cup {v}]
  /\ Goto(p, "loop")
  /\ UNCHANGED <<lock, history, bundle, seen, outcome, losses>>

\* The transaction commits: the script's effects and its row appear together.
Commit(p) ==
  /\ pc[p] = "commit"
  /\ \E v \in Versions :
       /\ NextVersion(p, v)
       /\ ran' = [ran EXCEPT ![v] = @ + 1]
       /\ schema' = [schema EXCEPT ![v] = bundle[p][v]]
       /\ history' = [history EXCEPT ![v] = bundle[p][v]]
       /\ passed' = [passed EXCEPT ![p] = @ \cup {v}]
  /\ Goto(p, "loop")
  /\ UNCHANGED <<lock, bundle, seen, outcome, losses>>

\* Mutated form of the finally clause: only a successful call unlocks.
UnlockOnSuccess(p) ==
  /\ pc[p] = "unlock"
  /\ lock' = IF lock = p /\ outcome[p] = "done" THEN NoProc ELSE lock
  /\ Goto(p, "end")
  /\ UNCHANGED <<history, ran, schema, bundle, seen, passed, outcome, losses>>

\* finally: SELECT pg_advisory_unlock.
Unlock(p) ==
  /\ pc[p] = "unlock"
  /\ lock' = IF lock = p THEN NoProc ELSE lock
  /\ Goto(p, "end")
  /\ UNCHANGED <<history, ran, schema, bundle, seen, passed, outcome, losses>>

(* The connection is lost, or the process stops: PostgreSQL rolls back and *)
(* releases the lock; the process is started again from the beginning.     *)
LoseConnection(p) ==
  /\ losses < MaxLosses
  /\ pc[p] \notin {"lock", "end"}
  /\ losses' = losses + 1
  /\ lock' = IF lock = p THEN NoProc ELSE lock
  /\ Goto(p, "lock")
  /\ passed' = [passed EXCEPT ![p] = {}]
  /\ seen' = [seen EXCEPT ![p] = Empty]
  /\ outcome' = [outcome EXCEPT ![p] = "none"]
  /\ UNCHANGED <<history, ran, schema, bundle>>

-----------------------------------------------------------------------------
Statement(p) ==
  \/ Lock(p) \/ CreateTable(p) \/ Fetch(p)
  \/ FinishLoop(p) \/ RejectChanged(p) \/ BeginTransaction(p)
  \/ RunScript(p) \/ Record(p) \/ StatementFails(p) \/ Commit(p)
  \/ Unlock(p)

Next == \E p \in Procs : Statement(p) \/ LoseConnection(p)

Spec == Init /\ [][Next]_vars

(* PostgreSQL answers every statement, and grants a free lock to each      *)
(* process that keeps waiting for it.                                      *)
Fairness == \A p \in Procs : SF_vars(Lock(p)) /\ WF_vars(Statement(p))

FairSpec == Spec /\ Fairness

-----------------------------------------------------------------------------
(* Properties.                                                             *)

(* "Apply each pending migration atomically" (schema.py:60): at every      *)
(* moment, between any statements of any processes and after any lost      *)
(* connection, a version's script has changed the schema, and run once,    *)
(* when its row is there with its checksum, and has not run otherwise.     *)
HistoryDescribesSchema ==
  \A v \in Versions :
    /\ schema[v] = history[v]
    /\ ran[v] = IF history[v] = NoChecksum THEN 0 ELSE 1

(* A process decides by what the database holds: while it is past its read *)
(* of the history, only its own commits have changed it, so no row is ever *)
(* inserted twice.                                                         *)
DecidesOnCurrentHistory ==
  \A p \in Procs :
    /\ outcome[p] # "conflict"
    /\ pc[p] \in {"loop", "script", "record", "commit"} =>
         \A v \in Versions : v \notin passed[p] => history[v] = seen[p][v]

(* A call that returned leaves a database whose history holds all its      *)
(* migrations with their checksums, for good: a later release adds to it,  *)
(* and "rejects migration drift" (schema.py:60).                           *)
ReadyStaysReady ==
  \A p \in Procs : outcome[p] = "done" =>
    \A v \in DOMAIN bundle[p] : history[v] = bundle[p][v]

(* "Apply each pending migration atomically and reject migration drift"    *)
(* (schema.py:60): statement by statement, between other processes, losses *)
(* and failures, each call does what it would do if it applied one version *)
(* in one step and decided by the database as it is.                       *)
Atomic == INSTANCE AtomicMigrations WITH result <- outcome
ImplementsAtomic == Atomic!AtomicSpec

(* Every process ends, also the ones that wait while another is refused,   *)
(* fails or loses its connection.                                          *)
EveryProcessEnds == \A p \in Procs : <>(pc[p] = "end")
=============================================================================
