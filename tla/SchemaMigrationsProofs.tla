------------------------ MODULE SchemaMigrationsProofs ------------------------
(***************************************************************************)
(* Proofs about SchemaMigrations for any number of processes, versions,    *)
(* releases and lost connections.                                          *)
(***************************************************************************)
EXTENDS SchemaMigrations, TLAPS

(* Every step keeps the types: one case per statement.                     *)
LEMMA TypeStep == TypeOK /\ [Next]_vars => TypeOK'
<1> SUFFICES ASSUME TypeOK, [Next]_vars PROVE TypeOK'
  OBVIOUS
<1> USE NullsAssumption DEF TypeOK, Steps, Outcomes, History, Goto, End
<1>1. ASSUME NEW p \in Procs, Lock(p) PROVE TypeOK'
  BY <1>1 DEF Lock
<1>2. ASSUME NEW p \in Procs, CreateTable(p) \/ BeginTransaction(p) \/ RunScript(p)
      PROVE  TypeOK'
  BY <1>2 DEF CreateTable, BeginTransaction, RunScript
<1>3. ASSUME NEW p \in Procs, Fetch(p) PROVE TypeOK'
  BY <1>3 DEF Fetch
<1>4. ASSUME NEW p \in Procs, FinishLoop(p) \/ RejectChanged(p) \/ StatementFails(p)
      PROVE  TypeOK'
  BY <1>4 DEF FinishLoop, RejectChanged, StatementFails
<1>5. ASSUME NEW p \in Procs, Record(p) PROVE TypeOK'
  BY <1>5 DEF Record
<1>6. ASSUME NEW p \in Procs, Commit(p) PROVE TypeOK'
  <2>1. PICK v \in Versions :
          /\ NextVersion(p, v)
          /\ ran' = [ran EXCEPT ![v] = @ + 1]
          /\ schema' = [schema EXCEPT ![v] = bundle[p][v]]
          /\ history' = [history EXCEPT ![v] = bundle[p][v]]
          /\ passed' = [passed EXCEPT ![p] = @ \cup {v}]
    BY <1>6 DEF Commit
  <2>2. bundle[p][v] \in Checksums
    BY <2>1, BundlesAssumption DEF NextVersion, Remaining
  <2> QED
    BY <1>6, <2>1, <2>2 DEF Commit
<1>7. ASSUME NEW p \in Procs, Unlock(p) PROVE TypeOK'
  BY <1>7 DEF Unlock
<1>8. ASSUME NEW p \in Procs, LoseConnection(p) PROVE TypeOK'
  BY <1>8 DEF LoseConnection, Empty
<1>9. CASE UNCHANGED vars
  BY <1>9 DEF vars
<1> HIDE DEF TypeOK
<1> QED
  BY <1>1, <1>2, <1>3, <1>4, <1>5, <1>6, <1>7, <1>8, <1>9 DEF Next, Statement

(* Every variable keeps its type: what a transaction writes is a checksum  *)
(* of its release's bundle, and no process leaves the calls of             *)
(* apply_migrations.                                                       *)
THEOREM TypeCorrect == Spec => []TypeOK
<1>1. Init => TypeOK
  BY NullsAssumption DEF Init, TypeOK, Steps, Outcomes, History, Empty
<1> QED
  BY <1>1, TypeStep, PTL DEF Spec

-----------------------------------------------------------------------------
(* The inductive invariant.                                                *)

\* The statements between the read of the history and the end of the loop.
Looping == {"loop", "script", "record", "commit"}

\* A process past its first statement holds the advisory lock.
LockHeld == \A p \in Procs : pc[p] \notin {"lock", "end"} => lock = p

\* A process has passed nothing before it reads the history.
NothingPassed ==
  \A p \in Procs : pc[p] \in {"lock", "create", "fetch"} => passed[p] = {}

\* What a process has passed is in the history as its release bundles it.
PassedRecorded ==
  \A p \in Procs : pc[p] \in Looping =>
    \A v \in passed[p] : v \in DOMAIN bundle[p] /\ history[v] = bundle[p][v]

\* The history holds no version that a process in its loop does not bundle.
HistoryKnown ==
  \A p \in Procs : pc[p] \in Looping =>
    \A v \in Versions : history[v] # NoChecksum => v \in DOMAIN bundle[p]

\* A transaction is open for the next version, which had no row.
TransactionPending ==
  \A p \in Procs : pc[p] \in {"script", "record", "commit"} =>
    \E v \in Versions : NextVersion(p, v) /\ seen[p][v] = NoChecksum

MigrationInv ==
  /\ TypeOK
  /\ LockHeld
  /\ NothingPassed
  /\ DecidesOnCurrentHistory
  /\ PassedRecorded
  /\ HistoryKnown
  /\ TransactionPending
  /\ HistoryDescribesSchema
  /\ ReadyStaysReady

\* The next version is unique: versions are ordered.
LEMMA NextUnique ==
  ASSUME TypeOK, NEW p \in Procs, NEW u \in Versions, NEW v \in Versions,
         NextVersion(p, u), NextVersion(p, v)
  PROVE  u = v
  BY VersionsAssumption DEF NextVersion

\* The invariant holds of a database without history.
LEMMA InvInit == Init => MigrationInv
<1> SUFFICES ASSUME Init PROVE MigrationInv
  OBVIOUS
<1>1. TypeOK
  BY NullsAssumption DEF Init, TypeOK, Steps, Outcomes, History, Empty
<1> QED
  BY <1>1 DEF Init, MigrationInv, LockHeld, NothingPassed, DecidesOnCurrentHistory,
     PassedRecorded, HistoryKnown, TransactionPending, HistoryDescribesSchema,
     ReadyStaysReady, Empty, Looping

\* What a step of p that leaves the database alone keeps of the invariant.
Private(p) ==
  /\ UNCHANGED <<history, ran, schema, bundle>>
  /\ \A q \in Procs \ {p} :
       pc'[q] = pc[q] /\ seen'[q] = seen[q] /\ passed'[q] = passed[q] /\ outcome'[q] = outcome[q]

\* What the invariant says of the process p alone.
OwnInv(p) ==
  /\ pc[p] \notin {"lock", "end"} => lock = p
  /\ pc[p] \in {"lock", "create", "fetch"} => passed[p] = {}
  /\ outcome[p] # "conflict"
  /\ outcome[p] = "done" => \A v \in DOMAIN bundle[p] : history[v] = bundle[p][v]
  /\ pc[p] \in Looping =>
       /\ \A v \in Versions : v \notin passed[p] => history[v] = seen[p][v]
       /\ \A v \in passed[p] : v \in DOMAIN bundle[p] /\ history[v] = bundle[p][v]
       /\ \A v \in Versions : history[v] # NoChecksum => v \in DOMAIN bundle[p]
  /\ pc[p] \in {"script", "record", "commit"} =>
       \E v \in Versions : NextVersion(p, v) /\ seen[p][v] = NoChecksum

\* The invariant, process by process.
LEMMA InvByProcess ==
  MigrationInv <=> /\ TypeOK /\ HistoryDescribesSchema
                   /\ \A p \in Procs : OwnInv(p)
  BY DEF MigrationInv, OwnInv, LockHeld, NothingPassed, DecidesOnCurrentHistory,
     PassedRecorded, HistoryKnown, TransactionPending, ReadyStaysReady, Looping

(* A step that leaves the database alone keeps the invariant if it keeps   *)
(* what is said of its process and takes the lock from nobody.             *)
LEMMA PrivateStep ==
  ASSUME MigrationInv, TypeOK', NEW p \in Procs, Private(p), OwnInv(p)',
         lock' # lock => lock = p \/ lock = NoProc
  PROVE  MigrationInv'
<1>1. HistoryDescribesSchema'
  BY DEF MigrationInv, HistoryDescribesSchema, Private
<1>2. ASSUME NEW q \in Procs \ {p} PROVE OwnInv(q)'
  <2>1. OwnInv(q)
    BY InvByProcess
  <2>2. pc[q] \notin {"lock", "end"} => lock' = q
    BY <2>1, NullsAssumption DEF OwnInv
  <2>3. \A v \in Versions : NextVersion(q, v)' <=> NextVersion(q, v)
    BY DEF NextVersion, Remaining, Private
  <2> QED
    BY <2>1, <2>2, <2>3 DEF OwnInv, Private
<1>3. MigrationInv' <=> /\ TypeOK' /\ HistoryDescribesSchema'
                        /\ \A q \in Procs : OwnInv(q)'
  BY DEF MigrationInv, OwnInv, LockHeld, NothingPassed, DecidesOnCurrentHistory,
     PassedRecorded, HistoryKnown, TransactionPending, ReadyStaysReady, Looping
<1> QED
  BY <1>1, <1>2, <1>3

(* A commit adds its release's script and its row to a version that had    *)
(* neither, while every other process is outside its loop.                 *)
LEMMA CommitStep ==
  ASSUME MigrationInv, TypeOK', NEW p \in Procs, Commit(p)
  PROVE  MigrationInv'
<1>1. PICK v \in Versions :
        /\ NextVersion(p, v)
        /\ ran' = [ran EXCEPT ![v] = @ + 1]
        /\ schema' = [schema EXCEPT ![v] = bundle[p][v]]
        /\ history' = [history EXCEPT ![v] = bundle[p][v]]
        /\ passed' = [passed EXCEPT ![p] = @ \cup {v}]
  BY DEF Commit
<1>2. pc[p] = "commit" /\ pc' = [pc EXCEPT ![p] = "loop"]
      /\ UNCHANGED <<lock, bundle, seen, outcome, losses>>
  BY DEF Commit, Goto
<1>3. OwnInv(p) /\ TypeOK /\ HistoryDescribesSchema
  BY InvByProcess
<1>4. seen[p][v] = NoChecksum
  <2>1. PICK u \in Versions : NextVersion(p, u) /\ seen[p][u] = NoChecksum
    BY <1>2, <1>3 DEF OwnInv
  <2> QED
    BY <1>1, <1>3, <2>1, NextUnique
<1>5. v \in DOMAIN bundle[p] /\ v \notin passed[p] /\ bundle[p][v] \in Checksums
      /\ bundle[p][v] # NoChecksum
  BY <1>1, <1>3, BundlesAssumption, NullsAssumption DEF NextVersion, Remaining, TypeOK
<1>6. history[v] = NoChecksum /\ ran[v] = 0
  <2>1. history[v] = NoChecksum
    BY <1>2, <1>3, <1>4, <1>5 DEF OwnInv, Looping
  <2> QED
    BY <1>3, <2>1 DEF HistoryDescribesSchema, TypeOK
<1>7. \A w \in Versions :
        IF w = v THEN /\ history'[w] = bundle[p][v] /\ schema'[w] = bundle[p][v]
                      /\ ran'[w] = 1
        ELSE history'[w] = history[w] /\ schema'[w] = schema[w] /\ ran'[w] = ran[w]
  BY <1>1, <1>3, <1>6 DEF TypeOK, History
<1>8. HistoryDescribesSchema'
  BY <1>3, <1>5, <1>7 DEF HistoryDescribesSchema
<1>9. OwnInv(p)'
  <2>1. pc'[p] = "loop" /\ lock' = p /\ outcome'[p] # "conflict"
    BY <1>2, <1>3 DEF OwnInv, TypeOK
  <2>2. passed'[p] = passed[p] \cup {v}
    BY <1>1, <1>3 DEF TypeOK
  <2>3. \A w \in Versions : w \notin passed'[p] => history'[w] = seen'[p][w]
    BY <1>2, <1>3, <1>7, <2>2 DEF OwnInv, Looping
  <2>4. passed[p] \subseteq Versions /\ v \notin passed[p]
    BY <1>3, <1>5 DEF TypeOK
  <2>5. \A w \in passed'[p] : w \in DOMAIN bundle'[p] /\ history'[w] = bundle'[p][w]
    BY <1>2, <1>3, <1>5, <1>7, <2>2, <2>4 DEF OwnInv, Looping
  <2>6. \A w \in Versions : history'[w] # NoChecksum => w \in DOMAIN bundle'[p]
    BY <1>2, <1>3, <1>5, <1>7 DEF OwnInv, Looping
  <2>7. ASSUME outcome'[p] = "done", NEW w \in DOMAIN bundle'[p]
        PROVE  history'[w] = bundle'[p][w]
    <3>1. w \in Versions
      BY <1>2, <1>3, <2>7, BundlesAssumption DEF TypeOK
    <3> QED
      BY <1>2, <1>3, <1>7, <2>7, <3>1 DEF OwnInv
  <2> QED
    BY <2>1, <2>3, <2>5, <2>6, <2>7 DEF OwnInv
<1>10. ASSUME NEW q \in Procs \ {p} PROVE OwnInv(q)'
  <2>1. OwnInv(q) /\ pc'[q] = pc[q] /\ passed'[q] = passed[q]
    BY <1>1, <1>2, <1>3, InvByProcess DEF TypeOK
  <2>2. lock = p
    BY <1>2, <1>3 DEF OwnInv
  <2>3. pc[q] \in {"lock", "end"}
    BY <2>1, <2>2 DEF OwnInv
  <2>4. ASSUME outcome[q] = "done", NEW w \in DOMAIN bundle[q]
        PROVE  history'[w] = bundle[q][w]
    <3>1. w \in Versions /\ bundle[q][w] \in Checksums
      BY <1>3, <2>4, BundlesAssumption DEF TypeOK
    <3>2. history[w] = bundle[q][w]
      BY <2>1, <2>4 DEF OwnInv
    <3>3. w # v
      BY <1>6, <3>1, <3>2, NullsAssumption
    <3> QED
      BY <1>7, <3>1, <3>2, <3>3
  <2> QED
    BY <1>2, <2>1, <2>3, <2>4 DEF OwnInv, Looping
<1> QED
  BY <1>8, <1>9, <1>10
     DEF MigrationInv, OwnInv, LockHeld, NothingPassed, DecidesOnCurrentHistory,
     PassedRecorded, HistoryKnown, TransactionPending, ReadyStaysReady, Looping

(* Every step keeps the invariant: a commit by the lemma above, every      *)
(* other statement by what it leaves true of its own process.              *)
LEMMA InvStep == MigrationInv /\ [Next]_vars => MigrationInv'
<1> SUFFICES ASSUME MigrationInv, [Next]_vars PROVE MigrationInv'
  OBVIOUS
<1>t. TypeOK /\ TypeOK'
  BY TypeStep DEF MigrationInv
<1>p. \A p \in Procs : OwnInv(p)
  BY InvByProcess
<1>1. ASSUME NEW p \in Procs, Lock(p) PROVE MigrationInv'
  <2>1. Private(p) /\ lock = NoProc /\ lock' = p /\ pc'[p] = "create"
    BY <1>1, <1>t DEF Lock, Goto, Private, TypeOK
  <2>2. OwnInv(p)'
    BY <1>1, <1>p, <2>1 DEF OwnInv, Looping, Lock, Private
  <2> QED
    BY <1>t, <2>1, <2>2, PrivateStep
<1>2. ASSUME NEW p \in Procs, CreateTable(p) PROVE MigrationInv'
  <2>1. Private(p) /\ lock' = lock /\ pc'[p] = "fetch" /\ pc[p] = "create"
    BY <1>2, <1>t DEF CreateTable, Goto, Private, TypeOK
  <2>2. OwnInv(p)'
    BY <1>2, <1>p, <2>1 DEF OwnInv, Looping, CreateTable, Private
  <2> QED
    BY <1>t, <2>1, <2>2, PrivateStep
<1>3. ASSUME NEW p \in Procs, Fetch(p) PROVE MigrationInv'
  <2>1. Private(p) /\ lock' = lock /\ pc[p] = "fetch" /\ passed'[p] = passed[p]
        /\ seen'[p] = history
    BY <1>3, <1>t DEF Fetch, Goto, End, Private, TypeOK
  <2>2. \/ pc'[p] = "unlock" /\ outcome'[p] = "unknown"
        \/ pc'[p] = "loop" /\ outcome'[p] = outcome[p] /\ Unknown(p) = {}
    BY <1>3, <1>t DEF Fetch, Goto, End, TypeOK
  <2>3. OwnInv(p)'
    BY <1>p, <2>1, <2>2 DEF OwnInv, Looping, Private, Unknown
  <2> QED
    BY <1>t, <2>1, <2>3, PrivateStep
<1>4. ASSUME NEW p \in Procs, FinishLoop(p) PROVE MigrationInv'
  <2>1. /\ Private(p) /\ UNCHANGED <<lock, seen, passed>>
        /\ pc[p] = "loop" /\ pc'[p] = "unlock" /\ outcome'[p] = "done"
        /\ Remaining(p) = {}
    BY <1>4, <1>t DEF FinishLoop, Goto, End, Private, TypeOK
  <2>2. OwnInv(p)
    BY <1>p
  <2>3. ASSUME NEW v \in DOMAIN bundle[p] PROVE history[v] = bundle[p][v]
    <3>1. v \in Versions
      BY <1>t, BundlesAssumption DEF TypeOK
    <3>2. CASE v \in passed[p]
      BY <2>1, <2>2, <3>2 DEF OwnInv, Looping
    <3>3. CASE v \notin passed[p]
      BY <2>1, <2>2, <3>1, <3>3 DEF OwnInv, Looping, Remaining
    <3> QED
      BY <3>2, <3>3
  <2>4. OwnInv(p)'
    BY <2>1, <2>2, <2>3 DEF OwnInv, Looping, Private
  <2> QED
    BY <1>t, <2>1, <2>4, PrivateStep
<1>5. ASSUME NEW p \in Procs, RejectChanged(p) \/ StatementFails(p) PROVE MigrationInv'
  <2>1. /\ Private(p) /\ UNCHANGED <<lock, seen, passed>>
        /\ pc[p] \notin {"lock", "end"}
        /\ pc'[p] = "unlock" /\ outcome'[p] \in {"changed", "failed"}
    BY <1>5, <1>t DEF RejectChanged, StatementFails, Goto, End, Private, TypeOK
  <2>2. OwnInv(p)'
    BY <1>p, <2>1 DEF OwnInv, Looping, Private
  <2> QED
    BY <1>t, <2>1, <2>2, PrivateStep
<1>6. ASSUME NEW p \in Procs, BeginTransaction(p) PROVE MigrationInv'
  <2>1. /\ Private(p) /\ UNCHANGED <<lock, seen, passed, outcome>>
        /\ pc[p] = "loop" /\ pc'[p] = "script"
        /\ \E v \in Versions : NextVersion(p, v) /\ seen[p][v] = NoChecksum
    BY <1>6, <1>t DEF BeginTransaction, Goto, Private, TypeOK
  <2>2. \A v \in Versions : NextVersion(p, v)' <=> NextVersion(p, v)
    BY <2>1 DEF NextVersion, Remaining, Private
  <2>3. OwnInv(p)'
    BY <1>p, <2>1, <2>2 DEF OwnInv, Looping, Private
  <2> QED
    BY <1>t, <2>1, <2>3, PrivateStep
<1>7. ASSUME NEW p \in Procs, RunScript(p) PROVE MigrationInv'
  <2>1. /\ Private(p) /\ UNCHANGED <<lock, seen, passed, outcome>>
        /\ pc[p] = "script" /\ pc'[p] = "record"
    BY <1>7, <1>t DEF RunScript, Goto, Private, TypeOK
  <2>2. \A v \in Versions : NextVersion(p, v)' <=> NextVersion(p, v)
    BY <2>1 DEF NextVersion, Remaining, Private
  <2>3. OwnInv(p)'
    BY <1>p, <2>1, <2>2 DEF OwnInv, Looping, Private
  <2> QED
    BY <1>t, <2>1, <2>3, PrivateStep
<1>8. ASSUME NEW p \in Procs, Record(p) PROVE MigrationInv'
  <2>1. /\ Private(p) /\ UNCHANGED <<lock, seen, passed>> /\ pc[p] = "record"
    BY <1>8, <1>t DEF Record, Goto, End, Private, TypeOK
  <2>2. OwnInv(p)
    BY <1>p
  <2>3. ~ \E v \in Versions : NextVersion(p, v) /\ history[v] # NoChecksum
    <3>1. PICK u \in Versions : NextVersion(p, u) /\ seen[p][u] = NoChecksum
      BY <2>1, <2>2 DEF OwnInv
    <3>2. history[u] = NoChecksum
      BY <2>1, <2>2, <3>1 DEF OwnInv, Looping, NextVersion, Remaining
    <3> QED
      BY <1>t, <3>1, <3>2, NextUnique
  <2>4. pc'[p] = "commit" /\ outcome' = outcome
    BY <1>8, <1>t, <2>3 DEF Record, Goto, TypeOK
  <2>5. \A v \in Versions : NextVersion(p, v)' <=> NextVersion(p, v)
    BY <2>1 DEF NextVersion, Remaining, Private
  <2>6. OwnInv(p)'
    BY <2>1, <2>2, <2>4, <2>5 DEF OwnInv, Looping, Private
  <2> QED
    BY <1>t, <2>1, <2>6, PrivateStep
<1>9. ASSUME NEW p \in Procs, Unlock(p) PROVE MigrationInv'
  <2>1. /\ Private(p) /\ UNCHANGED <<seen, passed, outcome>> /\ pc'[p] = "end"
        /\ lock' # lock => lock = p
    BY <1>9, <1>t DEF Unlock, Goto, Private, TypeOK
  <2>2. OwnInv(p)'
    BY <1>p, <2>1 DEF OwnInv, Looping, Private
  <2> QED
    BY <1>t, <2>1, <2>2, PrivateStep
<1>10. ASSUME NEW p \in Procs, LoseConnection(p) PROVE MigrationInv'
  <2>1. /\ Private(p) /\ pc'[p] = "lock" /\ passed'[p] = {} /\ outcome'[p] = "none"
        /\ lock' # lock => lock = p
    BY <1>10, <1>t DEF LoseConnection, Goto, Private, TypeOK
  <2>2. OwnInv(p)'
    BY <2>1 DEF OwnInv, Looping
  <2> QED
    BY <1>t, <2>1, <2>2, PrivateStep
<1>11. ASSUME NEW p \in Procs, Commit(p) PROVE MigrationInv'
  BY <1>t, <1>11, CommitStep
<1>12. CASE UNCHANGED vars
  BY <1>12, <1>t DEF vars, MigrationInv, LockHeld, NothingPassed, DecidesOnCurrentHistory,
     PassedRecorded, HistoryKnown, TransactionPending, HistoryDescribesSchema,
     ReadyStaysReady, Looping, NextVersion, Remaining
<1> QED
  BY <1>1, <1>2, <1>3, <1>4, <1>5, <1>6, <1>7, <1>8, <1>9, <1>10, <1>11, <1>12
     DEF Next, Statement

\* The invariant holds in every behavior.
LEMMA Invariant == Spec => []MigrationInv
  BY InvInit, InvStep, PTL DEF Spec

-----------------------------------------------------------------------------
(* "Apply each pending migration atomically" (schema.py:60): the rows and  *)
(* the scripts that changed the schema always agree, and none runs twice.  *)
THEOREM HistoryExact == Spec => []HistoryDescribesSchema
<1>1. MigrationInv => HistoryDescribesSchema
  BY DEF MigrationInv
<1> QED
  BY <1>1, Invariant, PTL

(* What a process read stays what the database holds, but for its own      *)
(* commits, until it unlocks: the advisory lock covers the whole decision. *)
THEOREM DecisionsCurrent == Spec => []DecidesOnCurrentHistory
<1>1. MigrationInv => DecidesOnCurrentHistory
  BY DEF MigrationInv
<1> QED
  BY <1>1, Invariant, PTL

(* A database that a call left ready stays ready for that release's        *)
(* scripts, whatever other releases do later.                              *)
THEOREM StaysReady == Spec => []ReadyStaysReady
<1>1. MigrationInv => ReadyStaysReady
  BY DEF MigrationInv
<1> QED
  BY <1>1, Invariant, PTL

(* A release never changes a database that a newer release migrated: it    *)
(* refuses versions "unknown to this release" (schema.py:78-83), also when *)
(* the newer release migrates while it waits.                              *)
UnknownStep ==
  \A p \in Procs :
    pc[p] = "commit" /\ pc'[p] = "loop" =>
      \A v \in Versions : history[v] # NoChecksum => v \in DOMAIN bundle[p]
OldReleaseChangesNothing == [][UnknownStep]_vars

(* No release commits anything to a database that holds versions unknown   *)
(* to it (schema.py:78-83).                                                *)
THEOREM OldReleaseHarmless == Spec => OldReleaseChangesNothing
<1>1. MigrationInv /\ [Next]_vars => [UnknownStep]_vars
  BY DEF MigrationInv, HistoryKnown, UnknownStep, Looping
<1> QED
  BY <1>1, Invariant, PTL DEF Spec, OldReleaseChangesNothing

-----------------------------------------------------------------------------
(* SchemaMigrations implements AtomicMigrations.                           *)

\* A call answers when it goes on to unlock, and not before.
StillRunning == \A p \in Procs : pc[p] \notin {"unlock", "end"} => outcome[p] = "none"

\* Every statement keeps it.
LEMMA StillRunningStep ==
  ASSUME TypeOK, StillRunning, [Next]_vars
  PROVE  StillRunning'
<1> USE DEF TypeOK, StillRunning, Goto, End
<1>1. ASSUME NEW p \in Procs,
             Lock(p) \/ CreateTable(p) \/ BeginTransaction(p) \/ RunScript(p) \/ Unlock(p)
      PROVE  StillRunning'
  BY <1>1 DEF Lock, CreateTable, BeginTransaction, RunScript, Unlock
<1>2. ASSUME NEW p \in Procs, FinishLoop(p) \/ RejectChanged(p) \/ StatementFails(p)
      PROVE  StillRunning'
  BY <1>2 DEF FinishLoop, RejectChanged, StatementFails
<1>3. ASSUME NEW p \in Procs, Fetch(p) \/ Record(p) PROVE StillRunning'
  BY <1>3 DEF Fetch, Record
<1>4. ASSUME NEW p \in Procs, Commit(p) \/ LoseConnection(p) PROVE StillRunning'
  BY <1>4 DEF Commit, LoseConnection
<1>5. CASE UNCHANGED vars
  BY <1>5 DEF vars
<1> HIDE DEF StillRunning
<1> QED
  BY <1>1, <1>2, <1>3, <1>4, <1>5 DEF Next, Statement

\* A process in its loop knows every version of the database, and what comes
\* before its next version is applied as it bundles it.
LEMMA LoopReached ==
  ASSUME MigrationInv, NEW p \in Procs, pc[p] \in Looping
  PROVE  /\ Atomic!Known(p)
         /\ \A v \in Versions : NextVersion(p, v) =>
              /\ Atomic!Reached(p, v)
              /\ history[v] = seen[p][v] /\ history[v] # bundle[p][v]
         /\ Remaining(p) = {} => \A v \in DOMAIN bundle[p] : history[v] = bundle[p][v]
<1>1. OwnInv(p) /\ TypeOK
  BY InvByProcess
<1>2. \A v \in DOMAIN bundle[p] : v \in Versions
  BY <1>1, BundlesAssumption DEF TypeOK
<1>3. \A v \in DOMAIN bundle[p] : v \notin Remaining(p) => history[v] = bundle[p][v]
  BY <1>1, <1>2 DEF OwnInv, Remaining
<1>4. Atomic!Known(p)
  BY <1>1 DEF OwnInv, Atomic!Known
<1>5. ASSUME NEW v \in Versions, NextVersion(p, v)
      PROVE  /\ Atomic!Reached(p, v)
             /\ history[v] = seen[p][v] /\ history[v] # bundle[p][v]
  <2>1. v \in DOMAIN bundle[p] /\ v \notin passed[p] /\ seen[p][v] # bundle[p][v]
    BY <1>5 DEF NextVersion, Remaining
  <2>2. \A u \in DOMAIN bundle[p] : u < v => u \notin Remaining(p)
    BY <1>2, <1>5, VersionsAssumption DEF NextVersion
  <2> QED
    BY <1>1, <1>3, <2>1, <2>2 DEF OwnInv, Atomic!Reached
<1> QED
  BY <1>3, <1>4, <1>5

(* Every statement is an atomic call's step or changes nothing of it: a    *)
(* commit is Apply, the ends of the call are its answers, and the          *)
(* statements between, whose effects are private to their session, stutter. *)
LEMMA AtomicStep ==
  ASSUME MigrationInv, MigrationInv', StillRunning, [Next]_vars
  PROVE  [Atomic!AtomicNext]_(Atomic!atomicVars)
<1> DEFINE Simulated == [Atomic!AtomicNext]_(Atomic!atomicVars)
<1>a. TypeOK /\ \A p \in Procs : OwnInv(p) /\ outcome'[p] # "conflict"
  BY InvByProcess DEF MigrationInv, DecidesOnCurrentHistory
<1> USE DEF Atomic!AtomicNext, Atomic!atomicVars
<1>1. ASSUME NEW p \in Procs,
             Lock(p) \/ CreateTable(p) \/ BeginTransaction(p) \/ RunScript(p) \/ Unlock(p)
      PROVE  Simulated
  BY <1>1 DEF Lock, CreateTable, BeginTransaction, RunScript, Unlock
<1>2. ASSUME NEW p \in Procs, Fetch(p) PROVE Simulated
  <2>1. /\ outcome[p] = "none" /\ UNCHANGED <<history, schema, ran, bundle>>
        /\ \/ outcome' = outcome
           \/ Unknown(p) # {} /\ outcome' = [outcome EXCEPT ![p] = "unknown"]
    BY <1>2 DEF Fetch, End, Goto, StillRunning
  <2>2. Unknown(p) # {} => ~Atomic!Known(p)
    BY DEF Unknown, Atomic!Known
  <2>3. \/ outcome' = outcome
        \/ Atomic!RefuseUnknown(p)
    BY <2>1, <2>2 DEF Atomic!RefuseUnknown, Atomic!Answer
  <2> QED
    BY <2>1, <2>3
<1>3. ASSUME NEW p \in Procs, FinishLoop(p) PROVE Simulated
  <2>1. /\ pc[p] \in Looping /\ Remaining(p) = {}
        /\ outcome[p] = "none" /\ outcome' = [outcome EXCEPT ![p] = "done"]
        /\ UNCHANGED <<history, schema, ran, bundle>>
    BY <1>3 DEF FinishLoop, End, Goto, StillRunning, Looping
  <2>2. Atomic!Succeed(p)
    BY <2>1, LoopReached DEF Atomic!Succeed, Atomic!Answer
  <2> QED
    BY <2>2
<1>4. ASSUME NEW p \in Procs, RejectChanged(p) PROVE Simulated
  <2>1. /\ pc[p] \in Looping
        /\ outcome[p] = "none" /\ outcome' = [outcome EXCEPT ![p] = "changed"]
        /\ UNCHANGED <<history, schema, ran, bundle>>
    BY <1>4 DEF RejectChanged, End, Goto, StillRunning, Looping
  <2>2. PICK v \in Versions : NextVersion(p, v) /\ seen[p][v] # NoChecksum
    BY <1>4 DEF RejectChanged
  <2>3. Atomic!RefuseChanged(p)
    BY <2>1, <2>2, LoopReached DEF Atomic!RefuseChanged, Atomic!Answer
  <2> QED
    BY <2>3
<1>5. ASSUME NEW p \in Procs, StatementFails(p) PROVE Simulated
  <2>1. Atomic!Fail(p)
    BY <1>5 DEF StatementFails, End, Goto, StillRunning, Atomic!Fail, Atomic!Answer
  <2> QED
    BY <2>1
<1>6. ASSUME NEW p \in Procs, Record(p) PROVE Simulated
  <2>1. outcome' = outcome
    BY <1>6, <1>a DEF Record, End, Goto, TypeOK
  <2> QED
    BY <1>6, <2>1 DEF Record
<1>7. ASSUME NEW p \in Procs, Commit(p) PROVE Simulated
  <2>1. PICK v \in Versions :
          /\ NextVersion(p, v)
          /\ ran' = [ran EXCEPT ![v] = @ + 1]
          /\ schema' = [schema EXCEPT ![v] = bundle[p][v]]
          /\ history' = [history EXCEPT ![v] = bundle[p][v]]
    BY <1>7 DEF Commit
  <2>2. pc[p] = "commit" /\ outcome[p] = "none" /\ UNCHANGED <<bundle, outcome>>
    BY <1>7 DEF Commit, StillRunning
  <2>3. seen[p][v] = NoChecksum
    <3>1. PICK u \in Versions : NextVersion(p, u) /\ seen[p][u] = NoChecksum
      BY <1>a, <2>2 DEF OwnInv
    <3> QED
      BY <1>a, <2>1, <3>1, NextUnique
  <2>4. pc[p] \in Looping
    BY <2>2 DEF Looping
  <2>5. Atomic!Apply(p)
    BY <2>1, <2>2, <2>3, <2>4, LoopReached DEF Atomic!Apply
  <2> QED
    BY <2>5
<1>8. ASSUME NEW p \in Procs, LoseConnection(p) PROVE Simulated
  <2>1. Atomic!Restart(p)
    BY <1>8 DEF LoseConnection, Goto, Atomic!Restart
  <2> QED
    BY <2>1
<1>9. ASSUME UNCHANGED <<history, schema, ran, bundle, outcome>> PROVE Simulated
  BY <1>9
<1> HIDE DEF Simulated, Atomic!AtomicNext, Atomic!atomicVars
<1>10. ASSUME NEW p \in Procs, Statement(p) PROVE Simulated
  BY <1>1, <1>2, <1>3, <1>4, <1>5, <1>6, <1>7, <1>10 DEF Statement
<1>11. Simulated
  <2>1. CASE Next
    <3>1. PICK p \in Procs : Statement(p) \/ LoseConnection(p)
      BY <2>1 DEF Next
    <3>2. CASE Statement(p)
      BY <1>10, <3>2
    <3>3. CASE LoseConnection(p)
      BY <1>8, <3>3
    <3> QED
      BY <3>1, <3>2, <3>3
  <2>2. CASE UNCHANGED vars
    BY <1>9, <2>2 DEF vars
  <2> QED
    BY <2>1, <2>2
<1> QED
  BY <1>11 DEF Simulated

(* Each call applies its versions as if each were one step on the database *)
(* as it is (schema.py:60): lock, history read and transactions together   *)
(* implement that, and a lost connection leaves no trace.                  *)
THEOREM AtomicImplemented == Spec => ImplementsAtomic
<1>1. Init => StillRunning /\ Atomic!AtomicInit
  BY DEF Init, StillRunning, Empty, Atomic!AtomicInit
<1>2. MigrationInv /\ StillRunning /\ [Next]_vars => StillRunning'
  BY StillRunningStep DEF MigrationInv
<1>3. MigrationInv /\ MigrationInv' /\ StillRunning /\ [Next]_vars
        => [Atomic!AtomicNext]_(Atomic!atomicVars)
  BY AtomicStep
<1>4. Spec => Atomic!AtomicInit /\ [][Atomic!AtomicNext]_(Atomic!atomicVars)
  BY <1>1, <1>2, <1>3, Invariant, PTL DEF Spec
<1> QED
  BY <1>4 DEF ImplementsAtomic, Atomic!AtomicSpec
=============================================================================
