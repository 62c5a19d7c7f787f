-------------------------- MODULE AtomicMigrations ---------------------------
(***************************************************************************)
(* What db/schema.py promises of a call of apply_migrations: "Apply each   *)
(* pending migration atomically and reject migration drift" (line 60).     *)
(* There is no lock, no copy of the history and no transaction: a call     *)
(* decides by the database as it is at that moment, and a version is       *)
(* applied in one step.                                                    *)
(***************************************************************************)
EXTENDS Naturals

CONSTANTS
  Procs,        \* calls of apply_migrations
  Versions,     \* versions of the bundled scripts, in their order
  Bundles,      \* what a release may bundle: [some versions -> checksums]
  NoChecksum    \* a version that is not applied

VARIABLES
  history,    \* the checksum recorded for each version
  schema,     \* the script whose effects the schema holds, per version
  ran,        \* runs of each version's script
  bundle,     \* the release of each call
  result      \* how each call ended

atomicVars == <<history, schema, ran, bundle, result>>

AtomicInit ==
  /\ history = [v \in Versions |-> NoChecksum]
  /\ schema = [v \in Versions |-> NoChecksum]
  /\ ran = [v \in Versions |-> 0]
  /\ bundle \in [Procs -> Bundles]
  /\ result = [p \in Procs |-> "none"]

\* No version of the database is unknown to the release.
Known(p) == \A v \in Versions : history[v] # NoChecksum => v \in DOMAIN bundle[p]

\* The release's versions before v are applied, from the same scripts.
Reached(p, v) ==
  /\ v \in DOMAIN bundle[p]
  /\ \A u \in DOMAIN bundle[p] : u < v => history[u] = bundle[p][u]

\* Its next pending version is applied and recorded.
Apply(p) ==
  /\ result[p] = "none"
  /\ Known(p)
  /\ \E v \in Versions :
       /\ Reached(p, v)
       /\ history[v] = NoChecksum
       /\ history' = [history EXCEPT ![v] = bundle[p][v]]
       /\ schema' = [schema EXCEPT ![v] = bundle[p][v]]
       /\ ran' = [ran EXCEPT ![v] = @ + 1]
  /\ UNCHANGED <<bundle, result>>

Answer(p, how) ==
  /\ result[p] = "none"
  /\ result' = [result EXCEPT ![p] = how]
  /\ UNCHANGED <<history, schema, ran, bundle>>

\* The call returns: the database is exactly what its release bundles.
Succeed(p) ==
  /\ Known(p)
  /\ \A v \in DOMAIN bundle[p] : history[v] = bundle[p][v]
  /\ Answer(p, "done")

RefuseUnknown(p) == ~Known(p) /\ Answer(p, "unknown")

\* Drift: a version was applied from another script.
RefuseChanged(p) ==
  /\ Known(p)
  /\ \E v \in Versions : Reached(p, v) /\ history[v] \notin {NoChecksum, bundle[p][v]}
  /\ Answer(p, "changed")

Fail(p) == Answer(p, "failed")

\* A call whose connection was lost starts again, with no trace of it.
Restart(p) ==
  /\ result' = [result EXCEPT ![p] = "none"]
  /\ UNCHANGED <<history, schema, ran, bundle>>

AtomicNext ==
  \E p \in Procs :
    Apply(p) \/ Succeed(p) \/ RefuseUnknown(p) \/ RefuseChanged(p) \/ Fail(p) \/ Restart(p)

AtomicSpec == AtomicInit /\ [][AtomicNext]_atomicVars
=============================================================================
