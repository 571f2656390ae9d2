----------------------------- MODULE Migrations -----------------------------
(***************************************************************************)
(* Schema migrations: cmd/migrate applies the files embedded in its build, *)
(* the API only checks that they were applied and refuses to start         *)
(* otherwise (backend/internal/platform/postgres/migrate.go).  Several     *)
(* migrate commands may run at once, of the same or of different builds;   *)
(* each may lose its connection at any statement, and may lose only the    *)
(* answer to a commit.                                                     *)
(*                                                                         *)
(* A file is a version and the checksum of its text.  What the SQL does to *)
(* the schema is recorded as the version alone, with the versions that had *)
(* taken effect before it.                                                 *)
(***************************************************************************)
EXTENDS Integers, FiniteSets

CONSTANTS
  Builds,       \* the builds that are deployed
  Files,        \* the migration files of each build
  Migrators,    \* the migrate commands that may run at once
  Replicas,     \* the API processes
  NoOne,        \* nobody holds the advisory lock; nothing is served
  MaxFaults     \* bound: connections lost

Versions == {f.version : f \in UNION {Files[b] : b \in Builds}}

ASSUME MigrationsAssumption ==
  /\ NoOne \notin Migrators /\ NoOne \notin Builds
  /\ \A b \in Builds : \A f \in Files[b] : f.version \in Nat \ {0}

\* Builds are cut from one line of releases, which numbers its files upwards: a build
\* with a version has a file for every version below it that any build has.
ASSUME OneLineAssumption ==
  \A b \in Builds : \A f \in Files[b] : \A v \in Versions :
    v < f.version => \E g \in Files[b] : g.version = v

VARIABLES
  applied,      \* schema_migrations: version -> checksum
  effects,      \* history: which version's SQL took effect on which versions
  lock,         \* who holds advisory lock 7204_0001
  migrator,     \* each migrate command: where it is and what it knows
  serving,      \* the build each API process serves, or NoOne
  faults

migrationVars == <<applied, effects, lock, migrator, serving, faults>>

\* schema_migrations as rows: version -> checksum.
NoRows == [v \in {} |-> "none"]

Extended(f, x, y) == [z \in DOMAIN f \cup {x} |-> IF z = x THEN y ELSE f[z]]

-----------------------------------------------------------------------------
(* Load: the files in the order of their versions (after version v comes   *)
(* the next above it), refused when two share one.                         *)

Loads(b) == \A f, g \in Files[b] : f.version = g.version => f = g

After(b, v) == {f \in Files[b] : f.version > v}

Load(b, v) == CHOOSE f \in After(b, v) : \A g \in After(b, v) : f.version <= g.version

\* Fault: a file that was edited after it was applied is not noticed.
Check_Fault(b) == /\ Loads(b)
                  /\ \A f \in Files[b] : f.version \in DOMAIN applied

Check(b) == /\ Loads(b)
            /\ \A f \in Files[b] : /\ f.version \in DOMAIN applied
                                   /\ applied[f.version] = f.sum

-----------------------------------------------------------------------------
(* The migrate command.  The lock is asked for, then the applied versions  *)
(* are read once, then the files are walked: one already applied is        *)
(* skipped if its text is the one recorded, a pending one is run and       *)
(* recorded in one transaction.                                            *)

At(pc, b, seen, v, why) ==
  [pc |-> pc, build |-> b, seen |-> seen, at |-> v, why |-> why]

Ended(p) == migrator[p].pc \in {"idle", "done", "failed"}

Entered(p, pc) == [migrator EXCEPT ![p].pc = pc]

\* The command ends: the deferred unlock, or the end of its session.
Left(p, pc, why) ==
  /\ migrator' = [migrator EXCEPT ![p].pc = pc, ![p].why = why]
  /\ lock' = IF lock = p THEN NoOne ELSE lock

Migrate(p, b) ==
  /\ Ended(p)
  /\ migrator' = [migrator EXCEPT ![p] =
       IF Loads(b) THEN At("lock", b, NoRows, 0, "none")
                   ELSE At("failed", b, NoRows, 0, "duplicate")]
  /\ UNCHANGED <<applied, effects, lock, serving, faults>>

\* Fault: the files are walked without the advisory lock.
AdvisoryLock_Fault(p) ==
  /\ migrator[p].pc = "lock"
  /\ migrator' = Entered(p, "read")
  /\ UNCHANGED <<applied, effects, lock, serving, faults>>

AdvisoryLock(p) ==
  /\ migrator[p].pc = "lock"
  /\ lock = NoOne
  /\ lock' = p
  /\ migrator' = Entered(p, "read")
  /\ UNCHANGED <<applied, effects, serving, faults>>

\* The table is made if it is missing, which nobody can tell from an empty one.
ReadApplied(p) ==
  /\ migrator[p].pc = "read"
  /\ migrator' = [migrator EXCEPT ![p].pc = "files", ![p].seen = applied]
  /\ UNCHANGED <<applied, effects, lock, serving, faults>>

File(p) == Load(migrator[p].build, migrator[p].at)

Walking(p) == /\ migrator[p].pc = "files"
              /\ After(migrator[p].build, migrator[p].at) # {}

SkipFile(p) ==
  /\ Walking(p)
  /\ File(p).version \in DOMAIN migrator[p].seen
  /\ IF migrator[p].seen[File(p).version] = File(p).sum
     THEN migrator' = [migrator EXCEPT ![p].at = File(p).version] /\ UNCHANGED lock
     ELSE Left(p, "failed", "modified")
  /\ UNCHANGED <<applied, effects, serving, faults>>

Effect(v) == [version |-> v, on |-> {e.version : e \in effects}]

Recorded(p) == /\ applied' = Extended(applied, File(p).version, File(p).sum)
               /\ effects' = effects \cup {Effect(File(p).version)}

\* Fault: the SQL and the row that records it are not in one transaction.
ApplyFile_Fault(p) ==
  /\ Walking(p)
  /\ File(p).version \notin DOMAIN migrator[p].seen
  /\ \/ /\ Recorded(p)
        /\ migrator' = [migrator EXCEPT ![p].at = File(p).version]
        /\ UNCHANGED lock
     \/ /\ effects' = effects \cup {Effect(File(p).version)}
        /\ Left(p, "failed", "fault")
        /\ UNCHANGED applied
  /\ UNCHANGED <<serving, faults>>

\* A version already recorded is refused by the table's primary key, and the
\* transaction takes its SQL back with it.
ApplyFile(p) ==
  /\ Walking(p)
  /\ File(p).version \notin DOMAIN migrator[p].seen
  /\ IF File(p).version \in DOMAIN applied
     THEN Left(p, "failed", "clash") /\ UNCHANGED <<applied, effects>>
     ELSE /\ Recorded(p)
          /\ migrator' = [migrator EXCEPT ![p].at = File(p).version]
          /\ UNCHANGED lock
  /\ UNCHANGED <<serving, faults>>

\* Fault: the command ends and its pooled connection still holds the lock.
Finish_Fault(p) ==
  /\ migrator[p].pc = "files" /\ ~Walking(p)
  /\ migrator' = Entered(p, "done")
  /\ UNCHANGED <<applied, effects, lock, serving, faults>>

Finish(p) ==
  /\ migrator[p].pc = "files" /\ ~Walking(p)
  /\ Left(p, "done", "none")
  /\ UNCHANGED <<applied, effects, serving, faults>>

\* The connection is lost, or the process dies: the transaction open at that
\* moment is rolled back, or was committed and only its answer is lost.
Lose(p) ==
  /\ ~Ended(p) /\ faults < MaxFaults
  /\ faults' = faults + 1
  /\ Left(p, "failed", "fault")
  /\ \/ UNCHANGED <<applied, effects>>
     \/ /\ Walking(p)
        /\ File(p).version \notin DOMAIN migrator[p].seen \cup DOMAIN applied
        /\ Recorded(p)
  /\ UNCHANGED serving

-----------------------------------------------------------------------------
(* The API: it serves once its build's files are found applied. *)

Run(r, b) ==
  /\ serving[r] = NoOne
  /\ Check(b)
  /\ serving' = [serving EXCEPT ![r] = b]
  /\ UNCHANGED <<applied, effects, lock, migrator, faults>>

Shutdown(r) ==
  /\ serving[r] # NoOne
  /\ serving' = [serving EXCEPT ![r] = NoOne]
  /\ UNCHANGED <<applied, effects, lock, migrator, faults>>

Command(p) == \/ AdvisoryLock(p) \/ ReadApplied(p)
              \/ SkipFile(p) \/ ApplyFile(p) \/ Finish(p)

-----------------------------------------------------------------------------
(* Properties *)

Sums == {f.sum : f \in UNION {Files[b] : b \in Builds}}
Tables == UNION {[vs -> Sums] : vs \in SUBSET Versions}

MigrationsTypeOK ==
  /\ applied \in Tables
  /\ lock \in Migrators \cup {NoOne}
  /\ migrator \in [Migrators -> [pc : {"idle", "lock", "read", "files", "done", "failed"},
                                 build : Builds, seen : Tables, at : Versions \cup {0},
                                 why : {"none", "duplicate", "modified", "clash", "fault"}]]
  /\ serving \in [Replicas -> Builds \cup {NoOne}]

\* Whatever commands run at once and whatever they lose, the SQL of each recorded
\* version, and of no other, took effect once, on exactly the versions below it.
AppliedOnceInOrder ==
  /\ DOMAIN applied = {e.version : e \in effects}
  /\ \A e \in effects : e.on = {v \in DOMAIN applied : v < e.version}

\* An API process never serves a schema that lacks one of its migrations or
\* holds another text of it, however far later commands have gone since.
ServesOnItsSchema ==
  \A r \in Replicas : serving[r] # NoOne =>
    \A f \in Files[serving[r]] :
      f.version \in DOMAIN applied /\ applied[f.version] = f.sum

\* Two deployments that migrate at once do not fail each other: no command ever applies a
\* version that another one has recorded since.  It fails by its own connection, or because
\* its files are not what was applied: two of one version, or another text of it.
NobodyClashes == \A p \in Migrators : migrator[p].why # "clash"

\* Every migrate command ends, also one that waits for another's lock.
EveryMigrationEnds == \A p \in Migrators : (migrator[p].pc = "lock") ~> Ended(p)
=============================================================================
