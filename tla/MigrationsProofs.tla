-------------------------- MODULE MigrationsProofs --------------------------
(***************************************************************************)
(* Theorems about migrations and the rollout of builds, for any number of  *)
(* builds, migrate commands, API processes and lost connections.           *)
(***************************************************************************)
EXTENDS Release, WellFoundedInduction, TLAPS

-----------------------------------------------------------------------------
(* Load *)

\* A set of numbers that is not empty has a least member.
LEMMA Least ==
  ASSUME NEW S \in SUBSET Nat, S # {}
  PROVE  \E m \in S : \A n \in S : m <= n
<1>. DEFINE R == {ss \in Nat \X Nat : ss[1] < ss[2]}
<1>1. IsWellFoundedOn(R, Nat)
  BY NatLessThanWellFounded, Zenon DEF OpToRel
<1>. HIDE DEF R
<1>2. PICK x \in S : \A y \in S : <<y, x>> \notin R
  BY <1>1, WFMin
<1>3. \A y \in S : ~(y < x)
  BY <1>2 DEF R
<1>. QED  BY <1>3

\* Load hands out the file with the least version above the last one.
LEMMA NextFile ==
  ASSUME NEW b \in Builds, NEW v \in Nat, After(b, v) # {}
  PROVE  /\ Load(b, v) \in Files[b]
         /\ Load(b, v).version \in Nat /\ Load(b, v).version > v
         /\ \A g \in Files[b] : g.version > v => Load(b, v).version <= g.version
<1>. DEFINE S == {f.version : f \in After(b, v)}
<1>1. S \in SUBSET Nat /\ S # {}
  BY MigrationsAssumption DEF After
<1>. HIDE DEF S
<1>2. PICK m \in S : \A n \in S : m <= n
  BY <1>1, Least
<1>3. \E f \in After(b, v) : \A g \in After(b, v) : f.version <= g.version
  BY <1>2 DEF S
<1>4. /\ Load(b, v) \in After(b, v)
      /\ \A g \in After(b, v) : Load(b, v).version <= g.version
  BY <1>3 DEF Load
<1>. QED  BY <1>4, MigrationsAssumption DEF After

-----------------------------------------------------------------------------
(* The inductive invariant *)

Inside == {"read", "files"}

\* A command that has read the table, or is about to, holds the advisory lock.
Exclusive == \A p \in Migrators : migrator[p].pc \in Inside => lock = p

\* A command that is under way has files that load and starts before the first.
Loaded == \A p \in Migrators :
  /\ ~Ended(p) => Loads(migrator[p].build)
  /\ migrator[p].pc \in {"lock", "read"} => migrator[p].at = 0

\* While a command walks its files, the table holds what it read and what it passed.
Walked(p) == {f.version : f \in {g \in Files[migrator[p].build] : g.version <= migrator[p].at}}
Known == \A p \in Migrators :
  migrator[p].pc = "files" => DOMAIN applied = DOMAIN migrator[p].seen \cup Walked(p)

\* No version is recorded before one below it.
Closed == \A v \in DOMAIN applied : \A w \in Versions : w < v => w \in DOMAIN applied

MigrationsInv ==
  /\ MigrationsTypeOK /\ Exclusive /\ Loaded /\ Known /\ Closed
  /\ AppliedOnceInOrder /\ ServesOnItsSchema /\ NobodyClashes

LEMMA TableDomain ==
  ASSUME NEW t \in Tables
  PROVE  DOMAIN t \subseteq Versions
<1>1. PICK vs \in SUBSET Versions : t \in [vs -> Sums]
  BY DEF Tables
<1>. QED  BY <1>1

LEMMA TableExtended ==
  ASSUME NEW t \in Tables, NEW v \in Versions, NEW s \in Sums
  PROVE  /\ Extended(t, v, s) \in Tables
         /\ DOMAIN Extended(t, v, s) = DOMAIN t \cup {v}
         /\ \A w \in DOMAIN t : w # v => Extended(t, v, s)[w] = t[w]
<1>1. PICK vs \in SUBSET Versions : t \in [vs -> Sums]
  BY DEF Tables
<1>2. Extended(t, v, s) \in [vs \cup {v} -> Sums]
  BY <1>1 DEF Extended
<1>3. vs \cup {v} \in SUBSET Versions
  OBVIOUS
<1>4. ASSUME NEW x \in SUBSET Versions, NEW g \in [x -> Sums]
      PROVE  g \in Tables
  BY <1>4, Zenon DEF Tables
<1>5. Extended(t, v, s) \in Tables
  BY <1>2, <1>3, <1>4, Zenon
<1>. QED  BY <1>1, <1>5 DEF Extended

LEMMA FileFacts ==
  ASSUME NEW b \in Builds, NEW f \in Files[b]
  PROVE  f.version \in Versions /\ f.sum \in Sums /\ f.version \in Nat /\ f.version > 0
BY MigrationsAssumption DEF Versions, Sums

LEMMA VersionsAreNumbers == Versions \subseteq Nat
BY MigrationsAssumption DEF Versions

LEMMA CommandFacts ==
  ASSUME MigrationsInv, NEW p \in Migrators
  PROVE  migrator[p].build \in Builds /\ migrator[p].seen \in Tables /\ migrator[p].at \in Nat
<1>1. /\ migrator[p].build \in Builds /\ migrator[p].seen \in Tables
      /\ migrator[p].at \in Versions \cup {0}
  BY DEF MigrationsInv, MigrationsTypeOK
<1>2. 0 \in Nat /\ Versions \subseteq Nat
  BY VersionsAreNumbers
<1>. QED  BY <1>1, <1>2

\* The tables are left alone by what happens to the wording, the calendar and the answers.
LEMMA Idling ==
  MigrationsInv /\ UNCHANGED migrationVars => MigrationsInv'
BY DEF MigrationsInv, migrationVars, MigrationsTypeOK, Exclusive, Loaded, Known, Closed,
       AppliedOnceInOrder, ServesOnItsSchema, NobodyClashes, Ended, Walked

-----------------------------------------------------------------------------
(* Commands *)

\* A command that has a file before it that it did not read as applied finds it not
\* applied, and everything below it applied: nobody else was in the table meanwhile.
LEMMA PendingIsNext ==
  ASSUME MigrationsInv, NEW p \in Migrators, Walking(p),
         File(p).version \notin DOMAIN migrator[p].seen
  PROVE  /\ File(p) \in Files[migrator[p].build]
         /\ File(p).version \in Versions /\ File(p).sum \in Sums
         /\ File(p).version \notin DOMAIN applied
         /\ \A w \in Versions : w < File(p).version => w \in DOMAIN applied
         /\ \A w \in DOMAIN applied : w < File(p).version
<1>. DEFINE b == migrator[p].build
            at == migrator[p].at
            f == File(p)
<1>1. b \in Builds /\ at \in Nat
  BY CommandFacts
<1>2. f = Load(b, at) /\ After(b, at) # {}
  BY DEF File, Walking
<1>. HIDE DEF f
<1>3. /\ f \in Files[b] /\ f.version \in Nat /\ f.version > at
      /\ \A g \in Files[b] : g.version > at => f.version <= g.version
  BY <1>1, <1>2, NextFile
<1>4. f.version \in Versions /\ f.sum \in Sums
  BY <1>1, <1>3, FileFacts
<1>5. DOMAIN applied = DOMAIN migrator[p].seen \cup Walked(p)
  BY DEF MigrationsInv, Known, Walking
<1>6. f.version \notin DOMAIN applied
  <2>1. f.version \notin Walked(p)
    BY <1>1, <1>3, FileFacts DEF Walked
  <2>. QED  BY <2>1, <1>5 DEF f
<1>7. ASSUME NEW w \in Versions, w < f.version
      PROVE  w \in DOMAIN applied
  <2>1. PICK g \in Files[b] : g.version = w
    BY <1>7, <1>1, <1>3, OneLineAssumption
  <2>2. g.version <= at
    BY <2>1, <1>1, <1>3, <1>7, FileFacts
  <2>. QED  BY <2>1, <2>2, <1>5 DEF Walked
<1>8. ASSUME NEW w \in DOMAIN applied
      PROVE  w < f.version
  <2>1. w \in Versions /\ w \in Nat /\ f.version \in Nat
    BY <1>8, <1>4, VersionsAreNumbers, TableDomain DEF MigrationsInv, MigrationsTypeOK
  <2>2. w # f.version
    BY <1>6, <1>8
  <2>3. ~(f.version < w)
    BY <1>4, <1>6, <1>8 DEF MigrationsInv, Closed
  <2>. QED  BY <2>1, <2>2, <2>3
<1>. QED  BY <1>3, <1>4, <1>6, <1>7, <1>8 DEF f

\* What a recorded file does to the table and to the processes that serve from it.
LEMMA Recording ==
  ASSUME MigrationsInv, NEW p \in Migrators, Walking(p),
         File(p).version \notin DOMAIN migrator[p].seen, Recorded(p), UNCHANGED serving
  PROVE  /\ applied' \in Tables
         /\ DOMAIN applied' = DOMAIN applied \cup {File(p).version}
         /\ Closed' /\ AppliedOnceInOrder' /\ ServesOnItsSchema'
<1>. DEFINE v == File(p).version
<1>1. /\ v \in Versions /\ File(p).sum \in Sums /\ v \notin DOMAIN applied
      /\ \A w \in Versions : w < v => w \in DOMAIN applied
      /\ \A w \in DOMAIN applied : w < v
  BY PendingIsNext
<1>2. /\ applied' = Extended(applied, v, File(p).sum)
      /\ effects' = effects \cup {[version |-> v, on |-> {e.version : e \in effects}]}
  BY DEF Recorded, Effect
<1>. HIDE DEF v
<1>3. /\ applied \in Tables /\ DOMAIN applied \subseteq Versions
      /\ applied' \in Tables /\ DOMAIN applied' = DOMAIN applied \cup {v}
      /\ \A w \in DOMAIN applied : applied'[w] = applied[w]
  <2>1. applied \in Tables
    BY DEF MigrationsInv, MigrationsTypeOK
  <2>2. DOMAIN applied \subseteq Versions
    BY <2>1, TableDomain
  <2>. DEFINE t == Extended(applied, v, File(p).sum)
  <2>3. /\ t \in Tables /\ DOMAIN t = DOMAIN applied \cup {v}
        /\ \A w \in DOMAIN applied : t[w] = applied[w]
    <3>1. /\ t \in Tables /\ DOMAIN t = DOMAIN applied \cup {v}
          /\ \A w \in DOMAIN applied : w # v => t[w] = applied[w]
      BY <2>1, <1>1, TableExtended, Zenon
    <3>. HIDE DEF t
    <3>. QED  BY <3>1, <1>1
  <2>4. applied' = t
    BY <1>2
  <2>. HIDE DEF t
  <2>. QED  BY <2>1, <2>2, <2>3, <2>4
<1>4. Closed'
  BY <1>1, <1>3 DEF MigrationsInv, Closed
<1>5. AppliedOnceInOrder'
  <2>1. /\ DOMAIN applied = {e.version : e \in effects}
        /\ \A e \in effects : e.on = {w \in DOMAIN applied : w < e.version}
    BY DEF MigrationsInv, AppliedOnceInOrder
  <2>2. DOMAIN applied' = {e.version : e \in effects'}
    <3>. DEFINE new == [version |-> v, on |-> {e.version : e \in effects}]
    <3>0. new.version = v /\ effects' = effects \cup {new}
      BY <1>2
    <3>. HIDE DEF new
    <3>1. {e.version : e \in effects'} = {e.version : e \in effects} \cup {v}
      BY <3>0
    <3>. QED  BY <3>1, <1>3, <2>1
  <2>3. ASSUME NEW e \in effects
        PROVE  e.on = {w \in DOMAIN applied' : w < e.version}
    <3>1. e.version \in DOMAIN applied /\ e.version < v
      BY <1>1, <2>1
    <3>2. v \in Nat /\ e.version \in Nat
      BY <1>1, <1>3, <3>1, VersionsAreNumbers
    <3>3. ~(v < e.version)
      BY <3>1, <3>2
    <3>. QED  BY <1>3, <2>1, <3>3
  <2>4. ASSUME NEW e, e = [version |-> v, on |-> {x.version : x \in effects}]
        PROVE  e.on = {w \in DOMAIN applied' : w < e.version}
    <3>1. e.on = DOMAIN applied /\ e.version = v
      BY <2>1, <2>4
    <3>2. ~(v < v)
      BY <1>1, VersionsAreNumbers
    <3>. QED  BY <1>1, <1>3, <3>1, <3>2
  <2>. QED  BY <1>2, <2>2, <2>3, <2>4 DEF AppliedOnceInOrder
<1>6. ServesOnItsSchema'
  BY <1>3 DEF MigrationsInv, ServesOnItsSchema
<1>. QED  BY <1>3, <1>4, <1>5, <1>6 DEF v

\* A step that changes one command's entry, and frees the lock at most where that
\* command held it, leaves the other commands as they were.
Others(p) == \A q \in Migrators \ {p} :
  migrator'[q] = migrator[q] /\ (lock = q => lock' = q)

\* What a command may do to its own entry without touching the tables.
LEMMA EntryStep ==
  ASSUME MigrationsInv, NEW p \in Migrators, MigrationsTypeOK', Others(p),
         UNCHANGED <<applied, effects, serving>>,
         migrator'[p].pc \in Inside => lock' = p,
         migrator'[p].pc \in {"lock", "read", "files"} => Loads(migrator'[p].build),
         migrator'[p].pc \in {"lock", "read"} => migrator'[p].at = 0,
         migrator'[p].pc = "files" => DOMAIN applied = DOMAIN migrator'[p].seen \cup Walked(p)',
         migrator'[p].why # "clash"
  PROVE  MigrationsInv'
<1>1. Exclusive'
  BY DEF MigrationsInv, Exclusive, Others
<1>2. Loaded'
  BY DEF MigrationsInv, MigrationsTypeOK, Loaded, Others, Ended
<1>3. Known'
  BY DEF MigrationsInv, Known, Others, Walked
<1>4. NobodyClashes'
  BY DEF MigrationsInv, NobodyClashes, Others
<1>5. Closed' /\ AppliedOnceInOrder' /\ ServesOnItsSchema'
  BY DEF MigrationsInv, Closed, AppliedOnceInOrder, ServesOnItsSchema
<1>. QED  BY <1>1, <1>2, <1>3, <1>4, <1>5 DEF MigrationsInv

\* The end of a command.
LEMMA LeftFacts ==
  ASSUME MigrationsInv, NEW p \in Migrators, NEW pc \in {"done", "failed"},
         NEW why \in {"none", "modified", "fault"}, Left(p, pc, why),
         applied' \in Tables, UNCHANGED serving
  PROVE  /\ MigrationsTypeOK' /\ Others(p)
         /\ migrator'[p].pc = pc /\ migrator'[p].why = why
BY MigrationsAssumption DEF MigrationsInv, MigrationsTypeOK, Left, Others

LEMMA MigrateStep ==
  ASSUME MigrationsInv, NEW p \in Migrators, NEW b \in Builds, Migrate(p, b)
  PROVE  MigrationsInv'
<1>1. NoRows \in Tables
  <2>1. NoRows \in [{} -> Sums] /\ {} \in SUBSET Versions
    BY DEF NoRows
  <2>. QED  BY <2>1, Zenon DEF Tables
<1>2. MigrationsTypeOK'
  BY <1>1 DEF MigrationsInv, MigrationsTypeOK, Migrate, At
<1>3. Others(p)
  BY DEF MigrationsInv, MigrationsTypeOK, Migrate, Others
<1>4. /\ migrator'[p].pc \in {"lock", "failed"} /\ migrator'[p].at = 0
      /\ migrator'[p].why # "clash"
      /\ migrator'[p].pc = "lock" => Loads(migrator'[p].build)
  BY DEF MigrationsInv, MigrationsTypeOK, Migrate, At
<1>. QED  BY <1>2, <1>3, <1>4, EntryStep DEF Migrate, Inside

LEMMA AdvisoryLockStep ==
  ASSUME MigrationsInv, NEW p \in Migrators, AdvisoryLock(p)
  PROVE  MigrationsInv'
<1>1. MigrationsTypeOK' /\ Others(p)
  BY MigrationsAssumption DEF MigrationsInv, MigrationsTypeOK, AdvisoryLock, Entered, Others
<1>2. /\ migrator'[p].pc = "read" /\ migrator'[p].build = migrator[p].build
      /\ migrator'[p].at = migrator[p].at /\ migrator'[p].why = migrator[p].why
      /\ migrator[p].pc = "lock"
  BY DEF MigrationsInv, MigrationsTypeOK, AdvisoryLock, Entered
<1>3. /\ Loads(migrator[p].build) /\ migrator[p].at = 0 /\ migrator[p].why # "clash"
  BY <1>2 DEF MigrationsInv, Loaded, Ended, NobodyClashes
<1>. QED  BY <1>1, <1>2, <1>3, EntryStep DEF AdvisoryLock

LEMMA ReadAppliedStep ==
  ASSUME MigrationsInv, NEW p \in Migrators, ReadApplied(p)
  PROVE  MigrationsInv'
<1>1. MigrationsTypeOK' /\ Others(p)
  BY DEF MigrationsInv, MigrationsTypeOK, ReadApplied, Others
<1>2. /\ migrator'[p].pc = "files" /\ migrator'[p].build = migrator[p].build
      /\ migrator'[p].at = migrator[p].at /\ migrator'[p].why = migrator[p].why
      /\ migrator'[p].seen = applied /\ migrator[p].pc = "read" /\ lock' = lock
  BY DEF MigrationsInv, MigrationsTypeOK, ReadApplied
<1>3. /\ Loads(migrator[p].build) /\ migrator[p].at = 0 /\ migrator[p].why # "clash"
      /\ lock = p
  BY <1>2 DEF MigrationsInv, Loaded, Ended, NobodyClashes, Exclusive, Inside
<1>4. Walked(p)' = {}
  BY <1>2, <1>3, CommandFacts, FileFacts DEF Walked
<1>. QED  BY <1>1, <1>2, <1>3, <1>4, EntryStep DEF ReadApplied

\* Passing a file adds its version to what the command has walked over.
LEMMA Passing ==
  ASSUME MigrationsInv, NEW p \in Migrators, Walking(p),
         migrator' = [migrator EXCEPT ![p].at = File(p).version]
  PROVE  /\ File(p).version \in Versions
         /\ Walked(p)' = Walked(p) \cup {File(p).version}
         /\ migrator'[p].pc = "files" /\ migrator'[p].build = migrator[p].build
         /\ migrator'[p].seen = migrator[p].seen /\ migrator'[p].why = migrator[p].why
         /\ \A q \in Migrators \ {p} : migrator'[q] = migrator[q]
<1>. DEFINE b == migrator[p].build
            at == migrator[p].at
            f == File(p)
<1>1. b \in Builds /\ at \in Nat
  BY CommandFacts
<1>2. f = Load(b, at) /\ After(b, at) # {}
  BY DEF File, Walking
<1>3. /\ migrator'[p].at = f.version /\ migrator'[p].pc = "files"
      /\ migrator'[p].build = b /\ migrator'[p].seen = migrator[p].seen
      /\ migrator'[p].why = migrator[p].why
      /\ \A q \in Migrators \ {p} : migrator'[q] = migrator[q]
  BY DEF MigrationsInv, MigrationsTypeOK, Walking
<1>. HIDE DEF f
<1>4. /\ f \in Files[b] /\ f.version \in Nat /\ f.version > at
      /\ \A g \in Files[b] : g.version > at => f.version <= g.version
  BY <1>1, <1>2, NextFile
<1>5. \A g \in Files[b] : g.version <= f.version <=> g.version <= at \/ g.version = f.version
  BY <1>1, <1>4, FileFacts
<1>6. Walked(p)' = {g.version : g \in {h \in Files[b] : h.version <= f.version}}
  BY <1>3 DEF Walked
<1>7. Walked(p) = {g.version : g \in {h \in Files[b] : h.version <= at}}
  BY DEF Walked
<1>8. Walked(p)' = Walked(p) \cup {f.version}
  BY <1>4, <1>5, <1>6, <1>7
<1>9. f.version \in Versions
  BY <1>1, <1>4, FileFacts
<1>. QED  BY <1>3, <1>8, <1>9 DEF f

LEMMA PassingType ==
  ASSUME MigrationsInv, NEW p \in Migrators, Walking(p),
         migrator' = [migrator EXCEPT ![p].at = File(p).version],
         applied' \in Tables, UNCHANGED <<lock, serving>>
  PROVE  MigrationsTypeOK'
<1>1. File(p).version \in Versions
  BY Passing
<1>. QED  BY <1>1 DEF MigrationsInv, MigrationsTypeOK

LEMMA SkipFileStep ==
  ASSUME MigrationsInv, NEW p \in Migrators, SkipFile(p)
  PROVE  MigrationsInv'
<1>1. /\ Walking(p) /\ File(p).version \in DOMAIN migrator[p].seen
      /\ UNCHANGED <<applied, effects, serving>>
      /\ applied \in Tables /\ migrator[p].pc = "files"
  BY DEF SkipFile, Walking, MigrationsInv, MigrationsTypeOK
<1>2. CASE Left(p, "failed", "modified")
  <2>1. /\ MigrationsTypeOK' /\ Others(p)
        /\ migrator'[p].pc = "failed" /\ migrator'[p].why = "modified"
    BY <1>1, <1>2, LeftFacts
  <2>. QED  BY <2>1, <1>1, EntryStep DEF Inside
<1>3. CASE migrator' = [migrator EXCEPT ![p].at = File(p).version] /\ UNCHANGED lock
  <2>1. MigrationsTypeOK'
    BY <1>1, <1>3, PassingType
  <2>2. /\ Walked(p)' = Walked(p) \cup {File(p).version}
        /\ migrator'[p].pc = "files" /\ migrator'[p].build = migrator[p].build
        /\ migrator'[p].seen = migrator[p].seen /\ migrator'[p].why = migrator[p].why
        /\ \A q \in Migrators \ {p} : migrator'[q] = migrator[q]
    BY <1>1, <1>3, Passing
  <2>3. Others(p)
    BY <2>2, <1>3 DEF Others
  <2>4. /\ Loads(migrator[p].build) /\ migrator[p].why # "clash" /\ lock = p
        /\ DOMAIN applied = DOMAIN migrator[p].seen \cup Walked(p)
    BY <1>1 DEF MigrationsInv, Loaded, Ended, NobodyClashes, Exclusive, Inside, Known
  <2>5. DOMAIN applied = DOMAIN migrator'[p].seen \cup Walked(p)'
    BY <1>1, <2>2, <2>4
  <2>. QED  BY <1>1, <1>3, <2>1, <2>2, <2>3, <2>4, <2>5, EntryStep
<1>. QED  BY <1>2, <1>3 DEF SkipFile

LEMMA ApplyFileStep ==
  ASSUME MigrationsInv, NEW p \in Migrators, ApplyFile(p)
  PROVE  MigrationsInv'
<1>1. Walking(p) /\ File(p).version \notin DOMAIN migrator[p].seen /\ UNCHANGED serving
  BY DEF ApplyFile
<1>2. File(p).version \notin DOMAIN applied
  BY <1>1, PendingIsNext
<1>3. /\ Recorded(p) /\ UNCHANGED lock
      /\ migrator' = [migrator EXCEPT ![p].at = File(p).version]
  BY <1>2 DEF ApplyFile
<1>4. /\ applied' \in Tables /\ DOMAIN applied' = DOMAIN applied \cup {File(p).version}
      /\ Closed' /\ AppliedOnceInOrder' /\ ServesOnItsSchema'
  BY <1>1, <1>3, Recording
<1>5. MigrationsTypeOK'
  BY <1>1, <1>3, <1>4, PassingType
<1>6. /\ Walked(p)' = Walked(p) \cup {File(p).version}
      /\ migrator'[p].pc = "files" /\ migrator'[p].build = migrator[p].build
      /\ migrator'[p].seen = migrator[p].seen /\ migrator'[p].why = migrator[p].why
      /\ \A q \in Migrators \ {p} : migrator'[q] = migrator[q]
  BY <1>1, <1>3, Passing
<1>7. migrator[p].pc = "files" /\ lock = p
  BY <1>1 DEF Walking, MigrationsInv, Exclusive, Inside
<1>8. \A q \in Migrators \ {p} : migrator[q].pc \notin Inside
  BY <1>7 DEF MigrationsInv, Exclusive
<1>9. Exclusive'
  BY <1>3, <1>6, <1>7 DEF MigrationsInv, Exclusive
<1>10. Loaded'
  BY <1>6, <1>7 DEF MigrationsInv, Loaded, Ended
<1>11. Known'
  <2>1. DOMAIN applied = DOMAIN migrator[p].seen \cup Walked(p)
    BY <1>7 DEF MigrationsInv, Known
  <2>2. DOMAIN applied' = DOMAIN migrator'[p].seen \cup Walked(p)'
    BY <2>1, <1>4, <1>6
  <2>3. \A q \in Migrators \ {p} : migrator'[q].pc # "files"
    BY <1>6, <1>8 DEF Inside
  <2>. QED  BY <2>2, <2>3 DEF Known
<1>12. NobodyClashes'
  BY <1>6 DEF MigrationsInv, NobodyClashes
<1>. QED  BY <1>4, <1>5, <1>9, <1>10, <1>11, <1>12 DEF MigrationsInv

LEMMA FinishStep ==
  ASSUME MigrationsInv, NEW p \in Migrators, Finish(p)
  PROVE  MigrationsInv'
<1>1. Left(p, "done", "none") /\ UNCHANGED <<applied, effects, serving>> /\ applied \in Tables
  BY DEF Finish, MigrationsInv, MigrationsTypeOK
<1>2. /\ MigrationsTypeOK' /\ Others(p)
      /\ migrator'[p].pc = "done" /\ migrator'[p].why = "none"
  BY <1>1, LeftFacts
<1>. QED  BY <1>1, <1>2, EntryStep DEF Inside

LEMMA LoseStep ==
  ASSUME MigrationsInv, NEW p \in Migrators, Lose(p)
  PROVE  MigrationsInv'
<1>1. Left(p, "failed", "fault") /\ UNCHANGED serving /\ applied \in Tables
  BY DEF Lose, MigrationsInv, MigrationsTypeOK
<1>2. CASE UNCHANGED <<applied, effects>>
  <2>1. /\ MigrationsTypeOK' /\ Others(p)
        /\ migrator'[p].pc = "failed" /\ migrator'[p].why = "fault"
    BY <1>1, <1>2, LeftFacts
  <2>. QED  BY <1>1, <1>2, <2>1, EntryStep DEF Inside
<1>3. CASE /\ Walking(p) /\ Recorded(p)
           /\ File(p).version \notin DOMAIN migrator[p].seen
  <2>1. applied' \in Tables /\ Closed' /\ AppliedOnceInOrder' /\ ServesOnItsSchema'
    BY <1>1, <1>3, Recording
  <2>2. /\ MigrationsTypeOK' /\ Others(p)
        /\ migrator'[p].pc = "failed" /\ migrator'[p].why = "fault"
    BY <1>1, <2>1, LeftFacts
  <2>3. migrator[p].pc = "files" /\ lock = p
    BY <1>3 DEF Walking, MigrationsInv, Exclusive, Inside
  <2>4. \A q \in Migrators : migrator'[q].pc \notin Inside
    BY <2>2, <2>3 DEF MigrationsInv, Exclusive, Others, Inside
  <2>5. Exclusive' /\ Known'
    BY <2>4 DEF Exclusive, Known, Inside
  <2>6. Loaded' /\ NobodyClashes'
    BY <2>2 DEF MigrationsInv, Loaded, Ended, NobodyClashes, Others
  <2>. QED  BY <2>1, <2>2, <2>5, <2>6 DEF MigrationsInv
<1>. QED  BY <1>2, <1>3 DEF Lose

-----------------------------------------------------------------------------
(* Processes *)

LEMMA RollOutStep ==
  ASSUME MigrationsInv, RollOut
  PROVE  MigrationsInv'
<1>1. PICK r \in Replicas : (\E b \in Builds : Run(r, b)) \/ Shutdown(r)
  BY DEF RollOut
<1>2. UNCHANGED <<applied, effects, lock, migrator>>
  BY <1>1 DEF Run, Shutdown
<1>3. MigrationsTypeOK' /\ ServesOnItsSchema'
  <2>1. CASE Shutdown(r)
    BY <2>1 DEF Shutdown, MigrationsInv, MigrationsTypeOK, ServesOnItsSchema
  <2>2. ASSUME NEW b \in Builds, Run(r, b)
        PROVE  MigrationsTypeOK' /\ ServesOnItsSchema'
    BY <2>2 DEF Run, Check, MigrationsInv, MigrationsTypeOK, ServesOnItsSchema
  <2>. QED  BY <1>1, <2>1, <2>2
<1>4. Exclusive' /\ Loaded' /\ Known' /\ Closed' /\ AppliedOnceInOrder' /\ NobodyClashes'
  BY <1>2 DEF MigrationsInv, Exclusive, Loaded, Known, Closed, AppliedOnceInOrder,
              NobodyClashes, Ended, Walked
<1>. QED  BY <1>3, <1>4 DEF MigrationsInv

-----------------------------------------------------------------------------
(* Theorems *)

LEMMA StartsWell == Init => MigrationsInv
<1>. SUFFICES ASSUME Init PROVE MigrationsInv
  OBVIOUS
<1>. DEFINE own == {f.version : f \in Files[Newest]}
<1>1. NoRows \in Tables /\ DOMAIN NoRows = {}
  <2>1. NoRows \in [{} -> Sums] /\ {} \in SUBSET Versions /\ DOMAIN NoRows = {}
    BY DEF NoRows
  <2>. QED  BY <2>1, Zenon DEF Tables
<1>2. Migrated \in Tables /\ DOMAIN Migrated = own
  <2>1. own \in SUBSET Versions
    BY ReleaseAssumption, FileFacts
  <2>2. ASSUME NEW v \in own
        PROVE  (CHOOSE f \in Files[Newest] : f.version = v).sum \in Sums
    <3>1. \E f \in Files[Newest] : f.version = v
      BY <2>2
    <3>. QED  BY <3>1, ReleaseAssumption, FileFacts
  <2>3. Migrated \in [own -> Sums]
    BY <2>2 DEF Migrated
  <2>. HIDE DEF own
  <2>4. Migrated \in Tables
    BY <2>1, <2>3, Zenon DEF Tables
  <2>. QED  BY <2>3, <2>4
<1>3. applied \in Tables /\ (DOMAIN applied = {} \/ DOMAIN applied = own)
  BY <1>1, <1>2 DEF Init
<1>4. migrator = [p \in Migrators |-> At("idle", Newest, NoRows, 0, "none")] /\ lock = NoOne
  BY DEF Init
<1>5. MigrationsTypeOK
  BY <1>1, <1>3, <1>4, ReleaseAssumption DEF Init, MigrationsTypeOK, At
<1>6. Exclusive /\ Loaded /\ Known /\ NobodyClashes
  BY <1>4 DEF Exclusive, Loaded, Known, NobodyClashes, Ended, At, Inside
<1>7. Closed
  BY <1>3, ReleaseAssumption, OneLineAssumption DEF Closed
<1>8. AppliedOnceInOrder
  <2>1. effects = {[version |-> v, on |-> {w \in DOMAIN applied : w < v}] : v \in DOMAIN applied}
    BY DEF Init
  <2>2. ASSUME NEW e \in effects
        PROVE  e.version \in DOMAIN applied /\ e.on = {w \in DOMAIN applied : w < e.version}
    <3>1. PICK v \in DOMAIN applied : e = [version |-> v, on |-> {w \in DOMAIN applied : w < v}]
      BY <2>1, <2>2
    <3>. QED  BY <3>1
  <2>3. ASSUME NEW v \in DOMAIN applied
        PROVE  \E e \in effects : e.version = v
    <3>. DEFINE e == [version |-> v, on |-> {w \in DOMAIN applied : w < v}]
    <3>1. e \in effects /\ e.version = v
      BY <2>1, <2>3
    <3>. QED  BY <3>1
  <2>. QED  BY <2>2, <2>3 DEF AppliedOnceInOrder
<1>9. ServesOnItsSchema
  BY DEF Init, ServesOnItsSchema
<1>. QED  BY <1>5, <1>6, <1>7, <1>8, <1>9 DEF MigrationsInv

LEMMA Step == MigrationsInv /\ [Next]_vars => MigrationsInv'
<1>. SUFFICES ASSUME MigrationsInv, [Next]_vars PROVE MigrationsInv'
  OBVIOUS
<1>1. CASE Migrating
  <2>1. PICK p \in Migrators : (\E b \in Builds : Migrate(p, b)) \/ Command(p) \/ Lose(p)
    BY <1>1 DEF Migrating
  <2>2. CASE \E b \in Builds : Migrate(p, b)
    BY <2>2, MigrateStep
  <2>3. CASE AdvisoryLock(p)
    BY <2>3, AdvisoryLockStep
  <2>4. CASE ReadApplied(p)
    BY <2>4, ReadAppliedStep
  <2>5. CASE SkipFile(p)
    BY <2>5, SkipFileStep
  <2>6. CASE ApplyFile(p)
    BY <2>6, ApplyFileStep
  <2>7. CASE Finish(p)
    BY <2>7, FinishStep
  <2>8. CASE Lose(p)
    BY <2>8, LoseStep
  <2>. QED  BY <2>1, <2>2, <2>3, <2>4, <2>5, <2>6, <2>7, <2>8 DEF Command
<1>2. CASE RollOut
  BY <1>2, RollOutStep
<1>3. CASE Wording \/ Counting \/ Asking \/ Scoring
  BY <1>3, Idling DEF Wording, Counting, Asking, Scoring
<1>4. CASE UNCHANGED vars
  BY <1>4, Idling DEF vars, migrationVars
<1>. QED  BY <1>1, <1>2, <1>3, <1>4 DEF Next

LEMMA Invariant == Spec => []MigrationsInv
BY StartsWell, Step, PTL DEF Spec

\* Whatever builds of one line of releases are migrated at once, and however often a
\* connection or only the answer to a commit is lost, the SQL of each recorded version,
\* and of no other, took effect once, on exactly the versions below it (Migrate).
THEOREM MigrationsAppliedOnceInOrder == Spec => []AppliedOnceInOrder
<1>1. MigrationsInv => AppliedOnceInOrder
  BY DEF MigrationsInv
<1>. QED  BY <1>1, Invariant, PTL

\* No command fails on the primary key of schema_migrations: what it read under the
\* advisory lock stays true until it is done.
THEOREM NobodyEverClashes == Spec => []NobodyClashes
<1>1. MigrationsInv => NobodyClashes
  BY DEF MigrationsInv
<1>. QED  BY <1>1, Invariant, PTL

\* A process that passed Check serves on the texts of its own migrations for as long as
\* it runs, although commands of other builds go on migrating.
THEOREM AlwaysServesOnItsSchema == Spec => []ServesOnItsSchema
<1>1. MigrationsInv => ServesOnItsSchema
  BY DEF MigrationsInv
<1>. QED  BY <1>1, Invariant, PTL
=============================================================================
