---------------------- MODULE BackupHousekeeping_proofs ----------------------
(***************************************************************************)
(* What the engine cleans up, for every list of recipes, number of page    *)
(* workers and commands, and set of faults: the staging directories, and   *)
(* the snapshots that the nightly run lets go.                             *)
(***************************************************************************)
EXTENDS BackupEngine_proofs, FiniteSetTheorems

(* The staging directories: page and command beside each other. *)

Holding == {"dump", "dumping", "snap", "cleanup"}

\* A directory that is there belongs to a stack with a database, and somebody
\* is on the way to removing it, unless the service died.
StageInv ==
  \A r \in RecipeSet :
    stage[r] # NoStage =>
      /\ r \in PgRecipes
      /\ ~crashed => \E w \in Workers : job[w].at \in Holding /\ Cur(w) = r

\* A step of worker w to job j: a directory that is there was there before and
\* is not w's to remove, or w will remove it.
LEMMA Held ==
  ASSUME TypeOK, StageInv, NEW w \in Workers, NEW j, Become(w, j),
         crashed' = crashed,
         \A r \in RecipeSet : stage'[r] # NoStage =>
           /\ r \in PgRecipes
           /\ \/ stage[r] # NoStage /\ ~(job[w].at \in Holding /\ Cur(w) = r)
              \/ j.at \in Holding /\ Head(j.todo) = r
  PROVE  StageInv'
<1> SUFFICES ASSUME NEW r \in RecipeSet, stage'[r] # NoStage, ~crashed
             PROVE  \E v \in Workers : job'[v].at \in Holding /\ Cur(v)' = r
  BY DEF StageInv
<1>1. job'[w] = j /\ \A v \in Workers : v # w => job'[v] = job[v]
  BY DEF TypeOK, Become
<1>2. CASE j.at \in Holding /\ Head(j.todo) = r
  BY <1>1, <1>2 DEF Cur
<1>3. CASE stage[r] # NoStage /\ ~(job[w].at \in Holding /\ Cur(w) = r)
  <2>1. PICK v \in Workers : job[v].at \in Holding /\ Cur(v) = r
    BY <1>3 DEF StageInv
  <2>2. v # w /\ Cur(v)' = Head(job'[v].todo)
    BY <1>3, <2>1 DEF Cur
  <2>3. QED BY <1>1, <2>1, <2>2 DEF Cur
<1>4. QED BY <1>2, <1>3

LEMMA HeldOn ==
  ASSUME TypeOK, NEW w \in Workers, NEW a, Goto(w, a) \/ Fail(w, a)
  PROVE  \E j : Become(w, j) /\ j.at = a /\ Head(j.todo) = Cur(w)
<1>1. CASE Goto(w, a)
  <2> DEFINE j == [job[w] EXCEPT !.at = a]
  <2>1. Become(w, j) /\ job'[w].at = a /\ job'[w].todo = job[w].todo
    BY <1>1, GotoFields DEF Goto
  <2> HIDE DEF j
  <2>2. QED BY <2>1, JobFields DEF Cur
<1>2. CASE Fail(w, a)
  <2> DEFINE j == [job[w] EXCEPT !.at = a, !.err = TRUE]
  <2>1. Become(w, j) /\ job'[w].at = a /\ job'[w].todo = job[w].todo
    BY <1>2, FailFields DEF Fail
  <2> HIDE DEF j
  <2>2. QED BY <2>1, JobFields DEF Cur
<1>3. QED BY <1>1, <1>2

\* The steps that write into the staging directory.
LEMMA StageWritten ==
  ASSUME TypeOK, StageInv, NEW w \in Workers,
         ClearStage(w) \/ OpenDump(w) \/ FinishDump(w) \/ Cleanup(w)
  PROVE  StageInv'
<1> DEFINE r0 == Cur(w)
<1>0. /\ r0 \in RecipeSet /\ crashed' = crashed
      /\ stage \in [RecipeSet -> StageType]
  BY CurType
  DEF ClearStage, OpenDump, FinishDump, Cleanup, At, TypeOK
<1>1. CASE ClearStage(w)
  <2>1. CASE r0 \in PgRecipes /\ Goto(w, "dump")
             /\ stage' = [stage EXCEPT ![r0] = [NoStage EXCEPT !.dump = "dir"]]
    <3>1. PICK j : Become(w, j) /\ j.at = "dump" /\ Head(j.todo) = r0
      BY <2>1, HeldOn
    <3>2. \A r \in RecipeSet : r # r0 => stage'[r] = stage[r]
      BY <1>0, <2>1
    <3>3. \A r \in RecipeSet : stage[r] # NoStage => r \in PgRecipes
      BY DEF StageInv
    <3> HIDE DEF r0
    <3>4. QED BY <1>0, <1>1, <2>1, <3>1, <3>2, <3>3, Held
              DEF Holding, ClearStage, At, r0
  <2>2. CASE Goto(w, "snap") /\ stage' = stage
    <3>1. PICK j : Become(w, j) /\ j.at = "snap" /\ Head(j.todo) = r0
      BY <2>2, HeldOn
    <3>2. \A r \in RecipeSet : stage[r] # NoStage => r \in PgRecipes
      BY DEF StageInv
    <3> HIDE DEF r0
    <3>3. QED BY <1>0, <1>1, <2>2, <3>1, <3>2, Held
              DEF Holding, ClearStage, At, r0
  <2>3. QED BY <1>1, <2>1, <2>2 DEF ClearStage
<1>2. CASE OpenDump(w) \/ FinishDump(w)
  <2>1. \E a \in Holding : Goto(w, a) \/ Fail(w, a)
    <3>1. Goto(w, "dumping") \/ Goto(w, "snap") \/ Fail(w, "cleanup")
      BY <1>2 DEF OpenDump, FinishDump
    <3>2. QED BY <3>1, Zenon DEF Holding
  <2>2. PICK j : Become(w, j) /\ j.at \in Holding /\ Head(j.todo) = r0
    <3>1. PICK a \in Holding : Goto(w, a) \/ Fail(w, a)
      BY <2>1
    <3>2. PICK j : Become(w, j) /\ j.at = a /\ Head(j.todo) = Cur(w)
      BY <3>1, HeldOn
    <3>3. j.at \in Holding
      BY <3>1, <3>2
    <3>4. QED BY <3>2, <3>3, Zenon
  <2>3. \A r \in RecipeSet : r # r0 => stage'[r] = stage[r]
    BY <1>0, <1>2 DEF OpenDump, FinishDump
  <2>4. stage'[r0] # NoStage => r0 \in PgRecipes
    <3>1. CASE stage[r0] # NoStage
      BY <1>0, <3>1 DEF StageInv
    <3>2. CASE stage[r0] = NoStage /\ OpenDump(w)
      BY <1>0, <3>2 DEF OpenDump, NoStage
    <3>3. CASE stage[r0] = NoStage /\ FinishDump(w)
      <4>1. stage[r0].by # w
        BY <3>3, EngineAssumption DEF NoStage, Workers
      <4>2. QED BY <3>3, <4>1 DEF FinishDump
    <3>4. QED BY <1>2, <3>1, <3>2, <3>3
  <2>5. \A r \in RecipeSet : stage[r] # NoStage => r \in PgRecipes
    BY DEF StageInv
  <2> HIDE DEF r0
  <2>6. \A r \in RecipeSet : stage'[r] # NoStage =>
          /\ r \in PgRecipes
          /\ \/ stage[r] # NoStage /\ ~(job[w].at \in Holding /\ r0 = r)
             \/ j.at \in Holding /\ Head(j.todo) = r
    BY <1>0, <2>2, <2>3, <2>4, <2>5
  <2>7. QED BY <1>0, <2>2, <2>6, Held DEF r0
<1>3. CASE Cleanup(w)
  <2>1. Become(w, AfterBackup(w)) /\ At(w, "cleanup")
    BY <1>3 DEF Cleanup
  <2>2. \A r \in RecipeSet : stage'[r] # NoStage =>
          r # r0 /\ stage'[r] = stage[r] /\ r \in PgRecipes
    BY <1>0, <1>3 DEF Cleanup, StageInv
  <2>3. QED BY <1>0, <2>1, <2>2, Held
<1>4. QED BY <1>1, <1>2, <1>3

LEMMA StageStep ==
  ASSUME TypeOK, StageInv, [Next]_vars
  PROVE  StageInv'
<1>1. ASSUME NEW w \in Workers, NEW j, Become(w, j), job[w].at \notin Holding,
             stage' = stage, crashed' = crashed
      PROVE  StageInv'
  BY <1>1, Held DEF StageInv
<1>2. CASE Start
  BY <1>1, <1>2 DEF Start, Create, Restore, ForgetOlder, StartCLI, At, Holding, Workers
<1>3. ASSUME NEW w \in Workers, Work(w)
      PROVE  StageInv'
  <2>1. CASE \/ Release(w) \/ RestoreFiles(w) \/ RestoreDb(w)
             \/ RetainList(w) \/ RetainForget(w) \/ Prune(w)
    <3>1. job[w].at \notin Holding /\ stage' = stage /\ crashed' = crashed
      BY <2>1 DEF Prune, Release, RestoreFiles, RestoreDb, RetainList,
         RetainForget, At, Holding
    <3>2. \E j : Become(w, j)
      BY <2>1 DEF Prune, Release, RestoreFiles, RestoreDb, RetainList,
         RetainForget, Goto
    <3>3. QED BY <1>1, <3>1, <3>2
  <2>2. CASE Snapshot(w)
    <3>1. PICK j : Become(w, j) /\ j.at = "cleanup" /\ Head(j.todo) = Cur(w)
      <4>1. CASE Fail(w, "cleanup")
        BY <4>1, HeldOn
      <4>2. ASSUME NEW e \in BOOLEAN,
                   Become(w, [job[w] EXCEPT !.at = "cleanup", !.err = e])
            PROVE  \E j : Become(w, j) /\ j.at = "cleanup" /\ Head(j.todo) = Cur(w)
        <5> DEFINE j == [job[w] EXCEPT !.at = "cleanup", !.err = e]
        <5>1. Become(w, j) /\ job'[w].at = "cleanup" /\ job'[w].todo = job[w].todo
          BY <4>2, TakenFields
        <5> HIDE DEF j
        <5>2. QED BY <5>1, JobFields DEF Cur
      <4>3. QED BY <2>2, <4>1, <4>2 DEF Snapshot
    <3>2. stage' = stage /\ crashed' = crashed
      BY <2>2 DEF Snapshot
    <3>3. \A r \in RecipeSet : stage[r] # NoStage => r \in PgRecipes
      BY DEF StageInv
    <3>4. QED BY <3>1, <3>2, <3>3, Held DEF Holding
  <2>3. CASE ClearStage(w) \/ OpenDump(w) \/ FinishDump(w) \/ Cleanup(w)
    BY <2>3, StageWritten
  <2>4. QED BY <1>3, <2>1, <2>2, <2>3 DEF Work
<1>4. CASE Crash
  BY <1>4 DEF Crash, StageInv
<1>5. CASE (Environment /\ ~Crash) \/ UNCHANGED vars
  <2>1. job' = job /\ stage' = stage /\ crashed' = crashed
    BY <1>5 DEF Environment, Forget, AppWrite, vars
  <2>2. \A w \in Workers : Cur(w)' = Cur(w)
    BY <2>1 DEF Cur
  <2>3. QED BY <2>1, <2>2 DEF StageInv
<1>6. QED
  BY <1>2, <1>3, <1>4, <1>5 DEF Next

\* However page and command interleave and whichever command fails, no dump
\* stays in /tmp once all operations have ended, unless the service died: the
\* deferred RemoveAll is reached on every path.
THEOREM NoDumpStaysBehind == Spec => []StageCleared
<1>1. Init => StageInv
  BY DEF Init, StageInv
<1>2. TypeOK /\ StageInv /\ [Next]_vars => StageInv'
  BY StageStep
<1>3. StageInv => StageCleared
  BY DEF StageInv, StageCleared, At, Holding
<1>4. QED
  BY <1>1, <1>2, <1>3, EngineTypeCorrect, PTL DEF Spec

----------------------------------------------------------------------------
(* Retention: page, commands and the operator beside each other. *)

\* Ids are given once and in order, and whatever a pass is about to remove, from
\* a list of the repository as it once was, has Keep later ids.
RetainInv ==
  /\ \A s \in repo : s.id < nextId
  /\ \A s, t \in repo : s.id = t.id => s = t
  /\ \A w \in Workers : \A d \in job[w].drop : d + Keep < nextId
  /\ NewestKept

\* A snapshot that snapshotsToForget picks out of any of the repository's has at
\* least Keep later ids.
LEMMA PickedAreOld ==
  ASSUME TypeOK, RetainInv, NEW all \in SUBSET repo, NEW s \in SnapshotsToForget(all)
  PROVE  s.id + Keep < nextId
<1> DEFINE N == { x \in all : x.id > s.id }
           I == (s.id + 1)..(nextId - 1)
           f == [x \in N |-> x.id]
<1>0. Keep \in Nat /\ nextId \in Int /\ \A x \in repo : x.id \in Int
  BY EngineAssumption DEF TypeOK, SnapshotType, Ids
<1>1. s \in repo /\ Cardinality(N) >= Keep
  BY DEF SnapshotsToForget
<1>2. \A x \in N : x \in repo /\ x.id \in I
  BY <1>0, <1>1 DEF RetainInv
<1>3. f \in Injection(N, I)
  BY <1>2 DEF RetainInv, Injection, IsInjective
<1>4. IsFiniteSet(I) /\ Cardinality(I) = nextId - 1 - s.id
  <2>1. s.id < nextId
    BY <1>1 DEF RetainInv
  <2>2. /\ IsFiniteSet(I)
        /\ Cardinality(I) = IF s.id + 1 > nextId - 1 THEN 0
                            ELSE (nextId - 1) - (s.id + 1) + 1
    <3> DEFINE a == s.id + 1
               b == nextId - 1
    <3>1. a \in Int /\ b \in Int
      BY <1>0, <1>1
    <3> HIDE DEF a, b
    <3>2. IsFiniteSet(a..b) /\ Cardinality(a..b) = IF a > b THEN 0 ELSE b - a + 1
      BY <3>1, FS_Interval
    <3>3. QED BY <3>2 DEF a, b
  <2>3. QED BY <1>0, <1>1, <2>1, <2>2
<1>5. IsFiniteSet(N) /\ Cardinality(N) <= Cardinality(I)
  BY <1>3, <1>4, FS_Injection
<1>6. Cardinality(N) \in Nat
  BY <1>5, FS_CardinalityType
<1> HIDE DEF N, I
<1>7. QED BY <1>0, <1>1, <1>4, <1>5, <1>6

\* A step of worker w that takes no snapshot, and removes none but into the
\* history or out of its own list.
LEMMA RetainTurn ==
  ASSUME TypeOK, RetainInv, NEW w \in Workers, NEW j, Become(w, j), nextId' = nextId,
         \A d \in j.drop : d + Keep < nextId,
         repo' \subseteq repo,
         \A s \in repo \cup forgotten :
           s \in repo' \cup forgotten' \/ s.id \in job[w].drop
  PROVE  RetainInv'
<1>1. \A v \in Workers : \A d \in job'[v].drop : d + Keep < nextId'
  BY DEF RetainInv, TypeOK, Become
<1>2. NewestKept'
  <2> SUFFICES ASSUME NEW i \in Ids, i < nextId, i + Keep >= nextId
               PROVE  \E s \in repo' \cup forgotten' : s.id = i
    BY DEF NewestKept
  <2>1. PICK s \in repo \cup forgotten : s.id = i
    BY DEF RetainInv, NewestKept
  <2>2. i \notin job[w].drop
    <3>1. i \in Int /\ nextId \in Int /\ Keep \in Int
      BY EngineAssumption DEF Ids, TypeOK
    <3>2. i \in job[w].drop => i + Keep < nextId
      BY DEF RetainInv
    <3>3. QED BY <3>1, <3>2
  <2>3. QED BY <2>1, <2>2
<1>3. QED BY <1>1, <1>2 DEF RetainInv

\* A new snapshot makes every other one older.
LEMMA RetainSnapshot ==
  ASSUME TypeOK, RetainInv, NEW w \in Workers, Snapshot(w)
  PROVE  RetainInv'
<1>0. /\ nextId \in Int /\ Keep \in Nat /\ job[w] \in JobType
      /\ \A s \in repo : s.id \in Int
      /\ \A v \in Workers : \A d \in job[v].drop : d \in Int
  BY EngineAssumption DEF TypeOK, JobType, SnapshotType, Ids
<1>1. \A v \in Workers : job'[v].drop = job[v].drop
  <2>1. PICK e : Become(w, [job[w] EXCEPT !.at = "cleanup", !.err = e])
    BY DEF Snapshot, Fail
  <2>2. [job[w] EXCEPT !.at = "cleanup", !.err = e].drop = job[w].drop
    BY <1>0 DEF JobType
  <2>3. QED BY <2>1, <2>2 DEF Become, TypeOK
<1>2. CASE UNCHANGED <<repo, nextId>>
  BY <1>1, <1>2 DEF RetainInv, NewestKept, Snapshot
<1>3. ASSUME nextId' = nextId + 1, NEW new, new.id = nextId, repo' = repo \cup {new}
      PROVE  RetainInv'
  <2>1. \A s \in repo' : s.id < nextId'
    BY <1>0, <1>3 DEF RetainInv
  <2>2. \A s, t \in repo' : s.id = t.id => s = t
    BY <1>0, <1>3 DEF RetainInv
  <2>3. \A v \in Workers : \A d \in job'[v].drop : d + Keep < nextId'
    BY <1>0, <1>1, <1>3 DEF RetainInv
  <2>4. NewestKept'
    <3> SUFFICES ASSUME NEW i \in Ids, i < nextId + 1, i + Keep >= nextId + 1
                 PROVE  \E s \in repo' \cup forgotten' : s.id = i
      BY <1>3 DEF NewestKept
    <3>1. forgotten' = forgotten
      BY DEF Snapshot
    <3>5. i \in Int
      BY DEF Ids
    <3>2. CASE i = nextId
      BY <1>3, <3>2
    <3>3. CASE i # nextId
      <4>1. i < nextId /\ i + Keep >= nextId
        BY <1>0, <3>3, <3>5
      <4>2. QED BY <1>3, <3>1, <4>1 DEF RetainInv, NewestKept
    <3>4. QED BY <3>2, <3>3
  <2>5. QED BY <2>1, <2>2, <2>3, <2>4 DEF RetainInv
<1>4. ASSUME nextId' = nextId + 1, NEW r, NEW k, NEW f, NEW d, NEW b,
             repo' = repo \cup {[id |-> nextId, recipe |-> r, kind |-> k,
                                 files |-> f, dump |-> d, db |-> b]}
      PROVE  RetainInv'
  <2> DEFINE new == [id |-> nextId, recipe |-> r, kind |-> k, files |-> f,
                     dump |-> d, db |-> b]
  <2>1. new.id = nextId /\ repo' = repo \cup {new}
    BY <1>4
  <2> HIDE DEF new
  <2>2. QED BY <1>3, <1>4, <2>1
<1>5. QED
  BY <1>2, <1>4 DEF Snapshot

LEMMA RetainStart ==
  ASSUME TypeOK, RetainInv, Start
  PROVE  RetainInv'
<1>1. repo' = repo /\ nextId' = nextId /\ forgotten' = forgotten
  BY DEF Start, Create, Restore, ForgetOlder, StartCLI
<1>2. PICK w \in Workers : \E j : Become(w, j) /\ j.drop = {}
  <2>1. ASSUME NEW w \in UiWorkers, NEW todo \in Todos, Create(w, todo)
        PROVE  \E j : Become(w, j) /\ j.drop = {}
    <3> DEFINE j == [NoJob EXCEPT !.at = "stage", !.verb = "create", !.todo = todo,
                                  !.since = nextId]
    <3>1. Become(w, j) /\ j.drop = {}
      BY <2>1 DEF Create, NoJob
    <3> HIDE DEF j
    <3>2. QED BY <3>1
  <2>2. ASSUME NEW w \in UiWorkers, NEW r \in Restorable, NEW s \in repo,
               Restore(w, r, s)
        PROVE  \E j : Become(w, j) /\ j.drop = {}
    <3> DEFINE j == [NoJob EXCEPT !.at = "stage", !.verb = "restore",
                                  !.kind = "pre_restore", !.todo = <<r>>,
                                  !.snap = s.id, !.since = nextId, !.start = data[r]]
    <3>1. Become(w, j) /\ j.drop = {}
      BY <2>2 DEF Restore, NoJob
    <3> HIDE DEF j
    <3>2. QED BY <3>1
  <2>3. ASSUME NEW w \in UiWorkers, NEW age \in Ids, ForgetOlder(w, age)
        PROVE  \E j : Become(w, j) /\ j.drop = {}
    <3> DEFINE j == [NoJob EXCEPT !.at = "older", !.verb = "forget", !.snap = age]
    <3>1. Become(w, j) /\ j.drop = {}
      BY <2>3 DEF ForgetOlder, NoJob
    <3> HIDE DEF j
    <3>2. QED BY <3>1
  <2>4. ASSUME NEW w \in CliWorkers, NEW kind \in CliKinds, NEW todo \in Todos,
               StartCLI(w, kind, todo)
        PROVE  \E j : Become(w, j) /\ j.drop = {}
    <3> DEFINE j == [NoJob EXCEPT !.at = "stage", !.verb = "create", !.kind = kind,
                                  !.todo = todo, !.since = nextId]
    <3>1. Become(w, j) /\ j.drop = {}
      BY <2>4 DEF StartCLI, NoJob
    <3> HIDE DEF j
    <3>2. QED BY <3>1
  <2>5. QED BY <2>1, <2>2, <2>3, <2>4 DEF Start, Workers
<1>3. QED BY <1>1, <1>2, RetainTurn

\* What a worker does outside the retention pass leaves its list alone.
LEMMA RetainWork ==
  ASSUME TypeOK, RetainInv, NEW w \in Workers,
         \/ Release(w) \/ ClearStage(w) \/ OpenDump(w) \/ FinishDump(w) \/ Cleanup(w)
         \/ RestoreFiles(w) \/ RestoreDb(w) \/ Prune(w)
  PROVE  RetainInv'
<1>0. job[w] \in JobType /\ \A d \in job[w].drop : d + Keep < nextId
  BY DEF TypeOK, RetainInv
<1>1. /\ nextId' = nextId /\ repo' \subseteq repo
      /\ repo \cup forgotten \subseteq repo' \cup forgotten'
  BY DEF Release, ClearStage, OpenDump, FinishDump, Cleanup, RestoreFiles, RestoreDb,
     Prune
<1>2. \E j : Become(w, j) /\ j.drop \subseteq job[w].drop
  <2>1. /\ \A a : [job[w] EXCEPT !.at = a].drop = job[w].drop
        /\ \A a : [job[w] EXCEPT !.at = a, !.err = TRUE].drop = job[w].drop
        /\ Failed(job[w]).drop = job[w].drop /\ NoJob.drop = {}
    BY <1>0 DEF JobType, Failed, NoJob
  <2>2. AfterBackup(w).drop = job[w].drop
    BY <1>0 DEF JobType, AfterBackup
  <2>3. CASE Release(w) \/ Cleanup(w)
    BY <2>1, <2>2, <2>3 DEF Release, Cleanup
  <2>4. CASE ClearStage(w) \/ OpenDump(w) \/ FinishDump(w) \/ Prune(w)
    BY <2>1, <2>4 DEF ClearStage, OpenDump, FinishDump, Prune, Goto, Fail
  <2>5. CASE RestoreFiles(w) \/ RestoreDb(w)
    BY <2>1, <2>5 DEF RestoreFiles, RestoreDb, Goto
  <2>6. QED BY <2>3, <2>4, <2>5
<1>3. QED BY <1>0, <1>1, <1>2, RetainTurn

\* A pass lists what is old, and removes what it has listed.
LEMMA RetainPass ==
  ASSUME TypeOK, RetainInv, NEW w \in Workers, RetainList(w) \/ RetainForget(w)
  PROVE  RetainInv'
<1>0. /\ job[w] \in JobType /\ nextId' = nextId /\ forgotten' = forgotten
      /\ NextRecipe(w).drop = {}
  BY DEF RetainList, RetainForget, TypeOK, JobType, NextRecipe
<1>1. CASE RetainForget(w)
  <2>1. PICK gone \in SUBSET job[w].drop : repo' = { s \in repo : s.id \notin gone }
    BY <1>1 DEF RetainForget, Removable
  <2>2. Become(w, NextRecipe(w))
    BY <1>1 DEF RetainForget
  <2>3. QED BY <1>0, <2>1, <2>2, RetainTurn
<1>2. CASE RetainList(w)
  <2> DEFINE all == Listed(Cur(w), job[w].kind)
             drop == { s.id : s \in SnapshotsToForget(all) }
             j == [job[w] EXCEPT !.at = "forget", !.drop = drop]
  <2>1. \A d \in drop : d + Keep < nextId
    <3>1. all \in SUBSET repo
      BY DEF Listed
    <3> HIDE DEF all
    <3>2. QED BY <3>1, PickedAreOld
  <2>2. j.drop = drop
    BY <1>0 DEF JobType
  <2>3. repo' = repo /\ (Become(w, j) \/ Become(w, NextRecipe(w)))
    BY <1>2 DEF RetainList
  <2> HIDE DEF drop, j
  <2>4. QED BY <1>0, <2>1, <2>2, <2>3, RetainTurn
<1>3. QED BY <1>1, <1>2

LEMMA RetainStep ==
  ASSUME TypeOK, RetainInv, [Next]_vars
  PROVE  RetainInv'
<1>1. CASE Start
  BY <1>1, RetainStart
<1>2. ASSUME NEW w \in Workers, Work(w)
      PROVE  RetainInv'
  BY <1>2, RetainSnapshot, RetainWork, RetainPass DEF Work
<1>3. CASE Crash
  BY <1>3 DEF Crash, RetainInv, NewestKept, NoJob
<1>4. CASE (Environment /\ ~Crash) \/ UNCHANGED vars
  <2>1. /\ nextId' = nextId /\ job' = job /\ repo' \subseteq repo
        /\ repo \cup forgotten \subseteq repo' \cup forgotten'
    BY <1>4 DEF Environment, Forget, AppWrite, vars
  <2>2. NewestKept'
    BY <2>1 DEF RetainInv, NewestKept
  <2>3. QED BY <2>1, <2>2 DEF RetainInv
<1>5. QED
  BY <1>1, <1>2, <1>3, <1>4 DEF Next

\* However many nightly runs and page operations overlap, whichever command fails
\* and wherever the service dies between listing and forgetting, the Keep snapshots
\* taken last are in the repository unless the operator removed them: a pass that
\* works from an old list, or from one that takes in other stacks and kinds, never
\* comes near them (runRetention, snapshotsToForget).
THEOREM NewestAreKept == Spec => []NewestKept
<1>1. Init => RetainInv
  <2> SUFFICES ASSUME Init PROVE RetainInv
    OBVIOUS
  <2>1. NewestKept
    BY DEF Init, NewestKept, Ids
  <2>2. QED BY <2>1 DEF Init, RetainInv, NoJob
<1>2. TypeOK /\ RetainInv /\ [Next]_vars => RetainInv'
  BY RetainStep
<1>3. RetainInv => NewestKept
  BY DEF RetainInv
<1>4. QED
  BY <1>1, <1>2, <1>3, EngineTypeCorrect, PTL DEF Spec
=============================================================================
