------------------------ MODULE BackupEngine_proofs ------------------------
(***************************************************************************)
(* Proofs about BackupEngine, for every list of recipes, number of workers *)
(* and set of faults.                                                      *)
(***************************************************************************)
EXTENDS BackupEngine, SequenceTheorems, TLAPS

\* The part of TypeOK that ties the list of recipes to the place in the code.
Busy ==
  \A w \in Workers : job[w].at \in {"idle", "older", "end"} \/ job[w].todo # << >>

LEMMA RecipesType ==
  /\ Recipes \in Seq(RecipeSet) /\ Recipes # << >>
  /\ \A todo \in Todos : todo \in Seq(RecipeSet) /\ todo # << >>
<1>1. \A r \in RecipeSet : <<r>> \in Seq(RecipeSet) /\ <<r>> # << >>
  OBVIOUS
<1>2. QED
  BY <1>1, EngineAssumption DEF Todos

LEMMA NoJobType ==
  /\ NoJob \in JobType /\ NoStage \in StageType
  /\ NoJob.at = "idle" /\ 0 \in Versions
<1>1. << >> \in Seq(RecipeSet)
  OBVIOUS
<1>2. 0 \in Versions /\ 1 \in 1..(MaxSnaps + 1)
  BY EngineAssumption DEF Versions
<1>3. QED
  BY <1>1, <1>2 DEF NoJob, NoStage, JobType, StageType, DataType, Kinds

\* What a running worker works on, and what it leaves to do.
LEMMA CurType ==
  ASSUME TypeOK, NEW w \in Workers, job[w].at \notin {"idle", "older", "end"}
  PROVE  /\ Cur(w) \in RecipeSet
         /\ Tail(job[w].todo) \in Seq(RecipeSet)
         /\ Len(job[w].todo) > 1 => Tail(job[w].todo) # << >>
<1>1. job[w].todo \in Seq(RecipeSet) /\ job[w].todo # << >>
  BY DEF TypeOK, Busy, JobType
<1>2. /\ Head(job[w].todo) \in RecipeSet
      /\ Tail(job[w].todo) \in Seq(RecipeSet)
      /\ Len(Tail(job[w].todo)) = Len(job[w].todo) - 1
  BY <1>1, HeadTailProperties
<1>3. Len(job[w].todo) > 1 => Len(Tail(job[w].todo)) > 0
  BY <1>1, <1>2
<1>4. Len(<< >>) = 0
  OBVIOUS
<1>5. Len(job[w].todo) > 1 => Tail(job[w].todo) # << >>
  <2> DEFINE t == Tail(job[w].todo)
  <2>1. Len(job[w].todo) > 1 => Len(t) > 0
    BY <1>3
  <2> HIDE DEF t
  <2>2. t = << >> => ~(Len(t) > 0)
    BY <1>4
  <2>3. QED BY <2>1, <2>2 DEF t
<1>6. QED BY <1>2, <1>5 DEF Cur

LEMMA AfterBackupType ==
  ASSUME TypeOK, NEW w \in Workers, job[w].at = "cleanup"
  PROVE  /\ AfterBackup(w) \in JobType
         /\ AfterBackup(w).at \in {"files", "end", "stage", "list"}
         /\ AfterBackup(w).at # "end" => AfterBackup(w).todo # << >>
<1> DEFINE j == [job[w] EXCEPT !.ok = @ /\ ~job[w].err, !.err = FALSE]
<1>1. job[w] \in JobType /\ job[w].todo # << >>
  BY DEF TypeOK, Busy
<1>2. /\ j \in JobType /\ j.todo = job[w].todo
  BY <1>1 DEF JobType
<1>3. Tail(job[w].todo) \in Seq(RecipeSet)
      /\ (Len(job[w].todo) > 1 => Tail(job[w].todo) # << >>)
  BY CurType
<1> HIDE DEF j
<1>4. AfterBackup(w) =
        IF j.verb = "restore"
          THEN [j EXCEPT !.at = IF j.ok THEN "files" ELSE "end"]
        ELSE IF Len(j.todo) > 1 THEN [j EXCEPT !.at = "stage", !.todo = Tail(@)]
        ELSE IF j.kind = "daily" THEN [j EXCEPT !.at = "list", !.todo = Recipes]
        ELSE [j EXCEPT !.at = "end"]
  BY DEF AfterBackup, j
<1>5. CASE j.verb = "restore"
  BY <1>1, <1>2, <1>4, <1>5 DEF JobType
<1>6. CASE j.verb # "restore" /\ Len(j.todo) > 1
  <2>1. AfterBackup(w) = [j EXCEPT !.at = "stage", !.todo = Tail(j.todo)]
    BY <1>2, <1>4, <1>6 DEF JobType
  <2>2. Tail(j.todo) \in Seq(RecipeSet) /\ Tail(j.todo) # << >>
    BY <1>2, <1>3, <1>6
  <2>3. QED BY <1>2, <2>1, <2>2 DEF JobType
<1>7. CASE j.verb # "restore" /\ ~(Len(j.todo) > 1)
  <2>1. CASE j.kind = "daily"
    <3>1. AfterBackup(w) = [j EXCEPT !.at = "list", !.todo = Recipes]
      BY <1>4, <1>7, <2>1
    <3>2. QED BY <1>2, <3>1, RecipesType DEF JobType
  <2>2. CASE j.kind # "daily"
    <3>1. AfterBackup(w) = [j EXCEPT !.at = "end"]
      BY <1>4, <1>7, <2>2
    <3>2. QED BY <1>2, <3>1 DEF JobType
  <2>3. QED BY <2>1, <2>2
<1>8. QED BY <1>5, <1>6, <1>7

LEMMA NextRecipeType ==
  ASSUME TypeOK, NEW w \in Workers, job[w].at \in {"list", "forget"}
  PROVE  /\ NextRecipe(w) \in JobType
         /\ NextRecipe(w).at \in {"list", "end"}
         /\ NextRecipe(w).at # "end" => NextRecipe(w).todo # << >>
<1>1. job[w] \in JobType
  BY DEF TypeOK, Busy
<1>2. QED
  BY <1>1, CurType DEF NextRecipe, JobType

\* A step that gives one worker a new job and keeps the rest typed.
LEMMA BecomeType ==
  ASSUME TypeOK, NEW w \in Workers, NEW j \in JobType, Become(w, j),
         j.at \in {"idle", "older", "end"} \/ j.todo # << >>
  PROVE  job' \in [Workers -> JobType] /\ Busy'
BY DEF TypeOK, Busy, Become, Workers

LEMMA GotoType ==
  ASSUME TypeOK, NEW w \in Workers, job[w].at \notin {"idle", "older", "end"},
         NEW a \in {"stage", "dump", "dumping", "snap", "cleanup", "psql", "hung", "end"},
         \/ Goto(w, a)
         \/ Fail(w, a)
         \/ Become(w, Failed(job[w]))
  PROVE  job' \in [Workers -> JobType] /\ Busy'
<1>1. job[w] \in JobType /\ job[w].todo # << >>
  BY DEF TypeOK, Busy
<1>2. CASE Goto(w, a)
  <2>1. [job[w] EXCEPT !.at = a] \in JobType
        /\ [job[w] EXCEPT !.at = a].todo # << >>
        /\ [job[w] EXCEPT !.at = a].at = a
    BY <1>1 DEF JobType
  <2>2. QED BY <1>2, <2>1, BecomeType DEF Goto
<1>3. CASE Fail(w, a)
  <2>1. [job[w] EXCEPT !.at = a, !.err = TRUE] \in JobType
        /\ [job[w] EXCEPT !.at = a, !.err = TRUE].todo # << >>
        /\ [job[w] EXCEPT !.at = a, !.err = TRUE].at = a
    BY <1>1 DEF JobType
  <2>2. QED BY <1>3, <2>1, BecomeType DEF Fail
<1>4. CASE Become(w, Failed(job[w]))
  <2>1. Failed(job[w]) \in JobType /\ Failed(job[w]).at = "end"
    BY <1>1 DEF JobType, Failed
  <2>2. QED BY <1>4, <2>1, BecomeType
<1>5. QED BY <1>2, <1>3, <1>4

LEMMA TypeStep ==
  ASSUME TypeOK, [Next]_vars
  PROVE  TypeOK'
<1>0. /\ UiWorkers \cap CliWorkers = {} /\ CliKinds \subseteq Kinds
      /\ Restorable \subseteq RecipeSet /\ {Keep, MaxSnaps, MaxWrites} \subseteq Nat
  BY EngineAssumption
<1> USE <1>0
<1>1. ASSUME NEW w \in UiWorkers, NEW todo \in Todos, Create(w, todo)
      PROVE  TypeOK'
  <2> DEFINE j == [NoJob EXCEPT !.at = "stage", !.verb = "create",
                                !.todo = todo, !.since = nextId]
  <2>1. j \in JobType /\ j.todo # << >>
    BY RecipesType, NoJobType DEF JobType, TypeOK, Busy
  <2>2. Become(w, j) /\ w \in Workers
    BY <1>1 DEF Create, Workers
  <2> HIDE DEF j
  <2>3. job' \in [Workers -> JobType] /\ Busy'
    BY <2>1, <2>2, BecomeType
  <2>4. QED
    BY <1>1, <2>3 DEF Create, TryAcquire, TypeOK, Busy
<1>2. ASSUME NEW w \in UiWorkers, NEW r \in Restorable, NEW s \in repo,
             Restore(w, r, s)
      PROVE  TypeOK'
  <2> DEFINE j == [NoJob EXCEPT !.at = "stage", !.verb = "restore",
                             !.kind = "pre_restore", !.todo = <<r>>, !.snap = s.id,
                             !.since = nextId, !.start = data[r]]
  <2>1. <<r>> \in Seq(RecipeSet) /\ <<r>> # << >> /\ data[r] \in DataType
        /\ s.id \in Ids
    BY DEF TypeOK, Busy, SnapshotType
  <2>2. j \in JobType /\ j.todo # << >>
    BY <2>1, NoJobType DEF JobType, TypeOK, Busy, Kinds
  <2>3. Become(w, j) /\ w \in Workers
    BY <1>2 DEF Restore, Workers
  <2> HIDE DEF j
  <2>4. job' \in [Workers -> JobType] /\ Busy'
    BY <2>2, <2>3, BecomeType
  <2>5. QED
    BY <1>2, <2>4 DEF Restore, TryAcquire, TypeOK, Busy
<1>3. ASSUME NEW w \in CliWorkers, NEW kind \in CliKinds, NEW todo \in Todos,
             StartCLI(w, kind, todo)
      PROVE  TypeOK'
  <2> DEFINE j == [NoJob EXCEPT !.at = "stage", !.verb = "create", !.kind = kind,
                             !.todo = todo, !.since = nextId]
  <2>1. j \in JobType /\ j.todo # << >> /\ j.at = "stage"
    BY RecipesType, NoJobType DEF JobType, TypeOK, Busy
  <2>2. Become(w, j) /\ w \in Workers
    BY <1>3 DEF StartCLI, Workers
  <2> HIDE DEF j
  <2>3. job' \in [Workers -> JobType] /\ Busy'
    BY <2>1, <2>2, BecomeType
  <2>4. QED
    BY <1>3, <2>3 DEF StartCLI, TypeOK, Busy
<1>11. ASSUME NEW w \in UiWorkers, NEW age \in Ids, ForgetOlder(w, age)
       PROVE  TypeOK'
  <2> DEFINE j == [NoJob EXCEPT !.at = "older", !.verb = "forget", !.snap = age]
  <2>1. j \in JobType /\ j.at = "older"
    BY NoJobType DEF JobType
  <2>2. Become(w, j) /\ w \in Workers
    BY <1>11 DEF ForgetOlder, Workers
  <2> HIDE DEF j
  <2>3. job' \in [Workers -> JobType] /\ Busy'
    BY <2>1, <2>2, BecomeType
  <2>4. QED
    BY <1>11, <2>3 DEF ForgetOlder, TryAcquire, TypeOK, Busy
<1>4. ASSUME NEW w \in Workers, Work(w)
      PROVE  TypeOK'
  <2>1. CASE Prune(w)
    <3>1. [job[w] EXCEPT !.at = "end"] \in JobType
          /\ [job[w] EXCEPT !.at = "end"].at = "end"
      <4>1. job[w] \in JobType
        BY DEF TypeOK, Busy
      <4>2. QED BY <4>1 DEF JobType
    <3>2. job' \in [Workers -> JobType] /\ Busy'
      BY <2>1, <3>1, BecomeType DEF Prune, Goto
    <3>3. repo' \cup forgotten' \subseteq repo \cup forgotten
      BY <2>1 DEF Prune, Removable, Older
    <3>4. QED
      BY <2>1, <3>2, <3>3 DEF Prune, TypeOK, Busy
  <2>3. CASE Release(w)
    <3>1. job' \in [Workers -> JobType] /\ Busy'
      BY <2>3, NoJobType, BecomeType DEF Release
    <3>2. QED
      BY <2>3, <3>1 DEF Release, TypeOK, Busy
  <2>4. CASE ClearStage(w)
    <3>1. job' \in [Workers -> JobType] /\ Busy'
      BY <2>4, GotoType DEF ClearStage, At
    <3>2. stage' \in [RecipeSet -> StageType]
      <4>1. [NoStage EXCEPT !.dump = "dir"] \in StageType
        BY NoJobType DEF StageType
      <4>2. QED BY <2>4, <4>1 DEF ClearStage, TypeOK, Busy
    <3>3. QED
      BY <2>4, <3>1, <3>2 DEF ClearStage, TypeOK, Busy
  <2>5. CASE OpenDump(w)
    <3>1. job' \in [Workers -> JobType] /\ Busy'
      BY <2>5, GotoType DEF OpenDump, At
    <3>2. stage' \in [RecipeSet -> StageType]
      <4>1. Cur(w) \in RecipeSet
        BY <2>5, CurType DEF OpenDump, At
      <4>2. [dump |-> "part", by |-> IF Shared(w) THEN "none" ELSE w,
             db |-> data[Cur(w)].db] \in StageType
        BY <4>1 DEF StageType, TypeOK, Busy, DataType
      <4>3. QED BY <2>5, <4>2 DEF OpenDump, TypeOK, Busy
    <3>3. QED
      BY <2>5, <3>1, <3>2 DEF OpenDump, TypeOK, Busy
  <2>6. CASE FinishDump(w)
    <3>1. job' \in [Workers -> JobType] /\ Busy'
      BY <2>6, GotoType DEF FinishDump, At
    <3>2. stage' \in [RecipeSet -> StageType]
      <4>1. \/ UNCHANGED stage
            \/ \E d \in {"whole", "part"} : stage' = [stage EXCEPT ![Cur(w)].dump = d]
        BY <2>6 DEF FinishDump
      <4>2. ASSUME NEW d \in {"whole", "part"},
                   stage' = [stage EXCEPT ![Cur(w)].dump = d]
            PROVE  stage' \in [RecipeSet -> StageType]
        <5>1. Cur(w) \in RecipeSet
          BY <2>6, CurType DEF FinishDump, At
        <5>2. [stage[Cur(w)] EXCEPT !.dump = d] \in StageType
          BY <5>1 DEF TypeOK, Busy, StageType
        <5>3. stage' = [stage EXCEPT ![Cur(w)] = [stage[Cur(w)] EXCEPT !.dump = d]]
          BY <4>2
        <5>4. QED BY <5>2, <5>3 DEF TypeOK, Busy
      <4>3. QED BY <4>1, <4>2 DEF TypeOK, Busy
    <3>3. QED
      BY <2>6, <3>1, <3>2 DEF FinishDump, TypeOK, Busy
  <2>7. CASE Snapshot(w)
    <3>1. job' \in [Workers -> JobType] /\ Busy'
      <4>1. job[w] \in JobType /\ job[w].todo # << >>
        BY <2>7 DEF Snapshot, At, TypeOK, Busy
      <4>2. \A e \in BOOLEAN :
              /\ [job[w] EXCEPT !.at = "cleanup", !.err = e] \in JobType
              /\ [job[w] EXCEPT !.at = "cleanup", !.err = e].todo # << >>
        BY <4>1 DEF JobType
      <4>3. \A e \in BOOLEAN : Become(w, [job[w] EXCEPT !.at = "cleanup", !.err = e])
                              => job' \in [Workers -> JobType] /\ Busy'
        BY <4>2, BecomeType
      <4>4. Fail(w, "cleanup") => job' \in [Workers -> JobType] /\ Busy'
        BY <2>7, GotoType DEF Snapshot, At
      <4>5. QED BY <2>7, <4>3, <4>4 DEF Snapshot
    <3>2. Cur(w) \in RecipeSet
      BY <2>7, CurType DEF Snapshot, At
    <3>3. repo' \cup forgotten' \subseteq SnapshotType /\ nextId' \in 1..(MaxSnaps + 1)
      <4>1. CASE UNCHANGED <<repo, nextId>>
        BY <2>7, <4>1 DEF Snapshot, TypeOK, Busy
      <4>2. ASSUME NEW s, NEW err \in BOOLEAN, nextId \in Ids, repo' = repo \cup {s},
                   s = [id |-> nextId, recipe |-> Cur(w), kind |-> job[w].kind,
                        files |-> IF err THEN Mixed ELSE data[Cur(w)].files,
                        dump |-> IF Cur(w) \in PgRecipes THEN stage[Cur(w)].dump
                                 ELSE "none",
                        db |-> IF Cur(w) \in PgRecipes THEN stage[Cur(w)].db ELSE 0],
                   nextId' = nextId + 1
            PROVE  repo' \cup forgotten' \subseteq SnapshotType
                   /\ nextId' \in 1..(MaxSnaps + 1)
        <5>1. s \in SnapshotType
          BY <3>2, <4>2, NoJobType DEF SnapshotType, TypeOK, Busy, StageType,
             JobType, DataType, Mixed
        <5>2. forgotten' = forgotten /\ repo \cup forgotten \subseteq SnapshotType
          BY <2>7 DEF Snapshot, TypeOK
        <5>3. nextId + 1 \in 1..(MaxSnaps + 1)
          BY <4>2 DEF Ids
        <5>4. QED
          BY <4>2, <5>1, <5>2, <5>3
      <4>3. QED
        BY <2>7, <4>1, <4>2 DEF Snapshot
    <3>4. QED
      BY <2>7, <3>1, <3>3 DEF Snapshot, TypeOK, Busy
  <2>8. CASE Cleanup(w)
    <3>1. job' \in [Workers -> JobType] /\ Busy'
      BY <2>8, AfterBackupType, BecomeType DEF Cleanup, At
    <3>2. QED
      BY <2>8, <3>1, NoJobType DEF Cleanup, TypeOK, Busy
  <2>9. CASE RestoreFiles(w)
    <3>1. job' \in [Workers -> JobType] /\ Busy'
      BY <2>9, GotoType DEF RestoreFiles, At
    <3>2. data' \in [RecipeSet -> DataType]
      BY <2>9, NoJobType DEF RestoreFiles, TypeOK, Busy, SnapshotType, DataType,
         Mixed
    <3>3. half' \subseteq [recipe : RecipeSet, since : 1..(MaxSnaps + 1),
                           data : DataType]
      <4>1. Cur(w) \in RecipeSet
        BY <2>9, CurType DEF RestoreFiles, At
      <4>2. QED
        BY <2>9, <4>1 DEF RestoreFiles, TypeOK, Busy, JobType, Whole, Halved
    <3>4. QED
      BY <2>9, <3>1, <3>2, <3>3 DEF RestoreFiles, TypeOK, Busy
  <2>10. CASE RestoreDb(w)
    <3>1. job' \in [Workers -> JobType] /\ Busy'
      BY <2>10, GotoType DEF RestoreDb, At
    <3>2. data' \in [RecipeSet -> DataType]
      BY <2>10, NoJobType DEF RestoreDb, Dumps, TypeOK, Busy, SnapshotType, DataType,
         Mixed
    <3>3. half' \subseteq [recipe : RecipeSet, since : 1..(MaxSnaps + 1),
                           data : DataType]
      BY <2>10 DEF RestoreDb, TypeOK, Busy, Whole
    <3>4. QED
      BY <2>10, <3>1, <3>2, <3>3 DEF RestoreDb, TypeOK, Busy
  <2>11. CASE RetainList(w)
    <3>1. ASSUME NEW d \in SUBSET Ids
          PROVE  LET j == [job[w] EXCEPT !.at = "forget", !.drop = d] IN
                   j \in JobType /\ j.at = "forget" /\ j.todo = job[w].todo
      <4>1. job[w] \in JobType
        BY DEF TypeOK, Busy
      <4>2. QED BY <4>1 DEF JobType
    <3>2. job[w].todo # << >>
      BY <2>11 DEF RetainList, At, TypeOK
    <3>3. { s.id : s \in SnapshotsToForget(Listed(Cur(w), job[w].kind)) } \in SUBSET Ids
      <4>1. SnapshotsToForget(Listed(Cur(w), job[w].kind)) \subseteq repo
        BY DEF SnapshotsToForget, Listed
      <4>2. \A s \in repo : s.id \in Ids
        BY DEF TypeOK, Busy, SnapshotType
      <4>3. QED BY <4>1, <4>2
    <3>4. job' \in [Workers -> JobType] /\ Busy'
      BY <2>11, <3>1, <3>2, <3>3, NextRecipeType, BecomeType DEF RetainList, At
    <3>5. QED
      BY <2>11, <3>4 DEF RetainList, TypeOK, Busy
  <2>12. CASE RetainForget(w)
    <3>1. job' \in [Workers -> JobType] /\ Busy'
      BY <2>12, NextRecipeType, BecomeType DEF RetainForget, At
    <3>2. QED
      BY <2>12, <3>1 DEF RetainForget, TypeOK, Busy
  <2>13. QED
    BY <1>4, <2>1, <2>3, <2>4, <2>5, <2>6, <2>7, <2>8, <2>9, <2>10,
       <2>11, <2>12 DEF Work
<1>5. ASSUME NEW s \in repo, Forget(s)
      PROVE  TypeOK'
  BY <1>5 DEF Forget, TypeOK, Busy
<1>7. ASSUME NEW r \in RecipeSet, AppWrite(r)
      PROVE  TypeOK'
  <2>1. data' \in [RecipeSet -> DataType]
    <3>1. data[r].files \in 0..MaxWrites /\ data[r].db \in 0..MaxWrites
      BY DEF TypeOK, Busy, DataType, Versions
    <3>2. data[r].files + 1 \in Versions /\ data[r].db + 1 \in Versions
      BY <1>7, <3>1 DEF AppWrite, Versions
    <3>3. [files |-> data[r].files + 1, db |-> data[r].db + 1] \in DataType
      BY <3>2 DEF DataType
    <3>4. QED BY <1>7, <3>3 DEF AppWrite, TypeOK, Busy
  <2>2. QED
    BY <1>7, <2>1 DEF AppWrite, TypeOK, Busy
<1>8. CASE Crash
  BY <1>8, NoJobType DEF Crash, TypeOK, Busy, Workers
<1>9. CASE UNCHANGED vars
  BY <1>9 DEF vars, TypeOK, Busy
<1>10. QED
  BY <1>1, <1>2, <1>3, <1>4, <1>5, <1>7, <1>8, <1>9, <1>11
  DEF Next, Start, Environment

\* Every value keeps its kind and the loops stop at their last recipe, whatever
\* command fails (runBackupAll, runRetention).
THEOREM EngineTypeCorrect == Spec => []TypeOK
<1>1. Init => TypeOK
  <2> SUFFICES ASSUME Init PROVE TypeOK
    OBVIOUS
  <2>1. 0 \in Versions /\ 1 \in 1..(MaxSnaps + 1)
    BY EngineAssumption DEF Versions
  <2>2. [files |-> 0, db |-> 0] \in DataType
    BY <2>1 DEF DataType
  <2>3. data \in [RecipeSet -> DataType] /\ stage \in [RecipeSet -> StageType]
    BY <2>2, NoJobType DEF Init
  <2>4. job \in [Workers -> JobType] /\ Busy
    BY NoJobType DEF Init, Busy, Workers
  <2>5. inFlight \in BOOLEAN /\ crashed \in BOOLEAN
    BY DEF Init
  <2>6. repo \cup forgotten = {} /\ half = {} /\ nextId = 1
    BY DEF Init
  <2>7. QED BY <2>1, <2>3, <2>4, <2>5, <2>6 DEF TypeOK, Busy
<1>2. TypeOK /\ [Next]_vars => TypeOK'
  BY TypeStep
<1>3. QED
  BY <1>1, <1>2, PTL DEF Spec

----------------------------------------------------------------------------
(* The flag.  OneOperation is inductive given the types: a step of a worker  *)
(* that runs and goes on running changes neither who is idle nor the flag.   *)

LEMMA GoesOn ==
  ASSUME OneOperation, job \in [Workers -> JobType],
         NEW w \in Workers, NEW j, Become(w, j), inFlight' = inFlight,
         w \in UiWorkers => ~At(w, "idle") /\ j.at # "idle"
  PROVE  OneOperation'
<1>1. job' = [job EXCEPT ![w] = j] /\ UiWorkers \subseteq Workers
  BY DEF Become, Workers
<1>2. \A v \in UiWorkers : At(v, "idle")' <=> At(v, "idle")
  BY <1>1 DEF At
<1>3. QED BY <1>2 DEF OneOperation

LEMMA Starts ==
  ASSUME OneOperation, job \in [Workers -> JobType], NEW w \in UiWorkers,
         NEW j, j.at # "idle", Become(w, j), TryAcquire
  PROVE  OneOperation'
<1>1. job' = [job EXCEPT ![w] = j] /\ UiWorkers \subseteq Workers
  BY DEF Become, Workers
<1>2. \A v \in UiWorkers : At(v, "idle")
  BY DEF OneOperation, TryAcquire
<1>3. \A v \in UiWorkers : At(v, "idle")' <=> v # w
  BY <1>1, <1>2 DEF At
<1>4. QED BY <1>3 DEF OneOperation, TryAcquire

LEMMA GotoGoesOn ==
  ASSUME OneOperation, job \in [Workers -> JobType], inFlight' = inFlight,
         NEW w \in Workers, ~At(w, "idle"),
         NEW a \in {"stage", "dump", "dumping", "snap", "cleanup", "psql", "hung",
                    "end"},
         \/ Goto(w, a)
         \/ Fail(w, a)
         \/ Become(w, Failed(job[w]))
  PROVE  OneOperation'
<1>1. /\ [job[w] EXCEPT !.at = a].at # "idle"
      /\ [job[w] EXCEPT !.at = a, !.err = TRUE].at # "idle"
      /\ Failed(job[w]).at # "idle"
  BY DEF JobType, Failed
<1>2. CASE Goto(w, a)
  BY <1>1, <1>2, GoesOn DEF Goto
<1>3. CASE Fail(w, a)
  BY <1>1, <1>3, GoesOn DEF Fail
<1>4. CASE Become(w, Failed(job[w]))
  BY <1>1, <1>4, GoesOn
<1>5. QED BY <1>2, <1>3, <1>4

LEMMA OneOperationStep ==
  ASSUME TypeOK, OneOperation, [Next]_vars
  PROVE  OneOperation'
<1> USE EngineAssumption
<1>0. job \in [Workers -> JobType]
  BY DEF TypeOK, Busy
<1>1. ASSUME NEW w \in UiWorkers, NEW todo \in Todos, Create(w, todo)
      PROVE  OneOperation'
  <2> DEFINE j == [NoJob EXCEPT !.at = "stage", !.verb = "create",
                                !.todo = todo, !.since = nextId]
  <2>1. j.at # "idle"
    BY DEF NoJob
  <2>2. Become(w, j) /\ TryAcquire
    BY <1>1 DEF Create
  <2> HIDE DEF j
  <2>3. QED BY <1>0, <2>1, <2>2, Starts
<1>2. ASSUME NEW w \in UiWorkers, NEW r \in Restorable, NEW s \in repo,
             Restore(w, r, s)
      PROVE  OneOperation'
  <2> DEFINE j == [NoJob EXCEPT !.at = "stage", !.verb = "restore",
                             !.kind = "pre_restore", !.todo = <<r>>, !.snap = s.id,
                             !.since = nextId, !.start = data[r]]
  <2>1. j.at # "idle"
    BY DEF NoJob
  <2>2. Become(w, j) /\ TryAcquire
    BY <1>2 DEF Restore
  <2> HIDE DEF j
  <2>3. QED BY <1>0, <2>1, <2>2, Starts
<1>3. ASSUME NEW w \in CliWorkers, NEW kind \in CliKinds, NEW todo \in Todos,
             StartCLI(w, kind, todo)
      PROVE  OneOperation'
  <2>1. w \in Workers /\ w \notin UiWorkers
    BY DEF Workers
  <2>2. QED BY <1>0, <1>3, <2>1, GoesOn DEF StartCLI
<1>11. ASSUME NEW w \in UiWorkers, NEW age \in Ids, ForgetOlder(w, age)
       PROVE  OneOperation'
  <2> DEFINE j == [NoJob EXCEPT !.at = "older", !.verb = "forget", !.snap = age]
  <2>1. j.at # "idle"
    BY DEF NoJob
  <2>2. Become(w, j) /\ TryAcquire
    BY <1>11 DEF ForgetOlder
  <2> HIDE DEF j
  <2>3. QED BY <1>0, <2>1, <2>2, Starts
<1>4. ASSUME NEW w \in Workers, Work(w)
      PROVE  OneOperation'
  <2>1. CASE Prune(w)
    BY <1>0, <2>1, GotoGoesOn DEF Prune, At
  <2>3. CASE Release(w)
    <3>1. CASE w \in UiWorkers
      <4>1. \A v \in UiWorkers : v # w => At(v, "idle")
        BY <2>3, <3>1 DEF Release, At, OneOperation
      <4>2. \A v \in UiWorkers : At(v, "idle")'
        BY <1>0, <2>3, <4>1, NoJobType DEF Release, Become, At, Workers
      <4>3. QED BY <2>3, <3>1, <4>2 DEF Release, OneOperation
    <3>2. CASE w \notin UiWorkers
      BY <1>0, <2>3, <3>2, GoesOn DEF Release
    <3>3. QED BY <3>1, <3>2
  <2>4. CASE ClearStage(w)
    BY <1>0, <2>4, GotoGoesOn DEF ClearStage, At
  <2>5. CASE OpenDump(w)
    BY <1>0, <2>5, GotoGoesOn DEF OpenDump, At
  <2>6. CASE FinishDump(w)
    BY <1>0, <2>6, GotoGoesOn DEF FinishDump, At
  <2>7. CASE Snapshot(w)
    <3>1. \A e : [job[w] EXCEPT !.at = "cleanup", !.err = e].at = "cleanup"
      BY <1>0 DEF JobType
    <3>2. QED
      BY <1>0, <2>7, <3>1, GotoGoesOn, GoesOn DEF Snapshot, At
  <2>8. CASE Cleanup(w)
    BY <1>0, <2>8, AfterBackupType, GoesOn DEF Cleanup, At
  <2>9. CASE RestoreFiles(w)
    BY <1>0, <2>9, GotoGoesOn DEF RestoreFiles, At
  <2>10. CASE RestoreDb(w)
    BY <1>0, <2>10, GotoGoesOn DEF RestoreDb, At
  <2>11. CASE RetainList(w)
    <3>1. \A d : [job[w] EXCEPT !.at = "forget", !.drop = d].at = "forget"
      BY <1>0 DEF JobType
    <3>2. QED
      BY <1>0, <2>11, <3>1, NextRecipeType, GoesOn DEF RetainList, At
  <2>12. CASE RetainForget(w)
    BY <1>0, <2>12, NextRecipeType, GoesOn DEF RetainForget, At
  <2>13. QED
    BY <1>4, <2>1, <2>3, <2>4, <2>5, <2>6, <2>7, <2>8, <2>9, <2>10,
       <2>11, <2>12 DEF Work
<1>5. ASSUME NEW s \in repo, Forget(s)
      PROVE  OneOperation'
  BY <1>5 DEF Forget, OneOperation, At
<1>7. ASSUME NEW r \in RecipeSet, AppWrite(r)
      PROVE  OneOperation'
  BY <1>7 DEF AppWrite, OneOperation, At
<1>8. CASE Crash
  BY <1>8, NoJobType DEF Crash, OneOperation, At, Workers
<1>9. CASE UNCHANGED vars
  BY <1>9 DEF vars, OneOperation, At
<1>10. QED
  BY <1>1, <1>2, <1>3, <1>4, <1>5, <1>7, <1>8, <1>9, <1>11
  DEF Next, Start, Environment

\* At most one operation of the page runs, and backupOpInFlight is up exactly
\* while it does, for any number of handlers, commands, faults and crashes.
THEOREM OneAtATime == Spec => []OneOperation
<1>1. Init => OneOperation
  BY NoJobType DEF Init, OneOperation, At, Workers
<1>2. TypeOK /\ OneOperation /\ [Next]_vars => OneOperation'
  BY OneOperationStep
<1>3. QED
  BY <1>1, <1>2, EngineTypeCorrect, PTL DEF Spec

----------------------------------------------------------------------------
(* The page without the command.  A worker of the page has the staging        *)
(* directory to itself, so what it has dumped is what restic will read, and   *)
(* a restore comes to the files only with its safety snapshot taken.          *)

Saves(s, r, since, d) ==
  /\ s.recipe = r /\ s.kind = "pre_restore" /\ s.id >= since
  /\ s.files >= d.files
  /\ r \in PgRecipes => s.dump = "whole" /\ s.db >= d.db

Saved(r, since, d) == \E s \in repo \cup forgotten : Saves(s, r, since, d)

\* What the dump of worker w is worth at each step.
DumpCareful(w) ==
  /\ At(w, "dumping") => stage[Cur(w)].by = w
  /\ At(w, "snap") /\ Cur(w) \in PgRecipes => stage[Cur(w)].dump = "whole"

\* What a restore by w has secured at each step.
RestoreCareful(w) ==
  job[w].verb = "restore" =>
    /\ job[w].kind = "pre_restore" /\ job[w].since <= nextId
    /\ job[w].at \in {"stage", "dump", "dumping", "snap"} =>
         /\ data[Cur(w)].files >= job[w].start.files
         /\ data[Cur(w)].db >= job[w].start.db
    /\ At(w, "dumping") \/ (At(w, "snap") /\ Cur(w) \in PgRecipes) =>
         stage[Cur(w)].db >= job[w].start.db
    /\ job[w].at \in {"files", "psql"} \/ (At(w, "cleanup") /\ ~job[w].err) =>
         Saved(Cur(w), job[w].since, job[w].start)

Careful(w) ==
  /\ job[w].kind # "daily" /\ job[w].at \notin {"list", "forget"}
  /\ At(w, "idle") => job[w] = NoJob
  /\ job[w].at \in {"files", "psql"} => job[w].verb = "restore"
  /\ DumpCareful(w)
  /\ RestoreCareful(w)

PageInv ==
  /\ TypeOK /\ OneOperation
  /\ \A w \in Workers : Careful(w)
  /\ SnapshotsAreWhole
  /\ BotchedIsRecoverable

LEMMA IdleCareful ==
  ASSUME NEW w, job[w] = NoJob
  PROVE  Careful(w)
BY DEF Careful, DumpCareful, RestoreCareful, At, NoJob

\* A step of one worker leaves the others idle.
LEMMA OthersIdle ==
  ASSUME PageInv, CliWorkers = {}, NEW w \in Workers, ~At(w, "idle"),
         NEW j, Become(w, j), Careful(w)'
  PROVE  \A v \in Workers : Careful(v)'
<1> SUFFICES ASSUME NEW v \in Workers, v # w
             PROVE  Careful(v)'
  OBVIOUS
<1>1. At(v, "idle")
  BY DEF PageInv, OneOperation, Workers
<1>2. job[v] = NoJob
  BY <1>1 DEF PageInv, Careful
<1>3. job'[v] = NoJob
  BY <1>2 DEF PageInv, TypeOK, Busy, Become
<1>4. QED
  BY <1>3 DEF Careful, DumpCareful, RestoreCareful, At, NoJob

\* Snapshots are not lost: what recovers a restore goes on recovering it.
LEMMA StillRecoverable ==
  ASSUME BotchedIsRecoverable, half' \subseteq half,
         repo \cup forgotten \subseteq repo' \cup forgotten'
  PROVE  BotchedIsRecoverable'
BY DEF BotchedIsRecoverable

\* The fields of a job after a step.
LEMMA JobFields ==
  ASSUME TypeOK, NEW w \in Workers, NEW j, Become(w, j)
  PROVE  job'[w] = j
BY DEF TypeOK, Busy, Become

LEMMA GotoFields ==
  ASSUME TypeOK, NEW w \in Workers, NEW a, Goto(w, a)
  PROVE  /\ job'[w].at = a /\ job'[w].todo = job[w].todo
         /\ job'[w].verb = job[w].verb /\ job'[w].kind = job[w].kind
         /\ job'[w].since = job[w].since /\ job'[w].start = job[w].start
         /\ job'[w].err = job[w].err
BY DEF TypeOK, Busy, JobType, Goto, Become

LEMMA FailFields ==
  ASSUME TypeOK, NEW w \in Workers, NEW a, Fail(w, a)
  PROVE  /\ job'[w].at = a /\ job'[w].todo = job[w].todo
         /\ job'[w].verb = job[w].verb /\ job'[w].kind = job[w].kind
         /\ job'[w].since = job[w].since /\ job'[w].start = job[w].start
         /\ job'[w].err
BY DEF TypeOK, Busy, JobType, Fail, Become

LEMMA TakenFields ==
  ASSUME TypeOK, NEW w \in Workers, NEW e \in BOOLEAN,
         Become(w, [job[w] EXCEPT !.at = "cleanup", !.err = e])
  PROVE  /\ job'[w].at = "cleanup" /\ job'[w].todo = job[w].todo
         /\ job'[w].verb = job[w].verb /\ job'[w].kind = job[w].kind
         /\ job'[w].since = job[w].since /\ job'[w].start = job[w].start
         /\ job'[w].err = e
BY DEF TypeOK, Busy, JobType, Become

LEMMA FailedFields ==
  ASSUME TypeOK, NEW w \in Workers, Become(w, Failed(job[w]))
  PROVE  /\ job'[w].at = "end"
         /\ job'[w].verb = job[w].verb /\ job'[w].kind = job[w].kind
         /\ job'[w].since = job[w].since
BY DEF TypeOK, Busy, JobType, Failed, Become

\* A step that changes no repository and no record of half-done restores.
LEMMA QuietStep ==
  ASSUME PageInv, repo' = repo, forgotten' = forgotten, half' = half
  PROVE  SnapshotsAreWhole' /\ BotchedIsRecoverable'
<1>1. BotchedIsRecoverable'
  BY StillRecoverable DEF PageInv
<1>2. QED
  BY <1>1 DEF PageInv, SnapshotsAreWhole

LEMMA ClearStageCareful ==
  ASSUME PageInv, NEW w \in Workers, ClearStage(w)
  PROVE  Careful(w)' /\ SnapshotsAreWhole' /\ BotchedIsRecoverable'
<1>0. TypeOK /\ Careful(w) /\ Cur(w)' = Head(job'[w].todo)
  BY DEF PageInv, Cur
<1>1. SnapshotsAreWhole' /\ BotchedIsRecoverable'
  BY QuietStep DEF ClearStage
<1>4. CASE ClearStage(w) /\ Cur(w) \in PgRecipes
  <2>1. Goto(w, "dump")
    BY <1>4 DEF ClearStage
  <2>2. job'[w].at = "dump" /\ Cur(w)' = Cur(w)
    BY <1>0, <2>1, GotoFields DEF Cur
  <2>3. Careful(w)'
    BY <1>0, <1>4, <2>1, <2>2, GotoFields
    DEF Careful, DumpCareful, RestoreCareful, At, ClearStage
  <2>4. QED BY <1>1, <2>3
<1>5. CASE ClearStage(w) /\ Cur(w) \notin PgRecipes
  <2>1. Goto(w, "snap")
    BY <1>5 DEF ClearStage
  <2>2. job'[w].at = "snap" /\ Cur(w)' = Cur(w)
    BY <1>0, <2>1, GotoFields DEF Cur
  <2>3. Careful(w)'
    BY <1>0, <1>5, <2>1, <2>2, GotoFields
    DEF Careful, DumpCareful, RestoreCareful, At, ClearStage
  <2>4. QED BY <1>1, <2>3
<1>6. QED BY <1>4, <1>5

LEMMA OpenDumpCareful ==
  ASSUME PageInv, CliWorkers = {}, NEW w \in Workers, OpenDump(w)
  PROVE  Careful(w)' /\ SnapshotsAreWhole' /\ BotchedIsRecoverable'
<1>0. TypeOK /\ Careful(w) /\ At(w, "dump")
  BY DEF PageInv, OpenDump
<1>1. SnapshotsAreWhole' /\ BotchedIsRecoverable'
  BY QuietStep DEF OpenDump
<1>2. Cur(w) \in RecipeSet
  BY <1>0, CurType DEF At
<1>3. CASE Goto(w, "dumping")
  <2>1. job'[w].at = "dumping" /\ Cur(w)' = Cur(w)
    BY <1>0, <1>3, GotoFields DEF Cur
  <2>2. ~Fail(w, "cleanup")
    <3>1. Fail(w, "cleanup") => job'[w].at = "cleanup"
      BY <1>0, FailFields
    <3>2. QED BY <2>1, <3>1
  <2>6. ~Shared(w)
    BY <1>0 DEF Shared, PageInv, OneOperation, Workers, At
  <2>3. stage'[Cur(w)] = [dump |-> "part", by |-> w, db |-> data[Cur(w)].db]
    BY <1>2, <2>2, <2>6 DEF OpenDump, PageInv, TypeOK, Busy
  <2>4. stage'[Cur(w)].by = w /\ stage'[Cur(w)].db = data[Cur(w)].db
    BY <2>3
  <2>5. QED
    BY <1>0, <1>1, <1>3, <2>1, <2>4, GotoFields
    DEF Careful, DumpCareful, RestoreCareful, At, OpenDump
<1>4. CASE Fail(w, "cleanup")
  BY <1>0, <1>1, <1>4, FailFields
  DEF Careful, DumpCareful, RestoreCareful, At, OpenDump
<1>5. QED BY <1>3, <1>4 DEF OpenDump

LEMMA FinishDumpCareful ==
  ASSUME PageInv, NEW w \in Workers, FinishDump(w)
  PROVE  Careful(w)' /\ SnapshotsAreWhole' /\ BotchedIsRecoverable'
<1>0. TypeOK /\ Careful(w) /\ At(w, "dumping") /\ stage[Cur(w)].by = w
  BY DEF PageInv, FinishDump, Careful, DumpCareful
<1>1. SnapshotsAreWhole' /\ BotchedIsRecoverable'
  BY QuietStep DEF FinishDump
<1>2. Cur(w) \in RecipeSet
  BY <1>0, CurType DEF At
<1>3. CASE Goto(w, "snap") /\ stage' = [stage EXCEPT ![Cur(w)].dump = "whole"]
  <2>1. job'[w].at = "snap" /\ Cur(w)' = Cur(w)
    BY <1>0, <1>3, GotoFields DEF Cur
  <2>2. stage'[Cur(w)] = [stage[Cur(w)] EXCEPT !.dump = "whole"]
    BY <1>2, <1>3 DEF PageInv, TypeOK, Busy
  <2>3. stage'[Cur(w)].dump = "whole" /\ stage'[Cur(w)].db = stage[Cur(w)].db
    BY <1>2, <2>2 DEF PageInv, TypeOK, Busy, StageType
  <2>4. QED
    BY <1>0, <1>1, <1>3, <2>1, <2>3, GotoFields
    DEF Careful, DumpCareful, RestoreCareful, At, FinishDump
<1>4. CASE Fail(w, "cleanup")
  BY <1>0, <1>1, <1>4, FailFields
  DEF Careful, DumpCareful, RestoreCareful, At, FinishDump
<1>5. QED BY <1>0, <1>3, <1>4 DEF FinishDump

\* A snapshot of a restore is what secures it.
LEMMA SnapshotCareful ==
  ASSUME PageInv, NEW w \in Workers, Snapshot(w)
  PROVE  Careful(w)' /\ SnapshotsAreWhole' /\ BotchedIsRecoverable'
<1>0. TypeOK /\ Careful(w) /\ At(w, "snap") /\ BotchedIsRecoverable
      /\ SnapshotsAreWhole
  BY DEF PageInv, Snapshot
<1>1. Cur(w) \in RecipeSet
  BY <1>0, CurType DEF At
<1>2. BotchedIsRecoverable'
  <2>1. half' = half /\ repo \subseteq repo' /\ forgotten' = forgotten
    BY DEF Snapshot
  <2>2. QED BY <1>0, <2>1, StillRecoverable
<1>3. CASE Fail(w, "cleanup") /\ UNCHANGED <<repo, nextId>>
  <2>1. job'[w].at = "cleanup" /\ job'[w].err
    BY <1>0, <1>3, FailFields
  <2>2. /\ job'[w].verb = job[w].verb /\ job'[w].kind = job[w].kind
        /\ job'[w].since = job[w].since /\ nextId' = nextId /\ repo' = repo
    BY <1>0, <1>3, FailFields
  <2>3. QED
    BY <1>0, <1>2, <2>1, <2>2
    DEF Careful, DumpCareful, RestoreCareful, SnapshotsAreWhole, At
<1>4. ASSUME NEW s, NEW e \in BOOLEAN, repo' = repo \cup {s}, nextId' = nextId + 1,
             Become(w, [job[w] EXCEPT !.at = "cleanup", !.err = e]),
             s = [id |-> nextId, recipe |-> Cur(w), kind |-> job[w].kind,
                  files |-> IF e THEN Mixed ELSE data[Cur(w)].files,
                  dump |-> IF Cur(w) \in PgRecipes THEN stage[Cur(w)].dump
                           ELSE "none",
                  db |-> IF Cur(w) \in PgRecipes THEN stage[Cur(w)].db ELSE 0]
      PROVE  Careful(w)' /\ SnapshotsAreWhole'
  <2>1. /\ s.id = nextId /\ s.recipe = Cur(w) /\ s.kind = job[w].kind
        /\ ~e => s.files = data[Cur(w)].files
        /\ Cur(w) \in PgRecipes => s.dump = stage[Cur(w)].dump
                                   /\ s.db = stage[Cur(w)].db
    BY <1>4
  <2>2. Cur(w) \in PgRecipes => stage[Cur(w)].dump = "whole"
    BY <1>0 DEF Careful, DumpCareful
  <2>3. SnapshotsAreWhole'
    BY <1>0, <1>4, <2>1, <2>2 DEF SnapshotsAreWhole
  <2>4. job[w].verb = "restore" /\ ~e => Saves(s, Cur(w), job[w].since, job[w].start)
    BY <1>0, <2>1, <2>2 DEF Careful, RestoreCareful, Saves, At, TypeOK, Busy
  <2>5. job'[w].at = "cleanup" /\ Cur(w)' = Cur(w)
    BY <1>0, <1>4, TakenFields DEF Cur
  <2>6. job[w].verb = "restore" /\ ~e => Saved(Cur(w), job[w].since, job[w].start)'
    BY <1>4, <2>4, <2>5, <1>0, TakenFields DEF Saved, Saves
  <2>7. nextId \in Nat /\ job[w].since \in Nat
    BY <1>0, EngineAssumption DEF TypeOK, Busy, JobType
  <2>8. RestoreCareful(w)'
    <3>1. /\ job'[w].verb = job[w].verb /\ job'[w].kind = job[w].kind
          /\ job'[w].since = job[w].since /\ job'[w].start = job[w].start
          /\ nextId' = nextId + 1
      BY <1>0, <1>4, TakenFields
    <3>2. job'[w].err = e
      BY <1>0, <1>4, TakenFields
    <3>3. CASE e
      <4>1. job'[w].err
        BY <3>2, <3>3
      <4>2. QED BY <1>0, <2>5, <2>7, <3>1, <4>1 DEF Careful, RestoreCareful, At
    <3>4. CASE ~e
      BY <1>0, <2>5, <2>6, <2>7, <3>1, <3>4 DEF Careful, RestoreCareful, At
    <3>5. QED BY <3>3, <3>4
  <2>9. QED
    BY <1>0, <1>4, <2>3, <2>5, <2>8, TakenFields DEF Careful, DumpCareful, At
<1>5. QED
  BY <1>2, <1>3, <1>4 DEF Snapshot

\* After the backup of a recipe: only a restore that has its safety snapshot
\* comes to the files, and without a daily run there is no retention pass.
LEMMA CleanupCareful ==
  ASSUME PageInv, NEW w \in Workers, Cleanup(w)
  PROVE  Careful(w)' /\ SnapshotsAreWhole' /\ BotchedIsRecoverable'
<1>0. TypeOK /\ Careful(w) /\ At(w, "cleanup") /\ job[w] \in JobType
  BY DEF PageInv, Cleanup, TypeOK, Busy
<1>1. SnapshotsAreWhole' /\ BotchedIsRecoverable'
  BY QuietStep DEF Cleanup
<1>2. job'[w] = AfterBackup(w)
  BY <1>0, JobFields DEF Cleanup
<1>3. CASE job[w].verb # "restore"
  <2>1. /\ AfterBackup(w).at \in {"stage", "end"}
        /\ AfterBackup(w).verb = job[w].verb /\ AfterBackup(w).kind = job[w].kind
    BY <1>0, <1>3 DEF AfterBackup, JobType, Careful
  <2>2. QED
    BY <1>0, <1>1, <1>2, <1>3, <2>1
    DEF Careful, DumpCareful, RestoreCareful, At
<1>4. CASE job[w].verb = "restore"
  <2>1. /\ AfterBackup(w).at \in {"files", "end"}
        /\ AfterBackup(w).at = "files" => ~job[w].err
        /\ AfterBackup(w).verb = "restore" /\ AfterBackup(w).kind = job[w].kind
        /\ AfterBackup(w).todo = job[w].todo
        /\ AfterBackup(w).since = job[w].since /\ AfterBackup(w).start = job[w].start
    BY <1>0, <1>4 DEF AfterBackup, JobType
  <2>2. Cur(w)' = Cur(w)
    BY <1>2, <2>1 DEF Cur
  <2>3. job'[w].at = "files" => Saved(Cur(w), job[w].since, job[w].start)'
    BY <1>0, <1>2, <1>4, <2>1, <2>2
    DEF Careful, RestoreCareful, At, Saved, Saves, Cleanup
  <2>4. QED
    BY <1>0, <1>1, <1>2, <1>4, <2>1, <2>2, <2>3
    DEF Careful, DumpCareful, RestoreCareful, At, Cleanup
<1>5. QED BY <1>3, <1>4

\* Once a stack changes, its safety snapshot is there.
LEMMA RestoringCareful ==
  ASSUME PageInv, NEW w \in Workers, RestoreFiles(w) \/ RestoreDb(w)
  PROVE  Careful(w)' /\ SnapshotsAreWhole' /\ BotchedIsRecoverable'
<1>0. /\ TypeOK /\ Careful(w) /\ job[w].at \in {"files", "psql"}
      /\ BotchedIsRecoverable /\ repo' = repo /\ forgotten' = forgotten
      /\ nextId' = nextId
  BY DEF PageInv, RestoreFiles, RestoreDb, At
<1>1. job[w].verb = "restore" /\ Saved(Cur(w), job[w].since, job[w].start)
  BY <1>0 DEF Careful, RestoreCareful
<1>2. half' \subseteq half \/ half' = Halved(w)
  BY DEF RestoreFiles, RestoreDb, Whole
<1>3. BotchedIsRecoverable'
  <2>1. CASE half' \subseteq half
    BY <1>0, <2>1, StillRecoverable
  <2>2. CASE half' = Halved(w)
    BY <1>0, <1>1, <2>2 DEF BotchedIsRecoverable, Halved, Saved, Saves
  <2>3. QED BY <1>2, <2>1, <2>2
<1>4. SnapshotsAreWhole'
  BY <1>0 DEF PageInv, SnapshotsAreWhole
<1>5. CASE Goto(w, "psql")
  <2>1. job'[w].at = "psql" /\ Cur(w)' = Cur(w)
    BY <1>0, <1>5, GotoFields DEF Cur
  <2>2. Saved(Cur(w), job[w].since, job[w].start)'
    BY <1>0, <1>1, <1>5, <2>1, GotoFields DEF Saved, Saves
  <2>3. QED
    BY <1>0, <1>1, <1>3, <1>4, <1>5, <2>1, <2>2, GotoFields
    DEF Careful, DumpCareful, RestoreCareful, At
<1>6. CASE Goto(w, "end")
  BY <1>0, <1>3, <1>4, <1>6, GotoFields
  DEF Careful, DumpCareful, RestoreCareful, At
<1>7. CASE Become(w, Failed(job[w]))
  BY <1>0, <1>3, <1>4, <1>7, FailedFields
  DEF Careful, DumpCareful, RestoreCareful, At
<1>9. CASE Goto(w, "hung")
  BY <1>0, <1>3, <1>4, <1>9, GotoFields
  DEF Careful, DumpCareful, RestoreCareful, At
<1>8. QED BY <1>5, <1>6, <1>7, <1>9 DEF RestoreFiles, RestoreDb

\* The removal of old snapshots keeps them in the history.
LEMMA PruneCareful ==
  ASSUME PageInv, NEW w \in Workers, Prune(w)
  PROVE  Careful(w)' /\ SnapshotsAreWhole' /\ BotchedIsRecoverable'
<1>0. /\ TypeOK /\ Careful(w) /\ SnapshotsAreWhole /\ BotchedIsRecoverable
      /\ Goto(w, "end") /\ nextId' = nextId
  BY DEF PageInv, Prune
<1>1. /\ half' = half /\ repo' \subseteq repo
      /\ repo \cup forgotten \subseteq repo' \cup forgotten'
  BY DEF Prune
<1>2. SnapshotsAreWhole' /\ BotchedIsRecoverable'
  BY <1>0, <1>1, StillRecoverable DEF SnapshotsAreWhole
<1>3. QED
  BY <1>0, <1>2, GotoFields DEF Careful, DumpCareful, RestoreCareful, At

\* An operation starts while every worker is idle, with nothing to secure yet.
LEMMA StartCareful ==
  ASSUME PageInv, CliWorkers = {}, NEW w \in UiWorkers, NEW j,
         TryAcquire, Become(w, j),
         UNCHANGED <<stage, repo, nextId, data, half, forgotten>>,
         j.at \in {"stage", "older"}, j.kind # "daily",
         j.verb = "restore" =>
           /\ j.kind = "pre_restore" /\ j.since = nextId
           /\ Head(j.todo) \in RecipeSet /\ j.start = data[Head(j.todo)]
  PROVE  (\A v \in Workers : Careful(v)') /\ SnapshotsAreWhole' /\ BotchedIsRecoverable'
<1>0. TypeOK /\ w \in Workers
  BY DEF PageInv, Workers
<1>1. SnapshotsAreWhole' /\ BotchedIsRecoverable'
  BY QuietStep
<1>2. \A v \in Workers : v # w => job'[v] = NoJob
  <2>1. \A v \in Workers : At(v, "idle")
    BY DEF PageInv, OneOperation, Workers, TryAcquire
  <2>2. \A v \in Workers : job[v] = NoJob
    BY <2>1 DEF PageInv, Careful
  <2>3. QED
    BY <1>0, <2>2 DEF TypeOK, Busy, Become
<1>3. \A v \in Workers : v # w => Careful(v)'
  BY <1>2 DEF Careful, DumpCareful, RestoreCareful, At, NoJob
<1>4. Careful(w)'
  <2>1. job'[w] = j /\ Cur(w)' = Head(j.todo)
    BY <1>0, JobFields DEF Cur
  <2>2. nextId \in Int
        /\ \A r \in RecipeSet : data[r].files \in Int /\ data[r].db \in Int
    BY <1>0, EngineAssumption DEF TypeOK, Busy, DataType, Versions
  <2>3. QED
    BY <2>1, <2>2 DEF Careful, DumpCareful, RestoreCareful, At
<1>5. QED BY <1>1, <1>3, <1>4

\* The operator removes snapshots and the stacks go on writing, under a worker
\* that runs.
LEMMA AroundCareful ==
  ASSUME PageInv,
         \/ \E s \in repo : Forget(s)
         \/ \E r \in RecipeSet : AppWrite(r)
         \/ UNCHANGED vars
  PROVE  (\A w \in Workers : Careful(w)') /\ SnapshotsAreWhole' /\ BotchedIsRecoverable'
<1>0. TypeOK /\ SnapshotsAreWhole /\ BotchedIsRecoverable
  BY DEF PageInv
<1>1. /\ job' = job /\ stage' = stage /\ nextId' = nextId /\ half' = half
      /\ repo' \subseteq repo
      /\ repo \cup forgotten \subseteq repo' \cup forgotten'
  BY DEF Forget, AppWrite, vars
<1>2. \A r \in RecipeSet : data'[r].files >= data[r].files /\ data'[r].db >= data[r].db
  <2>1. \A r \in RecipeSet : data[r].files \in Int /\ data[r].db \in Int
    BY <1>0, EngineAssumption DEF TypeOK, Busy, DataType, Versions
  <2>2. CASE data' = data
    BY <2>1, <2>2
  <2>3. ASSUME NEW r \in RecipeSet, AppWrite(r)
        PROVE  \A q \in RecipeSet : /\ data'[q].files >= data[q].files
                                    /\ data'[q].db >= data[q].db
    <3>1. \A q \in RecipeSet : q # r => data'[q] = data[q]
      BY <1>0, <2>3 DEF AppWrite, TypeOK, Busy
    <3>2. data'[r].files = data[r].files + 1 /\ data'[r].db = data[r].db + 1
      BY <1>0, <2>3 DEF AppWrite, TypeOK, Busy
    <3>3. QED BY <2>1, <3>1, <3>2
  <2>4. QED
    BY <2>2, <2>3 DEF Forget, vars
<1>3. SnapshotsAreWhole' /\ BotchedIsRecoverable'
  BY <1>0, <1>1, StillRecoverable DEF SnapshotsAreWhole
<1>4. ASSUME NEW w \in Workers
      PROVE  Careful(w)'
  <2>1. Careful(w) /\ Cur(w)' = Cur(w) /\ job'[w] = job[w]
    BY <1>1 DEF PageInv, Cur
  <2>2. Saved(Cur(w), job[w].since, job[w].start)
          => Saved(Cur(w), job[w].since, job[w].start)'
    BY <1>1, <2>1 DEF Saved, Saves
  <2>3. job[w].at \in {"stage", "dump", "dumping", "snap"} =>
          /\ Cur(w) \in RecipeSet
          /\ data[Cur(w)].files \in Int /\ data[Cur(w)].db \in Int
          /\ data'[Cur(w)].files \in Int /\ data'[Cur(w)].db \in Int
          /\ job[w].start.files \in Int /\ job[w].start.db \in Int
    <3>1. data' \in [RecipeSet -> DataType]
      BY <1>0, TypeStep DEF TypeOK, Busy, Next, Environment
    <3>2. \A d \in DataType : d.files \in Int /\ d.db \in Int
      BY EngineAssumption DEF DataType, Versions
    <3>3. job[w].start \in DataType /\ data \in [RecipeSet -> DataType]
      BY <1>0 DEF TypeOK, Busy, JobType
    <3>4. job[w].at \in {"stage", "dump", "dumping", "snap"}
            => Cur(w) \in RecipeSet
      BY <1>0, CurType
    <3>5. QED BY <3>1, <3>2, <3>3, <3>4
  <2>4. RestoreCareful(w)'
    BY <1>1, <1>2, <2>1, <2>2, <2>3 DEF Careful, RestoreCareful, At
  <2>5. QED
    BY <1>1, <2>1, <2>4 DEF Careful, DumpCareful, At
<1>5. QED BY <1>3, <1>4

LEMMA PageStep ==
  ASSUME PageInv, CliWorkers = {}, [Next]_vars
  PROVE  PageInv'
<1>0. TypeOK' /\ OneOperation'
  BY TypeStep, OneOperationStep DEF PageInv
<1>1. CASE Start
  <2>1. ASSUME NEW w \in UiWorkers, NEW todo \in Todos, Create(w, todo)
        PROVE  PageInv'
    <3> DEFINE j == [NoJob EXCEPT !.at = "stage", !.verb = "create",
                                  !.todo = todo, !.since = nextId]
    <3>1. j.at = "stage" /\ j.kind = "manual" /\ j.verb = "create"
      BY DEF NoJob
    <3>2. /\ TryAcquire /\ Become(w, j)
          /\ UNCHANGED <<stage, repo, nextId, data, half, forgotten>>
      BY <2>1 DEF Create
    <3> HIDE DEF j
    <3>3. QED BY <1>0, <3>1, <3>2, StartCareful DEF PageInv
  <2>2. ASSUME NEW w \in UiWorkers, NEW r \in Restorable, NEW s \in repo,
               Restore(w, r, s)
        PROVE  PageInv'
    <3> DEFINE j == [NoJob EXCEPT !.at = "stage", !.verb = "restore",
                               !.kind = "pre_restore", !.todo = <<r>>, !.snap = s.id,
                               !.since = nextId, !.start = data[r]]
    <3>1. /\ j.at = "stage" /\ j.kind = "pre_restore" /\ j.since = nextId
          /\ j.start = data[r] /\ j.todo = <<r>>
      BY DEF NoJob
    <3>2. /\ TryAcquire /\ Become(w, j)
          /\ UNCHANGED <<stage, repo, nextId, data, half, forgotten>>
      BY <2>2 DEF Restore
    <3>3. Head(<<r>>) = r /\ r \in RecipeSet
      BY EngineAssumption
    <3> HIDE DEF j
    <3>4. QED BY <1>0, <3>1, <3>2, <3>3, StartCareful DEF PageInv
  <2>3. ASSUME NEW w \in UiWorkers, NEW age \in Ids, ForgetOlder(w, age)
        PROVE  PageInv'
    <3> DEFINE j == [NoJob EXCEPT !.at = "older", !.verb = "forget", !.snap = age]
    <3>1. j.at = "older" /\ j.kind = "manual" /\ j.verb = "forget"
      BY DEF NoJob
    <3>2. /\ TryAcquire /\ Become(w, j)
          /\ UNCHANGED <<stage, repo, nextId, data, half, forgotten>>
      BY <2>3 DEF ForgetOlder
    <3> HIDE DEF j
    <3>3. QED BY <1>0, <3>1, <3>2, StartCareful DEF PageInv
  <2>4. QED BY <1>1, <2>1, <2>2, <2>3 DEF Start
<1>2. ASSUME NEW w \in Workers, Work(w)
      PROVE  PageInv'
  <2>0. w \in UiWorkers /\ Careful(w)
    BY DEF PageInv, Workers
  <2>1. CASE Release(w)
    <3>1. job'[w] = NoJob /\ ~At(w, "idle")
      BY <2>1, JobFields DEF PageInv, Release, At
    <3>2. Careful(w)'
      BY <3>1 DEF Careful, DumpCareful, RestoreCareful, At, NoJob
    <3>3. SnapshotsAreWhole' /\ BotchedIsRecoverable'
      BY <2>1, QuietStep DEF Release
    <3>4. QED
      BY <1>0, <2>1, <3>1, <3>2, <3>3, OthersIdle DEF PageInv, Release
  <2>2. CASE RetainList(w) \/ RetainForget(w)
    BY <2>0, <2>2 DEF RetainList, RetainForget, Careful, At
  <2>3. CASE \/ ClearStage(w) \/ OpenDump(w) \/ FinishDump(w) \/ Snapshot(w)
             \/ Cleanup(w) \/ RestoreFiles(w) \/ RestoreDb(w) \/ Prune(w)
    <3>1. Careful(w)' /\ SnapshotsAreWhole' /\ BotchedIsRecoverable'
      BY <2>0, <2>3, ClearStageCareful, OpenDumpCareful, FinishDumpCareful,
         SnapshotCareful, CleanupCareful, RestoringCareful, PruneCareful
    <3>2. ~At(w, "idle") /\ \E j : Become(w, j)
      BY <2>3 DEF ClearStage, OpenDump, FinishDump, Snapshot, Cleanup,
         RestoreFiles, RestoreDb, Prune, At, Goto, Fail
    <3>3. \A v \in Workers : Careful(v)'
      BY <3>1, <3>2, OthersIdle
    <3>4. QED BY <1>0, <3>1, <3>3 DEF PageInv
  <2>4. QED BY <1>2, <2>1, <2>2, <2>3 DEF Work
<1>3. CASE Crash
  <2>1. \A w \in Workers : job'[w] = NoJob
    BY <1>3 DEF Crash
  <2>2. \A w \in Workers : Careful(w)'
    BY <2>1 DEF Careful, DumpCareful, RestoreCareful, At, NoJob
  <2>3. SnapshotsAreWhole' /\ BotchedIsRecoverable'
    BY <1>3, QuietStep DEF Crash
  <2>4. QED BY <1>0, <2>2, <2>3 DEF PageInv
<1>4. CASE (Environment /\ ~Crash) \/ UNCHANGED vars
  BY <1>0, <1>4, AroundCareful DEF PageInv, Environment
<1>5. QED
  BY <1>1, <1>2, <1>3, <1>4 DEF Next

LEMMA PageInvariant ==
  ASSUME CliWorkers = {}
  PROVE  Spec => []PageInv
<1>1. Init => OneOperation /\ SnapshotsAreWhole /\ BotchedIsRecoverable
  BY NoJobType
  DEF Init, OneOperation, At, Workers, SnapshotsAreWhole, BotchedIsRecoverable
<1>2. Init => \A w \in Workers : Careful(w)
  BY IdleCareful DEF Init
<1>3. TypeOK /\ Init => PageInv
  BY <1>1, <1>2 DEF PageInv
<1>4. PageInv /\ [Next]_vars => PageInv'
  BY PageStep
<1>5. QED
  BY <1>3, <1>4, EngineTypeCorrect, PTL DEF Spec

\* Without the nightly command beside the page, every snapshot of a stack with
\* a database holds a whole dump: for any recipes, faults and crashes, a dump
\* that failed or was cut short never reaches restic.
THEOREM SnapshotsWhole ==
  ASSUME CliWorkers = {}
  PROVE  Spec => []SnapshotsAreWhole
<1>1. PageInv => SnapshotsAreWhole
  BY DEF PageInv
<1>2. QED BY <1>1, PageInvariant, PTL

\* Without the nightly command beside the page, a restore that failed or died
\* half-way left a safety snapshot of its stack, whole and no older than its
\* beginning, that only the operator can have removed.
THEOREM RestoreRecoverable ==
  ASSUME CliWorkers = {}
  PROVE  Spec => []BotchedIsRecoverable
<1>1. PageInv => BotchedIsRecoverable
  BY DEF PageInv
<1>2. QED BY <1>1, PageInvariant, PTL

=============================================================================
