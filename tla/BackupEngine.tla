---------------------------- MODULE BackupEngine ----------------------------
(***************************************************************************)
(* The backup and restore engine: the operations of the /backup page, one  *)
(* at a time behind tryAcquire, the `enrol backup` command that the        *)
(* nightly timer starts in a process of its own, and the restic repository *)
(* and staging directories they share.                                     *)
(*                                                                         *)
(* A step is one external command (pg_dump, restic, psql) or one change of *)
(* the bookkeeping.  The data of a stack is a pair of versions, one of its *)
(* files and one of its database; the stack goes on writing both, for no   *)
(* recipe stops its services.                                              *)
(***************************************************************************)
EXTENDS Integers, Sequences, FiniteSets

CONSTANTS
  Recipes,     \* the active recipes, in the order of the slice
  PgRecipes,   \* those with a pg_dump
  Restorable,  \* those the page may restore
  UiWorkers,   \* goroutines of the service that run an operation
  CliWorkers,  \* processes of the `enrol backup` command
  CliKinds,    \* the --tag values they are started with
  Keep,        \* backupRetentionDaily
  Operator,    \* TRUE: the operator also removes snapshots
  Faults,      \* the commands that may fail, and "crash"
  MaxSnaps,    \* bound: snapshots taken; restic fails beyond it
  MaxWrites    \* bound: versions a stack goes through

RecipeSet == { Recipes[i] : i \in 1..Len(Recipes) }

Kinds == {"daily", "manual", "pre_restore"}

ASSUME EngineAssumption ==
  /\ Recipes \in Seq(RecipeSet) /\ Recipes # << >>
  /\ PgRecipes \subseteq RecipeSet /\ Restorable \subseteq RecipeSet
  /\ UiWorkers \cap CliWorkers = {} /\ CliKinds \subseteq Kinds
  /\ "none" \notin UiWorkers \cup CliWorkers
  /\ {Keep, MaxSnaps, MaxWrites} \subseteq Nat
  /\ Operator \in BOOLEAN

VARIABLES
  inFlight,   \* backupOpInFlight
  job,        \* worker -> the operation it runs and where it is
  stage,      \* recipe -> its directory under backupStageDir
  repo,       \* the snapshots of the repository
  nextId,     \* order in which snapshots are taken
  data,       \* recipe -> versions of its live files and database
  half,       \* history: restores that have changed a stack and not replaced
              \* all of it, with their first snapshot id and the data before
  forgotten,  \* history: snapshots the operator removed
  crashed     \* history: the service died while an operation ran

vars == <<inFlight, job, stage, repo, nextId, data, half, forgotten, crashed>>

Workers == UiWorkers \cup CliWorkers
Versions == 0..MaxWrites
Ids == 1..MaxSnaps

\* Files or a database of no one version count as the oldest.
Mixed == 0

\* What a staging directory holds: nothing, no dump, a dump being written, or
\* the whole dump of a version, and who opened the file.
NoStage == [dump |-> "none", by |-> "none", db |-> 0]

NoJob == [at |-> "idle", verb |-> "none", kind |-> "manual", todo |-> << >>,
          snap |-> 0, ok |-> TRUE, err |-> FALSE, drop |-> {}, since |-> 1,
          start |-> [files |-> 0, db |-> 0]]

Init ==
  /\ inFlight = FALSE
  /\ job = [w \in Workers |-> NoJob]
  /\ stage = [r \in RecipeSet |-> NoStage]
  /\ repo = {}
  /\ nextId = 1
  /\ data = [r \in RecipeSet |-> [files |-> 0, db |-> 0]]
  /\ half = {}
  /\ forgotten = {}
  /\ crashed = FALSE

FaultOn(f) == f \in Faults

At(w, at) == job[w].at = at
Cur(w) == Head(job[w].todo)
Become(w, j) == job' = [job EXCEPT ![w] = j]
Goto(w, at) == Become(w, [job[w] EXCEPT !.at = at])
Fail(w, at) == Become(w, [job[w] EXCEPT !.at = at, !.err = TRUE])

----------------------------------------------------------------------------
(* Starting and ending an operation *)

\* Mutant of TryAcquire: the flag is set without being looked at.
TryAcquireBlind == inFlight' = TRUE

\* tryAcquire; a held flag is a 409.
TryAcquire == ~inFlight /\ inFlight' = TRUE

\* handleBackupCreate, for one stack or all, up to the start of its goroutine.
Create(w, todo) ==
  /\ At(w, "idle")
  /\ TryAcquire
  /\ Become(w, [NoJob EXCEPT !.at = "stage", !.verb = "create", !.todo = todo,
                             !.since = nextId])
  /\ UNCHANGED <<stage, repo, nextId, data, half, forgotten, crashed>>

\* handleBackupRestore.  Whether the snapshot is one of this stack is not asked.
Restore(w, r, s) ==
  /\ At(w, "idle")
  /\ TryAcquire
  /\ Become(w, [NoJob EXCEPT !.at = "stage", !.verb = "restore",
                             !.kind = "pre_restore", !.todo = <<r>>, !.snap = s.id,
                             !.since = nextId, !.start = data[r]])
  /\ UNCHANGED <<stage, repo, nextId, data, half, forgotten, crashed>>

\* handleBackupForgetOlder holds the flag while its command runs.
ForgetOlder(w, age) ==
  /\ Operator
  /\ At(w, "idle")
  /\ TryAcquire
  /\ Become(w, [NoJob EXCEPT !.at = "older", !.verb = "forget", !.snap = age])
  /\ UNCHANGED <<stage, repo, nextId, data, half, forgotten, crashed>>

\* runBackupCLI: the flag is not touched.
StartCLI(w, kind, todo) ==
  /\ At(w, "idle")
  /\ Become(w, [NoJob EXCEPT !.at = "stage", !.verb = "create", !.kind = kind,
                             !.todo = todo, !.since = nextId])
  /\ UNCHANGED <<inFlight, stage, repo, nextId, data, half, forgotten, crashed>>

\* Mutant of Release: a failed operation keeps the flag.
ReleaseOnSuccess(w) ==
  /\ At(w, "end")
  /\ inFlight' = IF w \in UiWorkers THEN ~job[w].ok ELSE inFlight
  /\ Become(w, NoJob)
  /\ UNCHANGED <<stage, repo, nextId, data, half, forgotten, crashed>>

\* The deferred release, or the exit of the command.
Release(w) ==
  /\ At(w, "end")
  /\ inFlight' = IF w \in UiWorkers THEN FALSE ELSE inFlight
  /\ Become(w, NoJob)
  /\ UNCHANGED <<stage, repo, nextId, data, half, forgotten, crashed>>

----------------------------------------------------------------------------
(* runBackup for the current recipe *)

\* Clear and create the staging directory; recipes without a database go on.
ClearStage(w) ==
  /\ At(w, "stage")
  /\ IF Cur(w) \in PgRecipes
       THEN /\ stage' = [stage EXCEPT ![Cur(w)] = [NoStage EXCEPT !.dump = "dir"]]
            /\ Goto(w, "dump")
       ELSE /\ Goto(w, "snap")
            /\ UNCHANGED stage
  /\ UNCHANGED <<inFlight, repo, nextId, data, half, forgotten, crashed>>

\* Another pg_dump is writing to the file that w opens.
Shared(w) ==
  /\ stage[Cur(w)].dump = "part"
  /\ \E v \in Workers \ {w} : At(v, "dumping") /\ Cur(v) = Cur(w)

\* runPGDumpToFile reads the database's password and opens the dump for
\* writing, which empties it; what two write is nobody's dump.
OpenDump(w) ==
  /\ At(w, "dump")
  /\ \/ /\ stage[Cur(w)].dump # "none"
        /\ stage' = [stage EXCEPT ![Cur(w)] =
                        [dump |-> "part", by |-> IF Shared(w) THEN "none" ELSE w,
                         db |-> data[Cur(w)].db]]
        /\ Goto(w, "dumping")
     \/ /\ stage[Cur(w)].dump = "none" \/ FaultOn("pg_dump")
        /\ Fail(w, "cleanup")
        /\ UNCHANGED stage
  /\ UNCHANGED <<inFlight, repo, nextId, data, half, forgotten, crashed>>

\* Mutant of FinishDump: the exit status of pg_dump is not looked at.
FinishDumpAnyway(w) ==
  /\ At(w, "dumping")
  /\ \E dump \in IF FaultOn("pg_dump") THEN {"whole", "part"} ELSE {"whole"} :
       stage' = [stage EXCEPT ![Cur(w)].dump = dump]
  /\ Goto(w, "snap")
  /\ UNCHANGED <<inFlight, repo, nextId, data, half, forgotten, crashed>>

\* pg_dump exits.  If another process has since cleared the directory the
\* output is gone, and if two wrote to the file it stays a part of neither.
FinishDump(w) ==
  /\ At(w, "dumping")
  /\ \/ /\ stage' = IF stage[Cur(w)].by = w
                      THEN [stage EXCEPT ![Cur(w)].dump = "whole"] ELSE stage
        /\ Goto(w, "snap")
     \/ /\ FaultOn("pg_dump")
        /\ Fail(w, "cleanup")
        /\ UNCHANGED stage
  /\ UNCHANGED <<inFlight, repo, nextId, data, half, forgotten, crashed>>

\* One restic snapshot of the files and the staging directory as they are.  With
\* a source missing, restic may warn and exit 0; a failing one may leave a
\* snapshot of the files it could read (exit code 3).
Snapshot(w) ==
  /\ At(w, "snap")
  /\ LET r == Cur(w)
         gone == r \in PgRecipes /\ stage[r].dump = "none"
     IN
     \/ /\ nextId \in Ids
        /\ \E err \in IF gone \/ FaultOn("restic") THEN BOOLEAN ELSE {FALSE} :
             /\ repo' = repo \cup
                  {[id |-> nextId, recipe |-> r, kind |-> job[w].kind,
                    files |-> IF err THEN Mixed ELSE data[r].files,
                    dump |-> IF r \in PgRecipes THEN stage[r].dump ELSE "none",
                    db |-> IF r \in PgRecipes THEN stage[r].db ELSE 0]}
             /\ Become(w, [job[w] EXCEPT !.at = "cleanup", !.err = err])
        /\ nextId' = nextId + 1
     \/ /\ FaultOn("restic") \/ nextId \notin Ids
        /\ Fail(w, "cleanup")
        /\ UNCHANGED <<repo, nextId>>
  /\ UNCHANGED <<inFlight, stage, data, half, forgotten, crashed>>

\* Mutant of AfterBackup: a failed safety snapshot does not stop a restore.
AfterBackupAnyway(w) ==
  LET j == [job[w] EXCEPT !.err = FALSE] IN
    IF j.verb = "restore" THEN [j EXCEPT !.at = "files"]
    ELSE IF Len(j.todo) > 1 THEN [j EXCEPT !.at = "stage", !.todo = Tail(@)]
    ELSE IF j.kind = "daily" THEN [j EXCEPT !.at = "list", !.todo = Recipes]
    ELSE [j EXCEPT !.at = "end"]

\* What the caller of runBackup does next: runBackupAll goes on whether or not
\* it failed, and prunes after a daily run; runRestore stops on a failure.
AfterBackup(w) ==
  LET j == [job[w] EXCEPT !.ok = @ /\ ~job[w].err, !.err = FALSE] IN
    IF j.verb = "restore"
      THEN [j EXCEPT !.at = IF j.ok THEN "files" ELSE "end"]
    ELSE IF Len(j.todo) > 1 THEN [j EXCEPT !.at = "stage", !.todo = Tail(@)]
    ELSE IF j.kind = "daily" THEN [j EXCEPT !.at = "list", !.todo = Recipes]
    ELSE [j EXCEPT !.at = "end"]

\* Mutant of Cleanup: a failed backup leaves its dump behind.
CleanupOnSuccess(w) ==
  /\ At(w, "cleanup")
  /\ stage' = IF Cur(w) \in PgRecipes /\ ~job[w].err
                THEN [stage EXCEPT ![Cur(w)] = NoStage] ELSE stage
  /\ Become(w, AfterBackup(w))
  /\ UNCHANGED <<inFlight, repo, nextId, data, half, forgotten, crashed>>

\* The deferred RemoveAll of the staging directory.
Cleanup(w) ==
  /\ At(w, "cleanup")
  /\ stage' = IF Cur(w) \in PgRecipes THEN [stage EXCEPT ![Cur(w)] = NoStage]
              ELSE stage
  /\ Become(w, AfterBackup(w))
  /\ UNCHANGED <<inFlight, repo, nextId, data, half, forgotten, crashed>>

----------------------------------------------------------------------------
(* runRestore after the safety snapshot *)

Whole(r) == { h \in half : h.recipe # r }

Halved(w) == half \cup {[recipe |-> Cur(w), since |-> job[w].since,
                         data |-> job[w].start]}

Failed(j) == [j EXCEPT !.at = "end", !.ok = FALSE]

\* restic restore of the recipe's paths, in place.  A snapshot of another stack
\* has none of them and restores nothing.  A command that fails may have replaced
\* some of the files.
RestoreFiles(w) ==
  /\ At(w, "files")
  /\ \/ \E s \in repo :
          /\ s.id = job[w].snap
          /\ IF s.recipe = Cur(w)
               THEN /\ data' = [data EXCEPT ![Cur(w)].files = s.files]
                    /\ half' = IF Cur(w) \in PgRecipes THEN Halved(w)
                               ELSE Whole(Cur(w))
               ELSE UNCHANGED <<data, half>>
          /\ Goto(w, IF Cur(w) \in PgRecipes THEN "psql" ELSE "end")
     \/ /\ FaultOn("restic")
        /\ \E s \in repo : s.id = job[w].snap /\ s.recipe = Cur(w)
        /\ data' = [data EXCEPT ![Cur(w)].files = Mixed]
        /\ half' = Halved(w)
        /\ Become(w, Failed(job[w]))
     \/ /\ FaultOn("restic") \/ \A s \in repo : s.id # job[w].snap
        /\ Become(w, Failed(job[w]))
        /\ UNCHANGED <<data, half>>
  /\ UNCHANGED <<inFlight, stage, repo, nextId, forgotten, crashed>>

\* The recipe's dump in the snapshot that w restores.
Dumps(w) ==
  { s \in repo : s.id = job[w].snap /\ s.recipe = Cur(w) /\ s.dump \in {"part", "whole"} }

\* runPGDumpRestore, `restic dump | psql` in one transaction.  A dump that is
\* truncated, or cut off because restic dies, ends in an end of file, on which
\* psql may commit what it has read before it is killed.  A psql that exits early
\* rolls back; enrol holds the reading end of the pipe open until restic is done,
\* so that restic waits for ever for room in it unless the rest of the dump fits.
RestoreDb(w) ==
  /\ At(w, "psql")
  /\ \/ \E s \in Dumps(w) :
          /\ s.dump = "whole"
          /\ data' = [data EXCEPT ![Cur(w)].db = s.db]
          /\ half' = Whole(Cur(w))
          /\ Goto(w, "end")
     \/ /\ \E s \in Dumps(w) : s.dump = "part" \/ FaultOn("restic")
        /\ data' = [data EXCEPT ![Cur(w)].db = Mixed]
        /\ half' = half
        /\ Become(w, Failed(job[w]))
     \/ /\ \/ FaultOn("restic") \/ FaultOn("psql")
           \/ \A s \in Dumps(w) : s.dump # "whole"
        /\ Become(w, Failed(job[w]))
        /\ UNCHANGED <<data, half>>
     \/ /\ FaultOn("psql") /\ Dumps(w) # {}
        /\ Goto(w, "hung")
        /\ UNCHANGED <<data, half>>
  /\ UNCHANGED <<inFlight, stage, repo, nextId, forgotten, crashed>>

----------------------------------------------------------------------------
(* runRetention *)

\* listSnapshotsForRecipeAndKind.  Of several --tag arguments restic takes the
\* snapshots that satisfy any one; only tags in one argument, with commas, must
\* all be there.
Listed(r, kind) == { s \in repo : s.recipe = r \/ s.kind = kind }

\* Mutant of SnapshotsToForget: sorted the other way.
SnapshotsToForgetNewest(all) ==
  { s \in all : Cardinality({ x \in all : x.id < s.id }) >= Keep }

\* All but the newest Keep.
SnapshotsToForget(all) ==
  { s \in all : Cardinality({ x \in all : x.id > s.id }) >= Keep }

\* Mutant of NextRecipe: one step past the last recipe.
NextRecipePastEnd(w) ==
  [job[w] EXCEPT !.todo = Tail(@), !.drop = {},
                 !.at = IF Len(job[w].todo) > 0 THEN "list" ELSE "end"]

NextRecipe(w) ==
  [job[w] EXCEPT !.todo = Tail(@), !.drop = {},
                 !.at = IF Len(job[w].todo) > 1 THEN "list" ELSE "end"]

\* Lists the snapshots of the recipe; an error goes on with the next one.
RetainList(w) ==
  /\ At(w, "list")
  /\ LET drop == { s.id : s \in SnapshotsToForget(Listed(Cur(w), job[w].kind)) } IN
       \/ /\ drop # {}
          /\ Become(w, [job[w] EXCEPT !.at = "forget", !.drop = drop])
       \/ /\ drop = {} \/ FaultOn("restic")
          /\ Become(w, NextRecipe(w))
  /\ UNCHANGED <<inFlight, stage, repo, nextId, data, half, forgotten,
                 crashed>>

\* What a restic forget of these snapshots may remove; a failing one some of them.
Removable(ids) == IF FaultOn("restic") THEN SUBSET ids ELSE {ids}

\* restic forget --prune of what was listed.
RetainForget(w) ==
  /\ At(w, "forget")
  /\ \E gone \in Removable(job[w].drop) :
       repo' = { s \in repo : s.id \notin gone }
  /\ Become(w, NextRecipe(w))
  /\ UNCHANGED <<inFlight, stage, nextId, data, half, forgotten, crashed>>

----------------------------------------------------------------------------
(* The operator, the stacks and crashes *)

\* handleBackupForget: one snapshot, without the flag.  The step is the moment
\* the snapshot goes: a command that fails or runs out of its minute before that
\* changes nothing, and one that does so later, pruning, has removed it.
Forget(s) ==
  /\ Operator
  /\ repo' = repo \ {s}
  /\ forgotten' = forgotten \cup {s}
  /\ UNCHANGED <<inFlight, job, stage, nextId, data, half, crashed>>

\* What --keep-within lets go: the snapshots that much older than the newest of
\* their group of tags.  Ids stand for the time.
Older(age) ==
  { x \in repo : \E y \in repo : /\ y.recipe = x.recipe /\ y.kind = x.kind
                                 /\ y.id >= x.id + age }

\* The command of handleBackupForgetOlder ends, or fails half-way.
Prune(w) ==
  /\ At(w, "older")
  /\ \E gone \in Removable(Older(job[w].snap)) :
       repo' = repo \ gone /\ forgotten' = forgotten \cup gone
  /\ Goto(w, "end")
  /\ UNCHANGED <<inFlight, stage, nextId, data, half, crashed>>

\* The stack writes its files and its database.
AppWrite(r) ==
  /\ data[r].files < MaxWrites /\ data[r].db < MaxWrites
  /\ data' = [data EXCEPT ![r] = [files |-> data[r].files + 1,
                                  db |-> data[r].db + 1]]
  /\ UNCHANGED <<inFlight, job, stage, repo, nextId, half, forgotten,
                 crashed>>

\* The container dies, and the commands started in it with docker exec.
Crash ==
  /\ FaultOn("crash")
  /\ \E w \in Workers : ~At(w, "idle")
  /\ inFlight' = FALSE
  /\ job' = [w \in Workers |-> NoJob]
  /\ crashed' = TRUE
  /\ UNCHANGED <<stage, repo, nextId, data, half, forgotten>>

----------------------------------------------------------------------------
Todos == { <<r>> : r \in RecipeSet } \cup {Recipes}

Start ==
  \/ \E w \in UiWorkers, todo \in Todos : Create(w, todo)
  \/ \E w \in UiWorkers, r \in Restorable, s \in repo : Restore(w, r, s)
  \/ \E w \in UiWorkers, age \in Ids : ForgetOlder(w, age)
  \/ \E w \in CliWorkers, kind \in CliKinds, todo \in Todos :
       StartCLI(w, kind, todo)

Work(w) ==
  \/ ClearStage(w) \/ OpenDump(w) \/ FinishDump(w) \/ Snapshot(w) \/ Cleanup(w)
  \/ RestoreFiles(w) \/ RestoreDb(w) \/ RetainList(w) \/ RetainForget(w)
  \/ Prune(w) \/ Release(w)

Environment ==
  \/ \E s \in repo : Forget(s)
  \/ \E r \in RecipeSet : AppWrite(r)
  \/ Crash

Next == Start \/ (\E w \in Workers : Work(w)) \/ Environment

Spec == Init /\ [][Next]_vars

\* A running operation goes on: goroutines are scheduled and commands end, but for
\* the restic that waits at a pipe nobody reads.
FairSpec == Spec /\ \A w \in Workers : WF_vars(Work(w))

----------------------------------------------------------------------------
(* Properties *)

DataType == [files : Versions, db : Versions]

JobType ==
  [at : {"idle", "stage", "dump", "dumping", "snap", "cleanup", "files", "psql",
         "hung", "list", "forget", "older", "end"},
   verb : {"none", "create", "restore", "forget"}, kind : Kinds, todo : Seq(RecipeSet),
   snap : Ids \cup {0}, ok : BOOLEAN, err : BOOLEAN, drop : SUBSET Ids,
   since : 1..(MaxSnaps + 1), start : DataType]

StageType ==
  [dump : {"none", "dir", "part", "whole"}, by : Workers \cup {"none"},
   db : Versions]

SnapshotType ==
  [id : Ids, recipe : RecipeSet, kind : Kinds, files : Versions,
   dump : {"none", "dir", "part", "whole"}, db : Versions]

\* Every variable holds a value of its kind, and an operation that works on a
\* recipe has one: the loops of runBackupAll and runRetention stop at the last.
TypeOK ==
  /\ inFlight \in BOOLEAN /\ crashed \in BOOLEAN
  /\ job \in [Workers -> JobType]
  /\ \A w \in Workers : job[w].at \in {"idle", "older", "end"} \/ job[w].todo # << >>
  /\ stage \in [RecipeSet -> StageType]
  /\ repo \cup forgotten \subseteq SnapshotType
  /\ nextId \in 1..(MaxSnaps + 1)
  /\ data \in [RecipeSet -> DataType]
  /\ half \subseteq [recipe : RecipeSet, since : 1..(MaxSnaps + 1), data : DataType]

\* At most one operation of the page runs, the removal of old snapshots included,
\* and the flag is up exactly while it does: no path of tryAcquire, the handler
\* or goroutine and the deferred release leaves it up or takes it down early.
OneOperation ==
  /\ \A v, w \in UiWorkers : v # w => At(v, "idle") \/ At(w, "idle")
  /\ inFlight <=> \E w \in UiWorkers : ~At(w, "idle")

\* Every snapshot of a stack with a database holds a whole dump of it: a
\* failed or half-written pg_dump never reaches restic (runBackup).
SnapshotsAreWhole ==
  \A s \in repo : s.recipe \in PgRecipes => s.dump = "whole"

\* When a restore has failed or died after it changed a stack, a safety
\* snapshot of that restore still holds the files and the database as they were
\* when it began or later, unless the operator removed it: "so a botched
\* restore is itself recoverable".
BotchedIsRecoverable ==
  \A h \in half : \E s \in repo \cup forgotten :
    /\ s.recipe = h.recipe /\ s.kind = "pre_restore" /\ s.id >= h.since
    /\ s.files >= h.data.files
    /\ h.recipe \in PgRecipes => s.dump = "whole" /\ s.db >= h.data.db

\* No dump of a database stays in /tmp after the operations have ended, failed
\* ones included, unless the service died (the deferred RemoveAll).
StageCleared ==
  ~crashed /\ (\A w \in Workers : At(w, "idle"))
    => \A r \in RecipeSet : stage[r] = NoStage

\* However page and command add snapshots while retention works from a list that
\* may be old, the Keep snapshots taken last are there unless the operator removed
\* them (runRetention, snapshotsToForget).
NewestKept ==
  \A i \in Ids : i < nextId /\ i + Keep >= nextId =>
    \E s \in repo \cup forgotten : s.id = i

\* As the comments have it, retention takes snapshots that carry "BOTH the recipe
\* id AND the kind tag", and each stack's history is retained independently: what
\* it removes is daily and has Keep newer daily ones of its stack left.
RetentionSpares ==
  [][\A s \in repo \ repo' :
       /\ s.kind = "daily"
       /\ Cardinality({ x \in repo' : x.recipe = s.recipe /\ x.kind = "daily"
                                       /\ x.id > s.id }) >= Keep]_vars

\* The flag comes down again, whichever command fails, so that the page does not
\* stay at 409: but for a restore whose psql exits before it has read the dump,
\* which stays until the service is restarted (tryAcquire, runPGDumpRestore).
FlagReleased ==
  inFlight ~> (~inFlight \/ \E w \in UiWorkers : At(w, "hung"))
=============================================================================
