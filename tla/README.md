# A TLA+ model of raph-server-installer

raph-server-installer turns a rented server into a small private platform: a VPN
gateway (AmneziaWG interface `gw0`), single sign-on (Authelia), a cloud, a task
tracker and a reverse proxy, each a docker stack, and **enrol**, the Go service
(`stacks/enrol`) through which the operator manages users, devices, backups and
the first set-up.  Nearly all logic of the repository that keeps state and runs
concurrently is in enrol; the rest is provisioning scripts and configuration of
third-party programs.

This directory specifies enrol's core and the shell script that works beside it.

## Inventory

| Component | State | Operations | What makes it hard | Status |
|---|---|---|---|---|
| Device enrolment (`peers.go`, `peers_archive.go`, handlers in `server.go`) | `gw0.conf`, `peers-meta.json`, `peers-archive/`, the kernel interface | enrol, remove, remove all of a user, upload and forget a `.conf` | four stores written one after the other; names that live in comments, sidecar or both; deletion by name prefix | `Peers`, `DeviceRegistry` |
| `scripts/provision-peer.sh` | the same `gw0.conf` and interface | read, pick an address, append, `awg set` | holds no lock of the service | in `Peers` |
| Backup progress stream (`backupOp`, `opTracker`, `handleBackupEvents`, `sse.go`, `backup.js`) | log, subscribers, channels, connections | append, fan out, connect, replay, tail, finish, evict | two pumps, several browsers, bounded channels, reconnection | `BackupStream` |
| Backup engine (`backup.go`) | in-flight flag, staging directories, restic repository, live data | create, restore, nightly command, retention, forget, forget older, download (reads only) | two processes, commands that fail half-way, crashes | `BackupEngine` |
| Account database (`users.go`, handlers in `server.go`) | `users_database.yml` | create, edit, password by the administrator and by the user, delete | whole-file load and store, truncated before it is written | `UsersDB` (its set of names in `Peers`) |
| Set-up wizard (`setup.go`, `finalize_verify.go`) | `state.json`, secret cache, sentinel | five form steps, an eight-step finalize that can be resumed | every GET of the event stream runs finalize; crashes between steps; six stores outside it | `SetupWizard` |
| OIDC client secrets (`oidc.go`) | plaintext files, `/opt/stacks/.env` | rotate one client after the other | two files per client, then a third rendered from one of them | in `SetupWizard` |
| NPM client (`npm_client.go`) | the proxy manager's administrator, certificate, hosts | log in, bootstrap, upsert | requests that fail after they were carried out | in `SetupWizard`, as finalize uses it |
| Launcher (`launcher.go`) | `apps.json`, icons | add and delete an app | one rename per request, under `s.mu` | not modelled |
| TOTP, bans, task client, storage figures, audit log, authentication, CSRF, start-up | none of their own, or caches for display | | | not modelled: one external call or one stateless check each |
| Host scripts, systemd units, compose files, templates | | | | not modelled: linear provisioning and declarative configuration |

How they interact: the handlers of `server.go` that change users or devices hold
one mutex, `s.mu`; the wizard takes none but the one around single reads and
writes of `state.json`, and until its sentinel exists the route gate keeps every
other page shut; the backup engine has its own flag and does not take `s.mu`;
the nightly timer starts `enrol backup` as a second process in the container,
which shares only the disk with the service; the script shares only `gw0.conf`
and the kernel.  Progress reaches browsers through `backupOp`.

What each modelled component must guarantee:

* Devices: addresses, keys and names are unique; a removed device stays removed
  and disconnected; a deleted user leaves no device, and takes none that is not
  named after him;
  the configuration a device is served holds its own key.
* Accounts: what a request was answered is what the file holds; nobody's change
  is undone by another's; every request is answered.
* Wizard: a flag stands for work that can be observed; the wizard locks itself
  only when the installation is reachable and its administrator has an account; a
  finalize that failed can be repeated until it gets there; secrets and hashes
  belong together.
* Stream: history and live frames join without gap or repetition; the outcome
  comes last and everyone who stays is told it.
* Engine: one operation of the page at a time, and never a stuck flag; every
  snapshot is whole; a failed restore can be undone; retention spares the newest
  snapshots and what is not its own; no dump is left lying about.

PROJECT.json lists the hazards behind these properties, each at its line.

## Modules

| Module | Role |
|---|---|
| `Peers` | device enrolment and `provision-peer.sh` |
| `DeviceRegistry` | its abstract specification: users and devices that change by whole operations |
| `MCPeers`, `Peers_proofs`, `PeersRegistry_proofs` | instances for TLC; proofs about keys, addresses, names; proofs about users, archive, kernel and the refinement |
| `BackupStream`, `MCBackupStream`, `BackupStream_proofs` | the progress stream; instances; proofs |
| `BackupEngine`, `MCBackupEngine`, `BackupEngine_proofs`, `BackupHousekeeping_proofs` | backup and restore; instances; proofs about operations and snapshots; proofs about staging and retention |
| `SetupWizard`, `MCSetupWizard`, `SetupWizard_proofs` | the set-up wizard with OIDC rotation and NPM client; instances; proofs |
| `UsersDB`, `MCUsersDB`, `UsersDB_proofs` | the account database; instance; proofs |

### Peers

One handler at a time holds `s.mu`, so a single program counter `pc` with the
handler's locals (`req`, `raw`, `drop`) models the service.  Each write is a step:
`AppendPeer`, `MetaPut`, `ReloadInterface`, `ArchiveWrite` for an enrolment;
`RemovePeers`, `MetaDelete`, `ReloadInterface`, `RemoveUser` for deletions.
`raw` is the parsed file: every rewrite starts from it, not from the file as it
is then, which is what lets the script's append get lost.  `Crash` drops the
handler's locals and keeps the disk and the kernel; `Faults` names the calls that
may fail, each with the code's reaction (return, or log and go on).
`users_database.yml` is truncated before it is written: `Flushed` says what a failed
open, write or sync, or the container's death in between, leaves of it.

A name is the sequence of its parts between hyphens, so that `<user>-<tag>` is a
concatenation and `HasPrefix` sees what `strings.HasPrefix(name, user + "-")`
sees.  A block of `gw0.conf` has a place, a key, an address and the name in the
comment above it; `RemovePeersByPubkeys` takes away the comment of the block
behind a removed one, because the parser counts it to the removed block.
Of several blocks of one name, which only the script can make, `DeletePeer` takes
the first in the page's list, sorted by address as a string (`ListedBefore`).
`owner` is a history variable: for whom and under which name a key was enrolled.
Ownership in the code is the name prefix `<user>-`: deleting `bob` takes the
devices of `bob-x` as well, and `DeleteSparesOthers` and the abstract `RevokeAll` say
exactly that, on an instance with these two users.

External: `awg syncconf` and `awg set` (an address belongs to the last peer that
claims it).  Not represented: the Nextcloud and TOTP calls of a user deletion,
which touch none of this state, and the audit log.

### BackupStream

`append` is two steps per subscriber: under the lock the frame joins the log and
the subscribers are copied (`Append1`); afterwards one non-blocking send each
(`Send`), lost when the channel is full.  `Snapshot` copies the log and
subscribes in one step, as the code does under the lock.  A connection replays
its copy, looks at `Done` without the lock (`CheckDone` may see the value of the
snapshot or the present one) and tails its channel.  A tab is the page's
EventSource: it closes on a terminal frame, reconnects when the stream ends
without one, and gives up on 404 once the janitor has evicted the operation.

### BackupEngine

A worker is either a goroutine of the page (`UiWorkers`), which must pass
`TryAcquire`, or a process of the `enrol backup` command (`CliWorkers`), which
does not.  A step is one external command; `ForgetOlder` holds the flag until its
command ends (`Prune`), `Forget` takes no flag and its step is the moment the
snapshot goes.  The data of a stack is a pair of
versions (files, database) that the running stack increases; a snapshot copies
the files' version and whatever the staging directory holds at that moment: no
directory, no dump, part of one or the whole dump of a version.  A restore that
fails in mid-command leaves data of no one version (`Mixed`).  `half` records
restores that changed a stack and did not finish, with what was there before.
What two pg_dumps write to one file is no dump (`Shared`).  A restore may name a
snapshot of another stack, as the handler does not ask: it then restores nothing.

A psql that exits early (`ON_ERROR_STOP`) leaves the pipe without a reader that
reads, though not without a reader: enrol itself keeps the reading end open
(`StdoutPipe`) until restic has exited.  Unless the rest of the dump fits into the
pipe, restic never exits; the worker is then `"hung"` for good.

External: restic, pg_dump and psql.  Of several `--tag` arguments restic selects
the snapshots that satisfy any one, and only tags joined by commas in one argument
must all be there; `Listed` models this, and not what the comment on
`listSnapshotsForRecipeAndKind` says.  With a missing source restic warns, and with
exit code 3 it has left a snapshot of what it could read.  Not represented: the
listings and the download, which only read.  The download asks the tracker once
for a registered operation; the nightly command, forget and forget-older are never
in it.
Times are the order in which snapshots are taken.

### SetupWizard

A step is one change of a store that outlives the process.  `st` is `state.json`
with the flags of `setupCompletedSteps` as the set `done`; `mine[r]` is the copy a
run of `runFinalize` loaded and saves after each step, so a run can write back an
old form or an old flag, and a form an old flag.  `pc[r]` goes through the steps in
the code's order: `WriteAdminLoad`, `WriteAdminTruncate`, `WriteAdminWrite` and
`FlagUsers`; `RotateRead`, `RotatePlain`, `RotateEnv` for each client;
`RenderTemplates`; `WriteCreds`, `Certbot`; `Bootstrap`, `PutEmail`, `PutAuth`,
`PostCertificate`, `UploadCertificate`, one `UpsertProxyHost` per host; then
`VerifyAll`, `TouchSentinel`, `FlagSentinel`, `WipeSecret`, `Scrub`.  Each `Flag...`
action is the verification of the step, the flag, and the save whose failure is
only logged.  A form is two or three steps: load (`Post...`), save (`SaveForm`), and
for the account the cache of its password (`CacheSecret`), in memory and on tmpfs.
`Crash` is a restart of the container, or of the host, which also empties tmpfs.
`RemoveSentinel` is the re-run described on the last page.

A hash is known by its password or secret.  `changed` records that the operator
gave another account or password after a finalize had begun to use the first.

External: certbot and `render-templates.sh` (they succeed, or fail having done
their work or not), the proxy manager (a failed request may have been carried
out; a password change names the current password).  Not represented: which page
is shown next, quota, display name, the TOTP flag, `reloadAuthelia` (best effort,
touches none of this state), `TEST_MODE`; a write that fails half-way leaves an
empty file, never half of one; the sentinel may be such an empty file for the run
that verifies it (`MayBeEmpty`).  A list and the write that follows it in the NPM
client (`PostCertificate`, `UpsertProxyHost`) are one request: two overlapping runs
cannot create two rows for one domain, which would change neither what is served
nor a flag.

### UsersDB

A handler waits for `s.mu` (`Lock`), loads and checks (`Load`), truncates, writes
and answers.  `acked` is a history variable: the accounts as the positive
answers describe them, each of which changes its own account only.  `spoiled` are
the accounts for which no answer holds: after a failed sync the one it was about,
and every one after a flush that a failed write or a crash cut off behind the
truncation, until an answer tells of it again.  The head of `users.go` and
`server.go:478` promise an atomic rename; the comment on `flush` admits the loss.
Pages
that read without the lock change nothing and are left out.  `Peers` models the
same lock as a single handler and sees the names only.

## Runs

Passing:

| Run | Instance | Shows |
|---|---|---|
| `peers_ok` | users `bob` and `bob-x`, tags `phone` and `x-phone`, three keys and addresses, no faults | consistency of all four stores, and refinement of `DeviceRegistry` |
| `peers_faults` | one user, three keys for two addresses, every fault, crashes and the script | uniqueness of what the service gives out, and no resurrection, whatever fails |
| `stream` | one tab, three connections, channel of one, a dropped connection, fairness | no gap, no repetition, outcome last; whoever stays is told, unless a full channel lost the outcome |
| `engine_page` | two handlers, all faults, crashes, operator, a writing stack, fairness | one at a time, whole snapshots, recoverable restores; the flag comes down, but for a hung restore |
| `engine_nightly` | page and command on two stacks, failing restic, keep 1 | the newest snapshots survive retention from an old list; no dump stays behind |
| `setup_resume` | one finalize at a time, two account names, two clients, one fault, one crash, one form sent again, one re-run, fairness | paired secrets, the administrator's account and no placeholder when the wizard locks, and that a repeated finalize gets to the end |
| `setup_overlap` | two runs of finalize at once, two hosts, one fault | honest flags; locked means served; done means locked |
| `accounts` | two requests, two users, two passwords, one profile, one fault, one crash, fairness | no lost update but by a cut-off flush, the shown password is the one replaced, every request answered |

Violations, each a sentence of the repository that the code does not keep (the
quotations are under "findings" in PROJECT.json):

| Run | Counterexample |
|---|---|
| `peers_cascade` | crash between `appendPeer` and `meta.put`; the device before is removed and takes the comment along; the user's deletion misses the nameless device |
| `engine_overlap` | the nightly command clears the staging directory of a restore's safety snapshot |
| `engine_retention` | the nightly command backs up two stacks; its pass over the first selects the daily snapshots of both and removes the first stack's only one |
| `setup_rerun` | the sentinel removed as the last page says, and the account given again: finalize finds its old flag, skips the sentinel and reports the end; the wizard stays open |

Modelling also showed, without a run of their own: a password given again
after a finalize that wrote the account and failed reaches the proxy manager and
never Authelia (the form leaves the flags alone, `verifyUsersDB` looks for the name
only), though `setup.go:1422` calls it the same password as Authelia; deleting user `bob` removes the
devices of `bob-x`, whose names begin with `bob-`, though the page announces "their VPN
devices"; a full channel loses the
terminal frame, and the handler then tails until the browser leaves
(`EventuallyTold` excepts it); a crash before `archiveWrite`
leaves the archive with the key of an earlier device of the same name; a second
run of `provision-peer.sh` with the same name adds a second peer, though its
header calls it idempotent; a peer listed as `(unmanaged)` has no name that
`/peers/<name>/delete` accepts; an operation that ends between `snapshot` and the
`Done` check closes a stream without its terminal frame (the browser reconnects);
a download is refused beside a registered create or restore, never beside the
nightly command or a removal of snapshots; safety snapshots have no retention of
their own, though ADR-010 bounds them to the last three, and go with the daily ones;
a psql that exits early leaves the page at 409 until the service is restarted.

Of the wizard: a failure between the two requests of `Bootstrap` leaves the proxy
manager with the new email and the installed password, and every later finalize
fails, though the client calls Bootstrap idempotent (`Completes` excepts it as
`HalfBootstrapped`); so does another account or password given after the first
was used (`changed`); a crash between sentinel and scrub, or a second run saving
its copy after the scrub, leaves the password hash and the DNS credentials in
`state.json`; a password cached under an earlier name is never deleted; two runs
that rotate at once can leave a client's plaintext and hash apart, and one can
lock the wizard while the other has truncated `users_database.yml`; a failed
restart of Authelia "will retry on next finalize", which then skips the step;
credentials of an earlier provider stay on tmpfs after a crash.  Of the accounts:
a page or a snapshot that reads between truncation and write sees no users at
all, though the head of `users.go` speaks of tmpfile and rename.

Every property of a passing run has a mutant: a definition of the model replaced
by the form a plausible slip in the code would give it, under which TLC finds the
property violated.

**Bounds.**  Three keys allow a device to be enrolled, removed and enrolled again
under its name with a third beside it, which is what stripped comments and stale
archives need; two addresses for three
devices make the pool run out.  `bob-x-phone` is a device of `bob` or of `bob-x`.  Two log frames beside the
terminal one are enough for two pumps to be between append and fan-out at once,
and a channel of one overflows; three connections are the first, one after a
drop, beside whose predecessor's handler it is served, and one after the `Done`
race.  Two snapshots (`engine_page`) are one to restore and the safety snapshot;
three (`engine_nightly`) let one daily snapshot be superseded while another
operation takes one.  For the wizard one fault and one crash may fall on any two
calls of a run and are followed by a run without; two account names are what a
form sent again needs to differ in (a second password under
one name is left out: the administrator form saves the hash and caches the
password in two steps, and with a run or a restart in between `Completes` does
not hold: the proxy manager is given the old password, and the new one, typed
again when the cache is lost, does not open it); two runs are the least that overlap, and the properties checked with them
are proved for any number.  Two requests on two accounts are what a lost update needs; with one
profile an edit changes nothing by itself but still loads and writes back everything,
and a change of password takes the same path (the proof is for any profiles).  When
`MaxSnaps` is reached restic fails, which is one of its outcomes anyway.

**Deadlock.**  The stream may stop: the operation is done and its tab is told.
So may the wizard, once it is locked.  Their configurations say so; the others
check for deadlock.

**Fairness.**  In `BackupStream`: goroutines are scheduled, commands end, an
EventSource whose stream was closed reconnects.  Nothing is assumed of users, the
network or the janitor.  In `BackupEngine`: a running operation takes its next
step, since commands end, with the one exception of the restic that waits at a pipe
nobody reads: a hung worker has no step, and `FlagReleased` excepts it by name.
restic and pg_dump have no timeout; that they end by themselves is assumed, as the
comment at `backup.go:1371-1374` does.  New requests are never assumed.
In `SetupWizard`: a handler that has begun takes its next step, calls return.
Beyond that `Completes` needs the operator, since the code retries nothing by
itself: he starts finalize again (weak fairness) and, again and again if he is
asked again and again, gives the account and the provider he was asked for
(strong fairness).  In `UsersDB`: handlers run, and a Go mutex, which hands itself
to a waiter that has waited for long, starves nobody (strong fairness of `Lock`).
That a handler goes on rests on the commands it waits for under the lock: `occ`
and the TOTP deletion of `handleUserDelete` have no timeout and are assumed to end.

## Proofs

Every safety property that a passing run checks is a theorem.  The assumptions on
constants are those named in the modules (`NameAssumption`, `BoundAssumption`,
`EngineAssumption` and so on), which TLC evaluates in the runs; what a theorem
assumes beyond them is in its statement and given here.

`Peers_proofs`, for any users, tags, faults, range of addresses and number of
keys:

* `TypeCorrect`: the types, also beside the script.
* `AddressesAreUnique`, `NamesAreUnique`: for a service that has `gw0.conf` to
  itself (`ScriptNames = {}`); beside the script both are model-checked only
  (`peers_faults`), for the devices the service enrolled.  Neither is inductive.  The strengthening says
  that while a handler runs, the file is the copy it read until it writes (`raw`),
  that the key and the address it has chosen are in no block, that keys from
  `nextKey` on are unused, and, for names, that the name it has checked is still
  free and that sidecar and comment of a block never name two different devices.
* `RemovedStaysRemoved`: whatever fails or dies, and beside the script.  The copy a
  handler writes back may lack blocks the script has added, but holds none that has
  left the file, and whoever is about to append has a key that never was in it
  (`FreshInv`).

`PeersRegistry_proofs`, again for any users, tags and numbers.  What is assumed of
`Faults` is in each case what the property does not survive:

* `NoOrphans` (`DevicesHaveUsers`): beside the script, unless the container dies, the
  sidecar cannot be read or written, or a write of `gw0.conf` or of the accounts
  fails, the latter because it leaves no users at all (`Orphaning`;
  `peers_cascade` is the counterexample with a crash).  `UserInv` says that the
  sidecar has the name of every owned block, except while its entry is being
  written, that a deletion's `drop` holds every block of its user, and that none is
  left from the rewrite on until the user goes.
* `OthersAreSpared` (`DeleteSparesOthers`): handlers alone, any fault and crash.
  `OwnNameInv`: a block has the name it was enrolled under or has lost it, so the
  prefix test can miss a device, and takes none whose own name does not pass it.
* `NamesAreKept` (`KnownByName`): handlers alone, no crash, sidecar intact.  `KnownInv`:
  the sidecar has the name, or it is about to be written and the comment has it.
* `ArchivesAreOwn` (`ArchiveServesOwnKey`): handlers alone, no crash, archive writes
  succeed.  `ArchiveInv`: only the device being enrolled may have an earlier one's
  archive, and no other device answers to its name.
* `KernelFollows` (`LiveFollowsConf`): handlers alone, no crash, reloads succeed.
  `LiveInv`: after every rewrite the handler is on its way to a reload.
* `ImplementsRegistry` (`RegistrySpec`): handlers alone, without the faults of
  `Orphaning`.  From the invariants above, `AppendPeer` is an `Enrol`, `RemovePeers`
  a `Revoke` or a `RevokeAll`, the last step of a user's deletion a `RemoveUser`, and
  every other step leaves users and devices alone.

Nothing is assumed of user names: one may be a hyphenated prefix of another's
(`reUsername` admits hyphens).  Then one user's deletion is a `RevokeAll` of the other's
devices too; that a user leaves only after the last device still holds.

`BackupEngine_proofs`, for any recipes, workers and faults:

* `EngineTypeCorrect`: the types, with `Busy`: a worker that is at a recipe has one
  left.
* `OneAtATime`: `OneOperation`, inductive given the types.
* `SnapshotsWhole`, `RestoreRecoverable`: `SnapshotsAreWhole` and
  `BotchedIsRecoverable` while no command runs beside the page (`CliWorkers = {}`;
  beside it both fail on the instance of `engine_overlap`).  The strengthening `PageInv`
  says that the flag leaves a running worker alone with its staging directory
  (`OneOperation`), that the file pg_dump writes is its own (`DumpCareful`), that
  what it comes to snapshot is whole, and that a restore comes to the files only
  after a safety snapshot at least as new as its beginning, which nobody but the
  operator removes (`RestoreCareful`).

`BackupHousekeeping_proofs`, from the same types, page and command together, any
recipes, workers, faults and crashes:

* `NoDumpStaysBehind` (`StageCleared`).  `StageInv`: unless the service has died, a
  staging directory that is not empty belongs to the recipe some worker is at,
  between its dump and the deferred removal.
* `NewestAreKept` (`NewestKept`), with the operator at work too.  Several passes may
  work from lists of different age.  `RetainInv` says that ids are given once and in
  order, and that every id a pass is about to remove has `Keep` later ones.  That
  a pass picks only such ids (`PickedAreOld`) is a counting argument: the newer
  snapshots it counted have different ids, all between the picked one and `nextId`.
  It holds whatever `Listed` selects; the stronger `RetentionSpares` is what the
  selection of either tag breaks.

`EngineAssumption` says that no worker is called `"none"`, the mark of a dump nobody
has written.

`BackupStream_proofs`, for any connections, tabs, log length and channel size:
`StreamTypeCorrect`, `OutcomeBeforeDone` (`DoneHasOutcome`), `HistoryOnce`
(`HistoryThenLive`), `OutcomeComesLast` (`ToldEverything`).  The invariant `StreamInv`
follows each frame of the log to each connection: it is in the history, or read,
waiting in the channel, lost to a full channel, or still to be sent by the one
writer that appended it, nothing missing (`Complete`) and nothing on its way twice
(`Separate`); what was read is the history in order and then newer frames (`Prefix`); and the
terminal frame is appended when no other frame is still to be sent, so nothing
is behind it (`LogInv`, `Told`).  The two pumps send outside the lock, so frames may
arrive out of order: no invariant says that a channel is sorted.

`SetupWizard_proofs`, for any accounts, providers, clients, hosts, secrets, faults
and bounds:

* `WizardTypeCorrect`: the types, for any number of overlapping runs, with
  `TypeInv`: a run that has passed a check has the account, provider or index the
  check was about.
* `FlagsAreHonest`, `LockedServes`, `DoneIsLocked`: for any number of overlapping
  runs, the last while nobody removes the sentinel.  `FlagInv` strengthens
  them: every copy of `state.json` anywhere (a run's, a form's) is honest, not only
  the file; the certificate, the uploaded PEM and wired hosts never go away; and a
  run past a step has that step's outcome.
* `SecretsStayPaired`, `LocksWithAnAdmin`: for one run at a time (`OneRun`; two
  fail both).  `AloneInv` says that between plaintext and env file the run
  holds the env file's present content, that a hash in use is always the
  plaintext's, and that after the verification nothing but the run itself touches
  account and configuration before the sentinel.

`UsersDB_proofs`, for any accounts and any number of requests:
`AccountsTypeCorrect`, `AnswersAreKept`, `OnlyShownIsReplaced`.  The invariant says
that whoever is past the lock holds it (`Serving`), and that the copy a handler is
to write differs from what was answered, spoiled accounts aside, in one permitted
change (`Faithful`).  An account leaves `spoiled` only by an answer about it, so the
exception of `Acknowledged` does not grow into an excuse for a lost update.

Only model-checked: the liveness properties `EventuallyTold`, `FlagReleased`,
`Completes` and `Answered`, which are out of the prover's reach (it has no rule for
fairness or ENABLED).

## Plan

In order of importance; what is done is marked.

1. `Peers` with `DeviceRegistry`: all handlers, the script, faults, crashes (done).
2. `BackupEngine` and `BackupStream` (done).
3. `SetupWizard` with OIDC rotation and NPM client (done).
4. `UsersDB` (done).
5. Proofs of the safety properties and of the refinement (done).

## Not modelled

* The launcher: one file changed by one rename per request under `s.mu`.
* TOTP, bans, audit log, storage figures, task client, authentication, CSRF,
  logout, start-up: one external call, one line appended, or a check without state
  each.
* A restore of the authelia stack beside a request that changes accounts: what
  becomes of `users_database.yml` depends on how restic replaces a file.
* Host scripts, units, compose files and templates: linear provisioning and
  configuration of third-party programs; `render-templates.sh` and certbot appear
  as steps of finalize.
