----------------------------- MODULE SetupWizard -----------------------------
(***************************************************************************)
(* The set-up wizard of enrol: setup.go, finalize_verify.go, and the parts *)
(* of oidc.go and npm_client.go it calls.  The operator's forms fill       *)
(* state.json; every GET of /setup/events is a run of runFinalize, which   *)
(* loads state.json once, performs the steps whose flag is not set, and    *)
(* saves its copy after each; the last step touches the sentinel that      *)
(* closes the wizard, and then wipes the secrets.                          *)
(*                                                                         *)
(* A step of the model is one change of a store that outlives the process. *)
(* Nothing keeps two runs, or a run and a form, apart: setupStateMu covers *)
(* single loads and saves of state.json only.                              *)
(***************************************************************************)
EXTENDS Integers, Sequences, FiniteSets

CONSTANTS
  Runs,        \* the requests for /setup/events that can be open at once
  Forms,       \* answers to /setup/admin: records of a name, an email, a pw
  Providers,   \* DNS providers
  Clients,     \* the OIDC clients, in the order in which they are rotated
  Hosts,       \* the proxy hosts, in the order in which they are wired
  Secrets,     \* supply of client secrets
  Faults,      \* calls that may fail
  MaxFaults,   \* bound on failing calls
  MaxCrashes,  \* bound on restarts of the container or the host
  MaxPosts,    \* bound on forms sent without need
  MaxReruns    \* bound on removals of the sentinel by the operator

None == "none"
Placeholder == 0    \* bootstrap-placeholder, or a file that does not exist
Boot == "bootstrap" \* the administrator the proxy manager is installed with

ASSUME FormsAssumption ==
  /\ Forms \subseteq [name : STRING \ {None}, email : STRING \ {None, Boot},
                      pw : STRING \ {None, Boot}]
  /\ Providers \subseteq STRING \ {None}
ASSUME ListsAssumption ==
  /\ Clients \in Seq(STRING) \ {<<>>}
  /\ Hosts \in Seq(STRING) \ {<<>>}
ASSUME SecretsAssumption == Secrets \subseteq Nat \ {0}
ASSUME BoundsAssumption ==
  {MaxFaults, MaxCrashes, MaxPosts, MaxReruns} \subseteq Nat

VARIABLES
  st,        \* state.json
  sentinel,  \* /srv/store/.setup-complete exists
  cache,     \* setupSecretCache: in memory, and mirrored to tmpfs
  users,     \* users_database.yml: the password of each account
  oidc,      \* plaintext files, /opt/stacks/.env, Authelia's configuration
  cert,      \* the certificate, and the credentials files certbot is given
  npm,       \* the proxy manager: administrator, certificate, hosts
  pc,        \* where each run of runFinalize is
  mine,      \* its copy of state.json
  loc,       \* its other locals
  form,      \* the form handler between load and save
  left,      \* what remains of the bounds
  changed    \* the operator changed the account after a first finalize

vars == <<st, sentinel, cache, users, oidc, cert, npm, pc, mine, loc, form,
          left, changed>>

Names == {f.name : f \in Forms}
ClientSet == {Clients[k] : k \in DOMAIN Clients}
HostSet == {Hosts[k] : k \in DOMAIN Hosts}
Steps == {"users_db", "oidc", "templates", "cert", "npm"}

\* loadSetupState of a fresh install.  Step, the quota and the display name
\* are left out: they decide nothing but which page is shown.
Fresh == [provider |-> None, creds |-> FALSE, name |-> None, email |-> None,
          hash |-> None, done |-> {}]

NoLocals == [pw |-> None, users |-> [n \in Names |-> None],
             env |-> [c \in ClientSet |-> Placeholder],
             secret |-> Placeholder, i |-> 1]

NoForm == [kind |-> None, st |-> Fresh, arg |-> None]

\* setupModeActive, as setupRouteGate asks it for every request.
SetupMode == ~sentinel

Settled(r) == pc[r] \in {"idle", "done", "failed"}

\* secretCache.get.  (That it also fills the map from the file is not seen:
\* set and delete treat both alike, and a restart empties the map.)
Password(n) ==
  IF n \notin Names THEN None
  ELSE IF cache.mem[n] # None THEN cache.mem[n] ELSE cache.file[n]

\* The first step of runFinalize whose flag is not set.
Todo(s) ==
  IF "users_db" \notin s.done THEN "users_db"
  ELSE IF "oidc" \notin s.done THEN "oidc"
  ELSE IF "templates" \notin s.done THEN "templates"
  ELSE IF "cert" \notin s.done THEN "cert"
  ELSE IF "npm" \notin s.done THEN "npm"
  ELSE "verify"

Init ==
  /\ st = Fresh
  /\ sentinel = FALSE
  /\ cache = [mem |-> [n \in Names |-> None], file |-> [n \in Names |-> None]]
  /\ users = [n \in Names |-> None]
  /\ oidc = [plain |-> [c \in ClientSet |-> Placeholder],
             env |-> [c \in ClientSet |-> Placeholder],
             conf |-> [c \in ClientSet |-> Placeholder]]
  /\ cert = [issued |-> FALSE, ini |-> {}]
  /\ npm = [email |-> Boot, pw |-> Boot, cert |-> None, hosts |-> {}]
  /\ pc = [r \in Runs |-> "idle"]
  /\ mine = [r \in Runs |-> Fresh]
  /\ loc = [r \in Runs |-> NoLocals]
  /\ form = NoForm
  /\ left = [faults |-> MaxFaults, crashes |-> MaxCrashes,
             posts |-> MaxPosts, reruns |-> MaxReruns]
  /\ changed = FALSE

-----------------------------------------------------------------------------
(* Building blocks *)

MayFail(call) ==
  /\ call \in Faults
  /\ left.faults > 0
  /\ left' = [left EXCEPT !.faults = @ - 1]

NoFault == UNCHANGED left

GoTo(r, p) == pc' = [pc EXCEPT ![r] = p]

\* runFinalize returns: the error, or the end, goes to the browser.
Return(r, how) ==
  /\ GoTo(r, how)
  /\ mine' = [mine EXCEPT ![r] = Fresh]
  /\ loc' = [loc EXCEPT ![r] = NoLocals]

Keep(r, p) == GoTo(r, p) /\ UNCHANGED <<mine, loc>>

\* saveSetupState within runFinalize: a failure is only logged.
Save(s) ==
  \/ st' = s /\ NoFault
  \/ st' = st /\ MayFail("state_save")

\* A step's flag is set in the run's copy, which is saved as a whole.
Flag(r, step) ==
  LET s == [mine[r] EXCEPT !.done = @ \cup {step}]
  IN  /\ mine' = [mine EXCEPT ![r] = s]
      /\ loc' = [loc EXCEPT ![r] = NoLocals]
      /\ Save(s)
      /\ GoTo(r, Todo(s))

operatorVars == <<form, changed>>

-----------------------------------------------------------------------------
(* finalize_verify.go *)

VerifyUsersDB(s) == s.name \in Names /\ users[s.name] # None

VerifyTemplatesRendered == \A c \in ClientSet : oidc.conf[c] # Placeholder

VerifyCertIssued == cert.issued

VerifyNPMRoutes(s) ==
  /\ s.name # None
  /\ s.email # None
  /\ Password(s.name) # None
  /\ npm.email = s.email
  /\ npm.pw = Password(s.name)
  /\ HostSet \subseteq npm.hosts

\* Mutant: the account is not looked up again before the wizard locks.
FinalizeVerifyAllButUsers(s) ==
  VerifyTemplatesRendered /\ VerifyCertIssued /\ VerifyNPMRoutes(s)

FinalizeVerifyAll(s) ==
  /\ VerifyUsersDB(s)
  /\ VerifyTemplatesRendered
  /\ VerifyCertIssued
  /\ VerifyNPMRoutes(s)

-----------------------------------------------------------------------------
(* Forms.  A handler loads state.json, changes its fields and saves all of *)
(* it.  An answer that does not validate changes nothing.                  *)

Post(kind, arg) ==
  /\ SetupMode
  /\ form = NoForm
  /\ form' = [kind |-> kind, st |-> st, arg |-> arg]
  /\ UNCHANGED <<st, sentinel, cache, users, oidc, cert, npm, pc, mine, loc,
                 changed>>

Spend == left.posts > 0 /\ left' = [left EXCEPT !.posts = @ - 1]

\* welcome, domain and storage: the fields they set are not modelled, but
\* they write back everything else they loaded.
PostPage == Post("page", None) /\ Spend

ProviderAsked == ~st.creds

PostDNS(p) ==
  /\ Post("dns", p)
  /\ IF ProviderAsked THEN NoFault ELSE Spend

Account(s) == <<s.name, s.email, s.hash>>

\* The account is missing, or a failed run sent the operator back to it.
AccountAsked(f) ==
  \/ st.name = None
  \/ /\ Account(st) = <<f.name, f.email, f.pw>>
     /\ Password(st.name) = None \/ \E r \in Runs : pc[r] = "failed"

PostAdmin(f) ==
  /\ Post("admin", f)
  /\ IF AccountAsked(f) THEN NoFault ELSE Spend

\* Some finalize has begun to use the account.
InUse ==
  \/ st.done # {}
  \/ npm.email # Boot
  \/ \E n \in Names : users[n] # None
  \/ \E r \in Runs : ~Settled(r)

Filled ==
  CASE form.kind = "page" -> form.st
    [] form.kind = "dns" ->
         [form.st EXCEPT !.provider = form.arg, !.creds = TRUE]
    [] form.kind = "admin" ->
         [form.st EXCEPT !.name = form.arg.name, !.email = form.arg.email,
                         !.hash = form.arg.pw]

SaveForm ==
  /\ form.kind \in {"page", "dns", "admin"}
  /\ \/ /\ st' = Filled
        /\ form' = IF form.kind = "admin" THEN [form EXCEPT !.kind = "secret"]
                   ELSE NoForm
        /\ changed' = (changed \/ (InUse /\ Account(Filled) # Account(st)))
        /\ NoFault
     \/ st' = st /\ form' = NoForm /\ UNCHANGED changed /\ MayFail("state_save")
  /\ UNCHANGED <<sentinel, cache, users, oidc, cert, npm, pc, mine, loc>>

\* setupSecretCache.set: the mirror on tmpfs is best effort.
CacheSecret ==
  LET n == form.arg.name
      mem == [cache.mem EXCEPT ![n] = form.arg.pw]
  IN  /\ form.kind = "secret"
      /\ \/ /\ cache' = [mem |-> mem,
                         file |-> [cache.file EXCEPT ![n] = form.arg.pw]]
            /\ NoFault
         \/ cache' = [cache EXCEPT !.mem = mem] /\ MayFail("mirror")
      /\ form' = NoForm
      /\ changed' = (changed \/ (InUse /\ Password(n) \notin {None, form.arg.pw}))
      /\ UNCHANGED <<st, sentinel, users, oidc, cert, npm, pc, mine, loc>>

-----------------------------------------------------------------------------
(* runFinalize *)

\* A GET of /setup/events: the operator's button, or the browser's EventSource
\* when it reconnects.
Start(r) ==
  /\ SetupMode
  /\ Settled(r)
  /\ mine' = [mine EXCEPT ![r] = st]
  /\ GoTo(r, Todo(st))
  /\ UNCHANGED <<st, sentinel, cache, users, oidc, cert, npm, loc, left,
                 operatorVars>>

\* finalizeWriteAdmin: load (an absent file is seeded empty) and upsert ...
WriteAdminLoad(r) ==
  LET s == mine[r]
  IN  /\ pc[r] = "users_db"
      /\ IF s.name = None \/ s.hash = None THEN Return(r, "failed")
         ELSE /\ GoTo(r, "users_trunc")
              /\ loc' = [loc EXCEPT ![r].users = [users EXCEPT ![s.name] = s.hash]]
              /\ UNCHANGED mine
      /\ UNCHANGED <<st, sentinel, cache, users, oidc, cert, npm, left,
                     operatorVars>>

\* ... and flush: the file is opened with O_TRUNC ...
WriteAdminTruncate(r) ==
  /\ pc[r] = "users_trunc"
  /\ \/ users' = [n \in Names |-> None] /\ Keep(r, "users_write") /\ NoFault
     \/ UNCHANGED users /\ Return(r, "failed") /\ MayFail("users_flush")
  /\ UNCHANGED <<st, sentinel, cache, oidc, cert, npm, operatorVars>>

\* ... and written.
WriteAdminWrite(r) ==
  /\ pc[r] = "users_write"
  /\ \/ users' = loc[r].users /\ Keep(r, "users_flag") /\ NoFault
     \/ UNCHANGED users /\ Return(r, "failed") /\ MayFail("users_flush")
  /\ UNCHANGED <<st, sentinel, cache, oidc, cert, npm, operatorVars>>

FlagUsers(r) ==
  /\ pc[r] = "users_flag"
  /\ IF VerifyUsersDB(mine[r]) THEN Flag(r, "users_db")
     ELSE Return(r, "failed") /\ UNCHANGED <<st, left>>
  /\ UNCHANGED <<sentinel, cache, users, oidc, cert, npm, operatorVars>>

\* The next client, or the flag after the last.  The step has no verification.
NextClient(r) ==
  IF loc[r].i = Len(Clients) THEN Flag(r, "oidc")
  ELSE /\ loc' = [loc EXCEPT ![r] = [NoLocals EXCEPT !.i = loc[r].i + 1]]
       /\ GoTo(r, "oidc")
       /\ UNCHANGED <<mine, st, left>>

\* Mutant: a plaintext file alone counts as rotated.
RotateReadPlainOnly(r) ==
  LET c == Clients[loc[r].i]
  IN  /\ pc[r] = "oidc"
      /\ \/ oidc.plain[c] # Placeholder /\ NextClient(r)
         \/ /\ oidc.plain[c] = Placeholder
            /\ loc' = [loc EXCEPT ![r].env = oidc.env]
            /\ GoTo(r, "oidc_plain")
            /\ UNCHANGED <<mine, st, left>>
      /\ UNCHANGED <<sentinel, cache, users, oidc, cert, npm, operatorVars>>

\* rotateClientSecret reads the env file.  A hash that looks genuine and a
\* plaintext file are left alone.
RotateRead(r) ==
  LET c == Clients[loc[r].i]
  IN  /\ pc[r] = "oidc"
      /\ \/ /\ oidc.env[c] # Placeholder
            /\ oidc.plain[c] # Placeholder
            /\ NextClient(r)
         \/ /\ oidc.env[c] = Placeholder \/ oidc.plain[c] = Placeholder
            /\ loc' = [loc EXCEPT ![r].env = oidc.env]
            /\ GoTo(r, "oidc_plain")
            /\ UNCHANGED <<mine, st, left>>
      /\ UNCHANGED <<sentinel, cache, users, oidc, cert, npm, operatorVars>>

\* A secret of client c that is in use nowhere: the least, which stands for all.
Unused(c) ==
  Secrets \ ({oidc.plain[c], oidc.env[c], oidc.conf[c]}
             \cup UNION {{loc[r].secret, loc[r].env[c]} : r \in Runs})

IsFresh(secret, c) == \A other \in Unused(c) : secret <= other

\* Mutant: a plaintext file that exists is not overwritten.
RotatePlainOnce(r) ==
  LET c == Clients[loc[r].i]
  IN  /\ pc[r] = "oidc_plain"
      /\ \E secret \in Unused(c) :
           /\ IsFresh(secret, c)
           /\ oidc' = [oidc EXCEPT !.plain[c] = IF @ = Placeholder THEN secret ELSE @]
           /\ loc' = [loc EXCEPT ![r].secret = secret]
      /\ GoTo(r, "oidc_env")
      /\ UNCHANGED <<st, sentinel, cache, users, cert, npm, mine, left, operatorVars>>

\* It makes up a secret and writes the plaintext file ...
RotatePlain(r) ==
  LET c == Clients[loc[r].i]
  IN  /\ pc[r] = "oidc_plain"
      /\ \/ /\ \E secret \in Unused(c) :
                 /\ IsFresh(secret, c)
                 /\ oidc' = [oidc EXCEPT !.plain[c] = secret]
                 /\ loc' = [loc EXCEPT ![r].secret = secret]
            /\ GoTo(r, "oidc_env")
            /\ UNCHANGED mine
            /\ NoFault
         \/ UNCHANGED oidc /\ Return(r, "failed") /\ MayFail("oidc")
      /\ UNCHANGED <<st, sentinel, cache, users, cert, npm, operatorVars>>

\* ... and then the whole env file, from the bytes it read, with the hash.
RotateEnv(r) ==
  LET c == Clients[loc[r].i]
  IN  /\ pc[r] = "oidc_env"
      /\ \/ /\ oidc' = [oidc EXCEPT !.env = [loc[r].env EXCEPT ![c] = loc[r].secret]]
            /\ NextClient(r)
         \/ UNCHANGED <<oidc, st>> /\ Return(r, "failed") /\ MayFail("oidc")
      /\ UNCHANGED <<sentinel, cache, users, cert, npm, operatorVars>>

\* render-templates.sh moves each rendered file into place; it may fail, or be
\* killed with the request, before or after Authelia's.
RenderTemplates(r) ==
  LET rendered == [oidc EXCEPT !.conf = oidc.env]
  IN  /\ pc[r] = "templates"
      /\ \/ oidc' = rendered /\ Keep(r, "templates_flag") /\ NoFault
         \/ oidc' \in {oidc, rendered} /\ Return(r, "failed") /\ MayFail("templates")
      /\ UNCHANGED <<st, sentinel, cache, users, cert, npm, operatorVars>>

FlagTemplates(r) ==
  /\ pc[r] = "templates_flag"
  /\ IF VerifyTemplatesRendered THEN Flag(r, "templates")
     ELSE Return(r, "failed") /\ UNCHANGED <<st, left>>
  /\ UNCHANGED <<sentinel, cache, users, oidc, cert, npm, operatorVars>>

\* Mutant: a missing provider is not noticed.
WriteCredsBlind(r) ==
  /\ pc[r] = "cert"
  /\ Keep(r, "certbot")
  /\ cert' = [cert EXCEPT !.ini = @ \cup {mine[r].provider}]
  /\ UNCHANGED <<st, sentinel, cache, users, oidc, npm, left, operatorVars>>

\* finalizeIssueCert writes the credentials where certbot reads them (when that
\* fails half-way nothing removes the file) ...
WriteCreds(r) ==
  LET p == mine[r].provider
      written == [cert EXCEPT !.ini = @ \cup {p}]
  IN  /\ pc[r] = "cert"
      /\ \/ p = None /\ Return(r, "failed") /\ UNCHANGED cert /\ NoFault
         \/ p # None /\ Keep(r, "certbot") /\ cert' = written /\ NoFault
         \/ /\ p # None
            /\ Return(r, "failed")
            /\ cert' \in {cert, written}
            /\ MayFail("creds")
      /\ UNCHANGED <<st, sentinel, cache, users, oidc, npm, operatorVars>>

\* ... and runs it; the deferred scrub removes the file however it ends.
Certbot(r) ==
  LET p == mine[r].provider
      scrubbed == cert.ini \ {p}
      works == mine[r].creds /\ p \in cert.ini
  IN  /\ pc[r] = "certbot"
      /\ \/ /\ works
            /\ cert' = [issued |-> TRUE, ini |-> scrubbed]
            /\ Keep(r, "cert_flag")
            /\ NoFault
         \/ /\ works
            /\ \E b \in {cert.issued, TRUE} : cert' = [issued |-> b, ini |-> scrubbed]
            /\ Return(r, "failed")
            /\ MayFail("certbot")
         \/ /\ ~works
            /\ cert' = [cert EXCEPT !.ini = scrubbed]
            /\ Return(r, "failed")
            /\ NoFault
      /\ UNCHANGED <<st, sentinel, cache, users, oidc, npm, operatorVars>>

FlagCert(r) ==
  /\ pc[r] = "cert_flag"
  /\ IF VerifyCertIssued THEN Flag(r, "cert")
     ELSE Return(r, "failed") /\ UNCHANGED <<st, left>>
  /\ UNCHANGED <<sentinel, cache, users, oidc, cert, npm, operatorVars>>

\* finalizeWireNPM: the password from the cache, then Bootstrap, which tries
\* the new administrator first and the installed one next.
Bootstrap(r) ==
  LET s == mine[r]
      pw == Password(s.name)
  IN  /\ pc[r] = "npm"
      /\ \/ /\ pw # None
            /\ \/ npm.email = s.email /\ npm.pw = pw /\ GoTo(r, "npm_cert")
               \/ npm.email = Boot /\ npm.pw = Boot /\ GoTo(r, "npm_email")
            /\ loc' = [loc EXCEPT ![r].pw = pw]
            /\ UNCHANGED mine
            /\ NoFault
         \/ /\ \/ pw = None
               \/ ~(npm.email = s.email /\ npm.pw = pw) /\ ~(npm.email = Boot /\ npm.pw = Boot)
            /\ Return(r, "failed")
            /\ NoFault
         \/ Return(r, "failed") /\ MayFail("npm_login")
      /\ UNCHANGED <<st, sentinel, cache, users, oidc, cert, npm, operatorVars>>

\* A request to the proxy manager that changes it to n; a failed one may have
\* been carried out.
Request(r, call, n, next) ==
  /\ \/ npm' = n /\ Keep(r, next) /\ NoFault
     \/ npm' \in {npm, n} /\ Return(r, "failed") /\ MayFail(call)
  /\ UNCHANGED <<st, sentinel, cache, users, oidc, cert, operatorVars>>

PutEmail(r) ==
  /\ pc[r] = "npm_email"
  /\ Request(r, "npm_bootstrap", [npm EXCEPT !.email = mine[r].email], "npm_auth")

\* The rotation has to name the current password.
PutAuth(r) ==
  /\ pc[r] = "npm_auth"
  /\ \/ /\ npm.pw = Boot
        /\ Request(r, "npm_bootstrap", [npm EXCEPT !.pw = loc[r].pw], "npm_cert")
     \/ /\ npm.pw # Boot
        /\ Return(r, "failed")
        /\ UNCHANGED <<st, sentinel, cache, users, oidc, cert, npm, left, operatorVars>>

\* Mutant: an existing row is made anew.
PostCertificateAnew(r) ==
  /\ pc[r] = "npm_cert"
  /\ Request(r, "npm_api", [npm EXCEPT !.cert = "row"], "npm_upload")

\* UpsertCertificate: a row under the wildcard's name ...
PostCertificate(r) ==
  /\ pc[r] = "npm_cert"
  /\ Request(r, "npm_api", [npm EXCEPT !.cert = IF @ = None THEN "row" ELSE @], "npm_upload")

\* Mutant: the upload is best effort.
UploadCertificateBestEffort(r) ==
  /\ pc[r] = "npm_upload"
  /\ \/ npm' = [npm EXCEPT !.cert = "pem"] /\ cert.issued /\ NoFault
     \/ npm' = npm /\ MayFail("npm_api")
  /\ Keep(r, "npm_hosts")
  /\ UNCHANGED <<st, sentinel, cache, users, oidc, cert, operatorVars>>

\* ... and the PEM files, if they can be read.
UploadCertificate(r) ==
  /\ pc[r] = "npm_upload"
  /\ \/ /\ cert.issued
        /\ Request(r, "npm_api", [npm EXCEPT !.cert = "pem"], "npm_hosts")
     \/ /\ ~cert.issued
        /\ Return(r, "failed")
        /\ UNCHANGED <<st, sentinel, cache, users, oidc, cert, npm, left, operatorVars>>

UpsertProxyHost(r) ==
  LET i == loc[r].i
      wired == [npm EXCEPT !.hosts = @ \cup {Hosts[i]}]
  IN  /\ pc[r] = "npm_hosts"
      /\ \/ /\ npm' = wired
            /\ IF i = Len(Hosts) THEN GoTo(r, "npm_flag") /\ UNCHANGED loc
               ELSE UNCHANGED pc /\ loc' = [loc EXCEPT ![r].i = i + 1]
            /\ UNCHANGED mine
            /\ NoFault
         \/ npm' \in {npm, wired} /\ Return(r, "failed") /\ MayFail("npm_api")
      /\ UNCHANGED <<st, sentinel, cache, users, oidc, cert, operatorVars>>

FlagNPM(r) ==
  /\ pc[r] = "npm_flag"
  /\ \/ VerifyNPMRoutes(mine[r]) /\ Flag(r, "npm")
     \/ ~VerifyNPMRoutes(mine[r]) /\ Return(r, "failed") /\ UNCHANGED <<st, left>>
     \/ Return(r, "failed") /\ UNCHANGED st /\ MayFail("npm_api")
  /\ UNCHANGED <<sentinel, cache, users, oidc, cert, npm, operatorVars>>

\* Every verification once more, whatever the flags say.
VerifyAll(r) ==
  /\ pc[r] = "verify"
  /\ \/ /\ FinalizeVerifyAll(mine[r])
        /\ Keep(r, IF "sentinel" \in mine[r].done THEN "wipe" ELSE "sentinel")
        /\ NoFault
     \/ ~FinalizeVerifyAll(mine[r]) /\ Return(r, "failed") /\ NoFault
     \/ Return(r, "failed") /\ MayFail("npm_api")
  /\ UNCHANGED <<st, sentinel, cache, users, oidc, cert, npm, operatorVars>>

\* Mutant: a failure to write the sentinel is only logged.
TouchSentinelLogged(r) ==
  /\ pc[r] = "sentinel"
  /\ \/ sentinel' = TRUE /\ Keep(r, "sentinel_flag") /\ NoFault
     \/ UNCHANGED sentinel /\ Keep(r, "wipe") /\ MayFail("sentinel")
  /\ UNCHANGED <<st, cache, users, oidc, cert, npm, operatorVars>>

\* A write that fails may leave an empty file, which counts as well.
TouchSentinel(r) ==
  /\ pc[r] = "sentinel"
  /\ \/ sentinel' = TRUE /\ Keep(r, "sentinel_flag") /\ NoFault
     \/ sentinel' \in {sentinel, TRUE} /\ Return(r, "failed") /\ MayFail("sentinel")
  /\ UNCHANGED <<st, cache, users, oidc, cert, npm, operatorVars>>

\* Another run is writing the sentinel anew, or failed to: it may be empty.
MayBeEmpty(r) == \E q \in Runs \ {r} : pc[q] \in {"sentinel", "failed"}

\* verifySentinel, which wants the file there and not empty, the flag, and the
\* save.
FlagSentinel(r) ==
  LET s == [mine[r] EXCEPT !.done = @ \cup {"sentinel"}]
  IN  /\ pc[r] = "sentinel_flag"
      /\ \/ /\ sentinel
            /\ Save(s)
            /\ GoTo(r, "wipe")
            /\ mine' = [mine EXCEPT ![r] = s]
            /\ UNCHANGED loc
         \/ /\ ~sentinel \/ MayBeEmpty(r)
            /\ Return(r, "failed")
            /\ UNCHANGED <<st, left>>
      /\ UNCHANGED <<sentinel, cache, users, oidc, cert, npm, operatorVars>>

\* setupSecretCache.delete.
WipeSecret(r) ==
  LET n == mine[r].name
  IN  /\ pc[r] = "wipe"
      /\ cache' = [mem |-> [cache.mem EXCEPT ![n] = None],
                   file |-> [cache.file EXCEPT ![n] = None]]
      /\ Keep(r, "scrub")
      /\ UNCHANGED <<st, sentinel, users, oidc, cert, npm, left, operatorVars>>

\* The scrubbed state.json; here a failing save is an error.
Scrub(r) ==
  /\ pc[r] = "scrub"
  /\ \/ /\ st' = [mine[r] EXCEPT !.hash = None, !.creds = FALSE]
        /\ Return(r, "done")
        /\ NoFault
     \/ st' = st /\ Return(r, "failed") /\ MayFail("state_save")
  /\ UNCHANGED <<sentinel, cache, users, oidc, cert, npm, operatorVars>>

-----------------------------------------------------------------------------
(* The environment *)

\* The container restarts; with the host, tmpfs is emptied too.
Crash ==
  /\ left.crashes > 0
  /\ left' = [left EXCEPT !.crashes = @ - 1]
  /\ pc' = [r \in Runs |-> "idle"]
  /\ mine' = [r \in Runs |-> Fresh]
  /\ loc' = [r \in Runs |-> NoLocals]
  /\ form' = NoForm
  /\ \/ /\ cache' = [cache EXCEPT !.mem = [n \in Names |-> None]]
        /\ UNCHANGED cert
     \/ /\ cache' = [mem |-> [n \in Names |-> None], file |-> [n \in Names |-> None]]
        /\ cert' = [cert EXCEPT !.ini = {}]
  /\ UNCHANGED <<st, sentinel, users, oidc, npm, changed>>

\* "To re-run this wizard, ... remove /srv/store/.setup-complete."
RemoveSentinel ==
  /\ sentinel
  /\ \A r \in Runs : Settled(r)
  /\ left.reruns > 0
  /\ left' = [left EXCEPT !.reruns = @ - 1]
  /\ sentinel' = FALSE
  /\ UNCHANGED <<st, cache, users, oidc, cert, npm, pc, mine, loc, operatorVars>>

-----------------------------------------------------------------------------

WriteAdmin(r) ==
  WriteAdminLoad(r) \/ WriteAdminTruncate(r) \/ WriteAdminWrite(r) \/ FlagUsers(r)

RotateSecrets(r) == RotateRead(r) \/ RotatePlain(r) \/ RotateEnv(r)

Templates(r) == RenderTemplates(r) \/ FlagTemplates(r)

IssueCert(r) == WriteCreds(r) \/ Certbot(r) \/ FlagCert(r)

WireNPM(r) ==
  Bootstrap(r) \/ PutEmail(r) \/ PutAuth(r) \/ PostCertificate(r)
  \/ UploadCertificate(r) \/ UpsertProxyHost(r) \/ FlagNPM(r)

Complete(r) ==
  VerifyAll(r) \/ TouchSentinel(r) \/ FlagSentinel(r) \/ WipeSecret(r) \/ Scrub(r)

RunFinalize(r) ==
  WriteAdmin(r) \/ RotateSecrets(r) \/ Templates(r) \/ IssueCert(r)
  \/ WireNPM(r) \/ Complete(r)

HandleForm == SaveForm \/ CacheSecret

Next ==
  \/ \E r \in Runs : Start(r) \/ RunFinalize(r)
  \/ PostPage
  \/ \E p \in Providers : PostDNS(p)
  \/ \E f \in Forms : PostAdmin(f)
  \/ HandleForm
  \/ Crash
  \/ RemoveSentinel

Spec == Init /\ [][Next]_vars

\* Handlers run to their end.  The operator gives what he is asked for and
\* starts finalize again until it is done: an assumption on him, not on the
\* code, which never retries by itself.
FairSpec ==
  /\ Spec
  /\ WF_vars(HandleForm)
  /\ \A r \in Runs : WF_vars(RunFinalize(r)) /\ WF_vars(Start(r))
  /\ SF_vars(\E f \in Forms : AccountAsked(f) /\ PostAdmin(f))
  /\ SF_vars(\E p \in Providers : ProviderAsked /\ PostDNS(p))

-----------------------------------------------------------------------------
(* Properties *)

Secret == Secrets \cup {Placeholder}
Passwords == {f.pw : f \in Forms}
Emails == {f.email : f \in Forms}

StateType ==
  [provider : Providers \cup {None}, creds : BOOLEAN, name : Names \cup {None},
   email : Emails \cup {None}, hash : Passwords \cup {None},
   done : SUBSET (Steps \cup {"sentinel"})]

Accounts == [Names -> Passwords \cup {None}]
Rotation == [ClientSet -> Secret]

LocalsType ==
  [pw : Passwords \cup {None}, users : Accounts, env : Rotation,
   secret : Secret, i : Nat \ {0}]

FormType ==
  {NoForm}
  \cup [kind : {"page"}, st : StateType, arg : {None}]
  \cup [kind : {"dns"}, st : StateType, arg : Providers]
  \cup [kind : {"admin", "secret"}, st : StateType, arg : Forms]

Positions ==
  Steps \cup
  {"idle", "done", "failed", "users_trunc", "users_write", "users_flag",
   "oidc_plain", "oidc_env", "templates_flag", "certbot", "cert_flag",
   "npm_email", "npm_auth", "npm_cert", "npm_upload", "npm_hosts", "npm_flag",
   "verify", "sentinel", "sentinel_flag", "wipe", "scrub"}

\* Every store, and every copy a handler holds of one, keeps its type.
TypeOK ==
  /\ st \in StateType
  /\ sentinel \in BOOLEAN
  /\ cache \in [mem : Accounts, file : Accounts]
  /\ users \in Accounts
  /\ oidc \in [plain : Rotation, env : Rotation, conf : Rotation]
  /\ cert \in [issued : BOOLEAN, ini : SUBSET Providers]
  /\ npm \in [email : Emails \cup {Boot}, pw : Passwords \cup {Boot},
              cert : {None, "row", "pem"}, hosts : SUBSET HostSet]
  /\ pc \in [Runs -> Positions]
  /\ mine \in [Runs -> StateType]
  /\ loc \in [Runs -> LocalsType]
  /\ form \in FormType
  /\ left \in [faults : Nat, crashes : Nat, posts : Nat, reruns : Nat]
  /\ changed \in BOOLEAN

\* A flag in a copy of state.json means that the outcome of its step is there
\* to be observed, although state.json is rewritten from copies of any age.
Honest(s) ==
  /\ "cert" \in s.done => cert.issued
  /\ "npm" \in s.done => HostSet \subseteq npm.hosts /\ npm.cert = "pem"

\* "IMPORTANT invariant.  A flag is set ONLY after" the step was carried out
\* and observed (setup.go:98-104), for the steps whose outcome is on the wire:
\* the certificate and the proxy hosts.  Holds for overlapping runs too.
FlagsHonest == Honest(st)

\* Once the wizard has locked itself, the installation is reachable: there is a
\* certificate, and the proxy manager has it and all hosts.  Nobody can come
\* back to the wizard to repair it.  Holds for overlapping runs too.
LockedIsServed ==
  sentinel => cert.issued /\ npm.cert = "pem" /\ HostSet \subseteq npm.hosts

\* When the wizard locks itself, Authelia knows the administrator it was given and
\* can start: the account is in users_database.yml, although that file is
\* truncated and written in two steps, the service may die between them, and the
\* form may be sent again under another name after the account was written; and
\* its configuration holds no placeholder, which would keep it restarting.  That
\* the password is the one given is not part of it.  For one run at a time.
LocksWithAdmin ==
  [][~sentinel /\ sentinel' =>
       \E r \in Runs : /\ pc[r] = "sentinel"
                       /\ users[mine[r].name] # None
                       /\ \A c \in ClientSet : oidc.conf[c] # Placeholder]_vars

\* A hash Authelia is given belongs to the plaintext the client is given,
\* although both are written one after the other and retried after failures.  For
\* one run at a time: of two, each writes a rotation of its own.
SecretsPaired ==
  \A c \in ClientSet :
    /\ oidc.env[c] # Placeholder => oidc.env[c] = oidc.plain[c]
    /\ oidc.conf[c] # Placeholder => oidc.conf[c] = oidc.plain[c]

\* A run tells the browser that set-up is complete only if the wizard is
\* locked then.
DoneMeansLocked ==
  [][\A r \in Runs : pc[r] # "done" /\ pc'[r] = "done" => sentinel']_vars

\* Bootstrap was cut off after the new email and before the new password:
\* neither the installed administrator nor the new one can log in.
HalfBootstrapped == npm.email # Boot /\ npm.pw = Boot

\* However often calls fail and the service dies, a finalize that is started
\* again gets to the end, unless the operator changes the account after a run
\* has begun to use it, or the proxy manager is left half bootstrapped.
Completes == <>(sentinel \/ changed) \/ <>[]HalfBootstrapped
=============================================================================
