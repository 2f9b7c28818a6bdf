------------------------ MODULE SetupWizard_proofs ------------------------
(***************************************************************************)
(* Proofs about SetupWizard, for any number of overlapping runs of         *)
(* finalize, any lists of clients and hosts, and any faults and crashes.   *)
(***************************************************************************)
EXTENDS SetupWizard, TLAPS

\* The form gives the name and the email of the account together.
Whole(s) == s.name \in Names => s.email \in Emails

Numbered == {"idle", "done", "failed", "npm", "npm_email", "npm_auth",
             "npm_cert", "npm_upload"}

\* What a run at position p knows of its copy s and its locals l.
AtWork(p, s, l) ==
  /\ Whole(s)
  /\ p \in Numbered => l.i = 1
  /\ p = "npm_hosts" => l.i \in DOMAIN Hosts
  /\ p \in {"npm_email", "npm_auth"} => s.email \in Emails /\ l.pw \in Passwords

RunsOK ==
  /\ pc \in [Runs -> Positions]
  /\ mine \in [Runs -> StateType]
  /\ loc \in [Runs -> LocalsType]
  /\ \A r \in Runs : AtWork(pc[r], mine[r], loc[r])

LeftType == [faults : Nat, crashes : Nat, posts : Nat, reruns : Nat]

StateOK == st \in StateType /\ Whole(st) /\ left \in LeftType

StoresOK ==
  /\ sentinel \in BOOLEAN
  /\ cache \in [mem : Accounts, file : Accounts]
  /\ users \in Accounts
  /\ oidc \in [plain : Rotation, env : Rotation, conf : Rotation]
  /\ cert \in [issued : BOOLEAN, ini : SUBSET Providers]
  /\ npm \in [email : Emails \cup {Boot}, pw : Passwords \cup {Boot},
              cert : {None, "row", "pem"}, hosts : SUBSET HostSet]

FormOK == form \in FormType /\ Whole(form.st) /\ changed \in BOOLEAN

TypeInv == RunsOK /\ StateOK /\ StoresOK /\ FormOK

LEMMA TypeInvTypes == TypeInv => TypeOK
BY DEF TypeInv, RunsOK, StateOK, StoresOK, FormOK, TypeOK, LeftType

-----------------------------------------------------------------------------
(* Constants *)

LEMMA NamesFacts ==
  /\ None \notin Names /\ None \notin Passwords /\ None \notin Emails
  /\ Boot \notin Emails /\ Boot \notin Passwords
  /\ \A f \in Forms : f.name \in Names /\ f.email \in Emails /\ f.pw \in Passwords
BY FormsAssumption DEF Names, Emails, Passwords

LEMMA FreshType ==
  Fresh \in StateType /\ Whole(Fresh) /\ NoForm \in FormType /\ NoForm.st = Fresh
BY NamesFacts DEF Fresh, StateType, Whole, NoForm, FormType

LEMMA NoLocalsType == NoLocals \in LocalsType /\ NoLocals.i = 1
<1>1. [n \in Names |-> None] \in Accounts
  BY DEF Accounts
<1>2. [c \in ClientSet |-> Placeholder] \in Rotation
  BY DEF Rotation, Secret
<1>3. QED
  BY <1>1, <1>2 DEF NoLocals, LocalsType, Secret

LEMMA HostFacts ==
  /\ Len(Hosts) \in Nat \ {0} /\ DOMAIN Hosts = 1..Len(Hosts)
  /\ 1 \in DOMAIN Hosts
  /\ \A i \in DOMAIN Hosts : Hosts[i] \in HostSet
<1>1. Hosts \in Seq(STRING) /\ Hosts # << >>
  BY ListsAssumption
<1>2. Len(Hosts) \in Nat /\ DOMAIN Hosts = 1..Len(Hosts)
  BY <1>1
<1>3. Len(Hosts) # 0
  BY <1>1
<1>4. QED
  BY <1>2, <1>3 DEF HostSet

LEMMA TodoFacts ==
  ASSUME NEW s \in StateType
  PROVE  /\ Todo(s) \in Steps \cup {"verify"}
         /\ Todo(s) = "verify" => Steps \subseteq s.done
         /\ Todo(s) \in Positions
         /\ Todo(s) \notin {"npm_hosts", "npm_email", "npm_auth"}
BY DEF Todo, Steps, Positions

-----------------------------------------------------------------------------
(* What the building blocks do to the runs *)

\* A run moves to p with copy s and locals l.
LEMMA Moves ==
  ASSUME RunsOK, NEW r \in Runs, NEW p \in Positions, NEW s \in StateType,
         NEW l \in LocalsType, AtWork(p, s, l),
         pc' = [pc EXCEPT ![r] = p], mine' = [mine EXCEPT ![r] = s],
         loc' = [loc EXCEPT ![r] = l]
  PROVE  RunsOK'
<1>1. /\ pc' \in [Runs -> Positions]
      /\ mine' \in [Runs -> StateType]
      /\ loc' \in [Runs -> LocalsType]
  BY DEF RunsOK
<1>2. ASSUME NEW q \in Runs PROVE AtWork(pc'[q], mine'[q], loc'[q])
  BY DEF RunsOK
<1>3. QED
  BY <1>1, <1>2 DEF RunsOK, AtWork, Whole

LEMMA ReturnMoves ==
  ASSUME RunsOK, NEW r \in Runs, NEW how \in {"done", "failed"}, Return(r, how)
  PROVE  RunsOK'
<1>1. how \in Positions
  BY DEF Positions
<1>2. AtWork(how, Fresh, NoLocals)
  BY FreshType, NoLocalsType DEF AtWork
<1>3. QED
  BY <1>1, <1>2, Moves, FreshType, NoLocalsType DEF Return, GoTo

LEMMA KeepMoves ==
  ASSUME RunsOK, NEW r \in Runs, NEW p \in Positions, Keep(r, p),
         AtWork(p, mine[r], loc[r])
  PROVE  RunsOK'
<1> DEFINE s == mine[r]
           l == loc[r]
<1>1. s \in StateType /\ l \in LocalsType /\ AtWork(p, s, l)
  BY DEF RunsOK
<1>2. mine' = [mine EXCEPT ![r] = s] /\ loc' = [loc EXCEPT ![r] = l]
  BY DEF RunsOK, Keep
<1>3. pc' = [pc EXCEPT ![r] = p]
  BY DEF Keep, GoTo
<1> HIDE DEF s, l
<1>4. QED
  BY <1>1, <1>2, <1>3, Moves

LEMMA SaveType ==
  ASSUME StateOK, NEW s \in StateType, Whole(s), Save(s)
  PROVE  StateOK'
BY DEF StateOK, Save, NoFault, MayFail, LeftType, Whole

LEMMA FlagMoves ==
  ASSUME RunsOK, StateOK, NEW r \in Runs, NEW step \in Steps, Flag(r, step)
  PROVE  RunsOK' /\ StateOK'
<1> DEFINE s == [mine[r] EXCEPT !.done = @ \cup {step}]
<1>1. s \in StateType /\ Whole(s)
  BY DEF RunsOK, AtWork, StateType, Whole, Steps
<1>2. AtWork(Todo(s), s, NoLocals)
  BY <1>1, TodoFacts, NoLocalsType DEF AtWork
<1>3. Todo(s) \in Positions
  BY <1>1, TodoFacts
<1>4. /\ mine' = [mine EXCEPT ![r] = s] /\ loc' = [loc EXCEPT ![r] = NoLocals]
      /\ Save(s) /\ pc' = [pc EXCEPT ![r] = Todo(s)]
  BY DEF Flag, GoTo
<1> HIDE DEF s
<1>5. RunsOK'
  BY <1>1, <1>2, <1>3, <1>4, Moves, NoLocalsType
<1>6. QED
  BY <1>1, <1>4, <1>5, SaveType

LEMMA FaultType ==
  ASSUME StateOK, UNCHANGED st, NEW call, NoFault \/ MayFail(call)
  PROVE  StateOK'
BY DEF StateOK, NoFault, MayFail, LeftType, Whole

LEMMA SameForm ==
  ASSUME FormOK, UNCHANGED operatorVars
  PROVE  FormOK'
BY DEF FormOK, operatorVars, Whole

LEMMA SameStores ==
  ASSUME StoresOK, UNCHANGED <<sentinel, cache, users, oidc, cert, npm>>
  PROVE  StoresOK'
BY DEF StoresOK

LEMMA SameRuns ==
  ASSUME RunsOK, UNCHANGED <<pc, mine, loc>>
  PROVE  RunsOK'
BY DEF RunsOK, AtWork, Whole

\* A run that is at p, and may go on to q with what it has.
LEMMA KeepWorks ==
  ASSUME RunsOK, NEW r \in Runs, NEW p \in Positions, Keep(r, p),
         \/ p \notin Numbered \cup {"npm_hosts"}
         \/ pc[r] \in Numbered /\ p \notin {"npm_email", "npm_auth"}
         \/ pc[r] \in {"npm_email", "npm_auth"} /\ p \in Numbered
  PROVE  RunsOK'
<1>1. AtWork(pc[r], mine[r], loc[r])
  BY DEF RunsOK
<1>2. AtWork(p, mine[r], loc[r])
  BY <1>1, HostFacts DEF AtWork, Numbered
<1>3. QED
  BY <1>2, KeepMoves

LEMMA PasswordType ==
  ASSUME StoresOK, NEW n
  PROVE  /\ Password(n) \in Passwords \cup {None}
         /\ Password(n) # None => n \in Names /\ Password(n) \in Passwords
BY NamesFacts DEF StoresOK, Accounts, Password

-----------------------------------------------------------------------------
(* Types: the forms *)

LEMMA PostType ==
  ASSUME TypeInv, NEW kind, NEW arg, Post(kind, arg),
         \/ kind = "page" /\ arg = None
         \/ kind = "dns" /\ arg \in Providers
         \/ kind = "admin" /\ arg \in Forms,
         NoFault \/ Spend
  PROVE  TypeInv'
<1>1. RunsOK' /\ StoresOK'
  BY SameRuns, SameStores DEF TypeInv, Post
<1>2. StateOK'
  BY DEF TypeInv, StateOK, Post, NoFault, Spend, LeftType, Whole
<1>3. form' \in FormType /\ form'.st = st
  BY DEF TypeInv, StateOK, Post, FormType
<1>4. FormOK'
  BY <1>3 DEF TypeInv, StateOK, FormOK, Post, Whole
<1>5. QED
  BY <1>1, <1>2, <1>4 DEF TypeInv

LEMMA FormKinds ==
  ASSUME FormOK
  PROVE  /\ form.kind = "page" => form.st \in StateType
         /\ form.kind = "dns" => form.st \in StateType /\ form.arg \in Providers
         /\ form.kind \in {"admin", "secret"} =>
              form.st \in StateType /\ form.arg \in Forms
BY DEF FormOK, FormType, NoForm, None

LEMMA FilledType ==
  ASSUME FormOK, form.kind \in {"page", "dns", "admin"}
  PROVE  Filled \in StateType /\ Whole(Filled)
<1>1. CASE form.kind = "page"
  BY <1>1, FormKinds DEF Filled, FormOK
<1>2. CASE form.kind = "dns"
  <2>1. Filled = [form.st EXCEPT !.provider = form.arg, !.creds = TRUE]
    BY <1>2 DEF Filled
  <2>2. QED
    BY <1>2, <2>1, FormKinds DEF StateType, FormOK, Whole
<1>3. CASE form.kind = "admin"
  <2>1. Filled = [form.st EXCEPT !.name = form.arg.name, !.email = form.arg.email,
                                 !.hash = form.arg.pw]
    BY <1>3 DEF Filled
  <2>2. QED
    BY <1>3, <2>1, FormKinds, NamesFacts DEF StateType, Whole
<1>4. QED
  BY <1>1, <1>2, <1>3

LEMMA SaveFormType ==
  ASSUME TypeInv, SaveForm
  PROVE  TypeInv'
<1>1. RunsOK' /\ StoresOK'
  BY SameRuns, SameStores DEF TypeInv, SaveForm
<1>2. Filled \in StateType /\ Whole(Filled)
  BY FilledType DEF TypeInv, SaveForm
<1>3. StateOK'
  <2>1. CASE st' = Filled /\ NoFault
    BY <2>1, <1>2 DEF TypeInv, StateOK, NoFault, Whole
  <2>2. CASE st' = st /\ MayFail("state_save")
    BY <2>2, FaultType DEF TypeInv
  <2>3. QED
    BY <2>1, <2>2 DEF SaveForm
<1>4. FormOK'
  <2>1. \/ form' = NoForm
        \/ form' = [form EXCEPT !.kind = "secret"] /\ form.kind = "admin"
    BY DEF SaveForm
  <2>2. changed' \in BOOLEAN
    BY DEF SaveForm, TypeInv, FormOK
  <2>3. CASE form' = NoForm
    BY <2>2, <2>3, FreshType DEF FormOK, Whole
  <2>4. CASE form' = [form EXCEPT !.kind = "secret"] /\ form.kind = "admin"
    <3>1. form \in [kind : {"admin", "secret"}, st : StateType, arg : Forms]
      BY <2>4 DEF TypeInv, FormOK, FormType, NoForm, None
    <3>2. form' \in [kind : {"admin", "secret"}, st : StateType, arg : Forms]
          /\ form'.st = form.st
      BY <2>4, <3>1
    <3>3. QED
      BY <2>2, <3>2 DEF TypeInv, FormOK, FormType, Whole
  <2>5. QED
    BY <2>1, <2>3, <2>4
<1>5. QED
  BY <1>1, <1>3, <1>4 DEF TypeInv

LEMMA CacheSecretType ==
  ASSUME TypeInv, CacheSecret
  PROVE  TypeInv'
<1>1. RunsOK'
  BY SameRuns DEF TypeInv, CacheSecret
<1>2. StateOK'
  BY FaultType DEF TypeInv, CacheSecret
<1>3. form.arg.pw \in Passwords
  BY FormKinds, NamesFacts DEF TypeInv, CacheSecret
<1>4. cache' \in [mem : Accounts, file : Accounts]
  BY <1>3 DEF TypeInv, StoresOK, CacheSecret, Accounts
<1>5. StoresOK'
  BY <1>4 DEF TypeInv, StoresOK, CacheSecret
<1>6. FormOK'
  BY FreshType DEF TypeInv, FormOK, CacheSecret, Whole
<1>7. QED
  BY <1>1, <1>2, <1>5, <1>6 DEF TypeInv

-----------------------------------------------------------------------------
(* Types: the steps of finalize *)

LEMMA StartType ==
  ASSUME TypeInv, NEW r \in Runs, Start(r)
  PROVE  TypeInv'
<1> DEFINE s == st
           l == loc[r]
           p == Todo(st)
<1>1. s \in StateType /\ Whole(s) /\ l \in LocalsType /\ l.i = 1
  BY DEF TypeInv, StateOK, RunsOK, AtWork, Start, Settled, Numbered
<1>2. p \in Positions /\ AtWork(p, s, l)
  BY <1>1, TodoFacts DEF AtWork
<1>3. /\ mine' = [mine EXCEPT ![r] = s] /\ pc' = [pc EXCEPT ![r] = p]
      /\ loc' = [loc EXCEPT ![r] = l]
  BY DEF Start, GoTo, TypeInv, RunsOK
<1> HIDE DEF s, l, p
<1>4. RunsOK'
  BY <1>1, <1>2, <1>3, Moves DEF TypeInv
<1>5. StateOK' /\ StoresOK' /\ FormOK'
  BY SameStores, SameForm DEF Start, TypeInv, StateOK, Whole
<1>6. QED
  BY <1>4, <1>5 DEF TypeInv

LEMMA WriteAdminType ==
  ASSUME TypeInv, NEW r \in Runs, WriteAdmin(r)
  PROVE  TypeInv'
<1>1. CASE WriteAdminLoad(r)
  <2>1. StateOK' /\ StoresOK' /\ FormOK'
    BY <1>1, SameStores, SameForm DEF WriteAdminLoad, TypeInv, StateOK, Whole
  <2>2. CASE Return(r, "failed")
    BY <2>1, <2>2, ReturnMoves DEF TypeInv
  <2>3. CASE ~Return(r, "failed")
    <3> DEFINE s == mine[r]
               l == [loc[r] EXCEPT !.users = [users EXCEPT ![s.name] = s.hash]]
    <3>1. s \in StateType /\ loc[r] \in LocalsType /\ s.hash \in Passwords \cup {None}
      BY DEF TypeInv, RunsOK, StateType
    <3>2. [users EXCEPT ![s.name] = s.hash] \in Accounts
      BY <3>1 DEF TypeInv, StoresOK, Accounts
    <3>3. l \in LocalsType
      BY <3>1, <3>2 DEF LocalsType
    <3>4. "users_trunc" \in Positions /\ AtWork("users_trunc", s, l)
      BY DEF TypeInv, RunsOK, AtWork, Positions, Numbered
    <3>5. /\ mine' = [mine EXCEPT ![r] = s]
          /\ pc' = [pc EXCEPT ![r] = "users_trunc"]
          /\ loc' = [loc EXCEPT ![r] = l]
      BY <1>1, <2>3 DEF WriteAdminLoad, GoTo, TypeInv, RunsOK
    <3> HIDE DEF s, l
    <3>6. RunsOK'
      BY <3>1, <3>3, <3>4, <3>5, Moves DEF TypeInv
    <3>7. QED
      BY <2>1, <3>6 DEF TypeInv
  <2>4. QED
    BY <2>2, <2>3
<1>2. CASE WriteAdminTruncate(r)
  <2>1. [n \in Names |-> None] \in Accounts
    BY DEF Accounts
  <2>2. StateOK' /\ StoresOK' /\ FormOK'
    BY <1>2, <2>1, FaultType, SameForm DEF WriteAdminTruncate, TypeInv, StoresOK
  <2>3. RunsOK'
    BY <1>2, KeepWorks, ReturnMoves DEF WriteAdminTruncate, TypeInv, Positions, Numbered
  <2>4. QED
    BY <2>2, <2>3 DEF TypeInv
<1>3. CASE WriteAdminWrite(r)
  <2>1. loc[r].users \in Accounts
    BY DEF TypeInv, RunsOK, LocalsType
  <2>2. StateOK' /\ StoresOK' /\ FormOK'
    BY <1>3, <2>1, FaultType, SameForm DEF WriteAdminWrite, TypeInv, StoresOK
  <2>3. RunsOK'
    BY <1>3, KeepWorks, ReturnMoves DEF WriteAdminWrite, TypeInv, Positions, Numbered
  <2>4. QED
    BY <2>2, <2>3 DEF TypeInv
<1>4. CASE FlagUsers(r)
  <2>1. StoresOK' /\ FormOK'
    BY <1>4, SameStores, SameForm DEF FlagUsers, TypeInv
  <2>2. RunsOK' /\ StateOK'
    <3>1. CASE Flag(r, "users_db")
      BY <3>1, FlagMoves DEF TypeInv, Steps
    <3>2. CASE Return(r, "failed") /\ UNCHANGED <<st, left>>
      BY <3>2, ReturnMoves DEF TypeInv, StateOK, Whole
    <3>3. QED
      BY <1>4, <3>1, <3>2 DEF FlagUsers
  <2>3. QED
    BY <2>1, <2>2 DEF TypeInv
<1>5. QED
  BY <1>1, <1>2, <1>3, <1>4 DEF WriteAdmin

LEMMA NextClientMoves ==
  ASSUME RunsOK, StateOK, NEW r \in Runs, NextClient(r)
  PROVE  RunsOK' /\ StateOK'
<1>1. CASE Flag(r, "oidc")
  BY <1>1, FlagMoves DEF Steps
<1>2. CASE ~Flag(r, "oidc")
  <2> DEFINE s == mine[r]
             l == [NoLocals EXCEPT !.i = loc[r].i + 1]
  <2>1. s \in StateType /\ loc[r].i + 1 \in Nat \ {0}
    BY DEF RunsOK, LocalsType
  <2>2. l \in LocalsType
    BY <2>1, NoLocalsType DEF LocalsType
  <2>3. "oidc" \in Positions /\ AtWork("oidc", s, l)
    BY DEF RunsOK, AtWork, Positions, Steps, Numbered
  <2>4. /\ mine' = [mine EXCEPT ![r] = s] /\ pc' = [pc EXCEPT ![r] = "oidc"]
        /\ loc' = [loc EXCEPT ![r] = l]
    BY <1>2 DEF NextClient, GoTo, RunsOK
  <2> HIDE DEF s, l
  <2>5. RunsOK'
    BY <2>1, <2>2, <2>3, <2>4, Moves
  <2>6. StateOK'
    BY <1>2 DEF NextClient, StateOK, Whole
  <2>7. QED
    BY <2>5, <2>6
<1>3. QED
  BY <1>1, <1>2

LEMMA RotateSecretsType ==
  ASSUME TypeInv, NEW r \in Runs, RotateSecrets(r)
  PROVE  TypeInv'
<1>1. CASE RotateRead(r)
  <2>1. StoresOK' /\ FormOK'
    BY <1>1, SameStores, SameForm DEF RotateRead, TypeInv
  <2>2. CASE NextClient(r)
    BY <2>1, <2>2, NextClientMoves DEF TypeInv
  <2>3. CASE ~NextClient(r)
    <3> DEFINE s == mine[r]
               l == [loc[r] EXCEPT !.env = oidc.env]
    <3>1. s \in StateType /\ loc[r] \in LocalsType /\ oidc.env \in Rotation
      BY DEF TypeInv, RunsOK, StoresOK
    <3>2. l \in LocalsType
      BY <3>1 DEF LocalsType
    <3>3. "oidc_plain" \in Positions /\ AtWork("oidc_plain", s, l)
      BY DEF TypeInv, RunsOK, AtWork, Positions, Numbered
    <3>4. /\ mine' = [mine EXCEPT ![r] = s]
          /\ pc' = [pc EXCEPT ![r] = "oidc_plain"]
          /\ loc' = [loc EXCEPT ![r] = l]
      BY <1>1, <2>3 DEF RotateRead, GoTo, TypeInv, RunsOK
    <3> HIDE DEF s, l
    <3>5. RunsOK'
      BY <3>1, <3>2, <3>3, <3>4, Moves DEF TypeInv
    <3>6. StateOK'
      BY <1>1, <2>3 DEF RotateRead, TypeInv, StateOK, Whole
    <3>7. QED
      BY <2>1, <3>5, <3>6 DEF TypeInv
  <2>4. QED
    BY <2>2, <2>3
<1>2. CASE RotatePlain(r)
  <2> DEFINE c == Clients[loc[r].i]
  <2>1. FormOK' /\ StateOK'
    BY <1>2, SameForm, FaultType DEF RotatePlain, TypeInv
  <2>2. CASE Return(r, "failed") /\ UNCHANGED oidc
    <3>1. StoresOK'
      BY <1>2, <2>2, SameStores DEF RotatePlain, TypeInv
    <3>2. QED
      BY <2>1, <2>2, <3>1, ReturnMoves DEF TypeInv
  <2>3. CASE /\ \E secret \in Unused(c) :
                  /\ oidc' = [oidc EXCEPT !.plain[c] = secret]
                  /\ loc' = [loc EXCEPT ![r].secret = secret]
             /\ GoTo(r, "oidc_env")
             /\ UNCHANGED mine
    <3>1. PICK secret \in Secret :
                  /\ oidc' = [oidc EXCEPT !.plain[c] = secret]
                  /\ loc' = [loc EXCEPT ![r].secret = secret]
      BY <2>3 DEF Unused, Secret
    <3> DEFINE s == mine[r]
               l == [loc[r] EXCEPT !.secret = secret]
    <3>2. s \in StateType /\ loc[r] \in LocalsType
      BY DEF TypeInv, RunsOK
    <3>3. l \in LocalsType
      BY <3>1, <3>2 DEF LocalsType
    <3>4. "oidc_env" \in Positions /\ AtWork("oidc_env", s, l)
      BY DEF TypeInv, RunsOK, AtWork, Positions, Numbered
    <3>5. /\ mine' = [mine EXCEPT ![r] = s]
          /\ pc' = [pc EXCEPT ![r] = "oidc_env"]
          /\ loc' = [loc EXCEPT ![r] = l]
      BY <2>3, <3>1 DEF GoTo, TypeInv, RunsOK
    <3> HIDE DEF s, l
    <3>6. RunsOK'
      BY <3>2, <3>3, <3>4, <3>5, Moves DEF TypeInv
    <3>7. oidc' \in [plain : Rotation, env : Rotation, conf : Rotation]
      BY <3>1 DEF TypeInv, StoresOK, Rotation
    <3>8. StoresOK'
      BY <1>2, <3>7 DEF RotatePlain, TypeInv, StoresOK
    <3>9. QED
      BY <2>1, <3>6, <3>8 DEF TypeInv
  <2>4. QED
    BY <1>2, <2>2, <2>3 DEF RotatePlain
<1>3. CASE RotateEnv(r)
  <2> DEFINE c == Clients[loc[r].i]
  <2>1. FormOK'
    BY <1>3, SameForm DEF RotateEnv, TypeInv
  <2>2. CASE Return(r, "failed") /\ UNCHANGED <<oidc, st>> /\ MayFail("oidc")
    <3>1. StoresOK'
      BY <1>3, <2>2, SameStores DEF RotateEnv, TypeInv
    <3>2. QED
      BY <2>1, <2>2, <3>1, FaultType, ReturnMoves DEF TypeInv
  <2>3. CASE /\ oidc' = [oidc EXCEPT !.env = [loc[r].env EXCEPT ![c] = loc[r].secret]]
             /\ NextClient(r)
    <3>1. loc[r].env \in Rotation /\ loc[r].secret \in Secret
      BY DEF TypeInv, RunsOK, LocalsType
    <3>2. oidc' \in [plain : Rotation, env : Rotation, conf : Rotation]
      BY <2>3, <3>1 DEF TypeInv, StoresOK, Rotation
    <3>3. StoresOK'
      BY <1>3, <3>2 DEF RotateEnv, TypeInv, StoresOK
    <3>4. QED
      BY <2>1, <2>3, <3>3, NextClientMoves DEF TypeInv
  <2>4. QED
    BY <1>3, <2>2, <2>3 DEF RotateEnv
<1>4. QED
  BY <1>1, <1>2, <1>3 DEF RotateSecrets

LEMMA TemplatesType ==
  ASSUME TypeInv, NEW r \in Runs, Templates(r)
  PROVE  TypeInv'
<1>1. CASE RenderTemplates(r)
  <2>1. oidc' = oidc \/ oidc' = [oidc EXCEPT !.conf = oidc.env]
    BY <1>1 DEF RenderTemplates
  <2>2. oidc' \in [plain : Rotation, env : Rotation, conf : Rotation]
    BY <2>1 DEF TypeInv, StoresOK
  <2>3. StateOK' /\ StoresOK' /\ FormOK'
    BY <1>1, <2>2, FaultType, SameForm DEF RenderTemplates, TypeInv, StoresOK
  <2>4. RunsOK'
    BY <1>1, KeepWorks, ReturnMoves DEF RenderTemplates, TypeInv, Positions, Numbered
  <2>5. QED
    BY <2>3, <2>4 DEF TypeInv
<1>2. CASE FlagTemplates(r)
  <2>1. StoresOK' /\ FormOK'
    BY <1>2, SameStores, SameForm DEF FlagTemplates, TypeInv
  <2>2. RunsOK' /\ StateOK'
    <3>1. CASE Flag(r, "templates")
      BY <3>1, FlagMoves DEF TypeInv, Steps
    <3>2. CASE Return(r, "failed") /\ UNCHANGED <<st, left>>
      BY <3>2, ReturnMoves DEF TypeInv, StateOK, Whole
    <3>3. QED
      BY <1>2, <3>1, <3>2 DEF FlagTemplates
  <2>3. QED
    BY <2>1, <2>2 DEF TypeInv
<1>3. QED
  BY <1>1, <1>2 DEF Templates

LEMMA IssueCertType ==
  ASSUME TypeInv, NEW r \in Runs, IssueCert(r)
  PROVE  TypeInv'
<1>1. mine[r].provider \in Providers \cup {None}
  BY DEF TypeInv, RunsOK, StateType
<1>2. CASE WriteCreds(r)
  <2>1. cert' \in [issued : BOOLEAN, ini : SUBSET Providers]
    BY <1>1, <1>2 DEF WriteCreds, TypeInv, StoresOK
  <2>2. StateOK' /\ StoresOK' /\ FormOK'
    BY <1>2, <2>1, FaultType, SameForm DEF WriteCreds, TypeInv, StoresOK
  <2>3. RunsOK'
    BY <1>2, KeepWorks, ReturnMoves DEF WriteCreds, TypeInv, Positions, Numbered
  <2>4. QED
    BY <2>2, <2>3 DEF TypeInv
<1>3. CASE Certbot(r)
  <2> DEFINE ini == cert.ini \ {mine[r].provider}
             CertType == [issued : BOOLEAN, ini : SUBSET Providers]
  <2>1. cert \in CertType /\ cert.issued \in BOOLEAN /\ ini \in SUBSET Providers
    BY DEF TypeInv, StoresOK
  <2>2. \/ \E b \in {cert.issued, TRUE} : cert' = [issued |-> b, ini |-> ini]
        \/ cert' = [cert EXCEPT !.ini = ini]
    BY <1>3 DEF Certbot
  <2> HIDE DEF ini
  <2>3. ASSUME NEW b \in BOOLEAN, cert' = [issued |-> b, ini |-> ini]
        PROVE  cert' \in CertType
    BY <2>1, <2>3, Zenon
  <2>4. ASSUME cert' = [cert EXCEPT !.ini = ini]
        PROVE  cert' \in CertType
    BY <2>1, <2>4
  <2>5. cert' \in CertType
    BY <2>1, <2>2, <2>3, <2>4
  <2>6. StateOK' /\ StoresOK' /\ FormOK'
    BY <1>3, <2>5, FaultType, SameForm DEF Certbot, TypeInv, StoresOK
  <2>7. RunsOK'
    BY <1>3, KeepWorks, ReturnMoves DEF Certbot, TypeInv, Positions, Numbered
  <2>8. QED
    BY <2>6, <2>7 DEF TypeInv
<1>4. CASE FlagCert(r)
  <2>1. StoresOK' /\ FormOK'
    BY <1>4, SameStores, SameForm DEF FlagCert, TypeInv
  <2>2. RunsOK' /\ StateOK'
    <3>1. CASE Flag(r, "cert")
      BY <3>1, FlagMoves DEF TypeInv, Steps
    <3>2. CASE Return(r, "failed") /\ UNCHANGED <<st, left>>
      BY <3>2, ReturnMoves DEF TypeInv, StateOK, Whole
    <3>3. QED
      BY <1>4, <3>1, <3>2 DEF FlagCert
  <2>3. QED
    BY <2>1, <2>2 DEF TypeInv
<1>5. QED
  BY <1>2, <1>3, <1>4 DEF IssueCert

NpmType == [email : Emails \cup {Boot}, pw : Passwords \cup {Boot},
            cert : {None, "row", "pem"}, hosts : SUBSET HostSet]

\* A request to the proxy manager keeps the types if what it asks for does.
LEMMA RequestType ==
  ASSUME TypeInv, NEW r \in Runs, NEW call, NEW n \in NpmType, NEW next \in Positions,
         Request(r, call, n, next),
         \/ next \notin Numbered \cup {"npm_hosts"}
         \/ pc[r] \in Numbered /\ next \notin {"npm_email", "npm_auth"}
         \/ pc[r] = "npm_email" /\ next = "npm_auth"
  PROVE  TypeInv'
<1>1. npm' \in NpmType
  BY DEF Request, TypeInv, StoresOK, NpmType
<1>2. StateOK' /\ StoresOK' /\ FormOK'
  BY <1>1, FaultType, SameForm DEF Request, TypeInv, StoresOK, NpmType
<1>3. ASSUME Keep(r, next) PROVE RunsOK'
  <2>1. AtWork(pc[r], mine[r], loc[r])
    BY DEF TypeInv, RunsOK
  <2>2. AtWork(next, mine[r], loc[r])
    BY <2>1, HostFacts DEF AtWork, Numbered
  <2>3. QED
    BY <1>3, <2>2, KeepMoves DEF TypeInv
<1>4. RunsOK'
  BY <1>3, ReturnMoves DEF Request, TypeInv
<1>5. QED
  BY <1>2, <1>4 DEF TypeInv

LEMMA FailedType ==
  ASSUME TypeInv, NEW r \in Runs, Return(r, "failed"),
         UNCHANGED <<st, sentinel, cache, users, oidc, cert, npm, left, operatorVars>>
  PROVE  TypeInv'
BY ReturnMoves, SameStores, SameForm DEF TypeInv, StateOK, Whole

LEMMA BootstrapType ==
  ASSUME TypeInv, NEW r \in Runs, Bootstrap(r)
  PROVE  TypeInv'
<1>1. StateOK' /\ StoresOK' /\ FormOK'
  BY FaultType, SameStores, SameForm DEF Bootstrap, TypeInv
<1>2. CASE Return(r, "failed")
  BY <1>1, <1>2, ReturnMoves DEF TypeInv
<1>3. CASE ~Return(r, "failed")
  <2> DEFINE s == mine[r]
             l == [loc[r] EXCEPT !.pw = Password(mine[r].name)]
  <2>1. s \in StateType /\ loc[r] \in LocalsType /\ Whole(s) /\ loc[r].i = 1
    BY DEF TypeInv, RunsOK, AtWork, Numbered, Bootstrap
  <2>2. Password(s.name) # None
    BY <1>3 DEF Bootstrap
  <2>3. Password(s.name) \in Passwords /\ s.name \in Names
    BY <2>2, PasswordType DEF TypeInv
  <2>4. l \in LocalsType /\ l.i = 1 /\ l.pw \in Passwords
    BY <2>1, <2>3 DEF LocalsType
  <2>5. PICK p \in {"npm_cert", "npm_email"} : GoTo(r, p)
    BY <1>3 DEF Bootstrap
  <2>6. p \in Positions /\ AtWork(p, s, l)
    BY <2>1, <2>3, <2>4 DEF AtWork, Positions, Numbered, Whole
  <2>7. /\ mine' = [mine EXCEPT ![r] = s]
        /\ pc' = [pc EXCEPT ![r] = p]
        /\ loc' = [loc EXCEPT ![r] = l]
    BY <1>3, <2>5 DEF Bootstrap, GoTo, TypeInv, RunsOK
  <2> HIDE DEF s, l
  <2>8. RunsOK'
    BY <2>1, <2>4, <2>6, <2>7, Moves DEF TypeInv
  <2>9. QED
    BY <1>1, <2>8 DEF TypeInv
<1>4. QED
  BY <1>2, <1>3

LEMMA UpsertProxyHostType ==
  ASSUME TypeInv, NEW r \in Runs, UpsertProxyHost(r)
  PROVE  TypeInv'
<1> DEFINE i == loc[r].i
<1>1. i \in DOMAIN Hosts /\ Hosts[i] \in HostSet
  BY HostFacts DEF TypeInv, RunsOK, AtWork, UpsertProxyHost
<1>2. npm' \in NpmType
  BY <1>1 DEF UpsertProxyHost, TypeInv, StoresOK, NpmType
<1>3. StateOK' /\ StoresOK' /\ FormOK'
  BY <1>2, FaultType, SameForm DEF UpsertProxyHost, TypeInv, StoresOK, NpmType
<1>4. RunsOK'
  <2>1. CASE Return(r, "failed")
    BY <2>1, ReturnMoves DEF TypeInv
  <2>2. CASE i = Len(Hosts) /\ Keep(r, "npm_flag")
    BY <2>2, KeepWorks DEF TypeInv, Positions, Numbered
  <2>3. CASE i # Len(Hosts) /\ UNCHANGED <<pc, mine>> /\ loc' = [loc EXCEPT ![r].i = i + 1]
    <3> DEFINE s == mine[r]
               p == pc[r]
               l == [loc[r] EXCEPT !.i = i + 1]
    <3>1. s \in StateType /\ loc[r] \in LocalsType /\ p = "npm_hosts" /\ p \in Positions
          /\ Whole(s)
      BY DEF TypeInv, RunsOK, AtWork, UpsertProxyHost
    <3>2. i + 1 \in DOMAIN Hosts
      BY <1>1, <2>3, HostFacts
    <3>3. l \in LocalsType /\ l.i \in DOMAIN Hosts
      BY <3>1, <3>2, HostFacts DEF LocalsType
    <3>4. AtWork(p, s, l)
      BY <3>1, <3>3 DEF AtWork, Numbered
    <3>5. /\ mine' = [mine EXCEPT ![r] = s]
          /\ pc' = [pc EXCEPT ![r] = p]
          /\ loc' = [loc EXCEPT ![r] = l]
      BY <2>3 DEF TypeInv, RunsOK
    <3> HIDE DEF s, l, p
    <3>6. QED
      BY <3>1, <3>3, <3>4, <3>5, Moves DEF TypeInv
  <2>4. QED
    BY <2>1, <2>2, <2>3 DEF UpsertProxyHost, Keep
<1>5. QED
  BY <1>3, <1>4 DEF TypeInv

LEMMA WireNPMType ==
  ASSUME TypeInv, NEW r \in Runs, WireNPM(r)
  PROVE  TypeInv'
<1>1. npm \in NpmType
  BY DEF TypeInv, StoresOK, NpmType
<1>2. CASE PutEmail(r)
  <2> DEFINE n == [npm EXCEPT !.email = mine[r].email]
  <2>1. n \in NpmType
    BY <1>1, <1>2 DEF PutEmail, TypeInv, RunsOK, AtWork, NpmType
  <2>2. Request(r, "npm_bootstrap", n, "npm_auth") /\ pc[r] = "npm_email"
    BY <1>2 DEF PutEmail
  <2> HIDE DEF n
  <2>3. QED
    BY <2>1, <2>2, RequestType DEF Positions
<1>3. CASE PutAuth(r)
  <2> DEFINE n == [npm EXCEPT !.pw = loc[r].pw]
  <2>1. n \in NpmType /\ pc[r] \in Numbered
    BY <1>1, <1>3 DEF PutAuth, TypeInv, RunsOK, AtWork, NpmType, Numbered
  <2>2. \/ Request(r, "npm_bootstrap", n, "npm_cert")
        \/ /\ Return(r, "failed")
           /\ UNCHANGED <<st, sentinel, cache, users, oidc, cert, npm, left, operatorVars>>
    BY <1>3 DEF PutAuth
  <2> HIDE DEF n
  <2>3. QED
    BY <2>1, <2>2, RequestType, FailedType DEF Positions
<1>4. CASE PostCertificate(r)
  <2> DEFINE n == [npm EXCEPT !.cert = IF @ = None THEN "row" ELSE @]
  <2>1. n \in NpmType /\ pc[r] \in Numbered
    BY <1>1, <1>4 DEF PostCertificate, NpmType, Numbered
  <2>2. Request(r, "npm_api", n, "npm_upload")
    BY <1>4 DEF PostCertificate
  <2> HIDE DEF n
  <2>3. QED
    BY <2>1, <2>2, RequestType DEF Positions
<1>5. CASE UploadCertificate(r)
  <2> DEFINE n == [npm EXCEPT !.cert = "pem"]
  <2>1. n \in NpmType /\ pc[r] \in Numbered
    BY <1>1, <1>5 DEF UploadCertificate, NpmType, Numbered
  <2>2. \/ Request(r, "npm_api", n, "npm_hosts")
        \/ /\ Return(r, "failed")
           /\ UNCHANGED <<st, sentinel, cache, users, oidc, cert, npm, left, operatorVars>>
    BY <1>5 DEF UploadCertificate
  <2> HIDE DEF n
  <2>3. QED
    BY <2>1, <2>2, RequestType, FailedType DEF Positions
<1>6. CASE FlagNPM(r)
  <2>1. StoresOK' /\ FormOK'
    BY <1>6, SameStores, SameForm DEF FlagNPM, TypeInv
  <2>2. CASE Flag(r, "npm")
    BY <2>1, <2>2, FlagMoves DEF TypeInv, Steps
  <2>3. CASE Return(r, "failed") /\ UNCHANGED <<st, left>>
    BY <2>1, <2>3, ReturnMoves DEF TypeInv, StateOK, Whole
  <2>4. CASE Return(r, "failed") /\ UNCHANGED st /\ MayFail("npm_api")
    BY <2>1, <2>4, ReturnMoves, FaultType DEF TypeInv
  <2>5. QED
    BY <1>6, <2>2, <2>3, <2>4 DEF FlagNPM
<1>7. QED
  BY <1>2, <1>3, <1>4, <1>5, <1>6, BootstrapType, UpsertProxyHostType DEF WireNPM

LEMMA CompleteType ==
  ASSUME TypeInv, NEW r \in Runs, Complete(r)
  PROVE  TypeInv'
<1>1. CASE VerifyAll(r)
  <2>1. StateOK' /\ StoresOK' /\ FormOK'
    BY <1>1, FaultType, SameStores, SameForm DEF VerifyAll, TypeInv
  <2>2. PICK p \in {"wipe", "sentinel"} : Keep(r, p) \/ Return(r, "failed")
    BY <1>1 DEF VerifyAll
  <2>3. RunsOK'
    BY <2>2, KeepWorks, ReturnMoves DEF TypeInv, Positions, Numbered
  <2>4. QED
    BY <2>1, <2>3 DEF TypeInv
<1>2. CASE TouchSentinel(r)
  <2>1. StateOK' /\ StoresOK' /\ FormOK'
    BY <1>2, FaultType, SameForm DEF TouchSentinel, TypeInv, StoresOK
  <2>2. RunsOK'
    BY <1>2, KeepWorks, ReturnMoves DEF TouchSentinel, TypeInv, Positions, Numbered
  <2>3. QED
    BY <2>1, <2>2 DEF TypeInv
<1>3. CASE FlagSentinel(r)
  <2> DEFINE s == [mine[r] EXCEPT !.done = @ \cup {"sentinel"}]
             l == loc[r]
  <2>1. StoresOK' /\ FormOK'
    BY <1>3, SameStores, SameForm DEF FlagSentinel, TypeInv
  <2>2. CASE Return(r, "failed") /\ UNCHANGED <<st, left>>
    BY <2>1, <2>2, ReturnMoves DEF TypeInv, StateOK, Whole
  <2>3. CASE Save(s) /\ GoTo(r, "wipe") /\ mine' = [mine EXCEPT ![r] = s] /\ UNCHANGED loc
    <3>1. s \in StateType /\ Whole(s) /\ l \in LocalsType
      BY DEF TypeInv, RunsOK, AtWork, StateType, Whole
    <3>2. "wipe" \in Positions /\ AtWork("wipe", s, l)
      BY <3>1 DEF AtWork, Positions, Numbered
    <3>3. /\ mine' = [mine EXCEPT ![r] = s]
          /\ pc' = [pc EXCEPT ![r] = "wipe"]
          /\ loc' = [loc EXCEPT ![r] = l]
      BY <2>3 DEF GoTo, TypeInv, RunsOK
    <3> HIDE DEF s, l
    <3>4. RunsOK'
      BY <3>1, <3>2, <3>3, Moves DEF TypeInv
    <3>5. QED
      BY <2>1, <2>3, <3>1, <3>4, SaveType DEF TypeInv
  <2>4. QED
    BY <1>3, <2>2, <2>3 DEF FlagSentinel
<1>4. CASE WipeSecret(r)
  <2>1. cache' \in [mem : Accounts, file : Accounts]
    BY <1>4 DEF WipeSecret, TypeInv, StoresOK, Accounts
  <2>2. StateOK' /\ StoresOK' /\ FormOK'
    BY <1>4, <2>1, SameForm DEF WipeSecret, TypeInv, StateOK, StoresOK, Whole
  <2>3. RunsOK'
    BY <1>4, KeepWorks DEF WipeSecret, TypeInv, Positions, Numbered
  <2>4. QED
    BY <2>2, <2>3 DEF TypeInv
<1>5. CASE Scrub(r)
  <2> DEFINE s == [mine[r] EXCEPT !.hash = None, !.creds = FALSE]
  <2>1. StoresOK' /\ FormOK'
    BY <1>5, SameStores, SameForm DEF Scrub, TypeInv
  <2>2. s \in StateType /\ Whole(s)
    <3>1. mine[r] \in StateType /\ Whole(mine[r])
      BY DEF TypeInv, RunsOK, AtWork
    <3>2. QED BY <3>1 DEF StateType, Whole
  <2>3. \/ st' = s /\ NoFault
        \/ st' = st /\ MayFail("state_save")
    BY <1>5 DEF Scrub
  <2>4. StateOK'
    BY <2>2, <2>3, SaveType DEF TypeInv, Save
  <2>5. RunsOK'
    BY <1>5, ReturnMoves DEF Scrub, TypeInv
  <2>6. QED
    BY <2>1, <2>4, <2>5 DEF TypeInv
<1>6. QED
  BY <1>1, <1>2, <1>3, <1>4, <1>5 DEF Complete

-----------------------------------------------------------------------------
(* Types: the environment, and the theorem *)

LEMMA IdleRuns ==
  ASSUME NEW r \in Runs
  PROVE  "idle" \in Positions /\ AtWork("idle", Fresh, NoLocals)
BY FreshType, NoLocalsType DEF Positions, AtWork

LEMMA CrashType ==
  ASSUME TypeInv, Crash
  PROVE  TypeInv'
<1>1. RunsOK'
  BY FreshType, NoLocalsType, IdleRuns DEF Crash, RunsOK, AtWork, Whole
<1>2. [n \in Names |-> None] \in Accounts
  BY DEF Accounts
<1>3. /\ cache' \in [mem : Accounts, file : Accounts]
      /\ cert' \in [issued : BOOLEAN, ini : SUBSET Providers]
  BY <1>2 DEF Crash, TypeInv, StoresOK
<1>4. StoresOK'
  BY <1>3 DEF Crash, TypeInv, StoresOK
<1>5. StateOK'
  BY DEF Crash, TypeInv, StateOK, LeftType, Whole
<1>6. FormOK'
  BY FreshType DEF Crash, TypeInv, FormOK, Whole
<1>7. QED
  BY <1>1, <1>4, <1>5, <1>6 DEF TypeInv

LEMMA RemoveSentinelType ==
  ASSUME TypeInv, RemoveSentinel
  PROVE  TypeInv'
<1>1. RunsOK' /\ FormOK'
  BY SameRuns, SameForm DEF RemoveSentinel, TypeInv
<1>2. StoresOK'
  BY DEF RemoveSentinel, TypeInv, StoresOK
<1>3. StateOK'
  BY DEF RemoveSentinel, TypeInv, StateOK, LeftType, Whole
<1>4. QED
  BY <1>1, <1>2, <1>3 DEF TypeInv

LEMMA InitType == Init => TypeInv
<1> SUFFICES ASSUME Init PROVE TypeInv
  OBVIOUS
<1>1. RunsOK
  BY FreshType, NoLocalsType, IdleRuns DEF Init, RunsOK
<1>2. [n \in Names |-> None] \in Accounts /\ [c \in ClientSet |-> Placeholder] \in Rotation
  BY DEF Accounts, Rotation, Secret
<1>3. StoresOK
  BY <1>2 DEF Init, StoresOK
<1>4. StateOK /\ FormOK
  BY FreshType, BoundsAssumption DEF Init, StateOK, FormOK, LeftType
<1>5. QED
  BY <1>1, <1>3, <1>4 DEF TypeInv

LEMMA NextType == TypeInv /\ [Next]_vars => TypeInv'
<1> SUFFICES ASSUME TypeInv, [Next]_vars PROVE TypeInv'
  OBVIOUS
<1>1. ASSUME NEW r \in Runs, Start(r) \/ RunFinalize(r) PROVE TypeInv'
  BY <1>1, StartType, WriteAdminType, RotateSecretsType, TemplatesType, IssueCertType,
     WireNPMType, CompleteType DEF RunFinalize
<1>2. CASE PostPage
  BY <1>2, PostType DEF PostPage
<1>3. ASSUME NEW p \in Providers, PostDNS(p) PROVE TypeInv'
  BY <1>3, PostType DEF PostDNS
<1>4. ASSUME NEW f \in Forms, PostAdmin(f) PROVE TypeInv'
  BY <1>4, PostType DEF PostAdmin
<1>5. CASE HandleForm
  BY <1>5, SaveFormType, CacheSecretType DEF HandleForm
<1>6. CASE UNCHANGED vars
  BY <1>6, SameRuns, SameStores DEF vars, TypeInv, StateOK, FormOK, Whole
<1>7. QED
  BY <1>1, <1>2, <1>3, <1>4, <1>5, <1>6, CrashType, RemoveSentinelType DEF Next

LEMMA AlwaysTyped == Spec => []TypeInv
BY InitType, NextType, PTL DEF Spec

\* state.json, the secret cache, users_database.yml, the OIDC secrets, the
\* proxy manager and every copy a handler or a run holds keep their types, for
\* any number of overlapping runs, any failing call and any restart.
THEOREM WizardTypeCorrect == Spec => []TypeOK
BY AlwaysTyped, TypeInvTypes, PTL

-----------------------------------------------------------------------------
(* Flags.  A copy of state.json can be of any age, but what its flags say was *)
(* true when they were set, and stays true: certificates and hosts are only   *)
(* added.  The flag of the sentinel is as good where nobody removes it.       *)

Known(s) ==
  /\ Honest(s)
  /\ MaxReruns = 0 /\ "sentinel" \in s.done => sentinel

Wiring == {"npm_hosts", "npm_flag"}
Finishing == {"verify", "sentinel", "sentinel_flag", "wipe", "scrub"}
Closed == {"wipe", "scrub", "done"}

\* What a run at position p has achieved, with s its copy of state.json.
Achieved(p, s) ==
  /\ Known(s)
  /\ p \in Wiring => npm.cert = "pem"
  /\ p \in Finishing => Steps \subseteq s.done
  /\ MaxReruns = 0 /\ p \in Closed => sentinel

FlagInv ==
  /\ Known(st)
  /\ Known(form.st)
  /\ \A r \in Runs : Achieved(pc[r], mine[r])
  /\ MaxReruns = 0 => left.reruns = 0

\* The same of the stores after a step.
KnownNext(s) ==
  /\ "cert" \in s.done => cert'.issued
  /\ "npm" \in s.done => HostSet \subseteq npm'.hosts /\ npm'.cert = "pem"
  /\ MaxReruns = 0 /\ "sentinel" \in s.done => sentinel'

AchievedNext(p, s) ==
  /\ KnownNext(s)
  /\ p \in Wiring => npm'.cert = "pem"
  /\ p \in Finishing => Steps \subseteq s.done
  /\ MaxReruns = 0 /\ p \in Closed => sentinel'

\* Nothing takes a certificate or a host away.
Grows ==
  /\ cert.issued => cert'.issued
  /\ npm.cert = "pem" => npm'.cert = "pem"
  /\ npm.hosts \subseteq npm'.hosts

LEMMA RequestGrows ==
  ASSUME TypeInv, NEW r, NEW call, NEW n, NEW next, Request(r, call, n, next),
         npm.cert = "pem" => n.cert = "pem", npm.hosts \subseteq n.hosts
  PROVE  Grows
BY DEF Request, Grows

LEMMA CertGrows ==
  ASSUME TypeInv, NEW r \in Runs, IssueCert(r)
  PROVE  Grows
<1>1. cert \in [issued : BOOLEAN, ini : SUBSET Providers]
  BY DEF TypeInv, StoresOK
<1>2. CASE WriteCreds(r)
  BY <1>1, <1>2 DEF WriteCreds, Grows
<1>3. CASE Certbot(r)
  BY <1>1, <1>3 DEF Certbot, Grows
<1>4. CASE FlagCert(r)
  BY <1>4 DEF FlagCert, Grows
<1>5. QED
  BY <1>2, <1>3, <1>4 DEF IssueCert

LEMMA NpmGrows ==
  ASSUME TypeInv, NEW r \in Runs, WireNPM(r)
  PROVE  Grows
<1>1. npm \in NpmType
  BY DEF TypeInv, StoresOK, NpmType
<1>2. CASE Bootstrap(r)
  BY <1>2 DEF Bootstrap, Grows
<1>3. CASE PutEmail(r)
  <2> DEFINE n == [npm EXCEPT !.email = mine[r].email]
  <2>1. n.cert = npm.cert /\ n.hosts = npm.hosts
    BY <1>1 DEF NpmType
  <2>2. Request(r, "npm_bootstrap", n, "npm_auth")
    BY <1>3 DEF PutEmail
  <2> HIDE DEF n
  <2>3. QED
    BY <2>1, <2>2, RequestGrows
<1>4. CASE PutAuth(r)
  <2> DEFINE n == [npm EXCEPT !.pw = loc[r].pw]
  <2>1. n.cert = npm.cert /\ n.hosts = npm.hosts
    BY <1>1 DEF NpmType
  <2>2. Request(r, "npm_bootstrap", n, "npm_cert") \/ UNCHANGED <<cert, npm>>
    BY <1>4 DEF PutAuth
  <2> HIDE DEF n
  <2>3. QED
    BY <2>1, <2>2, RequestGrows DEF Grows
<1>5. CASE PostCertificate(r)
  <2> DEFINE n == [npm EXCEPT !.cert = IF @ = None THEN "row" ELSE @]
  <2>1. (npm.cert = "pem" => n.cert = "pem") /\ n.hosts = npm.hosts
    BY <1>1 DEF NpmType, None
  <2>2. Request(r, "npm_api", n, "npm_upload")
    BY <1>5 DEF PostCertificate
  <2> HIDE DEF n
  <2>3. QED
    BY <2>1, <2>2, RequestGrows
<1>6. CASE UploadCertificate(r)
  <2> DEFINE n == [npm EXCEPT !.cert = "pem"]
  <2>1. n.cert = "pem" /\ n.hosts = npm.hosts
    BY <1>1 DEF NpmType
  <2>2. Request(r, "npm_api", n, "npm_hosts") \/ UNCHANGED <<cert, npm>>
    BY <1>6 DEF UploadCertificate
  <2> HIDE DEF n
  <2>3. QED
    BY <2>1, <2>2, RequestGrows DEF Grows
<1>7. CASE UpsertProxyHost(r)
  <2> DEFINE n == [npm EXCEPT !.hosts = @ \cup {Hosts[loc[r].i]}]
  <2>1. n.cert = npm.cert /\ npm.hosts \subseteq n.hosts
    BY <1>1 DEF NpmType
  <2>2. npm' \in {npm, n} /\ UNCHANGED cert
    BY <1>7 DEF UpsertProxyHost
  <2> HIDE DEF n
  <2>3. QED
    BY <2>1, <2>2 DEF Grows
<1>8. CASE FlagNPM(r)
  BY <1>8 DEF FlagNPM, Grows
<1>9. QED
  BY <1>2, <1>3, <1>4, <1>5, <1>6, <1>7, <1>8 DEF WireNPM

LEMMA AllGrow == TypeInv /\ [Next]_vars => Grows
<1> SUFFICES ASSUME TypeInv, [Next]_vars PROVE Grows
  OBVIOUS
<1>1. ASSUME UNCHANGED <<cert, npm>> PROVE Grows
  BY <1>1 DEF Grows
<1>2. ASSUME NEW r \in Runs, Start(r) \/ RunFinalize(r) PROVE Grows
  <2>1. CASE Start(r)
    BY <2>1, <1>1 DEF Start
  <2>2. CASE WriteAdmin(r)
    BY <2>2, <1>1 DEF WriteAdmin, WriteAdminLoad, WriteAdminTruncate, WriteAdminWrite, FlagUsers
  <2>3. CASE RotateSecrets(r)
    BY <2>3, <1>1 DEF RotateSecrets, RotateRead, RotatePlain, RotateEnv
  <2>4. CASE Templates(r)
    BY <2>4, <1>1 DEF Templates, RenderTemplates, FlagTemplates
  <2>5. CASE Complete(r)
    BY <2>5, <1>1 DEF Complete, VerifyAll, TouchSentinel, FlagSentinel, WipeSecret, Scrub
  <2>6. QED
    BY <1>2, <2>1, <2>2, <2>3, <2>4, <2>5, CertGrows, NpmGrows DEF RunFinalize
<1>3. CASE PostPage \/ (\E p \in Providers : PostDNS(p)) \/ (\E f \in Forms : PostAdmin(f))
  BY <1>1, <1>3 DEF PostPage, PostDNS, PostAdmin, Post
<1>4. CASE HandleForm
  BY <1>1, <1>4 DEF HandleForm, SaveForm, CacheSecret
<1>5. CASE Crash
  BY <1>5 DEF Crash, Grows, TypeInv, StoresOK
<1>6. CASE RemoveSentinel
  BY <1>1, <1>6 DEF RemoveSentinel
<1>7. CASE UNCHANGED vars
  BY <1>1, <1>7 DEF vars
<1>8. QED
  BY <1>2, <1>3, <1>4, <1>5, <1>6, <1>7 DEF Next

\* Where nobody removes the sentinel it stays.
Stays ==
  /\ MaxReruns = 0 => left'.reruns = 0
  /\ MaxReruns = 0 /\ sentinel => sentinel'

LEMMA LeftStays ==
  ASSUME TypeInv, FlagInv, NEW call, NoFault \/ MayFail(call) \/ Spend,
         sentinel => sentinel'
  PROVE  Stays
BY DEF TypeInv, FlagInv, StateOK, LeftType, NoFault, MayFail, Spend, Stays

LEMMA RunStays ==
  ASSUME TypeInv, FlagInv, NEW r \in Runs, RunFinalize(r)
  PROVE  Stays
<1>1. sentinel => sentinel'
  <2>1. CASE WriteAdmin(r) \/ RotateSecrets(r)
    BY <2>1 DEF WriteAdmin, RotateSecrets, WriteAdminLoad, WriteAdminTruncate,
       WriteAdminWrite, FlagUsers, RotateRead, RotatePlain, RotateEnv
  <2>2. CASE Templates(r) \/ IssueCert(r)
    BY <2>2 DEF Templates, IssueCert, RenderTemplates, FlagTemplates, WriteCreds,
       Certbot, FlagCert
  <2>3. CASE WireNPM(r)
    BY <2>3 DEF WireNPM, Bootstrap, PutEmail, PutAuth, PostCertificate,
       UploadCertificate, UpsertProxyHost, FlagNPM, Request
  <2>4. CASE Complete(r)
    BY <2>4 DEF Complete, VerifyAll, TouchSentinel, FlagSentinel, WipeSecret, Scrub
  <2>5. QED
    BY <2>1, <2>2, <2>3, <2>4 DEF RunFinalize
<1>2. NoFault \/ \E call : MayFail(call)
  <2>1. ASSUME NEW step, Flag(r, step) PROVE NoFault \/ MayFail("state_save")
    BY <2>1 DEF Flag, Save
  <2>2. CASE WriteAdmin(r)
    BY <2>1, <2>2 DEF WriteAdmin, WriteAdminLoad, WriteAdminTruncate, WriteAdminWrite,
       FlagUsers, NoFault
  <2>3. CASE RotateSecrets(r)
    BY <2>1, <2>3 DEF RotateSecrets, RotateRead, RotatePlain, RotateEnv, NextClient, NoFault
  <2>4. CASE Templates(r)
    BY <2>1, <2>4 DEF Templates, RenderTemplates, FlagTemplates, NoFault
  <2>5. CASE IssueCert(r)
    BY <2>1, <2>5 DEF IssueCert, WriteCreds, Certbot, FlagCert, NoFault
  <2>6. CASE WireNPM(r)
    BY <2>1, <2>6 DEF WireNPM, Bootstrap, PutEmail, PutAuth, PostCertificate,
       UploadCertificate, UpsertProxyHost, FlagNPM, Request, NoFault
  <2>7. CASE Complete(r)
    BY <2>7 DEF Complete, VerifyAll, TouchSentinel, FlagSentinel, WipeSecret, Scrub,
       Save, NoFault
  <2>8. QED
    BY <2>2, <2>3, <2>4, <2>5, <2>6, <2>7 DEF RunFinalize
<1>3. QED
  BY <1>1, <1>2, LeftStays

LEMMA AllStay == TypeInv /\ FlagInv /\ [Next]_vars => Stays
<1> SUFFICES ASSUME TypeInv, FlagInv, [Next]_vars PROVE Stays
  OBVIOUS
<1>1. ASSUME NEW r \in Runs, Start(r) PROVE Stays
  BY <1>1 DEF Start, Stays, FlagInv
<1>2. CASE PostPage \/ (\E p \in Providers : PostDNS(p)) \/ (\E f \in Forms : PostAdmin(f))
  BY <1>2, LeftStays DEF PostPage, PostDNS, PostAdmin, Post
<1>3. CASE HandleForm
  BY <1>3, LeftStays DEF HandleForm, SaveForm, CacheSecret
<1>4. CASE Crash
  BY <1>4 DEF Crash, Stays, TypeInv, FlagInv, StateOK, LeftType
<1>5. CASE RemoveSentinel
  BY <1>5 DEF RemoveSentinel, Stays, FlagInv
<1>6. CASE UNCHANGED vars
  BY <1>6 DEF vars, Stays, FlagInv
<1>7. QED
  BY <1>1, <1>2, <1>3, <1>4, <1>5, <1>6, RunStays DEF Next

LEMMA KnownStays ==
  ASSUME Grows, Stays, NEW s, Known(s)
  PROVE  KnownNext(s)
BY DEF Grows, Stays, Known, Honest, KnownNext

\* A run moves to p with copy s; every other copy is what it was.
LEMMA FlagMove ==
  ASSUME TypeInv, FlagInv, Grows, Stays, NEW r \in Runs, NEW p, NEW s,
         AchievedNext(p, s), KnownNext(st'), UNCHANGED form,
         pc' = [pc EXCEPT ![r] = p], mine' = [mine EXCEPT ![r] = s]
  PROVE  FlagInv'
<1>1. KnownNext(form'.st)
  BY KnownStays DEF FlagInv
<1>2. ASSUME NEW q \in Runs PROVE AchievedNext(pc'[q], mine'[q])
  <2>1. CASE q = r
    BY <2>1 DEF TypeInv, RunsOK
  <2>2. CASE q # r
    <3>1. pc'[q] = pc[q] /\ mine'[q] = mine[q]
      BY <2>2 DEF TypeInv, RunsOK
    <3>2. Achieved(pc[q], mine[q])
      BY DEF FlagInv
    <3>3. KnownNext(mine[q])
      BY <3>2, KnownStays DEF Achieved
    <3>4. QED
      BY <3>1, <3>2, <3>3 DEF Achieved, AchievedNext, Grows, Stays
  <2>3. QED
    BY <2>1, <2>2
<1>3. Known(st)' /\ Known(form.st)'
  BY <1>1 DEF Known, Honest, KnownNext
<1>4. ASSUME NEW q \in Runs PROVE Achieved(pc[q], mine[q])'
  BY <1>2 DEF Achieved, AchievedNext, Known, Honest, KnownNext
<1>5. QED
  BY <1>3, <1>4 DEF FlagInv, Stays

LEMMA FlagReturn ==
  ASSUME TypeInv, FlagInv, Grows, Stays, NEW r \in Runs, NEW how \in {"done", "failed"},
         Return(r, how), KnownNext(st'), UNCHANGED form,
         MaxReruns = 0 /\ how = "done" => sentinel'
  PROVE  FlagInv'
<1>1. AchievedNext(how, Fresh)
  BY DEF AchievedNext, KnownNext, Fresh, Wiring, Finishing, Closed
<1>2. QED
  BY <1>1, FlagMove DEF Return, GoTo

\* A run moves to p with the copy it has.
LEMMA FlagKeep ==
  ASSUME TypeInv, FlagInv, Grows, Stays, NEW r \in Runs, NEW p,
         pc' = [pc EXCEPT ![r] = p], UNCHANGED <<st, mine, form>>,
         p \in Wiring => npm'.cert = "pem",
         p \in Finishing => pc[r] \in Finishing,
         MaxReruns = 0 /\ p \in Closed => sentinel'
  PROVE  FlagInv'
<1> DEFINE s == mine[r]
<1>1. Achieved(pc[r], s)
  BY DEF FlagInv
<1>2. KnownNext(s) /\ KnownNext(st')
  BY <1>1, KnownStays DEF Achieved, FlagInv
<1>3. AchievedNext(p, s)
  BY <1>1, <1>2 DEF Achieved, AchievedNext
<1>4. mine' = [mine EXCEPT ![r] = s]
  BY DEF TypeInv, RunsOK
<1> HIDE DEF s
<1>5. QED
  BY <1>2, <1>3, <1>4, FlagMove

\* A run sets a flag whose outcome is there.
LEMMA FlagSet ==
  ASSUME TypeInv, FlagInv, Grows, Stays, NEW r \in Runs, NEW step \in Steps,
         Flag(r, step), UNCHANGED form,
         step = "cert" => cert'.issued,
         step = "npm" => HostSet \subseteq npm'.hosts /\ npm'.cert = "pem"
  PROVE  FlagInv'
<1> DEFINE s == [mine[r] EXCEPT !.done = @ \cup {step}]
           p == Todo(s)
<1>1. s \in StateType /\ s.done = mine[r].done \cup {step}
  BY DEF TypeInv, RunsOK, StateType, Steps
<1>2. KnownNext(mine[r]) /\ KnownNext(st)
  BY KnownStays DEF FlagInv, Achieved
<1>3. KnownNext(s)
  BY <1>1, <1>2 DEF KnownNext, Steps
<1>4. /\ p \in Steps \cup {"verify"}
      /\ p = "verify" => Steps \subseteq s.done
  BY <1>1, TodoFacts
<1>5. AchievedNext(p, s)
  BY <1>3, <1>4 DEF AchievedNext, Wiring, Finishing, Closed, Steps
<1>6. /\ pc' = [pc EXCEPT ![r] = p] /\ mine' = [mine EXCEPT ![r] = s]
      /\ st' = s \/ st' = st
  BY DEF Flag, GoTo, Save
<1>7. KnownNext(st')
  BY <1>2, <1>3, <1>6
<1> HIDE DEF s, p
<1>8. QED
  BY <1>5, <1>6, <1>7, FlagMove

-----------------------------------------------------------------------------
(* Flags, action by action *)

FlagPre == TypeInv /\ FlagInv /\ Grows /\ Stays

\* A run returns without having saved anything.
LEMMA FlagFailed ==
  ASSUME FlagPre, NEW r \in Runs, Return(r, "failed"), UNCHANGED <<st, form>>
  PROVE  FlagInv'
<1>1. KnownNext(st')
  BY KnownStays DEF FlagPre, FlagInv
<1>2. QED
  BY <1>1, FlagReturn DEF FlagPre

\* A run goes on to a position that claims nothing.
LEMMA FlagGoesOn ==
  ASSUME FlagPre, NEW r \in Runs, NEW p, p \notin Wiring \cup Finishing \cup Closed,
         GoTo(r, p), UNCHANGED <<st, mine, form>>
  PROVE  FlagInv'
BY FlagKeep DEF FlagPre, GoTo

LEMMA WriteAdminFlags ==
  ASSUME FlagPre, NEW r \in Runs, WriteAdmin(r)
  PROVE  FlagInv'
<1>1. UNCHANGED form
  BY DEF WriteAdmin, WriteAdminLoad, WriteAdminTruncate, WriteAdminWrite, FlagUsers,
     operatorVars
<1>2. CASE WriteAdminLoad(r)
  BY <1>1, <1>2, FlagFailed, FlagGoesOn DEF WriteAdminLoad, Wiring, Finishing, Closed
<1>3. CASE WriteAdminTruncate(r)
  BY <1>1, <1>3, FlagFailed, FlagGoesOn DEF WriteAdminTruncate, Keep, Wiring, Finishing, Closed
<1>4. CASE WriteAdminWrite(r)
  BY <1>1, <1>4, FlagFailed, FlagGoesOn DEF WriteAdminWrite, Keep, Wiring, Finishing, Closed
<1>5. CASE FlagUsers(r)
  BY <1>1, <1>5, FlagFailed, FlagSet DEF FlagUsers, FlagPre, Steps
<1>6. QED
  BY <1>2, <1>3, <1>4, <1>5 DEF WriteAdmin

LEMMA RotateSecretsFlags ==
  ASSUME FlagPre, NEW r \in Runs, RotateSecrets(r)
  PROVE  FlagInv'
<1>1. UNCHANGED form
  BY DEF RotateSecrets, RotateRead, RotatePlain, RotateEnv, operatorVars
<1>2. ASSUME NextClient(r) PROVE FlagInv'
  <2>1. CASE Flag(r, "oidc")
    BY <1>1, <2>1, FlagSet DEF FlagPre, Steps
  <2>2. CASE GoTo(r, "oidc") /\ UNCHANGED <<mine, st>>
    BY <1>1, <2>2, FlagGoesOn DEF Wiring, Finishing, Closed
  <2>3. QED
    BY <1>2, <2>1, <2>2 DEF NextClient
<1>3. CASE RotateRead(r)
  BY <1>1, <1>2, <1>3, FlagGoesOn DEF RotateRead, Wiring, Finishing, Closed
<1>4. CASE RotatePlain(r)
  BY <1>1, <1>4, FlagFailed, FlagGoesOn DEF RotatePlain, Wiring, Finishing, Closed
<1>5. CASE RotateEnv(r)
  BY <1>1, <1>2, <1>5, FlagFailed DEF RotateEnv
<1>6. QED
  BY <1>3, <1>4, <1>5 DEF RotateSecrets

LEMMA TemplatesFlags ==
  ASSUME FlagPre, NEW r \in Runs, Templates(r)
  PROVE  FlagInv'
<1>1. UNCHANGED form
  BY DEF Templates, RenderTemplates, FlagTemplates, operatorVars
<1>2. CASE RenderTemplates(r)
  BY <1>1, <1>2, FlagFailed, FlagGoesOn DEF RenderTemplates, Keep, Wiring, Finishing, Closed
<1>3. CASE FlagTemplates(r)
  BY <1>1, <1>3, FlagFailed, FlagSet DEF FlagTemplates, FlagPre, Steps
<1>4. QED
  BY <1>2, <1>3 DEF Templates

LEMMA IssueCertFlags ==
  ASSUME FlagPre, NEW r \in Runs, IssueCert(r)
  PROVE  FlagInv'
<1>1. UNCHANGED form
  BY DEF IssueCert, WriteCreds, Certbot, FlagCert, operatorVars
<1>2. CASE WriteCreds(r)
  BY <1>1, <1>2, FlagFailed, FlagGoesOn DEF WriteCreds, Keep, Wiring, Finishing, Closed
<1>3. CASE Certbot(r)
  BY <1>1, <1>3, FlagFailed, FlagGoesOn DEF Certbot, Keep, Wiring, Finishing, Closed
<1>4. CASE FlagCert(r)
  BY <1>1, <1>4, FlagFailed, FlagSet DEF FlagCert, FlagPre, Steps, VerifyCertIssued
<1>5. QED
  BY <1>2, <1>3, <1>4 DEF IssueCert

LEMMA WireNPMFlags ==
  ASSUME FlagPre, NEW r \in Runs, WireNPM(r)
  PROVE  FlagInv'
<1>1. UNCHANGED form
  BY DEF WireNPM, Bootstrap, PutEmail, PutAuth, PostCertificate, UploadCertificate,
     UpsertProxyHost, FlagNPM, Request, operatorVars
<1>2. Achieved(pc[r], mine[r]) /\ npm \in NpmType
  BY DEF FlagPre, FlagInv, TypeInv, StoresOK, NpmType
<1>3. CASE Bootstrap(r)
  BY <1>1, <1>3, FlagFailed, FlagGoesOn DEF Bootstrap, Wiring, Finishing, Closed
<1>4. CASE PutEmail(r) \/ PutAuth(r) \/ PostCertificate(r)
  BY <1>1, <1>4, FlagFailed, FlagGoesOn DEF PutEmail, PutAuth, PostCertificate, Request,
     Keep, Wiring, Finishing, Closed
<1>5. CASE UploadCertificate(r)
  <2>1. CASE Return(r, "failed")
    BY <1>1, <1>5, <2>1, FlagFailed DEF UploadCertificate, Request
  <2>2. CASE npm' = [npm EXCEPT !.cert = "pem"] /\ Keep(r, "npm_hosts")
    <3>1. npm'.cert = "pem"
      BY <1>2, <2>2 DEF NpmType
    <3>2. UNCHANGED st
      BY <1>5 DEF UploadCertificate, Request
    <3>3. QED
      BY <1>1, <2>2, <3>1, <3>2, FlagKeep DEF FlagPre, Keep, GoTo, Finishing, Closed
  <2>3. QED
    BY <1>5, <2>1, <2>2 DEF UploadCertificate, Request
<1>6. CASE UpsertProxyHost(r)
  <2>1. npm'.cert = "pem" /\ UNCHANGED st
    BY <1>2, <1>6 DEF UpsertProxyHost, FlagPre, Grows, Achieved, Wiring
  <2>2. CASE Return(r, "failed")
    BY <1>1, <2>1, <2>2, FlagFailed
  <2>3. CASE UNCHANGED mine /\ (GoTo(r, "npm_flag") \/ UNCHANGED pc)
    <3>1. PICK p \in Wiring : pc' = [pc EXCEPT ![r] = p]
      BY <1>6, <2>3 DEF UpsertProxyHost, GoTo, Wiring, FlagPre, TypeInv, RunsOK
    <3>2. QED
      BY <1>1, <2>1, <2>3, <3>1, FlagKeep DEF FlagPre, Wiring, Finishing, Closed
  <2>4. QED
    BY <1>6, <2>2, <2>3 DEF UpsertProxyHost
<1>7. CASE FlagNPM(r)
  <2>1. CASE Return(r, "failed") /\ UNCHANGED st
    BY <1>1, <2>1, FlagFailed
  <2>2. CASE VerifyNPMRoutes(mine[r]) /\ Flag(r, "npm")
    <3>1. HostSet \subseteq npm'.hosts /\ npm'.cert = "pem"
      BY <1>2, <1>7, <2>2 DEF FlagNPM, VerifyNPMRoutes, Achieved, Wiring
    <3>2. QED
      BY <1>1, <2>2, <3>1, FlagSet DEF FlagPre, Steps
  <2>3. QED
    BY <1>7, <2>1, <2>2 DEF FlagNPM
<1>8. QED
  BY <1>3, <1>4, <1>5, <1>6, <1>7 DEF WireNPM

LEMMA CompleteFlags ==
  ASSUME FlagPre, NEW r \in Runs, Complete(r)
  PROVE  FlagInv'
<1>1. UNCHANGED form
  BY DEF Complete, VerifyAll, TouchSentinel, FlagSentinel, WipeSecret, Scrub, operatorVars
<1>2. Achieved(pc[r], mine[r]) /\ KnownNext(mine[r]) /\ KnownNext(st)
  BY KnownStays DEF FlagPre, FlagInv, Achieved
<1>3. CASE VerifyAll(r)
  <2>1. CASE Return(r, "failed")
    BY <1>1, <1>3, <2>1, FlagFailed DEF VerifyAll
  <2>2. CASE Keep(r, IF "sentinel" \in mine[r].done THEN "wipe" ELSE "sentinel")
    <3> DEFINE p == IF "sentinel" \in mine[r].done THEN "wipe" ELSE "sentinel"
    <3>1. MaxReruns = 0 /\ p \in Closed => sentinel'
      BY <1>2 DEF KnownNext, Closed
    <3>2. pc[r] \in Finishing /\ p \notin Wiring /\ UNCHANGED st
      BY <1>3 DEF VerifyAll, Finishing, Wiring
    <3>3. pc' = [pc EXCEPT ![r] = p] /\ UNCHANGED mine
      BY <2>2 DEF Keep, GoTo
    <3> HIDE DEF p
    <3>4. QED
      BY <1>1, <3>1, <3>2, <3>3, FlagKeep DEF FlagPre
  <2>3. QED
    BY <1>3, <2>1, <2>2 DEF VerifyAll
<1>4. CASE TouchSentinel(r)
  <2>1. pc[r] \in Finishing /\ UNCHANGED st
    BY <1>4 DEF TouchSentinel, Finishing
  <2>2. CASE Return(r, "failed")
    BY <1>1, <2>1, <2>2, FlagFailed
  <2>3. CASE Keep(r, "sentinel_flag")
    BY <1>1, <2>1, <2>3, FlagKeep DEF FlagPre, Keep, GoTo, Wiring, Closed
  <2>4. QED
    BY <1>4, <2>2, <2>3 DEF TouchSentinel
<1>5. CASE FlagSentinel(r)
  <2> DEFINE s == [mine[r] EXCEPT !.done = @ \cup {"sentinel"}]
  <2>1. CASE Return(r, "failed") /\ UNCHANGED <<st, left>>
    BY <1>1, <2>1, FlagFailed
  <2>2. CASE sentinel /\ Save(s) /\ GoTo(r, "wipe") /\ mine' = [mine EXCEPT ![r] = s]
    <3>1. s.done = mine[r].done \cup {"sentinel"}
      BY DEF FlagPre, TypeInv, RunsOK, StateType
    <3>2. sentinel'
      BY <1>5, <2>2 DEF FlagSentinel
    <3>3. KnownNext(s)
      BY <1>2, <3>1, <3>2 DEF KnownNext
    <3>4. Steps \subseteq s.done
      BY <1>2, <1>5, <3>1 DEF FlagSentinel, Achieved, Finishing
    <3>5. AchievedNext("wipe", s)
      BY <3>2, <3>3, <3>4 DEF AchievedNext, Wiring
    <3>6. KnownNext(st')
      BY <1>2, <2>2, <3>3 DEF Save
    <3> HIDE DEF s
    <3>7. QED
      BY <1>1, <2>2, <3>5, <3>6, FlagMove DEF FlagPre, GoTo
  <2>3. QED
    BY <1>5, <2>1, <2>2 DEF FlagSentinel
<1>6. CASE WipeSecret(r)
  <2>1. pc[r] = "wipe" /\ UNCHANGED <<st, mine, sentinel>> /\ pc' = [pc EXCEPT ![r] = "scrub"]
    BY <1>6 DEF WipeSecret, Keep, GoTo
  <2>2. MaxReruns = 0 => sentinel'
    BY <1>2, <2>1 DEF Achieved, Closed
  <2>3. QED
    BY <1>1, <2>1, <2>2, FlagKeep DEF FlagPre, Wiring, Finishing
<1>7. CASE Scrub(r)
  <2> DEFINE s == [mine[r] EXCEPT !.hash = None, !.creds = FALSE]
  <2>1. s.done = mine[r].done
    BY DEF FlagPre, TypeInv, RunsOK, StateType
  <2>2. KnownNext(s)
    BY <1>2, <2>1 DEF KnownNext
  <2>3. st' = s \/ st' = st
    BY <1>7 DEF Scrub
  <2>4. KnownNext(st')
    BY <1>2, <2>2, <2>3
  <2>5. MaxReruns = 0 => sentinel'
    BY <1>2, <1>7 DEF Scrub, Achieved, Closed
  <2>6. QED
    BY <1>1, <1>7, <2>4, <2>5, FlagReturn DEF Scrub, FlagPre
<1>8. QED
  BY <1>3, <1>4, <1>5, <1>6, <1>7 DEF Complete

\* No run moves.
LEMMA FlagForms ==
  ASSUME FlagPre, UNCHANGED <<pc, mine>>, KnownNext(st'), KnownNext(form'.st)
  PROVE  FlagInv'
<1>1. ASSUME NEW q \in Runs PROVE AchievedNext(pc[q], mine[q])
  <2>1. Achieved(pc[q], mine[q])
    BY DEF FlagPre, FlagInv
  <2>2. KnownNext(mine[q])
    BY <2>1, KnownStays DEF FlagPre, Achieved
  <2>3. QED
    BY <2>1, <2>2 DEF FlagPre, Achieved, AchievedNext, Grows, Stays
<1>2. Known(st)' /\ Known(form.st)'
  BY DEF Known, Honest, KnownNext
<1>3. ASSUME NEW q \in Runs PROVE Achieved(pc[q], mine[q])'
  BY <1>1 DEF Achieved, AchievedNext, Known, Honest, KnownNext
<1>4. QED
  BY <1>2, <1>3 DEF FlagInv, FlagPre, Stays

LEMMA PostFlags ==
  ASSUME FlagPre, NEW kind, NEW arg, Post(kind, arg)
  PROVE  FlagInv'
<1>1. form'.st = st
  BY DEF Post
<1>2. KnownNext(st)
  BY KnownStays DEF FlagPre, FlagInv
<1>3. QED
  BY <1>1, <1>2, FlagForms DEF Post

LEMMA FreshKnown == KnownNext(NoForm.st) /\ KnownNext(Fresh)
BY DEF KnownNext, NoForm, Fresh

LEMMA FilledFlags ==
  ASSUME FlagPre, form.kind \in {"page", "dns", "admin"}
  PROVE  Filled.done = form.st.done
<1>1. form.st \in StateType
  BY FormKinds DEF FlagPre, TypeInv
<1>2. CASE form.kind = "page"
  BY <1>2 DEF Filled
<1>3. CASE form.kind = "dns"
  <2>1. Filled = [form.st EXCEPT !.provider = form.arg, !.creds = TRUE]
    BY <1>3 DEF Filled
  <2>2. QED
    BY <1>1, <2>1 DEF StateType
<1>4. CASE form.kind = "admin"
  <2>1. Filled = [form.st EXCEPT !.name = form.arg.name, !.email = form.arg.email,
                                 !.hash = form.arg.pw]
    BY <1>4 DEF Filled
  <2>2. QED
    BY <1>1, <2>1 DEF StateType
<1>5. QED
  BY <1>2, <1>3, <1>4

LEMMA HandleFormFlags ==
  ASSUME FlagPre, HandleForm
  PROVE  FlagInv'
<1>1. KnownNext(st) /\ KnownNext(form.st)
  BY KnownStays DEF FlagPre, FlagInv
<1>2. CASE SaveForm
  <2>1. KnownNext(Filled)
    BY <1>1, <1>2, FilledFlags DEF SaveForm, KnownNext
  <2>2. form \in FormType
    BY DEF FlagPre, TypeInv, FormOK
  <2>3. form' = NoForm \/ form'.st = form.st
    <3>1. CASE form' = NoForm
      BY <3>1
    <3>2. CASE form' = [form EXCEPT !.kind = "secret"]
      BY <2>2, <3>2 DEF FormType, NoForm
    <3>3. QED
      BY <1>2, <3>1, <3>2 DEF SaveForm
  <2>4. KnownNext(form'.st)
    BY <1>1, <2>3, FreshKnown
  <2>5. KnownNext(st')
    BY <1>1, <1>2, <2>1 DEF SaveForm
  <2>6. QED
    BY <1>2, <2>4, <2>5, FlagForms DEF SaveForm
<1>3. CASE CacheSecret
  <2>1. form' = NoForm /\ UNCHANGED <<st, pc, mine>>
    BY <1>3 DEF CacheSecret
  <2>2. QED
    BY <1>1, <2>1, FreshKnown, FlagForms
<1>4. QED
  BY <1>2, <1>3 DEF HandleForm

LEMMA StartFlags ==
  ASSUME FlagPre, NEW r \in Runs, Start(r)
  PROVE  FlagInv'
<1> DEFINE s == st
           p == Todo(st)
<1>1. s \in StateType
  BY DEF FlagPre, TypeInv, StateOK
<1>2. KnownNext(s) /\ KnownNext(st')
  BY KnownStays DEF FlagPre, FlagInv, Start
<1>3. /\ p \in Steps \cup {"verify"}
      /\ p = "verify" => Steps \subseteq s.done
  BY <1>1, TodoFacts
<1>4. AchievedNext(p, s)
  BY <1>2, <1>3 DEF AchievedNext, Wiring, Finishing, Closed, Steps
<1>5. /\ pc' = [pc EXCEPT ![r] = p] /\ mine' = [mine EXCEPT ![r] = s]
      /\ UNCHANGED form
  BY DEF Start, GoTo, operatorVars
<1> HIDE DEF s, p
<1>6. QED
  BY <1>2, <1>4, <1>5, FlagMove DEF FlagPre

LEMMA CrashFlags ==
  ASSUME FlagPre, Crash
  PROVE  FlagInv'
<1>1. KnownNext(st')
  BY KnownStays DEF FlagPre, FlagInv, Crash
<1>2. KnownNext(form'.st)
  BY FreshKnown DEF Crash
<1>3. Known(st)' /\ Known(form.st)'
  BY <1>1, <1>2 DEF Known, Honest, KnownNext
<1>4. ASSUME NEW q \in Runs PROVE Achieved(pc[q], mine[q])'
  <2>1. pc'[q] = "idle" /\ mine'[q] = Fresh
    BY DEF Crash
  <2>2. QED
    BY <2>1 DEF Achieved, Known, Honest, Fresh, Wiring, Finishing, Closed
<1>5. QED
  BY <1>3, <1>4 DEF FlagInv, FlagPre, Stays

LEMMA NextFlags == TypeInv /\ FlagInv /\ [Next]_vars => FlagInv'
<1> SUFFICES ASSUME TypeInv, FlagInv, [Next]_vars PROVE FlagInv'
  OBVIOUS
<1>1. FlagPre
  BY AllGrow, AllStay DEF FlagPre
<1>2. ASSUME NEW r \in Runs, Start(r) \/ RunFinalize(r) PROVE FlagInv'
  BY <1>1, <1>2, StartFlags, WriteAdminFlags, RotateSecretsFlags, TemplatesFlags,
     IssueCertFlags, WireNPMFlags, CompleteFlags DEF RunFinalize
<1>3. CASE PostPage \/ (\E p \in Providers : PostDNS(p)) \/ (\E f \in Forms : PostAdmin(f))
  BY <1>1, <1>3, PostFlags DEF PostPage, PostDNS, PostAdmin
<1>4. KnownNext(st) /\ KnownNext(form.st)
  BY <1>1, KnownStays DEF FlagPre, FlagInv
<1>5. CASE RemoveSentinel \/ UNCHANGED vars
  BY <1>1, <1>4, <1>5, FlagForms DEF RemoveSentinel, vars, operatorVars
<1>6. QED
  BY <1>1, <1>2, <1>3, <1>5, HandleFormFlags, CrashFlags DEF Next

LEMMA InitFlags == Init => FlagInv
<1> SUFFICES ASSUME Init PROVE FlagInv
  OBVIOUS
<1>1. Known(Fresh) /\ NoForm.st = Fresh
  BY DEF Known, Honest, Fresh, NoForm
<1>2. ASSUME NEW r \in Runs PROVE Achieved(pc[r], mine[r])
  BY <1>1 DEF Init, Achieved, Wiring, Finishing, Closed
<1>3. QED
  BY <1>1, <1>2 DEF Init, FlagInv

LEMMA AlwaysFlagged == Spec => [](TypeInv /\ FlagInv)
BY InitType, NextType, InitFlags, NextFlags, PTL DEF Spec

\* A flag in state.json is never ahead of the world: whatever runs and forms
\* overlap, fail or die, a certificate that is flagged is issued, and routes
\* that are flagged are wired with it.
THEOREM FlagsAreHonest == Spec => []FlagsHonest
<1>1. TypeInv /\ FlagInv => FlagsHonest
  BY DEF FlagInv, Known, FlagsHonest
<1>2. QED
  BY <1>1, AlwaysFlagged, PTL

LEMMA OnlyTouchLocks ==
  ASSUME [Next]_vars, ~sentinel, sentinel'
  PROVE  \E r \in Runs : TouchSentinel(r)
<1>1. ASSUME NEW r \in Runs, Start(r) \/ RunFinalize(r)
      PROVE  UNCHANGED sentinel \/ TouchSentinel(r)
  <2>1. CASE Start(r) \/ WriteAdmin(r) \/ RotateSecrets(r)
    BY <2>1 DEF Start, WriteAdmin, RotateSecrets, WriteAdminLoad, WriteAdminTruncate,
       WriteAdminWrite, FlagUsers, RotateRead, RotatePlain, RotateEnv
  <2>2. CASE Templates(r) \/ IssueCert(r)
    BY <2>2 DEF Templates, IssueCert, RenderTemplates, FlagTemplates, WriteCreds,
       Certbot, FlagCert
  <2>3. CASE WireNPM(r)
    BY <2>3 DEF WireNPM, Bootstrap, PutEmail, PutAuth, PostCertificate,
       UploadCertificate, UpsertProxyHost, FlagNPM, Request
  <2>4. CASE Complete(r)
    BY <2>4 DEF Complete, VerifyAll, FlagSentinel, WipeSecret, Scrub
  <2>5. QED
    BY <1>1, <2>1, <2>2, <2>3, <2>4 DEF RunFinalize
<1>2. CASE \/ PostPage \/ (\E p \in Providers : PostDNS(p))
           \/ (\E f \in Forms : PostAdmin(f))
           \/ HandleForm \/ Crash \/ UNCHANGED vars
  BY <1>2 DEF PostPage, PostDNS, PostAdmin, Post, HandleForm, SaveForm, CacheSecret,
     Crash, vars
<1>3. CASE RemoveSentinel
  BY <1>3 DEF RemoveSentinel
<1>4. QED
  BY <1>1, <1>2, <1>3 DEF Next

LEMMA ServedStep ==
  TypeInv /\ FlagInv /\ LockedIsServed /\ [Next]_vars => LockedIsServed'
<1> SUFFICES ASSUME TypeInv, FlagInv, LockedIsServed, [Next]_vars, sentinel'
             PROVE  cert'.issued /\ npm'.cert = "pem" /\ HostSet \subseteq npm'.hosts
  BY DEF LockedIsServed
<1>1. Grows
  BY AllGrow
<1>2. CASE sentinel
  BY <1>1, <1>2 DEF LockedIsServed, Grows
<1>3. CASE ~sentinel
  <2>1. \E r \in Runs : TouchSentinel(r)
    BY <1>3, OnlyTouchLocks
  <2>2. PICK r \in Runs : TouchSentinel(r)
    BY <2>1
  <2>3. Achieved(pc[r], mine[r]) /\ pc[r] = "sentinel"
    BY <2>2 DEF FlagInv, TouchSentinel
  <2>4. Honest(mine[r]) /\ {"cert", "npm"} \subseteq mine[r].done
    BY <2>3 DEF Achieved, Known, Finishing, Steps
  <2>5. QED
    BY <1>1, <2>4 DEF Honest, Grows
<1>4. QED
  BY <1>2, <1>3

\* A wizard that has locked itself leaves an installation that is served: the
\* last verification is not needed for that, since no flag is ahead of the
\* world and nothing takes a certificate or a host away again.
THEOREM LockedServes == Spec => []LockedIsServed
<1>1. Init => LockedIsServed
  BY DEF Init, LockedIsServed
<1>2. QED
  BY <1>1, ServedStep, AlwaysFlagged, PTL DEF Spec

\* Where nobody removes the sentinel, "all steps complete" is told only by a
\* wizard that is locked.
THEOREM DoneIsLocked == MaxReruns = 0 /\ Spec => DoneMeansLocked
<1> SUFFICES ASSUME MaxReruns = 0 PROVE Spec => DoneMeansLocked
  OBVIOUS
<1>1. (TypeInv /\ FlagInv)' =>
        [\A r \in Runs : pc[r] # "done" /\ pc'[r] = "done" => sentinel']_vars
  BY DEF FlagInv, Achieved, Closed
<1>2. QED
  BY <1>1, AlwaysFlagged, PTL DEF DoneMeansLocked

-----------------------------------------------------------------------------
(* One run at a time.  Beside another run, which rewrites the env file from   *)
(* the bytes it read, or truncates users_database.yml, neither of these holds. *)

OneRun == \A q, r \in Runs : q = r

\* Authelia's configuration follows the env file, and that the plaintext files.
Paired ==
  \A c \in ClientSet :
    /\ oidc.env[c] # Placeholder => oidc.env[c] = oidc.plain[c]
    /\ oidc.conf[c] # Placeholder => oidc.conf[c] = oidc.env[c]

\* A run that rotates client c has read the env file as it still is, without a
\* hash for c.
Rotating(r) ==
  LET c == Clients[loc[r].i]
  IN  /\ pc[r] \in {"oidc_plain", "oidc_env"} =>
           loc[r].env = oidc.env /\ (c \in ClientSet => oidc.env[c] = Placeholder)
      /\ pc[r] = "oidc_env" => (c \in ClientSet => oidc.plain[c] = loc[r].secret)

\* A run that is about to lock the wizard has found what it verified.
Locking(r) ==
  pc[r] = "sentinel" =>
    /\ users[mine[r].name] # None
    /\ \A c \in ClientSet : oidc.conf[c] # Placeholder

AloneInv == Paired /\ \A r \in Runs : Rotating(r) /\ Locking(r)

Delicate == {"oidc_plain", "oidc_env", "sentinel"}

LEMMA PairedAfter ==
  ASSUME Paired, UNCHANGED oidc
  PROVE  Paired'
BY DEF Paired

\* The only run is where it claims nothing.
LEMMA AloneMove ==
  ASSUME OneRun, NEW r \in Runs, pc'[r] \notin Delicate, Paired'
  PROVE  AloneInv'
BY DEF AloneInv, OneRun, Rotating, Locking, Delicate

LEMMA Whereabouts ==
  ASSUME TypeInv, NEW r \in Runs
  PROVE  /\ \A p : GoTo(r, p) => pc'[r] = p
         /\ \A p : Keep(r, p) => pc'[r] = p
         /\ \A p : Return(r, p) => pc'[r] = p
         /\ \A step \in Steps : Flag(r, step) => pc'[r] \notin Delicate
<1>1. pc \in [Runs -> Positions]
  BY DEF TypeInv, RunsOK
<1>2. ASSUME NEW step \in Steps, Flag(r, step) PROVE pc'[r] \notin Delicate
  <2> DEFINE s == [mine[r] EXCEPT !.done = @ \cup {step}]
  <2>1. s \in StateType
    BY DEF TypeInv, RunsOK, StateType, Steps
  <2>2. Todo(s) \notin Delicate
    BY <2>1, TodoFacts DEF Delicate, Steps
  <2>3. pc'[r] = Todo(s)
    BY <1>1, <1>2 DEF Flag, GoTo
  <2>4. QED
    BY <2>2, <2>3
<1>3. QED
  BY <1>1, <1>2 DEF GoTo, Keep, Return

LEMMA WriteAdminAlone ==
  ASSUME TypeInv, AloneInv, OneRun, NEW r \in Runs, WriteAdmin(r)
  PROVE  AloneInv'
<1>1. Paired'
  BY PairedAfter DEF AloneInv, WriteAdmin, WriteAdminLoad, WriteAdminTruncate,
     WriteAdminWrite, FlagUsers
<1>2. pc'[r] \notin Delicate
  <2>1. CASE WriteAdminLoad(r) \/ WriteAdminTruncate(r) \/ WriteAdminWrite(r)
    BY <2>1, Whereabouts DEF WriteAdminLoad, WriteAdminTruncate, WriteAdminWrite, Delicate
  <2>2. CASE FlagUsers(r)
    BY <2>2, Whereabouts DEF FlagUsers, Delicate, Steps
  <2>3. QED
    BY <2>1, <2>2 DEF WriteAdmin
<1>3. QED
  BY <1>1, <1>2, AloneMove

LEMMA RotateReadAlone ==
  ASSUME TypeInv, AloneInv, OneRun, NEW r \in Runs, RotateRead(r)
  PROVE  AloneInv'
<1> DEFINE c == Clients[loc[r].i]
<1>1. Paired'
  BY PairedAfter DEF AloneInv, RotateRead
<1>2. CASE NextClient(r)
  <2>1. pc'[r] \notin Delicate
    BY <1>2, Whereabouts DEF NextClient, Delicate, Steps
  <2>2. QED
    BY <1>1, <2>1, AloneMove
<1>3. CASE ~NextClient(r)
  <2>1. /\ oidc.env[c] = Placeholder \/ oidc.plain[c] = Placeholder
        /\ loc' = [loc EXCEPT ![r].env = oidc.env]
        /\ pc'[r] = "oidc_plain" /\ UNCHANGED oidc
    BY <1>3, Whereabouts DEF RotateRead
  <2>2. c \in ClientSet => oidc.env[c] = Placeholder
    BY <2>1 DEF AloneInv, Paired
  <2>3. loc'[r].env = oidc.env /\ loc'[r].i = loc[r].i
    BY <2>1 DEF TypeInv, RunsOK, LocalsType
  <2>4. Rotating(r)' /\ Locking(r)'
    BY <2>1, <2>2, <2>3 DEF Rotating, Locking
  <2>5. QED
    BY <1>1, <2>4 DEF AloneInv, OneRun
<1>4. QED
  BY <1>2, <1>3

LEMMA RotatePlainAlone ==
  ASSUME TypeInv, AloneInv, OneRun, NEW r \in Runs, RotatePlain(r)
  PROVE  AloneInv'
<1> DEFINE c == Clients[loc[r].i]
<1>1. CASE Return(r, "failed") /\ UNCHANGED oidc
  BY <1>1, PairedAfter, Whereabouts, AloneMove DEF AloneInv, Delicate
<1>2. ASSUME NEW secret,
             oidc' = [oidc EXCEPT !.plain[c] = secret],
             loc' = [loc EXCEPT ![r].secret = secret],
             GoTo(r, "oidc_env"), pc[r] = "oidc_plain"
      PROVE  AloneInv'
  <2>1. /\ oidc'.env = oidc.env /\ oidc'.conf = oidc.conf
        /\ oidc'.plain = [oidc.plain EXCEPT ![c] = secret]
        /\ DOMAIN oidc.plain = ClientSet
    BY <1>2 DEF TypeInv, StoresOK, Rotation
  <2>2. /\ loc[r].env = oidc.env
        /\ c \in ClientSet => oidc.env[c] = Placeholder
    BY <1>2 DEF AloneInv, Rotating
  <2>3. Paired'
    BY <2>1, <2>2 DEF AloneInv, Paired
  <2>4. loc'[r].env = loc[r].env /\ loc'[r].i = loc[r].i /\ loc'[r].secret = secret
    BY <1>2 DEF TypeInv, RunsOK, LocalsType
  <2>5. pc'[r] = "oidc_env"
    BY <1>2, Whereabouts
  <2>6. Rotating(r)' /\ Locking(r)'
    BY <2>1, <2>2, <2>4, <2>5 DEF Rotating, Locking
  <2>7. QED
    BY <2>3, <2>6 DEF AloneInv, OneRun
<1>3. QED
  BY <1>1, <1>2 DEF RotatePlain

LEMMA RotateEnvAlone ==
  ASSUME TypeInv, AloneInv, OneRun, NEW r \in Runs, RotateEnv(r)
  PROVE  AloneInv'
<1> DEFINE c == Clients[loc[r].i]
<1>1. CASE Return(r, "failed") /\ UNCHANGED oidc
  BY <1>1, PairedAfter, Whereabouts, AloneMove DEF AloneInv, Delicate
<1>2. CASE /\ oidc' = [oidc EXCEPT !.env = [loc[r].env EXCEPT ![c] = loc[r].secret]]
           /\ NextClient(r)
  <2>1. /\ loc[r].env = oidc.env
        /\ c \in ClientSet => oidc.env[c] = Placeholder /\ oidc.plain[c] = loc[r].secret
    BY DEF AloneInv, Rotating, RotateEnv
  <2>2. /\ oidc'.plain = oidc.plain /\ oidc'.conf = oidc.conf
        /\ oidc'.env = [oidc.env EXCEPT ![c] = loc[r].secret]
        /\ DOMAIN oidc.env = ClientSet
    BY <1>2, <2>1 DEF TypeInv, StoresOK, Rotation
  <2>3. Paired'
    BY <2>1, <2>2 DEF AloneInv, Paired
  <2>4. pc'[r] \notin Delicate
    BY <1>2, Whereabouts DEF NextClient, Delicate, Steps
  <2>5. QED
    BY <2>3, <2>4, AloneMove
<1>3. QED
  BY <1>1, <1>2 DEF RotateEnv

LEMMA TemplatesAlone ==
  ASSUME TypeInv, AloneInv, OneRun, NEW r \in Runs, Templates(r)
  PROVE  AloneInv'
<1>1. CASE RenderTemplates(r)
  <2>1. Paired'
    <3>1. UNCHANGED oidc => Paired'
      BY PairedAfter DEF AloneInv
    <3>2. oidc' = [oidc EXCEPT !.conf = oidc.env] => Paired'
      BY DEF AloneInv, Paired, TypeInv, StoresOK
    <3>3. QED
      BY <1>1, <3>1, <3>2 DEF RenderTemplates
  <2>2. pc'[r] \notin Delicate
    BY <1>1, Whereabouts DEF RenderTemplates, Delicate
  <2>3. QED
    BY <2>1, <2>2, AloneMove
<1>2. CASE FlagTemplates(r)
  <2>1. pc'[r] \notin Delicate
    BY <1>2, Whereabouts DEF FlagTemplates, Delicate, Steps
  <2>2. QED
    BY <1>2, <2>1, PairedAfter, AloneMove DEF FlagTemplates, AloneInv
<1>3. QED
  BY <1>1, <1>2 DEF Templates

LEMMA IssueCertAlone ==
  ASSUME TypeInv, AloneInv, OneRun, NEW r \in Runs, IssueCert(r)
  PROVE  AloneInv'
<1>1. Paired'
  BY PairedAfter DEF AloneInv, IssueCert, WriteCreds, Certbot, FlagCert
<1>2. CASE WriteCreds(r) \/ Certbot(r)
  BY <1>1, <1>2, Whereabouts, AloneMove DEF WriteCreds, Certbot, Delicate
<1>3. CASE FlagCert(r)
  <2>1. pc'[r] \notin Delicate
    BY <1>3, Whereabouts DEF FlagCert, Delicate, Steps
  <2>2. QED
    BY <1>1, <2>1, AloneMove
<1>4. QED
  BY <1>2, <1>3 DEF IssueCert

LEMMA WireNPMAlone ==
  ASSUME TypeInv, AloneInv, OneRun, NEW r \in Runs, WireNPM(r)
  PROVE  AloneInv'
<1>1. Paired'
  BY PairedAfter DEF AloneInv, WireNPM, Bootstrap, PutEmail, PutAuth, PostCertificate,
     UploadCertificate, UpsertProxyHost, FlagNPM, Request
<1>2. pc'[r] \notin Delicate
  <2>1. CASE Bootstrap(r) \/ UpsertProxyHost(r)
    BY <2>1, Whereabouts DEF Bootstrap, UpsertProxyHost, Delicate
  <2>2. CASE PutEmail(r) \/ PutAuth(r) \/ PostCertificate(r) \/ UploadCertificate(r)
    BY <2>2, Whereabouts DEF PutEmail, PutAuth, PostCertificate, UploadCertificate,
       Request, Delicate
  <2>3. CASE FlagNPM(r)
    BY <2>3, Whereabouts DEF FlagNPM, Delicate, Steps
  <2>4. QED
    BY <2>1, <2>2, <2>3 DEF WireNPM
<1>3. QED
  BY <1>1, <1>2, AloneMove

LEMMA CompleteAlone ==
  ASSUME TypeInv, AloneInv, OneRun, NEW r \in Runs, Complete(r)
  PROVE  AloneInv'
<1>1. Paired'
  BY PairedAfter DEF AloneInv, Complete, VerifyAll, TouchSentinel, FlagSentinel,
     WipeSecret, Scrub
<1>2. CASE VerifyAll(r)
  <2>1. CASE pc'[r] \notin Delicate
    BY <1>1, <2>1, AloneMove
  <2>2. CASE FinalizeVerifyAll(mine[r]) /\ pc'[r] = "sentinel" /\ UNCHANGED mine
    <3>1. UNCHANGED <<users, oidc>>
      BY <1>2 DEF VerifyAll
    <3>2. Locking(r)'
      BY <2>2, <3>1 DEF Locking, FinalizeVerifyAll, VerifyUsersDB, VerifyTemplatesRendered
    <3>3. Rotating(r)'
      BY <2>2 DEF Rotating
    <3>4. QED
      BY <1>1, <3>2, <3>3 DEF AloneInv, OneRun
  <2>3. QED
    BY <1>2, <2>1, <2>2, Whereabouts DEF VerifyAll, Delicate, Keep
<1>3. CASE TouchSentinel(r) \/ WipeSecret(r) \/ Scrub(r)
  BY <1>1, <1>3, Whereabouts, AloneMove DEF TouchSentinel, WipeSecret, Scrub, Delicate
<1>4. CASE FlagSentinel(r)
  BY <1>1, <1>4, Whereabouts, AloneMove DEF FlagSentinel, Delicate
<1>5. QED
  BY <1>2, <1>3, <1>4 DEF Complete

LEMMA NextAlone == OneRun /\ TypeInv /\ AloneInv /\ [Next]_vars => AloneInv'
<1> SUFFICES ASSUME OneRun, TypeInv, AloneInv, [Next]_vars PROVE AloneInv'
  OBVIOUS
<1>1. ASSUME NEW r \in Runs, Start(r) PROVE AloneInv'
  <2>1. Paired' /\ pc'[r] = Todo(st) /\ st \in StateType
    BY <1>1, PairedAfter, Whereabouts DEF Start, AloneInv, TypeInv, StateOK
  <2>2. pc'[r] \notin Delicate
    BY <2>1, TodoFacts DEF Delicate, Steps
  <2>3. QED
    BY <2>1, <2>2, AloneMove
<1>2. ASSUME NEW r \in Runs, RunFinalize(r) PROVE AloneInv'
  BY <1>2, WriteAdminAlone, RotateReadAlone, RotatePlainAlone, RotateEnvAlone,
     TemplatesAlone, IssueCertAlone, WireNPMAlone, CompleteAlone
     DEF RunFinalize, RotateSecrets
<1>3. ASSUME UNCHANGED <<pc, mine, loc, users, oidc>> PROVE AloneInv'
  BY <1>3 DEF AloneInv, Paired, Rotating, Locking
<1>4. CASE PostPage \/ (\E p \in Providers : PostDNS(p)) \/ (\E f \in Forms : PostAdmin(f))
  BY <1>3, <1>4 DEF PostPage, PostDNS, PostAdmin, Post
<1>5. CASE HandleForm \/ RemoveSentinel \/ UNCHANGED vars
  BY <1>3, <1>5 DEF HandleForm, SaveForm, CacheSecret, RemoveSentinel, vars
<1>6. CASE Crash
  <2>1. Paired'
    BY <1>6, PairedAfter DEF AloneInv, Crash
  <2>2. \A r \in Runs : pc'[r] = "idle"
    BY <1>6 DEF Crash
  <2>3. QED
    BY <2>1, <2>2 DEF AloneInv, Rotating, Locking
<1>7. QED
  BY <1>1, <1>2, <1>4, <1>5, <1>6 DEF Next

LEMMA InitAlone == Init => AloneInv
BY DEF Init, AloneInv, Paired, Rotating, Locking

LEMMA AlwaysAlone == OneRun /\ Spec => [](TypeInv /\ AloneInv)
<1> SUFFICES ASSUME OneRun PROVE Spec => [](TypeInv /\ AloneInv)
  OBVIOUS
<1>1. TypeInv /\ AloneInv /\ [Next]_vars => AloneInv'
  BY NextAlone
<1>2. QED
  BY <1>1, InitType, NextType, InitAlone, PTL DEF Spec

\* While finalize is not run twice at once, a client's hash always belongs to
\* the plaintext the client is given, wherever a rotation fails or dies, and
\* however many clients there are.
THEOREM SecretsStayPaired == OneRun /\ Spec => []SecretsPaired
<1>1. TypeInv /\ AloneInv => SecretsPaired
  BY DEF AloneInv, Paired, SecretsPaired
<1>2. QED
  BY <1>1, AlwaysAlone, PTL

\* While finalize is not run twice at once, the wizard locks itself only with
\* the administrator in users_database.yml and no placeholder in Authelia's
\* configuration.
THEOREM LocksWithAnAdmin == OneRun /\ Spec => LocksWithAdmin
<1> SUFFICES ASSUME OneRun PROVE Spec => LocksWithAdmin
  OBVIOUS
<1> DEFINE A == ~sentinel /\ sentinel' =>
                  \E r \in Runs : /\ pc[r] = "sentinel"
                                  /\ users[mine[r].name] # None
                                  /\ \A c \in ClientSet : oidc.conf[c] # Placeholder
<1>1. TypeInv /\ AloneInv /\ [Next]_vars => [A]_vars
  <2> SUFFICES ASSUME TypeInv, AloneInv, [Next]_vars, ~sentinel, sentinel' PROVE A
    OBVIOUS
  <2>1. PICK r \in Runs : TouchSentinel(r)
    BY OnlyTouchLocks
  <2>2. pc[r] = "sentinel" /\ Locking(r)
    BY <2>1 DEF TouchSentinel, AloneInv
  <2>3. QED
    BY <2>2 DEF Locking
<1>2. QED
  BY <1>1, AlwaysAlone, PTL DEF Spec, LocksWithAdmin

=============================================================================
