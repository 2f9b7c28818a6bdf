------------------------------- MODULE UsersDB -------------------------------
(***************************************************************************)
(* The accounts of Authelia, users_database.yml: users.go and the handlers *)
(* of server.go that change it.  Each takes s.mu, loads the whole file,    *)
(* checks the request against it, changes one account, and writes the      *)
(* whole file back, which is truncated first.                              *)
(***************************************************************************)
EXTENDS Integers

CONSTANTS
  Users,       \* names of accounts
  Passwords,   \* a hash is known by the password it verifies
  Profiles,    \* display name, email and groups
  Handlers,    \* requests that can be open at once
  MaxFaults,   \* bound on failing reads and writes
  MaxCrashes   \* bound on restarts of the container

None == "none"

ASSUME UsersAssumption ==
  /\ None \notin Passwords \cup Profiles \cup Handlers
  /\ {MaxFaults, MaxCrashes} \subseteq Nat

VARIABLES
  file,     \* users_database.yml
  mu,       \* the handler that holds s.mu
  req,      \* what each handler was asked, where it is, and its UsersDB
  acked,    \* history: the accounts as the answers given describe them
  spoiled,  \* history: accounts that an error or a crash may have left otherwise
  left      \* what remains of the bounds

vars == <<file, mu, req, acked, spoiled, left>>

NoAccount == [pw |-> None, profile |-> None]
Account == [pw : Passwords, profile : Profiles]
Nobody == [u \in Users |-> NoAccount]

\* The forms; "self" is the user's own change of password.
Forms ==
  [kind : {"create"}, user : Users, pw : Passwords, profile : Profiles]
  \cup [kind : {"edit"}, user : Users, profile : Profiles]
  \cup [kind : {"password"}, user : Users, pw : Passwords]
  \cup [kind : {"self"}, user : Users, pw : Passwords, current : Passwords]
  \cup [kind : {"delete"}, user : Users]

NoForm == [kind |-> None]
Idle == [at |-> "idle", form |-> NoForm, db |-> Nobody]

Init ==
  /\ file \in [Users -> Account \cup {NoAccount}]
  /\ mu = None
  /\ req = [h \in Handlers |-> Idle]
  /\ acked = file
  /\ spoiled = {}
  /\ left = [faults |-> MaxFaults, crashes |-> MaxCrashes]

-----------------------------------------------------------------------------

MayFail ==
  /\ left.faults > 0
  /\ left' = [left EXCEPT !.faults = @ - 1]

NoFault == UNCHANGED left

Arrive(h, form) ==
  /\ req[h] = Idle
  /\ req' = [req EXCEPT ![h].at = "lock", ![h].form = form]
  /\ UNCHANGED <<file, mu, acked, spoiled, left>>

\* Mutant: a handler that does not take s.mu.
LockForgotten(h) ==
  /\ req[h].at = "lock"
  /\ mu' = h
  /\ req' = [req EXCEPT ![h].at = "load"]
  /\ UNCHANGED <<file, acked, spoiled, left>>

Lock(h) ==
  /\ req[h].at = "lock"
  /\ mu = None
  /\ mu' = h
  /\ req' = [req EXCEPT ![h].at = "load"]
  /\ UNCHANGED <<file, acked, spoiled, left>>

\* The handler answers, and the deferred Unlock runs.
Return(h) ==
  /\ req' = [req EXCEPT ![h] = Idle]
  /\ mu' = None

\* Mutant: an account that does not exist is not noticed.
PermitsUnknown(db, form) ==
  /\ form.kind = "create" => db[form.user] = NoAccount
  /\ form.kind = "self" => db[form.user].pw = form.current

\* What the handlers check against the file they have loaded: only an account
\* to be created may be missing; a user shows the current password.
Permits(db, form) ==
  /\ form.kind = "create" <=> db[form.user] = NoAccount
  /\ form.kind = "self" => db[form.user].pw = form.current

\* upsert and remove.
Changed(account, form) ==
  CASE form.kind = "create" -> [pw |-> form.pw, profile |-> form.profile]
    [] form.kind = "edit" -> [account EXCEPT !.profile = form.profile]
    [] form.kind \in {"password", "self"} -> [account EXCEPT !.pw = form.pw]
    [] form.kind = "delete" -> NoAccount

\* Mutant: a request that is refused leaves without the Unlock.
RefuseLocked(h) ==
  /\ req' = [req EXCEPT ![h] = Idle]
  /\ UNCHANGED <<file, mu, acked, spoiled>>

\* An error page: nothing was written.
Refuse(h) == Return(h) /\ UNCHANGED <<file, acked, spoiled>>

\* loadUsersDB, the checks, and the change in memory.
Load(h) ==
  LET form == req[h].form
  IN  /\ req[h].at = "load"
      /\ \/ /\ Permits(file, form)
            /\ req' = [req EXCEPT ![h].at = "truncate",
                 ![h].db = [file EXCEPT ![form.user] = Changed(@, form)]]
            /\ NoFault
            /\ UNCHANGED <<file, mu, acked, spoiled>>
         \/ ~Permits(file, form) /\ Refuse(h) /\ NoFault
         \/ Refuse(h) /\ MayFail

\* flush opens the file with O_TRUNC ...
Truncate(h) ==
  /\ req[h].at = "truncate"
  /\ \/ /\ file' = Nobody
        /\ req' = [req EXCEPT ![h].at = "write"]
        /\ NoFault
        /\ UNCHANGED <<mu, acked, spoiled>>
     \/ Refuse(h) /\ MayFail

\* The positive answer: this account is now as requested.
Acknowledge(h) ==
  LET u == req[h].form.user
  IN  /\ acked' = [acked EXCEPT ![u] = req[h].db[u]]
      /\ spoiled' = spoiled \ {u}

\* The answer is an error, or there is none: what the accounts us are now, nobody
\* was told.
Spoil(us) == spoiled' = spoiled \cup us /\ UNCHANGED acked

\* ... and writes and syncs it.  A failed write leaves it empty (one that cuts it
\* short counts as such), a failed sync written; both are answered with an error.
Write(h) ==
  /\ req[h].at = "write"
  /\ \/ file' = req[h].db /\ Acknowledge(h) /\ NoFault
     \/ file' = req[h].db /\ Spoil({req[h].form.user}) /\ MayFail
     \/ UNCHANGED file /\ Spoil(Users) /\ MayFail
  /\ Return(h)

\* The container restarts.  A file that was truncated stays empty, as the
\* comment on flush admits.
Crash ==
  /\ left.crashes > 0
  /\ left' = [left EXCEPT !.crashes = @ - 1]
  /\ req' = [h \in Handlers |-> Idle]
  /\ mu' = None
  /\ Spoil(IF \E h \in Handlers : req[h].at = "write" THEN Users ELSE {})
  /\ UNCHANGED file

Handle(h) == Load(h) \/ Truncate(h) \/ Write(h)

Next ==
  \/ \E h \in Handlers : (\E form \in Forms : Arrive(h, form)) \/ Lock(h) \/ Handle(h)
  \/ Crash

Spec == Init /\ [][Next]_vars

\* Handlers run, and a Go mutex starves no waiter for good.
FairSpec ==
  /\ Spec
  /\ \A h \in Handlers : WF_vars(Handle(h)) /\ SF_vars(Lock(h))

-----------------------------------------------------------------------------
(* Properties *)

Accounts == [Users -> Account \cup {NoAccount}]
Places == {"idle", "lock", "load", "truncate", "write"}

\* The file, the copies and the locks keep their types; no account lacks a
\* password or a profile.
TypeOK ==
  /\ file \in Accounts
  /\ mu \in Handlers \cup {None}
  /\ req \in [Handlers -> [at : Places, form : Forms \cup {NoForm}, db : Accounts]]
  /\ acked \in Accounts
  /\ spoiled \subseteq Users
  /\ left \in [faults : Nat, crashes : Nat]

\* What handlers answered is what the file holds, although each writes back the
\* whole file it loaded, and what the handler that has truncated it is about to
\* write, but for the one account it changes.  Excepted is an account whose last
\* change ended in a failed sync, and every account since a flush was cut off by a
\* failed write or a crash, until an answer tells of it again: flush is not the
\* atomic rename that the comments promise.
Acknowledged ==
  \A u \in Users \ spoiled :
    IF \E h \in Handlers : req[h].at = "write"
    THEN \A h \in Handlers :
           req[h].at = "write" /\ req[h].form.user # u => req[h].db[u] = acked[u]
    ELSE file[u] = acked[u]

\* The user's own change of password replaces the password the user has shown
\* to know, not one that somebody was told is set in the meantime.
ReplacesShown ==
  [][\A h \in Handlers :
       LET form == req[h].form
       IN  /\ req[h].at = "write"
           /\ form.kind = "self"
           /\ acked' # acked
           /\ form.user \notin spoiled
           => acked[form.user].pw = form.current]_vars

\* Every request is answered: on every path, errors included, s.mu is freed.
Answered == \A h \in Handlers : req[h].at = "lock" ~> req[h].at = "idle"
=============================================================================
