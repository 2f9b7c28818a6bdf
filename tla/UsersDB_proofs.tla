---------------------------- MODULE UsersDB_proofs ----------------------------
(***************************************************************************)
(* Proofs about UsersDB, for any accounts, requests, faults and crashes.   *)
(***************************************************************************)
EXTENDS UsersDB, TLAPS

\* A request that has begun has a form; from the lock on its handler holds
\* s.mu, so that no two are between lock and answer.
Serving ==
  \A h \in Handlers :
    /\ req[h].at # "idle" => req[h].form \in Forms
    /\ req[h].at \in {"load", "truncate", "write"} => mu = h

TypeInv == TypeOK /\ Serving

\* The copy a handler is to write is what was answered before, but for the account
\* it was asked to change, and the check it made of that one still stands; of
\* spoiled accounts nothing is known.
Faithful(h) ==
  LET form == req[h].form
  IN  /\ form.user \notin spoiled => Permits(acked, form)
      /\ \A u \in Users \ spoiled : u # form.user => req[h].db[u] = acked[u]

Copies ==
  /\ \A h \in Handlers : req[h].at \in {"truncate", "write"} => Faithful(h)
  /\ (\A h \in Handlers : req[h].at # "write") =>
       \A u \in Users \ spoiled : file[u] = acked[u]

Inv == TypeInv /\ Copies

-----------------------------------------------------------------------------
(* The operators *)

\* An account is not taken for a missing one.
LEMMA AccountIsNot ==
  NoAccount \notin Account
  BY UsersAssumption DEF NoAccount, Account

\* A permitted change of an account gives an account, or removes it.
LEMMA ChangedIsAccount ==
  ASSUME NEW db \in Accounts, NEW form \in Forms, Permits(db, form)
  PROVE  Changed(db[form.user], form) \in Account \cup {NoAccount}
<1> DEFINE u == form.user
<1>0. u \in Users /\ db[u] \in Account \cup {NoAccount}
  BY DEF Forms, Accounts
<1>1. CASE form \in [kind : {"create"}, user : Users, pw : Passwords, profile : Profiles]
  BY <1>1 DEF Changed, Account
<1>2. CASE form \in [kind : {"edit"}, user : Users, profile : Profiles]
  <2>1. form.kind = "edit" /\ form.profile \in Profiles
    BY <1>2
  <2>2. db[u] \in Account
    BY <1>0, <2>1 DEF Permits
  <2> QED BY <2>1, <2>2 DEF Changed, Account
<1>3. CASE form \in [kind : {"password"}, user : Users, pw : Passwords]
  <2>1. form.kind = "password" /\ form.pw \in Passwords
    BY <1>3
  <2>2. db[u] \in Account
    BY <1>0, <2>1 DEF Permits
  <2> QED BY <2>1, <2>2 DEF Changed, Account
<1>4. CASE form \in [kind : {"self"}, user : Users, pw : Passwords, current : Passwords]
  <2>1. form.kind = "self" /\ form.pw \in Passwords
    BY <1>4
  <2>2. db[u] \in Account
    BY <1>0, <2>1 DEF Permits
  <2> QED BY <2>1, <2>2 DEF Changed, Account
<1>5. CASE form \in [kind : {"delete"}, user : Users]
  BY <1>5 DEF Changed
<1> QED BY <1>1, <1>2, <1>3, <1>4, <1>5 DEF Forms

\* Permission and change depend on the one account of the form.
LEMMA FormUser ==
  ASSUME NEW form \in Forms
  PROVE  form.user \in Users /\ form # NoForm
  BY UsersAssumption DEF Forms, NoForm, None

-----------------------------------------------------------------------------
(* Types *)

LEMMA InitType == Init => TypeInv
<1> SUFFICES ASSUME Init PROVE TypeInv
  OBVIOUS
<1>1. Nobody \in Accounts
  BY DEF Nobody, Accounts
<1>2. TypeOK
  BY <1>1, UsersAssumption DEF Init, TypeOK, Idle, Places, Accounts
<1>3. Serving
  BY DEF Init, Serving, Idle
<1> QED BY <1>2, <1>3 DEF TypeInv

\* An answer, whatever it says, leaves the other handlers to themselves.
LEMMA ReturnType ==
  ASSUME TypeInv, NEW h \in Handlers, Return(h), req[h].at \in {"load", "truncate", "write"}
  PROVE  /\ mu' \in Handlers \cup {None}
         /\ req' \in [Handlers -> [at : Places, form : Forms \cup {NoForm}, db : Accounts]]
         /\ Serving'
         /\ \A g \in Handlers : req'[g].at \notin {"load", "truncate", "write"}
<1>1. Idle \in [at : Places, form : Forms \cup {NoForm}, db : Accounts] /\ Idle.at = "idle"
  BY DEF Idle, Places, Accounts, Nobody
<1>2. req'[h] = Idle /\ \A g \in Handlers \ {h} : req'[g] = req[g]
  BY DEF Return, TypeInv, TypeOK
<1>3. \A g \in Handlers \ {h} : req[g].at \notin {"load", "truncate", "write"}
  BY DEF TypeInv, Serving
<1>4. \A g \in Handlers : req'[g].at \notin {"load", "truncate", "write"}
  BY <1>1, <1>2, <1>3
<1>5. Serving'
  BY <1>1, <1>2, <1>4 DEF TypeInv, Serving
<1>6. req' \in [Handlers -> [at : Places, form : Forms \cup {NoForm}, db : Accounts]]
  BY <1>1 DEF Return, TypeInv, TypeOK
<1> QED BY <1>4, <1>5, <1>6 DEF Return

\* The copy of a handler has the type of the file.
LEMMA CopyType ==
  ASSUME NEW db \in Accounts, NEW form \in Forms, Permits(db, form)
  PROVE  [db EXCEPT ![form.user] = Changed(@, form)] \in Accounts
<1>1. Changed(db[form.user], form) \in Account \cup {NoAccount}
  BY ChangedIsAccount
<1> QED BY <1>1, FormUser DEF Accounts

LEMMA MayFailType ==
  ASSUME TypeOK, MayFail
  PROVE  left' \in [faults : Nat, crashes : Nat]
  BY DEF TypeOK, MayFail

LEMMA NextType == TypeInv /\ [Next]_vars => TypeInv'
<1> SUFFICES ASSUME TypeInv, [Next]_vars PROVE TypeInv'
  OBVIOUS
<1> USE DEF TypeInv
<1>0. Nobody \in Accounts
  BY DEF Nobody, Accounts
<1>1. ASSUME NEW h \in Handlers, NEW form \in Forms, Arrive(h, form)
      PROVE  TypeInv'
  <2>1. TypeOK'
    <3> DEFINE R == [at : Places, form : Forms \cup {NoForm}, db : Accounts]
    <3>1. [req[h] EXCEPT !.at = "lock", !.form = form] \in R
      BY DEF TypeOK, Places
    <3>2. req' = [req EXCEPT ![h] = [req[h] EXCEPT !.at = "lock", !.form = form]]
      BY <1>1 DEF Arrive
    <3>3. req \in [Handlers -> R]
      BY DEF TypeOK
    <3> HIDE DEF R
    <3>4. req' \in [Handlers -> R]
      BY <3>1, <3>2, <3>3
    <3>5. QED BY <1>1, <3>4 DEF TypeOK, Arrive, R
  <2>2. Serving'
    BY <1>1 DEF TypeOK, Serving, Arrive, Idle
  <2> QED BY <2>1, <2>2
<1>2. ASSUME NEW h \in Handlers, Lock(h)
      PROVE  TypeInv'
  <2>1. TypeOK'
    BY <1>2 DEF TypeOK, Lock, Places
  <2>2. Serving'
    BY <1>2, UsersAssumption DEF TypeOK, Serving, Lock
  <2> QED BY <2>1, <2>2
<1>3. ASSUME NEW h \in Handlers, Refuse(h), NoFault \/ MayFail, req[h].at \in {"load", "truncate"}
      PROVE  TypeInv'
  BY <1>3, ReturnType, MayFailType DEF TypeOK, Refuse, NoFault
<1>4. ASSUME NEW h \in Handlers, Load(h)
      PROVE  TypeInv'
  <2> DEFINE form == req[h].form
  <2>1. CASE /\ Permits(file, form)
             /\ req' = [req EXCEPT ![h].at = "truncate",
                  ![h].db = [file EXCEPT ![form.user] = Changed(@, form)]]
             /\ NoFault
             /\ UNCHANGED <<file, mu, acked, spoiled>>
    <3>1. form \in Forms
      BY <1>4 DEF Load, Serving
    <3>2. [file EXCEPT ![form.user] = Changed(@, form)] \in Accounts
      BY <2>1, <3>1, CopyType DEF TypeOK
    <3>3. TypeOK'
      <4> DEFINE R == [at : Places, form : Forms \cup {NoForm}, db : Accounts]
                 new == [file EXCEPT ![form.user] = Changed(@, form)]
      <4>1. [req[h] EXCEPT !.at = "truncate", !.db = new] \in R
        <5> HIDE DEF new
        <5>1. QED BY <3>2 DEF TypeOK, Places, new
      <4>2. req' = [req EXCEPT ![h] = [req[h] EXCEPT !.at = "truncate", !.db = new]]
        BY <2>1
      <4>3. req \in [Handlers -> R]
        BY DEF TypeOK
      <4> HIDE DEF R, new
      <4>4. req' \in [Handlers -> R]
        BY <4>1, <4>2, <4>3
      <4>5. QED BY <2>1, <4>4 DEF TypeOK, NoFault, R
    <3>4. Serving'
      BY <2>1, <1>4 DEF TypeOK, Serving, Load
    <3> QED BY <3>3, <3>4
  <2> QED BY <1>3, <1>4, <2>1 DEF Load
<1>5. ASSUME NEW h \in Handlers, Truncate(h)
      PROVE  TypeInv'
  <2>1. CASE /\ file' = Nobody
             /\ req' = [req EXCEPT ![h].at = "write"]
             /\ NoFault
             /\ UNCHANGED <<mu, acked, spoiled>>
    <3>1. TypeOK'
      BY <2>1, <1>0 DEF TypeOK, NoFault, Places
    <3>2. Serving'
      BY <2>1, <1>5 DEF TypeOK, Serving, Truncate
    <3> QED BY <3>1, <3>2
  <2> QED BY <1>3, <1>5, <2>1 DEF Truncate
<1>6. ASSUME NEW h \in Handlers, Write(h)
      PROVE  TypeInv'
  <2>1. req[h].db \in Accounts /\ req[h].form.user \in Users
    BY <1>6, FormUser DEF TypeOK, Serving, Write
  <2>2. file' \in Accounts /\ acked' \in Accounts /\ spoiled' \subseteq Users
    BY <1>6, <2>1 DEF TypeOK, Write, Acknowledge, Spoil, Accounts
  <2>3. left' \in [faults : Nat, crashes : Nat]
    BY <1>6, MayFailType DEF TypeOK, Write, NoFault
  <2>4. Return(h) /\ req[h].at = "write"
    BY <1>6 DEF Write
  <2> QED BY <2>2, <2>3, <2>4, ReturnType DEF TypeOK
<1>7. ASSUME Crash PROVE TypeInv'
  <2>1. Idle \in [at : Places, form : Forms \cup {NoForm}, db : Accounts] /\ Idle.at = "idle"
    BY <1>0 DEF Idle, Places
  <2>2. TypeOK'
    BY <1>7, <2>1 DEF TypeOK, Crash, Spoil
  <2>3. Serving'
    BY <1>7, <2>1 DEF Serving, Crash
  <2> QED BY <2>2, <2>3
<1>8. CASE UNCHANGED vars
  BY <1>8 DEF vars, TypeOK, Serving
<1> QED BY <1>1, <1>2, <1>4, <1>5, <1>6, <1>7, <1>8 DEF Next, Handle

\* The file, the copies of the handlers and the lock keep their types, and no
\* account is ever without a password: every handler checks that the account
\* exists before it changes it.
THEOREM AccountsTypeCorrect == Spec => []TypeOK
<1>1. TypeInv => TypeOK
  BY DEF TypeInv
<1> QED BY <1>1, InitType, NextType, PTL DEF Spec

-----------------------------------------------------------------------------
(* What was answered is what is kept *)

\* With nobody between lock and answer there is no copy to speak of.
LEMMA AtRest ==
  ASSUME \A u \in Users \ spoiled' : file'[u] = acked'[u],
         \A g \in Handlers : req'[g].at \notin {"load", "truncate", "write"}
  PROVE  Copies'
  BY DEF Copies

LEMMA NextCopies == Inv /\ [Next]_vars => Copies'
<1> SUFFICES ASSUME Inv, [Next]_vars PROVE Copies'
  OBVIOUS
<1> USE DEF Inv
<1>1. ASSUME NEW h \in Handlers, NEW form \in Forms, Arrive(h, form)
      PROVE  Copies'
  <2>1. req'[h].at = "lock" /\ req[h].at = "idle"
    BY <1>1 DEF TypeInv, TypeOK, Arrive, Idle
  <2>2. \A g \in Handlers \ {h} : req'[g] = req[g]
    BY <1>1 DEF TypeInv, TypeOK, Arrive
  <2>3. \A g \in Handlers \ {h} : Faithful(g) => Faithful(g)'
    <3>1. acked' = acked /\ spoiled' = spoiled
      BY <1>1 DEF Arrive
    <3> QED BY <2>2, <3>1 DEF Faithful, Permits
  <2> QED BY <1>1, <2>1, <2>2, <2>3 DEF Arrive, Copies
<1>2. ASSUME NEW h \in Handlers, Lock(h)
      PROVE  Copies'
  <2>1. req'[h].at = "load" /\ req[h].at = "lock"
    BY <1>2 DEF TypeInv, TypeOK, Lock
  <2>2. \A g \in Handlers \ {h} : req'[g] = req[g]
    BY <1>2 DEF TypeInv, TypeOK, Lock
  <2>3. \A g \in Handlers \ {h} : Faithful(g) => Faithful(g)'
    BY <1>2, <2>2 DEF Lock, Faithful
  <2> QED BY <1>2, <2>1, <2>2, <2>3 DEF Lock, Copies
<1>3. ASSUME NEW h \in Handlers, Refuse(h), req[h].at \in {"load", "truncate"}
      PROVE  Copies'
  <2>1. \A g \in Handlers : req[g].at # "write"
    BY <1>3 DEF TypeInv, Serving
  <2>2. \A u \in Users \ spoiled' : file'[u] = acked'[u]
    BY <1>3, <2>1 DEF Copies, Refuse
  <2> QED BY <1>3, <2>2, ReturnType, AtRest DEF Refuse
<1>4. ASSUME NEW h \in Handlers, Load(h)
      PROVE  Copies'
  <2> DEFINE form == req[h].form
  <2>1. CASE /\ Permits(file, form)
             /\ req' = [req EXCEPT ![h].at = "truncate",
                  ![h].db = [file EXCEPT ![form.user] = Changed(@, form)]]
             /\ NoFault
             /\ UNCHANGED <<file, mu, acked, spoiled>>
    <3>1. req[h].at = "load" /\ \A g \in Handlers \ {h} : req[g].at \notin {"truncate", "write"}
      BY <1>4 DEF TypeInv, Serving, Load
    <3>2. \A u \in Users \ spoiled : file[u] = acked[u]
      BY <3>1 DEF Copies
    <3>3. /\ req'[h].at = "truncate" /\ req'[h].form = form
          /\ req'[h].db = [file EXCEPT ![form.user] = Changed(file[form.user], form)]
          /\ \A g \in Handlers \ {h} : req'[g] = req[g]
      BY <2>1, <1>4, FormUser DEF TypeInv, TypeOK, Serving, Accounts, Load
    <3>5. form.user \in Users
      BY <1>4, FormUser DEF TypeInv, Serving, Load
    <3>6. form.user \notin spoiled => Permits(acked, form)
      BY <2>1, <3>2, <3>5 DEF Permits
    <3>7. \A u \in Users \ spoiled : u # form.user => req'[h].db[u] = acked[u]
      BY <3>2, <3>3 DEF TypeInv, TypeOK, Accounts
    <3>4. Faithful(h)'
      <4>1. acked' = acked /\ spoiled' = spoiled /\ req'[h].form = form
        BY <2>1, <3>3
      <4> HIDE DEF form
      <4> QED BY <3>6, <3>7, <4>1 DEF Faithful
    <3> QED BY <2>1, <3>1, <3>2, <3>3, <3>4 DEF Copies
  <2> QED BY <1>3, <1>4, <2>1 DEF Load
<1>5. ASSUME NEW h \in Handlers, Truncate(h)
      PROVE  Copies'
  <2>1. CASE /\ file' = Nobody
             /\ req' = [req EXCEPT ![h].at = "write"]
             /\ NoFault
             /\ UNCHANGED <<mu, acked, spoiled>>
    <3>1. req[h].at = "truncate" /\ \A g \in Handlers \ {h} : req[g].at \notin {"truncate", "write"}
      BY <1>5 DEF TypeInv, Serving, Truncate
    <3>2. /\ req'[h].at = "write" /\ req'[h].form = req[h].form /\ req'[h].db = req[h].db
          /\ \A g \in Handlers \ {h} : req'[g] = req[g]
      BY <2>1 DEF TypeInv, TypeOK
    <3>3. Faithful(h)'
      BY <2>1, <3>1, <3>2 DEF Copies, Faithful
    <3> QED BY <2>1, <3>1, <3>2, <3>3 DEF Copies
  <2> QED BY <1>3, <1>5, <2>1 DEF Truncate
<1>6. ASSUME NEW h \in Handlers, Write(h)
      PROVE  Copies'
  <2> DEFINE u == req[h].form.user
  <2>1. Faithful(h) /\ req[h].at = "write" /\ u \in Users
    BY <1>6, FormUser DEF Copies, Write, TypeInv, Serving
  <2>2. \A v \in Users \ spoiled : v # u => req[h].db[v] = acked[v]
    BY <2>1 DEF Faithful
  <2>3. CASE file' = req[h].db /\ Acknowledge(h)
    <3>1. acked' = [acked EXCEPT ![u] = req[h].db[u]] /\ spoiled' = spoiled \ {u}
      BY <2>3 DEF Acknowledge
    <3>2. \A v \in Users \ spoiled' : file'[v] = acked'[v]
      BY <2>1, <2>2, <2>3, <3>1 DEF TypeInv, TypeOK, Accounts
    <3> QED BY <1>6, <2>1, <3>2, ReturnType, AtRest DEF Write
  <2>4. CASE (file' = req[h].db /\ Spoil({u})) \/ Spoil(Users)
    <3>1. \A v \in Users \ spoiled' : file'[v] = acked'[v]
      BY <2>2, <2>4 DEF Spoil
    <3> QED BY <1>6, <2>1, <3>1, ReturnType, AtRest DEF Write
  <2> QED BY <1>6, <2>3, <2>4 DEF Write
<1>7. ASSUME Crash PROVE Copies'
  <2>1. \A u \in Users \ spoiled' : file'[u] = acked'[u]
    BY <1>7 DEF Crash, Spoil, Copies
  <2> QED BY <1>7, <2>1, AtRest DEF Crash, Idle
<1>8. CASE UNCHANGED vars
  BY <1>8 DEF vars, Copies, Faithful
<1> QED BY <1>1, <1>2, <1>4, <1>5, <1>6, <1>7, <1>8 DEF Next, Handle

LEMMA InitCopies == Init => Copies
  BY DEF Init, Copies, Idle

LEMMA InvHolds == Spec => []Inv
<1>1. Init => Inv
  BY InitType, InitCopies DEF Inv
<1>2. Inv /\ [Next]_vars => Inv'
  BY NextType, NextCopies DEF Inv
<1> QED BY <1>1, <1>2, PTL DEF Spec

\* What the handlers have answered is in the file, however requests follow each
\* other and reads fail: no request undoes the answer to another.  A failed sync
\* leaves its own account in doubt, and a write that fails or a crash after the
\* truncation every account, until an answer tells of it again.
THEOREM AnswersAreKept == Spec => []Acknowledged
<1>1. Inv => Acknowledged
  BY DEF Inv, Acknowledged, Copies, Faithful
<1> QED BY <1>1, InvHolds, PTL

\* The user's own change of password replaces the one it was permitted for.
THEOREM OnlyShownIsReplaced == Spec => ReplacesShown
<1> DEFINE Step ==
      \A h \in Handlers :
        LET form == req[h].form
        IN  /\ req[h].at = "write"
            /\ form.kind = "self"
            /\ acked' # acked
            /\ form.user \notin spoiled
            => acked[form.user].pw = form.current
<1>1. Inv /\ [Next]_vars => [Step]_vars
  BY DEF Inv, Copies, Faithful, Permits
<1>2. Spec => [][Step]_vars
  BY <1>1, InvHolds, PTL DEF Spec
<1> QED BY <1>2 DEF ReplacesShown

=============================================================================
