------------------------ MODULE PeersRegistry_proofs ------------------------
(***************************************************************************)
(* What the enrolment handlers promise together: whose devices gw0.conf    *)
(* holds, under which names, with which archived keys, what the kernel     *)
(* runs, and that Peers implements DeviceRegistry.                         *)
(***************************************************************************)
EXTENDS Peers_proofs

-----------------------------------------------------------------------------
(* Which handler is where; any failure, a crash anywhere, and the script. *)

\* name is the name of a device of user u.
DeviceName(name, u) == \E t \in Tags : name = PeerNameFor(u, t)

ControlInv ==
  /\ pc \in {"append", "meta_put", "archive"} => req.op = "add"
  /\ pc \in {"remove", "meta_delete"} => req.op \in {"delete", "user_delete"}
  /\ pc = "users" => req.op = "user_delete"
  /\ req.op = "add" => /\ req.key \in Keys /\ req.name \in Names
                       /\ req.user \in Usernames /\ DeviceName(req.name, req.user)
  /\ req.op = "user_delete" => req.user \in Usernames
  /\ \A k \in Keys : owner[k].user # NoName =>
       DeviceName(owner[k].name, owner[k].user)

LEMMA ControlStep ==
  ASSUME TypeInv, ControlInv, [Next]_vars
  PROVE  ControlInv'
<1>1. CASE owner' = owner /\ pc' = pc /\ req' = req
  BY <1>1 DEF ControlInv
<1>2. CASE owner' = owner /\ pc' = "idle" /\ req' = Idle
  BY <1>2 DEF ControlInv, Idle
<1>3. ASSUME NEW u \in Usernames, DeleteUser(u)
      PROVE  ControlInv'
  <2>1. /\ owner' = owner /\ pc' \in {"users", "remove"}
        /\ req' = [Idle EXCEPT !.op = "user_delete", !.user = u]
    BY <1>3 DEF DeleteUser
  <2>2. req'.op = "user_delete" /\ req'.user = u
    BY <2>1 DEF Idle
  <2>3. QED BY <2>1, <2>2 DEF ControlInv
<1>4. ASSUME NEW u \in Usernames, NEW t \in Tags, AddPeer(u, t)
      PROVE  ControlInv'
  <2>1. /\ owner' = owner /\ pc' = "append" /\ nextKey \in Keys
        /\ req'.op = "add" /\ req'.user = u /\ req'.name = PeerNameFor(u, t)
        /\ req'.key = nextKey
    BY <1>4 DEF AddPeer
  <2>2. PeerNameFor(u, t) \in Names
    BY NameTypes
  <2>3. QED BY <2>1, <2>2 DEF ControlInv, DeviceName
<1>5. ASSUME NEW n \in Names, DeletePeer(n)
      PROVE  ControlInv'
  <2>1. owner' = owner /\ pc' = "remove" /\ req' = [Idle EXCEPT !.op = "delete", !.name = n]
    BY <1>5 DEF DeletePeer
  <2>2. req'.op = "delete"
    BY <2>1 DEF Idle
  <2>3. QED BY <2>1, <2>2 DEF ControlInv
<1>6. CASE AppendPeer
  <2>1. CASE owner' = [owner EXCEPT ![req.key] = [user |-> req.user, name |-> req.name]]
             /\ pc' \in {"meta_put", "reload"} /\ req' = req
    <3>1. /\ req.op = "add" /\ req.key \in Keys
          /\ DeviceName(req.name, req.user)
      BY <1>6 DEF AppendPeer, ControlInv
    <3>2. \A k \in Keys : owner'[k] = IF k = req.key THEN [user |-> req.user, name |-> req.name]
                                      ELSE owner[k]
      BY <2>1, <3>1 DEF TypeInv, TypeOK
    <3>3. \A k \in Keys : owner'[k].user # NoName => DeviceName(owner'[k].name, owner'[k].user)
      BY <3>1, <3>2 DEF ControlInv
    <3>4. QED BY <2>1, <3>1, <3>3 DEF ControlInv, DeviceName
  <2>2. QED BY <1>2, <1>6, <2>1 DEF AppendPeer, Return
<1>7. CASE MetaPut
  BY <1>7 DEF MetaPut, ControlInv
<1>8. CASE ReloadInterface
  <2>1. CASE req.op = "add" /\ pc' = "archive" /\ req' = req /\ owner' = owner
    BY <2>1 DEF ControlInv
  <2>2. CASE req.op = "user_delete" /\ pc' = "users" /\ req' = req /\ owner' = owner
    BY <2>2 DEF ControlInv
  <2>3. QED BY <1>2, <1>8, <2>1, <2>2 DEF ReloadInterface, AfterReload, Return
<1>9. CASE RemovePeers
  <2>1. CASE pc' = "meta_delete" /\ req' = req /\ owner' = owner
    BY <1>9, <2>1 DEF RemovePeers, ControlInv
  <2>2. CASE req.op = "user_delete" /\ pc' = "users" /\ req' = req /\ owner' = owner
    BY <2>2 DEF ControlInv
  <2>3. QED BY <1>2, <1>9, <2>1, <2>2 DEF RemovePeers, Return
<1>10. CASE MetaDelete
  BY <1>10 DEF MetaDelete, ControlInv
<1>11. CASE ArchiveWrite \/ RemoveUser \/ Crash
  BY <1>2, <1>11 DEF ArchiveWrite, RemoveUser, Crash, Return
<1>12. CASE ScriptAppend
  <2>1. script.key \in Keys /\ UNCHANGED <<pc, req>>
    BY <1>12 DEF ScriptAppend, TypeInv, Prepared
  <2>2. \A k \in Keys : owner'[k] = IF k = script.key
                          THEN [user |-> NoName, name |-> script.name] ELSE owner[k]
    BY <1>12, <2>1 DEF ScriptAppend, TypeInv, TypeOK
  <2>3. QED BY <2>1, <2>2 DEF ControlInv
<1>13. CASE ScriptSet \/ (\E n \in ScriptNames : ScriptRead(n)) \/ UNCHANGED vars
  BY <1>1, <1>13 DEF ScriptSet, ScriptRead, vars
<1>14. ASSUME NEW u \in Usernames, CreateUser(u)
       PROVE  ControlInv'
  BY <1>1, <1>14 DEF CreateUser
<1>15. ASSUME NEW n \in Names, UploadPeerConf(n) \/ ForgetPeerConf(n)
       PROVE  ControlInv'
  BY <1>1, <1>15 DEF UploadPeerConf, ForgetPeerConf
<1>16. QED
  BY <1>3, <1>4, <1>5, <1>6, <1>7, <1>8, <1>9, <1>10, <1>11, <1>12, <1>13,
     <1>14, <1>15
  DEF Next, Request, Handler, Script

LEMMA Control == Spec => [](TypeInv /\ ControlInv)
<1>1. Init => ControlInv
  BY DEF Init, ControlInv, Idle, NoOwner
<1>2. TypeInv /\ ControlInv /\ [Next]_vars => ControlInv'
  BY ControlStep
<1>3. QED BY <1>1, <1>2, Typing, PTL DEF Spec

LEMMA OwnPrefix ==
  ASSUME NEW u \in Usernames, NEW n, DeviceName(n, u)
  PROVE  HasPrefix(n, u) /\ n # NoName
<1>1. PICK t \in Tags : n = u \o t
  BY DEF DeviceName, PeerNameFor
<1>2. u \in Seq(STRING) /\ t \in Seq(STRING) /\ t # << >>
  BY NameAssumption
<1>3. Len(t) > 0 /\ Len(t) \in Nat /\ Len(u) \in Nat
  BY <1>2
<1>4. /\ Len(u \o t) = Len(u) + Len(t)
      /\ \A i \in 1..Len(u) : (u \o t)[i] = u[i]
  BY <1>2
<1>5. HasPrefix(n, u)
  BY <1>1, <1>3, <1>4 DEF HasPrefix
<1>6. n # NoName
  BY <1>1, <1>3, <1>4 DEF NoName
<1>7. QED BY <1>5, <1>6

-----------------------------------------------------------------------------
(* Users and their devices, beside the script. *)

\* Block e is nobody's, or its user's, and then the sidecar knows it, but for
\* the block whose entry is about to be written.
Owned(e) ==
  \/ owner[e.key].user = NoName
  \/ /\ owner[e.key].user \in users
     /\ \/ meta[e.key] = owner[e.key].name
        \/ pc = "meta_put" /\ e.key = req.key

UserInv ==
  /\ \A e \in conf : Owned(e)
  /\ pc \in {"append", "remove"} => \A e \in raw : Owned(e)
  /\ pc = "append" => req.tracked /\ req.user \in users
  /\ pc = "meta_put" => owner[req.key].user = NoName \/ owner[req.key].name = req.name
  /\ pc = "remove" /\ req.op = "user_delete" =>
       \A e \in raw : owner[e.key].user = req.user => e.key \in drop
  /\ pc = "meta_delete" =>
       \A e \in conf : e.key \in drop => owner[e.key].user = NoName
  /\ pc \in {"meta_delete", "reload", "users"} /\ req.op = "user_delete" =>
       \A e \in conf : owner[e.key].user # req.user

\* The failures that can leave a device without its user: a missing entry of the
\* sidecar, a sidecar that cannot be read, a rewrite or a container that dies, and
\* a write of users_database.yml that fails after the file was truncated.
Orphaning == {"crash", "meta_write", "meta_load", "conf_write", "users_write"}

LEMMA OwnedStays ==
  ASSUME NEW e, Owned(e), pc # "meta_put", users' = users, meta' = meta,
         \/ owner'[e.key] = owner[e.key]
         \/ owner'[e.key].user = NoName
  PROVE  Owned(e)'
BY DEF Owned

LEMMA UserStep ==
  ASSUME Faults \cap Orphaning = {}, TypeInv, ControlInv, UserInv, [Next]_vars
  PROVE  UserInv'
<1>0. ~FaultOn("crash") /\ ~FaultOn("meta_write") /\ ~FaultOn("meta_load")
      /\ ~FaultOn("conf_write") /\ ~FaultOn("users_write")
  BY DEF FaultOn, Orphaning
<1>1. /\ \A e \in conf \cup raw : e.key \in Keys
      /\ NoName \notin Usernames
  BY NameAssumption DEF TypeInv, TypeOK, Block, NoName
<1>2. CASE UNCHANGED <<users, conf, meta, pc, req, raw, drop, owner>>
  BY <1>2 DEF UserInv, Owned
<1>3. ASSUME UNCHANGED <<users, conf, meta, owner>>, pc # "meta_put",
             pc' \notin {"append", "meta_put", "remove", "meta_delete", "reload"},
             pc' = "users" => \A e \in conf : owner[e.key].user # req'.user
      PROVE  UserInv'
  BY <1>3 DEF UserInv, Owned
<1>4. ASSUME NEW u \in Usernames, CreateUser(u)
      PROVE  UserInv'
  <2>1. /\ users \subseteq users' /\ pc = "idle"
        /\ UNCHANGED <<conf, meta, pc, req, raw, drop, owner>>
    BY <1>0, <1>4 DEF CreateUser, Flushed
  <2>2. QED BY <2>1 DEF UserInv, Owned
<1>5. ASSUME NEW u \in Usernames, DeleteUser(u)
      PROVE  UserInv'
  <2>1. /\ pc = "idle" /\ raw' = conf /\ req'.op = "user_delete" /\ req'.user = u
        /\ drop' = { e.key : e \in { b \in conf : HasPrefix(NameOf(b), u) } }
        /\ pc' = IF drop' = {} THEN "users" ELSE "remove"
        /\ UNCHANGED <<users, conf, meta, owner>>
    BY <1>0, <1>5 DEF DeleteUser, Idle
  <2>2. ASSUME NEW e \in conf, owner[e.key].user = u
        PROVE  e.key \in drop'
    <3>1. meta[e.key] = owner[e.key].name
      BY <1>1, <2>1, <2>2 DEF UserInv, Owned
    <3>2. HasPrefix(owner[e.key].name, u) /\ owner[e.key].name # NoName
      BY <1>1, <2>2, OwnPrefix DEF ControlInv
    <3>3. NameOf(e) = owner[e.key].name
      BY <3>1, <3>2 DEF NameOf
    <3>4. QED BY <2>1, <3>2, <3>3
  <2>3. \A e \in conf : Owned(e)'
    BY <2>1, OwnedStays DEF UserInv
  <2>4. CASE pc' = "users"
    BY <2>1, <2>2, <2>3, <2>4 DEF UserInv
  <2>5. CASE pc' = "remove"
    BY <2>1, <2>2, <2>3, <2>5 DEF UserInv
  <2>6. QED BY <2>1, <2>4, <2>5
<1>6. ASSUME NEW u \in Usernames, NEW t \in Tags, AddPeer(u, t)
      PROVE  UserInv'
  <2>1. /\ pc = "idle" /\ raw' = conf /\ pc' = "append" /\ u \in users
        /\ req'.user = u /\ req'.op = "add" /\ req'.tracked = TRUE
        /\ UNCHANGED <<users, conf, meta, owner>>
    BY <1>0, <1>6 DEF AddPeer
  <2>2. \A e \in conf : Owned(e)'
    BY <2>1, OwnedStays DEF UserInv
  <2>3. QED BY <2>1, <2>2 DEF UserInv
<1>7. ASSUME NEW n \in Names, DeletePeer(n)
      PROVE  UserInv'
  <2>1. /\ pc = "idle" /\ raw' = conf /\ pc' = "remove" /\ req'.op = "delete"
        /\ UNCHANGED <<users, conf, meta, owner>>
    BY <1>7 DEF DeletePeer, Idle
  <2>2. \A e \in conf : Owned(e)'
    BY <2>1, OwnedStays DEF UserInv
  <2>3. QED BY <2>1, <2>2 DEF UserInv
<1>8. CASE AppendPeer
  <2>1. /\ pc = "append" /\ req.op = "add" /\ req.tracked /\ req.user \in users
        /\ req.key \in Keys
    BY <1>8 DEF AppendPeer, UserInv, ControlInv
  <2>2. PICK n \in Lines :
          conf' = raw \cup {[line |-> n, key |-> req.key, ip |-> req.ip,
                             comment |-> req.name]}
    BY <1>0, <1>8 DEF AppendPeer
  <2>3. /\ owner' = [owner EXCEPT ![req.key] = [user |-> req.user, name |-> req.name]]
        /\ pc' = "meta_put" /\ UNCHANGED <<users, meta, req, raw, drop>>
    BY <1>0, <1>8, <2>1 DEF AppendPeer
  <2>4. \A k \in Keys : owner'[k] = IF k = req.key THEN [user |-> req.user, name |-> req.name]
                                    ELSE owner[k]
    BY <2>1, <2>3 DEF TypeInv, TypeOK
  <2>5. ASSUME NEW e \in conf'
        PROVE  Owned(e)'
    <3>1. CASE e.key = req.key
      BY <2>1, <2>3, <2>4, <3>1 DEF Owned
    <3>2. CASE e.key # req.key
      <4>1. e \in raw /\ Owned(e) /\ owner'[e.key] = owner[e.key]
        BY <1>1, <2>1, <2>2, <2>4, <3>2 DEF UserInv
      <4>2. QED BY <2>1, <2>3, <4>1, OwnedStays
    <3>3. QED BY <3>1, <3>2
  <2>6. QED BY <2>1, <2>3, <2>4, <2>5 DEF UserInv
<1>9. CASE MetaPut
  <2>1. /\ pc = "meta_put" /\ req.op = "add" /\ req.key \in Keys /\ pc' = "reload"
        /\ meta' = [meta EXCEPT ![req.key] = req.name]
        /\ UNCHANGED <<users, conf, req, raw, drop, owner>>
    BY <1>0, <1>9 DEF MetaPut, ControlInv
  <2>2. \A k \in Keys : meta'[k] = IF k = req.key THEN req.name ELSE meta[k]
    BY <2>1 DEF TypeInv, TypeOK
  <2>3. \A e \in conf : Owned(e)'
    BY <1>1, <2>1, <2>2 DEF UserInv, Owned
  <2>4. QED BY <2>1, <2>3 DEF UserInv
<1>10. CASE RemovePeers
  <2>1. /\ pc = "remove" /\ conf' = RemovePeersByPubkeys(raw, drop)
        /\ pc' = "meta_delete" /\ req.op \in {"delete", "user_delete"}
        /\ UNCHANGED <<users, meta, req, raw, drop, owner>>
    BY <1>0, <1>10 DEF RemovePeers, ControlInv
  <2>2. \A e \in conf' : \E b \in raw : b.key \notin drop /\ e.key = b.key
    <3>1. raw \in SUBSET Block
      BY DEF TypeInv, TypeOK
    <3>2. QED BY <2>1, <3>1, RemoveKeys
  <2>3. \A e \in conf' : Owned(e)'
    BY <2>1, <2>2 DEF UserInv, Owned
  <2>4. req.op = "user_delete" => \A e \in conf' : owner[e.key].user # req.user
    BY <2>1, <2>2 DEF UserInv
  <2>5. QED BY <2>1, <2>2, <2>3, <2>4 DEF UserInv
<1>11. CASE MetaDelete
  <2>1. /\ pc = "meta_delete" /\ pc' = "reload"
        /\ meta' = [k \in Keys |-> IF k \in drop THEN NoName ELSE meta[k]]
        /\ UNCHANGED <<users, conf, req, raw, drop, owner>>
    BY <1>0, <1>11 DEF MetaDelete
  <2>2. \A e \in conf : meta'[e.key] = meta[e.key] \/ owner[e.key].user = NoName
    BY <1>1, <2>1 DEF UserInv
  <2>3. \A e \in conf : Owned(e)'
    BY <2>1, <2>2 DEF UserInv, Owned
  <2>4. QED BY <2>1, <2>3 DEF UserInv
<1>12. CASE ReloadInterface
  <2>1. pc = "reload" /\ UNCHANGED <<users, conf, meta, owner>>
    BY <1>12 DEF ReloadInterface
  <2>2. \/ pc' \in {"archive", "idle"}
        \/ pc' = "users" /\ req' = req /\ req.op = "user_delete"
    BY <1>12 DEF ReloadInterface, AfterReload, Return
  <2>3. QED BY <1>3, <2>1, <2>2 DEF UserInv
<1>13. CASE ArchiveWrite
  BY <1>3, <1>13 DEF ArchiveWrite, Return
<1>14. CASE RemoveUser
  <2>1. /\ pc = "users" /\ req.op = "user_delete" /\ pc' = "idle"
        /\ users \ {req.user} \subseteq users'
        /\ UNCHANGED <<conf, meta, owner>>
    BY <1>0, <1>14 DEF RemoveUser, Flushed, Return, ControlInv
  <2>2. \A e \in conf : owner[e.key].user # req.user
    BY <2>1 DEF UserInv
  <2>3. \A e \in conf : Owned(e)'
    BY <2>1, <2>2 DEF UserInv, Owned
  <2>4. QED BY <2>1, <2>3 DEF UserInv
<1>15. CASE ScriptAppend
  <2>1. /\ script.key \in Keys /\ UNCHANGED <<users, meta, pc, req, raw, drop>>
        /\ \A e \in conf' : e \in conf \/ e.key = script.key
    BY <1>15 DEF ScriptAppend, TypeInv, Prepared
  <2>2. \A k \in Keys : owner'[k] = IF k = script.key
                          THEN [user |-> NoName, name |-> script.name] ELSE owner[k]
    BY <1>15, <2>1 DEF ScriptAppend, TypeInv, TypeOK
  <2>3. ASSUME NEW e, e.key \in Keys, Owned(e)
        PROVE  Owned(e)'
    BY <2>1, <2>2, <2>3 DEF Owned
  <2>4. \A e \in conf' : Owned(e)'
    <3>1. ASSUME NEW e \in conf', e.key = script.key
          PROVE  Owned(e)'
      BY <2>1, <2>2, <3>1 DEF Owned
    <3>2. QED BY <1>1, <2>1, <2>3, <3>1 DEF UserInv
  <2>5. pc' \in {"append", "remove"} => \A e \in raw' : Owned(e)'
    BY <1>1, <2>1, <2>3 DEF UserInv
  <2>6. pc' = "append" => req'.tracked /\ req'.user \in users'
    BY <2>1 DEF UserInv
  <2>7. pc' = "meta_put" => owner'[req'.key].user = NoName \/ owner'[req'.key].name = req'.name
    BY <2>1, <2>2 DEF UserInv, ControlInv
  <2>8. pc' = "remove" /\ req'.op = "user_delete" =>
          \A e \in raw' : owner'[e.key].user = req'.user => e.key \in drop'
    BY <1>1, <2>1, <2>2 DEF UserInv, ControlInv
  <2>9. pc' = "meta_delete" =>
          \A e \in conf' : e.key \in drop' => owner'[e.key].user = NoName
    BY <1>1, <2>1, <2>2 DEF UserInv
  <2>10. pc' \in {"meta_delete", "reload", "users"} /\ req'.op = "user_delete" =>
           \A e \in conf' : owner'[e.key].user # req'.user
    BY <1>1, <2>1, <2>2 DEF UserInv, ControlInv
  <2>11. QED BY <2>4, <2>5, <2>6, <2>7, <2>8, <2>9, <2>10 DEF UserInv
<1>16. CASE ScriptSet \/ (\E n \in ScriptNames : ScriptRead(n)) \/ UNCHANGED vars
  BY <1>2, <1>16 DEF ScriptSet, ScriptRead, vars
<1>17. ASSUME NEW n \in Names, UploadPeerConf(n) \/ ForgetPeerConf(n)
       PROVE  UserInv'
  BY <1>2, <1>17 DEF UploadPeerConf, ForgetPeerConf
<1>18. CASE Crash
  BY <1>0, <1>18 DEF Crash
<1>19. QED
  BY <1>4, <1>5, <1>6, <1>7, <1>8, <1>9, <1>10, <1>11, <1>12, <1>13, <1>14,
     <1>15, <1>16, <1>17, <1>18
  DEF Next, Request, Handler, Script

LEMMA Users ==
  ASSUME Faults \cap Orphaning = {}
  PROVE  Spec => []UserInv
<1>1. Init => UserInv
  BY DEF Init, UserInv
<1>2. TypeInv /\ ControlInv /\ UserInv /\ [Next]_vars => UserInv'
  BY UserStep
<1>3. QED BY <1>1, <1>2, Control, PTL DEF Spec

\* Whatever users, tags and scripts there are, and although reloads and archive
\* writes may fail, every enrolled device belongs to a user who exists:
\* handleUserDelete finds all of them by their sidecar names and removes them
\* before the user.  It is not so where gw0.conf, the sidecar or
\* users_database.yml fails to be written or the container dies.
THEOREM NoOrphans ==
  ASSUME Faults \cap Orphaning = {}
  PROVE  Spec => []DevicesHaveUsers
<1>1. UserInv => DevicesHaveUsers
  BY DEF UserInv, Owned, DevicesHaveUsers
<1>2. QED BY <1>1, Users, PTL

-----------------------------------------------------------------------------
(* Names, handlers alone, any failure. *)

\* A block has the name it was enrolled under, or has lost it.
OwnNameInv ==
  /\ \A e \in conf : /\ meta[e.key] \in {NoName, owner[e.key].name}
                     /\ e.comment \in {NoName, owner[e.key].name}
                     /\ owner[e.key] # NoOwner /\ owner[e.key].user # NoName
  /\ pc = "meta_put" => owner[req.key].name = req.name
  /\ pc = "remove" /\ req.op = "user_delete" =>
       \A e \in conf : e.key \in drop => HasPrefix(owner[e.key].name, req.user)

\* The handlers' invariants together.
HandlerInv == TypeInv /\ AddressInv /\ NameInv /\ ControlInv

LEMMA HandlerStep ==
  ASSUME ScriptNames = {}, HandlerInv, [Next]_vars
  PROVE  AddressInv' /\ NameInv' /\ ControlInv'
BY AddressStep, NameStep, ControlStep DEF HandlerInv

LEMMA Handlers ==
  ASSUME ScriptNames = {}
  PROVE  Spec => []HandlerInv
<1>1. Init => NameInv
  BY BoundAssumption DEF Init, NameInv, NamesDistinct, Keys
<1>2. TypeInv /\ AddressInv /\ NameInv /\ [Next]_vars => NameInv'
  BY NameStep
<1>3. TypeInv /\ AddressInv /\ [Next]_vars => AddressInv'
  BY AddressStep
<1>4. QED BY <1>1, <1>2, <1>3, AddressInit, Control, PTL DEF Spec, HandlerInv

\* What an enrolment adds and what a removal leaves, handlers alone.
LEMMA Appended ==
  ASSUME HandlerInv, AppendPeer
  PROVE  /\ pc = "append" /\ req.op = "add" /\ raw = conf /\ req.key \in Keys
         /\ req.name \in Names /\ req.user \in Usernames
         /\ UNCHANGED <<users, meta, archive, live>>
         /\ \/ /\ UNCHANGED <<conf, owner>> /\ FaultOn("conf_write")
               /\ pc' = "idle" /\ req' = Idle
            \/ /\ \E n \in Lines :
                    conf' = conf \cup {[line |-> n, key |-> req.key, ip |-> req.ip,
                                        comment |-> req.name]}
               /\ owner'[req.key] = [user |-> req.user, name |-> req.name]
               /\ \A e \in conf : /\ e.key \in Keys /\ e.key # req.key
                                  /\ owner'[e.key] = owner[e.key]
               /\ pc' = IF req.tracked THEN "meta_put" ELSE "reload"
               /\ req' = req
<1>1. /\ pc = "append" /\ req.op = "add" /\ raw = conf /\ req.key \in Keys
      /\ req.name \in Names /\ req.user \in Usernames
      /\ UNCHANGED <<users, meta, archive, live>>
  BY DEF AppendPeer, HandlerInv, AddressInv, ControlInv
<1>2. \A e \in conf : e.key \in Keys /\ e.key # req.key
  BY <1>1 DEF HandlerInv, AddressInv, TypeInv, TypeOK, Block
<1>3. CASE FaultOn("conf_write") /\ Return /\ UNCHANGED <<conf, owner>>
  BY <1>1, <1>3 DEF Return
<1>4. ASSUME NEW n \in Lines,
             conf' = raw \cup {[line |-> n, key |-> req.key, ip |-> req.ip,
                                comment |-> req.name]},
             owner' = [owner EXCEPT ![req.key] = [user |-> req.user, name |-> req.name]],
             pc' = IF req.tracked THEN "meta_put" ELSE "reload",
             req' = req
      PROVE  /\ \E m \in Lines :
                  conf' = conf \cup {[line |-> m, key |-> req.key, ip |-> req.ip,
                                      comment |-> req.name]}
             /\ owner'[req.key] = [user |-> req.user, name |-> req.name]
             /\ \A e \in conf : owner'[e.key] = owner[e.key]
  <2>1. \A k \in Keys : owner'[k] = IF k = req.key THEN [user |-> req.user, name |-> req.name]
                                    ELSE owner[k]
    BY <1>1, <1>4 DEF HandlerInv, TypeInv, TypeOK
  <2>2. QED BY <1>1, <1>2, <1>4, <2>1
<1>5. QED BY <1>1, <1>2, <1>3, <1>4 DEF AppendPeer

LEMMA Removed ==
  ASSUME HandlerInv, RemovePeers
  PROVE  /\ pc = "remove" /\ req.op \in {"delete", "user_delete"}
         /\ UNCHANGED <<users, meta, archive, live, owner>>
         /\ \/ /\ conf' = conf /\ FaultOn("conf_write")
               /\ \/ pc' = "idle" /\ req' = Idle
                  \/ pc' = "users" /\ req' = req
            \/ /\ pc' = "meta_delete" /\ UNCHANGED <<req, raw, drop>>
               /\ \A e \in conf' : \E b \in conf :
                    /\ b.key \notin drop /\ e.key = b.key /\ e.ip = b.ip
                    /\ e.comment \in {b.comment, NoName}
               /\ \A b \in conf : b.key \notin drop =>
                    \E e \in conf' : e.key = b.key /\ e.ip = b.ip
<1>1. /\ pc = "remove" /\ req.op \in {"delete", "user_delete"} /\ raw = conf
      /\ UNCHANGED <<users, meta, archive, live, owner>> /\ conf \in SUBSET Block
  BY DEF RemovePeers, HandlerInv, ControlInv, AddressInv, TypeInv, TypeOK
<1>2. ASSUME conf' = RemovePeersByPubkeys(conf, drop)
      PROVE  /\ \A e \in conf' : \E b \in conf :
                    /\ b.key \notin drop /\ e.key = b.key /\ e.ip = b.ip
                    /\ e.comment \in {b.comment, NoName}
             /\ \A b \in conf : b.key \notin drop =>
                    \E e \in conf' : e.key = b.key /\ e.ip = b.ip
  <2> DEFINE F(b) == IF \E d \in conf : d.key \in drop /\ Follows(b, d, conf)
                       THEN [b EXCEPT !.comment = NoName] ELSE b
  <2>1. conf' = { F(b) : b \in { d \in conf : d.key \notin drop } }
    BY <1>2 DEF RemovePeersByPubkeys
  <2>2. \A b \in conf : /\ F(b).ip = b.ip /\ F(b).key = b.key
                        /\ F(b).comment \in {b.comment, NoName}
    BY <1>1 DEF Block
  <2> HIDE DEF F
  <2>3. \A e \in conf' : \E b \in conf : b.key \notin drop /\ e = F(b)
    BY <2>1
  <2>4. \A b \in conf : b.key \notin drop => F(b) \in conf'
    BY <2>1
  <2>5. QED BY <2>2, <2>3, <2>4
<1>3. QED BY <1>1, <1>2 DEF RemovePeers, Return

LEMMA OwnNameStep ==
  ASSUME ScriptNames = {}, HandlerInv, OwnNameInv, [Next]_vars
  PROVE  OwnNameInv'
<1>1. /\ \A e \in conf : e.key \in Keys
      /\ NoName \notin Usernames
  BY NameAssumption DEF HandlerInv, TypeInv, TypeOK, Block, NoName
<1>2. CASE UNCHANGED <<conf, meta, owner, pc, req, drop>>
  BY <1>2 DEF OwnNameInv
<1>3. CASE UNCHANGED <<conf, meta, owner>> /\ pc' \notin {"meta_put", "remove"}
  BY <1>3 DEF OwnNameInv
<1>4. ASSUME NEW u \in Usernames, DeleteUser(u)
      PROVE  OwnNameInv'
  <2>1. CASE pc' = "users" /\ UNCHANGED <<conf, meta, owner>>
    BY <1>3, <2>1
  <2>2. CASE /\ pc' = "remove" /\ UNCHANGED <<conf, meta, owner>> /\ req'.user = u
             /\ drop' = { e.key : e \in { b \in conf : HasPrefix(NameOf(b), u) } }
    <3>1. \A e, f \in conf : e.key = f.key => e = f
      BY DEF HandlerInv, AddressInv, Distinct
    <3>2. \A e \in conf : e.key \in drop' => HasPrefix(NameOf(e), u)
      BY <2>2, <3>1
    <3>3. ~HasPrefix(NoName, u)
      BY NameAssumption DEF HasPrefix, NoName
    <3>4. \A e \in conf : NameOf(e) \in {NoName, owner[e.key].name}
      BY DEF OwnNameInv, NameOf
    <3>5. \A e \in conf : e.key \in drop' => HasPrefix(owner[e.key].name, u)
      BY <3>2, <3>3, <3>4
    <3>6. QED BY <2>2, <3>5 DEF OwnNameInv
  <2>3. /\ req' = [Idle EXCEPT !.op = "user_delete", !.user = u]
        /\ UNCHANGED <<conf, meta, owner>>
        /\ \/ pc' = "users"
           \/ /\ pc' = "remove"
              /\ drop' = { e.key : e \in { b \in conf : HasPrefix(NameOf(b), u) } }
    BY <1>4 DEF DeleteUser
  <2>4. req'.user = u
    BY <2>3 DEF Idle
  <2>5. QED BY <2>1, <2>2, <2>3, <2>4
<1>5. ASSUME NEW u \in Usernames, NEW t \in Tags, AddPeer(u, t)
      PROVE  OwnNameInv'
  BY <1>3, <1>5 DEF AddPeer
<1>6. ASSUME NEW n \in Names, DeletePeer(n)
      PROVE  OwnNameInv'
  <2>1. req'.op = "delete" /\ pc' = "remove" /\ UNCHANGED <<conf, meta, owner>>
    BY <1>6 DEF DeletePeer, Idle
  <2>2. QED BY <2>1 DEF OwnNameInv
<1>7. CASE AppendPeer
  <2>1. CASE UNCHANGED <<conf, meta, owner>> /\ pc' = "idle"
    BY <1>3, <2>1
  <2>2. ASSUME NEW n \in Lines,
               conf' = conf \cup {[line |-> n, key |-> req.key, ip |-> req.ip,
                                   comment |-> req.name]},
               owner'[req.key] = [user |-> req.user, name |-> req.name],
               \A e \in conf : owner'[e.key] = owner[e.key],
               pc' \in {"meta_put", "reload"}, req' = req
        PROVE  OwnNameInv'
    <3>1. meta' = meta /\ meta[req.key] = NoName /\ req.user \in Usernames
      BY <1>7, Appended DEF HandlerInv, NameInv
    <3>2. \A e \in conf' : /\ meta'[e.key] \in {NoName, owner'[e.key].name}
                           /\ e.comment \in {NoName, owner'[e.key].name}
                           /\ owner'[e.key] # NoOwner /\ owner'[e.key].user # NoName
      BY <1>1, <2>2, <3>1 DEF OwnNameInv, NoOwner
    <3>3. QED BY <2>2, <3>2 DEF OwnNameInv
  <2>3. QED BY <1>7, <2>1, <2>2, Appended
<1>8. CASE MetaPut
  <2>1. /\ pc = "meta_put" /\ pc' = "reload" /\ UNCHANGED <<conf, owner, req>>
        /\ meta' \in {meta, [meta EXCEPT ![req.key] = req.name]}
        /\ req.key \in Keys
    BY <1>8 DEF MetaPut, HandlerInv, ControlInv
  <2>2. \A k \in Keys : meta'[k] = meta[k] \/ (k = req.key /\ meta'[k] = req.name)
    BY <2>1 DEF HandlerInv, TypeInv, TypeOK
  <2>3. QED BY <1>1, <2>1, <2>2 DEF OwnNameInv
<1>9. CASE RemovePeers
  <2>1. CASE conf' = conf
    BY <1>3, <1>9, <2>1, Removed
  <2>2. CASE /\ pc' = "meta_delete"
             /\ \A e \in conf' : \E b \in conf :
                  e.key = b.key /\ e.comment \in {b.comment, NoName}
    <3>1. UNCHANGED <<meta, owner>>
      BY <1>9, Removed
    <3>2. QED BY <2>2, <3>1 DEF OwnNameInv
  <2>3. QED BY <1>9, <2>1, <2>2, Removed
<1>10. CASE MetaDelete
  <2>1. /\ UNCHANGED <<conf, owner>> /\ pc' = "reload"
        /\ \E gone : meta' = [k \in Keys |-> IF k \in gone THEN NoName ELSE meta[k]]
    BY <1>10 DEF MetaDelete
  <2>2. \A k \in Keys : meta'[k] \in {meta[k], NoName}
    BY <2>1
  <2>3. QED BY <1>1, <2>1, <2>2 DEF OwnNameInv
<1>11. CASE ArchiveWrite \/ ReloadInterface \/ RemoveUser \/ Crash
  BY <1>3, <1>11 DEF ArchiveWrite, ReloadInterface, AfterReload, RemoveUser, Crash,
     Return
<1>12. CASE Script
  BY <1>12 DEF Script, ScriptAppend, ScriptSet, HandlerInv, AddressInv
<1>13. ASSUME NEW u \in Usernames, CreateUser(u)
       PROVE  OwnNameInv'
  BY <1>2, <1>13 DEF CreateUser
<1>14. ASSUME NEW n \in Names, UploadPeerConf(n) \/ ForgetPeerConf(n)
       PROVE  OwnNameInv'
  BY <1>2, <1>14 DEF UploadPeerConf, ForgetPeerConf
<1>15. CASE UNCHANGED vars
  BY <1>2, <1>15 DEF vars
<1>16. QED
  BY <1>4, <1>5, <1>6, <1>7, <1>8, <1>9, <1>10, <1>11, <1>12, <1>13, <1>14,
     <1>15
  DEF Next, Request, Handler

LEMMA OwnNames ==
  ASSUME ScriptNames = {}
  PROVE  Spec => [](HandlerInv /\ OwnNameInv)
<1>1. Init => OwnNameInv
  BY DEF Init, OwnNameInv
<1>2. HandlerInv /\ OwnNameInv /\ [Next]_vars => OwnNameInv'
  BY OwnNameStep
<1>3. QED BY <1>1, <1>2, Handlers, PTL DEF Spec

\* With the handlers alone, whatever fails and wherever the container dies, and
\* although removals strip comments and the sidecar may miss entries or keep
\* stale ones, deleting a user takes no device but those enrolled under a name
\* that begins with "<user>-" (the prefix test of removeUserPeers): the user's
\* own, and those of a user such as bob-x when bob is deleted.
THEOREM OthersAreSpared ==
  ASSUME ScriptNames = {} PROVE Spec => DeleteSparesOthers
<1>1. ASSUME HandlerInv, OwnNameInv, [Next]_vars
      PROVE  [req.op = "user_delete" =>
                \A k \in KeysOf(conf) :
                  ~HasPrefix(owner[k].name, req.user) => k \in KeysOf(conf')]_vars
  <2> SUFFICES ASSUME Next, req.op = "user_delete", NEW b \in conf,
                      ~HasPrefix(owner[b.key].name, req.user)
               PROVE  \E e \in conf' : e.key = b.key
    BY <1>1 DEF KeysOf
  <2>1. CASE RemovePeers
    <3>1. pc = "remove"
      BY <2>1 DEF RemovePeers
    <3>2. b.key \notin drop
      BY <1>1, <3>1 DEF OwnNameInv
    <3>3. QED BY <1>1, <2>1, <3>2, Removed
  <2>2. CASE AppendPeer
    BY <1>1, <2>2, Appended
  <2>3. CASE ~(RemovePeers \/ AppendPeer)
    <3>1. conf' = conf
      BY <1>1, <2>3 DEF Next, Request, Handler, Script, CreateUser, DeleteUser,
         AddPeer, DeletePeer, UploadPeerConf, ForgetPeerConf, MetaPut,
         ArchiveWrite, ReloadInterface, MetaDelete, RemoveUser, ScriptAppend,
         ScriptSet, Crash, HandlerInv, AddressInv
    <3>2. QED BY <3>1
  <2>4. QED BY <2>1, <2>2, <2>3
<1>2. QED BY <1>1, OwnNames, PTL DEF Spec, DeleteSparesOthers

\* No block has lost its name.
KnownInv ==
  /\ \A e \in conf : \/ meta[e.key] = owner[e.key].name
                     \/ pc = "meta_put" /\ e.key = req.key /\ e.comment = req.name
  /\ pc = "append" => req.tracked

\* The failures that can take a device's name away.
Unnaming == {"crash", "meta_write", "meta_load"}

LEMMA KnownStep ==
  ASSUME ScriptNames = {}, Faults \cap Unnaming = {}, HandlerInv, OwnNameInv,
         KnownInv, [Next]_vars
  PROVE  KnownInv'
<1>0. ~FaultOn("crash") /\ ~FaultOn("meta_write") /\ ~FaultOn("meta_load")
  BY DEF FaultOn, Unnaming
<1>1. \A e \in conf : e.key \in Keys
  BY DEF HandlerInv, TypeInv, TypeOK, Block
<1>2. CASE UNCHANGED <<conf, meta, owner, pc, req>>
  BY <1>2 DEF KnownInv
<1>3. CASE UNCHANGED <<conf, meta, owner>> /\ pc # "meta_put" /\ pc' # "append"
  BY <1>3 DEF KnownInv
<1>4. ASSUME NEW u \in Usernames, NEW t \in Tags, AddPeer(u, t)
      PROVE  KnownInv'
  <2>1. /\ pc = "idle" /\ req'.tracked = TRUE /\ UNCHANGED <<conf, meta, owner>>
    BY <1>0, <1>4 DEF AddPeer
  <2>2. QED BY <2>1 DEF KnownInv
<1>5. CASE AppendPeer
  <2>1. CASE UNCHANGED <<conf, meta, owner>> /\ pc' = "idle"
    BY <1>3, <1>5, <2>1 DEF AppendPeer
  <2>2. ASSUME NEW n \in Lines,
               conf' = conf \cup {[line |-> n, key |-> req.key, ip |-> req.ip,
                                   comment |-> req.name]},
               \A e \in conf : owner'[e.key] = owner[e.key],
               pc' = IF req.tracked THEN "meta_put" ELSE "reload", req' = req
        PROVE  KnownInv'
    <3>1. pc = "append" /\ meta' = meta
      BY <1>5, Appended
    <3>2. pc' = "meta_put"
      BY <2>2, <3>1 DEF KnownInv
    <3>3. QED BY <2>2, <3>1, <3>2 DEF KnownInv
  <2>3. QED BY <1>5, <2>1, <2>2, Appended
<1>6. CASE MetaPut
  <2>1. /\ pc = "meta_put" /\ pc' = "reload" /\ UNCHANGED <<conf, owner, req>>
        /\ meta' = [meta EXCEPT ![req.key] = req.name] /\ req.key \in Keys
    BY <1>0, <1>6 DEF MetaPut, HandlerInv, ControlInv
  <2>2. \A k \in Keys : meta'[k] = IF k = req.key THEN req.name ELSE meta[k]
    BY <2>1 DEF HandlerInv, TypeInv, TypeOK
  <2>3. owner[req.key].name = req.name
    BY <2>1 DEF OwnNameInv
  <2>4. QED BY <1>1, <2>1, <2>2, <2>3 DEF KnownInv
<1>7. CASE RemovePeers
  <2>1. pc = "remove" /\ UNCHANGED <<meta, owner>> /\ pc' # "append"
    BY <1>7, Removed
  <2>2. CASE conf' = conf
    BY <1>3, <2>1, <2>2
  <2>3. CASE \A e \in conf' : \E b \in conf : e.key = b.key
    BY <2>1, <2>3 DEF KnownInv
  <2>4. QED BY <1>7, <2>2, <2>3, Removed
<1>8. CASE MetaDelete
  <2>1. /\ pc = "meta_delete" /\ pc' = "reload" /\ UNCHANGED <<conf, owner>>
        /\ meta' = [k \in Keys |-> IF k \in drop THEN NoName ELSE meta[k]]
    BY <1>0, <1>8 DEF MetaDelete
  <2>2. \A e \in conf : meta'[e.key] = meta[e.key]
    BY <1>1, <2>1 DEF HandlerInv, AddressInv
  <2>3. QED BY <2>1, <2>2 DEF KnownInv
<1>9. CASE ArchiveWrite \/ ReloadInterface \/ RemoveUser
  BY <1>3, <1>9 DEF ArchiveWrite, ReloadInterface, AfterReload, RemoveUser, Return
<1>10. CASE Script
  BY <1>10 DEF Script, ScriptAppend, ScriptSet, HandlerInv, AddressInv
<1>11. ASSUME NEW u \in Usernames, CreateUser(u) \/ DeleteUser(u)
       PROVE  KnownInv'
  BY <1>2, <1>3, <1>11 DEF CreateUser, DeleteUser
<1>12. ASSUME NEW n \in Names, DeletePeer(n) \/ UploadPeerConf(n) \/ ForgetPeerConf(n)
       PROVE  KnownInv'
  BY <1>2, <1>3, <1>12 DEF DeletePeer, UploadPeerConf, ForgetPeerConf
<1>13. CASE Crash \/ UNCHANGED vars
  BY <1>0, <1>2, <1>13 DEF Crash, vars
<1>14. QED
  BY <1>4, <1>5, <1>6, <1>7, <1>8, <1>9, <1>10, <1>11, <1>12, <1>13
  DEF Next, Request, Handler

\* Such a block is listed under its own name.
LEMMA KnownName ==
  ASSUME HandlerInv, OwnNameInv, KnownInv, NEW e \in conf
  PROVE  NameOf(e) = owner[e.key].name
<1>1. e.key \in Keys
  BY DEF HandlerInv, TypeInv, TypeOK, Block
<1>2. owner[e.key].user # NoName /\ owner[e.key].user \in Usernames
  BY <1>1 DEF OwnNameInv, HandlerInv, TypeInv, TypeOK
<1>3. owner[e.key].name # NoName
  BY <1>1, <1>2, OwnPrefix DEF HandlerInv, ControlInv
<1>4. CASE meta[e.key] = owner[e.key].name
  BY <1>3, <1>4 DEF NameOf
<1>5. CASE pc = "meta_put" /\ e.key = req.key /\ e.comment = req.name
  BY <1>5 DEF OwnNameInv, NameOf
<1>6. QED BY <1>4, <1>5 DEF KnownInv

LEMMA Known ==
  ASSUME ScriptNames = {}, Faults \cap Unnaming = {}
  PROVE  Spec => []KnownInv
<1>1. Init => KnownInv
  BY DEF Init, KnownInv
<1>2. HandlerInv /\ OwnNameInv /\ KnownInv /\ [Next]_vars => KnownInv'
  BY KnownStep
<1>3. QED BY <1>1, <1>2, OwnNames, PTL DEF Spec

\* With the handlers alone, although rewrites of gw0.conf, reloads and archive
\* writes may fail, every device is listed under the name it was enrolled under:
\* the comments that removals strip are never the only record of a name.
THEOREM NamesAreKept ==
  ASSUME ScriptNames = {}, Faults \cap Unnaming = {}
  PROVE  Spec => []KnownByName
<1>1. HandlerInv /\ OwnNameInv /\ KnownInv => KnownByName
  BY KnownName DEF KnownByName
<1>2. QED BY <1>1, Known, OwnNames, PTL

-----------------------------------------------------------------------------
(* The archive *)

\* The archived .conf of block e, if an enrolment wrote it, holds e's key.
OwnArchive(e) ==
  NameOf(e) \in Names /\ archive[NameOf(e)].by = "create" =>
    archive[NameOf(e)].key = e.key

\* Only the device being enrolled may still have an archive of an earlier one,
\* and no other device answers to its name.
ArchiveInv ==
  /\ \A e \in conf : OwnArchive(e) \/ (req.op = "add" /\ e.key = req.key)
  /\ pc \in {"meta_put", "reload", "archive"} /\ req.op = "add" =>
       \A e \in conf : NameOf(e) = req.name <=> e.key = req.key
  /\ pc = "idle" => req.op # "add"

\* The failures that can leave an earlier device's archive in place.
Stale == {"crash", "archive"}

LEMMA ArchiveStep ==
  ASSUME ScriptNames = {}, Faults \cap Stale = {}, HandlerInv, ArchiveInv,
         [Next]_vars
  PROVE  ArchiveInv'
<1>0. ~FaultOn("crash") /\ ~FaultOn("archive")
  BY DEF FaultOn, Stale
<1>1. /\ \A e \in conf : e.key \in Keys
      /\ NoName \notin Names
  BY NameTypes DEF HandlerInv, TypeInv, TypeOK, Block
<1>2. ASSUME UNCHANGED <<archive, meta>>, NEW e, OwnArchive(e)
      PROVE  OwnArchive(e)'
  BY <1>2 DEF OwnArchive, NameOf
<1>3. CASE UNCHANGED <<conf, meta, archive, pc, req>>
  BY <1>3 DEF ArchiveInv, OwnArchive, NameOf
<1>4. CASE /\ UNCHANGED <<conf, meta, archive>> /\ req.op # "add"
           /\ req'.op \notin {"add"}
  BY <1>2, <1>4 DEF ArchiveInv
<1>5. ASSUME NEW u \in Usernames, NEW t \in Tags, AddPeer(u, t)
      PROVE  ArchiveInv'
  <2>1. pc = "idle" /\ pc' = "append" /\ UNCHANGED <<conf, meta, archive>>
    BY <1>5 DEF AddPeer
  <2>2. QED BY <1>2, <2>1 DEF ArchiveInv
<1>6. CASE AppendPeer
  <2>1. /\ pc = "append" /\ req.op = "add" /\ UNCHANGED <<meta, archive>>
        /\ \A e \in conf : e.key # req.key /\ NameOf(e) # req.name
        /\ meta[req.key] = NoName
    BY <1>6, Appended DEF HandlerInv, NameInv, AddressInv
  <2>2. CASE UNCHANGED conf /\ pc' = "idle" /\ req' = Idle
    BY <1>2, <2>1, <2>2 DEF ArchiveInv, Idle
  <2>3. ASSUME NEW n \in Lines,
               conf' = conf \cup {[line |-> n, key |-> req.key, ip |-> req.ip,
                                   comment |-> req.name]},
               pc' = IF req.tracked THEN "meta_put" ELSE "reload", req' = req
        PROVE  ArchiveInv'
    <3>1. \A e \in conf : NameOf(e)' = NameOf(e)
      BY <2>1 DEF NameOf
    <3>2. \A e \in conf' : e.key = req.key => NameOf(e)' = req.name
      BY <2>1, <2>3 DEF NameOf
    <3>3. \A e \in conf' : e.key # req.key => e \in conf
      BY <2>3
    <3>4. \A e \in conf' : NameOf(e)' = req.name <=> e.key = req.key
      BY <2>1, <3>1, <3>2, <3>3
    <3>5. \A e \in conf' : OwnArchive(e)' \/ e.key = req.key
      BY <1>2, <2>1, <3>3 DEF ArchiveInv
    <3>6. QED BY <2>1, <2>3, <3>4, <3>5 DEF ArchiveInv
  <2>4. QED BY <1>6, <2>2, <2>3, Appended
<1>7. CASE MetaPut
  <2>1. /\ pc = "meta_put" /\ pc' = "reload" /\ req.op = "add"
        /\ UNCHANGED <<conf, archive, req>>
        /\ meta' \in {meta, [meta EXCEPT ![req.key] = req.name]}
        /\ req.key \in Keys /\ req.name # NoName
    BY <1>7 DEF MetaPut, HandlerInv, ControlInv, NameInv
  <2>2. \A k \in Keys : meta'[k] = meta[k] \/ (k = req.key /\ meta'[k] = req.name)
    BY <2>1 DEF HandlerInv, TypeInv, TypeOK
  <2>3. \A e \in conf : NameOf(e)' = NameOf(e)
    BY <1>1, <2>1, <2>2 DEF ArchiveInv, NameOf
  <2>4. \A e \in conf : OwnArchive(e) => OwnArchive(e)'
    BY <2>1, <2>3 DEF OwnArchive
  <2>5. QED BY <2>1, <2>3, <2>4 DEF ArchiveInv
<1>8. CASE ReloadInterface
  <2>1. pc = "reload" /\ UNCHANGED <<conf, meta, archive>>
    BY <1>8 DEF ReloadInterface
  <2>2. CASE req.op = "add" /\ pc' = "archive" /\ req' = req
    <3>1. \A e \in conf : NameOf(e)' = NameOf(e)
      BY <2>1 DEF NameOf
    <3>2. QED BY <1>2, <2>1, <2>2, <3>1 DEF ArchiveInv
  <2>3. CASE req.op # "add" /\ req' \in {req, Idle}
    BY <1>4, <2>1, <2>3 DEF Idle
  <2>4. QED BY <1>8, <2>2, <2>3 DEF ReloadInterface, AfterReload, Return
<1>9. CASE ArchiveWrite
  <2>1. /\ pc = "archive" /\ req.op = "add" /\ req.name \in Names
        /\ archive' = [archive EXCEPT ![req.name] = [key |-> req.key, by |-> "create"]]
        /\ UNCHANGED <<conf, meta>> /\ req' = Idle /\ pc' = "idle"
    BY <1>0, <1>9 DEF ArchiveWrite, Return, HandlerInv, ControlInv
  <2>2. \A n \in Names : archive'[n] = IF n = req.name THEN [key |-> req.key, by |-> "create"]
                                       ELSE archive[n]
    BY <2>1 DEF HandlerInv, TypeInv, TypeOK
  <2>3. \A e \in conf : NameOf(e)' = NameOf(e)
    BY <2>1 DEF NameOf
  <2>4. ASSUME NEW e \in conf
        PROVE  OwnArchive(e)'
    <3>1. NameOf(e) = req.name <=> e.key = req.key
      BY <2>1 DEF ArchiveInv
    <3>2. CASE e.key = req.key
      BY <2>2, <2>3, <3>1, <3>2 DEF OwnArchive
    <3>3. CASE e.key # req.key
      <4>1. OwnArchive(e) /\ NameOf(e) # req.name
        BY <3>1, <3>3 DEF ArchiveInv
      <4>2. QED BY <2>2, <2>3, <4>1 DEF OwnArchive
    <3>4. QED BY <3>2, <3>3
  <2>5. QED BY <2>1, <2>4 DEF ArchiveInv, Idle
<1>10. CASE RemovePeers
  <2>1. pc = "remove" /\ req.op # "add" /\ UNCHANGED <<meta, archive>>
    BY <1>10, Removed
  <2>2. CASE conf' = conf /\ req' \in {req, Idle}
    BY <1>4, <2>1, <2>2 DEF Idle
  <2>3. CASE /\ req' = req /\ pc' = "meta_delete"
             /\ \A e \in conf' : \E b \in conf :
                  e.key = b.key /\ e.comment \in {b.comment, NoName}
    <3>1. ASSUME NEW e \in conf'
          PROVE  OwnArchive(e)'
      <4>1. PICK b \in conf : e.key = b.key /\ e.comment \in {b.comment, NoName}
        BY <2>3
      <4>2. OwnArchive(b)'
        BY <1>2, <2>1 DEF ArchiveInv
      <4>3. NameOf(e)' \in {NameOf(b)', NoName}
        BY <4>1 DEF NameOf
      <4>4. QED BY <1>1, <4>1, <4>2, <4>3 DEF OwnArchive
    <3>2. QED BY <2>1, <2>3, <3>1 DEF ArchiveInv
  <2>4. QED BY <1>10, <2>2, <2>3, Removed
<1>11. CASE MetaDelete
  <2>1. /\ pc = "meta_delete" /\ pc' = "reload" /\ UNCHANGED <<conf, archive, req>>
        /\ \E gone \in SUBSET drop :
             meta' = [k \in Keys |-> IF k \in gone THEN NoName ELSE meta[k]]
    BY <1>11 DEF MetaDelete
  <2>2. \A e \in conf : meta'[e.key] = meta[e.key]
    BY <1>1, <2>1 DEF HandlerInv, AddressInv
  <2>3. \A e \in conf : OwnArchive(e) => OwnArchive(e)'
    BY <2>1, <2>2 DEF OwnArchive, NameOf
  <2>4. req.op # "add"
    BY <2>1 DEF HandlerInv, ControlInv
  <2>5. QED BY <2>1, <2>3, <2>4 DEF ArchiveInv
<1>12. CASE RemoveUser
  <2>1. req.op # "add" /\ req' = Idle /\ UNCHANGED <<conf, meta, archive>>
    BY <1>12 DEF RemoveUser, Return, HandlerInv, ControlInv
  <2>2. QED BY <1>4, <2>1 DEF Idle
<1>13. ASSUME NEW n \in Names, UploadPeerConf(n) \/ ForgetPeerConf(n)
       PROVE  ArchiveInv'
  <2>1. /\ pc = "idle" /\ UNCHANGED <<conf, meta, pc, req>>
        /\ archive' \in {[archive EXCEPT ![n] = [key |-> 0, by |-> "upload"]],
                         [archive EXCEPT ![n] = NoArchive]}
    BY <1>13 DEF UploadPeerConf, ForgetPeerConf
  <2>2. \A m \in Names : archive'[m] = archive[m] \/ archive'[m].by # "create"
    BY <2>1 DEF HandlerInv, TypeInv, TypeOK, NoArchive
  <2>3. \A e \in conf : OwnArchive(e) => OwnArchive(e)'
    BY <2>1, <2>2 DEF OwnArchive, NameOf
  <2>4. QED BY <2>1, <2>3 DEF ArchiveInv
<1>14. ASSUME NEW u \in Usernames, CreateUser(u)
       PROVE  ArchiveInv'
  BY <1>3, <1>14 DEF CreateUser
<1>15. ASSUME NEW u \in Usernames, DeleteUser(u)
       PROVE  ArchiveInv'
  <2>1. pc = "idle" /\ req'.op = "user_delete" /\ UNCHANGED <<conf, meta, archive>>
    BY <1>15 DEF DeleteUser, Idle
  <2>2. QED BY <1>4, <2>1 DEF ArchiveInv
<1>16. ASSUME NEW n \in Names, DeletePeer(n)
       PROVE  ArchiveInv'
  <2>1. pc = "idle" /\ req'.op = "delete" /\ UNCHANGED <<conf, meta, archive>>
    BY <1>16 DEF DeletePeer, Idle
  <2>2. QED BY <1>4, <2>1 DEF ArchiveInv
<1>17. CASE Script
  BY <1>17 DEF Script, ScriptAppend, ScriptSet, HandlerInv, AddressInv
<1>18. CASE Crash \/ UNCHANGED vars
  BY <1>0, <1>3, <1>18 DEF Crash, vars
<1>19. QED
  BY <1>5, <1>6, <1>7, <1>8, <1>9, <1>10, <1>11, <1>12, <1>13, <1>14, <1>15,
     <1>16, <1>17, <1>18
  DEF Next, Request, Handler

\* With the handlers alone, although the rewrites of gw0.conf, the sidecar and
\* the reload may fail, and although a deletion leaves the archive behind, a
\* device never serves the stored .conf of an earlier device of its name: the
\* enrolment overwrites it before anybody can ask.
THEOREM ArchivesAreOwn ==
  ASSUME ScriptNames = {}, Faults \cap Stale = {}
  PROVE  Spec => []ArchiveServesOwnKey
<1>1. Init => ArchiveInv
  BY DEF Init, ArchiveInv, Idle
<1>2. HandlerInv /\ ArchiveInv /\ [Next]_vars => ArchiveInv'
  BY ArchiveStep
<1>3. ArchiveInv => ArchiveServesOwnKey
  BY DEF ArchiveInv, OwnArchive, ArchiveServesOwnKey
<1>4. QED BY <1>1, <1>2, <1>3, Handlers, PTL DEF Spec

-----------------------------------------------------------------------------
(* The kernel *)

\* Inductive: a rewrite of gw0.conf is always on its way to a reload.
LiveInv ==
  pc \notin {"meta_put", "meta_delete", "reload"} => live = Synced(conf)

\* The failures that can leave the kernel behind the file.
Lagging == {"crash", "reload"}

LEMMA LiveStep ==
  ASSUME ScriptNames = {}, Faults \cap Lagging = {}, HandlerInv, LiveInv,
         [Next]_vars
  PROVE  LiveInv'
<1>0. ~FaultOn("crash") /\ ~FaultOn("reload")
  BY DEF FaultOn, Lagging
<1>1. CASE UNCHANGED <<conf, live, pc>>
  BY <1>1 DEF LiveInv
<1>2. CASE UNCHANGED <<conf, live>> /\ pc \notin {"meta_put", "meta_delete", "reload"}
  BY <1>2 DEF LiveInv
<1>3. CASE pc' \in {"meta_put", "meta_delete", "reload"}
  BY <1>3 DEF LiveInv
<1>4. CASE AppendPeer
  BY <1>2, <1>3, <1>4 DEF AppendPeer
<1>5. CASE RemovePeers
  BY <1>2, <1>3, <1>5 DEF RemovePeers
<1>6. CASE MetaPut \/ MetaDelete
  BY <1>3, <1>6 DEF MetaPut, MetaDelete
<1>7. CASE ReloadInterface
  <2>1. live' = Synced(conf) /\ conf' = conf
    BY <1>0, <1>7 DEF ReloadInterface
  <2>2. QED BY <2>1 DEF LiveInv
<1>8. CASE ArchiveWrite \/ RemoveUser
  BY <1>2, <1>8 DEF ArchiveWrite, RemoveUser
<1>9. CASE Request
  BY <1>2, <1>9 DEF Request, CreateUser, DeleteUser, AddPeer, DeletePeer,
     UploadPeerConf, ForgetPeerConf
<1>10. CASE Script
  BY <1>10 DEF Script, ScriptAppend, ScriptSet, HandlerInv, AddressInv
<1>11. CASE Crash \/ UNCHANGED vars
  BY <1>0, <1>1, <1>11 DEF Crash, vars
<1>12. QED
  BY <1>4, <1>5, <1>6, <1>7, <1>8, <1>9, <1>10, <1>11 DEF Next, Handler

\* With the handlers alone, although any write but the reload may fail, the
\* kernel runs exactly the devices of gw0.conf whenever s.mu is free: no error
\* path of a handler that rewrote the file skips reloadInterface.
THEOREM KernelFollows ==
  ASSUME ScriptNames = {}, Faults \cap Lagging = {}
  PROVE  Spec => []LiveFollowsConf
<1>1. Init => LiveInv
  <2>1. Synced({}) = [k \in Keys |-> 0]
    BY DEF Synced
  <2>2. QED BY <2>1 DEF Init, LiveInv
<1>2. HandlerInv /\ LiveInv /\ [Next]_vars => LiveInv'
  BY LiveStep
<1>3. LiveInv => LiveFollowsConf
  BY DEF LiveInv, LiveFollowsConf
<1>4. QED BY <1>1, <1>2, <1>3, Handlers, PTL DEF Spec

-----------------------------------------------------------------------------
(* The registry of devices that the handlers implement. *)

DeviceOf(e) == [name |-> owner[e.key].name, user |-> owner[e.key].user,
                key |-> e.key, ip |-> e.ip]

Devices == { DeviceOf(e) : e \in conf }

\* handleDeletePeer takes one block, handleUserDelete all those of the prefix.
DropInv ==
  /\ pc = "remove" /\ req.op = "delete" => \E b \in conf : drop = {b.key}
  /\ pc = "remove" /\ req.op = "user_delete" =>
       \A e \in conf : HasPrefix(owner[e.key].name, req.user) => e.key \in drop

RegistryInv == HandlerInv /\ OwnNameInv /\ KnownInv /\ UserInv /\ DropInv

LEMMA DropStep ==
  ASSUME ScriptNames = {}, Faults \cap Unnaming = {}, HandlerInv, OwnNameInv,
         KnownInv, DropInv, [Next]_vars
  PROVE  DropInv'
<1>1. CASE pc' # "remove" \/ UNCHANGED <<conf, pc, req, drop, owner>>
  BY <1>1 DEF DropInv
<1>2. ASSUME NEW n \in Names, DeletePeer(n)
      PROVE  DropInv'
  <2>1. conf' = conf /\ req'.op = "delete" /\ \E e \in conf : drop' = {e.key}
    BY <1>2 DEF DeletePeer, Idle
  <2>2. QED BY <2>1 DEF DropInv
<1>3. ASSUME NEW u \in Usernames, DeleteUser(u)
      PROVE  DropInv'
  <2>1. /\ req'.op = "user_delete" /\ req'.user = u /\ UNCHANGED <<conf, owner>>
        /\ \/ pc' = "users"
           \/ drop' = { e.key : e \in { b \in conf : HasPrefix(NameOf(b), u) } }
    BY <1>3 DEF DeleteUser, Idle
  <2>2. \A e \in conf : NameOf(e) = owner[e.key].name
    BY KnownName
  <2>3. QED BY <1>1, <2>1, <2>2 DEF DropInv
<1>4. ASSUME NEW u \in Usernames, NEW t \in Tags, AddPeer(u, t)
      PROVE  DropInv'
  BY <1>1, <1>4 DEF AddPeer
<1>5. ASSUME NEW u \in Usernames, CreateUser(u)
      PROVE  DropInv'
  BY <1>1, <1>5 DEF CreateUser
<1>6. ASSUME NEW n \in Names, UploadPeerConf(n) \/ ForgetPeerConf(n)
      PROVE  DropInv'
  BY <1>1, <1>6 DEF UploadPeerConf, ForgetPeerConf
<1>7. CASE Handler
  BY <1>1, <1>7 DEF Handler, AppendPeer, MetaPut, ArchiveWrite, ReloadInterface,
     AfterReload, RemovePeers, MetaDelete, RemoveUser, Return
<1>8. CASE Script
  <2>1. UNCHANGED <<pc, req, drop>>
    BY <1>8 DEF Script, ScriptRead, ScriptAppend, ScriptSet
  <2>2. UNCHANGED <<conf, owner>>
    BY <1>8 DEF Script, ScriptRead, ScriptAppend, ScriptSet, HandlerInv, AddressInv
  <2>3. QED BY <1>1, <2>1, <2>2
<1>9. CASE Crash \/ UNCHANGED vars
  BY <1>1, <1>9 DEF Crash, Return, vars
<1>10. QED
  BY <1>2, <1>3, <1>4, <1>5, <1>6, <1>7, <1>8, <1>9 DEF Next, Request

LEMMA RegistryInvariant ==
  ASSUME ScriptNames = {}, Faults \cap Orphaning = {}
  PROVE  Spec => []RegistryInv
<1>1. Faults \cap Unnaming = {}
  BY DEF Unnaming, Orphaning
<1>2. Init => DropInv
  BY DEF Init, DropInv
<1>3. HandlerInv /\ OwnNameInv /\ KnownInv /\ DropInv /\ [Next]_vars => DropInv'
  BY <1>1, DropStep
<1>4. QED BY <1>1, <1>2, <1>3, OwnNames, Known, Users, PTL DEF Spec, RegistryInv

LEMMA AppendEnrols ==
  ASSUME ScriptNames = {}, Faults \cap Orphaning = {}, RegistryInv, AppendPeer
  PROVE  Registry!Next
<1>1. /\ pc = "append" /\ req.key \in Keys /\ req.user \in users
      /\ req.user \in Usernames /\ req.ip \in Octets /\ users' = users
      /\ DeviceName(req.name, req.user)
  BY Appended DEF RegistryInv, HandlerInv, ControlInv, UserInv, TypeInv, Prepared
<1>2. PICK u \in Usernames, t \in Tags, k \in Keys, octet \in Octets :
        u = req.user /\ req.name = u \o t /\ k = req.key /\ octet = req.ip
  BY <1>1 DEF DeviceName, PeerNameFor
<1>3. ~FaultOn("conf_write")
  BY DEF FaultOn, Orphaning
<1>4. PICK b : /\ b.key = k /\ b.ip = octet
               /\ conf' = conf \cup {b}
  <2>1. PICK n \in Lines :
          conf' = conf \cup {[line |-> n, key |-> req.key, ip |-> req.ip,
                              comment |-> req.name]}
    BY <1>3, Appended DEF RegistryInv
  <2>2. QED BY <1>2, <2>1
<1>5. /\ owner'[k] = [user |-> u, name |-> u \o t]
      /\ \A e \in conf : owner'[e.key] = owner[e.key]
  BY <1>2, <1>3, Appended DEF RegistryInv
<1>6. ASSUME NEW e \in conf
      PROVE  owner[e.key].name # u \o t /\ e.key # k /\ e.ip # octet
  <2>1. NameOf(e) # req.name /\ e.key # req.key /\ e.ip # req.ip
    BY <1>1 DEF RegistryInv, HandlerInv, NameInv, AddressInv
  <2>2. QED BY <1>2, <2>1, KnownName DEF RegistryInv
<1>7. Devices' = Devices \cup {[name |-> u \o t, user |-> u, key |-> k, ip |-> octet]}
  <2>1. \A e \in conf : DeviceOf(e)' = DeviceOf(e)
    BY <1>5 DEF DeviceOf
  <2>2. DeviceOf(b)' = [name |-> u \o t, user |-> u, key |-> k, ip |-> octet]
    BY <1>4, <1>5 DEF DeviceOf
  <2>3. Devices' = { DeviceOf(e)' : e \in conf' }
    BY DEF Devices
  <2>4. QED BY <1>4, <2>1, <2>2, <2>3 DEF Devices
<1>8. \A d \in Devices : d.name # u \o t /\ d.key # k /\ d.ip # octet
  BY <1>6 DEF Devices, DeviceOf
<1>9. Registry!Enrol(u, t, k, octet)
  BY <1>1, <1>2, <1>7, <1>8 DEF Registry!Enrol, Devices, DeviceOf
<1>10. QED BY <1>9 DEF Registry!Next, Keys, Octets

\* The devices that a removal leaves are those whose keys it did not drop.
LEMMA RemoveLeaves ==
  ASSUME Faults \cap Orphaning = {}, RegistryInv, RemovePeers
  PROVE  Devices' = { d \in Devices : d.key \notin drop }
<1>1. ~FaultOn("conf_write")
  BY DEF FaultOn, Orphaning
<1>2. /\ owner' = owner
      /\ \A e \in conf' : \E b \in conf : b.key \notin drop /\ e.key = b.key /\ e.ip = b.ip
      /\ \A b \in conf : b.key \notin drop => \E e \in conf' : e.key = b.key /\ e.ip = b.ip
  BY <1>1, Removed DEF RegistryInv
<1>3. \A e, b : e.key = b.key /\ e.ip = b.ip => DeviceOf(e)' = DeviceOf(b)
  BY <1>2 DEF DeviceOf
<1>4. \A b : DeviceOf(b).key = b.key
  BY DEF DeviceOf
<1>5. Devices' = { DeviceOf(e)' : e \in conf' }
  BY DEF Devices
<1>6. ASSUME NEW d \in Devices'
      PROVE  d \in Devices /\ d.key \notin drop
  <2>1. PICK e \in conf' : d = DeviceOf(e)'
    BY <1>5, <1>6
  <2>2. PICK b \in conf : b.key \notin drop /\ e.key = b.key /\ e.ip = b.ip
    BY <1>2
  <2>3. d = DeviceOf(b)
    BY <1>3, <2>1, <2>2
  <2>4. QED BY <1>4, <2>2, <2>3 DEF Devices
<1>7. ASSUME NEW d \in Devices, d.key \notin drop
      PROVE  d \in Devices'
  <2>1. PICK b \in conf : d = DeviceOf(b)
    BY DEF Devices
  <2>2. PICK e \in conf' : e.key = b.key /\ e.ip = b.ip
    BY <1>2, <1>4, <1>7, <2>1
  <2>3. d = DeviceOf(e)'
    BY <1>3, <2>1, <2>2
  <2>4. QED BY <1>5, <2>3
<1>8. QED BY <1>6, <1>7

LEMMA RemoveRevokes ==
  ASSUME Faults \cap Orphaning = {}, RegistryInv, RemovePeers
  PROVE  Registry!Next
<1>1. /\ pc = "remove" /\ req.op \in {"delete", "user_delete"} /\ users' = users
      /\ raw = conf
  BY Removed DEF RegistryInv, HandlerInv, AddressInv
<1>2. Devices' = { d \in Devices : d.key \notin drop }
  BY RemoveLeaves
<1>3. CASE req.op = "delete"
  <2>1. PICK b \in conf : drop = {b.key}
    BY <1>1, <1>3 DEF RegistryInv, DropInv
  <2>2. \A e \in conf : e.key = b.key => e = b
    BY DEF RegistryInv, HandlerInv, AddressInv, Distinct
  <2>3. \A d \in Devices : d.key = b.key <=> d = DeviceOf(b)
    BY <2>2 DEF Devices, DeviceOf
  <2>4. Devices' = Devices \ {DeviceOf(b)} /\ DeviceOf(b) \in Devices
    BY <1>2, <2>1, <2>3 DEF Devices
  <2>5. PICK d \in Devices : Devices' = Devices \ {d}
    BY <2>4
  <2>6. Registry!Revoke(d)
    BY <1>1, <2>5 DEF Registry!Revoke, Devices, DeviceOf
  <2>7. QED BY <2>6 DEF Registry!Next, Devices, DeviceOf
<1>4. CASE req.op = "user_delete"
  <2>1. \A e \in conf : e.key \in drop <=> HasPrefix(owner[e.key].name, req.user)
    BY <1>1, <1>4 DEF RegistryInv, OwnNameInv, DropInv
  <2>2. PICK u \in Usernames : u = req.user
    BY <1>4 DEF RegistryInv, HandlerInv, ControlInv
  <2>3. \A d \in Devices : d.key \notin drop <=> ~Registry!Begins(d.name, u)
    BY <2>1, <2>2 DEF Devices, DeviceOf, HasPrefix, Registry!Begins
  <2>4. Devices' = { d \in Devices : ~Registry!Begins(d.name, u) }
    BY <1>2, <2>3
  <2>6. Registry!RevokeAll(u)
    BY <1>1, <2>4 DEF Registry!RevokeAll, Devices, DeviceOf
  <2>7. QED BY <2>6 DEF Registry!Next
<1>5. QED BY <1>1, <1>3, <1>4

LEMMA RegistryStep ==
  ASSUME ScriptNames = {}, Faults \cap Orphaning = {}, RegistryInv,
         [Next]_vars
  PROVE  [Registry!Next]_(Registry!rvars)
<1>0. ~FaultOn("crash") /\ ~FaultOn("users_write")
  BY DEF FaultOn, Orphaning
<1>1. CASE UNCHANGED <<users, conf, owner>>
  BY <1>1 DEF Registry!rvars
<1>2. ASSUME NEW u \in Usernames, CreateUser(u)
      PROVE  Registry!Next
  <2>1. Registry!AddUser(u)
    BY <1>0, <1>2 DEF CreateUser, Flushed, Registry!AddUser
  <2>2. QED BY <2>1 DEF Registry!Next
<1>3. CASE RemoveUser
  <2>1. CASE users' = users
    BY <1>1, <1>3, <2>1 DEF RemoveUser
  <2>2. CASE users' = users \ {req.user}
    <3>1. /\ UNCHANGED <<conf, owner>> /\ req.user \in Usernames
          /\ \A e \in conf : owner[e.key].user # req.user
      BY <1>3 DEF RemoveUser, RegistryInv, HandlerInv, ControlInv, UserInv
    <3>2. PICK u \in Usernames : u = req.user
      BY <3>1
    <3>3. Registry!RemoveUser(u)
      BY <2>2, <3>1, <3>2 DEF Registry!RemoveUser
    <3>4. QED BY <3>3 DEF Registry!Next
  <2>3. QED BY <1>0, <1>3, <2>1, <2>2 DEF RemoveUser, Flushed
<1>4. CASE ~RemoveUser /\ ~AppendPeer /\ ~RemovePeers
           /\ ~ \E u \in Usernames : CreateUser(u)
  <2>1. UNCHANGED <<users, conf, owner>>
    BY <1>4 DEF Next, Request, Handler, Script, DeleteUser, AddPeer, DeletePeer,
       UploadPeerConf, ForgetPeerConf, MetaPut, ArchiveWrite, ReloadInterface,
       MetaDelete, ScriptAppend, ScriptSet, Crash, vars, RegistryInv, HandlerInv,
       AddressInv
  <2>2. QED BY <1>1, <2>1
<1>5. QED BY <1>2, <1>3, <1>4, AppendEnrols, RemoveRevokes

\* With the handlers alone, where no crash, no failed rewrite of gw0.conf or of
\* users_database.yml and no trouble with the sidecar interferes, the handlers
\* implement the registry, for all user names and tags: every behaviour of
\* gw0.conf and users_database.yml is one of whole enrolments and whole removals,
\* in which a user leaves after the last of their devices, and takes the devices
\* of users along whose names begin with theirs and a hyphen.
THEOREM ImplementsRegistry ==
  ASSUME ScriptNames = {}, Faults \cap Orphaning = {}
  PROVE  Spec => RegistrySpec
<1>1. Init => Registry!Init
  BY DEF Init, Registry!Init
<1>2. RegistryInv /\ [Next]_vars => [Registry!Next]_(Registry!rvars)
  BY RegistryStep
<1>3. QED BY <1>1, <1>2, RegistryInvariant, PTL DEF Spec, RegistrySpec, Registry!Spec
=============================================================================
