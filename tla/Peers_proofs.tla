---------------------------- MODULE Peers_proofs ----------------------------
(***************************************************************************)
(* Proofs about Peers, for every set of users, tags, faults and every      *)
(* range of addresses.                                                     *)
(***************************************************************************)
EXTENDS Peers, TLAPS

\* Before its writes a handler holds a real key, address and name, and so
\* does the script before it appends.
Prepared ==
  /\ pc = "append" => /\ req.key \in Keys
                      /\ req.ip \in Octets
                      /\ req.name \in Names
                      /\ req.user \in Usernames
  /\ script.at = "append" => /\ script.key \in Keys
                             /\ script.ip \in Octets

TypeInv == TypeOK /\ Prepared

LEMMA NameTypes ==
  /\ NoName \notin Names
  /\ Names \subseteq Seq(STRING)
  /\ \A u \in Usernames, t \in Tags : PeerNameFor(u, t) \in Names
<1>1. ASSUME NEW u \in Usernames, NEW t \in Tags
      PROVE  u \o t \in Seq(STRING) /\ Len(u \o t) > 0
  <2>1. u \in Seq(STRING) /\ u # << >> /\ t \in Seq(STRING)
    BY NameAssumption
  <2>2. Len(u) > 0 /\ Len(u \o t) = Len(u) + Len(t) /\ u \o t \in Seq(STRING)
    BY <2>1
  <2>3. QED BY <2>1, <2>2
<1>2. \A u \in Usernames, t \in Tags :
        PeerNameFor(u, t) \in Seq(STRING) /\ PeerNameFor(u, t) # << >>
  BY <1>1 DEF PeerNameFor
<1>3. QED
  BY <1>2, NameAssumption DEF Names, NoName

LEMMA IdleType ==
  /\ Idle \in HandlerRequest
  /\ \A n \in Names : [Idle EXCEPT !.op = "delete", !.name = n] \in HandlerRequest
  /\ \A u \in Usernames :
       [Idle EXCEPT !.op = "user_delete", !.user = u] \in HandlerRequest
BY DEF Idle, HandlerRequest

LEMMA SyncedType ==
  ASSUME NEW c \in SUBSET Block
  PROVE  Synced(c) \in [Keys -> Octets \cup {0}]
<1>1. ASSUME NEW k \in Keys, \E e \in c : e.key = k
      PROVE  (CHOOSE e \in c : e.key = k).ip \in Octets
  <2>1. (CHOOSE e \in c : e.key = k) \in c
    BY <1>1
  <2>2. QED BY <2>1 DEF Block
<1>2. QED BY <1>1 DEF Synced

LEMMA RemoveType ==
  ASSUME NEW c \in SUBSET Block, NEW ks
  PROVE  RemovePeersByPubkeys(c, ks) \in SUBSET Block
BY DEF RemovePeersByPubkeys, Block

\* The typing invariant with the contents of a prepared request.
LEMMA Typing == Spec => []TypeInv
<1>1. Init => TypeInv
  BY BoundAssumption DEF Init, TypeInv, TypeOK, Prepared, Idle, NoScript, NoOwner,
     NoArchive, Pcs, Keys, HandlerRequest
<1>2. TypeInv /\ [Next]_vars => TypeInv'
  <2> SUFFICES ASSUME TypeInv, [Next]_vars
               PROVE  TypeInv'
    OBVIOUS
  <2> USE BoundAssumption DEF TypeInv, TypeOK, Prepared
  <2>1. ASSUME NEW u \in Usernames, CreateUser(u)
        PROVE  TypeInv'
    <3>1. users' \subseteq Usernames
      BY <2>1 DEF CreateUser, Flushed
    <3>2. QED
      BY <2>1, <3>1 DEF CreateUser
  <2>2. ASSUME NEW u \in Usernames, DeleteUser(u)
        PROVE  TypeInv'
    <3>1. req' \in HandlerRequest /\ raw' \subseteq Block
      BY <2>2, IdleType DEF DeleteUser
    <3>2. drop' \subseteq Keys
      BY <2>2 DEF DeleteUser, Block
    <3>3. pc' \in {"users", "remove"}
      BY <2>2 DEF DeleteUser
    <3>4. QED
      BY <2>2, <3>1, <3>2, <3>3 DEF DeleteUser, Pcs
  <2>3. ASSUME NEW u \in Usernames, NEW t \in Tags, AddPeer(u, t)
        PROVE  TypeInv'
    <3>1. PeerNameFor(u, t) \in Names
      BY NameTypes
    <3>2. req' \in HandlerRequest /\ req'.key \in Keys /\ req'.ip \in Octets
          /\ req'.name \in Names /\ req'.user \in Usernames
      <4>1. PICK tracked \in BOOLEAN, octet \in Octets :
              req' = [op |-> "add", user |-> u, name |-> PeerNameFor(u, t),
                      key |-> nextKey, ip |-> octet, tracked |-> tracked]
        BY <2>3 DEF AddPeer, FreeOctets
      <4>2. nextKey \in Keys
        BY <2>3 DEF AddPeer
      <4>3. QED
        BY <3>1, <4>1, <4>2 DEF HandlerRequest
    <3>3. nextKey' \in 1..(MaxKeys + 1)
      BY <2>3 DEF AddPeer, Keys
    <3>4. QED
      BY <2>3, <3>2, <3>3 DEF AddPeer, Pcs
  <2>4. ASSUME NEW n \in Names, DeletePeer(n)
        PROVE  TypeInv'
    BY <2>4, IdleType DEF DeletePeer, Pcs, Block
  <2>5. ASSUME NEW n \in Names, UploadPeerConf(n)
        PROVE  TypeInv'
    BY <2>5 DEF UploadPeerConf
  <2>6. ASSUME NEW n \in Names, ForgetPeerConf(n)
        PROVE  TypeInv'
    BY <2>6 DEF ForgetPeerConf, NoArchive
  <2>7. CASE AppendPeer
    <3>1. CASE FaultOn("conf_write") /\ Return /\ UNCHANGED <<conf, owner>>
      BY <2>7, <3>1, IdleType DEF AppendPeer, Return, Pcs
    <3>2. ASSUME NEW n \in Lines,
                 conf' = raw \cup {[line |-> n, key |-> req.key, ip |-> req.ip,
                                    comment |-> req.name]},
                 owner' = [owner EXCEPT ![req.key] =
                             [user |-> req.user, name |-> req.name]],
                 pc' = IF req.tracked THEN "meta_put" ELSE "reload",
                 UNCHANGED <<req, raw, drop>>
          PROVE  TypeInv'
      <4>1. req.key \in Keys /\ req.ip \in Octets /\ req.name \in Names
            /\ req.user \in Usernames
        BY <2>7 DEF AppendPeer
      <4>2. conf' \subseteq Block
        BY <3>2, <4>1 DEF Block
      <4>3. owner' \in [Keys -> [user : Usernames \cup {NoName},
                                name : Names \cup {NoName}]]
        BY <3>2, <4>1
      <4>4. pc' \in {"meta_put", "reload"}
        BY <3>2
      <4>5. QED
        BY <2>7, <3>2, <4>2, <4>3, <4>4 DEF AppendPeer, Pcs
    <3>3. QED
      BY <2>7, <3>1, <3>2 DEF AppendPeer
  <2>8. CASE MetaPut
    BY <2>8 DEF MetaPut, Pcs, HandlerRequest
  <2>9. CASE ArchiveWrite
    <3>1. req.key \in Keys \cup {0}
      BY DEF HandlerRequest
    <3>2. archive' \in [Names -> [key : Keys \cup {0},
                                by : {"none", "create", "upload"}]]
      BY <2>9, <3>1 DEF ArchiveWrite
    <3>3. QED
      BY <2>9, <3>2, IdleType DEF ArchiveWrite, Return, Pcs
  <2>10. CASE ReloadInterface
    <3>1. Synced(conf) \in [Keys -> Octets \cup {0}]
      BY SyncedType
    <3>2. QED
      BY <2>10, <3>1, IdleType DEF ReloadInterface, AfterReload, Return, Pcs
  <2>11. CASE RemovePeers
    <3>1. RemovePeersByPubkeys(raw, drop) \in SUBSET Block
      BY RemoveType
    <3>2. QED
      BY <2>11, <3>1, IdleType DEF RemovePeers, Return, Pcs
  <2>12. CASE MetaDelete
    BY <2>12 DEF MetaDelete, Pcs
  <2>13. CASE RemoveUser
    <3>1. users' \subseteq Usernames
      BY <2>13 DEF RemoveUser, Flushed
    <3>2. QED
      BY <2>13, <3>1, IdleType DEF RemoveUser, Return, Pcs
  <2>14. ASSUME NEW n \in ScriptNames, ScriptRead(n)
         PROVE  TypeInv'
    BY <2>14 DEF ScriptRead, FreeOctets, Keys
  <2>15. CASE ScriptAppend
    BY <2>15 DEF ScriptAppend, Block, Names
  <2>16. CASE ScriptSet
    BY <2>16 DEF ScriptSet, NoScript
  <2>17. CASE Crash
    BY <2>17, IdleType DEF Crash, Return, Pcs
  <2>18. CASE UNCHANGED vars
    BY <2>18 DEF vars
  <2>19. QED
    BY <2>1, <2>2, <2>3, <2>4, <2>5, <2>6, <2>7, <2>8, <2>9, <2>10, <2>11,
       <2>12, <2>13, <2>14, <2>15, <2>16, <2>17, <2>18
    DEF Next, Request, Handler, Script
<1>3. QED
  BY <1>1, <1>2, PTL DEF Spec

\* Every value keeps its kind: no handler of server.go and no step of the
\* script writes a block, a sidecar entry or an address out of range.
THEOREM TypeCorrect == Spec => []TypeOK
<1>1. TypeInv => TypeOK
  BY DEF TypeInv
<1>2. QED
  BY <1>1, Typing, PTL

-----------------------------------------------------------------------------
(* Addresses: handlers alone, any failure, a crash anywhere. *)

Distinct == \A e, f \in conf : e # f => e.ip # f.ip /\ e.key # f.key

\* Inductive: the handler's copy of the file is the file, keys are handed out
\* once, and a prepared enrolment has an address nobody in the file has.
AddressInv ==
  /\ script.at = "done"
  /\ pc \in {"append", "remove"} => raw = conf
  /\ \A e \in conf : e.key < nextKey
  /\ \A k \in Keys : k >= nextKey => owner[k] = NoOwner
  /\ pc = "append" => /\ req.key < nextKey
                      /\ owner[req.key] = NoOwner
                      /\ \A e \in conf : e.key # req.key /\ e.ip # req.ip
  /\ pc = "meta_delete" => \A e \in conf : e.key \notin drop
  /\ Distinct

LEMMA RemoveKeys ==
  ASSUME NEW c \in SUBSET Block, NEW ks, NEW e \in RemovePeersByPubkeys(c, ks)
  PROVE  \E b \in c : /\ b.key \notin ks
                      /\ e.key = b.key /\ e.ip = b.ip /\ e.line = b.line
                      /\ e \in {b, [b EXCEPT !.comment = NoName]}
BY DEF RemovePeersByPubkeys, Block

LEMMA AddressStep ==
  ASSUME ScriptNames = {}, TypeInv, AddressInv, [Next]_vars
  PROVE  AddressInv'
<1> USE BoundAssumption DEF TypeInv, TypeOK, Prepared, AddressInv, Distinct
<1>1. ASSUME NEW u \in Usernames, CreateUser(u)
      PROVE  AddressInv'
  BY <1>1 DEF CreateUser
<1>2. ASSUME NEW u \in Usernames, DeleteUser(u)
      PROVE  AddressInv'
  <2>1. pc' \in {"users", "remove"}
    BY <1>2 DEF DeleteUser
  <2>2. QED
    BY <1>2, <2>1 DEF DeleteUser
<1>3. ASSUME NEW u \in Usernames, NEW t \in Tags, AddPeer(u, t)
      PROVE  AddressInv'
  <2>1. PICK tracked \in BOOLEAN, octet \in FreeOctets(conf) :
          req' = [op |-> "add", user |-> u, name |-> PeerNameFor(u, t),
                  key |-> nextKey, ip |-> octet, tracked |-> tracked]
    BY <1>3 DEF AddPeer
  <2>2. \A e \in conf : e.ip # octet
    BY <2>1 DEF FreeOctets, UsedOctets
  <2>3. QED
    BY <1>3, <2>1, <2>2 DEF AddPeer, Keys, Block
<1>4. ASSUME NEW n \in Names, DeletePeer(n)
      PROVE  AddressInv'
  BY <1>4 DEF DeletePeer
<1>5. ASSUME NEW n \in Names, UploadPeerConf(n)
      PROVE  AddressInv'
  BY <1>5 DEF UploadPeerConf
<1>6. ASSUME NEW n \in Names, ForgetPeerConf(n)
      PROVE  AddressInv'
  BY <1>6 DEF ForgetPeerConf
<1>7. CASE AppendPeer
  <2>1. CASE FaultOn("conf_write") /\ Return /\ UNCHANGED <<conf, owner>>
    BY <1>7, <2>1 DEF AppendPeer, Return
  <2>2. ASSUME NEW n \in Lines,
               conf' = raw \cup {[line |-> n, key |-> req.key, ip |-> req.ip,
                                  comment |-> req.name]},
               owner' = [owner EXCEPT ![req.key] =
                           [user |-> req.user, name |-> req.name]],
               pc' \in {"meta_put", "reload"},
               UNCHANGED <<req, raw, drop>>
        PROVE  AddressInv'
    <3>1. req.key \in Keys /\ req.key < nextKey /\ raw = conf
      BY <1>7 DEF AppendPeer
    <3>2. \A k \in Keys : k >= nextKey => owner'[k] = NoOwner
      BY <2>2, <3>1 DEF Keys
    <3>3. QED
      BY <1>7, <2>2, <3>1, <3>2 DEF AppendPeer
  <2>3. QED
    BY <1>7, <2>1, <2>2 DEF AppendPeer
<1>8. CASE MetaPut
  BY <1>8 DEF MetaPut
<1>9. CASE ArchiveWrite
  BY <1>9 DEF ArchiveWrite, Return
<1>10. CASE ReloadInterface
  BY <1>10 DEF ReloadInterface, AfterReload, Return
<1>11. CASE RemovePeers
  <2>1. CASE conf' = conf /\ pc' \in {"idle", "users"}
    BY <1>11, <2>1 DEF RemovePeers
  <2>2. CASE conf' = RemovePeersByPubkeys(raw, drop) /\ pc' = "meta_delete"
             /\ UNCHANGED <<req, raw, drop>>
    <3>1. \A e \in conf' : \E b \in conf :
            b.key \notin drop /\ e.key = b.key /\ e.ip = b.ip
            /\ e \in {b, [b EXCEPT !.comment = NoName]}
      BY <1>11, <2>2, RemoveKeys DEF RemovePeers
    <3>2. \A e, f \in conf' : e # f => e.ip # f.ip /\ e.key # f.key
      <4> DEFINE F(b) == IF \E d \in conf : d.key \in drop /\ Follows(b, d, conf)
                           THEN [b EXCEPT !.comment = NoName] ELSE b
      <4>1. \A e \in conf' : \E b \in conf : e = F(b)
        BY <1>11, <2>2 DEF RemovePeers, RemovePeersByPubkeys
      <4>2. \A b \in conf : F(b).ip = b.ip /\ F(b).key = b.key
        BY DEF Block
      <4> HIDE DEF F
      <4>3. QED
        BY <4>1, <4>2
    <3>3. QED
      BY <1>11, <2>2, <3>1, <3>2 DEF RemovePeers
  <2>3. QED
    BY <1>11, <2>1, <2>2 DEF RemovePeers, Return
<1>12. CASE MetaDelete
  BY <1>12 DEF MetaDelete
<1>13. CASE RemoveUser
  BY <1>13 DEF RemoveUser, Return
<1>14. CASE Script
  BY <1>14 DEF Script, ScriptAppend, ScriptSet
<1>15. CASE Crash
  BY <1>15 DEF Crash, Return
<1>16. CASE UNCHANGED vars
  BY <1>16 DEF vars
<1>17. QED
  BY <1>1, <1>2, <1>3, <1>4, <1>5, <1>6, <1>7, <1>8, <1>9, <1>10, <1>11,
     <1>12, <1>13, <1>14, <1>15, <1>16
  DEF Next, Request, Handler

LEMMA AddressInit == Init => AddressInv
BY BoundAssumption DEF Init, AddressInv, Distinct, NoScript, Keys

\* With the handlers alone, whichever write fails and wherever the container
\* dies, no two devices of gw0.conf share an address or a key: pickFreeOctet
\* under s.mu is enough.
THEOREM AddressesAreUnique ==
  ASSUME ScriptNames = {} PROVE Spec => []UniqueAddresses
<1>1. AddressInv => UniqueAddresses
  BY DEF AddressInv, Distinct, UniqueAddresses, Enrolled
<1>2. TypeInv /\ AddressInv /\ [Next]_vars => AddressInv'
  BY AddressStep
<1>3. QED
  BY <1>1, <1>2, AddressInit, Typing, PTL DEF Spec

-----------------------------------------------------------------------------
(* Removals: any failure, a crash anywhere, and the script beside it. *)

\* Inductive: the handler's copy of the file holds no device that has left the
\* file, and whoever is about to append has a key of its own that was never in
\* the file.
FreshInv ==
  /\ pc \in {"append", "remove"} => KeysOf(raw) \subseteq KeysOf(conf)
  /\ \A k \in Keys : k >= nextKey => owner[k] = NoOwner
  /\ pc = "append" => req.key < nextKey /\ owner[req.key] = NoOwner
  /\ script.at = "append" => script.key < nextKey /\ owner[script.key] = NoOwner
  /\ pc = "append" /\ script.at = "append" => req.key # script.key

LEMMA FreshStep ==
  ASSUME TypeInv, FreshInv, [Next]_vars
  PROVE  FreshInv'
<1>0. /\ nextKey \in Int /\ (nextKey \in Keys => nextKey + 1 > nextKey)
      /\ \A k \in Keys : k \in Int
  BY BoundAssumption DEF TypeInv, TypeOK, Keys
<1>1. CASE /\ UNCHANGED <<conf, nextKey, owner>>
           /\ script' = script \/ script'.at # "append"
           /\ \/ pc' \notin {"append", "remove"}
              \/ pc' = "remove" /\ raw' = conf
              \/ UNCHANGED <<pc, req, raw>>
  BY <1>1 DEF FreshInv
<1>2. ASSUME NEW u \in Usernames, NEW t \in Tags, AddPeer(u, t)
      PROVE  FreshInv'
  <2>1. /\ nextKey \in Keys /\ nextKey' = nextKey + 1 /\ req'.key = nextKey
        /\ raw' = conf /\ pc' = "append" /\ UNCHANGED <<conf, script, owner>>
    BY <1>2 DEF AddPeer
  <2>2. script.at = "append" => script.key \in Keys /\ script.key < nextKey
    BY DEF TypeInv, Prepared, FreshInv
  <2>3. /\ \A k \in Keys : /\ k >= nextKey' => k >= nextKey
                          /\ k < nextKey => k < nextKey' /\ k # nextKey
        /\ nextKey < nextKey' /\ owner[nextKey] = NoOwner
    BY <1>0, <2>1 DEF FreshInv
  <2>4. KeysOf(raw') \subseteq KeysOf(conf')
    BY <2>1
  <2>5. \A k \in Keys : k >= nextKey' => owner'[k] = NoOwner
    BY <1>0, <2>1 DEF FreshInv
  <2>6. ASSUME script'.at = "append"
        PROVE  /\ script'.key < nextKey' /\ owner'[script'.key] = NoOwner
               /\ req'.key # script'.key
    <3>1. script.key \in Keys /\ script.key < nextKey /\ owner[script.key] = NoOwner
      BY <2>1, <2>2, <2>6 DEF FreshInv
    <3>2. script.key \in Int /\ nextKey \in Int /\ nextKey' = nextKey + 1
      BY <1>0, <2>1, <3>1
    <3>3. script.key < nextKey' /\ script.key # nextKey
      BY <3>1, <3>2
    <3>4. QED BY <2>1, <3>1, <3>3
  <2>7. req'.key < nextKey' /\ owner'[req'.key] = NoOwner
    BY <2>1, <2>3
  <2>8. QED BY <2>4, <2>5, <2>6, <2>7 DEF FreshInv
<1>3. CASE AppendPeer
  <2>1. CASE UNCHANGED <<conf, owner>>
    BY <1>3, <1>1, <2>1 DEF AppendPeer, Return
  <2>2. CASE owner' = [owner EXCEPT ![req.key] = [user |-> req.user, name |-> req.name]]
             /\ pc' \in {"meta_put", "reload"}
    <3>1. req.key \in Keys /\ req.key < nextKey /\ UNCHANGED <<nextKey, script>>
      BY <1>3 DEF AppendPeer, TypeInv, Prepared, FreshInv
    <3>2. script.at = "append" => script.key \in Keys /\ req.key # script.key
      BY <1>3 DEF AppendPeer, TypeInv, Prepared, FreshInv
    <3>3. \A k \in Keys : k # req.key => owner'[k] = owner[k]
      BY <2>2, <3>1 DEF TypeInv, TypeOK
    <3>4. QED BY <1>0, <2>2, <3>1, <3>2, <3>3 DEF FreshInv
  <2>3. QED BY <1>3, <2>1, <2>2 DEF AppendPeer
<1>4. CASE RemovePeers
  <2>1. UNCHANGED <<nextKey, owner, script>> /\ pc' \in {"idle", "meta_delete", "users"}
    BY <1>4 DEF RemovePeers, Return
  <2>2. QED BY <2>1 DEF FreshInv
<1>5. ASSUME NEW n \in ScriptNames, ScriptRead(n)
      PROVE  FreshInv'
  <2>1. /\ nextKey \in Keys /\ nextKey' = nextKey + 1 /\ script'.key = nextKey
        /\ UNCHANGED <<conf, pc, req, raw, owner>>
    BY <1>5 DEF ScriptRead
  <2>2. pc = "append" => req.key \in Keys /\ req.key < nextKey
    BY DEF TypeInv, Prepared, FreshInv
  <2>3. /\ \A k \in Keys : /\ k >= nextKey' => k >= nextKey
                          /\ k < nextKey => k < nextKey' /\ k # nextKey
        /\ nextKey < nextKey' /\ owner[nextKey] = NoOwner
    BY <1>0, <2>1 DEF FreshInv
  <2>4. pc' \in {"append", "remove"} => KeysOf(raw') \subseteq KeysOf(conf')
    BY <2>1 DEF FreshInv
  <2>5. \A k \in Keys : k >= nextKey' => owner'[k] = NoOwner
    BY <1>0, <2>1 DEF FreshInv
  <2>6. ASSUME pc' = "append"
        PROVE  /\ req'.key < nextKey' /\ owner'[req'.key] = NoOwner
               /\ req'.key # script'.key
    <3>1. req.key \in Keys /\ req.key < nextKey /\ owner[req.key] = NoOwner
      BY <2>1, <2>2, <2>6 DEF FreshInv
    <3>2. req.key \in Int /\ nextKey \in Int /\ nextKey' = nextKey + 1
      BY <1>0, <2>1, <3>1
    <3>3. req.key < nextKey' /\ req.key # nextKey
      BY <3>1, <3>2
    <3>4. QED BY <2>1, <3>1, <3>3
  <2>7. script'.key < nextKey' /\ owner'[script'.key] = NoOwner
    BY <2>1, <2>3
  <2>8. QED BY <2>4, <2>5, <2>6, <2>7 DEF FreshInv
<1>6. CASE ScriptAppend
  <2>1. /\ script.at = "append" /\ conf \subseteq conf' /\ script'.at = "set"
        /\ owner' = [owner EXCEPT ![script.key] =
                       [user |-> NoName, name |-> script.name]]
        /\ UNCHANGED <<nextKey, pc, req, raw>>
    BY <1>6 DEF ScriptAppend, TypeInv, TypeOK
  <2>2. script.key \in Keys /\ script.key < nextKey
    BY <2>1 DEF TypeInv, Prepared, FreshInv
  <2>3. \A k \in Keys : k # script.key => owner'[k] = owner[k]
    BY <2>1, <2>2 DEF TypeInv, TypeOK
  <2>4. pc = "append" => req.key \in Keys /\ req.key # script.key
    BY <2>1 DEF TypeInv, Prepared, FreshInv
  <2>5. KeysOf(conf) \subseteq KeysOf(conf')
    BY <2>1 DEF KeysOf
  <2>6. QED BY <1>0, <2>1, <2>2, <2>3, <2>4, <2>5 DEF FreshInv
<1>7. CASE ScriptSet
  BY <1>7, <1>1 DEF ScriptSet, NoScript
<1>8. ASSUME NEW u \in Usernames, CreateUser(u) \/ DeleteUser(u)
      PROVE  FreshInv'
  BY <1>8, <1>1 DEF CreateUser, DeleteUser
<1>9. ASSUME NEW n \in Names, DeletePeer(n) \/ UploadPeerConf(n) \/ ForgetPeerConf(n)
      PROVE  FreshInv'
  BY <1>9, <1>1 DEF DeletePeer, UploadPeerConf, ForgetPeerConf
<1>10. CASE MetaPut \/ ArchiveWrite \/ ReloadInterface \/ MetaDelete \/ RemoveUser \/ Crash
  BY <1>10, <1>1 DEF MetaPut, ArchiveWrite, ReloadInterface, AfterReload, MetaDelete,
     RemoveUser, Crash, Return
<1>11. CASE UNCHANGED vars
  BY <1>11, <1>1 DEF vars
<1>12. QED
  BY <1>2, <1>3, <1>4, <1>5, <1>6, <1>7, <1>8, <1>9, <1>10, <1>11
  DEF Next, Request, Handler, Script

\* Whatever fails, wherever the container dies, and although the script writes
\* without s.mu, a removed device stays removed: nobody writes back a block
\* that has left gw0.conf, and no key is enrolled twice.
THEOREM RemovedStaysRemoved == Spec => NoResurrection
<1>1. ASSUME TypeInv, FreshInv, [Next]_vars
      PROVE  [\A k \in Keys : owner[k] # NoOwner /\ k \notin KeysOf(conf)
                => k \notin KeysOf(conf')]_vars
  <2> SUFFICES ASSUME Next, NEW k \in Keys, owner[k] # NoOwner,
                      NEW e \in conf', e.key = k
               PROVE  k \in KeysOf(conf)
    BY <1>1 DEF KeysOf
  <2>1. CASE conf' = conf
    BY <2>1 DEF KeysOf
  <2>2. CASE AppendPeer
    <3>1. e \in conf \/ e \in raw \/ e.key = req.key
      BY <2>2 DEF AppendPeer
    <3>2. pc = "append" /\ owner[req.key] = NoOwner /\ KeysOf(raw) \subseteq KeysOf(conf)
      BY <1>1, <2>2 DEF AppendPeer, FreshInv
    <3>3. QED BY <3>1, <3>2 DEF KeysOf
  <2>3. CASE RemovePeers
    <3>1. KeysOf(raw) \subseteq KeysOf(conf) /\ raw \in SUBSET Block
      BY <1>1, <2>3 DEF RemovePeers, FreshInv, TypeInv, TypeOK
    <3>2. e \in RemovePeersByPubkeys(raw, drop) \/ e \in conf
      BY <2>3 DEF RemovePeers
    <3>3. QED BY <3>1, <3>2, RemoveKeys DEF KeysOf
  <2>4. CASE ScriptAppend
    <3>1. e \in conf \/ e.key = script.key
      BY <2>4 DEF ScriptAppend
    <3>2. owner[script.key] = NoOwner
      BY <1>1, <2>4 DEF ScriptAppend, FreshInv
    <3>3. QED BY <3>1, <3>2 DEF KeysOf
  <2>5. CASE ~(AppendPeer \/ RemovePeers \/ ScriptAppend)
    <3>1. conf' = conf
      BY <1>1, <2>5 DEF Next, Request, Handler, Script, CreateUser, DeleteUser,
         AddPeer, DeletePeer, UploadPeerConf, ForgetPeerConf, MetaPut,
         ArchiveWrite, ReloadInterface, MetaDelete, RemoveUser, ScriptRead,
         ScriptSet, Crash
    <3>2. QED BY <3>1, <2>1
  <2>6. QED BY <2>2, <2>3, <2>4, <2>5
<1>2. TypeInv /\ FreshInv /\ [Next]_vars => FreshInv'
  BY FreshStep
<1>3. Init => FreshInv
  BY BoundAssumption DEF Init, FreshInv, NoScript, Keys
<1>4. QED
  BY <1>1, <1>2, <1>3, Typing, PTL DEF Spec, NoResurrection

-----------------------------------------------------------------------------
(* Names: handlers alone, any failure, a crash anywhere. *)

NamesDistinct ==
  \A e, f \in conf : e # f /\ NameOf(e) # NoName => NameOf(e) # NameOf(f)

\* Inductive beside AddressInv: the sidecar knows no key that is still to be
\* generated, and the name of an enrolment under way is the name of no other
\* block, from the duplicate check to the entry in the sidecar.
NameInv ==
  /\ \A k \in Keys : k >= nextKey => meta[k] = NoName
  /\ pc = "append" => /\ meta[req.key] = NoName
                      /\ \A e \in conf : NameOf(e) # req.name
  /\ pc = "meta_put" => /\ req.key \in Keys /\ req.key < nextKey
                        /\ req.name # NoName
                        /\ \A e \in conf : e.key # req.key => NameOf(e) # req.name
  /\ NamesDistinct

LEMMA NameStep ==
  ASSUME ScriptNames = {}, TypeInv, AddressInv, NameInv, [Next]_vars
  PROVE  NameInv'
<1> USE BoundAssumption DEF TypeInv, TypeOK, Prepared, NameInv, NamesDistinct
<1>1. CASE UNCHANGED <<conf, meta, nextKey>> /\ pc' \notin {"append", "meta_put"}
  BY <1>1 DEF NameOf
<1>2. CASE UNCHANGED <<conf, meta, nextKey, pc, req>>
  BY <1>2 DEF NameOf
<1>3. ASSUME NEW u \in Usernames, NEW t \in Tags, AddPeer(u, t)
      PROVE  NameInv'
  <2>1. PICK tracked \in BOOLEAN, octet \in FreeOctets(conf) :
          /\ IF tracked THEN ~NameTaken(PeerNameFor(u, t)) ELSE conf = {}
          /\ req' = [op |-> "add", user |-> u, name |-> PeerNameFor(u, t),
                     key |-> nextKey, ip |-> octet, tracked |-> tracked]
    BY <1>3 DEF AddPeer
  <2>2. /\ nextKey \in Keys /\ nextKey' = nextKey + 1 /\ pc' = "append"
        /\ UNCHANGED <<conf, meta>>
    BY <1>3 DEF AddPeer
  <2>3. \A e \in conf : NameOf(e) # PeerNameFor(u, t)
    BY <2>1 DEF NameTaken
  <2>4. QED
    BY <2>1, <2>2, <2>3 DEF NameOf, Keys
<1>4. CASE AppendPeer
  <2>1. CASE FaultOn("conf_write") /\ Return /\ UNCHANGED <<conf, owner>>
    BY <1>4, <2>1, <1>1 DEF AppendPeer, Return
  <2>2. ASSUME NEW n \in Lines,
               conf' = raw \cup {[line |-> n, key |-> req.key, ip |-> req.ip,
                                  comment |-> req.name]},
               pc' \in {"meta_put", "reload"},
               UNCHANGED <<req, meta, nextKey>>
        PROVE  NameInv'
    <3> DEFINE new == [line |-> n, key |-> req.key, ip |-> req.ip,
                       comment |-> req.name]
    <3>1. req.key \in Keys /\ req.key < nextKey /\ raw = conf
          /\ req.name # NoName /\ meta[req.key] = NoName
          /\ \A e \in conf : NameOf(e) # req.name
      BY <1>4, NameTypes DEF AppendPeer, AddressInv
    <3>2. \A e \in conf : NameOf(e)' = NameOf(e)
      BY <2>2 DEF NameOf
    <3>3. new.key = req.key /\ (meta'[new.key] # NoName => FALSE)
          /\ new.comment = req.name
      BY <2>2, <3>1
    <3>4. \A e \in conf' : e \in conf \/ e = new
      BY <2>2, <3>1
    <3>5. \A e \in conf' : IF e \in conf THEN NameOf(e)' # req.name
                             ELSE NameOf(e)' = req.name /\ e.key = req.key
      BY <3>1, <3>2, <3>3, <3>4 DEF NameOf
    <3>6. NamesDistinct'
      <4> SUFFICES ASSUME NEW e \in conf', NEW f \in conf', e # f,
                          NameOf(e)' # NoName
                   PROVE  NameOf(e)' # NameOf(f)'
        BY DEF NameOf
      <4>1. CASE e \in conf /\ f \in conf
        BY <4>1, <3>2
      <4>2. CASE e \notin conf \/ f \notin conf
        BY <4>2, <3>4, <3>5
      <4>3. QED BY <4>1, <4>2
    <3>7. \A e \in conf' : e.key # req.key => NameOf(e)' # req.name
      BY <3>5
    <3>8. QED
      BY <2>2, <3>1, <3>6, <3>7 DEF NameOf
  <2>3. QED
    BY <1>4, <2>1, <2>2 DEF AppendPeer
<1>5. CASE MetaPut
  <2>1. CASE meta' = meta
    BY <1>5, <2>1, <1>1 DEF MetaPut
  <2>2. CASE meta' = [meta EXCEPT ![req.key] = req.name]
    <3>1. req.key \in Keys /\ req.key < nextKey
      BY <1>5 DEF MetaPut
    <3>2. \A e \in conf : e.key \in Keys
      BY DEF Block
    <3>3. \A e \in conf : e.key # req.key =>
            NameOf(e)' = NameOf(e) /\ NameOf(e) # req.name
      BY <1>5, <2>2, <3>1, <3>2 DEF NameOf, MetaPut
    <3>4. \A e, f \in conf : e # f => e.key # f.key
      BY DEF AddressInv, Distinct
    <3>5. \A e \in conf : e.key = req.key => NameOf(e)' = req.name
      BY <1>5, <2>2, <3>1 DEF MetaPut, NameOf
    <3>6. NamesDistinct'
      <4>1. conf' = conf
        BY <1>5 DEF MetaPut
      <4>2. \A e, f \in conf : e # f /\ NameOf(e)' # NoName => NameOf(e)' # NameOf(f)'
        BY <3>3, <3>4, <3>5
      <4>3. QED BY <4>1, <4>2 DEF NameOf
    <3>7. \A k \in Keys : k >= nextKey => meta'[k] = NoName
      BY <2>2, <3>1 DEF Keys
    <3>8. QED
      BY <1>5, <3>6, <3>7 DEF MetaPut
  <2>3. QED BY <1>5, <2>1, <2>2 DEF MetaPut
<1>6. CASE RemovePeers
  <2>1. CASE conf' = conf /\ pc' \in {"idle", "users"}
    BY <1>6, <2>1, <1>1 DEF RemovePeers
  <2>2. CASE conf' = RemovePeersByPubkeys(conf, drop) /\ pc' = "meta_delete"
             /\ UNCHANGED <<meta, nextKey>>
    <3>1. \A e \in conf' : \E b \in conf :
            e.key = b.key /\ e \in {b, [b EXCEPT !.comment = NoName]}
      <4>1. conf \in SUBSET Block
        OBVIOUS
      <4>2. ASSUME NEW e \in RemovePeersByPubkeys(conf, drop)
            PROVE  \E b \in conf : /\ b.key \notin drop
                                    /\ e.key = b.key /\ e.ip = b.ip /\ e.line = b.line
                                    /\ e \in {b, [b EXCEPT !.comment = NoName]}
        BY <4>1, RemoveKeys
      <4>3. QED BY ONLY <2>2, <4>2
    <3>2. \A e \in conf' : \E b \in conf :
            e.key = b.key /\ NameOf(e)' \in {NoName, NameOf(b)}
      BY <2>2, <3>1 DEF NameOf, Block
    <3>3. \A e, f \in conf' : e # f => e.key # f.key
      <4>1. AddressInv'
        BY AddressStep DEF TypeInv
      <4>2. QED BY <4>1 DEF AddressInv, Distinct
    <3>4. NamesDistinct'
      <4> SUFFICES ASSUME NEW e \in conf', NEW f \in conf', e # f,
                          NameOf(e)' # NoName
                   PROVE  NameOf(e)' # NameOf(f)'
        BY DEF NameOf
      <4>1. PICK b \in conf : e.key = b.key /\ NameOf(e)' = NameOf(b)
        BY <3>2
      <4>2. PICK d \in conf : f.key = d.key /\ NameOf(f)' \in {NoName, NameOf(d)}
        BY <3>2
      <4>3. b # d
        BY <3>3, <4>1, <4>2
      <4>4. QED BY <4>1, <4>2, <4>3
    <3>5. QED
      BY <2>2, <3>4
  <2>3. QED
    BY <1>6, <2>1, <2>2 DEF RemovePeers, Return, AddressInv
<1>7. CASE MetaDelete
  <2>1. PICK gone \in SUBSET drop :
          meta' = [k \in Keys |-> IF k \in gone THEN NoName ELSE meta[k]]
    <3>1. (IF FaultOn("meta_write") THEN SUBSET drop ELSE {drop}) \subseteq SUBSET drop
      BY Zenon
    <3>2. QED BY ONLY <1>7, <3>1, Zenon DEF MetaDelete
  <2>2. \A e \in conf : e.key \in Keys /\ e.key \notin drop
    BY <1>7 DEF MetaDelete, AddressInv, Block
  <2>3. \A e \in conf : NameOf(e)' = NameOf(e)
    BY <2>1, <2>2 DEF NameOf
  <2>4. conf' = conf /\ nextKey' = nextKey /\ pc' = "reload"
    BY <1>7 DEF MetaDelete
  <2>5. NamesDistinct'
    <3>1. \A e, f \in conf : e # f /\ NameOf(e)' # NoName => NameOf(e)' # NameOf(f)'
      BY <2>3
    <3>2. QED BY <2>4, <3>1 DEF NameOf
  <2>6. \A k \in Keys : k >= nextKey => meta'[k] = NoName
    BY <2>1
  <2>7. QED
    BY <2>4, <2>5, <2>6
<1>8. CASE Script
  BY <1>8 DEF Script, ScriptAppend, ScriptSet, AddressInv
<1>9. ASSUME NEW u \in Usernames, CreateUser(u) \/ DeleteUser(u)
      PROVE  NameInv'
  BY <1>9, <1>1, <1>2 DEF CreateUser, DeleteUser
<1>10. ASSUME NEW n \in Names, DeletePeer(n) \/ UploadPeerConf(n) \/ ForgetPeerConf(n)
       PROVE  NameInv'
  BY <1>10, <1>1, <1>2 DEF DeletePeer, UploadPeerConf, ForgetPeerConf
<1>11. CASE ArchiveWrite \/ ReloadInterface \/ RemoveUser \/ Crash
  BY <1>11, <1>1 DEF ArchiveWrite, ReloadInterface, AfterReload, RemoveUser,
     Crash, Return
<1>12. CASE UNCHANGED vars
  BY <1>12, <1>2 DEF vars
<1>13. QED
  BY <1>3, <1>4, <1>5, <1>6, <1>7, <1>8, <1>9, <1>10, <1>11, <1>12
  DEF Next, Request, Handler

\* With the handlers alone, whichever write fails and wherever the container
\* dies, no two devices answer to the same name, although removals strip
\* comments and the sidecar may miss entries.
THEOREM NamesAreUnique ==
  ASSUME ScriptNames = {} PROVE Spec => []UniqueNames
<1>1. Init => NameInv
  BY BoundAssumption DEF Init, NameInv, NamesDistinct, Keys
<1>2. TypeInv /\ AddressInv /\ NameInv /\ [Next]_vars => NameInv'
  BY NameStep
<1>3. TypeInv /\ AddressInv /\ [Next]_vars => AddressInv'
  BY AddressStep
<1>4. NameInv => UniqueNames
  BY DEF NameInv, NamesDistinct, UniqueNames, Enrolled
<1>5. QED
  BY <1>1, <1>2, <1>3, <1>4, AddressInit, Typing, PTL DEF Spec
=============================================================================
