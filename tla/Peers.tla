------------------------------- MODULE Peers -------------------------------
(***************************************************************************)
(* Enrolment of VPN devices ("peers") by the enrol service: the gateway    *)
(* configuration gw0.conf, the metadata sidecar peers-meta.json, the       *)
(* archive of rendered client configurations, the live kernel interface    *)
(* and the user database, as changed by the handlers of server.go that     *)
(* hold s.mu, beside scripts/provision-peer.sh, which holds no lock.       *)
(*                                                                         *)
(* One handler at a time runs (s.mu); its writes are separate steps, so    *)
(* the script and a crash of the container can fall between them.          *)
(***************************************************************************)
EXTENDS Integers, Sequences, FiniteSets

CONSTANTS
  Usernames,    \* user names, each the sequence of its "-"-separated parts
  Tags,         \* device tags, in the same form
  ScriptNames,  \* peer names an operator passes to provision-peer.sh
  Faults,       \* the I/O calls that may fail, and "crash"
  PeerStart,    \* first host octet handed out (config peerStart)
  PeerEnd,      \* last host octet handed out (254 in the code)
  MaxKeys       \* bound: key pairs generated in one behaviour

ASSUME NameAssumption ==
  /\ Usernames \subseteq Seq(STRING) \ {<< >>}
  /\ Tags \subseteq Seq(STRING) \ {<< >>}
  /\ ScriptNames \subseteq Seq(STRING) \ {<< >>}

ASSUME BoundAssumption ==
  /\ PeerStart \in Nat \ {0}
  /\ PeerEnd \in Nat
  /\ MaxKeys \in Nat

VARIABLES
  users,    \* the keys of users_database.yml
  conf,     \* the [Peer] blocks of gw0.conf
  meta,     \* peers-meta.json: key -> name, NoName where absent
  archive,  \* peer name -> whose private key the stored .conf holds
  live,     \* the kernel interface: key -> allowed octet, 0 where absent
  nextKey,  \* key pairs generated so far, plus one
  pc,       \* where the handler that holds s.mu is
  req,      \* its request and what it computed before its first write
  raw,      \* its parsedConf: gw0.conf as loadConf read it
  drop,     \* the public keys it is removing
  script,   \* the running provision-peer.sh
  owner     \* history: for whom, and under which name, a key was enrolled

vars == <<users, conf, meta, archive, live, nextKey, pc, req, raw, drop,
          script, owner>>

----------------------------------------------------------------------------
(* Names, keys and blocks *)

\* The owner of a key that was enrolled for nobody, and the name of a block
\* that has none ("(unmanaged)").
NoName == << >>

Keys == 1..MaxKeys
Lines == 1..MaxKeys
Octets == PeerStart..PeerEnd

\* "<user>-<tag>": with names cut at the hyphens, a concatenation.
PeerNameFor(u, t) == u \o t

\* Mutant of HasPrefix: the tag is taken to be what follows the last hyphen.
HasPrefixLastHyphen(name, u) ==
  /\ Len(name) = Len(u) + 1
  /\ \A i \in 1..Len(u) : name[i] = u[i]

\* strings.HasPrefix(name, user + "-").
HasPrefix(name, u) ==
  /\ Len(name) > Len(u)
  /\ \A i \in 1..Len(u) : name[i] = u[i]

Names == { PeerNameFor(u, t) : u \in Usernames, t \in Tags } \cup ScriptNames

\* A [Peer] block: its place in the file, its key, the host octet of its
\* AllowedIPs and the name in the "# peer:" comment above it.
Block == [line : Lines, key : Keys, ip : Octets, comment : Names \cup {NoName}]

FaultOn(f) == f \in Faults

----------------------------------------------------------------------------
(* gw0.conf *)

\* Mutant of UsedOctets: only the blocks the sidecar knows count.
UsedOctetsTracked(c) == { e.ip : e \in { b \in c : meta[b.key] # NoName } }

UsedOctets(c) == { e.ip : e \in c }

\* Mutant of FreeOctets: the range runs one octet too far.
FreeOctetsPastEnd(c) == (PeerStart..(PeerEnd + 1)) \ UsedOctets(c)

FreeOctets(c) == Octets \ UsedOctets(c)

IsLeast(x, S) == x \in S /\ \A y \in S : x <= y

\* The lines behind the last block of c.
FreeLines(c) == { n \in Lines : \A e \in c : e.line < n }

\* e is the block right behind d in c.
Follows(e, d, c) ==
  /\ d.line < e.line
  /\ ~ \E f \in c : d.line < f.line /\ f.line < e.line

\* Mutant of RemovePeersByPubkeys: the block behind a removed one goes too.
RemovePeersAndNext(c, ks) ==
  { e \in c : e.key \notin ks /\ ~ \E d \in c : d.key \in ks /\ Follows(e, d, c) }

\* Mutant of RemovePeersByPubkeys: only the first match is removed.
RemoveFirstPeer(c, ks) ==
  { e \in c : e.key \notin ks
              \/ \E d \in c : d.key \in ks /\ d.line < e.line }

\* Removing blocks.  A parsed block ends on the line before the next section
\* header, so it holds the comment of the block that follows it: the blocks
\* that stay behind a removed one lose their comment.
RemovePeersByPubkeys(c, ks) ==
  { IF \E d \in c : d.key \in ks /\ Follows(e, d, c)
      THEN [e EXCEPT !.comment = NoName] ELSE e :
      e \in { b \in c : b.key \notin ks } }

\* Mutant of NameOf: the sidecar is not consulted.
NameOfComment(e) == e.comment

\* The name listPeersWithMeta gives a block: the sidecar's, else the
\* comment's, else none.
NameOf(e) == IF meta[e.key] # NoName THEN meta[e.key] ELSE e.comment

\* Mutant of NameTaken: only names in the sidecar count.
NameTakenTracked(name) == \E e \in conf : meta[e.key] = name

\* The duplicate check of handleAddPeer.
NameTaken(name) == \E e \in conf : NameOf(e) = name

\* What `awg syncconf` makes of c: an address belongs to one peer, the last
\* one that claims it.
Synced(c) ==
  [k \in Keys |->
     IF \E e \in c : e.key = k /\ ~ \E f \in c : f.ip = e.ip /\ f.line > e.line
       THEN (CHOOSE e \in c : e.key = k).ip ELSE 0]

----------------------------------------------------------------------------
Idle == [op |-> "none", user |-> NoName, name |-> NoName, key |-> 0, ip |-> 0,
         tracked |-> FALSE]

NoScript == [at |-> "done", name |-> NoName, key |-> 0, ip |-> 0]

NoOwner == [user |-> NoName, name |-> NoName]

NoArchive == [key |-> 0, by |-> "none"]

Init ==
  /\ users = {}
  /\ conf = {}
  /\ meta = [k \in Keys |-> NoName]
  /\ archive = [n \in Names |-> NoArchive]
  /\ live = [k \in Keys |-> 0]
  /\ nextKey = 1
  /\ pc = "idle"
  /\ req = Idle
  /\ raw = {}
  /\ drop = {}
  /\ script = NoScript
  /\ owner = [k \in Keys |-> NoOwner]

\* Everything the handler keeps on its stack is gone when it returns.
Return ==
  /\ pc' = "idle"
  /\ req' = Idle
  /\ raw' = {}
  /\ drop' = {}

----------------------------------------------------------------------------
(* handleCreateUser, as far as the devices see it. *)

\* What db.flush may leave of an account file that is to hold next.  It opens
\* the file with O_TRUNC and then writes it: a write that fails and a container
\* that dies in between leave nobody, a failed open what was there, and after a
\* failed Sync the new accounts are there.
Flushed(next) ==
  {next} \cup (IF FaultOn("users_write") THEN {users} ELSE {})
         \cup (IF FaultOn("users_write") \/ FaultOn("crash") THEN {{}} ELSE {})

CreateUser(u) ==
  /\ pc = "idle"
  /\ u \notin users
  /\ users' \in Flushed(users \cup {u})
  /\ UNCHANGED <<conf, meta, archive, live, nextKey, pc, req, raw, drop,
                 script, owner>>

(* handleAddPeer *)

\* Everything up to the first write.  If peers-meta.json cannot be loaded the
\* duplicate check dereferences a nil store on the first block it meets and
\* the request dies; with no block it goes on, untracked.
AddPeer(u, t) ==
  /\ pc = "idle"
  /\ nextKey \in Keys
  /\ u \in users
  /\ \E tracked \in IF FaultOn("meta_load") THEN BOOLEAN ELSE {TRUE} :
     \E octet \in FreeOctets(conf) :
       /\ IF tracked THEN ~NameTaken(PeerNameFor(u, t)) ELSE conf = {}
       /\ IsLeast(octet, FreeOctets(conf))
       /\ req' = [op |-> "add", user |-> u, name |-> PeerNameFor(u, t),
                  key |-> nextKey, ip |-> octet, tracked |-> tracked]
  /\ nextKey' = nextKey + 1
  /\ raw' = conf
  /\ drop' = {}
  /\ pc' = "append"
  /\ UNCHANGED <<users, conf, meta, archive, live, script, owner>>

\* appendPeer rewrites the file from what loadConf read, by rename.
AppendPeer ==
  /\ pc = "append"
  /\ UNCHANGED <<users, meta, archive, live, nextKey, script>>
  /\ \/ /\ \E n \in Lines :
             /\ IsLeast(n, FreeLines(raw))
             /\ conf' = raw \cup {[line |-> n, key |-> req.key, ip |-> req.ip,
                                   comment |-> req.name]}
        /\ owner' = [owner EXCEPT ![req.key] =
                       [user |-> req.user, name |-> req.name]]
        /\ pc' = IF req.tracked THEN "meta_put" ELSE "reload"
        /\ UNCHANGED <<req, raw, drop>>
     \/ /\ FaultOn("conf_write")
        /\ Return
        /\ UNCHANGED <<conf, owner>>

\* meta.put: a failure is logged and the handler goes on.
MetaPut ==
  /\ pc = "meta_put"
  /\ \/ meta' = [meta EXCEPT ![req.key] = req.name]
     \/ FaultOn("meta_write") /\ meta' = meta
  /\ pc' = "reload"
  /\ UNCHANGED <<users, conf, archive, live, nextKey, req, raw, drop, script,
                 owner>>

\* Mutant of ArchiveWrite: a .conf that is already there is kept.
ArchiveWriteIfAbsent ==
  /\ pc = "archive"
  /\ archive' = IF archive[req.name] = NoArchive
       THEN [archive EXCEPT ![req.name] = [key |-> req.key, by |-> "create"]]
       ELSE archive
  /\ Return
  /\ UNCHANGED <<users, conf, meta, live, nextKey, script, owner>>

\* archiveWrite of the rendered client configuration, the last write.
ArchiveWrite ==
  /\ pc = "archive"
  /\ \/ archive' = [archive EXCEPT ![req.name] =
                      [key |-> req.key, by |-> "create"]]
     \/ FaultOn("archive") /\ archive' = archive
  /\ Return
  /\ UNCHANGED <<users, conf, meta, live, nextKey, script, owner>>

\* What follows the reload: the archive for an enrolment, the user database
\* for a user's deletion, the answer for a device's.
AfterReload ==
  \/ req.op = "add" /\ pc' = "archive" /\ UNCHANGED <<req, raw, drop>>
  \/ req.op = "delete" /\ Return
  \/ req.op = "user_delete" /\ pc' = "users" /\ UNCHANGED <<req, raw, drop>>

\* Mutant of ReloadInterface: the interface is set to the file as it was read.
ReloadStale ==
  /\ pc = "reload"
  /\ live' = Synced(raw)
  /\ AfterReload
  /\ UNCHANGED <<users, conf, meta, archive, nextKey, script, owner>>

\* Mutant of ReloadInterface: a failed reload puts the old file back.
ReloadOrRollBack ==
  /\ pc = "reload"
  /\ \/ live' = Synced(conf) /\ conf' = conf
     \/ FaultOn("reload") /\ live' = live /\ conf' = raw
  /\ AfterReload
  /\ UNCHANGED <<users, meta, archive, nextKey, script, owner>>

(* reloadInterface, for every handler that calls it; a failure is noted in  *)
(* the page or the log and the handler goes on.                             *)
ReloadInterface ==
  /\ pc = "reload"
  /\ \/ live' = Synced(conf)
     \/ FaultOn("reload") /\ live' = live
  /\ AfterReload
  /\ UNCHANGED <<users, conf, meta, archive, nextKey, script, owner>>

(* handleDeletePeer *)

\* listPeersWithMeta sorts by address as a string, "10.0.0.10" before
\* "10.0.0.9"; the order of equal addresses is not defined.
LeftAligned(octet) ==
  IF octet < 10 THEN octet * 100 ELSE IF octet < 100 THEN octet * 10 ELSE octet

ListedBefore(e, d) ==
  \/ LeftAligned(e.ip) < LeftAligned(d.ip)
  \/ LeftAligned(e.ip) = LeftAligned(d.ip) /\ e.ip < d.ip

\* The first block of that name in the list goes.  Only a valid peer name
\* reaches the handler: "(unmanaged)" is not one.
DeletePeer(name) ==
  /\ pc = "idle"
  /\ \E e \in conf :
       /\ NameOf(e) = name
       /\ ~ \E d \in conf : NameOf(d) = name /\ ListedBefore(d, e)
       /\ drop' = {e.key}
  /\ raw' = conf
  /\ req' = [Idle EXCEPT !.op = "delete", !.name = name]
  /\ pc' = "remove"
  /\ UNCHANGED <<users, conf, meta, archive, live, nextKey, script, owner>>

(* handleUserDelete *)

\* The handler does not ask whether the user exists until its last step.
\* If removeUserPeers cannot load gw0.conf or peers-meta.json the error is
\* logged and the deletion goes on.
DeleteUser(u) ==
  /\ pc = "idle"
  /\ raw' = conf
  /\ req' = [Idle EXCEPT !.op = "user_delete", !.user = u]
  /\ \/ /\ drop' = { e.key : e \in { b \in conf : HasPrefix(NameOf(b), u) } }
        /\ pc' = IF drop' = {} THEN "users" ELSE "remove"
     \/ /\ FaultOn("meta_load")
        /\ drop' = {}
        /\ pc' = "users"
  /\ UNCHANGED <<users, conf, meta, archive, live, nextKey, script, owner>>

\* The rewrite of gw0.conf, in one rename, shared by both deletions.
RemovePeers ==
  /\ pc = "remove"
  /\ UNCHANGED <<users, meta, archive, live, nextKey, script, owner>>
  /\ \/ /\ conf' = RemovePeersByPubkeys(raw, drop)
        /\ pc' = "meta_delete"
        /\ UNCHANGED <<req, raw, drop>>
     \/ /\ FaultOn("conf_write")
        /\ conf' = conf
        /\ \/ req.op = "delete" /\ Return
           \/ req.op = "user_delete" /\ pc' = "users"
              /\ UNCHANGED <<req, raw, drop>>

\* meta.delete for every removed key; the errors are dropped.
MetaDelete ==
  /\ pc = "meta_delete"
  /\ \E gone \in IF FaultOn("meta_write") THEN SUBSET drop ELSE {drop} :
       meta' = [k \in Keys |-> IF k \in gone THEN NoName ELSE meta[k]]
  /\ pc' = "reload"
  /\ UNCHANGED <<users, conf, archive, live, nextKey, req, raw, drop, script,
                 owner>>

\* The last step of handleUserDelete: drop the entry and write
\* users_database.yml; without an entry it ends in an error before the write.
RemoveUser ==
  /\ pc = "users"
  /\ users' \in IF req.user \in users THEN Flushed(users \ {req.user}) ELSE {users}
  /\ Return
  /\ UNCHANGED <<conf, meta, archive, live, nextKey, script, owner>>

(* The archive handlers *)

\* An admin imports a .conf of their own; whose key it holds is theirs to
\* know.
UploadPeerConf(name) ==
  /\ pc = "idle"
  /\ \E e \in conf : NameOf(e) = name
  /\ archive' = [archive EXCEPT ![name] = [key |-> 0, by |-> "upload"]]
  /\ UNCHANGED <<users, conf, meta, live, nextKey, pc, req, raw, drop, script,
                 owner>>

ForgetPeerConf(name) ==
  /\ pc = "idle"
  /\ archive[name] # NoArchive
  /\ archive' = [archive EXCEPT ![name] = NoArchive]
  /\ UNCHANGED <<users, conf, meta, live, nextKey, pc, req, raw, drop, script,
                 owner>>

(* The container dies: the disk and the kernel keep what was written. *)

Crash ==
  /\ FaultOn("crash")
  /\ pc # "idle"
  /\ Return
  /\ UNCHANGED <<users, conf, meta, archive, live, nextKey, script, owner>>

----------------------------------------------------------------------------
(* scripts/provision-peer.sh *)

\* Reads gw0.conf once, picks the address and generates the key pair.
ScriptRead(name) ==
  /\ script.at = "done"
  /\ nextKey \in Keys
  /\ \E octet \in FreeOctets(conf) :
       /\ IsLeast(octet, FreeOctets(conf))
       /\ script' = [at |-> "append", name |-> name, key |-> nextKey,
                     ip |-> octet]
  /\ nextKey' = nextKey + 1
  /\ UNCHANGED <<users, conf, meta, archive, live, pc, req, raw, drop, owner>>

\* Appends its block to the file as it is now.  The test for its own public
\* key runs on the copy read before the key was generated, so it never hits.
ScriptAppend ==
  /\ script.at = "append"
  /\ \E n \in Lines :
       /\ IsLeast(n, FreeLines(conf))
       /\ conf' = conf \cup {[line |-> n, key |-> script.key, ip |-> script.ip,
                              comment |-> script.name]}
  /\ owner' = [owner EXCEPT ![script.key] =
                 [user |-> NoName, name |-> script.name]]
  /\ script' = [script EXCEPT !.at = "set"]
  /\ UNCHANGED <<users, meta, archive, live, nextKey, pc, req, raw, drop>>

\* `awg set`, which takes the address from whoever had it; it is skipped
\* when the interface is down and a failure is not fatal.
ScriptSet ==
  /\ script.at = "set"
  /\ \/ live' = [k \in Keys |-> IF k = script.key THEN script.ip
                                ELSE IF live[k] = script.ip THEN 0 ELSE live[k]]
     \/ FaultOn("reload") /\ live' = live
  /\ script' = NoScript
  /\ UNCHANGED <<users, conf, meta, archive, nextKey, pc, req, raw, drop,
                 owner>>

----------------------------------------------------------------------------
Request ==
  \/ \E u \in Usernames : CreateUser(u) \/ DeleteUser(u)
  \/ \E u \in Usernames, t \in Tags : AddPeer(u, t)
  \/ \E n \in Names : DeletePeer(n) \/ UploadPeerConf(n) \/ ForgetPeerConf(n)

Handler ==
  \/ AppendPeer \/ MetaPut \/ ArchiveWrite \/ ReloadInterface
  \/ RemovePeers \/ MetaDelete \/ RemoveUser

Script ==
  \/ \E n \in ScriptNames : ScriptRead(n)
  \/ ScriptAppend
  \/ ScriptSet

Next == Request \/ Handler \/ Script \/ Crash

Spec == Init /\ [][Next]_vars

----------------------------------------------------------------------------
(* Properties *)

KeysOf(c) == { e.key : e \in c }

Pcs == {"idle", "append", "meta_put", "archive", "reload", "remove",
        "meta_delete", "users"}

HandlerRequest ==
  [op : {"none", "add", "delete", "user_delete"},
   user : Usernames \cup {NoName}, name : Names \cup {NoName},
   key : Keys \cup {0}, ip : Octets \cup {0}, tracked : BOOLEAN]

\* Every variable holds a value of its kind: gw0.conf a set of well-formed
\* blocks, the sidecar and the archive a value for every key and name, the
\* handler of server.go one of its steps.
TypeOK ==
  /\ users \subseteq Usernames
  /\ conf \subseteq Block
  /\ meta \in [Keys -> Names \cup {NoName}]
  /\ archive \in [Names -> [key : Keys \cup {0},
                            by : {"none", "create", "upload"}]]
  /\ live \in [Keys -> Octets \cup {0}]
  /\ nextKey \in 1..(MaxKeys + 1)
  /\ pc \in Pcs
  /\ req \in HandlerRequest
  /\ raw \subseteq Block
  /\ drop \subseteq Keys
  /\ script \in [at : {"done", "append", "set"}, name : ScriptNames \cup {NoName},
                key : Keys \cup {0}, ip : Octets \cup {0}]
  /\ owner \in [Keys -> [user : Usernames \cup {NoName},
                         name : Names \cup {NoName}]]

\* The blocks that the service has enrolled, not the script.
Enrolled == { e \in conf : owner[e.key].user # NoName }

\* No two blocks have one key, and no two devices that the service has enrolled
\* share a tunnel address, whatever write of a handler fails, wherever the
\* container dies and whatever the script appends meanwhile (pickFreeOctet,
\* appendPeer).  The script itself may take an address the service has just
\* chosen.
UniqueAddresses ==
  /\ \A e, f \in conf : e # f => e.key # f.key
  /\ \A e, f \in Enrolled : e # f => e.ip # f.ip

\* No two devices that the service has enrolled answer to the same name, so that
\* /peers/<name>/delete and the downloads reach the device they name (the
\* duplicate check of handleAddPeer, against names that removals can take away).
UniqueNames ==
  \A e, f \in Enrolled : e # f /\ NameOf(e) # NoName => NameOf(e) # NameOf(f)

\* A device that is in gw0.conf belongs to a user who exists: deleting a
\* user takes every one of their devices with it (handleUserDelete with
\* removeUserPeers).
DevicesHaveUsers ==
  \A e \in conf : owner[e.key].user = NoName \/ owner[e.key].user \in users

\* Every block is listed under the name it was enrolled under, by the
\* sidecar or, failing that, by its comment (listPeersWithMeta).
KnownByName == \A e \in conf : NameOf(e) = owner[e.key].name

\* Between requests the archived .conf of a device, unless an admin uploaded
\* it, holds the private key of that device and not of an earlier one of the
\* same name (handleAddPeer, effectiveClientConf).
ArchiveServesOwnKey ==
  pc = "idle" =>
    \A e \in conf :
      LET a == archive[NameOf(e)] IN
        NameOf(e) \in Names /\ a.by = "create" => a.key = e.key

\* Between requests the kernel runs exactly the devices of gw0.conf: what a
\* handler removed is disconnected (reloadInterface after every rewrite).
LiveFollowsConf == pc = "idle" => live = Synced(conf)

\* A device once removed from gw0.conf never comes back: no handler writes
\* back a file it read before the removal.
NoResurrection ==
  [][\A k \in Keys :
       owner[k] # NoOwner /\ k \notin KeysOf(conf) => k \notin KeysOf(conf')]_vars

\* Deleting a user spares every device that was enrolled under a name that does
\* not begin with "<user>-", whatever comments were stripped and whatever stale
\* entries the sidecar holds (removeUserPeers).  It is not the user who is
\* compared: deleting bob takes the devices of bob-x too, although the page
\* announces "their VPN devices" only.
DeleteSparesOthers ==
  [][req.op = "user_delete" =>
       \A k \in KeysOf(conf) :
         ~HasPrefix(owner[k].name, req.user) => k \in KeysOf(conf')]_vars

\* What the handlers promise together: a registry of devices that changes by
\* whole enrolments and whole removals.
Registry == INSTANCE DeviceRegistry WITH
  devices <- { [name |-> owner[e.key].name, user |-> owner[e.key].user,
                key |-> e.key, ip |-> e.ip] : e \in conf }

RegistrySpec == Registry!Spec
=============================================================================
