--------------------------- MODULE DeviceRegistry ---------------------------
(***************************************************************************)
(* What device enrolment promises its callers: a set of users and a set of *)
(* devices, each with a name, a key and an address of its own, that belong *)
(* to existing users and change only by whole operations.  Files, sidecar, *)
(* comments and the order of the writes do not appear.                     *)
(***************************************************************************)
EXTENDS Integers, Sequences

CONSTANTS Usernames, Tags, PeerStart, PeerEnd, MaxKeys

VARIABLES users, devices

rvars == <<users, devices>>

Init == users = {} /\ devices = {}

AddUser(u) ==
  /\ u \notin users
  /\ users' = users \cup {u}
  /\ devices' = devices

\* A new device has a name, a key and an address nobody else has.
Enrol(u, t, k, octet) ==
  /\ u \in users
  /\ \A d \in devices : d.name # u \o t /\ d.key # k /\ d.ip # octet
  /\ devices' = devices \cup
       {[name |-> u \o t, user |-> u, key |-> k, ip |-> octet]}
  /\ users' = users

Revoke(d) ==
  /\ devices' = devices \ {d}
  /\ users' = users

\* name begins with user u's name and a hyphen.
Begins(name, u) == Len(name) > Len(u) /\ \A i \in 1..Len(u) : name[i] = u[i]

\* All the devices named "<user>-..." go in one step, and no other: those of
\* the user, and those of a user whose own name begins like that.
RevokeAll(u) ==
  /\ devices' = { d \in devices : ~Begins(d.name, u) }
  /\ users' = users

\* A user leaves only when no device is left behind.
RemoveUser(u) ==
  /\ \A d \in devices : d.user # u
  /\ users' = users \ {u}
  /\ devices' = devices

Next ==
  \/ \E u \in Usernames : AddUser(u) \/ RevokeAll(u) \/ RemoveUser(u)
  \/ \E u \in Usernames, t \in Tags, k \in 1..MaxKeys,
        octet \in PeerStart..PeerEnd : Enrol(u, t, k, octet)
  \/ \E d \in devices : Revoke(d)

Spec == Init /\ [][Next]_rvars
=============================================================================
