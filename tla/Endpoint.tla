------------------------------ MODULE Endpoint ------------------------------
(***************************************************************************)
(* Ownership of the control socket's directory entry realm/ctl.sock        *)
(* (crates/realm-control/src/endpoint.rs): daemons that start, bind,       *)
(* listen, leave and are killed, in any number and at any point.           *)
(*                                                                         *)
(* A daemon holds an exclusive flock on the realm directory from before it *)
(* looks at the entry until after it has removed its own; the kernel drops *)
(* the lock and closes the socket of a daemon that dies, and leaves the    *)
(* entry behind.  An entry is identified by its inode, which the file      *)
(* system may use again once neither an entry nor an open socket holds it. *)
(***************************************************************************)
CONSTANTS Daemons, Inodes, None

ASSUME NoneIsNeither == None \notin Daemons /\ None \notin Inodes

VARIABLES
    realm,     \* the realm directory exists
    lock,      \* the daemon that holds the flock, or None
    entry,     \* the inode realm/ctl.sock names, or None
    pc,        \* daemon -> the next step of its start or its end
    seen,      \* daemon -> the inode its last stat of the entry returned
    sock       \* daemon -> its open socket: bound inode and whether it listens

daemonVars == <<realm, lock, entry, pc, seen, sock>>

Closed == [ino |-> None, listening |-> FALSE]

Pcs == {"idle", "lock", "stat", "probe", "recheck", "unlink", "bind", "verify", "bound",
        "active", "dropStat", "dropUnlink", "release"}

DaemonInit ==
    /\ realm = FALSE
    /\ lock = None
    /\ entry = None
    /\ pc = [d \in Daemons |-> "idle"]
    /\ seen = [d \in Daemons |-> None]
    /\ sock = [d \in Daemons |-> Closed]

Goto(d, next) == pc' = [pc EXCEPT ![d] = next]

\* The lock is released and the daemon is gone.
Leave(d) ==
    /\ lock' = IF lock = d THEN None ELSE lock
    /\ Goto(d, "idle")

\* prepare_server_endpoint(): the directory is made if it is not there.
Prepare(d) ==
    /\ pc[d] = "idle"
    /\ realm' = TRUE
    /\ Goto(d, "lock")
    /\ UNCHANGED <<lock, entry, seen, sock>>

\* EndpointLock::acquire(): flock without waiting, or EndpointInUse.
Acquire(d) ==
    /\ pc[d] = "lock"
    /\ IF lock = None THEN lock' = d /\ Goto(d, "stat") ELSE Leave(d)
    /\ UNCHANGED <<realm, entry, seen, sock>>

\* reclaim_stale_entry(): the first stat.
StatEntry(d) ==
    /\ pc[d] = "stat"
    /\ seen' = [seen EXCEPT ![d] = entry]
    /\ Goto(d, IF entry = None THEN "bind" ELSE "probe")
    /\ UNCHANGED <<realm, lock, entry, sock>>

\* connect() to the entry reaches a socket that listens.
Answers(i) == \E e \in Daemons : sock[e].ino = i /\ sock[e].listening

\* probe_stale(): only a refused connection is stale; anything else preserves
\* the entry and fails the start.
Probe(d) ==
    /\ pc[d] = "probe"
    /\ IF Answers(entry) THEN Leave(d) ELSE Goto(d, "recheck") /\ UNCHANGED lock
    /\ UNCHANGED <<realm, entry, seen, sock>>

\* The second stat must show the probed entry.
Recheck(d) ==
    /\ pc[d] = "recheck"
    /\ IF entry = seen[d] THEN Goto(d, "unlink") /\ UNCHANGED lock ELSE Leave(d)
    /\ UNCHANGED <<realm, entry, seen, sock>>

UnlinkStale(d) ==
    /\ pc[d] = "unlink"
    /\ entry' = None
    /\ Goto(d, "bind")
    /\ UNCHANGED <<realm, lock, seen, sock>>

\* bind(): a new inode, unless the name is taken.
Bind(d) ==
    /\ pc[d] = "bind"
    /\ IF entry # None
       THEN Leave(d) /\ UNCHANGED <<entry, sock>>
       ELSE /\ \E i \in Inodes :
                 /\ \A e \in Daemons : sock[e].ino # i
                 /\ entry' = i
                 /\ sock' = [sock EXCEPT ![d] = [ino |-> i, listening |-> FALSE]]
            /\ Goto(d, "verify")
            /\ UNCHANGED lock
    /\ UNCHANGED <<realm, seen>>

\* post_bind_stat() gives the owned identity.
Verify(d) ==
    /\ pc[d] = "verify"
    /\ seen' = [seen EXCEPT ![d] = entry]
    /\ Goto(d, "bound")
    /\ UNCHANGED <<realm, lock, entry, sock>>

\* activate(): listen, on the inode bound before recovery began.
Activate(d) ==
    /\ pc[d] = "bound"
    /\ sock' = [sock EXCEPT ![d].listening = TRUE]
    /\ Goto(d, "active")
    /\ UNCHANGED <<realm, lock, entry, seen>>

\* The lock is released with the socket, before the cleanup of the entry.
CloseSocket_Unlocks(d) ==
    /\ pc[d] \in {"bound", "active"}
    /\ sock' = [sock EXCEPT ![d] = Closed]
    /\ lock' = None
    /\ Goto(d, "dropStat")
    /\ UNCHANGED <<realm, entry, seen>>
\* Drop for EndpointOwnership, after a failed start or at the end of the
\* session: close the socket, stat, unlink the entry if it is still the owned
\* one, and last of all release the lock.
CloseSocket(d) ==
    /\ pc[d] \in {"bound", "active"}
    /\ sock' = [sock EXCEPT ![d] = Closed]
    /\ Goto(d, "dropStat")
    /\ UNCHANGED <<realm, lock, entry, seen>>

DropStat(d) ==
    /\ pc[d] = "dropStat"
    /\ Goto(d, IF entry = seen[d] THEN "dropUnlink" ELSE "release")
    /\ UNCHANGED <<realm, lock, entry, seen, sock>>

DropUnlink(d) ==
    /\ pc[d] = "dropUnlink"
    /\ entry' = None
    /\ Goto(d, "release")
    /\ UNCHANGED <<realm, lock, seen, sock>>

Release(d) ==
    /\ pc[d] = "release"
    /\ Leave(d)
    /\ UNCHANGED <<realm, entry, seen, sock>>

\* The daemon is killed, at any point; a system call that fails before there is
\* an EndpointOwnership to drop ends the start in the same way.
Crash(d) ==
    /\ pc[d] # "idle"
    /\ Leave(d)
    /\ sock' = [sock EXCEPT ![d] = Closed]
    /\ UNCHANGED <<realm, entry, seen>>

StartStep(d) ==
    \/ Prepare(d) \/ Acquire(d) \/ StatEntry(d) \/ Probe(d) \/ Recheck(d)
    \/ UnlinkStale(d) \/ Bind(d) \/ Verify(d) \/ Activate(d)

EndStep(d) == DropStat(d) \/ DropUnlink(d) \/ Release(d)

DaemonNext == \E d \in Daemons : StartStep(d) \/ CloseSocket(d) \/ EndStep(d) \/ Crash(d)

DaemonSpec == DaemonInit /\ [][DaemonNext]_daemonVars

(***************************************************************************)
(* Properties.                                                             *)
(***************************************************************************)
DaemonTypeOK ==
    /\ realm \in BOOLEAN
    /\ lock \in Daemons \union {None}
    /\ entry \in Inodes \union {None}
    /\ pc \in [Daemons -> Pcs]
    /\ seen \in [Daemons -> Inodes \union {None}]
    /\ sock \in [Daemons -> [ino : Inodes \union {None}, listening : BOOLEAN]]

\* At most one daemon has the control socket, and the entry names it from the
\* bind to the close: a client that finds the entry reaches the session, and
\* neither the reclaiming of a stale entry nor the cleanup of another daemon
\* takes it away, although stat, probe and unlink are separate calls.
OneReachableListener ==
    /\ \A d, e \in Daemons : (sock[d].ino # None /\ sock[e].ino # None) => d = e
    /\ \A d \in Daemons : sock[d].ino # None => entry = sock[d].ino

=============================================================================
