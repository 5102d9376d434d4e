----------------------------- MODULE ContainerDB -----------------------------
(***************************************************************************)
(* The container state service (state/containerDB.go, state/container.go),  *)
(* the fuse server service it drives (fuse/service.go) and the gRPC         *)
(* callbacks that call it (ipc/apis.go).                                    *)
(*                                                                          *)
(* PreRegister, Register, Update and the second half of Unregister each run *)
(* inside one critical section of containerStateService's lock, fuse server *)
(* included, and are one action each.  The Unregister callback first looks  *)
(* the container up in a critical section of its own, so another call can   *)
(* come in between.  A call that returns an error before it changes         *)
(* anything is a stuttering step and is left out.                           *)
(***************************************************************************)
EXTENDS Integers, Sequences, SequencesExt, FiniteSetsExt

CONSTANTS Ids,        \* container ids
          Netns,      \* inodes of network namespaces
          Objs,       \* container structs
          Fds,        \* descriptor numbers
          Callers,    \* concurrent ContainerUnregister callbacks
          NoObj, NoNetns, NoFd, NoServer,
          Modes       \* what behaviours are like, see below

(* A fuse server: state is fuseServer.container, which Destroy() unsets.    *)
Server == [state : Objs \cup {NoObj}, reg : BOOLEAN]

ASSUME ContainerDBAssumption ==
    /\ NoObj \notin Objs /\ NoNetns \notin Netns /\ NoServer \notin Server
    /\ Fds \subseteq Nat /\ NoFd \notin Fds
    /\ Modes \subseteq [faults : BOOLEAN, orderly : BOOLEAN, getattr : BOOLEAN]

VARIABLES idTable,      \* containerStateService.idTable
          netnsTable,   \* containerStateService.netnsTable, <<>> for no entry
          cntr,         \* the container structs
          serversMap,   \* FuseServerService.serversMap
          openFds,      \* open descriptors among Fds
          unreg,        \* per caller: the struct its lookup returned
          mode          \* a member of Modes

vars == <<idTable, netnsTable, cntr, serversMap, openFds, unreg, mode>>

(* Host calls (mkdir, mount, umount, pidfd_open) may fail.                  *)
Faults == mode.faults

(* The calls are those of sysbox-runc: one at a time per container, one     *)
(* Register, a net-ns it joins or a new one.                                *)
Orderly == mode.orderly

(* A container struct: init is initPid # 0, attrs the uid/gid ranges and    *)
(* paths that update() copies, reg regCompleted.                            *)
Cntr == [id : Ids, netns : Netns \cup {NoNetns}, init : BOOLEAN, attrs : BOOLEAN,
         ctime : BOOLEAN, pidfd : Fds \cup {NoFd}, reg : BOOLEAN]

Reachable(o) == \/ \E id \in Ids : idTable[id] = o
                \/ \E n \in Netns : Contains(netnsTable[n], o)
                \/ \E id \in Ids : serversMap[id] # NoServer /\ serversMap[id].state = o
                \/ \E c \in Callers : unreg[c] = o

(* No other call about this container is in progress.                       *)
Free(id) == Orderly => \A c \in Callers : unreg[c] # NoObj => cntr[unreg[c]].id # id
-----------------------------------------------------------------------------
Init == /\ idTable = [id \in Ids |-> NoObj]
        /\ netnsTable = [n \in Netns |-> <<>>]
        /\ cntr \in {[o \in Objs |-> [id |-> id, netns |-> NoNetns, init |-> FALSE,
                                      attrs |-> FALSE, ctime |-> FALSE, pidfd |-> NoFd,
                                      reg |-> FALSE]] : id \in Ids}
        /\ serversMap = [id \in Ids |-> NoServer]
        /\ openFds = {}
        /\ unreg = [c \in Callers |-> NoObj]
        /\ mode \in Modes

(* Slip: the list of the net-ns is started anew.                            *)
TrackedAlone(o, known, n) == IF known # NoNetns \/ n = NoNetns THEN netnsTable
                             ELSE [netnsTable EXCEPT ![n] = <<o>>]

(* trackNetns(): only a container whose net-ns is not yet known is added to *)
(* its list.                                                                *)
Tracked(o, known, n) == IF known # NoNetns \/ n = NoNetns THEN netnsTable
                        ELSE [netnsTable EXCEPT ![n] = Append(@, o)]

(* Slip: the net-ns is not compared.                                        *)
StateCntrAny(o, n) == LET tracked == {k \in Netns : netnsTable[k] # <<>>}
                      IN  IF tracked = {} THEN o ELSE Head(netnsTable[CHOOSE k \in tracked : TRUE])

(* The struct whose state the new fuse server uses: the first container of  *)
(* the net-ns.                                                              *)
StateCntr(o, n) == IF n # NoNetns /\ netnsTable[n] # <<>> THEN Head(netnsTable[n]) ELSE o

(* CreateFuseServer(): an id that still has a server is an error; so is any *)
(* failure to make the mountpoint or to mount it.                           *)
CreateFuseServer(id, state) ==
    \/ /\ serversMap[id] = NoServer
       /\ serversMap' = [serversMap EXCEPT ![id] = [state |-> state, reg |-> FALSE]]
    \/ /\ serversMap[id] # NoServer \/ Faults
       /\ UNCHANGED serversMap

(* ContainerPreRegister(): when the fuse server cannot be created an error  *)
(* is returned and the container stays in both tables.                      *)
PreRegister(id, n, o) ==
    /\ Free(id)
    /\ idTable[id] = NoObj
    /\ ~Reachable(o)
    /\ cntr' = [cntr EXCEPT ![o] = [id |-> id, netns |-> n, init |-> FALSE,
                                    attrs |-> FALSE, ctime |-> FALSE,
                                    pidfd |-> NoFd, reg |-> FALSE]]
    /\ netnsTable' = Tracked(o, NoNetns, n)
    /\ idTable' = [idTable EXCEPT ![id] = o]
    /\ CreateFuseServer(id, StateCntr(o, n))
    /\ UNCHANGED <<openFds, unreg, mode>>

(* Slip: the fuse server is told of the registration although it failed.    *)
RegisterNoPidfdCompletes(id) ==
    LET o == idTable[id] IN
    /\ Free(id) /\ Faults
    /\ o # NoObj /\ ~cntr[o].init
    /\ cntr' = [cntr EXCEPT ![o].init = TRUE]
    /\ serversMap' = IF serversMap[id] = NoServer THEN serversMap
                     ELSE [serversMap EXCEPT ![id].reg = TRUE]
    /\ UNCHANGED <<idTable, netnsTable, openFds, unreg, mode>>

(* update() when libpidfd.Open() fails: initPid is set, nothing after it.   *)
RegisterNoPidfd(id) ==
    LET o == idTable[id] IN
    /\ Free(id) /\ Faults
    /\ o # NoObj /\ ~cntr[o].init
    /\ cntr' = [cntr EXCEPT ![o].init = TRUE]
    /\ UNCHANGED <<idTable, netnsTable, serversMap, openFds, unreg, mode>>

(* libpidfd.Open(): the kernel hands out the lowest free descriptor.        *)
NewFd == Min(Fds \ openFds)

(* update() of a container: the pidfd is opened when initPid changes.       *)
Update(o) == [cntr[o] EXCEPT !.init = TRUE, !.attrs = TRUE, !.ctime = TRUE,
                             !.pidfd = IF cntr[o].init THEN @ ELSE NewFd]
Opens(o) == IF cntr[o].init THEN openFds ELSE openFds \cup {NewFd}

(* ContainerRegister() when the net-ns of the init process cannot be read.  *)
RegisterNoNetns(id) ==
    LET o == idTable[id] IN
    /\ Free(id) /\ Faults
    /\ o # NoObj /\ cntr[o].netns = NoNetns
    /\ Orderly => ~cntr[o].init
    /\ Fds # openFds
    /\ cntr' = [cntr EXCEPT ![o] = Update(o)]
    /\ openFds' = Opens(o)
    /\ UNCHANGED <<idTable, netnsTable, serversMap, unreg, mode>>

(* ContainerRegister(): update(), trackNetns() with the net-ns of the init  *)
(* process unless pre-registration had one, FuseServerCntrRegComplete().    *)
(* A container that came without a net-ns was given a new one.              *)
Register(id, n) ==
    LET o == idTable[id]
        netns == IF cntr[o].netns = NoNetns THEN n ELSE cntr[o].netns IN
    /\ Free(id)
    /\ o # NoObj
    /\ Orderly => ~cntr[o].init /\ (cntr[o].netns = NoNetns => netnsTable[n] = <<>>)
    /\ Fds # openFds
    /\ cntr' = [cntr EXCEPT ![o] = [Update(o) EXCEPT !.netns = netns, !.reg = TRUE]]
    /\ openFds' = Opens(o)
    /\ netnsTable' = Tracked(o, cntr[o].netns, n)
    /\ serversMap' = IF serversMap[id] = NoServer THEN serversMap
                     ELSE [serversMap EXCEPT ![id].reg = TRUE]
    /\ UNCHANGED <<idTable, unreg, mode>>

(* ContainerUpdate(): only the creation time is taken over.                 *)
ContainerUpdate(id) ==
    /\ Free(id)
    /\ idTable[id] # NoObj
    /\ cntr' = [cntr EXCEPT ![idTable[id]].ctime = TRUE]
    /\ UNCHANGED <<idTable, netnsTable, serversMap, openFds, unreg, mode>>

(* ipc.ContainerUnregister(): ContainerLookupById().                        *)
LookupUnregister(c, id) ==
    /\ Free(id)
    /\ unreg[c] = NoObj
    /\ idTable[id] # NoObj
    /\ unreg' = [unreg EXCEPT ![c] = idTable[id]]
    /\ UNCHANGED <<idTable, netnsTable, cntr, serversMap, openFds, mode>>

(* A list without the entries in S, the others in their order: the j-th of  *)
(* them is at the kept position with j kept positions up to it.             *)
Without(list, S) ==
    LET kept == {i \in DOMAIN list : list[i] \notin S}
        upTo(i) == {k \in kept : k <= i}
    IN  [j \in 1..Cardinality(kept) |->
           list[CHOOSE i \in kept : Cardinality(upTo(i)) = j]]

SameId(o) == {p \in Objs : cntr[p].id = cntr[o].id}

(* Slip: an empty list is never stored back.                                *)
UntrackedButLast(o) ==
    IF cntr[o].netns = NoNetns \/ Len(netnsTable[cntr[o].netns]) = 1 THEN netnsTable
    ELSE [netnsTable EXCEPT ![cntr[o].netns] = Without(@, SameId(o))]

(* untrackNetns(): every entry with the container's id leaves the list.     *)
Untracked(o) ==
    IF cntr[o].netns = NoNetns THEN netnsTable
    ELSE [netnsTable EXCEPT ![cntr[o].netns] = Without(@, SameId(o))]

(* Slip: the server is stopped and stays in the map.                        *)
DestroyKeepsEntry(id) ==
    IF serversMap[id] = NoServer THEN UNCHANGED serversMap
    ELSE serversMap' = [serversMap EXCEPT ![id].state = NoObj]

(* DestroyFuseServer(): a failed unmount leaves everything; a failed rmdir  *)
(* leaves a dead server in the map.  No error is returned either way.       *)
DestroyFuseServer(id) ==
    \/ /\ serversMap' = [serversMap EXCEPT ![id] = NoServer]
    \/ /\ Faults /\ serversMap[id] # NoServer
       /\ UNCHANGED serversMap
    \/ /\ Faults /\ serversMap[id] # NoServer
       /\ serversMap' = [serversMap EXCEPT ![id].state = NoObj]

(* Slip: the init pidfd is not closed.                                      *)
UnregisterKeepsPidfd(c) ==
    LET o == unreg[c] IN
    /\ o # NoObj
    /\ idTable[cntr[o].id] # NoObj
    /\ netnsTable' = Untracked(o)
    /\ DestroyFuseServer(cntr[o].id)
    /\ idTable' = [idTable EXCEPT ![cntr[o].id] = NoObj]
    /\ unreg' = [unreg EXCEPT ![c] = NoObj]
    /\ UNCHANGED <<cntr, openFds, mode>>

(* ContainerUnregister(c): the id is checked again, the rest uses the       *)
(* struct that the lookup returned.                                         *)
Unregister(c) ==
    LET o == unreg[c] IN
    /\ o # NoObj
    /\ idTable[cntr[o].id] # NoObj
    /\ openFds' = openFds \ {cntr[o].pidfd}
    /\ netnsTable' = Untracked(o)
    /\ DestroyFuseServer(cntr[o].id)
    /\ idTable' = [idTable EXCEPT ![cntr[o].id] = NoObj]
    /\ unreg' = [unreg EXCEPT ![c] = NoObj]
    /\ UNCHANGED <<cntr, mode>>

(* ContainerUnregister(c) after another call removed the id: NotFound.      *)
UnregisterGone(c) ==
    /\ unreg[c] # NoObj
    /\ idTable[cntr[unreg[c]].id] = NoObj
    /\ unreg' = [unreg EXCEPT ![c] = NoObj]
    /\ UNCHANGED <<idTable, netnsTable, cntr, serversMap, openFds, mode>>

Next == \/ \E id \in Ids :
             \/ \E n \in Netns \cup {NoNetns}, o \in Objs : PreRegister(id, n, o)
             \/ RegisterNoPidfd(id)
             \/ RegisterNoNetns(id)
             \/ \E n \in Netns : Register(id, n)
             \/ ContainerUpdate(id)
             \/ \E c \in Callers : LookupUnregister(c, id)
        \/ \E c \in Callers : Unregister(c) \/ UnregisterGone(c)

Spec == Init /\ [][Next]_vars
-----------------------------------------------------------------------------
Registered == {idTable[id] : id \in Ids} \ {NoObj}

(* While calls are orderly, netnsTable lists each container of idTable      *)
(* once, under its own net-ns, and nothing else, whichever registration or  *)
(* fuse step failed before: a container that left is never handed out as    *)
(* another one's state.                                                     *)
NetnsExact ==
    Orderly => \A n \in Netns :
        /\ IsInjective(netnsTable[n])
        /\ ToSet(netnsTable[n]) = {o \in Registered : cntr[o].netns = n}

(* While calls are orderly, the open init pidfds are exactly those of the   *)
(* containers of idTable, no two containers share one, and a container      *)
(* whose registration completed has one: none is leaked, closed twice or    *)
(* closed under another container.                                          *)
PidfdExact == Orderly =>
    /\ openFds = {cntr[o].pidfd : o \in Registered} \ {NoFd}
    /\ \A o, p \in Registered : cntr[o].pidfd = cntr[p].pidfd /\ o # p
                                    => cntr[o].pidfd = NoFd
    /\ \A o \in Registered : cntr[o].reg => cntr[o].pidfd # NoFd

(* While the host calls succeed, a container has a live fuse server just as *)
(* long as it is in idTable, and the server knows when its registration     *)
(* completed.                                                               *)
ServersExact == ~Faults =>
    \A id \in Ids :
        IF idTable[id] = NoObj THEN serversMap[id] = NoServer
        ELSE /\ serversMap[id] # NoServer
             /\ serversMap[id].state # NoObj
             /\ serversMap[id].reg = cntr[idTable[id]].reg

(* While the host calls succeed, a fuse server uses the state of its own    *)
(* container or of an earlier one in the same net-ns, even after that one   *)
(* was unregistered.                                                        *)
StateSameNetns == ~Faults =>
    \A id \in Ids : idTable[id] # NoObj /\ serversMap[id] # NoServer =>
        LET state == serversMap[id].state IN
        \/ state = idTable[id]
        \/ cntr[state].netns # NoNetns /\ cntr[state].netns = cntr[idTable[id]].netns

(* However calls overlap, a container of idTable is in the list of its      *)
(* net-ns, so a container that joins the net-ns finds it.                   *)
NetnsListed ==
    \A o \in Registered : cntr[o].netns # NoNetns =>
        Contains(netnsTable[cntr[o].netns], o)

(* containerDB.go, ContainerPreRegister: "all containers sharing the same   *)
(* net-ns will share the state for resources in the container's procfs and  *)
(* sysfs emulated by sysbox-fs".                                            *)
SameNetnsSameState ==
    \A i, j \in Ids :
        LET o == idTable[i]
            p == idTable[j] IN
        ( /\ o # NoObj /\ p # NoObj
          /\ serversMap[i] # NoServer /\ serversMap[j] # NoServer
          /\ cntr[o].netns = cntr[p].netns /\ cntr[o].netns # NoNetns )
            => serversMap[i].state = serversMap[j].state
=============================================================================
