-------------------------- MODULE ContainerDBProofs --------------------------
(***************************************************************************)
(* Proofs, for any number of containers, namespaces, structs, descriptors   *)
(* and callbacks, that the container state service neither leaks an init    *)
(* pidfd nor closes one twice or under another container, that the net-ns   *)
(* lists and the fuse servers follow idTable, and that the kernel keeps no  *)
(* interim attributes; file operations leave the service alone.             *)
(***************************************************************************)
EXTENDS FuseNodes, WellFoundedInduction, FiniteSetTheorems, TLAPS

Types ==
    /\ idTable \in [Ids -> Objs \cup {NoObj}]
    /\ cntr \in [Objs -> Cntr]
    /\ unreg \in [Callers -> Objs \cup {NoObj}]
    /\ openFds \subseteq Fds

(* The struct is that of its id.                                            *)
InTable(o) == idTable[cntr[o].id] = o

IdOwn == \A id \in Ids : idTable[id] # NoObj => cntr[idTable[id]].id = id

(* What the lookup of an unregistration returned is still in the table, and *)
(* no other unregistration has it.                                          *)
PendingOwn ==
    \A c \in Callers : unreg[c] # NoObj =>
        /\ InTable(unreg[c])
        /\ \A d \in Callers : unreg[d] = unreg[c] => d = c

(* PidfdExact, struct by struct, and when a container has a pidfd.          *)
PidfdOwn ==
    /\ \A o \in Objs : InTable(o) /\ cntr[o].pidfd # NoFd => cntr[o].pidfd \in openFds
    /\ \A o \in Objs : InTable(o) /\ ~cntr[o].init => cntr[o].pidfd = NoFd
    /\ \A o \in Objs : InTable(o) /\ cntr[o].reg => cntr[o].pidfd # NoFd
    /\ \A f \in openFds : \E o \in Objs : InTable(o) /\ cntr[o].pidfd = f
    /\ \A o, p \in Objs :
           InTable(o) /\ InTable(p) /\ cntr[o].pidfd = cntr[p].pidfd /\ cntr[o].pidfd # NoFd
               => o = p

PInv == Types /\ IdOwn /\ (Orderly => PendingOwn /\ PidfdOwn)

(* The lowest descriptor number that is not open.                           *)
LEMMA NewFdUnused ==
    ASSUME Types, Fds # openFds
    PROVE  NewFd \in Fds /\ NewFd \notin openFds
<1> DEFINE T == Fds \ openFds
<1> DEFINE R == {ss \in Nat \X Nat : ss[1] < ss[2]}
<1>1. T \subseteq Nat /\ T # {}
  BY ContainerDBAssumption, Zenon DEF Types
<1>2. IsWellFoundedOn(R, Nat)
  BY NatLessThanWellFounded DEF OpToRel
<1>3. \E x \in T : \A y \in T : ~ (<<y, x>> \in R)
  <2> HIDE DEF R, T
  <2> QED
    BY <1>1, <1>2, WFMin, Zenon
<1>4. \E x \in T : \A y \in T : x =< y
  <2>1. PICK x \in T : \A y \in T : ~ (<<y, x>> \in R)
    BY <1>3
  <2>2. ASSUME NEW y \in T, y < x PROVE <<y, x>> \in R
    <3>1. <<y, x>> \in Nat \X Nat
      BY <1>1
    <3>2. <<y, x>>[1] < <<y, x>>[2]
      BY <2>2
    <3> QED
      BY <3>1, <3>2
  <2>3. \A y \in T : ~ (y < x)
    BY <2>1, <2>2, Zenon
  <2> QED
    BY <1>1, <2>3
<1>5. Min(T) \in T
  BY <1>4 DEF Min
<1> QED
  BY <1>5 DEF NewFd

(* The tables start empty.                                                  *)
LEMMA InitPInv == Init => PInv
<1> SUFFICES ASSUME Init PROVE PInv
  OBVIOUS
<1>1. PICK i \in Ids : cntr = [o \in Objs |-> [id |-> i, netns |-> NoNetns, init |-> FALSE,
                                               attrs |-> FALSE, ctime |-> FALSE,
                                               pidfd |-> NoFd, reg |-> FALSE]]
  BY DEF Init
<1>2. cntr \in [Objs -> Cntr]
  BY <1>1 DEF Cntr
<1>3. Types
  BY <1>2 DEF Init, Types
<1>4. \A o \in Objs : ~InTable(o)
  BY <1>2, ContainerDBAssumption DEF Init, InTable, Cntr
<1>5. IdOwn /\ PendingOwn
  BY DEF Init, IdOwn, PendingOwn
<1>6. PidfdOwn
  BY <1>4 DEF Init, PidfdOwn, InTable
<1> QED
  BY <1>3, <1>5, <1>6 DEF PInv

(* A struct that nothing points to joins the table.                         *)
LEMMA PreRegisterPInv ==
    ASSUME PInv, NEW id \in Ids, NEW n \in Netns \cup {NoNetns}, NEW o \in Objs,
           PreRegister(id, n, o)
    PROVE  PInv'
<1>1. /\ idTable[id] = NoObj /\ idTable' = [idTable EXCEPT ![id] = o]
      /\ UNCHANGED <<openFds, unreg, mode>>
  BY DEF PreRegister
<1>2. \A p \in Objs \ {o} : cntr'[p] = cntr[p]
  BY DEF PreRegister, PInv, Types
<1>3. /\ cntr'[o].id = id /\ cntr'[o].pidfd = NoFd
      /\ cntr'[o].reg = FALSE
  BY DEF PreRegister, PInv, Types
<1>4. cntr' \in [Objs -> Cntr]
  BY DEF PreRegister, PInv, Types, Cntr
<1>5. /\ \A i \in Ids : idTable[i] # o
      /\ \A c \in Callers : unreg[c] # o
  BY DEF PreRegister, Reachable
<1>6. Types'
  BY <1>1, <1>4 DEF PInv, Types
<1>7. IdOwn'
  BY <1>1, <1>2, <1>3, <1>5 DEF PInv, Types, IdOwn
<1>8. \A p \in Objs : InTable(p)' <=> InTable(p) \/ p = o
  BY <1>1, <1>2, <1>3, <1>5, ContainerDBAssumption DEF PInv, Types, InTable, Cntr
<1>9. Orderly' = Orderly
  BY <1>1 DEF Orderly
<1>10. ASSUME Orderly PROVE PendingOwn'
  BY <1>1, <1>5, <1>8, <1>10 DEF PInv, Types, PendingOwn
<1>11. ASSUME Orderly PROVE PidfdOwn'
  <2>1. PidfdOwn
    BY <1>11 DEF PInv
  <2>2. \A p \in Objs : InTable(p)' /\ p # o => InTable(p) /\ cntr'[p] = cntr[p]
    BY <1>2, <1>8 DEF InTable
  <2>3. \A p \in Objs : InTable(p) => InTable(p)' /\ (cntr[p].pidfd # NoFd => cntr'[p] = cntr[p])
    <3>1. ~InTable(o)
      BY <1>5 DEF InTable, PInv, Types, Cntr
    <3> QED
      BY <1>2, <1>8, <3>1
  <2>4. \A f \in openFds : f # NoFd
    BY ContainerDBAssumption DEF PInv, Types
  <2>5. \A f \in openFds : \E p \in Objs : InTable(p)' /\ cntr'[p].pidfd = f
    BY <2>1, <2>3, <2>4 DEF PidfdOwn, InTable
  <2> QED
    BY <1>1, <1>3, <2>1, <2>2, <2>5 DEF PidfdOwn, InTable
<1> QED
  BY <1>6, <1>7, <1>9, <1>10, <1>11 DEF PInv

(* A step that touches neither the tables nor a pidfd.                      *)
LEMMA TouchPInv ==
    ASSUME PInv, UNCHANGED <<idTable, openFds, unreg, mode>>, cntr' \in [Objs -> Cntr],
           \A o \in Objs : /\ cntr'[o].id = cntr[o].id /\ cntr'[o].pidfd = cntr[o].pidfd
                           /\ cntr'[o].reg = cntr[o].reg
                           /\ ~cntr'[o].init => ~cntr[o].init
    PROVE  PInv'
<1>1. Types' /\ IdOwn'
  BY DEF PInv, Types, IdOwn
<1>2. Orderly' = Orderly
  BY DEF Orderly
<1>3. \A o \in Objs : InTable(o)' <=> InTable(o)
  BY DEF InTable
<1>4. ASSUME Orderly PROVE PendingOwn'
  BY <1>3, <1>4 DEF PInv, Types, PendingOwn, InTable
<1>5. ASSUME Orderly PROVE PidfdOwn'
  BY <1>3, <1>5 DEF PInv, PidfdOwn, InTable
<1> QED
  BY <1>1, <1>2, <1>4, <1>5 DEF PInv

(* update() of a container's struct, which opens the pidfd.                 *)
LEMMA OpenPInv ==
    ASSUME PInv, NEW id \in Ids, idTable[id] # NoObj,
           Orderly => ~cntr[idTable[id]].init, Fds # openFds,
           UNCHANGED <<idTable, unreg, mode>>, openFds' = Opens(idTable[id]),
           NEW n \in Netns \cup {NoNetns}, NEW b \in BOOLEAN,
           cntr' = [cntr EXCEPT ![idTable[id]] =
                       [Update(idTable[id]) EXCEPT !.netns = n, !.reg = b]]
    PROVE  PInv'
<1> DEFINE o == idTable[id]
<1>1. o \in Objs /\ cntr[o] \in Cntr /\ cntr[o].id = id /\ InTable(o)
  BY DEF PInv, Types, IdOwn, InTable
<1>2. NewFd \in Fds /\ NewFd \notin openFds /\ NewFd # NoFd
  BY NewFdUnused, ContainerDBAssumption DEF PInv
<1>3. [Update(o) EXCEPT !.netns = n, !.reg = b] \in Cntr
  BY <1>1, <1>2, Zenon DEF Update, Cntr
<1>4. /\ cntr' \in [Objs -> Cntr]
      /\ \A p \in Objs \ {o} : cntr'[p] = cntr[p]
      /\ cntr'[o] = [Update(o) EXCEPT !.netns = n, !.reg = b]
  BY <1>1, <1>3 DEF PInv, Types
<1>5. /\ cntr'[o].id = id /\ cntr'[o].init = TRUE
      /\ ~cntr[o].init => cntr'[o].pidfd = NewFd /\ openFds' = openFds \cup {NewFd}
      /\ openFds' \subseteq Fds
  BY <1>1, <1>2, <1>4 DEF Update, Cntr, Opens, PInv, Types
<1>6. Types'
  BY <1>4, <1>5 DEF PInv, Types
<1>7. IdOwn'
  BY <1>1, <1>4, <1>5 DEF PInv, Types, IdOwn
<1>8. \A p \in Objs : InTable(p)' <=> InTable(p)
  BY <1>1, <1>4, <1>5 DEF InTable
<1>9. Orderly' = Orderly
  BY DEF Orderly
<1>10. ASSUME Orderly PROVE PendingOwn'
  BY <1>8, <1>10 DEF PInv, Types, PendingOwn, InTable
<1>11. ASSUME Orderly PROVE PidfdOwn'
  <2>1. PidfdOwn /\ ~cntr[o].init
    BY <1>11 DEF PInv
  <2>2. cntr[o].pidfd = NoFd /\ cntr'[o].pidfd = NewFd /\ openFds' = openFds \cup {NewFd}
    BY <1>1, <1>5, <2>1 DEF PidfdOwn
  <2>3. \A p \in Objs : InTable(p)' /\ p # o => InTable(p) /\ cntr'[p] = cntr[p]
    BY <1>4, <1>8 DEF InTable
  <2>4. \A f \in openFds : \E p \in Objs : InTable(p)' /\ cntr'[p].pidfd = f
    <3>1. \A f \in openFds : f # NoFd
      BY ContainerDBAssumption DEF PInv, Types
    <3> QED
      BY <1>4, <1>8, <2>1, <2>2, <3>1 DEF PidfdOwn, InTable
  <2>5. InTable(o)'
    BY <1>1, <1>8 DEF InTable
  <2>6. \A p \in Objs : p # o /\ InTable(p)' => cntr'[p].pidfd # NewFd
    BY <1>2, <2>1, <2>3 DEF PidfdOwn
  <2>7. /\ \A p \in Objs : InTable(p)' /\ cntr'[p].pidfd # NoFd => cntr'[p].pidfd \in openFds'
        /\ \A p \in Objs : InTable(p)' /\ ~cntr'[p].init => cntr'[p].pidfd = NoFd
        /\ \A p \in Objs : InTable(p)' /\ cntr'[p].reg => cntr'[p].pidfd # NoFd
    BY <1>2, <1>5, <2>1, <2>2, <2>3 DEF PidfdOwn
  <2>8. \A f \in openFds' : \E p \in Objs : InTable(p)' /\ cntr'[p].pidfd = f
    BY <1>1, <2>2, <2>4, <2>5
  <2>9. \A p, q \in Objs : /\ InTable(p)' /\ InTable(q)'
                           /\ cntr'[p].pidfd = cntr'[q].pidfd /\ cntr'[p].pidfd # NoFd
            => p = q
    BY <2>1, <2>2, <2>3, <2>6 DEF PidfdOwn
  <2> QED
    BY <2>7, <2>8, <2>9 DEF PidfdOwn
<1> QED
  BY <1>6, <1>7, <1>9, <1>10, <1>11 DEF PInv

(* An unregistration finds the container.                                   *)
LEMMA LookupPInv ==
    ASSUME PInv, NEW c \in Callers, NEW id \in Ids, LookupUnregister(c, id)
    PROVE  PInv'
<1>1. /\ unreg[c] = NoObj /\ idTable[id] # NoObj /\ unreg' = [unreg EXCEPT ![c] = idTable[id]]
      /\ UNCHANGED <<idTable, cntr, openFds, mode>>
  BY DEF LookupUnregister
<1>2. idTable[id] \in Objs /\ cntr[idTable[id]].id = id /\ InTable(idTable[id])
  BY <1>1 DEF PInv, Types, IdOwn, InTable
<1>3. Types' /\ IdOwn'
  BY <1>1, <1>2 DEF PInv, Types, IdOwn
<1>4. Orderly' = Orderly
  BY <1>1 DEF Orderly
<1>5. ASSUME Orderly PROVE PendingOwn'
  <2>1. \A d \in Callers : unreg[d] # idTable[id]
    BY <1>1, <1>2, <1>5 DEF LookupUnregister, Free
  <2>2. unreg'[c] = idTable[id] /\ \A d \in Callers \ {c} : unreg'[d] = unreg[d]
    BY <1>1 DEF PInv, Types
  <2>3. ASSUME NEW d \in Callers, unreg'[d] # NoObj
        PROVE  InTable(unreg'[d]) /\ \A e \in Callers : unreg'[e] = unreg'[d] => e = d
    BY <1>2, <1>5, <2>1, <2>2, <2>3 DEF PInv, PendingOwn
  <2> QED
    BY <1>1, <2>3 DEF PendingOwn, InTable
<1>6. ASSUME Orderly PROVE PidfdOwn'
  BY <1>1, <1>6 DEF PInv, PidfdOwn, InTable
<1> QED
  BY <1>3, <1>4, <1>5, <1>6 DEF PInv

(* It removes the container and closes its pidfd.                           *)
LEMMA UnregisterPInv ==
    ASSUME PInv, NEW c \in Callers, Unregister(c)
    PROVE  PInv'
<1> DEFINE o == unreg[c]
           id == cntr[o].id
<1>1. /\ o # NoObj /\ idTable' = [idTable EXCEPT ![id] = NoObj]
      /\ unreg' = [unreg EXCEPT ![c] = NoObj] /\ openFds' = openFds \ {cntr[o].pidfd}
      /\ UNCHANGED <<cntr, mode>>
  BY DEF Unregister
<1>2. o \in Objs /\ id \in Ids
  BY <1>1 DEF PInv, Types, Cntr
<1>3. Types' /\ IdOwn'
  BY <1>1, <1>2 DEF PInv, Types, IdOwn
<1>4. Orderly' = Orderly
  BY <1>1 DEF Orderly
<1>5. \A p \in Objs : InTable(p)' <=> InTable(p) /\ cntr[p].id # id
  BY <1>1, <1>2, ContainerDBAssumption DEF PInv, Types, Cntr, InTable
<1>6. Orderly => \A p \in Objs : InTable(p)' <=> InTable(p) /\ p # o
  BY <1>1, <1>2, <1>5 DEF PInv, PendingOwn, InTable
<1>7. ASSUME Orderly PROVE PendingOwn'
  <2>1. unreg'[c] = NoObj /\ \A d \in Callers \ {c} : unreg'[d] = unreg[d]
    BY <1>1 DEF PInv, Types
  <2>2. ASSUME NEW d \in Callers, unreg'[d] # NoObj
        PROVE  /\ d # c /\ unreg'[d] = unreg[d] /\ unreg[d] \in Objs /\ unreg[d] # o
               /\ InTable(unreg[d]) /\ \A e \in Callers : unreg'[e] = unreg'[d] => e = d
    BY <1>1, <1>7, <2>1, <2>2 DEF PInv, Types, PendingOwn
  <2>3. ASSUME NEW p \in Objs, InTable(p), p # o PROVE idTable'[cntr'[p].id] = p
    BY <1>6, <1>7, <2>3 DEF InTable
  <2> QED
    BY <2>2, <2>3 DEF PendingOwn, InTable
<1>8. ASSUME Orderly PROVE PidfdOwn'
  <2>1. PidfdOwn /\ InTable(o)
    BY <1>1, <1>8 DEF PInv, PendingOwn
  <2>2. \A p \in Objs : InTable(p)' <=> InTable(p) /\ p # o
    BY <1>6, <1>8
  <2> QED
    BY <1>1, <1>2, <2>1, <2>2 DEF PidfdOwn, InTable
<1> QED
  BY <1>3, <1>4, <1>7, <1>8 DEF PInv

(* Another one removed it in the meantime.                                  *)
LEMMA GonePInv ==
    ASSUME PInv, NEW c \in Callers, UnregisterGone(c)
    PROVE  PInv'
<1>1. /\ unreg' = [unreg EXCEPT ![c] = NoObj]
      /\ UNCHANGED <<idTable, cntr, openFds, mode>>
  BY DEF UnregisterGone
<1>2. Types' /\ IdOwn' /\ Orderly' = Orderly
  BY <1>1 DEF PInv, Types, IdOwn, Orderly
<1>3. ASSUME Orderly PROVE PendingOwn'
  <2>1. \A d \in Callers : unreg'[d] # NoObj => unreg'[d] = unreg[d]
    BY <1>1 DEF PInv, Types
  <2> QED
    BY <1>1, <1>3, <2>1 DEF PInv, PendingOwn, InTable
<1>4. ASSUME Orderly PROVE PidfdOwn'
  BY <1>1, <1>4 DEF PInv, PidfdOwn, InTable
<1> QED
  BY <1>2, <1>3, <1>4 DEF PInv

(* The registrations.                                                       *)
LEMMA RegisterPInv ==
    ASSUME PInv, NEW id \in Ids,
           RegisterNoPidfd(id) \/ RegisterNoNetns(id) \/ \E n \in Netns : Register(id, n)
    PROVE  PInv'
<1> DEFINE o == idTable[id]
<1>1. o \in Objs /\ cntr[o] \in Cntr
  BY Zenon DEF RegisterNoPidfd, RegisterNoNetns, Register, PInv, Types
<1>2. CASE RegisterNoPidfd(id)
  <2>1. cntr' = [cntr EXCEPT ![o].init = TRUE] /\ UNCHANGED <<idTable, openFds, unreg, mode>>
    BY <1>2 DEF RegisterNoPidfd
  <2>2. cntr' \in [Objs -> Cntr]
    BY <1>1, <2>1, Zenon DEF PInv, Types, Cntr
  <2>3. \A p \in Objs : /\ cntr'[p].id = cntr[p].id /\ cntr'[p].pidfd = cntr[p].pidfd
                        /\ cntr'[p].reg = cntr[p].reg
                        /\ ~cntr'[p].init => ~cntr[p].init
    BY <1>1, <2>1 DEF PInv, Types, Cntr
  <2> QED
    BY <2>1, <2>2, <2>3, TouchPInv
<1>3. CASE RegisterNoNetns(id)
  <2>1. /\ o # NoObj /\ (Orderly => ~cntr[o].init) /\ Fds # openFds
        /\ cntr' = [cntr EXCEPT ![o] = Update(o)] /\ openFds' = Opens(o)
        /\ UNCHANGED <<idTable, unreg, mode>>
    BY <1>3 DEF RegisterNoNetns
  <2>2. cntr[o].netns \in Netns \cup {NoNetns} /\ cntr[o].reg \in BOOLEAN
    BY <1>1 DEF Cntr
  <2>3. Update(o) = [Update(o) EXCEPT !.netns = cntr[o].netns, !.reg = cntr[o].reg]
    BY <1>1, Zenon DEF Update, Cntr
  <2> QED
    BY <2>1, <2>2, <2>3, OpenPInv, Zenon
<1>4. ASSUME NEW n \in Netns, Register(id, n) PROVE PInv'
  <2> DEFINE netns == IF cntr[o].netns = NoNetns THEN n ELSE cntr[o].netns
  <2>1. /\ o # NoObj /\ (Orderly => ~cntr[o].init) /\ Fds # openFds
        /\ cntr' = [cntr EXCEPT ![o] = [Update(o) EXCEPT !.netns = netns, !.reg = TRUE]]
        /\ openFds' = Opens(o) /\ UNCHANGED <<idTable, unreg, mode>>
    BY <1>4, Zenon DEF Register
  <2>2. netns \in Netns \cup {NoNetns}
    BY <1>1 DEF Cntr
  <2> HIDE DEF netns
  <2> QED
    BY <2>1, <2>2, OpenPInv, Zenon
<1> QED
  BY <1>2, <1>3, <1>4

LEMMA NextPInv == PInv /\ [Next]_vars => PInv'
<1> SUFFICES ASSUME PInv, [Next]_vars PROVE PInv'
  OBVIOUS
<1>1. CASE UNCHANGED vars
  BY <1>1 DEF vars, PInv, Types, IdOwn, PendingOwn, PidfdOwn, InTable, Orderly
<1>2. ASSUME NEW id \in Ids, ContainerUpdate(id) PROVE PInv'
  <2>1. /\ cntr' = [cntr EXCEPT ![idTable[id]].ctime = TRUE] /\ idTable[id] \in Objs
        /\ UNCHANGED <<idTable, openFds, unreg, mode>>
    BY <1>2 DEF ContainerUpdate, PInv, Types
  <2>2. cntr' \in [Objs -> Cntr]
    BY <2>1, ZenonT(30) DEF PInv, Types, Cntr
  <2>3. \A p \in Objs : /\ cntr'[p].id = cntr[p].id /\ cntr'[p].pidfd = cntr[p].pidfd
                        /\ cntr'[p].reg = cntr[p].reg /\ cntr'[p].init = cntr[p].init
    BY <2>1 DEF PInv, Types, Cntr
  <2> QED
    BY <2>1, <2>2, <2>3, TouchPInv
<1> QED
  BY <1>1, <1>2, PreRegisterPInv, RegisterPInv, LookupPInv, UnregisterPInv, GonePInv DEF Next

(* The structs of idTable.                                                  *)
LEMMA RegisteredInTable ==
    ASSUME PInv
    PROVE  \A o : o \in Registered <=> o \in Objs /\ InTable(o)
<1>1. ASSUME NEW o \in Registered PROVE o \in Objs /\ InTable(o)
  BY <1>1 DEF Registered, PInv, Types, IdOwn, InTable
<1>2. ASSUME NEW o \in Objs, InTable(o) PROVE o \in Registered
  BY <1>2, ContainerDBAssumption DEF Registered, PInv, Types, Cntr, InTable
<1> QED
  BY <1>1, <1>2

LEMMA PInvPidfd == PInv => PidfdExact
<1> SUFFICES ASSUME PInv, Orderly PROVE PidfdExact
  BY DEF PidfdExact
<1>1. \A o : o \in Registered <=> o \in Objs /\ InTable(o)
  BY RegisteredInTable
<1>2. PidfdOwn /\ \A f \in openFds : f # NoFd
  BY ContainerDBAssumption DEF PInv, Types
<1>3. openFds = {cntr[o].pidfd : o \in Registered} \ {NoFd}
  BY <1>1, <1>2 DEF PidfdOwn
<1>4. \A o, p \in Registered : cntr[o].pidfd = cntr[p].pidfd /\ o # p => cntr[o].pidfd = NoFd
  BY <1>1, <1>2 DEF PidfdOwn
<1>5. \A o \in Registered : cntr[o].reg => cntr[o].pidfd # NoFd
  BY <1>1, <1>2 DEF PidfdOwn
<1> QED
  BY <1>3, <1>4, <1>5 DEF PidfdExact

(***************************************************************************)
(* The lists of netnsTable.                                                 *)
(***************************************************************************)

(* Without keeps the entries outside S, no more often than they were there. *)
LEMMA WithoutKeeps ==
    ASSUME NEW T, NEW list \in Seq(T), NEW S
    PROVE  /\ Without(list, S) \in Seq(T)
           /\ ToSet(Without(list, S)) = ToSet(list) \ S
           /\ IsInjective(list) => IsInjective(Without(list, S))
<1> DEFINE kept == {i \in DOMAIN list : list[i] \notin S}
           upTo(i) == {k \in kept : k <= i}
           N == Cardinality(kept)
           rank == [i \in kept |-> Cardinality(upTo(i))]
           at(j) == CHOOSE i \in kept : Cardinality(upTo(i)) = j
<1>1. /\ kept \subseteq 1..Len(list) /\ Len(list) \in Nat /\ kept \subseteq DOMAIN list
      /\ \A i \in kept : i \in Nat /\ list[i] \in T
  OBVIOUS
<1>2. IsFiniteSet(kept) /\ N \in Nat
  <2>1. IsFiniteSet(1..Len(list))
    BY <1>1, FS_Interval
  <2>2. IsFiniteSet(kept)
    BY <1>1, <2>1, FS_Subset
  <2> QED
    BY <2>2, FS_CardinalityType
<1>3. \A i \in kept : /\ IsFiniteSet(upTo(i)) /\ Cardinality(upTo(i)) \in Nat
                      /\ upTo(i) \subseteq kept /\ i \in upTo(i)
                      /\ Cardinality(upTo(i)) \in 1..N
  <2> SUFFICES ASSUME NEW i \in kept
               PROVE  /\ IsFiniteSet(upTo(i)) /\ Cardinality(upTo(i)) \in Nat
                      /\ upTo(i) \subseteq kept /\ i \in upTo(i)
                      /\ Cardinality(upTo(i)) \in 1..N
    OBVIOUS
  <2>1. upTo(i) \subseteq kept /\ i \in upTo(i)
    BY <1>1
  <2>2. IsFiniteSet(upTo(i)) /\ Cardinality(upTo(i)) <= N /\ Cardinality(upTo(i)) \in Nat
    BY <1>2, <2>1, FS_Subset, FS_CardinalityType
  <2>3. Cardinality(upTo(i)) # 0
    BY <2>1, <2>2, FS_EmptySet, ZenonT(30)
  <2> QED
    BY <1>2, <2>1, <2>2, <2>3
<1>4. \A i, k \in kept : Cardinality(upTo(i)) = Cardinality(upTo(k)) => i = k
  <2>1. ASSUME NEW i \in kept, NEW k \in kept, i < k
        PROVE  Cardinality(upTo(i)) # Cardinality(upTo(k))
    <3>1. upTo(i) \subseteq upTo(k) /\ k \in upTo(k) /\ k \notin upTo(i)
      BY <1>1, <2>1
    <3> QED
      BY <1>3, <3>1, FS_Subset, ZenonT(30)
  <2> QED
    BY <1>1, <2>1
<1>5. \A j \in 1..N : \E i \in kept : Cardinality(upTo(i)) = j
  <2>1. rank \in [kept -> 1..N]
    BY <1>3, ZenonT(30)
  <2>2. rank \in Injection(kept, 1..N)
    BY <1>4, <2>1, ZenonT(30) DEF Injection, IsInjective
  <2>3. IsFiniteSet(1..N) /\ Cardinality(1..N) = N
    BY <1>2, FS_Interval
  <2>4. rank \in Surjection(kept, 1..N)
    BY <2>2, <2>3, FS_Injection
  <2> QED
    BY <2>4, ZenonT(30) DEF Surjection
<1>6. \A j \in 1..N : at(j) \in kept /\ Cardinality(upTo(at(j))) = j
  BY <1>5, ZenonT(30)
<1>7. \A i \in kept : Cardinality(upTo(i)) \in 1..N /\ at(Cardinality(upTo(i))) = i
  BY <1>3, <1>4, <1>6
<1>8. Without(list, S) = [j \in 1..N |-> list[at(j)]]
  BY DEF Without
<1>9. DOMAIN Without(list, S) = 1..N /\ \A j \in 1..N : Without(list, S)[j] = list[at(j)]
  BY <1>8
<1>10. \A x : x \in ToSet(list) \ S <=> \E i \in kept : list[i] = x
  BY DEF ToSet
<1> HIDE DEF at, N, upTo, kept
<1>11. Without(list, S) \in Seq(T)
  <2>1. \A j \in 1..N : list[at(j)] \in T
    BY <1>1, <1>6
  <2> QED
    BY <1>2, <1>8, <2>1
<1>12. ToSet(Without(list, S)) = ToSet(list) \ S
  <2>1. \A x : x \in ToSet(Without(list, S)) <=> \E j \in 1..N : list[at(j)] = x
    BY <1>9 DEF ToSet
  <2> QED
    BY <1>6, <1>7, <1>10, <2>1
<1>13. ASSUME IsInjective(list) PROVE IsInjective(Without(list, S))
  <2>1. \A a, b \in 1..N : list[at(a)] = list[at(b)] => at(a) = at(b)
    <3>1. \A a \in 1..N : at(a) \in DOMAIN list
      BY <1>1, <1>6
    <3> QED
      BY <1>13, <3>1, Zenon DEF IsInjective
  <2> QED
    BY <1>6, <1>9, <2>1 DEF IsInjective
<1> QED
  BY <1>11, <1>12, <1>13

(* An entry at the end of a list.                                           *)
LEMMA AppendAdds ==
    ASSUME NEW T, NEW list \in Seq(T), NEW o \in T
    PROVE  /\ Append(list, o) \in Seq(T)
           /\ ToSet(Append(list, o)) = ToSet(list) \cup {o}
           /\ IsInjective(list) /\ o \notin ToSet(list) => IsInjective(Append(list, o))
<1>1. /\ Append(list, o) \in Seq(T) /\ Len(list) \in Nat
      /\ DOMAIN list = 1..Len(list) /\ DOMAIN Append(list, o) = 1..(Len(list) + 1)
      /\ \A i \in 1..Len(list) : Append(list, o)[i] = list[i]
      /\ Append(list, o)[Len(list) + 1] = o
  OBVIOUS
<1>2. \A i \in 1..(Len(list) + 1) : i \in 1..Len(list) \/ i = Len(list) + 1
  BY <1>1
<1>3. 1..Len(list) \subseteq 1..(Len(list) + 1) /\ Len(list) + 1 \in 1..(Len(list) + 1)
  BY <1>1
<1>4. ToSet(Append(list, o)) = ToSet(list) \cup {o}
  BY <1>1, <1>2, <1>3 DEF ToSet
<1>5. ASSUME IsInjective(list), o \notin ToSet(list) PROVE IsInjective(Append(list, o))
  BY <1>1, <1>2, <1>5 DEF ToSet, IsInjective
<1> QED
  BY <1>1, <1>4, <1>5

(* An entry of a list is a struct of that net-ns, a container of idTable is *)
(* in the list of its net-ns, and, while calls are orderly, nothing else    *)
(* is, nor anything twice.                                                  *)
LInv ==
    /\ netnsTable \in [Netns -> Seq(Objs)]
    /\ \A n \in Netns : \A p \in ToSet(netnsTable[n]) : cntr[p].netns = n
    /\ \A o \in Objs : InTable(o) /\ cntr[o].netns # NoNetns
                           => o \in ToSet(netnsTable[cntr[o].netns])
    /\ Orderly => \A n \in Netns : /\ IsInjective(netnsTable[n])
                                   /\ \A p \in ToSet(netnsTable[n]) : InTable(p)

LEMMA Members == LInv => \A n \in Netns : ToSet(netnsTable[n]) \subseteq Objs
  BY DEF LInv, ToSet

(* The lists stay, and no container of idTable changes its net-ns.          *)
LEMMA KeepLists ==
    ASSUME PInv, LInv, netnsTable' = netnsTable, mode' = mode,
           \A p \in Objs : InTable(p)' /\ cntr'[p].netns # NoNetns
                               => InTable(p) /\ cntr'[p].netns = cntr[p].netns,
           \A n \in Netns : \A p \in ToSet(netnsTable[n]) :
               cntr'[p].netns = cntr[p].netns /\ (InTable(p) => InTable(p)')
    PROVE  LInv'
<1>1. Orderly' = Orderly
  BY DEF Orderly
<1>2. /\ netnsTable' \in [Netns -> Seq(Objs)]
      /\ \A n \in Netns : \A p \in ToSet(netnsTable'[n]) : cntr'[p].netns = n
  BY DEF LInv
<1>3. \A o \in Objs : InTable(o)' /\ cntr'[o].netns # NoNetns
                           => o \in ToSet(netnsTable'[cntr'[o].netns])
  BY DEF LInv
<1>4. ASSUME Orderly
      PROVE  \A n \in Netns : /\ IsInjective(netnsTable'[n])
                              /\ \A p \in ToSet(netnsTable'[n]) : InTable(p)'
  BY <1>4 DEF LInv
<1> QED
  BY <1>1, <1>2, <1>3, <1>4 DEF LInv, InTable

(* A container joins the list of its net-ns.                                *)
LEMMA JoinList ==
    ASSUME PInv, LInv, NEW o \in Objs, NEW n \in Netns, mode' = mode,
           netnsTable' = [netnsTable EXCEPT ![n] = Append(@, o)],
           \A k \in Netns : o \notin ToSet(netnsTable[k]),
           cntr'[o].netns = n, InTable(o)',
           \A p \in Objs \ {o} : cntr'[p].netns = cntr[p].netns /\ (InTable(p)' <=> InTable(p))
    PROVE  LInv'
<1>1. Orderly' = Orderly
  BY DEF Orderly
<1>2. netnsTable \in [Netns -> Seq(Objs)] /\ netnsTable[n] \in Seq(Objs)
  BY DEF LInv
<1>3. /\ netnsTable'[n] = Append(netnsTable[n], o)
      /\ \A k \in Netns \ {n} : netnsTable'[k] = netnsTable[k]
  BY <1>2
<1>4. /\ netnsTable'[n] \in Seq(Objs)
      /\ ToSet(netnsTable'[n]) = ToSet(netnsTable[n]) \cup {o}
      /\ IsInjective(netnsTable[n]) => IsInjective(netnsTable'[n])
  BY <1>2, <1>3, AppendAdds
<1>5. netnsTable' \in [Netns -> Seq(Objs)]
  BY <1>2, <1>4
<1>6. \A k \in Netns : \A p \in ToSet(netnsTable'[k]) :
          \/ p = o /\ k = n
          \/ p \in ToSet(netnsTable[k]) /\ p \in Objs \ {o}
  BY <1>3, <1>4, Members
<1>7. \A k \in Netns : \A p \in ToSet(netnsTable'[k]) : cntr'[p].netns = k
  BY <1>6 DEF LInv
<1>8. \A p \in Objs : InTable(p)' /\ cntr'[p].netns # NoNetns
                          => p \in ToSet(netnsTable'[cntr'[p].netns])
  <2> SUFFICES ASSUME NEW p \in Objs, InTable(p)', cntr'[p].netns # NoNetns
               PROVE  p \in ToSet(netnsTable'[cntr'[p].netns])
    OBVIOUS
  <2>1. CASE p = o
    BY <1>4, <2>1
  <2>2. CASE p # o
    <3>1. InTable(p) /\ cntr'[p].netns = cntr[p].netns /\ cntr[p].netns \in Netns
      BY <2>2 DEF PInv, Types, Cntr
    <3>2. p \in ToSet(netnsTable[cntr[p].netns])
      BY <3>1 DEF LInv
    <3> QED
      BY <1>3, <1>4, <3>1, <3>2
  <2> QED
    BY <2>1, <2>2
<1>9. ASSUME Orderly
      PROVE  \A k \in Netns : /\ IsInjective(netnsTable'[k])
                              /\ \A p \in ToSet(netnsTable'[k]) : InTable(p)'
  BY <1>3, <1>4, <1>6, <1>9 DEF LInv
<1> QED
  BY <1>1, <1>5, <1>7, <1>8, <1>9 DEF LInv, InTable

LEMMA InitLInv == Init => LInv
<1> SUFFICES ASSUME Init PROVE LInv
  OBVIOUS
<1>1. PInv
  BY InitPInv
<1>2. \A o \in Objs : ~InTable(o)
  BY <1>1, ContainerDBAssumption DEF Init, InTable, PInv, Types, Cntr
<1>3. \A n \in Netns : netnsTable[n] = <<>>
  BY DEF Init
<1>4. ToSet(<<>>) = {} /\ IsInjective(<<>>)
  BY DEF ToSet, IsInjective
<1>5. netnsTable \in [Netns -> Seq(Objs)]
  BY DEF Init
<1> QED
  BY <1>2, <1>3, <1>4, <1>5 DEF LInv

(* A struct that nothing points to, in no list either, joins the table.     *)
Joins(n, o) ==
    /\ \A k \in Netns : o \notin ToSet(netnsTable[k])
    /\ \A i \in Ids : idTable[i] # o
    /\ \A p \in Objs \ {o} : cntr'[p] = cntr[p]
    /\ cntr'[o].netns = n /\ cntr'[o].reg = FALSE /\ cntr'[o].attrs = FALSE
    /\ \A p \in Objs : InTable(p)' <=> InTable(p) \/ p = o

LEMMA PreRegisterJoins ==
    ASSUME PInv, LInv, NEW id \in Ids, NEW n \in Netns \cup {NoNetns}, NEW o \in Objs,
           PreRegister(id, n, o)
    PROVE  Joins(n, o)
<1>1. \A k \in Netns : o \notin ToSet(netnsTable[k])
  <2>1. \A k \in Netns : netnsTable[k] \in Seq(Objs) /\ ~Contains(netnsTable[k], o)
    BY DEF PreRegister, Reachable, LInv
  <2> QED
    BY <2>1 DEF Contains, ToSet
<1>2. /\ \A p \in Objs \ {o} : cntr'[p] = cntr[p]
      /\ cntr'[o].netns = n /\ cntr'[o].reg = FALSE /\ cntr'[o].attrs = FALSE
      /\ cntr'[o].id = id
  BY DEF PreRegister, PInv, Types
<1>3. idTable[id] = NoObj /\ idTable' = [idTable EXCEPT ![id] = o] /\ \A i \in Ids : idTable[i] # o
  BY DEF PreRegister, Reachable
<1>4. \A p \in Objs : InTable(p)' <=> InTable(p) \/ p = o
  BY <1>2, <1>3, ContainerDBAssumption DEF PInv, Types, InTable, Cntr
<1> QED
  BY <1>1, <1>2, <1>3, <1>4 DEF Joins, InTable

LEMMA PreRegisterLInv ==
    ASSUME PInv, LInv, NEW id \in Ids, NEW n \in Netns \cup {NoNetns}, NEW o \in Objs,
           PreRegister(id, n, o)
    PROVE  LInv'
<1>0. Joins(n, o)
  BY PreRegisterJoins
<1>1. mode' = mode /\ netnsTable' = Tracked(o, NoNetns, n)
  BY DEF PreRegister
<1>2. CASE n = NoNetns
  <2>1. netnsTable' = netnsTable
    BY <1>1, <1>2 DEF Tracked
  <2>2. \A p \in Objs : InTable(p)' /\ cntr'[p].netns # NoNetns
                               => InTable(p) /\ cntr'[p].netns = cntr[p].netns
    BY <1>0, <1>2 DEF Joins, InTable
  <2>3. \A k \in Netns : \A p \in ToSet(netnsTable[k]) :
               cntr'[p].netns = cntr[p].netns /\ (InTable(p) => InTable(p)')
    BY <1>0, Members DEF Joins, InTable
  <2> QED
    BY <1>1, <2>1, <2>2, <2>3, KeepLists
<1>3. CASE n # NoNetns
  <2>1. n \in Netns /\ netnsTable' = [netnsTable EXCEPT ![n] = Append(@, o)]
    BY <1>1, <1>3 DEF Tracked
  <2>2. \A p \in Objs \ {o} : cntr'[p].netns = cntr[p].netns /\ (InTable(p)' <=> InTable(p))
    BY <1>0 DEF Joins, InTable
  <2>3. cntr'[o].netns = n /\ InTable(o)' /\ \A k \in Netns : o \notin ToSet(netnsTable[k])
    BY <1>0 DEF Joins, InTable
  <2> QED
    BY <1>1, <2>1, <2>2, <2>3, JoinList, ZenonT(30)
<1> QED
  BY <1>2, <1>3

(* A step that touches no list, no id and no net-ns.                        *)
LEMMA TouchLInv ==
    ASSUME PInv, LInv, UNCHANGED <<idTable, netnsTable, mode>>,
           \A p \in Objs : cntr'[p].id = cntr[p].id /\ cntr'[p].netns = cntr[p].netns
    PROVE  LInv'
<1>1. \A p \in Objs : InTable(p)' <=> InTable(p)
  BY DEF InTable
<1> QED
  BY <1>1, KeepLists, Members

(* The net-ns of a container becomes known with its registration, or was.   *)
LEMMA RegisterLInv ==
    ASSUME PInv, LInv, NEW id \in Ids, NEW n \in Netns, Register(id, n)
    PROVE  LInv'
<1>0. PICK o \in Objs : o = idTable[id]
  BY DEF Register, PInv, Types
<1> DEFINE netns == IF cntr[o].netns = NoNetns THEN n ELSE cntr[o].netns
<1>1. /\ o # NoObj /\ UNCHANGED <<idTable, mode>> /\ netnsTable' = Tracked(o, cntr[o].netns, n)
      /\ cntr' = [cntr EXCEPT ![o] = [Update(o) EXCEPT !.netns = netns, !.reg = TRUE]]
  BY <1>0, Zenon DEF Register
<1>2. o \in Objs /\ cntr[o] \in Cntr /\ InTable(o)
  BY <1>0, <1>1 DEF PInv, Types, IdOwn, InTable
<1>3. /\ \A p \in Objs \ {o} : cntr'[p] = cntr[p]
      /\ cntr'[o].id = cntr[o].id /\ cntr'[o].netns = netns
  BY <1>1, <1>2 DEF PInv, Types, Update, Cntr
<1>4. \A p \in Objs : InTable(p)' <=> InTable(p)
  BY <1>1, <1>3 DEF InTable
<1>5. CASE cntr[o].netns = NoNetns
  <2>1. netnsTable' = [netnsTable EXCEPT ![n] = Append(@, o)] /\ cntr'[o].netns = n
    BY <1>1, <1>3, <1>5, ContainerDBAssumption DEF Tracked
  <2>2. \A k \in Netns : o \notin ToSet(netnsTable[k])
    BY <1>5, ContainerDBAssumption DEF LInv
  <2>3. \A p \in Objs \ {o} : cntr'[p].netns = cntr[p].netns /\ (InTable(p)' <=> InTable(p))
    BY <1>3, <1>4 DEF InTable
  <2>4. InTable(o)'
    BY <1>2, <1>4 DEF InTable
  <2> QED
    BY <1>1, <2>1, <2>2, <2>3, <2>4, JoinList, ZenonT(30) DEF InTable
<1>6. CASE cntr[o].netns # NoNetns
  <2>1. netnsTable' = netnsTable
    BY <1>1, <1>6 DEF Tracked
  <2>2. \A p \in Objs : cntr'[p].id = cntr[p].id /\ cntr'[p].netns = cntr[p].netns
    BY <1>3, <1>6
  <2> QED
    BY <1>1, <2>1, <2>2, TouchLInv
<1> QED
  BY <1>5, <1>6

(* Every entry with the id leaves the list of the struct's net-ns, and the  *)
(* id leaves idTable.                                                       *)
LEMMA UnregisterLInv ==
    ASSUME PInv, LInv, NEW c \in Callers, Unregister(c)
    PROVE  LInv'
<1> DEFINE o == unreg[c]
           id == cntr[o].id
           n == cntr[o].netns
<1>1. /\ o # NoObj /\ idTable' = [idTable EXCEPT ![id] = NoObj]
      /\ netnsTable' = Untracked(o) /\ UNCHANGED <<cntr, mode>>
  BY DEF Unregister
<1>2. o \in Objs /\ id \in Ids /\ n \in Netns \cup {NoNetns} /\ Orderly' = Orderly
  BY <1>1 DEF PInv, Types, Cntr, Orderly
<1>3. \A p \in Objs : InTable(p)' <=> InTable(p) /\ cntr[p].id # id
  BY <1>1, <1>2, ContainerDBAssumption DEF PInv, Types, Cntr, InTable
<1>4. netnsTable \in [Netns -> Seq(Objs)]
  BY DEF LInv
<1>5. \A k \in Netns : /\ netnsTable'[k] \in Seq(Objs)
                       /\ ToSet(netnsTable'[k]) = ToSet(netnsTable[k])
                                                    \ (IF k = n THEN SameId(o) ELSE {})
                       /\ IsInjective(netnsTable[k]) => IsInjective(netnsTable'[k])
  <2>1. CASE n = NoNetns
    BY <1>1, <1>4, <2>1, ContainerDBAssumption DEF Untracked
  <2>2. CASE n # NoNetns
    <3>1. /\ n \in Netns /\ netnsTable[n] \in Seq(Objs)
          /\ netnsTable' = [netnsTable EXCEPT ![n] = Without(netnsTable[n], SameId(o))]
      BY <1>1, <1>2, <1>4, <2>2 DEF Untracked
    <3>2. /\ netnsTable'[n] = Without(netnsTable[n], SameId(o))
          /\ \A k \in Netns \ {n} : netnsTable'[k] = netnsTable[k]
      BY <1>4, <3>1
    <3>3. /\ netnsTable'[n] \in Seq(Objs)
          /\ ToSet(netnsTable'[n]) = ToSet(netnsTable[n]) \ SameId(o)
          /\ IsInjective(netnsTable[n]) => IsInjective(netnsTable'[n])
      BY <3>1, <3>2, WithoutKeeps, SMTT(30)
    <3> HIDE DEF n
    <3> QED
      BY <1>4, <3>2, <3>3
  <2> QED
    BY <2>1, <2>2, ZenonT(30)
<1>6. netnsTable' \in [Netns -> Seq(Objs)]
  BY <1>1, <1>4, <1>5, ZenonT(30) DEF Untracked
<1>7. \A k \in Netns : \A p \in ToSet(netnsTable'[k]) : p \in ToSet(netnsTable[k])
  BY <1>5
<1>8. \A k \in Netns : \A p \in ToSet(netnsTable'[k]) : cntr'[p].netns = k
  BY <1>1, <1>7 DEF LInv
<1>9. \A p \in Objs : InTable(p)' /\ cntr'[p].netns # NoNetns
                          => p \in ToSet(netnsTable'[cntr'[p].netns])
  <2> SUFFICES ASSUME NEW p \in Objs, InTable(p)', cntr'[p].netns # NoNetns
               PROVE  p \in ToSet(netnsTable'[cntr'[p].netns])
    OBVIOUS
  <2>1. /\ InTable(p) /\ cntr[p].id # id /\ cntr'[p].netns = cntr[p].netns
        /\ cntr[p].netns \in Netns
    BY <1>1, <1>3 DEF PInv, Types, Cntr
  <2>2. p \in ToSet(netnsTable[cntr[p].netns]) /\ p \notin SameId(o)
    BY <1>1, <2>1 DEF LInv, SameId
  <2> QED
    BY <1>5, <2>1, <2>2
<1>10. ASSUME Orderly
       PROVE  \A k \in Netns : /\ IsInjective(netnsTable'[k])
                               /\ \A p \in ToSet(netnsTable'[k]) : InTable(p)'
  <2>1. \A k \in Netns : IsInjective(netnsTable'[k])
    BY <1>5, <1>10 DEF LInv
  <2>2. ASSUME NEW k \in Netns, NEW p \in ToSet(netnsTable'[k]) PROVE InTable(p)'
    <3>1. p \in ToSet(netnsTable[k]) /\ p \in Objs /\ InTable(p) /\ cntr[p].netns = k
      BY <1>7, <1>10, <2>2, Members DEF LInv
    <3>2. InTable(o)
      BY <1>1, <1>10 DEF PInv, PendingOwn
    <3>3. CASE cntr[p].id = id
      <4>1. p = o /\ k = n /\ p \in SameId(o)
        BY <1>2, <3>1, <3>2, <3>3 DEF InTable, SameId
      <4> QED
        BY <1>5, <2>2, <4>1
    <3>4. CASE cntr[p].id # id
      BY <1>3, <3>1, <3>4 DEF InTable
    <3> QED
      BY <3>3, <3>4
  <2> QED
    BY <2>1, <2>2 DEF InTable
<1> QED
  BY <1>2, <1>6, <1>8, <1>9, <1>10 DEF LInv, InTable

LEMMA NextLInv == PInv /\ LInv /\ [Next]_vars => LInv'
<1> SUFFICES ASSUME PInv, LInv, [Next]_vars PROVE LInv'
  OBVIOUS
<1>1. ASSUME UNCHANGED <<idTable, netnsTable, mode, cntr>> PROVE LInv'
  BY <1>1, TouchLInv
<1>2. ASSUME NEW id \in Ids, idTable[id] # NoObj, UNCHANGED <<idTable, netnsTable, mode>>,
             \/ cntr' = [cntr EXCEPT ![idTable[id]].init = TRUE]
             \/ cntr' = [cntr EXCEPT ![idTable[id]].ctime = TRUE]
             \/ cntr' = [cntr EXCEPT ![idTable[id]] = Update(idTable[id])]
      PROVE  LInv'
  <2>1. idTable[id] \in Objs /\ cntr \in [Objs -> Cntr]
    BY <1>2 DEF PInv, Types
  <2>2. \A p \in Objs : cntr'[p].id = cntr[p].id /\ cntr'[p].netns = cntr[p].netns
    <3>1. CASE cntr' = [cntr EXCEPT ![idTable[id]].init = TRUE]
      BY <2>1, <3>1 DEF Cntr
    <3>2. CASE cntr' = [cntr EXCEPT ![idTable[id]].ctime = TRUE]
      BY <2>1, <3>2 DEF Cntr
    <3>3. CASE cntr' = [cntr EXCEPT ![idTable[id]] = Update(idTable[id])]
      BY <2>1, <3>3 DEF Update, Cntr
    <3> QED
      BY <1>2, <3>1, <3>2, <3>3
  <2> QED
    BY <1>2, <2>2, TouchLInv
<1>3. ASSUME NEW id \in Ids,
             ContainerUpdate(id) \/ RegisterNoPidfd(id) \/ RegisterNoNetns(id)
      PROVE  LInv'
  BY <1>2, <1>3, Zenon DEF ContainerUpdate, RegisterNoPidfd, RegisterNoNetns
<1>4. ASSUME NEW id \in Ids, NEW c \in Callers, LookupUnregister(c, id) PROVE LInv'
  BY <1>1, <1>4 DEF LookupUnregister
<1>5. ASSUME NEW c \in Callers, UnregisterGone(c) PROVE LInv'
  BY <1>1, <1>5 DEF UnregisterGone
<1>6. CASE UNCHANGED vars
  BY <1>1, <1>6 DEF vars
<1> QED
  BY <1>3, <1>4, <1>5, <1>6, PreRegisterLInv, RegisterLInv, UnregisterLInv DEF Next

LEMMA LInvLists == PInv /\ LInv => NetnsExact /\ NetnsListed
<1> SUFFICES ASSUME PInv, LInv PROVE NetnsExact /\ NetnsListed
  OBVIOUS
<1>1. \A o : o \in Registered <=> o \in Objs /\ InTable(o)
  BY RegisteredInTable
<1>2. ASSUME Orderly, NEW n \in Netns
      PROVE  ToSet(netnsTable[n]) = {o \in Registered : cntr[o].netns = n}
  BY <1>1, <1>2, Members, ContainerDBAssumption DEF LInv
<1>3. NetnsExact
  BY <1>2 DEF NetnsExact, LInv
<1>4. ASSUME NEW o \in Registered, cntr[o].netns # NoNetns
      PROVE  Contains(netnsTable[cntr[o].netns], o)
  <2>1. o \in Objs /\ cntr[o].netns \in Netns /\ o \in ToSet(netnsTable[cntr[o].netns])
    BY <1>1, <1>4 DEF PInv, Types, Cntr, LInv
  <2>2. netnsTable[cntr[o].netns] \in Seq(Objs)
    BY <2>1 DEF LInv
  <2> QED
    BY <2>1, <2>2 DEF ToSet, Contains
<1> QED
  BY <1>3, <1>4 DEF NetnsListed

(***************************************************************************)
(* The fuse servers.                                                        *)
(***************************************************************************)

(* A container that is registered has its attributes, and so has one whose  *)
(* own server was told of the registration.                                 *)
SInv ==
    /\ serversMap \in [Ids -> Server \cup {NoServer}]
    /\ \A o \in Objs : cntr[o].reg => cntr[o].attrs
    /\ \A id \in Ids : ( /\ serversMap[id] # NoServer /\ serversMap[id].reg
                         /\ idTable[id] # NoObj /\ serversMap[id].state = idTable[id] )
                           => cntr[idTable[id]].attrs
    /\ ServersExact
    /\ StateSameNetns

LEMMA InitSInv == Init => SInv
<1> SUFFICES ASSUME Init PROVE SInv
  OBVIOUS
<1>1. \A o \in Objs : cntr[o].reg = FALSE
  BY DEF Init
<1>2. /\ serversMap \in [Ids -> Server \cup {NoServer}]
      /\ \A id \in Ids : serversMap[id] = NoServer /\ idTable[id] = NoObj
  BY DEF Init
<1> QED
  BY <1>1, <1>2 DEF SInv, ServersExact, StateSameNetns

(* A server's state is a struct while the host calls succeed.               *)
LEMMA StatesAreStructs ==
    ASSUME PInv, SInv, ~Faults, NEW id \in Ids, idTable[id] # NoObj
    PROVE  /\ serversMap[id] # NoServer /\ serversMap[id] \in Server
           /\ serversMap[id].state \in Objs /\ idTable[id] \in Objs
  BY DEF SInv, ServersExact, Server, PInv, Types

(* A step that changes neither tables nor servers, no net-ns, and no        *)
(* registration, and takes no attributes away.                              *)
LEMMA TouchSInv ==
    ASSUME PInv, SInv, UNCHANGED <<idTable, serversMap, mode>>,
           \A p \in Objs : /\ cntr'[p].netns = cntr[p].netns /\ cntr'[p].reg = cntr[p].reg
                           /\ cntr[p].attrs => cntr'[p].attrs
    PROVE  SInv'
<1>1. \A id \in Ids : idTable[id] # NoObj => idTable[id] \in Objs
  BY DEF PInv, Types
<1>2. /\ serversMap' \in [Ids -> Server \cup {NoServer}]
      /\ \A o \in Objs : cntr'[o].reg => cntr'[o].attrs
      /\ \A id \in Ids : ( /\ serversMap'[id] # NoServer /\ serversMap'[id].reg
                           /\ idTable'[id] # NoObj /\ serversMap'[id].state = idTable'[id] )
                             => cntr'[idTable'[id]].attrs
  BY <1>1 DEF SInv
<1>3. ServersExact'
  BY <1>1 DEF SInv, ServersExact, Faults
<1>4. StateSameNetns'
  BY <1>1, StatesAreStructs DEF SInv, StateSameNetns, Faults
<1> QED
  BY <1>2, <1>3, <1>4 DEF SInv

(* The server of a new container.                                           *)
LEMMA PreRegisterSInv ==
    ASSUME PInv, LInv, SInv, NEW id \in Ids, NEW n \in Netns \cup {NoNetns}, NEW o \in Objs,
           PreRegister(id, n, o)
    PROVE  SInv'
<1> DEFINE state == StateCntr(o, n)
           server == [state |-> state, reg |-> FALSE]
<1>1. Joins(n, o)
  BY PreRegisterJoins
<1>2. /\ idTable[id] = NoObj /\ idTable' = [idTable EXCEPT ![id] = o] /\ mode' = mode
      /\ CreateFuseServer(id, state)
      /\ \A i \in Ids : serversMap[i] # NoServer => serversMap[i].state # o
  BY DEF PreRegister, Reachable
<1>3. /\ state \in Objs
      /\ state # o => n # NoNetns /\ cntr'[state].netns = n
  <2>1. CASE n # NoNetns /\ netnsTable[n] # <<>>
    <3>1. n \in Netns /\ netnsTable[n] \in Seq(Objs) /\ netnsTable[n] # <<>>
      BY <2>1 DEF LInv
    <3>2. Head(netnsTable[n]) \in ToSet(netnsTable[n]) /\ Head(netnsTable[n]) \in Objs
      BY <3>1 DEF ToSet
    <3>3. state = Head(netnsTable[n])
      BY <2>1 DEF StateCntr
    <3>4. cntr[Head(netnsTable[n])].netns = n
      BY <3>1, <3>2 DEF LInv
    <3> QED
      BY <1>1, <2>1, <3>2, <3>3, <3>4 DEF Joins
  <2>2. CASE ~(n # NoNetns /\ netnsTable[n] # <<>>)
    BY <2>2 DEF StateCntr
  <2> QED
    BY <2>1, <2>2
<1> HIDE DEF state
<1>4. server \in Server /\ server # NoServer /\ server.state = state /\ server.reg = FALSE
  <2>1. server \in Server /\ server.state = state /\ server.reg = FALSE
    BY <1>3 DEF Server
  <2> QED
    BY <2>1, ContainerDBAssumption, Zenon
<1> HIDE DEF server
<1>5. /\ \A i \in Ids \ {id} : serversMap'[i] = serversMap[i] /\ idTable'[i] = idTable[i]
      /\ idTable'[id] = o /\ o # NoObj
      /\ serversMap'[id] = server \/ serversMap'[id] = serversMap[id]
      /\ ~Faults => serversMap'[id] = server
      /\ serversMap' \in [Ids -> Server \cup {NoServer}]
  <2>1. serversMap \in [Ids -> Server \cup {NoServer}] /\ idTable \in [Ids -> Objs \cup {NoObj}]
    BY DEF SInv, PInv, Types
  <2>2. \/ serversMap[id] = NoServer /\ serversMap' = [serversMap EXCEPT ![id] = server]
        \/ (serversMap[id] # NoServer \/ Faults) /\ serversMap' = serversMap
    BY <1>2 DEF CreateFuseServer, server
  <2>3. ~Faults => serversMap[id] = NoServer
    BY <1>2 DEF SInv, ServersExact
  <2> QED
    BY <1>2, <1>4, <2>1, <2>2, <2>3, ContainerDBAssumption
<1>6. \A i \in Ids : /\ idTable[i] # o
                     /\ idTable[i] # NoObj => idTable[i] \in Objs /\ cntr'[idTable[i]] = cntr[idTable[i]]
  BY <1>1, SMTT(30) DEF Joins, PInv, Types
<1>7. \A p \in Objs : cntr'[p].reg => cntr'[p].attrs
  BY <1>1 DEF Joins, SInv
<1>8. ASSUME NEW i \in Ids, serversMap'[i] # NoServer, serversMap'[i].reg, idTable'[i] # NoObj,
             serversMap'[i].state = idTable'[i]
      PROVE  cntr'[idTable'[i]].attrs
  BY <1>2, <1>4, <1>5, <1>6, <1>8, SMTT(30) DEF SInv
<1>9. Faults' = Faults
  BY <1>2 DEF Faults
<1>10. ServersExact'
  <2> SUFFICES ASSUME ~Faults, NEW i \in Ids
               PROVE  IF idTable'[i] = NoObj THEN serversMap'[i] = NoServer
                      ELSE /\ serversMap'[i] # NoServer /\ serversMap'[i].state # NoObj
                           /\ serversMap'[i].reg = cntr'[idTable'[i]].reg
    BY <1>9 DEF ServersExact
  <2>1. CASE i = id
    BY <1>1, <1>3, <1>4, <1>5, <2>1, ContainerDBAssumption, ZenonT(30) DEF Joins
  <2>2. CASE i # id
    BY <1>5, <1>6, <2>2, SMTT(30) DEF SInv, ServersExact
  <2> QED
    BY <2>1, <2>2
<1>11. StateSameNetns'
  <2> SUFFICES ASSUME ~Faults, NEW i \in Ids, idTable'[i] # NoObj, serversMap'[i] # NoServer
               PROVE  \/ serversMap'[i].state = idTable'[i]
                      \/ /\ cntr'[serversMap'[i].state].netns # NoNetns
                         /\ cntr'[serversMap'[i].state].netns = cntr'[idTable'[i]].netns
    BY <1>9 DEF StateSameNetns
  <2>1. CASE i = id
    BY <1>1, <1>3, <1>4, <1>5, <2>1, SMTT(30) DEF Joins
  <2>2. CASE i # id
    <3>1. serversMap'[i] = serversMap[i] /\ idTable'[i] = idTable[i]
      BY <1>5, <2>2
    <3>2. serversMap[i].state \in Objs \ {o}
      BY <1>2, <3>1, StatesAreStructs
    <3>3. cntr'[serversMap[i].state] = cntr[serversMap[i].state]
      BY <1>1, <3>2 DEF Joins
    <3> QED
      BY <1>6, <3>1, <3>3, SMTT(30) DEF SInv, StateSameNetns
  <2> QED
    BY <2>1, <2>2
<1> QED
  BY <1>5, <1>7, <1>8, <1>10, <1>11, SMTT(30) DEF SInv

(* The registration of a container completes.                               *)
LEMMA RegisterSInv ==
    ASSUME PInv, SInv, NEW id \in Ids, NEW n \in Netns, Register(id, n)
    PROVE  SInv'
<1>1. PICK o \in Objs : o = idTable[id]
  BY DEF Register, PInv, Types
<1> DEFINE netns == IF cntr[o].netns = NoNetns THEN n ELSE cntr[o].netns
<1>2. /\ o # NoObj /\ UNCHANGED <<idTable, mode>>
      /\ cntr' = [cntr EXCEPT ![o] = [Update(o) EXCEPT !.netns = netns, !.reg = TRUE]]
      /\ serversMap' = IF serversMap[id] = NoServer THEN serversMap
                       ELSE [serversMap EXCEPT ![id].reg = TRUE]
  BY <1>1, Zenon DEF Register
<1>3. /\ \A p \in Objs \ {o} : cntr'[p] = cntr[p]
      /\ cntr'[o].netns = netns /\ cntr'[o].reg = TRUE /\ cntr'[o].attrs = TRUE
  BY <1>2 DEF PInv, Types, Update, Cntr
<1>4. /\ \A i \in Ids \ {id} : serversMap'[i] = serversMap[i]
      /\ serversMap[id] = NoServer => serversMap'[id] = NoServer
      /\ serversMap[id] # NoServer =>
             /\ serversMap'[id] \in Server /\ serversMap'[id] # NoServer
             /\ serversMap'[id].state = serversMap[id].state /\ serversMap'[id].reg = TRUE
      /\ serversMap' \in [Ids -> Server \cup {NoServer}]
  <2>1. serversMap \in [Ids -> Server \cup {NoServer}]
    BY DEF SInv
  <2>2. CASE serversMap[id] = NoServer
    BY <1>2, <2>1, <2>2
  <2>3. CASE serversMap[id] # NoServer
    <3>1. serversMap[id] \in Server
      BY <2>1, <2>3
    <3>2. /\ [serversMap[id] EXCEPT !.reg = TRUE] \in Server
          /\ [serversMap[id] EXCEPT !.reg = TRUE].state = serversMap[id].state
          /\ [serversMap[id] EXCEPT !.reg = TRUE].reg = TRUE
      BY <3>1, ZenonT(30) DEF Server
    <3>3. serversMap' = [serversMap EXCEPT ![id] = [serversMap[id] EXCEPT !.reg = TRUE]]
      BY <1>2, <2>3
    <3> QED
      BY <2>1, <2>3, <3>2, <3>3, ContainerDBAssumption, ZenonT(30)
  <2> QED
    BY <2>2, <2>3, ZenonT(30)
<1>5. \A i \in Ids \ {id} : idTable[i] # o /\ (idTable[i] # NoObj => idTable[i] \in Objs)
  BY <1>1, <1>2 DEF PInv, Types, IdOwn
<1>6. \A p \in Objs : cntr'[p].reg => cntr'[p].attrs
  BY <1>3 DEF SInv
<1>7. ASSUME NEW i \in Ids, serversMap'[i] # NoServer, serversMap'[i].reg, idTable'[i] # NoObj,
             serversMap'[i].state = idTable'[i]
      PROVE  cntr'[idTable'[i]].attrs
  <2>1. CASE i = id
    BY <1>1, <1>2, <1>3, <2>1
  <2>2. CASE i # id
    BY <1>2, <1>3, <1>4, <1>5, <1>7, <2>2 DEF SInv
  <2> QED
    BY <2>1, <2>2
<1>8. Faults' = Faults
  BY <1>2 DEF Faults
<1>9. ServersExact'
  <2> SUFFICES ASSUME ~Faults, NEW i \in Ids
               PROVE  IF idTable'[i] = NoObj THEN serversMap'[i] = NoServer
                      ELSE /\ serversMap'[i] # NoServer /\ serversMap'[i].state # NoObj
                           /\ serversMap'[i].reg = cntr'[idTable'[i]].reg
    BY <1>8 DEF ServersExact
  <2>1. CASE i = id
    BY <1>1, <1>2, <1>3, <1>4, <2>1, ZenonT(30) DEF SInv, ServersExact
  <2>2. CASE i # id
    <3>1. serversMap'[i] = serversMap[i] /\ idTable'[i] = idTable[i]
      BY <1>2, <1>4, <2>2
    <3>2. idTable[i] # NoObj => cntr'[idTable[i]] = cntr[idTable[i]]
      BY <1>3, <1>5, <2>2
    <3> QED
      BY <3>1, <3>2 DEF SInv, ServersExact
  <2> QED
    BY <2>1, <2>2
<1>10. StateSameNetns'
  <2> SUFFICES ASSUME ~Faults, NEW i \in Ids, idTable'[i] # NoObj, serversMap'[i] # NoServer
               PROVE  \/ serversMap'[i].state = idTable'[i]
                      \/ /\ cntr'[serversMap'[i].state].netns # NoNetns
                         /\ cntr'[serversMap'[i].state].netns = cntr'[idTable'[i]].netns
    BY <1>8 DEF StateSameNetns
  <2>1. \A p \in Objs : cntr[p].netns # NoNetns => cntr'[p].netns = cntr[p].netns
    BY <1>3
  <2>2. /\ idTable'[i] = idTable[i] /\ idTable[i] \in Objs
        /\ serversMap'[i].state = serversMap[i].state /\ serversMap[i].state \in Objs
    BY <1>2, <1>4, StatesAreStructs
  <2>3. \/ serversMap[i].state = idTable[i]
        \/ /\ cntr[serversMap[i].state].netns # NoNetns
           /\ cntr[serversMap[i].state].netns = cntr[idTable[i]].netns
    BY <1>2, StatesAreStructs DEF SInv, StateSameNetns
  <2> QED
    BY <2>1, <2>2, <2>3
<1> QED
  BY <1>4, <1>6, <1>7, <1>9, <1>10 DEF SInv

(* The server goes with its container, unless a host call fails.            *)
LEMMA UnregisterSInv ==
    ASSUME PInv, SInv, NEW c \in Callers, Unregister(c)
    PROVE  SInv'
<1> DEFINE id == cntr[unreg[c]].id
<1>1. /\ unreg[c] # NoObj /\ idTable' = [idTable EXCEPT ![id] = NoObj]
      /\ DestroyFuseServer(id) /\ UNCHANGED <<cntr, mode>>
  BY DEF Unregister
<1>2. id \in Ids
  BY <1>1 DEF PInv, Types, Cntr
<1> HIDE DEF id
<1>3. /\ \A i \in Ids \ {id} : serversMap'[i] = serversMap[i] /\ idTable'[i] = idTable[i]
      /\ idTable'[id] = NoObj
      /\ ~Faults => serversMap'[id] = NoServer
      /\ serversMap' \in [Ids -> Server \cup {NoServer}]
  <2>1. serversMap \in [Ids -> Server \cup {NoServer}] /\ idTable \in [Ids -> Objs \cup {NoObj}]
    BY DEF SInv, PInv, Types
  <2>2. CASE \/ serversMap' = [serversMap EXCEPT ![id] = NoServer]
             \/ Faults /\ serversMap' = serversMap
    BY <1>1, <1>2, <2>1, <2>2
  <2>3. CASE Faults /\ serversMap[id] # NoServer
                    /\ serversMap' = [serversMap EXCEPT ![id].state = NoObj]
    <3>1. [serversMap[id] EXCEPT !.state = NoObj] \in Server
      BY <1>2, <2>1, <2>3 DEF Server
    <3> QED
      BY <1>1, <1>2, <2>1, <2>3, <3>1
  <2> QED
    BY <1>1, <2>2, <2>3 DEF DestroyFuseServer
<1>4. \A i \in Ids : serversMap'[i] # serversMap[i] \/ idTable'[i] # idTable[i] => i = id
  BY <1>3
<1>5. ServersExact'
  BY <1>1, <1>3 DEF SInv, ServersExact, Faults
<1>6. StateSameNetns'
  BY <1>1, <1>3 DEF SInv, StateSameNetns, Faults
<1>7. \A i \in Ids : ( /\ serversMap'[i] # NoServer /\ serversMap'[i].reg
                       /\ idTable'[i] # NoObj /\ serversMap'[i].state = idTable'[i] )
                         => cntr'[idTable'[i]].attrs
  BY <1>1, <1>3 DEF SInv
<1> QED
  BY <1>1, <1>3, <1>5, <1>6, <1>7 DEF SInv

LEMMA NextSInv == PInv /\ LInv /\ SInv /\ [Next]_vars => SInv'
<1> SUFFICES ASSUME PInv, LInv, SInv, [Next]_vars PROVE SInv'
  OBVIOUS
<1>1. ASSUME UNCHANGED <<idTable, serversMap, mode, cntr>> PROVE SInv'
  BY <1>1, TouchSInv
<1>2. ASSUME NEW id \in Ids, idTable[id] # NoObj, UNCHANGED <<idTable, serversMap, mode>>,
             \/ cntr' = [cntr EXCEPT ![idTable[id]].init = TRUE]
             \/ cntr' = [cntr EXCEPT ![idTable[id]].ctime = TRUE]
             \/ cntr' = [cntr EXCEPT ![idTable[id]] = Update(idTable[id])]
      PROVE  SInv'
  <2>1. idTable[id] \in Objs /\ cntr \in [Objs -> Cntr]
    BY <1>2 DEF PInv, Types
  <2>2. \A p \in Objs : /\ cntr'[p].netns = cntr[p].netns /\ cntr'[p].reg = cntr[p].reg
                        /\ cntr[p].attrs => cntr'[p].attrs
    <3>1. CASE cntr' = [cntr EXCEPT ![idTable[id]].init = TRUE]
      BY <2>1, <3>1 DEF Cntr
    <3>2. CASE cntr' = [cntr EXCEPT ![idTable[id]].ctime = TRUE]
      BY <2>1, <3>2 DEF Cntr
    <3>3. CASE cntr' = [cntr EXCEPT ![idTable[id]] = Update(idTable[id])]
      BY <2>1, <3>3 DEF Update, Cntr
    <3> QED
      BY <1>2, <3>1, <3>2, <3>3
  <2> QED
    BY <1>2, <2>2, TouchSInv
<1>3. ASSUME NEW id \in Ids,
             ContainerUpdate(id) \/ RegisterNoPidfd(id) \/ RegisterNoNetns(id)
      PROVE  SInv'
  BY <1>2, <1>3, Zenon DEF ContainerUpdate, RegisterNoPidfd, RegisterNoNetns
<1>4. ASSUME NEW id \in Ids, NEW c \in Callers, LookupUnregister(c, id) PROVE SInv'
  BY <1>1, <1>4 DEF LookupUnregister
<1>5. ASSUME NEW c \in Callers, UnregisterGone(c) PROVE SInv'
  BY <1>1, <1>5 DEF UnregisterGone
<1>6. CASE UNCHANGED vars
  BY <1>1, <1>6 DEF vars
<1> QED
  BY <1>3, <1>4, <1>5, <1>6, PreRegisterSInv, RegisterSInv, UnregisterSInv DEF Next

(* File operations change nothing of the container state service: with      *)
(* them, it still behaves as ContainerDB says.                              *)
LEMMA FileOpsLeaveService == NodeSpec => Spec
<1>1. NodeInit => Init
  BY DEF NodeInit
<1>2. [NodeNext]_<<vars, node>> => [Next]_vars
  BY DEF NodeNext, StateServiceStep, NodeLookup, AttrUid, AttrValid, Forget
<1> QED
  BY <1>1, <1>2, PTL DEF NodeSpec, Spec

(* The invariants of the container state service, under any file operations.*)
LEMMA ServiceInvariants == NodeSpec => [](PInv /\ LInv /\ SInv)
<1>1. Init => PInv /\ LInv /\ SInv
  BY InitPInv, InitLInv, InitSInv
<1>2. PInv /\ LInv /\ SInv /\ [Next]_vars => (PInv /\ LInv /\ SInv)'
  BY NextPInv, NextLInv, NextSInv
<1>3. Spec => [](PInv /\ LInv /\ SInv)
  BY <1>1, <1>2, PTL DEF Spec
<1> QED
  BY <1>3, FileOpsLeaveService, PTL

(* With any number of containers, whichever host calls fail and with file   *)
(* operations in between, the open init pidfds are those of the containers  *)
(* of idTable, one each, while the calls are those of sysbox-runc.          *)
THEOREM PidfdsExact == NodeSpec => []PidfdExact
  BY ServiceInvariants, PInvPidfd, PTL

(* While the calls are those of sysbox-runc, netnsTable lists each          *)
(* container of idTable once, under its own net-ns, and nothing else,       *)
(* whichever host calls fail.                                               *)
THEOREM ListsExact == NodeSpec => []NetnsExact
  BY ServiceInvariants, LInvLists, PTL

(* However the calls overlap, a container of idTable is in the list of its  *)
(* net-ns.                                                                  *)
THEOREM AlwaysListed == NodeSpec => []NetnsListed
  BY ServiceInvariants, LInvLists, PTL

(* While the host calls succeed, and however the calls overlap, a container *)
(* has a live fuse server just as long as it is in idTable, which knows of  *)
(* its registration.                                                        *)
THEOREM ServersFollow == NodeSpec => []ServersExact
<1>1. SInv => ServersExact
  BY DEF SInv
<1> QED
  BY <1>1, ServiceInvariants, PTL

(* While the host calls succeed, a fuse server uses the state of its own    *)
(* container or of one with the same net-ns.                                *)
THEOREM StatesOfNetns == NodeSpec => []StateSameNetns
<1>1. SInv => StateSameNetns
  BY DEF SInv
<1> QED
  BY <1>1, ServiceInvariants, PTL

(***************************************************************************)
(* The attributes of a node.                                                *)
(***************************************************************************)

Uid == {"none", "zero", "root"}

(* An Attr() that read uid 0 began before the registrations.                *)
NInv == node # NoNode =>
    /\ node \in [srv : Ids, uid : Uid, attr : Uid, after : BOOLEAN,
                 kept : [uid : Uid, after : BOOLEAN]]
    /\ node.attr = "zero" => ~node.after
    /\ node.kept.uid = "zero" => ~node.kept.after

LEMMA NextNInv == PInv /\ SInv /\ NInv /\ [NodeNext]_<<vars, node>> => NInv'
<1> SUFFICES ASSUME PInv, SInv, NInv, [NodeNext]_<<vars, node>> PROVE NInv'
  OBVIOUS
<1>1. CASE node' = node \/ node' = NoNode
  BY <1>1 DEF NInv
<1>2. ASSUME NEW id \in Ids, NEW uid \in {"zero", "root"}, NodeLookup(id, uid) PROVE NInv'
  BY <1>2 DEF NodeLookup, NInv, Uid, NotKept
<1>3. CASE AttrUid
  <2> DEFINE s == serversMap[node.srv].state
             attr == IF node.uid = "zero" THEN ContainerUID(node.srv) ELSE node.uid
             after == serversMap[node.srv].reg /\ (cntr[s].reg \/ s = idTable[node.srv])
  <2>1. /\ node # NoNode /\ node' = [node EXCEPT !.attr = attr, !.after = after]
        /\ serversMap[node.srv] # NoServer /\ s # NoObj
    BY <1>3 DEF AttrUid, Alive
  <2>2. node.srv \in Ids /\ node.uid \in Uid
    BY <2>1 DEF NInv
  <2>3. serversMap[node.srv] \in Server /\ s \in Objs /\ after \in BOOLEAN
    BY <2>1, <2>2 DEF SInv, Server
  <2>4. attr \in Uid /\ (attr = "zero" => ~cntr[s].attrs)
    BY <2>2 DEF ContainerUID, Uid
  <2>5. attr = "zero" => ~after
    BY <2>1, <2>2, <2>3, <2>4 DEF SInv
  <2> HIDE DEF attr, after
  <2> QED
    BY <2>1, <2>3, <2>4, <2>5, ZenonT(30) DEF NInv
<1>4. CASE AttrValid
  <2>1. /\ node # NoNode
        /\ node' = [node EXCEPT !.attr = "none", !.after = FALSE,
                                !.kept = IF serversMap[node.srv].reg
                                         THEN [uid |-> node.attr, after |-> node.after]
                                         ELSE NotKept]
    BY <1>4 DEF AttrValid
  <2> QED
    BY <2>1, ZenonT(30) DEF NInv, Uid, NotKept
<1> QED
  BY <1>1, <1>2, <1>3, <1>4 DEF NodeNext, StateServiceStep, Forget

(* Whatever calls and host failures come between the two halves of Attr(),  *)
(* the kernel never keeps uid 0 for ever from a getattr that began once the *)
(* containers were registered.                                              *)
THEOREM NoInterimAttrsKept == NodeSpec => []AttrCached
<1>1. NodeInit => NInv
  BY DEF NodeInit, NInv
<1>2. NInv => AttrCached
  BY DEF NInv, AttrCached
<1> QED
  BY <1>1, <1>2, NextNInv, ServiceInvariants, PTL DEF NodeSpec
=============================================================================
