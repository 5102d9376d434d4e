------------------------- MODULE SeccompSessionProofs -------------------------
(***************************************************************************)
(* Proof, for any sessions, containers, pids and descriptor numbers, that   *)
(* no handler uses a number that was closed and reused ('Proc-Exit'), that  *)
(* no descriptor outlives its session and container ('Proc-Exit'), that no  *)
(* session ends before its container's init ('Cntr-Exit'), and that no      *)
(* handler closes a number twice or one of another container (both).        *)
(***************************************************************************)
EXTENDS SeccompSession, WellFoundedInduction, TLAPS

(* The types, without what the notifications and polls hold.                *)
FdTypes == /\ contExit \in BOOLEAN
           /\ known \subseteq Cntrs
           /\ DOMAIN fdTable = Fds
           /\ fd \in [Sessions -> Fds \cup {NoFd}]
           /\ pidfd \in [Sessions -> Fds \cup {NoFd}]
           /\ toClose \in [Sessions -> SUBSET Fds]
           /\ cmap \subseteq Sessions
           /\ DOMAIN pc = Sessions

Fresh == {"pidfd", "add"}
Served == {"loop", "poll", "receive", "delete"}

(* A registered container's pidfd is open under its number.                 *)
InitOpen == \A c \in known : fdTable[InitPidFd[c]] = Proc(InitOf[c])

(* Who owns an open seccomp descriptor: a handler that has not ended, under *)
(* 'Cntr-Exit' until it is listed, then the container's list.               *)
FdOpen == \A s \in Sessions :
    (pc[s] \in Fresh \/ (~contExit /\ pc[s] \in Served) \/ s \in cmap)
        => fd[s] \in Fds /\ fdTable[fd[s]] = Scmp(s)

(* 'Proc-Exit': the handler's pidfd is its own, not a container's.          *)
PidfdOpen == ~contExit => \A s \in Sessions :
    (pc[s] \in Served \cup {"add"} /\ pidfd[s] # NoFd)
        => /\ fdTable[pidfd[s]] = Proc(s)
           /\ \A c \in known : pidfd[s] # InitPidFd[c]

(* What is about to be closed is still open, and left by its owner.         *)
ToCloseOpen == \A s \in Sessions : \A f \in toClose[s] :
    \/ /\ ~contExit /\ pc[s] = "close"
       /\ \/ fdTable[f] = Scmp(s)
          \/ fdTable[f] = Proc(s) /\ \A c \in known : f # InitPidFd[c]
    \/ /\ contExit
       /\ \E q \in Sessions \ cmap : /\ CntrOf[q] = CntrOf[s]
                                     /\ pc[q] \notin Fresh \cup {"none"}
                                     /\ fdTable[f] = Scmp(q)

(* No number waits to be closed by two handlers.                            *)
ToCloseOnce == \A s, q \in Sessions :
    s # q => toClose[s] \cap toClose[q] = {}

(* The list is of handlers past seccompSessionAdd(), and 'Cntr-Exit' only.  *)
ListedOnce == \A s \in cmap : contExit /\ pc[s] \notin Fresh \cup {"none"}

IInv == FdTypes /\ InitOpen /\ FdOpen /\ PidfdOpen /\ ToCloseOpen /\ ToCloseOnce /\ ListedOnce
-----------------------------------------------------------------------------
USE SeccompSessionAssumption DEF Goto, env, own, polled, tables

(* What a number can mean tells the owner.                                  *)
LEMMA Meanings ==
    /\ \A s, q : Scmp(s) = Scmp(q) => s = q
    /\ \A s, q : Proc(s) = Proc(q) => s = q
    /\ \A s, q : Scmp(s) # Proc(q)
    /\ \A s : Scmp(s) \notin {Free, Stdin} /\ Proc(s) \notin {Free, Stdin}
BY DEF Scmp, Proc, Free, Stdin

(* With room in the table, the number handed out is a free one: a nonempty  *)
(* set of numbers has a least one.                                          *)
LEMMA NewFdFree == Room => NewFd \in Fds /\ fdTable[NewFd] = Free
<1> DEFINE T == {f \in Fds : fdTable[f] = Free}
<1> SUFFICES ASSUME Room PROVE NewFd \in T
  OBVIOUS
<1>1. T \subseteq Nat /\ T # {}
  BY Zenon DEF Room
<1> HIDE DEF T
<1> DEFINE R == {ss \in Nat \X Nat : ss[1] < ss[2]}
<1>2. IsWellFoundedOn(R, Nat)
  BY NatLessThanWellFounded DEF OpToRel
<1>3. \E x \in T : \A y \in T : ~ (<<y, x>> \in R)
  <2> HIDE DEF R
  <2> QED
    BY <1>1, <1>2, WFMin, Zenon
<1>4. \E x \in T : \A y \in T : x =< y
  <2>1. PICK x \in T : \A y \in T : ~ (<<y, x>> \in R)
    BY <1>3
  <2>2. ASSUME NEW y \in T, y < x PROVE <<y, x>> \in R
    <3>1. <<y, x>> \in Nat \X Nat
      BY <1>1
    <3>2. <<y, x>>[1] < <<y, x>>[2]
      BY <2>2
    <3> QED
      BY <3>1, <3>2
  <2>3. \A y \in T : ~ (y < x)
    BY <2>1, <2>2, Zenon
  <2> QED
    BY <1>1, <2>3
<1>5. Min(T) \in T
  BY <1>4 DEF Min
<1> QED
  BY <1>5 DEF NewFd, T

LEMMA InitIInv == Init => IInv
<1> SUFFICES ASSUME Init PROVE IInv
  OBVIOUS
<1>1. InitOpen
  <2>1. ASSUME NEW c \in Cntrs
        PROVE  (CHOOSE d \in Cntrs : InitPidFd[d] = InitPidFd[c]) = c
    OBVIOUS
  <2> QED
    BY <2>1 DEF Init, InitOpen
<1> QED
  BY <1>1 DEF Init, IInv, FdTypes, FdOpen, PidfdOpen, ToCloseOpen, ToCloseOnce,
              ListedOnce, Fresh, Served, NoFd

LEMMA ConnectIInv ==
    ASSUME IInv, NEW s \in Sessions, Connect(s)
    PROVE  IInv'
<1>1. NewFd \in Fds /\ fdTable[NewFd] = Free
  BY NewFdFree DEF Connect
<1> DEFINE n == NewFd
<1>2. n \in Fds /\ fdTable[n] = Free /\ fdTable' = [fdTable EXCEPT ![n] = Scmp(s)]
      /\ fd' = [fd EXCEPT ![s] = n] /\ pc' = [pc EXCEPT ![s] = "pidfd"] /\ pc[s] = "none"
      /\ UNCHANGED <<contExit, known, pidfd, toClose, cmap>>
  BY <1>1 DEF Connect
<1> HIDE DEF n
<1>3. FdTypes' /\ InitOpen' /\ ListedOnce'
  BY <1>2, Meanings DEF IInv, FdTypes, InitOpen, ListedOnce, Fresh
<1>4. FdOpen'
  BY <1>2, Meanings DEF IInv, FdTypes, FdOpen, ListedOnce, Fresh, Served
<1>5. PidfdOpen'
  BY <1>2, Meanings DEF IInv, FdTypes, PidfdOpen, Served, NoFd
<1>6. ToCloseOpen' /\ ToCloseOnce'
  BY <1>2, Meanings DEF IInv, FdTypes, ToCloseOpen, ToCloseOnce, Fresh
<1> QED
  BY <1>3, <1>4, <1>5, <1>6 DEF IInv

LEMMA PidfdIInv ==
    ASSUME IInv, NEW s \in Sessions, Pidfd(s)
    PROVE  IInv'
<1> USE DEF Fresh, Served, NoFd
<1>1. /\ pc' = [pc EXCEPT ![s] = "add"] /\ pc[s] = "pidfd"
      /\ UNCHANGED <<contExit, known, fd, toClose, cmap>>
  BY DEF Pidfd
<1>2. CASE ~unusedNotif /\ ~contExit /\ s \in alive /\ Room
  <2>1. NewFd \in Fds /\ fdTable[NewFd] = Free
    BY <1>2, NewFdFree
  <2> DEFINE n == NewFd
  <2>2. /\ n \in Fds /\ fdTable[n] = Free /\ ~contExit
        /\ fdTable' = [fdTable EXCEPT ![n] = Proc(s)]
        /\ pidfd' = [pidfd EXCEPT ![s] = n]
    BY <1>2, <2>1 DEF Pidfd
  <2> HIDE DEF n
  <2>3. FdTypes' /\ InitOpen' /\ ListedOnce'
    BY <1>1, <2>2, Meanings DEF IInv, FdTypes, InitOpen, ListedOnce
  <2>4. FdOpen'
    BY <1>1, <2>2, Meanings DEF IInv, FdTypes, FdOpen
  <2>5. PidfdOpen'
    BY <1>1, <2>2, Meanings DEF IInv, FdTypes, PidfdOpen, InitOpen
  <2>6. ToCloseOpen' /\ ToCloseOnce'
    BY <1>1, <2>2, Meanings DEF IInv, FdTypes, ToCloseOpen, ToCloseOnce
  <2> QED
    BY <2>3, <2>4, <2>5, <2>6 DEF IInv
<1>3. CASE ~(~unusedNotif /\ ~contExit /\ s \in alive /\ Room)
  <2>1. /\ UNCHANGED fdTable
        /\ pidfd' = [pidfd EXCEPT ![s] = pidfd'[s]]
        /\ pidfd'[s] \in Fds \cup {NoFd}
        /\ ~contExit => pidfd'[s] = NoFd
    BY <1>3 DEF Pidfd, IInv, FdTypes
  <2>2. FdTypes' /\ InitOpen' /\ ListedOnce'
    BY <1>1, <2>1 DEF IInv, FdTypes, InitOpen, ListedOnce
  <2>3. FdOpen' /\ PidfdOpen'
    BY <1>1, <2>1 DEF IInv, FdTypes, FdOpen, PidfdOpen
  <2>4. ToCloseOpen' /\ ToCloseOnce'
    BY <1>1, <2>1 DEF IInv, FdTypes, ToCloseOpen, ToCloseOnce
  <2> QED
    BY <2>2, <2>3, <2>4 DEF IInv
<1> QED
  BY <1>2, <1>3

LEMMA AddIInv ==
    ASSUME IInv, NEW s \in Sessions, Add(s)
    PROVE  IInv'
<1> USE DEF Fresh, Served, NoFd
<1>1. /\ pc' = [pc EXCEPT ![s] = "loop"] /\ pc[s] = "add"
      /\ cmap' \in {cmap, cmap \cup {s}} /\ (~contExit => cmap' = cmap)
      /\ UNCHANGED <<contExit, known, fdTable, fd, pidfd, toClose>>
  BY DEF Add
<1>2. FdTypes' /\ InitOpen'
  BY <1>1 DEF IInv, FdTypes, InitOpen
<1>3. FdOpen' /\ PidfdOpen' /\ ListedOnce'
  BY <1>1 DEF IInv, FdTypes, FdOpen, PidfdOpen, ListedOnce
<1>4. ToCloseOpen' /\ ToCloseOnce'
  BY <1>1 DEF IInv, FdTypes, ToCloseOpen, ToCloseOnce
<1> QED
  BY <1>2, <1>3, <1>4 DEF IInv

(* The steps of the loop, and the return, only move the handler on.         *)
LEMMA MoveIInv ==
    ASSUME IInv, NEW s \in Sessions, NEW step,
           \/ pc[s] \in Served /\ step \in Served
           \/ pc[s] = "close" /\ toClose[s] = {} /\ step = "done",
           pc' = [pc EXCEPT ![s] = step],
           UNCHANGED <<contExit, known, fdTable, fd, pidfd, toClose, cmap>>
    PROVE  IInv'
<1> USE DEF Fresh, Served, NoFd
<1>1. FdTypes' /\ InitOpen' /\ ToCloseOnce'
  BY DEF IInv, FdTypes, InitOpen, ToCloseOnce
<1>2. FdOpen' /\ PidfdOpen' /\ ListedOnce'
  BY DEF IInv, FdTypes, FdOpen, PidfdOpen, ListedOnce
<1>3. ToCloseOpen'
  BY DEF IInv, FdTypes, ToCloseOpen
<1> QED
  BY <1>1, <1>2, <1>3 DEF IInv

(* 'Proc-Exit': the handler's own two numbers; 'Cntr-Exit': the listed ones,*)
(* which leave the list.                                                    *)
LEMMA DeleteIInv ==
    ASSUME IInv, NEW s \in Sessions, Delete(s)
    PROVE  IInv'
<1> USE DEF Fresh, Served, NoFd
<1>1. /\ pc' = [pc EXCEPT ![s] = "close"] /\ pc[s] = "delete"
      /\ UNCHANGED <<contExit, known, fdTable, fd, pidfd>>
  BY DEF Delete, DeleteWith
<1>2. CASE ~contExit
  <2>1. toClose' = [toClose EXCEPT ![s] = Own(s)] /\ cmap' = cmap
    BY <1>2 DEF Delete, DeleteWith
  <2>2. \A f \in Own(s) :
            /\ f \in Fds
            /\ \/ fdTable[f] = Scmp(s)
               \/ fdTable[f] = Proc(s) /\ \A c \in known : f # InitPidFd[c]
    BY <1>1, <1>2 DEF Own, IInv, FdTypes, FdOpen, PidfdOpen
  <2> HIDE DEF Own
  <2>3. FdTypes' /\ InitOpen'
    BY <1>1, <2>1, <2>2 DEF IInv, FdTypes, InitOpen
  <2>4. FdOpen' /\ PidfdOpen' /\ ListedOnce'
    BY <1>1, <1>2, <2>1 DEF IInv, FdTypes, FdOpen, PidfdOpen, ListedOnce
  <2>5. ToCloseOpen'
    BY <1>1, <1>2, <2>1, <2>2 DEF IInv, FdTypes, ToCloseOpen
  <2>6. ToCloseOnce'
    <3>1. ASSUME NEW t \in Sessions, t # s, NEW f \in toClose[t] PROVE f \notin Own(s)
      BY <1>2, <2>2, <3>1, Meanings DEF IInv, ToCloseOpen
    <3> QED
      BY <2>1, <3>1, Zenon DEF IInv, FdTypes, ToCloseOnce
  <2> QED
    BY <2>3, <2>4, <2>5, <2>6 DEF IInv
<1>3. CASE contExit
  <2> DEFINE L == IF EndsAll(s) THEN Listed(s) ELSE {}
  <2>1. /\ toClose' = [toClose EXCEPT ![s] = {fd[q] : q \in L}]
        /\ cmap' = cmap \ L
    BY <1>3 DEF Delete, DeleteWith
  <2>2. L \subseteq cmap /\ \A q \in L : CntrOf[q] = CntrOf[s]
    BY DEF Listed
  <2> HIDE DEF L
  <2>3. \A q \in L : fd[q] \in Fds /\ fdTable[fd[q]] = Scmp(q) /\ q \in Sessions
    BY <2>2 DEF IInv, FdTypes, FdOpen
  <2>4. FdTypes' /\ InitOpen'
    <3>1. {fd[q] : q \in L} \in SUBSET Fds
      BY <2>3
    <3> QED
      BY <1>1, <2>1, <3>1 DEF IInv, FdTypes, InitOpen
  <2>5. FdOpen' /\ PidfdOpen' /\ ListedOnce'
    BY <1>1, <1>3, <2>1, <2>2 DEF IInv, FdTypes, FdOpen, PidfdOpen, ListedOnce
  <2>6. ASSUME NEW t \in Sessions, NEW f \in toClose'[t]
        PROVE  \E q \in Sessions \ cmap' : /\ CntrOf[q] = CntrOf[t]
                                            /\ pc'[q] \notin Fresh \cup {"none"}
                                            /\ fdTable'[f] = Scmp(q)
    <3>1. CASE t = s
      <4>1. PICK q \in L : f = fd[q]
        BY <2>1, <2>6, <3>1 DEF IInv, FdTypes
      <4>2. pc[q] \notin Fresh \cup {"none"}
        BY <2>2 DEF IInv, ListedOnce
      <4> QED
        BY <1>1, <2>1, <2>2, <2>3, <3>1, <4>1, <4>2 DEF IInv, FdTypes
    <3>2. CASE t # s
      BY <1>1, <1>3, <2>1, <2>6, <3>2 DEF IInv, FdTypes, ToCloseOpen
    <3> QED
      BY <3>1, <3>2
  <2>7. ToCloseOpen'
    BY <1>1, <1>3, <2>6 DEF ToCloseOpen
  <2>8. ASSUME NEW t \in Sessions, t # s, NEW f \in toClose[t] PROVE f \notin toClose'[s]
    BY <1>3, <2>1, <2>2, <2>3, <2>8, Meanings DEF IInv, FdTypes, ToCloseOpen
  <2>9. ToCloseOnce'
    BY <2>1, <2>8, Zenon DEF IInv, FdTypes, ToCloseOnce
  <2> QED
    BY <2>4, <2>5, <2>7, <2>9 DEF IInv
<1> QED
  BY <1>2, <1>3

(* A number that is closed has the owner it says, so no other handler, list *)
(* or container has it.                                                     *)
LEMMA CloseIInv ==
    ASSUME IInv, NEW s \in Sessions, Close(s)
    PROVE  IInv'
<1> USE DEF Fresh, Served, NoFd
<1>1. PICK f \in toClose[s] : /\ fdTable' = [fdTable EXCEPT ![f] = Free]
                              /\ toClose' = [toClose EXCEPT ![s] = @ \ {f}]
  BY Zenon DEF Close
<1>2. /\ pc[s] = "close" /\ f \in Fds
      /\ UNCHANGED <<contExit, known, pc, fd, pidfd, cmap>>
  BY DEF Close, IInv, FdTypes
<1>3. \/ ~contExit /\ fdTable[f] = Scmp(s)
      \/ ~contExit /\ fdTable[f] = Proc(s) /\ \A c \in known : f # InitPidFd[c]
      \/ contExit /\ \E q \in Sessions \ cmap : /\ pc[q] \notin Fresh
                                                 /\ fdTable[f] = Scmp(q)
  BY DEF IInv, ToCloseOpen
<1>4. FdTypes' /\ ListedOnce'
  BY <1>1, <1>2 DEF IInv, FdTypes, ListedOnce
<1>5. InitOpen'
  BY <1>1, <1>2, <1>3, Meanings DEF IInv, FdTypes, InitOpen
<1>6. FdOpen'
  <2>1. ASSUME NEW q \in Sessions,
               pc[q] \in Fresh \/ (~contExit /\ pc[q] \in Served) \/ q \in cmap
        PROVE  fd[q] # f
    BY <1>2, <1>3, <2>1, Meanings DEF IInv, FdOpen, ListedOnce
  <2> QED
    BY <1>1, <1>2, <2>1 DEF IInv, FdTypes, FdOpen
<1>7. PidfdOpen'
  BY <1>1, <1>2, <1>3, Meanings DEF IInv, FdTypes, PidfdOpen
<1>8. ASSUME NEW t \in Sessions, NEW g \in toClose'[t]
      PROVE  g \in toClose[t] /\ fdTable'[g] = fdTable[g]
  BY <1>1, <1>2, <1>8 DEF IInv, FdTypes, ToCloseOnce
<1>9. ToCloseOpen'
  BY <1>2, <1>8 DEF IInv, ToCloseOpen
<1>10. ToCloseOnce'
  BY <1>8 DEF IInv, ToCloseOnce
<1> QED
  BY <1>4, <1>5, <1>6, <1>7, <1>9, <1>10 DEF IInv

LEMMA UnregisterIInv ==
    ASSUME IInv, NEW c \in Cntrs, Unregister(c)
    PROVE  IInv'
<1> USE DEF Fresh, Served, NoFd
<1>1. /\ c \in known /\ known' = known \ {c}
      /\ fdTable' = [fdTable EXCEPT ![InitPidFd[c]] = Free]
      /\ fdTable[InitPidFd[c]] = Proc(InitOf[c])
      /\ UNCHANGED <<contExit, pc, fd, pidfd, toClose, cmap>>
  BY DEF Unregister, IInv, InitOpen
<1>2. FdTypes' /\ InitOpen' /\ ListedOnce' /\ ToCloseOnce'
  BY <1>1 DEF IInv, FdTypes, InitOpen, ListedOnce, ToCloseOnce
<1>3. FdOpen'
  BY <1>1, Meanings DEF IInv, FdTypes, FdOpen
<1>4. PidfdOpen'
  BY <1>1 DEF IInv, FdTypes, PidfdOpen
<1>5. ToCloseOpen'
  BY <1>1, Meanings DEF IInv, FdTypes, ToCloseOpen
<1> QED
  BY <1>2, <1>3, <1>4, <1>5 DEF IInv

LEMMA HandlerIInv ==
    ASSUME IInv, NEW s \in Sessions, Handler(s)
    PROVE  IInv'
<1>1. CASE PollBlocks(s)
  BY <1>1, MoveIInv, Zenon DEF PollBlocks, Served
<1>2. CASE PollNotif(s)
  BY <1>2, MoveIInv, Zenon DEF PollNotif, PollReturns, Served
<1>3. CASE PollEnd(s)
  BY <1>3, MoveIInv, Zenon DEF PollEnd, PollReturns, Served
<1>4. CASE Receive(s)
  BY <1>4, MoveIInv, Zenon DEF Receive, Served
<1>5. CASE Return(s)
  BY <1>5, MoveIInv, Zenon DEF Return
<1> QED
  BY <1>1, <1>2, <1>3, <1>4, <1>5, PidfdIInv, AddIInv, DeleteIInv, CloseIInv DEF Handler

LEMMA StutterIInv ==
    ASSUME IInv, UNCHANGED <<contExit, known, fdTable, pc, own, toClose, cmap>>
    PROVE  IInv'
BY DEF IInv, FdTypes, InitOpen, FdOpen, PidfdOpen, ToCloseOpen, ToCloseOnce, ListedOnce

(* The invariant that the two theorems below rest on.                       *)
THEOREM Inductive == Spec => []IInv
<1>1. IInv /\ [Next]_vars => IInv'
  <2> SUFFICES ASSUME IInv, [Next]_vars PROVE IInv'
    OBVIOUS
  <2>1. ASSUME NEW s \in Sessions, Trap(s) \/ Exit(s) PROVE IInv'
    BY <2>1, StutterIInv DEF Trap, Exit
  <2>2. CASE UNCHANGED vars
    BY <2>2, StutterIInv DEF vars
  <2> QED
    BY <2>1, <2>2, ConnectIInv, HandlerIInv, UnregisterIInv DEF Next, AllOver
<1> QED
  BY <1>1, InitIInv, PTL DEF Spec

(* Under 'Proc-Exit' every poll() and every NotifReceive() of a handler is  *)
(* on the seccomp descriptor it was given, however many sessions come, go   *)
(* and reuse numbers.                                                       *)
THEOREM HandlersUseOwn == Spec => []FdStillOwn
<1>1. IInv => FdStillOwn
  BY DEF IInv, FdOpen, FdStillOwn, Fresh, Served
<1> QED
  BY <1>1, Inductive, PTL

(* Under both policies, whatever a handler is still to close is open and    *)
(* belongs to its container, so nothing is closed twice and no other        *)
(* container's session is cut off.                                          *)
THEOREM HandlersCloseOwn == Spec => []ClosesOwn
<1>1. IInv => ClosesOwn
  BY DEF IInv, ToCloseOpen, ClosesOwn
<1> QED
  BY <1>1, Inductive, PTL
-----------------------------------------------------------------------------
(* What keeps the sessions of a container open while its init lives: it is  *)
(* registered, no other session has the pid of its init, the handler of its *)
(* init goes on, all handlers watch the init, and none has anything to      *)
(* close.                                                                   *)
InitLives(s) == InitOf[CntrOf[s]] \in alive

Registered == \A c \in Cntrs : InitOf[c] \in alive => c \in known
InitPid == \A s \in Sessions :
    pc[s] # "none" /\ PidOf[s] = PidOf[InitOf[CntrOf[s]]] => s = InitOf[CntrOf[s]]
InitServed == \A s \in Sessions :
    s = InitOf[CntrOf[s]] /\ s \in alive => pc[s] \notin {"delete", "close", "done"}
WatchesInit == \A s \in Sessions :
    ~unusedNotif /\ InitLives(s) /\ pc[s] \notin {"none", "pidfd"}
        => pidfd[s] = InitPidFd[CntrOf[s]]
NoneToClose == \A s \in Sessions : InitLives(s) => toClose[s] = {}
Kept == \A s \in Sessions :
    InitLives(s) /\ pc[s] # "none" => fd[s] \in Fds /\ fdTable[fd[s]] = Scmp(s)

KInv == /\ alive \subseteq Sessions
        /\ contExit => /\ Registered /\ InitPid /\ InitServed
                        /\ WatchesInit /\ NoneToClose /\ Kept

LEMMA InitKInv == Init => KInv
BY DEF Init, KInv, Registered, InitPid, InitServed, WatchesInit, NoneToClose, Kept, InitLives

LEMMA ConnectKInv ==
    ASSUME IInv, KInv, contExit, NEW s \in Sessions, Connect(s)
    PROVE  KInv'
<1>1. NewFd \in Fds /\ fdTable[NewFd] = Free
  BY NewFdFree DEF Connect
<1> DEFINE n == NewFd
<1>2. /\ n \in Fds /\ fdTable[n] = Free /\ fdTable' = [fdTable EXCEPT ![n] = Scmp(s)]
      /\ fd' = [fd EXCEPT ![s] = n] /\ pc' = [pc EXCEPT ![s] = "pidfd"] /\ pc[s] = "none"
      /\ InitLives(s) /\ alive' = alive \cup {s}
      /\ \A q \in alive \ {s} : PidOf[q] # PidOf[s]
      /\ UNCHANGED <<contExit, unusedNotif, known, pidfd, toClose>>
  BY <1>1 DEF Connect, InitLives
<1> HIDE DEF n
<1>3. \A q \in Sessions : InitLives(q)' => InitLives(q)
  BY <1>2 DEF InitLives
<1>4. alive' \subseteq Sessions /\ Registered' /\ InitPid' /\ InitServed'
  BY <1>2 DEF IInv, FdTypes, KInv, Registered, InitPid, InitServed, InitLives
<1>5. WatchesInit' /\ NoneToClose'
  BY <1>2, <1>3 DEF IInv, FdTypes, KInv, WatchesInit, NoneToClose
<1>6. Kept'
  BY <1>2, <1>3, Meanings DEF IInv, FdTypes, KInv, Kept
<1> QED
  BY <1>4, <1>5, <1>6 DEF KInv

LEMMA PidfdKInv ==
    ASSUME IInv, KInv, contExit, NEW s \in Sessions, Pidfd(s)
    PROVE  KInv'
<1>1. /\ pc' = [pc EXCEPT ![s] = "add"] /\ pc[s] = "pidfd"
      /\ pidfd' = [pidfd EXCEPT ![s] = IF ~unusedNotif /\ CntrOf[s] \in known
                                       THEN InitPidFd[CntrOf[s]] ELSE NoFd]
      /\ UNCHANGED <<contExit, unusedNotif, alive, known, fd, fdTable, toClose>>
  BY DEF Pidfd
<1>2. WatchesInit'
  BY <1>1 DEF IInv, FdTypes, KInv, WatchesInit, Registered, InitLives
<1> QED
  BY <1>1, <1>2 DEF IInv, FdTypes, KInv, Registered, InitPid, InitServed, NoneToClose,
                    Kept, InitLives

(* A step that moves a handler on, not to its end while its init lives.     *)
LEMMA MoveKInv ==
    ASSUME IInv, KInv, contExit, NEW s \in Sessions, NEW step,
           pc[s] \notin {"none", "pidfd"}, step \notin {"none", "pidfd"},
           s = InitOf[CntrOf[s]] /\ s \in alive => step \notin {"delete", "close", "done"},
           pc' = [pc EXCEPT ![s] = step],
           UNCHANGED <<env, own, fdTable, toClose>>
    PROVE  KInv'
BY DEF IInv, FdTypes, KInv, Registered, InitPid, InitServed, WatchesInit, NoneToClose, Kept,
       InitLives

(* The poll of an init's handler does not report an end while init lives.   *)
LEMMA InitPolls ==
    ASSUME IInv, KInv, contExit, NEW s \in Sessions, s = InitOf[CntrOf[s]], s \in alive,
           pc[s] \in {"loop", "poll"}, Found(s), PidIn(s) \/ ~NotifIn(s)
    PROVE  FALSE
<1>1. fdTable[fd[s]] = Scmp(s)
  BY DEF KInv, Kept, InitLives
<1>2. ~unusedNotif => Means(pidfd[s]) = Proc(s)
  <2>1. CntrOf[s] \in known
    BY DEF KInv, Registered
  <2>2. ~unusedNotif => pidfd[s] = InitPidFd[CntrOf[s]]
    BY DEF KInv, WatchesInit, InitLives
  <2> QED
    BY <2>1, <2>2 DEF IInv, InitOpen, Means, NoFd
<1>3. ~unusedNotif => ~Event(Means(pidfd[s])) /\ Means(pidfd[s]) # Stdin
  BY <1>2, Meanings DEF Event
<1>4. ~PidIn(s)
  BY <1>2, <1>3, Meanings DEF PidIn
<1>5. Event(Scmp(s)) => NotifIn(s)
  BY <1>1, Meanings DEF Event, NotifIn
<1> QED
  BY <1>1, <1>3, <1>4, <1>5 DEF Found

(* Only the end of the init, or of the container, gives a handler numbers   *)
(* to close.                                                                *)
LEMMA DeleteKInv ==
    ASSUME IInv, KInv, contExit, NEW s \in Sessions, Delete(s)
    PROVE  KInv'
<1>1. /\ pc' = [pc EXCEPT ![s] = "close"] /\ pc[s] = "delete"
      /\ toClose' = [toClose EXCEPT ![s] = toClose'[s]]
      /\ ~EndsAll(s) => toClose'[s] = {}
      /\ UNCHANGED <<env, own, fdTable>>
  BY SMTT(30) DEF Delete, DeleteWith, IInv, FdTypes
<1>2. InitLives(s) => s # InitOf[CntrOf[s]]
  BY <1>1 DEF KInv, InitServed, InitLives
<1>3. InitLives(s) => ~EndsAll(s)
  BY <1>1, <1>2 DEF EndsAll, KInv, Registered, InitPid, InitLives
<1>4. NoneToClose'
  BY <1>1, <1>3 DEF IInv, FdTypes, KInv, NoneToClose, InitLives
<1> QED
  BY <1>1, <1>2, <1>4 DEF IInv, FdTypes, KInv, Registered, InitPid, InitServed, WatchesInit,
                          Kept, InitLives

LEMMA CloseKInv ==
    ASSUME IInv, KInv, contExit, NEW s \in Sessions, Close(s)
    PROVE  KInv'
<1>1. PICK f \in toClose[s] : /\ fdTable' = [fdTable EXCEPT ![f] = Free]
                              /\ toClose' = [toClose EXCEPT ![s] = @ \ {f}]
  BY Zenon DEF Close
<1>2. f \in Fds /\ UNCHANGED <<env, own, pc>>
  BY DEF Close, IInv, FdTypes
<1>3. ASSUME NEW q \in Sessions, InitLives(q), pc[q] # "none" PROVE fd[q] # f
  <2>1. PICK r \in Sessions : CntrOf[r] = CntrOf[s] /\ fdTable[f] = Scmp(r)
    BY DEF IInv, ToCloseOpen
  <2>2. CntrOf[q] # CntrOf[s]
    BY <1>3 DEF KInv, NoneToClose, InitLives
  <2> QED
    BY <1>3, <2>1, <2>2, Meanings DEF KInv, Kept
<1>4. Kept'
  BY <1>1, <1>2, <1>3 DEF IInv, FdTypes, KInv, Kept, InitLives
<1> QED
  BY <1>1, <1>2, <1>4 DEF IInv, FdTypes, KInv, Registered, InitPid, InitServed, WatchesInit,
                          NoneToClose, InitLives

LEMMA UnregisterKInv ==
    ASSUME IInv, KInv, contExit, NEW c \in Cntrs, Unregister(c)
    PROVE  KInv'
<1>1. /\ known' = known \ {c} /\ InitOf[c] \notin alive
      /\ fdTable' = [fdTable EXCEPT ![InitPidFd[c]] = Free]
      /\ fdTable[InitPidFd[c]] = Proc(InitOf[c])
      /\ UNCHANGED <<contExit, unusedNotif, alive, own, pc, toClose>>
  BY DEF Unregister, IInv, InitOpen
<1>2. Kept'
  BY <1>1, Meanings DEF IInv, FdTypes, KInv, Kept, InitLives
<1> QED
  BY <1>1, <1>2 DEF KInv, Registered, InitPid, InitServed, WatchesInit, NoneToClose, InitLives

LEMMA HandlerKInv ==
    ASSUME IInv, KInv, contExit, NEW s \in Sessions, Handler(s)
    PROVE  KInv'
<1>1. CASE Add(s)
  BY <1>1, MoveKInv, Zenon DEF Add
<1>2. CASE PollBlocks(s)
  BY <1>2, MoveKInv, Zenon DEF PollBlocks
<1>3. CASE PollNotif(s)
  BY <1>3, MoveKInv, Zenon DEF PollNotif, PollReturns
<1>4. CASE PollEnd(s)
  <2>1. ~ (s = InitOf[CntrOf[s]] /\ s \in alive)
    BY <1>4, InitPolls DEF PollEnd, PollReturns
  <2> QED
    BY <1>4, <2>1, MoveKInv, Zenon DEF PollEnd, PollReturns
<1>5. CASE Receive(s)
  BY <1>5, MoveKInv, Zenon DEF Receive
<1>6. CASE Return(s)
  <2>1. ~ (s = InitOf[CntrOf[s]] /\ s \in alive)
    BY <1>6 DEF Return, KInv, InitServed
  <2> QED
    BY <1>6, <2>1, MoveKInv, Zenon DEF Return
<1> QED
  BY <1>1, <1>2, <1>3, <1>4, <1>5, <1>6, PidfdKInv, DeleteKInv, CloseKInv DEF Handler

(* Processes that end, and steps that leave all of this alone.              *)
LEMMA FewerAliveKInv ==
    ASSUME KInv, alive' \subseteq alive,
           UNCHANGED <<contExit, unusedNotif, known, fdTable, pc, own, toClose>>
    PROVE  KInv'
BY DEF KInv, Registered, InitPid, InitServed, WatchesInit, NoneToClose, Kept, InitLives

LEMMA NextKInv ==
    ASSUME IInv, KInv, [Next]_vars
    PROVE  KInv'
<1>1. CASE ~contExit
  <2>1. ~contExit'
    BY <1>1, Zenon DEF Next, vars, AllOver, Connect, Handler, Pidfd, Add, PollBlocks, PollNotif,
                       PollEnd, Receive, Delete, DeleteWith, Close, Return, Trap, Exit, Unregister
  <2>2. alive' \subseteq Sessions
    <3>1. ASSUME NEW s \in Sessions, Connect(s) \/ Exit(s) PROVE alive' \subseteq Sessions
      BY <3>1 DEF KInv, Connect, Exit
    <3>2. CASE ~\E s \in Sessions : Connect(s) \/ Exit(s)
      <4>1. alive' = alive
        BY <3>2, Zenon DEF Next, vars, AllOver, Handler, Pidfd, Add, PollBlocks, PollNotif,
                           PollEnd, Receive, Delete, DeleteWith, Close, Return, Trap, Unregister
      <4> QED
        BY <4>1 DEF KInv
    <3> QED
      BY <3>1, <3>2
  <2> QED
    BY <2>1, <2>2 DEF KInv
<1>2. CASE contExit
  <2>1. ASSUME NEW s \in Sessions, Trap(s) \/ Exit(s) PROVE KInv'
    BY <2>1, FewerAliveKInv, Zenon DEF Trap, Exit
  <2>2. CASE UNCHANGED vars
    BY <2>2, FewerAliveKInv DEF vars
  <2> QED
    BY <1>2, <2>1, <2>2, ConnectKInv, HandlerKInv, UnregisterKInv DEF Next, AllOver
<1> QED
  BY <1>1, <1>2

(* Under 'Cntr-Exit' the descriptor of every session, its process gone or   *)
(* not and its pid used again or not, is open while the container's init    *)
(* process lives.                                                           *)
THEOREM SessionsKept == Spec => []KeptUntilInitDies
<1>1. KInv => KeptUntilInitDies
  BY SMTT(30) DEF KInv, Kept, InitLives, KeptUntilInitDies
<1>2. IInv /\ KInv /\ [Next]_vars => KInv'
  BY NextKInv
<1> QED
  BY <1>1, <1>2, InitKInv, Inductive, PTL DEF Spec
-----------------------------------------------------------------------------
(* 'Proc-Exit', the other direction: an open descriptor has an owner that   *)
(* will close it, a handler that has not ended or a registered container.   *)
ScmpOwned == \A s \in Sessions, f \in Fds : fdTable[f] = Scmp(s) =>
    \/ pc[s] \in Fresh \cup Served /\ f = fd[s]
    \/ pc[s] = "close" /\ f \in toClose[s]
ProcOwned == \A s \in Sessions, f \in Fds : fdTable[f] = Proc(s) =>
    \/ \E c \in known : f = InitPidFd[c] /\ s = InitOf[c]
    \/ pc[s] \in Served \cup {"add"} /\ f = pidfd[s]
    \/ pc[s] = "close" /\ f \in toClose[s]

RInv == ~contExit => ScmpOwned /\ ProcOwned

LEMMA InitRInv == Init => RInv
<1> SUFFICES ASSUME Init PROVE ScmpOwned /\ ProcOwned
  BY DEF RInv
<1>1. ASSUME NEW f \in Fds, fdTable[f] # Free
      PROVE  \E c \in known : f = InitPidFd[c] /\ fdTable[f] = Proc(InitOf[c])
  BY <1>1 DEF Init
<1> QED
  BY <1>1, Meanings DEF ScmpOwned, ProcOwned, Init

LEMMA ConnectRInv ==
    ASSUME IInv, RInv, ~contExit, NEW s \in Sessions, Connect(s)
    PROVE  RInv'
<1>1. NewFd \in Fds /\ fdTable[NewFd] = Free
  BY NewFdFree DEF Connect
<1> DEFINE n == NewFd
<1>2. /\ n \in Fds /\ fdTable[n] = Free /\ fdTable' = [fdTable EXCEPT ![n] = Scmp(s)]
      /\ fd' = [fd EXCEPT ![s] = n] /\ pc' = [pc EXCEPT ![s] = "pidfd"] /\ pc[s] = "none"
      /\ UNCHANGED <<known, pidfd, toClose>>
  BY <1>1, SMTT(30) DEF Connect
<1> HIDE DEF n
<1>3. ScmpOwned'
  BY <1>2, Meanings DEF IInv, FdTypes, RInv, ScmpOwned, Fresh, Served
<1>4. ProcOwned'
  BY <1>2, Meanings DEF IInv, FdTypes, RInv, ProcOwned, Served
<1> QED
  BY <1>3, <1>4 DEF RInv

LEMMA PidfdRInv ==
    ASSUME IInv, RInv, ~contExit, NEW s \in Sessions, Pidfd(s)
    PROVE  RInv'
<1> USE DEF Fresh, Served
<1>1. /\ pc' = [pc EXCEPT ![s] = "add"] /\ pc[s] = "pidfd"
      /\ UNCHANGED <<known, fd, toClose>>
  BY DEF Pidfd
<1>2. CASE ~unusedNotif /\ s \in alive /\ Room
  <2>1. NewFd \in Fds /\ fdTable[NewFd] = Free
    BY <1>2, NewFdFree
  <2> DEFINE n == NewFd
  <2>2. /\ n \in Fds /\ fdTable[n] = Free /\ fdTable' = [fdTable EXCEPT ![n] = Proc(s)]
        /\ pidfd' = [pidfd EXCEPT ![s] = n]
    BY <1>2, <2>1 DEF Pidfd
  <2> HIDE DEF n
  <2>3. ScmpOwned'
    BY <1>1, <2>2, Meanings DEF IInv, FdTypes, RInv, ScmpOwned
  <2>4. ProcOwned'
    BY <1>1, <2>2, Meanings DEF IInv, FdTypes, RInv, ProcOwned
  <2> QED
    BY <2>3, <2>4 DEF RInv
<1>3. CASE ~(~unusedNotif /\ s \in alive /\ Room)
  <2>1. UNCHANGED fdTable /\ pidfd' = [pidfd EXCEPT ![s] = NoFd]
    BY <1>3, Zenon DEF Pidfd
  <2> QED
    BY <1>1, <2>1 DEF IInv, FdTypes, RInv, ScmpOwned, ProcOwned
<1> QED
  BY <1>2, <1>3

LEMMA MoveRInv ==
    ASSUME IInv, RInv, ~contExit, NEW s \in Sessions, NEW step,
           \/ pc[s] \in Served \cup {"add"} /\ step \in Served
           \/ pc[s] = "close" /\ toClose[s] = {} /\ step = "done",
           pc' = [pc EXCEPT ![s] = step],
           UNCHANGED <<known, fdTable, own, toClose>>
    PROVE  RInv'
BY DEF IInv, FdTypes, RInv, ScmpOwned, ProcOwned, Fresh, Served

LEMMA DeleteRInv ==
    ASSUME IInv, RInv, ~contExit, NEW s \in Sessions, Delete(s)
    PROVE  RInv'
<1>1. /\ pc' = [pc EXCEPT ![s] = "close"] /\ pc[s] = "delete"
      /\ toClose' = [toClose EXCEPT ![s] = Own(s)]
      /\ UNCHANGED <<known, fd, pidfd, fdTable>>
  BY DEF Delete, DeleteWith
<1>2. \A f \in Fds : f \in Own(s) <=> f \in {fd[s], pidfd[s]}
  BY DEF Own, NoFd
<1> QED
  BY <1>1, <1>2 DEF IInv, FdTypes, RInv, ScmpOwned, ProcOwned, Fresh, Served

LEMMA CloseRInv ==
    ASSUME IInv, RInv, ~contExit, NEW s \in Sessions, Close(s)
    PROVE  RInv'
<1>1. PICK f \in toClose[s] : /\ fdTable' = [fdTable EXCEPT ![f] = Free]
                              /\ toClose' = [toClose EXCEPT ![s] = @ \ {f}]
  BY Zenon DEF Close
<1>2. f \in Fds /\ UNCHANGED <<known, own, pc>>
  BY DEF Close, IInv, FdTypes
<1> QED
  BY <1>1, <1>2, Meanings DEF IInv, FdTypes, RInv, ScmpOwned, ProcOwned

LEMMA UnregisterRInv ==
    ASSUME IInv, RInv, ~contExit, NEW c \in Cntrs, Unregister(c)
    PROVE  RInv'
BY Meanings DEF Unregister, IInv, FdTypes, RInv, ScmpOwned, ProcOwned

LEMMA HandlerRInv ==
    ASSUME IInv, RInv, ~contExit, NEW s \in Sessions, Handler(s)
    PROVE  RInv'
<1> USE DEF Served
<1>1. CASE Add(s)
  BY <1>1, MoveRInv, Zenon DEF Add
<1>2. CASE PollBlocks(s)
  BY <1>2, MoveRInv, Zenon DEF PollBlocks
<1>3. CASE PollNotif(s)
  BY <1>3, MoveRInv, Zenon DEF PollNotif, PollReturns
<1>4. CASE PollEnd(s)
  BY <1>4, MoveRInv, Zenon DEF PollEnd, PollReturns
<1>5. CASE Receive(s)
  BY <1>5, MoveRInv, Zenon DEF Receive
<1>6. CASE Return(s)
  BY <1>6, MoveRInv, Zenon DEF Return
<1> QED
  BY <1>1, <1>2, <1>3, <1>4, <1>5, <1>6, PidfdRInv, DeleteRInv, CloseRInv DEF Handler

LEMMA NextRInv ==
    ASSUME IInv, RInv, [Next]_vars
    PROVE  RInv'
<1>1. CASE contExit
  BY <1>1, Zenon DEF RInv, Next, vars, AllOver, Connect, Handler, Pidfd, Add, PollBlocks,
            PollNotif, PollEnd,
              Receive, Delete, DeleteWith, Close, Return, Trap, Exit, Unregister
<1>2. CASE ~contExit
  <2>1. ASSUME UNCHANGED <<known, fdTable, pc, own, toClose>> PROVE RInv'
    BY <1>2, <2>1, Zenon DEF RInv, ScmpOwned, ProcOwned
  <2>2. ASSUME NEW s \in Sessions, Trap(s) \/ Exit(s) PROVE RInv'
    BY <2>1, <2>2, Zenon DEF Trap, Exit
  <2>3. CASE UNCHANGED vars
    BY <2>1, <2>3 DEF vars
  <2> QED
    BY <1>2, <2>2, <2>3, ConnectRInv, HandlerRInv, UnregisterRInv DEF Next, AllOver
<1> QED
  BY <1>1, <1>2

(* Under 'Proc-Exit', once a container is unregistered and its handlers     *)
(* have returned, sysbox-fs has no descriptor of any of its sessions or     *)
(* processes open.                                                          *)
THEOREM NothingLeaks == Spec => []FdsReleased
<1>1. IInv /\ RInv => FdsReleased
  <2> SUFFICES ASSUME IInv, RInv, ~contExit, NEW c \in Cntrs \ known,
                      \A s \in Sessions : CntrOf[s] = c => pc[s] \in {"none", "done"},
                      NEW s \in Sessions, CntrOf[s] = c, NEW f \in Fds
               PROVE  fdTable[f] # Scmp(s) /\ fdTable[f] # Proc(s)
    BY DEF FdsReleased
  <2>1. pc[s] \in {"none", "done"} /\ \A d \in Cntrs : s = InitOf[d] => d = c
    OBVIOUS
  <2>2. fdTable[f] # Scmp(s)
    BY <2>1 DEF RInv, ScmpOwned, Fresh, Served
  <2>3. fdTable[f] # Proc(s)
    BY <2>1 DEF IInv, FdTypes, RInv, ProcOwned, Served
  <2> QED
    BY <2>2, <2>3
<1>2. IInv /\ RInv /\ [Next]_vars => RInv'
  BY NextRInv
<1> QED
  BY <1>1, <1>2, InitRInv, Inductive, PTL DEF Spec
=============================================================================
