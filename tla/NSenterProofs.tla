---------------------------- MODULE NSenterProofs ----------------------------
(***************************************************************************)
(* Proofs, for any set of requests, nested or not and with any failures,    *)
(* that the reaper never takes the exit status a synchronous request waits  *)
(* for, and of what a synchronous request then returns.                     *)
(***************************************************************************)
EXTENDS NSenter, TLAPS

Locked == {"start", "config", "wait1", "decode", "wait2", "send", "response",
           "wait3", "end"}

(* A synchronous request holds the lock from nsenterStarted() to            *)
(* nsenterEnded(), so the reaper, alone when it calls wait4, meets no       *)
(* request that has children to wait for; a request without the lock has    *)
(* none yet.                                                                *)
LockHeld == \A r \in Requests \ Async :
                /\ pc[r] \in Locked => r \in readers
                /\ pc[r] \notin {"sent", "killed"}
LockFree == \A r \in Async : pc[r] \notin {"rlock", "rwait"}
Unstarted == \A r \in Requests : pc[r] \in {"idle", "rlock", "rwait", "start"} =>
                 \A k \in Kids : kid[r][k] = "none"
WriterAlone == rpc = "wait4" => readers = {}

IInv == TypeOK /\ SyncNotReaped /\ LockHeld /\ LockFree /\ Unstarted /\ WriterAlone

USE NSenterAssumption DEF Steps, ReaperSteps, KidStates, Kids, Goto, Becomes, vars

LEMMA InitIInv == Init => IInv
BY DEF Init, IInv, TypeOK, SyncNotReaped, LockHeld, LockFree, Unstarted, WriterAlone,
       Awaits, Locked

(* A request's own steps that leave its children alone.                     *)
LEMMA CallIInv ==
    ASSUME IInv, NEW r \in Requests, Call(r)
    PROVE  IInv'
BY DEF Call, IInv, TypeOK, SyncNotReaped, LockHeld, LockFree, Unstarted, WriterAlone,
       Awaits, Locked

LEMMA RLockIInv ==
    ASSUME IInv, NEW r \in Requests, RLock(r)
    PROVE  IInv'
BY DEF RLock, Writer, IInv, TypeOK, SyncNotReaped, LockHeld, LockFree, Unstarted,
       WriterAlone, Awaits, Locked

LEMMA PassIInv ==
    ASSUME IInv, NEW r \in Requests,
           Config(r) \/ Decode(r) \/ Send(r) \/ Response(r) \/ End(r)
    PROVE  IInv'
<1>1. CASE Config(r)
  BY <1>1 DEF Config, IInv, TypeOK, SyncNotReaped, LockHeld, LockFree,
              Unstarted, WriterAlone, Awaits, Locked
<1>2. CASE Decode(r)
  BY <1>2 DEF Decode, IInv, TypeOK, SyncNotReaped, LockHeld, LockFree,
              Unstarted, WriterAlone, Awaits, Locked
<1>3. CASE Send(r)
  <2>1. CASE r \in Async
    <3>1. pc' = [pc EXCEPT ![r] = "sent"] /\ ret' = [ret EXCEPT ![r] = "ok"]
      BY <1>3, <2>1 DEF Send
    <3> QED
      BY <1>3, <2>1, <3>1 DEF Send, IInv, TypeOK, SyncNotReaped, LockHeld, LockFree,
                              Unstarted, WriterAlone, Awaits, Locked
  <2>2. CASE r \notin Async
    <3>1. pc' = [pc EXCEPT ![r] = "response"] /\ ret' = ret
      BY <1>3, <2>2 DEF Send
    <3> QED
      BY <1>3, <2>2, <3>1 DEF Send, IInv, TypeOK, SyncNotReaped, LockHeld, LockFree,
                              Unstarted, WriterAlone, Awaits, Locked
  <2> QED
    BY <2>1, <2>2
<1>4. CASE Response(r)
  BY <1>4 DEF Response, IInv, TypeOK, SyncNotReaped, LockHeld, LockFree,
              Unstarted, WriterAlone, Awaits, Locked
<1>5. CASE End(r)
  BY <1>5 DEF End, IInv, TypeOK, SyncNotReaped, LockHeld, LockFree,
              Unstarted, WriterAlone, Awaits, Locked
<1> QED
  BY <1>1, <1>2, <1>3, <1>4, <1>5

LEMMA FailIInv ==
    ASSUME IInv, NEW r \in Requests,
           \/ StartFails(r) \/ ConfigFails(r) \/ DecodeFails(r) \/ SendFails(r)
           \/ ResponseFails(r)
    PROVE  IInv'
<1>1. CASE StartFails(r)
  BY <1>1 DEF StartFails, Fail, ReapReq, IInv, TypeOK, SyncNotReaped, LockHeld, LockFree,
              Unstarted, WriterAlone, Awaits, Locked
<1>2. CASE ConfigFails(r)
  BY <1>2 DEF ConfigFails, Fail, ReapReq, IInv, TypeOK, SyncNotReaped, LockHeld, LockFree,
              Unstarted, WriterAlone, Awaits, Locked
<1>3. CASE DecodeFails(r)
  BY <1>3 DEF DecodeFails, Fail, ReapReq, IInv, TypeOK, SyncNotReaped, LockHeld, LockFree,
              Unstarted, WriterAlone, Awaits, Locked
<1>4. CASE SendFails(r)
  BY <1>4 DEF SendFails, Fail, ReapReq, IInv, TypeOK, SyncNotReaped, LockHeld, LockFree,
              Unstarted, WriterAlone, Awaits, Locked
<1>5. CASE ResponseFails(r)
  BY <1>5 DEF ResponseFails, Fail, ReapReq, IInv, TypeOK, SyncNotReaped, LockHeld, LockFree,
              Unstarted, WriterAlone, Awaits, Locked
<1> QED
  BY <1>1, <1>2, <1>3, <1>4, <1>5

(* A request's own steps on its children.                                   *)
LEMMA StartIInv ==
    ASSUME IInv, NEW r \in Requests, Start(r)
    PROVE  IInv'
BY DEF Start, IInv, TypeOK, SyncNotReaped, LockHeld, LockFree, Unstarted, WriterAlone,
       Awaits, Locked

LEMMA WaitIInv ==
    ASSUME IInv, NEW r \in Requests, Wait1(r) \/ Wait2(r) \/ Wait3(r)
    PROVE  IInv'
<1>1. CASE Wait1(r)
  BY <1>1 DEF Wait1, IInv, TypeOK, SyncNotReaped, LockHeld, LockFree,
              Unstarted, WriterAlone, Awaits, Locked
<1>2. CASE Wait2(r)
  BY <1>2 DEF Wait2, IInv, TypeOK, SyncNotReaped, LockHeld, LockFree,
              Unstarted, WriterAlone, Awaits, Locked
<1>3. CASE Wait3(r)
  BY <1>3 DEF Wait3, IInv, TypeOK, SyncNotReaped, LockHeld, LockFree,
              Unstarted, WriterAlone, Awaits, Locked
<1> QED
  BY <1>1, <1>2, <1>3

LEMMA Wait1FailsIInv ==
    ASSUME IInv, NEW r \in Requests, Wait1Fails(r)
    PROVE  IInv'
BY DEF Wait1Fails, Fail, ReapReq, IInv, TypeOK, SyncNotReaped, LockHeld, LockFree,
       Unstarted, WriterAlone, Awaits, Locked

LEMMA KillIInv ==
    ASSUME IInv, NEW r \in Requests, Kill(r) \/ Killed(r)
    PROVE  IInv'
<1>1. CASE Kill(r)
  BY <1>1 DEF Kill, IInv, TypeOK, SyncNotReaped, LockHeld, LockFree,
              Unstarted, WriterAlone, Awaits, Locked
<1>2. CASE Killed(r)
  BY <1>2 DEF Killed, IInv, TypeOK, SyncNotReaped, LockHeld, LockFree,
              Unstarted, WriterAlone, Awaits, Locked
<1> QED
  BY <1>1, <1>2

(* Steps of the children: none of them makes a child disappear.             *)
LEMMA ChildrenIInv ==
    ASSUME IInv, NEW r \in Requests, Children(r)
    PROVE  IInv'
<1>1. CASE FirstForks(r)
  BY <1>1 DEF FirstForks, IInv, TypeOK, SyncNotReaped, LockHeld, LockFree,
              Unstarted, WriterAlone, Awaits, Locked
<1>2. CASE FirstDies(r)
  BY <1>2 DEF FirstDies, IInv, TypeOK, SyncNotReaped, LockHeld, LockFree,
              Unstarted, WriterAlone, Awaits, Locked
<1>3. CASE SecondExits(r)
  BY <1>3 DEF SecondExits, IInv, TypeOK, SyncNotReaped, LockHeld, LockFree,
              Unstarted, WriterAlone, Awaits, Locked
<1>4. CASE AgentExits(r)
  BY <1>4 DEF AgentExits, IInv, TypeOK, SyncNotReaped, LockHeld, LockFree,
              Unstarted, WriterAlone, Awaits, Locked
<1>5. CASE AgentDies(r)
  BY <1>5 DEF AgentDies, IInv, TypeOK, SyncNotReaped, LockHeld, LockFree,
              Unstarted, WriterAlone, Awaits, Locked
<1>6. CASE AgentAnswers(r, "ok") \/ AgentAnswers(r, "error")
  BY <1>6 DEF AgentAnswers, IInv, TypeOK, SyncNotReaped, LockHeld, LockFree, Unstarted,
              WriterAlone, Awaits, Locked
<1> QED
  BY <1>1, <1>2, <1>3, <1>4, <1>5, <1>6 DEF Children

(* Steps of the reaper: when it reaps nobody holds the lock.                *)
LEMMA ReaperIInv == IInv /\ Reaper => IInv'
<1> SUFFICES ASSUME IInv, Reaper PROVE IInv'
  OBVIOUS
<1>1. CASE Park \/ Sleep \/ LockCall \/ Lock
  BY <1>1 DEF Park, Sleep, LockCall, Lock, IInv, TypeOK, SyncNotReaped, LockHeld, LockFree,
              Unstarted, WriterAlone, Awaits, Locked
<1>2. CASE NothingToReap
  BY <1>2 DEF NothingToReap, Unlock, IInv, TypeOK, SyncNotReaped, LockHeld, LockFree,
              Unstarted, WriterAlone, Awaits, Locked
<1>3. ASSUME NEW r \in Requests, NEW k \in Kids, Reap(r, k) PROVE IInv'
  <2>1. \A q \in Requests \ Async : pc[q] \notin Locked
    BY <1>3 DEF Reap, IInv, LockHeld, WriterAlone
  <2>2. \A q \in Requests \ Async : Awaits(q)' = {}
    BY <1>3, <2>1 DEF Reap, Unlock, IInv, TypeOK, LockHeld, Awaits, Locked
  <2>3. TypeOK' /\ LockHeld' /\ LockFree' /\ WriterAlone'
    BY <1>3 DEF Reap, Unlock, IInv, TypeOK, LockHeld, LockFree, WriterAlone, Locked
  <2>4. Unstarted'
    BY <1>3 DEF Reap, Dead, Unlock, IInv, TypeOK, Unstarted
  <2> QED
    BY <2>2, <2>3, <2>4 DEF IInv, SyncNotReaped
<1> QED
  BY <1>1, <1>2, <1>3 DEF Reaper

LEMMA NextIInv == IInv /\ [Next]_vars => IInv'
<1> SUFFICES ASSUME IInv, [Next]_vars PROVE IInv'
  OBVIOUS
<1>1. CASE UNCHANGED vars
  BY <1>1 DEF IInv, TypeOK, SyncNotReaped, LockHeld, LockFree, Unstarted, WriterAlone,
              Awaits, Locked
<1>2. ASSUME NEW r \in Requests, Call(r) \/ Progress(r) \/ Children(r) PROVE IInv'
  BY <1>2, CallIInv, RLockIInv, PassIInv, FailIInv, StartIInv, WaitIInv, Wait1FailsIInv,
     KillIInv, ChildrenIInv DEF Progress
<1>3. CASE Reaper
  BY <1>3, ReaperIInv
<1> QED
  BY <1>1, <1>2, <1>3 DEF Next, AllDone
-----------------------------------------------------------------------------
(* For any requests, nested or not, and any failures, the reaper's wait4    *)
(* takes no exit status that a synchronous request is going to wait for.    *)
THEOREM ReaperSafe == Spec => []SyncNotReaped
<1>1. IInv => SyncNotReaped
  BY DEF IInv
<1> QED
  BY <1>1, InitIInv, NextIInv, PTL DEF Spec
(***************************************************************************)
(* What a synchronous request returns.                                      *)
(***************************************************************************)

(* The children it waited for are gone, all of them once it succeeded; and  *)
(* one that cannot fail meets no failed child, and until the answer comes   *)
(* an agent that runs.                                                      *)
Returns(r) ==
    /\ pc[r] = "config" => kid[r]["first"] = "running"
    /\ pc[r] \in {"decode", "wait2", "send", "response", "wait3"} => kid[r]["first"] = "gone"
    /\ pc[r] \in {"send", "response", "wait3"} => kid[r]["second"] = "gone"
    /\ pc[r] \in {"end", "done"} => ret[r] # "none"
    /\ ret[r] = "ok" => pc[r] \in {"end", "done"} /\ \A k \in Kids : kid[r][k] = "gone"
    /\ pc[r] \notin {"response", "wait3", "end", "done"} => answer[r] = "none"
    /\ r \notin Faulty =>
          /\ ret[r] # "error" /\ answer[r] # "error"
          /\ pc[r] = "wait1" => kid[r]["first"] # "failed"
          /\ pc[r] = "wait1" /\ kid[r]["first"] = "zombie" => kid[r]["agent"] = "running"
          /\ pc[r] \in {"decode", "wait2", "send", "response"} /\ answer[r] = "none"
                => kid[r]["agent"] = "running"

(* A step that leaves a request and its children alone.                     *)
LEMMA OthersReturn ==
    ASSUME NEW r \in Requests, Returns(r), pc'[r] = pc[r], ret'[r] = ret[r],
           kid'[r] = kid[r], answer'[r] = answer[r]
    PROVE  Returns(r)'
BY DEF Returns

(* Its own steps, one by one.                                               *)
LEMMA OwnReturns ==
    ASSUME IInv, NEW r \in Requests \ Async, Returns(r), Call(r) \/ Progress(r) \/ Children(r)
    PROVE  Returns(r)'
<1> USE DEF Returns, IInv, TypeOK, LockHeld
<1>1. CASE Call(r) \/ RLock(r) \/ Config(r)
  <2>1. CASE Call(r)
    BY <2>1 DEF Call
  <2>2. CASE RLock(r)
    BY <2>2 DEF RLock
  <2>3. CASE Config(r)
    BY <2>3 DEF Config
  <2> QED
    BY <1>1, <2>1, <2>2, <2>3
<1>2. CASE Start(r)
  BY <1>2 DEF Start, Unstarted
<1>3. CASE StartFails(r) \/ ConfigFails(r) \/ DecodeFails(r) \/ SendFails(r)
  BY <1>3 DEF StartFails, ConfigFails, DecodeFails, SendFails, Fail, MayFail
<1>4. CASE Wait1(r)
  BY <1>4 DEF Wait1
<1>5. CASE Wait1Fails(r)
  <2>1. kid[r]["first"] # "gone"
    BY <1>5 DEF Wait1Fails, SyncNotReaped, Awaits
  <2> QED
    BY <1>5, <2>1 DEF Wait1Fails, Fail
<1>6. CASE Decode(r) \/ Send(r) \/ Response(r)
  BY <1>6 DEF Decode, Send, Response
<1>7. CASE Wait2(r)
  BY <1>7 DEF Wait2
<1>8. CASE ResponseFails(r)
  BY <1>8 DEF ResponseFails, Fail, Dead
<1>9. CASE Wait3(r)
  BY <1>9 DEF Wait3
<1>10. CASE End(r) \/ Kill(r) \/ Killed(r)
  BY <1>10 DEF End, Kill, Killed
<1>11. CASE FirstForks(r)
  BY <1>11 DEF FirstForks
<1>12. CASE FirstDies(r)
  BY <1>12 DEF FirstDies, MayFail
<1>13. CASE SecondExits(r)
  BY <1>13 DEF SecondExits
<1>14. CASE AgentAnswers(r, "ok") \/ AgentAnswers(r, "error")
  BY <1>14 DEF AgentAnswers, MayFail
<1>15. CASE AgentExits(r) \/ AgentDies(r)
  BY <1>15 DEF AgentExits, AgentDies, MayFail
<1> HIDE DEF Returns, IInv, TypeOK, LockHeld
<1> QED
  BY <1>1, <1>2, <1>3, <1>4, <1>5, <1>6, <1>7, <1>8, <1>9, <1>10, <1>11, <1>12, <1>13,
     <1>14, <1>15 DEF Progress, Children

(* The steps of another request are steps on that one's entries.            *)
LEMMA OtherSteps ==
    ASSUME IInv, NEW q \in Requests, NEW r \in Requests, q # r,
           Call(q) \/ Progress(q) \/ Children(q)
    PROVE  pc'[r] = pc[r] /\ ret'[r] = ret[r] /\ kid'[r] = kid[r] /\ answer'[r] = answer[r]
<1> USE DEF IInv, TypeOK
<1>1. CASE Call(q) \/ RLock(q) \/ Config(q) \/ Decode(q) \/ Response(q) \/ End(q) \/ Send(q)
  BY <1>1 DEF Call, RLock, Config, Decode, Response, End, Send
<1>2. CASE StartFails(q) \/ ConfigFails(q) \/ DecodeFails(q) \/ SendFails(q) \/ ResponseFails(q)
  BY <1>2 DEF StartFails, ConfigFails, DecodeFails, SendFails, ResponseFails, Fail
<1>3. CASE Start(q) \/ Wait1(q) \/ Wait2(q) \/ Wait3(q) \/ Wait1Fails(q)
  BY <1>3 DEF Start, Wait1, Wait2, Wait3, Wait1Fails, Fail
<1>4. CASE Kill(q) \/ Killed(q)
  BY <1>4 DEF Kill, Killed
<1>5. CASE Children(q)
  BY <1>5 DEF Children, FirstForks, FirstDies, SecondExits, AgentAnswers, AgentExits, AgentDies
<1> HIDE DEF IInv, TypeOK
<1> QED
  BY <1>1, <1>2, <1>3, <1>4, <1>5 DEF Progress

(* When the reaper collects a child, no synchronous request is at work.     *)
LEMMA ReaperReturnsKept ==
    ASSUME IInv, Reaper, NEW r \in Requests \ Async, Returns(r)
    PROVE  Returns(r)'
<1>1. CASE Park \/ Sleep \/ LockCall \/ Lock
  BY <1>1 DEF Park, Sleep, LockCall, Lock, Returns
<1>2. ASSUME Unlock, UNCHANGED <<ret, answer>>,
             \/ kid'[r] = kid[r]
             \/ \E k \in Kids : Dead(r, k) /\ kid'[r] = [kid[r] EXCEPT ![k] = "gone"],
             pc[r] \notin Locked \/ kid'[r] = kid[r]
      PROVE  Returns(r)'
  BY <1>2 DEF Unlock, Dead, Returns, IInv, TypeOK, LockHeld, Locked
<1>3. CASE NothingToReap
  BY <1>2, <1>3 DEF NothingToReap
<1>4. ASSUME NEW q \in Requests, NEW k \in Kids, Reap(q, k) PROVE Returns(r)'
  <2>1. pc[r] \notin Locked
    BY <1>4 DEF Reap, IInv, LockHeld, WriterAlone
  <2>2. \/ kid'[r] = kid[r]
        \/ Dead(r, k) /\ kid'[r] = [kid[r] EXCEPT ![k] = "gone"]
    BY <1>4, ZenonT(30) DEF Reap, Dead, IInv, TypeOK
  <2> QED
    BY <1>2, <1>4, <2>1, <2>2 DEF Reap
<1> QED
  BY <1>1, <1>3, <1>4 DEF Reaper

RInv == \A r \in Requests \ Async : Returns(r)

LEMMA NextRInv == IInv /\ RInv /\ [Next]_vars => RInv'
<1> SUFFICES ASSUME IInv, RInv, [Next]_vars, NEW r \in Requests \ Async PROVE Returns(r)'
  BY DEF RInv
<1>1. Returns(r)
  BY DEF RInv
<1>2. CASE UNCHANGED vars
  BY <1>1, <1>2, OthersReturn
<1>3. ASSUME NEW q \in Requests, Call(q) \/ Progress(q) \/ Children(q) PROVE Returns(r)'
  BY <1>1, <1>3, OthersReturn, OwnReturns, OtherSteps
<1>4. CASE Reaper
  BY <1>1, <1>4, ReaperReturnsKept
<1> QED
  BY <1>2, <1>3, <1>4 DEF Next, AllDone

(* For any requests, nested or not, a synchronous request that succeeds     *)
(* leaves no child behind, and one that does not fail itself succeeds,      *)
(* whatever fails in the others and whatever the reaper collects for them.  *)
THEOREM ResultsExact == Spec => []ResultExact
<1>1. Init => RInv
  BY DEF Init, RInv, Returns
<1>2. IInv /\ RInv => ResultExact
  BY DEF IInv, TypeOK, RInv, Returns, ResultExact
<1> QED
  BY <1>1, <1>2, InitIInv, NextIInv, NextRInv, PTL DEF Spec
=============================================================================
