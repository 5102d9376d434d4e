------------------------------- MODULE NSenter -------------------------------
(***************************************************************************)
(* nsenter/event.go SendRequest() and TerminateRequest(), and the zombie    *)
(* reaper (nsenter/reaper.go) that collects the children a failed request   *)
(* leaves behind.                                                           *)
(*                                                                          *)
(* A request forks three children: "first" starts "second" and the agent    *)
(* and exits, "second" exits, the agent enters the container's namespaces,  *)
(* executes the payload, answers and exits.  All three are children of      *)
(* sysbox-fs.  Synchronous requests hold the reaper's RWMutex for reading   *)
(* all along, the reaper takes it for writing around each                   *)
(* wait4(-1, WNOHANG).  sync.RWMutex: a writer that waits blocks new        *)
(* readers; its unlock lets in the readers that waited.                     *)
(*                                                                          *)
(* The agent may touch files that sysbox-fs itself serves: its FUSE request *)
(* may then need an nsenter request of its own before the agent goes on.    *)
(***************************************************************************)
EXTENDS Naturals, FiniteSets

CONSTANTS Requests,   \* NSenterEvent objects, each sent once
          Async,      \* those with the Async flag
          Inner,      \* Inner[r]: the request that the agent of r causes, or None
          None,
          Fails,      \* the steps that may fail
          Faulty      \* the requests in which they may

Kids == {"first", "second", "agent"}
Failures == {"start", "config", "first", "decode", "send", "answer"}

ASSUME NSenterAssumption ==
    /\ Async \subseteq Requests /\ None \notin Requests
    /\ Inner \in [Requests -> Requests \cup {None}]
    /\ Fails \subseteq Failures /\ Faulty \subseteq Requests

VARIABLES pc,       \* where each request is in SendRequest()
          ret,      \* its result
          kid,      \* the state of its children
          answer,   \* what its agent wrote to the pipe
          readers,  \* zombieReaper.mu: requests that hold it for reading
          rpc       \* where the reaper goroutine is

vars == <<pc, ret, kid, answer, readers, rpc>>

Steps == {"idle", "rlock", "rwait", "start", "config", "wait1", "decode", "wait2",
          "send", "response", "wait3", "end", "sent", "killed", "done"}
KidStates == {"none", "running", "failed", "zombie", "gone"}
ReaperSteps == {"break", "signal", "sleep", "lock", "pending", "wait4"}

Goto(r, step) == pc' = [pc EXCEPT ![r] = step]
Becomes(r, k, state) == kid' = [kid EXCEPT ![r][k] = state]
MayFail(r, step) == step \in Fails /\ r \in Faulty
Dead(r, k) == kid[r][k] \in {"failed", "zombie"}

(* No request yet; newZombieReaper()'s goroutine waits for a signal.        *)
Init == /\ pc = [r \in Requests |-> "idle"]
        /\ ret = [r \in Requests |-> "none"]
        /\ kid = [r \in Requests |-> [k \in Kids |-> "none"]]
        /\ answer = [r \in Requests |-> "none"]
        /\ readers = {}
        /\ rpc = "signal"
-----------------------------------------------------------------------------
(* The writer is waiting for the lock or has it.                            *)
Writer == rpc \in {"pending", "wait4"}

(* SendRequest() is called; a request of an agent once the agent runs.      *)
Call(r) == /\ pc[r] = "idle"
           /\ \A q \in Requests : Inner[q] = r =>
                    pc[q] = "response" /\ kid[q]["agent"] = "running" /\ answer[q] = "none"
           /\ Goto(r, IF r \in Async THEN "start" ELSE "rlock")
           /\ UNCHANGED <<ret, kid, answer, readers, rpc>>

(* nsenterStarted().                                                        *)
RLock(r) == /\ pc[r] = "rlock"
            /\ readers' = IF Writer THEN readers ELSE readers \cup {r}
            /\ Goto(r, IF Writer THEN "rwait" ELSE "start")
            /\ UNCHANGED <<ret, kid, answer, rpc>>

(* The socket pair, the netlink packet and cmd.Start().                     *)
Start(r) == /\ pc[r] = "start"
            /\ Becomes(r, "first", "running")
            /\ Goto(r, "config")
            /\ UNCHANGED <<ret, answer, readers, rpc>>

(* nsenterReapReq(): a send on an unbuffered channel with a default.        *)
ReapReq == rpc' = IF rpc = "signal" THEN "sleep" ELSE rpc

(* An error return; "reap" tells the returns that request reaping.          *)
Fail(r, reap) == /\ ret' = [ret EXCEPT ![r] = "error"]
                 /\ Goto(r, "end")
                 /\ IF reap /\ r \notin Async THEN ReapReq ELSE UNCHANGED rpc

StartFails(r) == /\ pc[r] = "start" /\ MayFail(r, "start")
                 /\ Fail(r, FALSE)
                 /\ UNCHANGED <<kid, answer, readers>>

(* io.Copy() of the packet to the first child.                              *)
Config(r) == /\ pc[r] = "config"
             /\ Goto(r, "wait1")
             /\ UNCHANGED <<ret, kid, answer, readers, rpc>>

ConfigFails(r) == /\ pc[r] = "config" /\ MayFail(r, "config")
                  /\ Fail(r, TRUE)
                  /\ UNCHANGED <<kid, answer, readers>>

(* cmd.Process.Wait(): the first child's exit status.                       *)
Wait1(r) == /\ pc[r] = "wait1" /\ kid[r]["first"] = "zombie"
            /\ Becomes(r, "first", "gone")
            /\ Goto(r, "decode")
            /\ UNCHANGED <<ret, answer, readers, rpc>>

(* ... when the child failed, or somebody else has reaped it.               *)
Wait1Fails(r) == /\ pc[r] = "wait1" /\ kid[r]["first"] \in {"failed", "gone"}
                 /\ Becomes(r, "first", "gone")
                 /\ Fail(r, TRUE)
                 /\ UNCHANGED <<answer, readers>>

(* The pids of the other two children are decoded from the pipe.            *)
Decode(r) == /\ pc[r] = "decode"
             /\ Goto(r, "wait2")
             /\ UNCHANGED <<ret, kid, answer, readers, rpc>>

DecodeFails(r) == /\ pc[r] = "decode" /\ MayFail(r, "decode")
                  /\ Fail(r, FALSE)
                  /\ UNCHANGED <<kid, answer, readers>>

(* firstChildProcess.Wait(), its error ignored.                             *)
Wait2(r) == /\ pc[r] = "wait2" /\ kid[r]["second"] \in {"zombie", "gone"}
            /\ Becomes(r, "second", "gone")
            /\ Goto(r, "send")
            /\ UNCHANGED <<ret, answer, readers, rpc>>

(* Credentials and payload to the agent; an asynchronous request is then    *)
(* complete.                                                                *)
Send(r) == /\ pc[r] = "send"
           /\ IF r \in Async THEN Goto(r, "sent") /\ ret' = [ret EXCEPT ![r] = "ok"]
                             ELSE Goto(r, "response") /\ UNCHANGED ret
           /\ UNCHANGED <<kid, answer, readers, rpc>>

SendFails(r) == /\ pc[r] = "send" /\ MayFail(r, "send")
                /\ Fail(r, TRUE)
                /\ UNCHANGED <<kid, answer, readers>>

(* processResponse(): the answer, or the end of the pipe.                   *)
Response(r) == /\ pc[r] = "response" /\ answer[r] = "ok"
               /\ Goto(r, "wait3")
               /\ UNCHANGED <<ret, kid, answer, readers, rpc>>

ResponseFails(r) == /\ pc[r] = "response"
                    /\ answer[r] = "error" \/ (answer[r] = "none" /\ Dead(r, "agent"))
                    /\ Fail(r, TRUE)
                    /\ UNCHANGED <<kid, answer, readers>>

(* Slip: the agent is not waited for.                                       *)
Wait3Skipped(r) == /\ pc[r] = "wait3"
                   /\ ret' = [ret EXCEPT ![r] = "ok"]
                   /\ Goto(r, "end")
                   /\ UNCHANGED <<kid, answer, readers, rpc>>

(* e.Process.Wait().                                                        *)
Wait3(r) == /\ pc[r] = "wait3" /\ kid[r]["agent"] \in {"zombie", "gone"}
            /\ Becomes(r, "agent", "gone")
            /\ ret' = [ret EXCEPT ![r] = "ok"]
            /\ Goto(r, "end")
            /\ UNCHANGED <<answer, readers, rpc>>

(* Slip: an error return keeps the lock.                                    *)
EndLocked(r) == /\ pc[r] = "end"
                /\ readers' = IF ret[r] = "error" THEN readers ELSE readers \ {r}
                /\ Goto(r, "done")
                /\ UNCHANGED <<ret, kid, answer, rpc>>

(* The deferred parentPipe.Close() and nsenterEnded().                      *)
End(r) == /\ pc[r] = "end"
          /\ readers' = readers \ {r}
          /\ Goto(r, "done")
          /\ UNCHANGED <<ret, kid, answer, rpc>>

(* TerminateRequest(): the agent is killed, then waited for.                *)
Kill(r) == /\ pc[r] = "sent"
           /\ kid' = [kid EXCEPT ![r]["agent"] = IF @ = "running" THEN "zombie" ELSE @]
           /\ Goto(r, IF kid[r]["agent"] = "gone" THEN "done" ELSE "killed")
           /\ UNCHANGED <<ret, answer, readers, rpc>>

Killed(r) == /\ pc[r] = "killed"
             /\ Becomes(r, "agent", "gone")
             /\ Goto(r, "done")
             /\ UNCHANGED <<ret, answer, readers, rpc>>
-----------------------------------------------------------------------------
(* The first child gets its packet, starts the other two and exits.         *)
FirstForks(r) == /\ pc[r] = "wait1" /\ kid[r]["first"] = "running"
                 /\ kid' = [kid EXCEPT ![r] = [k \in Kids |->
                                IF k = "first" THEN "zombie" ELSE "running"]]
                 /\ UNCHANGED <<pc, ret, answer, readers, rpc>>

(* It fails, or finds the pipe closed because the request returned.         *)
FirstDies(r) == /\ kid[r]["first"] = "running"
                /\ (pc[r] = "wait1" /\ MayFail(r, "first")) \/ pc[r] = "done"
                /\ Becomes(r, "first", "failed")
                /\ UNCHANGED <<pc, ret, answer, readers, rpc>>

SecondExits(r) == /\ kid[r]["second"] = "running"
                  /\ Becomes(r, "second", "zombie")
                  /\ UNCHANGED <<pc, ret, answer, readers, rpc>>

(* The agent executes the payload, FUSE requests included, and answers.     *)
AgentAnswers(r, a) == /\ pc[r] = "response"
                      /\ kid[r]["agent"] = "running" /\ answer[r] = "none"
                      /\ Inner[r] # None => pc[Inner[r]] = "done"
                      /\ a = "ok" \/ MayFail(r, "answer")
                      /\ answer' = [answer EXCEPT ![r] = a]
                      /\ UNCHANGED <<pc, ret, kid, readers, rpc>>

(* The agent exits after its answer, when the pipe is closed, or, in an     *)
(* asynchronous request, when its work is over.                             *)
AgentExits(r) == /\ kid[r]["agent"] = "running"
                 /\ answer[r] # "none" \/ pc[r] \in {"done", "sent"}
                 /\ Becomes(r, "agent", "zombie")
                 /\ UNCHANGED <<pc, ret, answer, readers, rpc>>

(* The agent dies without an answer.                                        *)
AgentDies(r) == /\ kid[r]["agent"] = "running" /\ pc[r] = "response"
                /\ MayFail(r, "answer")
                /\ Inner[r] # None => pc[Inner[r]] \in {"idle", "done"}
                /\ Becomes(r, "agent", "zombie")
                /\ UNCHANGED <<pc, ret, answer, readers, rpc>>
-----------------------------------------------------------------------------
(* reaper(): it parks on the channel ...                                    *)
Park == /\ rpc = "break"
        /\ rpc' = "signal"
        /\ UNCHANGED <<pc, ret, kid, answer, readers>>

(* ... sleeps after a signal ...                                            *)
Sleep == /\ rpc = "sleep"
         /\ rpc' = "lock"
         /\ UNCHANGED <<pc, ret, kid, answer, readers>>

(* Slip: the reaper takes the lock for reading.                             *)
LockShared == /\ rpc = "pending"
              /\ rpc' = "wait4"
              /\ UNCHANGED <<pc, ret, kid, answer, readers>>

(* ... calls mu.Lock(), which stops new readers and waits for the others    *)
LockCall == /\ rpc = "lock"
            /\ rpc' = "pending"
            /\ UNCHANGED <<pc, ret, kid, answer, readers>>

Lock == /\ rpc = "pending"
        /\ readers = {}
        /\ rpc' = "wait4"
        /\ UNCHANGED <<pc, ret, kid, answer, readers>>

(* mu.Unlock().                                                             *)
Unlock == LET waiting == {r \in Requests : pc[r] = "rwait"} IN
          /\ readers' = readers \cup waiting
          /\ pc' = [r \in Requests |-> IF r \in waiting THEN "start" ELSE pc[r]]

(* ... and reaps one child and loops, or finds none and goes back.          *)
Reap(r, k) == /\ rpc = "wait4"
              /\ Dead(r, k)
              /\ Becomes(r, k, "gone")
              /\ rpc' = "lock"
              /\ Unlock
              /\ UNCHANGED <<ret, answer>>

NothingToReap == /\ rpc = "wait4"
                 /\ \A r \in Requests, k \in Kids : ~Dead(r, k)
                 /\ rpc' = "break"
                 /\ Unlock
                 /\ UNCHANGED <<ret, kid, answer>>

Reaper == \/ Park \/ Sleep \/ LockCall \/ Lock \/ NothingToReap
          \/ \E r \in Requests, k \in Kids : Reap(r, k)

Progress(r) == \/ RLock(r) \/ Start(r) \/ StartFails(r) \/ Config(r) \/ ConfigFails(r)
               \/ Wait1(r) \/ Wait1Fails(r) \/ Decode(r) \/ DecodeFails(r) \/ Wait2(r)
               \/ Send(r) \/ SendFails(r) \/ Response(r) \/ ResponseFails(r)
               \/ Wait3(r) \/ End(r) \/ Kill(r) \/ Killed(r)

Children(r) == \/ FirstForks(r) \/ FirstDies(r) \/ SecondExits(r)
               \/ AgentAnswers(r, "ok") \/ AgentAnswers(r, "error")
               \/ AgentExits(r) \/ AgentDies(r)

AllDone == /\ \A r \in Requests : pc[r] = "done"
           /\ UNCHANGED vars

Next == \/ \E r \in Requests : Call(r) \/ Progress(r) \/ Children(r)
        \/ Reaper
        \/ AllDone

Spec == Init /\ [][Next]_vars

(* Goroutines that can run do run, and so do the children; a request may    *)
(* never be made, except the one an agent waits for.                        *)
Fairness == /\ \A r \in Requests : WF_vars(Progress(r)) /\ WF_vars(Children(r))
            /\ \A r \in Requests : Inner[r] # None => WF_vars(Call(Inner[r]))
            /\ WF_vars(Reaper)

FairSpec == Spec /\ Fairness
-----------------------------------------------------------------------------
(* Every variable stays in its domain.                                      *)
TypeOK == /\ pc \in [Requests -> Steps]
          /\ ret \in [Requests -> {"none", "ok", "error"}]
          /\ kid \in [Requests -> [Kids -> KidStates]]
          /\ answer \in [Requests -> {"none", "ok", "error"}]
          /\ readers \subseteq Requests \ Async
          /\ rpc \in ReaperSteps

(* What a request still has to wait for.                                    *)
Awaits(r) == CASE pc[r] \in {"config", "wait1"} -> Kids
               [] pc[r] \in {"decode", "wait2"} -> {"second", "agent"}
               [] pc[r] \in {"send", "response", "wait3", "sent", "killed"} -> {"agent"}
               [] OTHER -> {}

(* The reaper's wait4(-1) never takes the exit status that a synchronous    *)
(* request is going to wait for, whatever the reaper collects meanwhile.    *)
SyncNotReaped ==
    \A r \in Requests \ Async : \A k \in Awaits(r) : kid[r][k] # "gone"

(* A synchronous request that succeeds leaves no child behind, and one none *)
(* of whose own steps fails succeeds, whatever fails in the others and      *)
(* whatever the reaper collects for them.                                   *)
ResultExact ==
    \A r \in Requests \ Async : pc[r] = "done" =>
        /\ ret[r] = "ok" => \A k \in Kids : kid[r][k] = "gone"
        /\ r \notin Faulty => ret[r] = "ok"

(* While no agent depends on another request, every request returns and the *)
(* reaper's write lock blocks no request for good.                          *)
EveryRequestReturns == \A r \in Requests : pc[r] # "idle" ~> pc[r] = "done"

(* The reaper always comes back to wait for the next signal.                *)
ReaperReturns == []<>(rpc = "signal")
=============================================================================
