----------------------------- MODULE AgentProofs -----------------------------
(***************************************************************************)
(* What holds of a conversation with an agent, for any number of clients,   *)
(* and that every step of an agent or of SendRequest() keeps it.            *)
(* RequestsProofs builds on it.                                             *)
(***************************************************************************)
EXTENDS Agent, Integers, FiniteSetTheorems, TLAPS

(* A conversation.                                                          *)
Conv == [event : {"none", "sent", "rights"} \cup Answers, run : BOOLEAN,
         todo : Seq(OwnSteps \cup {"mktemp", "mountfs"}), fs : {"none", "procfs", "sysfs"},
         at : {"none", "tmp", "dev"}, res : {"none", "ok", "error"},
         fd : {"none", "invalid", "fd", "sent"}, sock : Seq({"fd", "nofd", "ok", "error", "cut"}),
         fds : {0, 1}, done : SUBSET Effects]

(* The steps to come: what changes something outside the agent is the last, *)
(* and an agent that makes a directory was told to mount and has none yet.  *)
StepsOK(v) ==
    /\ v.todo # <<>> => v.res = "none" /\ v.fd = "none"
    /\ \A i \in 1..Len(v.todo) :
           /\ v.todo[i] \in Effects \cup {"openat2"} => i = Len(v.todo)
           /\ v.todo[i] = "mktemp" => i = 1 /\ v.at = "none"
           /\ v.todo[i] \in {"mktemp", "mountfs"} => v.fs # "none"

(* What the agent has done and is about to send.                            *)
ResultOK(v) ==
    /\ v.res # "ok" => v.done = {}
    /\ v.fd # "none" => v.res # "none"
    /\ v.fd = "sent" => v.at = "none"
    /\ v.fd = "invalid" => v.res = "error"
    /\ v.fd = "fd" => v.res = "ok" \/ "openat2" \in faults
    /\ ~v.run => v.at = "none" \/ "killed" \in faults
    /\ v.at = "dev" => readOnly

(* What is on its way from a running agent, ...                             *)
RunningOK(v) ==
    v.run => /\ v.event = "sent" \/ (v.event = "rights" /\ v.fd = "sent" /\ v.sock = <<>>)
             /\ v.event = "sent" => v.sock \in {<<>>, <<"fd">>, <<"nofd">>}
             /\ v.sock # <<>> => v.fd = "sent"
             /\ v.event = "sent" /\ v.fd = "sent" /\ v.sock = <<>> => v.res = "error"

(* ... from one that has ended, ...                                         *)
EndedOK(v) ==
    ~v.run => /\ v.event = "sent" =>
                    \/ v.sock \in {<<"fd", v.res>>, <<"nofd", v.res>>} /\ v.fd = "sent"
                    \/ v.sock = <<"error">> /\ v.res = "error" /\ v.fd = "sent"
                    \/ v.sock \in {<<>>, <<"fd">>, <<"nofd">>} /\ "killed" \in faults
              /\ v.event = "rights" =>
                    \/ v.sock = <<v.res>> /\ v.fd = "sent"
                    \/ v.sock = <<"cut">> /\ v.res = "error" /\ v.fds = 0
                    \/ v.sock = <<>> /\ "killed" \in faults

(* ... and what SendRequest() made of it.                                   *)
EventOK(v) ==
    /\ v.event = "none" => v = Closed
    /\ v.event \in {"none", "sent"} => v.fds = 0
    /\ v.event \in Answers => v.sock = <<>>
    /\ v.event \in {"ok", "error"} => v.res = v.event /\ v.fd = "sent"
    /\ v.event = "infra" => v.done = {} \/ "killed" \in faults
    /\ v.event = "infra" => v.fds = 0 \/ "killed" \in faults
    /\ v.fds = 1 => v.res = "ok" \/ "openat2" \in faults
    /\ v.event = "sent" /\ v.sock # <<>> /\ v.sock[1] = "fd" => v.res = "ok" \/ "openat2" \in faults

AgentOK(c) == LET v == conv[c] IN
    /\ StepsOK(v) /\ ResultOK(v) /\ RunningOK(v) /\ EndedOK(v) /\ EventOK(v)

(* A descriptor is, or may come, on this conversation.                      *)
Carries(v) == \/ v.fds = 1 \/ v.fd = "fd"
              \/ v.sock # <<>> /\ v.sock[1] = "fd"
              \/ \E i \in 1..Len(v.todo) : v.todo[i] = "openat2"

(* The descriptor of an open that succeeded comes before the response.      *)
Brings(v) == \/ v.fd = "fd"
             \/ v.fd = "sent" /\ v.event = "sent" /\ v.sock # <<>> /\ v.sock[1] = "fd"
             \/ v.event \in {"rights", "ok"} /\ v.fds = 1

(* An agent that works for goal g has it as its last step, has done nothing *)
(* else, and has done it when it says so.                                   *)
Goal(v, g) ==
    /\ v.done \subseteq {g}
    /\ v.todo # <<>> => v.todo[Len(v.todo)] = g
    /\ v.res = "ok" => {g} \cap Effects \subseteq v.done
    /\ v.res = "ok" /\ g = "openat2" => Brings(v) \/ "killed" \in faults

(* Who has a directory in the root of the container, and what becomes of    *)
(* that root.                                                               *)
InTmp == {c \in Clients : conv[c].at = "tmp"}

RootOK == /\ faults \cap {"killed", "procfs"} = {} => tmpDirs = Cardinality(InTmp)
          /\ devWhole \/ (readOnly /\ "sysfs" \in faults)

AgentInv == /\ conv \in [Clients -> Conv] /\ openFds \in Int
            /\ \A c \in Clients : AgentOK(c)
            /\ RootOK
-----------------------------------------------------------------------------
(* Sequences with the same elements are equal.                              *)
LEMMA SeqEqual ==
    ASSUME NEW S, NEW s \in Seq(S), NEW t \in Seq(S), Len(s) = Len(t),
           \A i \in 1..Len(s) : s[i] = t[i]
    PROVE  s = t
OBVIOUS

(* Short sequences.                                                         *)
LEMMA Short ==
    /\ \A a : Append(<<>>, a) = <<a>> /\ <<a>>[1] = a /\ Head(<<a>>) = a /\ Tail(<<a>>) = <<>>
    /\ \A a : <<a>> # <<>>
    /\ \A a, b : /\ Append(<<a>>, b) = <<a, b>> /\ <<a, b>>[1] = a /\ Head(<<a, b>>) = a
                 /\ Tail(<<a, b>>) = <<b>> /\ <<a, b>> # <<>>
    /\ \A a, b : <<a>> = <<b>> => a = b
    /\ \A a, b, e : <<a>> # <<b, e>>
<1>1. \A a : Append(<<>>, a) = <<a>> /\ <<a>>[1] = a /\ Head(<<a>>) = a
  OBVIOUS
<1>2. \A a : Tail(<<a>>) = <<>>
  OBVIOUS
<1>3. \A a : <<a>> # <<>>
  OBVIOUS
<1>4. ASSUME NEW a, NEW b PROVE Append(<<a>>, b) = <<a, b>>
  <2>1. <<a>> \in Seq({a, b}) /\ Len(<<a>>) = 1 /\ <<a>>[1] = a /\ b \in {a, b}
    OBVIOUS
  <2>2. /\ Append(<<a>>, b) \in Seq({a, b}) /\ Len(Append(<<a>>, b)) = 2
        /\ Append(<<a>>, b)[1] = a /\ Append(<<a>>, b)[2] = b
    BY <2>1
  <2>3. <<a, b>> \in Seq({a, b}) /\ Len(<<a, b>>) = 2 /\ <<a, b>>[1] = a /\ <<a, b>>[2] = b
    OBVIOUS
  <2> QED
    <3>1. \A i \in 1..2 : Append(<<a>>, b)[i] = <<a, b>>[i]
      BY <2>2, <2>3
    <3> QED
      BY <2>2, <2>3, <3>1, SeqEqual, ZenonT(30)
<1>5. \A a, b : <<a, b>>[1] = a /\ Head(<<a, b>>) = a /\ <<a, b>> # <<>>
  OBVIOUS
<1>6. \A a, b : Tail(<<a, b>>) = <<b>>
  OBVIOUS
<1>7. \A a, b : <<a>> = <<b>> => a = b
  OBVIOUS
<1>8. \A a, b, e : <<a>> # <<b, e>>
  OBVIOUS
<1> QED
  BY <1>1, <1>2, <1>3, <1>4, <1>5, <1>6, <1>7, <1>8

(* The steps after the first one.                                           *)
LEMMA Rest ==
    ASSUME NEW S, NEW s \in Seq(S), s # <<>>
    PROVE  /\ Tail(s) \in Seq(S) /\ Len(s) \in Nat /\ Len(s) > 0 /\ Len(Tail(s)) = Len(s) - 1
           /\ \A i \in 1..Len(Tail(s)) : Tail(s)[i] = s[i + 1] /\ i + 1 \in 1..Len(s)
           /\ Head(s) = s[1] /\ 1 \in 1..Len(s) /\ Head(s) \in S
           /\ Tail(s) # <<>> <=> Len(s) # 1
<1>1. Len(s) \in Nat /\ Len(s) > 0
  OBVIOUS
<1>2. Head(s) = s[1] /\ 1 \in 1..Len(s) /\ Head(s) \in S
  BY <1>1
<1>3. Tail(s) \in Seq(S) /\ Len(Tail(s)) = Len(s) - 1
  BY <1>1
<1>4. \A i \in 1..Len(Tail(s)) : Tail(s)[i] = s[i + 1] /\ i + 1 \in 1..Len(s)
  BY <1>1, <1>3
<1>5. Tail(s) # <<>> <=> Len(s) # 1
  BY <1>1, <1>3
<1> QED
  BY <1>1, <1>2, <1>3, <1>4, <1>5

(* What a client's conversation becomes, and that the others stay.          *)
LEMMA SetConv ==
    ASSUME conv \in [Clients -> Conv], NEW c \in Clients, NEW w, Set(c, w)
    PROVE  /\ conv[c] \in Conv
           /\ conv'[c] = w
           /\ \A d \in Clients : d # c => conv'[d] = conv[d]
           /\ w \in Conv => (conv \in [Clients -> Conv])'
BY DEF Set
-----------------------------------------------------------------------------
(* What a step of the agent of client c leaves as it was.                   *)
Moved(c) ==
    /\ conv' \in [Clients -> Conv]
    /\ \A d \in Clients : AgentOK(d)'
    /\ \A d \in Clients : d # c => conv'[d] = conv[d]
    /\ conv[c].run /\ conv'[c].event = conv[c].event /\ conv'[c].fds = conv[c].fds
    /\ Carries(conv'[c]) => Carries(conv[c])
    /\ \A g : Goal(conv[c], g) => Goal(conv[c], g)'

(* An agent in order stays so while others move.                            *)
LEMMA Elsewhere ==
    ASSUME NEW d, AgentOK(d), conv'[d] = conv[d], faults \subseteq faults', readOnly' = readOnly
    PROVE  AgentOK(d)'
<1>1. PICK v : v = conv[d]
  OBVIOUS
<1>2. StepsOK(v)' /\ ResultOK(v)' /\ RunningOK(v)'
  BY <1>1 DEF AgentOK, StepsOK, ResultOK, RunningOK
<1>3. EndedOK(v)' /\ EventOK(v)'
  BY <1>1 DEF AgentOK, EndedOK, EventOK
<1> QED
  BY <1>1, <1>2, <1>3 DEF AgentOK

(* A step of the agent of client c: its conversation v becomes w.           *)
LEMMA AgentMove ==
    ASSUME AgentInv, NEW c \in Clients, NEW v, NEW w \in Conv, v = conv[c], Set(c, w),
           faults \subseteq faults', readOnly' = readOnly,
           v.run, w.event = v.event, w.fds = v.fds,
           StepsOK(w), ResultOK(w)', RunningOK(w)', EndedOK(w)', EventOK(w)',
           Carries(w) => Carries(v), \A g : Goal(v, g) => Goal(w, g)'
    PROVE  Moved(c)
<1>1. /\ conv' \in [Clients -> Conv] /\ conv'[c] = w
      /\ \A d \in Clients : d # c => conv'[d] = conv[d]
  BY SetConv DEF AgentInv
<1>2. AgentOK(c)'
  BY <1>1 DEF AgentOK, StepsOK
<1>3. ASSUME NEW d \in Clients, d # c PROVE AgentOK(d)'
  BY <1>1, <1>3, Elsewhere DEF AgentInv
<1>4. \A g : Goal(conv[c], g) => Goal(conv[c], g)'
  BY <1>1 DEF Goal, Brings
<1> QED
  BY <1>1, <1>2, <1>3, <1>4 DEF Moved

(* A step that is done.                                                     *)
LEMMA OperateMoves ==
    ASSUME AgentInv, NEW c \in Clients, Operate(c)
    PROVE  Moved(c)
<1>1. PICK v \in Conv : v = conv[c]
  BY DEF AgentInv
<1>2. /\ v.run /\ v.todo # <<>> /\ Head(v.todo) \in OwnSteps
      /\ faults' = faults /\ readOnly' = readOnly
  BY <1>1 DEF Operate, AtStep
<1>3. PICK w : w = [v EXCEPT !.done = @ \cup ({Head(v.todo)} \cap Effects),
                    !.fd = IF Head(v.todo) = "openat2" THEN "fd" ELSE @,
                    !.todo = Tail(@), !.res = IF Len(v.todo) = 1 THEN "ok" ELSE @]
  OBVIOUS
<1>4. Set(c, w)
  BY <1>1, <1>3 DEF Operate, Advance, Set, Conv
<1>5. /\ w.event = v.event /\ w.run = v.run /\ w.todo = Tail(v.todo) /\ w.fs = v.fs /\ w.at = v.at
      /\ w.res = (IF Len(v.todo) = 1 THEN "ok" ELSE v.res)
      /\ w.fd = (IF Head(v.todo) = "openat2" THEN "fd" ELSE v.fd)
      /\ w.sock = v.sock /\ w.fds = v.fds /\ w.done = v.done \cup ({Head(v.todo)} \cap Effects)
  BY <1>3 DEF Conv
<1>6. w \in Conv
  BY <1>2, <1>3, Rest, ZenonT(30) DEF Conv
<1>7. StepsOK(v) /\ ResultOK(v) /\ RunningOK(v) /\ EventOK(v)
  BY <1>1 DEF AgentInv, AgentOK
<1>8. StepsOK(w)
  <2>1. /\ Len(v.todo) \in Nat /\ Len(Tail(v.todo)) = Len(v.todo) - 1
        /\ Tail(v.todo) # <<>> <=> Len(v.todo) # 1
        /\ \A i \in 1..Len(Tail(v.todo)) : Tail(v.todo)[i] = v.todo[i + 1] /\ i + 1 \in 1..Len(v.todo)
        /\ 1 \in 1..Len(v.todo) /\ Head(v.todo) = v.todo[1]
    BY <1>2, Rest DEF Conv
  <2>2. w.todo # <<>> => w.res = "none" /\ w.fd = "none"
    BY <1>2, <1>5, <1>7, <2>1 DEF StepsOK
  <2>3. ASSUME NEW i \in 1..Len(w.todo)
        PROVE  /\ w.todo[i] \in Effects \cup {"openat2"} => i = Len(w.todo)
               /\ w.todo[i] # "mktemp"
               /\ w.todo[i] \in {"mktemp", "mountfs"} => w.fs # "none"
    <3>1. w.todo[i] = v.todo[i + 1] /\ i + 1 \in 1..Len(v.todo) /\ i \in Nat /\ i > 0
      BY <1>5, <2>1, <2>3
    <3> QED
      BY <1>5, <1>7, <2>1, <3>1 DEF StepsOK
  <2> QED
    BY <2>2, <2>3 DEF StepsOK
<1>9. ResultOK(w)'
  BY <1>2, <1>5, <1>7, Rest DEF StepsOK, ResultOK, Conv
<1>10. RunningOK(w)' /\ EndedOK(w)'
  BY <1>2, <1>5, <1>7 DEF RunningOK, EndedOK, StepsOK
<1>11. EventOK(w)'
  BY <1>2, <1>5, <1>7, Rest DEF RunningOK, EventOK, StepsOK, ResultOK, Conv
<1>12. Carries(w) => Carries(v)
  BY <1>2, <1>5, Rest DEF Carries, Conv
<1>13. ASSUME NEW g, Goal(v, g) PROVE Goal(w, g)'
  <2>1. Len(v.todo) # 1 => Head(v.todo) \notin Effects
    BY <1>2, <1>7, Rest DEF StepsOK, Conv
  <2>2. Len(v.todo) = 1 => Head(v.todo) = g /\ Tail(v.todo) = <<>>
    BY <1>2, <1>13, Rest DEF Goal, Conv
  <2>3. Len(v.todo) # 1 => Tail(v.todo)[Len(Tail(v.todo))] = g
    BY <1>2, <1>13, Rest DEF Goal, Conv
  <2>4. v.res = "none" /\ v.done = {}
    BY <1>2, <1>7 DEF StepsOK, ResultOK
  <2>5. Len(v.todo) = 1 /\ g = "openat2" => Brings(w)
    BY <1>5, <2>2 DEF Brings
  <2> QED
    BY <1>2, <1>5, <2>1, <2>2, <2>3, <2>4, <2>5 DEF Goal
<1> QED
  BY <1>1, <1>2, <1>4, <1>5, <1>6, <1>8, <1>9, <1>10, <1>11, <1>12, <1>13, AgentMove

(* A step that fails.                                                       *)
LEMMA FailureMoves ==
    ASSUME AgentInv, NEW c \in Clients, NEW v \in Conv, v = conv[c], v.run, v.todo # <<>>,
           faults \subseteq faults', readOnly' = readOnly, NEW w,
           NEW a \in {v.at, "none"}, NEW f \in {"none", "invalid", "fd"},
           w = [v EXCEPT !.todo = <<>>, !.res = "error", !.fd = f, !.at = a], Set(c, w),
           f = "fd" => "openat2" \in faults' /\ v.todo[Len(v.todo)] = "openat2"
    PROVE  Moved(c)
<1>1. /\ w.event = v.event /\ w.run = v.run /\ w.todo = <<>> /\ w.fs = v.fs /\ w.at = a
      /\ w.res = "error" /\ w.fd = f /\ w.sock = v.sock /\ w.fds = v.fds /\ w.done = v.done
  BY ZenonT(30) DEF Conv
<1>2. w \in Conv
  <2>1. a \in {"none", "tmp", "dev"} /\ <<>> \in Seq(OwnSteps \cup {"mktemp", "mountfs"})
    BY DEF Conv
  <2> QED
    BY <2>1, ZenonT(30) DEF Conv
<1>3. StepsOK(v) /\ ResultOK(v) /\ RunningOK(v) /\ EventOK(v)
  BY DEF AgentInv, AgentOK
<1>4. StepsOK(w) /\ ResultOK(w)'
  BY <1>1, <1>3 DEF StepsOK, ResultOK
<1>5. RunningOK(w)' /\ EndedOK(w)'
  BY <1>1, <1>3 DEF RunningOK, EndedOK, StepsOK
<1>6. EventOK(w)'
  BY <1>1, <1>3 DEF RunningOK, EventOK, StepsOK
<1>7. Carries(w) => Carries(v)
  BY <1>1, Rest DEF Carries, Conv
<1>8. ASSUME NEW g, Goal(v, g) PROVE Goal(w, g)'
  BY <1>1, <1>8 DEF Goal
<1> QED
  BY <1>1, <1>2, <1>4, <1>5, <1>6, <1>7, <1>8, AgentMove, ZenonT(30)


(* A step of processPayloadMounts() that is done.                           *)
LEMMA MountStepMoves ==
    ASSUME AgentInv, NEW c \in Clients, NEW v \in Conv, v = conv[c], v.run, v.todo # <<>>,
           Head(v.todo) \in {"mktemp", "mountfs"}, faults' = faults, readOnly' = readOnly, NEW w,
           NEW a \in {v.at, "tmp", "dev"}, w = [v EXCEPT !.todo = Tail(@), !.at = a], Set(c, w),
           a = "dev" => readOnly
    PROVE  Moved(c)
<1>1. /\ w.event = v.event /\ w.run = v.run /\ w.todo = Tail(v.todo) /\ w.fs = v.fs /\ w.at = a
      /\ w.res = v.res /\ w.fd = v.fd /\ w.sock = v.sock /\ w.fds = v.fds /\ w.done = v.done
  BY ZenonT(30) DEF Conv
<1>2. w \in Conv
  <2>1. a \in {"none", "tmp", "dev"}
    BY DEF Conv
  <2> QED
    BY <2>1, Rest, ZenonT(30) DEF Conv
<1>3. StepsOK(v) /\ ResultOK(v) /\ RunningOK(v) /\ EventOK(v)
  BY DEF AgentInv, AgentOK
<1>4. StepsOK(w)
  <2>1. /\ Len(v.todo) \in Nat /\ Len(Tail(v.todo)) = Len(v.todo) - 1
        /\ \A i \in 1..Len(Tail(v.todo)) : Tail(v.todo)[i] = v.todo[i + 1] /\ i + 1 \in 1..Len(v.todo)
    BY Rest DEF Conv
  <2>2. ASSUME NEW i \in 1..Len(w.todo)
        PROVE  /\ w.todo[i] \in Effects \cup {"openat2"} => i = Len(w.todo)
               /\ w.todo[i] # "mktemp"
               /\ w.todo[i] \in {"mktemp", "mountfs"} => w.fs # "none"
    <3>1. w.todo[i] = v.todo[i + 1] /\ i + 1 \in 1..Len(v.todo) /\ i \in Nat /\ i > 0
      BY <1>1, <2>1, <2>2
    <3> QED
      BY <1>1, <1>3, <2>1, <3>1, SMTT(30) DEF StepsOK
  <2> QED
    BY <1>1, <1>3, <2>2 DEF StepsOK
<1>5. ResultOK(w)'
  BY <1>1, <1>3 DEF StepsOK, ResultOK
<1>6. RunningOK(w)' /\ EndedOK(w)'
  BY <1>1, <1>3 DEF RunningOK, EndedOK
<1>7. EventOK(w)'
  BY <1>1, <1>3 DEF RunningOK, EventOK
<1>8. Carries(w) => Carries(v)
  BY <1>1, Rest DEF Carries, Conv
<1>9. ASSUME NEW g, Goal(v, g) PROVE Goal(w, g)'
  <2>1. Tail(v.todo) # <<>> => Tail(v.todo)[Len(Tail(v.todo))] = g
    BY <1>9, Rest DEF Goal, Conv
  <2> QED
    BY <1>1, <1>3, <1>9, <2>1 DEF Goal, StepsOK
<1> QED
  BY <1>1, <1>2, <1>4, <1>5, <1>6, <1>7, <1>8, <1>9, AgentMove, ZenonT(30)

(* processPayloadMounts() makes its directory, or fails to.                 *)
LEMMA MkdirTempMoves ==
    ASSUME AgentInv, NEW c \in Clients, MkdirTemp(c)
    PROVE  Moved(c)
<1>1. PICK v \in Conv : v = conv[c]
  BY DEF AgentInv
<1>2. /\ v.run /\ v.todo # <<>> /\ Head(v.todo) = "mktemp"
      /\ faults' = faults /\ readOnly' = readOnly
  BY <1>1 DEF MkdirTemp, AtStep
<1>3. CASE Set(c, [conv[c] EXCEPT !.todo = Tail(@), !.at = IF readOnly THEN "dev" ELSE "tmp"])
  BY <1>1, <1>2, <1>3, MountStepMoves, ZenonT(30)
<1>4. CASE Set(c, Failed(conv[c]))
  <2>1. PICK f : f = IF v.todo[Len(v.todo)] = "openat2" THEN LeftFd(Head(v.todo)) ELSE "none"
    OBVIOUS
  <2>2. f = "none"
    BY <1>2, <2>1 DEF LeftFd
  <2>3. Failed(v) = [v EXCEPT !.todo = <<>>, !.res = "error", !.fd = f, !.at = v.at]
    BY <2>1, ZenonT(30) DEF Failed, Conv
  <2> QED
    BY <1>1, <1>2, <1>4, <2>2, <2>3, FailureMoves, ZenonT(30)
<1> QED
  BY <1>3, <1>4 DEF MkdirTemp

(* It mounts the filesystem, ...                                            *)
LEMMA MountFsMoves ==
    ASSUME AgentInv, NEW c \in Clients, MountFs(c)
    PROVE  Moved(c)
<1>1. PICK v \in Conv : v = conv[c]
  BY DEF AgentInv
<1>2. /\ v.run /\ v.todo # <<>> /\ Head(v.todo) = "mountfs"
      /\ faults' = faults /\ readOnly' = readOnly
  BY <1>1 DEF MountFs, AtStep
<1>3. Set(c, [v EXCEPT !.todo = Tail(@), !.at = v.at])
  BY <1>1, ZenonT(30) DEF MountFs, Set, Conv
<1>4. v.at = "dev" => readOnly
  BY <1>1 DEF AgentInv, AgentOK, ResultOK
<1> QED
  BY <1>1, <1>2, <1>3, <1>4, MountStepMoves, ZenonT(30)

(* ... or fails to, and gives the directory up.                             *)
LEMMA MountFsFailsMoves ==
    ASSUME AgentInv, NEW c \in Clients, MountFsFails(c)
    PROVE  Moved(c)
<1>1. PICK v \in Conv : v = conv[c]
  BY DEF AgentInv
<1>2. /\ v.run /\ v.todo # <<>> /\ Head(v.todo) = "mountfs"
      /\ faults \subseteq faults' /\ readOnly' = readOnly
  BY <1>1 DEF MountFsFails, AtStep, Fault
<1>3. PICK f : f = IF v.todo[Len(v.todo)] = "openat2" THEN LeftFd(Head(v.todo)) ELSE "none"
  OBVIOUS
<1>4. f = "none"
  BY <1>2, <1>3 DEF LeftFd
<1>5. [Failed(v) EXCEPT !.at = "none"] = [v EXCEPT !.todo = <<>>, !.res = "error", !.fd = f, !.at = "none"]
  BY <1>3 DEF Failed, Conv
<1>6. Set(c, [Failed(v) EXCEPT !.at = "none"])
  BY <1>1 DEF MountFsFails
<1> QED
  BY <1>1, <1>2, <1>4, <1>5, <1>6, FailureMoves, ZenonT(30)

(* A step of the handler's own fails.                                       *)
LEMMA OperateFailsMoves ==
    ASSUME AgentInv, NEW c \in Clients, OperateFails(c)
    PROVE  Moved(c)
<1>1. PICK v \in Conv : v = conv[c]
  BY DEF AgentInv
<1>2. /\ v.run /\ v.todo # <<>> /\ Head(v.todo) \in OwnSteps
      /\ faults \subseteq faults' /\ readOnly' = readOnly
      /\ Head(v.todo) = "openat2" => "openat2" \in faults'
  BY <1>1 DEF OperateFails, AtStep, Fault
<1>3. PICK f : f = IF v.todo[Len(v.todo)] = "openat2" THEN LeftFd(Head(v.todo)) ELSE "none"
  OBVIOUS
<1>4. /\ f \in {"none", "invalid", "fd"}
      /\ f = "fd" => Head(v.todo) = "openat2" /\ v.todo[Len(v.todo)] = "openat2"
  BY <1>3 DEF LeftFd
<1>5. Failed(v) = [v EXCEPT !.todo = <<>>, !.res = "error", !.fd = f, !.at = v.at]
  BY <1>3, ZenonT(30) DEF Failed, Conv
<1>6. Set(c, Failed(v))
  BY <1>1 DEF OperateFails
<1> QED
  BY <1>1, <1>2, <1>4, <1>5, <1>6, FailureMoves, ZenonT(30)

(* The deferred cleanup().                                                  *)
LEMMA CleanupMoves ==
    ASSUME AgentInv, NEW c \in Clients, Cleanup(c)
    PROVE  Moved(c)
<1>1. PICK v \in Conv : v = conv[c]
  BY DEF AgentInv
<1>2. v.run /\ v.res # "none" /\ faults' = faults /\ readOnly' = readOnly
  BY <1>1 DEF Cleanup
<1>3. PICK w : w = [v EXCEPT !.at = "none"]
  BY ZenonT(30)
<1>4. Set(c, w)
  BY <1>1, <1>3 DEF Cleanup
<1>5. /\ w.event = v.event /\ w.run = v.run /\ w.todo = v.todo /\ w.fs = v.fs /\ w.at = "none"
      /\ w.res = v.res /\ w.fd = v.fd /\ w.sock = v.sock /\ w.fds = v.fds /\ w.done = v.done
  BY <1>3 DEF Conv
<1>6. w \in Conv
  BY <1>3 DEF Conv
<1>7. StepsOK(v) /\ ResultOK(v) /\ RunningOK(v) /\ EventOK(v)
  BY <1>1 DEF AgentInv, AgentOK
<1>8. StepsOK(w) /\ ResultOK(w)'
  BY <1>2, <1>5, <1>7 DEF StepsOK, ResultOK
<1>9. RunningOK(w)' /\ EndedOK(w)'
  BY <1>2, <1>5, <1>7 DEF RunningOK, EndedOK
<1>10. EventOK(w)'
  BY <1>2, <1>5, <1>7 DEF RunningOK, EventOK
<1>11. (Carries(w) => Carries(v)) /\ \A g : Goal(v, g) => Goal(w, g)'
  BY <1>2, <1>5 DEF Carries, Goal, Brings
<1> QED
  BY <1>1, <1>2, <1>4, <1>5, <1>6, <1>8, <1>9, <1>10, <1>11, AgentMove

(* Init() sends the descriptors, ...                                        *)
LEMMA SendRightsMoves ==
    ASSUME AgentInv, NEW c \in Clients, SendRights(c)
    PROVE  Moved(c)
<1>1. PICK v \in Conv : v = conv[c]
  BY DEF AgentInv
<1>2. /\ v.run /\ v.res # "none" /\ v.at = "none" /\ v.fd # "sent"
      /\ faults' = faults /\ readOnly' = readOnly
  BY <1>1 DEF SendRights
<1>3. StepsOK(v) /\ ResultOK(v) /\ RunningOK(v) /\ EventOK(v)
  BY <1>1 DEF AgentInv, AgentOK
<1>4. v.event = "sent" /\ v.sock = <<>> /\ v.todo = <<>>
  BY <1>2, <1>3 DEF RunningOK, StepsOK
<1>5. PICK s : s = IF v.fd = "invalid" THEN <<>> ELSE IF v.fd = "fd" THEN <<"fd">> ELSE <<"nofd">>
  BY ZenonT(30)
<1>6. PICK w : w = [v EXCEPT !.fd = "sent", !.sock = s]
  OBVIOUS
<1>7. Set(c, w)
  <2>1. s = IF v.fd = "invalid" THEN v.sock
            ELSE Append(v.sock, IF v.fd = "fd" THEN "fd" ELSE "nofd")
    BY <1>4, <1>5, Short
  <2> QED
    BY <1>1, <1>6, <2>1 DEF SendRights, Conv
<1>8. /\ w.event = v.event /\ w.run = v.run /\ w.todo = v.todo /\ w.fs = v.fs /\ w.at = v.at
      /\ w.res = v.res /\ w.fd = "sent" /\ w.sock = s /\ w.fds = v.fds /\ w.done = v.done
  BY <1>6 DEF Conv
<1>9. w \in Conv
  <2>1. \A a \in {"fd", "nofd"} : <<a>> \in Seq({"fd", "nofd", "ok", "error", "cut"})
    OBVIOUS
  <2>2. s \in Seq({"fd", "nofd", "ok", "error", "cut"})
    BY <1>4, <1>5, <2>1, ZenonT(30) DEF Conv
  <2> QED
    BY <1>6, <2>2, ZenonT(30) DEF Conv
<1>10. StepsOK(w) /\ ResultOK(w)'
  BY <1>2, <1>3, <1>4, <1>8 DEF StepsOK, ResultOK
<1>11. RunningOK(w)' /\ EndedOK(w)'
  <2>1. s = <<>> => v.res = "error"
    BY <1>3, <1>5, Short DEF ResultOK
  <2> QED
    BY <1>2, <1>4, <1>5, <1>8, <2>1 DEF RunningOK, EndedOK
<1>12. EventOK(w)'
  <2>1. s # <<>> /\ s[1] = "fd" => v.fd = "fd"
    BY <1>5, Short
  <2>2. w.event = "sent" /\ w.fds = 0
    BY <1>3, <1>4, <1>8 DEF EventOK
  <2> QED
    BY <1>2, <1>3, <1>8, <2>1, <2>2 DEF ResultOK, EventOK, Answers
<1>13. Carries(w) => Carries(v)
  BY <1>4, <1>5, <1>8, Short DEF Carries
<1>14. ASSUME NEW g, Goal(v, g) PROVE Goal(w, g)'
  <2>1. Brings(v) => Brings(w)
    BY <1>2, <1>4, <1>5, <1>8, Short DEF Brings
  <2> QED
    BY <1>2, <1>8, <1>14, <2>1 DEF Goal
<1> QED
  BY <1>1, <1>2, <1>7, <1>8, <1>9, <1>10, <1>11, <1>12, <1>13, <1>14, AgentMove

(* ... then the response, and the agent exits.                              *)
LEMMA SendResponseMoves ==
    ASSUME AgentInv, NEW c \in Clients, SendResponse(c)
    PROVE  Moved(c)
<1>1. PICK v \in Conv : v = conv[c]
  BY DEF AgentInv
<1>2. v.run /\ v.fd = "sent" /\ faults' = faults /\ readOnly' = readOnly
  BY <1>1 DEF SendResponse
<1>3. StepsOK(v) /\ ResultOK(v) /\ RunningOK(v) /\ EventOK(v)
  BY <1>1 DEF AgentInv, AgentOK
<1>4. v.res \in {"ok", "error"} /\ v.at = "none" /\ v.todo = <<>>
  BY <1>2, <1>3 DEF ResultOK, StepsOK, Conv
<1>5. PICK s : s = Append(v.sock, v.res)
  BY ZenonT(30)
<1>6. PICK w : w = [v EXCEPT !.run = FALSE, !.sock = s]
  OBVIOUS
<1>7. Set(c, w)
  BY <1>1, <1>5, <1>6 DEF SendResponse
<1>8. /\ w.event = v.event /\ w.run = FALSE /\ w.todo = v.todo /\ w.fs = v.fs /\ w.at = v.at
      /\ w.res = v.res /\ w.fd = v.fd /\ w.sock = s /\ w.fds = v.fds /\ w.done = v.done
  BY <1>6 DEF Conv
<1>9. w \in Conv
  <2>1. s \in Seq({"fd", "nofd", "ok", "error", "cut"})
    BY <1>4, <1>5 DEF Conv
  <2> QED
    BY <1>6, <2>1, ZenonT(30) DEF Conv
<1>10. StepsOK(w) /\ ResultOK(w)'
  BY <1>2, <1>3, <1>4, <1>8 DEF StepsOK, ResultOK
<1>11. \/ v.event = "sent" /\ s \in {<<"fd", v.res>>, <<"nofd", v.res>>} /\ v.sock # <<>> /\ s[1] = v.sock[1]
       \/ v.event = "sent" /\ s = <<"error">> /\ v.res = "error" /\ v.sock = <<>>
       \/ v.event = "rights" /\ s = <<v.res>> /\ v.sock = <<>>
  <2>1. CASE v.sock = <<>>
    BY <1>2, <1>3, <1>5, <2>1, Short DEF RunningOK
  <2>2. CASE v.sock = <<"fd">>
    BY <1>2, <1>3, <1>5, <2>2, Short DEF RunningOK
  <2>3. CASE v.sock = <<"nofd">>
    BY <1>2, <1>3, <1>5, <2>3, Short DEF RunningOK
  <2> QED
    BY <1>2, <1>3, <2>1, <2>2, <2>3 DEF RunningOK
<1>12. RunningOK(w)' /\ EndedOK(w)'
  BY <1>2, <1>8, <1>11 DEF RunningOK, EndedOK
<1>13. EventOK(w)'
  BY <1>2, <1>3, <1>8, <1>11, Short DEF EventOK, Answers
<1>14. s # <<>> /\ s[1] = "fd" => v.sock # <<>> /\ v.sock[1] = "fd"
  BY <1>4, <1>11, Short
<1>15. Carries(w) => Carries(v)
  BY <1>8, <1>14 DEF Carries
<1>16. ASSUME NEW g, Goal(v, g) PROVE Goal(w, g)'
  <2>1. Brings(v) => Brings(w)
    BY <1>2, <1>8, <1>11, Short DEF Brings
  <2> QED
    BY <1>2, <1>8, <1>16, <2>1 DEF Goal
<1> QED
  BY <1>1, <1>2, <1>7, <1>8, <1>9, <1>10, <1>12, <1>13, <1>15, <1>16, AgentMove

(* The agent is killed.                                                     *)
LEMMA KilledMoves ==
    ASSUME AgentInv, NEW c \in Clients, Killed(c)
    PROVE  Moved(c) /\ "killed" \in faults'
<1>1. PICK v \in Conv : v = conv[c]
  BY DEF AgentInv
<1>2. v.run /\ faults \subseteq faults' /\ "killed" \in faults' /\ readOnly' = readOnly
  BY <1>1 DEF Killed, Fault
<1>3. PICK w : w = [v EXCEPT !.run = FALSE]
  BY ZenonT(30)
<1>4. Set(c, w)
  BY <1>1, <1>3 DEF Killed
<1>5. /\ w.event = v.event /\ w.run = FALSE /\ w.todo = v.todo /\ w.fs = v.fs /\ w.at = v.at
      /\ w.res = v.res /\ w.fd = v.fd /\ w.sock = v.sock /\ w.fds = v.fds /\ w.done = v.done
  BY <1>3 DEF Conv
<1>6. w \in Conv
  BY <1>3, ZenonT(30) DEF Conv
<1>7. StepsOK(v) /\ ResultOK(v) /\ RunningOK(v) /\ EventOK(v)
  BY <1>1 DEF AgentInv, AgentOK
<1>8. StepsOK(w) /\ ResultOK(w)'
  BY <1>2, <1>5, <1>7 DEF StepsOK, ResultOK
<1>9. RunningOK(w)' /\ EndedOK(w)'
  BY <1>2, <1>5, <1>7 DEF RunningOK, EndedOK
<1>10. EventOK(w)'
  BY <1>2, <1>5, <1>7 DEF RunningOK, EventOK, Answers
<1>11. (Carries(w) => Carries(v)) /\ \A g : Goal(v, g) => Goal(w, g)'
  BY <1>2, <1>5 DEF Carries, Goal
<1> QED
  BY <1>1, <1>2, <1>4, <1>5, <1>6, <1>8, <1>9, <1>10, <1>11, AgentMove
-----------------------------------------------------------------------------
(* Which agents have a directory.                                           *)
LEMMA InTmpFinite == IsFiniteSet(InTmp) /\ Cardinality(InTmp) \in Nat
<1>1. InTmp \subseteq Clients
  BY DEF InTmp
<1>2. IsFiniteSet(InTmp)
  BY <1>1, FS_Subset, AgentAssumption
<1> QED
  BY <1>2, FS_CardinalityType

(* The root stays in order while no directory comes or goes.                *)
LEMMA RootKept ==
    ASSUME RootOK, \A d \in Clients : conv'[d].at = "tmp" <=> conv[d].at = "tmp",
           faults \subseteq faults', UNCHANGED <<tmpDirs, devWhole, readOnly>>
    PROVE  RootOK'
<1>1. InTmp' = InTmp
  BY DEF InTmp
<1> QED
  BY <1>1 DEF RootOK

(* A directory comes, ...                                                   *)
LEMMA MkdirTempRoot ==
    ASSUME AgentInv, NEW c \in Clients, MkdirTemp(c)
    PROVE  RootOK'
<1>1. PICK v \in Conv : v = conv[c]
  BY DEF AgentInv
<1>2. /\ v.run /\ v.todo # <<>> /\ Head(v.todo) = "mktemp"
      /\ UNCHANGED <<devWhole, readOnly, faults>>
  BY <1>1 DEF MkdirTemp, AtStep
<1>3. v.at = "none"
  BY <1>1, <1>2, Rest DEF AgentInv, AgentOK, StepsOK, Conv
<1>4. \A d \in Clients : d # c => conv'[d] = conv[d]
  BY SetConv DEF MkdirTemp, AgentInv
<1>5. CASE Set(c, Failed(conv[c])) /\ UNCHANGED tmpDirs
  <2>1. conv'[c] = Failed(v)
    BY <1>1, <1>5, SetConv DEF AgentInv
  <2>2. conv'[c].at = "none"
    BY <1>3, <2>1 DEF Failed, Conv
  <2> QED
    BY <1>1, <1>2, <1>3, <1>4, <1>5, <2>2, RootKept DEF AgentInv
<1>6. CASE /\ Set(c, [conv[c] EXCEPT !.todo = Tail(@), !.at = IF readOnly THEN "dev" ELSE "tmp"])
           /\ tmpDirs' = IF readOnly THEN tmpDirs ELSE tmpDirs + 1
  <2>1. conv'[c] = [v EXCEPT !.todo = Tail(@), !.at = IF readOnly THEN "dev" ELSE "tmp"]
    BY <1>1, <1>6, SetConv DEF AgentInv
  <2>2. conv'[c].at = IF readOnly THEN "dev" ELSE "tmp"
    BY <2>1 DEF Conv
  <2>3. CASE readOnly
    BY <1>1, <1>2, <1>3, <1>4, <1>6, <2>2, <2>3, RootKept DEF AgentInv
  <2>4. CASE ~readOnly
    <3>1. InTmp' = InTmp \cup {c} /\ c \notin InTmp
      BY <1>1, <1>3, <1>4, <2>2, <2>4 DEF InTmp
    <3>2. Cardinality(InTmp') = Cardinality(InTmp) + 1
      BY <3>1, InTmpFinite, FS_AddElement
    <3> QED
      BY <1>2, <1>6, <2>4, <3>2 DEF AgentInv, RootOK
  <2> QED
    BY <2>3, <2>4
<1> QED
  BY <1>5, <1>6 DEF MkdirTemp

(* ... is removed when sysfs cannot be mounted and stays when procfs cannot, ... *)
LEMMA MountFsFailsRoot ==
    ASSUME AgentInv, NEW c \in Clients, MountFsFails(c)
    PROVE  RootOK'
<1>1. PICK v \in Conv : v = conv[c]
  BY DEF AgentInv
<1>2. /\ v.run /\ v.todo # <<>> /\ Head(v.todo) = "mountfs" /\ readOnly' = readOnly
      /\ faults' = faults \cup {v.fs}
      /\ tmpDirs' = IF v.fs = "sysfs" /\ v.at = "tmp" THEN tmpDirs - 1 ELSE tmpDirs
      /\ devWhole' = (devWhole /\ ~(v.fs = "sysfs" /\ v.at = "dev"))
  BY <1>1 DEF MountFsFails, AtStep, Fault
<1>3. v.fs \in {"procfs", "sysfs"}
  BY <1>1, <1>2, Rest DEF AgentInv, AgentOK, StepsOK, Conv
<1>4. /\ conv'[c].at = "none"
      /\ \A d \in Clients : d # c => conv'[d] = conv[d]
  <2>1. conv'[c] = [Failed(v) EXCEPT !.at = "none"] /\ \A d \in Clients : d # c => conv'[d] = conv[d]
    BY <1>1, SetConv DEF MountFsFails, AgentInv
  <2> QED
    BY <2>1 DEF Failed, Conv
<1>5. devWhole' \/ (readOnly' /\ "sysfs" \in faults')
  BY <1>1, <1>2, ZenonT(30) DEF AgentInv, RootOK, AgentOK, ResultOK
<1>6. CASE v.fs = "procfs"
  BY <1>2, <1>5, <1>6 DEF RootOK
<1>7. CASE v.fs = "sysfs" /\ v.at = "tmp"
  <2>1. InTmp' = InTmp \ {c} /\ c \in InTmp
    BY <1>1, <1>4, <1>7 DEF InTmp
  <2>2. Cardinality(InTmp') = Cardinality(InTmp) - 1
    BY <2>1, InTmpFinite, FS_RemoveElement, SMTT(30)
  <2> QED
    BY <1>2, <1>5, <1>7, <2>2 DEF AgentInv, RootOK
<1>8. CASE v.fs = "sysfs" /\ v.at # "tmp"
  <2>1. InTmp' = InTmp
    BY <1>1, <1>4, <1>8 DEF InTmp
  <2> QED
    BY <1>2, <1>5, <1>8, <2>1 DEF AgentInv, RootOK
<1> QED
  BY <1>3, <1>6, <1>7, <1>8

(* ... and goes with cleanup().                                             *)
LEMMA CleanupRoot ==
    ASSUME AgentInv, NEW c \in Clients, Cleanup(c)
    PROVE  RootOK'
<1>1. PICK v \in Conv : v = conv[c]
  BY DEF AgentInv
<1>2. /\ tmpDirs' = IF v.at = "tmp" THEN tmpDirs - 1 ELSE tmpDirs
      /\ UNCHANGED <<devWhole, readOnly, faults>>
  BY <1>1 DEF Cleanup
<1>3. /\ conv'[c].at = "none"
      /\ \A d \in Clients : d # c => conv'[d] = conv[d]
  <2>1. conv'[c] = [v EXCEPT !.at = "none"] /\ \A d \in Clients : d # c => conv'[d] = conv[d]
    BY <1>1, SetConv DEF Cleanup, AgentInv
  <2> QED
    BY <2>1 DEF Conv
<1>4. CASE v.at = "tmp"
  <2>1. InTmp' = InTmp \ {c} /\ c \in InTmp
    BY <1>1, <1>3, <1>4 DEF InTmp
  <2>2. Cardinality(InTmp') = Cardinality(InTmp) - 1
    BY <2>1, InTmpFinite, FS_RemoveElement
  <2> QED
    BY <1>2, <1>4, <2>2 DEF AgentInv, RootOK
<1>5. CASE v.at # "tmp"
  BY <1>1, <1>2, <1>3, <1>5, RootKept DEF AgentInv
<1> QED
  BY <1>4, <1>5
-----------------------------------------------------------------------------
(* What a step of the conversation of client c leaves as it was.            *)
Stepped(c) ==
    /\ AgentInv'
    /\ \A d \in Clients : d # c => conv'[d] = conv[d]
    /\ conv[c].event \in {"sent", "rights"} /\ conv'[c].event # "none"
    /\ Carries(conv'[c]) => Carries(conv[c])
    /\ \A g : Goal(conv[c], g) => Goal(conv[c], g)'
    /\ faults \subseteq faults'
    /\ \/ conv'[c].fds = conv[c].fds /\ openFds' = openFds
       \/ /\ conv[c].fds = 0 /\ conv'[c].fds = 1 /\ openFds' = openFds + 1
          /\ Carries(conv[c]) /\ conv[c].event = "sent"

(* A step of the agent, ...                                                 *)
LEMMA MovedSteps ==
    ASSUME AgentInv, NEW c \in Clients, Moved(c), RootOK', openFds' = openFds, faults \subseteq faults'
    PROVE  Stepped(c)
<1>1. conv[c].event \in {"sent", "rights"}
  BY DEF AgentInv, AgentOK, RunningOK, Moved
<1>2. AgentInv'
  BY DEF AgentInv, Moved
<1>3. conv'[c].event # "none"
  BY <1>1 DEF Moved
<1> QED
  BY <1>1, <1>2, <1>3 DEF Stepped, Moved

(* ... one that leaves the root of the container alone, ...                 *)
LEMMA MovedInside ==
    ASSUME AgentInv, NEW c \in Clients, Moved(c), conv'[c].at = conv[c].at, faults \subseteq faults',
           UNCHANGED <<tmpDirs, devWhole, readOnly, openFds>>
    PROVE  Stepped(c)
<1>1. RootOK'
  BY RootKept DEF AgentInv, Moved
<1> QED
  BY <1>1, MovedSteps

(* ... and one of SendRequest(): the conversation changes to w.             *)
LEMMA ClientSteps ==
    ASSUME AgentInv, NEW c \in Clients, NEW v, NEW w \in Conv, v = conv[c], Set(c, w),
           v.event \in {"sent", "rights"}, w.event # "none", w.at = v.at,
           StepsOK(w), ResultOK(w), RunningOK(w), EndedOK(w), EventOK(w),
           Carries(w) => Carries(v), \A g : Goal(v, g) => Goal(w, g),
           UNCHANGED <<tmpDirs, devWhole, readOnly, faults>>,
           \/ w.fds = v.fds /\ openFds' = openFds
           \/ v.fds = 0 /\ w.fds = 1 /\ openFds' = openFds + 1 /\ Carries(v) /\ v.event = "sent"
    PROVE  Stepped(c)
<1>1. /\ conv' \in [Clients -> Conv] /\ conv'[c] = w
      /\ \A d \in Clients : d # c => conv'[d] = conv[d]
  BY SetConv DEF AgentInv
<1>2. ASSUME NEW d \in Clients PROVE AgentOK(d)'
  <2>1. CASE d = c
    BY <1>1, <2>1, SMTT(30) DEF AgentOK, StepsOK, ResultOK, RunningOK, EndedOK, EventOK
  <2>2. CASE d # c
    BY <1>1, <2>2, Elsewhere DEF AgentInv
  <2> QED
    BY <2>1, <2>2
<1>3. RootOK'
  BY <1>1, RootKept DEF AgentInv
<1>4. openFds' \in Int
  BY DEF AgentInv
<1>5. \A g : Goal(conv[c], g) => Goal(conv[c], g)'
  BY <1>1 DEF Goal, Brings
<1>6. AgentInv'
  BY <1>1, <1>2, <1>3, <1>4 DEF AgentInv
<1> QED
  BY <1>1, <1>5, <1>6 DEF Stepped

(* What is taken first, and what stays.                                     *)
LEMMA RightsTaken ==
    ASSUME NEW v \in Conv, v.event = "sent", v.sock # <<>> \/ ~v.run,
           RunningOK(v), EndedOK(v), ResultOK(v), NEW n, NEW s,
           n = (IF v.sock # <<>> /\ Head(v.sock) = "fd" THEN 1 ELSE 0),
           s = (IF v.sock = <<>> THEN <<>>
                ELSE IF Head(v.sock) \in {"fd", "nofd"} THEN Tail(v.sock)
                ELSE <<"cut">>)
    PROVE  /\ n \in {0, 1} /\ s \in Seq({"fd", "nofd", "ok", "error", "cut"})
           /\ n = 1 <=> v.sock # <<>> /\ v.sock[1] = "fd"
           /\ v.run => v.fd = "sent" /\ s = <<>>
           /\ ~v.run => \/ s = <<v.res>> /\ v.fd = "sent"
                        \/ s = <<"cut">> /\ v.res = "error" /\ n = 0
                        \/ s = <<>> /\ "killed" \in faults
           /\ v.fd = "sent" \/ "killed" \in faults
<1>1. v.res \in {"none", "ok", "error"}
  BY DEF Conv
<1>2. /\ <<>> \in Seq({"fd", "nofd", "ok", "error", "cut"})
      /\ \A a \in {"ok", "error", "cut"} : <<a>> \in Seq({"fd", "nofd", "ok", "error", "cut"})
  <2>1. <<>> \in Seq({"fd", "nofd", "ok", "error", "cut"})
    OBVIOUS
  <2>2. \A a \in {"ok", "error", "cut"} : <<a>> \in Seq({"fd", "nofd", "ok", "error", "cut"})
    OBVIOUS
  <2> QED
    BY <2>1, <2>2
<1>3. CASE v.sock = <<>>
  BY <1>3 DEF EndedOK, Conv
<1>4. CASE v.sock \in {<<"fd">>, <<"nofd">>}
  <2>1. PICK a \in {"fd", "nofd"} : v.sock = <<a>>
    BY <1>4
  <2>2. v.sock # <<>> /\ v.sock[1] = a /\ Head(v.sock) = a /\ Tail(v.sock) = <<>>
    BY <2>1, Short
  <2>3. s = <<>> /\ (n = 1 <=> a = "fd") /\ n \in {0, 1}
    BY <2>2
  <2>4. v.run => v.fd = "sent"
    BY <2>2 DEF RunningOK
  <2>5. ~v.run => "killed" \in faults
    BY <2>1, Short DEF EndedOK
  <2>6. s \in Seq({"fd", "nofd", "ok", "error", "cut"})
    BY <1>2, <2>3, Zenon
  <2> QED
    BY <2>2, <2>3, <2>4, <2>5, <2>6
<1>5. CASE v.sock \in {<<"fd", v.res>>, <<"nofd", v.res>>}
  <2>1. PICK a \in {"fd", "nofd"} : v.sock = <<a, v.res>>
    BY <1>5
  <2>2. /\ v.sock # <<>> /\ v.sock[1] = a /\ Head(v.sock) = a /\ Tail(v.sock) = <<v.res>>
        /\ v.sock # <<"fd">> /\ v.sock # <<"nofd">> /\ v.sock # <<"error">>
    BY <2>1, Short
  <2>3. ~v.run /\ v.fd = "sent"
    BY <2>2 DEF RunningOK, EndedOK
  <2>4. v.res \in {"ok", "error"}
    BY <1>1, <2>3 DEF ResultOK
  <2>5. s = <<v.res>> /\ (n = 1 <=> a = "fd") /\ n \in {0, 1}
    BY <2>2
  <2>6. s \in Seq({"fd", "nofd", "ok", "error", "cut"})
    BY <1>2, <2>4, <2>5, ZenonT(30)
  <2> QED
    BY <2>2, <2>3, <2>5, <2>6
<1>6. CASE v.sock = <<"error">>
  BY <1>1, <1>2, <1>6, Short DEF RunningOK, EndedOK
<1> QED
  BY <1>3, <1>4, <1>5, <1>6 DEF RunningOK, EndedOK

(* getRespFileDescriptors().                                                *)
LEMMA GetRespSteps ==
    ASSUME AgentInv, NEW c \in Clients, getRespFileDescriptors(c)
    PROVE  Stepped(c)
<1>1. PICK v \in Conv : v = conv[c]
  BY DEF AgentInv
<1>2. /\ v.event = "sent" /\ (v.sock # <<>> \/ ~v.run)
      /\ UNCHANGED <<tmpDirs, devWhole, readOnly, faults>>
  BY <1>1 DEF getRespFileDescriptors
<1>3. PICK n : n = IF v.sock # <<>> /\ Head(v.sock) = "fd" THEN 1 ELSE 0
  OBVIOUS
<1>4. PICK s : s = IF v.sock = <<>> THEN <<>>
                   ELSE IF Head(v.sock) \in {"fd", "nofd"} THEN Tail(v.sock)
                   ELSE <<"cut">>
  BY ZenonT(30)
<1>5. PICK w : w = [v EXCEPT !.event = "rights", !.fds = n, !.sock = s]
  OBVIOUS
<1>6. Set(c, w) /\ openFds' = openFds + n
  BY <1>1, <1>3, <1>4, <1>5 DEF getRespFileDescriptors
<1>7. /\ w.event = "rights" /\ w.run = v.run /\ w.todo = v.todo /\ w.fs = v.fs /\ w.at = v.at
      /\ w.res = v.res /\ w.fd = v.fd /\ w.sock = s /\ w.fds = n /\ w.done = v.done
  BY <1>5 DEF Conv
<1>8. StepsOK(v) /\ ResultOK(v) /\ RunningOK(v) /\ EndedOK(v) /\ EventOK(v)
  BY <1>1 DEF AgentInv, AgentOK
<1>9. /\ n \in {0, 1} /\ s \in Seq({"fd", "nofd", "ok", "error", "cut"})
      /\ n = 1 <=> v.sock # <<>> /\ v.sock[1] = "fd"
      /\ v.run => v.fd = "sent" /\ s = <<>>
      /\ ~v.run => \/ s = <<v.res>> /\ v.fd = "sent"
                   \/ s = <<"cut">> /\ v.res = "error" /\ n = 0
                   \/ s = <<>> /\ "killed" \in faults
      /\ v.fd = "sent" \/ "killed" \in faults
  BY <1>2, <1>3, <1>4, <1>8, RightsTaken, ZenonT(30)
<1>10. w \in Conv
  BY <1>5, <1>9, ZenonT(30) DEF Conv
<1>11. StepsOK(w) /\ ResultOK(w) /\ RunningOK(w) /\ EndedOK(w)
  BY <1>7, <1>8, <1>9 DEF StepsOK, ResultOK, RunningOK, EndedOK
<1>12. EventOK(w)
  BY <1>2, <1>7, <1>8, <1>9 DEF EventOK, Answers
<1>13. Carries(w) => Carries(v)
  <2>1. s # <<>> => s[1] # "fd"
    BY <1>9, Short DEF Conv
  <2> QED
    BY <1>7, <1>9, <2>1 DEF Carries
<1>14. ASSUME NEW g, Goal(v, g) PROVE Goal(w, g)
  <2>1. Brings(v) => Brings(w) \/ "killed" \in faults
    BY <1>2, <1>7, <1>9 DEF Brings
  <2> QED
    BY <1>7, <1>14, <2>1 DEF Goal
<1>15. v.fds = 0
  BY <1>2, <1>8 DEF EventOK
<1>16. \/ w.fds = v.fds /\ openFds' = openFds
       \/ v.fds = 0 /\ w.fds = 1 /\ openFds' = openFds + 1 /\ Carries(v) /\ v.event = "sent"
  <2>1. CASE n = 0
    BY <1>6, <1>7, <1>15, <2>1 DEF AgentInv
  <2>2. CASE n = 1
    BY <1>2, <1>6, <1>7, <1>9, <1>15, <2>2 DEF Carries
  <2> QED
    BY <1>9, <2>1, <2>2
<1> QED
  BY <1>1, <1>2, <1>6, <1>7, <1>10, <1>11, <1>12, <1>13, <1>14, <1>16, ClientSteps

(* processResponse().                                                       *)
LEMMA ProcessResponseSteps ==
    ASSUME AgentInv, NEW c \in Clients, processResponse(c)
    PROVE  Stepped(c)
<1>1. PICK v \in Conv : v = conv[c]
  BY DEF AgentInv
<1>2. /\ v.event = "rights" /\ (v.sock # <<>> \/ ~v.run)
      /\ UNCHANGED <<tmpDirs, devWhole, readOnly, openFds, faults>>
  BY <1>1 DEF processResponse
<1>3. StepsOK(v) /\ ResultOK(v) /\ RunningOK(v) /\ EndedOK(v) /\ EventOK(v)
  BY <1>1 DEF AgentInv, AgentOK
<1>4. PICK e : e = IF v.sock = <<>> \/ Head(v.sock) = "cut" THEN "infra" ELSE Head(v.sock)
  OBVIOUS
<1>5. ~v.run
  BY <1>2, <1>3 DEF RunningOK
<1>6. \/ e = v.res /\ v.res \in {"ok", "error"} /\ v.fd = "sent"
      \/ e = "infra" /\ v.res = "error" /\ v.fds = 0
      \/ e = "infra" /\ "killed" \in faults
  <2>1. CASE v.sock = <<v.res>> /\ v.fd = "sent"
    <3>1. v.res \in {"ok", "error"}
      BY <1>3, <2>1 DEF ResultOK, Conv
    <3> QED
      BY <1>4, <2>1, <3>1, Short
  <2>2. CASE v.sock = <<"cut">> /\ v.res = "error" /\ v.fds = 0
    BY <1>4, <2>2, Short
  <2>3. CASE v.sock = <<>> /\ "killed" \in faults
    BY <1>4, <2>3
  <2> QED
    BY <1>2, <1>3, <1>5, <2>1, <2>2, <2>3 DEF EndedOK
<1>7. PICK w : w = [v EXCEPT !.event = e, !.sock = <<>>]
  OBVIOUS
<1>8. Set(c, w)
  BY <1>1, <1>4, <1>7 DEF processResponse
<1>9. /\ w.event = e /\ w.run = v.run /\ w.todo = v.todo /\ w.fs = v.fs /\ w.at = v.at
      /\ w.res = v.res /\ w.fd = v.fd /\ w.sock = <<>> /\ w.fds = v.fds /\ w.done = v.done
  BY <1>7 DEF Conv
<1>10. w \in Conv
  <2>1. e \in Answers /\ <<>> \in Seq({"fd", "nofd", "ok", "error", "cut"})
    BY <1>6 DEF Answers
  <2> QED
    BY <1>7, <2>1, ZenonT(30) DEF Conv
<1>11. StepsOK(w) /\ ResultOK(w) /\ RunningOK(w) /\ EndedOK(w)
  BY <1>3, <1>5, <1>6, <1>9 DEF StepsOK, ResultOK, RunningOK, EndedOK
<1>12. EventOK(w)
  BY <1>3, <1>6, <1>9 DEF EventOK, ResultOK, Answers
<1>13. Carries(w) => Carries(v)
  BY <1>9 DEF Carries
<1>14. ASSUME NEW g, Goal(v, g) PROVE Goal(w, g)
  <2>1. v.res = "ok" /\ Brings(v) => Brings(w) \/ "killed" \in faults
    BY <1>2, <1>6, <1>9 DEF Brings
  <2> QED
    BY <1>9, <1>14, <2>1 DEF Goal
<1> QED
  BY <1>1, <1>2, <1>6, <1>8, <1>9, <1>10, <1>11, <1>12, <1>13, <1>14, ClientSteps DEF Answers

(* Every step of an agent or of the client that waits for it.               *)
LEMMA ConverseSteps ==
    ASSUME AgentInv, NEW c \in Clients, Converse(c) \/ Killed(c)
    PROVE  Stepped(c)
<1>1. CASE MkdirTemp(c)
  BY <1>1, MkdirTempMoves, MkdirTempRoot, MovedSteps, ZenonT(30) DEF MkdirTemp
<1>2. CASE MountFs(c)
  <2>1. PICK v \in Conv : v = conv[c]
    BY DEF AgentInv
  <2>2. conv'[c].at = v.at
    BY <1>2, <2>1, SetConv DEF MountFs, AgentInv, Conv
  <2> QED
    BY <1>2, <2>1, <2>2, MountFsMoves, MovedInside DEF MountFs
<1>3. CASE MountFsFails(c)
  BY <1>3, MountFsFailsMoves, MountFsFailsRoot, MovedSteps DEF MountFsFails, Fault
<1>4. CASE Operate(c)
  <2>1. PICK v \in Conv : v = conv[c]
    BY DEF AgentInv
  <2>2. conv'[c].at = v.at
    <3>1. conv'[c] = [[v EXCEPT !.done = @ \cup ({Head(v.todo)} \cap Effects),
                          !.fd = IF Head(v.todo) = "openat2" THEN "fd" ELSE @]
                 EXCEPT !.todo = Tail(@), !.res = IF Len([v EXCEPT !.done = @ \cup ({Head(v.todo)} \cap Effects),
                          !.fd = IF Head(v.todo) = "openat2" THEN "fd" ELSE @].todo) = 1 THEN "ok" ELSE @]
      BY <1>4, <2>1, SetConv DEF Operate, Advance, AgentInv
    <3> QED
      BY <3>1 DEF Conv
  <2> QED
    BY <1>4, <2>1, <2>2, OperateMoves, MovedInside, ZenonT(30) DEF Operate
<1>5. CASE OperateFails(c)
  <2>1. PICK v \in Conv : v = conv[c]
    BY DEF AgentInv
  <2>2. conv'[c].at = v.at
    <3>1. conv'[c] = Failed(v)
      BY <1>5, <2>1, SetConv DEF OperateFails, AgentInv
    <3> QED
      BY <3>1 DEF Failed, Conv
  <2> QED
    BY <1>5, <2>1, <2>2, OperateFailsMoves, MovedInside DEF OperateFails, Fault
<1>6. CASE Cleanup(c)
  BY <1>6, CleanupMoves, CleanupRoot, MovedSteps DEF Cleanup
<1>7. CASE SendRights(c)
  <2>1. PICK v \in Conv : v = conv[c]
    BY DEF AgentInv
  <2>2. conv'[c].at = v.at
    <3>1. conv'[c] = [v EXCEPT !.fd = "sent",
                            !.sock = IF v.fd = "invalid" THEN @
                                     ELSE Append(@, IF v.fd = "fd" THEN "fd" ELSE "nofd")]
      BY <1>7, <2>1, SetConv DEF SendRights, AgentInv
    <3> QED
      BY <3>1 DEF Conv
  <2> QED
    BY <1>7, <2>1, <2>2, SendRightsMoves, MovedInside, ZenonT(30) DEF SendRights
<1>8. CASE SendResponse(c)
  <2>1. PICK v \in Conv : v = conv[c]
    BY DEF AgentInv
  <2>2. conv'[c].at = v.at
    <3>1. conv'[c] = [v EXCEPT !.run = FALSE, !.sock = Append(@, v.res)]
      BY <1>8, <2>1, SetConv DEF SendResponse, AgentInv
    <3> QED
      BY <3>1 DEF Conv
  <2> QED
    BY <1>8, <2>1, <2>2, SendResponseMoves, MovedInside, ZenonT(30) DEF SendResponse
<1>9. CASE Killed(c)
  <2>1. PICK v \in Conv : v = conv[c]
    BY DEF AgentInv
  <2>2. conv'[c].at = v.at
    BY <1>9, <2>1, SetConv DEF Killed, AgentInv, Conv
  <2> QED
    BY <1>9, <2>1, <2>2, KilledMoves, MovedInside DEF Killed, Fault
<1> QED
  BY <1>1, <1>2, <1>3, <1>4, <1>5, <1>6, <1>7, <1>8, <1>9, GetRespSteps, ProcessResponseSteps DEF Converse
-----------------------------------------------------------------------------
(* A new conversation, and one that is over.                                *)
LEMMA ClosedOK ==
    /\ Closed \in Conv /\ ~Carries(Closed)
    /\ StepsOK(Closed) /\ ResultOK(Closed) /\ RunningOK(Closed) /\ EndedOK(Closed) /\ EventOK(Closed)
<1>1. /\ Closed.event = "none" /\ Closed.run = FALSE /\ Closed.todo = <<>> /\ Closed.fs = "none"
      /\ Closed.at = "none" /\ Closed.res = "none" /\ Closed.fd = "none" /\ Closed.sock = <<>>
      /\ Closed.fds = 0 /\ Closed.done = {}
  BY DEF Closed
<1>2. Closed \in Conv
  BY DEF Closed, Conv
<1>3. Len(<<>>) = 0
  OBVIOUS
<1>4. ~Carries(Closed)
  BY <1>1, <1>3 DEF Carries
<1>5. StepsOK(Closed) /\ ResultOK(Closed) /\ RunningOK(Closed) /\ EndedOK(Closed)
  BY <1>1, <1>3 DEF StepsOK, ResultOK, RunningOK, EndedOK
<1>6. EventOK(Closed)
  BY <1>1 DEF EventOK, Answers
<1> QED
  BY <1>2, <1>4, <1>5, <1>6

(* Sequences of one element, ...                                            *)
LEMMA One == ASSUME NEW S, NEW a \in S
             PROVE  <<a>> \in Seq(S) /\ Len(<<a>>) = 1 /\ <<a>>[1] = a /\ <<a>> # <<>>
OBVIOUS

(* ... of two, ...                                                          *)
LEMMA Two == ASSUME NEW S, NEW a \in S, NEW b \in S
             PROVE  /\ <<a, b>> \in Seq(S) /\ Len(<<a, b>>) = 2 /\ <<a, b>>[1] = a /\ <<a, b>>[2] = b
                    /\ <<a, b>> # <<>>
OBVIOUS

(* ... of three, ...                                                        *)
LEMMA Three == ASSUME NEW S, NEW a \in S, NEW b \in S, NEW d \in S
               PROVE  /\ <<a, b, d>> \in Seq(S) /\ Len(<<a, b, d>>) = 3
                      /\ <<a, b, d>>[1] = a /\ <<a, b, d>>[2] = b /\ <<a, b, d>>[3] = d
                      /\ <<a, b, d>> # <<>>
OBVIOUS

(* ... and two that are joined.                                             *)
LEMMA Joined == ASSUME NEW S, NEW p \in Seq(S), NEW q \in Seq(S)
                PROVE  p \o q \in Seq(S) /\ Len(p \o q) = Len(p) + Len(q)
OBVIOUS

(* The requests, and the steps of their handlers.                           *)
FileTypes == {"lookup", "open", "read", "write", "readdir", "readlink"}
SyscallTypes == {"setxattr", "getxattr", "removexattr", "listxattr", "openat2"}
Steps == OwnSteps \cup {"mktemp", "mountfs"}

(* The steps s of an agent that is told to mount fs are in order.           *)
Planned(s, fs) ==
    /\ s \in Seq(Steps) /\ s # <<>>
    /\ \A i \in 1..Len(s) :
           /\ s[i] \in Effects \cup {"openat2"} => i = Len(s)
           /\ s[i] = "mktemp" => i = 1
           /\ s[i] \in {"mktemp", "mountfs"} => fs # "none"

(* The steps of a file operation: mounting, then its own.                   *)
LEMMA AfterMounts ==
    ASSUME NEW fs, NEW q \in Seq(OwnSteps \ {"openat2"}), q # <<>>,
           \A i \in 1..Len(q) : q[i] \in Effects => i = Len(q)
    PROVE  Planned(Mounts(fs) \o q, fs) /\ \A i \in 1..Len(Mounts(fs) \o q) : (Mounts(fs) \o q)[i] # "openat2"
<1>1. q \in Seq(Steps) /\ Len(q) \in Nat /\ Len(q) > 0 /\ \A i \in 1..Len(q) : q[i] \in OwnSteps \ {"openat2"}
  <2>1. \A i \in 1..Len(q) : q[i] \in OwnSteps \ {"openat2"}
    OBVIOUS
  <2>2. \A i \in 1..Len(q) : q[i] \in Steps
    BY <2>1 DEF Steps
  <2>3. Len(q) \in Nat /\ Len(q) > 0
    OBVIOUS
  <2> QED
    BY <2>1, <2>2, <2>3
<1>2. CASE fs = "none"
  <2>1. Mounts(fs) \o q = q
    BY <1>1, <1>2 DEF Mounts
  <2> QED
    BY <1>1, <2>1 DEF Planned, OwnSteps
<1>3. CASE fs # "none"
  <2>1. PICK p : p = <<"mktemp", "mountfs">>
    BY ZenonT(30)
  <2>2. p \in Seq(Steps) /\ Len(p) = 2 /\ p[1] = "mktemp" /\ p[2] = "mountfs"
    BY <2>1 DEF Steps
  <2>3. PICK s : s = p \o q
    BY ZenonT(30)
  <2>4. Mounts(fs) \o q = s
    BY <1>3, <2>1, <2>3 DEF Mounts
  <2>5. s \in Seq(Steps) /\ Len(s) = Len(q) + 2
    <3>1. s \in Seq(Steps) /\ Len(s) = Len(p) + Len(q)
      BY <1>1, <2>2, <2>3, Joined, ZenonT(30)
    <3> QED
      BY <1>1, <2>2, <3>1
  <2>6. s[1] = "mktemp" /\ s[2] = "mountfs" /\ \A i \in 1..Len(s) : i > 2 => s[i] = q[i - 2] /\ i - 2 \in 1..Len(q)
    BY <1>1, <2>2, <2>3, <2>5
  <2>7. s # <<>>
    BY <1>1, <2>5
  <2>8. ASSUME NEW i \in 1..Len(s)
        PROVE  /\ s[i] \in Effects \cup {"openat2"} => i = Len(s)
               /\ s[i] = "mktemp" => i = 1
               /\ s[i] # "openat2"
    <3>1. CASE i = 1
      BY <2>6, <3>1 DEF Effects
    <3>2. CASE i = 2
      BY <2>6, <3>2 DEF Effects
    <3>3. CASE i > 2
      <4>1. s[i] = q[i - 2] /\ i - 2 \in 1..Len(q)
        BY <2>6, <3>3
      <4>2. q[i - 2] # "openat2" /\ q[i - 2] # "mktemp" /\ (q[i - 2] \in Effects => i - 2 = Len(q))
        BY <1>1, <4>1 DEF OwnSteps
      <4> QED
        BY <1>1, <2>5, <3>3, <4>1, <4>2
    <3> QED
      BY <1>1, <2>5, <3>1, <3>2, <3>3
  <2> QED
    BY <1>3, <2>4, <2>5, <2>7, <2>8 DEF Planned
<1> QED
  BY <1>2, <1>3

(* Every request is a plan: none opens a descriptor for a file operation,   *)
(* and a syscall's is nothing but what the syscall is about.                *)
LEMMA PlanOf ==
    ASSUME NEW type \in FileTypes \cup SyscallTypes, NEW fs, NEW s, s = processRequest(type, fs)
    PROVE  /\ Planned(s, fs)
           /\ type # "openat2" => \A i \in 1..Len(s) : s[i] # "openat2"
           /\ type \in SyscallTypes => s[Len(s)] = type
<1> DEFINE Q == Seq(OwnSteps \ {"openat2"})
<1>1. CASE type \in FileTypes
  <2>1. PICK q : /\ q \in {<<"lstat">>, <<"open">>, <<"open", "read">>, <<"open", "write">>, <<"readdir">>, <<"readlink">>}
                 /\ s = Mounts(fs) \o q
    BY <1>1, ZenonT(30) DEF FileTypes, processRequest, processLookupRequest, processOpenFileRequest, processFileReadRequest,
       processFileWriteRequest, processDirReadRequest, processReadLinkRequest
  <2>2. q \in Q /\ q # <<>> /\ \A i \in 1..Len(q) : q[i] \in Effects => i = Len(q)
    <3>1. CASE q \in {<<"lstat">>, <<"open">>, <<"readdir">>, <<"readlink">>}
      <4>1. PICK a \in {"lstat", "open", "readdir", "readlink"} : q = <<a>>
        BY <3>1
      <4>2. a \in OwnSteps \ {"openat2"}
        BY DEF OwnSteps
      <4>3. q \in Q /\ Len(q) = 1 /\ q # <<>>
        BY <4>1, <4>2, One
      <4> QED
        BY <4>3
    <3>2. CASE q \in {<<"open", "read">>, <<"open", "write">>}
      <4>1. PICK b \in {"read", "write"} : q = <<"open", b>>
        BY <3>2
      <4>2. b \in OwnSteps \ {"openat2"} /\ "open" \in OwnSteps \ {"openat2"}
        BY DEF OwnSteps
      <4>3. q \in Q /\ Len(q) = 2 /\ q[1] = "open" /\ q # <<>>
        BY <4>1, <4>2, Two
      <4>4. \A i \in 1..Len(q) : i = 1 \/ i = Len(q)
        BY <4>3
      <4> QED
        BY <4>3, <4>4 DEF Effects
    <3> QED
      BY <2>1, <3>1, <3>2
  <2> QED
    BY <1>1, <2>1, <2>2, AfterMounts, ZenonT(30) DEF FileTypes, SyscallTypes
<1>2. CASE type = "setxattr"
  <2>1. s = <<"setxattr">>
    BY <1>2 DEF processRequest, processSetxattrSyscallRequest
  <2>2. "setxattr" \in Steps
    BY DEF Steps, OwnSteps
  <2>3. s \in Seq(Steps) /\ Len(s) = 1 /\ s[1] = "setxattr" /\ s # <<>>
    BY <2>1, <2>2, One
  <2>4. \A i \in 1..Len(s) : i = 1
    BY <2>3
  <2> QED
    BY <1>2, <2>3, <2>4 DEF Planned, Effects, SyscallTypes
<1>3. CASE type = "removexattr"
  <2>1. s = <<"removexattr">>
    BY <1>3 DEF processRequest, processRemovexattrSyscallRequest
  <2>2. "removexattr" \in Steps
    BY DEF Steps, OwnSteps
  <2>3. s \in Seq(Steps) /\ Len(s) = 1 /\ s[1] = "removexattr" /\ s # <<>>
    BY <2>1, <2>2, One
  <2>4. \A i \in 1..Len(s) : i = 1
    BY <2>3
  <2> QED
    BY <1>3, <2>3, <2>4 DEF Planned, Effects, SyscallTypes
<1>4. CASE type = "getxattr"
  <2>1. s = <<"personality", "getxattr">>
    BY <1>4 DEF processRequest, processGetxattrSyscallRequest
  <2>2. "personality" \in Steps /\ "getxattr" \in Steps
    BY DEF Steps, OwnSteps
  <2>3. s \in Seq(Steps) /\ Len(s) = 2 /\ s[1] = "personality" /\ s[2] = "getxattr" /\ s # <<>>
    BY <2>1, <2>2, Two
  <2>4. \A i \in 1..Len(s) : i = 1 \/ i = 2
    BY <2>3
  <2> QED
    BY <1>4, <2>3, <2>4 DEF Planned, Effects, SyscallTypes
<1>5. CASE type = "listxattr"
  <2>1. s = <<"personality", "listxattr">>
    BY <1>5 DEF processRequest, processListxattrSyscallRequest
  <2>2. "personality" \in Steps /\ "listxattr" \in Steps
    BY DEF Steps, OwnSteps
  <2>3. s \in Seq(Steps) /\ Len(s) = 2 /\ s[1] = "personality" /\ s[2] = "listxattr" /\ s # <<>>
    BY <2>1, <2>2, Two
  <2>4. \A i \in 1..Len(s) : i = 1 \/ i = 2
    BY <2>3
  <2> QED
    BY <1>5, <2>3, <2>4 DEF Planned, Effects, SyscallTypes
<1>6. CASE type = "openat2"
  <2>1. s = <<"statfs", "personality", "openat2">>
    BY <1>6 DEF processRequest, processOpenat2SyscallRequest
  <2>2. "statfs" \in Steps /\ "personality" \in Steps /\ "openat2" \in Steps
    BY DEF Steps, OwnSteps
  <2>3. s \in Seq(Steps) /\ Len(s) = 3 /\ s[1] = "statfs" /\ s[2] = "personality" /\ s[3] = "openat2" /\ s # <<>>
    BY <2>1, <2>2, Three
  <2>4. \A i \in 1..Len(s) : i = 1 \/ i = 2 \/ i = 3
    BY <2>3
  <2> QED
    BY <1>6, <2>3, <2>4, SMTT(30) DEF Planned, Effects, SyscallTypes
<1> QED
  BY <1>1, <1>2, <1>3, <1>4, <1>5, <1>6 DEF SyscallTypes

(* SendRequest() begins a conversation that is in order.                    *)
LEMMA SendStarts ==
    ASSUME AgentInv, NEW c \in Clients, NEW type \in FileTypes \cup SyscallTypes,
           NEW fs \in {"none", "procfs", "sysfs"}, SendRequest(c, type, fs),
           UNCHANGED <<tmpDirs, devWhole, readOnly, openFds, faults>>
    PROVE  /\ AgentInv' /\ \A d \in Clients : d # c => conv'[d] = conv[d]
           /\ conv[c] = Closed /\ conv'[c].event # "none" /\ conv'[c].fds = 0
           /\ type # "openat2" => ~Carries(conv'[c])
           /\ type \in SyscallTypes => Goal(conv[c], type)'
<1>1. PICK s : s = processRequest(type, fs)
  OBVIOUS
<1>2. /\ Planned(s, fs)
      /\ type # "openat2" => \A i \in 1..Len(s) : s[i] # "openat2"
      /\ type \in SyscallTypes => s[Len(s)] = type
  BY <1>1, PlanOf
<1>3. ASSUME NEW w \in Conv, Set(c, w), w.at = "none",
             StepsOK(w), ResultOK(w), RunningOK(w), EndedOK(w), EventOK(w)
      PROVE  AgentInv' /\ conv'[c] = w /\ \A d \in Clients : d # c => conv'[d] = conv[d]
  <2>1. /\ conv' \in [Clients -> Conv] /\ conv'[c] = w
        /\ \A d \in Clients : d # c => conv'[d] = conv[d]
    BY <1>3, SetConv DEF AgentInv
  <2>2. AgentOK(c)'
    BY <1>3, <2>1, SMTT(30) DEF AgentOK, StepsOK, ResultOK, RunningOK, EndedOK, EventOK
  <2>3. \A d \in Clients : AgentOK(d)'
    BY <2>1, <2>2, Elsewhere DEF AgentInv
  <2>4. RootOK'
    <3>1. conv[c].at = "none"
      BY DEF SendRequest, Closed
    <3> QED
      BY <1>3, <2>1, <3>1, RootKept DEF AgentInv
  <2> QED
    BY <2>1, <2>3, <2>4 DEF AgentInv
<1>4. CASE Set(c, [Closed EXCEPT !.event = "sent", !.run = TRUE, !.fs = fs,
                                 !.todo = processRequest(type, fs)])
  <2>1. PICK w : w = [Closed EXCEPT !.event = "sent", !.run = TRUE, !.fs = fs, !.todo = s]
    OBVIOUS
  <2>2. /\ w.event = "sent" /\ w.run = TRUE /\ w.todo = s /\ w.fs = fs /\ w.at = "none" /\ w.res = "none"
        /\ w.fd = "none" /\ w.sock = <<>> /\ w.fds = 0 /\ w.done = {}
    BY <2>1 DEF Closed
  <2>3. w \in Conv
    <3>1. s \in Seq(OwnSteps \cup {"mktemp", "mountfs"})
      BY <1>2 DEF Planned, Steps
    <3> QED
      BY <2>1, <3>1, ClosedOK, ZenonT(30) DEF Conv
  <2>4. StepsOK(w)
    BY <1>2, <2>2 DEF StepsOK, Planned
  <2>5. ResultOK(w) /\ RunningOK(w) /\ EndedOK(w)
    BY <2>2 DEF ResultOK, RunningOK, EndedOK
  <2>6. EventOK(w)
    BY <2>2 DEF EventOK, Answers
  <2>7. AgentInv' /\ conv'[c] = w /\ \A d \in Clients : d # c => conv'[d] = conv[d]
    BY <1>1, <1>3, <1>4, <2>1, <2>2, <2>3, <2>4, <2>5, <2>6, ZenonT(30)
  <2>8. type # "openat2" => ~Carries(w)
    BY <1>2, <2>2 DEF Carries
  <2>9. type \in SyscallTypes => Goal(w, type)
    BY <1>2, <2>2 DEF Goal
  <2> QED
    BY <2>2, <2>7, <2>8, <2>9 DEF SendRequest, Goal
<1>5. CASE Set(c, [Closed EXCEPT !.event = "infra"])
  <2>1. PICK w : w = [Closed EXCEPT !.event = "infra"]
    BY ZenonT(30)
  <2>2. /\ w.event = "infra" /\ w.run = FALSE /\ w.todo = <<>> /\ w.fs = "none" /\ w.at = "none" /\ w.res = "none"
        /\ w.fd = "none" /\ w.sock = <<>> /\ w.fds = 0 /\ w.done = {}
    BY <2>1 DEF Closed
  <2>3. w \in Conv
    BY <2>1, ClosedOK DEF Conv, Answers
  <2>4. Len(<<>>) = 0
    OBVIOUS
  <2>5. StepsOK(w) /\ ResultOK(w) /\ RunningOK(w) /\ EndedOK(w)
    BY <2>2, <2>4 DEF StepsOK, ResultOK, RunningOK, EndedOK
  <2>6. EventOK(w)
    BY <2>2 DEF EventOK, Answers
  <2>7. AgentInv' /\ conv'[c] = w /\ \A d \in Clients : d # c => conv'[d] = conv[d]
    BY <1>1, <1>3, <1>5, <2>1, <2>2, <2>3, <2>5, <2>6, ZenonT(30)
  <2>8. ~Carries(w) /\ Goal(w, type)
    BY <2>2, <2>4 DEF Carries, Goal
  <2> QED
    BY <2>2, <2>7, <2>8 DEF SendRequest, Goal
<1> QED
  BY <1>4, <1>5 DEF SendRequest

(* A conversation that is over may be forgotten: nobody is in a directory   *)
(* of the container any more, unless the agent was killed.                  *)
LEMMA Forgotten ==
    ASSUME AgentInv, NEW c \in Clients, conv[c].event \notin {"sent", "rights"},
           conv' = [conv EXCEPT ![c] = Closed], UNCHANGED <<tmpDirs, devWhole, readOnly, openFds, faults>>
    PROVE  AgentInv' /\ conv'[c] = Closed /\ \A d \in Clients : d # c => conv'[d] = conv[d]
<1>1. /\ conv' \in [Clients -> Conv] /\ conv'[c] = Closed
      /\ \A d \in Clients : d # c => conv'[d] = conv[d]
  BY ClosedOK DEF AgentInv
<1>2. AgentOK(c)'
  BY <1>1, ClosedOK, SMTT(30) DEF AgentOK, StepsOK, ResultOK, RunningOK, EndedOK, EventOK
<1>3. PICK v \in Conv : v = conv[c]
  BY DEF AgentInv
<1>4. v.at = "none" \/ "killed" \in faults
  BY <1>3, SMTT(30) DEF AgentInv, AgentOK, RunningOK, ResultOK
<1>5. RootOK'
  <2>1. CASE v.at = "none"
    <3>1. Closed.at = "none"
      BY DEF Closed
    <3>2. \A d \in Clients : conv'[d].at = "tmp" <=> conv[d].at = "tmp"
      BY <1>1, <1>3, <2>1, <3>1
    <3> QED
      BY <3>2, RootKept DEF AgentInv
  <2>2. CASE "killed" \in faults
    BY <2>2 DEF AgentInv, RootOK
  <2> QED
    BY <1>4, <2>1, <2>2
<1>6. \A d \in Clients : AgentOK(d)'
  BY <1>1, <1>2, Elsewhere DEF AgentInv
<1> QED
  BY <1>1, <1>5, <1>6 DEF AgentInv

(* A step that no conversation takes part in.                               *)
LEMMA AgentSame ==
    ASSUME AgentInv, UNCHANGED <<conv, tmpDirs, devWhole, readOnly, faults>>, openFds' \in Int
    PROVE  AgentInv'
<1>1. \A c \in Clients : AgentOK(c)'
  BY Elsewhere DEF AgentInv
<1>2. RootOK'
  BY RootKept DEF AgentInv
<1> QED
  BY <1>1, <1>2 DEF AgentInv

(* All conversations are over at first.                                     *)
LEMMA AgentStarts == InitAgent => AgentInv /\ openFds = 0 /\ \A c \in Clients : conv[c] = Closed
<1> SUFFICES ASSUME InitAgent PROVE AgentInv /\ openFds = 0 /\ \A c \in Clients : conv[c] = Closed
  OBVIOUS
<1>1. /\ conv = [c \in Clients |-> Closed] /\ tmpDirs = 0 /\ devWhole = TRUE /\ openFds = 0
  BY DEF InitAgent
<1>2. ASSUME NEW c \in Clients PROVE conv[c] = Closed /\ AgentOK(c)
  BY <1>1, ClosedOK DEF AgentOK
<1>3. RootOK
  <2>1. Closed.at = "none"
    BY DEF Closed
  <2>2. InTmp = {}
    BY <1>2, <2>1 DEF InTmp
  <2> QED
    BY <1>1, <2>2, FS_EmptySet DEF RootOK
<1>4. conv \in [Clients -> Conv]
  BY <1>1, ClosedOK
<1> QED
  BY <1>1, <1>2, <1>3, <1>4 DEF AgentInv
=============================================================================
