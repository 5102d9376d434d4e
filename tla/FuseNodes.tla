------------------------------ MODULE FuseNodes ------------------------------
(***************************************************************************)
(* The attributes of a node of a container's fuse server while containers   *)
(* come and go (fuse/dir.go, fuse/file.go, fuse/server.go with the services *)
(* of ContainerDB): nodeDB, which keeps the node of a path, Attr(), and the *)
(* attributes that the kernel keeps for ever once Attr() allows it.         *)
(*                                                                          *)
(* One node of one server is followed at a time.  A uid is "zero" or "root" *)
(* (that of the root user of a container); a gid is handled alike.  File    *)
(* operations do not take the lock of the container state service: the two  *)
(* halves of Attr() may have any of its calls in between.                   *)
(***************************************************************************)
EXTENDS ContainerDB

CONSTANT NoNode

VARIABLE node   \* NoNode, or [srv, uid, attr, after, kept]

(* srv: whose server; uid: the node's own; attr: what the Attr() in         *)
(* progress read; after: it began after the registration of the containers; *)
(* kept: what the kernel has for ever, and its "after".                     *)
NotKept == [uid |-> "none", after |-> FALSE]
Alive(map, id) == map[id] # NoServer /\ map[id].state # NoObj

(* Lookup() of a node that is not in nodeDB: its uid is that of root in the *)
(* user-ns of the requester, 0 for a process of the host.                   *)
NodeLookup(id, uid) ==
    /\ mode.getattr /\ node = NoNode /\ Alive(serversMap, id)
    /\ node' = [srv |-> id, uid |-> uid, attr |-> "none", after |-> FALSE, kept |-> NotKept]
    /\ UNCHANGED vars

(* ContainerUID(): the uid of the container whose state the server uses, 0  *)
(* before it is registered.  (The server remembers one that is not 0, and   *)
(* none becomes 0 again.)                                                   *)
ContainerUID(id) == IF cntr[serversMap[id].state].attrs THEN "root" ELSE "zero"

(* Attr(), the first half: the uid.                                         *)
AttrUid ==
    /\ node # NoNode /\ node.kept = NotKept
    /\ Alive(serversMap, node.srv) /\ node.attr = "none"
    /\ node' = [node EXCEPT !.attr = IF node.uid = "zero" THEN ContainerUID(node.srv) ELSE node.uid,
                            !.after = serversMap[node.srv].reg
                                        /\ LET s == serversMap[node.srv].state
                                           IN  cntr[s].reg \/ s = idTable[node.srv]]
    /\ UNCHANGED vars

(* The second half: how long the kernel may keep what was read.             *)
AttrValid ==
    /\ node # NoNode /\ node.attr # "none" /\ Alive(serversMap, node.srv)
    /\ node' = [node EXCEPT !.attr = "none", !.after = FALSE,
                            !.kept = IF serversMap[node.srv].reg
                                     THEN [uid |-> node.attr, after |-> node.after]
                                     ELSE NotKept]
    /\ UNCHANGED vars

(* Forget(), or the end of the server: nodeDB and the kernel drop the node. *)
Forget ==
    /\ node # NoNode
    /\ node' = NoNode
    /\ UNCHANGED vars

NodeInit == Init /\ node = NoNode

(* A server that is destroyed takes its nodes with it.                      *)
StateServiceStep ==
    /\ Next
    /\ node' = IF node # NoNode /\ ~Alive(serversMap', node.srv) THEN NoNode ELSE node

NodeNext == \/ StateServiceStep
            \/ \E id \in Ids, uid \in {"zero", "root"} : NodeLookup(id, uid)
            \/ AttrUid \/ AttrValid \/ Forget

NodeSpec == NodeInit /\ [][NodeNext]_<<vars, node>>
-----------------------------------------------------------------------------
(* file.go, Attr: "we don't want interim node attrs [...] to be permanently *)
(* recorded": attributes that the kernel keeps for ever never have uid 0 if *)
(* the getattr began once the container, and the one whose state its server *)
(* uses, were registered.  (A getattr that began before may return and be   *)
(* kept with uid 0.)                                                        *)
AttrCached == node # NoNode /\ node.kept.uid = "zero" => ~node.kept.after
=============================================================================
