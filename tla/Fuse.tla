-------------------------------- MODULE Fuse --------------------------------
(***************************************************************************)
(* File operations of container processes on the FUSE mounts of sysbox-fs   *)
(* (fuse/dir.go, fuse/file.go) with the handlers that serve them and the    *)
(* pass-through handler (handler/implementations/passThrough.go), whose     *)
(* work an nsenter agent does.  The cache of nodes is FuseNodes' subject,   *)
(* the data kept for the container CntrData's.                              *)
(*                                                                          *)
(* A reader walks the tree as the kernel does, one name at a time, and      *)
(* operates on the node where it stands.                                    *)
(***************************************************************************)
EXTENDS Agent, Handlers

CONSTANTS Readers,     \* processes that use the mounts, each a client
          Views,       \* ways the kernel may be configured
          Cntr(_),     \* per view, the kind of each node the container sees
          Host(_),     \* and of each node the host sees
          Walkers(_),  \* and the readers that are active,
          Starts(_, _), \* the directories each starts from,
          Names(_, _)  \* the names they ask for in a directory

VARIABLES view, rd

fuseVars == <<view, rd>>

(* at, kind, node: the path where the reader stands, what its attributes    *)
(* say it is, and which Go type serves it; op, path, by: the request being  *)
(* served and who does the work; got: its outcome; names: a listing.        *)
In(dir) == [at |-> dir, kind |-> "dir", node |-> "Dir", op |-> "none", path |-> <<>>, by |-> "none",
            got |-> "none", names |-> {}]

InitFuse == /\ view \in Views
            /\ rd \in [Readers -> {In(d) : d \in UNION {Starts(view, r) : r \in Readers}}]
            /\ \A r \in Readers : rd[r].at \in Starts(view, r)

Children(tree, path) == {Name(q) : q \in {p \in DOMAIN tree : p # <<>> /\ Dir(p) = path}}
-----------------------------------------------------------------------------
(* A request arrives.                                                       *)
Request(r, op, path, by) ==
    /\ r \in Walkers(view) /\ rd[r].op = "none"
    /\ rd' = [rd EXCEPT ![r].op = op, ![r].path = path, ![r].by = by, ![r].got = "none", ![r].names = {}]
    /\ UNCHANGED <<view, agentVars>>

Lookup(r, name) ==
    LET path == Append(rd[r].at, name)
    IN  /\ rd[r].node = "Dir"
        /\ Request(r, "lookup", path, LookupBy(LookupHandler(path), path))

Open(r, writing) ==
    Request(r, "open", rd[r].at, OpenBy(LookupHandler(rd[r].at), rd[r].at, writing))

Read(r) ==
    LET h == LookupHandler(rd[r].at)
    IN  /\ rd[r].kind = "file"
        /\ Request(r, "read", rd[r].at, MethodBy(h, rd[r].at, h.read))

Write(r) ==
    LET h == LookupHandler(rd[r].at)
    IN  /\ rd[r].kind = "file"
        /\ Request(r, "write", rd[r].at, MethodBy(h, rd[r].at, h.write))

(* (A directory served by a File is read with Read(), which makes it empty: *)
(* the library asks for the methods a node has.)                            *)
ReadDirAll(r) ==
    LET h == LookupHandler(rd[r].at)
    IN  /\ rd[r].kind = "dir"
        /\ IF rd[r].node = "Dir" THEN Request(r, "readdir", rd[r].at, ListBy(h, rd[r].at))
           ELSE Request(r, "read", rd[r].at, MethodBy(h, rd[r].at, h.read))

Readlink(r) ==
    /\ rd[r].kind = "link"
    /\ Request(r, "readlink", rd[r].at, ReadLinkBy(LookupHandler(rd[r].at), rd[r].at))

(* Create(): Open() of the new node, Lookup() once that succeeded.  (The    *)
(* kernel asks for it after a Lookup() that failed, perhaps for want of an  *)
(* agent: never for an emulated node.)                                      *)
Create(r, name) ==
    LET path == Append(rd[r].at, name)
    IN  /\ rd[r].node = "Dir"
        /\ LookupBy(LookupHandler(path), path) # "itself"
        /\ Request(r, "create", path, OpenBy(LookupHandler(path), path, TRUE))

(* Setattr(): a new size is accepted and ignored, all else refused.         *)
Setattr(r, size) ==
    /\ r \in Walkers(view) /\ rd[r].op = "none"
    /\ rd' = [rd EXCEPT ![r].got = IF size THEN "ok" ELSE "EPERM", ![r].names = {}]
    /\ UNCHANGED <<view, agentVars>>

(* The process starts again.                                                *)
Return(r) ==
    /\ r \in Walkers(view) /\ rd[r].op = "none"
    /\ \E d \in Starts(view, r) : rd' = [rd EXCEPT ![r] = In(d)]
    /\ UNCHANGED <<view, agentVars>>
-----------------------------------------------------------------------------
(* checkProcAndSysRemount(): what the agent mounts for itself.              *)
checkProcAndSysRemount(path) ==
    IF Len(path) < 2 THEN "none"
    ELSE IF Head(path) = "proc" THEN "procfs"
    ELSE IF Head(path) = "sys" THEN "sysfs"
    ELSE "none"

(* PassThrough.Lookup(), OpenWithNS(), fetchFile(), pushFile(), ...: one    *)
(* request to an agent.                                                     *)
Enter(r) ==
    /\ rd[r].by \in {"pass", "cntr"}
    /\ SendRequest(r, CASE rd[r].op = "create" -> "open" [] rd[r].op = "created" -> "lookup"
                        [] OTHER -> rd[r].op,
                   checkProcAndSysRemount(rd[r].path))
    /\ rd' = [rd EXCEPT ![r].by = "agent"]
    /\ UNCHANGED <<view, tmpDirs, devWhole, readOnly, openFds, faults>>

(* The work is done: ok says whether it was, tree where.                    *)
Done(r) == rd[r].by \in {"itself", "host", "none", "EACCES", "EPERM"}
           \/ (rd[r].by = "agent" /\ Answer(r) \in Answers)

Tree(r) == IF rd[r].by = "host" THEN Host(view) ELSE Cntr(view)
Succeeded(r) == \/ rd[r].by = "itself"
                \/ /\ rd[r].by = "host" \/ (rd[r].by = "agent" /\ Answer(r) = "ok")
                   /\ rd[r].path \in DOMAIN Tree(r)

Settle(r, new) ==
    /\ rd' = [rd EXCEPT ![r] = [new EXCEPT !.op = "none", !.path = <<>>, !.by = "none"]]
    /\ conv' = [conv EXCEPT ![r] = Closed]
    /\ UNCHANGED <<view, tmpDirs, devWhole, readOnly, openFds, faults>>

(* Data kept for the container need no agent once they are there.           *)
ServeKept(r) ==
    /\ rd[r].by = "cntr"
    /\ Settle(r, [rd[r] EXCEPT !.got = "ok"])

(* What Lookup() found: the info of the resource or of the file.            *)
Info(r) ==
    LET h == LookupHandler(rd[r].path) IN
    IF rd[r].by = "itself" THEN [kind |-> LookupInfo(h, rd[r].path).kind, isDir |-> LookupInfo(h, rd[r].path).isDir]
    ELSE [kind |-> Tree(r)[rd[r].path], isDir |-> Tree(r)[rd[r].path] = "dir"]

(* A new node: a Dir if FisDir says so.  Any error of the handler is        *)
(* ENOENT; a requester that is gone has no user namespace.                  *)
EndLookup(r) ==
    /\ rd[r].op = "lookup" /\ Done(r)
    /\ IF Succeeded(r)
       THEN \/ Settle(r, [rd[r] EXCEPT !.at = rd[r].path, !.kind = Info(r).kind,
                                       !.node = IF Info(r).isDir THEN "Dir" ELSE "File", !.got = "ok"])
            \/ Settle(r, [rd[r] EXCEPT !.got = "error"])
       ELSE Settle(r, [rd[r] EXCEPT !.got = "ENOENT"])

(* Create() makes a File of whatever Lookup() finds then.                   *)
EndCreate(r) ==
    /\ rd[r].op = "create" /\ Done(r)
    /\ IF Succeeded(r)
       THEN /\ rd' = [rd EXCEPT ![r].op = "created", ![r].by = LookupBy(LookupHandler(rd[r].path), rd[r].path)]
            /\ conv' = [conv EXCEPT ![r] = Closed]
            /\ UNCHANGED <<view, tmpDirs, devWhole, readOnly, openFds, faults>>
       ELSE Settle(r, [rd[r] EXCEPT !.got = "error"])

EndCreated(r) ==
    /\ rd[r].op = "created" /\ Done(r)
    /\ IF Succeeded(r)
       THEN Settle(r, [rd[r] EXCEPT !.at = rd[r].path, !.kind = Info(r).kind, !.node = "File", !.got = "ok"])
       ELSE Settle(r, [rd[r] EXCEPT !.got = "ENOENT"])

EndOther(r) ==
    /\ rd[r].op \in {"open", "read", "write", "readlink"} /\ Done(r)
    /\ Settle(r, [rd[r] EXCEPT !.got = IF Succeeded(r) THEN "ok" ELSE "error"])

(* Emulated nodes first, then the others unless that failed.                *)
EndReadDirAll(r) ==
    LET h == LookupHandler(rd[r].path)
        emulated == ListEmulated(h, rd[r].path)
    IN  /\ rd[r].op = "readdir" /\ Done(r)
        /\ IF ~Succeeded(r) /\ h.list.strict THEN Settle(r, [rd[r] EXCEPT !.got = "ENOENT"])
           ELSE Settle(r, [rd[r] EXCEPT !.got = "ok",
                                        !.names = emulated \cup (IF Succeeded(r) THEN Children(Tree(r), rd[r].path)
                                                                 ELSE {})])

AskFile(r) ==
    \/ \E name \in Names(view, rd[r].at) : Lookup(r, name) \/ Create(r, name)
    \/ \E b \in BOOLEAN : Open(r, b) \/ Setattr(r, b)
    \/ Read(r) \/ Write(r) \/ ReadDirAll(r) \/ Readlink(r) \/ Return(r)

ServeFile(r) == \/ Enter(r) \/ ServeKept(r) \/ EndLookup(r) \/ EndCreate(r) \/ EndCreated(r)
                \/ EndOther(r) \/ EndReadDirAll(r)
=============================================================================
