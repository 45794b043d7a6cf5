---------------------------- MODULE ContentSync ----------------------------
(***************************************************************************)
(* One content directory (one problem or submission) kept on the content   *)
(* server and on client replicas. Clients download it (syncContent,        *)
(* syncFile), upload it (updateContentOnServer) and create it              *)
(* (createContent), each by one coroutine that awaits one RPC after the    *)
(* other. Every process is single-threaded, so a step is what a handler or *)
(* a coroutine does between two suspensions.                               *)
(*                                                                         *)
(* The C++ client (modules/content_service) and the web application's      *)
(* Python one (app/services/content_service) await the same calls in the   *)
(* same order; they differ in what they make of a file's bytes.            *)
(*                                                                         *)
(* A file's sha256 is its data: the hash is taken to be free of            *)
(* collisions. Requests are well formed; checkFullFilePath is reduced to   *)
(* its existence checks.                                                   *)
(***************************************************************************)
EXTENDS Integers, FiniteSets, Functions

CONSTANTS Clients,        \* client processes, each with a replica
          Server,         \* the content server's replica
          Paths,          \* relative file paths, ordered as the manifest orders them
          Data, SizeOf,   \* file contents and their sizes
          PythonClients,  \* the clients that run the Python ContentStorage
          Ascii,          \* the contents without bytes above 127
          ToStr, ToBytes, \* content to content: latin-1 read as UTF-8, and back
          Unencodable,    \* ToBytes of a content that cannot be converted
          Cut,            \* a file cut short by a broken stream or a crash
          Edits,          \* the contents that writers on a client store
          Perms, DefaultPerms,
          Initial,        \* the files each replica may start with
          Tasks, Plans,   \* coroutines; what they may be asked to do
          RescanInterval, \* full_rescan_interval, in seconds
          SameSecond,     \* may two writes of a file fall into one second?
          MaxEvents, MaxClock \* bounds: faults and edits; seconds that only pass

ASSUME ContentAssumption ==
    /\ Server \notin Clients
    /\ Paths \subseteq Nat /\ IsFiniteSet(Paths)
    /\ Cut \notin Data
    /\ SizeOf \in [Data \cup {Cut} -> Nat]
    /\ \A d \in Data : SizeOf[d] # SizeOf[Cut]
    /\ PythonClients \subseteq Clients /\ Ascii \subseteq Data
    /\ Unencodable \notin Data \cup {Cut}
    /\ ToStr \in [Data -> Data] /\ ToBytes \in [Data -> Data \cup {Unencodable}]
    /\ Edits \subseteq Data
    /\ \A d \in Ascii : ToStr[d] = d /\ ToBytes[d] = d
    /\ DefaultPerms \in Perms
    /\ \A r \in Clients \cup {Server} : \A files \in Initial[r] :
          /\ DOMAIN files \subseteq Paths
          /\ \A p \in DOMAIN files : files[p] \in [data : Data, perms : Perms]
    /\ \A a \in Plans : \A t \in Tasks :
          /\ a[t] \in [job : {"sync", "upload", "create"}, home : Clients,
                          scope : SUBSET Paths]
          /\ a[t].job = "upload" => a[t].scope = Paths
    /\ RescanInterval \in Nat \ {0}
    /\ SameSecond \in BOOLEAN
    /\ MaxEvents \in Nat /\ MaxClock \in Nat

Replicas == Clients \cup {Server}
Contents == Data \cup {Cut}
File == [data : Contents, mtime : Nat, perms : Perms]
Entry == [sha256 : Contents, size : Nat, last_modified : Nat, permissions : Perms]

VARIABLES plan,       \* what each task is to do
          exists,     \* does the replica's content directory exist?
          tree,       \* its files
          manifest,   \* its manifest.json
          last_full,  \* the process's last_full_rescan_
          clock,      \* seconds
          pc, call,   \* a task's state and its outstanding RPC
          local, remote, \* the two manifests a task compares
          todo,       \* paths of the changes it has still to apply
          stale,      \* history: somebody disturbed what the task is copying
          events      \* faults and edits so far

vars == <<plan, exists, tree, manifest, last_full, clock, pc, call, local, remote,
          todo, stale, events>>

Job(t) == plan[t].job     \* "sync", "upload" or "create"
Home(t) == plan[t].home   \* its client
Scope(t) == plan[t].scope \* the paths it is about

Empty == [p \in {} |-> p]
NoCall == [op |-> "none", path |-> 0, arg |-> DefaultPerms, stage |-> "none"]
-----------------------------------------------------------------------------
(* Files *)

\* Stamps a write may get: last_modified counts whole seconds.
Stamps == IF SameSecond THEN {clock, clock + 1} ELSE {clock + 1}

\* storeFile: a new file gets the default permissions, an old one keeps its own.
Stored(files, p, d, m) ==
    [q \in DOMAIN files \cup {p} |->
        IF q # p THEN files[q]
        ELSE [data |-> d, mtime |-> m,
              perms |-> IF p \in DOMAIN files THEN files[p].perms ELSE DefaultPerms]]

\* setPermissions: nothing happens to a file that is not there.
WithPermissions(files, P, permsOf) ==
    [q \in DOMAIN files |->
        IF q \in P THEN [files[q] EXCEPT !.perms = permsOf[q]] ELSE files[q]]

\* What client c writes to the disk when the server sends d: _to_str decodes
\* the bytes as latin-1 and the binding encodes them as UTF-8.
Received(c, d) == IF c \in PythonClients /\ d \in Data THEN ToStr[d] ELSE d

\* What c uploads of a file with content d: the binding decodes UTF-8 and
\* _to_bytes encodes latin-1; either may throw.
Loaded(c, d) == IF c \in PythonClients /\ d \in Data THEN ToBytes[d] ELSE d

\* removeFileOrDirectory
Removed(files, P) == Restrict(files, DOMAIN files \ P)

(* Manifests *)

\* Mutant: the cache is consulted by size alone.
CacheHitMutant(r, p) ==
    /\ p \in DOMAIN manifest[r]
    /\ manifest[r][p].size = SizeOf[tree[r][p].data]

CacheHit(r, p) ==
    /\ p \in DOMAIN manifest[r]
    /\ manifest[r][p].size = SizeOf[tree[r][p].data]
    /\ manifest[r][p].last_modified = tree[r][p].mtime

FullScanDue(r) == clock - last_full[r] >= RescanInterval

\* scanContent: the full scan hashes every file, the cached one trusts the
\* stored manifest where it finds size and time unchanged.
ScanContent(r) ==
    [p \in DOMAIN tree[r] |->
        [sha256 |-> IF ~FullScanDue(r) /\ CacheHit(r, p)
                    THEN manifest[r][p].sha256 ELSE tree[r][p].data,
         size |-> SizeOf[tree[r][p].data],
         last_modified |-> tree[r][p].mtime,
         permissions |-> tree[r][p].perms]]

\* updateManifest: scan and store manifest.json.
UpdateManifest(r) ==
    /\ manifest' = [manifest EXCEPT ![r] = ScanContent(r)]
    /\ last_full' = [last_full EXCEPT ![r] = IF FullScanDue(r) THEN clock ELSE @]

\* compareManifests
Added(old, new) == DOMAIN new \ DOMAIN old
Modified(old, new) ==
    {p \in DOMAIN new \cap DOMAIN old : old[p].sha256 # new[p].sha256}
AttributesChanged(old, new) ==
    {p \in DOMAIN new \cap DOMAIN old :
        old[p].sha256 = new[p].sha256 /\ old[p].permissions # new[p].permissions}
RemovedFiles(old, new) == DOMAIN old \ DOMAIN new

\* The list of changes holds the new manifest's files in their order, then those
\* that only the old one has in theirs: the paths left determine the next one.
Changes(old, new, P) ==
    P \cap (Added(old, new) \cup Modified(old, new)
               \cup AttributesChanged(old, new) \cup RemovedFiles(old, new))

IsNext(p, left, new) ==
    \A q \in left : \/ p \in DOMAIN new /\ q \notin DOMAIN new
                    \/ (p \in DOMAIN new <=> q \in DOMAIN new) /\ p <= q
-----------------------------------------------------------------------------
(* Bookkeeping for the properties *)

\* A write of the server's files on behalf of t: every other copy is disturbed.
ServerWrite(t) == stale' = [u \in Tasks |-> stale[u] \/ u # t]

\* A write of client c's files by downloads that are themselves undisturbed
\* harms only uploads from there; any other write disturbs all copies that
\* have already looked at c's files.
ClientWrite(c, harmless) ==
    stale' = [u \in Tasks |->
                \/ stale[u]
                \/ /\ Home(u) = c
                   /\ pc[u] \notin {"new", "manifest"}
                   /\ ~harmless \/ Job(u) = "upload"]

(* The client's coroutines *)

Request(op, p, a) == [op |-> op, path |-> p, arg |-> a, stage |-> "sent"]
Outcome(t) == call[t].stage

\* The coroutine ends: normally or by throwing.
Finish(t, how) ==
    /\ pc' = [pc EXCEPT ![t] = how]
    /\ call' = [call EXCEPT ![t] = NoCall]

\* The first stretch of a job.
Start(t) ==
    /\ pc[t] = "new"
    /\ IF Job(t) = "upload" /\ ~exists[Home(t)]
       THEN Finish(t, "refused")
       ELSE /\ pc' = [pc EXCEPT ![t] = "manifest"]
            /\ call' = [call EXCEPT ![t] =
                   Request(IF Job(t) = "create" THEN "createContent" ELSE "getManifest",
                           0, DefaultPerms)]
    /\ UNCHANGED <<plan, exists, tree, manifest, last_full, clock, local, remote, todo,
                   stale, events>>

\* The downloading loop up to its next co_await: attributes and removals are
\* applied on the way, the next added or modified file is asked for. files is
\* the replica as the stretch left it so far, left the paths still to do.
Fetches(t, loc) == Added(loc, remote[t]) \cup Modified(loc, remote[t])

\* The replica after the attributes and removals among the changes to now.
Applied(t, files, now, loc) ==
    LET attrs == now \cap AttributesChanged(loc, remote[t])
    IN Removed(WithPermissions(files, attrs, [p \in attrs |-> remote[t][p].permissions]),
               now \cap RemovedFiles(loc, remote[t]))

\* Client c's replica is now files, by t's doing.
Replaced(t, c, files) ==
    /\ tree' = [tree EXCEPT ![c] = files]
    /\ IF files = tree[c] THEN UNCHANGED stale ELSE ClientWrite(c, ~stale[t])

DownloadOn(t, files, left, loc) ==
    LET fetches == left \cap Fetches(t, loc) IN
    \/ /\ fetches = {}
       /\ Replaced(t, Home(t), Applied(t, files, left, loc))
       /\ todo' = [todo EXCEPT ![t] = {}]
       /\ Finish(t, "done")
    \/ \E n \in fetches :
          LET now == {p \in left \cap DOMAIN remote[t] : p < n} IN
          /\ \A q \in fetches : n <= q
          /\ Replaced(t, Home(t), Applied(t, files, now, loc))
          /\ todo' = [todo EXCEPT ![t] = left \ now]
          /\ pc' = [pc EXCEPT ![t] = "file"]
          /\ call' = [call EXCEPT ![t] = Request("getFile", n, DefaultPerms)]

\* The uploading loop up to its next co_await: loadFile throws if the file is
\* gone, the Python client also if it cannot convert it.
UploadFile(t, p) ==
    LET c == Home(t)
        loadable == p \in DOMAIN tree[c] /\ Loaded(c, tree[c][p].data) # Unencodable
    IN \/ ~loadable /\ Finish(t, "error")
       \/ /\ loadable
          /\ pc' = [pc EXCEPT ![t] = "file"]
          /\ call' = [call EXCEPT ![t] =
                 Request(IF p \in DOMAIN remote[t] THEN "updateFile" ELSE "createFile",
                         p, Loaded(c, tree[c][p].data))]

UploadOn(t, left, loc) ==
    /\ todo' = [todo EXCEPT ![t] = left]
    /\ UNCHANGED <<tree, stale>>
    /\ \/ left = {} /\ Finish(t, "done")
       \/ \E p \in left :
          /\ IsNext(p, left, loc)
          /\ \/ /\ p \in Added(remote[t], loc) \cup Modified(remote[t], loc)
                /\ UploadFile(t, p)
             \/ /\ p \in AttributesChanged(remote[t], loc)
                /\ pc' = [pc EXCEPT ![t] = "attributes"]
                /\ call' = [call EXCEPT ![t] = Request("setPermissions", p, loc[p].permissions)]
             \/ /\ p \in RemovedFiles(remote[t], loc)
                /\ pc' = [pc EXCEPT ![t] = "attributes"]
                /\ call' = [call EXCEPT ![t] = Request("deleteFile", p, DefaultPerms)]

\* The server's manifest has arrived: scan the local replica (which creates
\* its directory), compare, and start applying.
CompareManifests(t) ==
    /\ pc[t] = "manifest" /\ Job(t) # "create"
    /\ Outcome(t) = "ok"
    /\ LET c == Home(t) IN
       LET mine == ScanContent(c) IN
       /\ UpdateManifest(c)
       /\ exists' = [exists EXCEPT ![c] = TRUE]
       /\ local' = [local EXCEPT ![t] = mine]
       /\ IF Job(t) = "sync"
          THEN DownloadOn(t, tree[c], Changes(mine, remote[t], Scope(t)), mine)
          ELSE UploadOn(t, Changes(remote[t], mine, Scope(t)), mine)
    /\ UNCHANGED <<plan, clock, remote, events>>

\* createContent's last stretch.
ContentCreated(t) ==
    /\ pc[t] = "manifest" /\ Job(t) = "create"
    /\ Outcome(t) = "ok"
    /\ exists' = [exists EXCEPT ![Home(t)] = TRUE]
    /\ Finish(t, "done")
    /\ UNCHANGED <<plan, tree, manifest, last_full, clock, local, remote, todo, stale, events>>

\* Mutant: the status of getFile is not looked at.
FileFetchedUnchecked(t) ==
    /\ pc[t] = "file" /\ Job(t) = "sync"
    /\ Outcome(t) \in {"ok", "failed"}
    /\ LET p == call[t].path IN
       \E m \in Stamps :
          /\ clock' = m
          /\ DownloadOn(t,
                 WithPermissions(Stored(tree[Home(t)], p, Received(Home(t), call[t].arg), m), {p},
                                 [q \in {p} |-> remote[t][q].permissions]),
                 todo[t] \ {p}, local[t])
    /\ UNCHANGED <<plan, exists, manifest, last_full, local, remote, events>>

\* A file has arrived: store it, set its permissions, go on.
FileFetched(t) ==
    /\ pc[t] = "file" /\ Job(t) = "sync"
    /\ Outcome(t) = "ok"
    /\ LET p == call[t].path IN
       \E m \in Stamps :
          /\ clock' = m
          /\ DownloadOn(t,
                 WithPermissions(Stored(tree[Home(t)], p, Received(Home(t), call[t].arg), m), {p},
                                 [q \in {p} |-> remote[t][q].permissions]),
                 todo[t] \ {p}, local[t])
    /\ UNCHANGED <<plan, exists, manifest, last_full, local, remote, events>>

\* A created or updated file is acknowledged: its permissions follow.
FileUploaded(t) ==
    /\ pc[t] = "file" /\ Job(t) = "upload"
    /\ Outcome(t) = "ok"
    /\ pc' = [pc EXCEPT ![t] = "attributes"]
    /\ call' = [call EXCEPT ![t] =
           Request("setPermissions", call[t].path, local[t][call[t].path].permissions)]
    /\ UNCHANGED <<plan, exists, tree, manifest, last_full, clock, local, remote, todo,
                   stale, events>>

\* A change is on the server: go on with the next one.
ChangeUploaded(t) ==
    /\ pc[t] = "attributes"
    /\ Outcome(t) = "ok"
    /\ UploadOn(t, todo[t] \ {call[t].path}, local[t])
    /\ UNCHANGED <<plan, exists, manifest, last_full, clock, local, remote, events>>

\* The server answered with an error status: the job throws.
CallFailed(t) ==
    /\ pc[t] \in {"manifest", "file", "attributes"}
    /\ Outcome(t) = "failed"
    /\ Finish(t, IF pc[t] = "manifest" THEN "refused" ELSE "error")
    /\ UNCHANGED <<plan, exists, tree, manifest, last_full, clock, local, remote, todo,
                   stale, events>>
-----------------------------------------------------------------------------
(* The server's handlers. A request outlives the client that sent it: the  *)
(* handler of a lost task runs all the same.                               *)

\* The answer of a handler; nobody takes the answer to a lost task's call.
Running(t) == pc[t] \in {"manifest", "file", "attributes"}

Answered(t, stage) ==
    call' = [call EXCEPT ![t] = IF Running(t) \/ stage = "open"
                                THEN [@ EXCEPT !.stage = stage] ELSE NoCall]

Asked(t, op) == call[t].op = op /\ call[t].stage = "sent"

GetManifestHandler(t) ==
    /\ Asked(t, "getManifest")
    /\ IF exists[Server]
       THEN /\ UpdateManifest(Server)
            /\ remote' = [remote EXCEPT ![t] = ScanContent(Server)]
            /\ stale' = [stale EXCEPT ![t] = FALSE]
            /\ Answered(t, "ok")
       ELSE /\ Answered(t, "failed")
            /\ UNCHANGED <<manifest, last_full, remote, stale>>
    /\ UNCHANGED <<plan, exists, tree, clock, pc, local, todo, events>>

Found(t) == exists[Server] /\ call[t].path \in DOMAIN tree[Server]

GetFileHandler(t) ==
    /\ Asked(t, "getFile")
    /\ IF Found(t) /\ Running(t)
       THEN call' = [call EXCEPT ![t].stage = "ok",
                                 ![t].arg = tree[Server][call[t].path].data]
       ELSE Answered(t, "failed")
    /\ UNCHANGED <<plan, exists, tree, manifest, last_full, clock, pc, local, remote, todo,
                   stale, events>>

\* Mutant: updateFileHandler makes createFileHandler's check.
OpenFileHandlerMutant(t) ==
    /\ Asked(t, "createFile") \/ Asked(t, "updateFile")
    /\ Answered(t, IF exists[Server] /\ ~Found(t) THEN "open" ELSE "failed")
    /\ UNCHANGED <<plan, exists, tree, manifest, last_full, clock, pc, local, remote, todo,
                   stale, events>>

\* createFileHandler and updateFileHandler up to reading the first chunk.
OpenFileHandler(t) ==
    /\ \/ /\ Asked(t, "createFile")
          /\ Answered(t, IF exists[Server] /\ ~Found(t) THEN "open" ELSE "failed")
       \/ Asked(t, "updateFile") /\ Answered(t, IF Found(t) THEN "open" ELSE "failed")
    /\ UNCHANGED <<plan, exists, tree, manifest, last_full, clock, pc, local, remote, todo,
                   stale, events>>

\* The stream has ended, completely or not: what has arrived is stored.
StoreFile(t) ==
    /\ call[t].op \in {"createFile", "updateFile"} /\ Outcome(t) = "open"
    /\ \E m \in Stamps :
          /\ clock' = m
          /\ tree' = [tree EXCEPT ![Server] = Stored(@, call[t].path, call[t].arg, m)]
    /\ Answered(t, "ok")
    /\ ServerWrite(t)
    /\ UNCHANGED <<plan, exists, manifest, last_full, pc, local, remote, todo, events>>

\* deleteFileHandler and setPermissionsHandler.
ChangeHandler(t, op, files) ==
    /\ Asked(t, op)
    /\ IF Found(t)
       THEN /\ tree' = [tree EXCEPT ![Server] = files]
            /\ Answered(t, "ok")
            /\ ServerWrite(t)
       ELSE Answered(t, "failed") /\ UNCHANGED <<tree, stale>>
    /\ UNCHANGED <<plan, exists, manifest, last_full, clock, pc, local, remote, todo, events>>

DeleteFileHandler(t) ==
    ChangeHandler(t, "deleteFile", Removed(tree[Server], {call[t].path}))

\* Mutant: the handler answers without touching the file.
SetPermissionsHandlerMutant(t) == ChangeHandler(t, "setPermissions", tree[Server])

SetPermissionsHandler(t) ==
    ChangeHandler(t, "setPermissions",
        WithPermissions(tree[Server], {call[t].path}, [p \in {call[t].path} |-> call[t].arg]))

CreateContentHandler(t) ==
    /\ Asked(t, "createContent")
    /\ exists' = [exists EXCEPT ![Server] = TRUE]
    /\ Answered(t, IF exists[Server] THEN "failed" ELSE "ok")
    /\ UNCHANGED <<plan, tree, manifest, last_full, clock, pc, local, remote, todo, stale,
                   events>>
-----------------------------------------------------------------------------
(* The environment *)

\* What is left of t's call when its client is gone: the server may still
\* handle the request, nobody takes the answer.
Orphan(t) == IF Outcome(t) \in {"sent", "open"} THEN call[t] ELSE NoCall

\* The connection of one call breaks: its job throws.
Disconnect(t) ==
    /\ Running(t)
    /\ events < MaxEvents
    /\ events' = events + 1
    /\ pc' = [pc EXCEPT ![t] = "lost"]
    /\ call' = [call EXCEPT ![t] = Orphan(t)]
    /\ UNCHANGED <<plan, exists, tree, manifest, last_full, clock, local, remote, todo, stale>>

\* The stream of a lost upload ends before all chunks have arrived.
CutShort(t) ==
    /\ pc[t] = "lost"
    /\ call[t].op \in {"createFile", "updateFile"} /\ call[t].arg # Cut
    /\ call' = [call EXCEPT ![t].arg = Cut]
    /\ UNCHANGED <<plan, exists, tree, manifest, last_full, clock, pc, local, remote, todo,
                   stale, events>>

\* A client process ends between two steps, or in the middle of storing the
\* file one of its tasks has fetched.
CrashClient(c) ==
    LET killed == {t \in Tasks : Home(t) = c /\ Running(t)}
        storing == {t \in killed : call[t].op = "getFile" /\ Outcome(t) = "ok"}
    IN /\ events < MaxEvents
       /\ events' = events + 1
       /\ pc' = [t \in Tasks |-> IF t \in killed THEN "lost" ELSE pc[t]]
       /\ call' = [t \in Tasks |-> IF t \in killed THEN Orphan(t) ELSE call[t]]
       /\ last_full' = [last_full EXCEPT ![c] = -RescanInterval]
       /\ \/ UNCHANGED <<tree, clock, stale>>
          \/ \E t \in storing, m \in Stamps :
                /\ clock' = m
                /\ tree' = [tree EXCEPT ![c] = Stored(@, call[t].path, Cut, m)]
                /\ ClientWrite(c, FALSE)
       /\ UNCHANGED <<plan, exists, manifest, local, remote, todo>>

\* The server ends: every outstanding call fails, a file being stored may stay
\* cut short on the disk.
CrashServer ==
    /\ events < MaxEvents
    /\ events' = events + 1
    /\ pc' = [t \in Tasks |-> IF Running(t) /\ Outcome(t) \in {"sent", "open"}
                              THEN "lost" ELSE pc[t]]
    /\ call' = [t \in Tasks |-> IF Outcome(t) \in {"sent", "open"} THEN NoCall ELSE call[t]]
    /\ last_full' = [last_full EXCEPT ![Server] = -RescanInterval]
    /\ \/ UNCHANGED <<tree, clock, stale>>
       \/ \E t \in Tasks, m \in Stamps :
             /\ Outcome(t) = "open"
             /\ clock' = m
             /\ tree' = [tree EXCEPT ![Server] = Stored(@, call[t].path, Cut, m)]
             /\ ServerWrite(t)
    /\ UNCHANGED <<plan, exists, manifest, local, remote, todo>>

\* Somebody on the client changes its files: the application stores a source,
\* a test writes its results.
Edit(c, p) ==
    /\ events < MaxEvents
    /\ events' = events + 1
    /\ exists' = [exists EXCEPT ![c] = TRUE]
    /\ ClientWrite(c, FALSE)
    /\ \/ \E d \in Edits, m \in Stamps :
             clock' = m /\ tree' = [tree EXCEPT ![c] = Stored(@, p, d, m)]
       \/ p \in DOMAIN tree[c]
          /\ tree' = [tree EXCEPT ![c] = Removed(@, {p})] /\ UNCHANGED clock
    /\ UNCHANGED <<plan, manifest, last_full, pc, call, local, remote, todo>>

Tick ==
    /\ clock < MaxClock
    /\ clock' = clock + 1
    /\ UNCHANGED <<plan, exists, tree, manifest, last_full, pc, call, local, remote, todo,
                   stale, events>>
-----------------------------------------------------------------------------
\* Replicas start with no manifest, and fresh processes; a file
\* implies its directory.
Init ==
    /\ plan \in Plans
    /\ \E start \in [Replicas -> UNION {Initial[r] : r \in Replicas}] :
          /\ \A r \in Replicas : start[r] \in Initial[r]
          /\ tree = [r \in Replicas |-> [p \in DOMAIN start[r] |->
                [data |-> start[r][p].data, mtime |-> 0, perms |-> start[r][p].perms]]]
    /\ exists = [r \in Replicas |-> DOMAIN tree[r] # {}]
    /\ manifest = [r \in Replicas |-> Empty]
    /\ last_full = [r \in Replicas |-> -RescanInterval]
    /\ clock = 0
    /\ pc = [t \in Tasks |-> "new"]
    /\ call = [t \in Tasks |-> NoCall]
    /\ local = [t \in Tasks |-> Empty]
    /\ remote = [t \in Tasks |-> Empty]
    /\ todo = [t \in Tasks |-> {}]
    /\ stale = [t \in Tasks |-> FALSE]
    /\ events = 0

ClientStep(t) ==
    \/ Start(t)
    \/ CompareManifests(t)
    \/ ContentCreated(t)
    \/ FileFetched(t)
    \/ FileUploaded(t)
    \/ ChangeUploaded(t)
    \/ CallFailed(t)

ServerStep(t) ==
    \/ GetManifestHandler(t)
    \/ GetFileHandler(t)
    \/ OpenFileHandler(t)
    \/ StoreFile(t)
    \/ DeleteFileHandler(t)
    \/ SetPermissionsHandler(t)
    \/ CreateContentHandler(t)

Next ==
    \/ \E t \in Tasks : ClientStep(t) \/ ServerStep(t) \/ Disconnect(t) \/ CutShort(t)
    \/ \E c \in Clients : CrashClient(c) \/ \E p \in Paths : Edit(c, p)
    \/ CrashServer
    \/ Tick

Spec == Init /\ [][Next]_vars
-----------------------------------------------------------------------------
\* Every variable has its type.
TypeOK ==
    /\ plan \in Plans
    /\ exists \in [Replicas -> BOOLEAN]
    /\ \A r \in Replicas :
          /\ DOMAIN tree[r] \subseteq Paths /\ \A p \in DOMAIN tree[r] : tree[r][p] \in File
          /\ DOMAIN manifest[r] \subseteq Paths
          /\ \A p \in DOMAIN manifest[r] : manifest[r][p] \in Entry
    /\ last_full \in [Replicas -> Int]
    /\ clock \in Nat
    /\ pc \in [Tasks -> {"new", "manifest", "file", "attributes", "done", "refused",
                         "error", "lost"}]
    /\ todo \in [Tasks -> SUBSET Paths]
    /\ stale \in [Tasks -> BOOLEAN]

\* A replica's manifest.json never vouches for a file it does not describe:
\* where size and time agree, so does the hash. This is what the cached scan
\* relies on (scanContentWithCache: "File unchanged").
ManifestHonest ==
    \A r \in Replicas : \A p \in DOMAIN manifest[r] \cap DOMAIN tree[r] :
        LET e == manifest[r][p]  f == tree[r][p] IN
        e.size = SizeOf[f.data] /\ e.last_modified = f.mtime => e.sha256 = f.data

SameFile(f, g, p) ==
    /\ p \in DOMAIN f <=> p \in DOMAIN g
    /\ p \in DOMAIN f => f[p].data = g[p].data /\ f[p].perms = g[p].perms

\* What t copies of p arrives byte for byte: with the Python client, ASCII does.
Copyable(t, p) ==
    LET source == IF Job(t) = "upload" THEN local[t] ELSE remote[t] IN
    Home(t) \in PythonClients /\ p \in DOMAIN source
        => source[p].sha256 \in Ascii \cup {Cut}

\* A download or upload that returns has made the two replicas equal in the
\* files it is about, unless somebody changed them meanwhile: whatever crashes,
\* torn files and concurrent downloads came before it. (The Python client's
\* copies are equal where the contents are ASCII.)
CompletedMeansEqual ==
    \A t \in Tasks : pc[t] = "done" /\ Job(t) # "create" /\ ~stale[t] =>
        \A p \in Scope(t) : Copyable(t, p) => SameFile(tree[Home(t)], tree[Server], p)

\* A job over files nobody else changes never fails half-way: two downloads
\* of one content on one client, or one after the crash of another, do not
\* make each other throw.
FailsOnlyWhenDisturbed ==
    \A t \in Tasks : pc[t] = "error" => stale[t] \/ \E p \in Scope(t) : ~Copyable(t, p)

\* createFile never replaces a file ("File already exists").
CreateNeverOverwrites ==
    [][\A t \in Tasks :
          call[t].op = "createFile" /\ Outcome(t) = "open" /\ call'[t].stage = "ok"
              => ~Found(t)]_vars
=============================================================================
