------------------------- MODULE ContentSync_proofs -------------------------
(***************************************************************************)
(* Any number of coroutines on any number of clients copy one content, and *)
(* crash, lose their connections and cut files short: manifests stay       *)
(* honest, a copy nobody disturbed ends with equal files, and only a       *)
(* disturbed one fails half-way.                                           *)
(*                                                                         *)
(* The invariant says of every undisturbed task what its two manifests     *)
(* tell of the two replicas: for each path, that it is as the source has   *)
(* it once it is no longer in todo, and as it was found while it still is. *)
(***************************************************************************)
EXTENDS ContentSync, TLAPS
-----------------------------------------------------------------------------
(* The inductive invariant *)

\* The files of a replica and the manifests of one, for any set of paths.
Trees == UNION {[S -> File] : S \in SUBSET Paths}
Manifests == UNION {[S -> Entry] : S \in SUBSET Paths}

Pcs == {"new", "manifest", "file", "attributes", "done", "refused", "error", "lost"}
Ops == {"none", "getManifest", "createContent", "getFile", "createFile", "updateFile",
        "setPermissions", "deleteFile"}
Stages == {"none", "sent", "open", "ok", "failed"}
FileOps == {"createFile", "updateFile"}

\* A call carries what its operation needs.
Carries(k) ==
    /\ k.op \in {"getFile", "setPermissions", "deleteFile"} \cup FileOps => k.path \in Paths
    /\ k.op \in FileOps \/ (k.op = "getFile" /\ k.stage = "ok") => k.arg \in Contents
    /\ k.op = "setPermissions" => k.arg \in Perms

Calls == {k \in [op : Ops, path : Paths \cup {0}, arg : Contents \cup Perms, stage : Stages] :
             Carries(k)}

Typed ==
    /\ plan \in Plans
    /\ exists \in [Replicas -> BOOLEAN]
    /\ tree \in [Replicas -> Trees]
    /\ manifest \in [Replicas -> Manifests]
    /\ last_full \in [Replicas -> Int]
    /\ clock \in Nat
    /\ pc \in [Tasks -> Pcs]
    /\ call \in [Tasks -> Calls]
    /\ local \in [Tasks -> Manifests]
    /\ remote \in [Tasks -> Manifests]
    /\ todo \in [Tasks -> SUBSET Paths]
    /\ stale \in [Tasks -> BOOLEAN]

\* No file and no entry is of the future.
NotOfTheFuture ==
    \A r \in Replicas :
        /\ \A p \in DOMAIN tree[r] : tree[r][p].mtime <= clock
        /\ \A p \in DOMAIN manifest[r] : manifest[r][p].last_modified <= clock

Past(t) == pc[t] \in {"file", "attributes", "done"}

\* What the two manifests of t say is to be done.
Whole(t) == IF Job(t) = "sync" THEN Added(local[t], remote[t]) \cup Modified(local[t], remote[t])
            ELSE Added(remote[t], local[t]) \cup Modified(remote[t], local[t])
All(t) == IF Job(t) = "sync" THEN Changes(local[t], remote[t], Scope(t))
          ELSE Changes(remote[t], local[t], Scope(t))

\* What a task awaits, by where it stands.
Awaits(t) ==
    LET k == call[t] IN
    /\ pc[t] \in {"new", "done", "refused", "error"} => k = NoCall
    /\ pc[t] = "manifest" =>
          /\ k.op = IF Job(t) = "create" THEN "createContent" ELSE "getManifest"
          /\ k.stage \in {"sent", "ok", "failed"}
    /\ pc[t] = "file" =>
          /\ Job(t) # "create" /\ k.path \in todo[t] \cap Whole(t)
          /\ k.stage \in {"sent", "ok", "failed"} \/ (k.stage = "open" /\ Job(t) = "upload")
          /\ Job(t) = "sync" => k.op = "getFile"
          /\ Job(t) = "upload" =>
                k.op = IF k.path \in DOMAIN remote[t] THEN "updateFile" ELSE "createFile"
    /\ pc[t] = "attributes" =>
          /\ Job(t) = "upload" /\ k.path \in todo[t]
          /\ k.stage \in {"sent", "ok", "failed"}
          /\ \/ /\ k.op = "setPermissions" /\ k.path \in DOMAIN local[t]
                /\ k.arg = local[t][k.path].permissions
             \/ k.op = "deleteFile" /\ k.path \notin DOMAIN local[t]
    /\ pc[t] = "lost" => k = NoCall \/ k.stage = "sent" \/ (k.stage = "open" /\ k.op \in FileOps)
    /\ pc[t] \in {"file", "attributes"} => todo[t] \subseteq All(t)
    /\ pc[t] = "done" /\ Job(t) # "create" => todo[t] = {}

\* The replica's file at p is what the manifest says.
Matches(files, mf, p) ==
    /\ p \in DOMAIN files <=> p \in DOMAIN mf
    /\ p \in DOMAIN files => files[p].data = mf[p].sha256 /\ files[p].perms = mf[p].permissions

\* Its content is.
Holds(files, mf, p) == p \in DOMAIN files /\ p \in DOMAIN mf /\ files[p].data = mf[p].sha256

\* t knows the server's files, and nobody has changed them since.
Knows(t) ==
    /\ exists[Server]
    /\ \A p \in Paths : Matches(tree[Server], remote[t], p)

\* A download: what is done is as the server has it; what only needs its
\* attributes has the right content already.
Downloading(t) ==
    /\ Knows(t)
    /\ \A p \in Scope(t) : Copyable(t, p) =>
          /\ p \notin todo[t] => Matches(tree[Home(t)], remote[t], p)
          /\ p \in todo[t] \cap AttributesChanged(local[t], remote[t])
                => Holds(tree[Home(t)], remote[t], p)
    /\ pc[t] = "file" =>
          /\ call[t].stage # "failed"
          /\ call[t].stage = "ok" => call[t].arg = remote[t][call[t].path].sha256

\* The path an upload is at.
UploadsAt(t, k) ==
    /\ k.op \in FileOps =>
          /\ Copyable(t, k.path) => k.arg = local[t][k.path].sha256
          /\ k.stage \in {"sent", "open"} => Matches(tree[Server], remote[t], k.path)
          /\ k.stage = "ok" => /\ k.path \in DOMAIN tree[Server]
                               /\ tree[Server][k.path].data = k.arg
    /\ k.op = "setPermissions" =>
          /\ k.path \in DOMAIN tree[Server]
          /\ Copyable(t, k.path) => Holds(tree[Server], local[t], k.path)
          /\ k.stage = "ok" => tree[Server][k.path].perms = k.arg
    /\ k.op = "deleteFile" =>
          /\ k.stage = "sent" => k.path \in DOMAIN tree[Server]
          /\ k.stage = "ok" => k.path \notin DOMAIN tree[Server]

\* An upload: the client's files are what it is uploading; the server has what
\* is done, and what it had of the rest.
Uploading(t) ==
    /\ exists[Server]
    /\ \A p \in Paths :
          /\ Matches(tree[Home(t)], local[t], p)
          /\ p \notin todo[t] /\ Copyable(t, p) => Matches(tree[Server], local[t], p)
          /\ p \in todo[t] /\ p # call[t].path => Matches(tree[Server], remote[t], p)
    /\ pc[t] # "done" => call[t].stage # "failed" /\ UploadsAt(t, call[t])

Undisturbed(t) ==
    /\ pc[t] = "manifest" /\ Job(t) # "create" /\ call[t].stage = "ok" => Knows(t)
    /\ Past(t) /\ Job(t) = "sync" => Downloading(t)
    /\ Past(t) /\ Job(t) = "upload" => Uploading(t)
    /\ pc[t] = "error" => \E p \in Scope(t) : ~Copyable(t, p)

Honest == ManifestHonest /\ NotOfTheFuture
Shaped == \A t \in Tasks : Awaits(t)
Copies == \A t \in Tasks : ~stale[t] => Undisturbed(t)

SyncInv == Typed /\ Shaped /\ (~SameSecond => Honest /\ Copies)
-----------------------------------------------------------------------------
(* The operators on files and manifests *)

\* What a task is asked to do.
LEMMA PlanFacts ==
  ASSUME plan \in Plans, NEW t \in Tasks
  PROVE  /\ Job(t) \in {"sync", "upload", "create"}
         /\ Home(t) \in Clients /\ Home(t) \in Replicas /\ Home(t) # Server
         /\ Scope(t) \in SUBSET Paths
         /\ Job(t) = "upload" => Scope(t) = Paths
<1>1. /\ plan[t] \in [job : {"sync", "upload", "create"}, home : Clients, scope : SUBSET Paths]
      /\ plan[t].job = "upload" => plan[t].scope = Paths
  BY ContentAssumption
<1> QED  BY <1>1, ContentAssumption DEF Job, Home, Scope, Replicas

\* The files of a replica.
LEMMA TreeElim ==
  ASSUME NEW f \in Trees
  PROVE  /\ DOMAIN f \subseteq Paths
         /\ \A p \in DOMAIN f : /\ f[p] \in File
                                /\ f[p].data \in Contents /\ f[p].mtime \in Nat
                                /\ f[p].perms \in Perms
<1>1. PICK S \in SUBSET Paths : f \in [S -> File]
  BY DEF Trees
<1> QED  BY <1>1 DEF File

\* A function from paths to files is a replica's.
LEMMA TreeIntro ==
  ASSUME NEW S \in SUBSET Paths, NEW f \in [S -> File]
  PROVE  f \in Trees
BY DEF Trees

\* The entries of a manifest.
LEMMA ManifestElim ==
  ASSUME NEW f \in Manifests
  PROVE  /\ DOMAIN f \subseteq Paths
         /\ \A p \in DOMAIN f : /\ f[p] \in Entry
                                /\ f[p].sha256 \in Contents /\ f[p].size \in Nat
                                /\ f[p].last_modified \in Nat /\ f[p].permissions \in Perms
<1>1. PICK S \in SUBSET Paths : f \in [S -> Entry]
  BY DEF Manifests
<1> QED  BY <1>1 DEF Entry

\* A function from paths to entries is a manifest.
LEMMA ManifestIntro ==
  ASSUME NEW S \in SUBSET Paths, NEW f \in [S -> Entry]
  PROVE  f \in Manifests
BY DEF Manifests

\* storeFile adds at most its own path.
LEMMA StoredTyped ==
  ASSUME NEW f \in Trees, NEW p \in Paths, NEW d \in Contents, NEW m \in Nat
  PROVE  /\ Stored(f, p, d, m) \in Trees
         /\ DOMAIN Stored(f, p, d, m) = DOMAIN f \cup {p}
<1> DEFINE g == Stored(f, p, d, m)
           S == DOMAIN f \cup {p}
           kept == IF p \in DOMAIN f THEN f[p].perms ELSE DefaultPerms
<1>1. kept \in Perms
  BY TreeElim, ContentAssumption
<1>2. g = [q \in S |-> IF q # p THEN f[q] ELSE [data |-> d, mtime |-> m, perms |-> kept]]
  BY DEF Stored
<1>3. \A q \in S : (IF q # p THEN f[q] ELSE [data |-> d, mtime |-> m, perms |-> kept]) \in File
  BY <1>1, TreeElim DEF File
<1> HIDE DEF g, kept
<1>4. S \in SUBSET Paths
  BY TreeElim
<1>5. g \in [S -> File] /\ DOMAIN g = S
  BY <1>2, <1>3
<1> QED  BY <1>4, <1>5, TreeIntro DEF g

\* storeFile leaves the other files alone.
LEMMA StoredFacts ==
  ASSUME NEW f \in Trees, NEW p \in Paths, NEW d \in Contents, NEW m \in Nat
  PROVE  /\ \A q \in DOMAIN f : q # p => Stored(f, p, d, m)[q] = f[q]
         /\ Stored(f, p, d, m)[p].data = d
         /\ Stored(f, p, d, m)[p].mtime = m
BY DEF Stored

\* setPermissions changes permissions only, and only those it names.
LEMMA WithPermissionsFacts ==
  ASSUME NEW f \in Trees, NEW P, NEW permsOf, \A q \in P : permsOf[q] \in Perms
  PROVE  /\ WithPermissions(f, P, permsOf) \in Trees
         /\ DOMAIN WithPermissions(f, P, permsOf) = DOMAIN f
         /\ \A q \in DOMAIN f :
               /\ WithPermissions(f, P, permsOf)[q].data = f[q].data
               /\ WithPermissions(f, P, permsOf)[q].mtime = f[q].mtime
               /\ q \in P => WithPermissions(f, P, permsOf)[q].perms = permsOf[q]
               /\ q \notin P => WithPermissions(f, P, permsOf)[q] = f[q]
<1> DEFINE g == WithPermissions(f, P, permsOf)
<1>1. g = [q \in DOMAIN f |-> IF q \in P THEN [f[q] EXCEPT !.perms = permsOf[q]] ELSE f[q]]
  BY DEF WithPermissions
<1> HIDE DEF g
<1>2. \A q \in DOMAIN f : /\ q \in P => g[q] = [f[q] EXCEPT !.perms = permsOf[q]]
                          /\ q \notin P => g[q] = f[q]
  BY <1>1
<1>3. \A q \in DOMAIN f : /\ g[q] \in File
                          /\ g[q].data = f[q].data /\ g[q].mtime = f[q].mtime
                          /\ q \in P => g[q].perms = permsOf[q]
  BY <1>2, TreeElim DEF File
<1>4. DOMAIN g = DOMAIN f
  BY <1>1
<1>5. g \in [DOMAIN f -> File]
  BY <1>1, <1>3
<1>6. g \in Trees
  BY <1>5, TreeElim, TreeIntro
<1> QED  BY <1>2, <1>3, <1>4, <1>6 DEF g

\* removeFileOrDirectory leaves the other files alone.
LEMMA RemovedFacts ==
  ASSUME NEW f \in Trees, NEW P
  PROVE  /\ Removed(f, P) \in Trees
         /\ DOMAIN Removed(f, P) = DOMAIN f \ P
         /\ \A q \in DOMAIN f \ P : Removed(f, P)[q] = f[q]
<1> DEFINE g == Removed(f, P)
<1>1. g = [q \in DOMAIN f \ P |-> f[q]]
  BY DEF Removed, Restrict
<1> HIDE DEF g
<1>2. g \in [DOMAIN f \ P -> File]
  BY <1>1, TreeElim
<1>3. DOMAIN f \ P \in SUBSET Paths
  BY TreeElim
<1>4. g \in Trees
  BY <1>2, <1>3, TreeIntro
<1> QED  BY <1>1, <1>4 DEF g

\* What the conversions of the Python client make of a content.
LEMMA Conversions ==
  ASSUME NEW c, NEW d \in Contents
  PROVE  /\ Received(c, d) \in Contents
         /\ Loaded(c, d) \in Contents \cup {Unencodable}
         /\ (c \in PythonClients => d \in Ascii \cup {Cut})
               => Received(c, d) = d /\ Loaded(c, d) = d
         /\ d # Unencodable
BY ContentAssumption DEF Received, Loaded, Contents

\* A scan describes the files, provided that the manifest it may trust does.
LEMMA ScanFacts ==
  ASSUME Typed, NEW r \in Replicas
  PROVE  /\ ScanContent(r) \in Manifests
         /\ DOMAIN ScanContent(r) = DOMAIN tree[r]
         /\ \A p \in DOMAIN tree[r] :
               /\ ScanContent(r)[p].size = SizeOf[tree[r][p].data]
               /\ ScanContent(r)[p].last_modified = tree[r][p].mtime
               /\ ScanContent(r)[p].permissions = tree[r][p].perms
               /\ ManifestHonest => ScanContent(r)[p].sha256 = tree[r][p].data
<1> DEFINE g == ScanContent(r)
           sha(p) == IF ~FullScanDue(r) /\ CacheHit(r, p)
                     THEN manifest[r][p].sha256 ELSE tree[r][p].data
<1>1. g = [p \in DOMAIN tree[r] |->
             [sha256 |-> sha(p), size |-> SizeOf[tree[r][p].data],
              last_modified |-> tree[r][p].mtime, permissions |-> tree[r][p].perms]]
  BY DEF ScanContent
<1>2. tree[r] \in Trees /\ manifest[r] \in Manifests
  BY DEF Typed
<1>3. \A p \in DOMAIN tree[r] : /\ tree[r][p].data \in Contents /\ tree[r][p].mtime \in Nat
                                /\ tree[r][p].perms \in Perms
                                /\ SizeOf[tree[r][p].data] \in Nat
  BY <1>2, TreeElim, ContentAssumption DEF Contents
<1>4. \A p \in DOMAIN tree[r] : sha(p) \in Contents
  BY <1>2, <1>3, ManifestElim DEF CacheHit
<1>5. \A p \in DOMAIN tree[r] : ManifestHonest => sha(p) = tree[r][p].data
  BY DEF ManifestHonest, CacheHit
<1> HIDE DEF g, sha
<1>6. DOMAIN g = DOMAIN tree[r]
  BY <1>1
<1>7. \A p \in DOMAIN tree[r] :
         g[p] = [sha256 |-> sha(p), size |-> SizeOf[tree[r][p].data],
                 last_modified |-> tree[r][p].mtime, permissions |-> tree[r][p].perms]
  BY <1>1
<1>8. \A p \in DOMAIN tree[r] :
         /\ g[p] \in Entry
         /\ g[p].sha256 = sha(p) /\ g[p].size = SizeOf[tree[r][p].data]
         /\ g[p].last_modified = tree[r][p].mtime /\ g[p].permissions = tree[r][p].perms
  <2> TAKE p \in DOMAIN tree[r]
  <2>1. PICK a \in Contents, b \in Nat, m \in Nat, e \in Perms :
           /\ a = sha(p) /\ b = SizeOf[tree[r][p].data] /\ m = tree[r][p].mtime
           /\ e = tree[r][p].perms
    BY <1>3, <1>4
  <2>2. g[p] = [sha256 |-> a, size |-> b, last_modified |-> m, permissions |-> e]
    BY <1>7, <2>1
  <2>3. /\ g[p] \in Entry
        /\ g[p].sha256 = a /\ g[p].size = b /\ g[p].last_modified = m /\ g[p].permissions = e
    BY <2>2 DEF Entry
  <2> QED  BY <2>1, <2>3
<1>9. g \in [DOMAIN tree[r] -> Entry]
  BY <1>1, <1>7, <1>8
<1>10. g \in Manifests
  BY <1>2, <1>9, TreeElim, ManifestIntro
<1> QED  BY <1>5, <1>6, <1>8, <1>10 DEF g

\* g is what the changes in now make of the files.
AppliedTo(g, t, files, now, loc) ==
    /\ g \in Trees
    /\ DOMAIN g = DOMAIN files \ (now \cap RemovedFiles(loc, remote[t]))
    /\ \A q \in DOMAIN g :
          /\ g[q].data = files[q].data /\ g[q].mtime = files[q].mtime
          /\ q \in now \cap AttributesChanged(loc, remote[t])
                => g[q].perms = remote[t][q].permissions
          /\ q \notin now \cap AttributesChanged(loc, remote[t]) => g[q] = files[q]

\* The attributes and removals of a stretch touch the files they name alone.
LEMMA AppliedFacts ==
  ASSUME Typed, NEW t \in Tasks, NEW files \in Trees, NEW now, NEW loc
  PROVE  AppliedTo(Applied(t, files, now, loc), t, files, now, loc)
<1> DEFINE attrs == now \cap AttributesChanged(loc, remote[t])
           gone == now \cap RemovedFiles(loc, remote[t])
           permsOf == [p \in attrs |-> remote[t][p].permissions]
           h == WithPermissions(files, attrs, permsOf)
           g == Applied(t, files, now, loc)
<1>1. g = Removed(h, gone)
  BY DEF Applied
<1>2. remote[t] \in Manifests
  BY DEF Typed
<1>3. \A q \in attrs : permsOf[q] = remote[t][q].permissions /\ permsOf[q] \in Perms
  BY <1>2, ManifestElim DEF AttributesChanged
<1> HIDE DEF attrs, gone, permsOf
<1>4. /\ h \in Trees /\ DOMAIN h = DOMAIN files
      /\ \A q \in DOMAIN files :
            /\ h[q].data = files[q].data /\ h[q].mtime = files[q].mtime
            /\ q \in attrs => h[q].perms = permsOf[q]
            /\ q \notin attrs => h[q] = files[q]
  BY <1>3, WithPermissionsFacts
<1> HIDE DEF h, g
<1>5. /\ g \in Trees /\ DOMAIN g = DOMAIN h \ gone
      /\ \A q \in DOMAIN h \ gone : g[q] = h[q]
  <2>1. h \in Trees
    BY <1>4
  <2>2. /\ Removed(h, gone) \in Trees /\ DOMAIN Removed(h, gone) = DOMAIN h \ gone
        /\ \A q \in DOMAIN h \ gone : Removed(h, gone)[q] = h[q]
    BY <2>1, RemovedFacts
  <2> QED  BY <1>1, <2>2
<1>6. \A q \in DOMAIN g : /\ g[q].data = files[q].data /\ g[q].mtime = files[q].mtime
                          /\ q \in attrs => g[q].perms = remote[t][q].permissions
                          /\ q \notin attrs => g[q] = files[q]
  BY <1>3, <1>4, <1>5
<1>7. DOMAIN g = DOMAIN files \ gone
  BY <1>4, <1>5
<1>8. AppliedTo(g, t, files, now, loc)
  BY <1>5, <1>6, <1>7 DEF AppliedTo, attrs, gone
<1> QED  BY <1>8 DEF g

\* The requests the client makes are calls.
LEMMA RequestTyped ==
  ASSUME NEW p \in Paths
  PROVE  /\ NoCall \in Calls
         /\ Request("getManifest", 0, DefaultPerms) \in Calls
         /\ Request("createContent", 0, DefaultPerms) \in Calls
         /\ Request("getFile", p, DefaultPerms) \in Calls
         /\ Request("deleteFile", p, DefaultPerms) \in Calls
         /\ \A m \in Perms : Request("setPermissions", p, m) \in Calls
         /\ \A d \in Contents : /\ Request("createFile", p, d) \in Calls
                                /\ Request("updateFile", p, d) \in Calls
BY ContentAssumption DEF Request, NoCall, Calls, Carries, Ops, Stages, FileOps

\* No call is a call.
LEMMA NoCallTyped == NoCall \in Calls
BY ContentAssumption DEF NoCall, Calls, Carries, Ops, Stages, FileOps

\* The first call of a job.
LEMMA AskTyped == /\ Request("getManifest", 0, DefaultPerms) \in Calls
                  /\ Request("createContent", 0, DefaultPerms) \in Calls
BY ContentAssumption DEF Request, Calls, Carries, Ops, Stages, FileOps
-----------------------------------------------------------------------------
(* What a step leaves alone *)

Untouched(u) ==
    /\ plan' = plan
    /\ pc'[u] = pc[u] /\ call'[u] = call[u] /\ todo'[u] = todo[u]
    /\ local'[u] = local[u] /\ remote'[u] = remote[u]

\* A file is as it was, except for its permissions, or just written.
FilesKept(r) ==
    \A p \in DOMAIN tree'[r] :
        \/ /\ p \in DOMAIN tree[r]
           /\ tree'[r][p].data = tree[r][p].data /\ tree'[r][p].mtime = tree[r][p].mtime
        \/ clock' = clock + 1 /\ tree'[r][p].mtime = clock'

ManifestsKept == \A r \in Replicas : manifest'[r] = manifest[r] \/ manifest'[r] = ScanContent(r)

\* Nothing of what an undisturbed u looks at has changed.
Spared(u) ==
    /\ stale[u] => stale'[u]
    /\ ~stale'[u] => /\ tree'[Server] = tree[Server]
                     /\ \/ pc[u] \in {"new", "manifest", "refused", "error", "lost"}
                        \/ tree'[Home(u)] = tree[Home(u)]

\* A task nobody touches awaits what it awaited.
LEMMA AwaitsFrame ==
  ASSUME NEW u \in Tasks, Untouched(u), Awaits(u)
  PROVE  Awaits(u)'
BY DEF Untouched, Awaits, Whole, All, Job, Scope

\* Manifests stay honest when files keep data and time together, or get a new time.
LEMMA HonestFrame ==
  ASSUME Typed, Typed', Honest, clock' \in {clock, clock + 1},
         \A r \in Replicas : FilesKept(r), ManifestsKept
  PROVE  Honest'
<1> SUFFICES ASSUME NEW r \in Replicas
             PROVE  /\ \A p \in DOMAIN tree'[r] : tree'[r][p].mtime <= clock'
                    /\ \A p \in DOMAIN manifest'[r] : manifest'[r][p].last_modified <= clock'
                    /\ \A p \in DOMAIN manifest'[r] \cap DOMAIN tree'[r] :
                          /\ manifest'[r][p].size = SizeOf[tree'[r][p].data]
                          /\ manifest'[r][p].last_modified = tree'[r][p].mtime
                          => manifest'[r][p].sha256 = tree'[r][p].data
  BY DEF Honest, ManifestHonest, NotOfTheFuture
<1>1. /\ clock \in Nat /\ tree[r] \in Trees /\ tree'[r] \in Trees
      /\ manifest[r] \in Manifests /\ ManifestHonest
  BY DEF Typed, Honest
<1>2. \A p \in DOMAIN tree[r] : tree[r][p].mtime \in Nat /\ tree[r][p].mtime <= clock
  BY <1>1, TreeElim DEF Honest, NotOfTheFuture
<1>3. \A p \in DOMAIN tree'[r] :
         \/ /\ p \in DOMAIN tree[r]
            /\ tree'[r][p].data = tree[r][p].data /\ tree'[r][p].mtime = tree[r][p].mtime
         \/ clock' = clock + 1 /\ tree'[r][p].mtime = clock'
  BY DEF FilesKept
<1>4. \A p \in DOMAIN manifest'[r] :
         /\ manifest'[r][p].last_modified \in Nat /\ manifest'[r][p].last_modified <= clock
         /\ /\ p \in DOMAIN tree[r]
            /\ manifest'[r][p].size = SizeOf[tree[r][p].data]
            /\ manifest'[r][p].last_modified = tree[r][p].mtime
            => manifest'[r][p].sha256 = tree[r][p].data
  <2>1. CASE manifest'[r] = manifest[r]
    BY <2>1, <1>1, ManifestElim DEF Honest, NotOfTheFuture, ManifestHonest
  <2>2. CASE manifest'[r] = ScanContent(r)
    BY <2>2, <1>1, <1>2, ScanFacts
  <2> QED  BY <2>1, <2>2 DEF ManifestsKept
<1>5. \A p \in DOMAIN tree'[r] : tree'[r][p].mtime <= clock'
  BY <1>1, <1>2, <1>3
<1>6. \A p \in DOMAIN manifest'[r] : manifest'[r][p].last_modified <= clock'
  BY <1>1, <1>4
<1>7. ASSUME NEW p \in DOMAIN manifest'[r] \cap DOMAIN tree'[r],
             manifest'[r][p].size = SizeOf[tree'[r][p].data],
             manifest'[r][p].last_modified = tree'[r][p].mtime
      PROVE  manifest'[r][p].sha256 = tree'[r][p].data
  <2>1. ~(clock' = clock + 1 /\ tree'[r][p].mtime = clock')
    BY <1>1, <1>4, <1>7
  <2>2. /\ p \in DOMAIN tree[r]
        /\ tree'[r][p].data = tree[r][p].data /\ tree'[r][p].mtime = tree[r][p].mtime
    BY <1>3, <2>1
  <2> QED  BY <1>4, <1>7, <2>2
<1> QED  BY <1>5, <1>6, <1>7

\* An undisturbed copy whose files nobody touches stays one.
LEMMA CopiesFrame ==
  ASSUME NEW u \in Tasks, Untouched(u), Spared(u), exists[Server] => exists'[Server],
         ~stale[u] => Undisturbed(u)
  PROVE  ~stale'[u] => Undisturbed(u)'
<1> SUFFICES ASSUME ~stale'[u] PROVE Undisturbed(u)'
  OBVIOUS
<1>1. Undisturbed(u) /\ tree'[Server] = tree[Server]
  BY DEF Spared
<1>2. /\ plan' = plan /\ pc'[u] = pc[u] /\ call'[u] = call[u] /\ todo'[u] = todo[u]
      /\ local'[u] = local[u] /\ remote'[u] = remote[u]
  BY DEF Untouched
<1>3. \A p : Copyable(u, p)' <=> Copyable(u, p)
  BY <1>2 DEF Copyable, Job, Home
<1>4. Knows(u) => Knows(u)'
  BY <1>1, <1>2 DEF Knows, Matches
<1>5. UploadsAt(u, call[u]) => UploadsAt(u, call[u])'
  BY <1>1, <1>2, <1>3 DEF UploadsAt, Matches, Holds
<1>6. Past(u) => tree'[Home(u)'] = tree[Home(u)] /\ Home(u)' = Home(u)
  BY <1>2 DEF Spared, Past, Home
<1>7. Past(u) /\ Downloading(u) => Downloading(u)'
  BY <1>2, <1>3, <1>4, <1>6 DEF Downloading, Matches, Holds, Scope, AttributesChanged
<1>8. Past(u) /\ Uploading(u) => Uploading(u)'
  BY <1>1, <1>2, <1>3, <1>5, <1>6 DEF Uploading, Matches
<1> QED
  BY <1>1, <1>2, <1>3, <1>4, <1>7, <1>8 DEF Undisturbed, Past, Job, Scope

\* A step of one task: what remains to be shown of it.
LEMMA CopyStep ==
  ASSUME SyncInv, Typed', NEW t \in Tasks,
         \A u \in Tasks \ {t} : Untouched(u),
         Awaits(t)',
         ~SameSecond => /\ clock' \in {clock, clock + 1}
                        /\ \A r \in Replicas : FilesKept(r)
                        /\ ManifestsKept,
         \A u \in Tasks : ~SameSecond /\ ~stale'[u] => Undisturbed(u)'
  PROVE  SyncInv'
<1>1. \A u \in Tasks \ {t} : Awaits(u)'
  BY AwaitsFrame DEF SyncInv, Shaped
<1>2. Shaped'
  BY <1>1 DEF Shaped
<1>3. ~SameSecond => Honest'
  BY HonestFrame DEF SyncInv
<1>4. ~SameSecond => Copies'
  BY DEF Copies
<1> QED  BY <1>2, <1>3, <1>4 DEF SyncInv

\* One that spares the other tasks.
LEMMA TaskStep ==
  ASSUME SyncInv, Typed', NEW t \in Tasks,
         \A u \in Tasks \ {t} : Untouched(u) /\ Spared(u),
         Awaits(t)',
         ~SameSecond => /\ clock' \in {clock, clock + 1}
                        /\ \A r \in Replicas : FilesKept(r)
                        /\ ManifestsKept,
         exists[Server] => exists'[Server],
         ~SameSecond /\ ~stale'[t] => Undisturbed(t)'
  PROVE  SyncInv'
<1>1. ASSUME ~SameSecond, NEW u \in Tasks \ {t} PROVE ~stale'[u] => Undisturbed(u)'
  <2>1. ~stale[u] => Undisturbed(u)
    BY <1>1 DEF SyncInv, Copies
  <2>2. Untouched(u) /\ Spared(u) /\ u \in Tasks
    BY <1>1
  <2> QED  BY <2>1, <2>2, CopiesFrame
<1>2. \A u \in Tasks : ~SameSecond /\ ~stale'[u] => Undisturbed(u)'
  BY <1>1
<1>3. \A u \in Tasks \ {t} : Untouched(u)
  OBVIOUS
<1> QED  BY <1>2, <1>3, CopyStep

\* One that changes no file and no manifest.
LEMMA QuietStep ==
  ASSUME SyncInv, Typed', NEW t \in Tasks,
         \A u \in Tasks \ {t} : Untouched(u),
         Awaits(t)',
         tree' = tree, manifest' = manifest, clock' = clock, stale' = stale,
         exists[Server] => exists'[Server],
         ~SameSecond /\ ~stale'[t] => Undisturbed(t)'
  PROVE  SyncInv'
<1>1. \A u \in Tasks \ {t} : Spared(u)
  BY DEF Spared
<1>2. (\A r \in Replicas : FilesKept(r)) /\ ManifestsKept
  BY DEF FilesKept, ManifestsKept
<1> QED  BY <1>1, <1>2, TaskStep
-----------------------------------------------------------------------------
(* Steps that change no file *)

\* Moving one task leaves the others where they are.
LEMMA Moves ==
  ASSUME Typed, NEW t \in Tasks, NEW x \in Pcs, NEW k \in Calls,
         pc' = [pc EXCEPT ![t] = x], call' = [call EXCEPT ![t] = k],
         UNCHANGED <<plan, local, remote, todo>>
  PROVE  /\ pc' \in [Tasks -> Pcs] /\ pc'[t] = x
         /\ call' \in [Tasks -> Calls] /\ call'[t] = k
         /\ \A u \in Tasks \ {t} : Untouched(u)
BY DEF Typed, Untouched

\* A call with another stage is a call.
LEMMA AnswerTyped ==
  ASSUME NEW k \in Calls, NEW s \in {"ok", "failed", "open"}, k.op = "getFile" => s # "ok"
  PROVE  /\ [k EXCEPT !.stage = s] \in Calls
         /\ [k EXCEPT !.stage = s].op = k.op
         /\ [k EXCEPT !.stage = s].path = k.path
         /\ [k EXCEPT !.stage = s].arg = k.arg
         /\ [k EXCEPT !.stage = s].stage = s
BY DEF Calls, Carries, Stages

\* What a call carries.
LEMMA CallFacts ==
  ASSUME Typed, NEW t \in Tasks
  PROVE  /\ call[t] \in Calls
         /\ call[t].op \in {"getFile", "setPermissions", "deleteFile"} \cup FileOps
               => call[t].path \in Paths
         /\ call[t].op \in FileOps \/ (call[t].op = "getFile" /\ call[t].stage = "ok")
               => call[t].arg \in Contents
         /\ call[t].op = "setPermissions" => call[t].arg \in Perms
BY DEF Typed, Calls, Carries

\* Start: the first request goes out, or the job is refused.
LEMMA StartKeeps ==
  ASSUME SyncInv, NEW t \in Tasks, Start(t)
  PROVE  SyncInv'
<1>1. PICK x \in {"refused", "manifest"}, k \in Calls :
         /\ pc' = [pc EXCEPT ![t] = x] /\ call' = [call EXCEPT ![t] = k]
         /\ x = "refused" => k = NoCall
         /\ x = "manifest" =>
               k = Request(IF Job(t) = "create" THEN "createContent" ELSE "getManifest",
                           0, DefaultPerms)
  BY NoCallTyped, AskTyped DEF Start, Finish
<1>2. Typed /\ x \in Pcs /\ UNCHANGED <<plan, local, remote, todo>>
  BY DEF SyncInv, Pcs, Start
<1>3. /\ pc' \in [Tasks -> Pcs] /\ pc'[t] = x
      /\ call' \in [Tasks -> Calls] /\ call'[t] = k
      /\ \A u \in Tasks \ {t} : Untouched(u)
  BY <1>1, <1>2, Moves
<1>4. Typed'
  BY <1>2, <1>3 DEF Typed, Start
<1>5. Awaits(t)'
  BY <1>1, <1>2, <1>3 DEF Awaits, Request, Job
<1>6. Undisturbed(t)'
  BY <1>1, <1>3 DEF Undisturbed, Past, Request
<1> QED  BY <1>3, <1>4, <1>5, <1>6, QuietStep DEF Start

\* ContentCreated: the job ends.
LEMMA ContentCreatedKeeps ==
  ASSUME SyncInv, NEW t \in Tasks, ContentCreated(t)
  PROVE  SyncInv'
<1>1. Typed /\ "done" \in Pcs /\ UNCHANGED <<plan, local, remote, todo>>
  BY DEF SyncInv, Pcs, ContentCreated
<1>2. /\ pc' \in [Tasks -> Pcs] /\ pc'[t] = "done"
      /\ call' \in [Tasks -> Calls] /\ call'[t] = NoCall
      /\ \A u \in Tasks \ {t} : Untouched(u)
  BY <1>1, Moves, NoCallTyped DEF ContentCreated, Finish
<1>3. Home(t) \in Replicas /\ Home(t) # Server
  BY <1>1, PlanFacts DEF Typed
<1>4. exists' \in [Replicas -> BOOLEAN] /\ (exists[Server] => exists'[Server])
  BY <1>1, <1>3 DEF Typed, ContentCreated, Replicas
<1>5. Typed'
  BY <1>1, <1>2, <1>4 DEF Typed, ContentCreated
<1>6. Job(t)' = "create"
  BY <1>1 DEF ContentCreated, Job
<1>7. Awaits(t)'
  BY <1>2, <1>6 DEF Awaits
<1>8. Undisturbed(t)'
  BY <1>2, <1>6 DEF Undisturbed
<1> QED  BY <1>2, <1>4, <1>5, <1>7, <1>8, QuietStep DEF ContentCreated

\* CallFailed: an undisturbed job sees no error status half-way.
LEMMA CallFailedKeeps ==
  ASSUME SyncInv, NEW t \in Tasks, CallFailed(t)
  PROVE  SyncInv'
<1>1. PICK x \in {"refused", "error"} :
         /\ pc' = [pc EXCEPT ![t] = x] /\ call' = [call EXCEPT ![t] = NoCall]
         /\ x = "error" => pc[t] \in {"file", "attributes"}
  BY DEF CallFailed, Finish
<1>2. Typed /\ x \in Pcs /\ UNCHANGED <<plan, local, remote, todo>>
  BY DEF SyncInv, Pcs, CallFailed
<1>3. /\ pc' \in [Tasks -> Pcs] /\ pc'[t] = x
      /\ call' \in [Tasks -> Calls] /\ call'[t] = NoCall
      /\ \A u \in Tasks \ {t} : Untouched(u)
  BY <1>1, <1>2, Moves, NoCallTyped
<1>4. Typed'
  BY <1>2, <1>3 DEF Typed, CallFailed
<1>5. Awaits(t)'
  BY <1>1, <1>3 DEF Awaits
<1>6. ASSUME ~SameSecond, ~stale'[t] PROVE Undisturbed(t)'
  <2>1. Undisturbed(t) /\ Awaits(t) /\ stale' = stale
    BY <1>6 DEF SyncInv, Copies, Shaped, CallFailed
  <2>2. Job(t) \in {"sync", "upload", "create"}
    BY <1>2, PlanFacts DEF Typed
  <2>3. x # "error"
    BY <1>1, <2>1, <2>2
    DEF Undisturbed, Awaits, Past, Downloading, Uploading, CallFailed, Outcome
  <2> QED  BY <1>1, <1>3, <2>3 DEF Undisturbed, Past
<1> QED  BY <1>3, <1>4, <1>5, <1>6, QuietStep DEF CallFailed

\* The permissions of an uploaded file are next.
LEMMA FileUploadedKeeps ==
  ASSUME SyncInv, NEW t \in Tasks, FileUploaded(t)
  PROVE  SyncInv'
<1> DEFINE p == call[t].path
           k == Request("setPermissions", p, local[t][p].permissions)
<1>1. Typed /\ Awaits(t) /\ UNCHANGED <<plan, local, remote, todo>>
  BY DEF SyncInv, Shaped, FileUploaded
<1>2. pc[t] = "file" /\ Job(t) = "upload" /\ call[t].stage = "ok"
  BY DEF FileUploaded, Outcome
<1>3. /\ p \in todo[t] /\ p \in DOMAIN local[t] /\ todo[t] \subseteq All(t)
      /\ call[t].op \in FileOps
  BY <1>1, <1>2 DEF Awaits, Whole, Added, Modified, FileOps
<1>4. p \in Paths /\ local[t] \in Manifests
  BY <1>1, <1>3, ManifestElim DEF Typed
<1>5. k \in Calls /\ "attributes" \in Pcs
  BY <1>3, <1>4, ManifestElim, RequestTyped DEF Pcs
<1> HIDE DEF p
<1>6. /\ k.op = "setPermissions" /\ k.path = p /\ k.stage = "sent"
      /\ k.arg = local[t][p].permissions
  BY DEF Request
<1> HIDE DEF k
<1>7. /\ pc' \in [Tasks -> Pcs] /\ pc'[t] = "attributes"
      /\ call' \in [Tasks -> Calls] /\ call'[t] = k
      /\ \A u \in Tasks \ {t} : Untouched(u)
  BY <1>1, <1>5, Moves DEF FileUploaded, k, p
<1>8. Typed'
  BY <1>1, <1>7 DEF Typed, FileUploaded
<1>9. Job(t)' = "upload" /\ All(t)' = All(t)
  BY <1>1, <1>2 DEF Job, All, Scope
<1>10. Awaits(t)'
  BY <1>1, <1>3, <1>6, <1>7, <1>9 DEF Awaits
<1>11. ASSUME ~SameSecond, ~stale'[t] PROVE Undisturbed(t)'
  <2>1. Undisturbed(t) /\ UNCHANGED <<stale, tree, exists>>
    BY <1>11 DEF SyncInv, Copies, FileUploaded
  <2>2. Uploading(t) /\ UploadsAt(t, call[t])
    BY <1>2, <2>1 DEF Undisturbed, Past, Uploading
  <2>3. /\ p \in DOMAIN tree[Server]
        /\ Copyable(t, p) => Holds(tree[Server], local[t], p)
    BY <1>2, <1>3, <2>2 DEF UploadsAt, Holds, p
  <2>4. \A q : Copyable(t, q)' <=> Copyable(t, q)
    BY <1>1 DEF Copyable, Job, Home
  <2>5. UploadsAt(t, call[t])'
    BY <1>1, <1>6, <1>7, <2>1, <2>3, <2>4 DEF UploadsAt, Holds, FileOps
  <2>6. Uploading(t)'
    BY <1>1, <1>6, <1>7, <2>1, <2>2, <2>4, <2>5 DEF Uploading, Matches, Home, p
  <2> QED  BY <1>7, <1>9, <2>6 DEF Undisturbed, Past
<1> QED  BY <1>7, <1>8, <1>10, <1>11, QuietStep DEF FileUploaded

\* An answer reaches its task, and nobody when that is lost.
LEMMA AnsweredFacts ==
  ASSUME Typed, NEW t \in Tasks, NEW s \in {"ok", "failed", "open"},
         call[t].op = "getFile" => s # "ok",
         Answered(t, s), UNCHANGED <<plan, pc, local, remote, todo>>
  PROVE  /\ call' \in [Tasks -> Calls]
         /\ \A u \in Tasks \ {t} : Untouched(u)
         /\ Running(t) \/ s = "open" =>
               /\ call'[t].op = call[t].op /\ call'[t].path = call[t].path
               /\ call'[t].arg = call[t].arg /\ call'[t].stage = s
         /\ ~(Running(t) \/ s = "open") => call'[t] = NoCall
<1>1. call[t] \in Calls
  BY DEF Typed
<1>2. PICK k \in Calls :
         /\ k = [call[t] EXCEPT !.stage = s]
         /\ k.op = call[t].op /\ k.path = call[t].path /\ k.arg = call[t].arg /\ k.stage = s
  BY <1>1, AnswerTyped
<1>3. PICK j \in Calls : /\ Running(t) \/ s = "open" => j = k
                         /\ ~(Running(t) \/ s = "open") => j = NoCall
                         /\ call' = [call EXCEPT ![t] = j]
  <2>1. CASE Running(t) \/ s = "open"
    BY <2>1, <1>2 DEF Answered
  <2>2. CASE ~(Running(t) \/ s = "open")
    BY <2>2, NoCallTyped DEF Answered
  <2> QED  BY <2>1, <2>2
<1>4. /\ call' \in [Tasks -> Calls] /\ call'[t] = j
      /\ \A u \in Tasks \ {t} : Untouched(u)
  BY <1>3 DEF Typed, Untouched
<1> QED  BY <1>2, <1>3, <1>4

\* Who asks for what.
LEMMA Askers ==
  ASSUME SyncInv, NEW t \in Tasks, call[t].stage \in {"sent", "open"}
  PROVE  /\ pc[t] \in {"manifest", "file", "attributes", "lost"}
         /\ pc[t] # "lost" <=> Running(t)
         /\ call[t].op = "getFile" => pc[t] = "lost" \/ (pc[t] = "file" /\ Job(t) = "sync")
         /\ call[t].op \in FileOps =>
               pc[t] = "lost" \/ (pc[t] = "file" /\ Job(t) = "upload")
         /\ call[t].op \in {"setPermissions", "deleteFile"} =>
               pc[t] = "lost" \/ (pc[t] = "attributes" /\ Job(t) = "upload")
         /\ call[t].op = "createContent" =>
               pc[t] = "lost" \/ (pc[t] = "manifest" /\ Job(t) = "create")
         /\ call[t].op = "getManifest" =>
               pc[t] = "lost" \/ (pc[t] = "manifest" /\ Job(t) \in {"sync", "upload"})
<1>1. Typed /\ Awaits(t) /\ pc[t] \in Pcs
  BY DEF SyncInv, Shaped, Typed
<1>2. Job(t) \in {"sync", "upload", "create"}
  BY <1>1, PlanFacts DEF Typed
<1>3. pc[t] \in {"manifest", "file", "attributes", "lost"}
  BY <1>1 DEF Pcs, Awaits, NoCall
<1> QED
  BY <1>1, <1>2, <1>3 DEF Awaits, Running, FileOps

\* GetFileHandler: an undisturbed download gets what the manifest has announced.
LEMMA GetFileHandlerKeeps ==
  ASSUME SyncInv, NEW t \in Tasks, GetFileHandler(t)
  PROVE  SyncInv'
<1>1. /\ Typed /\ Awaits(t) /\ UNCHANGED <<plan, pc, local, remote, todo, tree, stale, exists>>
      /\ call[t].op = "getFile" /\ call[t].stage = "sent"
  BY DEF SyncInv, Shaped, GetFileHandler, Asked
<1>2. /\ pc[t] \in {"file", "lost"} /\ (pc[t] = "file" <=> Running(t))
      /\ pc[t] = "file" => Job(t) = "sync"
  BY <1>1, Askers
<1>3. ASSUME ~SameSecond, ~stale[t], pc[t] = "file"
      PROVE  Downloading(t) /\ call[t].path \in DOMAIN remote[t] /\ Found(t)
  <2>1. Downloading(t)
    BY <1>2, <1>3 DEF SyncInv, Copies, Undisturbed, Past
  <2>2. call[t].path \in DOMAIN remote[t] /\ call[t].path \in Paths
    BY <1>1, <1>2, <1>3, CallFacts DEF Awaits, Whole, Added, Modified
  <2> QED  BY <2>1, <2>2 DEF Downloading, Knows, Matches, Found
<1>4. CASE Found(t) /\ Running(t)
  <2>1. PICK d \in Contents : d = tree[Server][call[t].path].data
    <3>1. tree[Server] \in Trees
      BY <1>1 DEF Typed, Replicas
    <3> QED  BY <1>4, <3>1, TreeElim DEF Found
  <2>2. PICK k \in Calls :
           /\ k = [call[t] EXCEPT !.stage = "ok", !.arg = d]
           /\ k.op = call[t].op /\ k.path = call[t].path /\ k.arg = d /\ k.stage = "ok"
    <3> DEFINE k == [call[t] EXCEPT !.stage = "ok", !.arg = d]
    <3>1. call[t] \in Calls
      BY <1>1 DEF Typed
    <3>2. k \in Calls /\ k.op = call[t].op /\ k.path = call[t].path /\ k.arg = d /\ k.stage = "ok"
      BY <1>1, <3>1 DEF Calls, Carries, Stages, FileOps
    <3> QED  BY <3>2
  <2>3. call' = [call EXCEPT ![t] = k]
    BY <1>4, <2>1, <2>2 DEF GetFileHandler
  <2>4. /\ call' \in [Tasks -> Calls] /\ call'[t] = k
        /\ \A u \in Tasks \ {t} : Untouched(u)
    BY <1>1, <2>3 DEF Typed, Untouched
  <2>5. Typed'
    BY <1>1, <2>4 DEF Typed, GetFileHandler
  <2>6. pc'[t] = "file" /\ Job(t)' = "sync" /\ Whole(t)' = Whole(t) /\ All(t)' = All(t)
    BY <1>1, <1>2, <1>4 DEF Job, Whole, All, Scope
  <2>7. Awaits(t)'
    BY <1>1, <1>2, <1>4, <2>2, <2>4, <2>6 DEF Awaits
  <2>8. ASSUME ~SameSecond, ~stale'[t] PROVE Undisturbed(t)'
    <3>1. Downloading(t) /\ call[t].path \in DOMAIN remote[t] /\ call[t].path \in Paths
      BY <1>1, <1>2, <1>3, <1>4, <2>8, CallFacts
    <3>2. d = remote[t][call[t].path].sha256
      BY <2>1, <3>1 DEF Downloading, Knows, Matches
    <3>3. \A q : Copyable(t, q)' <=> Copyable(t, q)
      BY <1>1 DEF Copyable, Job, Home
    <3>4. Knows(t)'
      BY <1>1, <3>1 DEF Downloading, Knows, Matches
    <3>5. Downloading(t)'
      BY <1>1, <2>2, <2>4, <3>1, <3>2, <3>3, <3>4
      DEF Downloading, Matches, Holds, Home, Scope, AttributesChanged
    <3> QED  BY <2>6, <3>5 DEF Undisturbed, Past
  <2> QED  BY <2>4, <2>5, <2>7, <2>8, QuietStep DEF GetFileHandler
<1>5. CASE ~(Found(t) /\ Running(t))
  <2>1. Answered(t, "failed")
    BY <1>5 DEF GetFileHandler
  <2>2. /\ call' \in [Tasks -> Calls]
        /\ \A u \in Tasks \ {t} : Untouched(u)
        /\ Running(t) => /\ call'[t].op = call[t].op /\ call'[t].path = call[t].path
                         /\ call'[t].stage = "failed"
        /\ ~Running(t) => call'[t] = NoCall
    BY <1>1, <2>1, AnsweredFacts
  <2>3. Typed'
    BY <1>1, <2>2 DEF Typed, GetFileHandler
  <2>4. Job(t)' = Job(t) /\ Whole(t)' = Whole(t) /\ All(t)' = All(t)
    BY <1>1 DEF Job, Whole, All, Scope
  <2>5. Awaits(t)'
    BY <1>1, <1>2, <2>2, <2>4 DEF Awaits
  <2>6. ~SameSecond /\ ~stale'[t] => Undisturbed(t)'
    BY <1>1, <1>2, <1>3, <1>5 DEF Undisturbed, Past
  <2> QED  BY <2>2, <2>3, <2>5, <2>6, QuietStep DEF GetFileHandler
<1> QED  BY <1>4, <1>5

\* OpenFileHandler: an undisturbed upload finds the file, or finds none, as it expects.
LEMMA OpenFileHandlerKeeps ==
  ASSUME SyncInv, NEW t \in Tasks, OpenFileHandler(t)
  PROVE  SyncInv'
<1>1. /\ Typed /\ Awaits(t) /\ UNCHANGED <<plan, pc, local, remote, todo, tree, stale, exists>>
      /\ call[t].op \in FileOps /\ call[t].stage = "sent"
  BY DEF SyncInv, Shaped, OpenFileHandler, Asked, FileOps
<1>2. /\ pc[t] \in {"file", "lost"} /\ (pc[t] = "file" <=> Running(t))
      /\ pc[t] = "file" => Job(t) = "upload"
  BY <1>1, Askers DEF FileOps
<1>3. PICK s \in {"open", "failed"} :
         /\ Answered(t, s)
         /\ s = "failed" => \/ call[t].op = "createFile" /\ ~(exists[Server] /\ ~Found(t))
                            \/ call[t].op = "updateFile" /\ ~Found(t)
  <2>1. CASE Asked(t, "createFile") /\ Answered(t, IF exists[Server] /\ ~Found(t) THEN "open" ELSE "failed")
    BY <2>1 DEF Asked
  <2>2. CASE Asked(t, "updateFile") /\ Answered(t, IF Found(t) THEN "open" ELSE "failed")
    BY <2>2 DEF Asked
  <2> QED  BY <2>1, <2>2 DEF OpenFileHandler
<1>4. /\ call' \in [Tasks -> Calls]
      /\ \A u \in Tasks \ {t} : Untouched(u)
      /\ Running(t) \/ s = "open" =>
            /\ call'[t].op = call[t].op /\ call'[t].path = call[t].path
            /\ call'[t].arg = call[t].arg /\ call'[t].stage = s
      /\ ~(Running(t) \/ s = "open") => call'[t] = NoCall
  BY <1>1, <1>3, AnsweredFacts DEF FileOps
<1>5. Typed'
  BY <1>1, <1>4 DEF Typed, OpenFileHandler
<1>6. Job(t)' = Job(t) /\ Whole(t)' = Whole(t) /\ All(t)' = All(t)
  BY <1>1 DEF Job, Whole, All, Scope
<1>7. Awaits(t)'
  BY <1>1, <1>2, <1>4, <1>6 DEF Awaits
<1>8. ASSUME ~SameSecond, ~stale'[t], pc[t] = "file" PROVE Uploading(t)'
  <2>1. Uploading(t) /\ UploadsAt(t, call[t])
    BY <1>1, <1>2, <1>8 DEF SyncInv, Copies, Undisturbed, Past, Uploading
  <2>2. Matches(tree[Server], remote[t], call[t].path) /\ exists[Server]
    BY <1>1, <2>1 DEF UploadsAt, Uploading
  <2>3. call[t].op = IF call[t].path \in DOMAIN remote[t] THEN "updateFile" ELSE "createFile"
    BY <1>1, <1>2, <1>8 DEF Awaits
  <2>4. s = "open"
    BY <1>3, <2>2, <2>3 DEF Matches, Found
  <2>5. \A q : Copyable(t, q)' <=> Copyable(t, q)
    BY <1>1 DEF Copyable, Job, Home
  <2>6. UploadsAt(t, call[t])'
    BY <1>1, <1>4, <2>1, <2>2, <2>4, <2>5 DEF UploadsAt, Matches, FileOps
  <2> QED  BY <1>1, <1>4, <2>1, <2>4, <2>5, <2>6 DEF Uploading, Matches, Home
<1>9. ~SameSecond /\ ~stale'[t] => Undisturbed(t)'
  BY <1>1, <1>2, <1>6, <1>8 DEF Undisturbed, Past
<1> QED  BY <1>4, <1>5, <1>7, <1>9, QuietStep DEF OpenFileHandler

\* CreateContentHandler: a directory that exists stays.
LEMMA CreateContentHandlerKeeps ==
  ASSUME SyncInv, NEW t \in Tasks, CreateContentHandler(t)
  PROVE  SyncInv'
<1>1. /\ Typed /\ Awaits(t) /\ UNCHANGED <<plan, pc, local, remote, todo>>
      /\ call[t].op = "createContent" /\ call[t].stage = "sent"
  BY DEF SyncInv, Shaped, CreateContentHandler, Asked
<1>2. /\ pc[t] \in {"manifest", "lost"} /\ (pc[t] = "manifest" <=> Running(t))
      /\ pc[t] = "manifest" => Job(t) = "create"
  BY <1>1, Askers
<1>3. PICK s \in {"ok", "failed"} : Answered(t, s)
  BY DEF CreateContentHandler
<1>4. /\ call' \in [Tasks -> Calls]
      /\ \A u \in Tasks \ {t} : Untouched(u)
      /\ Running(t) => call'[t].op = call[t].op /\ call'[t].stage = s
      /\ ~Running(t) => call'[t] = NoCall
  BY <1>1, <1>3, AnsweredFacts
<1>5. exists' \in [Replicas -> BOOLEAN] /\ exists'[Server]
  BY <1>1 DEF Typed, CreateContentHandler, Replicas
<1>6. Typed'
  BY <1>1, <1>4, <1>5 DEF Typed, CreateContentHandler
<1>7. Awaits(t)'
  BY <1>1, <1>2, <1>4 DEF Awaits, Job
<1>8. Undisturbed(t)'
  BY <1>1, <1>2 DEF Undisturbed, Past, Job
<1> QED  BY <1>4, <1>5, <1>6, <1>7, <1>8, QuietStep DEF CreateContentHandler

\* What is left of a call when its client is gone.
LEMMA OrphanFacts ==
  ASSUME SyncInv, NEW t \in Tasks, Running(t)
  PROVE  /\ Orphan(t) \in Calls
         /\ \/ Orphan(t) = NoCall \/ Orphan(t).stage = "sent"
            \/ (Orphan(t).stage = "open" /\ Orphan(t).op \in FileOps)
<1>1. Typed /\ Awaits(t)
  BY DEF SyncInv, Shaped
<1>2. Orphan(t) \in Calls
  BY <1>1, NoCallTyped DEF Typed, Orphan
<1>3. call[t].stage = "open" => call[t].op \in FileOps
  BY <1>1 DEF Running, Awaits, FileOps
<1> QED  BY <1>2, <1>3 DEF Orphan, Outcome

\* Disconnect: the task is lost.
LEMMA DisconnectKeeps ==
  ASSUME SyncInv, NEW t \in Tasks, Disconnect(t)
  PROVE  SyncInv'
<1>1. Typed /\ "lost" \in Pcs /\ UNCHANGED <<plan, local, remote, todo>>
  BY DEF SyncInv, Pcs, Disconnect
<1>2. PICK k \in Calls :
         /\ k = Orphan(t)
         /\ k = NoCall \/ k.stage = "sent" \/ (k.stage = "open" /\ k.op \in FileOps)
  BY OrphanFacts DEF Disconnect
<1>3. /\ pc' \in [Tasks -> Pcs] /\ pc'[t] = "lost"
      /\ call' \in [Tasks -> Calls] /\ call'[t] = k
      /\ \A u \in Tasks \ {t} : Untouched(u)
  BY <1>1, <1>2, Moves DEF Disconnect
<1>4. Typed'
  BY <1>1, <1>3 DEF Typed, Disconnect
<1>5. Awaits(t)'
  BY <1>2, <1>3 DEF Awaits
<1>6. Undisturbed(t)'
  BY <1>3 DEF Undisturbed, Past
<1> QED  BY <1>3, <1>4, <1>5, <1>6, QuietStep DEF Disconnect

\* CutShort: only a lost task's stream is cut.
LEMMA CutShortKeeps ==
  ASSUME SyncInv, NEW t \in Tasks, CutShort(t)
  PROVE  SyncInv'
<1>1. Typed /\ Awaits(t) /\ UNCHANGED <<plan, pc, local, remote, todo>> /\ pc[t] = "lost"
  BY DEF SyncInv, Shaped, CutShort
<1>2. PICK k \in Calls : /\ k = [call[t] EXCEPT !.arg = Cut]
                         /\ k.op = call[t].op /\ k.stage = call[t].stage
  <2> DEFINE k == [call[t] EXCEPT !.arg = Cut]
  <2>1. call[t] \in Calls /\ call[t].op \in FileOps /\ Cut \in Contents
    BY <1>1 DEF Typed, CutShort, FileOps, Contents
  <2>2. k \in Calls /\ k.op = call[t].op /\ k.stage = call[t].stage
    BY <2>1 DEF Calls, Carries, FileOps
  <2> QED  BY <2>2
<1>3. call' = [call EXCEPT ![t] = k]
  BY <1>2 DEF CutShort
<1>4. /\ call' \in [Tasks -> Calls] /\ call'[t] = k
      /\ \A u \in Tasks \ {t} : Untouched(u)
  BY <1>1, <1>3 DEF Typed, Untouched
<1>5. Typed'
  BY <1>1, <1>4 DEF Typed, CutShort
<1>6. call[t].op \in FileOps /\ (call[t].stage = "sent" \/ call[t].stage = "open")
  BY <1>1 DEF CutShort, FileOps, Awaits, NoCall
<1>7. Awaits(t)'
  BY <1>1, <1>2, <1>4, <1>6 DEF Awaits
<1>8. Undisturbed(t)'
  BY <1>1 DEF Undisturbed, Past
<1> QED  BY <1>4, <1>5, <1>7, <1>8, QuietStep DEF CutShort
-----------------------------------------------------------------------------
(* The server's handlers that write *)

\* A write gets this second or the next one.
LEMMA StampFacts ==
  ASSUME Typed, NEW m \in Stamps
  PROVE  /\ m \in Nat /\ m \in {clock, clock + 1}
         /\ ~SameSecond => m = clock + 1
BY DEF Typed, Stamps

\* A file has been stored: the others are kept.
LEMMA StoredKept ==
  ASSUME Typed, NEW r \in Replicas, NEW p \in Paths, NEW d \in Contents, NEW m \in Stamps,
         clock' = m, tree' = [tree EXCEPT ![r] = Stored(tree[r], p, d, m)]
  PROVE  /\ tree' \in [Replicas -> Trees] /\ clock' \in Nat
         /\ tree'[r] = Stored(tree[r], p, d, m)
         /\ \A s \in Replicas \ {r} : tree'[s] = tree[s]
         /\ ~SameSecond => /\ clock' \in {clock, clock + 1}
                           /\ \A s \in Replicas : FilesKept(s)
<1>1. m \in Nat /\ (~SameSecond => m = clock + 1)
  BY StampFacts
<1>2. tree[r] \in Trees
  BY DEF Typed
<1>3. PICK g \in Trees :
         /\ g = Stored(tree[r], p, d, m)
         /\ DOMAIN g = DOMAIN tree[r] \cup {p} /\ g[p].mtime = m
         /\ \A q \in DOMAIN tree[r] : q # p => g[q] = tree[r][q]
  <2>1. /\ Stored(tree[r], p, d, m) \in Trees
        /\ DOMAIN Stored(tree[r], p, d, m) = DOMAIN tree[r] \cup {p}
    BY <1>1, <1>2, StoredTyped
  <2>2. /\ Stored(tree[r], p, d, m)[p].mtime = m
        /\ \A q \in DOMAIN tree[r] : q # p => Stored(tree[r], p, d, m)[q] = tree[r][q]
    BY <1>1, <1>2, StoredFacts
  <2> QED  BY <2>1, <2>2
<1>4. /\ tree' \in [Replicas -> Trees] /\ tree'[r] = g
      /\ \A s \in Replicas \ {r} : tree'[s] = tree[s]
  BY <1>3 DEF Typed
<1>5. ASSUME ~SameSecond, NEW s \in Replicas PROVE FilesKept(s)
  BY <1>1, <1>3, <1>4, <1>5 DEF FilesKept
<1> QED  BY <1>1, <1>3, <1>4, <1>5

\* StoreFile: the upload's own file changes, every other copy is disturbed.
LEMMA StoreFileKeeps ==
  ASSUME SyncInv, NEW t \in Tasks, StoreFile(t)
  PROVE  SyncInv'
<1> DEFINE p == call[t].path
<1>1. /\ Typed /\ Awaits(t) /\ Server \in Replicas
      /\ UNCHANGED <<plan, pc, local, remote, todo, manifest, exists>>
      /\ call[t].op \in FileOps /\ call[t].stage = "open" /\ Answered(t, "ok")
  BY DEF SyncInv, Shaped, StoreFile, Outcome, FileOps, Replicas
<1>2. /\ pc[t] \in {"file", "lost"} /\ (pc[t] = "file" <=> Running(t))
      /\ pc[t] = "file" => Job(t) = "upload"
  BY <1>1, Askers DEF FileOps
<1>3. p \in Paths /\ call[t].arg \in Contents
  BY <1>1, CallFacts
<1>4. PICK m \in Stamps : clock' = m /\ tree' = [tree EXCEPT ![Server] = Stored(@, p, call[t].arg, m)]
  BY DEF StoreFile
<1>5. /\ tree' \in [Replicas -> Trees] /\ clock' \in Nat
      /\ tree'[Server] = Stored(tree[Server], p, call[t].arg, m)
      /\ \A s \in Replicas \ {Server} : tree'[s] = tree[s]
      /\ ~SameSecond => clock' \in {clock, clock + 1} /\ \A s \in Replicas : FilesKept(s)
  BY <1>1, <1>3, <1>4, StoredKept
<1>6. /\ DOMAIN tree'[Server] = DOMAIN tree[Server] \cup {p}
      /\ \A q \in DOMAIN tree[Server] : q # p => tree'[Server][q] = tree[Server][q]
      /\ tree'[Server][p].data = call[t].arg
  <2>1. tree[Server] \in Trees /\ m \in Nat
    BY <1>1, StampFacts DEF Typed
  <2>2. PICK d \in Contents : d = call[t].arg
    BY <1>3
  <2>3. DOMAIN Stored(tree[Server], p, d, m) = DOMAIN tree[Server] \cup {p}
    BY <1>3, <2>1, StoredTyped
  <2>4. /\ \A q \in DOMAIN tree[Server] :
              q # p => Stored(tree[Server], p, d, m)[q] = tree[Server][q]
        /\ Stored(tree[Server], p, d, m)[p].data = d
    BY <1>3, <2>1, StoredFacts
  <2> QED  BY <1>5, <2>2, <2>3, <2>4
<1>7. /\ call' \in [Tasks -> Calls]
      /\ \A u \in Tasks \ {t} : Untouched(u)
      /\ Running(t) => /\ call'[t].op = call[t].op /\ call'[t].path = p
                       /\ call'[t].arg = call[t].arg /\ call'[t].stage = "ok"
      /\ ~Running(t) => call'[t] = NoCall
  BY <1>1, AnsweredFacts DEF FileOps
<1>8. /\ stale' \in [Tasks -> BOOLEAN] /\ stale'[t] = stale[t]
      /\ \A u \in Tasks \ {t} : Spared(u)
  BY <1>1 DEF StoreFile, ServerWrite, Spared, Typed
<1>9. Typed'
  BY <1>1, <1>5, <1>7, <1>8 DEF Typed, StoreFile
<1>10. Job(t)' = Job(t) /\ Whole(t)' = Whole(t) /\ All(t)' = All(t)
  BY <1>1 DEF Job, Whole, All, Scope
<1>11. Awaits(t)'
  BY <1>1, <1>2, <1>7, <1>10 DEF Awaits
<1>12. ASSUME ~SameSecond, ~stale'[t], pc[t] = "file" PROVE Uploading(t)'
  <2>1. Uploading(t) /\ UploadsAt(t, call[t]) /\ p \in todo[t]
    BY <1>1, <1>2, <1>8, <1>12 DEF SyncInv, Copies, Undisturbed, Past, Uploading, Awaits
  <2>2. tree'[Home(t)] = tree[Home(t)] /\ Home(t)' = Home(t)
    BY <1>1, <1>5, PlanFacts DEF Typed, Home
  <2>3. \A q : Copyable(t, q)' <=> Copyable(t, q)
    BY <1>1 DEF Copyable, Job, Home
  <2>4. \A q \in Paths : q # p =>
           /\ Matches(tree[Server], local[t], q) => Matches(tree[Server], local[t], q)'
           /\ Matches(tree[Server], remote[t], q) => Matches(tree[Server], remote[t], q)'
    BY <1>1, <1>6 DEF Matches
  <2>5. UploadsAt(t, call[t])'
    BY <1>1, <1>2, <1>6, <1>7, <1>12, <2>1, <2>3 DEF UploadsAt, FileOps
  <2>6. \A q \in Paths : Matches(tree[Home(t)], local[t], q)'
    BY <1>1, <2>1, <2>2 DEF Uploading, Matches
  <2>7. \A q \in Paths : /\ q \notin todo[t] /\ Copyable(t, q) => Matches(tree[Server], local[t], q)'
                         /\ q \in todo[t] /\ q # p => Matches(tree[Server], remote[t], q)'
    BY <2>1, <2>4 DEF Uploading
  <2> QED  BY <1>1, <1>2, <1>7, <1>12, <2>1, <2>3, <2>5, <2>6, <2>7 DEF Uploading
<1>13. ~SameSecond /\ ~stale'[t] => Undisturbed(t)'
  BY <1>1, <1>2, <1>10, <1>12 DEF Undisturbed, Past
<1>14. ManifestsKept
  BY <1>1 DEF ManifestsKept
<1> QED  BY <1>1, <1>5, <1>7, <1>8, <1>9, <1>11, <1>13, <1>14, TaskStep

\* What deleteFileHandler and setPermissionsHandler share.
LEMMA ChangeHandlerKeeps ==
  ASSUME SyncInv, NEW t \in Tasks, NEW op \in {"deleteFile", "setPermissions"},
         NEW files, Found(t) => files \in Trees, ChangeHandler(t, op, files),
         \A q \in Paths \ {call[t].path} :
            /\ q \in DOMAIN files <=> q \in DOMAIN tree[Server]
            /\ q \in DOMAIN files => files[q] = tree[Server][q],
         op = "deleteFile" => call[t].path \notin DOMAIN files,
         op = "setPermissions" /\ Found(t) =>
            /\ call[t].path \in DOMAIN files
            /\ files[call[t].path].data = tree[Server][call[t].path].data
            /\ files[call[t].path].mtime = tree[Server][call[t].path].mtime
            /\ files[call[t].path].perms = call[t].arg
  PROVE  SyncInv'
<1> DEFINE p == call[t].path
<1>1. /\ Typed /\ Awaits(t) /\ Server \in Replicas
      /\ UNCHANGED <<plan, pc, local, remote, todo, manifest, exists, clock>>
      /\ call[t].op = op /\ call[t].stage = "sent"
  BY DEF SyncInv, Shaped, ChangeHandler, Asked, Replicas
<1>2. /\ pc[t] \in {"attributes", "lost"} /\ (pc[t] = "attributes" <=> Running(t))
      /\ pc[t] = "attributes" => Job(t) = "upload"
  BY <1>1, Askers
<1>3. p \in Paths
  BY <1>1, CallFacts
<1>4. ASSUME NEW s \in {"ok", "failed"}, Answered(t, s)
      PROVE  /\ call' \in [Tasks -> Calls]
             /\ \A u \in Tasks \ {t} : Untouched(u)
             /\ Running(t) => /\ call'[t].op = call[t].op /\ call'[t].path = p
                              /\ call'[t].arg = call[t].arg /\ call'[t].stage = s
             /\ ~Running(t) => call'[t] = NoCall
             /\ Awaits(t)'
  <2>1. /\ call' \in [Tasks -> Calls]
        /\ \A u \in Tasks \ {t} : Untouched(u)
        /\ Running(t) => /\ call'[t].op = call[t].op /\ call'[t].path = p
                         /\ call'[t].arg = call[t].arg /\ call'[t].stage = s
        /\ ~Running(t) => call'[t] = NoCall
    BY <1>1, <1>4, AnsweredFacts
  <2>2. Job(t)' = Job(t) /\ Whole(t)' = Whole(t) /\ All(t)' = All(t)
    BY <1>1 DEF Job, Whole, All, Scope
  <2>3. Awaits(t)'
    BY <1>1, <1>2, <2>1, <2>2 DEF Awaits
  <2> QED  BY <2>1, <2>3
<1>5. ASSUME ~SameSecond, ~stale[t], pc[t] = "attributes"
      PROVE  Uploading(t) /\ UploadsAt(t, call[t]) /\ p \in todo[t] /\ Found(t)
  <2>1. Uploading(t) /\ UploadsAt(t, call[t]) /\ p \in todo[t]
    BY <1>1, <1>2, <1>5 DEF SyncInv, Copies, Undisturbed, Past, Uploading, Awaits
  <2> QED  BY <1>1, <2>1 DEF Uploading, UploadsAt, Found
<1>6. CASE ~Found(t)
  <2>1. Answered(t, "failed") /\ UNCHANGED <<tree, stale>>
    BY <1>6 DEF ChangeHandler
  <2>2. Typed'
    BY <1>1, <1>4, <2>1 DEF Typed, ChangeHandler
  <2>3. ~SameSecond /\ ~stale'[t] => Undisturbed(t)'
    BY <1>1, <1>2, <1>5, <1>6, <2>1 DEF Undisturbed, Past
  <2> QED  BY <1>1, <1>4, <2>1, <2>2, <2>3, QuietStep
<1>7. CASE Found(t)
  <2>1. /\ Answered(t, "ok") /\ tree' = [tree EXCEPT ![Server] = files]
        /\ ServerWrite(t) /\ files \in Trees
    BY <1>7 DEF ChangeHandler
  <2>2. /\ tree' \in [Replicas -> Trees] /\ tree'[Server] = files
        /\ \A s \in Replicas \ {Server} : tree'[s] = tree[s]
    BY <1>1, <2>1 DEF Typed
  <2>3. /\ stale' \in [Tasks -> BOOLEAN] /\ stale'[t] = stale[t]
        /\ \A u \in Tasks \ {t} : Spared(u)
    BY <1>1, <2>1 DEF ServerWrite, Spared, Typed
  <2>4. Typed'
    BY <1>1, <1>4, <2>1, <2>2, <2>3 DEF Typed, ChangeHandler
  <2>5. FilesKept(Server)
    <3>1. DOMAIN files \subseteq Paths
      BY <2>1, TreeElim
    <3> QED  BY <1>7, <2>2, <3>1 DEF FilesKept, Found
  <2>6. \A s \in Replicas : FilesKept(s)
    BY <2>2, <2>5 DEF FilesKept
  <2>7. ManifestsKept
    BY <1>1 DEF ManifestsKept
  <2>8. ASSUME ~SameSecond, ~stale'[t], pc[t] = "attributes" PROVE Uploading(t)'
    <3>1. Uploading(t) /\ UploadsAt(t, call[t]) /\ p \in todo[t]
      BY <1>5, <2>3, <2>8
    <3>2. tree'[Home(t)] = tree[Home(t)] /\ Home(t)' = Home(t)
      BY <1>1, <2>2, PlanFacts DEF Typed, Home
    <3>3. \A q : Copyable(t, q)' <=> Copyable(t, q)
      BY <1>1 DEF Copyable, Job, Home
    <3>4. \A q \in Paths : q # p =>
             /\ Matches(tree[Server], local[t], q) => Matches(tree[Server], local[t], q)'
             /\ Matches(tree[Server], remote[t], q) => Matches(tree[Server], remote[t], q)'
      BY <1>1, <2>2 DEF Matches
    <3>5. UploadsAt(t, call[t])'
      BY <1>1, <1>2, <1>4, <1>7, <2>1, <2>2, <2>8, <3>1, <3>3 DEF UploadsAt, Holds, FileOps
    <3>6. \A q \in Paths : Matches(tree[Home(t)], local[t], q)'
      BY <1>1, <3>1, <3>2 DEF Uploading, Matches
    <3>7. \A q \in Paths : /\ q \notin todo[t] /\ Copyable(t, q) => Matches(tree[Server], local[t], q)'
                           /\ q \in todo[t] /\ q # p => Matches(tree[Server], remote[t], q)'
      BY <3>1, <3>4 DEF Uploading
    <3>8. call'[t].path = p /\ call'[t].stage = "ok"
      BY <1>2, <1>4, <2>1, <2>8
    <3> QED  BY <1>1, <2>8, <3>1, <3>3, <3>5, <3>6, <3>7, <3>8 DEF Uploading
  <2>9. ~SameSecond /\ ~stale'[t] => Undisturbed(t)'
    BY <1>1, <1>2, <2>8 DEF Undisturbed, Past, Job
  <2> QED  BY <1>1, <1>4, <2>1, <2>3, <2>4, <2>6, <2>7, <2>9, TaskStep
<1> QED  BY <1>6, <1>7

\* DeleteFileHandler
LEMMA DeleteFileHandlerKeeps ==
  ASSUME SyncInv, NEW t \in Tasks, DeleteFileHandler(t)
  PROVE  SyncInv'
<1> DEFINE files == Removed(tree[Server], {call[t].path})
<1>1. tree[Server] \in Trees
  BY DEF SyncInv, Typed, Replicas
<1>2. /\ files \in Trees /\ DOMAIN files = DOMAIN tree[Server] \ {call[t].path}
      /\ \A q \in DOMAIN files : files[q] = tree[Server][q]
  <2>1. /\ files \in Trees /\ DOMAIN files = DOMAIN tree[Server] \ {call[t].path}
        /\ \A q \in DOMAIN tree[Server] \ {call[t].path} : files[q] = tree[Server][q]
    BY <1>1, RemovedFacts
  <2> QED  BY <2>1
<1>3. ChangeHandler(t, "deleteFile", files)
  BY DEF DeleteFileHandler
<1> HIDE DEF files
<1> QED  BY <1>2, <1>3, ChangeHandlerKeeps

\* SetPermissionsHandler
LEMMA SetPermissionsHandlerKeeps ==
  ASSUME SyncInv, NEW t \in Tasks, SetPermissionsHandler(t)
  PROVE  SyncInv'
<1> DEFINE P == {call[t].path}
           permsOf == [p \in P |-> call[t].arg]
           files == WithPermissions(tree[Server], P, permsOf)
<1>1. tree[Server] \in Trees /\ Typed
  BY DEF SyncInv, Typed, Replicas
<1>2. ChangeHandler(t, "setPermissions", files)
  BY DEF SetPermissionsHandler
<1>3. call[t].arg \in Perms
  BY <1>1, <1>2, CallFacts DEF ChangeHandler, Asked
<1>4. \A q \in P : permsOf[q] = call[t].arg /\ permsOf[q] \in Perms
  BY <1>3
<1> HIDE DEF permsOf
<1>5. /\ files \in Trees /\ DOMAIN files = DOMAIN tree[Server]
      /\ \A q \in DOMAIN files :
            /\ files[q].data = tree[Server][q].data /\ files[q].mtime = tree[Server][q].mtime
            /\ q \in P => files[q].perms = permsOf[q]
            /\ q \notin P => files[q] = tree[Server][q]
  BY <1>1, <1>4, WithPermissionsFacts
<1> HIDE DEF files
<1>6. Found(t) => /\ call[t].path \in DOMAIN files
                  /\ files[call[t].path].data = tree[Server][call[t].path].data
                  /\ files[call[t].path].mtime = tree[Server][call[t].path].mtime
                  /\ files[call[t].path].perms = call[t].arg
  BY <1>4, <1>5 DEF Found
<1> QED  BY <1>2, <1>5, <1>6, ChangeHandlerKeeps

\* The server's manifest is read: t is undisturbed from here on.
LEMMA GetManifestHandlerKeeps ==
  ASSUME SyncInv, NEW t \in Tasks, GetManifestHandler(t)
  PROVE  SyncInv'
<1>1. /\ Typed /\ Awaits(t) /\ Server \in Replicas
      /\ UNCHANGED <<plan, pc, local, todo, tree, exists, clock>>
      /\ call[t].op = "getManifest" /\ call[t].stage = "sent"
  BY DEF SyncInv, Shaped, GetManifestHandler, Asked, Replicas
<1>2. /\ pc[t] \in {"manifest", "lost"} /\ (pc[t] = "manifest" <=> Running(t))
      /\ pc[t] = "manifest" => Job(t) # "create"
  BY <1>1, Askers
<1>3. CASE ~exists[Server]
  <2>1. Answered(t, "failed") /\ UNCHANGED <<manifest, last_full, remote, stale>>
    BY <1>3 DEF GetManifestHandler
  <2>2. /\ call' \in [Tasks -> Calls]
        /\ \A u \in Tasks \ {t} : Untouched(u)
        /\ Running(t) => call'[t].op = call[t].op /\ call'[t].stage = "failed"
        /\ ~Running(t) => call'[t] = NoCall
    BY <1>1, <2>1, AnsweredFacts
  <2>3. Typed'
    BY <1>1, <2>1, <2>2 DEF Typed
  <2>4. Awaits(t)'
    BY <1>1, <1>2, <2>2 DEF Awaits, Job
  <2>5. Undisturbed(t)'
    BY <1>1, <1>2, <2>2 DEF Undisturbed, Past
  <2> QED  BY <1>1, <2>1, <2>2, <2>3, <2>4, <2>5, QuietStep
<1>4. CASE exists[Server]
  <2>1. /\ Answered(t, "ok") /\ UpdateManifest(Server)
        /\ remote' = [remote EXCEPT ![t] = ScanContent(Server)]
        /\ stale' = [stale EXCEPT ![t] = FALSE]
    BY <1>4 DEF GetManifestHandler
  <2>2. PICK mf \in Manifests :
           /\ mf = ScanContent(Server) /\ DOMAIN mf = DOMAIN tree[Server]
           /\ \A p \in DOMAIN mf : /\ mf[p].permissions = tree[Server][p].perms
                                   /\ ManifestHonest => mf[p].sha256 = tree[Server][p].data
    BY <1>1, ScanFacts
  <2>3. /\ call' \in [Tasks -> Calls]
        /\ \A u \in Tasks \ {t} : call'[u] = call[u]
        /\ Running(t) => call'[t].op = call[t].op /\ call'[t].stage = "ok"
        /\ ~Running(t) => call'[t] = NoCall
    <3>1. call[t] \in Calls
      BY <1>1 DEF Typed
    <3>2. PICK k \in Calls : /\ k = [call[t] EXCEPT !.stage = "ok"]
                             /\ k.op = call[t].op /\ k.stage = "ok"
      BY <1>1, <3>1, AnswerTyped
    <3>3. CASE Running(t)
      BY <1>1, <2>1, <3>2, <3>3 DEF Answered, Typed
    <3>4. CASE ~Running(t)
      BY <1>1, <2>1, <3>4, NoCallTyped DEF Answered, Typed
    <3> QED  BY <3>3, <3>4
  <2>4. /\ remote' \in [Tasks -> Manifests] /\ remote'[t] = mf
        /\ stale' \in [Tasks -> BOOLEAN]
        /\ \A u \in Tasks \ {t} : remote'[u] = remote[u] /\ stale'[u] = stale[u]
    BY <1>1, <2>1, <2>2 DEF Typed
  <2>5. /\ manifest' \in [Replicas -> Manifests] /\ ManifestsKept
        /\ last_full' \in [Replicas -> Int]
    BY <1>1, <2>1, <2>2 DEF Typed, UpdateManifest, ManifestsKept
  <2>6. Typed'
    BY <1>1, <2>3, <2>4, <2>5 DEF Typed
  <2>7. \A u \in Tasks \ {t} : Untouched(u) /\ Spared(u)
    BY <1>1, <2>3, <2>4 DEF Untouched, Spared
  <2>8. Awaits(t)'
    BY <1>1, <1>2, <2>3 DEF Awaits, Job
  <2>9. ASSUME ~SameSecond PROVE Knows(t)'
    <3>1. ManifestHonest
      BY <2>9 DEF SyncInv, Honest
    <3> QED  BY <1>1, <1>4, <2>2, <2>4, <3>1 DEF Knows, Matches
  <2>10. ~SameSecond => Undisturbed(t)'
    BY <1>1, <1>2, <2>9 DEF Undisturbed, Past
  <2>11. \A r \in Replicas : FilesKept(r)
    BY <1>1 DEF FilesKept
  <2> QED  BY <1>1, <2>5, <2>6, <2>7, <2>8, <2>10, <2>11, TaskStep
<1> QED  BY <1>3, <1>4
-----------------------------------------------------------------------------
(* Uploads *)

\* What an undisturbed upload with these paths left has to find.
UploadReady(t, left, loc) ==
    /\ exists[Server]
    /\ \A p \in Paths :
          /\ Matches(tree[Home(t)], loc, p)
          /\ p \in left => Matches(tree[Server], remote[t], p)

UploadCall(t, loc, x, k) ==
    \/ x = "done" /\ k = NoCall
    \/ \E p \in Paths :
          \/ /\ p \in Added(remote[t], loc) \cup Modified(remote[t], loc)
             /\ p \notin DOMAIN tree[Home(t)] \/ Loaded(Home(t), tree[Home(t)][p].data) = Unencodable
             /\ x = "error" /\ k = NoCall
          \/ /\ p \in Added(remote[t], loc) \cup Modified(remote[t], loc)
             /\ x = "file" /\ p \in DOMAIN tree[Home(t)]
             /\ k = Request(IF p \in DOMAIN remote[t] THEN "updateFile" ELSE "createFile",
                            p, Loaded(Home(t), tree[Home(t)][p].data))
          \/ /\ p \in AttributesChanged(remote[t], loc)
             /\ x = "attributes" /\ k = Request("setPermissions", p, loc[p].permissions)
          \/ /\ p \in RemovedFiles(remote[t], loc)
             /\ x = "attributes" /\ k = Request("deleteFile", p, DefaultPerms)

\* How a stretch of the uploading loop ends.
LEMMA UploadCases ==
  ASSUME Typed, NEW t \in Tasks, NEW loc \in Manifests, NEW left \in SUBSET Paths,
         UploadOn(t, left, loc)
  PROVE  \E x \in Pcs, k \in Calls :
            /\ pc' = [pc EXCEPT ![t] = x] /\ call' = [call EXCEPT ![t] = k]
            /\ x = "done" => left = {}
            /\ x # "done" /\ x # "error" => k.path \in left
            /\ UploadCall(t, loc, x, k)
<1> DEFINE c == Home(t)
<1>1. tree[c] \in Trees
  BY PlanFacts DEF Typed
<1>2. CASE left = {} /\ Finish(t, "done")
  BY <1>2, NoCallTyped DEF Finish, UploadCall, Pcs
<1>3. ASSUME NEW p \in left, p \in Added(remote[t], loc) \cup Modified(remote[t], loc),
             UploadFile(t, p)
      PROVE  \E x \in Pcs, k \in Calls :
                /\ pc' = [pc EXCEPT ![t] = x] /\ call' = [call EXCEPT ![t] = k]
                /\ x = "done" => left = {}
                /\ x # "done" /\ x # "error" => k.path \in left
                /\ UploadCall(t, loc, x, k)
  <2>1. CASE /\ p \notin DOMAIN tree[c] \/ Loaded(c, tree[c][p].data) = Unencodable
             /\ Finish(t, "error")
    BY <1>3, <2>1, NoCallTyped DEF Finish, UploadCall, Pcs
  <2>2. CASE ~(p \notin DOMAIN tree[c] \/ Loaded(c, tree[c][p].data) = Unencodable)
    <3>1. PICK d \in Contents : d = Loaded(c, tree[c][p].data)
      BY <1>1, <2>2, TreeElim, Conversions
    <3>2. PICK op \in FileOps : op = IF p \in DOMAIN remote[t] THEN "updateFile" ELSE "createFile"
      BY DEF FileOps
    <3>3. Request(op, p, d) \in Calls /\ Request(op, p, d).path = p
      BY <1>3, <3>1, <3>2, RequestTyped DEF FileOps, Request
    <3>4. pc' = [pc EXCEPT ![t] = "file"] /\ call' = [call EXCEPT ![t] = Request(op, p, d)]
      BY <1>3, <2>2, <3>1, <3>2 DEF UploadFile
    <3>5. UploadCall(t, loc, "file", Request(op, p, d))
      BY <1>3, <2>2, <3>1, <3>2 DEF UploadCall
    <3> QED  BY <1>3, <3>3, <3>4, <3>5 DEF Pcs
  <2> QED  BY <1>3, <2>1, <2>2 DEF UploadFile
<1>4. ASSUME NEW p \in left, p \in AttributesChanged(remote[t], loc),
             pc' = [pc EXCEPT ![t] = "attributes"],
             call' = [call EXCEPT ![t] = Request("setPermissions", p, loc[p].permissions)]
      PROVE  \E x \in Pcs, k \in Calls :
                /\ pc' = [pc EXCEPT ![t] = x] /\ call' = [call EXCEPT ![t] = k]
                /\ x = "done" => left = {}
                /\ x # "done" /\ x # "error" => k.path \in left
                /\ UploadCall(t, loc, x, k)
  <2>1. PICK m \in Perms : m = loc[p].permissions
    BY <1>4, ManifestElim DEF AttributesChanged
  <2>2. Request("setPermissions", p, m) \in Calls /\ Request("setPermissions", p, m).path = p
    BY <1>4, <2>1, RequestTyped DEF Request
  <2>3. UploadCall(t, loc, "attributes", Request("setPermissions", p, m))
    BY <1>4, <2>1 DEF UploadCall
  <2> QED  BY <1>4, <2>1, <2>2, <2>3 DEF Pcs
<1>5. ASSUME NEW p \in left, p \in RemovedFiles(remote[t], loc),
             pc' = [pc EXCEPT ![t] = "attributes"],
             call' = [call EXCEPT ![t] = Request("deleteFile", p, DefaultPerms)]
      PROVE  \E x \in Pcs, k \in Calls :
                /\ pc' = [pc EXCEPT ![t] = x] /\ call' = [call EXCEPT ![t] = k]
                /\ x = "done" => left = {}
                /\ x # "done" /\ x # "error" => k.path \in left
                /\ UploadCall(t, loc, x, k)
  <2>1. /\ Request("deleteFile", p, DefaultPerms) \in Calls
        /\ Request("deleteFile", p, DefaultPerms).path = p
    BY <1>5, RequestTyped DEF Request
  <2>2. UploadCall(t, loc, "attributes", Request("deleteFile", p, DefaultPerms))
    BY <1>5 DEF UploadCall
  <2> QED  BY <1>5, <2>1, <2>2 DEF Pcs
<1> QED  BY <1>2, <1>3, <1>4, <1>5 DEF UploadOn

\* One stretch of an upload, of its first or a later one.
LEMMA UploadStretch ==
  ASSUME SyncInv, NEW t \in Tasks, Job(t) = "upload", NEW loc \in Manifests,
         NEW left \in SUBSET Changes(remote[t], loc, Scope(t)),
         UploadOn(t, left, loc), plan' = plan, remote' = remote,
         local' = [local EXCEPT ![t] = loc]
  PROVE  /\ pc' \in [Tasks -> Pcs] /\ call' \in [Tasks -> Calls]
         /\ todo' \in [Tasks -> SUBSET Paths] /\ local' \in [Tasks -> Manifests]
         /\ \A u \in Tasks \ {t} : Untouched(u)
         /\ Awaits(t)'
         /\ UploadReady(t, left, loc)
            /\ exists'[Server]
            /\ (\A p \in Paths : p \notin left /\ Copyable(t, p)' => Matches(tree[Server], loc, p))
               => Undisturbed(t)'
<1>1. Typed /\ Scope(t) = Paths /\ left \in SUBSET Paths
  BY PlanFacts DEF SyncInv, Typed, Changes
<1>2. PICK x \in Pcs, k \in Calls :
         /\ pc' = [pc EXCEPT ![t] = x] /\ call' = [call EXCEPT ![t] = k]
         /\ x = "done" => left = {}
         /\ x # "done" /\ x # "error" => k.path \in left
         /\ UploadCall(t, loc, x, k)
  BY <1>1, UploadCases
<1>3. /\ pc' \in [Tasks -> Pcs] /\ pc'[t] = x
      /\ call' \in [Tasks -> Calls] /\ call'[t] = k
      /\ todo' \in [Tasks -> SUBSET Paths] /\ todo'[t] = left
      /\ local' \in [Tasks -> Manifests] /\ local'[t] = loc
      /\ \A u \in Tasks \ {t} : Untouched(u)
  BY <1>1, <1>2 DEF Typed, UploadOn, Untouched
<1>4. /\ Job(t)' = "upload" /\ Scope(t)' = Paths /\ Home(t)' = Home(t)
      /\ Whole(t)' = Added(remote[t], loc) \cup Modified(remote[t], loc)
      /\ All(t)' = Changes(remote[t], loc, Scope(t))
      /\ \A p : Copyable(t, p)' <=> (Home(t) \in PythonClients /\ p \in DOMAIN loc
                                        => loc[p].sha256 \in Ascii \cup {Cut})
  <2>1. Job(t)' = "upload" /\ Scope(t)' = Scope(t) /\ Home(t)' = Home(t)
    BY DEF Job, Scope, Home
  <2> QED  BY <1>1, <1>3, <2>1 DEF Whole, All, Copyable
<1>5. /\ x \in {"done", "error"} => k = NoCall
      /\ x \in {"done", "error", "file", "attributes"}
      /\ x = "file" =>
            /\ k.path \in Added(remote[t], loc) \cup Modified(remote[t], loc)
            /\ k.path \in DOMAIN tree[Home(t)]
            /\ k.op = IF k.path \in DOMAIN remote[t] THEN "updateFile" ELSE "createFile"
            /\ k.arg = Loaded(Home(t), tree[Home(t)][k.path].data) /\ k.stage = "sent"
      /\ x = "attributes" =>
            /\ k.stage = "sent"
            /\ \/ /\ k.op = "setPermissions" /\ k.path \in AttributesChanged(remote[t], loc)
                  /\ k.arg = loc[k.path].permissions
               \/ k.op = "deleteFile" /\ k.path \in RemovedFiles(remote[t], loc)
  BY <1>2 DEF UploadCall, Request
<1>6. Awaits(t)'
  BY <1>2, <1>3, <1>4, <1>5
  DEF Awaits, Added, Modified, AttributesChanged, RemovedFiles
<1>7. ASSUME UploadReady(t, left, loc), exists'[Server],
             \A p \in Paths : p \notin left /\ Copyable(t, p)' => Matches(tree[Server], loc, p)
      PROVE  Undisturbed(t)'
  <2>1. UNCHANGED tree /\ tree[Home(t)] \in Trees
    BY <1>1, PlanFacts DEF UploadOn, Typed
  <2>2. ASSUME NEW p \in DOMAIN loc
        PROVE  /\ p \in DOMAIN tree[Home(t)] /\ tree[Home(t)][p].data = loc[p].sha256
               /\ Copyable(t, p)' => Loaded(Home(t), tree[Home(t)][p].data) = loc[p].sha256
                                     /\ loc[p].sha256 # Unencodable
    <3>1. p \in Paths /\ loc[p].sha256 \in Contents
      BY <2>2, ManifestElim
    <3>2. p \in DOMAIN tree[Home(t)] /\ tree[Home(t)][p].data = loc[p].sha256
      BY <1>7, <2>2, <3>1 DEF UploadReady, Matches
    <3> QED  BY <1>4, <2>2, <3>1, <3>2, Conversions
  <2>3. ASSUME x = "error" PROVE \E p \in Paths : ~Copyable(t, p)'
    <3>1. PICK p \in Paths :
             /\ p \in Added(remote[t], loc) \cup Modified(remote[t], loc)
             /\ p \notin DOMAIN tree[Home(t)] \/ Loaded(Home(t), tree[Home(t)][p].data) = Unencodable
      BY <1>2, <2>3 DEF UploadCall
    <3>2. p \in DOMAIN loc
      BY <3>1 DEF Added, Modified
    <3> QED  BY <3>1, <3>2, <2>2
  <2>4. ASSUME x \in {"file", "attributes"} PROVE UploadsAt(t, call[t])'
    <3>1. k.path \in Paths /\ Matches(tree[Server], remote[t], k.path)
      BY <1>1, <1>2, <1>7, <2>4 DEF UploadReady
    <3>2. CASE x = "file"
      <4>1. k.path \in DOMAIN loc /\ k.op \in FileOps
        BY <1>5, <3>2 DEF Added, Modified, FileOps
      <4>2. Copyable(t, k.path)' => k.arg = loc[k.path].sha256
        BY <1>5, <2>2, <3>2, <4>1
      <4> QED
        BY <1>3, <1>5, <2>1, <3>1, <3>2, <4>1, <4>2 DEF UploadsAt, FileOps, Matches
    <3>3. CASE x = "attributes"
      <4>1. CASE k.op = "setPermissions"
        <5>1. /\ k.path \in DOMAIN tree[Server] /\ k.path \in DOMAIN loc
              /\ tree[Server][k.path].data = loc[k.path].sha256
          BY <1>5, <3>1, <3>3, <4>1 DEF Matches, AttributesChanged
        <5> QED  BY <1>3, <1>5, <2>1, <3>3, <4>1, <5>1 DEF UploadsAt, FileOps, Holds
      <4>2. CASE k.op = "deleteFile"
        <5>1. k.path \in DOMAIN tree[Server]
          BY <1>5, <3>1, <3>3, <4>2 DEF Matches, RemovedFiles
        <5> QED  BY <1>3, <1>5, <2>1, <3>3, <4>2, <5>1 DEF UploadsAt, FileOps
      <4> QED  BY <1>5, <3>3, <4>1, <4>2
    <3> QED  BY <2>4, <3>2, <3>3
  <2>5. ASSUME x # "error" PROVE Uploading(t)'
    <3>1. \A p \in Paths : Matches(tree[Home(t)], local[t], p)'
      BY <1>3, <1>4, <1>7, <2>1 DEF UploadReady, Matches
    <3>2. \A p \in Paths :
             /\ p \notin left /\ Copyable(t, p)' => Matches(tree[Server], local[t], p)'
             /\ p \in left => Matches(tree[Server], remote[t], p)'
      BY <1>3, <1>7, <2>1 DEF UploadReady, Matches
    <3>3. x # "done" => call'[t].stage # "failed" /\ UploadsAt(t, call[t])'
      BY <1>3, <1>5, <2>4, <2>5
    <3> QED  BY <1>3, <1>7, <3>1, <3>2, <3>3 DEF Uploading
  <2> QED  BY <1>3, <1>4, <1>5, <2>3, <2>5 DEF Undisturbed, Past
<1> QED  BY <1>3, <1>6, <1>7

\* ChangeUploaded: the change is on the server, the upload goes on.
LEMMA ChangeUploadedKeeps ==
  ASSUME SyncInv, NEW t \in Tasks, ChangeUploaded(t)
  PROVE  SyncInv'
<1> DEFINE p == call[t].path
           left == todo[t] \ {p}
<1>1. /\ Typed /\ Awaits(t) /\ pc[t] = "attributes" /\ call[t].stage = "ok"
      /\ UploadOn(t, left, local[t])
      /\ UNCHANGED <<plan, exists, manifest, last_full, clock, local, remote>>
  BY DEF SyncInv, Shaped, ChangeUploaded, Outcome
<1>2. /\ Job(t) = "upload" /\ local[t] \in Manifests
      /\ left \in SUBSET Changes(remote[t], local[t], Scope(t))
      /\ local' = [local EXCEPT ![t] = local[t]]
  BY <1>1 DEF Awaits, Typed, All
<1> HIDE DEF left
<1>3. /\ pc' \in [Tasks -> Pcs] /\ call' \in [Tasks -> Calls]
      /\ todo' \in [Tasks -> SUBSET Paths] /\ local' \in [Tasks -> Manifests]
      /\ \A u \in Tasks \ {t} : Untouched(u)
      /\ Awaits(t)'
      /\ UploadReady(t, left, local[t])
         /\ exists'[Server]
         /\ (\A q \in Paths : q \notin left /\ Copyable(t, q)' => Matches(tree[Server], local[t], q))
            => Undisturbed(t)'
  BY <1>1, <1>2, UploadStretch
<1>4. UNCHANGED <<tree, stale>>
  BY <1>1 DEF UploadOn
<1>5. Typed'
  BY <1>1, <1>3, <1>4 DEF Typed
<1>6. ASSUME ~SameSecond, ~stale'[t] PROVE Undisturbed(t)'
  <2>1. Uploading(t) /\ UploadsAt(t, call[t])
    BY <1>1, <1>2, <1>4, <1>6 DEF SyncInv, Copies, Undisturbed, Past, Uploading
  <2>2. UploadReady(t, left, local[t]) /\ exists'[Server]
    BY <1>1, <2>1 DEF Uploading, UploadReady, left
  <2>3. \A q : Copyable(t, q)' <=> Copyable(t, q)
    BY <1>1 DEF Copyable, Job, Home
  <2>4. p \in Paths /\ (Copyable(t, p) => Matches(tree[Server], local[t], p))
    <3>1. p \in Paths
      BY <1>1, CallFacts DEF Awaits
    <3>2. CASE call[t].op = "setPermissions"
      <4>1. p \in DOMAIN local[t] /\ call[t].arg = local[t][p].permissions
        BY <1>1, <3>2 DEF Awaits
      <4>2. /\ p \in DOMAIN tree[Server] /\ tree[Server][p].perms = call[t].arg
            /\ Copyable(t, p) => Holds(tree[Server], local[t], p)
        BY <1>1, <2>1, <3>2 DEF UploadsAt
      <4> QED  BY <3>1, <4>1, <4>2 DEF Holds, Matches
    <3>3. CASE call[t].op = "deleteFile"
      <4>1. p \notin DOMAIN local[t]
        BY <1>1, <3>3 DEF Awaits
      <4>2. p \notin DOMAIN tree[Server]
        BY <1>1, <2>1, <3>3 DEF UploadsAt
      <4> QED  BY <3>1, <4>1, <4>2 DEF Matches
    <3> QED  BY <1>1, <3>1, <3>2, <3>3 DEF Awaits
  <2>5. \A q \in Paths : q \notin left /\ Copyable(t, q)' => Matches(tree[Server], local[t], q)
    BY <2>1, <2>3, <2>4 DEF Uploading, left
  <2> QED  BY <1>3, <2>2, <2>5
<1> QED  BY <1>1, <1>3, <1>4, <1>5, <1>6, QuietStep
-----------------------------------------------------------------------------
(* Downloads *)

\* What an undisturbed download finds in the files with these paths left.
DownloadReady(t, files, left, loc) ==
    \A p \in Scope(t) : Copyable(t, p) =>
        /\ p \notin left => Matches(files, remote[t], p)
        /\ p \in left \cap AttributesChanged(loc, remote[t]) => Holds(files, remote[t], p)

\* What a stretch makes of the files.
LEMMA AppliedCopies ==
  ASSUME Typed, NEW t \in Tasks, NEW files \in Trees, NEW loc,
         NEW left \in SUBSET Changes(loc, remote[t], Scope(t)), NEW now \in SUBSET left,
         now \cap Fetches(t, loc) = {},
         NEW g, AppliedTo(g, t, files, now, loc)
  PROVE  /\ \A q \in DOMAIN g : /\ q \in DOMAIN files
                                /\ g[q].data = files[q].data /\ g[q].mtime = files[q].mtime
         /\ \A q : q \notin now => /\ q \in DOMAIN g <=> q \in DOMAIN files
                                   /\ q \in DOMAIN g => g[q] = files[q]
         /\ DownloadReady(t, files, left, loc) =>
               \A q \in now : Copyable(t, q) => Matches(g, remote[t], q)
<1> DEFINE attrs == now \cap AttributesChanged(loc, remote[t])
           gone == now \cap RemovedFiles(loc, remote[t])
<1>1. /\ DOMAIN g = DOMAIN files \ gone
      /\ \A q \in DOMAIN g :
            /\ g[q].data = files[q].data /\ g[q].mtime = files[q].mtime
            /\ q \in attrs => g[q].perms = remote[t][q].permissions
            /\ q \notin attrs => g[q] = files[q]
  BY DEF AppliedTo
<1>2. ASSUME NEW q \in now PROVE q \in attrs \/ q \in gone
  BY <1>2 DEF Changes, Fetches
<1>3. ASSUME DownloadReady(t, files, left, loc), NEW q \in now, Copyable(t, q)
      PROVE  Matches(g, remote[t], q)
  <2>1. q \in Scope(t)
    BY DEF Changes
  <2>2. CASE q \in gone
    BY <1>1, <2>2 DEF Matches, RemovedFiles
  <2>3. CASE q \in attrs
    <3>1. Holds(files, remote[t], q)
      BY <1>3, <2>1, <2>3 DEF DownloadReady
    <3>2. q \notin gone
      BY <2>3 DEF AttributesChanged, RemovedFiles
    <3> QED  BY <1>1, <2>3, <3>1, <3>2 DEF Matches, Holds
  <2> QED  BY <1>2, <1>3, <2>2, <2>3
<1>4. \A q : q \notin now => /\ q \in DOMAIN g <=> q \in DOMAIN files
                             /\ q \in DOMAIN g => g[q] = files[q]
  BY <1>1
<1> QED  BY <1>1, <1>3, <1>4

\* The stretch: the changes it applies, and where it stops.
LEMMA DownloadCases ==
  ASSUME Typed, NEW t \in Tasks, NEW files \in Trees, NEW loc,
         NEW left \in SUBSET Paths, DownloadOn(t, files, left, loc)
  PROVE  \E now \in SUBSET left, x \in {"done", "file"}, k \in Calls :
            /\ now \cap Fetches(t, loc) = {}
            /\ Replaced(t, Home(t), Applied(t, files, now, loc))
            /\ todo' = [todo EXCEPT ![t] = left \ now]
            /\ pc' = [pc EXCEPT ![t] = x] /\ call' = [call EXCEPT ![t] = k]
            /\ x = "done" => k = NoCall /\ left \ now = {}
            /\ x = "file" => /\ k.path \in left \ now /\ k.path \in Fetches(t, loc)
                             /\ k.op = "getFile" /\ k.stage = "sent"
<1>1. CASE /\ left \cap Fetches(t, loc) = {}
           /\ Replaced(t, Home(t), Applied(t, files, left, loc))
           /\ todo' = [todo EXCEPT ![t] = {}]
           /\ Finish(t, "done")
  <2>1. left \ left = {} /\ left \in SUBSET left
    OBVIOUS
  <2>2. todo' = [todo EXCEPT ![t] = left \ left]
    BY <1>1, <2>1
  <2>3. pc' = [pc EXCEPT ![t] = "done"] /\ call' = [call EXCEPT ![t] = NoCall]
    BY <1>1 DEF Finish
  <2> QED  BY <1>1, <2>1, <2>2, <2>3, NoCallTyped
<1>2. ASSUME NEW n \in left \cap Fetches(t, loc), NEW now,
             now = {p \in left \cap DOMAIN remote[t] : p < n},
             \A q \in left \cap Fetches(t, loc) : n <= q,
             Replaced(t, Home(t), Applied(t, files, now, loc)),
             todo' = [todo EXCEPT ![t] = left \ now],
             pc' = [pc EXCEPT ![t] = "file"],
             call' = [call EXCEPT ![t] = Request("getFile", n, DefaultPerms)]
      PROVE  \E later \in SUBSET left, x \in {"done", "file"}, k \in Calls :
            /\ later \cap Fetches(t, loc) = {}
            /\ Replaced(t, Home(t), Applied(t, files, later, loc))
            /\ todo' = [todo EXCEPT ![t] = left \ later]
            /\ pc' = [pc EXCEPT ![t] = x] /\ call' = [call EXCEPT ![t] = k]
            /\ x = "done" => k = NoCall /\ left \ later = {}
            /\ x = "file" => /\ k.path \in left \ later /\ k.path \in Fetches(t, loc)
                             /\ k.op = "getFile" /\ k.stage = "sent"
  <2>1. now \in SUBSET left
    BY <1>2
  <2>2. now \cap Fetches(t, loc) = {}
    <3>1. ASSUME NEW q \in now \cap Fetches(t, loc) PROVE FALSE
      <4>1. q \in Nat /\ n \in Nat /\ q < n
        BY <1>2, <3>1, ContentAssumption
      <4>2. n <= q
        BY <1>2, <3>1
      <4> QED  BY <4>1, <4>2
    <3> QED  BY <3>1
  <2>3. n \in left \ now
    <3>1. n \in Nat
      BY <1>2, ContentAssumption
    <3>2. n \notin now
      BY <1>2, <3>1
    <3> QED  BY <1>2, <3>2
  <2>4. PICK k \in Calls : /\ k = Request("getFile", n, DefaultPerms)
                           /\ k.path = n /\ k.op = "getFile" /\ k.stage = "sent"
    <3>1. n \in Paths
      BY <1>2
    <3>2. Request("getFile", n, DefaultPerms) \in Calls
      BY <3>1, RequestTyped
    <3> QED  BY <3>2 DEF Request
  <2> QED  BY <1>2, <2>1, <2>2, <2>3, <2>4
<1> QED  BY <1>1, <1>2 DEF DownloadOn

\* Two undisturbed downloads of one client copy the same.
LEMMA SameSource ==
  ASSUME NEW t \in Tasks, NEW u \in Tasks, Knows(t), Knows(u),
         Job(t) = "sync", Job(u) = "sync", Home(t) = Home(u), NEW p \in Paths, NEW g
  PROVE  /\ Copyable(t, p) <=> Copyable(u, p)
         /\ Matches(g, remote[t], p) => Matches(g, remote[u], p)
<1>1. Matches(tree[Server], remote[t], p) /\ Matches(tree[Server], remote[u], p)
  BY DEF Knows
<1>2. /\ p \in DOMAIN remote[t] <=> p \in DOMAIN remote[u]
      /\ p \in DOMAIN remote[t] => /\ remote[t][p].sha256 = remote[u][p].sha256
                                   /\ remote[t][p].permissions = remote[u][p].permissions
  BY <1>1 DEF Matches
<1> QED  BY <1>2 DEF Copyable, Matches

\* One stretch of a download, the first or a later one; files is the replica
\* with the file just stored, at a path of written.
LEMMA DownloadStretch ==
  ASSUME SyncInv, NEW t \in Tasks, Job(t) = "sync", NEW loc \in Manifests, NEW files \in Trees,
         NEW left \in SUBSET Changes(loc, remote[t], Scope(t)),
         NEW written \in SUBSET (Scope(t) \ left),
         DownloadOn(t, files, left, loc), plan' = plan, remote' = remote,
         local' = [local EXCEPT ![t] = loc],
         exists[Server] => exists'[Server],
         \A q : q \notin written => /\ q \in DOMAIN files <=> q \in DOMAIN tree[Home(t)]
                                    /\ q \in DOMAIN files => files[q] = tree[Home(t)][q],
         ~SameSecond => \A q \in written : clock' = clock + 1 /\ files[q].mtime = clock',
         ~SameSecond /\ ~stale[t] => Knows(t) /\ DownloadReady(t, files, left, loc)
  PROVE  /\ tree' \in [Replicas -> Trees] /\ stale' \in [Tasks -> BOOLEAN]
         /\ pc' \in [Tasks -> Pcs] /\ call' \in [Tasks -> Calls]
         /\ todo' \in [Tasks -> SUBSET Paths] /\ local' \in [Tasks -> Manifests]
         /\ \A u \in Tasks \ {t} : Untouched(u)
         /\ Awaits(t)'
         /\ ~SameSecond => \A r \in Replicas : FilesKept(r)
         /\ \A u \in Tasks : ~SameSecond /\ ~stale'[u] => Undisturbed(u)'
<1> DEFINE c == Home(t)
<1>1. /\ Typed /\ c \in Replicas /\ c # Server /\ Server \in Replicas
      /\ Scope(t) \in SUBSET Paths /\ left \in SUBSET Paths
  BY PlanFacts DEF SyncInv, Typed, Changes, Replicas
<1>2. PICK now \in SUBSET left, x \in {"done", "file"}, k \in Calls :
         /\ now \cap Fetches(t, loc) = {}
         /\ Replaced(t, c, Applied(t, files, now, loc))
         /\ todo' = [todo EXCEPT ![t] = left \ now]
         /\ pc' = [pc EXCEPT ![t] = x] /\ call' = [call EXCEPT ![t] = k]
         /\ x = "done" => k = NoCall /\ left \ now = {}
         /\ x = "file" => /\ k.path \in left \ now /\ k.path \in Fetches(t, loc)
                          /\ k.op = "getFile" /\ k.stage = "sent"
  BY <1>1, DownloadCases
<1>3. PICK g \in Trees : g = Applied(t, files, now, loc) /\ AppliedTo(g, t, files, now, loc)
  <2>1. AppliedTo(Applied(t, files, now, loc), t, files, now, loc)
    BY <1>1, AppliedFacts
  <2> QED  BY <2>1 DEF AppliedTo
<1>4. /\ \A q \in DOMAIN g : /\ q \in DOMAIN files
                             /\ g[q].data = files[q].data /\ g[q].mtime = files[q].mtime
      /\ \A q : q \notin now => /\ q \in DOMAIN g <=> q \in DOMAIN files
                                /\ q \in DOMAIN g => g[q] = files[q]
      /\ DownloadReady(t, files, left, loc) =>
            \A q \in now : Copyable(t, q) => Matches(g, remote[t], q)
  <2>1. Typed /\ now \cap Fetches(t, loc) = {}
    BY <1>1, <1>2
  <2> QED  BY <1>3, <2>1, AppliedCopies
<1>5. /\ tree' \in [Replicas -> Trees] /\ tree'[c] = g
      /\ \A r \in Replicas \ {c} : tree'[r] = tree[r]
  BY <1>1, <1>2, <1>3 DEF Typed, Replaced
<1>6. /\ stale' \in [Tasks -> BOOLEAN] /\ stale'[t] = stale[t]
      /\ \A u \in Tasks : stale[u] => stale'[u]
      /\ \A u \in Tasks : Home(u) = c /\ pc[u] \notin {"new", "manifest"} /\ ~stale'[u] =>
            g = tree[c] \/ (~stale[t] /\ Job(u) # "upload")
  <2>1. CASE g = tree[c]
    BY <1>1, <1>2, <1>3, <2>1 DEF Typed, Replaced
  <2>2. CASE g # tree[c]
    <3>1. stale' = [u \in Tasks |->
                      \/ stale[u]
                      \/ /\ Home(u) = c
                         /\ pc[u] \notin {"new", "manifest"}
                         /\ stale[t] \/ Job(u) = "upload"]
      BY <1>2, <1>3, <2>2 DEF Replaced, ClientWrite
    <3> QED  BY <1>1, <3>1 DEF Typed
  <2> QED  BY <2>1, <2>2
<1>7. /\ pc' \in [Tasks -> Pcs] /\ pc'[t] = x
      /\ call' \in [Tasks -> Calls] /\ call'[t] = k
      /\ todo' \in [Tasks -> SUBSET Paths] /\ todo'[t] = left \ now
      /\ local' \in [Tasks -> Manifests] /\ local'[t] = loc
      /\ \A u \in Tasks \ {t} : Untouched(u)
  BY <1>1, <1>2 DEF Typed, Untouched, Pcs
<1>8. /\ Job(t)' = "sync" /\ Scope(t)' = Scope(t) /\ Home(t)' = c
      /\ Whole(t)' = Fetches(t, loc)
      /\ All(t)' = Changes(loc, remote[t], Scope(t))
      /\ \A p : Copyable(t, p)' <=> Copyable(t, p)
  <2>1. Job(t)' = "sync" /\ Scope(t)' = Scope(t) /\ Home(t)' = Home(t)
    BY DEF Job, Scope, Home
  <2> QED  BY <1>7, <2>1 DEF Whole, All, Copyable, Fetches
<1>9. Awaits(t)'
  BY <1>2, <1>7, <1>8 DEF Awaits
<1>10. ASSUME ~SameSecond, NEW r \in Replicas PROVE FilesKept(r)
  <2>1. CASE r # c
    BY <1>5, <2>1 DEF FilesKept
  <2>2. CASE r = c
    <3>1. \A q \in DOMAIN files : \/ /\ q \in DOMAIN tree[c]
                                     /\ files[q] = tree[c][q]
                                  \/ clock' = clock + 1 /\ files[q].mtime = clock'
      BY <1>10
    <3> QED  BY <1>4, <1>5, <2>2, <3>1 DEF FilesKept
  <2> QED  BY <2>1, <2>2
<1>11. ASSUME ~SameSecond, ~stale[t]
       PROVE  /\ Knows(t)' /\ Undisturbed(t)'
              /\ \A q \in Paths :
                    \/ /\ q \in DOMAIN g <=> q \in DOMAIN tree[c]
                       /\ q \in DOMAIN g => g[q] = tree[c][q]
                    \/ Copyable(t, q) => Matches(g, remote[t], q)
  <2>1. Knows(t) /\ DownloadReady(t, files, left, loc)
    BY <1>11
  <2>2. Knows(t)'
    BY <1>1, <1>5, <2>1 DEF Knows, Matches
  <2>3. ASSUME NEW p \in Scope(t), Copyable(t, p)
        PROVE  /\ p \notin left \ now => Matches(g, remote[t], p)
               /\ p \in (left \ now) \cap AttributesChanged(loc, remote[t]) => Holds(g, remote[t], p)
    <3>1. CASE p \in now
      BY <1>4, <2>1, <2>3, <3>1
    <3>2. CASE p \notin now
      BY <1>4, <2>1, <2>3, <3>2 DEF DownloadReady, Matches, Holds
    <3> QED  BY <3>1, <3>2
  <2>4. \A q \in Paths : \/ /\ q \in DOMAIN g <=> q \in DOMAIN tree[c]
                            /\ q \in DOMAIN g => g[q] = tree[c][q]
                         \/ Copyable(t, q) => Matches(g, remote[t], q)
    <3> TAKE q \in Paths
    <3>1. CASE q \in now
      BY <1>4, <2>1, <3>1
    <3>2. CASE q \in written
      BY <2>3, <3>2
    <3>3. CASE q \notin now /\ q \notin written
      BY <1>4, <3>3
    <3> QED  BY <3>1, <3>2, <3>3
  <2>5. Downloading(t)'
    <3>1. \A p \in Scope(t) : Copyable(t, p)' =>
             /\ p \notin todo'[t] => Matches(tree[Home(t)], remote[t], p)'
             /\ p \in todo'[t] \cap AttributesChanged(local[t], remote[t])'
                   => Holds(tree[Home(t)], remote[t], p)'
      BY <1>5, <1>7, <1>8, <2>3 DEF Matches, Holds, AttributesChanged
    <3>2. pc'[t] = "file" => call'[t].stage = "sent"
      BY <1>2, <1>7
    <3> QED  BY <1>8, <2>2, <3>1, <3>2 DEF Downloading
  <2> QED  BY <1>7, <1>8, <2>2, <2>4, <2>5 DEF Undisturbed, Past
<1>12. ASSUME ~SameSecond, NEW u \in Tasks \ {t}, ~stale'[u] PROVE Undisturbed(u)'
  <2>1. /\ ~stale[u] /\ Undisturbed(u) /\ Awaits(u) /\ Untouched(u) /\ pc[u] \in Pcs
        /\ tree'[Server] = tree[Server]
    BY <1>1, <1>5, <1>6, <1>7, <1>12 DEF SyncInv, Copies, Shaped, Typed
  <2>2. Job(u) \in {"sync", "upload", "create"} /\ Home(u) \in Replicas
    BY <1>1, <1>12, PlanFacts DEF Typed
  <2>3. CASE ~Past(u) \/ Home(u) # c \/ g = tree[c]
    <3>1. Spared(u)
      BY <1>5, <2>1, <2>2, <2>3 DEF Spared, Past, Pcs
    <3> QED  BY <1>12, <2>1, <3>1, CopiesFrame
  <2>4. CASE Past(u) /\ Home(u) = c /\ g # tree[c]
    <3>1. ~stale[t] /\ Job(u) # "upload"
      BY <1>6, <1>12, <2>4 DEF Past
    <3>2. /\ plan' = plan /\ pc'[u] = pc[u] /\ call'[u] = call[u] /\ todo'[u] = todo[u]
          /\ local'[u] = local[u] /\ remote'[u] = remote[u]
      BY <2>1 DEF Untouched
    <3>3. CASE Job(u) = "create"
      BY <2>4, <3>2, <3>3 DEF Undisturbed, Past, Job
    <3>4. CASE Job(u) = "sync"
      <4>1. Knows(t) /\ Knows(u) /\ Downloading(u)
        BY <1>12, <2>1, <2>4, <3>1, <3>4 DEF Undisturbed, Downloading
      <4>2. \A p : Copyable(u, p)' <=> Copyable(u, p)
        BY <3>2 DEF Copyable, Job, Home
      <4>3. Knows(u)'
        BY <2>1, <3>2, <4>1 DEF Knows, Matches
      <4>4. ASSUME NEW p \in Scope(u), Copyable(u, p)
            PROVE  /\ p \notin todo[u] => Matches(g, remote[u], p)
                   /\ p \in todo[u] \cap AttributesChanged(local[u], remote[u])
                         => Holds(g, remote[u], p)
        <5>1. p \in Paths
          BY <1>1, <1>12, PlanFacts DEF Typed
        <5>2. CASE /\ p \in DOMAIN g <=> p \in DOMAIN tree[c]
                   /\ p \in DOMAIN g => g[p] = tree[c][p]
          BY <2>4, <4>1, <4>4, <5>2 DEF Downloading, Matches, Holds
        <5>3. CASE Copyable(t, p) => Matches(g, remote[t], p)
          <6>1. Matches(g, remote[u], p)
            BY <2>4, <3>4, <4>1, <4>4, <5>1, <5>3, SameSource
          <6> QED  BY <6>1 DEF Matches, Holds, AttributesChanged
        <5> QED  BY <1>11, <1>12, <3>1, <5>1, <5>2, <5>3
      <4>5. Downloading(u)'
        BY <1>5, <2>4, <3>2, <4>1, <4>2, <4>3, <4>4
        DEF Downloading, Matches, Holds, Home, Scope, AttributesChanged
      <4> QED  BY <2>4, <3>2, <3>4, <4>5 DEF Undisturbed, Past, Job
    <3> QED  BY <2>2, <3>1, <3>3, <3>4
  <2> QED  BY <2>3, <2>4
<1>13. \A u \in Tasks : ~SameSecond /\ ~stale'[u] => Undisturbed(u)'
  BY <1>6, <1>11, <1>12
<1> QED  BY <1>5, <1>6, <1>7, <1>9, <1>10, <1>13

\* g is f with the fetched file in it.
FetchedInto(g, f, p, d, m, perms) ==
    /\ g \in Trees
    /\ DOMAIN g = DOMAIN f \cup {p}
    /\ \A q \in DOMAIN f : q # p => g[q] = f[q]
    /\ g[p].data = d /\ g[p].mtime = m /\ g[p].perms = perms

\* Storing a fetched file and setting its permissions touches that file alone.
LEMMA FetchedFacts ==
  ASSUME NEW f \in Trees, NEW p \in Paths, NEW d \in Contents, NEW m \in Nat,
         NEW permsOf, permsOf[p] \in Perms
  PROVE  FetchedInto(WithPermissions(Stored(f, p, d, m), {p}, permsOf), f, p, d, m, permsOf[p])
<1> DEFINE h == Stored(f, p, d, m)
           g == WithPermissions(h, {p}, permsOf)
<1>1. h \in Trees /\ DOMAIN h = DOMAIN f \cup {p}
  BY StoredTyped
<1>2. /\ \A q \in DOMAIN f : q # p => h[q] = f[q]
      /\ h[p].data = d /\ h[p].mtime = m
  BY StoredFacts
<1>3. \A q \in {p} : permsOf[q] \in Perms
  OBVIOUS
<1> HIDE DEF h
<1>4. /\ g \in Trees /\ DOMAIN g = DOMAIN h
      /\ \A q \in DOMAIN h :
            /\ g[q].data = h[q].data /\ g[q].mtime = h[q].mtime
            /\ q \in {p} => g[q].perms = permsOf[q]
            /\ q \notin {p} => g[q] = h[q]
  BY <1>1, <1>3, WithPermissionsFacts
<1> HIDE DEF g
<1>5. g[p].data = d /\ g[p].mtime = m /\ g[p].perms = permsOf[p]
  BY <1>1, <1>2, <1>4
<1>6. \A q \in DOMAIN f : q # p => g[q] = f[q]
  BY <1>1, <1>2, <1>4
<1>7. FetchedInto(g, f, p, d, m, permsOf[p])
  BY <1>1, <1>4, <1>5, <1>6 DEF FetchedInto
<1> QED  BY <1>7 DEF g, h

\* FileFetched: the next file is in place, the download goes on.
LEMMA FileFetchedKeeps ==
  ASSUME SyncInv, NEW t \in Tasks, FileFetched(t)
  PROVE  SyncInv'
<1> DEFINE c == Home(t)
           p == call[t].path
           left == todo[t] \ {p}
           permsOf == [q \in {p} |-> remote[t][q].permissions]
           d == Received(c, call[t].arg)
<1>1. /\ Typed /\ Awaits(t) /\ pc[t] = "file" /\ Job(t) = "sync" /\ call[t].stage = "ok"
      /\ UNCHANGED <<plan, exists, manifest, last_full, local, remote>>
  BY DEF SyncInv, Shaped, FileFetched, Outcome
<1>2. /\ p \in todo[t] /\ p \in DOMAIN remote[t] /\ call[t].op = "getFile"
      /\ todo[t] \subseteq Changes(local[t], remote[t], Scope(t))
  BY <1>1 DEF Awaits, Whole, All, Added, Modified
<1>3. /\ c \in Replicas /\ tree[c] \in Trees /\ local[t] \in Manifests /\ remote[t] \in Manifests
      /\ p \in Paths /\ call[t].arg \in Contents
  BY <1>1, <1>2, PlanFacts, CallFacts DEF Typed
<1>4. d \in Contents
  BY <1>3, Conversions
<1>5. permsOf[p] = remote[t][p].permissions /\ remote[t][p].permissions \in Perms
  BY <1>2, <1>3, ManifestElim
<1>6. PICK m \in Stamps :
         /\ clock' = m
         /\ DownloadOn(t, WithPermissions(Stored(tree[c], p, d, m), {p}, permsOf), left, local[t])
  BY DEF FileFetched
<1>7. m \in Nat /\ m \in {clock, clock + 1} /\ (~SameSecond => m = clock + 1)
  BY <1>1, StampFacts
<1> DEFINE files == WithPermissions(Stored(tree[c], p, d, m), {p}, permsOf)
<1> HIDE DEF permsOf, d, p
<1>8. /\ files \in Trees /\ DOMAIN files = DOMAIN tree[c] \cup {p}
      /\ \A q \in DOMAIN tree[c] : q # p => files[q] = tree[c][q]
      /\ files[p].data = d /\ files[p].mtime = m /\ files[p].perms = remote[t][p].permissions
  <2>1. FetchedInto(files, tree[c], p, d, m, permsOf[p])
    BY <1>3, <1>4, <1>5, <1>7, FetchedFacts
  <2> QED  BY <1>5, <2>1 DEF FetchedInto
<1> HIDE DEF files
<1>9. DownloadOn(t, files, left, local[t])
  BY <1>6 DEF files
<1>10. /\ left \in SUBSET Changes(local[t], remote[t], Scope(t))
       /\ {p} \in SUBSET (Scope(t) \ left)
       /\ local' = [local EXCEPT ![t] = local[t]]
  BY <1>1, <1>2 DEF Changes, Typed
<1>11. \A q : q \notin {p} => /\ q \in DOMAIN files <=> q \in DOMAIN tree[c]
                              /\ q \in DOMAIN files => files[q] = tree[c][q]
  BY <1>8
<1>12. ~SameSecond => \A q \in {p} : clock' = clock + 1 /\ files[q].mtime = clock'
  BY <1>6, <1>7, <1>8
<1>13. ASSUME ~SameSecond, ~stale[t]
       PROVE  Knows(t) /\ DownloadReady(t, files, left, local[t])
  <2>1. Downloading(t)
    BY <1>1, <1>13 DEF SyncInv, Copies, Undisturbed, Past
  <2>2. Copyable(t, p) => Matches(files, remote[t], p)
    <3>1. call[t].arg = remote[t][p].sha256
      BY <1>1, <2>1 DEF Downloading, p
    <3>2. Copyable(t, p) => d = remote[t][p].sha256
      BY <1>1, <1>2, <1>3, <3>1, Conversions DEF Copyable, d, p
    <3> QED  BY <1>2, <1>8, <3>2 DEF Matches
  <2>3. ASSUME NEW q \in Scope(t), Copyable(t, q), q # p
        PROVE  /\ q \notin left => Matches(files, remote[t], q)
               /\ q \in left \cap AttributesChanged(local[t], remote[t]) => Holds(files, remote[t], q)
    BY <1>11, <2>1, <2>3 DEF Downloading, Matches, Holds
  <2>4. p \notin left
    OBVIOUS
  <2> QED  BY <2>1, <2>2, <2>3, <2>4 DEF Downloading, DownloadReady
<1> HIDE DEF left
<1>14. /\ tree' \in [Replicas -> Trees] /\ stale' \in [Tasks -> BOOLEAN]
       /\ pc' \in [Tasks -> Pcs] /\ call' \in [Tasks -> Calls]
       /\ todo' \in [Tasks -> SUBSET Paths] /\ local' \in [Tasks -> Manifests]
       /\ \A u \in Tasks \ {t} : Untouched(u)
       /\ Awaits(t)'
       /\ ~SameSecond => \A r \in Replicas : FilesKept(r)
       /\ \A u \in Tasks : ~SameSecond /\ ~stale'[u] => Undisturbed(u)'
  <2>1. PICK written \in SUBSET (Scope(t) \ left) : written = {p}
    BY <1>10
  <2>2. /\ \A q : q \notin written => /\ q \in DOMAIN files <=> q \in DOMAIN tree[c]
                                      /\ q \in DOMAIN files => files[q] = tree[c][q]
        /\ ~SameSecond => \A q \in written : clock' = clock + 1 /\ files[q].mtime = clock'
    BY <1>11, <1>12, <2>1
  <2>3. /\ plan' = plan /\ remote' = remote /\ local[t] \in Manifests /\ files \in Trees
        /\ exists[Server] => exists'[Server]
    BY <1>1, <1>3, <1>8
  <2>4. ~SameSecond /\ ~stale[t] => Knows(t) /\ DownloadReady(t, files, left, local[t])
    BY <1>13
  <2> QED  BY <1>1, <1>9, <1>10, <2>2, <2>3, <2>4, DownloadStretch
<1>15. Typed'
  BY <1>1, <1>6, <1>7, <1>14 DEF Typed
<1>16. ManifestsKept
  BY <1>1 DEF ManifestsKept
<1>17. clock' \in {clock, clock + 1}
  BY <1>6, <1>7
<1> QED  BY <1>14, <1>15, <1>16, <1>17, CopyStep

\* CompareManifests: the manifest is honest, so the changes it leads to are all there are.
LEMMA CompareManifestsKeeps ==
  ASSUME SyncInv, NEW t \in Tasks, CompareManifests(t)
  PROVE  SyncInv'
<1> DEFINE c == Home(t)
<1>1. /\ Typed /\ Awaits(t) /\ pc[t] = "manifest" /\ Job(t) # "create" /\ call[t].stage = "ok"
      /\ UNCHANGED <<plan, clock, remote>>
      /\ exists' = [exists EXCEPT ![c] = TRUE] /\ UpdateManifest(c)
  BY DEF SyncInv, Shaped, CompareManifests, Outcome
<1>2. /\ Job(t) \in {"sync", "upload"} /\ c \in Replicas /\ c # Server /\ Server \in Replicas
      /\ Scope(t) \in SUBSET Paths /\ (Job(t) = "upload" => Scope(t) = Paths)
  BY <1>1, PlanFacts DEF Typed, Replicas
<1>3. PICK mine \in Manifests :
         /\ mine = ScanContent(c) /\ DOMAIN mine = DOMAIN tree[c]
         /\ \A p \in DOMAIN tree[c] : /\ mine[p].permissions = tree[c][p].perms
                                      /\ ManifestHonest => mine[p].sha256 = tree[c][p].data
  BY <1>1, <1>2, ScanFacts
<1>4. /\ local' = [local EXCEPT ![t] = mine]
      /\ IF Job(t) = "sync"
         THEN DownloadOn(t, tree[c], Changes(mine, remote[t], Scope(t)), mine)
         ELSE UploadOn(t, Changes(remote[t], mine, Scope(t)), mine)
  BY <1>3 DEF CompareManifests
<1>5. /\ exists' \in [Replicas -> BOOLEAN] /\ exists'[Server] = exists[Server]
      /\ manifest' \in [Replicas -> Manifests] /\ last_full' \in [Replicas -> Int]
      /\ ManifestsKept
  <2>1. exists' \in [Replicas -> BOOLEAN] /\ exists'[Server] = exists[Server]
    BY <1>1, <1>2 DEF Typed
  <2>2. manifest' = [manifest EXCEPT ![c] = mine]
    BY <1>1, <1>3 DEF UpdateManifest
  <2>3. manifest' \in [Replicas -> Manifests] /\ ManifestsKept
    <3>1. /\ manifest' \in [Replicas -> Manifests]
          /\ \A r \in Replicas : r # c => manifest'[r] = manifest[r]
          /\ manifest'[c] = mine
      BY <1>1, <1>2, <2>2 DEF Typed
    <3> QED  BY <1>3, <3>1 DEF ManifestsKept
  <2>4. last_full' \in [Replicas -> Int]
    <3>1. PICK due \in BOOLEAN :
             last_full' = [last_full EXCEPT ![c] = IF due THEN clock ELSE last_full[c]]
      BY <1>1 DEF UpdateManifest
    <3>2. last_full \in [Replicas -> Int] /\ clock \in Int
      BY <1>1 DEF Typed
    <3> QED  BY <1>2, <3>1, <3>2
  <2> QED  BY <2>1, <2>3, <2>4
<1>6. ASSUME ~SameSecond
      PROVE  /\ \A p : Matches(tree[c], mine, p)
             /\ ~stale[t] => Knows(t)
  <2>1. ManifestHonest /\ (~stale[t] => Undisturbed(t))
    BY <1>6 DEF SyncInv, Honest, Copies
  <2> QED  BY <1>1, <1>3, <2>1 DEF Matches, Undisturbed
<1>7. CASE Job(t) = "sync"
  <2>1. PICK left \in SUBSET Changes(mine, remote[t], Scope(t)) :
           left = Changes(mine, remote[t], Scope(t))
    OBVIOUS
  <2>2. DownloadOn(t, tree[c], left, mine) /\ tree[c] \in Trees
    BY <1>1, <1>2, <1>4, <1>7, <2>1 DEF Typed
  <2>3. ASSUME ~SameSecond, ~stale[t]
        PROVE  Knows(t) /\ DownloadReady(t, tree[c], left, mine)
    <3>1. \A p \in Scope(t) : p \notin left => Matches(tree[c], remote[t], p)
      BY <1>6, <2>1, <2>3
      DEF Matches, Changes, Added, Modified, AttributesChanged, RemovedFiles
    <3>2. \A p \in AttributesChanged(mine, remote[t]) : Holds(tree[c], remote[t], p)
      BY <1>6, <2>3 DEF Matches, AttributesChanged, Holds
    <3> QED  BY <1>6, <2>3, <3>1, <3>2 DEF DownloadReady
  <2>4. /\ {} \in SUBSET (Scope(t) \ left) /\ (exists[Server] => exists'[Server])
        /\ \A q : q \notin {} => /\ q \in DOMAIN tree[c] <=> q \in DOMAIN tree[c]
                                 /\ q \in DOMAIN tree[c] => tree[c][q] = tree[c][q]
        /\ ~SameSecond => \A q \in {} : clock' = clock + 1 /\ tree[c][q].mtime = clock'
    BY <1>5
  <2>5. /\ tree' \in [Replicas -> Trees] /\ stale' \in [Tasks -> BOOLEAN]
        /\ pc' \in [Tasks -> Pcs] /\ call' \in [Tasks -> Calls]
        /\ todo' \in [Tasks -> SUBSET Paths] /\ local' \in [Tasks -> Manifests]
        /\ \A u \in Tasks \ {t} : Untouched(u)
        /\ Awaits(t)'
        /\ ~SameSecond => \A r \in Replicas : FilesKept(r)
        /\ \A u \in Tasks : ~SameSecond /\ ~stale'[u] => Undisturbed(u)'
    BY <1>1, <1>4, <1>7, <2>2, <2>3, <2>4, DownloadStretch
  <2>6. Typed'
    BY <1>1, <1>5, <2>5 DEF Typed
  <2> QED  BY <1>1, <1>5, <2>5, <2>6, CopyStep
<1>8. CASE Job(t) = "upload"
  <2>1. PICK left \in SUBSET Changes(remote[t], mine, Scope(t)) :
           left = Changes(remote[t], mine, Scope(t))
    OBVIOUS
  <2>2. UploadOn(t, left, mine)
    BY <1>4, <1>8, <2>1
  <2>3. /\ pc' \in [Tasks -> Pcs] /\ call' \in [Tasks -> Calls]
        /\ todo' \in [Tasks -> SUBSET Paths] /\ local' \in [Tasks -> Manifests]
        /\ \A u \in Tasks \ {t} : Untouched(u)
        /\ Awaits(t)'
        /\ UploadReady(t, left, mine)
           /\ exists'[Server]
           /\ (\A q \in Paths : q \notin left /\ Copyable(t, q)' => Matches(tree[Server], mine, q))
              => Undisturbed(t)'
    BY <1>1, <1>4, <1>8, <2>2, UploadStretch
  <2>4. UNCHANGED <<tree, stale>>
    BY <2>2 DEF UploadOn
  <2>5. Typed'
    BY <1>1, <1>5, <2>3, <2>4 DEF Typed
  <2>6. ASSUME ~SameSecond, ~stale'[t] PROVE Undisturbed(t)'
    <3>1. /\ Knows(t)
          /\ \A p : Matches(tree[c], mine, p)
      BY <1>6, <2>4, <2>6
    <3>2. UploadReady(t, left, mine) /\ exists'[Server]
      BY <1>5, <3>1 DEF UploadReady, Knows
    <3>3. \A q \in Paths : q \notin left => Matches(tree[Server], mine, q)
      <4>1. \A q \in Paths : Matches(tree[Server], remote[t], q)
        BY <3>1 DEF Knows
      <4> QED
        BY <1>2, <1>8, <2>1, <4>1
        DEF Matches, Changes, Added, Modified, AttributesChanged, RemovedFiles
    <3> QED  BY <2>3, <3>2, <3>3
  <2>7. \A u \in Tasks \ {t} : Untouched(u) /\ Spared(u)
    BY <2>3, <2>4 DEF Spared
  <2>8. \A r \in Replicas : FilesKept(r)
    BY <2>4 DEF FilesKept
  <2> QED  BY <1>1, <1>5, <2>3, <2>5, <2>6, <2>7, <2>8, TaskStep
<1> QED  BY <1>2, <1>7, <1>8
-----------------------------------------------------------------------------
(* The environment *)

\* A step after which every task is as before or lost.
LEMMA WorldStep ==
  ASSUME SyncInv, Typed',
         \A u \in Tasks : (Untouched(u) /\ Spared(u)) \/ (pc'[u] = "lost" /\ Awaits(u)'),
         ~SameSecond => /\ clock' \in {clock, clock + 1}
                        /\ \A r \in Replicas : FilesKept(r)
                        /\ ManifestsKept,
         exists[Server] => exists'[Server]
  PROVE  SyncInv'
<1>1. ASSUME NEW u \in Tasks PROVE Awaits(u)'
  BY <1>1, AwaitsFrame DEF SyncInv, Shaped
<1>2. ~SameSecond => Honest'
  BY HonestFrame DEF SyncInv
<1>3. ASSUME ~SameSecond, NEW u \in Tasks PROVE ~stale'[u] => Undisturbed(u)'
  <2>1. CASE Untouched(u) /\ Spared(u)
    <3>1. ~stale[u] => Undisturbed(u)
      BY <1>3 DEF SyncInv, Copies
    <3> QED  BY <1>3, <2>1, <3>1, CopiesFrame
  <2>2. CASE pc'[u] = "lost"
    BY <2>2 DEF Undisturbed, Past
  <2> QED  BY <1>3, <2>1, <2>2
<1> QED  BY <1>1, <1>2, <1>3 DEF SyncInv, Shaped, Copies

\* A write that disturbs whoever has looked at c's files.
LEMMA DisturbedFacts ==
  ASSUME Typed, NEW c \in Clients, ClientWrite(c, FALSE),
         \A r \in Replicas \ {c} : tree'[r] = tree[r]
  PROVE  /\ stale' \in [Tasks -> BOOLEAN]
         /\ \A u \in Tasks : Spared(u)
<1>1. stale' = [u \in Tasks |-> stale[u] \/ (Home(u) = c /\ pc[u] \notin {"new", "manifest"})]
  BY DEF ClientWrite
<1>2. tree'[Server] = tree[Server]
  BY ContentAssumption DEF Replicas
<1>3. ASSUME NEW u \in Tasks PROVE Spared(u)
  <2>1. Home(u) \in Replicas
    BY PlanFacts DEF Typed
  <2> QED  BY <1>1, <1>2, <2>1 DEF Spared
<1> QED  BY <1>1, <1>3 DEF Typed

\* CrashClient: its tasks are lost, a file cut short disturbs the others.
LEMMA CrashClientKeeps ==
  ASSUME SyncInv, NEW c \in Clients, CrashClient(c)
  PROVE  SyncInv'
<1> DEFINE killed == {t \in Tasks : Home(t) = c /\ Running(t)}
<1>1. /\ Typed /\ c \in Replicas /\ Server \in Replicas
      /\ UNCHANGED <<plan, exists, manifest, local, remote, todo>>
      /\ pc' = [t \in Tasks |-> IF t \in killed THEN "lost" ELSE pc[t]]
      /\ call' = [t \in Tasks |-> IF t \in killed THEN Orphan(t) ELSE call[t]]
  BY DEF SyncInv, CrashClient, Replicas
<1>2. \A t \in killed : Orphan(t) \in Calls
  BY OrphanFacts
<1>3. pc' \in [Tasks -> Pcs] /\ call' \in [Tasks -> Calls]
  BY <1>1, <1>2 DEF Typed, Pcs
<1>4. last_full' \in [Replicas -> Int]
  BY <1>1, ContentAssumption DEF CrashClient, Typed
<1>5. /\ stale' \in [Tasks -> BOOLEAN] /\ tree' \in [Replicas -> Trees] /\ clock' \in Nat
      /\ \A u \in Tasks : Spared(u)
      /\ ~SameSecond => clock' \in {clock, clock + 1} /\ \A r \in Replicas : FilesKept(r)
  <2>1. CASE UNCHANGED <<tree, clock, stale>>
    BY <1>1, <2>1 DEF Typed, Spared, FilesKept
  <2>2. ASSUME NEW t \in killed, call[t].op = "getFile", NEW m \in Stamps, clock' = m,
               tree' = [tree EXCEPT ![c] = Stored(tree[c], call[t].path, Cut, m)],
               ClientWrite(c, FALSE)
        PROVE  /\ stale' \in [Tasks -> BOOLEAN] /\ tree' \in [Replicas -> Trees] /\ clock' \in Nat
               /\ \A u \in Tasks : Spared(u)
               /\ ~SameSecond => clock' \in {clock, clock + 1} /\ \A r \in Replicas : FilesKept(r)
    <3>1. call[t].path \in Paths /\ Cut \in Contents
      BY <1>1, <2>2, CallFacts DEF Contents
    <3>2. /\ tree' \in [Replicas -> Trees] /\ clock' \in Nat
          /\ \A r \in Replicas \ {c} : tree'[r] = tree[r]
          /\ ~SameSecond => clock' \in {clock, clock + 1} /\ \A r \in Replicas : FilesKept(r)
      BY <1>1, <2>2, <3>1, StoredKept
    <3> QED  BY <1>1, <2>2, <3>2, DisturbedFacts
  <2> QED  BY <2>1, <2>2 DEF CrashClient, Outcome
<1>6. Typed'
  BY <1>1, <1>3, <1>4, <1>5 DEF Typed
<1>7. ASSUME NEW u \in Tasks
      PROVE  (Untouched(u) /\ Spared(u)) \/ (pc'[u] = "lost" /\ Awaits(u)')
  <2>1. CASE u \in killed
    <3>1. pc'[u] = "lost" /\ call'[u] = Orphan(u)
      BY <1>1, <2>1
    <3>2. \/ Orphan(u) = NoCall \/ Orphan(u).stage = "sent"
          \/ (Orphan(u).stage = "open" /\ Orphan(u).op \in FileOps)
      BY <2>1, OrphanFacts
    <3> QED  BY <3>1, <3>2 DEF Awaits
  <2>2. CASE u \notin killed
    BY <1>1, <1>5, <2>2 DEF Untouched
  <2> QED  BY <2>1, <2>2
<1>8. ManifestsKept
  BY <1>1 DEF ManifestsKept
<1> QED  BY <1>1, <1>5, <1>6, <1>7, <1>8, WorldStep

\* CrashServer: who waits for an answer is lost, who has one goes on.
LEMMA CrashServerKeeps ==
  ASSUME SyncInv, CrashServer
  PROVE  SyncInv'
<1>1. /\ Typed /\ Server \in Replicas
      /\ UNCHANGED <<plan, exists, manifest, local, remote, todo>>
      /\ pc' = [t \in Tasks |-> IF Running(t) /\ Outcome(t) \in {"sent", "open"}
                                THEN "lost" ELSE pc[t]]
      /\ call' = [t \in Tasks |-> IF Outcome(t) \in {"sent", "open"} THEN NoCall ELSE call[t]]
  BY DEF SyncInv, CrashServer, Replicas
<1>2. pc' \in [Tasks -> Pcs] /\ call' \in [Tasks -> Calls]
  BY <1>1, NoCallTyped DEF Typed, Pcs
<1>3. last_full' \in [Replicas -> Int]
  BY <1>1, ContentAssumption DEF CrashServer, Typed
<1>4. ASSUME NEW u \in Tasks, call[u].stage \in {"sent", "open"}
      PROVE  pc'[u] = "lost" /\ Awaits(u)'
  <2>1. pc'[u] = "lost" /\ call'[u] = NoCall
    BY <1>1, <1>4, Askers DEF Outcome
  <2> QED  BY <2>1 DEF Awaits
<1>5. ASSUME NEW u \in Tasks, call[u].stage \notin {"sent", "open"} PROVE Untouched(u)
  BY <1>1, <1>5 DEF Outcome, Untouched
<1>6. /\ stale' \in [Tasks -> BOOLEAN] /\ tree' \in [Replicas -> Trees] /\ clock' \in Nat
      /\ \A u \in Tasks : Spared(u) \/ call[u].stage \in {"sent", "open"}
      /\ ~SameSecond => clock' \in {clock, clock + 1} /\ \A r \in Replicas : FilesKept(r)
  <2>1. CASE UNCHANGED <<tree, clock, stale>>
    BY <1>1, <2>1 DEF Typed, Spared, FilesKept
  <2>2. ASSUME NEW t \in Tasks, call[t].stage = "open", NEW m \in Stamps, clock' = m,
               tree' = [tree EXCEPT ![Server] = Stored(tree[Server], call[t].path, Cut, m)],
               ServerWrite(t)
        PROVE  /\ stale' \in [Tasks -> BOOLEAN] /\ tree' \in [Replicas -> Trees] /\ clock' \in Nat
               /\ \A u \in Tasks : Spared(u) \/ call[u].stage \in {"sent", "open"}
               /\ ~SameSecond => clock' \in {clock, clock + 1} /\ \A r \in Replicas : FilesKept(r)
    <3>1. call[t].op \in FileOps
      <4>1. pc[t] \in {"manifest", "file", "attributes", "lost"} /\ Awaits(t)
        BY <2>2, Askers DEF SyncInv, Shaped
      <4> QED  BY <2>2, <4>1 DEF Awaits, FileOps, NoCall
    <3>2. call[t].path \in Paths /\ Cut \in Contents
      BY <1>1, <3>1, CallFacts DEF Contents
    <3>3. /\ tree' \in [Replicas -> Trees] /\ clock' \in Nat
          /\ ~SameSecond => clock' \in {clock, clock + 1} /\ \A r \in Replicas : FilesKept(r)
      BY <1>1, <2>2, <3>2, StoredKept
    <3>4. stale' = [u \in Tasks |-> stale[u] \/ u # t]
      BY <2>2 DEF ServerWrite
    <3>5. stale' \in [Tasks -> BOOLEAN] /\ \A u \in Tasks : u # t => Spared(u)
      BY <1>1, <3>4 DEF Typed, Spared
    <3> QED  BY <2>2, <3>3, <3>5
  <2> QED  BY <2>1, <2>2 DEF CrashServer, Outcome
<1>7. Typed'
  BY <1>1, <1>2, <1>3, <1>6 DEF Typed
<1>8. \A u \in Tasks : (Untouched(u) /\ Spared(u)) \/ (pc'[u] = "lost" /\ Awaits(u)')
  BY <1>4, <1>5, <1>6
<1>9. ManifestsKept
  BY <1>1 DEF ManifestsKept
<1> QED  BY <1>1, <1>6, <1>7, <1>8, <1>9, WorldStep

\* Edit: disturbs whoever has looked at the client's files.
LEMMA EditKeeps ==
  ASSUME SyncInv, NEW c \in Clients, NEW p \in Paths, Edit(c, p)
  PROVE  SyncInv'
<1>1. /\ Typed /\ c \in Replicas /\ c # Server /\ Server \in Replicas /\ tree[c] \in Trees
      /\ UNCHANGED <<plan, manifest, last_full, pc, call, local, remote, todo>>
      /\ exists' = [exists EXCEPT ![c] = TRUE] /\ ClientWrite(c, FALSE)
  BY ContentAssumption DEF SyncInv, Typed, Edit, Replicas
<1>2. exists' \in [Replicas -> BOOLEAN] /\ exists'[Server] = exists[Server]
  BY <1>1 DEF Typed
<1>3. /\ tree' \in [Replicas -> Trees] /\ clock' \in Nat
      /\ \A r \in Replicas \ {c} : tree'[r] = tree[r]
      /\ ~SameSecond => clock' \in {clock, clock + 1} /\ \A r \in Replicas : FilesKept(r)
  <2>1. ASSUME NEW d \in Edits, NEW m \in Stamps, clock' = m,
               tree' = [tree EXCEPT ![c] = Stored(tree[c], p, d, m)]
        PROVE  /\ tree' \in [Replicas -> Trees] /\ clock' \in Nat
               /\ \A r \in Replicas \ {c} : tree'[r] = tree[r]
               /\ ~SameSecond => clock' \in {clock, clock + 1} /\ \A r \in Replicas : FilesKept(r)
    <3>1. d \in Contents
      BY <2>1, ContentAssumption DEF Contents
    <3> QED  BY <1>1, <2>1, <3>1, StoredKept
  <2>2. CASE tree' = [tree EXCEPT ![c] = Removed(tree[c], {p})] /\ UNCHANGED clock
    <3>1. PICK g \in Trees : g = Removed(tree[c], {p})
      BY <1>1, RemovedFacts
    <3>2. DOMAIN g \subseteq DOMAIN tree[c] /\ \A q \in DOMAIN g : g[q] = tree[c][q]
      <4>1. /\ DOMAIN Removed(tree[c], {p}) = DOMAIN tree[c] \ {p}
            /\ \A q \in DOMAIN tree[c] \ {p} : Removed(tree[c], {p})[q] = tree[c][q]
        BY <1>1, RemovedFacts
      <4> QED  BY <3>1, <4>1
    <3>3. /\ tree' \in [Replicas -> Trees] /\ tree'[c] = g
          /\ \A r \in Replicas \ {c} : tree'[r] = tree[r]
      BY <1>1, <2>2, <3>1 DEF Typed
    <3>4. \A r \in Replicas : FilesKept(r)
      BY <3>2, <3>3 DEF FilesKept
    <3> QED  BY <1>1, <2>2, <3>3, <3>4 DEF Typed
  <2> QED  BY <2>1, <2>2 DEF Edit
<1>4. stale' \in [Tasks -> BOOLEAN] /\ \A u \in Tasks : Spared(u)
  BY <1>1, <1>3, DisturbedFacts
<1>5. Typed'
  BY <1>1, <1>2, <1>3, <1>4 DEF Typed
<1>6. \A u \in Tasks : Untouched(u)
  BY <1>1 DEF Untouched
<1>7. ManifestsKept
  BY <1>1 DEF ManifestsKept
<1> QED  BY <1>2, <1>3, <1>4, <1>5, <1>6, <1>7, WorldStep

\* Tick: time alone makes nothing dishonest.
LEMMA TickKeeps ==
  ASSUME SyncInv, Tick
  PROVE  SyncInv'
<1>1. /\ Typed /\ clock' = clock + 1
      /\ UNCHANGED <<plan, exists, tree, manifest, last_full, pc, call, local, remote, todo, stale>>
  BY DEF SyncInv, Tick
<1>2. Typed'
  BY <1>1 DEF Typed
<1>3. /\ \A u \in Tasks : Untouched(u) /\ Spared(u)
      /\ \A r \in Replicas : FilesKept(r)
      /\ ManifestsKept
  BY <1>1 DEF Untouched, Spared, FilesKept, ManifestsKept
<1> QED  BY <1>1, <1>2, <1>3, WorldStep

\* Nothing happens.
LEMMA StutterKeeps ==
  ASSUME SyncInv, UNCHANGED vars
  PROVE  SyncInv'
<1>1. /\ Typed
      /\ UNCHANGED <<plan, exists, tree, manifest, last_full, clock, pc, call, local, remote,
                     todo, stale>>
  BY DEF SyncInv, vars
<1>2. Typed'
  BY <1>1 DEF Typed
<1>3. /\ \A u \in Tasks : Untouched(u) /\ Spared(u)
      /\ \A r \in Replicas : FilesKept(r)
      /\ ManifestsKept
  BY <1>1 DEF Untouched, Spared, FilesKept, ManifestsKept
<1> QED  BY <1>1, <1>2, <1>3, WorldStep
-----------------------------------------------------------------------------
(* The theorems *)

\* The manifest of an empty replica.
LEMMA EmptyTyped == Empty \in Manifests
<1>1. Empty \in [{} -> Entry]
  BY DEF Empty
<1> QED  BY <1>1, ManifestIntro

\* The initial states.
LEMMA InitSync == Init => SyncInv
<1> SUFFICES ASSUME Init PROVE SyncInv
  OBVIOUS
<1>1. PICK start \in [Replicas -> UNION {Initial[r] : r \in Replicas}] :
         /\ \A r \in Replicas : start[r] \in Initial[r]
         /\ tree = [r \in Replicas |-> [p \in DOMAIN start[r] |->
               [data |-> start[r][p].data, mtime |-> 0, perms |-> start[r][p].perms]]]
  BY DEF Init
<1>2. ASSUME NEW r \in Replicas
      PROVE  /\ tree[r] \in Trees
             /\ \A p \in DOMAIN tree[r] : tree[r][p].mtime = 0
  <2>1. /\ DOMAIN start[r] \subseteq Paths
        /\ \A p \in DOMAIN start[r] : start[r][p] \in [data : Data, perms : Perms]
    BY <1>1, <1>2, ContentAssumption DEF Replicas
  <2>2. tree[r] = [p \in DOMAIN start[r] |->
                     [data |-> start[r][p].data, mtime |-> 0, perms |-> start[r][p].perms]]
    BY <1>1, <1>2
  <2>3. \A p \in DOMAIN start[r] :
           [data |-> start[r][p].data, mtime |-> 0, perms |-> start[r][p].perms] \in File
    BY <2>1 DEF File, Contents
  <2>4. tree[r] \in [DOMAIN start[r] -> File]
    BY <2>2, <2>3
  <2> QED  BY <2>1, <2>2, <2>4, TreeIntro
<1>3. tree \in [Replicas -> Trees]
  BY <1>1, <1>2
<1>4. Typed
  <2>1. -RescanInterval \in Int
    BY ContentAssumption
  <2>2. /\ plan \in Plans /\ exists \in [Replicas -> BOOLEAN] /\ clock \in Nat
        /\ pc \in [Tasks -> Pcs]
        /\ todo \in [Tasks -> SUBSET Paths] /\ stale \in [Tasks -> BOOLEAN]
    BY DEF Init, Pcs
  <2>3. last_full \in [Replicas -> Int]
    BY <2>1 DEF Init
  <2>4. /\ manifest \in [Replicas -> Manifests]
        /\ local \in [Tasks -> Manifests] /\ remote \in [Tasks -> Manifests]
    BY EmptyTyped DEF Init
  <2>5. call \in [Tasks -> Calls]
    BY NoCallTyped DEF Init
  <2> QED  BY <1>3, <2>2, <2>3, <2>4, <2>5 DEF Typed
<1>5. Shaped
  BY DEF Init, Shaped, Awaits
<1>6. Copies
  BY DEF Init, Copies, Undisturbed, Past
<1>7. Honest
  <2>1. \A r \in Replicas : DOMAIN manifest[r] = {}
    BY DEF Init, Empty
  <2>2. \A r \in Replicas : \A p \in DOMAIN tree[r] : tree[r][p].mtime <= clock
    BY <1>2 DEF Init
  <2> QED  BY <2>1, <2>2 DEF Honest, ManifestHonest, NotOfTheFuture
<1> QED  BY <1>4, <1>5, <1>6, <1>7 DEF SyncInv

\* Every step.
LEMMA NextSync == SyncInv /\ [Next]_vars => SyncInv'
<1> SUFFICES ASSUME SyncInv, [Next]_vars PROVE SyncInv'
  OBVIOUS
<1>1. ASSUME NEW t \in Tasks, ClientStep(t) PROVE SyncInv'
  BY <1>1, StartKeeps, CompareManifestsKeeps, ContentCreatedKeeps, FileFetchedKeeps,
     FileUploadedKeeps, ChangeUploadedKeeps, CallFailedKeeps
  DEF ClientStep
<1>2. ASSUME NEW t \in Tasks, ServerStep(t) PROVE SyncInv'
  BY <1>2, GetManifestHandlerKeeps, GetFileHandlerKeeps, OpenFileHandlerKeeps, StoreFileKeeps,
     DeleteFileHandlerKeeps, SetPermissionsHandlerKeeps, CreateContentHandlerKeeps
  DEF ServerStep
<1> QED
  BY <1>1, <1>2, DisconnectKeeps, CutShortKeeps, CrashClientKeeps, CrashServerKeeps, EditKeeps,
     TickKeeps, StutterKeeps
  DEF Next

\* The inductive invariant holds throughout.
LEMMA SyncInvariant == Spec => []SyncInv
BY InitSync, NextSync, PTL DEF Spec

\* The variables keep their types: no interleaving of downloads, uploads, crashes
\* and edits has a coroutine or a handler work on a path, an entry or a file
\* that is none (two writes of a file may fall into one second here).
THEOREM SyncTypes == Spec => []TypeOK
<1>1. SyncInv => TypeOK
  <2> SUFFICES ASSUME SyncInv PROVE TypeOK
    OBVIOUS
  <2>1. Typed
    BY DEF SyncInv
  <2>2. \A r \in Replicas :
           /\ DOMAIN tree[r] \subseteq Paths /\ \A p \in DOMAIN tree[r] : tree[r][p] \in File
           /\ DOMAIN manifest[r] \subseteq Paths
           /\ \A p \in DOMAIN manifest[r] : manifest[r][p] \in Entry
    BY <2>1, TreeElim, ManifestElim DEF Typed
  <2> QED  BY <2>1, <2>2 DEF Typed, TypeOK, Pcs
<1> QED  BY <1>1, SyncInvariant, PTL

\* Where no file is written twice in one second, manifest.json never vouches for
\* a file it does not describe, so that the cached scan (scanContentWithCache)
\* computes what the full one would: for any number of clients, tasks, files,
\* crashes and edits.
THEOREM CachedScanIsHonest ==
  ASSUME SameSecond = FALSE
  PROVE  Spec => []ManifestHonest
<1>1. SyncInv => ManifestHonest
  BY DEF SyncInv, Honest
<1> QED  BY <1>1, SyncInvariant, PTL

\* A download or upload that returns has made the two replicas equal in the files
\* it is about, unless somebody disturbed it: for any number of concurrent tasks
\* on any number of clients, whatever crashed, was cut short or lost before.
THEOREM CompletedCopiesAreEqual ==
  ASSUME SameSecond = FALSE
  PROVE  Spec => []CompletedMeansEqual
<1>1. SyncInv => CompletedMeansEqual
  <2> SUFFICES ASSUME SyncInv, NEW t \in Tasks, pc[t] = "done", Job(t) # "create", ~stale[t],
                      NEW p \in Scope(t), Copyable(t, p)
               PROVE  SameFile(tree[Home(t)], tree[Server], p)
    BY DEF CompletedMeansEqual
  <2>1. /\ todo[t] = {} /\ Undisturbed(t) /\ p \in Paths /\ Job(t) \in {"sync", "upload"}
    BY PlanFacts DEF SyncInv, Copies, Shaped, Awaits, Typed
  <2>2. CASE Job(t) = "sync"
    <3>1. Matches(tree[Home(t)], remote[t], p) /\ Matches(tree[Server], remote[t], p)
      BY <2>1, <2>2 DEF Undisturbed, Past, Downloading, Knows
    <3> QED  BY <3>1 DEF Matches, SameFile
  <2>3. CASE Job(t) = "upload"
    <3>1. Matches(tree[Home(t)], local[t], p) /\ Matches(tree[Server], local[t], p)
      BY <2>1, <2>3 DEF Undisturbed, Past, Uploading
    <3> QED  BY <3>1 DEF Matches, SameFile
  <2> QED  BY <2>1, <2>2, <2>3
<1> QED  BY <1>1, SyncInvariant, PTL

\* A job over files nobody else changes never throws half-way, however many
\* downloads of the same content run beside it on the same client.
THEOREM OnlyTheDisturbedFail ==
  ASSUME SameSecond = FALSE
  PROVE  Spec => []FailsOnlyWhenDisturbed
<1>1. SyncInv => FailsOnlyWhenDisturbed
  BY DEF SyncInv, Copies, Undisturbed, FailsOnlyWhenDisturbed
<1> QED  BY <1>1, SyncInvariant, PTL

\* A scan that trusts the stored manifest finds what hashing every file would.
ScanIsExact ==
    \A r \in Replicas : \A p \in DOMAIN tree[r] : ScanContent(r)[p].sha256 = tree[r][p].data

\* Where no file is written twice in one second, scanContentWithCache and
\* fullContentScan agree at any moment, whenever the last full scan was and
\* whatever was stored, cut short or removed since.
THEOREM CachedScanIsFullScan ==
  ASSUME SameSecond = FALSE
  PROVE  Spec => []ScanIsExact
<1>1. SyncInv => ScanIsExact
  <2> SUFFICES ASSUME SyncInv, NEW r \in Replicas, NEW p \in DOMAIN tree[r]
               PROVE  ScanContent(r)[p].sha256 = tree[r][p].data
    BY DEF ScanIsExact
  <2>1. Typed /\ ManifestHonest
    BY DEF SyncInv, Honest
  <2> QED  BY <2>1, ScanFacts
<1> QED  BY <1>1, SyncInvariant, PTL

\* The file an undisturbed upload is creating is not there, and the one it is
\* updating is.
CreatesWhatIsMissing ==
    \A t \in Tasks :
        Running(t) /\ ~stale[t] /\ call[t].op \in FileOps /\ Outcome(t) = "open"
            => (Found(t) <=> call[t].op = "updateFile")

\* createFileHandler looks for the file before it awaits the first chunk and
\* stores it after the last one: what an upload creates in between replaces
\* another's file only when somebody has disturbed that upload.
THEOREM OnlyTheDisturbedOverwrite ==
  ASSUME SameSecond = FALSE
  PROVE  Spec => []CreatesWhatIsMissing
<1>1. SyncInv => CreatesWhatIsMissing
  <2> SUFFICES ASSUME SyncInv, NEW t \in Tasks, Running(t), ~stale[t], call[t].op \in FileOps,
                      call[t].stage = "open"
               PROVE  Found(t) <=> call[t].op = "updateFile"
    BY DEF CreatesWhatIsMissing, Outcome
  <2>1. Awaits(t) /\ Undisturbed(t)
    BY DEF SyncInv, Shaped, Copies
  <2>2. /\ pc[t] = "file" /\ Job(t) = "upload"
        /\ call[t].op = IF call[t].path \in DOMAIN remote[t] THEN "updateFile" ELSE "createFile"
    BY <2>1, PlanFacts DEF Running, Awaits, FileOps, SyncInv, Typed
  <2>3. exists[Server] /\ Matches(tree[Server], remote[t], call[t].path)
    BY <2>1, <2>2 DEF Undisturbed, Past, Uploading, UploadsAt
  <2> QED  BY <2>2, <2>3 DEF Matches, Found
<1> QED  BY <1>1, SyncInvariant, PTL
=============================================================================
