------------------------------ MODULE Publish ------------------------------
(***************************************************************************)
(* Published repositories: their records in the database, the collection   *)
(* that caches them, and what is on the published storage (deb/publish.go, *)
(* files/public.go, s3/public.go, cmd/publish_*.go, api/publish.go).       *)
(*                                                                         *)
(* All the distributions are under one prefix of one storage, so that they *)
(* share the package files in its pool.  One operation runs at a time: the *)
(* command line has the database for itself, and the API's handlers hold   *)
(* the lock of the collection.  Clients of the web server see the storage  *)
(* between any two of its steps, and it may fail or the process may die    *)
(* there.  A server goes on with its cached collection after a failure     *)
(* (Abort) and reloads it now and then (Flush); a command ends, and the    *)
(* next one loads the database (Crash, Reload).                            *)
(***************************************************************************)
EXTENDS IndexFiles

CONSTANTS Dists, NoDist,
          Paths, Path,  \* the place of a package's file in the published pool
          Configs       \* the installations an instance looks at

\* The storage, the distributions and components in use, the sets of packages
\* that snapshots and local repositories hold, whether contents are published
\* and indexes by hash, whether signing may be skipped, and a bound on the
\* operations that are interrupted.
ASSUME ConfigsAssumption ==
  Configs \subseteq [storage : {"files", "s3"}, dists : SUBSET Dists, comps : SUBSET Comps,
                     sources : SUBSET SUBSET Pkgs, contents : BOOLEAN, byHash : BOOLEAN,
                     sign : SUBSET BOOLEAN, maxFaults : Nat]

\* What the by-hash files of s3 are, copies of each other, is not modelled.
ASSUME ByHashAssumption == \A k \in Configs : k.byHash => k.storage = "files"
ASSUME NoDistAssumption == NoDist \notin Dists
ASSUME PathAssumption == \A p \in Pkgs : Path[p] \in Paths

VARIABLES
  db,       \* the records: kind, components, packages by component
  cache,    \* collection.list; re is the rePublishing of the object
  pub,      \* the package files of each component: place to package
  site,     \* dists/<distribution>
  conf,     \* the installation
  known,    \* the s3 storage's pathCache, as <<component, place>> to package
  listed,   \* it has been filled
  op,       \* the operation that runs
  hashing,  \* the step and the index of packageIndexByHash, within Finalize
  faults,   \* operations that were interrupted
  why       \* history: what voids the promises made of a distribution

data == <<db, cache>>
files == <<pub, site>>
fixed == <<conf, faults, hashing>>
paths == <<fixed, known, listed>>
vars == <<db, cache, pub, site, conf, known, listed, op, hashing, faults, why>>

Refs == UNION {[C -> conf.sources] : C \in SUBSET conf.comps}

Phases == {"link", "index", "release", "sign", "rename", "save", "refs",
           "clean", "remove", "cleaned", "dists", "pool", "unrecord", "none"}

\* An operation: what it publishes (new), on which side it puts the index
\* files, those it has put with the suffix (tmp), the components it is to
\* clean up and whether it does, whether it has relied on a path that the
\* storage does not have, its phase, and what is left to do in it.
Operation(name, d, kind, new, side, comps, phase, todo) ==
  [name |-> name, dist |-> d, kind |-> kind, new |-> new, side |-> side, tmp |-> <<>>,
   sign |-> FALSE, clean |-> FALSE, comps |-> comps, missed |-> FALSE,
   phase |-> phase, todo |-> todo]

Idle ==
  Operation("idle", NoDist, "local", <<>>, "vis", {}, "none", {})

NotHashing == [step |-> "none", index |-> Release]

Init ==
  /\ db = <<>> /\ cache = <<>>
  /\ pub = [c \in Comps |-> <<>>] /\ site = [d \in Dists |-> EmptySite]
  /\ conf \in Configs /\ known = <<>> /\ listed = FALSE
  /\ op = Idle /\ hashing = NotHashing /\ faults = 0 /\ why = [d \in Dists |-> {}]

Running(ph) == op.name # "idle" /\ op.phase = ph

----------------------------------------------------------------------------
(* Publish: the phases of an operation                                     *)

AfterIndex(o) ==
  IF o.todo # {} THEN o ELSE [o EXCEPT !.phase = "release"]

AfterLink(o) ==
  IF o.todo # {} THEN o
  ELSE AfterIndex([o EXCEPT !.phase = "index", !.todo = Generated(o.new, conf.contents)])

\* mutant: the signatures are not renamed
AfterRelease_Unsigned(o) ==
  IF o.side = "vis" THEN [o EXCEPT !.phase = "save"]
  ELSE [o EXCEPT !.phase = "rename", !.todo = DOMAIN o.tmp \ {Signatures}]

\* The names RenameFiles moves: all that was put with the suffix.  Files put
\* in place need no renaming.
AfterRelease(o) ==
  IF o.side = "vis" THEN [o EXCEPT !.phase = "save"]
  ELSE [o EXCEPT !.phase = "rename", !.todo = DOMAIN o.tmp]

AfterRename(o) == IF o.todo # {} THEN o ELSE [o EXCEPT !.phase = "save"]

\* packages that match one of the published architectures
ToLink(refs) ==
  {x \in Comps \X Pkgs : x[1] \in DOMAIN refs /\ x[2] \in refs[x[1]] /\ Arch[x[2]] \cap Archs # {}}

Begin(o) == op' = AfterLink(o)

\* LoadComplete: the references of a snapshot are found through the cached
\* Sources, those of a published local repository are read from the database.
RefsOf(d) == IF cache[d].kind = "local" THEN db[d].refs ELSE cache[d].refs

Loadable(d) == DOMAIN RefsOf(d) = cache[d].comps

----------------------------------------------------------------------------
(* The commands and the handlers                                           *)

\* aptly publish snapshot, publish repo, POST /publish: CheckDuplicate looks
\* at the cached list
PublishSnapshotOrRepo(d, kind, new) ==
  /\ op.name = "idle" /\ d \notin DOMAIN cache
  /\ Begin(Operation("publish", d, kind, new, "vis", {}, "link", ToLink(new)))
  /\ UNCHANGED <<data, files, paths, why>>

Republish(d, new, comps) ==
  Begin(Operation("update", d, cache[d].kind, new, IF cache'[d].re THEN "tmp" ELSE "vis",
                  comps, "link", ToLink(new)))

\* publish update: UpdateLocalRepo for every component
PublishUpdate(d, new) ==
  /\ op.name = "idle" /\ d \in DOMAIN cache
  /\ cache[d].kind = "local" /\ Loadable(d) /\ DOMAIN new = cache[d].comps
  /\ cache' = [cache EXCEPT ![d].re = TRUE]
  /\ Republish(d, new, cache[d].comps)
  /\ UNCHANGED <<db, files, paths, why>>

\* publish switch: UpdateSnapshot for the components that are given, on the
\* object of the collection.  The API takes an empty list as well, and then
\* rePublishing stays as it is.
PublishSwitch(d, snaps) ==
  LET new == [c \in cache[d].comps |->
                IF c \in DOMAIN snaps THEN snaps[c] ELSE cache[d].refs[c]]
  IN /\ op.name = "idle" /\ d \in DOMAIN cache
     /\ cache[d].kind = "snapshot" /\ DOMAIN snaps \subseteq cache[d].comps
     /\ cache' = [cache EXCEPT ![d].refs = new, ![d].re = @ \/ DOMAIN snaps # {}]
     /\ Republish(d, new, DOMAIN snaps)
     /\ UNCHANGED <<db, files, paths, why>>

\* mutant: only distributions that share a component count
Others_Sharing(d) == {e \in DOMAIN cache \ {d} : cache[e].comps \cap cache[d].comps # {}}

Others(d) == DOMAIN cache \ {d}

\* components of d that another distribution of the prefix has as well
Shared(d) == cache[d].comps \cap UNION {cache[e].comps : e \in Others(d)}

\* publish drop, DELETE /publish
PublishDrop(d) ==
  /\ op.name = "idle" /\ d \in DOMAIN cache
  /\ op' = Operation("drop", d, cache[d].kind, [c \in cache[d].comps |-> {}], "vis",
                     Shared(d), "dists", {})
  /\ UNCHANGED <<data, files, paths, why>>

----------------------------------------------------------------------------
(* Linking package files                                                   *)

At(f, x) == IF x \in DOMAIN f THEN {f[x]} ELSE {}

\* What the publication offers is not all there: the storage is wrong about
\* the place, or a package of the same list that has the same file name, and
\* different contents, is overwritten.
Misses(c, p, seen) ==
  IF seen = {p} THEN At(pub[c], Path[p]) # {p}
  ELSE (At(pub[c], Path[p]) \ {p}) \cap op.new[c] # {}

\* Package.LinkFromPool with the storage's LinkFromPool.  seen is the package
\* found at the place, as the storage sees it; a different one is overwritten
\* if -force-overwrite is given, and an error (Abort) otherwise.
LinkStep(c, p, seen) ==
  /\ op.phase = "link" /\ op.name # "idle" /\ <<c, p>> \in op.todo
  /\ pub' = IF seen = {p} THEN pub ELSE [pub EXCEPT ![c] = Bind(@, Path[p], p)]
  /\ op' = AfterLink([op EXCEPT !.todo = @ \ {<<c, p>>}, !.missed = @ \/ Misses(c, p, seen)])
  /\ UNCHANGED <<data, site>>

\* The package indexes that the Release clients see names, as it lists them
\* and as they are.  An index of contents leads to no package file.
Offered(d) ==
  LET named == {x \in (UNION At(site[d].vis, Release)) \ Partial : x[1][1] = "Packages"}
  IN named \cup UNION {{<<x[1], w>> : w \in At(site[d].vis, x[1])} : x \in named}

\* A distribution that offers the file that is overwritten is not complete
\* any more, as the warning of -force-overwrite says.
Lists(d, c, p) == \E x \in Offered(d) : x[1][2] = c /\ p \in x[2]

Overwritten(c, p) ==
  [d \in Dists |->
     IF \E q \in At(pub[c], Path[p]) \ {p} : Lists(d, c, q)
     THEN why[d] \cup {"force"} ELSE why[d]]

\* files: the inodes, or the checksums of a copy, are compared
LinkFromPool(c, p) ==
  /\ conf.storage = "files"
  /\ LinkStep(c, p, At(pub[c], Path[p]))
  /\ why' = Overwritten(c, p)
  /\ UNCHANGED paths

Listing == [x \in {y \in Comps \X Paths : y[2] \in DOMAIN pub[y[1]]} |-> pub[x[1]][x[2]]]

PathCache == IF listed THEN known ELSE Listing

\* s3: the listing that was taken at first use is compared and brought up to
\* date with what is put, not with what is removed
LinkFromPoolS3(c, p) ==
  /\ conf.storage = "s3"
  /\ LinkStep(c, p, At(PathCache, <<c, Path[p]>>))
  /\ known' = Bind(PathCache, <<c, Path[p]>>, p) /\ listed' = TRUE
  /\ why' = IF pub' = pub THEN why ELSE Overwritten(c, p)
  /\ UNCHANGED fixed

----------------------------------------------------------------------------
(* Index files                                                             *)

\* PutFile of the operation: its files with the suffix are its own
PutOwn(o, x, w) == IF o.side = "vis" THEN o ELSE [o EXCEPT !.tmp = Bind(@, x, w)]

\* indexFile.Finalize of an index
FinalizeIndex(i) ==
  LET w == Listed(i, op.new)  s == PutFile(site[op.dist], op.side, i, w) IN
  /\ Running("index") /\ hashing = NotHashing /\ i \in op.todo
  /\ site' = [site EXCEPT ![op.dist] = s]
  /\ hashing' = IF conf.byHash /\ ~Hashed(s, i, w) THEN [step |-> "link", index |-> i]
                ELSE NotHashing
  /\ op' = AfterIndex(PutOwn([op EXCEPT !.todo = @ \ {i}], i, w))
  /\ UNCHANGED <<data, pub, conf, faults, known, listed, why>>

\* A step of packageIndexByHash, which makes s of the site.  The indexes that
\* follow, and Release, wait for it.
HashStep(step, s, next) ==
  /\ op.name # "idle" /\ op.phase \in {"index", "release"} /\ hashing.step = step
  /\ site' = [site EXCEPT ![op.dist] = s]
  /\ hashing' = IF next = "none" THEN NotHashing ELSE [hashing EXCEPT !.step = next]
  /\ UNCHANGED <<data, pub, conf, known, listed, op, why>>

PackageIndexByHash ==
  LET s == site[op.dist]  i == hashing.index  w == Listed(i, op.new) IN
  /\ \/ HashStep("link", HardLink(s, op.side, i, w), AfterHardLink(s, i))
     \/ HashStep("target", RemoveTarget(s, i), "old")
     \/ HashStep("old", RemoveOld(s, i), "rename")
     \/ HashStep("rename", RenameLink(s, i), "symlink")
     \/ HashStep("symlink", SymLink(s, i, w), "none")
  /\ UNCHANGED faults

FinalizeRelease(sign) ==
  /\ Running("release") /\ hashing = NotHashing
  /\ site' = [site EXCEPT ![op.dist] = PutFile(@, op.side, Release, ReleaseOf(op.new, conf.contents))]
  /\ LET o == PutOwn([op EXCEPT !.sign = sign], Release, ReleaseOf(op.new, conf.contents))
     IN op' = IF sign THEN [o EXCEPT !.phase = "sign"] ELSE AfterRelease(o)
  /\ UNCHANGED <<data, pub, paths, why>>

\* the signatures of what was put
SignRelease ==
  /\ Running("sign")
  /\ site' = [site EXCEPT ![op.dist] =
                PutFile(@, op.side, Signatures, ReleaseOf(op.new, conf.contents))]
  /\ op' = AfterRelease(PutOwn(op, Signatures, ReleaseOf(op.new, conf.contents)))
  /\ UNCHANGED <<data, pub, paths, why>>

\* RenameFiles goes over a map, in any order
RenameFiles(x) ==
  /\ Running("rename") /\ x \in op.todo
  /\ site' = [site EXCEPT ![op.dist] = RenameFile(@, x, op.tmp[x])]
  /\ op' = AfterRename([op EXCEPT !.todo = @ \ {x}])
  /\ UNCHANGED <<data, pub, paths, why>>

----------------------------------------------------------------------------
(* Records                                                                 *)

\* The distribution is published and recorded.  An unsigned publication
\* leaves the signatures of an earlier one where they are.  Cleanup may be
\* skipped.
AfterSave ==
  /\ cache' = Bind(cache, op.dist,
                   [kind |-> op.kind, comps |-> DOMAIN op.new, refs |-> op.new,
                    re |-> op.dist \in DOMAIN cache /\ cache[op.dist].re])
  /\ why' = [why EXCEPT ![op.dist] =
               (@ \cap {"hash"})
               \cup (IF op.missed THEN {"missing"} ELSE {})
               \cup (IF ~op.sign /\ Signatures \in DOMAIN site[op.dist].vis
                     THEN {"unsigned"} ELSE {})]
  /\ \/ op' = Idle
     \/ op.comps # {} /\ op' = [op EXCEPT !.phase = "clean", !.clean = TRUE]

\* PublishedRepoCollection.Add and Update put the record first.  A new record
\* has a new UUID, under which no references are stored yet.
SaveRecord ==
  /\ Running("save")
  /\ db' = Bind(db, op.dist,
                [kind |-> op.kind, comps |-> DOMAIN op.new,
                 refs |-> IF op.kind = "snapshot" THEN op.new
                          ELSE IF op.name = "publish" THEN <<>> ELSE db[op.dist].refs])
  /\ IF op.kind = "snapshot" THEN AfterSave
     ELSE /\ op' = [op EXCEPT !.phase = "refs", !.todo = DOMAIN op.new]
          /\ UNCHANGED <<cache, why>>
  /\ UNCHANGED <<files, paths>>

\* mutant: only the references of one component are stored
SaveRefs_First(c) ==
  /\ Running("refs") /\ c \in op.todo
  /\ db' = [db EXCEPT ![op.dist].refs = Bind(@, c, op.new[c])]
  /\ AfterSave
  /\ UNCHANGED <<files, paths>>

\* then the references of each component
SaveRefs(c) ==
  /\ Running("refs") /\ c \in op.todo
  /\ db' = [db EXCEPT ![op.dist].refs = Bind(@, c, op.new[c])]
  /\ IF op.todo = {c} THEN AfterSave
     ELSE /\ op' = [op EXCEPT !.todo = @ \ {c}]
          /\ UNCHANGED <<cache, why>>
  /\ UNCHANGED <<files, paths>>

----------------------------------------------------------------------------
(* CleanupPrefixComponentFiles                                             *)

\* distributions of the list that have one of the components
Matching(C) == {d \in DOMAIN cache : cache[d].comps \cap C # {}}

\* mutant: only the references of this publication count
Referenced_Own(c) == {Path[p] : p \in op.new[c]}

\* mutant: the references of all components of a distribution count
Referenced_AnyComponent(c) ==
  {Path[p] : p \in UNION UNION {{RefsOf(d)[e] : e \in cache[d].comps} : d \in Matching({c})}}

Referenced(c) ==
  {Path[p] : p \in UNION {RefsOf(d)[c] : d \in {e \in DOMAIN cache : c \in cache[e].comps}}}

Unreferenced(C) ==
  UNION {{<<c, x>> : x \in DOMAIN pub[c] \ Referenced(c)} : c \in C}

AfterClean(o) ==
  IF o.todo # {} THEN o
  ELSE [o EXCEPT !.phase = IF o.name = "drop" THEN "unrecord" ELSE "cleaned"]

\* Every matching distribution must load.  What is not referenced is removed
\* file by file.
CleanupPrefixComponentFiles ==
  /\ Running("clean") /\ \A d \in Matching(op.comps) : Loadable(d)
  /\ op' = AfterClean([op EXCEPT !.phase = "remove", !.todo = Unreferenced(op.comps)])
  /\ UNCHANGED <<data, files, paths, why>>

RemoveFile(x) ==
  /\ Running("remove") /\ x \in op.todo
  /\ pub' = [pub EXCEPT ![x[1]] = Unbind(@, {x[2]})]
  /\ op' = AfterClean([op EXCEPT !.todo = @ \ {x}])
  /\ UNCHANGED <<data, site, paths, why>>

CleanedUp == Running("cleaned") /\ op' = Idle /\ UNCHANGED <<data, files, paths, why>>

----------------------------------------------------------------------------
(* PublishedRepoCollection.Remove                                          *)

\* mutant: the distribution stays in the list
AfterPool_KeepListed(o) ==
  IF o.todo # {} THEN op' = o /\ UNCHANGED cache
  ELSE /\ UNCHANGED cache
       /\ \/ op' = [o EXCEPT !.phase = "unrecord", !.clean = o.comps = {}]
          \/ o.comps # {} /\ op' = [o EXCEPT !.phase = "clean", !.clean = TRUE]

\* Once the files are gone the distribution leaves the list.  Cleanup may be
\* skipped, unless there is nothing to clean up.
AfterPool(o) ==
  IF o.todo # {} THEN op' = o /\ UNCHANGED cache
  ELSE /\ cache' = Unbind(cache, {o.dist})
       /\ \/ op' = [o EXCEPT !.phase = "unrecord", !.clean = o.comps = {}]
          \/ o.comps # {} /\ op' = [o EXCEPT !.phase = "clean", !.clean = TRUE]

InPool(C) == UNION {{<<c, x>> : x \in DOMAIN pub[c]} : c \in C}

\* RemoveFiles: the metadata goes first, of the whole prefix if no other
\* distribution is left in it, then the package files of the components that
\* no other distribution has.
RemoveFiles ==
  /\ Running("dists")
  /\ site' = IF Others(op.dist) = {} THEN [d \in Dists |-> EmptySite]
             ELSE [site EXCEPT ![op.dist] = EmptySite]
  /\ AfterPool([op EXCEPT !.phase = "pool",
                          !.todo = InPool(IF Others(op.dist) = {} THEN Comps
                                          ELSE DOMAIN op.new \ op.comps)])
  /\ UNCHANGED <<db, pub, paths, why>>

RemovePool(x) ==
  /\ Running("pool") /\ x \in op.todo
  /\ pub' = [pub EXCEPT ![x[1]] = Unbind(@, {x[2]})]
  /\ AfterPool([op EXCEPT !.todo = @ \ {x}])
  /\ UNCHANGED <<db, site, paths, why>>

\* -force-drop goes on when the cleanup has failed
CleanupFails ==
  /\ op.name = "drop" /\ op.phase \in {"clean", "remove"}
  /\ op' = [op EXCEPT !.phase = "unrecord", !.todo = {}, !.clean = FALSE]
  /\ UNCHANGED <<data, files, paths, why>>

Unrecord ==
  /\ Running("unrecord")
  /\ db' = Unbind(db, {op.dist})
  /\ op' = Idle /\ why' = [why EXCEPT ![op.dist] = {}]
  /\ UNCHANGED <<cache, files, paths>>

----------------------------------------------------------------------------
(* Failures                                                                *)

\* What an interrupted operation leaves behind: "torn", clients may see a mix
\* of two publications or one the database does not know; "stale", the cached
\* object names snapshots that are not published; "hash", an .old link may
\* lead to a checksum that was removed.
LeftBehind(stale) ==
  (IF op.name = "drop" \/ op.phase \in {"rename", "save", "refs"}
      \/ (op.side = "vis" /\ op.phase \in {"index", "release", "sign"})
   THEN {"torn"} ELSE {})
  \cup (IF stale THEN {"stale"} ELSE {})
  \cup (IF hashing.step \in {"old", "rename"} /\ hashing.index \in DOMAIN site[op.dist].old
        THEN {"hash"} ELSE {})

\* A file that was being put may be left partial; a directory that was being
\* removed may be left with some of its files.
Unfinished ==
  CASE op.phase \in {"index", "release", "sign"} /\ hashing = NotHashing ->
         \E x \in CASE op.phase = "index" -> op.todo
                    [] op.phase = "release" -> {Release}
                    [] op.phase = "sign" -> {Signatures} :
           site' \in {site, [site EXCEPT ![op.dist] = PutFile(@, op.side, x, Partial)]}
    [] op.phase = "dists" ->
         \E S \in SUBSET DOMAIN site[op.dist].vis :
           site' = [site EXCEPT ![op.dist].vis = Unbind(@, S)]
    [] OTHER -> site' = site

Stop(stale) ==
  /\ op.name # "idle"
  /\ op' = Idle /\ hashing' = NotHashing
  /\ why' = [why EXCEPT ![op.dist] = @ \cup LeftBehind(stale)]
  /\ UNCHANGED <<db, pub, conf>>

\* An error is returned, and a server goes on with the object it has changed.
ReturnError ==
  /\ Stop(op.name = "update" /\ op.kind = "snapshot" /\ cache[op.dist].refs # db[op.dist].refs)
  /\ UNCHANGED cache

\* An s3 storage that was linking keeps the listing it has taken.
KeepListing ==
  IF conf.storage = "s3" /\ Running("link") THEN known' = PathCache /\ listed' = TRUE
  ELSE UNCHANGED <<known, listed>>

Taken(c, p) ==
  At(IF conf.storage = "s3" THEN PathCache ELSE Listing, <<c, Path[p]>>) \ {p} # {}

\* a place is taken by another package, or a distribution does not load
Refuse ==
  /\ \/ Running("link") /\ \E x \in op.todo : Taken(x[1], x[2])
     \/ Running("clean") /\ \E d \in Matching(op.comps) : ~Loadable(d)
  /\ ReturnError /\ KeepListing /\ UNCHANGED <<site, faults>>

Fault == faults < conf.maxFaults /\ faults' = faults + 1

\* the storage (its listing included), the signer, the package pool or the
\* database fails, or a snapshot does not exist
Abort == Fault /\ Unfinished /\ ReturnError /\ (KeepListing \/ UNCHANGED <<known, listed>>)

\* The errors of Remove in packageIndexByHash are ignored.  So is that of
\* RenameFile, but then SymLink finds the name taken, and fails (Abort).
IgnoredError ==
  /\ Fault
  /\ \/ HashStep("target", site[op.dist], "old")
     \/ HashStep("old", site[op.dist], "rename")

FromDatabase ==
  [d \in DOMAIN db |-> [kind |-> db[d].kind, comps |-> db[d].comps, refs |-> db[d].refs,
                        re |-> FALSE]]

\* the process ends; the next one begins with the database
Crash ==
  Fault /\ Unfinished /\ Stop(FALSE) /\ cache' = FromDatabase /\ known' = <<>> /\ listed' = FALSE

\* a new process
Reload ==
  /\ op.name = "idle" /\ <<cache, listed>> # <<FromDatabase, FALSE>>
  /\ cache' = FromDatabase /\ known' = <<>> /\ listed' = FALSE
  /\ UNCHANGED <<db, files, fixed, op, why>>

\* A server flushes its collections, and keeps the storages with their caches.
Flush ==
  /\ op.name = "idle" /\ cache # FromDatabase
  /\ cache' = FromDatabase
  /\ UNCHANGED <<db, files, paths, op, why>>

Commands ==
  \E d \in conf.dists :
    \/ \E kind \in {"local", "snapshot"}, new \in Refs :
         new # <<>> /\ PublishSnapshotOrRepo(d, kind, new)
    \/ \E new \in Refs : PublishUpdate(d, new)
    \/ \E snaps \in Refs : PublishSwitch(d, snaps)
    \/ PublishDrop(d)

Step ==
  \/ Commands
  \/ \E c \in Comps, p \in Pkgs : LinkFromPool(c, p) \/ LinkFromPoolS3(c, p)
  \/ (\E i \in Index : FinalizeIndex(i)) \/ PackageIndexByHash
  \/ \E sign \in conf.sign : FinalizeRelease(sign)
  \/ SignRelease
  \/ \E x \in Index \cup {Release, Signatures} : RenameFiles(x)
  \/ SaveRecord \/ \E c \in Comps : SaveRefs(c)
  \/ CleanupPrefixComponentFiles \/ CleanedUp
  \/ \E c \in Comps, x \in Paths : RemoveFile(<<c, x>>) \/ RemovePool(<<c, x>>)
  \/ RemoveFiles \/ CleanupFails \/ Unrecord

Next == Step \/ Refuse \/ IgnoredError \/ Abort \/ Crash \/ Reload \/ Flush

Spec == Init /\ [][Next]_vars

----------------------------------------------------------------------------
(* Properties                                                              *)

Reasons == {"torn", "stale", "force", "missing", "unsigned", "hash"}

\* Every variable stays in its type, and the cached list has only records of
\* the database.
TypeOK ==
  /\ DOMAIN db \subseteq Dists /\ DOMAIN cache \subseteq DOMAIN db
  /\ \A d \in DOMAIN db : /\ db[d].kind \in {"local", "snapshot"}
                          /\ DOMAIN db[d].refs \subseteq db[d].comps
                          /\ db[d].comps \subseteq Comps
  /\ \A c \in Comps : \A x \in DOMAIN pub[c] : pub[c][x] \in Pkgs /\ Path[pub[c][x]] = x
  /\ conf \in Configs /\ listed \in BOOLEAN
  /\ faults \in 0..conf.maxFaults
  /\ op.dist \in Dists \cup {NoDist} /\ op.phase \in Phases
  /\ why \in [Dists -> SUBSET Reasons]

\* Every package file that the package indexes and the Release of d name is
\* there.
Complete(d) ==
  \A x \in Offered(d) : \A p \in x[2] \ {Torn} : At(pub[x[1][2]], Path[p]) = {p}

\* At every moment, also while another distribution of the prefix is
\* published, switched, cleaned up or dropped, clients of a distribution find
\* every package file that its indexes name.
IndexComplete ==
  \A d \in Dists :
    /\ why[d] \cap {"torn", "stale", "force", "missing"} = {}
    /\ ~(op.dist = d /\ op.missed)
    => Complete(d)

\* Unless an operation on it runs or was interrupted while it changed what
\* clients see, the indexes of a distribution are the ones whose checksums
\* are in its Release, and the signatures are of that Release.
SiteConsistent ==
  \A d \in Dists : \A rel \in At(site[d].vis, Release) :
    (op.name = "idle" \/ op.dist # d) /\ "torn" \notin why[d] =>
      /\ \A x \in rel : At(site[d].vis, x[1]) = {x[2]}
      /\ "unsigned" \notin why[d] =>
           At(site[d].vis, Signatures) \subseteq {rel}

\* Likewise, a distribution is recorded if and only if it is published, with
\* the packages of the record.
RecordMatchesSite ==
  \A d \in Dists :
    (op.name = "idle" \/ op.dist # d) /\ "torn" \notin why[d] =>
      At(site[d].vis, Release) =
        IF d \in DOMAIN db /\ DOMAIN db[d].refs = db[d].comps
        THEN {ReleaseOf(db[d].refs, conf.contents)} ELSE {}

\* No operation touches what is published of another distribution.
OthersUntouched ==
  [][\A d \in DOMAIN db :
       d # op.dist /\ "torn" \notin why[d] => site'[d] = site[d]]_vars

\* When an update, a switch or a drop has cleaned up, the components it cleaned
\* up have no package file left that no record refers to.
CleanupLeavesNothing ==
  op.clean /\ op.phase \in {"cleaned", "unrecord"} /\ (\A d \in Dists : "stale" \notin why[d]) =>
    LET kept == IF op.name = "drop" THEN DOMAIN db \ {op.dist} ELSE DOMAIN db
    IN \A c \in IF op.name = "drop" THEN DOMAIN op.new ELSE op.comps :
         DOMAIN pub[c] \subseteq
           {Path[p] : p \in UNION UNION {At(db[d].refs, c) : d \in kept}}

\* packageIndexByHash is about to replace the .old link of i
Replaced(d, i) ==
  op.dist = d /\ hashing.step \in {"old", "rename"} /\ hashing.index = i

\* The by-hash links of every index lead to files at every moment, except an
\* .old link between the removal of its target and its own.  A process that
\* ends there leaves it, and that voids the promise for the distribution.
LinksResolve ==
  \A d \in Dists : "hash" \notin why[d] =>
    \A i \in Index :
      \A w \in At(site[d].link, i)
               \cup (IF Replaced(d, i) THEN {} ELSE At(site[d].old, i)) :
        <<Dir(i), w>> \in DOMAIN site[d].sum
=============================================================================
