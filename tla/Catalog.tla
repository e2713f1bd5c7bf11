------------------------------ MODULE Catalog ------------------------------
(***************************************************************************)
(* The catalogue that aptly keeps on disk, and the command line processes  *)
(* that share it: mirrors, local repositories, snapshots and published     *)
(* repositories with their lists of package references, the package        *)
(* records, and the files of the package pool.                             *)
(*                                                                         *)
(* Every command opens the database first, and LevelDB lets one process    *)
(* open it at a time, so a command runs alone from Open to Close.  The one *)
(* exception is `aptly mirror update', which closes the database while it  *)
(* downloads (cmd/mirror_update.go) and relies on a lock of its own, the   *)
(* status and PID stored in the mirror's record.                           *)
(*                                                                         *)
(* A command is one action that reads the database, checks what the code   *)
(* checks and leaves behind the writes the code will make, in the code's   *)
(* order.  They are then carried out one key at a time, and the process    *)
(* may die between any two of them.                                        *)
(***************************************************************************)
EXTENDS Naturals, Sequences

CONSTANTS
    Procs,         \* process ids
    NoProc,        \* PID 0 and "no process holds the database"
    Mirrors, Repos, Snaps, Pubs,   \* UUIDs a list of each kind may get
    Pkgs,          \* package keys
    Files,         \* package files, by their content-addressed pool path
    FilesOf,       \* the files each package is made of
    MaxConf,       \* bound on the number of edits of one mirror
    MaxComponents  \* bound on the components of a published repository

Lists == Mirrors \cup Repos \cup Snaps \cup Pubs
RefKeys == Mirrors \cup Repos \cup Snaps \cup (Pubs \X (1 .. MaxComponents))

ASSUME FilesOfAssumption == FilesOf \in [Pkgs -> SUBSET Files]
ASSUME BoundsAssumption == MaxConf \in Nat /\ MaxComponents \in Nat
ASSUME ProcAssumption == NoProc \notin Procs \cup Mirrors
(* Keys in LevelDB carry a prefix per kind and UUIDs are unique.           *)
ASSUME KindsAssumption ==
    /\ Mirrors \cap Repos = {} /\ Mirrors \cap Snaps = {} /\ Mirrors \cap Pubs = {}
    /\ Repos \cap Snaps = {} /\ Repos \cap Pubs = {} /\ Snaps \cap Pubs = {}
    /\ Lists \cap (Pubs \X (1 .. MaxComponents)) = {}

VARIABLES
    \* the database
    rec,       \* lists whose record (R, L, S or U key) is stored
    worker,    \* WorkerPID of a mirror's record, NoProc when MirrorIdle
    conf,      \* revision of a mirror's settings (filter, URL, name...)
    sources,   \* sources of a published repository, one per component
    stored,    \* reference lists (E keys) that are stored
    refs,      \* their contents
    parts,     \* whether none, some or all of a package's records are stored
    contents,  \* packages whose file listing (xC) is stored
    \* the package pool
    pool,      \* files at their pool path
    tmp,       \* downloads in the pool directory: <<process, file, state>>;
               \* NoProc owns what processes left behind
    \* the process that has the database open, and what it still has to do
    holder, pc,
    incoming,  \* packages to import into the pool and to store
    store,     \* packages to store
    writes,    \* list records and reference lists to write, in order
    doomed,    \* db cleanup: packages to delete
    unlink,    \* db cleanup: paths to remove from the pool
    \* mirror updates
    job,
    \* history
    used,      \* UUIDs handed out so far
    moving,    \* packages of the repo move that is running
    waived     \* what has happened that voids a guarantee: "force", a locked mirror
               \* was updated; "overlap", files went during an update; "order", a
               \* reference list that is not sorted may have been stored

dbvars == <<rec, worker, conf, sources, stored, refs, parts, contents>>
poolvars == <<pool, tmp>>
planvars == <<incoming, store, writes, doomed, unlink>>
vars == <<dbvars, poolvars, holder, pc, planvars, job, used, moving, waived>>

(***************************************************************************)
(* Reading the database.                                                   *)
(***************************************************************************)

(* The reference lists that belong to list l, whose sources are srcs.  A   *)
(* publish of snapshots has none of its own.                               *)
KeysOf(l, srcs) ==
    IF l \in Pubs THEN {<<l, i>> : i \in {j \in 1 .. Len(srcs) : srcs[j] \in Repos}}
                  ELSE {l}

SourcesOf(l) == IF l \in Pubs THEN sources[l] ELSE << >>

LiveKeys == {k \in stored : \E l \in rec : k \in KeysOf(l, SourcesOf(l))}

(* existingPackageRefs: what db cleanup collects.                          *)
Referenced == UNION {refs[k] : k \in LiveKeys}

(* All of P, xF, xD and xE, which PackageCollection.Update writes in this  *)
(* order: a package with some of its records has P.                        *)
Complete == {q \in Pkgs : parts[q] = "all"}

(* NewPackageListFromRefList: every reference has its P record.            *)
Loadable(S) == \A q \in S : parts[q] # "none"

FilesIn(S) == UNION {FilesOf[q] : q \in S}

(* A process exists while it has the database open or is downloading.      *)
Alive(p) == holder = p \/ job[p].phase # "none"

CheckLock_Ignored(m) == TRUE
CheckLock(m) == worker[m] # NoProc => ~Alive(worker[m])

LoadedSnaps == Snaps \cap rec \cap stored

(* Sources a publish may name: a sequence with one source per component.   *)
SourceSeqs(S) == UNION {[1 .. n -> S] : n \in 1 .. MaxComponents}

AnySources == {<< >>} \cup SourceSeqs(Snaps) \cup SourceSeqs(Repos)

PublishedBy(l) == {u \in Pubs \cap rec : \E i \in 1 .. Len(sources[u]) : sources[u][i] = l}

(***************************************************************************)
(* Writes.                                                                 *)
(***************************************************************************)

WriteOf(ops, keys) ==
    [op : ops, key : keys, worker : Procs \cup {NoProc}, conf : 0 .. MaxConf,
     srcs : AnySources, pkgs : SUBSET Pkgs]

Write == WriteOf({"put", "del"}, Lists) \cup WriteOf({"putrefs", "delrefs"}, RefKeys)

Key(op, k) == [op |-> op, key |-> k, worker |-> NoProc, conf |-> 0, srcs |-> << >>, pkgs |-> {}]
PutRec(l) == Key("put", l)
PutMirror(m, w, c) == [Key("put", m) EXCEPT !.worker = w, !.conf = c]
PutPub(u, srcs) == [Key("put", u) EXCEPT !.srcs = srcs]
PutRefs(k, S) == [Key("putrefs", k) EXCEPT !.pkgs = S]

(* Collection.Update for a mirror, local repository or snapshot: the       *)
(* record, then the reference list when there is one.                      *)
Save(record, has, S) ==
    IF has THEN <<record, PutRefs(record.key, S)>> ELSE <<record>>

Drop_RefsFirst(l) == <<Key("delrefs", l), Key("del", l)>>

(* Collection.Drop: the record, then the reference list.                   *)
Drop(l) == <<Key("del", l), Key("delrefs", l)>>

(* PublishedRepoCollection.Update for a publish of local repositories.     *)
SavePub(u, srcs) ==
    [i \in 1 .. Len(srcs) + 1 |->
        IF i = 1 THEN PutPub(u, srcs) ELSE PutRefs(<<u, i - 1>>, refs[srcs[i - 1]])]

(* PublishedRepoCollection.Remove: the record, then a list per component.  *)
DropPub(u) ==
    [i \in 1 .. Len(sources[u]) + 1 |->
        IF i = 1 THEN Key("del", u) ELSE Key("delrefs", <<u, i - 1>>)]

(***************************************************************************)
(* Initial state and types.                                                *)
(***************************************************************************)

NoJob == [phase |-> "none", mirror |-> NoProc, had |-> FALSE, old |-> {}, want |-> {},
          conf |-> 0, queue |-> {}, active |-> {}, done |-> {},
          failed |-> FALSE, swept |-> FALSE]

Job ==
    [phase : {"none", "mark", "download", "unlock", "import"}, mirror : Mirrors \cup {NoProc},
     had : BOOLEAN, old : SUBSET Pkgs, want : SUBSET Pkgs, conf : 0 .. MaxConf,
     queue : SUBSET Files, active : SUBSET Files, done : SUBSET Files,
     failed : BOOLEAN, swept : BOOLEAN]

TmpPaths == (Procs \cup {NoProc}) \X Files \X {"down", "done", "left"}

Init ==
    /\ rec = {} /\ stored = {}
    /\ worker = [m \in Mirrors |-> NoProc]
    /\ conf = [m \in Mirrors |-> 0]
    /\ sources = [u \in Pubs |-> << >>]
    /\ refs = [k \in RefKeys |-> {}]
    /\ parts = [q \in Pkgs |-> "none"]
    /\ contents = {}
    /\ pool = {} /\ tmp = {}
    /\ holder = NoProc /\ pc = "idle"
    /\ incoming = {} /\ store = {} /\ writes = << >> /\ doomed = {} /\ unlink = {}
    /\ job = [p \in Procs |-> NoJob]
    /\ used = {} /\ moving = {} /\ waived = {}

(* Every variable stays in its type: in particular only known keys are     *)
(* written, and a download belongs to a process or to nobody.               *)
TypeOK ==
    /\ rec \subseteq Lists /\ stored \subseteq RefKeys
    /\ worker \in [Mirrors -> Procs \cup {NoProc}]
    /\ conf \in [Mirrors -> 0 .. MaxConf]
    /\ sources \in [Pubs -> AnySources]
    /\ refs \in [RefKeys -> SUBSET Pkgs]
    /\ parts \in [Pkgs -> {"none", "some", "all"}]
    /\ contents \subseteq Pkgs
    /\ pool \subseteq Files /\ tmp \subseteq TmpPaths
    /\ holder \in Procs \cup {NoProc}
    /\ pc \in {"idle", "save", "import", "purge", "scan", "unlink"}
    /\ incoming \subseteq Pkgs /\ store \subseteq Pkgs
    /\ writes \in Seq(Write)
    /\ doomed \subseteq Pkgs /\ unlink \subseteq Files \cup TmpPaths
    /\ job \in [Procs -> Job]
    /\ used \subseteq Lists /\ moving \subseteq Pkgs
    /\ waived \subseteq {"force", "overlap", "order"}

(***************************************************************************)
(* A process opens the database, runs commands and closes it (`aptly task  *)
(* run' runs several).  LevelDB's file lock admits one process at a time;  *)
(* the others wait and retry, or give up.                                  *)
(***************************************************************************)

OpenDatabase(p) ==
    /\ holder = NoProc /\ ~Alive(p)
    /\ holder' = p
    /\ UNCHANGED <<dbvars, poolvars, pc, planvars, job, used, moving, waived>>

CloseDatabase(p) ==
    /\ holder = p /\ pc = "idle"
    /\ holder' = NoProc
    /\ UNCHANGED <<dbvars, poolvars, pc, planvars, job, used, moving, waived>>

Ready(p) == holder = p /\ pc = "idle"

(* Start to carry out a command's writes: the packages in in are imported  *)
(* and stored, those in st stored, then ws is written.                     *)
Plan(p, in, st, ws) ==
    /\ pc' = "save" /\ incoming' = in /\ store' = st /\ writes' = ws
    /\ UNCHANGED <<poolvars, holder, doomed, unlink,
                   rec, worker, conf, sources, stored, refs, parts>>

(* A command that creates no list, publishes nothing and moves nothing.    *)
Command(p, in, ws) ==
    /\ Ready(p)
    /\ Plan(p, in, {}, ws)
    /\ UNCHANGED <<contents, job, used, moving, waived>>

Create(p, l, ws) ==
    /\ Ready(p)
    /\ l \notin used /\ used' = used \cup {l}
    /\ Plan(p, {}, {}, ws)
    /\ UNCHANGED <<job, moving>>

(***************************************************************************)
(* Mirrors.                                                                *)
(***************************************************************************)

MirrorCreate(p, m) ==
    /\ Create(p, m, <<PutMirror(m, NoProc, 0)>>)
    /\ UNCHANGED <<contents, waived>>

(* mirror edit and mirror rename: the reference list is not loaded, so it  *)
(* is not written.                                                         *)
MirrorEdit(p, m) ==
    /\ m \in rec /\ CheckLock(m)
    /\ conf[m] < MaxConf
    /\ Command(p, {}, <<PutMirror(m, worker[m], conf[m] + 1)>>)

(* With -force the snapshots made from the mirror do not matter.           *)
MirrorDrop(p, m) ==
    /\ m \in rec /\ CheckLock(m)
    /\ Command(p, {}, Drop(m))

(***************************************************************************)
(* Local repositories.                                                     *)
(***************************************************************************)

SaveRepo(r, S) == Save(PutRec(r), TRUE, S)

RepoCreate(p, r) ==
    /\ \/ Create(p, r, <<PutRec(r)>>)
       \/ \E s \in LoadedSnaps : Create(p, r, SaveRepo(r, refs[s]))
    /\ UNCHANGED <<contents, waived>>

(* Of the packages in new, those in added go to the list; the others fail  *)
(* to be imported, or the list refuses them after that.  With -force-replace packages   *)
(* that conflict with an added one leave the list.                         *)
RepoAdd(p, r, new, added, replaced) ==
    /\ r \in rec /\ Loadable(refs[r])
    /\ added \subseteq new /\ replaced \subseteq refs[r] \ new
    /\ replaced # {} => added # {}
    /\ Command(p, new, SaveRepo(r, (refs[r] \ replaced) \cup added))

RepoRemove(p, r, gone) ==
    /\ r \in rec /\ Loadable(refs[r])
    /\ gone \subseteq refs[r]
    /\ Command(p, {}, SaveRepo(r, refs[r] \ gone))

(* repo copy, and repo import when src is a mirror.                        *)
RepoCopy(p, src, dst, S) ==
    /\ dst \in rec /\ src \in rec /\ src # dst
    /\ src \in Mirrors => src \in stored
    /\ Loadable(refs[dst]) /\ Loadable(refs[src])
    /\ S \subseteq refs[src]
    /\ Command(p, {}, SaveRepo(dst, refs[dst] \cup S))

MoveWrites_SourceFirst(src, dst, S) ==
    SaveRepo(src, refs[src] \ S) \o SaveRepo(dst, refs[dst] \cup S)

(* The destination is saved before the source.                             *)
MoveWrites(src, dst, S) ==
    SaveRepo(dst, refs[dst] \cup S) \o SaveRepo(src, refs[src] \ S)

RepoMove(p, src, dst, S) ==
    /\ dst \in rec /\ src \in rec /\ src # dst
    /\ Loadable(refs[dst]) /\ Loadable(refs[src])
    /\ S \subseteq refs[src]
    /\ Ready(p)
    /\ Plan(p, {}, {}, MoveWrites(src, dst, S))
    /\ moving' = S
    /\ UNCHANGED <<contents, job, used, waived>>

(* Refused while published; -force only overrides the check for snapshots. *)
RepoDrop(p, r) ==
    /\ r \in rec /\ PublishedBy(r) = {}
    /\ Command(p, {}, Drop(r))

(***************************************************************************)
(* Snapshots.                                                              *)
(***************************************************************************)

SaveSnap(s, S) == Save(PutRec(s), TRUE, S)

SnapshotFromMirror(p, s, m) ==
    /\ m \in rec /\ CheckLock(m)
    /\ m \in stored
    /\ Create(p, s, SaveSnap(s, refs[m]))
    /\ UNCHANGED <<contents, waived>>

SnapshotFromRepo(p, s, r) ==
    /\ r \in rec
    /\ Create(p, s, SaveSnap(s, refs[r]))
    /\ UNCHANGED <<contents, waived>>

(* A merge that overrides matching packages may leave its result unsorted  *)
(* (see RefList), and it is stored as it is.                               *)
MayUnsort(srcs, S) ==
    /\ \E t, t2 \in srcs : t # t2
    /\ \E a, b \in S : a # b

(* snapshot merge, pull and filter, and snapshot create ... empty: some of *)
(* the packages of the sources.                                            *)
SnapshotDerive(p, s, srcs, S, unsorted) ==
    /\ srcs \subseteq LoadedSnaps
    /\ S \subseteq UNION {refs[t] : t \in srcs}
    /\ unsorted => MayUnsort(srcs, S)
    /\ Create(p, s, SaveSnap(s, S))
    /\ waived' = IF unsorted THEN waived \cup {"order"} ELSE waived
    /\ UNCHANGED contents

SnapshotDrop_Published(p, s) ==
    /\ s \in rec
    /\ Command(p, {}, Drop(s))

(* Refused while published; -force only overrides the check for snapshots  *)
(* derived from this one.                                                  *)
SnapshotDrop(p, s) ==
    /\ s \in rec /\ PublishedBy(s) = {}
    /\ Command(p, {}, Drop(s))

(***************************************************************************)
(* Published repositories: what they leave in the database.  Publish reads *)
(* every record and links every file of every package; the file listings   *)
(* it computes for the Contents indexes are stored on the way (listed:     *)
(* none with -skip-contents).                                              *)
(***************************************************************************)

Publishable(S) == S \subseteq Complete /\ FilesIn(S) \subseteq pool

SourceRefs(srcs) == UNION {refs[srcs[i]] : i \in 1 .. Len(srcs)}

Listing(S, listed) == listed \subseteq S /\ contents' = contents \cup listed

PublishSnapshot(p, u, srcs, listed) ==
    /\ srcs \in SourceSeqs(LoadedSnaps)
    /\ Publishable(SourceRefs(srcs))
    /\ Create(p, u, <<PutPub(u, srcs)>>)
    /\ Listing(SourceRefs(srcs), listed)
    /\ UNCHANGED waived

PublishRepo(p, u, srcs, listed) ==
    /\ srcs \in SourceSeqs(Repos \cap rec)
    /\ Publishable(SourceRefs(srcs))
    /\ Create(p, u, SavePub(u, srcs))
    /\ Listing(SourceRefs(srcs), listed)
    /\ UNCHANGED waived

IsLocal(u) == sources[u] \in Seq(Repos)

(* PublishedRepoCollection.LoadComplete.                                   *)
LoadedPub(u) ==
    /\ u \in rec
    /\ \A i \in 1 .. Len(sources[u]) :
          IF IsLocal(u) THEN sources[u][i] \in rec /\ <<u, i>> \in stored
                        ELSE sources[u][i] \in LoadedSnaps

(* Some components switch to another snapshot.                             *)
PublishSwitch(p, u, srcs, listed) ==
    /\ LoadedPub(u) /\ ~IsLocal(u)
    /\ srcs \in [1 .. Len(sources[u]) -> LoadedSnaps]
    /\ Publishable(SourceRefs(srcs))
    /\ Ready(p)
    /\ Plan(p, {}, {}, <<PutPub(u, srcs)>>)
    /\ Listing(SourceRefs(srcs), listed)
    /\ UNCHANGED <<job, used, moving, waived>>

PublishUpdate(p, u, listed) ==
    /\ LoadedPub(u) /\ IsLocal(u)
    /\ Publishable(SourceRefs(sources[u]))
    /\ Ready(p)
    /\ Plan(p, {}, {}, SavePub(u, sources[u]))
    /\ Listing(SourceRefs(sources[u]), listed)
    /\ UNCHANGED <<job, used, moving, waived>>

(* Publish fails on the way (a link, an index, the signature): only the    *)
(* listings it has computed are left in the database.                      *)
PublishFailed(p, srcs, listed) ==
    /\ srcs \in SourceSeqs(LoadedSnaps) \cup SourceSeqs(Repos \cap rec)
    /\ Loadable(SourceRefs(srcs)) /\ Publishable(listed)
    /\ Ready(p)
    /\ Plan(p, {}, {}, << >>)
    /\ Listing(SourceRefs(srcs), listed)
    /\ UNCHANGED <<job, used, moving, waived>>

PublishDrop(p, u) ==
    /\ u \in rec
    /\ Command(p, {}, DropPub(u))

(***************************************************************************)
(* Carrying out the writes.                                                *)
(***************************************************************************)

(* ImportPackageFiles: the files of one package go to the pool, then the   *)
(* package is stored, then comes the next package.                         *)
ImportFiles(p, q) ==
    /\ holder = p /\ pc = "save" /\ q \in incoming /\ store = {}
    /\ pool' = pool \cup FilesOf[q]
    /\ incoming' = incoming \ {q} /\ store' = {q}
    /\ UNCHANGED <<dbvars, tmp, holder, pc, writes, doomed, unlink, job, used, moving, waived>>

(* Some file of the package cannot be imported: the package is skipped and *)
(* the files imported before it stay in the pool.                          *)
ImportRefused(p, q, fs) ==
    /\ holder = p /\ pc = "save" /\ q \in incoming /\ store = {}
    /\ \A i \in 1 .. Len(writes) : q \notin writes[i].pkgs
    /\ pool' = pool \cup fs
    /\ incoming' = incoming \ {q}
    /\ UNCHANGED <<dbvars, tmp, holder, pc, store, writes, doomed, unlink,
                   job, used, moving, waived>>

(* PackageCollection.Update, all four records.                             *)
StorePackage(p, q) ==
    /\ holder = p /\ pc = "save" /\ q \in store
    /\ parts' = [parts EXCEPT ![q] = "all"]
    /\ store' = store \ {q}
    /\ UNCHANGED <<rec, worker, conf, sources, stored, refs, contents, poolvars, holder, pc,
                   incoming, writes, doomed, unlink, job, used, moving, waived>>

WriteNext(p, op) ==
    /\ holder = p /\ pc = "save" /\ incoming = {} /\ store = {}
    /\ writes # << >> /\ Head(writes).op = op
    /\ writes' = Tail(writes)
    /\ UNCHANGED <<parts, contents, poolvars, holder, pc, incoming, store, doomed, unlink,
                   job, used, moving, waived>>

WriteRecord(p) ==
    /\ WriteNext(p, "put")
    /\ LET w == Head(writes) IN
        /\ rec' = rec \cup {w.key}
        /\ worker' = [m \in Mirrors |-> IF m = w.key THEN w.worker ELSE worker[m]]
        /\ conf' = [m \in Mirrors |-> IF m = w.key THEN w.conf ELSE conf[m]]
        /\ sources' = [u \in Pubs |-> IF u = w.key THEN w.srcs ELSE sources[u]]
    /\ UNCHANGED <<stored, refs>>

WriteRefs(p) ==
    /\ WriteNext(p, "putrefs")
    /\ stored' = stored \cup {Head(writes).key}
    /\ refs' = [refs EXCEPT ![Head(writes).key] = Head(writes).pkgs]
    /\ UNCHANGED <<rec, worker, conf, sources>>

DeleteRecord(p) ==
    /\ WriteNext(p, "del")
    /\ rec' = rec \ {Head(writes).key}
    /\ UNCHANGED <<worker, conf, sources, stored, refs>>

DeleteRefs(p) ==
    /\ WriteNext(p, "delrefs")
    /\ stored' = stored \ {Head(writes).key}
    /\ refs' = [refs EXCEPT ![Head(writes).key] = {}]
    /\ UNCHANGED <<rec, worker, conf, sources>>

Written(p) == holder = p /\ pc = "save" /\ incoming = {} /\ store = {} /\ writes = << >>

(* A mirror update is over.  Temporary paths are random: what it leaves    *)
(* there is never used again.                                              *)
EndJob(p) ==
    /\ job' = [job EXCEPT ![p] = NoJob]
    /\ tmp' = {x \in tmp : x[1] # p} \cup {<<NoProc, x[2], "left">> : x \in {y \in tmp : y[1] = p}}

(* The command is over; a mirror update has released the mirror by now.    *)
CommandDone(p) ==
    /\ Written(p) /\ job[p].phase # "mark"
    /\ pc' = "idle" /\ moving' = {}
    /\ EndJob(p)
    /\ UNCHANGED <<dbvars, pool, holder, planvars, used, waived>>

(***************************************************************************)
(* mirror update.  Mark the mirror as updating, close the database,        *)
(* download to temporary paths inside the pool directory, open the         *)
(* database again, import what was downloaded, store the packages and the  *)
(* new reference list, mark the mirror as idle.                            *)
(***************************************************************************)

SaveMirror(m, w, c, has, S) == Save(PutMirror(m, w, c), has, S)

(* BuildDownloadQueue: the files that are not in the pool now; with        *)
(* -skip-existing-packages, packages the mirror already has are not looked *)
(* at.                                                                     *)
DownloadQueue(m, want, skip) ==
    FilesIn(IF skip THEN want \ refs[m] ELSE want) \ pool

UpdateMirror(p, m, want, skip, force) ==
    /\ Ready(p)
    /\ m \in rec /\ (force \/ CheckLock(m))
    /\ skip => Loadable(refs[m] \cap want)
    /\ job' = [job EXCEPT ![p] =
                [NoJob EXCEPT !.phase = "mark", !.mirror = m, !.had = m \in stored,
                              !.old = refs[m], !.want = want, !.conf = conf[m],
                              !.queue = DownloadQueue(m, want, skip)]]
    /\ waived' = IF CheckLock(m) THEN waived ELSE waived \cup {"force"}
    /\ Plan(p, {}, {}, SaveMirror(m, p, conf[m], m \in stored, refs[m]))
    /\ UNCHANGED <<contents, used, moving>>

StartDownloads(p) ==
    /\ Written(p) /\ job[p].phase = "mark"
    /\ job' = [job EXCEPT ![p].phase = "download"]
    /\ holder' = NoProc /\ pc' = "idle"
    /\ UNCHANGED <<dbvars, poolvars, planvars, used, moving, waived>>

Downloading(p) == job[p].phase = "download"

(* Steps of a mirror update while the database is closed.                  *)
DownloadOnly == UNCHANGED <<dbvars, pool, holder, pc, planvars, used, moving, waived>>

DownloadFile(p, f) ==
    /\ Downloading(p) /\ f \in job[p].queue
    /\ job' = [job EXCEPT ![p].queue = @ \ {f}, ![p].active = @ \cup {f}]
    /\ tmp' = tmp \cup {<<p, f, "down">>}
    /\ DownloadOnly

(* The checksums match and the file is renamed to its temporary path.      *)
DownloadDone(p, f) ==
    /\ Downloading(p) /\ f \in job[p].active
    /\ <<p, f, "down">> \in tmp
    /\ job' = [job EXCEPT ![p].active = @ \ {f}, ![p].done = @ \cup {f}]
    /\ tmp' = (tmp \ {<<p, f, "down">>}) \cup {<<p, f, "done">>}
    /\ DownloadOnly

(* A network error after the last retry, a wrong checksum, a cancelled     *)
(* request, or the rename found no file.                                   *)
DownloadFailed(p, f) ==
    /\ Downloading(p) /\ f \in job[p].active
    /\ job' = [job EXCEPT ![p].active = @ \ {f}, ![p].failed = TRUE]
    /\ tmp' = tmp \ {<<p, f, "down">>}
    /\ DownloadOnly

(* ^C once: the workers stop, after taking some more of the queue when     *)
(* their select happens to prefer it, and the update is given up in good   *)
(* order.                                                                  *)
Interrupt(p, more) ==
    /\ Downloading(p) \/ (holder = p /\ pc = "import")
    /\ job' = [job EXCEPT ![p].failed = TRUE, ![p].queue = more]
    /\ UNCHANGED tmp
    /\ DownloadOnly

WorkersDone(p) == Downloading(p) /\ job[p].active = {} /\ job[p].queue = {}

ReOpenDatabase(p) ==
    /\ WorkersDone(p) /\ holder = NoProc
    /\ holder' = p /\ pc' = "import"
    /\ job' = [job EXCEPT ![p].phase = "import"]
    /\ UNCHANGED <<dbvars, poolvars, planvars, used, moving, waived>>

(* Somebody else kept the database open through all the attempts.          *)
ReOpenFailed(p) ==
    /\ WorkersDone(p) /\ holder # NoProc
    /\ job' = [job EXCEPT ![p].phase = "unlock"]
    /\ UNCHANGED <<dbvars, poolvars, holder, pc, planvars, used, moving, waived>>

Unlock_Recreated(p) == SaveMirror(job[p].mirror, NoProc, 0, job[p].had, job[p].old)

(* The deferred MarkAsIdle and Update, from the mirror as it was loaded.   *)
Unlock(p) == SaveMirror(job[p].mirror, NoProc, job[p].conf, job[p].had, job[p].old)

(* The deferred function tries once more to open the database...           *)
DeferredUnlock(p) ==
    /\ job[p].phase = "unlock" /\ holder = NoProc
    /\ holder' = p /\ pc' = "save" /\ writes' = Unlock(p)
    /\ job' = [job EXCEPT ![p].phase = "import"]
    /\ UNCHANGED <<dbvars, poolvars, incoming, store, doomed, unlink, used, moving, waived>>

(* ... and the process ends without it, the mirror still marked.           *)
GiveUp(p) ==
    /\ job[p].phase = "unlock" /\ holder # NoProc
    /\ EndJob(p)
    /\ UNCHANGED <<dbvars, pool, holder, pc, planvars, used, moving, waived>>

Importing(p) == holder = p /\ pc = "import"

ImportDownload_TempPath(p, f) ==
    /\ Importing(p) /\ f \in job[p].done
    /\ <<p, f, "done">> \in tmp
    /\ pool' = pool \cup {<<p, f, "done">>}
    /\ tmp' = tmp
    /\ job' = [job EXCEPT ![p].done = @ \ {f}]
    /\ UNCHANGED <<dbvars, holder, pc, planvars, used, moving, waived>>

(* PackagePool.Import with move: a file that is already in the pool stays, *)
(* and so does the downloaded copy.                                        *)
ImportDownload(p, f) ==
    /\ Importing(p) /\ f \in job[p].done
    /\ <<p, f, "done">> \in tmp
    /\ pool' = pool \cup {f}
    /\ tmp' = IF f \in pool THEN tmp ELSE tmp \ {<<p, f, "done">>}
    /\ job' = [job EXCEPT ![p].done = @ \ {f}]
    /\ UNCHANGED <<dbvars, holder, pc, planvars, used, moving, waived>>

(* The download is not there any more: the update fails.                   *)
ImportFailed(p, f) ==
    /\ Importing(p) /\ f \in job[p].done
    /\ <<p, f, "done">> \notin tmp
    /\ pc' = "save" /\ writes' = Unlock(p)
    /\ UNCHANGED <<dbvars, poolvars, holder, incoming, store, doomed, unlink,
                   job, used, moving, waived>>

(* Interrupted, or some download failed.                                   *)
UpdateFailed(p) ==
    /\ Importing(p) /\ job[p].done = {}
    /\ job[p].failed
    /\ pc' = "save" /\ writes' = Unlock(p)
    /\ UNCHANGED <<dbvars, poolvars, holder, incoming, store, doomed, unlink,
                   job, used, moving, waived>>

(* FinalizeDownload and Update, then the deferred MarkAsIdle and Update.   *)
FinalWrites(p) ==
    SaveMirror(job[p].mirror, p, job[p].conf, TRUE, job[p].want)
        \o SaveMirror(job[p].mirror, NoProc, job[p].conf, TRUE, job[p].want)

FinalizeDownload_IgnoresErrors(p) ==
    /\ Importing(p) /\ job[p].done = {}
    /\ pc' = "save" /\ store' = job[p].want /\ writes' = FinalWrites(p)
    /\ waived' = IF job[p].swept THEN waived \cup {"overlap"} ELSE waived
    /\ UNCHANGED <<dbvars, poolvars, holder, incoming, doomed, unlink, job, used, moving>>

FinalizeDownload(p) ==
    /\ Importing(p) /\ job[p].done = {}
    /\ ~job[p].failed
    /\ pc' = "save" /\ store' = job[p].want /\ writes' = FinalWrites(p)
    /\ waived' = IF job[p].swept THEN waived \cup {"overlap"} ELSE waived
    /\ UNCHANGED <<dbvars, poolvars, holder, incoming, doomed, unlink, job, used, moving>>

(***************************************************************************)
(* db cleanup.                                                             *)
(***************************************************************************)

(* All lists can be loaded, or cleanup stops with an error at once.        *)
AllLoadable ==
    /\ Snaps \cap rec \subseteq stored
    /\ \A u \in Pubs \cap rec : IsLocal(u) => LoadedPub(u)

Cleanup_ForgetsMirrors(p, lost) ==
    /\ Ready(p) /\ AllLoadable /\ lost = {}
    /\ pc' = "purge"
    /\ doomed' = {q \in Pkgs : parts[q] # "none"} \ UNION {refs[k] : k \in LiveKeys \ Mirrors}
    /\ UNCHANGED <<dbvars, poolvars, holder, incoming, store, writes, unlink,
                   job, used, moving, waived>>

(* AllPackageRefs().Subtract(existingPackageRefs).  Subtract walks two     *)
(* sorted lists: in one that is not sorted it overlooks some packages, so  *)
(* those in lost are deleted although they are referenced.                 *)
Cleanup(p, lost) ==
    /\ Ready(p) /\ AllLoadable
    /\ lost \subseteq Referenced /\ ("order" \notin waived => lost = {})
    /\ pc' = "purge" /\ doomed' = {q \in Pkgs : parts[q] # "none"} \ (Referenced \ lost)
    /\ UNCHANGED <<dbvars, poolvars, holder, incoming, store, writes, unlink,
                   job, used, moving, waived>>

(* One LevelDB batch.  DeleteByKey does not know of the file listings.     *)
DeletePackages(p) ==
    /\ holder = p /\ pc = "purge"
    /\ parts' = [q \in Pkgs |-> IF q \in doomed THEN "none" ELSE parts[q]]
    /\ pc' = "scan" /\ doomed' = {}
    /\ UNCHANGED <<rec, worker, conf, sources, stored, refs, contents, poolvars, holder,
                   incoming, store, writes, unlink, job, used, moving, waived>>

PoolPaths == pool \cup tmp

ScanPool_SharedFiles(p) ==
    /\ holder = p /\ pc = "scan"
    /\ pc' = "unlink" /\ unlink' = PoolPaths \cap FilesIn(Pkgs \ Referenced)
    /\ UNCHANGED <<dbvars, poolvars, holder, incoming, store, writes, doomed,
                   job, used, moving, waived>>

(* ByKey fails when a referenced package is missing.                       *)
ScanPool(p) ==
    /\ holder = p /\ pc = "scan"
    /\ IF Referenced \subseteq Complete
         THEN pc' = "unlink" /\ unlink' = PoolPaths \ FilesIn(Referenced)
         ELSE pc' = "idle" /\ UNCHANGED unlink
    /\ UNCHANGED <<dbvars, poolvars, holder, incoming, store, writes, doomed,
                   job, used, moving, waived>>

(* A path that has gone in the meantime ends the command with an error.    *)
RemoveFile(p, x) ==
    /\ holder = p /\ pc = "unlink" /\ x \in unlink
    /\ IF x \in PoolPaths
         THEN unlink' = unlink \ {x} /\ UNCHANGED pc
         ELSE unlink' = {} /\ pc' = "idle"
    /\ pool' = pool \ {x} /\ tmp' = tmp \ {x}
    /\ job' = [q \in Procs |->
                IF x \in pool /\ job[q].phase # "none" THEN [job[q] EXCEPT !.swept = TRUE]
                                                       ELSE job[q]]
    /\ UNCHANGED <<dbvars, holder, incoming, store, writes, doomed, used, moving, waived>>

CleanupDone(p) ==
    /\ holder = p /\ pc = "unlink" /\ unlink = {}
    /\ pc' = "idle"
    /\ UNCHANGED <<dbvars, poolvars, holder, planvars, job, used, moving, waived>>

(***************************************************************************)
(* A process dies.  What it was doing at that moment may be half done: a   *)
(* few files of the package it was importing, a few records of the package *)
(* it was storing.                                                         *)
(***************************************************************************)

Dies(p) ==
    /\ EndJob(p)
    /\ IF holder = p
         THEN /\ holder' = NoProc /\ pc' = "idle" /\ moving' = {}
              /\ incoming' = {} /\ store' = {} /\ writes' = << >>
              /\ doomed' = {} /\ unlink' = {}
         ELSE UNCHANGED <<holder, pc, moving, planvars>>
    /\ UNCHANGED <<rec, worker, conf, sources, stored, refs, contents, used, waived>>

Crash(p) ==
    /\ Alive(p)
    /\ Dies(p)
    /\ UNCHANGED <<parts, pool>>

CrashImporting(p, q, fs) ==
    /\ holder = p /\ pc = "save" /\ q \in incoming /\ store = {}
    /\ Dies(p)
    /\ pool' = pool \cup fs
    /\ UNCHANGED parts

CrashStoring(p, q) ==
    /\ holder = p /\ pc = "save" /\ q \in store
    /\ Dies(p)
    /\ parts' = [parts EXCEPT ![q] = IF @ = "all" THEN @ ELSE "some"]
    /\ UNCHANGED pool

(***************************************************************************)
(* The next-state relation.                                                *)
(***************************************************************************)

MirrorCommands(p) ==
    \E m \in Mirrors :
        \/ MirrorCreate(p, m)
        \/ MirrorEdit(p, m)
        \/ MirrorDrop(p, m)
        \/ \E want \in SUBSET Pkgs, skip, force \in BOOLEAN : UpdateMirror(p, m, want, skip, force)

RepoCommands(p) ==
    \E r \in Repos :
        \/ RepoCreate(p, r)
        \/ \E new \in SUBSET Pkgs : \E added \in SUBSET new, replaced \in SUBSET refs[r] :
              RepoAdd(p, r, new, added, replaced)
        \/ \E gone \in SUBSET refs[r] : RepoRemove(p, r, gone)
        \/ \E src \in Repos \cup Mirrors : \E S \in SUBSET refs[src] : RepoCopy(p, src, r, S)
        \/ \E src \in Repos : \E S \in SUBSET refs[src] : RepoMove(p, src, r, S)
        \/ RepoDrop(p, r)

SnapshotCommands(p) ==
    \E s \in Snaps :
        \/ \E m \in Mirrors : SnapshotFromMirror(p, s, m)
        \/ \E r \in Repos : SnapshotFromRepo(p, s, r)
        \/ \E srcs \in SUBSET LoadedSnaps, unsorted \in BOOLEAN :
              \E S \in SUBSET UNION {refs[t] : t \in srcs} :
                  SnapshotDerive(p, s, srcs, S, unsorted)
        \/ SnapshotDrop(p, s)

PublishCommands(p) ==
    \E u \in Pubs, listed \in SUBSET Pkgs :
        \/ \E srcs \in SourceSeqs(LoadedSnaps) : PublishSnapshot(p, u, srcs, listed)
        \/ \E srcs \in SourceSeqs(Repos \cap rec) : PublishRepo(p, u, srcs, listed)
        \/ \E srcs \in [1 .. Len(sources[u]) -> LoadedSnaps] : PublishSwitch(p, u, srcs, listed)
        \/ PublishUpdate(p, u, listed)
        \/ \E srcs \in SourceSeqs(LoadedSnaps) \cup SourceSeqs(Repos \cap rec) :
              PublishFailed(p, srcs, listed)
        \/ PublishDrop(p, u)

Steps(p) ==
    \/ \E q \in Pkgs : \/ ImportFiles(p, q) \/ StorePackage(p, q)
                       \/ \E fs \in SUBSET FilesOf[q] : ImportRefused(p, q, fs)
    \/ WriteRecord(p) \/ WriteRefs(p) \/ DeleteRecord(p) \/ DeleteRefs(p)
    \/ CommandDone(p)

UpdateSteps(p) ==
    \/ StartDownloads(p)
    \/ \E f \in Files : \/ DownloadFile(p, f) \/ DownloadDone(p, f) \/ DownloadFailed(p, f)
                        \/ ImportDownload(p, f) \/ ImportFailed(p, f)
    \/ \E more \in SUBSET job[p].queue : Interrupt(p, more)
    \/ ReOpenDatabase(p) \/ ReOpenFailed(p) \/ DeferredUnlock(p) \/ GiveUp(p)
    \/ UpdateFailed(p) \/ FinalizeDownload(p)

CleanupSteps(p) ==
    \/ \E lost \in SUBSET Referenced : Cleanup(p, lost)
    \/ DeletePackages(p) \/ ScanPool(p)
    \/ \E x \in unlink : RemoveFile(p, x)
    \/ CleanupDone(p)

Crashes(p) ==
    \/ Crash(p)
    \/ \E q \in Pkgs : \/ \E fs \in SUBSET FilesOf[q] : CrashImporting(p, q, fs)
                       \/ CrashStoring(p, q)

Next ==
    \E p \in Procs :
        \/ OpenDatabase(p) \/ CloseDatabase(p)
        \/ MirrorCommands(p) \/ RepoCommands(p) \/ SnapshotCommands(p) \/ PublishCommands(p)
        \/ Steps(p) \/ UpdateSteps(p) \/ CleanupSteps(p) \/ Crashes(p)

Spec == Init /\ [][Next]_vars

(***************************************************************************)
(* Properties.                                                             *)
(***************************************************************************)

(* Every package a list refers to is completely stored, whatever commands  *)
(* are cut short and although db cleanup deletes packages in the middle of *)
(* mirror updates (cmd/db_cleanup.go, PackageCollection.Update).  Two      *)
(* things can break it: `mirror update -force' on a mirror that is being   *)
(* updated, and a db cleanup that meets an unsorted reference list, which  *)
(* deletes packages that list refers to.                                   *)
RefsComplete == waived \cap {"force", "order"} = {} => Referenced \subseteq Complete

(* Every file of every package a list refers to is in the pool, unless a   *)
(* locked mirror was updated by force, a db cleanup removed files during   *)
(* the downloads of an update that then succeeded, or an unsorted          *)
(* reference list was stored.                                              *)
FilesPresent == waived = {} => FilesIn(Referenced) \subseteq pool

(* A published repository's sources stay: the snapshots and local          *)
(* repositories its record names can be loaded (BySnapshot and ByLocalRepo *)
(* guard the drops).                                                       *)
PublishedSourcesExist ==
    \A u \in Pubs \cap rec : \A i \in 1 .. Len(sources[u]) :
        /\ sources[u][i] \in rec
        /\ sources[u][i] \in Snaps => sources[u][i] \in stored

(* CheckLock: two processes never update the same mirror, and the mirror   *)
(* being downloaded stays as it was loaded, so that writing it back loses  *)
(* nothing.                                                                *)
MirrorLock ==
    "force" \notin waived =>
        \A p \in Procs : Downloading(p) =>
            LET m == job[p].mirror IN
            /\ \A q \in Procs \ {p} : job[q].mirror # m
            /\ m \in rec /\ worker[m] = p
            /\ conf[m] = job[p].conf
            /\ refs[m] = job[p].old /\ (m \in stored <=> job[p].had)

(* An edit of a mirror's settings is never undone by a mirror update that  *)
(* loaded the mirror before the edit (deferred Update, mirror_update.go).  *)
NoLostEdit ==
    [][\A m \in Mirrors : m \in rec /\ m \in rec' /\ "force" \notin waived => conf'[m] >= conf[m]]_vars

(* A package that is moved between local repositories is in one of them at *)
(* every moment, so a crash in the middle of repo move loses nothing.      *)
MoveLosesNothing == moving \subseteq UNION {refs[r] : r \in Repos \cap rec}

(* A snapshot is immutable: once stored its references never change while  *)
(* it exists, not even by interrupted or repeated commands.                *)
SnapshotImmutable ==
    [][\A s \in Snaps : s \in rec \cap stored /\ s \in rec' => refs'[s] = refs[s]]_vars

(* db cleanup "removes files in the package pool that aren't used by       *)
(* packages anymore", and mirror update succeeds only after it downloaded  *)
(* or found every file: the files of every referenced package are in the   *)
(* pool, also when the two commands overlap.                               *)
FilesSurviveCleanup == "force" \notin waived => FilesIn(Referenced) \subseteq pool
=============================================================================
