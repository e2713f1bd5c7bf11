--------------------------- MODULE CatalogProofs ---------------------------
EXTENDS Catalog, SequenceTheorems, TLAPS

(***************************************************************************)
(* Type correctness of the catalogue.  TypeOK is inductive only together   *)
(* with Shape, which ties the phase of every mirror update to the process  *)
(* that has the database open: the writes that end an update are those of  *)
(* an existing mirror because only an update that has one gets there.      *)
(***************************************************************************)

\* the backend of every leaf that names no other
USE ZenonT(30)

(* A delete or put of a list, or of a key of references, is a legal write  *)
(* to the database.                                                        *)
LEMMA KeyType ==
  ASSUME NEW op, NEW k,
         \/ op \in {"put", "del"} /\ k \in Lists
         \/ op \in {"putrefs", "delrefs"} /\ k \in RefKeys
  PROVE  Key(op, k) \in Write
<1>1. 0 \in 0 .. MaxConf
  BY BoundsAssumption, SMTT(30)
<1>2. << >> \in AnySources
  BY DEF AnySources
<1> QED
  BY <1>1, <1>2 DEF Key, Write, WriteOf

(* The write of a local repository or snapshot record (Update) is a legal  *)
(* write.                                                                  *)
LEMMA PutRecType == \A l \in Lists : PutRec(l) \in Write
BY KeyType DEF PutRec

(* The write of a mirror record (RemoteRepoCollection.Update) is a legal   *)
(* write.                                                                  *)
LEMMA PutMirrorType ==
  \A m \in Mirrors, w \in Procs \cup {NoProc}, c \in 0 .. MaxConf : PutMirror(m, w, c) \in Write
<1> TAKE m \in Mirrors, w \in Procs \cup {NoProc}, c \in 0 .. MaxConf
<1>1. Key("put", m) \in Write
  BY KeyType DEF Lists
<1> QED
  BY <1>1 DEF PutMirror, Key, Write, WriteOf

(* The write of a published repository record                              *)
(* (PublishedRepoCollection.Update) is a legal write.                      *)
LEMMA PutPubType ==
  \A u \in Pubs, srcs \in AnySources : PutPub(u, srcs) \in Write
<1> TAKE u \in Pubs, srcs \in AnySources
<1>1. Key("put", u) \in Write
  BY KeyType DEF Lists
<1> QED
  BY <1>1 DEF PutPub, Key, Write, WriteOf

(* The write of a reference list is a legal write.                         *)
LEMMA PutRefsType ==
  \A k \in RefKeys, S \in SUBSET Pkgs : PutRefs(k, S) \in Write
<1> TAKE k \in RefKeys, S \in SUBSET Pkgs
<1>1. Key("putrefs", k) \in Write
  BY KeyType
<1> QED
  BY <1>1 DEF PutRefs, Key, Write, WriteOf

(* A process that updates no mirror has a well-formed job.                 *)
LEMMA NoJobType == NoJob \in Job
BY BoundsAssumption, SMTT(30) DEF NoJob, Job

(* A mirror update starts with a well-formed job (mirror update, before    *)
(* MarkAsUpdating).                                                        *)
LEMMA MarkedJobType ==
  ASSUME NEW m \in Mirrors, NEW had \in BOOLEAN, NEW old \in SUBSET Pkgs,
         NEW want \in SUBSET Pkgs, NEW c \in 0 .. MaxConf, NEW queue \in SUBSET Files
  PROVE  [NoJob EXCEPT !.phase = "mark", !.mirror = m, !.had = had, !.old = old,
                       !.want = want, !.conf = c, !.queue = queue] \in Job
BY NoJobType DEF Job

(* The empty database is well typed.                                       *)
LEMMA InitType == Init => TypeOK
<1> SUFFICES ASSUME Init PROVE TypeOK
  OBVIOUS
<1>1. /\ worker \in [Mirrors -> Procs \cup {NoProc}]
      /\ conf \in [Mirrors -> 0 .. MaxConf]
      /\ job \in [Procs -> Job]
  BY BoundsAssumption, NoJobType, SMTT(30) DEF Init
<1>2. /\ sources \in [Pubs -> AnySources]
      /\ writes \in Seq(Write)
  BY SMTT(30) DEF Init, AnySources
<1>3. /\ refs \in [RefKeys -> SUBSET Pkgs]
      /\ parts \in [Pkgs -> {"none", "some", "all"}]
  BY DEF Init
<1> QED
  BY <1>1, <1>2, <1>3 DEF Init, TypeOK

----------------------------------------------------------------------------
(* The writes of a command are writes.                                     *)

(* Update of any collection: the record, then its references when they are *)
(* loaded.                                                                 *)
LEMMA SaveType ==
  ASSUME NEW record \in Write, record.key \in RefKeys, NEW has, NEW S \in SUBSET Pkgs
  PROVE  Save(record, has, S) \in Seq(Write)
<1>1. PutRefs(record.key, S) \in Write
  BY PutRefsType
<1> QED
  BY <1>1, SMTT(30) DEF Save

(* Update of a local repository or a snapshot writes legal keys only.      *)
LEMMA SaveRecType ==
  \A l \in Repos \cup Snaps, S \in SUBSET Pkgs :
    SaveRepo(l, S) \in Seq(Write) /\ SaveSnap(l, S) \in Seq(Write)
<1> TAKE l \in Repos \cup Snaps, S \in SUBSET Pkgs
<1>1. PutRec(l) \in Write /\ PutRec(l).key = l
  BY PutRecType DEF Lists, PutRec, Key
<1> QED
  BY <1>1, SaveType DEF SaveRepo, SaveSnap, RefKeys

(* Update of a mirror writes legal keys only.                              *)
LEMMA SaveMirrorType ==
  ASSUME NEW m \in Mirrors, NEW w \in Procs \cup {NoProc}, NEW c \in 0 .. MaxConf,
         NEW has, NEW S \in SUBSET Pkgs
  PROVE  SaveMirror(m, w, c, has, S) \in Seq(Write)
<1>1. PutMirror(m, w, c) \in Write
  BY PutMirrorType
<1>2. PutMirror(m, w, c).key = m
  BY DEF PutMirror, Key
<1> QED
  BY <1>1, <1>2, SaveType DEF SaveMirror, RefKeys

(* The same for a mirror whose references are known to be loaded.          *)
LEMMA SaveUpdatedType ==
  ASSUME NEW m \in Mirrors, NEW w \in Procs \cup {NoProc}, NEW c \in 0 .. MaxConf,
         NEW S \in SUBSET Pkgs
  PROVE  SaveMirror(m, w, c, TRUE, S) \in Seq(Write)
<1>1. PutMirror(m, w, c) \in Write /\ PutRefs(m, S) \in Write
  BY PutMirrorType, PutRefsType DEF RefKeys
<1>2. PutMirror(m, w, c).key = m
  BY DEF PutMirror, Key
<1> QED
  BY <1>1, <1>2, SMTT(30) DEF SaveMirror, Save

(* Drop deletes legal keys only.                                           *)
LEMMA DropType == \A l \in Mirrors \cup Repos \cup Snaps : Drop(l) \in Seq(Write)
<1> TAKE l \in Mirrors \cup Repos \cup Snaps
<1>1. Key("del", l) \in Write /\ Key("delrefs", l) \in Write
  BY KeyType DEF Lists, RefKeys
<1> QED
  BY <1>1, SMTT(30) DEF Drop

(* The sources of a published repository form a sequence, one per          *)
(* component.                                                              *)
LEMMA SourceSeqType ==
  ASSUME NEW S, NEW srcs \in SourceSeqs(S)
  PROVE  srcs \in Seq(S) /\ Len(srcs) \in 1 .. MaxComponents
<1>1. PICK n \in 1 .. MaxComponents : srcs \in [1 .. n -> S]
  BY DEF SourceSeqs
<1>2. n \in Nat
  BY <1>1, BoundsAssumption, SMTT(30)
<1> QED
  BY <1>1, <1>2, SMTT(30)

(* Whatever its kind, a published repository has at most MaxComponents     *)
(* sources.                                                                *)
LEMMA AnySourcesType ==
  ASSUME NEW srcs \in AnySources
  PROVE  /\ srcs \in Seq(Snaps) \cup Seq(Repos)
         /\ Len(srcs) \in 0 .. MaxComponents
<1>1. CASE srcs = << >>
  BY <1>1, BoundsAssumption, SMTT(30)
<1>2. CASE srcs \in SourceSeqs(Snaps)
  BY <1>2, SourceSeqType, BoundsAssumption, SMTT(30)
<1>3. CASE srcs \in SourceSeqs(Repos)
  BY <1>3, SourceSeqType, BoundsAssumption, SMTT(30)
<1> QED
  BY <1>1, <1>2, <1>3 DEF AnySources

(* The list that a database key belongs to.                                *)
Owner(k) == IF k \in Lists THEN k ELSE k[1]

(* The keys of a list belong to that list and to no other (Key, RefKey).   *)
LEMMA OwnerFacts ==
  /\ \A l \in Lists : Owner(l) = l
  /\ \A u \in Pubs, i \in 1 .. MaxComponents : Owner(<<u, i>>) = u
  /\ \A l \in Lists, srcs \in AnySources : \A k \in KeysOf(l, srcs) : k \in RefKeys /\ Owner(k) = l
<1>1. \A l \in Lists : Owner(l) = l
  BY DEF Owner
<1>2. \A u \in Pubs, i \in 1 .. MaxComponents : Owner(<<u, i>>) = u
  BY KindsAssumption, SMTT(30) DEF Owner
<1>3. ASSUME NEW l \in Lists, NEW srcs \in AnySources, NEW k \in KeysOf(l, srcs)
      PROVE  k \in RefKeys /\ Owner(k) = l
  <2>1. CASE l \in Pubs
    <3>1. PICK i \in 1 .. Len(srcs) : k = <<l, i>>
      BY <2>1 DEF KeysOf
    <3>2. i \in 1 .. MaxComponents
      BY <3>1, AnySourcesType, BoundsAssumption, SMTT(30)
    <3> QED
      BY <1>2, <2>1, <3>1, <3>2 DEF RefKeys
  <2>2. CASE l \notin Pubs
    BY <1>1, <2>2 DEF KeysOf, RefKeys, Lists
  <2> QED
    BY <2>1, <2>2
<1> QED
  BY <1>1, <1>2, <1>3

(* Update of a published local repository writes its record and one list   *)
(* per component, legal keys all.                                          *)
LEMMA SavePubType ==
  ASSUME TypeOK, NEW u \in Pubs, NEW srcs \in AnySources, srcs \in Seq(Repos)
  PROVE  SavePub(u, srcs) \in Seq(Write)
<1> DEFINE n == Len(srcs) + 1
<1>1. n \in Nat /\ Len(srcs) <= MaxComponents
  BY AnySourcesType, BoundsAssumption, SMTT(30)
<1>2. ASSUME NEW i \in 1 .. n
      PROVE  (IF i = 1 THEN PutPub(u, srcs) ELSE PutRefs(<<u, i - 1>>, refs[srcs[i - 1]])) \in Write
  <2>1. CASE i = 1
    BY <2>1, PutPubType
  <2>2. CASE i # 1
    <3>1. i - 1 \in 1 .. Len(srcs)
      BY <2>2, SMTT(30)
    <3>2. srcs[i - 1] \in RefKeys /\ <<u, i - 1>> \in RefKeys
      BY <1>1, <3>1, BoundsAssumption, SMTT(30) DEF RefKeys
    <3>3. refs[srcs[i - 1]] \in SUBSET Pkgs
      BY <3>2 DEF TypeOK
    <3> QED
      BY <2>2, <3>2, <3>3, PutRefsType
  <2> QED
    BY <2>1, <2>2
<1> QED
  BY <1>1, <1>2, IsASeq, SMTT(30) DEF SavePub

(* Remove of a published repository deletes legal keys only.               *)
LEMMA DropPubType ==
  ASSUME TypeOK, NEW u \in Pubs
  PROVE  DropPub(u) \in Seq(Write)
<1> DEFINE n == Len(sources[u]) + 1
<1>0. Len(sources[u]) \in 0 .. MaxComponents
  BY AnySourcesType DEF TypeOK
<1>1. n \in Nat
  BY <1>0, SMTT(30)
<1>2. ASSUME NEW i \in 1 .. n
      PROVE  (IF i = 1 THEN Key("del", u) ELSE Key("delrefs", <<u, i - 1>>)) \in Write
  <2>1. CASE i = 1
    BY <2>1, KeyType DEF Lists
  <2>2. CASE i # 1
    <3>1. i - 1 \in 1 .. MaxComponents
      BY <2>2, <1>0, BoundsAssumption, SMTT(30)
    <3> QED
      BY <2>2, <3>1, KeyType DEF RefKeys
  <2> QED
    BY <2>1, <2>2
<1> QED
  BY <1>1, <1>2, IsASeq, SMTT(30) DEF DropPub

----------------------------------------------------------------------------
(* Type correctness.                                                       *)

(* Starting to carry out well-typed writes keeps the types.                *)
LEMMA PlanType ==
  ASSUME TypeOK, NEW p, NEW in \in SUBSET Pkgs, NEW ws \in Seq(Write),
         Plan(p, in, {}, ws), contents' \subseteq Pkgs, job' \in [Procs -> Job],
         used' \subseteq Lists, moving' \subseteq Pkgs, waived' \subseteq {"force", "overlap", "order"}
  PROVE  TypeOK'
BY DEF TypeOK, Plan, poolvars

(* A command that creates nothing keeps the types.                         *)
LEMMA CommandType ==
  ASSUME TypeOK, NEW p, NEW in \in SUBSET Pkgs, NEW ws \in Seq(Write), Command(p, in, ws)
  PROVE  TypeOK'
BY PlanType DEF Command, TypeOK

(* A command that creates a list keeps the types.                          *)
LEMMA CreateType ==
  ASSUME TypeOK, NEW p, NEW l \in Lists, NEW ws \in Seq(Write), Create(p, l, ws),
         contents' \subseteq Pkgs, waived' \subseteq {"force", "overlap", "order"}
  PROVE  TypeOK'
BY PlanType DEF Create, TypeOK

(* The mirror commands keep the types.                                     *)
LEMMA MirrorCommandsType ==
  ASSUME TypeOK, NEW p \in Procs, MirrorCommands(p)
  PROVE  TypeOK'
<1>1. PICK m \in Mirrors :
        \/ MirrorCreate(p, m) \/ MirrorEdit(p, m) \/ MirrorDrop(p, m)
        \/ \E want \in SUBSET Pkgs, skip, force \in BOOLEAN : UpdateMirror(p, m, want, skip, force)
  BY DEF MirrorCommands
<1>2. m \in Lists /\ m \in RefKeys /\ refs[m] \in SUBSET Pkgs /\ conf[m] \in 0 .. MaxConf
  BY DEF Lists, RefKeys, TypeOK
<1>3. CASE MirrorCreate(p, m)
  <2>0. 0 \in 0 .. MaxConf
    BY BoundsAssumption, SMTT(30)
  <2>1. PutMirror(m, NoProc, 0) \in Write
    BY <2>0, PutMirrorType
  <2>2. <<PutMirror(m, NoProc, 0)>> \in Seq(Write)
    BY <2>1, SMTT(30)
  <2>3. contents' \subseteq Pkgs /\ waived' \subseteq {"force", "overlap", "order"}
    BY <1>3 DEF MirrorCreate, TypeOK
  <2> QED
    BY <1>2, <1>3, <2>2, <2>3, CreateType DEF MirrorCreate
<1>4. CASE MirrorEdit(p, m)
  <2>1. conf[m] + 1 \in 0 .. MaxConf /\ worker[m] \in Procs \cup {NoProc}
    BY <1>2, <1>4, BoundsAssumption, SMTT(30) DEF MirrorEdit, TypeOK
  <2>2. <<PutMirror(m, worker[m], conf[m] + 1)>> \in Seq(Write)
    BY <2>1, PutMirrorType, SMTT(30)
  <2> QED
    BY <1>4, <2>2, CommandType DEF MirrorEdit
<1>5. CASE MirrorDrop(p, m)
  BY <1>5, DropType, CommandType DEF MirrorDrop
<1>6. CASE \E want \in SUBSET Pkgs, skip, force \in BOOLEAN : UpdateMirror(p, m, want, skip, force)
  <2>1. PICK want \in SUBSET Pkgs, skip \in BOOLEAN, force \in BOOLEAN :
          UpdateMirror(p, m, want, skip, force)
    BY <1>6
  <2>2. DownloadQueue(m, want, skip) \in SUBSET Files
    BY FilesOfAssumption DEF DownloadQueue, FilesIn
  <2> DEFINE j == [NoJob EXCEPT !.phase = "mark", !.mirror = m, !.had = m \in stored,
                              !.old = refs[m], !.want = want, !.conf = conf[m],
                              !.queue = DownloadQueue(m, want, skip)]
  <2>a. j \in Job
    <3>1. (m \in stored) \in BOOLEAN
      BY SMTT(30)
    <3> QED
      BY <1>2, <2>2, <3>1, MarkedJobType
  <2>3. job' \in [Procs -> Job]
    BY <2>1, <2>a DEF UpdateMirror, TypeOK
  <2>4. SaveMirror(m, p, conf[m], m \in stored, refs[m]) \in Seq(Write)
    BY <1>2, SaveMirrorType
  <2>5. waived' \subseteq {"force", "overlap", "order"}
    BY <2>1 DEF UpdateMirror, TypeOK
  <2> QED
    BY <2>1, <2>3, <2>4, <2>5, PlanType DEF UpdateMirror, TypeOK
<1> QED
  BY <1>1, <1>3, <1>4, <1>5, <1>6

(* The local repository commands keep the types.                           *)
LEMMA RepoCommandsType ==
  ASSUME TypeOK, NEW p \in Procs, RepoCommands(p)
  PROVE  TypeOK'
<1>1. PICK r \in Repos :
        \/ RepoCreate(p, r)
        \/ \E new \in SUBSET Pkgs : \E added \in SUBSET new, replaced \in SUBSET refs[r] :
              RepoAdd(p, r, new, added, replaced)
        \/ \E gone \in SUBSET refs[r] : RepoRemove(p, r, gone)
        \/ \E src \in Repos \cup Mirrors : \E S \in SUBSET refs[src] : RepoCopy(p, src, r, S)
        \/ \E src \in Repos : \E S \in SUBSET refs[src] : RepoMove(p, src, r, S)
        \/ RepoDrop(p, r)
  BY DEF RepoCommands
<1>2. /\ r \in Lists /\ refs[r] \in SUBSET Pkgs
      /\ \A k \in Repos \cup Mirrors \cup Snaps : refs[k] \in SUBSET Pkgs
      /\ \A S \in SUBSET Pkgs : SaveRepo(r, S) \in Seq(Write)
  BY SaveRecType DEF Lists, RefKeys, TypeOK
<1>3. CASE RepoCreate(p, r)
  <2>1. contents' \subseteq Pkgs /\ waived' \subseteq {"force", "overlap", "order"}
    BY <1>3 DEF RepoCreate, TypeOK
  <2>2. <<PutRec(r)>> \in Seq(Write)
    BY <1>2, PutRecType, SMTT(30)
  <2>3. CASE Create(p, r, <<PutRec(r)>>)
    BY <1>2, <2>1, <2>2, <2>3, CreateType
  <2>4. ASSUME NEW s \in LoadedSnaps, Create(p, r, SaveRepo(r, refs[s]))
        PROVE  TypeOK'
    BY <1>2, <2>1, <2>4, CreateType DEF LoadedSnaps
  <2> QED
    BY <1>3, <2>3, <2>4 DEF RepoCreate
<1>4. ASSUME NEW new \in SUBSET Pkgs, NEW added \in SUBSET new, NEW replaced \in SUBSET refs[r],
             RepoAdd(p, r, new, added, replaced)
      PROVE  TypeOK'
  <2>1. (refs[r] \ replaced) \cup added \in SUBSET Pkgs
    BY <1>2
  <2> QED
    BY <1>2, <1>4, <2>1, CommandType DEF RepoAdd
<1>5. ASSUME NEW gone \in SUBSET refs[r], RepoRemove(p, r, gone)
      PROVE  TypeOK'
  BY <1>2, <1>5, CommandType DEF RepoRemove
<1>6. ASSUME NEW src \in Repos \cup Mirrors, NEW S \in SUBSET refs[src], RepoCopy(p, src, r, S)
      PROVE  TypeOK'
  <2>1. refs[r] \cup S \in SUBSET Pkgs
    BY <1>2
  <2> QED
    BY <1>2, <1>6, <2>1, CommandType DEF RepoCopy
<1>7. ASSUME NEW src \in Repos, NEW S \in SUBSET refs[src], RepoMove(p, src, r, S)
      PROVE  TypeOK'
  <2>1. refs[r] \cup S \in SUBSET Pkgs /\ refs[src] \ S \in SUBSET Pkgs /\ S \subseteq Pkgs
    BY <1>2
  <2>2. SaveRepo(r, refs[r] \cup S) \in Seq(Write) /\ SaveRepo(src, refs[src] \ S) \in Seq(Write)
    BY <2>1, SaveRecType
  <2>3. MoveWrites(src, r, S) \in Seq(Write)
    BY <2>2, SMTT(30) DEF MoveWrites
  <2> QED
    BY <1>7, <2>1, <2>3, PlanType DEF RepoMove, TypeOK
<1>8. CASE RepoDrop(p, r)
  BY <1>8, DropType, CommandType DEF RepoDrop
<1> QED
  BY <1>1, <1>3, <1>4, <1>5, <1>6, <1>7, <1>8

(* The snapshot commands keep the types.                                   *)
LEMMA SnapshotCommandsType ==
  ASSUME TypeOK, NEW p \in Procs, SnapshotCommands(p)
  PROVE  TypeOK'
<1>1. PICK s \in Snaps :
        \/ \E m \in Mirrors : SnapshotFromMirror(p, s, m)
        \/ \E r \in Repos : SnapshotFromRepo(p, s, r)
        \/ \E srcs \in SUBSET LoadedSnaps, unsorted \in BOOLEAN :
              \E S \in SUBSET UNION {refs[t] : t \in srcs} :
                  SnapshotDerive(p, s, srcs, S, unsorted)
        \/ SnapshotDrop(p, s)
  BY DEF SnapshotCommands
<1>2. /\ s \in Lists
      /\ \A k \in Repos \cup Mirrors \cup Snaps : refs[k] \in SUBSET Pkgs
      /\ \A S \in SUBSET Pkgs : SaveSnap(s, S) \in Seq(Write)
  BY SaveRecType DEF Lists, RefKeys, TypeOK
<1>3. ASSUME NEW S \in SUBSET Pkgs, Create(p, s, SaveSnap(s, S)), UNCHANGED contents,
             waived' \subseteq {"force", "overlap", "order"}
      PROVE  TypeOK'
  <2>1. contents' \subseteq Pkgs
    BY <1>3 DEF TypeOK
  <2> QED
    BY <1>2, <1>3, <2>1, CreateType
<1>4. ASSUME NEW m \in Mirrors, SnapshotFromMirror(p, s, m)
      PROVE  TypeOK'
  BY <1>2, <1>3, <1>4 DEF SnapshotFromMirror, TypeOK
<1>5. ASSUME NEW r \in Repos, SnapshotFromRepo(p, s, r)
      PROVE  TypeOK'
  BY <1>2, <1>3, <1>5 DEF SnapshotFromRepo, TypeOK
<1>6. ASSUME NEW srcs \in SUBSET LoadedSnaps, NEW unsorted \in BOOLEAN,
             NEW S \in SUBSET UNION {refs[t] : t \in srcs},
             SnapshotDerive(p, s, srcs, S, unsorted)
      PROVE  TypeOK'
  <2>1. S \in SUBSET Pkgs
    BY <1>2 DEF LoadedSnaps
  <2>2. waived' \subseteq {"force", "overlap", "order"}
    BY <1>6 DEF SnapshotDerive, TypeOK
  <2> QED
    BY <1>3, <1>6, <2>1, <2>2 DEF SnapshotDerive
<1>7. CASE SnapshotDrop(p, s)
  BY <1>7, DropType, CommandType DEF SnapshotDrop
<1> QED
  BY <1>1, <1>4, <1>5, <1>6, <1>7

(* Sequences of loaded snapshots are sequences of snapshots.               *)
LEMMA SourceSeqsMono ==
  ASSUME NEW S, NEW T, S \subseteq T, NEW srcs \in SourceSeqs(S)
  PROVE  srcs \in SourceSeqs(T)
BY SMTT(30) DEF SourceSeqs

(* The publish commands keep the types.                                    *)
LEMMA PublishCommandsType ==
  ASSUME TypeOK, NEW p \in Procs, PublishCommands(p)
  PROVE  TypeOK'
<1>1. PICK u \in Pubs, listed \in SUBSET Pkgs :
        \/ \E srcs \in SourceSeqs(LoadedSnaps) : PublishSnapshot(p, u, srcs, listed)
        \/ \E srcs \in SourceSeqs(Repos \cap rec) : PublishRepo(p, u, srcs, listed)
        \/ \E srcs \in [1 .. Len(sources[u]) -> LoadedSnaps] : PublishSwitch(p, u, srcs, listed)
        \/ PublishUpdate(p, u, listed)
        \/ \E srcs \in SourceSeqs(LoadedSnaps) \cup SourceSeqs(Repos \cap rec) :
              PublishFailed(p, srcs, listed)
        \/ PublishDrop(p, u)
  BY DEF PublishCommands
<1>2. u \in Lists
  BY DEF Lists
<1>3. ASSUME NEW S, Listing(S, listed)
      PROVE  contents' \subseteq Pkgs
  BY <1>3 DEF Listing, TypeOK
<1>4. ASSUME NEW srcs \in SourceSeqs(LoadedSnaps), PublishSnapshot(p, u, srcs, listed)
      PROVE  TypeOK'
  <2>1. srcs \in AnySources
    BY SourceSeqsMono DEF LoadedSnaps, AnySources
  <2>2. <<PutPub(u, srcs)>> \in Seq(Write)
    BY <2>1, PutPubType, SMTT(30)
  <2> QED
    BY <1>2, <1>3, <1>4, <2>2, CreateType DEF PublishSnapshot, TypeOK
<1>5. ASSUME NEW srcs \in SourceSeqs(Repos \cap rec), PublishRepo(p, u, srcs, listed)
      PROVE  TypeOK'
  <2>1. srcs \in SourceSeqs(Repos)
    BY SourceSeqsMono
  <2>2. srcs \in AnySources /\ srcs \in Seq(Repos)
    BY <2>1, SourceSeqType DEF AnySources
  <2>3. SavePub(u, srcs) \in Seq(Write)
    BY <2>2, SavePubType
  <2> QED
    BY <1>2, <1>3, <1>5, <2>3, CreateType DEF PublishRepo, TypeOK
<1>6. ASSUME NEW srcs \in [1 .. Len(sources[u]) -> LoadedSnaps], PublishSwitch(p, u, srcs, listed)
      PROVE  TypeOK'
  <2>1. Len(sources[u]) \in 0 .. MaxComponents
    BY AnySourcesType DEF TypeOK
  <2>2. srcs \in AnySources
    <3>1. CASE Len(sources[u]) = 0
      <4>1. srcs \in Seq(LoadedSnaps) /\ Len(srcs) = 0
        BY <3>1, SMTT(30)
      <4> QED
        BY <4>1, SMTT(30) DEF AnySources
    <3>2. CASE Len(sources[u]) # 0
      <4>1. Len(sources[u]) \in 1 .. MaxComponents
        BY <2>1, <3>2, BoundsAssumption, SMTT(30)
      <4>2. srcs \in SourceSeqs(LoadedSnaps)
        BY <4>1 DEF SourceSeqs
      <4> QED
        BY <4>2, SourceSeqsMono DEF LoadedSnaps, AnySources
    <3> QED
      BY <3>1, <3>2
  <2>3. <<PutPub(u, srcs)>> \in Seq(Write)
    BY <2>2, PutPubType, SMTT(30)
  <2> QED
    BY <1>3, <1>6, <2>3, PlanType DEF PublishSwitch, TypeOK
<1>7. CASE PublishUpdate(p, u, listed)
  <2>1. sources[u] \in AnySources /\ sources[u] \in Seq(Repos)
    BY <1>7 DEF PublishUpdate, IsLocal, TypeOK
  <2>2. SavePub(u, sources[u]) \in Seq(Write)
    BY <2>1, SavePubType
  <2> QED
    BY <1>3, <1>7, <2>2, PlanType DEF PublishUpdate, TypeOK
<1>8. CASE PublishDrop(p, u)
  BY <1>8, DropPubType, CommandType DEF PublishDrop
<1>9. ASSUME NEW srcs, PublishFailed(p, srcs, listed)
      PROVE  TypeOK'
  <2>1. << >> \in Seq(Write)
    BY SMTT(30)
  <2> QED
    BY <1>3, <1>9, <2>1, PlanType DEF PublishFailed, TypeOK
<1> QED
  BY <1>1, <1>4, <1>5, <1>6, <1>7, <1>8, <1>9

(* The end of a mirror update leaves well-typed temporary paths.           *)
LEMMA EndJobType ==
  ASSUME TypeOK, NEW p \in Procs, EndJob(p)
  PROVE  job' \in [Procs -> Job] /\ tmp' \subseteq TmpPaths
<1>1. job' \in [Procs -> Job]
  BY NoJobType DEF EndJob, TypeOK
<1>2. ASSUME NEW x \in tmp
      PROVE  <<NoProc, x[2], "left">> \in TmpPaths
  BY DEF TypeOK, TmpPaths
<1> QED
  BY <1>1, <1>2 DEF EndJob, TypeOK

(* The next write of a command is a legal write.                           *)
LEMMA HeadType ==
  ASSUME TypeOK, NEW p, NEW op, WriteNext(p, op)
  PROVE  /\ Head(writes) \in Write /\ Head(writes).op = op
         /\ writes' \in Seq(Write)
<1>1. writes # << >> /\ Head(writes).op = op /\ writes' = Tail(writes)
  BY DEF WriteNext
<1>2. writes \in Seq(Write)
  BY DEF TypeOK
<1> QED
  BY <1>1, <1>2, SMTT(30)

(* Importing, storing and writing keep the types.                          *)
LEMMA StepsType ==
  ASSUME TypeOK, NEW p \in Procs, Steps(p)
  PROVE  TypeOK'
<1> DEFINE w == Head(writes)
<1>1. /\ w \in Write /\ w.op \in {"put", "del"} => w.key \in Lists
      /\ w \in Write /\ w.op \in {"putrefs", "delrefs"} => w.key \in RefKeys
      /\ w \in Write => /\ w.worker \in Procs \cup {NoProc} /\ w.conf \in 0 .. MaxConf
                        /\ w.srcs \in AnySources /\ w.pkgs \in SUBSET Pkgs
  BY DEF Write, WriteOf
<1>2. ASSUME NEW q \in Pkgs, ImportFiles(p, q)
      PROVE  TypeOK'
  BY <1>2, FilesOfAssumption DEF ImportFiles, TypeOK, dbvars
<1>9. ASSUME NEW q \in Pkgs, NEW fs \in SUBSET FilesOf[q], ImportRefused(p, q, fs)
      PROVE  TypeOK'
  BY <1>9, FilesOfAssumption DEF ImportRefused, TypeOK, dbvars
<1>3. ASSUME NEW q \in Pkgs, StorePackage(p, q)
      PROVE  TypeOK'
  BY <1>3 DEF StorePackage, TypeOK, poolvars
<1>4. CASE WriteRecord(p)
  <2> HIDE DEF w
  <2>1. w \in Write /\ w.op = "put" /\ writes' \in Seq(Write)
    BY <1>4, HeadType DEF WriteRecord, w
  <2>2. rec' \subseteq Lists
    BY <1>1, <1>4, <2>1 DEF WriteRecord, TypeOK, w
  <2>3. /\ worker' \in [Mirrors -> Procs \cup {NoProc}]
        /\ conf' \in [Mirrors -> 0 .. MaxConf]
        /\ sources' \in [Pubs -> AnySources]
    BY <1>1, <1>4, <2>1 DEF WriteRecord, TypeOK, w
  <2> QED
    BY <1>4, <2>1, <2>2, <2>3 DEF WriteRecord, WriteNext, TypeOK, poolvars
<1>5. CASE WriteRefs(p)
  <2> HIDE DEF w
  <2>1. w \in Write /\ w.op = "putrefs" /\ writes' \in Seq(Write)
    BY <1>5, HeadType DEF WriteRefs, w
  <2>2. stored' \subseteq RefKeys /\ refs' \in [RefKeys -> SUBSET Pkgs]
    BY <1>1, <1>5, <2>1 DEF WriteRefs, TypeOK, w
  <2> QED
    BY <1>5, <2>1, <2>2 DEF WriteRefs, WriteNext, TypeOK, poolvars
<1>6. CASE DeleteRecord(p)
  <2>1. writes' \in Seq(Write)
    BY <1>6, HeadType DEF DeleteRecord
  <2> QED
    BY <1>6, <2>1 DEF DeleteRecord, WriteNext, TypeOK, poolvars
<1>7. CASE DeleteRefs(p)
  <2>1. writes' \in Seq(Write)
    BY <1>7, HeadType DEF DeleteRefs
  <2>2. stored' \subseteq RefKeys /\ refs' \in [RefKeys -> SUBSET Pkgs]
    BY <1>7 DEF DeleteRefs, TypeOK
  <2> QED
    BY <1>7, <2>1, <2>2 DEF DeleteRefs, WriteNext, TypeOK, poolvars
<1>8. CASE CommandDone(p)
  BY <1>8, EndJobType DEF CommandDone, TypeOK, dbvars, planvars
<1> QED
  BY <1>2, <1>3, <1>4, <1>5, <1>6, <1>7, <1>8, <1>9 DEF Steps

(* What mirror update writes at its end is legal (MarkAsIdle,              *)
(* FinalizeDownload).                                                      *)
LEMMA UnlockType ==
  ASSUME TypeOK, NEW p \in Procs, job[p].mirror \in Mirrors
  PROVE  Unlock(p) \in Seq(Write) /\ FinalWrites(p) \in Seq(Write)
<1>1. job[p].conf \in 0 .. MaxConf /\ job[p].old \in SUBSET Pkgs /\ job[p].want \in SUBSET Pkgs
  BY DEF TypeOK, Job
<1>2. Unlock(p) \in Seq(Write)
  BY <1>1, SaveMirrorType DEF Unlock
<1>3. /\ SaveMirror(job[p].mirror, p, job[p].conf, TRUE, job[p].want) \in Seq(Write)
      /\ SaveMirror(job[p].mirror, NoProc, job[p].conf, TRUE, job[p].want) \in Seq(Write)
  BY <1>1, SaveUpdatedType
<1>4. FinalWrites(p) \in Seq(Write)
  BY <1>3, ConcatProperties DEF FinalWrites
<1> QED
  BY <1>2, <1>4

(* Who may be in which phase of a command: the database is idle when nobody *)
(* has it open, nothing is left to write outside "save", and only a process *)
(* that updates a mirror has one.                                           *)
Shape ==
    /\ holder = NoProc => pc = "idle"
    /\ pc = "import" => job[holder].phase = "import"
    /\ pc # "save" => incoming = {} /\ store = {} /\ writes = << >>
    /\ \A p \in Procs :
        /\ IF job[p].phase = "none" THEN job[p].mirror = NoProc ELSE job[p].mirror \in Mirrors
        /\ job[p].phase = "mark" => holder = p /\ pc = "save"
        /\ job[p].phase = "import" => holder = p /\ pc \in {"save", "import"}
        /\ job[p].phase \in {"download", "unlock"} => holder # p

(* The steps of mirror update keep the types.                              *)
LEMMA UpdateStepsType ==
  ASSUME TypeOK, Shape, NEW p \in Procs, UpdateSteps(p)
  PROVE  TypeOK'
<1>1. job \in [Procs -> Job] /\ job[p] \in Job
  BY DEF TypeOK
<1>2. ASSUME NEW j \in Job, job' = [job EXCEPT ![p] = j]
      PROVE  job' \in [Procs -> Job]
  BY <1>1, <1>2
<1>3. CASE StartDownloads(p)
  <2>1. job' \in [Procs -> Job]
    BY <1>1, <1>3 DEF StartDownloads, Job
  <2> QED
    BY <1>3, <2>1 DEF StartDownloads, TypeOK, dbvars, poolvars, planvars
<1>4. ASSUME NEW f \in Files, DownloadFile(p, f)
      PROVE  TypeOK'
  <2>1. job' \in [Procs -> Job]
    BY <1>1, <1>4 DEF DownloadFile, Job
  <2>2. tmp' \subseteq TmpPaths
    BY <1>4, SMTT(30) DEF DownloadFile, TmpPaths, TypeOK
  <2> QED
    BY <1>4, <2>1, <2>2 DEF DownloadFile, DownloadOnly, TypeOK, dbvars, planvars
<1>5. ASSUME NEW f \in Files, DownloadDone(p, f)
      PROVE  TypeOK'
  <2>1. job' \in [Procs -> Job]
    BY <1>1, <1>5 DEF DownloadDone, Job
  <2>2. tmp' \subseteq TmpPaths
    BY <1>5, SMTT(30) DEF DownloadDone, TmpPaths, TypeOK
  <2> QED
    BY <1>5, <2>1, <2>2 DEF DownloadDone, DownloadOnly, TypeOK, dbvars, planvars
<1>6. ASSUME NEW f \in Files, DownloadFailed(p, f)
      PROVE  TypeOK'
  <2>1. job' \in [Procs -> Job]
    BY <1>1, <1>6 DEF DownloadFailed, Job
  <2>2. tmp' \subseteq TmpPaths
    BY <1>6 DEF DownloadFailed, TypeOK
  <2> QED
    BY <1>6, <2>1, <2>2 DEF DownloadFailed, DownloadOnly, TypeOK, dbvars, planvars
<1>7. ASSUME NEW f \in Files, ImportDownload(p, f)
      PROVE  TypeOK'
  <2>1. job' \in [Procs -> Job]
    BY <1>1, <1>7 DEF ImportDownload, Job
  <2>2. tmp' \subseteq TmpPaths /\ pool' \subseteq Files
    BY <1>7 DEF ImportDownload, TypeOK
  <2> QED
    BY <1>7, <2>1, <2>2 DEF ImportDownload, TypeOK, dbvars, planvars
<1>8. ASSUME NEW more \in SUBSET job[p].queue, Interrupt(p, more)
      PROVE  TypeOK'
  <2>1. more \in SUBSET Files
    BY <1>1 DEF Job
  <2>2. job' \in [Procs -> Job]
    BY <1>1, <1>8, <2>1 DEF Interrupt, Job
  <2> QED
    BY <1>8, <2>2 DEF Interrupt, DownloadOnly, TypeOK, dbvars, planvars
<1>9. CASE ReOpenDatabase(p)
  <2>1. job' \in [Procs -> Job]
    BY <1>1, <1>9 DEF ReOpenDatabase, Job
  <2> QED
    BY <1>9, <2>1 DEF ReOpenDatabase, TypeOK, dbvars, poolvars, planvars
<1>10. CASE ReOpenFailed(p)
  <2>1. job' \in [Procs -> Job]
    BY <1>1, <1>10 DEF ReOpenFailed, Job
  <2> QED
    BY <1>10, <2>1 DEF ReOpenFailed, TypeOK, dbvars, poolvars, planvars
<1>11. CASE DeferredUnlock(p)
  <2>1. job' \in [Procs -> Job]
    BY <1>1, <1>11 DEF DeferredUnlock, Job
  <2>2. Unlock(p) \in Seq(Write)
    BY <1>11, UnlockType DEF DeferredUnlock, Shape
  <2> QED
    BY <1>11, <2>1, <2>2 DEF DeferredUnlock, TypeOK, dbvars, poolvars
<1>12. CASE GiveUp(p)
  BY <1>12, EndJobType DEF GiveUp, TypeOK, dbvars, planvars
<1>13. ASSUME Importing(p)
       PROVE  Unlock(p) \in Seq(Write) /\ FinalWrites(p) \in Seq(Write)
  BY <1>13, UnlockType DEF Importing, Shape
<1>14. ASSUME NEW f \in Files, ImportFailed(p, f)
       PROVE  TypeOK'
  BY <1>13, <1>14 DEF ImportFailed, TypeOK, dbvars, poolvars
<1>15. CASE UpdateFailed(p)
  BY <1>13, <1>15 DEF UpdateFailed, TypeOK, dbvars, poolvars
<1>16. CASE FinalizeDownload(p)
  <2>1. job[p].want \subseteq Pkgs
    BY <1>1 DEF Job
  <2> QED
    BY <1>13, <1>16, <2>1 DEF FinalizeDownload, TypeOK, dbvars, poolvars
<1> QED
  BY <1>3, <1>4, <1>5, <1>6, <1>7, <1>8, <1>9, <1>10, <1>11, <1>12, <1>14, <1>15, <1>16
  DEF UpdateSteps

(* The steps of db cleanup keep the types.                                 *)
LEMMA CleanupStepsType ==
  ASSUME TypeOK, NEW p \in Procs, CleanupSteps(p)
  PROVE  TypeOK'
<1>1. ASSUME NEW lost \in SUBSET Referenced, Cleanup(p, lost)
      PROVE  TypeOK'
  BY <1>1 DEF Cleanup, TypeOK, dbvars, poolvars
<1>2. CASE DeletePackages(p)
  BY <1>2 DEF DeletePackages, TypeOK, poolvars
<1>3. CASE ScanPool(p)
  BY <1>3 DEF ScanPool, PoolPaths, TypeOK, dbvars, poolvars
<1>4. ASSUME NEW x \in unlink, RemoveFile(p, x)
      PROVE  TypeOK'
  <2>1. ASSUME NEW q \in Procs
        PROVE  job[q] \in Job /\ [job[q] EXCEPT !.swept = TRUE] \in Job
    <3>1. job[q] \in Job
      BY DEF TypeOK
    <3> QED
      BY <3>1 DEF Job
  <2>2. job' \in [Procs -> Job]
    BY <1>4, <2>1 DEF RemoveFile
  <2> QED
    BY <1>4, <2>2 DEF RemoveFile, TypeOK, dbvars
<1>5. CASE CleanupDone(p)
  BY <1>5 DEF CleanupDone, TypeOK, dbvars, poolvars, planvars
<1> QED
  BY <1>1, <1>2, <1>3, <1>4, <1>5 DEF CleanupSteps

(* A crash keeps the types.                                                *)
LEMMA CrashesType ==
  ASSUME TypeOK, NEW p \in Procs, Crashes(p)
  PROVE  TypeOK'
<1>1. ASSUME Dies(p), pool' \subseteq Files, parts' \in [Pkgs -> {"none", "some", "all"}]
      PROVE  TypeOK'
  <2>1. job' \in [Procs -> Job] /\ tmp' \subseteq TmpPaths
    BY <1>1, EndJobType DEF Dies
  <2>2. << >> \in Seq(Write)
    BY SMTT(30)
  <2> QED
    BY <1>1, <2>1, <2>2 DEF Dies, TypeOK, planvars
<1>2. CASE Crash(p)
  BY <1>1, <1>2 DEF Crash, TypeOK
<1>3. ASSUME NEW q \in Pkgs, NEW fs \in SUBSET FilesOf[q], CrashImporting(p, q, fs)
      PROVE  TypeOK'
  BY <1>1, <1>3, FilesOfAssumption DEF CrashImporting, TypeOK
<1>4. ASSUME NEW q \in Pkgs, CrashStoring(p, q)
      PROVE  TypeOK'
  BY <1>1, <1>4 DEF CrashStoring, TypeOK
<1> QED
  BY <1>2, <1>3, <1>4 DEF Crashes

(* Every command starts on an idle database its process holds and leaves a *)
(* plan; only mirror update starts a job.                                  *)
LEMMA CommandPlans ==
  ASSUME NEW p \in Procs,
         MirrorCommands(p) \/ RepoCommands(p) \/ SnapshotCommands(p) \/ PublishCommands(p)
  PROVE  /\ Ready(p)
         /\ \E in, ws : Plan(p, in, {}, ws)
         /\ used \subseteq used' /\ waived \subseteq waived'
         /\ \/ job' = job
            \/ \E m \in Mirrors, want \in SUBSET Pkgs, skip, force \in BOOLEAN :
                  UpdateMirror(p, m, want, skip, force)
<1>1. ASSUME NEW in, NEW ws, Command(p, in, ws)
      PROVE  /\ Ready(p) /\ \E i, w : Plan(p, i, {}, w)
             /\ used \subseteq used' /\ job' = job /\ waived' = waived
  BY <1>1 DEF Command
<1>2. ASSUME NEW l, NEW ws, Create(p, l, ws)
      PROVE  /\ Ready(p) /\ \E i, w : Plan(p, i, {}, w)
             /\ used \subseteq used' /\ job' = job
  BY <1>2 DEF Create
<1>3. CASE MirrorCommands(p)
  BY <1>1, <1>2, <1>3 DEF MirrorCommands, MirrorCreate, MirrorEdit, MirrorDrop, UpdateMirror
<1>4. CASE RepoCommands(p)
  BY <1>1, <1>2, <1>4
  DEF RepoCommands, RepoCreate, RepoAdd, RepoRemove, RepoCopy, RepoMove, RepoDrop
<1>5. CASE SnapshotCommands(p)
  BY <1>1, <1>2, <1>5
  DEF SnapshotCommands, SnapshotFromMirror, SnapshotFromRepo, SnapshotDerive, SnapshotDrop
<1>6. CASE PublishCommands(p)
  BY <1>1, <1>2, <1>6
  DEF PublishCommands, PublishSnapshot, PublishRepo, PublishSwitch, PublishUpdate,
      PublishFailed, PublishDrop
<1> QED
  BY <1>3, <1>4, <1>5, <1>6

(* Every step keeps the control state consistent (Shape).                  *)
LEMMA ShapeStep ==
  ASSUME TypeOK, Shape, Next
  PROVE  Shape'
<1> PICK p \in Procs :
       \/ OpenDatabase(p) \/ CloseDatabase(p)
       \/ MirrorCommands(p) \/ RepoCommands(p) \/ SnapshotCommands(p) \/ PublishCommands(p)
       \/ Steps(p) \/ UpdateSteps(p) \/ CleanupSteps(p) \/ Crashes(p)
  BY DEF Next
<1>0. /\ NoProc \notin Procs /\ job \in [Procs -> Job]
      /\ holder \in Procs \cup {NoProc}
  BY ProcAssumption DEF TypeOK
<1>1. CASE OpenDatabase(p)
  BY <1>0, <1>1 DEF OpenDatabase, Shape, Alive, planvars
<1>2. CASE CloseDatabase(p)
  BY <1>0, <1>2 DEF CloseDatabase, Shape, planvars
<1>3. CASE MirrorCommands(p) \/ RepoCommands(p) \/ SnapshotCommands(p) \/ PublishCommands(p)
  <2>1. PICK in, ws : Ready(p) /\ Plan(p, in, {}, ws)
    BY <1>3, CommandPlans
  <2>2. CASE job' = job
    BY <1>0, <2>1, <2>2 DEF Ready, Plan, Shape
  <2>3. ASSUME NEW m \in Mirrors, NEW want \in SUBSET Pkgs, NEW skip \in BOOLEAN, NEW force \in BOOLEAN,
               UpdateMirror(p, m, want, skip, force)
        PROVE  Shape'
    <3>1. job'[p].phase = "mark" /\ job'[p].mirror = m /\ \A q \in Procs \ {p} : job'[q] = job[q]
      BY <1>0, <2>3 DEF UpdateMirror, NoJob
    <3> QED
      BY <1>0, <2>1, <3>1 DEF Ready, Plan, Shape
  <2> QED
    BY <1>3, <2>2, <2>3, CommandPlans
<1>4. CASE Steps(p)
  <2>1. ASSUME NEW q \in Pkgs, NEW fs,
               ImportFiles(p, q) \/ StorePackage(p, q) \/ ImportRefused(p, q, fs)
        PROVE  Shape'
    BY <1>0, <2>1 DEF ImportFiles, StorePackage, ImportRefused, Shape
  <2>2. ASSUME NEW op, WriteNext(p, op)
        PROVE  Shape'
    BY <1>0, <2>2 DEF WriteNext, Shape
  <2>3. CASE CommandDone(p)
    BY <1>0, <2>3 DEF CommandDone, Written, EndJob, NoJob, Shape, planvars
  <2> QED
    BY <1>4, <2>1, <2>2, <2>3 DEF Steps, WriteRecord, WriteRefs, DeleteRecord, DeleteRefs
<1>5. CASE UpdateSteps(p)
  <2>1. CASE StartDownloads(p)
    BY <1>0, <2>1, SMTT(30) DEF StartDownloads, Written, Shape, planvars
  <2>2. ASSUME NEW f \in Files, DownloadFile(p, f) \/ DownloadDone(p, f) \/ DownloadFailed(p, f)
        PROVE  Shape'
    <3>1. \A q \in Procs : job'[q].phase = job[q].phase /\ job'[q].mirror = job[q].mirror
      <4>1. CASE DownloadFile(p, f)
        BY <1>0, <4>1 DEF DownloadFile, Job
      <4>2. CASE DownloadDone(p, f)
        BY <1>0, <4>2 DEF DownloadDone, Job
      <4>3. CASE DownloadFailed(p, f)
        BY <1>0, <4>3 DEF DownloadFailed, Job
      <4> QED
        BY <2>2, <4>1, <4>2, <4>3
    <3>2. DownloadOnly
      BY <2>2 DEF DownloadFile, DownloadDone, DownloadFailed
    <3> QED
      BY <1>0, <3>1, <3>2 DEF DownloadOnly, Shape, planvars
  <2>3. ASSUME NEW f \in Files, ImportDownload(p, f)
        PROVE  Shape'
    BY <1>0, <2>3, SMTT(30) DEF ImportDownload, Shape, planvars
  <2>4. ASSUME NEW f \in Files, ImportFailed(p, f)
        PROVE  Shape'
    BY <1>0, <2>4 DEF ImportFailed, Importing, Shape
  <2>5. ASSUME NEW more, Interrupt(p, more)
        PROVE  Shape'
    BY <1>0, <2>5, SMTT(30) DEF Interrupt, DownloadOnly, Shape, planvars
  <2>6. CASE ReOpenDatabase(p)
    BY <1>0, <2>6, SMTT(30) DEF ReOpenDatabase, WorkersDone, Downloading, Shape, planvars
  <2>7. CASE ReOpenFailed(p)
    BY <1>0, <2>7, SMTT(30) DEF ReOpenFailed, WorkersDone, Downloading, Shape, planvars
  <2>8. CASE DeferredUnlock(p)
    BY <1>0, <2>8, SMTT(30) DEF DeferredUnlock, Shape
  <2>9. CASE GiveUp(p)
    BY <1>0, <2>9 DEF GiveUp, EndJob, NoJob, Shape, planvars
  <2>10. CASE UpdateFailed(p)
    BY <1>0, <2>10 DEF UpdateFailed, Importing, Shape
  <2>11. CASE FinalizeDownload(p)
    BY <1>0, <2>11 DEF FinalizeDownload, Importing, Shape
  <2> QED
    BY <1>5, <2>1, <2>2, <2>3, <2>4, <2>5, <2>6, <2>7, <2>8, <2>9, <2>10, <2>11 DEF UpdateSteps
<1>6. CASE CleanupSteps(p)
  <2>1. CASE (\E lost \in SUBSET Referenced : Cleanup(p, lost))
                 \/ DeletePackages(p) \/ ScanPool(p) \/ CleanupDone(p)
    BY <1>0, <2>1 DEF Cleanup, Ready, DeletePackages, ScanPool, CleanupDone, Shape, planvars
  <2>2. ASSUME NEW x \in unlink, RemoveFile(p, x)
        PROVE  Shape'
    <3>1. \A q \in Procs : job'[q].phase = job[q].phase /\ job'[q].mirror = job[q].mirror
      BY <1>0, <2>2 DEF RemoveFile, Job
    <3> QED
      BY <1>0, <2>2, <3>1 DEF RemoveFile, Shape
  <2> QED
    BY <1>6, <2>1, <2>2 DEF CleanupSteps
<1>7. CASE Crashes(p)
  <2>1. Dies(p) /\ Alive(p)
    BY <1>7 DEF Crashes, Crash, CrashImporting, CrashStoring, Alive
  <2>2. job'[p].phase = "none" /\ job'[p].mirror = NoProc /\ \A q \in Procs \ {p} : job'[q] = job[q]
    BY <1>0, <2>1 DEF Dies, EndJob, NoJob
  <2> QED
    BY <1>0, <2>1, <2>2 DEF Dies, Shape, planvars
<1> QED
  BY <1>1, <1>2, <1>3, <1>4, <1>5, <1>6, <1>7

(* In every reachable state, for any number of processes, mirrors,         *)
(* repositories, snapshots, published repositories and packages, the       *)
(* catalogue is well typed and the control state of the commands is        *)
(* consistent.                                                             *)
THEOREM TypeCorrect == Spec => [](TypeOK /\ Shape)
<1>1. Init => TypeOK /\ Shape
  <2> SUFFICES ASSUME Init PROVE TypeOK /\ Shape
    OBVIOUS
  <2>1. /\ pc = "idle" /\ incoming = {} /\ store = {} /\ writes = << >>
        /\ \A p \in Procs : job[p].phase = "none" /\ job[p].mirror = NoProc
    BY DEF Init, NoJob
  <2>2. Shape
    BY <2>1 DEF Shape
  <2> QED
    BY <2>2, InitType
<1>2. TypeOK /\ Shape /\ [Next]_vars => (TypeOK /\ Shape)'
  <2> SUFFICES ASSUME TypeOK, Shape, [Next]_vars PROVE TypeOK' /\ Shape'
    OBVIOUS
  <2>1. CASE Next
    <3>1. Shape'
      BY <2>1, ShapeStep
    <3>2. PICK p \in Procs :
            \/ OpenDatabase(p) \/ CloseDatabase(p)
            \/ MirrorCommands(p) \/ RepoCommands(p) \/ SnapshotCommands(p) \/ PublishCommands(p)
            \/ Steps(p) \/ UpdateSteps(p) \/ CleanupSteps(p) \/ Crashes(p)
      BY <2>1 DEF Next
    <3>3. ASSUME OpenDatabase(p) PROVE TypeOK'
      BY <3>3 DEF OpenDatabase, TypeOK, dbvars, poolvars, planvars
    <3>4. ASSUME CloseDatabase(p) PROVE TypeOK'
      BY <3>4 DEF CloseDatabase, TypeOK, dbvars, poolvars, planvars
    <3>5. TypeOK'
      BY <3>2, <3>3, <3>4, MirrorCommandsType, RepoCommandsType, SnapshotCommandsType,
         PublishCommandsType, StepsType, UpdateStepsType, CleanupStepsType, CrashesType
    <3> QED
      BY <3>1, <3>5
  <2>2. CASE UNCHANGED vars
    BY <2>2 DEF vars, dbvars, poolvars, planvars, TypeOK, Shape
  <2> QED
    BY <2>1, <2>2
<1> QED
  BY <1>1, <1>2, PTL DEF Spec

-----------------------------------------------------------------------------
(***************************************************************************)
(* Lists stay usable, for every value of the constants and even when       *)
(* -force overrides the lock of a mirror: the sources of what is published *)
(* can be loaded (PublishedSourcesExist), snapshots never change           *)
(* (SnapshotImmutable), a move between local repositories loses nothing    *)
(* (MoveLosesNothing).                                                     *)
(*                                                                         *)
(* Guards are checked when a command starts and its keys are written one   *)
(* by one afterwards.  The invariant says what a plan may still do to the  *)
(* lists in the database: save some of them, create one snapshot under a   *)
(* fresh UUID, or drop one list that nothing published refers to.          *)
(***************************************************************************)

(* The sources srcs of a published repository can be loaded.               *)
Available(srcs) ==
    \A i \in 1 .. Len(srcs) : srcs[i] \in rec /\ (srcs[i] \in Snaps => srcs[i] \in stored)

(* A write that changes no snapshot and publishes what can be loaded.      *)
Saved(w) ==
    /\ w.op \in {"put", "putrefs"} /\ w.key \notin Snaps
    /\ w.key \in Pubs => Available(w.srcs)

Saves(ws) == \A i \in 1 .. Len(ws) : Saved(ws[i])

Creates(ws) ==
    \E s \in Snaps \ stored, S \in SUBSET Pkgs : ws = SaveSnap(s, S) \/ ws = <<PutRefs(s, S)>>

(* The record of a list goes before its references.                        *)
Drops(ws) ==
    \E l \in Lists :
        /\ PublishedBy(l) = {}
        /\ \A i \in 1 .. Len(ws) : ws[i].op \in {"del", "delrefs"} /\ Owner(ws[i].key) = l
        /\ ws # << >> /\ Head(ws).op = "delrefs" => l \notin rec

Sound(ws) == Saves(ws) \/ Creates(ws) \/ Drops(ws)

(* The writes ws are about lists in U.                                     *)
About(ws, U) == \A i \in 1 .. Len(ws) : Owner(ws[i].key) \in U

(* UUIDs are handed out before anything is written under them.             *)
Known ==
    /\ rec \subseteq used
    /\ \A k \in stored : Owner(k) \in used
    /\ \A p \in Procs : job[p].phase # "none" => job[p].mirror \in used
    /\ About(writes, used)

(* A repo move from src to dst: dst gets the packages before src loses     *)
(* them.                                                                   *)
MovePlan(src, dst, A, B) == <<PutRec(dst), PutRefs(dst, A), PutRec(src), PutRefs(src, B)>>

(* The record of dst is written.                                           *)
MoveRest(src, dst, A, B) == <<PutRefs(dst, A), PutRec(src), PutRefs(src, B)>>

(* Writes that save src and nothing else.                                  *)
SaveOnly(ws, src) == \A i \in 1 .. Len(ws) : ws[i].op \in {"put", "putrefs"} /\ ws[i].key = src

Moving ==
    moving # {} =>
        /\ pc = "save" /\ \A p \in Procs : job[p].phase # "mark"
        /\ \E src, dst \in Repos \cap rec :
            /\ src # dst
            /\ \/ /\ moving \subseteq refs[src]
                  /\ \E A, B \in SUBSET Pkgs :
                        /\ moving \subseteq A
                        /\ writes = MovePlan(src, dst, A, B) \/ writes = MoveRest(src, dst, A, B)
               \/ moving \subseteq refs[dst] /\ SaveOnly(writes, src)

(* The inductive invariant.                                                *)
ListsInv == Known /\ Sound(writes) /\ PublishedSourcesExist /\ Moving

----------------------------------------------------------------------------
(* What commands plan.                                                     *)

(* Only snapshots and local repositories are sources of what is published. *)
LEMMA SourceKinds ==
  ASSUME TypeOK, NEW u \in Pubs, NEW i \in 1 .. Len(sources[u])
  PROVE  sources[u][i] \in Snaps \cup Repos
<1>1. sources[u] \in AnySources
  BY DEF TypeOK
<1>2. sources[u] \in Seq(Snaps) \cup Seq(Repos)
  BY <1>1, AnySourcesType
<1> QED
  BY <1>2, SMTT(30)

(* Nothing is published from a mirror or from something published.         *)
LEMMA NotASource ==
  ASSUME TypeOK, NEW l \in Mirrors \cup Pubs
  PROVE  PublishedBy(l) = {}
<1>1. l \notin Snaps \cup Repos
  BY KindsAssumption
<1> QED
  BY <1>1, SourceKinds DEF PublishedBy

(* What is stored under the key of a mirror or local repository.           *)
LEMMA SavedKey ==
  ASSUME NEW w, w.key \in Mirrors \cup Repos, w.op = "put" \/ w.op = "putrefs"
  PROVE  Saved(w)
BY KindsAssumption DEF Saved

(* Update of a mirror or local repository touches no snapshot and nothing  *)
(* published.                                                              *)
LEMMA SaveSound ==
  ASSUME NEW l \in Mirrors \cup Repos, NEW r, r.op = "put", r.key = l, NEW has, NEW S
  PROVE  /\ Save(r, has, S) = IF has THEN <<r, PutRefs(l, S)>> ELSE <<r>>
         /\ Saved(r) /\ Saved(PutRefs(l, S)) /\ PutRefs(l, S).key = l /\ PutRefs(l, S).op = "putrefs"
         /\ Saves(Save(r, has, S)) /\ About(Save(r, has, S), {l})
<1> DEFINE q == PutRefs(l, S)
<1>1. l \in Lists /\ l \notin Snaps /\ l \notin Pubs
  BY KindsAssumption DEF Lists
<1>2. Owner(l) = l
  BY <1>1, OwnerFacts
<1>3. q.op = "putrefs" /\ q.key = l
  BY DEF PutRefs, Key
<1>4. Save(r, has, S) = IF has THEN <<r, q>> ELSE <<r>>
  BY DEF Save
<1> HIDE DEF q
<1>5. Saved(r) /\ Saved(q) /\ Owner(r.key) = l /\ Owner(q.key) = l
  BY <1>1, <1>2, <1>3 DEF Saved
<1>6. Saves(<<r, q>>) /\ About(<<r, q>>, {l}) /\ Saves(<<r>>) /\ About(<<r>>, {l})
  BY <1>5, SMTT(30) DEF Saves, About
<1> QED
  BY <1>3, <1>4, <1>5, <1>6 DEF q

(* Drop of a list deletes its record first.                                *)
LEMMA DropSound ==
  ASSUME NEW l \in Mirrors \cup Repos \cup Snaps, PublishedBy(l) = {}
  PROVE  Drops(Drop(l)) /\ About(Drop(l), {l})
<1> DEFINE a == Key("del", l)
           b == Key("delrefs", l)
<1>1. l \in Lists /\ Owner(l) = l
  BY OwnerFacts DEF Lists
<1>2. a.op = "del" /\ a.key = l /\ b.op = "delrefs" /\ b.key = l /\ Drop(l) = <<a, b>>
  BY DEF Key, Drop
<1> HIDE DEF a, b
<1>3. /\ \A i \in 1 .. Len(<<a, b>>) : <<a, b>>[i].op \in {"del", "delrefs"} /\ <<a, b>>[i].key = l
      /\ Head(<<a, b>>).op # "delrefs"
  BY <1>2, SMTT(30)
<1> QED
  BY <1>1, <1>2, <1>3 DEF Drops, About

(* The record of what is published from sources that can be loaded.        *)
LEMMA PutPubSound ==
  ASSUME NEW u \in Pubs, NEW srcs, Available(srcs)
  PROVE  Saves(<<PutPub(u, srcs)>>) /\ About(<<PutPub(u, srcs)>>, {u})
<1> DEFINE r == PutPub(u, srcs)
<1>1. r.op = "put" /\ r.key = u /\ r.srcs = srcs
  BY DEF PutPub, Key
<1>2. Owner(u) = u /\ u \notin Snaps
  BY OwnerFacts, KindsAssumption DEF Lists
<1> HIDE DEF r
<1>3. Saved(r) /\ Owner(r.key) = u
  BY <1>1, <1>2 DEF Saved
<1>4. Saves(<<r>>) /\ About(<<r>>, {u})
  BY <1>3, SMTT(30) DEF Saves, About
<1> QED
  BY <1>4 DEF r

(* Update of a published repository of local repositories that exist.      *)
LEMMA SavePubSound ==
  ASSUME TypeOK, NEW u \in Pubs, NEW srcs \in AnySources, Available(srcs)
  PROVE  Saves(SavePub(u, srcs)) /\ About(SavePub(u, srcs), {u})
<1> DEFINE n == Len(srcs) + 1
           r == PutPub(u, srcs)
<1>1. n \in Nat /\ Len(srcs) \in 0 .. MaxComponents
  BY AnySourcesType, SMTT(30)
<1>2. Len(SavePub(u, srcs)) = n
  BY <1>1, SMTT(30) DEF SavePub
<1>3. r.op = "put" /\ r.key = u /\ r.srcs = srcs
  BY DEF PutPub, Key
<1>4. u \in Lists /\ Owner(u) = u /\ u \notin Snaps
  BY OwnerFacts, KindsAssumption DEF Lists
<1> HIDE DEF r
<1>5. Saved(r) /\ Owner(r.key) = u
  BY <1>3, <1>4 DEF Saved
<1>6. ASSUME NEW i \in 1 .. n, i # 1, NEW S
      PROVE  Saved(PutRefs(<<u, i - 1>>, S)) /\ Owner(PutRefs(<<u, i - 1>>, S).key) = u
  <2>1. i - 1 \in 1 .. MaxComponents
    BY <1>1, <1>6, BoundsAssumption, SMTT(30)
  <2>2. <<u, i - 1>> \notin Lists
    BY <2>1, KindsAssumption, SMTT(30)
  <2>3. Owner(<<u, i - 1>>) = u
    BY <2>1, OwnerFacts
  <2> QED
    BY <2>2, <2>3 DEF Saved, PutRefs, Key, Lists
<1>7. \A i \in 1 .. n : SavePub(u, srcs)[i] =
        IF i = 1 THEN r ELSE PutRefs(<<u, i - 1>>, refs[srcs[i - 1]])
  BY <1>1 DEF SavePub, r
<1> HIDE DEF n
<1>8. ASSUME NEW i \in 1 .. n
      PROVE  Saved(SavePub(u, srcs)[i]) /\ Owner(SavePub(u, srcs)[i].key) = u
  <2>1. CASE i = 1
    BY <1>5, <1>7, <2>1
  <2>2. CASE i # 1
    <3>1. SavePub(u, srcs)[i] = PutRefs(<<u, i - 1>>, refs[srcs[i - 1]])
      BY <1>7, <2>2
    <3> QED
      BY <1>6, <2>2, <3>1
  <2> QED
    BY <2>1, <2>2
<1> QED
  BY <1>2, <1>8 DEF Saves, About

(* Remove of a published repository deletes its record first.              *)
LEMMA DropPubSound ==
  ASSUME TypeOK, NEW u \in Pubs
  PROVE  Drops(DropPub(u)) /\ About(DropPub(u), {u})
<1> DEFINE n == Len(sources[u]) + 1
<1>1. n \in Nat /\ Len(sources[u]) \in 0 .. MaxComponents
  BY AnySourcesType, SMTT(30) DEF TypeOK
<1>2. Len(DropPub(u)) = n /\ Head(DropPub(u)) = DropPub(u)[1] /\ 1 \in 1 .. n
  BY <1>1, SMTT(30) DEF DropPub
<1>3. \A i \in 1 .. n : DropPub(u)[i] =
        IF i = 1 THEN Key("del", u) ELSE Key("delrefs", <<u, i - 1>>)
  BY <1>1 DEF DropPub
<1>4. Key("del", u).op = "del" /\ Owner(Key("del", u).key) = u /\ u \in Lists
  BY OwnerFacts DEF Key, Lists
<1>5. ASSUME NEW i \in 1 .. n, i # 1
      PROVE  Key("delrefs", <<u, i - 1>>).op = "delrefs" /\ Owner(Key("delrefs", <<u, i - 1>>).key) = u
  <2>1. i - 1 \in 1 .. MaxComponents
    BY <1>1, <1>5, BoundsAssumption, SMTT(30)
  <2>2. Owner(<<u, i - 1>>) = u
    BY <2>1, OwnerFacts
  <2> QED
    BY <2>2 DEF Key
<1> HIDE DEF n
<1>6. \A i \in 1 .. n : DropPub(u)[i].op \in {"del", "delrefs"} /\ Owner(DropPub(u)[i].key) = u
  BY <1>3, <1>4, <1>5
<1>7. Head(DropPub(u)).op # "delrefs"
  BY <1>2, <1>3, <1>4
<1>8. PublishedBy(u) = {}
  BY NotASource
<1> QED
  BY <1>2, <1>4, <1>6, <1>7, <1>8 DEF Drops, About

(* Two pairs of writes, one after the other.                               *)
LEMMA FourWrites ==
  ASSUME NEW a, NEW b, NEW c, NEW d
  PROVE  <<a, b>> \o <<c, d>> = <<a, b, c, d>>
<1> DEFINE T == {a, b, c, d}
           x == <<a, b>>
           y == <<c, d>>
           z == <<a, b, c, d>>
<1>1. x \in Seq(T) /\ y \in Seq(T) /\ z \in Seq(T) /\ Len(x) = 2 /\ Len(y) = 2 /\ Len(z) = 4
  BY SMTT(30)
<1>2. x[1] = a /\ x[2] = b /\ y[1] = c /\ y[2] = d /\ z[1] = a /\ z[2] = b /\ z[3] = c /\ z[4] = d
  OBVIOUS
<1> HIDE DEF T, x, y, z
<1>3. /\ x \o y \in Seq(T) /\ Len(x \o y) = Len(x) + Len(y)
      /\ \A i \in 1 .. Len(x) + Len(y) : (x \o y)[i] = IF i <= Len(x) THEN x[i] ELSE y[i - Len(x)]
  BY <1>1, ConcatProperties
<1>4. Len(x \o y) = 4 /\ \A i \in 1 .. 4 : (x \o y)[i] = IF i <= 2 THEN x[i] ELSE y[i - 2]
  BY <1>1, <1>3, SMTT(30)
<1>5. (x \o y)[1] = a /\ (x \o y)[2] = b /\ (x \o y)[3] = c /\ (x \o y)[4] = d
  BY <1>2, <1>4, SMTT(30)
<1>6. \A i \in 1 .. Len(x \o y) : (x \o y)[i] = z[i]
  BY <1>2, <1>4, <1>5, SMTT(30)
<1>7. x \o y = z
  BY <1>1, <1>3, <1>4, <1>6, SeqEqual
<1> QED
  BY <1>7 DEF x, y, z

(* Writes about one list, whose UUID was handed out.                       *)
LEMMA AboutOne ==
  ASSUME NEW ws, NEW l, About(ws, {l}), NEW U, l \in U
  PROVE  About(ws, U)
BY DEF About

(* The writes of a repo move, one by one.                                  *)
LEMMA MoveIsPlan ==
  ASSUME NEW src \in Repos, NEW dst \in Repos, NEW S
  PROVE  MoveWrites(src, dst, S) = MovePlan(src, dst, refs[dst] \cup S, refs[src] \ S)
<1> DEFINE a == PutRec(dst)
           b == PutRefs(dst, refs[dst] \cup S)
           c == PutRec(src)
           d == PutRefs(src, refs[src] \ S)
<1>1. SaveRepo(dst, refs[dst] \cup S) = <<a, b>> /\ SaveRepo(src, refs[src] \ S) = <<c, d>>
  BY DEF SaveRepo, Save, PutRec, Key
<1>2. /\ MoveWrites(src, dst, S) = <<a, b>> \o <<c, d>>
      /\ MovePlan(src, dst, refs[dst] \cup S, refs[src] \ S) = <<a, b, c, d>>
  BY <1>1 DEF MoveWrites, MovePlan
<1> HIDE DEF a, b, c, d
<1>3. <<a, b>> \o <<c, d>> = <<a, b, c, d>>
  BY FourWrites
<1> QED
  BY <1>2, <1>3

(* The mirror commands save or drop one mirror.                            *)
LEMMA MirrorSound ==
  ASSUME TypeOK, Known, NEW p \in Procs, MirrorCommands(p)
  PROVE  Sound(writes') /\ About(writes', used')
<1>1. PICK m \in Mirrors :
        \/ MirrorCreate(p, m) \/ MirrorEdit(p, m) \/ MirrorDrop(p, m)
        \/ \E want \in SUBSET Pkgs, skip, force \in BOOLEAN : UpdateMirror(p, m, want, skip, force)
  BY DEF MirrorCommands
<1>2. ASSUME NEW w, NEW c, NEW has, NEW S
      PROVE  Saves(SaveMirror(m, w, c, has, S)) /\ About(SaveMirror(m, w, c, has, S), {m})
  <2>1. PutMirror(m, w, c).op = "put" /\ PutMirror(m, w, c).key = m
    BY DEF PutMirror, Key
  <2> QED
    BY <2>1, SaveSound DEF SaveMirror
<1>3. \A w, c : <<PutMirror(m, w, c)>> = SaveMirror(m, w, c, FALSE, {})
  BY DEF SaveMirror, Save
<1>4. CASE \E w, c, has, S : writes' = SaveMirror(m, w, c, has, S)
  <2>1. m \in used'
    BY <1>1 DEF MirrorCreate, MirrorEdit, MirrorDrop, UpdateMirror, Create, Command, Known
  <2> QED
    BY <1>2, <1>4, <2>1 DEF Sound, About
<1>5. CASE MirrorDrop(p, m)
  <2>1. writes' = Drop(m) /\ m \in used'
    BY <1>5 DEF MirrorDrop, Command, Plan, Known
  <2> QED
    BY <2>1, DropSound, NotASource DEF Sound, About
<1>6. MirrorDrop(p, m) \/ \E w, c, has, S : writes' = SaveMirror(m, w, c, has, S)
  <2>1. CASE MirrorCreate(p, m)
    BY <1>3, <2>1 DEF MirrorCreate, Create, Plan
  <2>2. CASE MirrorEdit(p, m)
    BY <1>3, <2>2 DEF MirrorEdit, Command, Plan
  <2>3. CASE \E want \in SUBSET Pkgs, skip, force \in BOOLEAN : UpdateMirror(p, m, want, skip, force)
    BY <2>3 DEF UpdateMirror, Plan
  <2> QED
    BY <1>1, <2>1, <2>2, <2>3
<1> QED
  BY <1>4, <1>5, <1>6

(* The local repository commands save one or two local repositories, or    *)
(* drop one that is not published.                                         *)
LEMMA RepoSound ==
  ASSUME TypeOK, Known, NEW p \in Procs, RepoCommands(p)
  PROVE  Sound(writes') /\ About(writes', used')
<1>1. PICK r \in Repos :
        \/ RepoCreate(p, r)
        \/ \E new \in SUBSET Pkgs : \E added \in SUBSET new, replaced \in SUBSET refs[r] :
              RepoAdd(p, r, new, added, replaced)
        \/ \E gone \in SUBSET refs[r] : RepoRemove(p, r, gone)
        \/ \E src \in Repos \cup Mirrors : \E S \in SUBSET refs[src] : RepoCopy(p, src, r, S)
        \/ \E src \in Repos : \E S \in SUBSET refs[src] : RepoMove(p, src, r, S)
        \/ RepoDrop(p, r)
  BY DEF RepoCommands
<1>2. ASSUME NEW l \in Repos, NEW S
      PROVE  /\ SaveRepo(l, S) = <<PutRec(l), PutRefs(l, S)>>
             /\ Saved(PutRec(l)) /\ Saved(PutRefs(l, S))
             /\ PutRec(l).key = l /\ PutRefs(l, S).key = l
             /\ Saves(SaveRepo(l, S)) /\ About(SaveRepo(l, S), {l})
  <2> DEFINE w == PutRec(l)
  <2>1. w.op = "put" /\ w.key = l /\ l \in Mirrors \cup Repos
    BY DEF PutRec, Key
  <2> HIDE DEF w
  <2>2. SaveRepo(l, S) = Save(w, TRUE, S)
    BY DEF SaveRepo, w
  <2>3. Save(w, TRUE, S) = <<w, PutRefs(l, S)>>
    BY <2>1 DEF Save
  <2>4. Saved(w) /\ Saved(PutRefs(l, S)) /\ PutRefs(l, S).key = l
    <3>1. PutRefs(l, S).op = "putrefs" /\ PutRefs(l, S).key = l
      BY DEF PutRefs, Key
    <3> QED
      BY <2>1, <3>1, SavedKey
  <2>5. Saves(Save(w, TRUE, S)) /\ About(Save(w, TRUE, S), {l})
    BY <2>1, SaveSound
  <2> QED
    BY <2>1, <2>2, <2>3, <2>4, <2>5 DEF w
<1>3. CASE \E S : writes' = SaveRepo(r, S) /\ r \in used'
  BY <1>2, <1>3, AboutOne DEF Sound
<1>4. CASE writes' = <<PutRec(r)>> /\ r \in used'
  <2>1. Saves(Save(PutRec(r), FALSE, {})) /\ About(Save(PutRec(r), FALSE, {}), {r})
    <3>1. PutRec(r).op = "put" /\ PutRec(r).key = r
      BY DEF PutRec, Key
    <3> QED
      BY <3>1, SaveSound
  <2> QED
    BY <1>4, <2>1 DEF Sound, About, Save
<1>5. CASE RepoDrop(p, r)
  <2>1. writes' = Drop(r) /\ r \in used' /\ PublishedBy(r) = {}
    BY <1>5 DEF RepoDrop, Command, Plan, Known
  <2> QED
    BY <2>1, DropSound DEF Sound, About
<1>6. ASSUME NEW src \in Repos, NEW S \in SUBSET refs[src], RepoMove(p, src, r, S)
      PROVE  Sound(writes') /\ About(writes', used')
  <2>1. /\ writes' = MovePlan(src, r, refs[r] \cup S, refs[src] \ S)
        /\ r \in used' /\ src \in used'
    BY MoveIsPlan, <1>6 DEF RepoMove, Plan, Known
  <2> DEFINE a == PutRec(r)
             b == PutRefs(r, refs[r] \cup S)
             c == PutRec(src)
             d == PutRefs(src, refs[src] \ S)
  <2>2. /\ Saved(a) /\ Saved(b) /\ Saved(c) /\ Saved(d)
        /\ a.key = r /\ b.key = r /\ c.key = src /\ d.key = src
    BY <1>2
  <2>4. Owner(r) = r /\ Owner(src) = src
    BY OwnerFacts DEF Lists
  <2>3. writes' = <<a, b, c, d>>
    BY <2>1 DEF MovePlan
  <2> HIDE DEF a, b, c, d
  <2>5. Saves(<<a, b, c, d>>)
    <3>1. \A i \in 1 .. Len(<<a, b, c, d>>) : <<a, b, c, d>>[i] \in {a, b, c, d}
      BY SMTT(30)
    <3> QED
      BY <2>2, <3>1 DEF Saves
  <2>6. About(<<a, b, c, d>>, used')
    <3>1. \A i \in 1 .. Len(<<a, b, c, d>>) : <<a, b, c, d>>[i] \in {a, b, c, d}
      BY SMTT(30)
    <3> QED
      BY <2>1, <2>2, <2>4, <3>1 DEF About
  <2> QED
    BY <2>3, <2>5, <2>6 DEF Sound
<1>7. \/ RepoDrop(p, r)
      \/ writes' = <<PutRec(r)>> /\ r \in used'
      \/ \E S : writes' = SaveRepo(r, S) /\ r \in used'
      \/ \E src \in Repos : \E S \in SUBSET refs[src] : RepoMove(p, src, r, S)
  BY <1>1 DEF RepoCreate, RepoAdd, RepoRemove, RepoCopy, Create, Command, Plan, Known
<1> QED
  BY <1>3, <1>4, <1>5, <1>6, <1>7

(* The snapshot commands create one under a fresh UUID, or drop one that   *)
(* is not published.                                                       *)
LEMMA SnapshotSound ==
  ASSUME TypeOK, TypeOK', Known, NEW p \in Procs, SnapshotCommands(p)
  PROVE  Sound(writes') /\ About(writes', used')
<1>1. PICK s \in Snaps :
        \/ \E m \in Mirrors : SnapshotFromMirror(p, s, m)
        \/ \E r \in Repos : SnapshotFromRepo(p, s, r)
        \/ \E srcs \in SUBSET LoadedSnaps, unsorted \in BOOLEAN :
              \E S \in SUBSET UNION {refs[t] : t \in srcs} :
                  SnapshotDerive(p, s, srcs, S, unsorted)
        \/ SnapshotDrop(p, s)
  BY DEF SnapshotCommands
<1>2. s \in Lists /\ Owner(s) = s
  BY OwnerFacts DEF Lists
<1>3. CASE SnapshotDrop(p, s)
  <2>1. writes' = Drop(s) /\ s \in used' /\ PublishedBy(s) = {}
    BY <1>3 DEF SnapshotDrop, Command, Plan, Known
  <2> QED
    BY <2>1, DropSound DEF Sound, About
<1>4. ASSUME NEW S \in SUBSET Pkgs, Create(p, s, SaveSnap(s, S))
      PROVE  Sound(writes') /\ About(writes', used')
  <2>1. writes' = SaveSnap(s, S) /\ s \in used' /\ s \notin stored
    BY <1>2, <1>4 DEF Create, Plan, Known
  <2> DEFINE a == PutRec(s)
             b == PutRefs(s, S)
  <2>2. writes' = <<a, b>> /\ a.key = s /\ b.key = s
    BY <2>1 DEF SaveSnap, Save, PutRec, PutRefs, Key
  <2>3. About(writes', used')
    <3> HIDE DEF a, b
    <3> QED
      BY <1>2, <2>1, <2>2, SMTT(30) DEF About
  <2> QED
    BY <2>1, <2>3 DEF Sound, Creates
<1>5. ASSUME NEW l \in Mirrors \cup Repos, Create(p, s, SaveSnap(s, refs[l]))
      PROVE  Sound(writes') /\ About(writes', used')
  <2>1. refs[l] \in SUBSET Pkgs
    BY DEF TypeOK, RefKeys
  <2> QED
    BY <1>4, <1>5, <2>1
<1>6. ASSUME NEW srcs \in SUBSET LoadedSnaps, NEW unsorted \in BOOLEAN,
             NEW S \in SUBSET UNION {refs[t] : t \in srcs},
             SnapshotDerive(p, s, srcs, S, unsorted)
      PROVE  Sound(writes') /\ About(writes', used')
  <2>1. \A t \in srcs : refs[t] \subseteq Pkgs
    BY DEF TypeOK, RefKeys, LoadedSnaps
  <2>2. S \in SUBSET Pkgs
    BY <2>1
  <2> QED
    BY <1>4, <1>6, <2>2 DEF SnapshotDerive
<1> QED
  BY <1>1, <1>3, <1>5, <1>6 DEF SnapshotFromMirror, SnapshotFromRepo

(* Nothing to write.                                                       *)
LEMMA NothingSound ==
  ASSUME writes' = << >>
  PROVE  Sound(writes') /\ Sound(writes)' /\ About(writes', used') /\ About(writes, used)'
<1>1. \A i \in 1 .. Len(writes') : FALSE
  BY SMTT(30)
<1> QED
  BY <1>1 DEF Sound, Saves, About

(* The publish commands save what is published from lists that can be      *)
(* loaded, or drop it.                                                     *)
LEMMA PublishSound ==
  ASSUME TypeOK, Known, NEW p \in Procs, PublishCommands(p)
  PROVE  Sound(writes') /\ About(writes', used')
<1>1. PICK u \in Pubs, listed \in SUBSET Pkgs :
        \/ \E srcs \in SourceSeqs(LoadedSnaps) : PublishSnapshot(p, u, srcs, listed)
        \/ \E srcs \in SourceSeqs(Repos \cap rec) : PublishRepo(p, u, srcs, listed)
        \/ \E srcs \in [1 .. Len(sources[u]) -> LoadedSnaps] : PublishSwitch(p, u, srcs, listed)
        \/ PublishUpdate(p, u, listed)
        \/ \E srcs \in SourceSeqs(LoadedSnaps) \cup SourceSeqs(Repos \cap rec) :
              PublishFailed(p, srcs, listed)
        \/ PublishDrop(p, u)
  BY DEF PublishCommands
<1>2. ASSUME u \in used', Saves(writes') \/ Drops(writes'), About(writes', {u})
      PROVE  Sound(writes') /\ About(writes', used')
  BY <1>2, AboutOne DEF Sound
<1>3. ASSUME NEW srcs \in SourceSeqs(LoadedSnaps), PublishSnapshot(p, u, srcs, listed)
      PROVE  Sound(writes') /\ About(writes', used')
  <2>1. u \in used' /\ writes' = <<PutPub(u, srcs)>>
    BY <1>3 DEF PublishSnapshot, Create, Plan
  <2>2. srcs \in Seq(LoadedSnaps)
    BY SourceSeqType
  <2>3. Available(srcs)
    BY <2>2, SMTT(30) DEF Available, LoadedSnaps
  <2> QED
    BY <1>2, <2>1, <2>3, PutPubSound
<1>4. ASSUME NEW srcs \in SourceSeqs(Repos \cap rec), PublishRepo(p, u, srcs, listed)
      PROVE  Sound(writes') /\ About(writes', used')
  <2>1. u \in used' /\ writes' = SavePub(u, srcs)
    BY <1>4 DEF PublishRepo, Create, Plan
  <2>2. srcs \in Seq(Repos \cap rec) /\ srcs \in AnySources
    BY SourceSeqType, SourceSeqsMono DEF AnySources
  <2>3. Available(srcs)
    BY <2>2, KindsAssumption, SMTT(30) DEF Available
  <2> QED
    BY <1>2, <2>1, <2>2, <2>3, SavePubSound
<1>5. ASSUME NEW srcs \in [1 .. Len(sources[u]) -> LoadedSnaps], PublishSwitch(p, u, srcs, listed)
      PROVE  Sound(writes') /\ About(writes', used')
  <2>1. u \in used' /\ writes' = <<PutPub(u, srcs)>>
    BY <1>5 DEF PublishSwitch, LoadedPub, Plan, Known
  <2>2. Len(sources[u]) \in Nat
    BY AnySourcesType, SMTT(30) DEF TypeOK
  <2>3. Available(srcs)
    BY <2>2, SMTT(30) DEF Available, LoadedSnaps
  <2> QED
    BY <1>2, <2>1, <2>3, PutPubSound
<1>6. CASE PublishUpdate(p, u, listed)
  <2>1. u \in used' /\ writes' = SavePub(u, sources[u])
    BY <1>6 DEF PublishUpdate, LoadedPub, Plan, Known
  <2>2. /\ sources[u] \in AnySources /\ sources[u] \in Seq(Repos)
        /\ \A i \in 1 .. Len(sources[u]) : sources[u][i] \in rec
    BY <1>6 DEF PublishUpdate, LoadedPub, IsLocal, TypeOK
  <2>3. \A i \in 1 .. Len(sources[u]) : sources[u][i] \in Repos
    BY <2>2, SMTT(30)
  <2>4. Available(sources[u])
    BY <2>2, <2>3, KindsAssumption DEF Available
  <2> QED
    BY <1>2, <2>1, <2>2, <2>4, SavePubSound
<1>7. CASE PublishDrop(p, u)
  <2>1. u \in used' /\ writes' = DropPub(u)
    BY <1>7 DEF PublishDrop, Command, Plan, Known
  <2> QED
    BY <1>2, <2>1, DropPubSound
<1>8. ASSUME NEW srcs, PublishFailed(p, srcs, listed)
      PROVE  Sound(writes') /\ About(writes', used')
  <2>1. writes' = << >>
    BY <1>8 DEF PublishFailed, Plan
  <2> QED
    BY <2>1, NothingSound
<1> QED
  BY <1>1, <1>3, <1>4, <1>5, <1>6, <1>7, <1>8

(* Only repo move moves packages.                                          *)
LEMMA MovingCommands ==
  ASSUME NEW p \in Procs,
         MirrorCommands(p) \/ RepoCommands(p) \/ SnapshotCommands(p) \/ PublishCommands(p)
  PROVE  \/ moving' = moving
         \/ \E src, dst \in Repos : \E S \in SUBSET refs[src] : RepoMove(p, src, dst, S)
<1>1. CASE MirrorCommands(p)
  BY <1>1 DEF MirrorCommands, MirrorCreate, MirrorEdit, MirrorDrop, UpdateMirror, Create, Command
<1>2. CASE RepoCommands(p)
  BY <1>2 DEF RepoCommands, RepoCreate, RepoAdd, RepoRemove, RepoCopy, RepoDrop, Create, Command
<1>3. CASE SnapshotCommands(p)
  BY <1>3
  DEF SnapshotCommands, SnapshotFromMirror, SnapshotFromRepo, SnapshotDerive, SnapshotDrop, Create, Command
<1>4. CASE PublishCommands(p)
  BY <1>4
  DEF PublishCommands, PublishSnapshot, PublishRepo, PublishSwitch, PublishUpdate, PublishFailed,
      PublishDrop, Create, Command
<1> QED
  BY <1>1, <1>2, <1>3, <1>4

(* A write list that is sound before a command is sound after it: commands *)
(* only plan.                                                              *)
LEMMA PlanSound ==
  ASSUME UNCHANGED <<rec, stored, sources>>, Sound(writes')
  PROVE  Sound(writes)'
<1>1. \A srcs : Available(srcs)' = Available(srcs)
  BY DEF Available
<1>2. Saves(writes') => Saves(writes)'
  BY <1>1 DEF Saves, Saved
<1>3. Creates(writes') => Creates(writes)'
  BY DEF Creates
<1>4. \A l : PublishedBy(l)' = PublishedBy(l)
  BY DEF PublishedBy
<1>5. Drops(writes') => Drops(writes)'
  BY <1>4 DEF Drops
<1> QED
  BY <1>2, <1>3, <1>5 DEF Sound

(* The commands keep the invariant.                                        *)
LEMMA CommandsSound ==
  ASSUME TypeOK, TypeOK', Shape, ListsInv, NEW p \in Procs,
         MirrorCommands(p) \/ RepoCommands(p) \/ SnapshotCommands(p) \/ PublishCommands(p)
  PROVE  ListsInv'
<1>1. PICK in, ws : Plan(p, in, {}, ws)
  BY CommandPlans
<1>2. /\ UNCHANGED <<rec, stored, sources, refs>> /\ pc' = "save" /\ pc = "idle"
      /\ used \subseteq used' /\ moving = {}
  BY <1>1, CommandPlans DEF Plan, Ready, ListsInv, Moving
<1>3. Sound(writes') /\ About(writes', used')
  BY MirrorSound, RepoSound, SnapshotSound, PublishSound DEF ListsInv
<1>4. Sound(writes)'
  BY <1>2, <1>3, PlanSound
<1>5. PublishedSourcesExist'
  BY <1>2 DEF ListsInv, PublishedSourcesExist
<1>6. \A q \in Procs : job'[q].phase # "none" => job'[q].mirror \in used
  <2>1. CASE job' = job
    BY <2>1 DEF ListsInv, Known
  <2>2. ASSUME NEW m \in Mirrors, NEW want \in SUBSET Pkgs, NEW skip \in BOOLEAN, NEW force \in BOOLEAN,
               UpdateMirror(p, m, want, skip, force)
        PROVE  \A q \in Procs : job'[q].phase # "none" => job'[q].mirror \in used
    <3>1. job'[p].mirror = m /\ m \in rec /\ \A q \in Procs \ {p} : job'[q] = job[q]
      BY <2>2 DEF UpdateMirror, NoJob, TypeOK
    <3> QED
      BY <3>1 DEF ListsInv, Known
  <2> QED
    BY <2>1, <2>2, CommandPlans
<1>7. Known'
  BY <1>2, <1>3, <1>6 DEF ListsInv, Known, About
<1>8. Moving'
  <2>1. CASE moving' = {}
    BY <2>1 DEF Moving
  <2>2. ASSUME NEW src \in Repos, NEW dst \in Repos, NEW S \in SUBSET refs[src], RepoMove(p, src, dst, S)
        PROVE  Moving'
    <3>1. /\ src \in rec /\ dst \in rec /\ src # dst /\ moving' = S /\ job' = job
          /\ writes' = MovePlan(src, dst, refs[dst] \cup S, refs[src] \ S)
      BY <2>2, MoveIsPlan DEF RepoMove, Plan
    <3>2. refs[dst] \cup S \in SUBSET Pkgs /\ refs[src] \ S \in SUBSET Pkgs
      BY DEF TypeOK, RefKeys
    <3>3. \A q \in Procs : job'[q].phase # "mark"
      BY <1>2, <3>1 DEF Shape
    <3>4. S \subseteq refs'[src] /\ S \subseteq refs[dst] \cup S
      BY <1>2
    <3> HIDE DEF MovePlan
    <3> QED
      BY <1>2, <3>1, <3>2, <3>3, <3>4 DEF Moving
  <2>3. moving' = {} \/ \E src, dst \in Repos : \E S \in SUBSET refs[src] : RepoMove(p, src, dst, S)
    BY <1>2, MovingCommands
  <2> QED
    BY <2>1, <2>2, <2>3
<1> QED
  BY <1>4, <1>5, <1>7, <1>8 DEF ListsInv

----------------------------------------------------------------------------
(* Carrying out the writes.                                                *)

(* The next write and those that are left.                                 *)
LEMMA NextIndex ==
  ASSUME TypeOK, NEW p, NEW op, WriteNext(p, op)
  PROVE  /\ Head(writes) = writes[1] /\ 1 \in 1 .. Len(writes) /\ writes # << >>
         /\ \A i \in 1 .. Len(writes') : i + 1 \in 1 .. Len(writes) /\ writes'[i] = writes[i + 1]
         /\ writes' # << >> => Head(writes') = writes'[1] /\ 1 \in 1 .. Len(writes')
         /\ Head(writes).op = op /\ Head(writes) \in Write
<1>1. writes # << >> /\ writes' = Tail(writes) /\ writes \in Seq(Write) /\ Head(writes).op = op
  BY DEF WriteNext, TypeOK
<1>2. Head(writes) = writes[1] /\ 1 \in 1 .. Len(writes)
  BY <1>1, SMTT(30)
<1>3. \A i \in 1 .. Len(writes') : i + 1 \in 1 .. Len(writes) /\ writes'[i] = writes[i + 1]
  BY <1>1, SMTT(30)
<1>4. writes' # << >> => Head(writes') = writes'[1] /\ 1 \in 1 .. Len(writes')
  BY <1>1, SMTT(30)
<1> QED
  BY <1>1, <1>2, <1>3, <1>4, HeadType

(* The creation of a snapshot: its record, then its references.            *)
LEMMA CreatingHead ==
  ASSUME NEW s, NEW S, writes = SaveSnap(s, S) \/ writes = <<PutRefs(s, S)>>
  PROVE  \/ Head(writes) = PutRec(s) /\ Head(writes).op = "put" /\ Tail(writes) = <<PutRefs(s, S)>>
         \/ Head(writes) = PutRefs(s, S) /\ Head(writes).op = "putrefs" /\ Tail(writes) = << >>
<1> DEFINE a == PutRec(s)
           b == PutRefs(s, S)
<1>1. a.op = "put" /\ b.op = "putrefs" /\ SaveSnap(s, S) = <<a, b>>
  BY DEF SaveSnap, Save, PutRec, PutRefs, Key
<1> HIDE DEF a, b
<1>2. Head(<<a, b>>) = a /\ Tail(<<a, b>>) = <<b>> /\ Head(<<b>>) = b /\ Tail(<<b>>) = << >>
  BY SMTT(30)
<1> QED
  BY <1>1, <1>2 DEF a, b

(* A put is not part of a drop, nor a delete of anything else.             *)
LEMMA PlanKinds ==
  ASSUME TypeOK, NEW p, NEW op, WriteNext(p, op), Sound(writes)
  PROVE  /\ op \in {"put", "putrefs"} => Saves(writes) \/ Creates(writes)
         /\ op \in {"del", "delrefs"} => Drops(writes)
<1>1. Head(writes) = writes[1] /\ 1 \in 1 .. Len(writes) /\ Head(writes).op = op
  BY NextIndex
<1>2. Saves(writes) => op \in {"put", "putrefs"}
  BY <1>1 DEF Saves, Saved
<1>3. Drops(writes) => op \in {"del", "delrefs"}
  BY <1>1 DEF Drops
<1>4. Creates(writes) => op \in {"put", "putrefs"}
  BY <1>1, CreatingHead DEF Creates
<1>5. {"put", "putrefs"} \cap {"del", "delrefs"} = {}
  OBVIOUS
<1> QED
  BY <1>2, <1>3, <1>4, <1>5 DEF Sound

(* What is left to save stays sound while lists come and none goes.        *)
LEMMA SavesLeft ==
  ASSUME TypeOK, NEW p, NEW op, WriteNext(p, op), Saves(writes),
         rec \subseteq rec', stored \subseteq stored'
  PROVE  Sound(writes)'
<1>1. \A srcs : Available(srcs) => Available(srcs)'
  BY DEF Available
<1>2. \A i \in 1 .. Len(writes') : i + 1 \in 1 .. Len(writes) /\ writes'[i] = writes[i + 1]
  BY NextIndex
<1>3. ASSUME NEW i \in 1 .. Len(writes')
      PROVE  Saved(writes[i])'
  <2>1. Saved(writes'[i])
    BY <1>2 DEF Saves
  <2> QED
    BY <1>1, <2>1 DEF Saved
<1> QED
  BY <1>3 DEF Sound, Saves

(* What is left of a drop stays sound.                                     *)
LEMMA DropsLeft ==
  ASSUME TypeOK, NEW p, NEW op, WriteNext(p, op), NEW l \in Lists, PublishedBy(l) = {},
         \A i \in 1 .. Len(writes) : writes[i].op \in {"del", "delrefs"} /\ Owner(writes[i].key) = l,
         l \notin rec', rec' \subseteq rec, sources' = sources
  PROVE  Sound(writes)'
<1>1. \A i \in 1 .. Len(writes') : i + 1 \in 1 .. Len(writes) /\ writes'[i] = writes[i + 1]
  BY NextIndex
<1>2. \A i \in 1 .. Len(writes') : writes'[i].op \in {"del", "delrefs"} /\ Owner(writes'[i].key) = l
  BY <1>1
<1>3. PublishedBy(l)' = {}
  BY DEF PublishedBy
<1> QED
  BY <1>2, <1>3 DEF Sound, Drops

(* UUIDs stay known.                                                       *)
LEMMA KnownLeft ==
  ASSUME TypeOK, Known, NEW p, NEW op, WriteNext(p, op),
         rec' \subseteq rec \cup {Owner(Head(writes).key)},
         stored' \subseteq stored \cup {Head(writes).key}
  PROVE  Known'
<1>1. /\ Head(writes) = writes[1] /\ 1 \in 1 .. Len(writes)
      /\ \A i \in 1 .. Len(writes') : i + 1 \in 1 .. Len(writes) /\ writes'[i] = writes[i + 1]
  BY NextIndex
<1>2. Owner(Head(writes).key) \in used /\ About(writes', used)
  BY <1>1 DEF Known, About
<1>3. used' = used /\ job' = job
  BY DEF WriteNext
<1>4. About(writes, used)'
  BY <1>2, <1>3 DEF About
<1> QED
  BY <1>2, <1>3, <1>4 DEF Known

(* The writes of a repo move, one after the other.                         *)
LEMMA MovingHead ==
  ASSUME NEW src, NEW dst, NEW A, NEW B, writes = MovePlan(src, dst, A, B)
  PROVE  Head(writes).op = "put" /\ Tail(writes) = MoveRest(src, dst, A, B)
<1> DEFINE a == PutRec(dst)
           b == PutRefs(dst, A)
           c == PutRec(src)
           d == PutRefs(src, B)
<1>1. a.op = "put"
  BY DEF PutRec, Key
<1>2. writes = <<a, b, c, d>> /\ MoveRest(src, dst, A, B) = <<b, c, d>>
  BY DEF MovePlan, MoveRest
<1> HIDE DEF a, b, c, d
<1>3. Head(<<a, b, c, d>>) = a /\ Tail(<<a, b, c, d>>) = <<b, c, d>>
  BY SMTT(30)
<1> QED
  BY <1>1, <1>2, <1>3

(* The rest of a repo move: the references of dst, then src.               *)
LEMMA RestHead ==
  ASSUME NEW src, NEW dst, NEW A, NEW B, writes = MoveRest(src, dst, A, B)
  PROVE  /\ Head(writes).op = "putrefs" /\ Head(writes).key = dst /\ Head(writes).pkgs = A
         /\ SaveOnly(Tail(writes), src)
<1> DEFINE b == PutRefs(dst, A)
           c == PutRec(src)
           d == PutRefs(src, B)
<1>1. /\ b.op = "putrefs" /\ b.key = dst /\ b.pkgs = A
      /\ c.op = "put" /\ c.key = src /\ d.op = "putrefs" /\ d.key = src
  BY DEF PutRec, PutRefs, Key
<1>2. writes = <<b, c, d>>
  BY DEF MoveRest
<1> HIDE DEF b, c, d
<1>3. /\ Head(<<b, c, d>>) = b /\ Tail(<<b, c, d>>) = <<c, d>>
      /\ \A i \in 1 .. Len(<<c, d>>) : <<c, d>>[i] \in {c, d}
  BY SMTT(30)
<1>4. SaveOnly(<<c, d>>, src)
  BY <1>1, <1>3 DEF SaveOnly
<1> QED
  BY <1>1, <1>2, <1>3, <1>4

(* A repo move stays in order while it is carried out.                     *)
LEMMA MovingLeft ==
  ASSUME TypeOK, Moving, NEW p, WriteRecord(p) \/ WriteRefs(p) \/ DeleteRecord(p) \/ DeleteRefs(p)
  PROVE  Moving'
<1>1. /\ writes' = Tail(writes) /\ moving' = moving /\ pc' = pc /\ job' = job
      /\ \E op : WriteNext(p, op)
  BY DEF WriteRecord, WriteRefs, DeleteRecord, DeleteRefs, WriteNext
<1> SUFFICES ASSUME moving # {}
             PROVE  Moving'
  BY <1>1 DEF Moving
<1>2. PICK src \in Repos \cap rec, dst \in Repos \cap rec :
        /\ src # dst
        /\ \/ /\ moving \subseteq refs[src]
              /\ \E A, B \in SUBSET Pkgs :
                    /\ moving \subseteq A
                    /\ writes = MovePlan(src, dst, A, B) \/ writes = MoveRest(src, dst, A, B)
           \/ moving \subseteq refs[dst] /\ SaveOnly(writes, src)
  BY DEF Moving
<1>3. pc' = "save" /\ \A q \in Procs : job'[q].phase # "mark"
  BY <1>1 DEF Moving
<1>4. src \in RefKeys /\ dst \in RefKeys /\ refs \in [RefKeys -> SUBSET Pkgs]
  BY DEF RefKeys, TypeOK
<1>5. ASSUME NEW A \in SUBSET Pkgs, NEW B \in SUBSET Pkgs, moving \subseteq A,
             moving \subseteq refs[src], writes = MovePlan(src, dst, A, B)
      PROVE  Moving'
  <2>1. WriteRecord(p)
    <3>1. Head(writes).op = "put"
      BY <1>5, MovingHead
    <3> QED
      BY <3>1 DEF WriteRefs, DeleteRecord, DeleteRefs, WriteNext
  <2>2. rec \subseteq rec' /\ refs' = refs
    BY <2>1 DEF WriteRecord
  <2>3. src \in Repos \cap rec' /\ dst \in Repos \cap rec' /\ writes' = MoveRest(src, dst, A, B)
    BY <1>1, <1>5, <2>2, MovingHead
  <2> QED
    BY <1>1, <1>2, <1>3, <1>5, <2>2, <2>3 DEF Moving
<1>6. ASSUME NEW A \in SUBSET Pkgs, NEW B \in SUBSET Pkgs, moving \subseteq A,
             writes = MoveRest(src, dst, A, B)
      PROVE  Moving'
  <2> DEFINE w == Head(writes)
  <2>0. /\ w.op = "putrefs" /\ w.key = dst /\ w.pkgs = A
        /\ SaveOnly(Tail(writes), src)
    BY <1>6, RestHead
  <2>1. WriteRefs(p) /\ w.key = dst /\ w.pkgs = A
    BY <2>0 DEF WriteRecord, DeleteRecord, DeleteRefs, WriteNext
  <2>2. rec' = rec /\ refs' = [refs EXCEPT ![w.key] = w.pkgs]
    BY <2>1 DEF WriteRefs
  <2> HIDE DEF w
  <2>3. moving' \subseteq refs'[dst]
    BY <1>1, <1>4, <1>6, <2>1, <2>2
  <2>4. SaveOnly(writes, src)'
    BY <1>1, <2>0 DEF SaveOnly
  <2> QED
    BY <1>2, <1>3, <2>2, <2>3, <2>4 DEF Moving
<1>7. ASSUME moving \subseteq refs[dst], SaveOnly(writes, src)
      PROVE  Moving'
  <2> DEFINE w == Head(writes)
  <2>1. /\ w = writes[1] /\ 1 \in 1 .. Len(writes)
        /\ \A i \in 1 .. Len(writes') : i + 1 \in 1 .. Len(writes) /\ writes'[i] = writes[i + 1]
    BY <1>1, NextIndex
  <2>2. w.key = src /\ w.op \in {"put", "putrefs"}
    BY <1>7, <2>1 DEF SaveOnly
  <2>3. SaveOnly(writes, src)'
    BY <1>7, <2>1 DEF SaveOnly
  <2>4. WriteRecord(p) \/ WriteRefs(p)
    BY <2>2 DEF DeleteRecord, DeleteRefs, WriteNext
  <2>5. rec \subseteq rec' /\ (refs' = refs \/ refs' = [refs EXCEPT ![w.key] = w.pkgs])
    BY <2>4 DEF WriteRecord, WriteRefs
  <2> HIDE DEF w
  <2>7. refs'[dst] = refs[dst]
    BY <1>2, <1>4, <2>2, <2>5
  <2>6. src \in Repos \cap rec' /\ dst \in Repos \cap rec' /\ moving' \subseteq refs'[dst]
    BY <1>1, <1>7, <2>5, <2>7
  <2> QED
    BY <1>2, <1>3, <2>3, <2>6 DEF Moving
<1> QED
  BY <1>2, <1>5, <1>6, <1>7

(* The Put of a record keeps the invariant.                                *)
LEMMA WriteRecordSound ==
  ASSUME TypeOK, ListsInv, NEW p \in Procs, WriteRecord(p)
  PROVE  ListsInv'
<1> DEFINE w == Head(writes)
<1>1. /\ WriteNext(p, "put") /\ rec' = rec \cup {w.key} /\ stored' = stored /\ refs' = refs
      /\ sources' = [u \in Pubs |-> IF u = w.key THEN w.srcs ELSE sources[u]]
  BY DEF WriteRecord
<1>2. w = writes[1] /\ 1 \in 1 .. Len(writes) /\ w.op = "put" /\ w \in Write /\ writes' = Tail(writes)
  BY <1>1, NextIndex DEF WriteNext
<1>3. Saves(writes) \/ Creates(writes)
  BY <1>1, PlanKinds DEF ListsInv
<1>4. Moving'
  BY MovingLeft DEF ListsInv
<1>6. ASSUME NEW s \in Snaps \ stored, NEW S \in SUBSET Pkgs,
             writes = SaveSnap(s, S) \/ writes = <<PutRefs(s, S)>>
      PROVE  Sound(writes)' /\ w.key \notin Pubs
  <2>1. w = PutRec(s) /\ writes' = <<PutRefs(s, S)>>
    <3>1. \/ Head(writes) = PutRec(s) /\ Head(writes).op = "put" /\ Tail(writes) = <<PutRefs(s, S)>>
          \/ Head(writes) = PutRefs(s, S) /\ Head(writes).op = "putrefs" /\ Tail(writes) = << >>
      BY <1>6, CreatingHead
    <3> QED
      BY <1>2, <3>1
  <2>2. w.key = s
    <3>1. PutRec(s).key = s
      BY DEF PutRec, Key
    <3> QED
      BY <2>1, <3>1
  <2>3. Sound(writes)'
    BY <1>1, <2>1 DEF Sound, Creates
  <2> QED
    BY <2>2, <2>3, KindsAssumption
<1>7. Sound(writes)' /\ (w.key \in Pubs => Available(w.srcs))
  <2>1. CASE Saves(writes)
    <3>1. Sound(writes)'
      BY <1>1, <2>1, SavesLeft
    <3>2. w.key \in Pubs => Available(w.srcs)
      BY <1>2, <2>1 DEF Saves, Saved
    <3> QED
      BY <3>1, <3>2
  <2> QED
    BY <1>3, <1>6, <2>1 DEF Creates
<1> HIDE DEF w
<1>8. w.key \in Lists
  BY <1>2 DEF Write, WriteOf
<1>9. Known'
  <2>1. Owner(w.key) = w.key
    BY <1>8, OwnerFacts
  <2> QED
    BY <1>1, <2>1, KnownLeft DEF ListsInv, w
<1>10. PublishedSourcesExist'
  <2> SUFFICES ASSUME NEW u \in Pubs \cap rec', NEW i \in 1 .. Len(sources'[u])
               PROVE  /\ sources'[u][i] \in rec'
                      /\ sources'[u][i] \in Snaps => sources'[u][i] \in stored'
    BY DEF PublishedSourcesExist
  <2>1. CASE u = w.key
    <3>1. sources'[u] = w.srcs /\ Available(w.srcs)
      BY <1>1, <1>7, <2>1
    <3> QED
      BY <1>1, <3>1 DEF Available
  <2>2. CASE u # w.key
    <3>1. sources'[u] = sources[u] /\ u \in rec
      BY <1>1, <2>2
    <3> QED
      BY <1>1, <3>1 DEF ListsInv, PublishedSourcesExist
  <2> QED
    BY <2>1, <2>2
<1> QED
  BY <1>4, <1>7, <1>9, <1>10 DEF ListsInv

(* The Put of references adds a stored list and changes no record.         *)
LEMMA WriteRefsFrame ==
  ASSUME TypeOK, ListsInv, NEW p \in Procs, WriteRefs(p), Sound(writes)'
  PROVE  ListsInv'
<1>1. /\ WriteNext(p, "putrefs") /\ stored' = stored \cup {Head(writes).key}
      /\ UNCHANGED <<rec, sources>>
  BY DEF WriteRefs
<1>2. Known'
  BY <1>1, KnownLeft DEF ListsInv
<1>3. Moving'
  BY MovingLeft DEF ListsInv
<1>4. PublishedSourcesExist'
  BY <1>1 DEF ListsInv, PublishedSourcesExist
<1> QED
  BY <1>2, <1>3, <1>4 DEF ListsInv

(* The Put of references keeps the invariant, and changes no snapshot that *)
(* is stored.                                                              *)
LEMMA WriteRefsSound ==
  ASSUME TypeOK, ListsInv, NEW p \in Procs, WriteRefs(p)
  PROVE  ListsInv' /\ Head(writes).key \notin Snaps \cap stored
<1> DEFINE w == Head(writes)
<1>1. WriteNext(p, "putrefs") /\ stored' = stored \cup {w.key} /\ UNCHANGED <<rec, sources>>
  BY DEF WriteRefs
<1>2. w = writes[1] /\ 1 \in 1 .. Len(writes) /\ w.op = "putrefs" /\ writes' = Tail(writes)
  BY <1>1, NextIndex DEF WriteNext
<1>3. Saves(writes) \/ Creates(writes)
  BY <1>1, PlanKinds DEF ListsInv
<1>4. CASE Saves(writes)
  <2>1. Sound(writes)'
    BY <1>1, <1>4, SavesLeft
  <2>2. w.key \notin Snaps
    BY <1>2, <1>4 DEF Saves, Saved
  <2> QED
    BY <2>1, <2>2, WriteRefsFrame
<1>5. ASSUME NEW s \in Snaps \ stored, NEW S \in SUBSET Pkgs,
             writes = SaveSnap(s, S) \/ writes = <<PutRefs(s, S)>>
      PROVE  ListsInv' /\ w.key \notin Snaps \cap stored
  <2>1. w = PutRefs(s, S) /\ writes' = << >>
    <3>1. \/ Head(writes) = PutRec(s) /\ Head(writes).op = "put" /\ Tail(writes) = <<PutRefs(s, S)>>
          \/ Head(writes) = PutRefs(s, S) /\ Head(writes).op = "putrefs" /\ Tail(writes) = << >>
      BY <1>5, CreatingHead
    <3> QED
      BY <1>2, <3>1
  <2>2. w.key = s
    <3>1. PutRefs(s, S).key = s
      BY DEF PutRefs, Key
    <3> QED
      BY <2>1, <3>1
  <2>3. Sound(writes)'
    BY <2>1, NothingSound
  <2> QED
    BY <2>2, <2>3, WriteRefsFrame
<1> QED
  BY <1>3, <1>4, <1>5 DEF Creates

(* The Delete of a record keeps the invariant.                             *)
LEMMA DeleteRecordSound ==
  ASSUME TypeOK, ListsInv, NEW p \in Procs, DeleteRecord(p)
  PROVE  ListsInv'
<1> DEFINE w == Head(writes)
<1>1. WriteNext(p, "del") /\ rec' = rec \ {w.key} /\ UNCHANGED <<stored, refs, sources>>
  BY DEF DeleteRecord
<1>2. w = writes[1] /\ 1 \in 1 .. Len(writes) /\ w.op = "del" /\ w \in Write
  BY <1>1, NextIndex
<1>3. PICK l \in Lists :
        /\ PublishedBy(l) = {}
        /\ \A i \in 1 .. Len(writes) : writes[i].op \in {"del", "delrefs"} /\ Owner(writes[i].key) = l
  BY <1>1, PlanKinds DEF ListsInv, Drops
<1>4. Owner(w.key) = l
  BY <1>2, <1>3
<1> HIDE DEF w
<1>5. w.key = l
  <2>1. w.key \in Lists
    BY <1>2 DEF Write, WriteOf
  <2> QED
    BY <1>4, <2>1, OwnerFacts
<1>6. Sound(writes)'
  <2>1. l \notin rec' /\ rec' \subseteq rec
    BY <1>1, <1>5
  <2> QED
    BY <1>1, <1>3, <2>1, DropsLeft
<1>7. Known'
  BY <1>1, KnownLeft DEF ListsInv
<1>8. Moving'
  BY MovingLeft DEF ListsInv
<1>9. PublishedSourcesExist'
  <2> SUFFICES ASSUME NEW u \in Pubs \cap rec', NEW i \in 1 .. Len(sources[u])
               PROVE  /\ sources[u][i] \in rec'
                      /\ sources[u][i] \in Snaps => sources[u][i] \in stored
    BY <1>1 DEF PublishedSourcesExist
  <2>1. u \in Pubs \cap rec
    BY <1>1
  <2>2. sources[u][i] # l
    BY <1>3, <2>1 DEF PublishedBy
  <2> QED
    BY <1>1, <1>5, <2>1, <2>2 DEF ListsInv, PublishedSourcesExist
<1> QED
  BY <1>6, <1>7, <1>8, <1>9 DEF ListsInv

(* The Delete of references keeps the invariant: the record they belonged  *)
(* to is gone.                                                             *)
LEMMA DeleteRefsSound ==
  ASSUME TypeOK, ListsInv, NEW p \in Procs, DeleteRefs(p)
  PROVE  ListsInv' /\ Head(writes).key \notin Snaps \cap rec
<1> DEFINE w == Head(writes)
<1>1. WriteNext(p, "delrefs") /\ stored' = stored \ {w.key} /\ UNCHANGED <<rec, sources>>
  BY DEF DeleteRefs
<1>2. w = writes[1] /\ 1 \in 1 .. Len(writes) /\ writes # << >> /\ w.op = "delrefs"
  BY <1>1, NextIndex
<1>3. PICK l \in Lists :
        /\ PublishedBy(l) = {}
        /\ \A i \in 1 .. Len(writes) : writes[i].op \in {"del", "delrefs"} /\ Owner(writes[i].key) = l
        /\ writes # << >> /\ Head(writes).op = "delrefs" => l \notin rec
  BY <1>1, PlanKinds DEF ListsInv, Drops
<1>4. Owner(w.key) = l /\ l \notin rec
  BY <1>2, <1>3
<1>5. w.key \in Snaps => w.key = l
  BY <1>4, OwnerFacts DEF Lists
<1>6. Sound(writes)'
  BY <1>1, <1>3, <1>4, DropsLeft
<1>7. Known'
  BY <1>1, KnownLeft DEF ListsInv
<1>8. Moving'
  BY MovingLeft DEF ListsInv
<1> HIDE DEF w
<1>9. PublishedSourcesExist'
  <2> SUFFICES ASSUME NEW u \in Pubs \cap rec, NEW i \in 1 .. Len(sources[u])
               PROVE  /\ sources[u][i] \in rec
                      /\ sources[u][i] \in Snaps => sources[u][i] \in stored'
    BY <1>1 DEF PublishedSourcesExist
  <2>1. sources[u][i] # l
    BY <1>3 DEF PublishedBy
  <2> QED
    BY <1>1, <1>5, <2>1 DEF ListsInv, PublishedSourcesExist
<1> QED
  BY <1>4, <1>5, <1>6, <1>7, <1>8, <1>9 DEF ListsInv, w

----------------------------------------------------------------------------
(* The steps that write no list.                                           *)

(* Updates that go on keep their mirror, and none starts.                  *)
OnlyOldJobs ==
    \A q \in Procs : job'[q].phase # "none" =>
        /\ job[q].phase # "none" /\ job'[q].mirror = job[q].mirror
        /\ job'[q].phase = "mark" => job[q].phase = "mark"

(* New writes are planned, or none.                                        *)
LEMMA RestSound ==
  ASSUME ListsInv, UNCHANGED <<rec, stored, sources, refs, used>>, OnlyOldJobs,
         Sound(writes'), About(writes', used'),
         moving' = {} \/ (moving' = moving /\ pc' = pc /\ writes' = writes)
  PROVE  ListsInv'
<1>1. Sound(writes)'
  BY PlanSound
<1>2. Known'
  BY DEF ListsInv, Known, About, OnlyOldJobs
<1>3. PublishedSourcesExist'
  BY DEF ListsInv, PublishedSourcesExist
<1>4. Moving'
  <2>1. CASE moving' = {}
    BY <2>1 DEF Moving
  <2>2. CASE moving' = moving /\ moving' # {} /\ pc' = pc /\ writes' = writes
    <3>1. \A q \in Procs : job'[q].phase # "mark"
      BY <2>2 DEF ListsInv, Moving, OnlyOldJobs
    <3>2. Moving
      BY DEF ListsInv
    <3> QED
      BY <2>2, <3>1, <3>2 DEF Moving, SaveOnly
  <2> QED
    BY <2>1, <2>2
<1> QED
  BY <1>1, <1>2, <1>3, <1>4 DEF ListsInv

(* The writes that are planned stay, and so do the lists.                  *)
LEMMA StillSound ==
  ASSUME ListsInv, UNCHANGED <<rec, stored, sources, refs, used, writes>>, OnlyOldJobs,
         moving' = {} \/ (moving' = moving /\ pc' = pc)
  PROVE  ListsInv'
<1>1. Sound(writes') /\ About(writes', used')
  BY DEF ListsInv, Known
<1> QED
  BY <1>1, RestSound

(* The steps of mirror update start no update and keep the mirrors.        *)
LEMMA UpdateJobs ==
  ASSUME TypeOK, NEW p \in Procs, UpdateSteps(p)
  PROVE  OnlyOldJobs
<1>1. job \in [Procs -> Job] /\ job[p] \in Job
  BY DEF TypeOK
<1>2. CASE StartDownloads(p)
  BY <1>1, <1>2 DEF StartDownloads, Written, Job, OnlyOldJobs
<1>3. ASSUME NEW f \in Files,
             DownloadFile(p, f) \/ DownloadDone(p, f) \/ DownloadFailed(p, f) \/ ImportDownload(p, f)
      PROVE  OnlyOldJobs
  BY <1>1, <1>3, SMTT(30) DEF DownloadFile, DownloadDone, DownloadFailed, ImportDownload, Job, OnlyOldJobs
<1>4. ASSUME NEW more, Interrupt(p, more)
      PROVE  OnlyOldJobs
  BY <1>1, <1>4 DEF Interrupt, Job, OnlyOldJobs
<1>5. CASE ReOpenDatabase(p) \/ ReOpenFailed(p)
  BY <1>1, <1>5, SMTT(30) DEF ReOpenDatabase, ReOpenFailed, WorkersDone, Downloading, Job, OnlyOldJobs
<1>6. CASE DeferredUnlock(p)
  BY <1>1, <1>6 DEF DeferredUnlock, Job, OnlyOldJobs
<1>7. CASE GiveUp(p)
  BY <1>1, <1>7 DEF GiveUp, EndJob, NoJob, OnlyOldJobs
<1>8. CASE UpdateFailed(p) \/ FinalizeDownload(p) \/ \E f \in Files : ImportFailed(p, f)
  BY <1>8 DEF UpdateFailed, FinalizeDownload, ImportFailed, OnlyOldJobs
<1> QED
  BY <1>2, <1>3, <1>4, <1>5, <1>6, <1>7, <1>8 DEF UpdateSteps

(* The mirror written back as it was loaded, or with its new packages.     *)
LEMMA WriteBackSound ==
  ASSUME NEW p \in Procs, job[p].mirror \in Mirrors, job[p].mirror \in used,
         writes' = Unlock(p) \/ writes' = FinalWrites(p)
  PROVE  Sound(writes') /\ About(writes', used)
<1> DEFINE m == job[p].mirror
<1>1. ASSUME NEW w, NEW has, NEW S
      PROVE  /\ SaveMirror(m, w, job[p].conf, has, S) =
                   IF has THEN <<PutMirror(m, w, job[p].conf), PutRefs(m, S)>>
                          ELSE <<PutMirror(m, w, job[p].conf)>>
             /\ Saved(PutMirror(m, w, job[p].conf)) /\ Saved(PutRefs(m, S))
             /\ PutMirror(m, w, job[p].conf).key = m /\ PutRefs(m, S).key = m
             /\ Saves(SaveMirror(m, w, job[p].conf, has, S))
             /\ About(SaveMirror(m, w, job[p].conf, has, S), {m})
  <2> DEFINE r == PutMirror(m, w, job[p].conf)
  <2>1. r.op = "put" /\ r.key = m /\ m \in Mirrors \cup Repos
    BY DEF PutMirror, Key
  <2>2. SaveMirror(m, w, job[p].conf, has, S) = Save(r, has, S)
    BY DEF SaveMirror
  <2> HIDE DEF r, m
  <2>3. Save(r, has, S) = IF has THEN <<r, PutRefs(m, S)>> ELSE <<r>>
    BY <2>1 DEF Save
  <2>4. Saved(r) /\ Saved(PutRefs(m, S)) /\ PutRefs(m, S).key = m
    <3>1. PutRefs(m, S).op = "putrefs" /\ PutRefs(m, S).key = m
      BY DEF PutRefs, Key
    <3> QED
      BY <2>1, <3>1, SavedKey
  <2>5. Saves(Save(r, has, S)) /\ About(Save(r, has, S), {m})
    BY <2>1, SaveSound
  <2> QED
    BY <2>1, <2>2, <2>3, <2>4, <2>5 DEF r
<1>2. CASE writes' = Unlock(p)
  <2>1. Saves(writes') /\ About(writes', {m})
    BY <1>1, <1>2 DEF Unlock
  <2> QED
    BY <2>1, AboutOne DEF Sound
<1>3. CASE writes' = FinalWrites(p)
  <2> DEFINE a == PutMirror(m, p, job[p].conf)
             b == PutRefs(m, job[p].want)
             c == PutMirror(m, NoProc, job[p].conf)
  <2>1. Saved(a) /\ Saved(b) /\ Saved(c) /\ a.key = m /\ b.key = m /\ c.key = m
    BY <1>1
  <2>2. writes' = <<a, b>> \o <<c, b>>
    BY <1>3, <1>1 DEF FinalWrites
  <2>3. Owner(m) = m
    BY OwnerFacts DEF Lists
  <2> HIDE DEF a, b, c, m
  <2>4. writes' = <<a, b, c, b>>
    BY <2>2, FourWrites
  <2>5. \A i \in 1 .. Len(<<a, b, c, b>>) : <<a, b, c, b>>[i] \in {a, b, c}
    BY SMTT(30)
  <2>6. Saves(writes') /\ About(writes', {m})
    BY <2>1, <2>3, <2>4, <2>5 DEF Saves, About
  <2> QED
    BY <2>6, AboutOne DEF Sound, m
<1> QED
  BY <1>2, <1>3

(* The steps of mirror update keep the invariant.                          *)
LEMMA UpdateStepsSound ==
  ASSUME TypeOK, Shape, ListsInv, NEW p \in Procs, UpdateSteps(p)
  PROVE  ListsInv'
<1>1. OnlyOldJobs
  BY UpdateJobs
<1>2. CASE StartDownloads(p)
  <2>1. UNCHANGED <<rec, stored, sources, refs, used, writes, moving>> /\ job[p].phase = "mark"
    BY <1>2 DEF StartDownloads, dbvars, planvars
  <2>2. moving' = {}
    BY <2>1 DEF ListsInv, Moving
  <2> QED
    BY <1>1, <2>1, <2>2, StillSound
<1>3. ASSUME NEW f \in Files,
             DownloadFile(p, f) \/ DownloadDone(p, f) \/ DownloadFailed(p, f) \/ ImportDownload(p, f)
      PROVE  ListsInv'
  <2>1. UNCHANGED <<rec, stored, sources, refs, used, writes, moving, pc>>
    BY <1>3
    DEF DownloadFile, DownloadDone, DownloadFailed, ImportDownload, DownloadOnly, dbvars, planvars
  <2> QED
    BY <1>1, <2>1, StillSound
<1>4. ASSUME NEW more, Interrupt(p, more)
      PROVE  ListsInv'
  <2>1. UNCHANGED <<rec, stored, sources, refs, used, writes, moving, pc>>
    BY <1>4 DEF Interrupt, DownloadOnly, dbvars, planvars
  <2> QED
    BY <1>1, <2>1, StillSound
<1>5. CASE ReOpenFailed(p) \/ GiveUp(p)
  <2>1. UNCHANGED <<rec, stored, sources, refs, used, writes, moving, pc>>
    BY <1>5 DEF ReOpenFailed, GiveUp, dbvars, planvars
  <2> QED
    BY <1>1, <2>1, StillSound
<1>6. CASE ReOpenDatabase(p)
  <2>1. UNCHANGED <<rec, stored, sources, refs, used, writes, moving>> /\ pc # "save"
    BY <1>6 DEF ReOpenDatabase, Shape, dbvars, planvars
  <2>2. moving' = {}
    BY <2>1 DEF ListsInv, Moving
  <2> QED
    BY <1>1, <2>1, <2>2, StillSound
<1>7. ASSUME UNCHANGED <<rec, stored, sources, refs, used, moving>>, pc # "save", job[p].phase # "none",
             writes' = Unlock(p) \/ writes' = FinalWrites(p)
      PROVE  ListsInv'
  <2>1. moving' = {} /\ job[p].mirror \in Mirrors /\ job[p].mirror \in used
    BY <1>7 DEF ListsInv, Moving, Known, Shape
  <2>2. Sound(writes') /\ About(writes', used)
    BY <1>7, <2>1, WriteBackSound
  <2> QED
    BY <1>1, <1>7, <2>1, <2>2, RestSound
<1>8. CASE DeferredUnlock(p)
  BY <1>7, <1>8 DEF DeferredUnlock, Shape, dbvars
<1>9. CASE UpdateFailed(p) \/ FinalizeDownload(p) \/ \E f \in Files : ImportFailed(p, f)
  <2>1. Importing(p)
    BY <1>9 DEF UpdateFailed, FinalizeDownload, ImportFailed
  <2>2. pc # "save" /\ job[p].phase # "none"
    BY <2>1 DEF Importing, Shape
  <2> QED
    BY <1>7, <1>9, <2>2 DEF UpdateFailed, FinalizeDownload, ImportFailed, dbvars
<1> QED
  BY <1>2, <1>3, <1>4, <1>5, <1>6, <1>8, <1>9 DEF UpdateSteps

(* Other steps change neither the lists nor the writes, or forget them.    *)
LEMMA OtherStepsSound ==
  ASSUME TypeOK, Shape, ListsInv, NEW p \in Procs,
         \/ OpenDatabase(p) \/ CloseDatabase(p) \/ CleanupSteps(p) \/ Crashes(p) \/ CommandDone(p)
         \/ \E q \in Pkgs : \/ ImportFiles(p, q) \/ StorePackage(p, q)
                            \/ \E fs \in SUBSET FilesOf[q] : ImportRefused(p, q, fs)
  PROVE  ListsInv'
<1>0. job \in [Procs -> Job]
  BY DEF TypeOK
<1>1. CASE OpenDatabase(p) \/ CloseDatabase(p)
  <2>1. UNCHANGED <<rec, stored, sources, refs, used, writes, moving, pc, job>>
    BY <1>1 DEF OpenDatabase, CloseDatabase, dbvars, planvars
  <2> QED
    BY <2>1, StillSound DEF OnlyOldJobs
<1>2. ASSUME NEW q \in Pkgs, NEW fs, ImportFiles(p, q) \/ StorePackage(p, q) \/ ImportRefused(p, q, fs)
      PROVE  ListsInv'
  <2>1. UNCHANGED <<rec, stored, sources, refs, used, writes, moving, pc, job>>
    BY <1>2 DEF ImportFiles, StorePackage, ImportRefused, dbvars
  <2> QED
    BY <2>1, StillSound DEF OnlyOldJobs
<1>3. CASE CommandDone(p)
  <2>1. UNCHANGED <<rec, stored, sources, refs, used, writes>> /\ moving' = {}
    BY <1>3 DEF CommandDone, dbvars, planvars
  <2>2. OnlyOldJobs
    BY <1>0, <1>3 DEF CommandDone, EndJob, NoJob, OnlyOldJobs
  <2> QED
    BY <2>1, <2>2, StillSound
<1>4. CASE Crashes(p)
  <2>1. Dies(p)
    BY <1>4 DEF Crashes, Crash, CrashImporting, CrashStoring
  <2>2. OnlyOldJobs
    BY <1>0, <2>1 DEF Dies, EndJob, NoJob, OnlyOldJobs
  <2>3. UNCHANGED <<rec, stored, sources, refs, used>>
    BY <2>1 DEF Dies
  <2>4. CASE holder = p
    <3>1. moving' = {} /\ writes' = << >>
      BY <2>1, <2>4 DEF Dies
    <3> QED
      BY <2>2, <2>3, <3>1, NothingSound, RestSound
  <2>5. CASE holder # p
    <3>1. UNCHANGED <<moving, writes, pc>>
      BY <2>1, <2>5 DEF Dies, planvars
    <3> QED
      BY <2>2, <2>3, <3>1, StillSound
  <2> QED
    BY <2>4, <2>5
<1>5. CASE CleanupSteps(p)
  <2>1. UNCHANGED <<rec, stored, sources, refs, used, writes, moving>> /\ pc # "save"
    BY <1>5
    DEF CleanupSteps, Cleanup, Ready, DeletePackages, ScanPool, RemoveFile, CleanupDone, dbvars, planvars
  <2>2. moving' = {}
    BY <2>1 DEF ListsInv, Moving
  <2>3. OnlyOldJobs
    <3>1. CASE job' = job
      BY <3>1 DEF OnlyOldJobs
    <3>2. ASSUME NEW x \in unlink, RemoveFile(p, x)
          PROVE  OnlyOldJobs
      BY <1>0, <3>2 DEF RemoveFile, Job, OnlyOldJobs
    <3> QED
      BY <1>5, <3>1, <3>2 DEF CleanupSteps, Cleanup, DeletePackages, ScanPool, CleanupDone
  <2> QED
    BY <2>1, <2>2, <2>3, StillSound
<1> QED
  BY <1>1, <1>2, <1>3, <1>4, <1>5

(* Only two steps change references.                                       *)
LEMMA RefsSteps ==
  ASSUME Next
  PROVE  \E p \in Procs : refs' = refs \/ WriteRefs(p) \/ DeleteRefs(p)
<1> PICK p \in Procs :
       \/ OpenDatabase(p) \/ CloseDatabase(p)
       \/ MirrorCommands(p) \/ RepoCommands(p) \/ SnapshotCommands(p) \/ PublishCommands(p)
       \/ Steps(p) \/ UpdateSteps(p) \/ CleanupSteps(p) \/ Crashes(p)
  BY DEF Next
<1>1. CASE OpenDatabase(p) \/ CloseDatabase(p)
  BY <1>1 DEF OpenDatabase, CloseDatabase, dbvars
<1>2. CASE MirrorCommands(p) \/ RepoCommands(p) \/ SnapshotCommands(p) \/ PublishCommands(p)
  BY <1>2, CommandPlans DEF Plan
<1>3. CASE Steps(p)
  BY <1>3
  DEF Steps, ImportFiles, ImportRefused, StorePackage, WriteRecord, DeleteRecord, CommandDone, dbvars
<1>4. CASE UpdateSteps(p)
  BY <1>4
  DEF UpdateSteps, StartDownloads, DownloadFile, DownloadDone, DownloadFailed, ImportDownload,
      ImportFailed, Interrupt, ReOpenDatabase, ReOpenFailed, DeferredUnlock, GiveUp,
      UpdateFailed, FinalizeDownload, DownloadOnly, dbvars
<1>5. CASE CleanupSteps(p)
  BY <1>5 DEF CleanupSteps, Cleanup, DeletePackages, ScanPool, RemoveFile, CleanupDone, dbvars
<1>6. CASE Crashes(p)
  BY <1>6 DEF Crashes, Crash, CrashImporting, CrashStoring, Dies
<1> QED
  BY <1>1, <1>2, <1>3, <1>4, <1>5, <1>6

(* Every step of the system keeps the invariant.                           *)
LEMMA ListsStep ==
  ASSUME TypeOK, TypeOK', Shape, ListsInv, [Next]_vars
  PROVE  ListsInv'
<1>1. ASSUME NEW p \in Procs, Steps(p)
      PROVE  ListsInv'
  BY <1>1, OtherStepsSound, WriteRecordSound, WriteRefsSound, DeleteRecordSound, DeleteRefsSound
  DEF Steps
<1>2. CASE UNCHANGED vars
  <2>1. UNCHANGED <<rec, stored, sources, refs, used, writes, moving, pc, job>>
    BY <1>2 DEF vars, dbvars, planvars
  <2> QED
    BY <2>1, StillSound DEF OnlyOldJobs
<1> QED
  BY <1>1, <1>2, OtherStepsSound, CommandsSound, UpdateStepsSound DEF Next

(* Lists stay known, plans stay sound, what is published stays loadable    *)
(* and repo moves stay in order, in every reachable state.                 *)
THEOREM ListsInvariant == Spec => []ListsInv
<1>1. Init => ListsInv
  <2> SUFFICES ASSUME Init PROVE ListsInv
    OBVIOUS
  <2>1. \A i \in 1 .. Len(writes) : FALSE
    BY SMTT(30) DEF Init
  <2>2. Known
    BY <2>1 DEF Init, Known, About, NoJob
  <2> QED
    BY <2>1, <2>2 DEF Init, ListsInv, Sound, Saves, PublishedSourcesExist, Moving
<1>2. TypeOK /\ Shape /\ TypeOK' /\ ListsInv /\ [Next]_vars => ListsInv'
  BY ListsStep
<1> QED
  BY <1>1, <1>2, TypeCorrect, PTL DEF Spec

(* The sources of every published repository can be loaded, whatever is    *)
(* dropped, interrupted or crashes (BySnapshot and ByLocalRepo, checked    *)
(* when a drop starts).                                                    *)
THEOREM PublishedSources == Spec => []PublishedSourcesExist
<1>1. ListsInv => PublishedSourcesExist
  BY DEF ListsInv
<1> QED
  BY <1>1, ListsInvariant, PTL

(* At every moment of a repo move every package that is moved is in the    *)
(* source or in the destination (aptlyRepoMoveCopyImport saves the         *)
(* destination first).                                                     *)
THEOREM MovesLoseNothing == Spec => []MoveLosesNothing
<1>1. ListsInv => MoveLosesNothing
  BY DEF ListsInv, Moving, MoveLosesNothing
<1> QED
  BY <1>1, ListsInvariant, PTL

(* No step changes the references of a snapshot that exists                *)
(* (SnapshotCollection: no command updates one, drops delete the record    *)
(* first).                                                                 *)
THEOREM SnapshotsImmutable == Spec => SnapshotImmutable
<1> DEFINE Same == \A s \in Snaps : s \in rec \cap stored /\ s \in rec' => refs'[s] = refs[s]
<1>1. TypeOK /\ ListsInv /\ [Next]_vars => [Same]_vars
  <2> SUFFICES ASSUME TypeOK, ListsInv, Next, NEW s \in Snaps, s \in rec \cap stored
               PROVE  refs'[s] = refs[s]
    BY DEF Same
  <2>1. PICK p \in Procs : refs' = refs \/ WriteRefs(p) \/ DeleteRefs(p)
    BY RefsSteps
  <2>2. s \in RefKeys /\ refs \in [RefKeys -> SUBSET Pkgs]
    BY DEF RefKeys, TypeOK
  <2>3. CASE WriteRefs(p)
    <3>1. Head(writes).key # s
      BY <2>3, WriteRefsSound
    <3>2. refs' = [refs EXCEPT ![Head(writes).key] = Head(writes).pkgs]
      BY <2>3 DEF WriteRefs
    <3> QED
      BY <2>2, <3>1, <3>2
  <2>4. CASE DeleteRefs(p)
    <3>1. Head(writes).key # s
      BY <2>4, DeleteRefsSound
    <3>2. refs' = [refs EXCEPT ![Head(writes).key] = {}]
      BY <2>4 DEF DeleteRefs
    <3> QED
      BY <2>2, <3>1, <3>2
  <2> QED
    BY <2>1, <2>3, <2>4
<1> QED
  BY <1>1, ListsInvariant, TypeCorrect, PTL DEF SnapshotImmutable, Spec

-----------------------------------------------------------------------------
(***************************************************************************)
(* The inductive invariant behind the safety of the catalogue, and why the *)
(* commands keep it: what they plan to write refers to packages that are   *)
(* stored or are about to be, and belongs to lists nobody is away with.    *)
(***************************************************************************)

(* Packages that db cleanup may delete although they are referenced: none, *)
(* until an unsorted list may have been stored; and those that a reference *)
(* can count on up to that.                                                *)
Lost == {q \in Pkgs : "order" \in waived}
Sure == Complete \cup Lost

(* A write to one of the lists L that makes references to the packages in  *)
(* K live, or to those in todo, which are still to be stored, and gives a  *)
(* mirror no settings older than those it has.                             *)
Planned(w, L, K, todo, c) ==
    /\ Owner(w.key) \in L
    /\ w.op = "put" =>
          /\ w.conf = c
          /\ w.key \in Mirrors \cap rec => conf[w.key] <= c
          /\ \A k \in stored \cap KeysOf(w.key, w.srcs) : refs[k] \subseteq K
    /\ w.op = "putrefs" => w.pkgs \subseteq K \cup todo

(* No database key belongs to a list whose UUID was not handed out, and    *)
(* the references of a list that has none stored are empty.                *)
Used ==
    /\ rec \subseteq used
    /\ \A k \in stored : Owner(k) \in used
    /\ \A k \in RefKeys \ stored : refs[k] = {}
    /\ \A p \in Procs : job[p].phase # "none" => job[p].mirror \in used

(* Process p has closed the database and counts on its mirror's lock.      *)
Away(p) == job[p].phase \in {"download", "unlock"}

(* What is left to write is about lists nobody is away with.               *)
Pending ==
    \E L \in SUBSET used, c \in 0 .. MaxConf :
        /\ \A i \in 1 .. Len(writes) : Planned(writes[i], L, Sure, incoming \cup store, c)
        /\ \A p \in Procs : Away(p) => job[p].mirror \notin L

(* The mirror in the database is the one that p loaded.                    *)
Loaded(p) ==
    LET m == job[p].mirror IN
    /\ m \in rec
    /\ conf[m] = job[p].conf
    /\ refs[m] = job[p].old /\ (m \in stored <=> job[p].had)

Mine(p) == Loaded(p) /\ worker[job[p].mirror] = p

(* Process p is about to mark its mirror, has written the record, or both  *)
(* the record and the references.                                          *)
Marking(p) ==
    LET m == job[p].mirror IN
    /\ Loaded(p)
    /\ \/ writes = SaveMirror(m, p, job[p].conf, job[p].had, job[p].old)
       \/ Mine(p) /\ job[p].had /\ writes = <<PutRefs(m, job[p].old)>>
       \/ Mine(p) /\ writes = << >>

(* No two processes update one mirror, and a process that is away, or back *)
(* to import what it downloaded, finds its mirror as it left it.           *)
Lock ==
    \A p \in Procs :
        /\ \A q \in Procs \ {p} : job[p].phase # "none" => job[p].mirror # job[q].mirror
        /\ Away(p) \/ Importing(p) => Mine(p)
        /\ job[p].phase = "mark" => Marking(p)

(* References are complete, and db cleanup is about to delete none of     *)
(* them, or an unsorted list may have been stored.                        *)
Refs ==
    /\ Referenced \subseteq Sure
    /\ pc = "purge" => doomed \cap Referenced \subseteq Lost

(* The inductive invariant.                                                *)
Safe == "force" \notin waived => Used /\ Pending /\ Lock /\ Refs

----------------------------------------------------------------------------

(* Plans that hold with some packages hold with more.                      *)
LEMMA PlannedMore ==
  ASSUME NEW w, NEW L, NEW K, NEW M, NEW todo, NEW c, Planned(w, L, K, todo, c), K \subseteq M
  PROVE  Planned(w, L, M, todo, c)
BY DEF Planned

(* What is referenced depends on the lists in the database only.           *)
LEMMA SameReferenced ==
  ASSUME UNCHANGED <<rec, sources, stored, refs>>
  PROVE  Referenced' = Referenced
BY DEF Referenced, LiveKeys, SourcesOf

(* A reference list that a write leaves as it is, or fills with packages   *)
(* that are stored.                                                        *)
Harmless(k) == refs'[k] \subseteq Sure \/ (k \in stored /\ refs'[k] = refs[k])

(* Writes that are planned well stay so when another one is carried out.   *)
LEMMA StillPlanned ==
  ASSUME NEW L, NEW T, NEW c, NEW i, Planned(writes'[i], L, Sure, T, c),
         Sure \subseteq Sure', incoming' \cup store' = T,
         \A m \in Mirrors \cap rec' : (m \in rec => conf[m] <= c) => conf'[m] <= c,
         \A k \in stored' : Harmless(k)
  PROVE  Planned(writes[i], L, Sure, incoming \cup store, c)'
<1> DEFINE v == writes'[i]
<1>1. /\ Owner(v.key) \in L
      /\ v.op = "putrefs" => v.pkgs \subseteq Sure' \cup (incoming' \cup store')
  BY DEF Planned
<1>2. ASSUME v.op = "put"
      PROVE  /\ v.conf = c
             /\ v.key \in Mirrors \cap rec' => conf'[v.key] <= c
             /\ \A k \in stored' \cap KeysOf(v.key, v.srcs) : refs'[k] \subseteq Sure'
  <2>1. /\ v.conf = c /\ (v.key \in Mirrors \cap rec => conf[v.key] <= c)
        /\ \A k \in stored \cap KeysOf(v.key, v.srcs) : refs[k] \subseteq Sure
    BY <1>2 DEF Planned
  <2> HIDE DEF v
  <2> QED
    BY <2>1 DEF Harmless
<1> QED
  BY <1>1, <1>2 DEF Planned

(* References stay complete when lists go and reference lists change       *)
(* harmlessly.                                                             *)
LEMMA StillReferenced ==
  ASSUME Refs, Sure \subseteq Sure', pc' # "purge", rec' \subseteq rec, sources' = sources,
         \A k \in stored' : Harmless(k)
  PROVE  Refs'
<1>1. \A l : SourcesOf(l)' = SourcesOf(l)
  BY DEF SourcesOf
<1>2. ASSUME NEW k \in LiveKeys'
      PROVE  refs'[k] \subseteq Sure
  <2>1. k \in stored' /\ \E l \in rec : k \in KeysOf(l, SourcesOf(l))
    BY <1>1, <1>2 DEF LiveKeys
  <2>2. CASE k \in stored /\ refs'[k] = refs[k]
    <3>1. k \in LiveKeys
      BY <2>1, <2>2 DEF LiveKeys
    <3> QED
      BY <2>2, <3>1 DEF Refs, Referenced
  <2> QED
    BY <2>1, <2>2 DEF Harmless
<1> QED
  BY <1>2 DEF Refs, Referenced

(* A mirror's key is not one of the keys of other lists.                   *)
LEMMA OtherKey ==
  ASSUME NEW m \in Mirrors, NEW L, NEW k, Owner(k) \in L, m \notin L
  PROVE  m # k /\ m \in RefKeys
<1>1. m \in Lists /\ m \in RefKeys
  BY DEF Lists, RefKeys
<1>2. Owner(m) = m
  BY <1>1, OwnerFacts
<1> QED
  BY <1>1, <1>2

(* Steps that change no list in the database.                              *)
LEMMA FrameSafe ==
  ASSUME TypeOK, Shape, Shape', Used, Lock, Refs, job' \in [Procs -> Job],
         UNCHANGED <<rec, worker, conf, sources, stored, refs>>, used \subseteq used',
         Referenced \subseteq Sure', pc' = "purge" => doomed' \cap Referenced \subseteq Lost',
         \A q \in Procs : job'[q].phase # "none" =>
             /\ job[q].phase # "none" /\ job'[q].mirror = job[q].mirror
             /\ job'[q].had = job[q].had /\ job'[q].old = job[q].old /\ job'[q].conf = job[q].conf,
         \A q \in Procs : (Away(q) \/ Importing(q))' => Mine(q),
         \A q \in Procs : job'[q].phase = "mark" => job[q].phase = "mark" /\ writes' = writes
  PROVE  Used' /\ Lock' /\ Refs'
<1>1. Used'
  BY DEF Used
<1>2. Refs'
  BY SameReferenced DEF Refs
<1>3. ASSUME NEW q \in Procs, job'[q].phase # "none"
      PROVE  Loaded(q)' = Loaded(q) /\ Mine(q)' = Mine(q)
  BY <1>3 DEF Loaded, Mine
<1>4. ASSUME NEW p \in Procs, NEW q \in Procs \ {p}, job'[p].phase # "none"
      PROVE  job'[p].mirror # job'[q].mirror
  BY <1>4, ProcAssumption, SMTT(30) DEF Lock, Shape
<1>5. ASSUME NEW p \in Procs, (Away(p) \/ Importing(p))'
      PROVE  Mine(p)'
  <2>1. job'[p].phase # "none"
    BY <1>5 DEF Away, Importing, Shape
  <2> QED
    BY <1>3, <1>5, <2>1
<1>6. ASSUME NEW p \in Procs, job'[p].phase = "mark"
      PROVE  Marking(p)'
  <2>1. Marking(p)
    BY <1>6 DEF Lock
  <2> QED
    BY <1>3, <1>6, <2>1 DEF Marking
<1> QED
  BY <1>1, <1>2, <1>4, <1>5, <1>6 DEF Lock

(* Nothing more is planned, and nobody goes away before all is written.    *)
LEMMA FramePending ==
  ASSUME Pending, UNCHANGED <<rec, conf, stored, refs>>, used \subseteq used',
         writes' = writes, Sure \subseteq Sure',
         incoming \cup store \subseteq incoming' \cup store' \cup Sure',
         \A q \in Procs : Away(q)' => Away(q) /\ job'[q].mirror = job[q].mirror
  PROVE  Pending'
<1>1. PICK L \in SUBSET used, c \in 0 .. MaxConf :
        /\ \A i \in 1 .. Len(writes) : Planned(writes[i], L, Sure, incoming \cup store, c)
        /\ \A p \in Procs : Away(p) => job[p].mirror \notin L
  BY DEF Pending
<1>2. \A i \in 1 .. Len(writes') : Planned(writes[i], L, Sure, incoming \cup store, c)'
  BY <1>1 DEF Planned
<1>3. L \in SUBSET used' /\ \A p \in Procs : Away(p)' => job'[p].mirror \notin L
  BY <1>1
<1> QED
  BY <1>2, <1>3 DEF Pending

(* Nothing is pending once everything is written.                          *)
LEMMA NothingPending ==
  ASSUME writes' = << >>
  PROVE  Pending'
<1>1. 0 \in 0 .. MaxConf /\ {} \in SUBSET used'
  BY BoundsAssumption, SMTT(30)
<1>2. \A i \in 1 .. Len(writes') : FALSE
  BY SMTT(30)
<1> QED
  BY <1>1, <1>2 DEF Pending

----------------------------------------------------------------------------
(* What commands plan.                                                     *)

(* References stored under the keys of an existing or brand new list are   *)
(* live.                                                                   *)
LEMMA LiveRefs ==
  ASSUME TypeOK, Used, NEW l \in Lists, l \in rec \/ l \notin used,
         NEW srcs \in AnySources, l \in Pubs => srcs = sources[l] \/ l \notin used,
         NEW k \in stored \cap KeysOf(l, srcs)
  PROVE  refs[k] \subseteq Referenced
<1>1. Owner(k) = l
  BY OwnerFacts
<1>2. l \in used
  BY <1>1 DEF Used
<1>3. k \in KeysOf(l, SourcesOf(l))
  BY <1>2 DEF KeysOf, SourcesOf
<1> QED
  BY <1>2, <1>3 DEF Referenced, LiveKeys

(* References are to packages.                                             *)
LEMMA ReferencedType ==
  ASSUME TypeOK
  PROVE  Referenced \subseteq Pkgs
<1>1. ASSUME NEW k \in LiveKeys
      PROVE  refs[k] \subseteq Pkgs
  <2>1. k \in RefKeys
    BY DEF TypeOK, LiveKeys
  <2> QED
    BY <2>1 DEF TypeOK
<1> QED
  BY <1>1 DEF Referenced

(* What a mirror, local repository or snapshot in the database refers to   *)
(* is live (LoadComplete).                                                 *)
LEMMA KnownRefs ==
  ASSUME TypeOK, Used, NEW l \in rec, l \in Mirrors \cup Repos \cup Snaps
  PROVE  refs[l] \subseteq Referenced
<1>1. l \in Lists /\ l \in RefKeys /\ l \notin Pubs
  BY KindsAssumption DEF Lists, RefKeys
<1>2. CASE l \in stored
  BY <1>1, <1>2 DEF Referenced, LiveKeys, KeysOf, SourcesOf
<1>3. CASE l \notin stored
  BY <1>1, <1>3 DEF Used
<1> QED
  BY <1>2, <1>3

(* Writing the record of an existing or new list makes no other references *)
(* live.                                                                   *)
LEMMA PutPlanned ==
  ASSUME TypeOK, Used, NEW l \in Mirrors \cup Repos \cup Snaps, l \in rec \/ l \notin used,
         NEW w, w.op = "put", w.key = l, w.srcs = << >>,
         l \in Mirrors \cap rec => conf[l] <= w.conf, NEW todo, NEW L, l \in L
  PROVE  Planned(w, L, Referenced, todo, w.conf)
<1>1. l \in Lists /\ l \notin Pubs /\ << >> \in AnySources
  BY KindsAssumption DEF Lists, AnySources
<1>2. \A k \in stored \cap KeysOf(l, << >>) : refs[k] \subseteq Referenced
  BY <1>1, LiveRefs
<1>3. Owner(l) = l
  BY <1>1, OwnerFacts
<1> QED
  BY <1>2, <1>3 DEF Planned

(* Writing references to packages that are referenced already, or about to *)
(* be stored.                                                              *)
LEMMA PutRefsPlanned ==
  ASSUME NEW k, NEW L, Owner(k) \in L, NEW todo, NEW c, NEW S, S \subseteq Referenced \cup todo
  PROVE  Planned(PutRefs(k, S), L, Referenced, todo, c)
BY DEF Planned, PutRefs, Key

(* Update of a local repository or a snapshot.                             *)
LEMMA SavePlanned ==
  ASSUME TypeOK, Used, NEW l \in Repos \cup Snaps, l \in rec \/ l \notin used,
         NEW todo, NEW S, S \subseteq Referenced \cup todo, NEW L, l \in L
  PROVE  /\ Len(SaveRepo(l, S)) = 2 /\ SaveSnap(l, S) = SaveRepo(l, S)
         /\ \A i \in 1 .. 2 : Planned(SaveRepo(l, S)[i], L, Referenced, todo, 0)
<1>1. SaveRepo(l, S) = <<PutRec(l), PutRefs(l, S)>> /\ SaveSnap(l, S) = SaveRepo(l, S)
  BY DEF SaveRepo, SaveSnap, Save, PutRec, Key
<1>2. l \notin Mirrors /\ l \in Lists
  BY KindsAssumption DEF Lists
<1>3. Planned(PutRec(l), L, Referenced, todo, 0)
  <2>1. PutRec(l).op = "put" /\ PutRec(l).key = l /\ PutRec(l).srcs = << >> /\ PutRec(l).conf = 0
    BY DEF PutRec, Key
  <2> QED
    BY <1>2, <2>1, PutPlanned
<1>4. Planned(PutRefs(l, S), L, Referenced, todo, 0)
  BY <1>2, OwnerFacts, PutRefsPlanned
<1> QED
  BY <1>1, <1>3, <1>4, SMTT(30)

(* Update of a mirror with settings no older than those in the database.   *)
LEMMA SaveMirrorPlanned ==
  ASSUME TypeOK, Used, NEW m \in Mirrors, m \in rec, NEW w, NEW c, conf[m] <= c,
         NEW has \in BOOLEAN, NEW todo, NEW S, has => S \subseteq Referenced \cup todo
  PROVE  \A i \in 1 .. Len(SaveMirror(m, w, c, has, S)) :
            Planned(SaveMirror(m, w, c, has, S)[i], {m}, Referenced, todo, c)
<1> DEFINE r == PutMirror(m, w, c)
<1>1. r.op = "put" /\ r.key = m /\ r.srcs = << >> /\ r.conf = c
  BY DEF PutMirror, Key
<1>2. Planned(r, {m}, Referenced, todo, c)
  <2> HIDE DEF r
  <2> QED
    BY <1>1, PutPlanned
<1>3. has => Planned(PutRefs(m, S), {m}, Referenced, todo, c)
  <2>1. Owner(m) = m
    BY OwnerFacts DEF Lists
  <2> QED
    BY <2>1, PutRefsPlanned
<1>4. SaveMirror(m, w, c, has, S) = IF has THEN <<r, PutRefs(m, S)>> ELSE <<r>>
  BY <1>1 DEF SaveMirror, Save
<1> HIDE DEF r
<1>5. CASE has
  BY <1>2, <1>3, <1>4, <1>5, SMTT(30)
<1>6. CASE ~has
  BY <1>2, <1>4, <1>6, SMTT(30)
<1> QED
  BY <1>5, <1>6

(* Two plans of two writes each, one after the other.                      *)
LEMMA ConcatPlanned ==
  ASSUME NEW a \in Seq(Write), NEW b \in Seq(Write), Len(a) = 2, Len(b) = 2, NEW L, NEW K, NEW todo, NEW c,
         \A i \in 1 .. Len(a) : Planned(a[i], L, K, todo, c), \A i \in 1 .. Len(b) : Planned(b[i], L, K, todo, c)
  PROVE  \A i \in 1 .. Len(a \o b) : Planned((a \o b)[i], L, K, todo, c)
<1>1. /\ Len(a \o b) = Len(a) + Len(b)
      /\ \A i \in 1 .. Len(a) + Len(b) : (a \o b)[i] = IF i <= Len(a) THEN a[i] ELSE b[i - Len(a)]
  BY ConcatProperties
<1>2. SUFFICES ASSUME NEW i \in 1 .. Len(a) + Len(b)
               PROVE  Planned((a \o b)[i], L, K, todo, c)
  BY <1>1
<1>3. CASE i <= Len(a)
  <2>1. i \in 1 .. Len(a)
    BY <1>3, SMTT(30)
  <2>2. (a \o b)[i] = a[i]
    BY <1>1, <1>3
  <2> QED
    BY <2>1, <2>2
<1>4. CASE ~(i <= Len(a))
  <2>1. i - Len(a) \in 1 .. Len(b)
    BY <1>4, SMTT(30)
  <2>2. (a \o b)[i] = b[i - Len(a)]
    BY <1>1, <1>4
  <2> QED
    BY <2>1, <2>2
<1> QED
  BY <1>3, <1>4

(* Drop only deletes.                                                      *)
LEMMA DropPlanned ==
  ASSUME NEW l \in Lists, NEW todo, NEW c
  PROVE  Len(Drop(l)) = 2 /\ \A i \in 1 .. 2 : Planned(Drop(l)[i], {l}, Referenced, todo, c)
<1>1. /\ Len(Drop(l)) = 2
      /\ Drop(l)[1].op = "del" /\ Drop(l)[1].key = l
      /\ Drop(l)[2].op = "delrefs" /\ Drop(l)[2].key = l
  BY DEF Drop, Key
<1>2. Owner(l) = l
  BY OwnerFacts
<1>3. Planned(Drop(l)[1], {l}, Referenced, todo, c) /\ Planned(Drop(l)[2], {l}, Referenced, todo, c)
  BY <1>1, <1>2 DEF Planned
<1>4. \A i \in 1 .. 2 : i = 1 \/ i = 2
  BY SMTT(30)
<1> QED
  BY <1>1, <1>3, <1>4

(* A command leaves a plan about lists nobody is away with, and about      *)
(* packages that some list refers to or that the command imports.          *)
WellPlanned ==
    \E L \in SUBSET used', c \in 0 .. MaxConf :
        /\ \A i \in 1 .. Len(writes') : Planned(writes'[i], L, Referenced, incoming', c)
        /\ \A q \in Procs : Away(q) => job[q].mirror \notin L

(* CheckLock: a mirror that can be changed is nobody's who is downloading. *)
LEMMA NotAway ==
  ASSUME TypeOK, Shape, Used, Lock, NEW l,
         l \notin Mirrors \/ l \notin used \/ CheckLock(l)
  PROVE  \A q \in Procs : Away(q) => job[q].mirror # l
<1> SUFFICES ASSUME NEW q \in Procs, Away(q), job[q].mirror = l
             PROVE  FALSE
  OBVIOUS
<1>1. l \in Mirrors /\ Alive(q) /\ q # NoProc
  BY ProcAssumption DEF Away, Shape, Alive
<1>2. Mine(q)
  BY DEF Lock
<1>3. l \in rec /\ worker[l] = q
  BY <1>2 DEF Mine, Loaded
<1> QED
  BY <1>1, <1>3 DEF CheckLock, Used

(* A command about a single list, planned well.                            *)
LEMMA OneList ==
  ASSUME TypeOK, Shape, Used, Lock, NEW p, NEW l \in Lists, l \in used',
         l \notin Mirrors \/ l \notin used \/ CheckLock(l),
         NEW in \in SUBSET Pkgs, NEW ws, NEW c \in 0 .. MaxConf,
         Plan(p, in, {}, ws), \A i \in 1 .. Len(ws) : Planned(ws[i], {l}, Referenced, in, c)
  PROVE  WellPlanned
<1>1. \A q \in Procs : Away(q) => job[q].mirror \notin {l}
  BY NotAway
<1>2. {l} \in SUBSET used'
  OBVIOUS
<1>3. \A i \in 1 .. Len(writes') : Planned(writes'[i], {l}, Referenced, incoming', c)
  BY DEF Plan
<1> QED
  BY <1>1, <1>2, <1>3 DEF WellPlanned

(* The mirror commands plan well, unless -force overrides a lock.          *)
LEMMA MirrorPlanned ==
  ASSUME TypeOK, Shape, Used, Lock, NEW p \in Procs, MirrorCommands(p),
         "force" \notin waived'
  PROVE  WellPlanned
<1>1. PICK m \in Mirrors :
        \/ MirrorCreate(p, m) \/ MirrorEdit(p, m) \/ MirrorDrop(p, m)
        \/ \E want \in SUBSET Pkgs, skip, force \in BOOLEAN : UpdateMirror(p, m, want, skip, force)
  BY DEF MirrorCommands
<1>2. m \in Lists /\ conf[m] \in 0 .. MaxConf /\ {} \in SUBSET Pkgs /\ 0 \in 0 .. MaxConf
  BY BoundsAssumption, SMTT(30) DEF Lists, TypeOK
<1>3. ASSUME NEW w, NEW c
      PROVE  LET r == PutMirror(m, w, c) IN
             r.op = "put" /\ r.key = m /\ r.srcs = << >> /\ r.conf = c
  BY DEF PutMirror, Key
<1>4. CASE MirrorCreate(p, m)
  <2> DEFINE r == PutMirror(m, NoProc, 0)
  <2>1. m \notin used /\ m \in used' /\ m \notin rec /\ Plan(p, {}, {}, <<r>>)
    BY <1>4 DEF MirrorCreate, Create, Used
  <2>2. r.op = "put" /\ r.key = m /\ r.srcs = << >> /\ r.conf = 0
    BY <1>3
  <2> HIDE DEF r
  <2>3. Planned(r, {m}, Referenced, {}, 0)
    BY <2>1, <2>2, PutPlanned
  <2>4. \A i \in 1 .. Len(<<r>>) : Planned(<<r>>[i], {m}, Referenced, {}, 0)
    BY <2>3, SMTT(30)
  <2> QED
    BY <1>2, <2>1, <2>4, OneList
<1>5. CASE MirrorEdit(p, m)
  <2> DEFINE c == conf[m] + 1
             r == PutMirror(m, worker[m], c)
  <2>1. m \in rec /\ m \in used' /\ CheckLock(m) /\ Plan(p, {}, {}, <<r>>)
    BY <1>5 DEF MirrorEdit, Command, Used
  <2>2. r.op = "put" /\ r.key = m /\ r.srcs = << >> /\ r.conf = c
    BY <1>3
  <2>3. c \in 0 .. MaxConf /\ conf[m] <= c
    BY <1>2, <1>5, BoundsAssumption, SMTT(30) DEF MirrorEdit
  <2> HIDE DEF r, c
  <2>4. Planned(r, {m}, Referenced, {}, c)
    BY <2>1, <2>2, <2>3, PutPlanned
  <2>5. \A i \in 1 .. Len(<<r>>) : Planned(<<r>>[i], {m}, Referenced, {}, c)
    BY <2>4, SMTT(30)
  <2> QED
    BY <1>2, <2>1, <2>3, <2>5, OneList
<1>6. CASE MirrorDrop(p, m)
  <2>1. m \in used' /\ CheckLock(m) /\ Plan(p, {}, {}, Drop(m))
    BY <1>6 DEF MirrorDrop, Command, Used
  <2>2. \A i \in 1 .. Len(Drop(m)) : Planned(Drop(m)[i], {m}, Referenced, {}, 0)
    BY <1>2, DropPlanned
  <2> QED
    BY <1>2, <2>1, <2>2, OneList
<1>7. ASSUME NEW want \in SUBSET Pkgs, NEW skip \in BOOLEAN, NEW force \in BOOLEAN,
             UpdateMirror(p, m, want, skip, force)
      PROVE  WellPlanned
  <2> DEFINE ws == SaveMirror(m, p, conf[m], m \in stored, refs[m])
  <2>1. m \in rec /\ m \in used' /\ CheckLock(m) /\ Plan(p, {}, {}, ws)
    BY <1>7 DEF UpdateMirror, Used
  <2>2. refs[m] \subseteq Referenced \cup {} /\ conf[m] <= conf[m] /\ (m \in stored) \in BOOLEAN
    BY <1>2, <2>1, KnownRefs, SMTT(30)
  <2>3. \A i \in 1 .. Len(ws) : Planned(ws[i], {m}, Referenced, {}, conf[m])
    BY <2>1, <2>2, SaveMirrorPlanned
  <2> HIDE DEF ws
  <2> QED
    BY <1>2, <2>1, <2>3, OneList
<1> QED
  BY <1>1, <1>4, <1>5, <1>6, <1>7

(* The local repository commands plan well.                                *)
LEMMA RepoPlanned ==
  ASSUME TypeOK, Shape, Used, Lock, NEW p \in Procs, RepoCommands(p)
  PROVE  WellPlanned
<1>1. PICK r \in Repos :
        \/ RepoCreate(p, r)
        \/ \E new \in SUBSET Pkgs : \E added \in SUBSET new, replaced \in SUBSET refs[r] :
              RepoAdd(p, r, new, added, replaced)
        \/ \E gone \in SUBSET refs[r] : RepoRemove(p, r, gone)
        \/ \E src \in Repos \cup Mirrors : \E S \in SUBSET refs[src] : RepoCopy(p, src, r, S)
        \/ \E src \in Repos : \E S \in SUBSET refs[src] : RepoMove(p, src, r, S)
        \/ RepoDrop(p, r)
  BY DEF RepoCommands
<1>2. r \in Lists /\ r \notin Mirrors /\ {} \in SUBSET Pkgs /\ 0 \in 0 .. MaxConf
  BY KindsAssumption, BoundsAssumption, SMTT(30) DEF Lists
<1>3. ASSUME NEW in \in SUBSET Pkgs, NEW S, S \subseteq Referenced \cup in,
             r \in rec \/ r \notin used, r \in used', Plan(p, in, {}, SaveRepo(r, S))
      PROVE  WellPlanned
  <2>1. \A i \in 1 .. Len(SaveRepo(r, S)) : Planned(SaveRepo(r, S)[i], {r}, Referenced, in, 0)
    BY <1>3, SavePlanned
  <2> QED
    BY <1>2, <1>3, <2>1, OneList
<1>4. CASE RepoCreate(p, r)
  <2>1. CASE Create(p, r, <<PutRec(r)>>)
    <3> DEFINE w == PutRec(r)
    <3>1. w.op = "put" /\ w.key = r /\ w.srcs = << >> /\ w.conf = 0
      BY DEF PutRec, Key
    <3>2. r \notin used /\ r \in used' /\ Plan(p, {}, {}, <<w>>)
      BY <2>1 DEF Create
    <3> HIDE DEF w
    <3>3. Planned(w, {r}, Referenced, {}, 0)
      BY <1>2, <3>1, <3>2, PutPlanned
    <3>4. \A i \in 1 .. Len(<<w>>) : Planned(<<w>>[i], {r}, Referenced, {}, 0)
      BY <3>3, SMTT(30)
    <3> QED
      BY <1>2, <3>2, <3>4, OneList
  <2>2. ASSUME NEW s \in LoadedSnaps, Create(p, r, SaveRepo(r, refs[s]))
        PROVE  WellPlanned
    <3>1. refs[s] \subseteq Referenced \cup {}
      BY KnownRefs DEF LoadedSnaps
    <3> QED
      BY <1>2, <1>3, <2>2, <3>1 DEF Create
  <2> QED
    BY <1>4, <2>1, <2>2 DEF RepoCreate
<1>5. ASSUME r \in rec
      PROVE  r \in used /\ refs[r] \subseteq Referenced
  BY <1>5, KnownRefs DEF Used
<1>6. ASSUME NEW new \in SUBSET Pkgs, NEW added \in SUBSET new, NEW replaced \in SUBSET refs[r],
             RepoAdd(p, r, new, added, replaced)
      PROVE  WellPlanned
  <2>1. (refs[r] \ replaced) \cup added \subseteq Referenced \cup new
    BY <1>5, <1>6 DEF RepoAdd
  <2> QED
    BY <1>3, <1>5, <1>6, <2>1 DEF RepoAdd, Command
<1>7. ASSUME NEW gone \in SUBSET refs[r], RepoRemove(p, r, gone)
      PROVE  WellPlanned
  <2>1. refs[r] \ gone \subseteq Referenced \cup {}
    BY <1>5, <1>7 DEF RepoRemove
  <2> QED
    BY <1>2, <1>3, <1>5, <1>7, <2>1 DEF RepoRemove, Command
<1>8. ASSUME NEW src \in Repos \cup Mirrors, NEW S \in SUBSET refs[src], RepoCopy(p, src, r, S)
      PROVE  WellPlanned
  <2>1. refs[src] \subseteq Referenced
    BY <1>8, KnownRefs DEF RepoCopy
  <2>2. refs[r] \cup S \subseteq Referenced \cup {}
    BY <1>5, <1>8, <2>1 DEF RepoCopy
  <2> QED
    BY <1>2, <1>3, <1>5, <1>8, <2>2 DEF RepoCopy, Command
<1>9. ASSUME NEW src \in Repos, NEW S \in SUBSET refs[src], RepoMove(p, src, r, S)
      PROVE  WellPlanned
  <2> DEFINE a == SaveRepo(r, refs[r] \cup S)
             b == SaveRepo(src, refs[src] \ S)
             L == {r, src}
  <2>1. r \in rec /\ src \in rec /\ Plan(p, {}, {}, a \o b) /\ used' = used
    BY <1>9 DEF RepoMove, MoveWrites
  <2>2. refs[r] \cup S \subseteq Referenced \cup {} /\ refs[src] \ S \subseteq Referenced \cup {}
    BY <1>5, <2>1, KnownRefs
  <2>3. /\ Len(a) = 2 /\ \A i \in 1 .. 2 : Planned(a[i], L, Referenced, {}, 0)
        /\ Len(b) = 2 /\ \A i \in 1 .. 2 : Planned(b[i], L, Referenced, {}, 0)
    BY <2>1, <2>2, SavePlanned
  <2>4. a \in Seq(Write) /\ b \in Seq(Write)
    <3>1. refs[r] \cup S \in SUBSET Pkgs /\ refs[src] \ S \in SUBSET Pkgs
      BY <2>2, ReferencedType
    <3> QED
      BY <3>1, SaveRecType
  <2> HIDE DEF a, b
  <2>5. \A i \in 1 .. Len(a \o b) : Planned((a \o b)[i], L, Referenced, {}, 0)
    <3> HIDE DEF L
    <3> QED
      BY <2>3, <2>4, ConcatPlanned
  <2>6. \A i \in 1 .. Len(writes') : Planned(writes'[i], L, Referenced, incoming', 0)
    BY <2>1, <2>5 DEF Plan
  <2>7. \A q \in Procs : Away(q) => job[q].mirror \notin L
    BY <1>2, KindsAssumption, NotAway
  <2>8. L \in SUBSET used'
    BY <2>1 DEF Used
  <2> HIDE DEF L
  <2> QED
    BY <1>2, <2>6, <2>7, <2>8 DEF WellPlanned
<1>10. CASE RepoDrop(p, r)
  <2>1. r \in used' /\ Plan(p, {}, {}, Drop(r))
    BY <1>10 DEF RepoDrop, Command, Used
  <2>2. \A i \in 1 .. Len(Drop(r)) : Planned(Drop(r)[i], {r}, Referenced, {}, 0)
    BY <1>2, DropPlanned
  <2> QED
    BY <1>2, <2>1, <2>2, OneList
<1> QED
  BY <1>1, <1>4, <1>6, <1>7, <1>8, <1>9, <1>10

(* The snapshot commands plan well.                                        *)
LEMMA SnapshotPlanned ==
  ASSUME TypeOK, Shape, Used, Lock, NEW p \in Procs, SnapshotCommands(p)
  PROVE  WellPlanned
<1>1. PICK s \in Snaps :
        \/ \E m \in Mirrors : SnapshotFromMirror(p, s, m)
        \/ \E r \in Repos : SnapshotFromRepo(p, s, r)
        \/ \E srcs \in SUBSET LoadedSnaps, unsorted \in BOOLEAN :
              \E S \in SUBSET UNION {refs[t] : t \in srcs} :
                  SnapshotDerive(p, s, srcs, S, unsorted)
        \/ SnapshotDrop(p, s)
  BY DEF SnapshotCommands
<1>2. s \in Lists /\ s \notin Mirrors /\ {} \in SUBSET Pkgs /\ 0 \in 0 .. MaxConf
  BY KindsAssumption, BoundsAssumption, SMTT(30) DEF Lists
<1>3. ASSUME NEW S, S \subseteq Referenced, Create(p, s, SaveSnap(s, S))
      PROVE  WellPlanned
  <2>1. s \notin used /\ s \in used' /\ Plan(p, {}, {}, SaveSnap(s, S)) /\ S \subseteq Referenced \cup {}
    BY <1>3 DEF Create
  <2>2. \A i \in 1 .. Len(SaveSnap(s, S)) : Planned(SaveSnap(s, S)[i], {s}, Referenced, {}, 0)
    BY <2>1, SavePlanned
  <2> QED
    BY <1>2, <2>1, <2>2, OneList
<1>4. ASSUME NEW m \in Mirrors, SnapshotFromMirror(p, s, m)
      PROVE  WellPlanned
  BY <1>3, <1>4, KnownRefs DEF SnapshotFromMirror
<1>5. ASSUME NEW r \in Repos, SnapshotFromRepo(p, s, r)
      PROVE  WellPlanned
  BY <1>3, <1>5, KnownRefs DEF SnapshotFromRepo
<1>6. ASSUME NEW srcs \in SUBSET LoadedSnaps, NEW unsorted \in BOOLEAN,
             NEW S \in SUBSET UNION {refs[t] : t \in srcs},
             SnapshotDerive(p, s, srcs, S, unsorted)
      PROVE  WellPlanned
  <2>1. \A t \in srcs : refs[t] \subseteq Referenced
    BY KnownRefs DEF LoadedSnaps
  <2> QED
    BY <1>3, <1>6, <2>1, SMTT(30) DEF SnapshotDerive
<1>7. CASE SnapshotDrop(p, s)
  <2>1. s \in used' /\ Plan(p, {}, {}, Drop(s))
    BY <1>7 DEF SnapshotDrop, Command, Used
  <2>2. \A i \in 1 .. Len(Drop(s)) : Planned(Drop(s)[i], {s}, Referenced, {}, 0)
    BY <1>2, DropPlanned
  <2> QED
    BY <1>2, <2>1, <2>2, OneList
<1> QED
  BY <1>1, <1>4, <1>5, <1>6, <1>7

(* Writing a published repository record.                                  *)
LEMMA PutPubPlanned ==
  ASSUME NEW u \in Pubs, NEW srcs \in AnySources, NEW todo,
         \A k \in stored \cap KeysOf(u, srcs) : refs[k] \subseteq Referenced
  PROVE  Planned(PutPub(u, srcs), {u}, Referenced, todo, 0)
<1> DEFINE w == PutPub(u, srcs)
<1>1. w.op = "put" /\ w.key = u /\ w.srcs = srcs /\ w.conf = 0
  BY DEF PutPub, Key
<1>2. Owner(u) = u /\ u \notin Mirrors
  BY OwnerFacts, KindsAssumption DEF Lists
<1> HIDE DEF w
<1>3. Planned(w, {u}, Referenced, todo, 0)
  BY <1>1, <1>2 DEF Planned
<1> QED
  BY <1>3 DEF w

(* Update of a published local repository: its lists are copies of the     *)
(* lists of its sources.                                                   *)
LEMMA SavePubPlanned ==
  ASSUME TypeOK, Used, NEW u \in Pubs, NEW srcs \in AnySources, srcs \in Seq(Repos),
         \A i \in 1 .. Len(srcs) : srcs[i] \in rec,
         \/ u \notin used
         \/ u \in rec /\ srcs = sources[u]
  PROVE  \A i \in 1 .. Len(SavePub(u, srcs)) : Planned(SavePub(u, srcs)[i], {u}, Referenced, {}, 0)
<1> DEFINE n == Len(srcs) + 1
<1>1. n \in Nat /\ Len(srcs) \in 0 .. MaxComponents
  BY AnySourcesType, SMTT(30)
<1>2. Len(SavePub(u, srcs)) = n
  BY <1>1, SMTT(30) DEF SavePub
<1>3. Planned(PutPub(u, srcs), {u}, Referenced, {}, 0)
  <2>1. \A k \in stored \cap KeysOf(u, srcs) : refs[k] \subseteq Referenced
    BY LiveRefs DEF Lists
  <2> QED
    BY <2>1, PutPubPlanned
<1>4. ASSUME NEW i \in 1 .. n, i # 1
      PROVE  Planned(PutRefs(<<u, i - 1>>, refs[srcs[i - 1]]), {u}, Referenced, {}, 0)
  <2>1. i - 1 \in 1 .. Len(srcs) /\ i - 1 \in 1 .. MaxComponents
    BY <1>1, <1>4, BoundsAssumption, SMTT(30)
  <2>2. srcs[i - 1] \in Repos /\ srcs[i - 1] \in rec
    BY <2>1, SMTT(30)
  <2>3. refs[srcs[i - 1]] \subseteq Referenced \cup {}
    BY <2>2, KnownRefs
  <2>4. Owner(<<u, i - 1>>) = u
    BY <2>1, OwnerFacts
  <2> QED
    BY <2>3, <2>4, PutRefsPlanned
<1>5. \A i \in 1 .. n : SavePub(u, srcs)[i] =
        IF i = 1 THEN PutPub(u, srcs) ELSE PutRefs(<<u, i - 1>>, refs[srcs[i - 1]])
  BY <1>1 DEF SavePub
<1> HIDE DEF n
<1> QED
  BY <1>2, <1>3, <1>4, <1>5

(* Remove of a published repository only deletes.                          *)
LEMMA DropPubPlanned ==
  ASSUME TypeOK, NEW u \in Pubs
  PROVE  \A i \in 1 .. Len(DropPub(u)) : Planned(DropPub(u)[i], {u}, Referenced, {}, 0)
<1> DEFINE n == Len(sources[u]) + 1
<1>1. n \in Nat /\ Len(sources[u]) \in 0 .. MaxComponents
  BY AnySourcesType, SMTT(30) DEF TypeOK
<1>2. Len(DropPub(u)) = n
  BY <1>1, SMTT(30) DEF DropPub
<1>3. \A i \in 1 .. n : DropPub(u)[i] =
        IF i = 1 THEN Key("del", u) ELSE Key("delrefs", <<u, i - 1>>)
  BY <1>1 DEF DropPub
<1>4. Planned(Key("del", u), {u}, Referenced, {}, 0)
  BY OwnerFacts DEF Planned, Key, Lists
<1>5. ASSUME NEW i \in 1 .. n, i # 1
      PROVE  Planned(Key("delrefs", <<u, i - 1>>), {u}, Referenced, {}, 0)
  <2>1. i - 1 \in 1 .. MaxComponents
    BY <1>1, <1>5, BoundsAssumption, SMTT(30)
  <2>2. Owner(<<u, i - 1>>) = u
    BY <2>1, OwnerFacts
  <2> QED
    BY <2>2 DEF Planned, Key
<1> HIDE DEF n
<1> QED
  BY <1>2, <1>3, <1>4, <1>5

(* The publish commands plan well.                                         *)
LEMMA PublishPlanned ==
  ASSUME TypeOK, Shape, Used, Lock, NEW p \in Procs, PublishCommands(p)
  PROVE  WellPlanned
<1>1. PICK u \in Pubs, listed \in SUBSET Pkgs :
        \/ \E srcs \in SourceSeqs(LoadedSnaps) : PublishSnapshot(p, u, srcs, listed)
        \/ \E srcs \in SourceSeqs(Repos \cap rec) : PublishRepo(p, u, srcs, listed)
        \/ \E srcs \in [1 .. Len(sources[u]) -> LoadedSnaps] : PublishSwitch(p, u, srcs, listed)
        \/ PublishUpdate(p, u, listed)
        \/ \E srcs \in SourceSeqs(LoadedSnaps) \cup SourceSeqs(Repos \cap rec) :
              PublishFailed(p, srcs, listed)
        \/ PublishDrop(p, u)
  BY DEF PublishCommands
<1>2. u \in Lists /\ u \notin Mirrors /\ {} \in SUBSET Pkgs /\ 0 \in 0 .. MaxConf
  BY KindsAssumption, BoundsAssumption, SMTT(30) DEF Lists
<1>3. ASSUME NEW ws, Plan(p, {}, {}, ws), u \in used',
             \A i \in 1 .. Len(ws) : Planned(ws[i], {u}, Referenced, {}, 0)
      PROVE  WellPlanned
  BY <1>2, <1>3, OneList
<1>4. ASSUME NEW srcs \in SourceSeqs(LoadedSnaps), PublishSnapshot(p, u, srcs, listed)
      PROVE  WellPlanned
  <2>1. srcs \in AnySources
    BY SourceSeqsMono DEF LoadedSnaps, AnySources
  <2>2. u \notin used /\ u \in used' /\ Plan(p, {}, {}, <<PutPub(u, srcs)>>)
    BY <1>4 DEF PublishSnapshot, Create
  <2>3. Planned(PutPub(u, srcs), {u}, Referenced, {}, 0)
    BY <1>2, <2>1, <2>2, LiveRefs, PutPubPlanned
  <2>4. \A i \in 1 .. Len(<<PutPub(u, srcs)>>) : Planned(<<PutPub(u, srcs)>>[i], {u}, Referenced, {}, 0)
    BY <2>3, SMTT(30)
  <2> QED
    BY <1>3, <2>2, <2>4
<1>5. ASSUME NEW srcs \in SourceSeqs(Repos \cap rec), PublishRepo(p, u, srcs, listed)
      PROVE  WellPlanned
  <2>1. srcs \in Seq(Repos \cap rec)
    BY SourceSeqType
  <2>2. srcs \in SourceSeqs(Repos)
    BY SourceSeqsMono
  <2>3. srcs \in AnySources /\ srcs \in Seq(Repos) /\ \A i \in 1 .. Len(srcs) : srcs[i] \in rec
    BY <2>1, <2>2, SourceSeqType, SMTT(30) DEF AnySources
  <2>4. u \notin used /\ u \in used' /\ Plan(p, {}, {}, SavePub(u, srcs))
    BY <1>5 DEF PublishRepo, Create
  <2>5. \A i \in 1 .. Len(SavePub(u, srcs)) : Planned(SavePub(u, srcs)[i], {u}, Referenced, {}, 0)
    BY <2>3, <2>4, SavePubPlanned
  <2> QED
    BY <1>3, <2>4, <2>5
<1>6. ASSUME NEW srcs \in [1 .. Len(sources[u]) -> LoadedSnaps], PublishSwitch(p, u, srcs, listed)
      PROVE  WellPlanned
  <2>1. u \in used' /\ Plan(p, {}, {}, <<PutPub(u, srcs)>>)
    BY <1>6 DEF PublishSwitch, LoadedPub, Used
  <2>2. Len(sources[u]) \in Nat
    BY AnySourcesType, SMTT(30) DEF TypeOK
  <2>3. Len(srcs) = Len(sources[u]) /\ \A i \in 1 .. Len(srcs) : srcs[i] \notin Repos
    BY <2>2, KindsAssumption, SMTT(30) DEF LoadedSnaps
  <2>4. KeysOf(u, srcs) = {}
    BY <2>3 DEF KeysOf
  <2>5. Owner(u) = u
    BY <1>2, OwnerFacts
  <2> DEFINE w == PutPub(u, srcs)
  <2>6. w.op = "put" /\ w.key = u /\ w.srcs = srcs /\ w.conf = 0
    BY DEF PutPub, Key
  <2> HIDE DEF w
  <2>7. Planned(w, {u}, Referenced, {}, 0)
    BY <1>2, <2>4, <2>5, <2>6 DEF Planned
  <2>8. \A i \in 1 .. Len(<<w>>) : Planned(<<w>>[i], {u}, Referenced, {}, 0)
    BY <2>7, SMTT(30)
  <2> QED
    BY <1>3, <2>1, <2>8 DEF w
<1>7. CASE PublishUpdate(p, u, listed)
  <2>1. u \in used' /\ u \in rec /\ Plan(p, {}, {}, SavePub(u, sources[u]))
    BY <1>7 DEF PublishUpdate, LoadedPub, Used
  <2>2. /\ sources[u] \in AnySources /\ sources[u] \in Seq(Repos)
        /\ \A i \in 1 .. Len(sources[u]) : sources[u][i] \in rec
    BY <1>7 DEF PublishUpdate, LoadedPub, IsLocal, TypeOK
  <2>3. \A i \in 1 .. Len(SavePub(u, sources[u])) : Planned(SavePub(u, sources[u])[i], {u}, Referenced, {}, 0)
    BY <2>1, <2>2, SavePubPlanned
  <2> QED
    BY <1>3, <2>1, <2>3
<1>8. CASE PublishDrop(p, u)
  <2>1. u \in used' /\ Plan(p, {}, {}, DropPub(u))
    BY <1>8 DEF PublishDrop, Command, Used
  <2> QED
    BY <1>3, <2>1, DropPubPlanned
<1>9. ASSUME NEW srcs, PublishFailed(p, srcs, listed)
      PROVE  WellPlanned
  <2>1. writes' = << >> /\ {} \in SUBSET used'
    BY <1>9 DEF PublishFailed, Plan
  <2>2. \A i \in 1 .. Len(writes') : FALSE
    BY <2>1, SMTT(30)
  <2> QED
    BY <1>2, <2>1, <2>2 DEF WellPlanned
<1> QED
  BY <1>1, <1>4, <1>5, <1>6, <1>7, <1>8, <1>9

----------------------------------------------------------------------------
(* Commands keep the invariant.                                            *)

(* What a command has planned well is pending after it.                    *)
LEMMA PlanPending ==
  ASSUME WellPlanned, Refs, NEW p, NEW in, NEW ws, Plan(p, in, {}, ws), waived \subseteq waived',
         \A q \in Procs : Away(q)' => Away(q) /\ job'[q].mirror = job[q].mirror
  PROVE  Pending'
<1>1. PICK L \in SUBSET used', c \in 0 .. MaxConf :
        /\ \A i \in 1 .. Len(writes') : Planned(writes'[i], L, Sure, incoming', c)
        /\ \A q \in Procs : Away(q) => job[q].mirror \notin L
  BY PlannedMore DEF WellPlanned, Refs
<1>2. \A i \in 1 .. Len(writes') : Planned(writes[i], L, Sure, incoming \cup store, c)'
  <2>1. /\ UNCHANGED <<rec, conf, stored, refs>> /\ Sure \subseteq Sure'
        /\ incoming' \cup store' = incoming'
    BY DEF Plan, Sure, Lost, Complete
  <2>2. \A k \in stored' : Harmless(k)
    BY <2>1 DEF Harmless
  <2>3. \A m \in Mirrors \cap rec' : (m \in rec => conf[m] <= c) => conf'[m] <= c
    BY <2>1
  <2> QED
    BY <1>1, <2>1, <2>2, <2>3, StillPlanned
<1>3. \A q \in Procs : Away(q)' => job'[q].mirror \notin L
  BY <1>1
<1> QED
  BY <1>2, <1>3 DEF Pending

(* Starting a command keeps the invariant.                                 *)
LEMMA CommandsSafe ==
  ASSUME TypeOK, Shape, TypeOK', Shape', Used, Lock, Refs, NEW p \in Procs,
         MirrorCommands(p) \/ RepoCommands(p) \/ SnapshotCommands(p) \/ PublishCommands(p),
         "force" \notin waived'
  PROVE  Used' /\ Pending' /\ Lock' /\ Refs'
<1>1. WellPlanned
  BY MirrorPlanned, RepoPlanned, SnapshotPlanned, PublishPlanned
<1>2. PICK in, ws : Plan(p, in, {}, ws)
  BY CommandPlans
<1>3. Ready(p) /\ used \subseteq used' /\ waived \subseteq waived'
  BY CommandPlans
<1>4. /\ UNCHANGED <<rec, worker, conf, sources, stored, refs>>
      /\ Sure \subseteq Sure' /\ pc' = "save" /\ job' \in [Procs -> Job]
  BY <1>2, <1>3 DEF Plan, Sure, Lost, Complete, TypeOK
<1>5. \A q \in Procs : job[q].phase \notin {"mark", "import"}
  BY <1>3 DEF Ready, Shape
<1>6. CASE job' = job
  <2>1. Pending'
    BY <1>1, <1>2, <1>3, <1>6, PlanPending DEF Away
  <2>2. \A q \in Procs : (Away(q) \/ Importing(q))' => Mine(q)
    BY <1>4, <1>6 DEF Away, Importing, Lock
  <2>3. Referenced \subseteq Sure'
    BY <1>4 DEF Refs
  <2>4. Used' /\ Lock' /\ Refs'
    BY <1>3, <1>4, <1>5, <1>6, <2>2, <2>3, FrameSafe
  <2> QED
    BY <2>1, <2>4
<1>7. ASSUME NEW m \in Mirrors, NEW want \in SUBSET Pkgs, NEW skip \in BOOLEAN, NEW force \in BOOLEAN,
             UpdateMirror(p, m, want, skip, force)
      PROVE  Used' /\ Pending' /\ Lock' /\ Refs'
  <2>1. /\ job'[p].phase = "mark" /\ job'[p].mirror = m /\ job'[p].conf = conf[m]
        /\ job'[p].old = refs[m] /\ (job'[p].had <=> m \in stored)
        /\ \A q \in Procs \ {p} : job'[q] = job[q]
    BY <1>7 DEF UpdateMirror, TypeOK, NoJob
  <2>2. m \in rec /\ CheckLock(m) /\ m \in used
    BY <1>7 DEF UpdateMirror, Used
  <2>3. \A q \in Procs : Away(q)' => Away(q) /\ job'[q].mirror = job[q].mirror
    BY <2>1 DEF Away
  <2>4. Pending'
    BY <1>1, <1>2, <1>3, <2>3, PlanPending
  <2>5. Used'
    BY <1>3, <1>4, <2>1, <2>2 DEF Used
  <2>6. Refs'
    BY <1>4, SameReferenced DEF Refs
  <2>7. ASSUME NEW q \in Procs \ {p}
        PROVE  job[q].mirror # m
    <3>1. CASE job[q].phase = "none"
      BY <3>1, ProcAssumption DEF Shape
    <3>2. CASE job[q].phase # "none"
      <4>1. Away(q)
        BY <1>5, <3>2 DEF TypeOK, Job, Away
      <4> QED
        BY <2>2, <4>1, NotAway
    <3> QED
      BY <3>1, <3>2
  <2>8. ASSUME NEW a \in Procs, NEW q \in Procs \ {a}, job'[a].phase # "none"
        PROVE  job'[a].mirror # job'[q].mirror
    <3>1. CASE a = p \/ q = p
      BY <2>1, <2>7, <3>1
    <3>2. CASE a # p /\ q # p
      <4>1. job'[a] = job[a] /\ job'[q] = job[q]
        BY <2>1, <3>2
      <4> QED
        BY <2>8, <4>1 DEF Lock
    <3> QED
      BY <3>1, <3>2
  <2>9. ASSUME NEW q \in Procs, (Away(q) \/ Importing(q))'
        PROVE  Mine(q)'
    <3>1. q # p /\ Away(q)
      BY <1>4, <2>1, <2>9 DEF Away, Importing
    <3>2. job'[q] = job[q] /\ Mine(q)
      BY <2>1, <3>1 DEF Lock
    <3> QED
      BY <1>4, <3>2 DEF Mine, Loaded
  <2>10. ASSUME NEW q \in Procs, job'[q].phase = "mark"
         PROVE  Marking(q)'
    <3>1. q = p
      BY <1>5, <2>1, <2>10
    <3>2. Loaded(p)'
      BY <1>4, <2>1, <2>2 DEF Loaded
    <3>3. writes' = SaveMirror(m, p, conf[m], m \in stored, refs[m])
      BY <1>7 DEF UpdateMirror, Plan
    <3>4. job'[p].had = (m \in stored)
      BY <1>7 DEF UpdateMirror, TypeOK, NoJob
    <3>5. writes' = SaveMirror(job[p].mirror, p, job[p].conf, job[p].had, job[p].old)'
      BY <2>1, <3>3, <3>4 DEF SaveMirror, Save, PutMirror, PutRefs, Key
    <3> QED
      BY <3>1, <3>2, <3>5 DEF Marking
  <2>11. Lock'
    BY <2>8, <2>9, <2>10 DEF Lock
  <2> QED
    BY <2>4, <2>5, <2>6, <2>11
<1> QED
  BY <1>6, <1>7, CommandPlans
=============================================================================
