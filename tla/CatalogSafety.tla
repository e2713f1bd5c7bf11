--------------------------- MODULE CatalogSafety ----------------------------
EXTENDS CatalogProofs

(***************************************************************************)
(* Safety of the catalogue, for every value of its constants: references   *)
(* are complete (RefsComplete), mirrors are locked while they are          *)
(* downloaded (MirrorLock), edits are kept (NoLostEdit).                   *)
(*                                                                         *)
(* None of the three is inductive.  Commands write one key at a time, so   *)
(* the invariant has to say what the writes still to come will do          *)
(* (Pending), which needs to know that nobody reuses the key of a list     *)
(* that was dropped (Used); and mirror update writes back what it loaded   *)
(* long before, so the invariant has to say that this is still what the    *)
(* database holds (Lock).  The invariant, and why commands keep it, is in  *)
(* CatalogProofs; here are the other steps, and the files on top of it.    *)
(***************************************************************************)

\* the backend of every leaf that names no other
USE ZenonT(30)

(***************************************************************************)
(* Each of the writes that commands have planned, carried out key by key,  *)
(* keeps the invariant of the catalogue.                                   *)
(***************************************************************************)

(* What MarkAsUpdating and Update have still to write.                     *)
LEMMA MarkingHead ==
  ASSUME NEW p, Marking(p), writes # << >>
  PROVE  LET m == job[p].mirror IN
         \/ /\ Head(writes) = PutMirror(m, p, job[p].conf) /\ Head(writes).op = "put"
            /\ Tail(writes) = IF job[p].had THEN <<PutRefs(m, job[p].old)>> ELSE << >>
         \/ /\ Mine(p) /\ job[p].had
            /\ Head(writes) = PutRefs(m, job[p].old) /\ Head(writes).op = "putrefs"
            /\ Tail(writes) = << >>
<1> DEFINE m == job[p].mirror
           r == PutMirror(m, p, job[p].conf)
           s == PutRefs(m, job[p].old)
<1>1. r.op = "put" /\ r.key = m /\ s.op = "putrefs"
  BY DEF PutMirror, PutRefs, Key
<1>2. \/ writes = IF job[p].had THEN <<r, s>> ELSE <<r>>
      \/ Mine(p) /\ job[p].had /\ writes = <<s>>
  BY <1>1 DEF Marking, SaveMirror, Save
<1> HIDE DEF r, s
<1>3. \/ Head(writes) = r /\ Tail(writes) = IF job[p].had THEN <<s>> ELSE << >>
      \/ Mine(p) /\ job[p].had /\ Head(writes) = s /\ Tail(writes) = << >>
  <2>1. /\ Head(<<r, s>>) = r /\ Tail(<<r, s>>) = <<s>>
        /\ Head(<<r>>) = r /\ Tail(<<r>>) = << >>
        /\ Head(<<s>>) = s /\ Tail(<<s>>) = << >>
    BY SMTT(30)
  <2> QED
    BY <1>2, <2>1
<1> QED
  BY <1>1, <1>3 DEF r, s

(* The next write of a plan, and the plan that is left.                    *)
LEMMA NextWrite ==
  ASSUME TypeOK, Pending, NEW p, NEW op, WriteNext(p, op)
  PROVE  \E L \in SUBSET used, c \in 0 .. MaxConf :
            /\ Planned(Head(writes), L, Sure, {}, c)
            /\ \A i \in 1 .. Len(writes') : Planned(writes'[i], L, Sure, {}, c)
            /\ \A q \in Procs : Away(q) => job[q].mirror \notin L
<1>1. writes # << >> /\ writes' = Tail(writes) /\ incoming \cup store = {} /\ writes \in Seq(Write)
  BY DEF WriteNext, TypeOK
<1>2. PICK L \in SUBSET used, c \in 0 .. MaxConf :
        /\ \A i \in 1 .. Len(writes) : Planned(writes[i], L, Sure, {}, c)
        /\ \A q \in Procs : Away(q) => job[q].mirror \notin L
  BY <1>1 DEF Pending
<1>3. Head(writes) = writes[1] /\ 1 \in 1 .. Len(writes)
  BY <1>1, SMTT(30)
<1>4. \A i \in 1 .. Len(writes') : i + 1 \in 1 .. Len(writes) /\ writes'[i] = writes[i + 1]
  BY <1>1, SMTT(30)
<1>5. Planned(Head(writes), L, Sure, {}, c) /\ \A i \in 1 .. Len(writes') : Planned(writes'[i], L, Sure, {}, c)
  BY <1>2, <1>3, <1>4
<1> QED
  BY <1>2, <1>5

(* The Put of a record keeps the invariant.                                *)
LEMMA WriteRecordSafe ==
  ASSUME TypeOK, Shape, TypeOK', Used, Pending, Lock, Refs, NEW p \in Procs, WriteRecord(p)
  PROVE  Used' /\ Pending' /\ Lock' /\ Refs'
<1> DEFINE w == Head(writes)
<1>1. /\ WriteNext(p, "put") /\ rec' = rec \cup {w.key} /\ stored' = stored /\ refs' = refs
      /\ worker' = [m \in Mirrors |-> IF m = w.key THEN w.worker ELSE worker[m]]
      /\ conf' = [m \in Mirrors |-> IF m = w.key THEN w.conf ELSE conf[m]]
      /\ sources' = [u \in Pubs |-> IF u = w.key THEN w.srcs ELSE sources[u]]
  BY DEF WriteRecord
<1>2. /\ holder = p /\ pc = "save" /\ pc' = "save" /\ writes # << >> /\ w.op = "put"
      /\ job' = job /\ used' = used /\ writes' = Tail(writes)
      /\ Sure' = Sure /\ holder' = holder /\ incoming' \cup store' = {}
  BY <1>1 DEF WriteNext, Sure, Lost, Complete
<1>3. w \in Write
  BY <1>1, HeadType
<1> HIDE DEF w
<1>4. w.key \in Lists
  BY <1>2, <1>3 DEF Write, WriteOf
<1>5. PICK L \in SUBSET used, c \in 0 .. MaxConf :
        /\ Planned(w, L, Sure, {}, c)
        /\ \A i \in 1 .. Len(writes') : Planned(writes'[i], L, Sure, {}, c)
        /\ \A q \in Procs : Away(q) => job[q].mirror \notin L
  BY <1>1, NextWrite DEF w
<1>6. /\ w.key \in L /\ w.conf = c
      /\ \A k \in stored \cap KeysOf(w.key, w.srcs) : refs[k] \subseteq Sure
  BY <1>2, <1>4, <1>5, OwnerFacts DEF Planned
<1>7. Used'
  BY <1>1, <1>2, <1>6 DEF Used
<1>8. Pending'
  <2>1. ASSUME NEW m \in Mirrors, m \in rec', m \in rec => conf[m] <= c
        PROVE  conf'[m] <= c
    <3>1. c <= c
      BY SMTT(30)
    <3>2. CASE m = w.key
      BY <1>1, <1>6, <3>1, <3>2
    <3>3. CASE m # w.key
      BY <1>1, <2>1, <3>3
    <3> QED
      BY <3>2, <3>3
  <2>2. \A i \in 1 .. Len(writes') : Planned(writes[i], L, Sure, incoming \cup store, c)'
    <3>1. \A k \in stored' : Harmless(k)
      BY <1>1 DEF Harmless
    <3> QED
      BY <1>2, <1>5, <2>1, <3>1, StillPlanned
  <2>3. \A q \in Procs : Away(q)' => job'[q].mirror \notin L
    BY <1>2, <1>5 DEF Away
  <2> QED
    BY <1>2, <2>2, <2>3 DEF Pending
<1>9. Refs'
  <2>1. ASSUME NEW k \in stored, NEW l \in rec', k \in KeysOf(l, SourcesOf(l)')
        PROVE  refs[k] \subseteq Sure
    <3>1. CASE l = w.key
      <4>1. KeysOf(l, SourcesOf(l)') = KeysOf(w.key, w.srcs)
        BY <1>1, <3>1 DEF KeysOf, SourcesOf
      <4> QED
        BY <1>6, <2>1, <4>1
    <3>2. CASE l # w.key
      <4>1. l \in rec /\ SourcesOf(l)' = SourcesOf(l)
        BY <1>1, <3>2 DEF SourcesOf
      <4> QED
        BY <2>1, <4>1 DEF Refs, Referenced, LiveKeys
    <3> QED
      BY <3>1, <3>2
  <2>2. ASSUME NEW k \in LiveKeys'
        PROVE  refs'[k] \subseteq Sure'
    <3>1. k \in stored /\ \E l \in rec' : k \in KeysOf(l, SourcesOf(l)')
      BY <1>1, <2>2 DEF LiveKeys
    <3> QED
      BY <1>1, <1>2, <2>1, <3>1
  <2>3. Referenced' \subseteq Sure'
    BY <2>2 DEF Referenced
  <2> QED
    BY <1>2, <2>3 DEF Refs
<1>10. ASSUME NEW q \in Procs, (Away(q) \/ Importing(q))'
       PROVE  Mine(q)'
  <2>1. Away(q) /\ Mine(q)
    BY <1>2, <1>10 DEF Away, Importing, Lock
  <2>2. job[q].mirror # w.key /\ job[q].mirror \in Mirrors
    BY <1>5, <1>6, <2>1 DEF Shape, Away
  <2> QED
    BY <1>1, <1>2, <2>1, <2>2 DEF Mine, Loaded
<1>11. ASSUME NEW q \in Procs, job'[q].phase = "mark"
       PROVE  Marking(q)'
  <2>1. q = p /\ Marking(p) /\ job[p].mirror \in Mirrors
    BY <1>2, <1>11 DEF Lock, Shape
  <2>2. /\ w = PutMirror(job[p].mirror, p, job[p].conf)
        /\ writes' = IF job[p].had THEN <<PutRefs(job[p].mirror, job[p].old)>> ELSE << >>
    BY <1>2, <2>1, MarkingHead DEF w
  <2>3. w.key = job[p].mirror /\ w.worker = p /\ w.conf = job[p].conf
    BY <2>2 DEF PutMirror, Key
  <2>4. Loaded(p)' /\ Mine(p)'
    BY <1>1, <1>2, <2>1, <2>3 DEF Marking, Loaded, Mine
  <2> QED
    BY <1>2, <2>1, <2>2, <2>4 DEF Marking
<1>12. Lock'
  BY <1>2, <1>10, <1>11 DEF Lock
<1> QED
  BY <1>7, <1>8, <1>9, <1>12

(* The Put of a reference list keeps the invariant.                        *)
LEMMA WriteRefsSafe ==
  ASSUME TypeOK, Shape, TypeOK', Used, Pending, Lock, Refs, NEW p \in Procs, WriteRefs(p)
  PROVE  Used' /\ Pending' /\ Lock' /\ Refs'
<1> DEFINE w == Head(writes)
<1>1. /\ WriteNext(p, "putrefs") /\ stored' = stored \cup {w.key}
      /\ refs' = [refs EXCEPT ![w.key] = w.pkgs]
      /\ UNCHANGED <<rec, worker, conf, sources>>
  BY DEF WriteRefs
<1>2. /\ holder = p /\ pc = "save" /\ pc' = "save" /\ writes # << >> /\ w.op = "putrefs"
      /\ job' = job /\ used' = used /\ writes' = Tail(writes)
      /\ Sure' = Sure /\ holder' = holder /\ incoming' \cup store' = {}
  BY <1>1 DEF WriteNext, Sure, Lost, Complete
<1>3. w \in Write
  BY <1>1, HeadType
<1> HIDE DEF w
<1>4. w.key \in RefKeys
  BY <1>2, <1>3 DEF Write, WriteOf
<1>5. PICK L \in SUBSET used, c \in 0 .. MaxConf :
        /\ Planned(w, L, Sure, {}, c)
        /\ \A i \in 1 .. Len(writes') : Planned(writes'[i], L, Sure, {}, c)
        /\ \A q \in Procs : Away(q) => job[q].mirror \notin L
  BY <1>1, NextWrite DEF w
<1>6. Owner(w.key) \in L /\ w.pkgs \subseteq Sure
  BY <1>2, <1>5 DEF Planned
<1>7. \A k \in RefKeys : refs'[k] = IF k = w.key THEN w.pkgs ELSE refs[k]
  BY <1>1, <1>4 DEF TypeOK
<1>8. Used'
  BY <1>1, <1>2, <1>6, <1>7 DEF Used
<1>9. ASSUME NEW k \in stored'
      PROVE  Harmless(k)
  <2>1. k \in RefKeys
    BY <1>1, <1>4 DEF TypeOK
  <2>2. CASE k = w.key
    <3>1. refs'[k] = w.pkgs
      BY <1>7, <2>1, <2>2
    <3> QED
      BY <1>6, <3>1 DEF Harmless
  <2>3. CASE k # w.key
    BY <1>1, <1>7, <2>1, <2>3 DEF Harmless
  <2> QED
    BY <2>2, <2>3
<1>10. Pending'
  <2>1. \A i \in 1 .. Len(writes') : Planned(writes[i], L, Sure, incoming \cup store, c)'
    <3>1. \A m \in Mirrors \cap rec' : (m \in rec => conf[m] <= c) => conf'[m] <= c
      BY <1>1
    <3> QED
      BY <1>2, <1>5, <1>9, <3>1, StillPlanned
  <2>2. \A q \in Procs : Away(q)' => job'[q].mirror \notin L
    BY <1>2, <1>5 DEF Away
  <2> QED
    BY <1>2, <2>1, <2>2 DEF Pending
<1>11. Refs'
  <2>1. pc' # "purge" /\ rec' \subseteq rec
    BY <1>1, <1>2
  <2> QED
    BY <1>1, <1>2, <1>9, <2>1, StillReferenced
<1>12. ASSUME NEW q \in Procs, (Away(q) \/ Importing(q))'
       PROVE  Mine(q)'
  <2>1. Away(q) /\ Mine(q) /\ job[q].mirror \in Mirrors
    BY <1>2, <1>12 DEF Away, Importing, Lock, Shape
  <2>2. job[q].mirror # w.key /\ job[q].mirror \in RefKeys
    BY <1>5, <1>6, <2>1, OtherKey
  <2> QED
    BY <1>1, <1>2, <1>7, <2>1, <2>2 DEF Mine, Loaded
<1>13. ASSUME NEW q \in Procs, job'[q].phase = "mark"
       PROVE  Marking(q)'
  <2>1. q = p /\ Marking(p) /\ job[p].mirror \in Mirrors
    BY <1>2, <1>13 DEF Lock, Shape
  <2>2. Mine(p) /\ job[p].had /\ w = PutRefs(job[p].mirror, job[p].old) /\ writes' = << >>
    BY <1>2, <2>1, MarkingHead DEF w
  <2>3. w.key = job[p].mirror /\ w.pkgs = job[p].old
    BY <2>2 DEF PutRefs, Key
  <2>4. Loaded(p)' /\ Mine(p)'
    BY <1>1, <1>2, <1>4, <1>7, <2>2, <2>3 DEF Loaded, Mine
  <2> QED
    BY <1>2, <2>1, <2>2, <2>4 DEF Marking
<1>14. Lock'
  BY <1>2, <1>12, <1>13 DEF Lock
<1> QED
  BY <1>8, <1>10, <1>11, <1>14

(* The Delete of a record keeps the invariant.                             *)
LEMMA DeleteRecordSafe ==
  ASSUME TypeOK, Shape, Used, Pending, Lock, Refs, NEW p \in Procs, DeleteRecord(p)
  PROVE  Used' /\ Pending' /\ Lock' /\ Refs'
<1> DEFINE w == Head(writes)
<1>1. /\ WriteNext(p, "del") /\ rec' = rec \ {w.key}
      /\ UNCHANGED <<worker, conf, sources, stored, refs>>
  BY DEF DeleteRecord
<1>2. /\ holder = p /\ pc = "save" /\ pc' = "save" /\ writes # << >> /\ w.op = "del"
      /\ job' = job /\ used' = used
      /\ Sure' = Sure /\ holder' = holder /\ incoming' \cup store' = {}
  BY <1>1 DEF WriteNext, Sure, Lost, Complete
<1>3. w \in Write
  BY <1>1, HeadType
<1> HIDE DEF w
<1>4. w.key \in Lists
  BY <1>2, <1>3 DEF Write, WriteOf
<1>5. PICK L \in SUBSET used, c \in 0 .. MaxConf :
        /\ Planned(w, L, Sure, {}, c)
        /\ \A i \in 1 .. Len(writes') : Planned(writes'[i], L, Sure, {}, c)
        /\ \A q \in Procs : Away(q) => job[q].mirror \notin L
  BY <1>1, NextWrite DEF w
<1>6. w.key \in L
  BY <1>4, <1>5, OwnerFacts DEF Planned
<1>7. Used'
  BY <1>1, <1>2 DEF Used
<1>8. Pending'
  <2>1. \A i \in 1 .. Len(writes') : Planned(writes[i], L, Sure, incoming \cup store, c)'
    <3>1. \A m \in Mirrors \cap rec' : (m \in rec => conf[m] <= c) => conf'[m] <= c
      BY <1>1
    <3>2. \A k \in stored' : Harmless(k)
      BY <1>1 DEF Harmless
    <3> QED
      BY <1>2, <1>5, <3>1, <3>2, StillPlanned
  <2>2. \A q \in Procs : Away(q)' => job'[q].mirror \notin L
    BY <1>2, <1>5 DEF Away
  <2> QED
    BY <1>2, <2>1, <2>2 DEF Pending
<1>9. Refs'
  <2>1. \A k \in stored' : Harmless(k)
    BY <1>1 DEF Harmless
  <2>2. pc' # "purge" /\ rec' \subseteq rec
    BY <1>1, <1>2
  <2> QED
    BY <1>1, <1>2, <2>1, <2>2, StillReferenced
<1>10. ASSUME NEW q \in Procs, (Away(q) \/ Importing(q))'
       PROVE  Mine(q)'
  <2>1. Away(q) /\ Mine(q)
    BY <1>2, <1>10 DEF Away, Importing, Lock
  <2>2. job[q].mirror # w.key
    BY <1>5, <1>6, <2>1
  <2> QED
    BY <1>1, <1>2, <2>1, <2>2 DEF Mine, Loaded
<1>11. \A q \in Procs : job'[q].phase # "mark"
  BY <1>2, MarkingHead DEF Lock, Shape, w
<1>12. Lock'
  BY <1>2, <1>10, <1>11 DEF Lock
<1> QED
  BY <1>7, <1>8, <1>9, <1>12

(* The Delete of a reference list keeps the invariant.                     *)
LEMMA DeleteRefsSafe ==
  ASSUME TypeOK, Shape, Used, Pending, Lock, Refs, NEW p \in Procs, DeleteRefs(p)
  PROVE  Used' /\ Pending' /\ Lock' /\ Refs'
<1> DEFINE w == Head(writes)
<1>1. /\ WriteNext(p, "delrefs") /\ stored' = stored \ {w.key}
      /\ refs' = [refs EXCEPT ![w.key] = {}]
      /\ UNCHANGED <<rec, worker, conf, sources>>
  BY DEF DeleteRefs
<1>2. /\ holder = p /\ pc = "save" /\ pc' = "save" /\ writes # << >> /\ w.op = "delrefs"
      /\ job' = job /\ used' = used
      /\ Sure' = Sure /\ holder' = holder /\ incoming' \cup store' = {}
  BY <1>1 DEF WriteNext, Sure, Lost, Complete
<1>3. w \in Write
  BY <1>1, HeadType
<1> HIDE DEF w
<1>4. w.key \in RefKeys
  BY <1>2, <1>3 DEF Write, WriteOf
<1>5. PICK L \in SUBSET used, c \in 0 .. MaxConf :
        /\ Planned(w, L, Sure, {}, c)
        /\ \A i \in 1 .. Len(writes') : Planned(writes'[i], L, Sure, {}, c)
        /\ \A q \in Procs : Away(q) => job[q].mirror \notin L
  BY <1>1, NextWrite DEF w
<1>6. Owner(w.key) \in L
  BY <1>5 DEF Planned
<1>7. \A k \in RefKeys : refs'[k] = IF k = w.key THEN {} ELSE refs[k]
  BY <1>1, <1>4 DEF TypeOK
<1>8. Used'
  BY <1>1, <1>2, <1>7 DEF Used
<1>9. ASSUME NEW k \in stored'
      PROVE  Harmless(k)
  <2>1. k \in stored /\ k # w.key /\ k \in RefKeys
    BY <1>1 DEF TypeOK
  <2> QED
    BY <1>7, <2>1 DEF Harmless
<1>10. Pending'
  <2>1. \A i \in 1 .. Len(writes') : Planned(writes[i], L, Sure, incoming \cup store, c)'
    <3>1. \A m \in Mirrors \cap rec' : (m \in rec => conf[m] <= c) => conf'[m] <= c
      BY <1>1
    <3> QED
      BY <1>2, <1>5, <1>9, <3>1, StillPlanned
  <2>2. \A q \in Procs : Away(q)' => job'[q].mirror \notin L
    BY <1>2, <1>5 DEF Away
  <2> QED
    BY <1>2, <2>1, <2>2 DEF Pending
<1>11. Refs'
  <2>1. pc' # "purge" /\ rec' \subseteq rec
    BY <1>1, <1>2
  <2> QED
    BY <1>1, <1>2, <1>9, <2>1, StillReferenced
<1>12. ASSUME NEW q \in Procs, (Away(q) \/ Importing(q))'
       PROVE  Mine(q)'
  <2>1. Away(q) /\ Mine(q) /\ job[q].mirror \in Mirrors
    BY <1>2, <1>12 DEF Away, Importing, Lock, Shape
  <2>2. job[q].mirror # w.key /\ job[q].mirror \in RefKeys
    BY <1>5, <1>6, <2>1, OtherKey
  <2> QED
    BY <1>1, <1>2, <1>7, <2>1, <2>2 DEF Mine, Loaded
<1>13. \A q \in Procs : job'[q].phase # "mark"
  BY <1>2, MarkingHead DEF Lock, Shape, w
<1>14. Lock'
  BY <1>2, <1>12, <1>13 DEF Lock
<1> QED
  BY <1>8, <1>10, <1>11, <1>14

(***************************************************************************)
(* The other steps.                                                        *)
(***************************************************************************)

(* What db cleanup may delete is what it may have deleted before.          *)
LEMMA SameLost ==
  ASSUME waived' = waived
  PROVE  Lost' = Lost
BY DEF Lost

(* Steps that keep the lists, the plan and every job's mirror.             *)
LEMMA QuietSafe ==
  ASSUME TypeOK, Shape, TypeOK', Shape', Used, Pending, Lock, Refs,
         UNCHANGED <<rec, worker, conf, sources, stored, refs, used, writes>>,
         Sure \subseteq Sure',
         incoming \cup store \subseteq incoming' \cup store' \cup Sure',
         pc' = "purge" => doomed' \cap Referenced \subseteq Lost',
         \A q \in Procs :
             /\ job'[q].phase = job[q].phase /\ job'[q].mirror = job[q].mirror
             /\ job'[q].had = job[q].had /\ job'[q].old = job[q].old /\ job'[q].conf = job[q].conf,
         pc' = "import" => pc = "import" /\ holder' = holder
  PROVE  Used' /\ Pending' /\ Lock' /\ Refs'
<1>1. Pending'
  BY FramePending DEF Away
<1>2. job' \in [Procs -> Job]
  BY DEF TypeOK
<1>3. \A q \in Procs : (Away(q) \/ Importing(q))' => Mine(q)
  BY DEF Away, Importing, Lock
<1>4. Referenced \subseteq Sure'
  BY DEF Refs
<1>5. Used' /\ Lock' /\ Refs'
  BY <1>2, <1>3, <1>4, FrameSafe
<1> QED
  BY <1>1, <1>5

(* Steps after which nothing is planned, and which at most end a job.      *)
LEMMA IdleSafe ==
  ASSUME TypeOK, Shape, TypeOK', Shape', Used, Lock, Refs,
         UNCHANGED <<rec, worker, conf, sources, stored, refs, used>>, writes' = << >>,
         Referenced \subseteq Sure',
         pc' = "purge" => doomed' \cap Referenced \subseteq Lost',
         \A q \in Procs : job'[q].phase # "none" =>
             /\ job[q].phase # "none" /\ job'[q].mirror = job[q].mirror
             /\ job'[q].had = job[q].had /\ job'[q].old = job[q].old /\ job'[q].conf = job[q].conf,
         \A q \in Procs : (Away(q) \/ Importing(q))' => Mine(q),
         \A q \in Procs : job'[q].phase # "mark"
  PROVE  Used' /\ Pending' /\ Lock' /\ Refs'
<1>1. job' \in [Procs -> Job]
  BY DEF TypeOK
<1> QED
  BY <1>1, FrameSafe, NothingPending

(* Importing, storing and writing keep the invariant.                      *)
LEMMA StepsSafe ==
  ASSUME TypeOK, Shape, TypeOK', Shape', Used, Pending, Lock, Refs, NEW p \in Procs, Steps(p)
  PROVE  Used' /\ Pending' /\ Lock' /\ Refs'
<1>1. ASSUME NEW q \in Pkgs, ImportFiles(p, q)
      PROVE  Used' /\ Pending' /\ Lock' /\ Refs'
  <2>1. UNCHANGED <<rec, worker, conf, sources, stored, refs, used, writes, pc, job, holder>>
    BY <1>1 DEF ImportFiles, dbvars
  <2>2. Sure' = Sure /\ incoming \cup store \subseteq incoming' \cup store'
    BY <1>1 DEF ImportFiles, dbvars, Sure, Lost, Complete
  <2>3. pc' # "purge" /\ pc' # "import"
    BY <1>1 DEF ImportFiles
  <2> QED
    BY <2>1, <2>2, <2>3, QuietSafe
<1>4. ASSUME NEW q \in Pkgs, NEW fs, ImportRefused(p, q, fs)
      PROVE  Used' /\ Pending' /\ Lock' /\ Refs'
  <2>1. UNCHANGED <<rec, worker, conf, sources, stored, refs, used, writes, pc, job, holder>>
    BY <1>4 DEF ImportRefused, dbvars
  <2>2. /\ Sure' = Sure /\ incoming' \cup store' = (incoming \cup store) \ {q}
        /\ \A i \in 1 .. Len(writes) : q \notin writes[i].pkgs
    BY <1>4 DEF ImportRefused, dbvars, Sure, Lost, Complete
  <2>3. Pending'
    <3>1. PICK L \in SUBSET used, c \in 0 .. MaxConf :
            /\ \A i \in 1 .. Len(writes) : Planned(writes[i], L, Sure, incoming \cup store, c)
            /\ \A a \in Procs : Away(a) => job[a].mirror \notin L
      BY DEF Pending
    <3>2. \A i \in 1 .. Len(writes') : Planned(writes[i], L, Sure, incoming \cup store, c)'
      BY <2>1, <2>2, <3>1 DEF Planned
    <3>3. L \in SUBSET used' /\ \A a \in Procs : Away(a)' => job'[a].mirror \notin L
      BY <2>1, <3>1 DEF Away
    <3> QED
      BY <3>2, <3>3 DEF Pending
  <2>4. pc' # "purge" /\ pc' # "import" /\ job' \in [Procs -> Job]
    BY <1>4 DEF ImportRefused, TypeOK
  <2>5. \A a \in Procs : (Away(a) \/ Importing(a))' => Mine(a)
    BY <2>1 DEF Away, Importing, Lock
  <2>6. Referenced \subseteq Sure'
    BY <2>2 DEF Refs
  <2>7. Used' /\ Lock' /\ Refs'
    BY <2>1, <2>4, <2>5, <2>6, FrameSafe
  <2> QED
    BY <2>3, <2>7
<1>2. ASSUME NEW q \in Pkgs, StorePackage(p, q)
      PROVE  Used' /\ Pending' /\ Lock' /\ Refs'
  <2>1. UNCHANGED <<rec, worker, conf, sources, stored, refs, used, writes, pc, job, holder>>
    BY <1>2 DEF StorePackage
  <2>2. /\ Sure \subseteq Sure' /\ q \in Sure'
        /\ incoming' = incoming /\ store' = store \ {q}
    BY <1>2 DEF StorePackage, Sure, Lost, Complete, TypeOK
  <2>3. pc' # "purge" /\ pc' # "import"
    BY <1>2 DEF StorePackage
  <2>4. incoming \cup store \subseteq incoming' \cup store' \cup Sure'
    BY <2>2
  <2> QED
    BY <2>1, <2>2, <2>3, <2>4, QuietSafe
<1>3. CASE CommandDone(p)
  <2>1. /\ UNCHANGED <<rec, worker, conf, sources, stored, refs, used>>
        /\ writes' = << >> /\ pc' = "idle" /\ holder' = p /\ holder = p /\ Sure' = Sure
    BY <1>3 DEF CommandDone, Written, dbvars, planvars, Sure, Lost, Complete
  <2>2. /\ job'[p].phase = "none" /\ \A q \in Procs \ {p} : job'[q] = job[q]
    BY <1>3 DEF CommandDone, EndJob, NoJob, TypeOK
  <2>3. \A q \in Procs : (Away(q) \/ Importing(q))' => Mine(q)
    BY <2>1, <2>2 DEF Away, Importing, Lock
  <2>4. \A q \in Procs : job'[q].phase # "mark"
    BY <2>1 DEF Shape
  <2>5. Referenced \subseteq Sure'
    BY <2>1 DEF Refs
  <2> QED
    BY <2>1, <2>2, <2>3, <2>4, <2>5, IdleSafe
<1> QED
  BY <1>1, <1>2, <1>3, <1>4, WriteRecordSafe, WriteRefsSafe, DeleteRecordSafe, DeleteRefsSafe DEF Steps

(* The steps of db cleanup keep the invariant: it deletes no package that  *)
(* is referenced when the batch is written, because no other process can   *)
(* write in between.                                                       *)
LEMMA CleanupSafe ==
  ASSUME TypeOK, Shape, TypeOK', Shape', Used, Pending, Lock, Refs, NEW p \in Procs, CleanupSteps(p)
  PROVE  Used' /\ Pending' /\ Lock' /\ Refs'
<1>1. ASSUME NEW lost \in SUBSET Referenced, Cleanup(p, lost)
      PROVE  Used' /\ Pending' /\ Lock' /\ Refs'
  <2>1. /\ UNCHANGED <<rec, worker, conf, sources, stored, refs, used, writes, job, incoming, store>>
        /\ Sure' = Sure /\ pc' = "purge"
    BY <1>1 DEF Cleanup, dbvars, Sure, Lost, Complete
  <2>2. doomed' \cap Referenced \subseteq Lost'
    <3>1. lost \subseteq Lost /\ Lost' = Lost
      BY <1>1, ReferencedType, SameLost DEF Cleanup, Lost
    <3> QED
      BY <1>1, <3>1 DEF Cleanup
  <2> QED
    BY <2>1, <2>2, QuietSafe
<1>2. CASE DeletePackages(p)
  <2>1. /\ UNCHANGED <<rec, worker, conf, sources, stored, refs, used, job>>
        /\ writes' = << >> /\ pc' = "scan" /\ pc = "purge"
    BY <1>2 DEF DeletePackages, Shape
  <2>2. Referenced \subseteq Sure'
    <3>1. \A q \in Sure : q \notin doomed \/ q \in Lost => q \in Sure'
      BY <1>2 DEF DeletePackages, Sure, Lost, Complete
    <3> QED
      BY <2>1, <3>1 DEF Refs
  <2>3. \A q \in Procs : (Away(q) \/ Importing(q))' => Mine(q)
    BY <2>1 DEF Away, Importing, Lock
  <2>4. \A q \in Procs : job'[q].phase # "mark"
    BY <2>1 DEF Shape
  <2> QED
    BY <2>1, <2>2, <2>3, <2>4, IdleSafe
<1>3. CASE ScanPool(p)
  <2>1. /\ UNCHANGED <<rec, worker, conf, sources, stored, refs, used, writes, job, incoming, store>>
        /\ Sure' = Sure /\ pc' \in {"unlink", "idle"}
    BY <1>3 DEF ScanPool, dbvars, Sure, Lost, Complete
  <2> QED
    BY <2>1, QuietSafe
<1>4. ASSUME NEW x \in unlink, RemoveFile(p, x)
      PROVE  Used' /\ Pending' /\ Lock' /\ Refs'
  <2>1. /\ UNCHANGED <<rec, worker, conf, sources, stored, refs, used, writes, incoming, store>>
        /\ Sure' = Sure /\ pc' \in {"unlink", "idle"}
    BY <1>4 DEF RemoveFile, dbvars, Sure, Lost, Complete
  <2>2. \A q \in Procs :
          /\ job'[q].phase = job[q].phase /\ job'[q].mirror = job[q].mirror
          /\ job'[q].had = job[q].had /\ job'[q].old = job[q].old /\ job'[q].conf = job[q].conf
    BY <1>4, SMTT(30) DEF RemoveFile, TypeOK, Job
  <2> QED
    BY <2>1, <2>2, QuietSafe
<1>5. CASE CleanupDone(p)
  <2>1. /\ UNCHANGED <<rec, worker, conf, sources, stored, refs, used, writes, job, incoming, store>>
        /\ Sure' = Sure /\ pc' = "idle"
    BY <1>5 DEF CleanupDone, dbvars, planvars, Sure, Lost, Complete
  <2> QED
    BY <2>1, QuietSafe
<1> QED
  BY <1>1, <1>2, <1>3, <1>4, <1>5 DEF CleanupSteps

(* A crash at any point keeps the invariant: packages are stored before    *)
(* the references to them.                                                 *)
LEMMA CrashesSafe ==
  ASSUME TypeOK, Shape, TypeOK', Shape', Used, Pending, Lock, Refs, NEW p \in Procs, Crashes(p)
  PROVE  Used' /\ Pending' /\ Lock' /\ Refs'
<1>1. Dies(p) /\ Sure \subseteq Sure'
  <2> USE DEF Dies
  <2>1. ASSUME NEW q \in Pkgs, CrashStoring(p, q)
        PROVE  Dies(p) /\ Sure \subseteq Sure'
    BY <2>1 DEF CrashStoring, Sure, Lost, Complete, TypeOK
  <2> QED
    BY <2>1 DEF Crashes, Crash, CrashImporting, Sure, Lost, Complete
<1>2. /\ UNCHANGED <<rec, worker, conf, sources, stored, refs, used>>
      /\ job'[p].phase = "none" /\ \A q \in Procs \ {p} : job'[q] = job[q]
      /\ Lost' = Lost
  BY <1>1, SameLost DEF Dies, EndJob, NoJob, TypeOK
<1>3. Referenced \subseteq Sure'
  BY <1>1 DEF Refs
<1>4. CASE holder = p
  <2>1. writes' = << >> /\ pc' = "idle"
    BY <1>1, <1>4 DEF Dies
  <2>2. \A q \in Procs : (Away(q) \/ Importing(q))' => Mine(q)
    BY <1>2, <2>1 DEF Away, Importing, Lock
  <2>3. \A q \in Procs : job'[q].phase # "mark"
    BY <2>1 DEF Shape
  <2> QED
    BY <1>2, <1>3, <2>1, <2>2, <2>3, IdleSafe
<1>5. CASE holder # p
  <2>1. UNCHANGED <<holder, pc, incoming, store, writes, doomed>>
    BY <1>1, <1>5 DEF Dies, planvars
  <2>2. Pending'
    <3>1. \A q \in Procs : Away(q)' => Away(q) /\ job'[q].mirror = job[q].mirror
      BY <1>2 DEF Away
    <3> QED
      BY <1>1, <1>2, <2>1, <3>1, FramePending
  <2>3. \A q \in Procs : (Away(q) \/ Importing(q))' => Mine(q)
    BY <1>2, <1>5, <2>1 DEF Away, Importing, Lock
  <2>4. pc' = "purge" => doomed' \cap Referenced \subseteq Lost'
    BY <1>2, <2>1 DEF Refs
  <2>5. job' \in [Procs -> Job]
    BY DEF TypeOK
  <2>6. Used' /\ Lock' /\ Refs'
    BY <1>2, <1>3, <2>1, <2>3, <2>4, <2>5, FrameSafe
  <2> QED
    BY <2>2, <2>6
<1> QED
  BY <1>4, <1>5

(* The steps of mirror update that only start, go on with or end a job.    *)
LEMMA JobStepsSafe ==
  ASSUME TypeOK, Shape, TypeOK', Shape', Used, Pending, Lock, Refs, NEW p \in Procs,
         UNCHANGED <<rec, worker, conf, sources, stored, refs, used, planvars>>,
         Sure' = Sure, Lost' = Lost,
         \A q \in Procs \ {p} : job'[q] = job[q],
         job'[p].phase # "none" =>
             /\ job[p].phase # "none" /\ job'[p].mirror = job[p].mirror
             /\ job'[p].had = job[p].had /\ job'[p].old = job[p].old /\ job'[p].conf = job[p].conf,
         Away(p) \/ (job[p].phase = "mark" /\ Written(p)),
         \/ ReOpenDatabase(p) /\ pc' = "import" /\ holder' = p /\ holder = NoProc
         \/ job'[p].phase \in {"none", "unlock"} /\ UNCHANGED <<holder, pc>> /\ Away(p)
         \/ StartDownloads(p) /\ pc' = "idle" /\ writes = << >> /\ holder = p
  PROVE  Used' /\ Pending' /\ Lock' /\ Refs'
<1>1. Referenced \subseteq Sure'
  BY DEF Refs
<1>2. Mine(p)
  <2>1. CASE Away(p)
    BY <2>1 DEF Lock
  <2>2. CASE job[p].phase = "mark" /\ Written(p)
    <3>1. writes = << >> /\ Marking(p)
      BY <2>2 DEF Written, Lock
    <3>2. SaveMirror(job[p].mirror, p, job[p].conf, job[p].had, job[p].old) # << >>
      BY DEF SaveMirror, Save
    <3> QED
      BY <3>1, <3>2 DEF Marking
  <2> QED
    BY <2>1, <2>2
<1>3. \A q \in Procs : (Away(q) \/ Importing(q))' => Mine(q)
  BY <1>2 DEF Away, Importing, Lock, Shape
<1>4. CASE ReOpenDatabase(p) /\ pc' = "import" /\ holder' = p /\ holder = NoProc
  <2>1. writes' = << >> /\ pc' # "purge" /\ \A q \in Procs : job'[q].phase # "mark"
    BY <1>4 DEF Shape
  <2> QED
    BY <1>1, <1>3, <2>1, IdleSafe
<1>5. CASE StartDownloads(p) /\ pc' = "idle" /\ writes = << >> /\ holder = p
  <2>1. writes' = << >> /\ pc' # "purge" /\ \A q \in Procs : job'[q].phase # "mark"
    BY <1>5 DEF Shape, planvars
  <2> QED
    BY <1>1, <1>3, <2>1, IdleSafe
<1>6. CASE job'[p].phase \in {"none", "unlock"} /\ UNCHANGED <<holder, pc>> /\ Away(p)
  <2>1. UNCHANGED <<incoming, store, writes, doomed>>
    BY DEF planvars
  <2>2. Pending'
    <3>1. \A q \in Procs : Away(q)' => Away(q) /\ job'[q].mirror = job[q].mirror
      BY <1>6 DEF Away
    <3> QED
      BY <2>1, <3>1, FramePending
  <2>3. pc' = "purge" => doomed' \cap Referenced \subseteq Lost'
    BY <1>6, <2>1 DEF Refs
  <2>4. job' \in [Procs -> Job]
    BY DEF TypeOK
  <2>5. Used' /\ Lock' /\ Refs'
    BY <1>1, <1>3, <1>6, <2>1, <2>3, <2>4, FrameSafe
  <2> QED
    BY <2>2, <2>5
<1> QED
  BY <1>4, <1>5, <1>6

(* The steps of mirror update that plan to write the mirror.               *)
LEMMA SaveBackSafe ==
  ASSUME TypeOK, Shape, TypeOK', Shape', Used, Lock, Refs, NEW p \in Procs, Mine(p), job[p].phase # "none",
         UNCHANGED <<rec, worker, conf, sources, stored, refs, used>>, Sure' = Sure,
         \A q \in Procs \ {p} : job'[q] = job[q],
         job'[p].phase = "import" /\ job'[p].mirror = job[p].mirror
             /\ job'[p].had = job[p].had /\ job'[p].old = job[p].old /\ job'[p].conf = job[p].conf,
         pc' = "save",
         \A i \in 1 .. Len(writes') :
            Planned(writes'[i], {job[p].mirror}, Sure, incoming' \cup store', job[p].conf)
  PROVE  Used' /\ Pending' /\ Lock' /\ Refs'
<1>1. Pending'
  <2>1. PICK L \in SUBSET used, c \in 0 .. MaxConf : L = {job[p].mirror} /\ c = job[p].conf
    <3>1. {job[p].mirror} \in SUBSET used
      BY DEF Used
    <3>2. job[p].conf \in 0 .. MaxConf
      BY DEF TypeOK, Job
    <3> QED
      BY <3>1, <3>2
  <2>2. \A i \in 1 .. Len(writes') : Planned(writes[i], L, Sure, incoming \cup store, c)'
    BY <2>1 DEF Planned
  <2>3. \A q \in Procs : Away(q)' => job'[q].mirror \notin L
    BY <2>1 DEF Away, Lock
  <2> QED
    BY <2>2, <2>3 DEF Pending
<1>2. Referenced \subseteq Sure'
  BY DEF Refs
<1>3. \A q \in Procs : (Away(q) \/ Importing(q))' => Mine(q)
  BY DEF Away, Importing, Lock
<1>4. job' \in [Procs -> Job]
  BY DEF TypeOK
<1>5. \A q \in Procs : job'[q].phase # "mark"
  BY DEF Shape
<1>6. Used' /\ Lock' /\ Refs'
  BY <1>2, <1>3, <1>4, <1>5, FrameSafe
<1> QED
  BY <1>1, <1>6

(* The mirror written back as it was loaded, or with its new packages.     *)
LEMMA WriteBackPlanned ==
  ASSUME TypeOK, Shape, Used, NEW p \in Procs, Mine(p), job[p].phase # "none", NEW todo
  PROVE  /\ \A i \in 1 .. Len(Unlock(p)) :
              Planned(Unlock(p)[i], {job[p].mirror}, Referenced, todo, job[p].conf)
         /\ job[p].want \subseteq todo => \A i \in 1 .. Len(FinalWrites(p)) :
              Planned(FinalWrites(p)[i], {job[p].mirror}, Referenced, todo, job[p].conf)
<1> DEFINE m == job[p].mirror
           c == job[p].conf
<1>1. m \in Mirrors /\ m \in rec /\ conf[m] = c /\ c \in Int /\ conf[m] <= c
  <2>1. m \in Mirrors /\ m \in rec /\ conf[m] = c
    BY DEF Mine, Loaded, Shape
  <2>2. conf \in [Mirrors -> 0 .. MaxConf]
    BY DEF TypeOK
  <2>3. conf[m] \in 0 .. MaxConf
    BY <2>1, <2>2
  <2> HIDE DEF m, c
  <2> QED
    BY <2>1, <2>3, SMTT(30)
<1>2. job[p].old \subseteq Referenced /\ job[p].had \in BOOLEAN
  BY <1>1, KnownRefs DEF Mine, Loaded, TypeOK, Job
<1>3. \A i \in 1 .. Len(Unlock(p)) : Planned(Unlock(p)[i], {m}, Referenced, todo, c)
  <2> HIDE DEF m, c
  <2> QED
    BY <1>1, <1>2, SaveMirrorPlanned DEF Unlock, m, c
<1>4. ASSUME job[p].want \subseteq todo
      PROVE  \A i \in 1 .. Len(FinalWrites(p)) : Planned(FinalWrites(p)[i], {m}, Referenced, todo, c)
  <2> DEFINE S == job[p].want
             a == SaveMirror(m, p, c, TRUE, S)
             b == SaveMirror(m, NoProc, c, TRUE, S)
  <2>1. a = <<PutMirror(m, p, c), PutRefs(m, S)>> /\ b = <<PutMirror(m, NoProc, c), PutRefs(m, S)>>
    BY DEF SaveMirror, Save, PutMirror, Key
  <2>2. TRUE \in BOOLEAN /\ S \subseteq Referenced \cup todo
    BY <1>4
  <2>3. (\A i \in 1 .. Len(a) : Planned(a[i], {m}, Referenced, todo, c)) /\ (\A i \in 1 .. Len(b) : Planned(b[i], {m}, Referenced, todo, c))
    BY <1>1, <2>2, SaveMirrorPlanned
  <2>4. FinalWrites(p) = a \o b
    BY DEF FinalWrites
  <2>5. a \in Seq(Write) /\ b \in Seq(Write)
    <3>1. m \in Mirrors /\ c \in 0 .. MaxConf /\ S \in SUBSET Pkgs
      BY <1>1 DEF TypeOK, Job
    <3> HIDE DEF m, c, S
    <3> QED
      BY <3>1, SaveUpdatedType
  <2>6. Len(a) = 2 /\ Len(b) = 2
    BY <2>1
  <2> HIDE DEF a, b
  <2>7. \A i \in 1 .. Len(a \o b) : Planned((a \o b)[i], {m}, Referenced, todo, c)
    <3> HIDE DEF m, c
    <3> QED
      BY <2>3, <2>5, <2>6, ConcatPlanned
  <2> QED
    BY <2>4, <2>7
<1> QED
  BY <1>3, <1>4

(* The steps of mirror update keep the invariant: what it writes at its    *)
(* end is the mirror as it was loaded, which CheckLock kept from changing. *)
LEMMA UpdateStepsSafe ==
  ASSUME TypeOK, Shape, TypeOK', Shape', Used, Pending, Lock, Refs, NEW p \in Procs, UpdateSteps(p)
  PROVE  Used' /\ Pending' /\ Lock' /\ Refs'
<1>1. job \in [Procs -> Job] /\ job[p] \in Job
  BY DEF TypeOK
<1>2. CASE StartDownloads(p)
  <2>1. /\ UNCHANGED <<rec, worker, conf, sources, stored, refs, used, planvars>>
        /\ Sure' = Sure /\ Lost' = Lost
        /\ job[p].phase = "mark" /\ Written(p) /\ pc' = "idle" /\ writes = << >> /\ holder = p
    BY <1>2 DEF StartDownloads, Written, dbvars, Sure, Lost, Complete
  <2>2. /\ \A q \in Procs \ {p} : job'[q] = job[q]
        /\ job'[p].mirror = job[p].mirror /\ job'[p].had = job[p].had
        /\ job'[p].old = job[p].old /\ job'[p].conf = job[p].conf
    BY <1>1, <1>2 DEF StartDownloads, Job
  <2> QED
    BY <1>2, <2>1, <2>2, JobStepsSafe
<1>3. ASSUME NEW f \in Files,
             DownloadFile(p, f) \/ DownloadDone(p, f) \/ DownloadFailed(p, f) \/ ImportDownload(p, f)
      PROVE  Used' /\ Pending' /\ Lock' /\ Refs'
  <2>1. UNCHANGED <<rec, worker, conf, sources, stored, refs, parts, used, planvars, pc, holder, waived>>
    BY <1>3 DEF DownloadFile, DownloadDone, DownloadFailed, ImportDownload, DownloadOnly, dbvars
  <2>2. \A q \in Procs :
          /\ job'[q].phase = job[q].phase /\ job'[q].mirror = job[q].mirror
          /\ job'[q].had = job[q].had /\ job'[q].old = job[q].old /\ job'[q].conf = job[q].conf
    BY <1>1, <1>3, SMTT(30) DEF DownloadFile, DownloadDone, DownloadFailed, ImportDownload, Job
  <2>3. UNCHANGED <<incoming, store, writes, doomed>> /\ Sure' = Sure /\ Lost' = Lost
    BY <2>1 DEF planvars, Sure, Lost, Complete
  <2>4. pc' = "purge" => doomed' \cap Referenced \subseteq Lost'
    BY <2>1, <2>3 DEF Refs
  <2> QED
    BY <2>1, <2>2, <2>3, <2>4, QuietSafe
<1>4. ASSUME NEW more \in SUBSET job[p].queue, Interrupt(p, more)
      PROVE  Used' /\ Pending' /\ Lock' /\ Refs'
  <2>1. UNCHANGED <<rec, worker, conf, sources, stored, refs, parts, used, planvars, pc, holder, waived>>
    BY <1>4 DEF Interrupt, DownloadOnly, dbvars
  <2>2. \A q \in Procs :
          /\ job'[q].phase = job[q].phase /\ job'[q].mirror = job[q].mirror
          /\ job'[q].had = job[q].had /\ job'[q].old = job[q].old /\ job'[q].conf = job[q].conf
    BY <1>1, <1>4 DEF Interrupt, Job
  <2>3. UNCHANGED <<incoming, store, writes, doomed>> /\ Sure' = Sure /\ Lost' = Lost
    BY <2>1 DEF planvars, Sure, Lost, Complete
  <2>4. pc' = "purge" => doomed' \cap Referenced \subseteq Lost'
    BY <2>1, <2>3 DEF Refs
  <2> QED
    BY <2>1, <2>2, <2>3, <2>4, QuietSafe
<1>5. CASE ReOpenDatabase(p)
  <2>1. /\ UNCHANGED <<rec, worker, conf, sources, stored, refs, used, planvars>>
        /\ Sure' = Sure /\ Lost' = Lost
        /\ Away(p) /\ pc' = "import" /\ holder' = p /\ holder = NoProc
    BY <1>5 DEF ReOpenDatabase, WorkersDone, Downloading, Away, dbvars, Sure, Lost, Complete
  <2>2. /\ \A q \in Procs \ {p} : job'[q] = job[q]
        /\ job'[p].mirror = job[p].mirror /\ job'[p].had = job[p].had
        /\ job'[p].old = job[p].old /\ job'[p].conf = job[p].conf
    BY <1>1, <1>5 DEF ReOpenDatabase, Job
  <2>3. job[p].phase # "none"
    BY <2>1 DEF Away
  <2> QED
    BY <1>5, <2>1, <2>2, <2>3, JobStepsSafe
<1>6. CASE ReOpenFailed(p)
  <2>1. /\ UNCHANGED <<rec, worker, conf, sources, stored, refs, used, planvars>>
        /\ Sure' = Sure /\ Lost' = Lost
        /\ Away(p) /\ UNCHANGED <<holder, pc>>
    BY <1>6 DEF ReOpenFailed, WorkersDone, Downloading, Away, dbvars, Sure, Lost, Complete
  <2>2. /\ \A q \in Procs \ {p} : job'[q] = job[q]
        /\ job'[p].phase = "unlock" /\ job'[p].mirror = job[p].mirror /\ job'[p].had = job[p].had
        /\ job'[p].old = job[p].old /\ job'[p].conf = job[p].conf
    BY <1>1, <1>6 DEF ReOpenFailed, Job
  <2>3. job[p].phase # "none"
    BY <2>1 DEF Away
  <2> QED
    BY <2>1, <2>2, <2>3, JobStepsSafe
<1>7. CASE GiveUp(p)
  <2>1. /\ UNCHANGED <<rec, worker, conf, sources, stored, refs, used, planvars>>
        /\ Sure' = Sure /\ Lost' = Lost
        /\ Away(p) /\ UNCHANGED <<holder, pc>>
    BY <1>7 DEF GiveUp, Away, dbvars, Sure, Lost, Complete
  <2>2. (\A q \in Procs \ {p} : job'[q] = job[q]) /\ job'[p].phase = "none"
    BY <1>1, <1>7 DEF GiveUp, EndJob, NoJob
  <2> QED
    BY <2>1, <2>2, JobStepsSafe
<1>8. CASE DeferredUnlock(p)
  <2>1. /\ UNCHANGED <<rec, worker, conf, sources, stored, refs, used>> /\ Sure' = Sure
        /\ Away(p) /\ job[p].phase # "none" /\ pc' = "save" /\ writes' = Unlock(p)
    BY <1>8 DEF DeferredUnlock, Away, dbvars, Sure, Lost, Complete
  <2>2. /\ \A q \in Procs \ {p} : job'[q] = job[q]
        /\ job'[p].phase = "import" /\ job'[p].mirror = job[p].mirror /\ job'[p].had = job[p].had
        /\ job'[p].old = job[p].old /\ job'[p].conf = job[p].conf
    BY <1>1, <1>8 DEF DeferredUnlock, Job
  <2>3. Mine(p)
    BY <2>1 DEF Lock
  <2>4. \A i \in 1 .. Len(writes') :
          Planned(writes'[i], {job[p].mirror}, Sure, incoming' \cup store', job[p].conf)
    BY <2>1, <2>3, WriteBackPlanned, PlannedMore DEF Refs
  <2> QED
    BY <2>1, <2>2, <2>3, <2>4, SaveBackSafe
<1>9. ASSUME Importing(p), pc' = "save", job' = job,
             UNCHANGED <<rec, worker, conf, sources, stored, refs, parts, used>>, Lost' = Lost,
             \/ writes' = Unlock(p)
             \/ writes' = FinalWrites(p) /\ store' = job[p].want
      PROVE  Used' /\ Pending' /\ Lock' /\ Refs'
  <2>1. Sure' = Sure /\ job[p].phase = "import"
    BY <1>9 DEF Sure, Complete, Importing, Shape
  <2>2. Mine(p)
    BY <1>9 DEF Lock
  <2>3. \A i \in 1 .. Len(writes') :
          Planned(writes'[i], {job[p].mirror}, Sure, incoming' \cup store', job[p].conf)
    BY <1>9, <2>1, <2>2, WriteBackPlanned, PlannedMore DEF Refs
  <2> QED
    BY <1>9, <2>1, <2>2, <2>3, SaveBackSafe
<1>10. ASSUME NEW f \in Files, ImportFailed(p, f)
       PROVE  Used' /\ Pending' /\ Lock' /\ Refs'
  BY <1>9, <1>10, SameLost DEF ImportFailed, dbvars
<1>11. CASE UpdateFailed(p)
  BY <1>9, <1>11, SameLost DEF UpdateFailed, dbvars
<1>12. CASE FinalizeDownload(p)
  <2>1. Lost' = Lost
    BY <1>12 DEF FinalizeDownload, Lost
  <2> QED
    BY <1>9, <1>12, <2>1 DEF FinalizeDownload, dbvars
<1> QED
  BY <1>2, <1>3, <1>4, <1>5, <1>6, <1>7, <1>8, <1>10, <1>11, <1>12 DEF UpdateSteps

(* Waivers are never withdrawn, and only the write of a record changes the *)
(* settings of a mirror.                                                   *)
LEMMA SettledSteps ==
  ASSUME NEW p \in Procs,
         \/ OpenDatabase(p) \/ CloseDatabase(p)
         \/ MirrorCommands(p) \/ RepoCommands(p) \/ SnapshotCommands(p) \/ PublishCommands(p)
         \/ Steps(p) \/ UpdateSteps(p) \/ CleanupSteps(p) \/ Crashes(p)
  PROVE  waived \subseteq waived' /\ (conf' = conf \/ WriteRecord(p))
<1>1. CASE OpenDatabase(p) \/ CloseDatabase(p)
  BY <1>1 DEF OpenDatabase, CloseDatabase, dbvars
<1>2. CASE MirrorCommands(p) \/ RepoCommands(p) \/ SnapshotCommands(p) \/ PublishCommands(p)
  <2>1. conf' = conf
    BY <1>2, CommandPlans DEF Plan
  <2>2. waived \subseteq waived'
    BY <1>2, CommandPlans
  <2> QED
    BY <2>1, <2>2
<1>3. CASE Steps(p)
  BY <1>3 DEF Steps, ImportFiles, ImportRefused, StorePackage, WriteNext, WriteRecord, WriteRefs, DeleteRecord,
              DeleteRefs, CommandDone, dbvars
<1>4. CASE UpdateSteps(p)
  BY <1>4 DEF UpdateSteps, StartDownloads, DownloadFile, DownloadDone, DownloadFailed, ImportDownload,
              ImportFailed, Interrupt, ReOpenDatabase, ReOpenFailed, DeferredUnlock, GiveUp,
              UpdateFailed, FinalizeDownload, DownloadOnly, dbvars
<1>5. CASE CleanupSteps(p)
  BY <1>5 DEF CleanupSteps, Cleanup, DeletePackages, ScanPool, RemoveFile, CleanupDone, dbvars
<1>6. CASE Crashes(p)
  BY <1>6 DEF Crashes, Crash, CrashImporting, CrashStoring, Dies
<1> QED
  BY <1>1, <1>2, <1>3, <1>4, <1>5, <1>6

(* Opening and closing the database touch nothing else.                    *)
LEMMA SessionSafe ==
  ASSUME TypeOK, Shape, TypeOK', Shape', Used, Pending, Lock, Refs, NEW p \in Procs,
         OpenDatabase(p) \/ CloseDatabase(p)
  PROVE  Used' /\ Pending' /\ Lock' /\ Refs'
<1>1. UNCHANGED <<rec, worker, conf, sources, stored, refs, parts, used, planvars, pc, job, waived>>
  BY DEF OpenDatabase, CloseDatabase, dbvars
<1>2. UNCHANGED <<incoming, store, writes, doomed>> /\ Sure' = Sure
  BY <1>1 DEF planvars, Sure, Lost, Complete
<1>3. pc = "idle"
  BY DEF OpenDatabase, CloseDatabase, Shape
<1> QED
  BY <1>1, <1>2, <1>3, QuietSafe

(* Every step of the system keeps the invariant.                           *)
LEMMA SafeStep ==
  ASSUME TypeOK, Shape, TypeOK', Shape', Safe, [Next]_vars
  PROVE  Safe'
<1> SUFFICES ASSUME "force" \notin waived'
             PROVE  Used' /\ Pending' /\ Lock' /\ Refs'
  BY DEF Safe
<1>1. CASE Next
  <2>1. PICK p \in Procs :
          \/ OpenDatabase(p) \/ CloseDatabase(p)
          \/ MirrorCommands(p) \/ RepoCommands(p) \/ SnapshotCommands(p) \/ PublishCommands(p)
          \/ Steps(p) \/ UpdateSteps(p) \/ CleanupSteps(p) \/ Crashes(p)
    BY <1>1 DEF Next
  <2>2. Used /\ Pending /\ Lock /\ Refs
    BY <2>1, SettledSteps DEF Safe
  <2> QED
    BY <2>1, <2>2, SessionSafe, CommandsSafe, StepsSafe, UpdateStepsSafe, CleanupSafe, CrashesSafe
<1>2. CASE UNCHANGED vars
  <2>1. UNCHANGED <<rec, worker, conf, sources, stored, refs, parts, used, incoming, store, writes,
                    doomed, pc, job, holder, waived>>
    BY <1>2 DEF vars, dbvars, poolvars, planvars
  <2>2. Used /\ Pending /\ Lock /\ Refs
    BY <2>1 DEF Safe
  <2>3. Sure' = Sure /\ Lost' = Lost
    BY <2>1 DEF Sure, Lost, Complete
  <2>4. pc' = "purge" => doomed' \cap Referenced \subseteq Lost'
    BY <2>1, <2>2, <2>3 DEF Refs
  <2> QED
    BY <2>1, <2>2, <2>3, <2>4, QuietSafe
<1> QED
  BY <1>1, <1>2

(* The empty database satisfies the invariant.                             *)
LEMMA InitSafe ==
  ASSUME Init
  PROVE  Safe
<1>1. Used
  BY DEF Init, Used, NoJob
<1>2. Pending
  <2>1. 0 \in 0 .. MaxConf /\ {} \in SUBSET used
    BY BoundsAssumption, SMTT(30)
  <2>2. \A i \in 1 .. Len(writes) : FALSE
    BY SMTT(30) DEF Init
  <2> QED
    BY <2>1, <2>2 DEF Pending
<1>3. Lock
  BY DEF Init, Lock, Away, Importing, NoJob
<1>4. Refs
  BY DEF Init, Refs, Referenced, LiveKeys
<1> QED
  BY <1>1, <1>2, <1>3, <1>4 DEF Safe

(* The inductive invariant holds in every reachable state.                 *)
THEOREM Safety == Spec => []Safe
<1>1. Init => Safe
  BY InitSafe
<1>2. TypeOK /\ Shape /\ TypeOK' /\ Shape' /\ Safe /\ [Next]_vars => Safe'
  BY SafeStep
<1> QED
  BY <1>1, <1>2, TypeCorrect, PTL DEF Spec

(* Every package that a mirror, local repository, snapshot or published    *)
(* repository refers to is completely stored, whatever commands run,       *)
(* overlap with a mirror update, are interrupted or crash (RefsComplete),  *)
(* as long as nobody updates with -force a mirror that is being updated    *)
(* and no unsorted reference list is stored (RefListCleanup shows what db  *)
(* cleanup does to one).                                                   *)
THEOREM ReferencesComplete == Spec => []RefsComplete
<1>1. Safe => RefsComplete
  BY DEF Safe, Refs, Sure, Lost, RefsComplete
<1> QED
  BY <1>1, Safety, PTL

(* While a mirror is being downloaded no other process updates it, and the *)
(* database still holds the mirror as the update loaded it (MirrorLock;    *)
(* CheckLock and MarkAsUpdating).                                          *)
THEOREM MirrorLocked == Spec => []MirrorLock
<1>1. TypeOK /\ Shape /\ Safe => MirrorLock
  BY DEF Safe, Lock, Away, Mine, Loaded, Downloading, MirrorLock
<1> QED
  BY <1>1, Safety, TypeCorrect, PTL

(* No step takes the settings of a mirror back (NoLostEdit): the stale     *)
(* copy that mirror update writes at its end is never older than the       *)
(* database.                                                               *)
THEOREM EditsKept == Spec => NoLostEdit
<1> DEFINE Kept == \A m \in Mirrors : m \in rec /\ m \in rec' /\ "force" \notin waived => conf'[m] >= conf[m]
<1>1. TypeOK /\ Safe /\ [Next]_vars => [Kept]_vars
  <2> SUFFICES ASSUME TypeOK, Safe, Next, NEW m \in Mirrors, m \in rec, "force" \notin waived
               PROVE  conf'[m] >= conf[m]
    BY DEF Kept
  <2>1. PICK p \in Procs : conf' = conf \/ WriteRecord(p)
    BY SettledSteps DEF Next
  <2>2. conf[m] \in Int
    <3>1. conf \in [Mirrors -> 0 .. MaxConf]
      BY DEF TypeOK
    <3>2. conf[m] \in 0 .. MaxConf
      BY <3>1
    <3> QED
      BY <3>2, SMTT(30)
  <2>3. CASE conf' = conf
    BY <2>2, <2>3, SMTT(30)
  <2>4. CASE WriteRecord(p)
    <3> DEFINE w == Head(writes)
    <3>1. WriteNext(p, "put") /\ conf'[m] = IF m = w.key THEN w.conf ELSE conf[m]
      BY <2>4 DEF WriteRecord
    <3>2. Pending
      BY DEF Safe
    <3>3. PICK L \in SUBSET used, c \in 0 .. MaxConf : Planned(w, L, Sure, {}, c)
      BY <3>1, <3>2, NextWrite
    <3>4. w.op = "put"
      BY <3>1 DEF WriteNext
    <3> HIDE DEF w
    <3>5. w.conf = c /\ (m = w.key => conf[m] <= c)
      BY <3>3, <3>4 DEF Planned
    <3>6. CASE m = w.key
      <4>1. conf'[m] = c /\ conf[m] <= c /\ c \in Int
        BY <3>1, <3>5, <3>6, SMTT(30)
      <4> QED
        BY <2>2, <4>1
    <3>7. CASE m # w.key
      <4>1. conf'[m] = conf[m]
        BY <3>1, <3>7
      <4> QED
        BY <2>2, <4>1, SMTT(30)
    <3> QED
      BY <3>6, <3>7
  <2> QED
    BY <2>1, <2>3, <2>4
<1> QED
  BY <1>1, Safety, TypeCorrect, PTL DEF NoLostEdit, Spec

-----------------------------------------------------------------------------
(***************************************************************************)
(* The files of every referenced package are in the pool (FilesPresent),   *)
(* for every value of the constants of the catalogue.                      *)
(*                                                                         *)
(* References become live one write at a time and long after the files     *)
(* were looked for, so the invariant follows the files from the moment a   *)
(* mirror update asks which of them the pool lacks (Gathered) to the plan  *)
(* that makes the references live (Backing), and says that db cleanup is   *)
(* about to remove none that is still needed (Spared).                     *)
(***************************************************************************)

(* Packages whose files are all in the pool.                               *)
Present == {q \in Pkgs : FilesOf[q] \subseteq pool}

(* A write that makes only references to such packages live, or to         *)
(* packages whose files are imported before the write.                     *)
Backed(w) ==
    /\ w.op = "put" => \A k \in stored \cap KeysOf(w.key, w.srcs) : refs[k] \subseteq Present
    /\ w.op = "putrefs" => w.pkgs \subseteq Present \cup incoming

Backing == \A i \in 1 .. Len(writes) : Backed(writes[i])

(* The files of the packages that are new to p's mirror are in the pool or *)
(* on their way, unless a download failed or db cleanup has removed files. *)
Gathered(p) ==
    job[p].phase # "none" /\ ~job[p].failed /\ ~job[p].swept =>
        FilesIn(job[p].want \ job[p].old) \subseteq pool \cup job[p].queue \cup job[p].active \cup job[p].done

(* The database is opened again once all downloads are over.               *)
Fetched(p) == job[p].phase \in {"unlock", "import"} => job[p].queue = {} /\ job[p].active = {}

(* The files of referenced packages are in the pool, and db cleanup spares *)
(* them.                                                                   *)
Spared ==
    /\ Referenced \subseteq Present
    /\ pc = "unlink" => unlink \cap FilesIn(Referenced) = {}

Kept == Spared /\ Backing /\ \A p \in Procs : Gathered(p)

(* The inductive invariant.                                                *)
FilesInv ==
    /\ \A p \in Procs : Fetched(p)
    /\ waived = {} => Kept

----------------------------------------------------------------------------

(* Files only come: what was present stays present.                        *)
LEMMA PresentMore ==
  ASSUME pool \subseteq pool'
  PROVE  Present \subseteq Present'
BY DEF Present

(* The files of present packages are in the pool.                          *)
LEMMA PresentFiles ==
  ASSUME NEW S, S \subseteq Present
  PROVE  FilesIn(S) \subseteq pool
BY DEF FilesIn, Present

(* The lists, and what db cleanup is about to remove, stay as they are.    *)
LEMMA SparedFrame ==
  ASSUME Spared, UNCHANGED <<rec, sources, stored, refs>>, pool \subseteq pool',
         pc' = "unlink" => pc = "unlink" /\ unlink' = unlink
  PROVE  Spared'
<1>1. Referenced' = Referenced /\ FilesIn(Referenced)' = FilesIn(Referenced)
  BY SameReferenced DEF FilesIn
<1> QED
  BY <1>1, PresentMore DEF Spared

(* A plan stays backed while files come and packages are imported.         *)
LEMMA BackingFrame ==
  ASSUME Backing, UNCHANGED <<stored, refs>>, pool \subseteq pool', writes' = writes,
         \A i \in 1 .. Len(writes) : writes[i].pkgs \cap incoming \subseteq incoming' \cup Present'
  PROVE  Backing'
<1>1. Present \subseteq Present'
  BY PresentMore
<1>2. ASSUME NEW i \in 1 .. Len(writes)
      PROVE  Backed(writes[i])'
  <2>1. Backed(writes[i])
    BY DEF Backing
  <2> QED
    BY <1>1, <2>1 DEF Backed
<1> QED
  BY <1>2 DEF Backing

(* Nothing planned is backed.                                              *)
LEMMA NothingBacked ==
  ASSUME writes' = << >>
  PROVE  Backing'
<1>1. \A i \in 1 .. Len(writes') : FALSE
  BY SMTT(30)
<1> QED
  BY <1>1 DEF Backing

(* A plan made of packages that are referenced or present, or are imported *)
(* first, is backed.                                                       *)
LEMMA PlanBacked ==
  ASSUME Referenced \subseteq Present, UNCHANGED <<stored, refs, pool>>,
         NEW L, NEW T, T \subseteq incoming' \cup Present, NEW c,
         \A i \in 1 .. Len(writes') : Planned(writes'[i], L, Referenced, T, c)
  PROVE  Backing'
<1>1. Present' = Present
  BY DEF Present
<1>2. ASSUME NEW i \in 1 .. Len(writes')
      PROVE  Backed(writes[i])'
  <2>1. Planned(writes'[i], L, Referenced, T, c)
    OBVIOUS
  <2> QED
    BY <1>1, <2>1 DEF Backed, Planned
<1> QED
  BY <1>2 DEF Backing

(* A job that goes on as it was, or is over.                               *)
LEMMA GatheredFrame ==
  ASSUME NEW q, Gathered(q), pool \subseteq pool', job'[q] = job[q] \/ job'[q].phase = "none"
  PROVE  Gathered(q)'
<1>1. CASE job'[q] = job[q]
  <2>1. FilesIn(job[q].want \ job[q].old)' = FilesIn(job[q].want \ job[q].old)
    BY <1>1 DEF FilesIn
  <2> QED
    BY <1>1, <2>1, SMTT(30) DEF Gathered
<1>2. CASE job'[q].phase = "none"
  BY <1>2 DEF Gathered
<1> QED
  BY <1>1, <1>2

(* Steps that change no list and plan nothing new.                         *)
LEMMA FrameKept ==
  ASSUME Kept, UNCHANGED <<rec, sources, stored, refs>>, pool \subseteq pool',
         pc' = "unlink" => pc = "unlink" /\ unlink' = unlink,
         \/ writes' = << >>
         \/ /\ writes' = writes
            /\ \A i \in 1 .. Len(writes) : writes[i].pkgs \cap incoming \subseteq incoming' \cup Present',
         \A q \in Procs : job'[q] = job[q] \/ job'[q].phase = "none" \/ Gathered(q)'
  PROVE  Kept'
<1>1. Spared' /\ Backing'
  BY SparedFrame, BackingFrame, NothingBacked DEF Kept
<1>2. \A q \in Procs : Gathered(q)'
  BY GatheredFrame DEF Kept
<1> QED
  BY <1>1, <1>2 DEF Kept

(* Commands plan to make references live that are live already, or to      *)
(* packages they import.  A mirror update asks for what the pool lacks.    *)
LEMMA CommandsKept ==
  ASSUME TypeOK, Shape, Used, Lock, Kept, NEW p \in Procs,
         MirrorCommands(p) \/ RepoCommands(p) \/ SnapshotCommands(p) \/ PublishCommands(p),
         "force" \notin waived'
  PROVE  Kept'
<1>1. WellPlanned
  BY MirrorPlanned, RepoPlanned, SnapshotPlanned, PublishPlanned
<1>2. PICK in, ws : Plan(p, in, {}, ws)
  BY CommandPlans
<1>3. UNCHANGED <<rec, sources, stored, refs, pool>> /\ pc' # "unlink"
  BY <1>2 DEF Plan, poolvars
<1>4. Spared'
  BY <1>3, SparedFrame DEF Kept
<1>5. Backing'
  <2>1. PICK L \in SUBSET used', c \in 0 .. MaxConf :
          \A i \in 1 .. Len(writes') : Planned(writes'[i], L, Referenced, incoming', c)
    BY <1>1 DEF WellPlanned
  <2>2. Referenced \subseteq Present /\ incoming' \subseteq incoming' \cup Present
    BY DEF Kept, Spared
  <2> QED
    BY <1>3, <2>1, <2>2, PlanBacked
<1>6. ASSUME NEW m \in Mirrors, NEW want \in SUBSET Pkgs, NEW skip \in BOOLEAN, NEW force \in BOOLEAN,
             UpdateMirror(p, m, want, skip, force), NEW q \in Procs
      PROVE  Gathered(q)'
  <2>1. CASE q # p
    <3>1. job'[q] = job[q]
      BY <1>6, <2>1 DEF UpdateMirror, TypeOK
    <3> QED
      BY <1>3, <3>1, GatheredFrame DEF Kept
  <2>2. CASE q = p
    <3>1. job'[p].want = want /\ job'[p].old = refs[m] /\ job'[p].queue = DownloadQueue(m, want, skip)
      BY <1>6 DEF UpdateMirror, TypeOK, NoJob
    <3>2. FilesIn(want \ refs[m]) \subseteq pool \cup DownloadQueue(m, want, skip)
      BY DEF DownloadQueue, FilesIn
    <3>3. FilesIn(job[p].want \ job[p].old)' = FilesIn(want \ refs[m])
      BY <3>1 DEF FilesIn
    <3> QED
      BY <1>3, <2>2, <3>1, <3>2, <3>3 DEF Gathered
  <2> QED
    BY <2>1, <2>2
<1>7. CASE job' = job
  BY <1>3, <1>4, <1>5, <1>7, GatheredFrame DEF Kept
<1> QED
  BY <1>4, <1>5, <1>6, <1>7, CommandPlans DEF Kept

(* What the next write is backed by, and the writes after it.              *)
LEMMA NextBacked ==
  ASSUME TypeOK, Backing, NEW p, NEW op, WriteNext(p, op)
  PROVE  Backed(Head(writes)) /\ \A i \in 1 .. Len(writes') : Backed(writes'[i])
<1>1. writes # << >> /\ writes' = Tail(writes) /\ writes \in Seq(Write)
  BY DEF WriteNext, TypeOK
<1>2. Head(writes) = writes[1] /\ 1 \in 1 .. Len(writes)
  BY <1>1, SMTT(30)
<1>3. \A i \in 1 .. Len(writes') : i + 1 \in 1 .. Len(writes) /\ writes'[i] = writes[i + 1]
  BY <1>1, SMTT(30)
<1> QED
  BY <1>2, <1>3 DEF Backing

(* A reference list that a write leaves as it is, or fills with packages   *)
(* whose files are present.                                                *)
Filled(k) == refs'[k] \subseteq Present \/ (k \in stored /\ refs'[k] = refs[k])

(* The plan that is left after a write is backed.                          *)
LEMMA StillBacked ==
  ASSUME \A i \in 1 .. Len(writes') : Backed(writes'[i]),
         UNCHANGED <<incoming, pool>>, \A k \in stored' : Filled(k)
  PROVE  Backing'
<1>1. Present' = Present
  BY DEF Present
<1>2. ASSUME NEW i \in 1 .. Len(writes')
      PROVE  Backed(writes[i])'
  <2>1. Backed(writes'[i])
    OBVIOUS
  <2>2. ASSUME writes'[i].op = "put", NEW k \in stored' \cap KeysOf(writes'[i].key, writes'[i].srcs)
        PROVE  refs'[k] \subseteq Present'
    BY <1>1, <2>1, <2>2 DEF Backed, Filled
  <2> QED
    BY <1>1, <2>1, <2>2 DEF Backed
<1> QED
  BY <1>2 DEF Backing

(* Referenced packages stay present when lists go and reference lists are  *)
(* filled with present packages.                                           *)
LEMMA StillSpared ==
  ASSUME Spared, UNCHANGED <<sources, pool>>, rec' \subseteq rec, pc' # "unlink",
         \A k \in stored' : Filled(k)
  PROVE  Spared'
<1>1. Present' = Present /\ \A l : SourcesOf(l)' = SourcesOf(l)
  BY DEF Present, SourcesOf
<1>2. ASSUME NEW k \in LiveKeys'
      PROVE  refs'[k] \subseteq Present
  <2>1. k \in stored' /\ \E l \in rec : k \in KeysOf(l, SourcesOf(l))
    BY <1>1, <1>2 DEF LiveKeys
  <2>2. CASE k \in stored /\ refs'[k] = refs[k]
    <3>1. k \in LiveKeys
      BY <2>1, <2>2 DEF LiveKeys
    <3> QED
      BY <2>2, <3>1 DEF Spared, Referenced
  <2> QED
    BY <2>1, <2>2 DEF Filled
<1> QED
  BY <1>1, <1>2 DEF Spared, Referenced

(* A job that goes on with the files it was to gather.                     *)
LEMMA GatheredOn ==
  ASSUME NEW q, Gathered(q), pool \subseteq pool', job[q].phase # "none",
         job'[q].want = job[q].want, job'[q].old = job[q].old,
         job[q].failed => job'[q].failed, job[q].swept => job'[q].swept,
         job[q].queue \cup job[q].active \cup job[q].done
             \subseteq pool' \cup job'[q].queue \cup job'[q].active \cup job'[q].done
  PROVE  Gathered(q)'
<1>1. FilesIn(job[q].want \ job[q].old)' = FilesIn(job[q].want \ job[q].old)
  BY DEF FilesIn
<1> QED
  BY <1>1 DEF Gathered

(* The files of a package come before its references, and the references   *)
(* of a plan are written as they were planned.                             *)
LEMMA StepsKept ==
  ASSUME TypeOK, Kept, NEW p \in Procs, Steps(p)
  PROVE  Kept'
<1>1. ASSUME NEW q \in Pkgs, ImportFiles(p, q)
      PROVE  Kept'
  <2>1. /\ UNCHANGED <<rec, sources, stored, refs, writes, job>> /\ pc' # "unlink"
        /\ pool' = pool \cup FilesOf[q] /\ incoming' = incoming \ {q}
    BY <1>1 DEF ImportFiles, dbvars
  <2>2. pool \subseteq pool' /\ q \in Present' /\ incoming \subseteq incoming' \cup Present'
    BY <2>1 DEF Present
  <2>3. \A i \in 1 .. Len(writes) : writes[i].pkgs \cap incoming \subseteq incoming' \cup Present'
    BY <2>2
  <2> QED
    BY <2>1, <2>2, <2>3, FrameKept
<1>2. ASSUME NEW q \in Pkgs, NEW fs, ImportRefused(p, q, fs)
      PROVE  Kept'
  <2>1. /\ UNCHANGED <<rec, sources, stored, refs, writes, job>> /\ pc' # "unlink"
        /\ pool \subseteq pool' /\ incoming' = incoming \ {q}
        /\ \A i \in 1 .. Len(writes) : q \notin writes[i].pkgs
    BY <1>2 DEF ImportRefused, dbvars
  <2>2. \A i \in 1 .. Len(writes) : writes[i].pkgs \cap incoming \subseteq incoming' \cup Present'
    BY <2>1
  <2> QED
    BY <2>1, <2>2, FrameKept
<1>3. ASSUME NEW q \in Pkgs, StorePackage(p, q)
      PROVE  Kept'
  <2>1. UNCHANGED <<rec, sources, stored, refs, writes, job, incoming, pool>> /\ pc' # "unlink"
    BY <1>3 DEF StorePackage, poolvars
  <2>2. \A i \in 1 .. Len(writes) : writes[i].pkgs \cap incoming \subseteq incoming' \cup Present'
    BY <2>1
  <2> QED
    BY <2>1, <2>2, FrameKept
<1>4. CASE CommandDone(p)
  <2>1. UNCHANGED <<rec, sources, stored, refs, pool>> /\ writes' = << >> /\ pc' # "unlink"
    BY <1>4 DEF CommandDone, Written, dbvars, planvars
  <2>2. \A q \in Procs : job'[q] = job[q] \/ job'[q].phase = "none"
    BY <1>4 DEF CommandDone, EndJob, NoJob, TypeOK
  <2> QED
    BY <2>1, <2>2, FrameKept
<1> DEFINE w == Head(writes)
<1>5. ASSUME NEW op, WriteNext(p, op)
      PROVE  /\ UNCHANGED <<incoming, pool>> /\ pc' # "unlink" /\ incoming = {}
             /\ w \in Write /\ w.op = op
             /\ Backed(w) /\ \A i \in 1 .. Len(writes') : Backed(writes'[i])
             /\ \A q \in Procs : Gathered(q)'
  <2>1. UNCHANGED <<incoming, pool, job>> /\ pc' # "unlink" /\ incoming = {}
    BY <1>5 DEF WriteNext, poolvars
  <2>2. w \in Write /\ w.op = op
    BY <1>5, HeadType
  <2>3. Backed(w) /\ \A i \in 1 .. Len(writes') : Backed(writes'[i])
    BY <1>5, NextBacked DEF Kept
  <2>4. \A q \in Procs : Gathered(q)'
    BY <2>1, GatheredFrame DEF Kept
  <2> QED
    BY <2>1, <2>2, <2>3, <2>4
<1> HIDE DEF w
<1>6. CASE WriteRecord(p)
  <2>1. /\ WriteNext(p, "put") /\ rec' = rec \cup {w.key} /\ stored' = stored /\ refs' = refs
        /\ sources' = [u \in Pubs |-> IF u = w.key THEN w.srcs ELSE sources[u]]
    BY <1>6 DEF WriteRecord, w
  <2>2. \A k \in stored' : Filled(k)
    BY <2>1 DEF Filled
  <2>3. Backing'
    BY <1>5, <2>1, <2>2, StillBacked
  <2>4. Present' = Present /\ \A k \in stored \cap KeysOf(w.key, w.srcs) : refs[k] \subseteq Present
    BY <1>5, <2>1 DEF Present, Backed
  <2>5. ASSUME NEW k \in stored, NEW l \in rec', k \in KeysOf(l, SourcesOf(l)')
        PROVE  refs[k] \subseteq Present
    <3>1. CASE l = w.key
      <4>1. KeysOf(l, SourcesOf(l)') = KeysOf(w.key, w.srcs)
        BY <2>1, <3>1 DEF KeysOf, SourcesOf
      <4> QED
        BY <2>4, <2>5, <4>1
    <3>2. CASE l # w.key
      <4>1. l \in rec /\ SourcesOf(l)' = SourcesOf(l)
        BY <2>1, <3>2 DEF SourcesOf
      <4> QED
        BY <2>5, <4>1 DEF Kept, Spared, Referenced, LiveKeys
    <3> QED
      BY <3>1, <3>2
  <2>6. ASSUME NEW k \in LiveKeys'
        PROVE  refs'[k] \subseteq Present'
    <3>1. k \in stored /\ \E l \in rec' : k \in KeysOf(l, SourcesOf(l)')
      BY <2>1, <2>6 DEF LiveKeys
    <3> QED
      BY <2>1, <2>4, <2>5, <3>1
  <2>7. Spared'
    BY <1>5, <2>1, <2>6 DEF Spared, Referenced
  <2> QED
    BY <1>5, <2>1, <2>3, <2>7 DEF Kept
<1>7. CASE WriteRefs(p)
  <2>1. /\ WriteNext(p, "putrefs") /\ stored' = stored \cup {w.key}
        /\ refs' = [refs EXCEPT ![w.key] = w.pkgs] /\ UNCHANGED <<rec, sources>>
    BY <1>7 DEF WriteRefs, w
  <2>2. w \in Write /\ w.op = "putrefs" /\ Backed(w) /\ incoming = {}
    BY <1>5, <2>1
  <2>3. w.key \in RefKeys
    BY <2>2 DEF Write, WriteOf
  <2>4. w.key \in RefKeys /\ w.pkgs \subseteq Present
    BY <2>2, <2>3 DEF Backed
  <2>5. ASSUME NEW k \in stored'
        PROVE  Filled(k)
    <3>1. k \in RefKeys
      BY <2>1, <2>4 DEF TypeOK
    <3>2. refs'[k] = IF k = w.key THEN w.pkgs ELSE refs[k]
      BY <2>1, <2>4, <3>1 DEF TypeOK
    <3> QED
      BY <2>1, <2>4, <3>2 DEF Filled
  <2>6. Backing'
    BY <1>5, <2>1, <2>5, StillBacked
  <2>7. Spared'
    BY <1>5, <2>1, <2>5, StillSpared DEF Kept
  <2> QED
    BY <1>5, <2>1, <2>6, <2>7 DEF Kept
<1>8. CASE DeleteRecord(p)
  <2>1. WriteNext(p, "del") /\ rec' \subseteq rec /\ UNCHANGED <<sources, stored, refs>>
    BY <1>8 DEF DeleteRecord
  <2>2. \A k \in stored' : Filled(k)
    BY <2>1 DEF Filled
  <2>3. Backing'
    BY <1>5, <2>1, <2>2, StillBacked
  <2>4. Spared'
    BY <1>5, <2>1, <2>2, StillSpared DEF Kept
  <2> QED
    BY <1>5, <2>1, <2>3, <2>4 DEF Kept
<1>9. CASE DeleteRefs(p)
  <2>1. /\ WriteNext(p, "delrefs") /\ stored' = stored \ {w.key}
        /\ refs' = [refs EXCEPT ![w.key] = {}] /\ UNCHANGED <<rec, sources>>
    BY <1>9 DEF DeleteRefs, w
  <2>2. \A k \in stored' : Filled(k)
    BY <2>1 DEF Filled, TypeOK
  <2>3. Backing'
    BY <1>5, <2>1, <2>2, StillBacked
  <2>4. Spared'
    BY <1>5, <2>1, <2>2, StillSpared DEF Kept
  <2> QED
    BY <1>5, <2>1, <2>3, <2>4 DEF Kept
<1> QED
  BY <1>1, <1>2, <1>3, <1>4, <1>6, <1>7, <1>8, <1>9 DEF Steps

(* db cleanup removes no file of a referenced package: no list changes     *)
(* between its scan and its last unlink.  A mirror update that goes on     *)
(* meanwhile may lose files it counted on and is marked as swept.          *)
LEMMA CleanupKept ==
  ASSUME TypeOK, Shape, Kept, NEW p \in Procs, CleanupSteps(p)
  PROVE  Kept'
<1>1. UNCHANGED <<rec, sources, stored, refs, writes, incoming>>
  BY DEF CleanupSteps, Cleanup, DeletePackages, ScanPool, RemoveFile, CleanupDone, dbvars, planvars
<1>2. \A i \in 1 .. Len(writes) : writes[i].pkgs \cap incoming \subseteq incoming' \cup Present'
  BY <1>1
<1>3. CASE (\E lost \in SUBSET Referenced : Cleanup(p, lost)) \/ DeletePackages(p) \/ CleanupDone(p)
  <2>1. UNCHANGED <<pool, job>> /\ pc' # "unlink"
    BY <1>3 DEF Cleanup, DeletePackages, CleanupDone, poolvars
  <2> QED
    BY <1>1, <1>2, <2>1, FrameKept
<1>4. CASE ScanPool(p)
  <2>1. UNCHANGED <<pool, job>> /\ (pc' = "unlink" => unlink' = PoolPaths \ FilesIn(Referenced))
    BY <1>4 DEF ScanPool, poolvars
  <2>2. Present' = Present /\ Referenced' = Referenced /\ FilesIn(Referenced)' = FilesIn(Referenced)
    BY <1>1, <2>1, SameReferenced DEF Present, FilesIn
  <2>3. Spared'
    BY <2>1, <2>2 DEF Kept, Spared
  <2>4. Backing'
    BY <1>1, <1>2, <2>1, BackingFrame DEF Kept
  <2>5. \A q \in Procs : Gathered(q)'
    BY <2>1, GatheredFrame DEF Kept
  <2> QED
    BY <2>3, <2>4, <2>5 DEF Kept
<1>5. ASSUME NEW x \in unlink, RemoveFile(p, x)
      PROVE  Kept'
  <2>1. /\ pc = "unlink" /\ pool' = pool \ {x} /\ unlink' \subseteq unlink
        /\ writes' = << >> /\ UNCHANGED <<rec, sources, stored, refs>>
    BY <1>1, <1>5 DEF RemoveFile, Shape
  <2>2. Referenced' = Referenced /\ FilesIn(Referenced)' = FilesIn(Referenced)
    BY <2>1, SameReferenced DEF FilesIn
  <2>3. ASSUME NEW q \in Referenced
        PROVE  q \in Present'
    <3>1. q \in Present /\ FilesOf[q] \subseteq FilesIn(Referenced)
      BY DEF Kept, Spared, FilesIn
    <3>2. x \notin FilesIn(Referenced)
      BY <2>1 DEF Kept, Spared
    <3> QED
      BY <2>1, <3>1, <3>2 DEF Present
  <2>4. unlink' \cap FilesIn(Referenced)' = {}
    BY <2>1, <2>2 DEF Kept, Spared
  <2>5. Spared'
    BY <2>2, <2>3, <2>4 DEF Spared
  <2>6. Backing'
    BY <2>1, NothingBacked
  <2>7. ASSUME NEW q \in Procs
        PROVE  Gathered(q)'
    <3>1. job'[q] = IF x \in pool /\ job[q].phase # "none" THEN [job[q] EXCEPT !.swept = TRUE] ELSE job[q]
      BY <1>5 DEF RemoveFile
    <3>2. CASE x \notin pool
      <4>1. pool \subseteq pool' /\ job'[q] = job[q]
        BY <2>1, <3>1, <3>2
      <4> QED
        BY <4>1, GatheredFrame DEF Kept
    <3>3. CASE job[q].phase = "none"
      BY <3>1, <3>3 DEF Gathered
    <3>4. CASE x \in pool /\ job[q].phase # "none"
      <4>1. job[q] \in Job
        BY DEF TypeOK
      <4>2. job'[q].swept = TRUE
        BY <3>1, <3>4, <4>1 DEF Job
      <4> QED
        BY <4>2 DEF Gathered
    <3> QED
      BY <3>2, <3>3, <3>4
  <2> QED
    BY <2>5, <2>6, <2>7 DEF Kept
<1> QED
  BY <1>3, <1>4, <1>5 DEF CleanupSteps

(* A process that dies takes its plan with it, and leaves the pool with    *)
(* what it has imported so far.                                            *)
LEMMA CrashesKept ==
  ASSUME TypeOK, Kept, NEW p \in Procs, Crashes(p)
  PROVE  Kept'
<1>1. Dies(p) /\ pool \subseteq pool'
  BY DEF Crashes, Crash, CrashImporting, CrashStoring
<1>2. UNCHANGED <<rec, sources, stored, refs>> /\ \A q \in Procs : job'[q] = job[q] \/ job'[q].phase = "none"
  BY <1>1 DEF Dies, EndJob, NoJob, TypeOK
<1>3. CASE holder = p
  <2>1. writes' = << >> /\ pc' # "unlink"
    BY <1>1, <1>3 DEF Dies
  <2> QED
    BY <1>1, <1>2, <2>1, FrameKept
<1>4. CASE holder # p
  <2>1. UNCHANGED <<pc, writes, incoming, unlink>>
    BY <1>1, <1>4 DEF Dies, planvars
  <2>2. \A i \in 1 .. Len(writes) : writes[i].pkgs \cap incoming \subseteq incoming' \cup Present'
    BY <2>1
  <2> QED
    BY <1>1, <1>2, <2>1, <2>2, FrameKept
<1> QED
  BY <1>3, <1>4

(* Downloads move on from the queue to the pool, and a mirror update       *)
(* writes its new references only once all of them have arrived.           *)
LEMMA UpdateStepsKept ==
  ASSUME TypeOK, Shape, Used, Lock, Kept, \A q \in Procs : Fetched(q),
         NEW p \in Procs, UpdateSteps(p), waived' = {}
  PROVE  Kept'
<1>1. job \in [Procs -> Job] /\ job[p] \in Job
  BY DEF TypeOK
<1>2. UNCHANGED <<rec, sources, stored, refs, incoming, unlink>> /\ pool \subseteq pool'
  BY DEF UpdateSteps, StartDownloads, DownloadFile, DownloadDone, DownloadFailed, ImportDownload,
              ImportFailed, Interrupt, ReOpenDatabase, ReOpenFailed, DeferredUnlock, GiveUp,
              UpdateFailed, FinalizeDownload, DownloadOnly, dbvars, planvars, poolvars
<1>3. \A i \in 1 .. Len(writes) : writes[i].pkgs \cap incoming \subseteq incoming' \cup Present'
  BY <1>2
<1>4. ASSUME writes' = writes, pc' = "unlink" => pc = "unlink",
             \A q \in Procs \ {p} : job'[q] = job[q],
             job'[p].phase = "none" \/ Gathered(p)'
      PROVE  Kept'
  BY <1>2, <1>3, <1>4, FrameKept
<1>5. CASE StartDownloads(p) \/ ReOpenDatabase(p) \/ ReOpenFailed(p)
  <2>1. writes' = writes /\ (pc' = "unlink" => pc = "unlink")
    BY <1>5 DEF StartDownloads, ReOpenDatabase, ReOpenFailed, planvars
  <2>2. PICK ph : job' = [job EXCEPT ![p].phase = ph] /\ job[p].phase # "none"
    BY <1>5 DEF StartDownloads, ReOpenDatabase, ReOpenFailed, WorkersDone, Downloading
  <2>3. /\ \A q \in Procs \ {p} : job'[q] = job[q]
        /\ job'[p].want = job[p].want /\ job'[p].old = job[p].old
        /\ job'[p].failed = job[p].failed /\ job'[p].swept = job[p].swept
        /\ job'[p].queue = job[p].queue /\ job'[p].active = job[p].active /\ job'[p].done = job[p].done
    BY <1>1, <2>2 DEF Job
  <2>4. Gathered(p)'
    BY <1>2, <2>2, <2>3, GatheredOn DEF Kept
  <2> QED
    BY <1>4, <2>1, <2>3, <2>4
<1>6. ASSUME NEW f \in Files, DownloadFile(p, f)
      PROVE  Kept'
  <2>1. writes' = writes /\ pc' = pc /\ job[p].phase # "none"
    BY <1>6 DEF DownloadFile, Downloading, DownloadOnly, planvars
  <2>2. /\ \A q \in Procs \ {p} : job'[q] = job[q]
        /\ job'[p].want = job[p].want /\ job'[p].old = job[p].old
        /\ job'[p].failed = job[p].failed /\ job'[p].swept = job[p].swept
        /\ job'[p].queue = job[p].queue \ {f} /\ job'[p].active = job[p].active \cup {f}
        /\ job'[p].done = job[p].done
    BY <1>1, <1>6 DEF DownloadFile, Job
  <2>3. Gathered(p)'
    BY <1>2, <2>1, <2>2, GatheredOn DEF Kept
  <2> QED
    BY <1>4, <2>1, <2>2, <2>3
<1>7. ASSUME NEW f \in Files, DownloadDone(p, f)
      PROVE  Kept'
  <2>1. writes' = writes /\ pc' = pc /\ job[p].phase # "none"
    BY <1>7 DEF DownloadDone, Downloading, DownloadOnly, planvars
  <2>2. /\ \A q \in Procs \ {p} : job'[q] = job[q]
        /\ job'[p].want = job[p].want /\ job'[p].old = job[p].old
        /\ job'[p].failed = job[p].failed /\ job'[p].swept = job[p].swept
        /\ job'[p].active = job[p].active \ {f} /\ job'[p].done = job[p].done \cup {f}
        /\ job'[p].queue = job[p].queue
    BY <1>1, <1>7 DEF DownloadDone, Job
  <2>3. Gathered(p)'
    BY <1>2, <2>1, <2>2, GatheredOn DEF Kept
  <2> QED
    BY <1>4, <2>1, <2>2, <2>3
<1>8. ASSUME NEW f, NEW more, DownloadFailed(p, f) \/ Interrupt(p, more)
      PROVE  Kept'
  <2>1. writes' = writes /\ pc' = pc
    BY <1>8 DEF DownloadFailed, Interrupt, DownloadOnly, planvars
  <2>2. (\A q \in Procs \ {p} : job'[q] = job[q]) /\ job'[p].failed = TRUE
    BY <1>1, <1>8, SMTT(30) DEF DownloadFailed, Interrupt, Job
  <2>3. Gathered(p)'
    BY <2>2 DEF Gathered
  <2> QED
    BY <1>4, <2>1, <2>2, <2>3
<1>9. ASSUME NEW f \in Files, ImportDownload(p, f)
      PROVE  Kept'
  <2>1. writes' = writes /\ pc' = pc /\ pool' = pool \cup {f} /\ job[p].phase # "none"
    BY <1>9 DEF ImportDownload, Importing, planvars, Shape
  <2>2. /\ \A q \in Procs \ {p} : job'[q] = job[q]
        /\ job'[p].want = job[p].want /\ job'[p].old = job[p].old
        /\ job'[p].failed = job[p].failed /\ job'[p].swept = job[p].swept
        /\ job'[p].queue = job[p].queue /\ job'[p].active = job[p].active
        /\ job'[p].done = job[p].done \ {f}
    BY <1>1, <1>9 DEF ImportDownload, Job
  <2>3. Gathered(p)'
    BY <1>2, <2>1, <2>2, GatheredOn DEF Kept
  <2> QED
    BY <1>4, <2>1, <2>2, <2>3
<1>10. CASE GiveUp(p)
  <2>1. writes' = writes /\ pc' = pc
    BY <1>10 DEF GiveUp, planvars
  <2>2. (\A q \in Procs \ {p} : job'[q] = job[q]) /\ job'[p].phase = "none"
    BY <1>1, <1>10 DEF GiveUp, EndJob, NoJob
  <2> QED
    BY <1>4, <2>1, <2>2
<1>11. ASSUME pc' = "save", pool' = pool, Backing', \A q \in Procs : Gathered(q)'
       PROVE  Kept'
  BY <1>2, <1>11, SparedFrame DEF Kept
<1>12. ASSUME Mine(p), job[p].phase # "none", pool' = pool, writes' = Unlock(p)
       PROVE  Backing'
  <2>1. \A i \in 1 .. Len(writes') : Planned(writes'[i], {job[p].mirror}, Referenced, {}, job[p].conf)
    BY <1>12, WriteBackPlanned
  <2>2. Referenced \subseteq Present /\ {} \subseteq incoming' \cup Present
    BY DEF Kept, Spared
  <2> QED
    BY <1>2, <1>12, <2>1, <2>2, PlanBacked
<1>13. CASE DeferredUnlock(p)
  <2>1. pc' = "save" /\ pool' = pool /\ writes' = Unlock(p) /\ Away(p) /\ job[p].phase # "none"
    BY <1>13 DEF DeferredUnlock, Away, poolvars
  <2>2. Backing'
    BY <1>12, <2>1 DEF Lock
  <2>3. /\ \A q \in Procs \ {p} : job'[q] = job[q]
        /\ job'[p].want = job[p].want /\ job'[p].old = job[p].old
        /\ job'[p].failed = job[p].failed /\ job'[p].swept = job[p].swept
        /\ job'[p].queue = job[p].queue /\ job'[p].active = job[p].active /\ job'[p].done = job[p].done
    BY <1>1, <1>13 DEF DeferredUnlock, Job
  <2>4. Gathered(p)'
    BY <1>2, <2>1, <2>3, GatheredOn DEF Kept
  <2>5. \A q \in Procs : Gathered(q)'
    BY <1>2, <2>3, <2>4, GatheredFrame DEF Kept
  <2> QED
    BY <1>11, <2>1, <2>2, <2>5
<1>14. ASSUME NEW f, ImportFailed(p, f) \/ UpdateFailed(p)
       PROVE  Kept'
  <2>1. pc' = "save" /\ pool' = pool /\ job' = job /\ writes' = Unlock(p) /\ Importing(p)
    BY <1>14 DEF ImportFailed, UpdateFailed, poolvars
  <2>2. Mine(p) /\ job[p].phase # "none"
    BY <2>1 DEF Lock, Importing, Shape
  <2>3. \A q \in Procs : Gathered(q)'
    BY <1>2, <2>1, GatheredFrame DEF Kept
  <2> QED
    BY <1>11, <1>12, <2>1, <2>2, <2>3
<1>15. CASE FinalizeDownload(p)
  <2>1. /\ pc' = "save" /\ pool' = pool /\ job' = job /\ writes' = FinalWrites(p) /\ Importing(p)
        /\ job[p].done = {} /\ ~job[p].failed /\ ~job[p].swept
    BY <1>15 DEF FinalizeDownload, poolvars
  <2>2. Mine(p) /\ job[p].phase = "import"
    BY <2>1 DEF Lock, Importing, Shape
  <2>3. FilesIn(job[p].want \ job[p].old) \subseteq pool
    BY <2>1, <2>2 DEF Kept, Gathered, Fetched
  <2>4. job[p].old \subseteq Present
    BY <2>2, KnownRefs DEF Mine, Loaded, Shape, Kept, Spared
  <2>5. job[p].want \subseteq Present
    <3>1. job[p].want \subseteq Pkgs
      BY <1>1 DEF Job
    <3> QED
      BY <2>3, <2>4, <3>1 DEF FilesIn, Present
  <2>6. \A i \in 1 .. Len(writes') : Planned(writes'[i], {job[p].mirror}, Referenced, Present, job[p].conf)
    BY <2>1, <2>2, <2>5, WriteBackPlanned
  <2>7. Referenced \subseteq Present /\ Present \subseteq incoming' \cup Present
    BY DEF Kept, Spared
  <2>8. Backing'
    BY <1>2, <2>1, <2>6, <2>7, PlanBacked
  <2>9. \A q \in Procs : Gathered(q)'
    BY <1>2, <2>1, GatheredFrame DEF Kept
  <2> QED
    BY <1>11, <2>1, <2>8, <2>9
<1> QED
  BY <1>5, <1>6, <1>7, <1>8, <1>9, <1>10, <1>13, <1>14, <1>15 DEF UpdateSteps

(* A process comes back from its downloads with nothing left to download.  *)
LEMMA FetchedStep ==
  ASSUME TypeOK, Shape, \A q \in Procs : Fetched(q), Next
  PROVE  \A q \in Procs : Fetched(q)'
<1>1. PICK p \in Procs :
       \/ OpenDatabase(p) \/ CloseDatabase(p)
       \/ MirrorCommands(p) \/ RepoCommands(p) \/ SnapshotCommands(p) \/ PublishCommands(p)
       \/ Steps(p) \/ UpdateSteps(p) \/ CleanupSteps(p) \/ Crashes(p)
  BY DEF Next
<1>2. job \in [Procs -> Job] /\ job[p] \in Job
  BY DEF TypeOK
<1>3. ASSUME \A q \in Procs : job'[q] = job[q] \/ job'[q].phase \notin {"unlock", "import"}
      PROVE  \A q \in Procs : Fetched(q)'
  BY <1>3 DEF Fetched
<1>4. ASSUME \A q \in Procs \ {p} : job'[q] = job[q], job'[p].queue = {}, job'[p].active = {}
      PROVE  \A q \in Procs : Fetched(q)'
  BY <1>4 DEF Fetched
<1>5. CASE OpenDatabase(p) \/ CloseDatabase(p)
  BY <1>3, <1>5 DEF OpenDatabase, CloseDatabase
<1>6. CASE MirrorCommands(p) \/ RepoCommands(p) \/ SnapshotCommands(p) \/ PublishCommands(p)
  <2>1. ASSUME NEW m \in Mirrors, NEW want \in SUBSET Pkgs, NEW skip \in BOOLEAN, NEW force \in BOOLEAN,
               UpdateMirror(p, m, want, skip, force)
        PROVE  \A q \in Procs : job'[q] = job[q] \/ job'[q].phase \notin {"unlock", "import"}
    <3>1. job'[p].phase = "mark" /\ \A q \in Procs \ {p} : job'[q] = job[q]
      BY <1>2, <2>1 DEF UpdateMirror, NoJob
    <3> QED
      BY <3>1
  <2> QED
    BY <1>3, <1>6, <2>1, CommandPlans
<1>7. ASSUME EndJob(p)
       PROVE  \A q \in Procs : Fetched(q)'
  <2>1. job'[p].phase = "none" /\ \A q \in Procs \ {p} : job'[q] = job[q]
    BY <1>2, <1>7 DEF EndJob, NoJob
  <2> QED
    BY <1>3, <2>1
<1>8. CASE Steps(p)
  <2>1. EndJob(p) \/ job' = job
    BY <1>8 DEF Steps, ImportFiles, ImportRefused, StorePackage, WriteNext, WriteRecord, WriteRefs,
       DeleteRecord, DeleteRefs, CommandDone
  <2> QED
    BY <1>3, <1>7, <2>1
<1>9. CASE UpdateSteps(p)
  <2>1. CASE StartDownloads(p)
    <3>1. job'[p].phase = "download" /\ \A q \in Procs \ {p} : job'[q] = job[q]
      BY <1>2, <2>1 DEF StartDownloads, Job
    <3> QED
      BY <1>3, <3>1
  <2>2. ASSUME NEW f, DownloadFile(p, f) \/ DownloadDone(p, f) \/ DownloadFailed(p, f)
        PROVE  \A q \in Procs : Fetched(q)'
    <3>1. job'[p].phase = "download" /\ \A q \in Procs \ {p} : job'[q] = job[q]
      BY <1>2, <2>2, SMTT(30) DEF DownloadFile, DownloadDone, DownloadFailed, Downloading, Job
    <3> QED
      BY <1>3, <3>1
  <2>3. ASSUME NEW more \in SUBSET job[p].queue, Interrupt(p, more)
        PROVE  \A q \in Procs : Fetched(q)'
    <3>1. /\ job'[p].phase = job[p].phase /\ job'[p].queue = more /\ job'[p].active = job[p].active
          /\ \A q \in Procs \ {p} : job'[q] = job[q]
      BY <1>2, <2>3 DEF Interrupt, Job
    <3>2. CASE Downloading(p)
      BY <1>3, <3>1, <3>2 DEF Downloading
    <3>3. CASE holder = p /\ pc = "import"
      <4>1. job[p].queue = {} /\ job[p].active = {}
        BY <3>3 DEF Shape, Fetched
      <4>2. job'[p].queue = {} /\ job'[p].active = {}
        BY <3>1, <4>1
      <4> QED
        BY <1>4, <3>1, <4>2
    <3> QED
      BY <2>3, <3>2, <3>3 DEF Interrupt
  <2>4. CASE ReOpenDatabase(p) \/ ReOpenFailed(p) \/ DeferredUnlock(p)
    <3>1. /\ job'[p].queue = job[p].queue /\ job'[p].active = job[p].active
          /\ \A q \in Procs \ {p} : job'[q] = job[q]
      <4>1. PICK ph : job' = [job EXCEPT ![p].phase = ph]
        BY <2>4 DEF ReOpenDatabase, ReOpenFailed, DeferredUnlock
      <4> QED
        BY <1>2, <4>1 DEF Job
    <3>2. job[p].queue = {} /\ job[p].active = {}
      BY <2>4 DEF ReOpenDatabase, ReOpenFailed, DeferredUnlock, WorkersDone, Fetched
    <3> QED
      BY <1>4, <3>1, <3>2
  <2>5. ASSUME NEW f, ImportDownload(p, f)
        PROVE  \A q \in Procs : Fetched(q)'
    <3>1. /\ job'[p].queue = job[p].queue /\ job'[p].active = job[p].active
          /\ \A q \in Procs \ {p} : job'[q] = job[q]
      BY <1>2, <2>5 DEF ImportDownload, Job
    <3>2. job[p].queue = {} /\ job[p].active = {}
      BY <2>5 DEF ImportDownload, Importing, Shape, Fetched
    <3> QED
      BY <1>4, <3>1, <3>2
  <2>6. ASSUME NEW f, GiveUp(p) \/ ImportFailed(p, f) \/ UpdateFailed(p) \/ FinalizeDownload(p)
        PROVE  \A q \in Procs : Fetched(q)'
    <3>1. EndJob(p) \/ job' = job
      BY <2>6 DEF GiveUp, ImportFailed, UpdateFailed, FinalizeDownload
    <3> QED
      BY <1>3, <1>7, <3>1
  <2> QED
    BY <1>9, <2>1, <2>2, <2>3, <2>4, <2>5, <2>6 DEF UpdateSteps
<1>10. CASE CleanupSteps(p)
  <2>1. ASSUME NEW x \in unlink, RemoveFile(p, x), NEW q \in Procs
        PROVE  Fetched(q)'
    <3>1. job'[q].phase = job[q].phase /\ job'[q].queue = job[q].queue /\ job'[q].active = job[q].active
      BY <1>2, <2>1 DEF RemoveFile, Job
    <3> QED
      BY <3>1 DEF Fetched
  <2>2. CASE (\E lost \in SUBSET Referenced : Cleanup(p, lost))
                 \/ DeletePackages(p) \/ ScanPool(p) \/ CleanupDone(p)
    BY <1>3, <2>2 DEF Cleanup, DeletePackages, ScanPool, CleanupDone
  <2> QED
    BY <1>10, <2>1, <2>2 DEF CleanupSteps
<1>11. CASE Crashes(p)
  BY <1>11, <1>7 DEF Crashes, Crash, CrashImporting, CrashStoring, Dies
<1> QED
  BY <1>1, <1>5, <1>6, <1>8, <1>9, <1>10, <1>11

(* Every step of the system keeps the invariant.                           *)
LEMMA FilesStep ==
  ASSUME TypeOK, Shape, Safe, FilesInv, [Next]_vars
  PROVE  FilesInv'
<1>1. CASE Next
  <2>1. \A q \in Procs : Fetched(q)'
    BY <1>1, FetchedStep DEF FilesInv
  <2>2. ASSUME waived' = {}
        PROVE  Kept'
    <3>1. PICK p \in Procs :
            \/ OpenDatabase(p) \/ CloseDatabase(p)
            \/ MirrorCommands(p) \/ RepoCommands(p) \/ SnapshotCommands(p) \/ PublishCommands(p)
            \/ Steps(p) \/ UpdateSteps(p) \/ CleanupSteps(p) \/ Crashes(p)
      BY <1>1 DEF Next
    <3>2. waived = {} /\ "force" \notin waived'
      BY <2>2, <3>1, SettledSteps
    <3>3. Kept /\ Used /\ Lock /\ \A q \in Procs : Fetched(q)
      BY <3>2 DEF FilesInv, Safe
    <3>4. CASE OpenDatabase(p) \/ CloseDatabase(p)
      <4>1. UNCHANGED <<rec, sources, stored, refs, pool, pc, unlink, writes, incoming, job>>
        BY <3>4 DEF OpenDatabase, CloseDatabase, dbvars, poolvars, planvars
      <4>2. \A i \in 1 .. Len(writes) : writes[i].pkgs \cap incoming \subseteq incoming' \cup Present'
        BY <4>1
      <4> QED
        BY <3>3, <4>1, <4>2, FrameKept
    <3> QED
      BY <2>2, <3>1, <3>2, <3>3, <3>4, CommandsKept, StepsKept, UpdateStepsKept, CleanupKept, CrashesKept
  <2> QED
    BY <2>1, <2>2 DEF FilesInv
<1>2. CASE UNCHANGED vars
  <2>1. UNCHANGED <<rec, sources, stored, refs, pool, pc, unlink, writes, incoming, job, waived>>
    BY <1>2 DEF vars, dbvars, poolvars, planvars
  <2>2. \A q \in Procs : Fetched(q)'
    BY <2>1 DEF FilesInv, Fetched
  <2>3. \A i \in 1 .. Len(writes) : writes[i].pkgs \cap incoming \subseteq incoming' \cup Present'
    BY <2>1
  <2>4. Kept => Kept'
    BY <2>1, <2>3, FrameKept
  <2> QED
    BY <2>1, <2>2, <2>4 DEF FilesInv
<1> QED
  BY <1>1, <1>2

(* The inductive invariant holds in every reachable state.                 *)
THEOREM FilesInvariant == Spec => []FilesInv
<1>1. Init => FilesInv
  <2> SUFFICES ASSUME Init PROVE FilesInv
    OBVIOUS
  <2>1. pc = "idle" /\ writes = << >> /\ stored = {} /\ \A p \in Procs : job[p].phase = "none"
    BY DEF Init, NoJob
  <2>2. Referenced = {}
    BY <2>1 DEF Referenced, LiveKeys
  <2>3. \A i \in 1 .. Len(writes) : FALSE
    BY <2>1, SMTT(30)
  <2> QED
    BY <2>1, <2>2, <2>3 DEF FilesInv, Fetched, Kept, Spared, Backing, Gathered
<1>2. TypeOK /\ Shape /\ Safe /\ FilesInv /\ [Next]_vars => FilesInv'
  BY FilesStep
<1> QED
  BY <1>1, <1>2, TypeCorrect, Safety, PTL DEF Spec

(* Every file of every package that a mirror, local repository, snapshot   *)
(* or published repository refers to is in the pool, whatever commands     *)
(* run, overlap, fail or crash, and although db cleanup removes files      *)
(* (FilesPresent), unless it removed files in the middle of a mirror       *)
(* update that then succeeded, a locked mirror was updated with -force, or *)
(* an unsorted reference list was stored.                                  *)
THEOREM ReferencedFilesPresent == Spec => []FilesPresent
<1>1. FilesInv => FilesPresent
  BY PresentFiles DEF FilesInv, Kept, Spared, FilesPresent
<1> QED
  BY <1>1, FilesInvariant, PTL
=============================================================================
