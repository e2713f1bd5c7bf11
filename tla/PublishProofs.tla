--------------------------- MODULE PublishProofs ---------------------------
EXTENDS Publish, TLAPS

(***************************************************************************)
(* What the database and the cached list say of a distribution, and which  *)
(* operation may be in which phase, for any distributions, components and  *)
(* packages, any order of the operations and any failure.                  *)
(*                                                                         *)
(* The invariant Core has the types, the shape of records and objects      *)
(* (Records), the phases of each operation and what it works on            *)
(* (Operations), the references stored so far (Storing) and how the list   *)
(* agrees with the database (Cached).  That an operation touches no other  *)
(* distribution (OnlyOwnSite) follows from it, and PublishSites and        *)
(* PublishPackages build on it.                                            *)
(***************************************************************************)

\* the backend of every leaf that names no other
USE ZenonT(30)

\* The fields that an operation, a record, an object of the collection and a
\* site have.
IsOperation(o) ==
  o = [name |-> o.name, dist |-> o.dist, kind |-> o.kind, new |-> o.new, side |-> o.side,
       tmp |-> o.tmp, sign |-> o.sign, clean |-> o.clean, comps |-> o.comps,
       missed |-> o.missed, phase |-> o.phase, todo |-> o.todo]

IsRecord(x) == x = [kind |-> x.kind, comps |-> x.comps, refs |-> x.refs]

IsObject(x) == x = [kind |-> x.kind, comps |-> x.comps, refs |-> x.refs, re |-> x.re]

IsSite(s) == s = [vis |-> s.vis, sum |-> s.sum, link |-> s.link, old |-> s.old, alias |-> s.alias]

\* packages by component
Sources(f) == DOMAIN f \subseteq Comps /\ \A c \in DOMAIN f : f[c] \subseteq Pkgs

\* The cached list agrees with the database on what a distribution is.
Records ==
  /\ DOMAIN site = Dists /\ DOMAIN pub = Comps
  /\ \A d \in Dists : IsSite(site[d])
  /\ \A d \in DOMAIN db :
       /\ IsRecord(db[d]) /\ Sources(db[d].refs)
       /\ db[d].kind = "snapshot" => DOMAIN db[d].refs = db[d].comps
  /\ \A d \in DOMAIN cache :
       /\ IsObject(cache[d]) /\ cache[d].kind = db[d].kind /\ cache[d].comps = db[d].comps
       /\ cache[d].kind = "snapshot" =>
            Sources(cache[d].refs) /\ DOMAIN cache[d].refs = cache[d].comps

\* the phases in which metadata is put and the record stored, and those of
\* a cleanup
Putting == {"index", "release", "sign", "rename", "save", "refs"}
Cleaning == {"clean", "remove", "cleaned"}

\* The phases of the operations, and what they work on.
Operations ==
  /\ IsOperation(op)
  /\ op.name \in {"idle", "publish", "update", "drop"} /\ op.side \in {"vis", "tmp"}
  /\ op.name = "idle" => op = Idle
  /\ op.name # "idle" => /\ op.dist \in Dists /\ op.kind \in {"local", "snapshot"}
                         /\ op.comps \subseteq DOMAIN op.new /\ Sources(op.new)
  /\ op.name = "publish" => /\ op.phase \in {"link"} \cup Putting
                            /\ op.side = "vis" /\ op.comps = {} /\ op.dist \notin DOMAIN cache
  /\ op.name = "update" =>
       /\ op.phase \in {"link"} \cup Putting \cup Cleaning
       /\ op.dist \in DOMAIN cache /\ op.kind = cache[op.dist].kind
       /\ DOMAIN op.new = cache[op.dist].comps
       /\ op.kind = "snapshot" => cache[op.dist].refs = op.new
  /\ op.name = "drop" =>
       /\ op.phase \in {"dists", "pool", "clean", "remove", "unrecord"} /\ op.side = "vis"
       /\ op.dist \in DOMAIN db
       /\ IF op.phase \in {"dists", "pool"}
          THEN /\ op.dist \in DOMAIN cache /\ DOMAIN op.new = cache[op.dist].comps
               /\ op.comps = Shared(op.dist)
          ELSE op.dist \notin DOMAIN cache
  /\ op.phase = "rename" => op.side = "tmp"
  /\ op.phase = "link" => op.tmp = <<>>
  /\ op.phase = "sign" => op.sign

\* What SaveRecord and SaveRefs have stored.
Stored(todo) ==
  /\ op.dist \in DOMAIN db /\ db[op.dist].kind = op.kind
  /\ db[op.dist].comps = DOMAIN op.new
  /\ \A c \in DOMAIN op.new \ todo : c \in DOMAIN db[op.dist].refs /\ db[op.dist].refs[c] = op.new[c]

\* The record of an operation is stored key by key.
Storing ==
  /\ op.phase = "refs" => op.kind = "local" /\ op.todo \subseteq DOMAIN op.new /\ Stored(op.todo)
  /\ op.name = "update" /\ op.phase \in Cleaning => Stored({})

\* a distribution all of whose references are stored
Recorded(d) == d \in DOMAIN db /\ DOMAIN db[d].refs = db[d].comps

\* A record that is not in the list, one that lacks references and an object
\* that differs from its record are being worked on or were left behind.
Cached ==
  /\ \A d \in DOMAIN db \ DOMAIN cache :
       \/ "torn" \in why[d]
       \/ op.dist = d /\ ((op.name = "drop" /\ op.phase \in {"clean", "remove", "unrecord"})
                          \/ (op.name = "publish" /\ op.phase = "refs"))
  /\ \A d \in DOMAIN cache :
       \/ "torn" \in why[d] \/ (op.dist = d /\ op.phase = "refs") \/ Recorded(d)
  /\ \A d \in DOMAIN cache : cache[d].kind = "snapshot" =>
       \/ "stale" \in why[d] \/ cache[d].refs = db[d].refs
       \/ (op.dist = d /\ op.name = "update" /\ op.phase \in {"link"} \cup Putting)

----------------------------------------------------------------------------
(* Functions and records                                                   *)

\* the empty function
LEMMA EmptyFunction == DOMAIN <<>> = {}
  BY SMTT(30)

\* An operation goes on as it is but for what may change in a step.
Continues(o, u) ==
  /\ IsOperation(u) /\ u.name = o.name /\ u.dist = o.dist /\ u.kind = o.kind /\ u.new = o.new
  /\ u.side = o.side /\ u.comps = o.comps

\* the operation in another phase
LEMMA PhaseFields ==
  ASSUME NEW o, IsOperation(o), NEW ph, NEW u, u = [o EXCEPT !.phase = ph]
  PROVE  /\ Continues(o, u) /\ u.tmp = o.tmp /\ u.sign = o.sign /\ u.clean = o.clean
         /\ u.missed = o.missed /\ u.phase = ph /\ u.todo = o.todo
  BY DEF IsOperation, Continues

\* the operation once a package is linked
LEMMA AfterLinkFields ==
  ASSUME NEW o, IsOperation(o), NEW u, u = AfterLink(o), NEW G, G = Generated(o.new, conf.contents)
  PROVE  /\ Continues(o, u) /\ u.tmp = o.tmp /\ u.sign = o.sign /\ u.clean = o.clean
         /\ u.missed = o.missed
         /\ \/ o.todo # {} /\ u = o
            \/ o.todo = {} /\ G # {} /\ u.phase = "index" /\ u.todo = G
            \/ o.todo = {} /\ G = {} /\ u.phase = "release" /\ u.todo = G
<1>1. CASE o.todo # {}
  BY <1>1 DEF AfterLink, Continues
<1>2. CASE o.todo = {}
  <2>0. PICK v : v = [o EXCEPT !.phase = "index", !.todo = G]
    OBVIOUS
  <2>1. u = AfterIndex(v)
    BY <1>2, <2>0 DEF AfterLink
  <2>2. /\ Continues(o, v) /\ v.tmp = o.tmp /\ v.sign = o.sign /\ v.clean = o.clean
        /\ v.missed = o.missed /\ v.phase = "index" /\ v.todo = G /\ IsOperation(v)
    BY <2>0 DEF IsOperation, Continues
  <2>3. CASE G # {}
    <3>1. u = v
      BY <2>1, <2>2, <2>3 DEF AfterIndex
    <3> QED
      BY <1>2, <2>2, <2>3, <3>1
  <2>4. CASE G = {}
    <3>1. u = [v EXCEPT !.phase = "release"]
      BY <2>1, <2>2, <2>4 DEF AfterIndex
    <3>2. /\ Continues(v, u) /\ u.tmp = v.tmp /\ u.sign = v.sign /\ u.clean = v.clean
          /\ u.missed = v.missed /\ u.phase = "release" /\ u.todo = v.todo
      BY <2>2, <3>1, PhaseFields, SMTT(30)
    <3> QED
      <4>1. Continues(o, u)
        BY <2>2, <3>2 DEF Continues
      <4> QED
        BY <1>2, <2>2, <2>4, <3>2, <4>1
  <2> QED
    BY <2>3, <2>4
<1> QED
  BY <1>1, <1>2

\* the fields that only some steps change
Keeps(o, u) == u.clean = o.clean /\ u.missed = o.missed

\* the operation once an index is put
LEMMA AfterIndexFields ==
  ASSUME NEW o, IsOperation(o), NEW u, u = AfterIndex(o)
  PROVE  /\ Continues(o, u) /\ Keeps(o, u) /\ u.tmp = o.tmp /\ u.sign = o.sign /\ u.todo = o.todo
         /\ (o.todo # {} /\ u.phase = o.phase) \/ (o.todo = {} /\ u.phase = "release")
<1>1. CASE o.todo # {}
  BY <1>1 DEF AfterIndex, Continues, Keeps
<1>2. CASE o.todo = {}
  <2>1. u = [o EXCEPT !.phase = "release"]
    BY <1>2 DEF AfterIndex
  <2> QED
    BY <1>2, <2>1 DEF IsOperation, Continues, Keeps
<1> QED
  BY <1>1, <1>2

\* once Release is signed or need not be
LEMMA AfterReleaseFields ==
  ASSUME NEW o, IsOperation(o), NEW u, u = AfterRelease(o)
  PROVE  /\ Continues(o, u) /\ Keeps(o, u) /\ u.tmp = o.tmp /\ u.sign = o.sign
         /\ \/ o.side = "vis" /\ u.phase = "save"
            \/ o.side # "vis" /\ u.phase = "rename" /\ u.todo = DOMAIN o.tmp
<1>1. CASE o.side = "vis"
  <2>1. u = [o EXCEPT !.phase = "save"]
    BY <1>1 DEF AfterRelease
  <2> QED
    BY <1>1, <2>1 DEF IsOperation, Continues, Keeps
<1>2. CASE o.side # "vis"
  <2>1. u = [o EXCEPT !.phase = "rename", !.todo = DOMAIN o.tmp]
    BY <1>2 DEF AfterRelease
  <2> QED
    BY <1>2, <2>1 DEF IsOperation, Continues, Keeps
<1> QED
  BY <1>1, <1>2

\* once a file is renamed
LEMMA AfterRenameFields ==
  ASSUME NEW o, IsOperation(o), NEW u, u = AfterRename(o)
  PROVE  /\ Continues(o, u) /\ Keeps(o, u) /\ u.tmp = o.tmp /\ u.sign = o.sign /\ u.todo = o.todo
         /\ (o.todo # {} /\ u.phase = o.phase) \/ (o.todo = {} /\ u.phase = "save")
<1>1. CASE o.todo # {}
  BY <1>1 DEF AfterRename, Continues, Keeps
<1>2. CASE o.todo = {}
  <2>1. u = [o EXCEPT !.phase = "save"]
    BY <1>2 DEF AfterRename
  <2> QED
    BY <1>2, <2>1 DEF IsOperation, Continues, Keeps
<1> QED
  BY <1>1, <1>2

\* once a package file is removed
LEMMA AfterCleanFields ==
  ASSUME NEW o, IsOperation(o), NEW u, u = AfterClean(o)
  PROVE  /\ Continues(o, u) /\ Keeps(o, u) /\ u.tmp = o.tmp /\ u.sign = o.sign /\ u.todo = o.todo
         /\ \/ o.todo # {} /\ u.phase = o.phase
            \/ o.todo = {} /\ o.name = "drop" /\ u.phase = "unrecord"
            \/ o.todo = {} /\ o.name # "drop" /\ u.phase = "cleaned"
<1>1. CASE o.todo # {}
  BY <1>1 DEF AfterClean, Continues, Keeps
<1>2. CASE o.todo = {}
  <2>1. u = [o EXCEPT !.phase = IF o.name = "drop" THEN "unrecord" ELSE "cleaned"]
    BY <1>2 DEF AfterClean
  <2> QED
    BY <1>2, <2>1 DEF IsOperation, Continues, Keeps
<1> QED
  BY <1>1, <1>2

\* the operation remembers what it put with the suffix
LEMMA PutOwnFields ==
  ASSUME NEW o, IsOperation(o), NEW x, NEW w, NEW u, u = PutOwn(o, x, w)
  PROVE  /\ Continues(o, u) /\ Keeps(o, u) /\ u.sign = o.sign /\ u.todo = o.todo
         /\ u.phase = o.phase
         /\ o.side = "vis" => u.tmp = o.tmp
         /\ o.side # "vis" => u.tmp = Bind(o.tmp, x, w)
<1>1. CASE o.side = "vis"
  BY <1>1 DEF PutOwn, Continues, Keeps
<1>2. CASE o.side # "vis"
  <2>1. u = [o EXCEPT !.tmp = Bind(o.tmp, x, w)]
    BY <1>2 DEF PutOwn
  <2> QED
    BY <1>2, <2>1 DEF IsOperation, Continues, Keeps
<1> QED
  BY <1>1, <1>2

----------------------------------------------------------------------------
(* What the steps do to the operation                                      *)

\* an index is put
LEMMA IndexFields ==
  ASSUME IsOperation(op), NEW i, FinalizeIndex(i)
  PROVE  /\ Continues(op, op') /\ Keeps(op, op') /\ op'.sign = op.sign /\ op'.todo = op.todo \ {i}
         /\ op.side = "vis" => op'.tmp = op.tmp
         /\ op.side # "vis" => op'.tmp = Bind(op.tmp, i, Listed(i, op.new))
         /\ (op'.todo # {} /\ op'.phase = "index") \/ (op'.todo = {} /\ op'.phase = "release")
<1>1. PICK o : o = [op EXCEPT !.todo = op.todo \ {i}]
  OBVIOUS
<1>2. /\ Continues(op, o) /\ Keeps(op, o) /\ o.tmp = op.tmp /\ o.sign = op.sign
      /\ o.phase = op.phase /\ o.todo = op.todo \ {i} /\ IsOperation(o)
  BY <1>1 DEF IsOperation, Continues, Keeps
<1>3. PICK v : v = PutOwn(o, i, Listed(i, op.new))
  OBVIOUS
<1>4. /\ Continues(o, v) /\ Keeps(o, v) /\ v.sign = o.sign /\ v.todo = o.todo /\ v.phase = o.phase
      /\ o.side = "vis" => v.tmp = o.tmp
      /\ o.side # "vis" => v.tmp = Bind(o.tmp, i, Listed(i, op.new))
  BY <1>2, <1>3, PutOwnFields, SMTT(30)
<1>5. op' = AfterIndex(v) /\ op.phase = "index"
  BY <1>1, <1>3 DEF FinalizeIndex, Running
<1>6. IsOperation(v)
  BY <1>4 DEF Continues
<1>7. /\ Continues(v, op') /\ Keeps(v, op') /\ op'.tmp = v.tmp /\ op'.sign = v.sign
      /\ op'.todo = v.todo
      /\ (v.todo # {} /\ op'.phase = v.phase) \/ (v.todo = {} /\ op'.phase = "release")
  BY <1>5, <1>6, AfterIndexFields
<1>8. Continues(op, v) /\ Keeps(op, v) /\ o.side = op.side
  BY <1>2, <1>4 DEF Continues, Keeps
<1>9. Continues(op, op') /\ Keeps(op, op')
  BY <1>7, <1>8 DEF Continues, Keeps
<1> QED
  BY <1>2, <1>4, <1>5, <1>7, <1>8, <1>9

\* Release is put
LEMMA ReleaseFields ==
  ASSUME IsOperation(op), NEW sign, FinalizeRelease(sign)
  PROVE  /\ Continues(op, op') /\ Keeps(op, op') /\ op'.sign = sign
         /\ op.side = "vis" => op'.tmp = op.tmp
         /\ op.side # "vis" => op'.tmp = Bind(op.tmp, Release, ReleaseOf(op.new, conf.contents))
         /\ \/ sign /\ op'.phase = "sign"
            \/ ~sign /\ op.side = "vis" /\ op'.phase = "save"
            \/ ~sign /\ op.side # "vis" /\ op'.phase = "rename" /\ op'.todo = DOMAIN op'.tmp
<1>1. PICK o : o = [op EXCEPT !.sign = sign]
  OBVIOUS
<1>2. /\ Continues(op, o) /\ Keeps(op, o) /\ o.tmp = op.tmp /\ o.sign = sign
      /\ o.phase = op.phase /\ o.todo = op.todo /\ IsOperation(o)
  BY <1>1 DEF IsOperation, Continues, Keeps
<1>3. PICK v : v = PutOwn(o, Release, ReleaseOf(op.new, conf.contents))
  OBVIOUS
<1>4. /\ Continues(o, v) /\ Keeps(o, v) /\ v.sign = o.sign /\ v.todo = o.todo /\ v.phase = o.phase
      /\ o.side = "vis" => v.tmp = o.tmp
      /\ o.side # "vis" => v.tmp = Bind(o.tmp, Release, ReleaseOf(op.new, conf.contents))
  BY <1>2, <1>3, PutOwnFields, SMTT(30)
<1>5. op' = IF sign THEN [v EXCEPT !.phase = "sign"] ELSE AfterRelease(v)
  BY <1>1, <1>3 DEF FinalizeRelease
<1>6. IsOperation(v)
  BY <1>4 DEF Continues
<1>7. Continues(op, v) /\ Keeps(op, v) /\ o.side = op.side /\ v.side = op.side
  BY <1>2, <1>4 DEF Continues, Keeps
<1>8. CASE sign
  <2>1. op' = [v EXCEPT !.phase = "sign"]
    BY <1>5, <1>8
  <2>2. /\ Continues(v, op') /\ Keeps(v, op') /\ op'.tmp = v.tmp /\ op'.sign = v.sign
        /\ op'.phase = "sign"
    BY <1>6, <2>1 DEF IsOperation, Continues, Keeps
  <2>3. Continues(op, op') /\ Keeps(op, op')
    BY <1>7, <2>2 DEF Continues, Keeps
  <2> QED
    BY <1>2, <1>4, <1>7, <1>8, <2>2, <2>3
<1>9. CASE ~sign
  <2>1. op' = AfterRelease(v)
    BY <1>5, <1>9
  <2>2. /\ Continues(v, op') /\ Keeps(v, op') /\ op'.tmp = v.tmp /\ op'.sign = v.sign
        /\ \/ v.side = "vis" /\ op'.phase = "save"
           \/ v.side # "vis" /\ op'.phase = "rename" /\ op'.todo = DOMAIN v.tmp
    BY <1>6, <2>1, AfterReleaseFields
  <2>3. Continues(op, op') /\ Keeps(op, op')
    BY <1>7, <2>2 DEF Continues, Keeps
  <2> QED
    BY <1>2, <1>4, <1>7, <1>9, <2>2, <2>3
<1> QED
  BY <1>8, <1>9

\* the signatures are put
LEMMA SignFields ==
  ASSUME IsOperation(op), SignRelease
  PROVE  /\ Continues(op, op') /\ Keeps(op, op') /\ op'.sign = op.sign
         /\ op.side = "vis" => op'.tmp = op.tmp
         /\ op.side # "vis" => op'.tmp = Bind(op.tmp, Signatures, ReleaseOf(op.new, conf.contents))
         /\ \/ op.side = "vis" /\ op'.phase = "save"
            \/ op.side # "vis" /\ op'.phase = "rename" /\ op'.todo = DOMAIN op'.tmp
<1>1. PICK v : v = PutOwn(op, Signatures, ReleaseOf(op.new, conf.contents))
  OBVIOUS
<1>2. /\ Continues(op, v) /\ Keeps(op, v) /\ v.sign = op.sign /\ v.todo = op.todo /\ v.phase = op.phase
      /\ op.side = "vis" => v.tmp = op.tmp
      /\ op.side # "vis" => v.tmp = Bind(op.tmp, Signatures, ReleaseOf(op.new, conf.contents))
  BY <1>1, PutOwnFields, SMTT(30)
<1>3. op' = AfterRelease(v)
  BY <1>1 DEF SignRelease
<1>4. IsOperation(v) /\ v.side = op.side
  BY <1>2 DEF Continues
<1>5. /\ Continues(v, op') /\ Keeps(v, op') /\ op'.tmp = v.tmp /\ op'.sign = v.sign
      /\ \/ v.side = "vis" /\ op'.phase = "save"
         \/ v.side # "vis" /\ op'.phase = "rename" /\ op'.todo = DOMAIN v.tmp
  BY <1>3, <1>4, AfterReleaseFields
<1>6. Continues(op, op') /\ Keeps(op, op')
  BY <1>2, <1>5 DEF Continues, Keeps
<1> QED
  BY <1>2, <1>4, <1>5, <1>6

\* a file is renamed
LEMMA RenameFields ==
  ASSUME IsOperation(op), NEW x, RenameFiles(x)
  PROVE  /\ Continues(op, op') /\ Keeps(op, op') /\ op'.sign = op.sign /\ op'.tmp = op.tmp
         /\ op'.todo = op.todo \ {x}
         /\ (op'.todo # {} /\ op'.phase = "rename") \/ (op'.todo = {} /\ op'.phase = "save")
<1>1. PICK o : o = [op EXCEPT !.todo = op.todo \ {x}]
  OBVIOUS
<1>2. /\ Continues(op, o) /\ Keeps(op, o) /\ o.tmp = op.tmp /\ o.sign = op.sign
      /\ o.phase = op.phase /\ o.todo = op.todo \ {x} /\ IsOperation(o)
  BY <1>1 DEF IsOperation, Continues, Keeps
<1>3. op' = AfterRename(o) /\ op.phase = "rename"
  BY <1>1 DEF RenameFiles, Running
<1>4. /\ Continues(o, op') /\ Keeps(o, op') /\ op'.tmp = o.tmp /\ op'.sign = o.sign
      /\ op'.todo = o.todo
      /\ (o.todo # {} /\ op'.phase = o.phase) \/ (o.todo = {} /\ op'.phase = "save")
  BY <1>2, <1>3, AfterRenameFields
<1>5. Continues(op, op') /\ Keeps(op, op')
  BY <1>2, <1>4 DEF Continues, Keeps
<1> QED
  BY <1>2, <1>3, <1>4, <1>5

\* a package is linked
LEMMA LinkFields ==
  ASSUME IsOperation(op), NEW c, NEW p, NEW seen, LinkStep(c, p, seen),
         NEW G, G = Generated(op.new, conf.contents)
  PROVE  /\ Continues(op, op') /\ op'.tmp = op.tmp /\ op'.sign = op.sign /\ op'.clean = op.clean
         /\ op'.missed = (op.missed \/ Misses(c, p, seen))
         /\ \/ op'.phase = "link" /\ op'.todo = op.todo \ {<<c, p>>}
            \/ op.todo \ {<<c, p>>} = {} /\ G # {} /\ op'.phase = "index" /\ op'.todo = G
            \/ op.todo \ {<<c, p>>} = {} /\ G = {} /\ op'.phase = "release" /\ op'.todo = G
<1> DEFINE m == op.missed \/ Misses(c, p, seen)
<1>1. PICK o : o = [op EXCEPT !.todo = op.todo \ {<<c, p>>}, !.missed = m]
  OBVIOUS
<1>2. op' = AfterLink(o) /\ op.phase = "link"
  BY <1>1 DEF LinkStep
<1> HIDE DEF m
<1>3. /\ Continues(op, o) /\ o.tmp = op.tmp /\ o.sign = op.sign /\ o.clean = op.clean
      /\ o.phase = op.phase /\ o.todo = op.todo \ {<<c, p>>} /\ o.missed = m /\ IsOperation(o)
  BY <1>1 DEF IsOperation, Continues
<1>4. G = Generated(o.new, conf.contents)
  BY <1>3 DEF Continues
<1>5. /\ Continues(o, op') /\ op'.tmp = o.tmp /\ op'.sign = o.sign /\ op'.clean = o.clean
      /\ op'.missed = o.missed
      /\ \/ o.todo # {} /\ op' = o
         \/ o.todo = {} /\ G # {} /\ op'.phase = "index" /\ op'.todo = G
         \/ o.todo = {} /\ G = {} /\ op'.phase = "release" /\ op'.todo = G
  BY <1>2, <1>3, <1>4, AfterLinkFields, SMTT(30)
<1>6. Continues(op, op')
  BY <1>3, <1>5 DEF Continues
<1>7. op'.missed = m
  BY <1>3, <1>5
<1>8. \/ op'.phase = "link" /\ op'.todo = op.todo \ {<<c, p>>}
      \/ op.todo \ {<<c, p>>} = {} /\ G # {} /\ op'.phase = "index" /\ op'.todo = G
      \/ op.todo \ {<<c, p>>} = {} /\ G = {} /\ op'.phase = "release" /\ op'.todo = G
  BY <1>2, <1>3, <1>5
<1> QED
  BY <1>3, <1>5, <1>6, <1>7, <1>8 DEF m

----------------------------------------------------------------------------
(* The records, the cached list and the phases                             *)

\* The invariant of the records, the cached list and the phases.
Core == TypeOK /\ Records /\ Operations /\ Storing /\ Cached

\* the phases of a publication before its record is stored
Working == {"link", "index", "release", "sign", "rename", "save"}

\* what a step may do to the storage as far as Core is concerned
Shapes ==
  /\ DOMAIN site = Dists /\ DOMAIN pub = Comps
  /\ \A d \in Dists : IsSite(site[d])
  /\ \A c \in Comps : \A x \in DOMAIN pub[c] : pub[c][x] \in Pkgs /\ Path[pub[c][x]] = x

\* Core says at least that much
LEMMA CoreShapes ==
  ASSUME Core
  PROVE  Shapes
  BY DEF Core, TypeOK, Records, Shapes

\* the shared components depend on the list
LEMMA SharedSame ==
  ASSUME cache' = cache, op'.dist = op.dist
  PROVE  Shared(op.dist)' = Shared(op.dist)
<1>1. Others(op.dist)' = Others(op.dist)
  BY DEF Others
<1> QED
  BY <1>1, SMTT(30) DEF Shared

\* A step within an operation that leaves the records alone.
LEMMA CoreGoesOn ==
  ASSUME Core, UNCHANGED <<db, cache, conf, faults>>, op.name # "idle", Continues(op, op'),
         listed' \in BOOLEAN, why' \in [Dists -> SUBSET Reasons],
         \A d \in Dists : why[d] \subseteq why'[d],
         Shapes',
         \/ op.phase \in Working /\ op'.phase \in Working
         \/ op.phase \in Cleaning /\ op.name = "update" /\ op'.phase \in Cleaning
         \/ op.phase \in {"clean", "remove", "unrecord"} /\ op.name = "drop"
              /\ op'.phase \in {"clean", "remove", "unrecord"}
         \/ op.phase \in {"dists", "pool"} /\ op'.phase \in {"dists", "pool"},
         op'.phase = "rename" => op.side = "tmp",
         op'.phase = "link" => op'.tmp = <<>>,
         op'.phase = "sign" => op'.sign
  PROVE  Core'
<1>0. TypeOK /\ Records /\ Operations /\ Storing /\ Cached
  BY DEF Core
<1>1. db' = db /\ cache' = cache /\ conf' = conf /\ faults' = faults
  OBVIOUS
<1>2. /\ IsOperation(op') /\ op'.name = op.name /\ op'.dist = op.dist /\ op'.kind = op.kind
      /\ op'.new = op.new /\ op'.side = op.side /\ op'.comps = op.comps
  BY DEF Continues
<1>3. TypeOK'
  <2>1. op'.phase \in Phases
    BY DEF Phases, Working, Cleaning
  <2> QED
    BY <1>0, <1>1, <1>2, <2>1 DEF TypeOK, Shapes
<1>4. Records'
  <2>1. DOMAIN site' = Dists /\ DOMAIN pub' = Comps /\ \A d \in Dists : IsSite(site'[d])
    BY DEF Shapes
  <2> QED
    BY <1>0, <1>1, <2>1 DEF Records
<1>5. Operations'
  <2>1. op.name = "publish" => op'.phase \in {"link"} \cup Putting
    BY <1>0 DEF Operations, Putting, Working, Cleaning
  <2>2. op.name = "update" => op'.phase \in {"link"} \cup Putting \cup Cleaning
    BY <1>0 DEF Operations, Putting, Working, Cleaning
  <2>3. op.name = "drop" =>
          /\ op'.phase \in {"dists", "pool", "clean", "remove", "unrecord"}
          /\ op'.phase \in {"dists", "pool"} <=> op.phase \in {"dists", "pool"}
    BY <1>0 DEF Operations, Working, Cleaning
  <2>4. Shared(op.dist)' = Shared(op.dist)
    BY <1>1, <1>2, SharedSame
  <2> QED
    BY <1>0, <1>1, <1>2, <2>1, <2>2, <2>3, <2>4 DEF Operations, Sources
<1>6. Storing'
  <2>1. op'.phase # "refs"
    BY DEF Working, Cleaning
  <2>2. op.name = "update" /\ op'.phase \in Cleaning => op.phase \in Cleaning
    BY <1>0 DEF Working, Cleaning, Operations
  <2> QED
    <3>1. op.name = "update" /\ op'.phase \in Cleaning => Stored({})
      BY <1>0, <2>2 DEF Storing
    <3>2. Stored({})' <=> Stored({})
      BY <1>1, <1>2, SMTT(30) DEF Stored
    <3> QED
      BY <1>2, <2>1, <3>1, <3>2 DEF Storing
<1>7. Cached'
  <2>1. op.phase # "refs" /\ op'.phase # "refs"
    BY DEF Working, Cleaning
  <2>2. op.name = "drop" /\ op.phase \in {"clean", "remove", "unrecord"} =>
          op'.phase \in {"clean", "remove", "unrecord"}
    BY DEF Working, Cleaning
  <2>3. op.name = "update" /\ op.phase \in {"link"} \cup Putting => op'.phase \in {"link"} \cup Putting
    BY DEF Working, Cleaning, Putting
  <2>4. \A d \in DOMAIN db : Recorded(d)' = Recorded(d)
    BY <1>1 DEF Recorded
  <2>5. DOMAIN db \subseteq Dists /\ DOMAIN cache \subseteq DOMAIN db
    BY <1>0 DEF TypeOK
  <2>6. \A d \in DOMAIN db : why[d] \subseteq why'[d]
    BY <2>5
  <2>7. ASSUME NEW d \in DOMAIN db \ DOMAIN cache
        PROVE  \/ "torn" \in why'[d]
               \/ op'.dist = d /\ ((op'.name = "drop" /\ op'.phase \in {"clean", "remove", "unrecord"})
                                   \/ (op'.name = "publish" /\ op'.phase = "refs"))
    BY <1>0, <1>2, <2>1, <2>2, <2>6, <2>7 DEF Cached
  <2>8. ASSUME NEW d \in DOMAIN cache
        PROVE  "torn" \in why'[d] \/ (op'.dist = d /\ op'.phase = "refs") \/ Recorded(d)
    BY <1>0, <2>1, <2>5, <2>6, <2>8 DEF Cached
  <2>9. ASSUME NEW d \in DOMAIN cache, cache[d].kind = "snapshot"
        PROVE  \/ "stale" \in why'[d] \/ cache[d].refs = db[d].refs
               \/ (op'.dist = d /\ op'.name = "update" /\ op'.phase \in {"link"} \cup Putting)
    BY <1>0, <1>2, <2>3, <2>5, <2>6, <2>9 DEF Cached
  <2> QED
    BY <1>1, <2>4, <2>5, <2>7, <2>8, <2>9 DEF Cached
<1> QED
  BY <1>3, <1>4, <1>5, <1>6, <1>7 DEF Core

\* what snapshots and local repositories hold
LEMMA RefsSources ==
  ASSUME TypeOK, NEW new \in Refs
  PROVE  Sources(new)
<1>1. conf \in Configs
  BY DEF TypeOK
<1>2. conf.comps \subseteq Comps /\ conf.sources \subseteq SUBSET Pkgs
  <2>1. conf \in [storage : {"files", "s3"}, dists : SUBSET Dists, comps : SUBSET Comps,
                  sources : SUBSET SUBSET Pkgs, contents : BOOLEAN, byHash : BOOLEAN,
                  sign : SUBSET BOOLEAN, maxFaults : Nat]
    BY <1>1, ConfigsAssumption
  <2> QED
    BY <2>1
<1>3. PICK C \in SUBSET conf.comps : new \in [C -> conf.sources]
  BY DEF Refs
<1>4. DOMAIN new = C /\ \A c \in C : new[c] \in conf.sources
  BY <1>3
<1> QED
  BY <1>2, <1>3, <1>4 DEF Sources

\* nothing is left of an operation that has ended
LEMMA IdleFields ==
  ASSUME Operations, op.name = "idle"
  PROVE  /\ op.dist = NoDist /\ op.phase = "none" /\ op.missed = FALSE /\ op.side = "vis"
         /\ op.tmp = <<>> /\ op.clean = FALSE
         /\ \A d \in Dists : op.dist # d
<1>1. op = Idle
  BY DEF Operations
<1>2. /\ op.dist = NoDist /\ op.phase = "none" /\ op.missed = FALSE /\ op.side = "vis"
      /\ op.tmp = <<>> /\ op.clean = FALSE
  BY <1>1 DEF Idle, Operation
<1> QED
  BY <1>2, NoDistAssumption

\* a step that leaves the records and the package files alone
LEMMA TypeFrame ==
  ASSUME TypeOK, db' = db, pub' = pub, conf' = conf, DOMAIN cache' \subseteq DOMAIN db',
         listed' \in BOOLEAN, faults' \in 0..conf'.maxFaults,
         op'.dist \in Dists \cup {NoDist}, op'.phase \in Phases,
         why' \in [Dists -> SUBSET Reasons]
  PROVE  TypeOK'
  BY DEF TypeOK

\* publish, update or switch begins
LEMMA BeginCore ==
  ASSUME Core, op.name = "idle", NEW d \in Dists, NEW name, NEW kind, NEW new, NEW side,
         NEW comps, NEW t, op' = AfterLink(Operation(name, d, kind, new, side, comps, "link", t)),
         name = "publish" \/ name = "update", kind = "local" \/ kind = "snapshot",
         side = "vis" \/ side = "tmp", Sources(new), comps \subseteq DOMAIN new,
         UNCHANGED <<db, pub, site, conf, faults, listed, why>>, Records',
         DOMAIN cache' = DOMAIN cache, \A e \in DOMAIN cache : e # d => cache'[e] = cache[e],
         name = "publish" => side = "vis" /\ comps = {} /\ d \notin DOMAIN cache,
         name = "update" => /\ d \in DOMAIN cache /\ kind = cache'[d].kind
                            /\ DOMAIN new = cache'[d].comps
                            /\ kind = "snapshot" => cache'[d].refs = new
  PROVE  Core'
<1>0. TypeOK /\ Records /\ Operations /\ Storing /\ Cached
  BY DEF Core
<1>1. PICK o : o = Operation(name, d, kind, new, side, comps, "link", t)
  OBVIOUS
<1>2. /\ IsOperation(o) /\ o.name = name /\ o.dist = d /\ o.kind = kind /\ o.new = new
      /\ o.side = side /\ o.comps = comps /\ o.tmp = <<>> /\ o.phase = "link" /\ o.todo = t
  BY <1>1 DEF IsOperation, Operation
<1>3. PICK G : G = Generated(o.new, conf.contents)
  OBVIOUS
<1>4. /\ Continues(o, op') /\ op'.tmp = o.tmp
      /\ \/ o.todo # {} /\ op' = o
         \/ o.todo = {} /\ G # {} /\ op'.phase = "index" /\ op'.todo = G
         \/ o.todo = {} /\ G = {} /\ op'.phase = "release" /\ op'.todo = G
  BY <1>1, <1>2, <1>3, AfterLinkFields, SMTT(30)
<1>5. /\ IsOperation(op') /\ op'.name = name /\ op'.dist = d /\ op'.kind = kind /\ op'.new = new
      /\ op'.side = side /\ op'.comps = comps /\ op'.tmp = <<>>
      /\ op'.phase = "link" \/ op'.phase = "index" \/ op'.phase = "release"
  BY <1>2, <1>4 DEF Continues
<1>6. /\ db' = db /\ pub' = pub /\ site' = site /\ conf' = conf /\ faults' = faults
      /\ listed' = listed /\ why' = why
  OBVIOUS
<1>7. /\ \A e \in Dists : op.dist # e
      /\ op.phase = "none"
  BY <1>0, IdleFields
<1>8. /\ op'.phase \in Phases /\ op'.phase \in {"link"} \cup Putting
      /\ op'.phase # "rename" /\ op'.phase # "sign" /\ op'.phase # "refs"
      /\ op'.phase \notin Cleaning /\ op'.name # "idle" /\ op'.name # "drop"
      /\ op'.name \in {"idle", "publish", "update", "drop"} /\ op'.side \in {"vis", "tmp"}
      /\ op'.kind \in {"local", "snapshot"}
  BY <1>5 DEF Phases, Putting, Cleaning
<1>9. TypeOK'
  <2>1. DOMAIN cache' \subseteq DOMAIN db'
    BY <1>0, <1>6 DEF TypeOK
  <2>2. op'.dist \in Dists \cup {NoDist} /\ op'.phase \in Phases
    BY <1>5, <1>8
  <2>3. listed' \in BOOLEAN /\ why' \in [Dists -> SUBSET Reasons] /\ faults' \in 0..conf'.maxFaults
    BY <1>0, <1>6 DEF TypeOK
  <2> QED
    BY <1>0, <1>6, <2>1, <2>2, <2>3, TypeFrame
<1>10. Operations'
  <2>1. op'.comps \subseteq DOMAIN op'.new /\ Sources(op'.new)
    BY <1>5
  <2>2. op'.name = "publish" => /\ op'.phase \in {"link"} \cup Putting
                                /\ op'.side = "vis" /\ op'.comps = {} /\ op'.dist \notin DOMAIN cache'
    BY <1>5, <1>8
  <2>3. op'.name = "update" =>
          /\ op'.phase \in {"link"} \cup Putting \cup Cleaning
          /\ op'.dist \in DOMAIN cache' /\ op'.kind = cache'[op'.dist].kind
          /\ DOMAIN op'.new = cache'[op'.dist].comps
          /\ op'.kind = "snapshot" => cache'[op'.dist].refs = op'.new
    BY <1>5, <1>8
  <2>4. op'.dist \in Dists /\ IsOperation(op') /\ op'.tmp = <<>>
    BY <1>5
  <2> QED
    BY <1>8, <2>1, <2>2, <2>3, <2>4 DEF Operations
<1>11. Storing'
  BY <1>8 DEF Storing
<1>12. Cached'
  <2>1. \A e \in DOMAIN db : Recorded(e)' = Recorded(e)
    BY <1>6 DEF Recorded
  <2>2. DOMAIN db \subseteq Dists /\ DOMAIN cache \subseteq DOMAIN db
    BY <1>0 DEF TypeOK
  <2>3. \A e \in DOMAIN db \ DOMAIN cache : "torn" \in why[e]
    BY <1>0, <1>7, <2>2 DEF Cached
  <2>4. \A e \in DOMAIN cache : "torn" \in why[e] \/ Recorded(e)
    BY <1>0, <1>7, <2>2 DEF Cached
  <2>5. \A e \in DOMAIN cache : cache[e].kind = "snapshot" =>
          "stale" \in why[e] \/ cache[e].refs = db[e].refs
    BY <1>0, <1>7, <2>2 DEF Cached
  <2>6. ASSUME NEW e \in DOMAIN cache, cache'[e].kind = "snapshot"
        PROVE  \/ "stale" \in why[e] \/ cache'[e].refs = db[e].refs
               \/ (op'.dist = e /\ op'.name = "update" /\ op'.phase \in {"link"} \cup Putting)
    <3>1. CASE e = d
      BY <1>5, <1>8, <2>6, <3>1
    <3>2. CASE e # d
      BY <2>5, <2>6, <3>2
    <3> QED
      BY <3>1, <3>2
  <2> QED
    BY <1>6, <2>1, <2>2, <2>3, <2>4, <2>6 DEF Cached
<1> QED
  BY <1>9, <1>10, <1>11, <1>12 DEF Core

\* the distributions in use
LEMMA DistsInUse ==
  ASSUME TypeOK
  PROVE  conf.dists \subseteq Dists /\ conf.contents \in BOOLEAN /\ conf.maxFaults \in Nat
<1>1. conf \in [storage : {"files", "s3"}, dists : SUBSET Dists, comps : SUBSET Comps,
                sources : SUBSET SUBSET Pkgs, contents : BOOLEAN, byHash : BOOLEAN,
                sign : SUBSET BOOLEAN, maxFaults : Nat]
  BY ConfigsAssumption DEF TypeOK
<1> QED
  BY <1>1

\* A step that changes an object of the list, which stays one of its record.
LEMMA RecordsFrame ==
  ASSUME Records, UNCHANGED <<site, pub, db>>, NEW d, DOMAIN cache' = DOMAIN cache,
         \A e \in DOMAIN cache : e # d => cache'[e] = cache[e],
         d \in DOMAIN cache =>
           /\ IsObject(cache'[d]) /\ cache'[d].kind = cache[d].kind
           /\ cache'[d].comps = cache[d].comps
           /\ cache'[d].kind = "snapshot" =>
                Sources(cache'[d].refs) /\ DOMAIN cache'[d].refs = cache'[d].comps
  PROVE  Records'
<1>1. site' = site /\ pub' = pub /\ db' = db
  OBVIOUS
<1>2. ASSUME NEW e \in DOMAIN cache
      PROVE  /\ IsObject(cache'[e]) /\ cache'[e].kind = db[e].kind /\ cache'[e].comps = db[e].comps
             /\ cache'[e].kind = "snapshot" =>
                  Sources(cache'[e].refs) /\ DOMAIN cache'[e].refs = cache'[e].comps
  <2>1. CASE e = d
    BY <2>1, <1>2 DEF Records
  <2>2. CASE e # d
    <3>1. cache'[e] = cache[e]
      BY <1>2, <2>2
    <3>2. /\ IsObject(cache[e]) /\ cache[e].kind = db[e].kind /\ cache[e].comps = db[e].comps
          /\ cache[e].kind = "snapshot" =>
               Sources(cache[e].refs) /\ DOMAIN cache[e].refs = cache[e].comps
      BY <1>2 DEF Records
    <3> QED
      BY <3>1, <3>2
  <2> QED
    BY <2>1, <2>2
<1>3. /\ DOMAIN site = Dists /\ DOMAIN pub = Comps
      /\ \A e \in Dists : IsSite(site[e])
      /\ \A e \in DOMAIN db :
           /\ IsRecord(db[e]) /\ Sources(db[e].refs)
           /\ db[e].kind = "snapshot" => DOMAIN db[e].refs = db[e].comps
  BY DEF Records
<1> QED
  BY <1>1, <1>2, <1>3 DEF Records

\* PublishSnapshotOrRepo
LEMMA PublishCore ==
  ASSUME Core, NEW d \in conf.dists, NEW kind \in {"local", "snapshot"}, NEW new \in Refs,
         PublishSnapshotOrRepo(d, kind, new)
  PROVE  Core'
<1>0. TypeOK /\ Records
  BY DEF Core
<1>1. d \in Dists
  BY <1>0, DistsInUse
<1>2. Sources(new)
  BY <1>0, RefsSources
<1>3. /\ op.name = "idle" /\ d \notin DOMAIN cache
      /\ op' = AfterLink(Operation("publish", d, kind, new, "vis", {}, "link", ToLink(new)))
  BY DEF PublishSnapshotOrRepo, Begin
<1>4. UNCHANGED <<db, cache, pub, site, conf, faults, listed, why>>
  BY DEF PublishSnapshotOrRepo, data, files, paths, fixed
<1>5. Records'
  BY <1>0, <1>4, RecordsFrame DEF Records
<1>6. kind = "local" \/ kind = "snapshot"
  OBVIOUS
<1> QED
  BY <1>1, <1>2, <1>3, <1>4, <1>5, <1>6, BeginCore, SMTT(30)

\* what Republish begins
LEMMA RepublishCore ==
  ASSUME Core, op.name = "idle", NEW d \in DOMAIN cache, NEW new, NEW comps,
         Sources(new), comps \subseteq DOMAIN new, DOMAIN new = cache[d].comps,
         DOMAIN cache' = DOMAIN cache, \A e \in DOMAIN cache : e # d => cache'[e] = cache[e],
         IsObject(cache'[d]), cache'[d].kind = cache[d].kind, cache'[d].comps = cache[d].comps,
         cache[d].kind = "snapshot" => cache'[d].refs = new,
         Republish(d, new, comps), UNCHANGED <<db, files, paths, why>>
  PROVE  Core'
<1>0. TypeOK /\ Records
  BY DEF Core
<1>1. d \in Dists /\ d \in DOMAIN db
  BY <1>0 DEF TypeOK
<1>2. UNCHANGED <<db, pub, site, conf, faults, listed, why>>
  BY DEF files, paths, fixed
<1>3. cache[d].kind = "local" \/ cache[d].kind = "snapshot"
  <2>1. db[d].kind \in {"local", "snapshot"} /\ cache[d].kind = db[d].kind
    BY <1>0, <1>1 DEF TypeOK, Records
  <2> QED
    BY <2>1
<1>4. Records'
  <2>1. UNCHANGED <<site, pub, db>>
    BY <1>2
  <2>2. cache'[d].kind = "snapshot" =>
          Sources(cache'[d].refs) /\ DOMAIN cache'[d].refs = cache'[d].comps
    OBVIOUS
  <2> QED
    BY <1>0, <2>1, <2>2, RecordsFrame
<1>5. PICK side : side = IF cache'[d].re THEN "tmp" ELSE "vis"
  OBVIOUS
<1>6. PICK kind : kind = cache[d].kind
  OBVIOUS
<1>7. PICK t : t = ToLink(new)
  OBVIOUS
<1>8. op' = AfterLink(Operation("update", d, kind, new, side, comps, "link", t))
  BY <1>5, <1>6, <1>7 DEF Republish, Begin
<1>9. side = "vis" \/ side = "tmp"
  BY <1>5
<1>10. /\ d \in DOMAIN cache /\ kind = cache'[d].kind /\ DOMAIN new = cache'[d].comps
       /\ kind = "snapshot" => cache'[d].refs = new
  BY <1>6
<1>11. kind = "local" \/ kind = "snapshot"
  BY <1>3, <1>6
<1> QED
  BY <1>1, <1>2, <1>4, <1>8, <1>9, <1>10, <1>11, BeginCore

\* PublishUpdate
LEMMA UpdateCore ==
  ASSUME Core, NEW d, NEW new \in Refs, PublishUpdate(d, new)
  PROVE  Core'
<1>0. TypeOK /\ Records
  BY DEF Core
<1>1. /\ op.name = "idle" /\ d \in DOMAIN cache /\ cache[d].kind = "local"
      /\ DOMAIN new = cache[d].comps /\ cache' = [cache EXCEPT ![d].re = TRUE]
      /\ Republish(d, new, cache[d].comps) /\ UNCHANGED <<db, files, paths, why>>
  BY DEF PublishUpdate
<1>2. Sources(new)
  BY <1>0, RefsSources
<1>3. IsObject(cache[d])
  BY <1>0, <1>1 DEF Records
<1>4. /\ DOMAIN cache' = DOMAIN cache /\ cache'[d] = [cache[d] EXCEPT !.re = TRUE]
      /\ \A e \in DOMAIN cache : e # d => cache'[e] = cache[e]
  BY <1>1
<1>5. /\ IsObject(cache'[d]) /\ cache'[d].kind = cache[d].kind /\ cache'[d].comps = cache[d].comps
  BY <1>3, <1>4 DEF IsObject
<1>6. cache[d].kind # "snapshot"
  BY <1>1
<1>7. cache[d].comps \subseteq DOMAIN new
  BY <1>1
<1> QED
  BY <1>1, <1>2, <1>4, <1>5, <1>6, <1>7, RepublishCore

\* PublishSwitch
LEMMA SwitchCore ==
  ASSUME Core, NEW d, NEW snaps \in Refs, PublishSwitch(d, snaps)
  PROVE  Core'
<1>0. TypeOK /\ Records
  BY DEF Core
<1>1. PICK new : new = [c \in cache[d].comps |->
                          IF c \in DOMAIN snaps THEN snaps[c] ELSE cache[d].refs[c]]
  OBVIOUS
<1>2. PICK re : re = (cache[d].re \/ DOMAIN snaps # {})
  OBVIOUS
<1>3. /\ op.name = "idle" /\ d \in DOMAIN cache /\ cache[d].kind = "snapshot"
      /\ DOMAIN snaps \subseteq cache[d].comps
      /\ cache' = [cache EXCEPT ![d].refs = new, ![d].re = re]
      /\ Republish(d, new, DOMAIN snaps) /\ UNCHANGED <<db, files, paths, why>>
  BY <1>1, <1>2 DEF PublishSwitch
<1>4. IsObject(cache[d]) /\ Sources(cache[d].refs) /\ DOMAIN cache[d].refs = cache[d].comps
  BY <1>0, <1>3 DEF Records
<1>5. Sources(snaps)
  BY <1>0, RefsSources
<1>6. DOMAIN new = cache[d].comps
  BY <1>1
<1>7. Sources(new)
  <2>1. \A c \in DOMAIN new : \/ c \in DOMAIN snaps /\ new[c] = snaps[c]
                              \/ c \in DOMAIN cache[d].refs /\ new[c] = cache[d].refs[c]
    BY <1>1, <1>4
  <2>2. DOMAIN new \subseteq Comps
    BY <1>4, <1>6 DEF Sources
  <2> QED
    BY <1>4, <1>5, <2>1, <2>2 DEF Sources
<1>8. /\ DOMAIN cache' = DOMAIN cache
      /\ cache'[d] = [cache[d] EXCEPT !.refs = new, !.re = re]
      /\ \A e \in DOMAIN cache : e # d => cache'[e] = cache[e]
  BY <1>3
<1>9. /\ IsObject(cache'[d]) /\ cache'[d].kind = cache[d].kind /\ cache'[d].comps = cache[d].comps
      /\ cache'[d].refs = new
  BY <1>4, <1>8 DEF IsObject
<1>10. DOMAIN snaps \subseteq DOMAIN new
  BY <1>3, <1>6
<1> QED
  BY <1>3, <1>6, <1>7, <1>8, <1>9, <1>10, RepublishCore

\* Between operations only what was left behind is not in order.
AtRest ==
  /\ \A d \in DOMAIN db \ DOMAIN cache : "torn" \in why[d]
  /\ \A d \in DOMAIN cache : "torn" \in why[d] \/ Recorded(d)
  /\ \A d \in DOMAIN cache : cache[d].kind = "snapshot" =>
       "stale" \in why[d] \/ cache[d].refs = db[d].refs

\* before an operation
LEMMA CoreAtRest ==
  ASSUME Core, op.name = "idle"
  PROVE  AtRest
<1>1. TypeOK /\ Operations /\ Cached
  BY DEF Core
<1>2. DOMAIN db \subseteq Dists /\ DOMAIN cache \subseteq DOMAIN db
  BY <1>1 DEF TypeOK
<1>3. \A d \in DOMAIN db : op.dist # d
  BY <1>1, <1>2, IdleFields
<1> QED
  BY <1>1, <1>2, <1>3 DEF Cached, AtRest

\* after an operation
LEMMA AtRestCore ==
  TypeOK /\ Records /\ op = Idle /\ AtRest => Core
<1> SUFFICES ASSUME TypeOK, Records, op = Idle, AtRest
             PROVE  Core
  OBVIOUS
<1>1. /\ op.name = "idle" /\ op.phase = "none" /\ op.side = "vis" /\ op.tmp = <<>>
      /\ IsOperation(op)
  BY DEF Idle, Operation, IsOperation
<1>2. /\ op.name \in {"idle", "publish", "update", "drop"} /\ op.side \in {"vis", "tmp"}
      /\ op.name # "publish" /\ op.name # "update" /\ op.name # "drop"
      /\ op.phase # "rename" /\ op.phase # "link" /\ op.phase # "sign" /\ op.phase # "refs"
  BY <1>1
<1>3. Operations
  BY <1>1, <1>2 DEF Operations
<1>4. Storing
  BY <1>2 DEF Storing
<1>5. Cached
  BY DEF Cached, AtRest
<1> QED
  BY <1>3, <1>4, <1>5 DEF Core

\* an operation ends
LEMMA EndCore ==
  TypeOK' /\ Records' /\ op' = Idle /\ AtRest' => Core'
<1>1. (TypeOK /\ Records /\ op = Idle /\ AtRest)' => Core'
  BY AtRestCore, PTL
<1> QED
  BY <1>1

\* PublishDrop
LEMMA DropCore ==
  ASSUME Core, NEW d, PublishDrop(d)
  PROVE  Core'
<1>0. TypeOK /\ Records /\ AtRest
  BY CoreAtRest DEF Core, PublishDrop
<1>1. PICK new : new = [c \in cache[d].comps |-> {}]
  OBVIOUS
<1>2. /\ op.name = "idle" /\ d \in DOMAIN cache
      /\ op' = Operation("drop", d, cache[d].kind, new, "vis", Shared(d), "dists", {})
  BY <1>1 DEF PublishDrop
<1>3. /\ db' = db /\ cache' = cache /\ pub' = pub /\ site' = site /\ conf' = conf
      /\ faults' = faults /\ listed' = listed /\ why' = why
  BY DEF PublishDrop, data, files, paths, fixed
<1>4. d \in Dists /\ d \in DOMAIN db
  BY <1>0, <1>2 DEF TypeOK
<1>5. /\ IsOperation(op') /\ op'.name = "drop" /\ op'.dist = d /\ op'.kind = cache[d].kind
      /\ op'.new = new /\ op'.side = "vis" /\ op'.comps = Shared(d) /\ op'.phase = "dists"
  BY <1>2 DEF IsOperation, Operation
<1>6. Shared(d) \subseteq DOMAIN new
  BY <1>1 DEF Shared
<1>7. DOMAIN new = cache[d].comps /\ cache[d].comps \subseteq Comps /\ cache[d].kind \in {"local", "snapshot"}
  BY <1>0, <1>1, <1>2, <1>4 DEF TypeOK, Records
<1>8. Sources(new)
  BY <1>1, <1>7 DEF Sources
<1>9. Shared(op.dist)' = Shared(d)
  BY <1>3, <1>5, SMTT(30) DEF Shared, Others
<1>10. /\ op'.phase \in Phases /\ op'.phase \in {"dists", "pool"}
       /\ op'.phase \in {"dists", "pool", "clean", "remove", "unrecord"}
       /\ op'.phase # "rename" /\ op'.phase # "link" /\ op'.phase # "sign" /\ op'.phase # "refs"
       /\ op'.name # "idle" /\ op'.name # "publish" /\ op'.name # "update"
       /\ op'.name \in {"idle", "publish", "update", "drop"} /\ op'.side \in {"vis", "tmp"}
  BY <1>5 DEF Phases
<1>11. TypeOK'
  <2>1. DOMAIN cache' \subseteq DOMAIN db' /\ op'.dist \in Dists \cup {NoDist}
    BY <1>0, <1>3, <1>4, <1>5 DEF TypeOK
  <2>2. listed' \in BOOLEAN /\ why' \in [Dists -> SUBSET Reasons] /\ faults' \in 0..conf'.maxFaults
    BY <1>0, <1>3 DEF TypeOK
  <2> QED
    BY <1>0, <1>3, <1>10, <2>1, <2>2, TypeFrame
<1>12. Records'
  BY <1>0, <1>3 DEF Records
<1>13. Operations'
  <2>1. op'.dist \in Dists /\ op'.kind \in {"local", "snapshot"} /\ op'.comps \subseteq DOMAIN op'.new
        /\ Sources(op'.new)
    BY <1>4, <1>5, <1>6, <1>7, <1>8
  <2>2. /\ op'.dist \in DOMAIN db' /\ op'.dist \in DOMAIN cache'
        /\ DOMAIN op'.new = cache'[op'.dist].comps /\ op'.comps = Shared(op.dist)'
    BY <1>2, <1>3, <1>4, <1>5, <1>7, <1>9
  <2> QED
    BY <1>5, <1>10, <2>1, <2>2 DEF Operations
<1>14. Storing'
  BY <1>10 DEF Storing
<1>15. Cached'
  <2>1. AtRest'
    BY <1>0, <1>3 DEF AtRest, Recorded
  <2> QED
    BY <2>1 DEF AtRest, Cached
<1> QED
  BY <1>11, <1>12, <1>13, <1>14, <1>15 DEF Core

\* FromDatabase
LEMMA FreshList ==
  ASSUME Core, NEW g, g = FromDatabase
  PROVE  /\ DOMAIN g = DOMAIN db
         /\ \A d \in DOMAIN db : /\ IsObject(g[d]) /\ g[d].kind = db[d].kind
                                 /\ g[d].comps = db[d].comps /\ g[d].refs = db[d].refs
  BY DEF FromDatabase, IsObject

----------------------------------------------------------------------------
(* The steps within an operation                                           *)

\* what PutFile does to a site
LEMMA PutFileShape ==
  ASSUME NEW s, IsSite(s), NEW side, NEW x, NEW w, NEW u, u = PutFile(s, side, x, w)
  PROVE  /\ IsSite(u) /\ u.link = s.link /\ u.old = s.old /\ u.alias = s.alias
         /\ DOMAIN u.sum = DOMAIN s.sum
         /\ side = "vis" => u.vis = Bind(s.vis, x, w)
         /\ side # "vis" => u.vis = s.vis
<1>1. PICK v : v = IF side = "vis" THEN Bind(s.vis, x, w) ELSE s.vis
  OBVIOUS
<1>2. PICK m : m = [k \in DOMAIN s.sum |-> IF <<side, x, k>> \in s.alias THEN w ELSE s.sum[k]]
  OBVIOUS
<1>3. u = [s EXCEPT !.vis = v, !.sum = m]
  BY <1>1, <1>2 DEF PutFile
<1>4. /\ IsSite(u) /\ u.link = s.link /\ u.old = s.old /\ u.alias = s.alias
      /\ u.vis = v /\ u.sum = m
  BY <1>3 DEF IsSite
<1> QED
  BY <1>1, <1>2, <1>4

\* what a step of packageIndexByHash makes of a site
HashSite(s, side, i, w, u) ==
  \/ u = s \/ u = HardLink(s, side, i, w) \/ u = RemoveTarget(s, i)
  \/ u = RemoveOld(s, i) \/ u = RenameLink(s, i) \/ u = SymLink(s, i, w)

\* It leaves what clients see alone.
LEMMA HashShape ==
  ASSUME NEW s, IsSite(s), NEW side, NEW i, NEW w, NEW u, HashSite(s, side, i, w, u)
  PROVE  IsSite(u) /\ u.vis = s.vis
<1>1. \E m, link, old, al :
        u = [s EXCEPT !.sum = m, !.link = link, !.old = old, !.alias = al] \/ u = s
        \/ u = [s EXCEPT !.sum = m, !.alias = al] \/ u = [s EXCEPT !.old = old]
        \/ u = [s EXCEPT !.old = old, !.link = link] \/ u = [s EXCEPT !.link = link]
  BY DEF HashSite, HardLink, RemoveTarget, RemoveSum, RemoveOld, RenameLink, SymLink
<1> QED
  BY <1>1 DEF IsSite

\* what RenameFile does to a site
LEMMA RenameFileShape ==
  ASSUME NEW s, IsSite(s), NEW x, NEW w, NEW u, u = RenameFile(s, x, w)
  PROVE  /\ IsSite(u) /\ u.vis = Bind(s.vis, x, w) /\ u.sum = s.sum /\ u.link = s.link
         /\ u.old = s.old
<1>1. PICK al : al = {a \in s.alias : a[2] # x}
                     \cup {<<"vis", x, a[3]>> : a \in {b \in s.alias : b[1] = "tmp" /\ b[2] = x}}
  OBVIOUS
<1>2. PICK v : v = Bind(s.vis, x, w)
  OBVIOUS
<1>3. u = [s EXCEPT !.vis = v, !.alias = al]
  BY <1>1, <1>2 DEF RenameFile
<1> QED
  BY <1>2, <1>3 DEF IsSite

\* a step that changes one site
LEMMA OneSite ==
  ASSUME Shapes, NEW d \in Dists, NEW s, IsSite(s), site' = [site EXCEPT ![d] = s], pub' = pub
  PROVE  /\ Shapes' /\ site'[d] = s
         /\ \A e \in Dists : e # d => site'[e] = site[e]
<1>1. DOMAIN site' = Dists /\ site'[d] = s /\ \A e \in Dists : e # d => site'[e] = site[e]
  BY DEF Shapes
<1>2. \A e \in Dists : IsSite(site'[e])
  <2>1. \A e \in Dists : IsSite(site[e])
    BY DEF Shapes
  <2>2. ASSUME NEW e \in Dists
        PROVE  IsSite(site'[e])
    <3>1. CASE e = d
      BY <1>1, <3>1
    <3>2. CASE e # d
      <4>1. site'[e] = site[e]
        BY <1>1, <2>2, <3>2
      <4> QED
        BY <2>1, <2>2, <4>1
    <3> QED
      BY <3>1, <3>2
  <2> QED
    BY <2>2
<1>3. /\ DOMAIN pub' = Comps
      /\ \A c \in Comps : \A x \in DOMAIN pub'[c] : pub'[c][x] \in Pkgs /\ Path[pub'[c][x]] = x
  BY DEF Shapes
<1>4. Shapes'
  BY <1>1, <1>2, <1>3 DEF Shapes
<1> QED
  BY <1>1, <1>4

\* what linking does to the package files
LEMMA LinkShape ==
  ASSUME Shapes, NEW c \in Comps, NEW p \in Pkgs, NEW seen, LinkStep(c, p, seen)
  PROVE  /\ Shapes' /\ site' = site
         /\ seen = {p} => pub' = pub
         /\ seen # {p} => /\ pub'[c] = Bind(pub[c], Path[p], p)
                          /\ \A e \in Comps : e # c => pub'[e] = pub[e]
<1>1. site' = site /\ pub' = IF seen = {p} THEN pub ELSE [pub EXCEPT ![c] = Bind(pub[c], Path[p], p)]
  BY DEF LinkStep
<1>2. DOMAIN site = Dists /\ DOMAIN pub = Comps /\ \A d \in Dists : IsSite(site[d])
  BY DEF Shapes
<1>3. \A e \in Comps : \A x \in DOMAIN pub[e] : pub[e][x] \in Pkgs /\ Path[pub[e][x]] = x
  BY DEF Shapes
<1>4. CASE seen = {p}
  <2>1. pub' = pub
    BY <1>1, <1>4
  <2>2. Shapes'
    BY <1>1, <1>2, <1>3, <2>1 DEF Shapes
  <2> QED
    BY <1>1, <1>4, <2>1, <2>2
<1>5. CASE seen # {p}
  <2>1. PICK f : f = Bind(pub[c], Path[p], p)
    OBVIOUS
  <2>2. /\ DOMAIN pub' = Comps /\ pub'[c] = f /\ \A e \in Comps : e # c => pub'[e] = pub[e]
    BY <1>1, <1>2, <1>5, <2>1
  <2>3. /\ DOMAIN f = DOMAIN pub[c] \cup {Path[p]} /\ f[Path[p]] = p
        /\ \A y \in DOMAIN pub[c] : y # Path[p] => f[y] = pub[c][y]
    BY <2>1 DEF Bind
  <2>4. \A x \in DOMAIN f : f[x] \in Pkgs /\ Path[f[x]] = x
    <3> SUFFICES ASSUME NEW x \in DOMAIN f
                 PROVE  f[x] \in Pkgs /\ Path[f[x]] = x
      OBVIOUS
    <3>1. CASE x = Path[p]
      BY <2>3, <3>1
    <3>2. CASE x # Path[p]
      <4>1. x \in DOMAIN pub[c] /\ f[x] = pub[c][x]
        BY <2>3, <3>2
      <4> QED
        BY <1>3, <4>1
    <3> QED
      BY <3>1, <3>2
  <2>5. ASSUME NEW e \in Comps
        PROVE  \A x \in DOMAIN pub'[e] : pub'[e][x] \in Pkgs /\ Path[pub'[e][x]] = x
    <3>1. CASE e = c
      BY <2>2, <2>4, <3>1
    <3>2. CASE e # c
      <4>1. pub'[e] = pub[e]
        BY <2>2, <2>5, <3>2
      <4> QED
        BY <1>3, <2>5, <4>1
    <3> QED
      BY <3>1, <3>2
  <2>6. Shapes'
    BY <1>1, <1>2, <2>2, <2>5 DEF Shapes
  <2> QED
    BY <1>1, <1>5, <2>1, <2>2, <2>6
<1> QED
  BY <1>4, <1>5

\* what an overwritten file voids
LEMMA OverwrittenType ==
  ASSUME why \in [Dists -> SUBSET Reasons], NEW c, NEW p
  PROVE  /\ Overwritten(c, p) \in [Dists -> SUBSET Reasons]
         /\ \A d \in Dists : /\ why[d] \subseteq Overwritten(c, p)[d]
                             /\ Overwritten(c, p)[d] \subseteq why[d] \cup {"force"}
<1>1. "force" \in Reasons
  BY DEF Reasons
<1>2. \A d \in Dists : why[d] \in SUBSET Reasons
  OBVIOUS
<1>3. PICK g : g = Overwritten(c, p)
  OBVIOUS
<1>4. \A d \in Dists : g[d] = why[d] \cup {"force"} \/ g[d] = why[d]
  BY <1>3 DEF Overwritten
<1>5. \A d \in Dists : why[d] \subseteq g[d] /\ g[d] \subseteq why[d] \cup {"force"} /\ g[d] \subseteq Reasons
  BY <1>1, <1>2, <1>4
<1>6. g = [d \in Dists |-> g[d]]
  BY <1>3 DEF Overwritten
<1>7. g \in [Dists -> SUBSET Reasons]
  BY <1>5, <1>6
<1> QED
  BY <1>3, <1>5, <1>7

\* LinkFromPool and LinkFromPoolS3
LEMMA LinkCore ==
  ASSUME Core, NEW c \in Comps, NEW p \in Pkgs, LinkFromPool(c, p) \/ LinkFromPoolS3(c, p)
  PROVE  Core'
<1>0. TypeOK /\ Records /\ Operations /\ Shapes
  BY CoreShapes DEF Core
<1>1. PICK seen : LinkStep(c, p, seen)
  BY DEF LinkFromPool, LinkFromPoolS3
<1>2. Shapes'
  BY <1>0, <1>1, LinkShape
<1>3. listed' \in BOOLEAN /\ conf' = conf /\ faults' = faults /\ (why' = why \/ why' = Overwritten(c, p))
  BY <1>0 DEF LinkFromPool, LinkFromPoolS3, paths, fixed, TypeOK
<1>4. op.phase = "link" /\ op.name # "idle" /\ db' = db /\ cache' = cache
  BY <1>1 DEF LinkStep, data
<1>5. why \in [Dists -> SUBSET Reasons] /\ IsOperation(op) /\ op.tmp = <<>>
  BY <1>0, <1>4 DEF TypeOK, Operations
<1>6. why' \in [Dists -> SUBSET Reasons] /\ \A d \in Dists : why[d] \subseteq why'[d]
  <2>1. CASE why' = why
    BY <1>5, <2>1
  <2>2. CASE why' = Overwritten(c, p)
    BY <1>5, <2>2, OverwrittenType
  <2> QED
    BY <1>3, <2>1, <2>2
<1>7. PICK G : G = Generated(op.new, conf.contents)
  OBVIOUS
<1>8. /\ Continues(op, op') /\ op'.tmp = op.tmp
      /\ op'.phase = "link" \/ op'.phase = "index" \/ op'.phase = "release"
  BY <1>1, <1>5, <1>7, LinkFields
<1>9. op.phase \in Working /\ op'.phase \in Working /\ op'.phase # "rename" /\ op'.phase # "sign"
  BY <1>4, <1>8 DEF Working
<1> QED
  BY <1>2, <1>3, <1>4, <1>5, <1>6, <1>8, <1>9, CoreGoesOn

\* FinalizeIndex, FinalizeRelease, SignRelease and RenameFiles
LEMMA PuttingCore ==
  ASSUME Core, NEW i, NEW sign,
         FinalizeIndex(i) \/ FinalizeRelease(sign) \/ SignRelease \/ RenameFiles(i)
  PROVE  Core' /\ Continues(op, op') /\ \A e \in Dists : e # op.dist => site'[e] = site[e]
<1>0. TypeOK /\ Records /\ Operations /\ Shapes /\ IsOperation(op)
  BY CoreShapes DEF Core, Operations
<1>1. UNCHANGED <<db, cache, conf, faults>> /\ listed' = listed /\ why' = why /\ pub' = pub
      /\ op.name # "idle"
  BY DEF FinalizeIndex, FinalizeRelease, SignRelease, RenameFiles, data, paths, fixed, Running
<1>2. op.dist \in Dists /\ op.side \in {"vis", "tmp"} /\ (op.phase = "sign" => op.sign)
  BY <1>0, <1>1 DEF Operations
<1>3. /\ Continues(op, op') /\ op.phase \in Working /\ op'.phase \in Working
      /\ op'.phase = "rename" => op.side = "tmp"
      /\ op'.phase # "link" /\ (op'.phase = "sign" => op'.sign)
  <2>1. CASE FinalizeIndex(i)
    <3>1. op.phase = "index" /\ Continues(op, op') /\ (op'.phase = "index" \/ op'.phase = "release")
      BY <1>0, <2>1, IndexFields DEF FinalizeIndex, Running
    <3> QED
      BY <3>1 DEF Working
  <2>2. CASE FinalizeRelease(sign)
    <3>1. /\ op.phase = "release" /\ Continues(op, op') /\ op'.sign = sign
          /\ \/ sign /\ op'.phase = "sign"
             \/ ~sign /\ op.side = "vis" /\ op'.phase = "save"
             \/ ~sign /\ op.side # "vis" /\ op'.phase = "rename"
      BY <1>0, <2>2, ReleaseFields DEF FinalizeRelease, Running
    <3>2. /\ op'.phase = "sign" \/ op'.phase = "save" \/ op'.phase = "rename"
          /\ op'.phase = "sign" => op'.sign
          /\ op'.phase = "rename" => op.side = "tmp"
      BY <1>2, <3>1
    <3> QED
      BY <3>1, <3>2 DEF Working
  <2>3. CASE SignRelease
    <3>1. /\ op.phase = "sign" /\ Continues(op, op')
          /\ \/ op.side = "vis" /\ op'.phase = "save"
             \/ op.side # "vis" /\ op'.phase = "rename"
      BY <1>0, <2>3, SignFields DEF SignRelease, Running
    <3> QED
      BY <1>2, <3>1 DEF Working
  <2>4. CASE RenameFiles(i)
    <3>1. op.phase = "rename" /\ Continues(op, op') /\ (op'.phase = "rename" \/ op'.phase = "save")
      BY <1>0, <2>4, RenameFields DEF RenameFiles, Running
    <3> QED
      BY <1>0, <3>1 DEF Working, Operations
  <2> QED
    BY <2>1, <2>2, <2>3, <2>4
<1>4. \E s : IsSite(s) /\ site' = [site EXCEPT ![op.dist] = s]
  <2>0. IsSite(site[op.dist])
    BY <1>0, <1>2 DEF Shapes
  <2>1. CASE FinalizeIndex(i)
    <3>1. PICK s : s = PutFile(site[op.dist], op.side, i, Listed(i, op.new))
      OBVIOUS
    <3>2. IsSite(s)
      BY <2>0, <3>1, PutFileShape
    <3> QED
      BY <2>1, <3>1, <3>2 DEF FinalizeIndex
  <2>2. CASE FinalizeRelease(sign)
    <3>1. PICK s : s = PutFile(site[op.dist], op.side, Release, ReleaseOf(op.new, conf.contents))
      OBVIOUS
    <3>2. IsSite(s)
      BY <2>0, <3>1, PutFileShape
    <3> QED
      BY <2>2, <3>1, <3>2 DEF FinalizeRelease
  <2>3. CASE SignRelease
    <3>1. PICK s : s = PutFile(site[op.dist], op.side, Signatures, ReleaseOf(op.new, conf.contents))
      OBVIOUS
    <3>2. IsSite(s)
      BY <2>0, <3>1, PutFileShape
    <3> QED
      BY <2>3, <3>1, <3>2 DEF SignRelease
  <2>4. CASE RenameFiles(i)
    <3>1. PICK s : s = RenameFile(site[op.dist], i, op.tmp[i])
      OBVIOUS
    <3>2. IsSite(s)
      BY <2>0, <3>1, RenameFileShape
    <3> QED
      BY <2>4, <3>1, <3>2 DEF RenameFiles
  <2> QED
    BY <2>1, <2>2, <2>3, <2>4
<1>5. Shapes' /\ \A e \in Dists : e # op.dist => site'[e] = site[e]
  BY <1>0, <1>1, <1>2, <1>4, OneSite
<1>6. listed' \in BOOLEAN /\ why' \in [Dists -> SUBSET Reasons] /\ \A d \in Dists : why[d] \subseteq why'[d]
  BY <1>0, <1>1 DEF TypeOK
<1>7. Core'
  BY <1>1, <1>3, <1>5, <1>6, CoreGoesOn
<1> QED
  BY <1>3, <1>5, <1>7

----------------------------------------------------------------------------
(* Records are stored                                                      *)

\* the record r is stored for the distribution
Stores(r) ==
  /\ DOMAIN db' = DOMAIN db \cup {op.dist} /\ db'[op.dist] = r
  /\ \A e \in DOMAIN db : e # op.dist => db'[e] = db[e]

\* one record changes, and with it at most the object of its distribution
LEMMA SavedRecord ==
  ASSUME TypeOK, Records, Operations, op.name = "publish" \/ op.name = "update",
         NEW r, Stores(r), IsRecord(r), r.kind = op.kind, r.comps = DOMAIN op.new,
         Sources(r.refs), DOMAIN r.refs \subseteq r.comps,
         r.kind = "snapshot" => DOMAIN r.refs = r.comps,
         UNCHANGED <<pub, site, conf, faults, listed>>, DOMAIN cache' \subseteq DOMAIN cache \cup {op.dist},
         \A e \in DOMAIN cache' : e # op.dist => cache'[e] = cache[e],
         op.dist \in DOMAIN cache' =>
           /\ IsObject(cache'[op.dist]) /\ cache'[op.dist].kind = op.kind
           /\ cache'[op.dist].comps = DOMAIN op.new
           /\ op.kind = "snapshot" => Sources(cache'[op.dist].refs)
                                      /\ DOMAIN cache'[op.dist].refs = DOMAIN op.new,
         op'.dist \in Dists \cup {NoDist}, op'.phase \in Phases,
         why' \in [Dists -> SUBSET Reasons]
  PROVE  TypeOK' /\ Records'
<1>0. pub' = pub /\ site' = site /\ conf' = conf /\ faults' = faults /\ listed' = listed
  OBVIOUS
<1>1. /\ DOMAIN db' = DOMAIN db \cup {op.dist} /\ db'[op.dist] = r
      /\ \A e \in DOMAIN db : e # op.dist => db'[e] = db[e]
  BY DEF Stores
<1>2. /\ op.dist \in Dists /\ op.kind \in {"local", "snapshot"} /\ DOMAIN op.new \subseteq Comps
  <2>1. op.name # "idle"
    OBVIOUS
  <2> QED
    BY <2>1 DEF Operations, Sources
<1>3. ASSUME NEW e \in DOMAIN db'
      PROVE  /\ db'[e].kind \in {"local", "snapshot"} /\ DOMAIN db'[e].refs \subseteq db'[e].comps
             /\ db'[e].comps \subseteq Comps /\ IsRecord(db'[e]) /\ Sources(db'[e].refs)
             /\ db'[e].kind = "snapshot" => DOMAIN db'[e].refs = db'[e].comps
  <2>1. CASE e = op.dist
    BY <1>1, <1>2, <2>1
  <2>2. CASE e # op.dist
    <3>1. e \in DOMAIN db /\ db'[e] = db[e]
      BY <1>1, <1>3, <2>2
    <3>2. /\ db[e].kind \in {"local", "snapshot"} /\ DOMAIN db[e].refs \subseteq db[e].comps
          /\ db[e].comps \subseteq Comps
      BY <3>1 DEF TypeOK
    <3>3. /\ IsRecord(db[e]) /\ Sources(db[e].refs)
          /\ db[e].kind = "snapshot" => DOMAIN db[e].refs = db[e].comps
      BY <3>1 DEF Records
    <3> QED
      BY <3>1, <3>2, <3>3
  <2> QED
    BY <2>1, <2>2
<1>4. DOMAIN db' \subseteq Dists /\ DOMAIN cache' \subseteq DOMAIN db'
  BY <1>1, <1>2 DEF TypeOK
<1>5. ASSUME NEW e \in DOMAIN cache'
      PROVE  /\ IsObject(cache'[e]) /\ cache'[e].kind = db'[e].kind /\ cache'[e].comps = db'[e].comps
             /\ cache'[e].kind = "snapshot" =>
                  Sources(cache'[e].refs) /\ DOMAIN cache'[e].refs = cache'[e].comps
  <2>1. CASE e = op.dist
    BY <1>1, <1>5, <2>1
  <2>2. CASE e # op.dist
    <3>1. e \in DOMAIN cache /\ e \in DOMAIN db /\ cache'[e] = cache[e] /\ db'[e] = db[e]
      BY <1>1, <1>5, <2>2 DEF TypeOK
    <3>2. /\ IsObject(cache[e]) /\ cache[e].kind = db[e].kind /\ cache[e].comps = db[e].comps
          /\ cache[e].kind = "snapshot" =>
               Sources(cache[e].refs) /\ DOMAIN cache[e].refs = cache[e].comps
      BY <3>1 DEF Records
    <3> QED
      BY <3>1, <3>2
  <2> QED
    BY <2>1, <2>2
<1>6. TypeOK'
  <2>1. /\ \A c \in Comps : \A x \in DOMAIN pub'[c] : pub'[c][x] \in Pkgs /\ Path[pub'[c][x]] = x
        /\ conf' \in Configs /\ listed' \in BOOLEAN /\ faults' \in 0..conf'.maxFaults
    <3>1. /\ \A c \in Comps : \A x \in DOMAIN pub[c] : pub[c][x] \in Pkgs /\ Path[pub[c][x]] = x
          /\ conf \in Configs /\ listed \in BOOLEAN /\ faults \in 0..conf.maxFaults
      BY DEF TypeOK
    <3> QED
      BY <1>0, <3>1, SMTT(30)
  <2>2. \A e \in DOMAIN db' : /\ db'[e].kind \in {"local", "snapshot"}
                              /\ DOMAIN db'[e].refs \subseteq db'[e].comps
                              /\ db'[e].comps \subseteq Comps
    BY <1>3
  <2> QED
    BY <1>4, <2>1, <2>2 DEF TypeOK
<1>7. Records'
  <2>1. DOMAIN site' = Dists /\ DOMAIN pub' = Comps /\ \A d \in Dists : IsSite(site'[d])
    BY <1>0 DEF Records
  <2>2. \A e \in DOMAIN db' :
          /\ IsRecord(db'[e]) /\ Sources(db'[e].refs)
          /\ db'[e].kind = "snapshot" => DOMAIN db'[e].refs = db'[e].comps
    BY <1>3
  <2>3. \A e \in DOMAIN cache' :
          /\ IsObject(cache'[e]) /\ cache'[e].kind = db'[e].kind /\ cache'[e].comps = db'[e].comps
          /\ cache'[e].kind = "snapshot" =>
               Sources(cache'[e].refs) /\ DOMAIN cache'[e].refs = cache'[e].comps
    BY <1>5
  <2> QED
    BY <2>1, <2>2, <2>3 DEF Records
<1> QED
  BY <1>6, <1>7

\* what AfterSave does
LEMMA AfterSaveFields ==
  ASSUME TypeOK, IsOperation(op), op.dist \in Dists, AfterSave
  PROVE  /\ DOMAIN cache' = DOMAIN cache \cup {op.dist} /\ IsObject(cache'[op.dist])
         /\ cache'[op.dist].kind = op.kind /\ cache'[op.dist].comps = DOMAIN op.new
         /\ cache'[op.dist].refs = op.new
         /\ \A e \in DOMAIN cache' : e # op.dist => cache'[e] = cache[e]
         /\ why' \in [Dists -> SUBSET Reasons] /\ "torn" \notin why'[op.dist]
         /\ "stale" \notin why'[op.dist] /\ "force" \notin why'[op.dist]
         /\ op.missed => "missing" \in why'[op.dist]
         /\ \A e \in Dists : e # op.dist => why'[e] = why[e]
         /\ \/ op' = Idle
            \/ /\ op.comps # {} /\ Continues(op, op') /\ op'.phase = "clean" /\ op'.clean = TRUE
               /\ op'.tmp = op.tmp /\ op'.missed = op.missed
<1>1. PICK v : v = [kind |-> op.kind, comps |-> DOMAIN op.new, refs |-> op.new,
                    re |-> op.dist \in DOMAIN cache /\ cache[op.dist].re]
  OBVIOUS
<1>2. cache' = Bind(cache, op.dist, v)
  BY <1>1 DEF AfterSave
<1>3. IsObject(v) /\ v.kind = op.kind /\ v.comps = DOMAIN op.new /\ v.refs = op.new
  BY <1>1 DEF IsObject
<1>4. /\ DOMAIN cache' = DOMAIN cache \cup {op.dist} /\ cache'[op.dist] = v
      /\ \A e \in DOMAIN cache' : e # op.dist => cache'[e] = cache[e]
  BY <1>2 DEF Bind
<1>5. PICK w : w = (why[op.dist] \cap {"hash"})
                   \cup (IF op.missed THEN {"missing"} ELSE {})
                   \cup (IF ~op.sign /\ Signatures \in DOMAIN site[op.dist].vis
                         THEN {"unsigned"} ELSE {})
  OBVIOUS
<1>6. why' = [why EXCEPT ![op.dist] = w]
  BY <1>5 DEF AfterSave
<1>7. /\ w \subseteq Reasons /\ "torn" \notin w /\ "stale" \notin w /\ "force" \notin w
      /\ op.missed => "missing" \in w
  BY <1>5 DEF Reasons
<1>8. /\ why' \in [Dists -> SUBSET Reasons] /\ why'[op.dist] = w
      /\ \A e \in Dists : e # op.dist => why'[e] = why[e]
  BY <1>6, <1>7 DEF TypeOK
<1>9. \/ op' = Idle
      \/ op.comps # {} /\ op' = [op EXCEPT !.phase = "clean", !.clean = TRUE]
  BY DEF AfterSave
<1>10. \/ op' = Idle
       \/ /\ op.comps # {} /\ Continues(op, op') /\ op'.phase = "clean" /\ op'.clean = TRUE
          /\ op'.tmp = op.tmp /\ op'.missed = op.missed
  <2>1. CASE op' = Idle
    BY <2>1
  <2>2. CASE op.comps # {} /\ op' = [op EXCEPT !.phase = "clean", !.clean = TRUE]
    BY <2>2 DEF IsOperation, Continues
  <2> QED
    BY <1>9, <2>1, <2>2
<1> QED
  BY <1>3, <1>4, <1>7, <1>8, <1>10

\* the record is complete, and the operation is over but for the cleanup
LEMMA SavedCore ==
  ASSUME Core, op.name = "publish" \/ op.name = "update",
         NEW r, Stores(r), IsRecord(r), r.kind = op.kind, r.comps = DOMAIN op.new,
         DOMAIN r.refs = DOMAIN op.new, \A c \in DOMAIN op.new : r.refs[c] = op.new[c],
         op.kind = "snapshot" => r.refs = op.new,
         AfterSave, UNCHANGED <<pub, site, conf, faults, listed>>
  PROVE  Core'
<1>0. TypeOK /\ Records /\ Operations /\ Cached
  BY DEF Core
<1>1. op.name # "idle" /\ op.name \in {"idle", "publish", "update", "drop"}
  BY <1>0 DEF Operations
<1>2. /\ op.dist \in Dists /\ op.kind \in {"local", "snapshot"} /\ Sources(op.new)
      /\ op.comps \subseteq DOMAIN op.new /\ IsOperation(op)
  BY <1>0, <1>1 DEF Operations
<1>3. /\ DOMAIN cache' = DOMAIN cache \cup {op.dist} /\ IsObject(cache'[op.dist])
      /\ cache'[op.dist].kind = op.kind /\ cache'[op.dist].comps = DOMAIN op.new
      /\ cache'[op.dist].refs = op.new
      /\ \A e \in DOMAIN cache' : e # op.dist => cache'[e] = cache[e]
      /\ why' \in [Dists -> SUBSET Reasons]
      /\ \A e \in Dists : e # op.dist => why'[e] = why[e]
  BY <1>0, <1>2, AfterSaveFields
<1>4. \/ op' = Idle
      \/ op.comps # {} /\ Continues(op, op') /\ op'.phase = "clean" /\ op'.tmp = op.tmp
  BY <1>0, <1>2, AfterSaveFields
<1>5. /\ DOMAIN db' = DOMAIN db \cup {op.dist} /\ db'[op.dist] = r
      /\ \A e \in DOMAIN db : e # op.dist => db'[e] = db[e]
  BY DEF Stores
<1>6. Sources(r.refs) /\ DOMAIN r.refs \subseteq r.comps
      /\ (r.kind = "snapshot" => DOMAIN r.refs = r.comps)
  BY <1>2 DEF Sources
<1>7. op'.dist \in Dists \cup {NoDist} /\ op'.phase \in Phases
  <2>1. CASE op' = Idle
    <3>1. op'.dist = NoDist /\ op'.phase = "none"
      BY <2>1 DEF Idle, Operation
    <3> QED
      BY <3>1 DEF Phases
  <2>2. CASE op.comps # {} /\ Continues(op, op') /\ op'.phase = "clean" /\ op'.tmp = op.tmp
    <3>1. op'.dist = op.dist
      BY <2>2 DEF Continues
    <3> QED
      BY <1>2, <2>2, <3>1 DEF Phases
  <2> QED
    BY <1>4, <2>1, <2>2
<1>8. DOMAIN cache' \subseteq DOMAIN cache \cup {op.dist}
      /\ (op.dist \in DOMAIN cache' =>
           /\ IsObject(cache'[op.dist]) /\ cache'[op.dist].kind = op.kind
           /\ cache'[op.dist].comps = DOMAIN op.new
           /\ op.kind = "snapshot" => Sources(cache'[op.dist].refs)
                                      /\ DOMAIN cache'[op.dist].refs = DOMAIN op.new)
  BY <1>2, <1>3
<1>9. TypeOK' /\ Records'
  BY <1>0, <1>3, <1>6, <1>7, <1>8, SavedRecord
<1>10. AtRest'
  <2>0. DOMAIN db \subseteq Dists /\ DOMAIN cache \subseteq DOMAIN db
    BY <1>0 DEF TypeOK
  <2>1. ASSUME NEW e \in DOMAIN db' \ DOMAIN cache'
        PROVE  "torn" \in why'[e]
    <3>1. e # op.dist /\ e \in DOMAIN db \ DOMAIN cache /\ e \in Dists
      BY <1>3, <1>5, <2>0, <2>1
    <3>2. "torn" \in why[e]
      BY <1>0, <3>1 DEF Cached
    <3> QED
      BY <1>3, <3>1, <3>2
  <2>2. ASSUME NEW e \in DOMAIN cache'
        PROVE  "torn" \in why'[e] \/ Recorded(e)'
    <3>1. CASE e = op.dist
      BY <1>5, <3>1 DEF Recorded
    <3>2. CASE e # op.dist
      <4>1. e \in DOMAIN cache /\ e \in DOMAIN db /\ e \in Dists /\ db'[e] = db[e] /\ why'[e] = why[e]
        BY <1>3, <1>5, <2>0, <2>2, <3>2
      <4>2. "torn" \in why[e] \/ Recorded(e)
        BY <1>0, <3>2, <4>1 DEF Cached
      <4> QED
        BY <1>5, <4>1, <4>2 DEF Recorded
    <3> QED
      BY <3>1, <3>2
  <2>3. ASSUME NEW e \in DOMAIN cache', cache'[e].kind = "snapshot"
        PROVE  "stale" \in why'[e] \/ cache'[e].refs = db'[e].refs
    <3>1. CASE e = op.dist
      BY <1>3, <1>5, <2>3, <3>1
    <3>2. CASE e # op.dist
      <4>1. /\ e \in DOMAIN cache /\ e \in DOMAIN db /\ e \in Dists /\ db'[e] = db[e]
            /\ why'[e] = why[e] /\ cache'[e] = cache[e]
        BY <1>3, <1>5, <2>0, <2>3, <3>2
      <4>2. "stale" \in why[e] \/ cache[e].refs = db[e].refs
        BY <1>0, <2>3, <3>2, <4>1 DEF Cached
      <4> QED
        BY <4>1, <4>2
    <3> QED
      BY <3>1, <3>2
  <2> QED
    BY <2>1, <2>2, <2>3 DEF AtRest
<1>11. CASE op' = Idle
  BY <1>9, <1>10, <1>11, EndCore
<1>12. CASE op.comps # {} /\ Continues(op, op') /\ op'.phase = "clean" /\ op'.tmp = op.tmp
  <2>1. op.name = "update"
    BY <1>0, <1>12 DEF Operations
  <2>2. /\ IsOperation(op') /\ op'.name = "update" /\ op'.dist = op.dist /\ op'.kind = op.kind
        /\ op'.new = op.new /\ op'.side = op.side /\ op'.comps = op.comps /\ op'.phase = "clean"
    BY <1>12, <2>1 DEF Continues
  <2>3. /\ op'.phase \in {"link"} \cup Putting \cup Cleaning
        /\ op'.phase # "rename" /\ op'.phase # "link" /\ op'.phase # "sign" /\ op'.phase # "refs"
        /\ op'.name # "idle" /\ op'.name # "publish" /\ op'.name # "drop"
        /\ op'.name \in {"idle", "publish", "update", "drop"}
    BY <2>2 DEF Cleaning
  <2>4. Operations'
    <3>1. op'.side \in {"vis", "tmp"}
      BY <1>0, <2>2 DEF Operations
    <3>2. /\ op'.dist \in Dists /\ op'.kind \in {"local", "snapshot"}
          /\ op'.comps \subseteq DOMAIN op'.new /\ Sources(op'.new)
      BY <1>2, <2>2
    <3>3. /\ op'.dist \in DOMAIN cache' /\ op'.kind = cache'[op'.dist].kind
          /\ DOMAIN op'.new = cache'[op'.dist].comps
          /\ op'.kind = "snapshot" => cache'[op'.dist].refs = op'.new
      BY <1>3, <2>2
    <3> QED
      BY <2>2, <2>3, <3>1, <3>2, <3>3 DEF Operations
  <2>5. Storing'
    <3>1. Stored({})'
      BY <1>5, <2>2 DEF Stored
    <3> QED
      BY <2>3, <3>1 DEF Storing
  <2>6. Cached'
    BY <1>10 DEF AtRest, Cached
  <2> QED
    BY <1>9, <2>4, <2>5, <2>6 DEF Core
<1> QED
  BY <1>4, <1>11, <1>12

\* the references are being stored
LEMMA StoringCore ==
  ASSUME Core, op.name = "publish" \/ op.name = "update", op.kind = "local",
         NEW r, Stores(r), IsRecord(r), r.kind = op.kind, r.comps = DOMAIN op.new,
         Sources(r.refs), DOMAIN r.refs \subseteq r.comps,
         Continues(op, op'), op'.phase = "refs", op'.tmp = op.tmp, op'.todo \subseteq DOMAIN op.new,
         \A c \in DOMAIN op.new \ op'.todo : c \in DOMAIN r.refs /\ r.refs[c] = op.new[c],
         UNCHANGED <<cache, why, pub, site, conf, faults, listed>>
  PROVE  Core'
<1>0. TypeOK /\ Records /\ Operations /\ Cached /\ cache' = cache /\ why' = why
  BY DEF Core
<1>1. op.name # "idle" /\ op.name \in {"idle", "publish", "update", "drop"}
      /\ op.name # "drop"
  BY <1>0 DEF Operations
<1>2. /\ op.dist \in Dists /\ op.kind \in {"local", "snapshot"} /\ Sources(op.new)
      /\ op.comps \subseteq DOMAIN op.new /\ IsOperation(op) /\ op.side \in {"vis", "tmp"}
  BY <1>0, <1>1 DEF Operations
<1>3. /\ IsOperation(op') /\ op'.name = op.name /\ op'.dist = op.dist /\ op'.kind = op.kind
      /\ op'.new = op.new /\ op'.side = op.side /\ op'.comps = op.comps
  BY DEF Continues
<1>4. /\ op'.phase \in {"link"} \cup Putting /\ op'.phase \in {"link"} \cup Putting \cup Cleaning
      /\ op'.phase # "rename" /\ op'.phase # "link" /\ op'.phase # "sign" /\ op'.phase \in Phases
      /\ op'.phase \notin Cleaning /\ r.kind # "snapshot"
  BY DEF Cleaning, Putting, Phases
<1>5. /\ DOMAIN db' = DOMAIN db \cup {op.dist} /\ db'[op.dist] = r
      /\ \A e \in DOMAIN db : e # op.dist => db'[e] = db[e]
  BY DEF Stores
<1>6. op.dist \in DOMAIN cache =>
        /\ op.name = "update" /\ IsObject(cache[op.dist]) /\ cache[op.dist].kind = op.kind
        /\ cache[op.dist].comps = DOMAIN op.new
  BY <1>0 DEF Operations, Records
<1>7. /\ op.dist \in DOMAIN cache' =>
           /\ IsObject(cache'[op.dist]) /\ cache'[op.dist].kind = op.kind
           /\ cache'[op.dist].comps = DOMAIN op.new
           /\ op.kind = "snapshot" => Sources(cache'[op.dist].refs)
                                      /\ DOMAIN cache'[op.dist].refs = DOMAIN op.new
      /\ DOMAIN cache' \subseteq DOMAIN cache \cup {op.dist}
      /\ \A e \in DOMAIN cache' : e # op.dist => cache'[e] = cache[e]
  BY <1>0, <1>4, <1>6
<1>8. /\ op'.dist \in Dists \cup {NoDist} /\ op'.phase \in Phases
      /\ why' \in [Dists -> SUBSET Reasons] /\ UNCHANGED <<pub, site, conf, faults, listed>>
  BY <1>0, <1>2, <1>3, <1>4 DEF TypeOK
<1>9. TypeOK' /\ Records'
  BY <1>0, <1>4, <1>7, <1>8, SavedRecord
<1>10. Operations'
  <2>1. op'.name = "publish" => op'.side = "vis" /\ op'.comps = {} /\ op'.dist \notin DOMAIN cache'
    BY <1>0, <1>3 DEF Operations
  <2>2. op'.name = "update" =>
          /\ op'.dist \in DOMAIN cache' /\ op'.kind = cache'[op'.dist].kind
          /\ DOMAIN op'.new = cache'[op'.dist].comps
          /\ op'.kind = "snapshot" => cache'[op'.dist].refs = op'.new
    BY <1>0, <1>3 DEF Operations
  <2>3. /\ op'.dist \in Dists /\ op'.kind \in {"local", "snapshot"} /\ Sources(op'.new)
        /\ op'.comps \subseteq DOMAIN op'.new /\ op'.side \in {"vis", "tmp"}
        /\ op'.name # "idle" /\ op'.name # "drop" /\ op'.name \in {"idle", "publish", "update", "drop"}
    BY <1>1, <1>2, <1>3
  <2> QED
    BY <1>3, <1>4, <2>1, <2>2, <2>3 DEF Operations
<1>11. Storing'
  <2>1. Stored(op.todo)'
    BY <1>3, <1>5 DEF Stored
  <2> QED
    BY <1>3, <1>4, <2>1 DEF Storing
<1>12. Cached'
  <2>0. DOMAIN db \subseteq Dists /\ DOMAIN cache \subseteq DOMAIN db
    BY <1>0 DEF TypeOK
  <2>1. ASSUME NEW e \in DOMAIN db' \ DOMAIN cache'
        PROVE  "torn" \in why'[e] \/ (op'.dist = e /\ op'.name = "publish" /\ op'.phase = "refs")
    <3>1. CASE e = op.dist
      <4>1. op.name # "update"
        BY <1>0, <2>1, <3>1 DEF Operations
      <4> QED
        BY <1>3, <3>1, <4>1
    <3>2. CASE e # op.dist
      <4>1. e \in DOMAIN db \ DOMAIN cache
        BY <1>0, <1>5, <2>1, <3>2
      <4> QED
        BY <1>0, <3>2, <4>1 DEF Cached
    <3> QED
      BY <3>1, <3>2
  <2>2. ASSUME NEW e \in DOMAIN cache', e # op.dist
        PROVE  "torn" \in why'[e] \/ Recorded(e)'
    <3>1. e \in DOMAIN cache /\ e \in DOMAIN db /\ e \in DOMAIN db' /\ db'[e] = db[e]
      BY <1>0, <1>5, <2>0, <2>2
    <3>2. "torn" \in why[e] \/ Recorded(e)
      BY <1>0, <2>2, <3>1 DEF Cached
    <3> QED
      BY <1>0, <3>1, <3>2 DEF Recorded
  <2>3. ASSUME NEW e \in DOMAIN cache', cache'[e].kind = "snapshot"
        PROVE  "stale" \in why'[e] \/ cache'[e].refs = db'[e].refs
    <3>1. e # op.dist
      BY <1>4, <1>7, <2>3
    <3>2. e \in DOMAIN cache /\ db'[e] = db[e]
      BY <1>0, <1>5, <2>0, <2>3, <3>1
    <3>3. "stale" \in why[e] \/ cache[e].refs = db[e].refs
      BY <1>0, <2>3, <3>1, <3>2 DEF Cached
    <3> QED
      BY <1>0, <3>2, <3>3
  <2> QED
    BY <1>3, <2>1, <2>2, <2>3 DEF Cached
<1> QED
  BY <1>9, <1>10, <1>11, <1>12 DEF Core

\* SaveRecord
LEMMA SaveRecordCore ==
  ASSUME Core, SaveRecord
  PROVE  Core'
<1>0. TypeOK /\ Records /\ Operations /\ op.name # "idle" /\ op.phase = "save"
  BY DEF Core, SaveRecord, Running
<1>1. op.name = "publish" \/ op.name = "update"
  BY <1>0 DEF Operations
<1>2. Sources(op.new) /\ op.kind \in {"local", "snapshot"} /\ IsOperation(op)
  BY <1>0 DEF Operations
<1>3. PICK refs : refs = IF op.kind = "snapshot" THEN op.new
                         ELSE IF op.name = "publish" THEN <<>> ELSE db[op.dist].refs
  OBVIOUS
<1>4. PICK r : r = [kind |-> op.kind, comps |-> DOMAIN op.new, refs |-> refs]
  OBVIOUS
<1>5. IsRecord(r) /\ r.kind = op.kind /\ r.comps = DOMAIN op.new /\ r.refs = refs
  BY <1>4 DEF IsRecord
<1>6. db' = Bind(db, op.dist, r)
  BY <1>3, <1>4 DEF SaveRecord
<1>7. Stores(r)
  BY <1>6 DEF Stores, Bind
<1>8. UNCHANGED <<pub, site, conf, faults, listed>>
  BY DEF SaveRecord, files, paths, fixed
<1>9. CASE op.kind = "snapshot"
  <2>1. AfterSave /\ refs = op.new
    BY <1>3, <1>9 DEF SaveRecord
  <2>2. DOMAIN r.refs = DOMAIN op.new /\ (\A c \in DOMAIN op.new : r.refs[c] = op.new[c])
        /\ r.refs = op.new
    BY <1>5, <2>1
  <2> QED
    BY <1>1, <1>5, <1>7, <1>8, <2>1, <2>2, SavedCore
<1>10. CASE op.kind # "snapshot"
  <2>1. op' = [op EXCEPT !.phase = "refs", !.todo = DOMAIN op.new] /\ UNCHANGED <<cache, why>>
    BY <1>10 DEF SaveRecord
  <2>2. /\ Continues(op, op') /\ op'.phase = "refs" /\ op'.tmp = op.tmp /\ op'.todo = DOMAIN op.new
    BY <1>2, <2>1 DEF IsOperation, Continues
  <2>3. Sources(refs) /\ DOMAIN refs \subseteq DOMAIN op.new
    <3>1. CASE op.name = "publish"
      <4>1. refs = <<>>
        BY <1>3, <1>10, <3>1
      <4> QED
        BY <4>1, EmptyFunction DEF Sources
    <3>2. CASE op.name = "update"
      <4>1. op.name # "publish"
        BY <3>2
      <4>2. refs = db[op.dist].refs
        BY <1>3, <1>10, <4>1
      <4>3. op.dist \in DOMAIN cache /\ DOMAIN op.new = cache[op.dist].comps
        BY <1>0, <3>2 DEF Operations
      <4>4. op.dist \in DOMAIN db /\ cache[op.dist].comps = db[op.dist].comps
        BY <1>0, <4>3 DEF TypeOK, Records
      <4>5. Sources(db[op.dist].refs) /\ DOMAIN db[op.dist].refs \subseteq db[op.dist].comps
        BY <1>0, <4>4 DEF TypeOK, Records
      <4> QED
        BY <4>2, <4>3, <4>4, <4>5
    <3> QED
      BY <1>1, <3>1, <3>2
  <2>4. op.kind = "local"
    BY <1>2, <1>10
  <2>5. op'.todo \subseteq DOMAIN op.new
        /\ \A c \in DOMAIN op.new \ op'.todo : c \in DOMAIN r.refs /\ r.refs[c] = op.new[c]
    BY <2>2
  <2>6. Sources(r.refs) /\ DOMAIN r.refs \subseteq r.comps
    BY <1>5, <2>3
  <2>7. UNCHANGED <<cache, why, pub, site, conf, faults, listed>>
    BY <1>8, <2>1
  <2> QED
    BY <1>1, <1>5, <1>7, <2>2, <2>4, <2>5, <2>6, <2>7, StoringCore
<1> QED
  BY <1>9, <1>10

\* SaveRefs
LEMMA SaveRefsCore ==
  ASSUME Core, NEW c, SaveRefs(c)
  PROVE  Core'
<1>0. TypeOK /\ Records /\ Operations /\ Storing /\ op.name # "idle" /\ op.phase = "refs" /\ c \in op.todo
  BY DEF Core, SaveRefs, Running
<1>1. op.name = "publish" \/ op.name = "update"
  BY <1>0 DEF Operations, Cleaning
<1>2. /\ op.kind = "local" /\ op.todo \subseteq DOMAIN op.new /\ op.dist \in DOMAIN db
      /\ db[op.dist].kind = op.kind /\ db[op.dist].comps = DOMAIN op.new
      /\ \A e \in DOMAIN op.new \ op.todo :
           e \in DOMAIN db[op.dist].refs /\ db[op.dist].refs[e] = op.new[e]
  BY <1>0 DEF Storing, Stored
<1>3. /\ IsRecord(db[op.dist]) /\ Sources(db[op.dist].refs)
      /\ DOMAIN db[op.dist].refs \subseteq db[op.dist].comps
      /\ Sources(op.new) /\ IsOperation(op)
  BY <1>0, <1>2 DEF TypeOK, Records, Operations
<1>4. PICK refs : refs = Bind(db[op.dist].refs, c, op.new[c])
  OBVIOUS
<1>5. /\ DOMAIN refs = DOMAIN db[op.dist].refs \cup {c} /\ refs[c] = op.new[c]
      /\ \A e \in DOMAIN db[op.dist].refs : e # c => refs[e] = db[op.dist].refs[e]
  BY <1>4 DEF Bind
<1>6. PICK r : r = [db[op.dist] EXCEPT !.refs = refs]
  OBVIOUS
<1>7. IsRecord(r) /\ r.kind = op.kind /\ r.comps = DOMAIN op.new /\ r.refs = refs
  BY <1>2, <1>3, <1>6 DEF IsRecord
<1>8. Stores(r)
  <2>1. db' = [db EXCEPT ![op.dist] = r]
    BY <1>4, <1>6 DEF SaveRefs
  <2> QED
    BY <1>2, <2>1 DEF Stores
<1>9. Sources(refs) /\ DOMAIN refs \subseteq DOMAIN op.new
  <2>1. DOMAIN refs \subseteq DOMAIN op.new /\ DOMAIN op.new \subseteq Comps
    BY <1>0, <1>2, <1>3, <1>5 DEF Sources
  <2>2. \A e \in DOMAIN refs : \/ e \in DOMAIN op.new /\ refs[e] = op.new[e]
                               \/ e \in DOMAIN db[op.dist].refs /\ refs[e] = db[op.dist].refs[e]
    BY <1>0, <1>2, <1>5
  <2> QED
    BY <1>3, <2>1, <2>2 DEF Sources
<1>10. UNCHANGED <<pub, site, conf, faults, listed>>
  BY DEF SaveRefs, files, paths, fixed
<1>11. \A e \in (DOMAIN op.new \ op.todo) \cup {c} : e \in DOMAIN refs /\ refs[e] = op.new[e]
  BY <1>2, <1>5
<1>12. op.kind # "snapshot"
  BY <1>2
<1>13. CASE op.todo = {c}
  <2>1. AfterSave
    BY <1>13 DEF SaveRefs
  <2>2. DOMAIN op.new \subseteq (DOMAIN op.new \ op.todo) \cup {c}
    BY <1>13
  <2>3. DOMAIN r.refs = DOMAIN op.new /\ \A e \in DOMAIN op.new : r.refs[e] = op.new[e]
    BY <1>7, <1>9, <1>11, <2>2
  <2> QED
    BY <1>1, <1>7, <1>8, <1>10, <1>12, <2>1, <2>3, SavedCore
<1>14. CASE op.todo # {c}
  <2>1. op' = [op EXCEPT !.todo = op.todo \ {c}] /\ UNCHANGED <<cache, why>>
    BY <1>14 DEF SaveRefs
  <2>2. Continues(op, op') /\ op'.phase = op.phase /\ op'.tmp = op.tmp /\ op'.todo = op.todo \ {c}
    BY <1>3, <2>1 DEF IsOperation, Continues
  <2>3. op'.todo \subseteq DOMAIN op.new
        /\ \A e \in DOMAIN op.new \ op'.todo : e \in DOMAIN r.refs /\ r.refs[e] = op.new[e]
    BY <1>2, <1>7, <1>11, <2>2
  <2>4. Sources(r.refs) /\ DOMAIN r.refs \subseteq r.comps /\ op'.phase = "refs"
    BY <1>0, <1>7, <1>9, <2>2
  <2>5. UNCHANGED <<cache, why, pub, site, conf, faults, listed>>
    BY <1>10, <2>1
  <2> QED
    BY <1>1, <1>2, <1>7, <1>8, <2>2, <2>3, <2>4, <2>5, StoringCore
<1> QED
  BY <1>13, <1>14

----------------------------------------------------------------------------
(* Cleaning up and dropping                                                *)

\* a package file is removed
LEMMA RemoveShape ==
  ASSUME Shapes, NEW c \in Comps, NEW x, pub' = [pub EXCEPT ![c] = Unbind(pub[c], {x})], site' = site
  PROVE  /\ Shapes' /\ pub'[c] = Unbind(pub[c], {x})
         /\ \A e \in Comps : e # c => pub'[e] = pub[e]
<1>1. /\ DOMAIN site = Dists /\ DOMAIN pub = Comps /\ \A d \in Dists : IsSite(site[d])
      /\ \A e \in Comps : \A y \in DOMAIN pub[e] : pub[e][y] \in Pkgs /\ Path[pub[e][y]] = y
  BY DEF Shapes
<1>2. PICK f : f = Unbind(pub[c], {x})
  OBVIOUS
<1>3. DOMAIN pub' = Comps /\ pub'[c] = f /\ \A e \in Comps : e # c => pub'[e] = pub[e]
  BY <1>1, <1>2
<1>4. \A y \in DOMAIN f : y \in DOMAIN pub[c] /\ f[y] = pub[c][y]
  BY <1>2 DEF Unbind
<1>5. ASSUME NEW e \in Comps
      PROVE  \A y \in DOMAIN pub'[e] : pub'[e][y] \in Pkgs /\ Path[pub'[e][y]] = y
  <2>1. TAKE y \in DOMAIN pub'[e]
  <2>2. y \in DOMAIN pub[e] /\ pub'[e][y] = pub[e][y]
    <3>1. CASE e = c
      BY <1>3, <1>4, <2>1, <3>1
    <3>2. CASE e # c
      BY <1>3, <1>5, <2>1, <3>2
    <3> QED
      BY <3>1, <3>2
  <2>3. pub[e][y] \in Pkgs /\ Path[pub[e][y]] = y
    BY <1>1, <1>5, <2>2, SMTT(30)
  <2> QED
    BY <2>2, <2>3
<1>6. Shapes'
  <2>1. DOMAIN site' = Dists /\ \A d \in Dists : IsSite(site'[d])
    BY <1>1
  <2> QED
    BY <1>3, <1>5, <2>1 DEF Shapes
<1> QED
  BY <1>2, <1>3, <1>6

\* which operation is in which phase
LEMMA PhaseNames ==
  ASSUME Operations, op.name # "idle"
  PROVE  /\ op.phase \in {"dists", "pool", "unrecord"} => op.name = "drop"
         /\ op.phase \in {"clean", "remove"} => op.name = "drop" \/ op.name = "update"
         /\ op.phase = "cleaned" => op.name = "update"
         /\ op.phase \in {"link"} \cup Putting => op.name = "publish" \/ op.name = "update"
  BY DEF Operations, Putting, Cleaning

\* CleanupPrefixComponentFiles, RemoveFile and CleanupFails
LEMMA CleaningCore ==
  ASSUME Core, NEW c, NEW x,
         CleanupPrefixComponentFiles \/ (c \in Comps /\ RemoveFile(<<c, x>>)) \/ CleanupFails
  PROVE  Core' /\ site' = site
<1>0. TypeOK /\ Records /\ Operations /\ Shapes /\ IsOperation(op)
  BY CoreShapes DEF Core, Operations
<1>1. /\ UNCHANGED <<db, cache, conf, faults>> /\ listed' = listed /\ why' = why /\ site' = site
  BY DEF CleanupPrefixComponentFiles, RemoveFile, CleanupFails, data, files, paths, fixed
<1>2. op.name # "idle" /\ (op.phase = "clean" \/ op.phase = "remove")
  <2>1. CASE CleanupPrefixComponentFiles \/ (c \in Comps /\ RemoveFile(<<c, x>>))
    BY <2>1 DEF CleanupPrefixComponentFiles, RemoveFile, Running
  <2>2. CASE CleanupFails
    BY <2>2 DEF CleanupFails
  <2> QED
    BY <2>1, <2>2
<1>3. op.name = "drop" \/ op.name = "update"
  BY <1>0, <1>2, PhaseNames
<1>4. Shapes'
  <2>1. CASE pub' = pub
    BY <1>0, <1>1, <2>1 DEF Shapes
  <2>2. CASE c \in Comps /\ RemoveFile(<<c, x>>)
    <3>1. pub' = [pub EXCEPT ![c] = Unbind(pub[c], {x})]
      BY <2>2 DEF RemoveFile
    <3> QED
      BY <1>0, <1>1, <2>2, <3>1, RemoveShape
  <2> QED
    BY <2>1, <2>2 DEF CleanupPrefixComponentFiles, CleanupFails, files
<1>5. /\ Continues(op, op')
      /\ op.name = "drop" => op'.phase \in {"clean", "remove", "unrecord"}
      /\ op.name = "update" => op'.phase \in Cleaning
      /\ op'.phase # "rename" /\ op'.phase # "link" /\ op'.phase # "sign"
  <2>1. CASE CleanupPrefixComponentFiles
    <3>1. PICK o : o = [op EXCEPT !.phase = "remove", !.todo = Unreferenced(op.comps)]
      OBVIOUS
    <3>2. op' = AfterClean(o)
      BY <2>1, <3>1 DEF CleanupPrefixComponentFiles
    <3>3. Continues(op, o) /\ o.phase = "remove" /\ IsOperation(o) /\ o.name = op.name
      BY <1>0, <3>1 DEF IsOperation, Continues
    <3>4. /\ Continues(o, op')
          /\ \/ op'.phase = "remove"
             \/ op.name = "drop" /\ op'.phase = "unrecord"
             \/ op.name # "drop" /\ op'.phase = "cleaned"
      BY <3>2, <3>3, AfterCleanFields
    <3>5. Continues(op, op')
      BY <3>3, <3>4 DEF Continues
    <3> QED
      BY <1>3, <3>4, <3>5 DEF Cleaning
  <2>2. CASE c \in Comps /\ RemoveFile(<<c, x>>)
    <3>1. PICK o : o = [op EXCEPT !.todo = op.todo \ {<<c, x>>}]
      OBVIOUS
    <3>2. op' = AfterClean(o) /\ op.phase = "remove"
      BY <2>2, <3>1 DEF RemoveFile, Running
    <3>3. Continues(op, o) /\ o.phase = "remove" /\ IsOperation(o) /\ o.name = op.name
      BY <1>0, <3>1, <3>2 DEF IsOperation, Continues
    <3>4. /\ Continues(o, op')
          /\ \/ op'.phase = "remove"
             \/ op.name = "drop" /\ op'.phase = "unrecord"
             \/ op.name # "drop" /\ op'.phase = "cleaned"
      BY <3>2, <3>3, AfterCleanFields
    <3>5. Continues(op, op')
      BY <3>3, <3>4 DEF Continues
    <3> QED
      BY <1>3, <3>4, <3>5 DEF Cleaning
  <2>3. CASE CleanupFails
    <3>1. op.name = "drop" /\ op' = [op EXCEPT !.phase = "unrecord", !.todo = {}, !.clean = FALSE]
      BY <2>3 DEF CleanupFails
    <3>2. Continues(op, op') /\ op'.phase = "unrecord"
      BY <1>0, <3>1 DEF IsOperation, Continues
    <3> QED
      BY <3>1, <3>2
  <2> QED
    BY <2>1, <2>2, <2>3
<1>6. listed' \in BOOLEAN /\ why' \in [Dists -> SUBSET Reasons] /\ \A d \in Dists : why[d] \subseteq why'[d]
  BY <1>0, <1>1 DEF TypeOK
<1>7. \/ op.phase \in Cleaning /\ op.name = "update" /\ op'.phase \in Cleaning
      \/ op.phase \in {"clean", "remove", "unrecord"} /\ op.name = "drop"
              /\ op'.phase \in {"clean", "remove", "unrecord"}
  BY <1>2, <1>3, <1>5 DEF Cleaning
<1>8. Core'
  BY <1>1, <1>2, <1>4, <1>5, <1>6, <1>7, CoreGoesOn
<1> QED
  BY <1>1, <1>8

\* the distribution that is dropped leaves the list
LEMMA LeavesList ==
  ASSUME Core, op.name = "drop", op.phase \in {"dists", "pool"}, Continues(op, op'),
         op'.phase = "unrecord" \/ op'.phase = "clean", cache' = Unbind(cache, {op.dist}),
         UNCHANGED <<db, conf, faults, listed, why>>, Shapes'
  PROVE  Core'
<1>0. TypeOK /\ Records /\ Operations /\ Cached
  BY DEF Core
<1>1. db' = db /\ conf' = conf /\ faults' = faults /\ listed' = listed /\ why' = why
  OBVIOUS
<1>2. /\ IsOperation(op') /\ op'.name = "drop" /\ op'.dist = op.dist /\ op'.kind = op.kind
      /\ op'.new = op.new /\ op'.side = op.side /\ op'.comps = op.comps
  BY DEF Continues
<1>3. /\ op.dist \in Dists /\ op.kind \in {"local", "snapshot"} /\ Sources(op.new)
      /\ op.comps \subseteq DOMAIN op.new /\ op.side = "vis" /\ op.dist \in DOMAIN db
      /\ op.side \in {"vis", "tmp"}
  BY <1>0 DEF Operations
<1>4. /\ op'.phase \in Phases /\ op'.phase \notin {"dists", "pool"}
      /\ op'.phase \in {"dists", "pool", "clean", "remove", "unrecord"}
      /\ op'.phase \in {"clean", "remove", "unrecord"}
      /\ op'.phase # "rename" /\ op'.phase # "link" /\ op'.phase # "sign" /\ op'.phase # "refs"
      /\ op'.name # "idle" /\ op'.name # "publish" /\ op'.name # "update"
      /\ op'.name \in {"idle", "publish", "update", "drop"}
      /\ op.name # "publish" /\ op.name # "update" /\ op.phase # "refs"
      /\ op.phase \notin {"clean", "remove", "unrecord"}
  BY <1>2 DEF Phases
<1>5. /\ DOMAIN cache' = DOMAIN cache \ {op.dist}
      /\ \A e \in DOMAIN cache' : e \in DOMAIN cache /\ e # op.dist /\ cache'[e] = cache[e]
  BY DEF Unbind
<1>6. TypeOK'
  <2>1. DOMAIN cache' \subseteq DOMAIN db' /\ op'.dist \in Dists \cup {NoDist}
    BY <1>0, <1>1, <1>2, <1>3, <1>5 DEF TypeOK
  <2>2. /\ conf \in Configs /\ listed \in BOOLEAN /\ faults \in 0..conf.maxFaults
        /\ why \in [Dists -> SUBSET Reasons] /\ DOMAIN db \subseteq Dists
        /\ \A d \in DOMAIN db : /\ db[d].kind \in {"local", "snapshot"}
                                /\ DOMAIN db[d].refs \subseteq db[d].comps
                                /\ db[d].comps \subseteq Comps
    BY <1>0 DEF TypeOK
  <2>3. \A e \in Comps : \A x \in DOMAIN pub'[e] : pub'[e][x] \in Pkgs /\ Path[pub'[e][x]] = x
    BY DEF Shapes
  <2> QED
    BY <1>1, <1>4, <2>1, <2>2, <2>3 DEF TypeOK
<1>7. Records'
  <2>1. DOMAIN site' = Dists /\ DOMAIN pub' = Comps /\ \A d \in Dists : IsSite(site'[d])
    BY DEF Shapes
  <2>2. \A e \in DOMAIN db :
          /\ IsRecord(db[e]) /\ Sources(db[e].refs)
          /\ db[e].kind = "snapshot" => DOMAIN db[e].refs = db[e].comps
    BY <1>0 DEF Records
  <2>3. \A e \in DOMAIN cache' :
          /\ IsObject(cache'[e]) /\ cache'[e].kind = db[e].kind /\ cache'[e].comps = db[e].comps
          /\ cache'[e].kind = "snapshot" =>
               Sources(cache'[e].refs) /\ DOMAIN cache'[e].refs = cache'[e].comps
    <3>1. \A e \in DOMAIN cache :
            /\ IsObject(cache[e]) /\ cache[e].kind = db[e].kind /\ cache[e].comps = db[e].comps
            /\ cache[e].kind = "snapshot" =>
                 Sources(cache[e].refs) /\ DOMAIN cache[e].refs = cache[e].comps
      BY <1>0 DEF Records
    <3>2. TAKE e \in DOMAIN cache'
    <3>3. e \in DOMAIN cache /\ cache'[e] = cache[e]
      BY <1>5, <3>2
    <3> QED
      BY <3>1, <3>3
  <2> QED
    BY <1>1, <2>1, <2>2, <2>3 DEF Records
<1>8. Operations'
  <2>1. op'.dist \notin DOMAIN cache' /\ op'.dist \in DOMAIN db'
    BY <1>1, <1>2, <1>3, <1>5
  <2>2. /\ op'.dist \in Dists /\ op'.kind \in {"local", "snapshot"} /\ Sources(op'.new)
        /\ op'.comps \subseteq DOMAIN op'.new /\ op'.side \in {"vis", "tmp"} /\ op'.side = "vis"
    BY <1>2, <1>3
  <2> QED
    BY <1>2, <1>4, <2>1, <2>2 DEF Operations
<1>9. Storing'
  BY <1>4 DEF Storing
<1>10. Cached'
  <2>1. ASSUME NEW e \in DOMAIN db \ DOMAIN cache'
        PROVE  "torn" \in why[e] \/ op.dist = e
    BY <1>0, <1>4, <1>5, <2>1 DEF Cached
  <2>2. ASSUME NEW e \in DOMAIN cache'
        PROVE  "torn" \in why[e] \/ Recorded(e)'
    <3>1. "torn" \in why[e] \/ Recorded(e)
      BY <1>0, <1>4, <1>5, <2>2 DEF Cached
    <3> QED
      BY <1>1, <3>1 DEF Recorded
  <2>3. ASSUME NEW e \in DOMAIN cache', cache'[e].kind = "snapshot"
        PROVE  "stale" \in why[e] \/ cache'[e].refs = db[e].refs
    <3>1. e \in DOMAIN cache /\ cache'[e] = cache[e]
      BY <1>5, <2>3
    <3> QED
      BY <1>0, <1>4, <2>3, <3>1 DEF Cached
  <2> QED
    BY <1>1, <1>2, <1>4, <2>1, <2>2, <2>3 DEF Cached
<1> QED
  BY <1>6, <1>7, <1>8, <1>9, <1>10 DEF Core

\* a prefix without files
LEMMA EmptySiteFields == IsSite(EmptySite) /\ EmptySite.vis = <<>> /\ EmptySite.link = <<>>
                         /\ EmptySite.old = <<>>
  BY DEF EmptySite, IsSite

\* what RemoveFiles does to the sites
LEMMA RemoveFilesShape ==
  ASSUME Core, RemoveFiles
  PROVE  /\ Shapes' /\ site'[op.dist] = EmptySite
         /\ \A e \in Dists : \/ site'[e] = site[e] /\ Others(op.dist) # {}
                             \/ e = op.dist
                             \/ site'[e] = EmptySite /\ Others(op.dist) = {}
<1>0. TypeOK /\ Operations /\ Shapes /\ op.name # "idle" /\ pub' = pub
  BY CoreShapes DEF Core, RemoveFiles, Running
<1>1. op.dist \in Dists
  BY <1>0 DEF Operations
<1>2. site' = IF Others(op.dist) = {} THEN [d \in Dists |-> EmptySite]
              ELSE [site EXCEPT ![op.dist] = EmptySite]
  BY DEF RemoveFiles
<1>3. CASE Others(op.dist) = {}
  <2>1. DOMAIN site' = Dists /\ \A e \in Dists : site'[e] = EmptySite
    BY <1>2, <1>3
  <2>2. \A e \in Dists : IsSite(site'[e])
    BY <2>1, EmptySiteFields
  <2>3. DOMAIN pub' = Comps
        /\ \A c \in Comps : \A x \in DOMAIN pub'[c] : pub'[c][x] \in Pkgs /\ Path[pub'[c][x]] = x
    BY <1>0 DEF Shapes
  <2> QED
    BY <1>1, <1>3, <2>1, <2>2, <2>3 DEF Shapes
<1>4. CASE Others(op.dist) # {}
  <2>1. site' = [site EXCEPT ![op.dist] = EmptySite]
    BY <1>2, <1>4
  <2>2. PICK s : s = EmptySite /\ IsSite(s)
    BY EmptySiteFields
  <2>3. site' = [site EXCEPT ![op.dist] = s]
    BY <2>1, <2>2
  <2>4. Shapes' /\ site'[op.dist] = s /\ \A e \in Dists : e # op.dist => site'[e] = site[e]
    BY <1>0, <1>1, <2>2, <2>3, OneSite
  <2> QED
    BY <1>4, <2>2, <2>4
<1> QED
  BY <1>3, <1>4

\* RemoveFiles and RemovePool
LEMMA RemovingCore ==
  ASSUME Core, NEW c, NEW x, RemoveFiles \/ (c \in Comps /\ RemovePool(<<c, x>>))
  PROVE  Core'
<1>0. TypeOK /\ Operations /\ Shapes /\ IsOperation(op)
  BY CoreShapes DEF Core, Operations
<1>1. op.name # "idle" /\ (op.phase = "dists" \/ op.phase = "pool")
  BY DEF RemoveFiles, RemovePool, Running
<1>2. op.name = "drop" /\ op.phase \in {"dists", "pool"}
  BY <1>0, <1>1, PhaseNames
<1>3. UNCHANGED <<db, conf, faults, listed, why>>
  BY DEF RemoveFiles, RemovePool, paths, fixed
<1>4. Shapes'
  <2>1. CASE RemoveFiles
    BY <2>1, RemoveFilesShape
  <2>2. CASE c \in Comps /\ RemovePool(<<c, x>>)
    <3>1. pub' = [pub EXCEPT ![c] = Unbind(pub[c], {x})] /\ site' = site
      BY <2>2 DEF RemovePool
    <3> QED
      BY <1>0, <2>2, <3>1, RemoveShape
  <2> QED
    BY <2>1, <2>2
<1>5. PICK o : AfterPool(o) /\ Continues(op, o) /\ o.phase = "pool"
  <2>1. CASE RemoveFiles
    <3>1. PICK t : AfterPool([op EXCEPT !.phase = "pool", !.todo = t])
      BY <2>1 DEF RemoveFiles
    <3>2. PICK o : o = [op EXCEPT !.phase = "pool", !.todo = t]
      OBVIOUS
    <3>3. Continues(op, o) /\ o.phase = "pool"
      BY <1>0, <3>2 DEF IsOperation, Continues
    <3> QED
      BY <3>1, <3>2, <3>3
  <2>2. CASE c \in Comps /\ RemovePool(<<c, x>>)
    <3>1. PICK t : AfterPool([op EXCEPT !.todo = t])
      BY <2>2 DEF RemovePool
    <3>2. PICK o : o = [op EXCEPT !.todo = t]
      OBVIOUS
    <3>3. Continues(op, o) /\ o.phase = op.phase
      BY <1>0, <3>2 DEF IsOperation, Continues
    <3>4. op.phase = "pool"
      BY <2>2 DEF RemovePool, Running
    <3> QED
      BY <3>1, <3>2, <3>3, <3>4
  <2> QED
    BY <2>1, <2>2
<1>6. IsOperation(o) /\ o.dist = op.dist
  BY <1>5 DEF Continues
<1>7. CASE o.todo # {}
  <2>1. op' = o /\ cache' = cache
    BY <1>5, <1>7 DEF AfterPool
  <2>2. /\ Continues(op, op') /\ op'.phase \in {"dists", "pool"} /\ op'.phase # "rename"
        /\ op'.phase # "link" /\ op'.phase # "sign" /\ UNCHANGED <<db, cache, conf, faults>>
    BY <1>3, <1>5, <2>1
  <2>3. listed' \in BOOLEAN /\ why' \in [Dists -> SUBSET Reasons] /\ \A d \in Dists : why[d] \subseteq why'[d]
    BY <1>0, <1>3 DEF TypeOK
  <2> QED
    BY <1>1, <1>2, <1>4, <2>2, <2>3, CoreGoesOn
<1>8. CASE o.todo = {}
  <2>1. /\ cache' = Unbind(cache, {op.dist})
        /\ \/ op' = [o EXCEPT !.phase = "unrecord", !.clean = o.comps = {}]
           \/ op' = [o EXCEPT !.phase = "clean", !.clean = TRUE]
    BY <1>5, <1>6, <1>8 DEF AfterPool
  <2>2. PICK b, ph : op' = [o EXCEPT !.phase = ph, !.clean = b] /\ (ph = "unrecord" \/ ph = "clean")
    BY <2>1
  <2>3. Continues(o, op') /\ op'.phase = ph
    BY <1>6, <2>2 DEF IsOperation, Continues
  <2>4. Continues(op, op') /\ (op'.phase = "unrecord" \/ op'.phase = "clean")
    BY <1>5, <2>2, <2>3 DEF Continues
  <2> QED
    BY <1>2, <1>3, <1>4, <2>1, <2>4, LeavesList
<1> QED
  BY <1>7, <1>8

\* CleanedUp
LEMMA CleanedUpCore ==
  ASSUME Core, CleanedUp
  PROVE  Core'
<1>0. TypeOK /\ Records /\ Operations /\ Cached /\ op.name # "idle" /\ op.phase = "cleaned" /\ op' = Idle
  BY DEF Core, CleanedUp, Running
<1>1. /\ db' = db /\ cache' = cache /\ pub' = pub /\ site' = site /\ conf' = conf
      /\ faults' = faults /\ listed' = listed /\ why' = why
  BY DEF CleanedUp, data, files, paths, fixed
<1>2. op.name = "update" /\ op.name # "drop" /\ op.name # "publish" /\ op.phase # "refs"
      /\ op.phase \notin {"link"} \cup Putting
  BY <1>0, PhaseNames DEF Putting
<1>3. AtRest
  BY <1>0, <1>2 DEF Cached, AtRest
<1>4. AtRest'
  BY <1>1, <1>3 DEF AtRest, Recorded
<1>5. TypeOK'
  <2>1. op'.dist = NoDist /\ op'.phase = "none"
    BY <1>0 DEF Idle, Operation
  <2>2. op'.phase \in Phases /\ op'.dist \in Dists \cup {NoDist}
    BY <2>1 DEF Phases
  <2>3. /\ DOMAIN cache' \subseteq DOMAIN db' /\ listed' \in BOOLEAN /\ faults' \in 0..conf'.maxFaults
        /\ why' \in [Dists -> SUBSET Reasons]
    BY <1>0, <1>1 DEF TypeOK
  <2> QED
    BY <1>0, <1>1, <2>2, <2>3, TypeFrame
<1>6. Records'
  BY <1>0, <1>1 DEF Records
<1> QED
  BY <1>0, <1>4, <1>5, <1>6, EndCore

\* Unrecord
LEMMA UnrecordCore ==
  ASSUME Core, Unrecord
  PROVE  Core'
<1>0. TypeOK /\ Records /\ Operations /\ Cached /\ op.name # "idle" /\ op.phase = "unrecord" /\ op' = Idle
  BY DEF Core, Unrecord, Running
<1>1. /\ cache' = cache /\ pub' = pub /\ site' = site /\ conf' = conf
      /\ faults' = faults /\ listed' = listed /\ db' = Unbind(db, {op.dist})
      /\ why' = [why EXCEPT ![op.dist] = {}]
  BY DEF Unrecord, files, paths, fixed
<1>2. op.name = "drop" /\ op.name # "update" /\ op.name # "publish" /\ op.phase # "refs"
      /\ op.dist \notin DOMAIN cache /\ op.dist \in Dists
  BY <1>0, PhaseNames DEF Operations
<1>3. /\ DOMAIN db' = DOMAIN db \ {op.dist}
      /\ \A e \in DOMAIN db' : e \in DOMAIN db /\ e # op.dist /\ db'[e] = db[e]
  BY <1>1 DEF Unbind
<1>4. /\ why' \in [Dists -> SUBSET Reasons] /\ \A e \in Dists : e # op.dist => why'[e] = why[e]
  BY <1>0, <1>1, <1>2 DEF TypeOK
<1>5. DOMAIN db \subseteq Dists /\ DOMAIN cache \subseteq DOMAIN db
  BY <1>0 DEF TypeOK
<1>6. \A e \in DOMAIN cache : e # op.dist /\ e \in DOMAIN db' /\ db'[e] = db[e] /\ why'[e] = why[e]
  BY <1>2, <1>3, <1>4, <1>5
<1>7. AtRest'
  <2>1. ASSUME NEW e \in DOMAIN db' \ DOMAIN cache
        PROVE  "torn" \in why'[e]
    <3>1. e \in DOMAIN db \ DOMAIN cache /\ e # op.dist /\ e \in Dists
      BY <1>3, <1>5, <2>1
    <3>2. "torn" \in why[e]
      BY <1>0, <3>1 DEF Cached
    <3> QED
      BY <1>4, <3>1, <3>2
  <2>2. ASSUME NEW e \in DOMAIN cache
        PROVE  "torn" \in why'[e] \/ Recorded(e)'
    <3>1. "torn" \in why[e] \/ Recorded(e)
      BY <1>0, <1>2, <2>2 DEF Cached
    <3> QED
      BY <1>6, <2>2, <3>1 DEF Recorded
  <2>3. ASSUME NEW e \in DOMAIN cache, cache[e].kind = "snapshot"
        PROVE  "stale" \in why'[e] \/ cache[e].refs = db'[e].refs
    BY <1>0, <1>2, <1>6, <2>3 DEF Cached
  <2> QED
    BY <1>1, <2>1, <2>2, <2>3 DEF AtRest
<1>8. TypeOK'
  <2>1. op'.dist = NoDist /\ op'.phase = "none"
    BY <1>0 DEF Idle, Operation
  <2>2. op'.phase \in Phases /\ op'.dist \in Dists \cup {NoDist}
    BY <2>1 DEF Phases
  <2>3. /\ conf' \in Configs /\ listed' \in BOOLEAN /\ faults' \in 0..conf'.maxFaults
        /\ DOMAIN db' \subseteq Dists /\ DOMAIN cache' \subseteq DOMAIN db'
    BY <1>0, <1>1, <1>3, <1>5, <1>6 DEF TypeOK
  <2>4. \A d \in DOMAIN db' : /\ db'[d].kind \in {"local", "snapshot"}
                              /\ DOMAIN db'[d].refs \subseteq db'[d].comps
                              /\ db'[d].comps \subseteq Comps
    <3>1. \A d \in DOMAIN db : /\ db[d].kind \in {"local", "snapshot"}
                               /\ DOMAIN db[d].refs \subseteq db[d].comps
                               /\ db[d].comps \subseteq Comps
      BY <1>0 DEF TypeOK
    <3> QED
      BY <1>3, <3>1
  <2>5. \A e \in Comps : \A x \in DOMAIN pub'[e] : pub'[e][x] \in Pkgs /\ Path[pub'[e][x]] = x
    BY <1>0, <1>1 DEF TypeOK
  <2> QED
    BY <1>4, <2>2, <2>3, <2>4, <2>5 DEF TypeOK
<1>9. Records'
  <2>1. DOMAIN site' = Dists /\ DOMAIN pub' = Comps /\ \A d \in Dists : IsSite(site'[d])
    BY <1>0, <1>1 DEF Records
  <2>2. \A e \in DOMAIN db' :
          /\ IsRecord(db'[e]) /\ Sources(db'[e].refs)
          /\ db'[e].kind = "snapshot" => DOMAIN db'[e].refs = db'[e].comps
    BY <1>0, <1>3 DEF Records
  <2>3. \A e \in DOMAIN cache :
          /\ IsObject(cache[e]) /\ cache[e].kind = db'[e].kind /\ cache[e].comps = db'[e].comps
          /\ cache[e].kind = "snapshot" =>
               Sources(cache[e].refs) /\ DOMAIN cache[e].refs = cache[e].comps
    BY <1>0, <1>6 DEF Records
  <2> QED
    BY <1>1, <2>1, <2>2, <2>3 DEF Records
<1> QED
  BY <1>0, <1>7, <1>8, <1>9, EndCore

----------------------------------------------------------------------------
(* Failures and new processes                                              *)

\* the site of a file that was not put to its end
LEMMA UnfinishedShape ==
  ASSUME Shapes, op.dist \in Dists, Unfinished, pub' = pub
  PROVE  /\ Shapes' /\ \A e \in Dists : e # op.dist => site'[e] = site[e]
         /\ \/ site' = site
            \/ \E x : /\ \/ op.phase = "index" /\ x \in op.todo
                         \/ op.phase = "release" /\ x = Release
                         \/ op.phase = "sign" /\ x = Signatures
                      /\ site'[op.dist] = PutFile(site[op.dist], op.side, x, Partial)
            \/ /\ op.phase = "dists"
               /\ \E S : site'[op.dist] = [site[op.dist] EXCEPT !.vis = Unbind(site[op.dist].vis, S)]
<1>0. IsSite(site[op.dist])
  BY DEF Shapes
<1>1. CASE site' = site
  <2>1. Shapes'
    BY <1>1 DEF Shapes
  <2> QED
    BY <1>1, <2>1
<1>2. ASSUME NEW x, \/ op.phase = "index" /\ x \in op.todo
                    \/ op.phase = "release" /\ x = Release
                    \/ op.phase = "sign" /\ x = Signatures,
             site' = [site EXCEPT ![op.dist] = PutFile(site[op.dist], op.side, x, Partial)]
      PROVE  /\ Shapes' /\ \A e \in Dists : e # op.dist => site'[e] = site[e]
             /\ site'[op.dist] = PutFile(site[op.dist], op.side, x, Partial)
  <2>1. PICK s : s = PutFile(site[op.dist], op.side, x, Partial)
    OBVIOUS
  <2>2. IsSite(s)
    BY <1>0, <2>1, PutFileShape
  <2> QED
    BY <1>2, <2>1, <2>2, OneSite
<1>3. ASSUME NEW S, op.phase = "dists",
             site' = [site EXCEPT ![op.dist].vis = Unbind(site[op.dist].vis, S)]
      PROVE  /\ Shapes' /\ \A e \in Dists : e # op.dist => site'[e] = site[e]
             /\ site'[op.dist] = [site[op.dist] EXCEPT !.vis = Unbind(site[op.dist].vis, S)]
  <2>1. PICK v : v = Unbind(site[op.dist].vis, S)
    OBVIOUS
  <2>2. PICK s : s = [site[op.dist] EXCEPT !.vis = v]
    OBVIOUS
  <2>3. IsSite(s)
    BY <1>0, <2>2 DEF IsSite
  <2>4. site' = [site EXCEPT ![op.dist] = s]
    BY <1>3, <2>1, <2>2
  <2> QED
    BY <2>1, <2>2, <2>3, <2>4, OneSite
<1>4. \/ site' = site
      \/ \E x : /\ \/ op.phase = "index" /\ x \in op.todo
                   \/ op.phase = "release" /\ x = Release
                   \/ op.phase = "sign" /\ x = Signatures
                /\ site' = [site EXCEPT ![op.dist] = PutFile(site[op.dist], op.side, x, Partial)]
      \/ op.phase = "dists" /\ \E S : site' = [site EXCEPT ![op.dist].vis = Unbind(site[op.dist].vis, S)]
  <2>0. CASE hashing # NotHashing /\ op.phase # "dists"
    BY <2>0 DEF Unfinished
  <2>1. CASE op.phase = "index" /\ hashing = NotHashing
    <3>1. \E x \in op.todo :
            site' \in {site, [site EXCEPT ![op.dist] = PutFile(site[op.dist], op.side, x, Partial)]}
      BY <2>1 DEF Unfinished
    <3> QED
      BY <2>1, <3>1
  <2>2. CASE op.phase = "release" /\ hashing = NotHashing
    <3>1. \E x \in {Release} :
            site' \in {site, [site EXCEPT ![op.dist] = PutFile(site[op.dist], op.side, x, Partial)]}
      BY <2>2 DEF Unfinished
    <3> QED
      BY <2>2, <3>1
  <2>3. CASE op.phase = "sign" /\ hashing = NotHashing
    <3>1. \E x \in {Signatures} :
            site' \in {site, [site EXCEPT ![op.dist] = PutFile(site[op.dist], op.side, x, Partial)]}
      BY <2>3 DEF Unfinished
    <3> QED
      BY <2>3, <3>1
  <2>4. CASE op.phase = "dists"
    BY <2>4 DEF Unfinished
  <2>5. CASE op.phase \notin {"index", "release", "sign", "dists"}
    BY <2>5 DEF Unfinished
  <2> QED
    BY <2>0, <2>1, <2>2, <2>3, <2>4, <2>5
<1> QED
  BY <1>1, <1>2, <1>3, <1>4

\* What is left behind is marked.
LEMMA StopFields ==
  ASSUME TypeOK, Operations, NEW stale, Stop(stale)
  PROVE  /\ op.name # "idle" /\ op.dist \in Dists /\ op' = Idle
         /\ db' = db /\ pub' = pub /\ conf' = conf /\ why' \in [Dists -> SUBSET Reasons]
         /\ \A d \in Dists : why[d] \subseteq why'[d]
         /\ \A d \in Dists : d # op.dist => why'[d] = why[d]
         /\ op.name = "drop" \/ op.phase \in {"rename", "save", "refs"}
              \/ (op.side = "vis" /\ op.phase \in {"index", "release", "sign"})
            => "torn" \in why'[op.dist]
         /\ stale => "stale" \in why'[op.dist]
         /\ hashing.step \in {"old", "rename"} /\ hashing.index \in DOMAIN site[op.dist].old
            => "hash" \in why'[op.dist]
<1>1. /\ op.name # "idle" /\ op' = Idle /\ db' = db /\ pub' = pub /\ conf' = conf
      /\ why' = [why EXCEPT ![op.dist] = why[op.dist] \cup LeftBehind(stale)]
  BY DEF Stop
<1>2. op.dist \in Dists
  BY <1>1 DEF Operations
<1>3. PICK L : L = LeftBehind(stale)
  OBVIOUS
<1>4. /\ L \subseteq Reasons
      /\ op.name = "drop" \/ op.phase \in {"rename", "save", "refs"}
           \/ (op.side = "vis" /\ op.phase \in {"index", "release", "sign"})
         => "torn" \in L
      /\ stale => "stale" \in L
      /\ hashing.step \in {"old", "rename"} /\ hashing.index \in DOMAIN site[op.dist].old
         => "hash" \in L
  BY <1>3 DEF LeftBehind, Reasons
<1>5. why \in [Dists -> SUBSET Reasons]
  BY DEF TypeOK
<1>6. /\ why'[op.dist] = why[op.dist] \cup L /\ \A d \in Dists : d # op.dist => why'[d] = why[d]
  BY <1>1, <1>2, <1>3, <1>5
<1>7. why' \in [Dists -> SUBSET Reasons]
  <2>1. why[op.dist] \cup L \in SUBSET Reasons
    BY <1>2, <1>4, <1>5
  <2> QED
    BY <1>1, <1>3, <1>5, <2>1
<1> QED
  BY <1>1, <1>2, <1>4, <1>6, <1>7

\* the list is that of the database again
LEMMA ReloadedCore ==
  ASSUME Core, op' = Idle, cache' = FromDatabase, db' = db, pub' = pub, conf' = conf, Shapes',
         listed' \in BOOLEAN, faults' \in 0..conf'.maxFaults, why' \in [Dists -> SUBSET Reasons],
         \A d \in DOMAIN db : "torn" \in why'[d] \/ Recorded(d)
  PROVE  Core'
<1>0. TypeOK /\ Records
  BY DEF Core
<1>1. /\ DOMAIN cache' = DOMAIN db
      /\ \A d \in DOMAIN db : /\ IsObject(cache'[d]) /\ cache'[d].kind = db[d].kind
                              /\ cache'[d].comps = db[d].comps /\ cache'[d].refs = db[d].refs
  BY FreshList
<1>2. AtRest'
  <2>1. \A d \in DOMAIN db : Recorded(d)' = Recorded(d)
    BY DEF Recorded
  <2> QED
    BY <1>1, <2>1 DEF AtRest
<1>3. TypeOK'
  <2>1. op'.dist = NoDist /\ op'.phase = "none"
    BY DEF Idle, Operation
  <2>2. op'.phase \in Phases /\ op'.dist \in Dists \cup {NoDist}
    BY <2>1 DEF Phases
  <2>3. DOMAIN cache' \subseteq DOMAIN db'
    BY <1>1
  <2> QED
    BY <1>0, <2>2, <2>3, TypeFrame
<1>4. Records'
  <2>1. DOMAIN site' = Dists /\ DOMAIN pub' = Comps /\ \A d \in Dists : IsSite(site'[d])
    BY DEF Shapes
  <2>2. \A e \in DOMAIN db :
          /\ IsRecord(db[e]) /\ Sources(db[e].refs)
          /\ db[e].kind = "snapshot" => DOMAIN db[e].refs = db[e].comps
    BY <1>0 DEF Records
  <2>3. \A e \in DOMAIN cache' :
          /\ IsObject(cache'[e]) /\ cache'[e].kind = db[e].kind /\ cache'[e].comps = db[e].comps
          /\ cache'[e].kind = "snapshot" =>
               Sources(cache'[e].refs) /\ DOMAIN cache'[e].refs = cache'[e].comps
    <3>1. TAKE e \in DOMAIN cache'
    <3> QED
      BY <1>1, <2>2, <3>1
  <2> QED
    BY <2>1, <2>2, <2>3 DEF Records
<1> QED
  BY <1>2, <1>3, <1>4, EndCore

\* Reload and Flush
LEMMA ReloadCore ==
  ASSUME Core, Reload \/ Flush
  PROVE  Core' /\ site' = site
<1>0. TypeOK /\ Operations /\ Shapes
  BY CoreShapes DEF Core
<1>1. /\ op.name = "idle" /\ op' = op /\ cache' = FromDatabase /\ db' = db /\ pub' = pub /\ site' = site
      /\ conf' = conf /\ faults' = faults /\ why' = why
      /\ listed' = FALSE \/ listed' = listed
  BY DEF Reload, Flush, files, paths, fixed
<1>2. AtRest /\ op' = Idle
  BY <1>0, <1>1, CoreAtRest DEF Operations
<1>3. Shapes'
  BY <1>0, <1>1 DEF Shapes
<1>4. listed' \in BOOLEAN /\ faults' \in 0..conf'.maxFaults /\ why' \in [Dists -> SUBSET Reasons]
  BY <1>0, <1>1 DEF TypeOK
<1>5. \A d \in DOMAIN db : "torn" \in why'[d] \/ Recorded(d)
  BY <1>1, <1>2 DEF AtRest
<1>6. Core'
  BY <1>1, <1>2, <1>3, <1>4, <1>5, ReloadedCore
<1> QED
  BY <1>1, <1>6

\* What an error leaves is in order, or marked.
LEMMA ReturnErrorCore ==
  ASSUME Core, ReturnError, Shapes', listed' \in BOOLEAN, faults' \in 0..conf'.maxFaults
  PROVE  Core'
<1>0. TypeOK /\ Records /\ Operations /\ Cached
  BY DEF Core
<1>1. PICK stale : /\ Stop(stale)
                   /\ stale = (op.name = "update" /\ op.kind = "snapshot"
                               /\ cache[op.dist].refs # db[op.dist].refs)
  BY DEF ReturnError
<1>2. /\ op.name # "idle" /\ op.dist \in Dists /\ op' = Idle
      /\ db' = db /\ pub' = pub /\ conf' = conf /\ why' \in [Dists -> SUBSET Reasons]
      /\ \A d \in Dists : why[d] \subseteq why'[d]
      /\ op.name = "drop" \/ op.phase \in {"rename", "save", "refs"}
           \/ (op.side = "vis" /\ op.phase \in {"index", "release", "sign"})
         => "torn" \in why'[op.dist]
      /\ stale => "stale" \in why'[op.dist]
  BY <1>0, <1>1, StopFields
<1>3. cache' = cache
  BY DEF ReturnError
<1>4. DOMAIN db \subseteq Dists /\ DOMAIN cache \subseteq DOMAIN db
  BY <1>0 DEF TypeOK
<1>5. op.phase = "refs" => "torn" \in why'[op.dist]
  BY <1>2
<1>6. AtRest'
  <2>1. ASSUME NEW d \in DOMAIN db \ DOMAIN cache
        PROVE  "torn" \in why'[d]
    BY <1>0, <1>2, <1>4, <1>5, <2>1 DEF Cached
  <2>2. ASSUME NEW d \in DOMAIN cache
        PROVE  "torn" \in why'[d] \/ Recorded(d)'
    <3>1. "torn" \in why[d] \/ (op.dist = d /\ op.phase = "refs") \/ Recorded(d)
      BY <1>0, <2>2 DEF Cached
    <3>2. Recorded(d) => Recorded(d)'
      BY <1>2 DEF Recorded
    <3>3. d \in Dists
      BY <1>4, <2>2
    <3> QED
      BY <1>2, <1>5, <3>1, <3>2, <3>3
  <2>3. ASSUME NEW d \in DOMAIN cache, cache[d].kind = "snapshot"
        PROVE  "stale" \in why'[d] \/ cache[d].refs = db[d].refs
    <3>1. \/ "stale" \in why[d] \/ cache[d].refs = db[d].refs
          \/ op.dist = d /\ op.name = "update"
      BY <1>0, <2>3 DEF Cached
    <3>2. d \in Dists
      BY <1>4, <2>3
    <3>3. CASE op.dist = d /\ op.name = "update"
      <4>1. op.kind = "snapshot"
        BY <1>0, <2>3, <3>3 DEF Operations
      <4> QED
        BY <1>1, <1>2, <3>3, <4>1
    <3> QED
      BY <1>2, <3>1, <3>2, <3>3
  <2> QED
    BY <1>2, <1>3, <2>1, <2>2, <2>3 DEF AtRest
<1>7. TypeOK'
  <2>1. op'.dist = NoDist /\ op'.phase = "none"
    BY <1>2 DEF Idle, Operation
  <2>2. op'.phase \in Phases /\ op'.dist \in Dists \cup {NoDist}
    BY <2>1 DEF Phases
  <2>3. DOMAIN cache' \subseteq DOMAIN db'
    BY <1>2, <1>3, <1>4
  <2> QED
    BY <1>0, <1>2, <2>2, <2>3, TypeFrame
<1>8. Records'
  <2>1. DOMAIN site' = Dists /\ DOMAIN pub' = Comps /\ \A d \in Dists : IsSite(site'[d])
    BY DEF Shapes
  <2> QED
    BY <1>0, <1>2, <1>3, <2>1 DEF Records
<1> QED
  BY <1>2, <1>6, <1>7, <1>8, EndCore

\* faults are counted
LEMMA FaultBound ==
  ASSUME TypeOK, Fault, conf' = conf
  PROVE  faults' \in 0..conf'.maxFaults
<1>1. conf.maxFaults \in Nat /\ faults \in 0..conf.maxFaults
  BY DistsInUse DEF TypeOK
<1>2. faults < conf.maxFaults /\ faults' = faults + 1
  BY DEF Fault
<1> QED
  BY <1>1, <1>2, SMTT(30)

\* Refuse, Abort and Crash
LEMMA StopCore ==
  ASSUME Core, Refuse \/ Abort \/ Crash
  PROVE  /\ Core' /\ \A e \in Dists : e # op.dist => site'[e] = site[e]
<1>0. TypeOK /\ Operations /\ Shapes /\ Cached
  BY CoreShapes DEF Core
<1>1. PICK stale : Stop(stale)
  BY DEF Refuse, Abort, Crash, ReturnError
<1>2. /\ op.name # "idle" /\ op.dist \in Dists /\ op' = Idle
      /\ db' = db /\ pub' = pub /\ conf' = conf /\ why' \in [Dists -> SUBSET Reasons]
      /\ \A d \in Dists : why[d] \subseteq why'[d]
      /\ op.name = "drop" \/ op.phase \in {"rename", "save", "refs"}
           \/ (op.side = "vis" /\ op.phase \in {"index", "release", "sign"})
         => "torn" \in why'[op.dist]
  BY <1>0, <1>1, StopFields
<1>3. Shapes' /\ \A e \in Dists : e # op.dist => site'[e] = site[e]
  <2>1. CASE Refuse
    <3>1. site' = site
      BY <2>1 DEF Refuse
    <3> QED
      BY <1>0, <1>2, <3>1 DEF Shapes
  <2>2. CASE Abort \/ Crash
    <3>1. Unfinished
      BY <2>2 DEF Abort, Crash
    <3> QED
      BY <1>0, <1>2, <3>1, UnfinishedShape
  <2> QED
    BY <2>1, <2>2
<1>4. listed' \in BOOLEAN
  <2>1. listed \in BOOLEAN
    BY <1>0 DEF TypeOK
  <2>2. listed' = listed \/ listed' = TRUE \/ listed' = FALSE
    BY DEF Refuse, Abort, Crash, KeepListing
  <2> QED
    BY <2>1, <2>2
<1>5. faults' \in 0..conf'.maxFaults
  <2>1. CASE Refuse
    <3>1. faults' = faults
      BY <2>1 DEF Refuse
    <3> QED
      BY <1>0, <1>2, <3>1 DEF TypeOK
  <2>2. CASE Abort \/ Crash
    <3>1. Fault
      BY <2>2 DEF Abort, Crash
    <3> QED
      BY <1>0, <1>2, <3>1, FaultBound
  <2> QED
    BY <2>1, <2>2
<1>6. Core'
  <2>1. CASE Refuse \/ Abort
    <3>1. ReturnError
      BY <2>1 DEF Refuse, Abort
    <3> QED
      BY <1>3, <1>4, <1>5, <3>1, ReturnErrorCore
  <2>2. CASE Crash
    <3>1. cache' = FromDatabase
      BY <2>2 DEF Crash
    <3>2. \A d \in DOMAIN db : "torn" \in why'[d] \/ Recorded(d)
      <4>1. DOMAIN db \subseteq Dists
        BY <1>0 DEF TypeOK
      <4>2. op.phase = "refs" => "torn" \in why'[op.dist]
        BY <1>2
      <4>3. TAKE d \in DOMAIN db
      <4>4. \/ "torn" \in why[d] \/ Recorded(d)
            \/ op.dist = d /\ (op.name = "drop" \/ op.phase = "refs")
        BY <1>0, <4>3 DEF Cached
      <4> QED
        BY <1>2, <4>1, <4>2, <4>3, <4>4
    <3> QED
      BY <1>2, <1>3, <1>4, <1>5, <3>1, <3>2, ReloadedCore
  <2> QED
    BY <2>1, <2>2
<1> QED
  BY <1>3, <1>6

----------------------------------------------------------------------------
(* Every step                                                              *)

\* the beginning
LEMMA InitCore == Init => Core
<1> SUFFICES ASSUME Init
             PROVE  Core
  OBVIOUS
<1>1. /\ db = <<>> /\ cache = <<>> /\ pub = [c \in Comps |-> <<>>]
      /\ site = [d \in Dists |-> EmptySite] /\ conf \in Configs /\ listed = FALSE /\ op = Idle
      /\ faults = 0 /\ why = [d \in Dists |-> {}]
  BY DEF Init
<1>2. DOMAIN db = {} /\ DOMAIN cache = {}
  BY <1>1, EmptyFunction
<1>3. \A c \in Comps : DOMAIN pub[c] = {}
  BY <1>1, EmptyFunction
<1>4. TypeOK
  <2>1. op.dist = NoDist /\ op.phase = "none"
    BY <1>1 DEF Idle, Operation
  <2>2. op.phase \in Phases /\ op.dist \in Dists \cup {NoDist}
    BY <2>1 DEF Phases
  <2>3. why \in [Dists -> SUBSET Reasons]
    BY <1>1
  <2>4. faults \in 0..conf.maxFaults
    <3>1. conf \in [storage : {"files", "s3"}, dists : SUBSET Dists, comps : SUBSET Comps,
                    sources : SUBSET SUBSET Pkgs, contents : BOOLEAN, byHash : BOOLEAN,
                    sign : SUBSET BOOLEAN, maxFaults : Nat]
      BY <1>1, ConfigsAssumption
    <3>2. conf.maxFaults \in Nat
      BY <3>1
    <3> QED
      BY <1>1, <3>2, SMTT(30)
  <2>5. listed \in BOOLEAN
    BY <1>1
  <2> QED
    BY <1>1, <1>2, <1>3, <2>2, <2>3, <2>4, <2>5 DEF TypeOK
<1>5. Records
  <2>1. DOMAIN site = Dists /\ DOMAIN pub = Comps /\ \A d \in Dists : IsSite(site[d])
    BY <1>1, EmptySiteFields
  <2> QED
    BY <1>2, <2>1 DEF Records
<1>6. AtRest
  BY <1>2 DEF AtRest
<1> QED
  BY <1>1, <1>4, <1>5, <1>6, AtRestCore

\* PackageIndexByHash, also when an error is ignored
LEMMA HashCore ==
  ASSUME Core, PackageIndexByHash \/ IgnoredError
  PROVE  /\ Core' /\ op.dist \in Dists /\ op.name # "drop" /\ site'[op.dist].vis = site[op.dist].vis
         /\ op' = op /\ db' = db /\ pub' = pub /\ why' = why /\ conf' = conf /\ cache' = cache
         /\ \A e \in Dists : e # op.dist => site'[e] = site[e]
<1>0. TypeOK /\ Records /\ Operations /\ Storing /\ Cached /\ Shapes
  BY CoreShapes DEF Core
<1>1. /\ op.name # "idle" /\ op.phase \in {"index", "release"} /\ op' = op /\ db' = db
      /\ cache' = cache /\ pub' = pub /\ why' = why /\ conf' = conf /\ listed' = listed
  BY DEF PackageIndexByHash, IgnoredError, HashStep, data
<1>2. op.dist \in Dists /\ op.name # "drop"
  BY <1>0, <1>1, PhaseNames DEF Operations
<1>3. faults' \in 0..conf'.maxFaults
  <2>1. CASE PackageIndexByHash
    BY <1>0, <1>1, <2>1 DEF PackageIndexByHash, TypeOK
  <2>2. CASE IgnoredError
    BY <1>0, <1>1, <2>2, FaultBound DEF IgnoredError
  <2> QED
    BY <2>1, <2>2
<1>4. PICK s, i, w : s = site[op.dist] /\ i = hashing.index /\ w = Listed(i, op.new)
  OBVIOUS
<1>5. PICK u : site' = [site EXCEPT ![op.dist] = u] /\ IsSite(u) /\ u.vis = site[op.dist].vis
  <2>1. IsSite(s)
    BY <1>0, <1>2, <1>4 DEF Shapes
  <2>2. PICK u : site' = [site EXCEPT ![op.dist] = u] /\ HashSite(s, op.side, i, w, u)
    BY <1>4 DEF PackageIndexByHash, IgnoredError, HashStep, HashSite
  <2>3. IsSite(u) /\ u.vis = s.vis
    BY <2>1, <2>2, HashShape
  <2> QED
    BY <1>4, <2>2, <2>3
<1>6. Shapes' /\ site'[op.dist] = u /\ \A e \in Dists : e # op.dist => site'[e] = site[e]
  BY <1>0, <1>1, <1>2, <1>5, OneSite
<1>7. TypeOK'
  BY <1>0, <1>1, <1>3 DEF TypeOK
<1>8. Records'
  BY <1>0, <1>1, <1>6 DEF Records, Shapes
<1>9. Operations'
  <2>1. Shared(op.dist)' = Shared(op.dist)
    BY <1>1, SharedSame
  <2> QED
    BY <1>0, <1>1, <2>1 DEF Operations
<1>10. Storing'
  BY <1>0, <1>1 DEF Storing, Stored
<1>11. Cached'
  BY <1>0, <1>1 DEF Cached, Recorded
<1> QED
  BY <1>1, <1>2, <1>5, <1>6, <1>7, <1>8, <1>9, <1>10, <1>11 DEF Core

\* Every step keeps the records, the list and the phases in order.
LEMMA NextCore == Core /\ [Next]_vars => Core'
<1> SUFFICES ASSUME Core, [Next]_vars
             PROVE  Core'
  OBVIOUS
<1>1. ASSUME NEW d \in conf.dists, NEW kind \in {"local", "snapshot"}, NEW new \in Refs,
             PublishSnapshotOrRepo(d, kind, new)
      PROVE  Core'
  BY <1>1, PublishCore
<1>2. ASSUME NEW d \in conf.dists, NEW new \in Refs, PublishUpdate(d, new) \/ PublishSwitch(d, new)
      PROVE  Core'
  BY <1>2, UpdateCore, SwitchCore
<1>3. ASSUME NEW d \in conf.dists, PublishDrop(d)
      PROVE  Core'
  BY <1>3, DropCore
<1>4. CASE Commands
  BY <1>1, <1>2, <1>3, <1>4 DEF Commands
<1>5. ASSUME NEW c \in Comps, NEW p \in Pkgs, LinkFromPool(c, p) \/ LinkFromPoolS3(c, p)
      PROVE  Core'
  BY <1>5, LinkCore
<1>6. ASSUME NEW i, NEW sign,
             FinalizeIndex(i) \/ FinalizeRelease(sign) \/ SignRelease \/ RenameFiles(i)
      PROVE  Core'
  BY <1>6, PuttingCore
<1>7. CASE SaveRecord \/ \E c \in Comps : SaveRefs(c)
  BY <1>7, SaveRecordCore, SaveRefsCore
<1>8. ASSUME NEW c \in Comps, NEW x, RemoveFile(<<c, x>>) \/ RemovePool(<<c, x>>)
      PROVE  Core'
  BY <1>8, CleaningCore, RemovingCore
<1>9. CASE CleanupPrefixComponentFiles \/ CleanupFails \/ RemoveFiles
  BY <1>9, CleaningCore, RemovingCore
<1>10. CASE CleanedUp \/ Unrecord
  BY <1>10, CleanedUpCore, UnrecordCore
<1>11. CASE Refuse \/ Abort \/ Crash
  BY <1>11, StopCore
<1>12. CASE Reload \/ Flush
  BY <1>12, ReloadCore
<1>13. CASE UNCHANGED vars
  <2>1. /\ db' = db /\ cache' = cache /\ pub' = pub /\ site' = site /\ conf' = conf
        /\ listed' = listed /\ op' = op /\ faults' = faults /\ why' = why
    BY <1>13 DEF vars
  <2>2. TypeOK'
    BY <2>1 DEF Core, TypeOK
  <2>3. Records'
    BY <2>1 DEF Core, Records
  <2>4. Operations'
    <3>1. Shared(op.dist)' = Shared(op.dist)
      BY <2>1, SharedSame
    <3>2. Operations
      BY DEF Core
    <3> QED
      BY <2>1, <3>1, <3>2 DEF Operations
  <2>5. Storing'
    BY <2>1 DEF Core, Storing, Stored
  <2>6. Cached'
    BY <2>1 DEF Core, Cached, Recorded
  <2> QED
    BY <2>2, <2>3, <2>4, <2>5, <2>6 DEF Core
<1>14. CASE PackageIndexByHash \/ IgnoredError
  BY <1>14, HashCore
<1>15. CASE Step
  BY <1>4, <1>5, <1>6, <1>7, <1>8, <1>9, <1>10, <1>14, <1>15 DEF Step
<1> QED
  BY <1>11, <1>12, <1>13, <1>14, <1>15 DEF Next

\* The records, the list and the phases are always in order.
THEOREM CoreInvariant == Spec => []Core
<1>1. Init => Core
  BY InitCore
<1>2. Core /\ [Next]_vars => Core'
  BY NextCore
<1> QED
  BY <1>1, <1>2, PTL DEF Spec

\* Every variable stays in its type, and the cached list has only records of
\* the database: whatever a command adds to the collection, a failure leaves
\* in it or a new process loads into it.
THEOREM PublishTyped == Spec => []TypeOK
<1>1. Core => TypeOK
  BY DEF Core
<1> QED
  BY <1>1, CoreInvariant, PTL

\* what a step does to the sites of the other distributions
LEMMA OtherSites ==
  ASSUME Core, Next, NEW d \in DOMAIN db, d # op.dist, "torn" \notin why[d]
  PROVE  site'[d] = site[d]
<1>0. TypeOK /\ Operations /\ Cached
  BY DEF Core
<1>1. d \in Dists
  BY <1>0 DEF TypeOK
<1>2. CASE RemoveFiles
  <2>1. d \in DOMAIN cache
    BY <1>0 DEF Cached
  <2>2. Others(op.dist) # {}
    BY <2>1 DEF Others
  <2> QED
    BY <1>1, <1>2, <2>2, RemoveFilesShape
<1>3. ASSUME NEW i, NEW sign,
             FinalizeIndex(i) \/ FinalizeRelease(sign) \/ SignRelease \/ RenameFiles(i)
      PROVE  site'[d] = site[d]
  BY <1>1, <1>3, PuttingCore
<1>4. CASE Refuse \/ Abort \/ Crash
  BY <1>1, <1>4, StopCore
<1>5. CASE Reload \/ Flush
  BY <1>5, ReloadCore
<1>6. ASSUME NEW c, NEW p, LinkFromPool(c, p) \/ LinkFromPoolS3(c, p)
      PROVE  site'[d] = site[d]
  BY <1>6 DEF LinkFromPool, LinkFromPoolS3, LinkStep
<1>7. CASE Commands
  BY <1>7 DEF Commands, PublishSnapshotOrRepo, PublishUpdate, PublishSwitch, PublishDrop, files
<1>8. CASE SaveRecord \/ (\E c \in Comps : SaveRefs(c)) \/ CleanedUp \/ Unrecord
  BY <1>8 DEF SaveRecord, SaveRefs, CleanedUp, Unrecord, files
<1>9. ASSUME NEW c \in Comps, NEW x,
             CleanupPrefixComponentFiles \/ RemoveFile(<<c, x>>) \/ CleanupFails \/ RemovePool(<<c, x>>)
      PROVE  site'[d] = site[d]
  BY <1>9 DEF CleanupPrefixComponentFiles, RemoveFile, CleanupFails, RemovePool, files
<1>10. CASE CleanupPrefixComponentFiles \/ CleanupFails
  BY <1>10 DEF CleanupPrefixComponentFiles, CleanupFails, files
<1>11. CASE PackageIndexByHash \/ IgnoredError
  BY <1>1, <1>11, HashCore
<1>12. CASE Step
  BY <1>2, <1>3, <1>6, <1>7, <1>8, <1>9, <1>10, <1>11, <1>12 DEF Step
<1> QED
  BY <1>4, <1>5, <1>11, <1>12 DEF Next

\* No operation touches what is published of another distribution that the
\* database knows and that no interrupted operation has left in pieces: not
\* even a drop that takes the list to have no other distribution of the
\* prefix and removes the whole of it.
THEOREM OnlyOwnSite == Spec => OthersUntouched
<1>1. Core /\ [Next]_vars =>
        [\A d \in DOMAIN db : d # op.dist /\ "torn" \notin why[d] => site'[d] = site[d]]_vars
  BY OtherSites
<1> QED
  BY <1>1, CoreInvariant, PTL DEF Spec, OthersUntouched
=============================================================================
