---------------------------- MODULE PublishSites ----------------------------
EXTENDS PublishProofs

(***************************************************************************)
(* What clients find in the directory of a distribution, and what a        *)
(* cleanup leaves, for any distributions, components and packages, any     *)
(* order of the operations and any failure.                                *)
(*                                                                         *)
(* The properties are about what is there when an operation has ended or   *)
(* was interrupted; the invariants say what is true in each phase of it.   *)
(* Core, the invariant of PublishProofs, says which operation may be in    *)
(* which phase and how the cached list and the database agree.  On top of  *)
(* it come the metadata and how far an operation has come in putting it    *)
(* (Sites), the by-hash links and how far packageIndexByHash has come in   *)
(* replacing them (Links), and what a cleanup still has to remove          *)
(* (Cleaned).                                                              *)
(***************************************************************************)

\* the backend of every leaf that names no other
USE ZenonT(30)

----------------------------------------------------------------------------
(* The files clients see                                                   *)

\* the site that a step changes
LEMMA OwnSite ==
  ASSUME Core, op.name # "idle"
  PROVE  /\ op.dist \in Dists /\ IsSite(site[op.dist])
         /\ \A s : site' = [site EXCEPT ![op.dist] = s] => site'[op.dist] = s
<1>1. op.dist \in Dists /\ DOMAIN site = Dists /\ IsSite(site[op.dist])
  BY DEF Core, Operations, Records
<1> QED
  BY <1>1

\* Nothing that clients see of d is being changed, and no interrupted
\* operation has left it in pieces.
Quiet(d) ==
  /\ "torn" \notin why[d]
  /\ op.dist = d =>
       \/ op.phase \in {"link", "dists"}
       \/ op.side = "tmp" /\ op.phase \in {"index", "release", "sign"}
       \/ op.name = "update" /\ op.phase \in Cleaning

\* the Release of a publication of these packages
Rel(refs) == ReleaseOf(refs, conf.contents)

\* Clients see what the database says.
Settled(d) ==
  /\ At(site[d].vis, Release) = IF Recorded(d) THEN {Rel(db[d].refs)} ELSE {}
  /\ Recorded(d) =>
       /\ \A x \in Rel(db[d].refs) : At(site[d].vis, x[1]) = {x[2]}
       /\ "unsigned" \notin why[d] => At(site[d].vis, Signatures) \subseteq {Rel(db[d].refs)}

\* what the operation puts into a file
Target(x) == IF x \in {Release, Signatures} THEN Rel(op.new) ELSE Listed(x, op.new)

\* the files that the operation has put so far
Written ==
  CASE op.phase = "index" -> Generated(op.new, conf.contents) \ op.todo
    [] op.phase = "release" -> Generated(op.new, conf.contents)
    [] op.phase = "sign" -> Generated(op.new, conf.contents) \cup {Release}
    [] OTHER -> Generated(op.new, conf.contents) \cup {Release}
                \cup (IF op.sign THEN {Signatures} ELSE {})

\* clients see what the operation puts
Shown(x) == At(site[op.dist].vis, x) = {Target(x)}

\* All that was put is in place, or is there with the suffix and, once it is
\* renamed, in place.
Progress ==
  op.phase \in Putting =>
    /\ op.side = "vis" \/ op.phase \in {"save", "refs"} => \A x \in Written : Shown(x)
    /\ op.side = "tmp" /\ op.phase \notin {"save", "refs"} =>
         /\ Written \subseteq DOMAIN op.tmp
         /\ \A x \in DOMAIN op.tmp : op.tmp[x] = Target(x)
    /\ op.phase = "rename" => /\ op.todo \subseteq DOMAIN op.tmp
                              /\ \A x \in DOMAIN op.tmp \ op.todo : Shown(x)

\* A drop removes the metadata first.
Dropped == op.name = "drop" /\ op.phase # "dists" => site[op.dist] = EmptySite

\* The invariant of the metadata.
Sites == (\A d \in Dists : Quiet(d) => Settled(d)) /\ Progress /\ Dropped

\* the names of files differ
LEMMA FileNames ==
  /\ Release \notin Index /\ Signatures \notin Index /\ Release # Signatures
  /\ \A i \in Index : i \notin {Release, Signatures}
<1>1. Release \notin Index
  BY SMTT(30) DEF Release, Index
<1>2. Signatures \notin Index
  BY SMTT(30) DEF Signatures, Index
<1>3. Release # Signatures
  BY DEF Release, Signatures
<1> QED
  BY <1>1, <1>2, <1>3

\* what the operation has put, by phase
ByPhase ==
  LET G == Generated(op.new, conf.contents)
  IN /\ op.phase = "index" => Written = G \ op.todo
     /\ op.phase = "release" => Written = G
     /\ op.phase = "sign" => Written = G \cup {Release}
     /\ op.phase \in {"rename", "save", "refs"} =>
          Written = G \cup {Release} \cup (IF op.sign THEN {Signatures} ELSE {})

\* the cases of Written
LEMMA WrittenFacts == ByPhase
<1> DEFINE G == Generated(op.new, conf.contents)
<1> HIDE DEF G
<1>1. Written = CASE op.phase = "index" -> G \ op.todo
                  [] op.phase = "release" -> G
                  [] op.phase = "sign" -> G \cup {Release}
                  [] OTHER -> G \cup {Release} \cup (IF op.sign THEN {Signatures} ELSE {})
  BY DEF Written, G
<1>2. /\ op.phase = "index" => Written = G \ op.todo
      /\ op.phase = "release" => Written = G
      /\ op.phase = "sign" => Written = G \cup {Release}
  BY <1>1
<1>3. op.phase \in {"rename", "save", "refs"} =>
        Written = G \cup {Release} \cup (IF op.sign THEN {Signatures} ELSE {})
  BY <1>1
<1> QED
  BY <1>2, <1>3 DEF G, ByPhase

\* what Release names
LEMMA RelFacts ==
  ASSUME NEW refs
  PROVE  /\ \A x \in Rel(refs) : x[1] \in Generated(refs, conf.contents) /\ x[2] = Listed(x[1], refs)
         /\ \A i \in Generated(refs, conf.contents) : i \in Index /\ <<i, Listed(i, refs)>> \in Rel(refs)
<1>1. \A x \in Rel(refs) : \E i \in Generated(refs, conf.contents) : x = <<i, Listed(i, refs)>>
  BY DEF Rel, ReleaseOf
<1>2. \A x \in Rel(refs) : x[1] \in Generated(refs, conf.contents) /\ x[2] = Listed(x[1], refs)
  <2>1. TAKE x \in Rel(refs)
  <2>2. PICK i \in Generated(refs, conf.contents) : x = <<i, Listed(i, refs)>>
    BY <1>1, <2>1
  <2>3. x[1] = i /\ x[2] = Listed(i, refs)
    BY <2>2
  <2> QED
    BY <2>2, <2>3
<1>3. \A i \in Generated(refs, conf.contents) : i \in Index /\ <<i, Listed(i, refs)>> \in Rel(refs)
  BY DEF Rel, ReleaseOf, Generated
<1> QED
  BY <1>2, <1>3

\* Release depends on the references component by component.
LEMMA RelSame ==
  ASSUME NEW f, NEW g, DOMAIN f = DOMAIN g, \A c \in DOMAIN f : f[c] = g[c]
  PROVE  Rel(f) = Rel(g)
<1>1. \A i \in Index : i[2] \in DOMAIN f => Listed(i, f) = Listed(i, g)
  BY DEF Listed
<1>2. Generated(f, conf.contents) = Generated(g, conf.contents)
  BY <1>1 DEF Generated
<1>3. \A i \in Generated(f, conf.contents) : i \in Index /\ i[2] \in DOMAIN f
  BY DEF Generated
<1>4. \A i \in Generated(f, conf.contents) : Listed(i, f) = Listed(i, g)
  BY <1>1, <1>3
<1> QED
  BY <1>2, <1>4 DEF Rel, ReleaseOf

\* what Settled depends on
LEMMA SettledFrame ==
  ASSUME NEW d, Settled(d), conf' = conf, site'[d].vis = site[d].vis,
         d \in DOMAIN db' <=> d \in DOMAIN db, d \in DOMAIN db => db'[d] = db[d],
         "unsigned" \in why[d] => "unsigned" \in why'[d]
  PROVE  Settled(d)'
<1>1. Recorded(d)' <=> Recorded(d)
  BY DEF Recorded
<1>2. d \in DOMAIN db => Rel(db[d].refs)' = Rel(db[d].refs)
  BY DEF Rel
<1>3. Recorded(d) => d \in DOMAIN db
  BY DEF Recorded
<1>4. CASE Recorded(d)
  <2>1. Rel(db[d].refs)' = Rel(db[d].refs)
    BY <1>2, <1>3, <1>4
  <2>2. /\ At(site[d].vis, Release) = {Rel(db[d].refs)}
        /\ \A x \in Rel(db[d].refs) : At(site[d].vis, x[1]) = {x[2]}
        /\ "unsigned" \notin why[d] => At(site[d].vis, Signatures) \subseteq {Rel(db[d].refs)}
    BY <1>4 DEF Settled
  <2> QED
    BY <1>1, <1>4, <2>1, <2>2 DEF Settled
<1>5. CASE ~Recorded(d)
  BY <1>1, <1>5 DEF Settled
<1> QED
  BY <1>4, <1>5

\* what a step leaves alone of d
Kept(d) ==
  /\ site'[d].vis = site[d].vis
  /\ (d \in DOMAIN db' <=> d \in DOMAIN db) /\ (d \in DOMAIN db => db'[d] = db[d])

\* what clients see of a distribution that is left alone
LEMMA QuietKept ==
  ASSUME Sites, conf' = conf, NEW d \in Dists, Quiet(d), Kept(d), why[d] \subseteq why'[d]
  PROVE  Settled(d)'
<1>1. Settled(d) /\ ("unsigned" \in why[d] => "unsigned" \in why'[d])
  BY DEF Sites
<1> QED
  BY <1>1, SettledFrame DEF Kept

\* the distributions that no operation works on
LEMMA OthersSettled ==
  ASSUME Sites, conf' = conf, NEW d \in Dists, d # op.dist, Kept(d), why[d] \subseteq why'[d],
         Quiet(d)'
  PROVE  Settled(d)'
<1>1. Quiet(d)
  BY DEF Quiet
<1> QED
  BY <1>1, QuietKept

\* No file has been put yet.
Fresh ==
  op.phase \in Putting =>
    /\ op.tmp = <<>>
    /\ \/ op.phase = "index" /\ op.todo = Generated(op.new, conf.contents)
       \/ op.phase = "release" /\ Generated(op.new, conf.contents) = {}

\* an operation that has put nothing
LEMMA FreshProgress == Fresh => Progress
<1> SUFFICES ASSUME Fresh, op.phase \in Putting
             PROVE  Progress
  BY DEF Progress
<1>1. op.tmp = <<>> /\ (op.phase = "index" \/ op.phase = "release")
  BY DEF Fresh
<1>2. Written = {}
  BY WrittenFacts DEF Fresh, ByPhase
<1>3. DOMAIN op.tmp = {}
  BY <1>1, EmptyFunction
<1>4. op.phase # "rename" /\ op.phase \notin {"save", "refs"}
  BY <1>1
<1> QED
  BY <1>2, <1>3, <1>4 DEF Progress

\* a step that ends, begins or goes on with an operation before it puts files
LEMMA SitesFrame ==
  ASSUME Sites, conf' = conf, \A d \in Dists : Quiet(d)' => Settled(d)', Fresh', Dropped'
  PROVE  Sites'
<1>1. Fresh' => Progress'
  BY FreshProgress, PTL
<1> QED
  BY <1>1 DEF Sites

\* a command begins
LEMMA BeginSites ==
  ASSUME Core, Sites, op.name = "idle", UNCHANGED <<db, site, conf, why>>, Fresh',
         op'.name = "drop" => op'.phase = "dists"
  PROVE  Sites'
<1>1. \A d \in Dists : op.dist # d
  BY IdleFields DEF Core
<1>2. \A d \in Dists : Kept(d)
  BY DEF Kept
<1>3. \A d \in Dists : Quiet(d)' => Settled(d)'
  BY <1>1, <1>2, OthersSettled
<1>4. Dropped'
  BY DEF Dropped
<1> QED
  BY <1>3, <1>4, SitesFrame

\* the operations that commands begin
LEMMA BeginsFresh ==
  ASSUME conf' = conf, NEW name, NEW d, NEW kind, NEW new, NEW side, NEW comps, NEW t,
         op' = AfterLink(Operation(name, d, kind, new, side, comps, "link", t))
  PROVE  Fresh' /\ op'.name = name
<1>1. PICK o : o = Operation(name, d, kind, new, side, comps, "link", t)
  OBVIOUS
<1>2. IsOperation(o) /\ o.tmp = <<>> /\ o.phase = "link" /\ o.name = name
  BY <1>1 DEF Operation, IsOperation
<1>3. PICK G : G = Generated(o.new, conf.contents)
  OBVIOUS
<1>4. PICK u : u = AfterLink(o)
  OBVIOUS
<1>5. /\ Continues(o, u) /\ u.tmp = o.tmp
      /\ \/ u = o
         \/ G # {} /\ u.phase = "index" /\ u.todo = G
         \/ G = {} /\ u.phase = "release" /\ u.todo = G
  BY <1>2, <1>3, <1>4, AfterLinkFields, SMTT(30)
<1>6. op' = u /\ u.new = o.new /\ u.name = name
  BY <1>1, <1>2, <1>4, <1>5 DEF Continues
<1>7. Generated(op'.new, conf'.contents) = G
  BY <1>3, <1>6
<1>8. "link" \notin Putting
  BY DEF Putting
<1> QED
  BY <1>2, <1>5, <1>6, <1>7, <1>8 DEF Fresh

\* the commands
LEMMA CommandsSites ==
  ASSUME Core, Sites, Commands
  PROVE  Sites'
<1>1. ASSUME NEW d, NEW kind, NEW new, PublishSnapshotOrRepo(d, kind, new)
      PROVE  Sites'
  <2>1. op.name = "idle" /\ UNCHANGED <<db, site, conf, why>>
    BY <1>1 DEF PublishSnapshotOrRepo, data, files, paths, fixed
  <2>2. op' = AfterLink(Operation("publish", d, kind, new, "vis", {}, "link", ToLink(new)))
    BY <1>1 DEF PublishSnapshotOrRepo, Begin
  <2>3. Fresh' /\ op'.name = "publish"
    BY <2>1, <2>2, BeginsFresh
  <2>4. op'.name # "drop"
    BY <2>3
  <2> QED
    BY <2>1, <2>3, <2>4, BeginSites
<1>2. ASSUME NEW d, NEW new, NEW comps, op.name = "idle", UNCHANGED <<db, site, conf, why>>,
             Republish(d, new, comps)
      PROVE  Sites'
  <2>1. PICK side : side = IF cache'[d].re THEN "tmp" ELSE "vis"
    OBVIOUS
  <2>2. op' = AfterLink(Operation("update", d, cache[d].kind, new, side, comps, "link", ToLink(new)))
    BY <1>2, <2>1 DEF Republish, Begin
  <2>3. Fresh' /\ op'.name = "update"
    BY <1>2, <2>2, BeginsFresh
  <2>4. op'.name # "drop"
    BY <2>3
  <2> QED
    BY <1>2, <2>3, <2>4, BeginSites
<1>3. ASSUME NEW d, NEW new, PublishUpdate(d, new)
      PROVE  Sites'
  BY <1>2, <1>3 DEF PublishUpdate, files, paths, fixed
<1>4. ASSUME NEW d, NEW snaps, PublishSwitch(d, snaps)
      PROVE  Sites'
  BY <1>2, <1>4 DEF PublishSwitch, files, paths, fixed
<1>5. ASSUME NEW d, PublishDrop(d)
      PROVE  Sites'
  <2>1. op.name = "idle" /\ UNCHANGED <<db, site, conf, why>>
    BY <1>5 DEF PublishDrop, data, files, paths, fixed
  <2>2. op'.phase = "dists"
    BY <1>5 DEF PublishDrop, Operation
  <2>3. "dists" \notin Putting
    BY DEF Putting
  <2>4. Fresh'
    BY <2>2, <2>3 DEF Fresh
  <2> QED
    BY <2>1, <2>2, <2>4, BeginSites
<1> QED
  BY <1>1, <1>3, <1>4, <1>5 DEF Commands

\* Linking puts no index file.
LEMMA LinkFresh ==
  ASSUME Core, NEW c, NEW p, NEW seen, LinkStep(c, p, seen), conf' = conf
  PROVE  Fresh' /\ op'.name = op.name
<1>2. op.phase = "link"
  BY DEF LinkStep
<1>4. PICK G : G = Generated(op.new, conf.contents)
  OBVIOUS
<1>5. /\ Continues(op, op') /\ op'.tmp = op.tmp
      /\ \/ op'.phase = "link"
         \/ G # {} /\ op'.phase = "index" /\ op'.todo = G
         \/ G = {} /\ op'.phase = "release" /\ op'.todo = G
  BY <1>4, LinkFields DEF Core, Operations
<1>6. op'.new = op.new /\ op'.name = op.name /\ op.tmp = <<>>
  BY <1>2, <1>5 DEF Continues, Core, Operations
<1>7. "link" \notin Putting
  BY DEF Putting
<1> QED
  BY <1>4, <1>5, <1>6, <1>7 DEF Fresh

\* linking package files
LEMMA LinkSites ==
  ASSUME Core, Sites, NEW c \in Comps, NEW p \in Pkgs, LinkFromPool(c, p) \/ LinkFromPoolS3(c, p)
  PROVE  Sites'
<1>1. PICK seen : LinkStep(c, p, seen)
  BY DEF LinkFromPool, LinkFromPoolS3
<1>2. /\ op.phase = "link" /\ op.name # "idle" /\ UNCHANGED <<db, site, conf>>
  BY <1>1 DEF LinkStep, LinkFromPool, LinkFromPoolS3, data, paths, fixed
<1>3. \A d \in Dists : why[d] \subseteq why'[d]
  <2>1. why' = why \/ why' = Overwritten(c, p)
    BY DEF LinkFromPool, LinkFromPoolS3
  <2>2. why \in [Dists -> SUBSET Reasons]
    BY DEF Core, TypeOK
  <2>3. \A d \in Dists : why[d] \subseteq Overwritten(c, p)[d]
    BY <2>2, OverwrittenType
  <2> QED
    BY <2>1, <2>3
<1>4. Fresh' /\ op'.name = op.name
  BY <1>1, <1>2, LinkFresh
<1>5. \A d \in Dists : Quiet(d)' => Quiet(d)
  <2>1. \A d \in Dists : "torn" \in why[d] => "torn" \in why'[d]
    BY <1>3
  <2>2. op.phase \in {"link", "dists"}
    BY <1>2
  <2> QED
    BY <2>1, <2>2 DEF Quiet
<1>6. \A d \in Dists : Kept(d)
  BY <1>2 DEF Kept
<1>7. \A d \in Dists : Quiet(d)' => Settled(d)'
  BY <1>2, <1>3, <1>5, <1>6, QuietKept
<1>8. op.name # "drop"
  BY <1>2, PhaseNames DEF Core, Putting
<1>9. Dropped'
  BY <1>4, <1>8 DEF Dropped
<1> QED
  BY <1>2, <1>4, <1>7, <1>9, SitesFrame

\* what a step that puts files leaves alone
LEMMA PutKept ==
  ASSUME Core, Sites, op.name # "idle", op.phase \in Putting, Continues(op, op'),
         UNCHANGED <<db, conf, why>>, \A e \in Dists : e # op.dist => site'[e] = site[e],
         op'.phase \in {"index", "release", "sign", "rename", "save"},
         op'.phase \in {"index", "release", "sign"} /\ op.side # "vis" =>
           /\ op.phase \in {"index", "release", "sign"}
           /\ site'[op.dist].vis = site[op.dist].vis,
         Progress'
  PROVE  Sites'
<1>1. op'.dist = op.dist /\ op'.name = op.name /\ op'.side = op.side
  BY DEF Continues
<1>2. ASSUME NEW d \in Dists, Quiet(d)'
      PROVE  Settled(d)'
  <2>1. CASE d # op.dist
    <3>1. Kept(d)
      BY <2>1 DEF Kept
    <3> QED
      BY <1>2, <2>1, <3>1, OthersSettled
  <2>2. CASE d = op.dist
    <3>1. op'.phase \notin {"link", "dists"} /\ op'.phase \notin Cleaning
      BY DEF Cleaning
    <3>2. op'.side = "tmp" /\ op'.phase \in {"index", "release", "sign"} /\ "torn" \notin why'[d]
      BY <1>1, <1>2, <2>2, <3>1 DEF Quiet
    <3>3. op.side = "tmp" /\ op.side # "vis"
      BY <1>1, <3>2
    <3>4. op.phase \in {"index", "release", "sign"} /\ site'[op.dist].vis = site[op.dist].vis
      BY <3>2, <3>3
    <3>5. Quiet(d) /\ Kept(d)
      BY <2>2, <3>2, <3>3, <3>4 DEF Quiet, Kept
    <3> QED
      BY <3>5, QuietKept
  <2> QED
    BY <2>1, <2>2
<1>3. op.name # "drop"
  BY PhaseNames DEF Core, Putting
<1>4. Dropped'
  BY <1>1, <1>3 DEF Dropped
<1> QED
  BY <1>2, <1>4 DEF Sites

\* g is f with one more value, or another one
Bound(g, f, x, v) ==
  /\ DOMAIN g = DOMAIN f \cup {x} /\ g[x] = v /\ \A y \in DOMAIN f : y # x => g[y] = f[y]
  /\ At(g, x) = {v} /\ \A y : y # x => At(g, y) = At(f, y)

\* what Bind gives
LEMMA BindBound ==
  ASSUME NEW f, NEW x, NEW v
  PROVE  Bound(Bind(f, x, v), f, x, v)
<1>1. PICK g : g = Bind(f, x, v)
  OBVIOUS
<1>2. DOMAIN g = DOMAIN f \cup {x} /\ g[x] = v /\ \A y \in DOMAIN f : y # x => g[y] = f[y]
  BY <1>1 DEF Bind
<1>3. At(g, x) = {v} /\ \A y : y # x => At(g, y) = At(f, y)
  BY <1>2 DEF At
<1>4. Bound(g, f, x, v)
  BY <1>2, <1>3 DEF Bound
<1> QED
  BY <1>1, <1>4

\* Putting a file: with the suffix, or in place
LEMMA PutSites ==
  ASSUME Core, Sites, op.name # "idle", op.phase \in {"index", "release", "sign"},
         Continues(op, op'), UNCHANGED <<db, conf, why>>,
         \A e \in Dists : e # op.dist => site'[e] = site[e],
         NEW x,
         op.side = "vis" => site'[op.dist].vis = Bind(site[op.dist].vis, x, Target(x)),
         op.side # "vis" => /\ site'[op.dist].vis = site[op.dist].vis
                            /\ op'.tmp = Bind(op.tmp, x, Target(x)),
         Written' \subseteq Written \cup {x},
         op'.phase \in {"index", "release", "sign"} \/ (op.side = "vis" /\ op'.phase = "save")
           \/ (op.side # "vis" /\ op'.phase = "rename" /\ op'.todo = DOMAIN op'.tmp)
  PROVE  Sites'
<1>0. PICK w, s, t : w = Target(x) /\ s = site[op.dist].vis /\ t = op.tmp
  OBVIOUS
<1>1. op'.dist = op.dist /\ op'.new = op.new /\ op'.side = op.side
  BY DEF Continues
<1>2. op.phase \in Putting /\ op.phase \notin {"save", "refs"} /\ op.phase # "rename"
  BY DEF Putting
<1>3. op.side = "vis" \/ op.side = "tmp"
  BY DEF Core, Operations
<1>4. \A y : Target(y)' = Target(y)
  BY <1>1 DEF Target, Rel
<1>5. CASE op.side = "vis"
  <2>1. \A y \in Written : Shown(y)
    BY <1>2, <1>5 DEF Sites, Progress
  <2>2. PICK b : b = Bind(s, x, w) /\ Bound(b, s, x, w)
    BY BindBound
  <2>3. At(b, x) = {w} /\ \A y : y # x => At(b, y) = At(s, y)
    BY <2>2 DEF Bound
  <2>4. site'[op'.dist].vis = b
    BY <1>0, <1>1, <1>5, <2>2
  <2>5. \A y : Shown(y)' <=> At(b, y) = {Target(y)}
    BY <1>4, <2>4 DEF Shown
  <2>6. \A y : Shown(y) <=> At(s, y) = {Target(y)}
    BY <1>0 DEF Shown
  <2>7. \A y \in Written' : Shown(y)'
    BY <1>0, <2>1, <2>3, <2>5, <2>6
  <2>8. op'.side # "tmp" /\ op'.phase # "rename"
    BY <1>1, <1>5
  <2>9. Progress'
    BY <2>7, <2>8 DEF Progress
  <2>10. op'.phase \in {"index", "release", "sign", "rename", "save"}
    OBVIOUS
  <2> QED
    BY <1>2, <1>5, <2>9, <2>10, PutKept
<1>6. CASE op.side = "tmp"
  <2>1. Written \subseteq DOMAIN t /\ \A y \in DOMAIN t : t[y] = Target(y)
    BY <1>0, <1>2, <1>6 DEF Sites, Progress
  <2>2. PICK b : b = Bind(t, x, w) /\ Bound(b, t, x, w)
    BY BindBound
  <2>3. DOMAIN b = DOMAIN t \cup {x} /\ b[x] = w /\ \A y \in DOMAIN t : y # x => b[y] = t[y]
    BY <2>2 DEF Bound
  <2>4. op.side # "vis"
    BY <1>6
  <2>5. op'.tmp = b /\ site'[op.dist].vis = s
    BY <1>0, <2>2, <2>4
  <2>6. Written' \subseteq DOMAIN op'.tmp
    BY <2>1, <2>3, <2>5
  <2>7. \A y \in DOMAIN op'.tmp : op'.tmp[y] = Target(y)'
    BY <1>0, <1>4, <2>1, <2>3, <2>5
  <2>8. op'.phase \notin {"save", "refs"} /\ op'.side # "vis"
    BY <1>1, <1>6
  <2>9. op'.phase = "rename" => op'.todo = DOMAIN op'.tmp
    BY <2>4
  <2>10. Progress'
    BY <2>6, <2>7, <2>8, <2>9 DEF Progress
  <2>11. op'.phase \in {"index", "release", "sign", "rename", "save"}
    OBVIOUS
  <2> QED
    BY <1>0, <1>2, <2>5, <2>10, <2>11, PutKept
<1> QED
  BY <1>3, <1>5, <1>6

\* Finalize of an index
LEMMA IndexSites ==
  ASSUME Core, Sites, NEW i \in Index, FinalizeIndex(i)
  PROVE  Sites'
<1>1. /\ op.name # "idle" /\ op.phase = "index" /\ i \in op.todo /\ UNCHANGED <<db, conf, why>>
      /\ site' = [site EXCEPT ![op.dist] = PutFile(site[op.dist], op.side, i, Listed(i, op.new))]
  BY DEF FinalizeIndex, Running, data
<1>2. PICK w : w = Listed(i, op.new)
  OBVIOUS
<1>4. PICK s : s = site[op.dist] /\ IsSite(s)
  BY <1>1, OwnSite
<1>5. PICK u : u = PutFile(s, op.side, i, w)
  OBVIOUS
<1>6. (op.side = "vis" => u.vis = Bind(s.vis, i, w)) /\ (op.side # "vis" => u.vis = s.vis)
  BY <1>4, <1>5, PutFileShape, SMTT(30)
<1>7. site'[op.dist] = u
  BY <1>1, <1>2, <1>4, <1>5, OwnSite
<1>8. Continues(op, op') /\ \A e \in Dists : e # op.dist => site'[e] = site[e]
  BY PuttingCore
<1>9. /\ op'.todo = op.todo \ {i} /\ (op.side # "vis" => op'.tmp = Bind(op.tmp, i, w))
      /\ (op'.phase = "index" \/ (op'.todo = {} /\ op'.phase = "release"))
  BY <1>2, IndexFields DEF Core, Operations
<1>10. w = Target(i)
  BY <1>2, FileNames DEF Target
<1>11. PICK G : G = Generated(op.new, conf.contents)
  OBVIOUS
<1>12. G = Generated(op'.new, conf'.contents)
  BY <1>1, <1>8, <1>11 DEF Continues
<1>13. Written = G \ op.todo
  BY <1>1, <1>11, WrittenFacts DEF ByPhase
<1>14. (op'.phase = "index" => Written' = G \ op'.todo) /\ (op'.phase = "release" => Written' = G)
  <2>1. ByPhase'
    BY WrittenFacts, PTL
  <2> QED
    BY <1>12, <2>1 DEF ByPhase
<1>15. Written' \subseteq Written \cup {i}
  BY <1>9, <1>13, <1>14
<1>16. op.phase \in {"index", "release", "sign"} /\ op'.phase \in {"index", "release", "sign"}
  BY <1>1, <1>9
<1>17. /\ op.side = "vis" => site'[op.dist].vis = Bind(site[op.dist].vis, i, Target(i))
       /\ op.side # "vis" => /\ site'[op.dist].vis = site[op.dist].vis
                             /\ op'.tmp = Bind(op.tmp, i, Target(i))
  BY <1>10, <1>4, <1>6, <1>7, <1>9
<1> QED
  BY <1>1, <1>8, <1>15, <1>16, <1>17, PutSites

\* Release and its signatures
LEMMA ReleaseSites ==
  ASSUME Core, Sites, NEW sign, FinalizeRelease(sign)
  PROVE  Sites'
<1>1. /\ op.name # "idle" /\ op.phase = "release" /\ UNCHANGED <<db, conf, why>>
      /\ site' = [site EXCEPT ![op.dist] = PutFile(site[op.dist], op.side, Release,
                                                   ReleaseOf(op.new, conf.contents))]
  BY DEF FinalizeRelease, Running, data, paths, fixed
<1>2. PICK w : w = ReleaseOf(op.new, conf.contents)
  OBVIOUS
<1>4. PICK s : s = site[op.dist] /\ IsSite(s)
  BY <1>1, OwnSite
<1>5. PICK u : u = PutFile(s, op.side, Release, w)
  OBVIOUS
<1>6. (op.side = "vis" => u.vis = Bind(s.vis, Release, w)) /\ (op.side # "vis" => u.vis = s.vis)
  BY <1>4, <1>5, PutFileShape, SMTT(30)
<1>7. site'[op.dist] = u
  BY <1>1, <1>2, <1>4, <1>5, OwnSite
<1>8. Continues(op, op') /\ \A e \in Dists : e # op.dist => site'[e] = site[e]
  BY PuttingCore
<1>9. /\ op'.sign = sign /\ (op.side # "vis" => op'.tmp = Bind(op.tmp, Release, w))
      /\ \/ sign /\ op'.phase = "sign"
         \/ ~sign /\ op.side = "vis" /\ op'.phase = "save"
         \/ ~sign /\ op.side # "vis" /\ op'.phase = "rename" /\ op'.todo = DOMAIN op'.tmp
  BY <1>2, ReleaseFields DEF Core, Operations
<1>10. w = Target(Release)
  BY <1>2 DEF Target, Rel
<1>11. PICK G : G = Generated(op.new, conf.contents)
  OBVIOUS
<1>12. G = Generated(op'.new, conf'.contents)
  BY <1>1, <1>8, <1>11 DEF Continues
<1>13. Written = G
  BY <1>1, <1>11, WrittenFacts DEF ByPhase
<1>14. Written' = G \cup {Release}
  <2>1. ByPhase'
    BY WrittenFacts, PTL
  <2>2. CASE op'.phase = "sign"
    BY <1>12, <2>1, <2>2 DEF ByPhase
  <2>3. CASE op'.phase = "save" \/ op'.phase = "rename"
    <3>1. op'.phase \in {"rename", "save", "refs"} /\ ~op'.sign
      BY <1>9, <2>3
    <3> QED
      BY <1>12, <2>1, <3>1 DEF ByPhase
  <2> QED
    BY <1>9, <2>2, <2>3
<1>15. Written' \subseteq Written \cup {Release}
  BY <1>13, <1>14
<1>16. /\ op.phase \in {"index", "release", "sign"}
       /\ op'.phase \in {"index", "release", "sign"} \/ (op.side = "vis" /\ op'.phase = "save")
           \/ (op.side # "vis" /\ op'.phase = "rename" /\ op'.todo = DOMAIN op'.tmp)
  BY <1>1, <1>9
<1>17. /\ op.side = "vis" => site'[op.dist].vis = Bind(site[op.dist].vis, Release, Target(Release))
       /\ op.side # "vis" => /\ site'[op.dist].vis = site[op.dist].vis
                             /\ op'.tmp = Bind(op.tmp, Release, Target(Release))
  BY <1>10, <1>4, <1>6, <1>7, <1>9
<1> QED
  BY <1>1, <1>8, <1>15, <1>16, <1>17, PutSites

\* the signatures
LEMMA SignSites ==
  ASSUME Core, Sites, SignRelease
  PROVE  Sites'
<1>1. /\ op.name # "idle" /\ op.phase = "sign" /\ UNCHANGED <<db, conf, why>>
      /\ site' = [site EXCEPT ![op.dist] = PutFile(site[op.dist], op.side, Signatures,
                                                   ReleaseOf(op.new, conf.contents))]
  BY DEF SignRelease, Running, data, paths, fixed
<1>2. PICK w : w = ReleaseOf(op.new, conf.contents)
  OBVIOUS
<1>3. PICK s : s = site[op.dist] /\ IsSite(s)
  BY <1>1, OwnSite
<1>4. PICK u : u = PutFile(s, op.side, Signatures, w)
  OBVIOUS
<1>5. (op.side = "vis" => u.vis = Bind(s.vis, Signatures, w)) /\ (op.side # "vis" => u.vis = s.vis)
  BY <1>3, <1>4, PutFileShape, SMTT(30)
<1>6. site'[op.dist] = u
  BY <1>1, <1>2, <1>3, <1>4, OwnSite
<1>7. Continues(op, op') /\ \A e \in Dists : e # op.dist => site'[e] = site[e]
  BY PuttingCore
<1>8. /\ (op.side # "vis" => op'.tmp = Bind(op.tmp, Signatures, w))
      /\ \/ op.side = "vis" /\ op'.phase = "save"
         \/ op.side # "vis" /\ op'.phase = "rename" /\ op'.todo = DOMAIN op'.tmp
  BY <1>2, SignFields DEF Core, Operations
<1>9. w = Target(Signatures)
  BY <1>2 DEF Target, Rel
<1>10. PICK G : G = Generated(op.new, conf.contents)
  OBVIOUS
<1>11. G = Generated(op'.new, conf'.contents)
  BY <1>1, <1>7, <1>10 DEF Continues
<1>12. Written = G \cup {Release}
  BY <1>1, <1>10, WrittenFacts DEF ByPhase
<1>13. Written' \subseteq G \cup {Release} \cup {Signatures}
  <2>1. ByPhase'
    BY WrittenFacts, PTL
  <2>2. op'.phase \in {"rename", "save", "refs"}
    BY <1>8
  <2>3. Written' = G \cup {Release} \cup (IF op'.sign THEN {Signatures} ELSE {})
    BY <1>11, <2>1, <2>2 DEF ByPhase
  <2> QED
    BY <2>3
<1>14. Written' \subseteq Written \cup {Signatures}
  BY <1>12, <1>13
<1>15. /\ op.phase \in {"index", "release", "sign"}
       /\ op'.phase \in {"index", "release", "sign"} \/ (op.side = "vis" /\ op'.phase = "save")
           \/ (op.side # "vis" /\ op'.phase = "rename" /\ op'.todo = DOMAIN op'.tmp)
  BY <1>1, <1>8
<1>16. /\ op.side = "vis" => site'[op.dist].vis = Bind(site[op.dist].vis, Signatures, Target(Signatures))
       /\ op.side # "vis" => /\ site'[op.dist].vis = site[op.dist].vis
                             /\ op'.tmp = Bind(op.tmp, Signatures, Target(Signatures))
  BY <1>3, <1>5, <1>6, <1>8, <1>9
<1> QED
  BY <1>1, <1>7, <1>14, <1>15, <1>16, PutSites

\* one step of RenameFiles
LEMMA RenameSites ==
  ASSUME Core, Sites, NEW x, RenameFiles(x)
  PROVE  Sites'
<1>1. /\ op.name # "idle" /\ op.phase = "rename" /\ x \in op.todo /\ UNCHANGED <<db, conf, why>>
      /\ site' = [site EXCEPT ![op.dist] = RenameFile(site[op.dist], x, op.tmp[x])]
  BY DEF RenameFiles, Running, data, paths, fixed
<1>2. op.phase \in Putting /\ op.phase \notin {"save", "refs"} /\ op.side = "tmp"
  BY <1>1 DEF Putting, Core, Operations
<1>3. /\ Written \subseteq DOMAIN op.tmp /\ \A y \in DOMAIN op.tmp : op.tmp[y] = Target(y)
      /\ op.todo \subseteq DOMAIN op.tmp /\ \A y \in DOMAIN op.tmp \ op.todo : Shown(y)
  BY <1>1, <1>2 DEF Sites, Progress
<1>4. PICK s : s = site[op.dist] /\ IsSite(s)
  BY <1>1, OwnSite
<1>5. PICK w : w = Target(x)
  OBVIOUS
<1>6. PICK u : u = RenameFile(s, x, w)
  OBVIOUS
<1>7. u.vis = Bind(s.vis, x, w)
  BY <1>4, <1>6, RenameFileShape, SMTT(30)
<1>8. PICK b : b = u.vis /\ Bound(b, s.vis, x, w)
  BY <1>7, BindBound
<1>9. At(b, x) = {w} /\ \A y : y # x => At(b, y) = At(s.vis, y)
  BY <1>8 DEF Bound
<1>10. op.tmp[x] = w
  BY <1>1, <1>3, <1>5
<1>11. site'[op.dist].vis = b
  BY <1>1, <1>4, <1>6, <1>8, <1>10, OwnSite
<1>12. Continues(op, op') /\ \A e \in Dists : e # op.dist => site'[e] = site[e]
  BY PuttingCore
<1>13. /\ op'.sign = op.sign /\ op'.tmp = op.tmp /\ op'.todo = op.todo \ {x}
       /\ (op'.todo # {} /\ op'.phase = "rename") \/ (op'.todo = {} /\ op'.phase = "save")
  BY RenameFields DEF Core, Operations
<1>14. op'.dist = op.dist /\ op'.new = op.new /\ op'.side = op.side
  BY <1>12 DEF Continues
<1>15. \A y : Target(y)' = Target(y)
  BY <1>1, <1>14 DEF Target, Rel
<1>16. \A y : (Shown(y)' <=> At(b, y) = {Target(y)}) /\ (Shown(y) <=> At(s.vis, y) = {Target(y)})
  BY <1>4, <1>11, <1>14, <1>15 DEF Shown
<1>17. \A y \in DOMAIN op'.tmp \ op'.todo : Shown(y)'
  BY <1>3, <1>5, <1>9, <1>13, <1>16
<1>18. Written' = Written
  <2>1. ByPhase' /\ ByPhase
    BY WrittenFacts, PTL
  <2>2. op'.phase \in {"rename", "save", "refs"} /\ op.phase \in {"rename", "save", "refs"}
    BY <1>1, <1>13
  <2>3. Generated(op'.new, conf'.contents) = Generated(op.new, conf.contents)
    BY <1>1, <1>14
  <2> QED
    BY <1>13, <2>1, <2>2, <2>3 DEF ByPhase
<1>19. Progress'
  <2>1. CASE op'.phase = "rename"
    <3>1. op'.phase \notin {"save", "refs"} /\ op'.side # "vis"
      BY <1>2, <1>14, <2>1
    <3>2. op'.todo \subseteq DOMAIN op'.tmp /\ Written' \subseteq DOMAIN op'.tmp
      BY <1>3, <1>13, <1>18
    <3>3. \A y \in DOMAIN op'.tmp : op'.tmp[y] = Target(y)'
      BY <1>3, <1>13, <1>15
    <3> QED
      BY <1>17, <3>1, <3>2, <3>3 DEF Progress
  <2>2. CASE op'.todo = {} /\ op'.phase = "save"
    <3>1. op'.phase \in {"save", "refs"} /\ op'.phase # "rename"
      BY <2>2
    <3>2. \A y \in Written' : Shown(y)'
      BY <1>3, <1>13, <1>17, <1>18, <2>2
    <3> QED
      BY <3>1, <3>2 DEF Progress
  <2> QED
    BY <1>13, <2>1, <2>2
<1>20. /\ op'.phase \in {"index", "release", "sign", "rename", "save"}
       /\ op'.phase \notin {"index", "release", "sign"}
  BY <1>13
<1> QED
  BY <1>1, <1>2, <1>12, <1>19, <1>20, PutKept

\* The record that is stored is the one that was published, or the references
\* are stored next.
Saves(r) ==
  /\ Stores(r)
  /\ \/ /\ AfterSave /\ r.comps = DOMAIN op.new /\ DOMAIN r.refs = DOMAIN op.new
        /\ \A e \in DOMAIN op.new : r.refs[e] = op.new[e]
     \/ /\ UNCHANGED <<cache, why>> /\ Continues(op, op') /\ op'.phase = "refs"
        /\ op'.sign = op.sign /\ op'.missed = op.missed /\ op'.tmp = op.tmp

\* what SaveRecord and SaveRefs do
LEMMA SaveShape ==
  ASSUME Core, NEW c, SaveRecord \/ SaveRefs(c)
  PROVE  /\ op.name = "publish" \/ op.name = "update"
         /\ op.name # "idle" /\ op.phase \in {"save", "refs"} /\ UNCHANGED <<pub, site, conf>>
         /\ \E r : Saves(r)
<1>0. TypeOK /\ Operations /\ Storing /\ op.name # "idle" /\ IsOperation(op)
  BY DEF Core, SaveRecord, SaveRefs, Running, Operations
<1>1. op.phase = "save" \/ op.phase = "refs"
  BY DEF SaveRecord, SaveRefs, Running
<1>2. op.phase \in {"save", "refs"} /\ (op.name = "publish" \/ op.name = "update")
  BY <1>0, <1>1, PhaseNames DEF Putting
<1>3. UNCHANGED <<pub, site, conf>>
  BY DEF SaveRecord, SaveRefs, files, paths, fixed
<1>4. CASE SaveRecord
  <2>1. PICK refs : refs = IF op.kind = "snapshot" THEN op.new
                           ELSE IF op.name = "publish" THEN <<>> ELSE db[op.dist].refs
    OBVIOUS
  <2>2. PICK r : r = [kind |-> op.kind, comps |-> DOMAIN op.new, refs |-> refs]
    OBVIOUS
  <2>3. r.comps = DOMAIN op.new /\ r.refs = refs
    BY <2>2
  <2>4. db' = Bind(db, op.dist, r)
    BY <1>4, <2>1, <2>2 DEF SaveRecord
  <2>5. Stores(r)
    BY <2>4 DEF Stores, Bind
  <2>6. ASSUME op.kind = "snapshot"
        PROVE  Saves(r)
    <3>1. AfterSave /\ refs = op.new
      BY <1>4, <2>1, <2>6 DEF SaveRecord
    <3> QED
      BY <2>3, <2>5, <3>1 DEF Saves
  <2>7. ASSUME op.kind # "snapshot"
        PROVE  Saves(r)
    <3>1. op' = [op EXCEPT !.phase = "refs", !.todo = DOMAIN op.new] /\ UNCHANGED <<cache, why>>
      BY <1>4, <2>7 DEF SaveRecord
    <3>2. Continues(op, op') /\ op'.phase = "refs" /\ op'.sign = op.sign /\ op'.missed = op.missed /\ op'.tmp = op.tmp
      BY <1>0, <3>1 DEF IsOperation, Continues
    <3> QED
      BY <2>5, <3>1, <3>2 DEF Saves
  <2>8. \E x : Saves(x)
    BY <2>6, <2>7
  <2> QED
    BY <1>0, <1>2, <1>3, <2>8
<1>5. CASE SaveRefs(c)
  <2>1. /\ op.phase = "refs" /\ c \in op.todo /\ op.dist \in DOMAIN db
        /\ op.todo \subseteq DOMAIN op.new /\ db[op.dist].comps = DOMAIN op.new
        /\ \A e \in DOMAIN op.new \ op.todo :
             e \in DOMAIN db[op.dist].refs /\ db[op.dist].refs[e] = op.new[e]
    BY <1>0, <1>5 DEF SaveRefs, Running, Storing, Stored
  <2>2. IsRecord(db[op.dist]) /\ DOMAIN db[op.dist].refs \subseteq db[op.dist].comps
    BY <1>0, <2>1 DEF TypeOK, Core, Records
  <2>3. PICK refs : refs = Bind(db[op.dist].refs, c, op.new[c])
    OBVIOUS
  <2>4. /\ DOMAIN refs = DOMAIN db[op.dist].refs \cup {c} /\ refs[c] = op.new[c]
        /\ \A e \in DOMAIN db[op.dist].refs : e # c => refs[e] = db[op.dist].refs[e]
    BY <2>3 DEF Bind
  <2>5. PICK r : r = [db[op.dist] EXCEPT !.refs = refs]
    OBVIOUS
  <2>6. r.comps = DOMAIN op.new /\ r.refs = refs
    BY <2>1, <2>2, <2>5 DEF IsRecord
  <2>7. db' = [db EXCEPT ![op.dist] = r]
    BY <1>5, <2>3, <2>5 DEF SaveRefs
  <2>8. Stores(r)
    BY <2>1, <2>7 DEF Stores
  <2>9. ASSUME op.todo = {c}
        PROVE  Saves(r)
    <3>1. AfterSave
      BY <1>5, <2>9 DEF SaveRefs
    <3>2. \A e \in DOMAIN op.new : e \in DOMAIN refs /\ refs[e] = op.new[e]
      BY <2>1, <2>4, <2>9
    <3>3. DOMAIN refs = DOMAIN op.new
      BY <2>1, <2>2, <2>4, <3>2
    <3> QED
      BY <2>6, <2>8, <3>1, <3>2, <3>3 DEF Saves
  <2>10. ASSUME op.todo # {c}
        PROVE  Saves(r)
    <3>1. op' = [op EXCEPT !.todo = op.todo \ {c}] /\ UNCHANGED <<cache, why>>
      BY <1>5, <2>10 DEF SaveRefs
    <3>2. Continues(op, op') /\ op'.phase = op.phase /\ op'.sign = op.sign /\ op'.missed = op.missed /\ op'.tmp = op.tmp
      BY <1>0, <3>1 DEF IsOperation, Continues
    <3> QED
      BY <2>1, <2>8, <3>1, <3>2 DEF Saves
  <2>11. \E x : Saves(x)
    BY <2>9, <2>10
  <2> QED
    BY <1>0, <1>2, <1>3, <2>11
<1> QED
  BY <1>4, <1>5

\* no operation
LEMMA IdleOperation == Idle.name = "idle" /\ Idle.dist = NoDist /\ Idle.phase = "none"
                       /\ Idle.missed = FALSE /\ Idle.side = "vis" /\ Idle.clean = FALSE
  BY DEF Idle, Operation

\* When the record is complete clients see what it says.
LEMMA SavedSettled ==
  ASSUME Core, Sites, op.name # "idle", op.phase \in {"save", "refs"}, UNCHANGED <<site, conf>>,
         NEW d, d = op.dist, NEW r, Stores(r), AfterSave, r.comps = DOMAIN op.new, DOMAIN r.refs = DOMAIN op.new,
         \A e \in DOMAIN op.new : r.refs[e] = op.new[e]
  PROVE  Settled(d)'
<1>1. op.phase \in Putting /\ op.phase \in {"rename", "save", "refs"}
  BY DEF Putting
<1>2. PICK G : G = Generated(op.new, conf.contents)
  OBVIOUS
<1>3. Written = G \cup {Release} \cup (IF op.sign THEN {Signatures} ELSE {})
  BY <1>1, <1>2, WrittenFacts DEF ByPhase
<1>4. \A x \in Written : At(site[op.dist].vis, x) = {Target(x)}
  BY <1>1 DEF Sites, Progress, Shown
<1>5. PICK v : v = site[op.dist].vis
  OBVIOUS
<1>6. PICK R : R = Rel(op.new)
  OBVIOUS
<1>7. At(v, Release) = {R}
  <2>1. Release \in Written /\ Target(Release) = R
    BY <1>3, <1>6 DEF Target
  <2> QED
    BY <1>4, <1>5, <2>1
<1>8. \A x \in R : At(v, x[1]) = {x[2]}
  <2>1. ASSUME NEW x \in R
        PROVE  At(v, x[1]) = {x[2]}
    <3>1. x[1] \in G /\ x[2] = Listed(x[1], op.new)
      BY <1>2, <1>6, <2>1, RelFacts
    <3>2. x[1] \in Index
      BY <1>2, <3>1, RelFacts
    <3>3. Target(x[1]) = x[2] /\ x[1] \in Written
      BY <1>3, <3>1, <3>2, FileNames DEF Target
    <3> QED
      BY <1>4, <1>5, <3>3
  <2> QED
    BY <2>1
<1>9. op.dist \in Dists /\ DOMAIN why = Dists
  BY DEF Core, Operations, TypeOK
<1>10. "unsigned" \notin why'[op.dist] => At(v, Signatures) \subseteq {R}
  <2>1. CASE op.sign
    <3>1. Signatures \in Written /\ Target(Signatures) = R
      BY <1>3, <1>6, <2>1 DEF Target
    <3> QED
      BY <1>4, <1>5, <3>1
  <2>2. CASE ~op.sign
    <3>1. PICK w : w = (why[op.dist] \cap {"hash"}) \cup (IF op.missed THEN {"missing"} ELSE {})
                       \cup (IF ~op.sign /\ Signatures \in DOMAIN v THEN {"unsigned"} ELSE {})
      OBVIOUS
    <3>2. why' = [why EXCEPT ![op.dist] = w]
      BY <1>5, <3>1 DEF AfterSave
    <3>3. why'[op.dist] = w
      BY <1>9, <3>2
    <3>4. Signatures \in DOMAIN v => "unsigned" \in w
      BY <2>2, <3>1
    <3> QED
      BY <3>3, <3>4 DEF At
  <2> QED
    BY <2>1, <2>2
<1>11. op.dist \in DOMAIN db' /\ db'[op.dist] = r
  BY DEF Stores
<1>12. Recorded(d)'
  BY <1>11 DEF Recorded
<1>13. Rel(db[d].refs)' = R
  <2>1. Rel(r.refs) = Rel(op.new)
    BY RelSame
  <2>2. Rel(db[d].refs)' = ReleaseOf(r.refs, conf.contents)
    BY <1>11 DEF Rel
  <2> QED
    BY <1>6, <2>1, <2>2 DEF Rel
<1>14. site'[d].vis = v
  BY <1>5
<1> QED
  BY <1>7, <1>8, <1>10, <1>12, <1>13, <1>14 DEF Settled

\* SaveRecord and SaveRefs
LEMMA SaveSites ==
  ASSUME Core, Sites, NEW c, SaveRecord \/ SaveRefs(c)
  PROVE  Sites'
<1>1. /\ op.name = "publish" \/ op.name = "update"
      /\ op.name # "idle" /\ op.phase \in {"save", "refs"} /\ UNCHANGED <<pub, site, conf>>
  BY SaveShape
<1>2. PICK r : Saves(r)
  BY SaveShape
<1>3. Stores(r) /\ op.dist \in Dists
  BY <1>1, <1>2 DEF Saves, Core, Operations
<1>4. \A d \in Dists : d # op.dist => Kept(d)
  <2>1. \A d : d # op.dist => (d \in DOMAIN db' <=> d \in DOMAIN db) /\ (d \in DOMAIN db => db'[d] = db[d])
    BY <1>3 DEF Stores
  <2> QED
    BY <1>1, <2>1 DEF Kept
<1>5. op.name # "drop"
  BY <1>1
<1>6. CASE /\ AfterSave /\ r.comps = DOMAIN op.new /\ DOMAIN r.refs = DOMAIN op.new
           /\ \A e \in DOMAIN op.new : r.refs[e] = op.new[e]
  <2>1. /\ \A e \in Dists : e # op.dist => why'[e] = why[e]
        /\ op' = Idle \/ (Continues(op, op') /\ op'.phase = "clean")
    BY <1>3, <1>6, AfterSaveFields DEF Core, Operations
  <2>2. ASSUME NEW d \in Dists, Quiet(d)'
        PROVE  Settled(d)'
    <3>1. CASE d = op.dist
      BY <1>1, <1>3, <1>6, <3>1, SavedSettled
    <3>2. CASE d # op.dist
      <4>1. why[d] \subseteq why'[d]
        BY <2>1, <3>2
      <4> QED
        BY <1>1, <1>4, <2>2, <3>2, <4>1, OthersSettled
    <3> QED
      BY <3>1, <3>2
  <2>3. op'.phase = "none" \/ op'.phase = "clean"
    BY <2>1, IdleOperation
  <2>4. op'.phase \notin Putting
    BY <2>3 DEF Putting
  <2>5. op'.name = "idle" \/ op'.name = op.name
    BY <2>1, IdleOperation DEF Continues
  <2>6. op'.name # "drop"
    BY <1>5, <2>5
  <2>7. Fresh' /\ Dropped'
    BY <2>4, <2>6 DEF Fresh, Dropped
  <2> QED
    BY <1>1, <2>2, <2>7, SitesFrame
<1>7. CASE /\ UNCHANGED <<cache, why>> /\ Continues(op, op') /\ op'.phase = "refs"
           /\ op'.sign = op.sign /\ op'.missed = op.missed /\ op'.tmp = op.tmp
  <2>1. op'.dist = op.dist /\ op'.new = op.new /\ op'.name = op.name
    BY <1>7 DEF Continues
  <2>2. op'.phase \notin {"link", "dists"} /\ op'.phase \notin {"index", "release", "sign"}
        /\ op'.phase \notin Cleaning /\ op'.phase # "rename" /\ op'.phase \in {"save", "refs"}
    BY <1>7 DEF Cleaning
  <2>3. ASSUME NEW d \in Dists, Quiet(d)'
        PROVE  Settled(d)'
    <3>1. d # op.dist
      BY <2>1, <2>2, <2>3 DEF Quiet
    <3> QED
      BY <1>1, <1>4, <1>7, <2>3, <3>1, OthersSettled
  <2>4. \A y : Shown(y)' <=> Shown(y)
    BY <1>1, <2>1 DEF Shown, Target, Rel
  <2>5. Written' = Written
    <3>1. ByPhase' /\ ByPhase
      BY WrittenFacts, PTL
    <3>2. op'.phase \in {"rename", "save", "refs"} /\ op.phase \in {"rename", "save", "refs"}
      BY <1>1, <1>7
    <3>3. Generated(op'.new, conf'.contents) = Generated(op.new, conf.contents)
      BY <1>1, <2>1
    <3> QED
      BY <1>7, <3>1, <3>2, <3>3 DEF ByPhase
  <2>6. op.phase \in Putting
    BY <1>1 DEF Putting
  <2>7. \A y \in Written : Shown(y)
    BY <1>1, <2>6 DEF Sites, Progress
  <2>8. Progress'
    BY <2>2, <2>4, <2>5, <2>7 DEF Progress
  <2>9. Dropped'
    BY <1>5, <2>1 DEF Dropped
  <2> QED
    BY <2>3, <2>8, <2>9 DEF Sites
<1> QED
  BY <1>2, <1>6, <1>7 DEF Saves

\* what the steps of a cleanup have in common
LEMMA CleaningShape ==
  ASSUME Core, NEW c, NEW x,
         CleanupPrefixComponentFiles \/ RemoveFile(<<c, x>>) \/ CleanupFails
  PROVE  /\ UNCHANGED <<db, cache, conf, why, site>> /\ op.name # "idle"
         /\ op.phase = "clean" \/ op.phase = "remove"
         /\ op.name = "drop" \/ op.name = "update"
         /\ Continues(op, op') /\ op'.missed = op.missed
         /\ op.name = "drop" => op'.phase = "remove" \/ op'.phase = "unrecord"
         /\ op.name = "update" => op'.phase = "remove" \/ op'.phase = "cleaned"
<1>0. Operations /\ IsOperation(op)
  BY DEF Core, Operations
<1>1. UNCHANGED <<db, cache, conf, why, site>>
  BY DEF CleanupPrefixComponentFiles, RemoveFile, CleanupFails, data, files, paths, fixed
<1>2. op.name # "idle" /\ (op.phase = "clean" \/ op.phase = "remove")
  <2>1. CASE CleanupPrefixComponentFiles \/ RemoveFile(<<c, x>>)
    BY <2>1 DEF CleanupPrefixComponentFiles, RemoveFile, Running
  <2>2. CASE CleanupFails
    BY <2>2 DEF CleanupFails
  <2> QED
    BY <2>1, <2>2
<1>3. op.name = "drop" \/ op.name = "update"
  BY <1>0, <1>2, PhaseNames
<1>4. ASSUME NEW o, Continues(op, o), o.phase = "remove", o.missed = op.missed, op' = AfterClean(o)
      PROVE  /\ Continues(op, op') /\ op'.missed = op.missed
             /\ op.name = "drop" => op'.phase = "remove" \/ op'.phase = "unrecord"
             /\ op.name = "update" => op'.phase = "remove" \/ op'.phase = "cleaned"
  <2>1. IsOperation(o) /\ o.name = op.name
    BY <1>4 DEF Continues
  <2>2. PICK u : u = AfterClean(o)
    OBVIOUS
  <2>3. /\ Continues(o, u) /\ Keeps(o, u)
        /\ \/ u.phase = "remove"
           \/ op.name = "drop" /\ u.phase = "unrecord"
           \/ op.name # "drop" /\ u.phase = "cleaned"
    BY <1>4, <2>1, <2>2, AfterCleanFields
  <2>4. Continues(op, u) /\ u.missed = op.missed
    BY <1>4, <2>3 DEF Continues, Keeps
  <2>5. op.name = "update" => op.name # "drop"
    OBVIOUS
  <2> QED
    BY <1>4, <2>2, <2>3, <2>4, <2>5
<1>5. /\ Continues(op, op') /\ op'.missed = op.missed
      /\ op.name = "drop" => op'.phase = "remove" \/ op'.phase = "unrecord"
      /\ op.name = "update" => op'.phase = "remove" \/ op'.phase = "cleaned"
  <2>1. CASE CleanupPrefixComponentFiles
    <3>1. PICK o : o = [op EXCEPT !.phase = "remove", !.todo = Unreferenced(op.comps)]
      OBVIOUS
    <3>2. op' = AfterClean(o)
      BY <2>1, <3>1 DEF CleanupPrefixComponentFiles
    <3>3. Continues(op, o) /\ o.phase = "remove" /\ o.missed = op.missed
      BY <1>0, <3>1 DEF IsOperation, Continues
    <3> QED
      BY <1>4, <3>2, <3>3
  <2>2. CASE RemoveFile(<<c, x>>)
    <3>1. PICK o : o = [op EXCEPT !.todo = op.todo \ {<<c, x>>}]
      OBVIOUS
    <3>2. op' = AfterClean(o) /\ op.phase = "remove"
      BY <2>2, <3>1 DEF RemoveFile, Running
    <3>3. Continues(op, o) /\ o.phase = "remove" /\ o.missed = op.missed
      BY <1>0, <3>1, <3>2 DEF IsOperation, Continues
    <3> QED
      BY <1>4, <3>2, <3>3
  <2>3. CASE CleanupFails
    <3>1. op.name = "drop" /\ op' = [op EXCEPT !.phase = "unrecord", !.todo = {}, !.clean = FALSE]
      BY <2>3 DEF CleanupFails
    <3>2. Continues(op, op') /\ op'.phase = "unrecord" /\ op'.missed = op.missed
      BY <1>0, <3>1 DEF IsOperation, Continues
    <3> QED
      BY <3>1, <3>2
  <2> QED
    BY <2>1, <2>2, <2>3
<1> QED
  BY <1>1, <1>2, <1>3, <1>5

\* the steps of a cleanup
LEMMA CleaningSites ==
  ASSUME Core, Sites, NEW c, NEW x,
         CleanupPrefixComponentFiles \/ RemoveFile(<<c, x>>) \/ CleanupFails
  PROVE  Sites'
<1>1. /\ UNCHANGED <<db, cache, conf, why, site>> /\ op.name # "idle"
      /\ op.phase = "clean" \/ op.phase = "remove"
      /\ op.name = "drop" \/ op.name = "update"
      /\ Continues(op, op') /\ op'.missed = op.missed
      /\ op.name = "drop" => op'.phase = "remove" \/ op'.phase = "unrecord"
      /\ op.name = "update" => op'.phase = "remove" \/ op'.phase = "cleaned"
  BY CleaningShape
<1>2. op'.name = op.name /\ op'.dist = op.dist
  BY <1>1 DEF Continues
<1>3. /\ op'.phase \notin {"link", "dists"} /\ op'.phase \notin {"index", "release", "sign"}
      /\ op'.phase \notin Putting /\ op.phase \in Cleaning /\ op.phase # "dists"
  BY <1>1 DEF Cleaning, Putting
<1>4. ASSUME NEW d \in Dists, Quiet(d)'
      PROVE  Quiet(d)
  <2>1. CASE op.dist = d
    <3>1. op.name = "update" /\ "torn" \notin why[d]
      BY <1>1, <1>2, <1>3, <1>4, <2>1 DEF Quiet
    <3> QED
      BY <1>3, <3>1 DEF Quiet
  <2>2. CASE op.dist # d
    BY <1>1, <1>4, <2>2 DEF Quiet
  <2> QED
    BY <2>1, <2>2
<1>5. \A d \in Dists : Kept(d)
  BY <1>1 DEF Kept
<1>6. \A d \in Dists : Quiet(d)' => Settled(d)'
  BY <1>1, <1>4, <1>5, QuietKept
<1>7. Fresh' /\ Dropped'
  BY <1>1, <1>2, <1>3 DEF Fresh, Dropped, Sites
<1> QED
  BY <1>1, <1>6, <1>7, SitesFrame

\* what the steps of Remove before the cleanup have in common
LEMMA RemovingShape ==
  ASSUME Core, NEW c, NEW x, RemoveFiles \/ RemovePool(<<c, x>>)
  PROVE  /\ UNCHANGED <<db, conf, why>> /\ op.name = "drop" /\ op.name # "idle"
         /\ op.phase = IF RemoveFiles THEN "dists" ELSE "pool"
         /\ \E o : /\ Continues(op, o) /\ o.missed = op.missed /\ o.phase = "pool" /\ AfterPool(o)
                   /\ ~RemoveFiles => o.todo = op.todo \ {<<c, x>>}
                   /\ RemoveFiles =>
                        o.todo = InPool(IF Others(op.dist) = {} THEN Comps ELSE DOMAIN op.new \ op.comps)
         /\ Continues(op, op') /\ op'.missed = op.missed
         /\ op'.phase = "pool" \/ op'.phase = "clean" \/ op'.phase = "unrecord"
<1>0. Operations /\ IsOperation(op)
  BY DEF Core, Operations
<1>1. UNCHANGED <<db, conf, why>> /\ op.name # "idle"
  BY DEF RemoveFiles, RemovePool, Running, paths, fixed
<1>2. op.phase = IF RemoveFiles THEN "dists" ELSE "pool"
  BY DEF RemoveFiles, RemovePool, Running
<1>3. op.phase = "dists" \/ op.phase = "pool"
  BY <1>2
<1>4. op.name = "drop"
  BY <1>0, <1>1, <1>3, PhaseNames
<1>5. PICK o : /\ Continues(op, o) /\ o.missed = op.missed /\ o.phase = "pool" /\ AfterPool(o)
               /\ ~RemoveFiles => o.todo = op.todo \ {<<c, x>>}
               /\ RemoveFiles =>
                    o.todo = InPool(IF Others(op.dist) = {} THEN Comps ELSE DOMAIN op.new \ op.comps)
  <2>1. CASE RemoveFiles
    <3>1. PICK t : t = InPool(IF Others(op.dist) = {} THEN Comps ELSE DOMAIN op.new \ op.comps)
      OBVIOUS
    <3>2. PICK o : o = [op EXCEPT !.phase = "pool", !.todo = t]
      OBVIOUS
    <3>3. Continues(op, o) /\ o.phase = "pool" /\ o.missed = op.missed /\ o.todo = t
      BY <1>0, <3>2 DEF IsOperation, Continues
    <3>4. AfterPool(o)
      BY <2>1, <3>1, <3>2 DEF RemoveFiles
    <3> QED
      BY <2>1, <3>1, <3>3, <3>4
  <2>2. CASE ~RemoveFiles
    <3>1. PICK t : t = op.todo \ {<<c, x>>}
      OBVIOUS
    <3>2. PICK o : o = [op EXCEPT !.todo = t]
      OBVIOUS
    <3>3. Continues(op, o) /\ o.phase = op.phase /\ o.missed = op.missed /\ o.todo = t
      BY <1>0, <3>2 DEF IsOperation, Continues
    <3>4. AfterPool(o) /\ op.phase = "pool"
      BY <2>2, <3>1, <3>2 DEF RemovePool, Running
    <3> QED
      BY <2>2, <3>1, <3>3, <3>4
  <2> QED
    BY <2>1, <2>2
<1>6. IsOperation(o)
  BY <1>5 DEF Continues
<1>7. /\ Continues(op, op') /\ op'.missed = op.missed
      /\ op'.phase = "pool" \/ op'.phase = "clean" \/ op'.phase = "unrecord"
  <2>1. CASE o.todo # {}
    BY <1>5, <2>1 DEF AfterPool
  <2>2. CASE o.todo = {}
    <3>1. PICK b, ph : op' = [o EXCEPT !.phase = ph, !.clean = b] /\ (ph = "unrecord" \/ ph = "clean")
      BY <1>5, <2>2 DEF AfterPool
    <3>2. Continues(o, op') /\ op'.phase = ph /\ op'.missed = o.missed
      BY <1>6, <3>1 DEF IsOperation, Continues
    <3> QED
      BY <1>5, <3>1, <3>2 DEF Continues
  <2> QED
    BY <2>1, <2>2
<1> QED
  BY <1>1, <1>2, <1>4, <1>5, <1>7

\* no files at all
LEMMA NoFiles ==
  ASSUME NEW d, site'[d] = EmptySite, d \notin DOMAIN db'
  PROVE  Settled(d)'
<1>1. site'[d].vis = <<>>
  BY EmptySiteFields
<1>2. At(site'[d].vis, Release) = {}
  BY <1>1, EmptyFunction DEF At
<1>3. ~Recorded(d)'
  BY DEF Recorded
<1> QED
  BY <1>2, <1>3 DEF Settled

\* the steps of Remove before the cleanup
LEMMA RemovingSites ==
  ASSUME Core, Sites, NEW c, NEW x, RemoveFiles \/ RemovePool(<<c, x>>)
  PROVE  Sites'
<1>1. /\ UNCHANGED <<db, conf, why>> /\ op.name = "drop" /\ op.name # "idle"
      /\ op.phase = IF RemoveFiles THEN "dists" ELSE "pool"
      /\ Continues(op, op')
      /\ op'.phase = "pool" \/ op'.phase = "clean" \/ op'.phase = "unrecord"
  BY RemovingShape
<1>2. op'.name = op.name /\ op'.dist = op.dist
  BY <1>1 DEF Continues
<1>3. /\ op'.phase \notin {"link", "dists"} /\ op'.phase \notin {"index", "release", "sign"}
      /\ op'.phase \notin Putting /\ op'.name # "update"
  BY <1>1, <1>2 DEF Putting
<1>4. site'[op.dist] = EmptySite
  <2>1. CASE RemoveFiles
    BY <2>1, RemoveFilesShape
  <2>2. CASE ~RemoveFiles
    <3>1. site' = site /\ op.phase = "pool"
      BY <1>1, <2>2 DEF RemovePool
    <3>2. op.phase # "dists"
      BY <3>1
    <3> QED
      BY <1>1, <3>1, <3>2 DEF Sites, Dropped
  <2> QED
    BY <2>1, <2>2
<1>5. ASSUME NEW d \in Dists, Quiet(d)'
      PROVE  Settled(d)'
  <2>1. d # op.dist /\ "torn" \notin why[d]
    BY <1>1, <1>2, <1>3, <1>5 DEF Quiet
  <2>2. CASE site'[d] = site[d]
    <3>1. Kept(d)
      BY <1>1, <2>2 DEF Kept
    <3> QED
      BY <1>1, <1>5, <2>1, <3>1, OthersSettled
  <2>3. CASE site'[d] = EmptySite /\ Others(op.dist) = {}
    <3>1. d \notin DOMAIN cache
      BY <2>1, <2>3 DEF Others
    <3>2. d \notin DOMAIN db
      BY <2>1, <3>1 DEF Core, Cached
    <3> QED
      BY <1>1, <2>3, <3>2, NoFiles
  <2>4. site'[d] = site[d] \/ (site'[d] = EmptySite /\ Others(op.dist) = {})
    <3>1. CASE RemoveFiles
      BY <2>1, <3>1, RemoveFilesShape
    <3>2. CASE ~RemoveFiles
      BY <3>2 DEF RemovePool
    <3> QED
      BY <3>1, <3>2
  <2> QED
    BY <2>2, <2>3, <2>4
<1>6. Fresh'
  BY <1>3 DEF Fresh
<1>7. Dropped'
  BY <1>2, <1>4 DEF Dropped
<1> QED
  BY <1>1, <1>5, <1>6, <1>7, SitesFrame

\* an operation ends
LEMMA EndSites ==
  ASSUME Sites, conf' = conf, op' = Idle, \A d \in Dists : Quiet(d)' => Settled(d)'
  PROVE  Sites'
<1>1. op'.name = "idle" /\ op'.phase = "none"
  BY IdleOperation
<1>2. op'.name # "drop" /\ op'.phase \notin Putting
  BY <1>1 DEF Putting
<1>3. Fresh' /\ Dropped'
  BY <1>2 DEF Fresh, Dropped
<1> QED
  BY <1>3, SitesFrame

\* the end of a cleanup
LEMMA CleanedUpSites ==
  ASSUME Core, Sites, CleanedUp
  PROVE  Sites'
<1>1. /\ UNCHANGED <<db, site, conf, why>> /\ op' = Idle /\ op.name # "idle" /\ op.phase = "cleaned"
  BY DEF CleanedUp, Running, data, files, paths, fixed
<1>2. op.name = "update" /\ op.phase \in Cleaning
  BY <1>1, PhaseNames DEF Core, Cleaning
<1>3. \A d \in Dists : Quiet(d)' => Quiet(d)
  BY <1>1, <1>2 DEF Quiet
<1>4. \A d \in Dists : Kept(d)
  BY <1>1 DEF Kept
<1>5. \A d \in Dists : Quiet(d)' => Settled(d)'
  BY <1>1, <1>3, <1>4, QuietKept
<1> QED
  BY <1>1, <1>5, EndSites

\* the end of Remove
LEMMA UnrecordSites ==
  ASSUME Core, Sites, Unrecord
  PROVE  Sites'
<1>1. /\ UNCHANGED <<site, conf>> /\ op' = Idle /\ op.name # "idle" /\ op.phase = "unrecord"
      /\ db' = Unbind(db, {op.dist}) /\ why' = [why EXCEPT ![op.dist] = {}]
  BY DEF Unrecord, Running, files, paths, fixed
<1>2. op.name = "drop" /\ op.phase # "dists"
  BY <1>1, PhaseNames DEF Core
<1>3. site[op.dist] = EmptySite
  BY <1>2 DEF Sites, Dropped
<1>4. DOMAIN db' = DOMAIN db \ {op.dist} /\ \A d \in DOMAIN db : d # op.dist => db'[d] = db[d]
  BY <1>1 DEF Unbind
<1>5. \A d \in Dists : d # op.dist => why'[d] = why[d]
  BY <1>1 DEF Core, TypeOK
<1>6. ASSUME NEW d \in Dists, Quiet(d)'
      PROVE  Settled(d)'
  <2>1. CASE d = op.dist
    BY <1>1, <1>3, <1>4, <2>1, NoFiles
  <2>2. CASE d # op.dist
    <3>1. Kept(d) /\ why[d] \subseteq why'[d]
      BY <1>1, <1>4, <1>5, <2>2 DEF Kept
    <3> QED
      BY <1>1, <1>6, <2>2, <3>1, OthersSettled
  <2> QED
    BY <2>1, <2>2
<1> QED
  BY <1>1, <1>6, EndSites

\* what an interrupted operation leaves behind
LEMMA StopShape ==
  ASSUME Core, Refuse \/ Abort \/ Crash
  PROVE  \E stale : Stop(stale) /\ (site' = site \/ Unfinished)
<1>1. CASE Refuse
  BY <1>1 DEF Refuse, ReturnError
<1>2. CASE Abort
  BY <1>2 DEF Abort, ReturnError
<1>3. CASE Crash
  BY <1>3 DEF Crash
<1> QED
  BY <1>1, <1>2, <1>3

\* A failure that leaves nothing behind has not changed what clients see.
LEMMA StopKept ==
  ASSUME Core, NEW stale, Stop(stale), site' = site \/ Unfinished, "torn" \notin why'[op.dist]
  PROVE  Quiet(op.dist) /\ Kept(op.dist)
<1>1. TypeOK /\ Operations /\ Shapes
  BY CoreShapes DEF Core
<1>2. /\ op.name # "idle" /\ op.dist \in Dists /\ db' = db /\ pub' = pub
      /\ why[op.dist] \subseteq why'[op.dist]
      /\ op.name = "drop" \/ op.phase \in {"rename", "save", "refs"}
           \/ (op.side = "vis" /\ op.phase \in {"index", "release", "sign"})
         => "torn" \in why'[op.dist]
  BY <1>1, StopFields
<1>3. /\ op.name # "drop" /\ op.phase \notin {"rename", "save", "refs"}
      /\ ~(op.side = "vis" /\ op.phase \in {"index", "release", "sign"})
  BY <1>2
<1>4. "torn" \notin why[op.dist]
  BY <1>2
<1>5. \/ op.phase = "link" \/ op.phase \in {"index", "release", "sign"}
      \/ op.name = "update" /\ op.phase \in Cleaning
  BY <1>1, <1>2, <1>3 DEF Operations, Putting, Cleaning
<1>6. op.side = "vis" \/ op.side = "tmp"
  BY <1>1 DEF Operations
<1>7. Quiet(op.dist)
  <2>1. CASE op.phase = "link"
    BY <1>4, <2>1 DEF Quiet
  <2>2. CASE op.phase \in {"index", "release", "sign"}
    BY <1>3, <1>4, <1>6, <2>2 DEF Quiet
  <2>3. CASE op.name = "update" /\ op.phase \in Cleaning
    BY <1>4, <2>3 DEF Quiet
  <2> QED
    BY <1>5, <2>1, <2>2, <2>3
<1>8. site'[op.dist].vis = site[op.dist].vis
  <2>1. CASE site' = site
    BY <2>1
  <2>2. CASE Unfinished /\ site' # site
    <3>1. op.phase # "dists"
      BY <1>5 DEF Cleaning
    <3>2. PICK x : /\ \/ op.phase = "index" /\ x \in op.todo
                      \/ op.phase = "release" /\ x = Release
                      \/ op.phase = "sign" /\ x = Signatures
                   /\ site'[op.dist] = PutFile(site[op.dist], op.side, x, Partial)
      BY <1>1, <1>2, <2>2, <3>1, UnfinishedShape
    <3>3. op.phase \in {"index", "release", "sign"}
      BY <3>2
    <3>4. op.side # "vis"
      BY <1>3, <3>3
    <3>5. PICK s : s = site[op.dist] /\ IsSite(s)
      BY <1>1, <1>2 DEF Shapes
    <3>6. PICK u : u = PutFile(s, op.side, x, Partial)
      OBVIOUS
    <3>7. u.vis = s.vis
      BY <3>4, <3>5, <3>6, PutFileShape, SMTT(30)
    <3> QED
      BY <3>2, <3>5, <3>6, <3>7
  <2> QED
    BY <2>1, <2>2
<1> QED
  BY <1>2, <1>7, <1>8 DEF Kept

\* a failure
LEMMA StopSites ==
  ASSUME Core, Sites, Refuse \/ Abort \/ Crash
  PROVE  Sites'
<1>1. PICK stale : Stop(stale) /\ (site' = site \/ Unfinished)
  BY StopShape
<1>2. TypeOK /\ Operations /\ Shapes
  BY CoreShapes DEF Core
<1>3. /\ op.name # "idle" /\ op.dist \in Dists /\ op' = Idle
      /\ db' = db /\ pub' = pub /\ conf' = conf
      /\ \A d \in Dists : why[d] \subseteq why'[d]
      /\ \A d \in Dists : d # op.dist => why'[d] = why[d]
      /\ op.name = "drop" \/ op.phase \in {"rename", "save", "refs"}
           \/ (op.side = "vis" /\ op.phase \in {"index", "release", "sign"})
         => "torn" \in why'[op.dist]
  BY <1>1, <1>2, StopFields
<1>4. \A e \in Dists : e # op.dist => site'[e] = site[e]
  BY <1>1, <1>2, <1>3, UnfinishedShape
<1>5. "torn" \notin why'[op.dist] => Quiet(op.dist) /\ Kept(op.dist)
  BY <1>1, StopKept
<1>6. ASSUME NEW d \in Dists, Quiet(d)'
      PROVE  Settled(d)'
  <2>1. "torn" \notin why'[d]
    BY <1>6 DEF Quiet
  <2>2. CASE d = op.dist
    BY <1>3, <1>5, <2>1, <2>2, QuietKept
  <2>3. CASE d # op.dist
    <3>1. Kept(d)
      BY <1>3, <1>4, <2>3 DEF Kept
    <3> QED
      BY <1>3, <1>6, <2>3, <3>1, OthersSettled
  <2> QED
    BY <2>2, <2>3
<1> QED
  BY <1>3, <1>6, EndSites

\* the by-hash files are not among those
LEMMA HashSites ==
  ASSUME Core, Sites, PackageIndexByHash \/ IgnoredError
  PROVE  Sites'
<1>1. /\ UNCHANGED <<db, conf, op, why>> /\ op.name # "drop"
      /\ \A d \in Dists : site'[d].vis = site[d].vis
  BY HashCore
<1>2. op.dist \in Dists
  BY HashCore
<1>3. \A d \in Dists : Quiet(d)' => Settled(d)'
  <2>1. \A d \in Dists : Quiet(d)' => Quiet(d)
    BY <1>1 DEF Quiet
  <2>2. \A d \in Dists : Kept(d)
    BY <1>1 DEF Kept
  <2> QED
    BY <1>1, <2>1, <2>2, QuietKept
<1>4. Written' = Written /\ \A y : (Shown(y)' <=> Shown(y)) /\ Target(y)' = Target(y)
  BY <1>1, <1>2 DEF Written, Shown, Target, Rel
<1>5. Progress'
  BY <1>1, <1>4 DEF Sites, Progress
<1>6. Dropped'
  BY <1>1 DEF Dropped
<1> QED
  BY <1>3, <1>5, <1>6 DEF Sites

\* Every step keeps what clients see and the database in agreement.
LEMMA NextSites == Core /\ Sites /\ [Next]_vars => Sites'
<1> SUFFICES ASSUME Core, Sites, [Next]_vars
             PROVE  Sites'
  OBVIOUS
<1>1. CASE \E c \in Comps, p \in Pkgs : LinkFromPool(c, p) \/ LinkFromPoolS3(c, p)
  BY <1>1, LinkSites
<1>2. CASE \/ \E i \in Index : FinalizeIndex(i)
           \/ \E sign \in conf.sign : FinalizeRelease(sign)
           \/ SignRelease
           \/ \E x \in Index \cup {Release, Signatures} : RenameFiles(x)
  BY <1>2, IndexSites, ReleaseSites, SignSites, RenameSites
<1>3. CASE SaveRecord \/ \E c \in Comps : SaveRefs(c)
  BY <1>3, SaveSites
<1>4. CASE \/ CleanupPrefixComponentFiles \/ CleanupFails
           \/ \E c \in Comps, x \in Paths : RemoveFile(<<c, x>>)
  BY <1>4, CleaningSites
<1>5. CASE RemoveFiles \/ \E c \in Comps, x \in Paths : RemovePool(<<c, x>>)
  BY <1>5, RemovingSites
<1>6. CASE Commands \/ CleanedUp \/ Unrecord
  BY <1>6, CommandsSites, CleanedUpSites, UnrecordSites
<1>12. CASE PackageIndexByHash \/ IgnoredError
  BY <1>12, HashSites
<1>7. CASE Step
  BY <1>1, <1>2, <1>3, <1>4, <1>5, <1>6, <1>7, <1>12 DEF Step
<1>8. CASE Refuse \/ Abort \/ Crash
  BY <1>8, StopSites
<1>9. ASSUME UNCHANGED <<db, site, conf, op, why>>
      PROVE  Sites'
  <2>1. \A d \in Dists : Quiet(d)' => Quiet(d)
    BY <1>9 DEF Quiet
  <2>2. \A d \in Dists : Kept(d)
    BY <1>9 DEF Kept
  <2>3. \A d \in Dists : Quiet(d)' => Settled(d)'
    BY <1>9, <2>1, <2>2, QuietKept
  <2>4. Written' = Written /\ \A y : (Shown(y)' <=> Shown(y)) /\ Target(y)' = Target(y)
    BY <1>9 DEF Written, Shown, Target, Rel
  <2>5. Progress'
    BY <1>9, <2>4 DEF Sites, Progress
  <2>6. Dropped'
    BY <1>9 DEF Sites, Dropped
  <2> QED
    BY <2>3, <2>5, <2>6 DEF Sites
<1>10. CASE Reload \/ Flush
  BY <1>9, <1>10 DEF Reload, Flush, files, fixed, paths
<1>11. CASE UNCHANGED vars
  BY <1>9, <1>11 DEF vars
<1> QED
  BY <1>7, <1>8, <1>10, <1>11, <1>12 DEF Next

\* the beginning
LEMMA InitSites == Init => Sites
<1> SUFFICES ASSUME Init
             PROVE  Sites
  OBVIOUS
<1>1. db = <<>> /\ op = Idle /\ \A d \in Dists : site[d] = EmptySite
  BY DEF Init
<1>2. op.name = "idle" /\ op.phase = "none"
  BY <1>1, IdleOperation
<1>3. op.name # "drop" /\ op.phase \notin Putting
  BY <1>2 DEF Putting
<1>4. \A d : ~Recorded(d)
  BY <1>1, EmptyFunction DEF Recorded
<1>5. \A d \in Dists : At(site[d].vis, Release) = {}
  BY <1>1, EmptySiteFields, EmptyFunction DEF At
<1>6. \A d \in Dists : Settled(d)
  BY <1>4, <1>5 DEF Settled
<1> QED
  BY <1>3, <1>6 DEF Sites, Progress, Dropped

\* What clients see of a distribution that is not being worked on and was not
\* left in pieces is what the database says of it; while it is worked on, the
\* files that were put are in place, or wait with the suffix.
THEOREM SitesInvariant == Spec => [](Core /\ Sites)
<1>1. Init => Core /\ Sites
  BY InitCore, InitSites
<1>2. Core /\ Sites /\ [Next]_vars => (Core /\ Sites)'
  BY NextCore, NextSites
<1> QED
  BY <1>1, <1>2, PTL DEF Spec

\* a distribution between operations
LEMMA AtRestSettled ==
  ASSUME Core, Sites, NEW d \in Dists, op.name = "idle" \/ op.dist # d, "torn" \notin why[d]
  PROVE  Settled(d)
<1>1. op.dist # d
  BY IdleFields DEF Core
<1> QED
  BY <1>1 DEF Sites, Quiet

\* Release and the files it names agree whenever no operation works on the
\* distribution: a re-publication puts everything with the suffix and renames
\* it, and where it is interrupted in between it is known to be torn.
THEOREM ReleaseNamesItsFiles == Spec => []SiteConsistent
<1>1. Core /\ Sites => SiteConsistent
  <2> SUFFICES ASSUME Core, Sites, NEW d \in Dists, NEW rel \in At(site[d].vis, Release),
                      op.name = "idle" \/ op.dist # d, "torn" \notin why[d]
               PROVE  /\ \A x \in rel : At(site[d].vis, x[1]) = {x[2]}
                      /\ "unsigned" \notin why[d] => At(site[d].vis, Signatures) \subseteq {rel}
    BY DEF SiteConsistent
  <2>1. Settled(d)
    BY AtRestSettled
  <2>2. rel \in IF Recorded(d) THEN {Rel(db[d].refs)} ELSE {}
    BY <2>1 DEF Settled
  <2>3. Recorded(d) /\ rel = Rel(db[d].refs)
    BY <2>2
  <2> QED
    BY <2>1, <2>3 DEF Settled
<1> QED
  BY <1>1, SitesInvariant, PTL

\* The database and the published storage agree whenever no operation works on
\* the distribution: there is a Release exactly if there is a complete record,
\* and it is the one that the record's references give.
THEOREM DatabaseMatchesSite == Spec => []RecordMatchesSite
<1>1. Core /\ Sites => RecordMatchesSite
  <2> SUFFICES ASSUME Core, Sites, NEW d \in Dists, op.name = "idle" \/ op.dist # d,
                      "torn" \notin why[d]
               PROVE  At(site[d].vis, Release) =
                        IF d \in DOMAIN db /\ DOMAIN db[d].refs = db[d].comps
                        THEN {ReleaseOf(db[d].refs, conf.contents)} ELSE {}
    BY DEF RecordMatchesSite
  <2>1. Settled(d)
    BY AtRestSettled
  <2> QED
    <3>1. CASE Recorded(d)
      BY <2>1, <3>1 DEF Settled, Recorded, Rel
    <3>2. CASE ~Recorded(d)
      BY <2>1, <3>2 DEF Settled, Recorded, Rel
    <3> QED
      BY <3>1, <3>2
<1> QED
  BY <1>1, SitesInvariant, PTL

----------------------------------------------------------------------------
(* The by-hash files                                                       *)

\* the by-hash file of an index with these contents
Key(i, w) == <<Dir(i), w>>

\* no two links of a site lead to one by-hash file
LinksDiffer(s) ==
  /\ \A i, j \in Index : i \in DOMAIN s.link /\ j \in DOMAIN s.link /\ i # j =>
       Key(i, s.link[i]) # Key(j, s.link[j])
  /\ \A i, j \in Index : i \in DOMAIN s.old /\ j \in DOMAIN s.old /\ i # j =>
       Key(i, s.old[i]) # Key(j, s.old[j])
  /\ \A i, j \in Index : i \in DOMAIN s.link /\ j \in DOMAIN s.old =>
       Key(i, s.link[i]) # Key(j, s.old[j])

\* Links lead to files, except the .old link of i between the removal of its
\* target and its own.
LinksLead(s, step, i) ==
  /\ \A j \in Index : j \in DOMAIN s.link => Key(j, s.link[j]) \in DOMAIN s.sum
  /\ \A j \in Index : j \in DOMAIN s.old /\ ~(step \in {"old", "rename"} /\ j = i) =>
       Key(j, s.old[j]) \in DOMAIN s.sum

\* The file of this key is there, and no link leads to it yet.
Unlinked(s, key) ==
  /\ key \in DOMAIN s.sum
  /\ \A j \in Index : j \in DOMAIN s.link => Key(j, s.link[j]) # key
  /\ \A j \in Index : j \in DOMAIN s.old => Key(j, s.old[j]) # key

\* What is true of a site before the step of packageIndexByHash that gives
\* index i the contents w: what the step removes is the target of no other
\* link, and what it links to is there.
Apart(s, step, i, w) ==
  /\ LinksDiffer(s) /\ LinksLead(s, step, i)
  /\ step = "link" => Key(i, w) \notin DOMAIN s.sum
  /\ step \in {"target", "old", "rename", "symlink"} => Unlinked(s, Key(i, w))
  /\ step \in {"target", "old", "rename"} => i \in DOMAIN s.link
  /\ step = "target" => i \in DOMAIN s.old

\* what Apart depends on
LEMMA ApartFrame ==
  ASSUME NEW s, NEW u, NEW step, NEW i, NEW w, Apart(s, step, i, w),
         u.link = s.link, u.old = s.old, DOMAIN u.sum = DOMAIN s.sum
  PROVE  Apart(u, step, i, w)
<1>1. LinksDiffer(u) /\ LinksLead(u, step, i)
  BY DEF Apart, LinksDiffer, LinksLead
<1>2. step \in {"target", "old", "rename", "symlink"} => Unlinked(u, Key(i, w))
  BY DEF Apart, Unlinked
<1> QED
  BY <1>1, <1>2 DEF Apart

\* no links
LEMMA NoLinks == \A i, w : Apart(EmptySite, "none", i, w)
<1>1. LinksDiffer(EmptySite) /\ \A i : LinksLead(EmptySite, "none", i)
  BY EmptySiteFields, EmptyFunction DEF LinksDiffer, LinksLead
<1> QED
  BY <1>1 DEF Apart

\* Between two runs of packageIndexByHash it does not matter for which index.
\* So too when one was interrupted, unless that has left an .old link without
\* its target.
LEMMA ApartAtRest ==
  ASSUME NEW s, NEW step, NEW i, NEW w, Apart(s, step, i, w), NEW j, NEW v,
         ~(step \in {"old", "rename"} /\ i \in DOMAIN s.old)
  PROVE  Apart(s, "none", j, v)
<1>1. LinksDiffer(s) /\ LinksLead(s, step, i)
  BY DEF Apart
<1>2. LinksLead(s, "none", j)
  BY <1>1 DEF LinksLead
<1> QED
  BY <1>1, <1>2 DEF Apart

\* the index was put, and its checksum is new
LEMMA ApartBegins ==
  ASSUME NEW s, NEW i, NEW w, NEW j, NEW v, Apart(s, "none", j, v), Key(i, w) \notin DOMAIN s.sum
  PROVE  Apart(s, "link", i, w)
<1>1. LinksDiffer(s) /\ LinksLead(s, "link", i)
  BY DEF Apart, LinksLead
<1> QED
  BY <1>1 DEF Apart

\* the hard link
LEMMA HardLinkApart ==
  ASSUME NEW s, IsSite(s), NEW side, NEW i \in Index, NEW w, Apart(s, "link", i, w),
         NEW u, u = HardLink(s, side, i, w)
  PROVE  Apart(u, AfterHardLink(s, i), i, w)
<1>1. PICK m : m = Bind(s.sum, Key(i, w), w)
  OBVIOUS
<1>2. PICK al : al = s.alias \cup {<<side, i, <<Dir(i), w>>>>}
  OBVIOUS
<1>3. u = [s EXCEPT !.sum = m, !.alias = al]
  BY <1>1, <1>2 DEF HardLink, Key
<1>4. u.link = s.link /\ u.old = s.old /\ u.sum = m
  BY <1>3 DEF IsSite
<1>5. DOMAIN u.sum = DOMAIN s.sum \cup {Key(i, w)}
  BY <1>1, <1>4 DEF Bind
<1>6. LinksDiffer(u)
  BY <1>4 DEF Apart, LinksDiffer
<1>7. /\ \A j \in Index : j \in DOMAIN s.link => Key(j, s.link[j]) \in DOMAIN s.sum
      /\ \A j \in Index : j \in DOMAIN s.old => Key(j, s.old[j]) \in DOMAIN s.sum
      /\ Key(i, w) \notin DOMAIN s.sum
  BY DEF Apart, LinksLead
<1>8. Unlinked(u, Key(i, w))
  BY <1>4, <1>5, <1>7 DEF Unlinked
<1>9. LinksLead(u, AfterHardLink(s, i), i)
  BY <1>4, <1>5, <1>7 DEF LinksLead
<1>10. CASE i \notin DOMAIN s.link
  <2>1. AfterHardLink(s, i) = "symlink"
    BY <1>10 DEF AfterHardLink
  <2> QED
    BY <1>6, <1>8, <1>9, <2>1 DEF Apart
<1>11. CASE i \in DOMAIN s.link /\ i \in DOMAIN s.old
  <2>1. AfterHardLink(s, i) = "target"
    BY <1>11 DEF AfterHardLink
  <2> QED
    BY <1>4, <1>6, <1>8, <1>9, <1>11, <2>1 DEF Apart
<1>12. CASE i \in DOMAIN s.link /\ i \notin DOMAIN s.old
  <2>1. AfterHardLink(s, i) = "rename"
    BY <1>12 DEF AfterHardLink
  <2> QED
    BY <1>4, <1>6, <1>8, <1>9, <1>12, <2>1 DEF Apart
<1> QED
  BY <1>10, <1>11, <1>12

\* the removal of the target of the .old link
LEMMA RemoveTargetApart ==
  ASSUME NEW s, IsSite(s), NEW i \in Index, NEW w, Apart(s, "target", i, w),
         NEW u, u = RemoveTarget(s, i)
  PROVE  Apart(u, "old", i, w)
<1>1. PICK key : key = Key(i, s.old[i])
  OBVIOUS
<1>2. PICK m : m = Unbind(s.sum, {key})
  OBVIOUS
<1>3. PICK al : al = {a \in s.alias : a[3] # key}
  OBVIOUS
<1>4. u = [s EXCEPT !.sum = m, !.alias = al]
  BY <1>1, <1>2, <1>3 DEF RemoveTarget, RemoveSum, Key
<1>5. u.link = s.link /\ u.old = s.old /\ u.sum = m
  BY <1>4 DEF IsSite
<1>6. DOMAIN u.sum = DOMAIN s.sum \ {key}
  BY <1>2, <1>5 DEF Unbind
<1>7. LinksDiffer(s) /\ LinksLead(s, "target", i) /\ Unlinked(s, Key(i, w))
      /\ i \in DOMAIN s.link /\ i \in DOMAIN s.old
  BY DEF Apart
<1>8. LinksDiffer(u)
  BY <1>5, <1>7 DEF LinksDiffer
<1>9. \A j \in Index : j \in DOMAIN u.link => Key(j, u.link[j]) \in DOMAIN u.sum
  <2>1. \A j \in Index : j \in DOMAIN s.link => Key(j, s.link[j]) # key
    BY <1>1, <1>7 DEF LinksDiffer
  <2> QED
    BY <1>5, <1>6, <1>7, <2>1 DEF LinksLead
<1>10. \A j \in Index : j \in DOMAIN u.old /\ j # i => Key(j, u.old[j]) \in DOMAIN u.sum
  <2>1. \A j \in Index : j \in DOMAIN s.old /\ j # i => Key(j, s.old[j]) # key
    BY <1>1, <1>7 DEF LinksDiffer
  <2> QED
    BY <1>5, <1>6, <1>7, <2>1 DEF LinksLead
<1>11. LinksLead(u, "old", i)
  BY <1>9, <1>10 DEF LinksLead
<1>12. Unlinked(u, Key(i, w))
  <2>1. Key(i, w) # key
    BY <1>1, <1>7 DEF Unlinked
  <2> QED
    BY <1>5, <1>6, <1>7, <2>1 DEF Unlinked
<1> QED
  BY <1>5, <1>7, <1>8, <1>11, <1>12 DEF Apart

\* an error of that removal, or of the next one, is ignored
LEMMA IgnoredApart ==
  ASSUME NEW s, NEW i, NEW w
  PROVE  /\ Apart(s, "target", i, w) => Apart(s, "old", i, w)
         /\ Apart(s, "old", i, w) => Apart(s, "rename", i, w)
<1>1. /\ LinksLead(s, "target", i) => LinksLead(s, "old", i)
      /\ LinksLead(s, "old", i) => LinksLead(s, "rename", i)
  BY DEF LinksLead
<1> QED
  BY <1>1 DEF Apart

\* the removal of the .old link
LEMMA RemoveOldApart ==
  ASSUME NEW s, IsSite(s), NEW i \in Index, NEW w, Apart(s, "old", i, w),
         NEW u, u = RemoveOld(s, i)
  PROVE  Apart(u, "rename", i, w)
<1>1. PICK old : old = Unbind(s.old, {i})
  OBVIOUS
<1>2. u = [s EXCEPT !.old = old]
  BY <1>1 DEF RemoveOld
<1>3. u.link = s.link /\ u.old = old /\ u.sum = s.sum
  BY <1>2 DEF IsSite
<1>4. DOMAIN u.old = DOMAIN s.old \ {i} /\ \A j \in DOMAIN u.old : u.old[j] = s.old[j]
  BY <1>1, <1>3 DEF Unbind
<1>5. LinksDiffer(s) /\ LinksLead(s, "old", i) /\ Unlinked(s, Key(i, w)) /\ i \in DOMAIN s.link
  BY DEF Apart
<1>6. LinksDiffer(u)
  BY <1>3, <1>4, <1>5 DEF LinksDiffer
<1>7. LinksLead(u, "rename", i)
  BY <1>3, <1>4, <1>5 DEF LinksLead
<1>8. Unlinked(u, Key(i, w))
  BY <1>3, <1>4, <1>5 DEF Unlinked
<1> QED
  BY <1>3, <1>5, <1>6, <1>7, <1>8 DEF Apart

\* the link to the latest checksum becomes the .old one
LEMMA RenameLinkApart ==
  ASSUME NEW s, IsSite(s), NEW i \in Index, NEW w, Apart(s, "rename", i, w),
         NEW u, u = RenameLink(s, i)
  PROVE  Apart(u, "symlink", i, w)
<1>1. PICK old : old = Bind(s.old, i, s.link[i])
  OBVIOUS
<1>2. PICK link : link = Unbind(s.link, {i})
  OBVIOUS
<1>3. u = [s EXCEPT !.old = old, !.link = link]
  BY <1>1, <1>2 DEF RenameLink
<1>4. u.link = link /\ u.old = old /\ u.sum = s.sum
  BY <1>3 DEF IsSite
<1>5. DOMAIN u.link = DOMAIN s.link \ {i} /\ \A j \in DOMAIN u.link : u.link[j] = s.link[j]
  BY <1>2, <1>4 DEF Unbind
<1>6. /\ DOMAIN u.old = DOMAIN s.old \cup {i} /\ u.old[i] = s.link[i]
      /\ \A j \in DOMAIN s.old : j # i => u.old[j] = s.old[j]
  BY <1>1, <1>4 DEF Bind
<1>7. LinksDiffer(s) /\ LinksLead(s, "rename", i) /\ Unlinked(s, Key(i, w)) /\ i \in DOMAIN s.link
  BY DEF Apart
<1>8. LinksDiffer(u)
  <2>1. \A j, k \in Index : j \in DOMAIN u.link /\ k \in DOMAIN u.link /\ j # k =>
          Key(j, u.link[j]) # Key(k, u.link[k])
    BY <1>5, <1>7 DEF LinksDiffer
  <2>2. ASSUME NEW j \in Index, NEW k \in Index, j \in DOMAIN u.old, k \in DOMAIN u.old, j # k
        PROVE  Key(j, u.old[j]) # Key(k, u.old[k])
    <3>1. CASE j = i
      BY <1>6, <1>7, <2>2, <3>1 DEF LinksDiffer
    <3>2. CASE k = i
      BY <1>6, <1>7, <2>2, <3>2 DEF LinksDiffer
    <3>3. CASE j # i /\ k # i
      BY <1>6, <1>7, <2>2, <3>3 DEF LinksDiffer
    <3> QED
      BY <3>1, <3>2, <3>3
  <2>3. ASSUME NEW j \in Index, NEW k \in Index, j \in DOMAIN u.link, k \in DOMAIN u.old
        PROVE  Key(j, u.link[j]) # Key(k, u.old[k])
    <3>1. CASE k = i
      BY <1>5, <1>6, <1>7, <2>3, <3>1 DEF LinksDiffer
    <3>2. CASE k # i
      BY <1>5, <1>6, <1>7, <2>3, <3>2 DEF LinksDiffer
    <3> QED
      BY <3>1, <3>2
  <2> QED
    BY <2>1, <2>2, <2>3 DEF LinksDiffer
<1>9. LinksLead(u, "symlink", i)
  <2>1. \A j \in Index : j \in DOMAIN u.link => Key(j, u.link[j]) \in DOMAIN u.sum
    BY <1>4, <1>5, <1>7 DEF LinksLead
  <2>2. ASSUME NEW j \in Index, j \in DOMAIN u.old
        PROVE  Key(j, u.old[j]) \in DOMAIN u.sum
    <3>1. CASE j = i
      BY <1>4, <1>6, <1>7, <3>1 DEF LinksLead
    <3>2. CASE j # i
      BY <1>4, <1>6, <1>7, <2>2, <3>2 DEF LinksLead
    <3> QED
      BY <3>1, <3>2
  <2> QED
    BY <2>1, <2>2 DEF LinksLead
<1>10. Unlinked(u, Key(i, w))
  <2>1. \A j \in Index : j \in DOMAIN u.link => Key(j, u.link[j]) # Key(i, w)
    BY <1>5, <1>7 DEF Unlinked
  <2>2. ASSUME NEW j \in Index, j \in DOMAIN u.old
        PROVE  Key(j, u.old[j]) # Key(i, w)
    <3>1. CASE j = i
      BY <1>6, <1>7, <3>1 DEF Unlinked
    <3>2. CASE j # i
      BY <1>6, <1>7, <2>2, <3>2 DEF Unlinked
    <3> QED
      BY <3>1, <3>2
  <2> QED
    BY <1>4, <1>7, <2>1, <2>2 DEF Unlinked
<1> QED
  BY <1>8, <1>9, <1>10 DEF Apart

\* the link to the new checksum
LEMMA SymLinkApart ==
  ASSUME NEW s, IsSite(s), NEW i \in Index, NEW w, Apart(s, "symlink", i, w),
         NEW u, u = SymLink(s, i, w)
  PROVE  Apart(u, "none", i, w)
<1>1. PICK link : link = Bind(s.link, i, w)
  OBVIOUS
<1>2. u = [s EXCEPT !.link = link]
  BY <1>1 DEF SymLink
<1>3. u.link = link /\ u.old = s.old /\ u.sum = s.sum
  BY <1>2 DEF IsSite
<1>4. /\ DOMAIN u.link = DOMAIN s.link \cup {i} /\ u.link[i] = w
      /\ \A j \in DOMAIN s.link : j # i => u.link[j] = s.link[j]
  BY <1>1, <1>3 DEF Bind
<1>5. LinksDiffer(s) /\ LinksLead(s, "symlink", i) /\ Unlinked(s, Key(i, w))
  BY DEF Apart
<1>6. LinksDiffer(u)
  <2>1. ASSUME NEW j \in Index, NEW k \in Index, j \in DOMAIN u.link, k \in DOMAIN u.link, j # k
        PROVE  Key(j, u.link[j]) # Key(k, u.link[k])
    <3>1. CASE j = i
      BY <1>4, <1>5, <2>1, <3>1 DEF Unlinked
    <3>2. CASE k = i
      BY <1>4, <1>5, <2>1, <3>2 DEF Unlinked
    <3>3. CASE j # i /\ k # i
      BY <1>4, <1>5, <2>1, <3>3 DEF LinksDiffer
    <3> QED
      BY <3>1, <3>2, <3>3
  <2>2. ASSUME NEW j \in Index, NEW k \in Index, j \in DOMAIN u.link, k \in DOMAIN u.old
        PROVE  Key(j, u.link[j]) # Key(k, u.old[k])
    <3>1. CASE j = i
      BY <1>3, <1>4, <1>5, <2>2, <3>1 DEF Unlinked
    <3>2. CASE j # i
      BY <1>3, <1>4, <1>5, <2>2, <3>2 DEF LinksDiffer
    <3> QED
      BY <3>1, <3>2
  <2> QED
    BY <1>3, <1>5, <2>1, <2>2 DEF LinksDiffer
<1>7. LinksLead(u, "none", i)
  <2>1. ASSUME NEW j \in Index, j \in DOMAIN u.link
        PROVE  Key(j, u.link[j]) \in DOMAIN u.sum
    <3>1. CASE j = i
      BY <1>3, <1>4, <1>5, <3>1 DEF Unlinked
    <3>2. CASE j # i
      BY <1>3, <1>4, <1>5, <2>1, <3>2 DEF LinksLead
    <3> QED
      BY <3>1, <3>2
  <2> QED
    BY <1>3, <1>5, <2>1 DEF LinksLead
<1> QED
  BY <1>6, <1>7 DEF Apart

\* the step of packageIndexByHash that comes next for d
StepOf(d) == IF op.dist = d THEN hashing.step ELSE "none"

\* packageIndexByHash runs while indexes are put.
HashBusy ==
  /\ hashing = [step |-> hashing.step, index |-> hashing.index]
  /\ hashing.step # "none" =>
       op.name # "idle" /\ op.phase \in {"index", "release"} /\ hashing.index \in Index

\* the links of d, unless an interruption has left an .old link without target
LinksOf(d) ==
  "hash" \notin why[d] =>
    Apart(site[d], StepOf(d), hashing.index, Listed(hashing.index, op.new))

\* The invariant of the by-hash links.
Links == HashBusy /\ \A d \in Dists : LinksOf(d)

\* what a step does to a site, other than to put an index with its checksum
Frames(d) ==
  /\ site'[d].link = site[d].link /\ site'[d].old = site[d].old
  /\ DOMAIN site'[d].sum = DOMAIN site[d].sum

\* a site whose links a step leaves alone
LEMMA LinksRest ==
  ASSUME NEW d \in Dists, LinksOf(d), "hash" \notin why[d], Frames(d), StepOf(d)' = "none",
         ~(StepOf(d) \in {"old", "rename"} /\ hashing.index \in DOMAIN site[d].old)
  PROVE  LinksOf(d)'
<1>1. PICK s : s = site[d]
  OBVIOUS
<1>2. PICK u : u = site'[d]
  OBVIOUS
<1>3. PICK j, v : j = hashing'.index /\ v = Listed(hashing.index, op.new)'
  OBVIOUS
<1>4. PICK i, w : i = hashing.index /\ w = Listed(hashing.index, op.new)
  OBVIOUS
<1>5. Apart(s, StepOf(d), i, w)
  BY <1>1, <1>4 DEF LinksOf
<1>6. Apart(s, "none", j, v)
  BY <1>1, <1>4, <1>5, ApartAtRest
<1>7. Apart(u, "none", j, v)
  BY <1>1, <1>2, <1>6, ApartFrame DEF Frames
<1> QED
  BY <1>2, <1>3, <1>7 DEF LinksOf

\* the steps and packageIndexByHash: the others wait for it, or stop it
LEMMA HashingSteps ==
  ASSUME Next
  PROVE  \/ PackageIndexByHash \/ IgnoredError \/ Refuse \/ Abort \/ Crash
         \/ \E i \in Index : FinalizeIndex(i)
         \/ /\ hashing' = hashing
            /\ op.name = "idle" \/ op.phase \notin {"index", "release"} \/ hashing = NotHashing
<1>1. CASE Commands
  BY <1>1 DEF Commands, PublishSnapshotOrRepo, PublishUpdate, PublishSwitch, PublishDrop, paths, fixed
<1>2. CASE \E c \in Comps, p \in Pkgs : LinkFromPool(c, p) \/ LinkFromPoolS3(c, p)
  <2>1. op.phase = "link" /\ hashing' = hashing
    BY <1>2 DEF LinkFromPool, LinkFromPoolS3, LinkStep, paths, fixed
  <2> QED
    BY <2>1
<1>3. CASE \E sign \in conf.sign : FinalizeRelease(sign)
  BY <1>3 DEF FinalizeRelease, paths, fixed
<1>4. CASE \/ SignRelease \/ SaveRecord \/ CleanedUp \/ Unrecord
           \/ \E x \in Index \cup {Release, Signatures} : RenameFiles(x)
           \/ \E c \in Comps : SaveRefs(c)
  <2>1. /\ hashing' = hashing
        /\ op.phase = "sign" \/ op.phase = "rename" \/ op.phase = "save" \/ op.phase = "refs"
             \/ op.phase = "cleaned" \/ op.phase = "unrecord"
    BY <1>4 DEF SignRelease, RenameFiles, SaveRecord, SaveRefs, CleanedUp, Unrecord, Running, paths, fixed
  <2> QED
    BY <2>1
<1>5. CASE \/ CleanupPrefixComponentFiles \/ CleanupFails \/ RemoveFiles
           \/ \E c \in Comps, x \in Paths : RemoveFile(<<c, x>>) \/ RemovePool(<<c, x>>)
  <2>1. /\ hashing' = hashing
        /\ op.phase = "clean" \/ op.phase = "remove" \/ op.phase = "dists" \/ op.phase = "pool"
    BY <1>5 DEF CleanupPrefixComponentFiles, RemoveFile, CleanupFails, RemoveFiles, RemovePool,
                Running, paths, fixed
  <2> QED
    BY <2>1
<1>6. CASE Reload \/ Flush
  BY <1>6 DEF Reload, Flush, paths, fixed
<1>7. CASE Step
  BY <1>1, <1>2, <1>3, <1>4, <1>5, <1>7 DEF Step
<1> QED
  BY <1>6, <1>7 DEF Next

\* the steps that change a site
LEMMA SiteChanges ==
  ASSUME Next
  PROVE  \/ site' = site \/ PackageIndexByHash \/ IgnoredError
         \/ \E i \in Index : FinalizeIndex(i)
         \/ \E sign \in conf.sign : FinalizeRelease(sign)
         \/ SignRelease
         \/ \E x \in Index \cup {Release, Signatures} : RenameFiles(x)
         \/ RemoveFiles
         \/ Unfinished /\ \E stale : Stop(stale)
<1>1. CASE Commands
  BY <1>1 DEF Commands, PublishSnapshotOrRepo, PublishUpdate, PublishSwitch, PublishDrop, files
<1>2. CASE \E c \in Comps, p \in Pkgs : LinkFromPool(c, p) \/ LinkFromPoolS3(c, p)
  BY <1>2 DEF LinkFromPool, LinkFromPoolS3, LinkStep
<1>3. CASE SaveRecord \/ (\E c \in Comps : SaveRefs(c)) \/ CleanedUp \/ Unrecord
  BY <1>3 DEF SaveRecord, SaveRefs, CleanedUp, Unrecord, files
<1>4. CASE \/ CleanupPrefixComponentFiles \/ CleanupFails
           \/ \E c \in Comps, x \in Paths : RemoveFile(<<c, x>>) \/ RemovePool(<<c, x>>)
  BY <1>4 DEF CleanupPrefixComponentFiles, RemoveFile, CleanupFails, RemovePool, files
<1>5. CASE Step
  BY <1>1, <1>2, <1>3, <1>4, <1>5 DEF Step
<1>6. CASE Refuse \/ Reload \/ Flush
  BY <1>6 DEF Refuse, Reload, Flush, files
<1>7. CASE Abort \/ Crash
  BY <1>7 DEF Abort, Crash, ReturnError
<1> QED
  BY <1>5, <1>6, <1>7 DEF Next

\* PutFile and RenameFile
LEMMA PutFrames ==
  ASSUME Core, op.name # "idle", NEW x, NEW w,
         site'[op.dist] = PutFile(site[op.dist], op.side, x, w)
           \/ site'[op.dist] = RenameFile(site[op.dist], x, w)
  PROVE  Frames(op.dist)
<1>1. PICK s : s = site[op.dist] /\ IsSite(s)
  BY OwnSite
<1>2. PICK u : u = site'[op.dist]
  OBVIOUS
<1>3. CASE u = PutFile(s, op.side, x, w)
  <2>1. u.link = s.link /\ u.old = s.old /\ DOMAIN u.sum = DOMAIN s.sum
    BY <1>1, <1>3, PutFileShape, SMTT(30)
  <2> QED
    BY <1>1, <1>2, <2>1 DEF Frames
<1>4. CASE u = RenameFile(s, x, w)
  <2>1. u.link = s.link /\ u.old = s.old /\ u.sum = s.sum
    BY <1>1, <1>4, RenameFileShape, SMTT(30)
  <2> QED
    BY <1>1, <1>2, <2>1 DEF Frames
<1> QED
  BY <1>1, <1>2, <1>3, <1>4

\* Links and checksums come and go with packageIndexByHash and with the site.
LEMMA OtherFrames ==
  ASSUME Core, Next, NEW d \in Dists, ~PackageIndexByHash, ~IgnoredError
  PROVE  Frames(d) \/ site'[d] = EmptySite
<1>1. CASE site' = site
  BY <1>1 DEF Frames
<1>2. ASSUME NEW i, NEW sign,
             FinalizeIndex(i) \/ FinalizeRelease(sign) \/ SignRelease \/ RenameFiles(i)
      PROVE  Frames(d)
  <2>1. op.name # "idle"
    BY <1>2 DEF FinalizeIndex, FinalizeRelease, SignRelease, RenameFiles, Running
  <2>2. CASE d = op.dist
    <3>1. \E x, w : site'[op.dist] = PutFile(site[op.dist], op.side, x, w)
                      \/ site'[op.dist] = RenameFile(site[op.dist], x, w)
      BY <1>2, <2>1, OwnSite DEF FinalizeIndex, FinalizeRelease, SignRelease, RenameFiles
    <3> QED
      BY <2>1, <2>2, <3>1, PutFrames
  <2>3. CASE d # op.dist
    BY <1>2, <2>3, PuttingCore DEF Frames
  <2> QED
    BY <2>2, <2>3
<1>3. CASE RemoveFiles
  BY <1>3, RemoveFilesShape DEF Frames
<1>4. ASSUME Unfinished, NEW stale, Stop(stale)
      PROVE  Frames(d)
  <2>1. Shapes /\ pub' = pub /\ op.name # "idle" /\ op.dist \in Dists
    BY <1>4, CoreShapes, OwnSite DEF Stop
  <2>2. /\ \A e \in Dists : e # op.dist => site'[e] = site[e]
        /\ \/ site' = site
           \/ \E x : site'[op.dist] = PutFile(site[op.dist], op.side, x, Partial)
           \/ \E S : site'[op.dist] = [site[op.dist] EXCEPT !.vis = Unbind(site[op.dist].vis, S)]
    BY <1>4, <2>1, UnfinishedShape
  <2>3. ASSUME NEW S, site'[op.dist] = [site[op.dist] EXCEPT !.vis = Unbind(site[op.dist].vis, S)]
        PROVE  Frames(op.dist)
    <3>1. PICK s : s = site[op.dist] /\ IsSite(s)
      BY <2>1, OwnSite
    <3>2. PICK v : v = Unbind(s.vis, S)
      OBVIOUS
    <3>3. PICK u : u = [s EXCEPT !.vis = v] /\ u = site'[op.dist]
      BY <2>3, <3>1, <3>2
    <3>4. u.link = s.link /\ u.old = s.old /\ u.sum = s.sum
      BY <3>1, <3>3 DEF IsSite
    <3> QED
      BY <3>1, <3>3, <3>4 DEF Frames
  <2>4. CASE d = op.dist
    <3>1. site' = site => Frames(d)
      BY DEF Frames
    <3> QED
      BY <2>1, <2>2, <2>3, <2>4, <3>1, PutFrames
  <2>5. CASE d # op.dist
    BY <2>2, <2>5 DEF Frames
  <2> QED
    BY <2>4, <2>5
<1> QED
  BY <1>1, <1>2, <1>3, <1>4, SiteChanges

\* Only the end of a drop forgets that an .old link lost its target.
LEMMA HashReason ==
  ASSUME Core, Next, NEW d \in Dists, "hash" \in why[d], "hash" \notin why'[d]
  PROVE  Unrecord /\ d = op.dist
<1>0. TypeOK /\ Operations /\ why \in [Dists -> SUBSET Reasons]
  BY DEF Core, TypeOK
<1>1. CASE why' = why
  BY <1>1
<1>2. ASSUME NEW c, NEW p, LinkFromPool(c, p) \/ LinkFromPoolS3(c, p)
      PROVE  FALSE
  <2>1. why' = why \/ why' = Overwritten(c, p)
    BY <1>2 DEF LinkFromPool, LinkFromPoolS3
  <2>2. why[d] \subseteq Overwritten(c, p)[d]
    BY DEF Overwritten
  <2> QED
    BY <2>1, <2>2
<1>3. ASSUME NEW c, SaveRecord \/ SaveRefs(c)
      PROVE  FALSE
  <2>1. why' = why \/ AfterSave
    BY <1>3 DEF SaveRecord, SaveRefs
  <2>2. CASE AfterSave
    <3>1. PICK w : w = (why[op.dist] \cap {"hash"})
                       \cup (IF op.missed THEN {"missing"} ELSE {})
                       \cup (IF ~op.sign /\ Signatures \in DOMAIN site[op.dist].vis
                             THEN {"unsigned"} ELSE {})
      OBVIOUS
    <3>2. why' = [why EXCEPT ![op.dist] = w]
      BY <2>2, <3>1 DEF AfterSave
    <3>3. d = op.dist => "hash" \in w
      BY <3>1
    <3> QED
      BY <1>0, <3>2, <3>3
  <2> QED
    BY <2>1, <2>2
<1>4. CASE Refuse \/ Abort \/ Crash
  BY <1>0, <1>4, StopShape, StopFields
<1>5. CASE Unrecord
  <2>1. why' = [why EXCEPT ![op.dist] = {}]
    BY <1>5 DEF Unrecord
  <2> QED
    BY <1>0, <1>5, <2>1
<1>6. CASE Commands
  BY <1>1, <1>6 DEF Commands, PublishSnapshotOrRepo, PublishUpdate, PublishSwitch, PublishDrop
<1>7. CASE \/ \E i \in Index : FinalizeIndex(i)
           \/ \E sign \in conf.sign : FinalizeRelease(sign)
           \/ SignRelease
           \/ \E x \in Index \cup {Release, Signatures} : RenameFiles(x)
           \/ PackageIndexByHash \/ IgnoredError
  BY <1>1, <1>7 DEF FinalizeIndex, FinalizeRelease, SignRelease, RenameFiles, PackageIndexByHash,
                    IgnoredError, HashStep
<1>8. CASE \/ CleanupPrefixComponentFiles \/ CleanedUp \/ CleanupFails \/ RemoveFiles
           \/ \E c \in Comps, x \in Paths : RemoveFile(<<c, x>>) \/ RemovePool(<<c, x>>)
  BY <1>1, <1>8 DEF CleanupPrefixComponentFiles, CleanedUp, CleanupFails, RemoveFiles, RemoveFile,
                    RemovePool
<1>9. CASE Reload \/ Flush
  BY <1>1, <1>9 DEF Reload, Flush
<1>10. CASE Step
  BY <1>2, <1>3, <1>5, <1>6, <1>7, <1>8, <1>10 DEF Step
<1> QED
  BY <1>4, <1>7, <1>9, <1>10 DEF Next

\* packageIndexByHash comes to its next step, and the site becomes u
Moves(next, u) ==
  /\ site'[op.dist] = u
  /\ hashing' = IF next = "none" THEN NotHashing ELSE [hashing EXCEPT !.step = next]

\* what the steps of packageIndexByHash make of a site
LEMMA HashMoves ==
  ASSUME Core, NEW i \in Index, i = hashing.index, NEW s, s = site[op.dist],
         NEW w, w = Listed(i, op.new), PackageIndexByHash \/ IgnoredError
  PROVE  \E next, u : Moves(next, u) /\ (Apart(s, hashing.step, i, w) => Apart(u, next, i, w))
<1>0. op.name # "idle"
  BY DEF PackageIndexByHash, IgnoredError, HashStep
<1>1. IsSite(s) /\ \A u : site' = [site EXCEPT ![op.dist] = u] => site'[op.dist] = u
  BY <1>0, OwnSite
<1>2. ASSUME NEW step, NEW u, NEW next, HashStep(step, u, next)
      PROVE  hashing.step = step /\ Moves(next, u)
  BY <1>1, <1>2 DEF HashStep, Moves
<1>3. CASE HashStep("link", HardLink(s, op.side, i, w), AfterHardLink(s, i))
  BY <1>1, <1>2, <1>3, HardLinkApart
<1>4. CASE HashStep("target", RemoveTarget(s, i), "old")
  BY <1>1, <1>2, <1>4, RemoveTargetApart
<1>5. CASE HashStep("old", RemoveOld(s, i), "rename")
  BY <1>1, <1>2, <1>5, RemoveOldApart
<1>6. CASE HashStep("rename", RenameLink(s, i), "symlink")
  BY <1>1, <1>2, <1>6, RenameLinkApart
<1>7. CASE HashStep("symlink", SymLink(s, i, w), "none")
  BY <1>1, <1>2, <1>7, SymLinkApart
<1>8. CASE HashStep("target", s, "old") \/ HashStep("old", s, "rename")
  BY <1>2, <1>8, IgnoredApart
<1> QED
  BY <1>3, <1>4, <1>5, <1>6, <1>7, <1>8 DEF PackageIndexByHash, IgnoredError

\* the sites that packageIndexByHash does not work on
LEMMA OtherLinks ==
  ASSUME Core, Links, NEW d \in Dists, d # op.dist, d # op'.dist, site'[d] = site[d], why'[d] = why[d]
  PROVE  LinksOf(d)'
<1>1. StepOf(d) = "none" /\ StepOf(d)' = "none" /\ LinksOf(d) /\ Frames(d)
  BY DEF StepOf, Links, Frames
<1>2. CASE "hash" \in why[d]
  BY <1>2 DEF LinksOf
<1>3. CASE "hash" \notin why[d]
  BY <1>1, <1>3, LinksRest
<1> QED
  BY <1>2, <1>3

\* packageIndexByHash
LEMMA HashLinks ==
  ASSUME Core, Links, PackageIndexByHash \/ IgnoredError
  PROVE  Links'
<1>0. /\ op.dist \in Dists /\ op' = op /\ why' = why
      /\ \A e \in Dists : e # op.dist => site'[e] = site[e]
  BY HashCore
<1>1. /\ op.name # "idle" /\ op.phase \in {"index", "release"}
      /\ hashing.step \in {"link", "target", "old", "rename", "symlink"}
  BY DEF PackageIndexByHash, IgnoredError, HashStep
<1>2. hashing = [step |-> hashing.step, index |-> hashing.index] /\ hashing.index \in Index
  BY <1>1 DEF Links, HashBusy
<1>3. PICK i \in Index : i = hashing.index
  BY <1>2
<1>4. PICK s, w : s = site[op.dist] /\ w = Listed(i, op.new)
  OBVIOUS
<1>5. PICK next, u : Moves(next, u) /\ (Apart(s, hashing.step, i, w) => Apart(u, next, i, w))
  BY <1>3, <1>4, HashMoves
<1>6. \/ next = "none" /\ hashing' = NotHashing
      \/ next # "none" /\ hashing' = [step |-> next, index |-> i]
  BY <1>2, <1>3, <1>5 DEF Moves
<1>7. hashing'.step = next /\ hashing' = [step |-> hashing'.step, index |-> hashing'.index]
      /\ (next # "none" => hashing'.index = i)
  <2>1. CASE next = "none" /\ hashing' = NotHashing
    BY <2>1 DEF NotHashing
  <2>2. CASE next # "none" /\ hashing' = [step |-> next, index |-> i]
    BY <2>2
  <2> QED
    BY <1>6, <2>1, <2>2
<1>8. HashBusy'
  BY <1>0, <1>1, <1>7 DEF HashBusy
<1>9. LinksOf(op.dist)'
  <2>1. CASE "hash" \in why[op.dist]
    BY <1>0, <2>1 DEF LinksOf
  <2>2. CASE "hash" \notin why[op.dist]
    <3>1. Apart(s, hashing.step, i, w)
      BY <1>0, <1>3, <1>4, <2>2 DEF Links, LinksOf, StepOf
    <3>2. Apart(u, next, i, w) /\ site'[op.dist] = u
      BY <1>5, <3>1 DEF Moves
    <3>3. PICK j, v : j = hashing'.index /\ v = Listed(hashing'.index, op'.new)
      OBVIOUS
    <3>4. Apart(u, next, j, v)
      <4>1. CASE next = "none"
        <5>1. Apart(u, "none", i, w)
          BY <3>2, <4>1
        <5>2. ~("none" \in {"old", "rename"} /\ i \in DOMAIN u.old)
          OBVIOUS
        <5>3. Apart(u, "none", j, v)
          BY <5>1, <5>2, ApartAtRest
        <5> QED
          BY <4>1, <5>3
      <4>2. CASE next # "none"
        BY <1>0, <1>4, <1>7, <3>2, <3>3, <4>2
      <4> QED
        BY <4>1, <4>2
    <3>5. StepOf(op.dist)' = next
      BY <1>0, <1>7 DEF StepOf
    <3> QED
      BY <1>0, <3>2, <3>3, <3>4, <3>5 DEF LinksOf
  <2> QED
    BY <2>1, <2>2
<1>10. \A d \in Dists : d # op.dist => LinksOf(d)'
  BY <1>0, OtherLinks
<1> QED
  BY <1>0, <1>8, <1>9, <1>10 DEF Links

\* FinalizeIndex
LEMMA IndexLinks ==
  ASSUME Core, Links, NEW i \in Index, FinalizeIndex(i)
  PROVE  Links'
<1>0. op.name # "idle" /\ hashing = NotHashing /\ hashing.step = "none" /\ why' = why
  BY DEF FinalizeIndex, Running, NotHashing
<1>1. op.dist \in Dists /\ IsOperation(op)
  BY <1>0, OwnSite DEF Core, Operations
<1>d. PICK d \in Dists : d = op.dist
  BY <1>1
<1>2. PICK w : w = Listed(i, op.new)
  OBVIOUS
<1>3. PICK u : u = PutFile(site[op.dist], op.side, i, w)
  OBVIOUS
<1>4. /\ site' = [site EXCEPT ![op.dist] = u]
      /\ hashing' = IF conf.byHash /\ ~Hashed(u, i, w) THEN [step |-> "link", index |-> i]
                    ELSE NotHashing
  BY <1>2, <1>3 DEF FinalizeIndex
<1>5. site'[op.dist] = u
  BY <1>0, <1>4, OwnSite
<1>6. Continues(op, op') /\ (op'.phase = "index" \/ op'.phase = "release")
  BY <1>1, IndexFields
<1>7. op'.name = op.name /\ op'.dist = op.dist /\ op'.new = op.new
  BY <1>6 DEF Continues
<1>8. Frames(d) /\ op'.dist = d
  BY <1>d, <1>0, <1>3, <1>5, <1>7, PutFrames
<1>9. \A e \in Dists : e # op.dist => site'[e] = site[e]
  BY PuttingCore
<1>10. \A e \in Dists : e # d => LinksOf(e)'
  BY <1>d, <1>0, <1>7, <1>9, OtherLinks
<1>11. LinksOf(d) /\ StepOf(d) = "none"
  BY <1>0 DEF Links, StepOf
<1>12. CASE hashing' = NotHashing
  <2>1. hashing'.step = "none" /\ hashing' = [step |-> hashing'.step, index |-> hashing'.index]
    BY <1>12 DEF NotHashing
  <2>2. HashBusy'
    BY <2>1 DEF HashBusy
  <2>3. StepOf(d)' = "none"
    BY <2>1 DEF StepOf
  <2>4. LinksOf(d)'
    <3>1. CASE "hash" \in why[d]
      BY <1>0, <3>1 DEF LinksOf
    <3>2. CASE "hash" \notin why[d]
      BY <1>1, <1>8, <1>11, <2>3, <3>2, LinksRest
    <3> QED
      BY <3>1, <3>2
  <2> QED
    BY <1>10, <2>2, <2>4 DEF Links
<1>13. CASE hashing' = [step |-> "link", index |-> i] /\ ~Hashed(u, i, w)
  <2>1. hashing'.step = "link" /\ hashing'.index = i
        /\ hashing' = [step |-> hashing'.step, index |-> hashing'.index]
    BY <1>13
  <2>2. HashBusy'
    BY <1>0, <1>6, <1>7, <2>1 DEF HashBusy
  <2>3. LinksOf(d)'
    <3>1. CASE "hash" \in why[d]
      BY <1>0, <3>1 DEF LinksOf
    <3>2. CASE "hash" \notin why[d]
      <4>1. PICK s, j, v : s = site[d] /\ j = hashing.index /\ v = Listed(hashing.index, op.new)
        OBVIOUS
      <4>2. Apart(s, "none", j, v)
        BY <1>11, <3>2, <4>1 DEF LinksOf
      <4>3. Apart(u, "none", j, v)
        BY <1>d, <1>5, <1>8, <4>1, <4>2, ApartFrame DEF Frames
      <4>4. Apart(u, "link", i, w)
        BY <1>13, <4>3, ApartBegins DEF Hashed, Key
      <4>5. StepOf(d)' = "link" /\ Listed(hashing'.index, op'.new) = w
        BY <1>2, <1>7, <1>8, <2>1 DEF StepOf
      <4> QED
        BY <1>d, <1>5, <2>1, <4>4, <4>5 DEF LinksOf
    <3> QED
      BY <3>1, <3>2
  <2> QED
    BY <1>10, <2>2, <2>3 DEF Links
<1> QED
  BY <1>4, <1>12, <1>13

\* a step after which packageIndexByHash does not run
LEMMA RestingLinks ==
  ASSUME Core, Sites, Links, Next, ~PackageIndexByHash, ~IgnoredError,
         hashing'.step = "none", hashing' = [step |-> hashing'.step, index |-> hashing'.index],
         \A d \in Dists : "hash" \notin why'[d] =>
           ~(StepOf(d) \in {"old", "rename"} /\ hashing.index \in DOMAIN site[d].old)
  PROVE  Links'
<1>1. HashBusy'
  BY DEF HashBusy
<1>2. ASSUME NEW d \in Dists
      PROVE  LinksOf(d)'
  <2>1. StepOf(d)' = "none"
    BY DEF StepOf
  <2>2. ASSUME site'[d] = EmptySite
        PROVE  LinksOf(d)'
    BY <2>1, <2>2, NoLinks DEF LinksOf
  <2>3. CASE "hash" \in why'[d]
    BY <2>3 DEF LinksOf
  <2>4. CASE "hash" \notin why'[d] /\ "hash" \in why[d]
    <3>1. Unrecord /\ d = op.dist
      BY <2>4, HashReason
    <3>2. op.name # "idle" /\ op.phase = "unrecord" /\ site' = site
      BY <3>1 DEF Unrecord, Running, files
    <3>3. op.name = "drop" /\ op.phase # "dists"
      BY <3>2, PhaseNames DEF Core
    <3>4. site'[d] = EmptySite
      BY <3>1, <3>2, <3>3 DEF Sites, Dropped
    <3> QED
      BY <2>2, <3>4
  <2>5. CASE "hash" \notin why'[d] /\ "hash" \notin why[d] /\ Frames(d)
    BY <2>1, <2>5, LinksRest DEF Links
  <2>6. Frames(d) \/ site'[d] = EmptySite
    BY OtherFrames
  <2> QED
    BY <2>2, <2>3, <2>4, <2>5, <2>6
<1> QED
  BY <1>1, <1>2 DEF Links

\* Every step keeps the by-hash links apart.
LEMMA NextLinks == Core /\ Sites /\ Links /\ [Next]_vars => Links'
<1> SUFFICES ASSUME Core, Sites, Links, [Next]_vars
             PROVE  Links'
  OBVIOUS
<1>1. CASE PackageIndexByHash \/ IgnoredError
  BY <1>1, HashLinks
<1>2. CASE \E i \in Index : FinalizeIndex(i)
  BY <1>2, IndexLinks
<1>3. CASE Next /\ ~PackageIndexByHash /\ ~IgnoredError /\ (Refuse \/ Abort \/ Crash)
  <2>1. PICK stale : Stop(stale)
    BY <1>3, StopShape
  <2>2. TypeOK /\ Operations
    BY DEF Core
  <2>3. op.dist \in Dists /\ (hashing.step \in {"old", "rename"} /\ hashing.index \in DOMAIN site[op.dist].old
                               => "hash" \in why'[op.dist])
    BY <2>1, <2>2, StopFields
  <2>4. hashing'.step = "none" /\ hashing' = [step |-> hashing'.step, index |-> hashing'.index]
    BY <2>1 DEF Stop, NotHashing
  <2>5. \A d \in Dists : "hash" \notin why'[d] =>
          ~(StepOf(d) \in {"old", "rename"} /\ hashing.index \in DOMAIN site[d].old)
    BY <2>3 DEF StepOf
  <2> QED
    BY <1>3, <2>4, <2>5, RestingLinks
<1>4. CASE /\ Next /\ ~PackageIndexByHash /\ ~IgnoredError /\ hashing' = hashing
           /\ op.name = "idle" \/ op.phase \notin {"index", "release"} \/ hashing = NotHashing
  <2>1. hashing.step = "none" /\ hashing = [step |-> hashing.step, index |-> hashing.index]
    <3>1. CASE hashing = NotHashing
      BY <3>1 DEF NotHashing
    <3>2. CASE op.name = "idle" \/ op.phase \notin {"index", "release"}
      BY <3>2 DEF Links, HashBusy
    <3> QED
      BY <1>4, <3>1, <3>2
  <2>2. \A d \in Dists : StepOf(d) = "none"
    BY <2>1 DEF StepOf
  <2> QED
    BY <1>4, <2>1, <2>2, RestingLinks
<1>5. CASE UNCHANGED vars
  BY <1>5 DEF vars, Links, HashBusy, LinksOf, StepOf
<1> QED
  BY <1>1, <1>2, <1>3, <1>4, <1>5, HashingSteps

\* The by-hash links of an index lead to files in every state, also between
\* the steps of packageIndexByHash, except an .old link that is about to go:
\* what it removes is the target of no other link, whatever order the indexes
\* of several publications were put in.  An interruption that leaves such an
\* .old link is the one thing that voids this, until the distribution is
\* dropped.
THEOREM ByHashResolves == Spec => []LinksResolve
<1>1. Init => Links
  <2> SUFFICES ASSUME Init
               PROVE  Links
    OBVIOUS
  <2>1. hashing.step = "none" /\ hashing = [step |-> hashing.step, index |-> hashing.index]
    BY DEF Init, NotHashing
  <2>2. \A d \in Dists : site[d] = EmptySite /\ StepOf(d) = "none"
    BY <2>1 DEF Init, StepOf
  <2>3. \A d \in Dists : LinksOf(d)
    BY <2>2, NoLinks DEF LinksOf
  <2> QED
    BY <2>1, <2>3 DEF Links, HashBusy
<1>2. Links => LinksResolve
  <2> SUFFICES ASSUME Links, NEW d \in Dists, "hash" \notin why[d], NEW i \in Index
               PROVE  /\ \A w \in At(site[d].link, i) : <<Dir(i), w>> \in DOMAIN site[d].sum
                      /\ ~Replaced(d, i) =>
                           \A w \in At(site[d].old, i) : <<Dir(i), w>> \in DOMAIN site[d].sum
    BY DEF LinksResolve
  <2>1. LinksLead(site[d], StepOf(d), hashing.index)
    BY DEF Links, LinksOf, Apart
  <2>2. ~Replaced(d, i) => ~(StepOf(d) \in {"old", "rename"} /\ i = hashing.index)
    BY DEF Replaced, StepOf
  <2> QED
    BY <2>1, <2>2 DEF LinksLead, At, Key
<1>3. Core /\ Sites /\ Links /\ [Next]_vars => Links'
  BY NextLinks
<1> QED
  BY <1>1, <1>2, <1>3, SitesInvariant, PTL DEF Spec

----------------------------------------------------------------------------
(* What a cleanup leaves                                                   *)

\* What is left to remove covers every file that has to go: of the components
\* that only the dropped distribution has, and, of those that are cleaned up,
\* all that no distribution of the list refers to.
Cleaned ==
  /\ op.phase = "pool" =>
       \A c \in DOMAIN op.new \ op.comps : \A x \in DOMAIN pub[c] : <<c, x>> \in op.todo
  /\ op.name = "drop" /\ op.phase \in {"clean", "remove", "unrecord"} =>
       \A c \in DOMAIN op.new \ op.comps : DOMAIN pub[c] = {}
  /\ op.phase \in {"remove", "cleaned"} \/ (op.phase = "unrecord" /\ op.clean) =>
       /\ \A d \in Matching(op.comps) : Loadable(d)
       /\ \A c \in op.comps : \A x \in DOMAIN pub[c] :
            x \in Referenced(c) \/ (op.phase = "remove" /\ <<c, x>> \in op.todo)

\* what is to be removed by a cleanup
LEMMA UnreferencedFacts ==
  ASSUME NEW C, NEW c, NEW x
  PROVE  <<c, x>> \in Unreferenced(C) <=> c \in C /\ x \in DOMAIN pub[c] /\ x \notin Referenced(c)
<1>1. \A e, y : <<c, x>> = <<e, y>> => c = e /\ x = y
  OBVIOUS
<1> QED
  BY <1>1, SMTT(30) DEF Unreferenced

\* what is to be removed with a distribution
LEMMA InPoolFacts ==
  ASSUME NEW C, NEW c, NEW x
  PROVE  <<c, x>> \in InPool(C) <=> c \in C /\ x \in DOMAIN pub[c]
<1>1. \A e, y : <<c, x>> = <<e, y>> => c = e /\ x = y
  OBVIOUS
<1> QED
  BY <1>1, SMTT(30) DEF InPool

\* what the steps of a cleanup do to the storage and leave to be done
LEMMA CleaningTodo ==
  ASSUME Core, NEW c, NEW x
  PROVE  /\ CleanupPrefixComponentFiles =>
              /\ pub' = pub /\ op'.todo = Unreferenced(op.comps) /\ op'.clean = op.clean
              /\ op.phase = "clean" /\ (op'.phase = "remove" \/ op'.todo = {})
         /\ RemoveFile(<<c, x>>) =>
              /\ pub' = [pub EXCEPT ![c] = Unbind(pub[c], {x})] /\ <<c, x>> \in op.todo
              /\ op'.todo = op.todo \ {<<c, x>>} /\ op'.clean = op.clean
              /\ op.phase = "remove" /\ (op'.phase = "remove" \/ op'.todo = {})
         /\ CleanupFails => pub' = pub /\ op'.clean = FALSE /\ op'.phase = "unrecord" /\ op.name = "drop"
<1>0. IsOperation(op)
  BY DEF Core, Operations
<1>1. ASSUME CleanupPrefixComponentFiles
      PROVE  /\ pub' = pub /\ op'.todo = Unreferenced(op.comps) /\ op'.clean = op.clean
             /\ op.phase = "clean" /\ (op'.phase = "remove" \/ op'.todo = {})
  <2>1. PICK t : t = Unreferenced(op.comps)
    OBVIOUS
  <2>2. PICK o : o = [op EXCEPT !.phase = "remove", !.todo = t]
    OBVIOUS
  <2>3. IsOperation(o) /\ o.phase = "remove" /\ o.todo = t /\ o.clean = op.clean
    BY <1>0, <2>2 DEF IsOperation
  <2>4. op' = AfterClean(o) /\ pub' = pub /\ op.phase = "clean"
    BY <1>1, <2>1, <2>2 DEF CleanupPrefixComponentFiles, files, Running
  <2>5. PICK u : u = AfterClean(o)
    OBVIOUS
  <2>6. Keeps(o, u) /\ u.todo = o.todo /\ (u.phase = o.phase \/ o.todo = {})
    BY <2>3, <2>5, AfterCleanFields
  <2> QED
    BY <2>1, <2>3, <2>4, <2>5, <2>6 DEF Keeps
<1>2. ASSUME RemoveFile(<<c, x>>)
      PROVE  /\ pub' = [pub EXCEPT ![c] = Unbind(pub[c], {x})] /\ <<c, x>> \in op.todo
             /\ op'.todo = op.todo \ {<<c, x>>} /\ op'.clean = op.clean
             /\ op.phase = "remove" /\ (op'.phase = "remove" \/ op'.todo = {})
  <2>1. PICK t : t = op.todo \ {<<c, x>>}
    OBVIOUS
  <2>2. PICK o : o = [op EXCEPT !.todo = t]
    OBVIOUS
  <2>3. IsOperation(o) /\ o.phase = op.phase /\ o.todo = t /\ o.clean = op.clean
    BY <1>0, <2>2 DEF IsOperation
  <2>4. op' = AfterClean(o) /\ op.phase = "remove" /\ <<c, x>> \in op.todo
    BY <1>2, <2>1, <2>2 DEF RemoveFile, Running
  <2>5. PICK u : u = AfterClean(o)
    OBVIOUS
  <2>6. Keeps(o, u) /\ u.todo = o.todo /\ (u.phase = o.phase \/ o.todo = {})
    BY <2>3, <2>5, AfterCleanFields
  <2>7. pub' = [pub EXCEPT ![c] = Unbind(pub[c], {x})]
    <3>1. <<c, x>>[1] = c /\ <<c, x>>[2] = x
      OBVIOUS
    <3> QED
      BY <1>2, <3>1 DEF RemoveFile
  <2> QED
    BY <2>1, <2>3, <2>4, <2>5, <2>6, <2>7 DEF Keeps
<1>3. ASSUME CleanupFails
      PROVE  pub' = pub /\ op'.clean = FALSE /\ op'.phase = "unrecord" /\ op.name = "drop"
  <2>1. op' = [op EXCEPT !.phase = "unrecord", !.todo = {}, !.clean = FALSE] /\ pub' = pub
    BY <1>3 DEF CleanupFails, files
  <2>2. op'.clean = FALSE /\ op'.phase = "unrecord"
    BY <1>0, <2>1 DEF IsOperation
  <2> QED
    BY <1>3, <2>1, <2>2 DEF CleanupFails
<1> QED
  BY <1>1, <1>2, <1>3

\* Remove stays in the pool as long as there is something to remove.
LEMMA AfterPoolStays ==
  ASSUME NEW o, IsOperation(o), AfterPool(o)
  PROVE  (o.todo # {} /\ op' = o /\ cache' = cache) \/ (o.todo = {} /\ op'.phase # "pool")
<1>1. CASE o.todo # {}
  BY <1>1 DEF AfterPool
<1>2. CASE o.todo = {}
  <2>1. PICK b, ph : op' = [o EXCEPT !.phase = ph, !.clean = b] /\ (ph = "unrecord" \/ ph = "clean")
    BY <1>2 DEF AfterPool
  <2>2. op'.phase = ph
    BY <2>1 DEF IsOperation
  <2> QED
    BY <1>2, <2>1, <2>2
<1> QED
  BY <1>1, <1>2

\* an operation in another phase
LEMMA CleanedFrame ==
  ASSUME op'.phase # "pool", op'.phase # "remove", op'.phase # "cleaned", op'.phase # "unrecord",
         op'.phase = "clean" => op'.name # "drop"
  PROVE  Cleaned'
<1>1. /\ ~(op'.name = "drop" /\ op'.phase \in {"clean", "remove", "unrecord"})
      /\ op'.phase \notin {"remove", "cleaned"}
  OBVIOUS
<1> QED
  BY <1>1 DEF Cleaned

\* the files that are left when one is removed
LEMMA RemoveLeaves ==
  ASSUME Core, NEW c \in Comps, NEW x, pub' = [pub EXCEPT ![c] = Unbind(pub[c], {x})],
         NEW e \in Comps, NEW y \in DOMAIN pub'[e]
  PROVE  y \in DOMAIN pub[e] /\ ~(e = c /\ y = x)
<1>1. DOMAIN pub = Comps
  BY DEF Core, Records
<1>2. CASE e # c
  BY <1>1, <1>2
<1>3. CASE e = c
  <2>1. pub'[c] = Unbind(pub[c], {x})
    BY <1>1
  <2>2. DOMAIN Unbind(pub[c], {x}) = DOMAIN pub[c] \ {x}
    BY DEF Unbind
  <2>3. y \in DOMAIN pub[c] \ {x}
    BY <1>3, <2>1, <2>2
  <2> QED
    BY <1>3, <2>3
<1> QED
  BY <1>2, <1>3

\* the components of an operation
LEMMA OperationComps ==
  ASSUME Core, op.name # "idle"
  PROVE  DOMAIN op.new \subseteq Comps /\ op.comps \subseteq DOMAIN op.new /\ op.comps \subseteq Comps
  BY DEF Core, Operations, Sources

\* where Remove goes on when the pool is done
LEMMA AfterPoolEnds ==
  ASSUME NEW o, IsOperation(o), AfterPool(o), o.todo = {}
  PROVE  /\ op'.phase = "unrecord" \/ op'.phase = "clean"
         /\ op'.phase = "unrecord" /\ op'.clean => o.comps = {}
<1>1. \/ op' = [o EXCEPT !.phase = "unrecord", !.clean = (o.comps = {})]
      \/ op' = [o EXCEPT !.phase = "clean", !.clean = TRUE]
  BY DEF AfterPool
<1>2. ASSUME op' = [o EXCEPT !.phase = "unrecord", !.clean = (o.comps = {})]
      PROVE  op'.phase = "unrecord" /\ (op'.clean => o.comps = {})
  <2>1. PICK b : b = (o.comps = {})
    OBVIOUS
  <2>2. op' = [o EXCEPT !.phase = "unrecord", !.clean = b]
    BY <1>2, <2>1
  <2>3. op'.phase = "unrecord" /\ op'.clean = b
    BY <2>2 DEF IsOperation
  <2> QED
    BY <2>1, <2>3
<1>3. ASSUME op' = [o EXCEPT !.phase = "clean", !.clean = TRUE]
      PROVE  op'.phase = "clean"
  BY <1>3 DEF IsOperation
<1> QED
  BY <1>1, <1>2, <1>3

\* Remove before the cleanup
LEMMA RemovingCleaned ==
  ASSUME Core, Cleaned, NEW c, NEW x,
         RemoveFiles \/ (RemovePool(<<c, x>>) /\ c \in Comps /\ x \in Paths)
  PROVE  Cleaned'
<1>1. /\ op.name = "drop" /\ op.name # "idle"
      /\ op.phase = IF RemoveFiles THEN "dists" ELSE "pool"
      /\ Continues(op, op')
  BY RemovingShape
<1>2. PICK o : /\ Continues(op, o) /\ o.phase = "pool" /\ AfterPool(o)
               /\ ~RemoveFiles => o.todo = op.todo \ {<<c, x>>}
               /\ RemoveFiles =>
                    o.todo = InPool(IF Others(op.dist) = {} THEN Comps ELSE DOMAIN op.new \ op.comps)
  BY RemovingShape
<1>3. op'.new = op.new /\ op'.comps = op.comps /\ IsOperation(o) /\ o.comps = op.comps
  BY <1>1, <1>2 DEF Continues
<1>4. DOMAIN op.new \subseteq Comps
  BY <1>1, OperationComps
<1>5. ASSUME NEW e \in DOMAIN op.new \ op.comps, NEW y \in DOMAIN pub'[e]
      PROVE  <<e, y>> \in o.todo
  <2>1. CASE RemoveFiles
    <3>1. pub' = pub
      BY <2>1 DEF RemoveFiles
    <3>2. PICK C : C = IF Others(op.dist) = {} THEN Comps ELSE DOMAIN op.new \ op.comps
      OBVIOUS
    <3>3. e \in C
      BY <1>4, <1>5, <3>2
    <3>4. o.todo = InPool(C)
      BY <1>2, <2>1, <3>2
    <3>5. y \in DOMAIN pub[e]
      BY <1>5, <3>1
    <3> QED
      BY <3>3, <3>4, <3>5, InPoolFacts, SMTT(30)
  <2>2. CASE ~RemoveFiles
    <3>1. c \in Comps /\ op.phase = "pool" /\ o.todo = op.todo \ {<<c, x>>}
      BY <1>1, <1>2, <2>2
    <3>2. pub' = [pub EXCEPT ![c] = Unbind(pub[c], {x})]
      <4>1. <<c, x>>[1] = c /\ <<c, x>>[2] = x
        OBVIOUS
      <4> QED
        BY <2>2, <4>1 DEF RemovePool
    <3>3. e \in Comps
      BY <1>4, <1>5
    <3>4. y \in DOMAIN pub[e] /\ ~(e = c /\ y = x)
      BY <1>5, <3>1, <3>2, <3>3, RemoveLeaves
    <3>5. <<e, y>> \in op.todo
      BY <1>5, <3>1, <3>4 DEF Cleaned
    <3> QED
      BY <3>1, <3>4, <3>5
  <2> QED
    BY <2>1, <2>2
<1>6. CASE o.todo # {}
  <2>1. op' = o
    BY <1>2, <1>3, <1>6, AfterPoolStays
  <2>2. op'.phase = "pool"
    BY <1>2, <2>1
  <2>3. op'.phase \notin {"clean", "remove", "unrecord"} /\ op'.phase \notin {"remove", "cleaned"}
        /\ op'.phase # "unrecord"
    BY <2>2
  <2> QED
    BY <1>3, <1>5, <2>1, <2>3 DEF Cleaned
<1>7. CASE o.todo = {}
  <2>1. /\ op'.phase = "unrecord" \/ op'.phase = "clean"
        /\ op'.phase = "unrecord" /\ op'.clean => o.comps = {}
    BY <1>2, <1>3, <1>7, AfterPoolEnds
  <2>2. op'.phase # "pool" /\ op'.phase \notin {"remove", "cleaned"}
    BY <2>1
  <2>3. \A e \in DOMAIN op.new \ op.comps : DOMAIN pub'[e] = {}
    BY <1>5, <1>7
  <2>4. op'.comps = {} => Matching(op.comps)' = {}
    BY DEF Matching
  <2> QED
    BY <1>3, <2>1, <2>2, <2>3, <2>4 DEF Cleaned
<1> QED
  BY <1>6, <1>7

\* a cleanup
LEMMA CleaningCleaned ==
  ASSUME Core, Cleaned, NEW c, NEW x,
         \/ CleanupPrefixComponentFiles \/ CleanupFails
         \/ RemoveFile(<<c, x>>) /\ c \in Comps /\ x \in Paths
  PROVE  Cleaned'
<1>1. /\ UNCHANGED <<db, cache>> /\ op.name # "idle"
      /\ op.phase = "clean" \/ op.phase = "remove"
      /\ op.name = "drop" \/ op.name = "update"
      /\ Continues(op, op')
      /\ op.name = "drop" => op'.phase = "remove" \/ op'.phase = "unrecord"
      /\ op.name = "update" => op'.phase = "remove" \/ op'.phase = "cleaned"
  BY CleaningShape
<1>2. op'.name = op.name /\ op'.new = op.new /\ op'.comps = op.comps
  BY <1>1 DEF Continues
<1>3. /\ op'.phase # "pool" /\ op.phase \in {"clean", "remove", "unrecord"}
      /\ op'.phase = "remove" \/ op'.phase = "cleaned" \/ op'.phase = "unrecord"
  BY <1>1
<1>4. DOMAIN op.new \subseteq Comps /\ op.comps \subseteq Comps
  BY <1>1, OperationComps
<1>5. \A e \in Comps : DOMAIN pub'[e] \subseteq DOMAIN pub[e]
  <2>1. CASE CleanupPrefixComponentFiles \/ CleanupFails
    <3>1. pub' = pub
      BY <2>1, CleaningTodo
    <3> QED
      BY <3>1
  <2>2. CASE RemoveFile(<<c, x>>) /\ c \in Comps /\ x \in Paths
    <3>1. pub' = [pub EXCEPT ![c] = Unbind(pub[c], {x})]
      BY <2>2, CleaningTodo
    <3> QED
      BY <2>2, <3>1, RemoveLeaves
  <2> QED
    BY <2>1, <2>2
<1>6. op.name = "drop" => \A e \in DOMAIN op.new \ op.comps : DOMAIN pub'[e] = {}
  BY <1>3, <1>4, <1>5 DEF Cleaned
<1>7. /\ Matching(op.comps)' = Matching(op.comps) /\ \A d : Loadable(d)' <=> Loadable(d)
      /\ \A e : Referenced(e)' = Referenced(e)
  BY <1>1, <1>2 DEF Matching, Loadable, RefsOf, Referenced
<1>8. ASSUME ~CleanupFails
      PROVE  /\ \A d \in Matching(op.comps) : Loadable(d)
             /\ \A e \in op.comps : \A y \in DOMAIN pub'[e] :
                  y \in Referenced(e) \/ (op'.phase = "remove" /\ <<e, y>> \in op'.todo)
  <2>1. CASE CleanupPrefixComponentFiles
    <3>1. /\ pub' = pub /\ op'.todo = Unreferenced(op.comps)
          /\ op'.phase = "remove" \/ op'.todo = {}
      BY <2>1, CleaningTodo
    <3>2. \A d \in Matching(op.comps) : Loadable(d)
      BY <2>1 DEF CleanupPrefixComponentFiles
    <3>3. ASSUME NEW e \in op.comps, NEW y \in DOMAIN pub'[e], y \notin Referenced(e)
          PROVE  op'.phase = "remove" /\ <<e, y>> \in op'.todo
      <4>1. <<e, y>> \in Unreferenced(op.comps)
        BY <3>1, <3>3, UnreferencedFacts
      <4>2. <<e, y>> \in op'.todo
        BY <3>1, <4>1
      <4>3. op'.todo # {}
        BY <4>2
      <4> QED
        BY <3>1, <4>2, <4>3
    <3> QED
      BY <3>2, <3>3
  <2>2. CASE RemoveFile(<<c, x>>) /\ c \in Comps /\ x \in Paths
    <3>1. /\ pub' = [pub EXCEPT ![c] = Unbind(pub[c], {x})] /\ op'.todo = op.todo \ {<<c, x>>}
          /\ op.phase = "remove" /\ (op'.phase = "remove" \/ op'.todo = {})
      BY <2>2, CleaningTodo
    <3>2. op.phase \in {"remove", "cleaned"}
      BY <3>1
    <3>3. /\ \A d \in Matching(op.comps) : Loadable(d)
          /\ \A e \in op.comps : \A y \in DOMAIN pub[e] : y \in Referenced(e) \/ <<e, y>> \in op.todo
      BY <3>2 DEF Cleaned
    <3>4. ASSUME NEW e \in op.comps, NEW y \in DOMAIN pub'[e], y \notin Referenced(e)
          PROVE  op'.phase = "remove" /\ <<e, y>> \in op'.todo
      <4>1. y \in DOMAIN pub[e] /\ ~(e = c /\ y = x)
        BY <1>4, <2>2, <3>1, <3>4, RemoveLeaves
      <4>2. <<e, y>> \in op.todo
        BY <3>3, <3>4, <4>1
      <4>3. <<e, y>> \in op'.todo
        BY <3>1, <4>1, <4>2, SMTT(30)
      <4>4. op'.todo # {}
        BY <4>3
      <4> QED
        BY <3>1, <4>3, <4>4
    <3> QED
      BY <3>3, <3>4
  <2> QED
    BY <1>8, <2>1, <2>2
<1>9. CASE CleanupFails
  <2>1. op'.phase = "unrecord" /\ op'.clean = FALSE /\ op.name = "drop"
    BY <1>9, CleaningTodo
  <2>2. op'.phase \notin {"remove", "cleaned"} /\ ~op'.clean
    BY <2>1
  <2> QED
    BY <1>2, <1>3, <1>6, <2>2 DEF Cleaned
<1>10. CASE ~CleanupFails
  BY <1>2, <1>3, <1>6, <1>7, <1>8, <1>10 DEF Cleaned
<1> QED
  BY <1>9, <1>10

\* an operation ends
LEMMA EndCleaned ==
  ASSUME op' = Idle
  PROVE  Cleaned'
<1>1. op'.phase = "none"
  BY IdleOperation
<1>2. op'.phase # "pool" /\ op'.phase # "remove" /\ op'.phase # "cleaned" /\ op'.phase # "unrecord"
      /\ op'.phase # "clean"
  BY <1>1
<1> QED
  BY <1>2, CleanedFrame

\* an operation that puts files, or has not begun to change any
LEMMA WorkingCleaned ==
  ASSUME op'.phase \in {"link", "dists"} \cup Putting
  PROVE  Cleaned'
<1>1. op'.phase # "pool" /\ op'.phase # "remove" /\ op'.phase # "cleaned" /\ op'.phase # "unrecord"
      /\ op'.phase # "clean"
  BY DEF Putting
<1> QED
  BY <1>1, CleanedFrame

\* the commands
LEMMA CommandsCleaned ==
  ASSUME Commands
  PROVE  Cleaned'
<1>1. ASSUME NEW name, NEW d, NEW kind, NEW new, NEW side, NEW comps,
             op' = AfterLink(Operation(name, d, kind, new, side, comps, "link", ToLink(new)))
      PROVE  Cleaned'
  <2>1. op'.phase = "link" \/ op'.phase = "index" \/ op'.phase = "release"
    <3>1. PICK o : o = Operation(name, d, kind, new, side, comps, "link", ToLink(new))
      OBVIOUS
    <3>2. IsOperation(o) /\ o.phase = "link"
      BY <3>1 DEF Operation, IsOperation
    <3>3. PICK G : G = Generated(o.new, conf.contents)
      OBVIOUS
    <3>4. PICK u : u = AfterLink(o)
      OBVIOUS
    <3>5. u = o \/ u.phase = "index" \/ u.phase = "release"
      BY <3>2, <3>3, <3>4, AfterLinkFields
    <3> QED
      BY <1>1, <3>1, <3>2, <3>4, <3>5
  <2>2. op'.phase \in {"link", "dists"} \cup Putting
    BY <2>1 DEF Putting
  <2> QED
    BY <2>2, WorkingCleaned
<1>2. ASSUME NEW d, NEW kind, NEW new, PublishSnapshotOrRepo(d, kind, new)
      PROVE  Cleaned'
  BY <1>1, <1>2 DEF PublishSnapshotOrRepo, Begin
<1>3. ASSUME NEW d, NEW new, NEW comps, Republish(d, new, comps)
      PROVE  Cleaned'
  BY <1>1, <1>3 DEF Republish, Begin
<1>4. ASSUME NEW d, NEW new, PublishUpdate(d, new)
      PROVE  Cleaned'
  BY <1>3, <1>4 DEF PublishUpdate
<1>5. ASSUME NEW d, NEW snaps, PublishSwitch(d, snaps)
      PROVE  Cleaned'
  BY <1>3, <1>5 DEF PublishSwitch
<1>6. ASSUME NEW d, PublishDrop(d)
      PROVE  Cleaned'
  <2>1. op'.phase = "dists"
    BY <1>6 DEF PublishDrop, Operation
  <2>2. op'.phase \in {"link", "dists"} \cup Putting
    BY <2>1
  <2> QED
    BY <2>2, WorkingCleaned
<1> QED
  BY <1>2, <1>4, <1>5, <1>6 DEF Commands

\* a publication before its record is stored
LEMMA PublishingCleaned ==
  ASSUME Core, NEW c, NEW p, NEW i, NEW sign,
         \/ LinkFromPool(c, p) \/ LinkFromPoolS3(c, p)
         \/ FinalizeIndex(i) \/ FinalizeRelease(sign) \/ SignRelease \/ RenameFiles(i)
  PROVE  Cleaned'
<1>0. IsOperation(op)
  BY DEF Core, Operations
<1>1. CASE LinkFromPool(c, p) \/ LinkFromPoolS3(c, p)
  <2>1. PICK seen : LinkStep(c, p, seen)
    BY <1>1 DEF LinkFromPool, LinkFromPoolS3
  <2>2. PICK G : G = Generated(op.new, conf.contents)
    OBVIOUS
  <2>3. op'.phase = "link" \/ op'.phase = "index" \/ op'.phase = "release"
    BY <1>0, <2>1, <2>2, LinkFields
  <2>4. op'.phase \in {"link", "dists"} \cup Putting
    BY <2>3 DEF Putting
  <2> QED
    BY <2>4, WorkingCleaned
<1>2. CASE FinalizeIndex(i) \/ FinalizeRelease(sign) \/ SignRelease \/ RenameFiles(i)
  <2>1. FinalizeIndex(i) => op'.phase = "index" \/ op'.phase = "release"
    BY <1>0, IndexFields
  <2>2. FinalizeRelease(sign) => op'.phase = "sign" \/ op'.phase = "save" \/ op'.phase = "rename"
    BY <1>0, ReleaseFields
  <2>3. SignRelease => op'.phase = "save" \/ op'.phase = "rename"
    BY <1>0, SignFields
  <2>4. RenameFiles(i) => op'.phase = "save" \/ op'.phase = "rename"
    BY <1>0, RenameFields
  <2>5. \/ op'.phase = "index" \/ op'.phase = "release" \/ op'.phase = "sign"
        \/ op'.phase = "save" \/ op'.phase = "rename"
    BY <1>2, <2>1, <2>2, <2>3, <2>4
  <2>6. op'.phase \in {"link", "dists"} \cup Putting
    BY <2>5 DEF Putting
  <2> QED
    BY <2>6, WorkingCleaned
<1> QED
  BY <1>1, <1>2

\* the record is stored
LEMMA SaveCleaned ==
  ASSUME Core, NEW c, SaveRecord \/ SaveRefs(c)
  PROVE  Cleaned'
<1>1. (op.name = "publish" \/ op.name = "update") /\ op.name # "idle"
  BY SaveShape
<1>2. PICK r : Saves(r)
  BY SaveShape
<1>3. CASE op'.phase = "refs"
  <2>1. op'.phase \in {"link", "dists"} \cup Putting
    BY <1>3 DEF Putting
  <2> QED
    BY <2>1, WorkingCleaned
<1>4. CASE op' = Idle
  BY <1>4, EndCleaned
<1>5. CASE Continues(op, op') /\ op'.phase = "clean"
  <2>1. op'.name = op.name
    BY <1>5 DEF Continues
  <2>2. op'.phase # "pool" /\ op'.phase # "remove" /\ op'.phase # "cleaned" /\ op'.phase # "unrecord"
        /\ op'.name # "drop"
    <3>1. op.name # "drop"
      BY <1>1
    <3>2. op'.name # "drop"
      BY <2>1, <3>1
    <3> QED
      BY <1>5, <3>2, SMTT(30)
  <2> QED
    BY <2>2, CleanedFrame
<1>6. AfterSave => op' = Idle \/ (Continues(op, op') /\ op'.phase = "clean")
  <2>1. op.dist \in Dists /\ Stores(r)
    BY <1>1, <1>2 DEF Core, Operations, Saves
  <2> QED
    BY <2>1, AfterSaveFields DEF Core, Operations
<1> QED
  BY <1>2, <1>3, <1>4, <1>5, <1>6 DEF Saves

\* Every step keeps count of what a cleanup has to remove.
LEMMA NextCleaned == Core /\ Cleaned /\ [Next]_vars => Cleaned'
<1> SUFFICES ASSUME Core, Cleaned, [Next]_vars
             PROVE  Cleaned'
  OBVIOUS
<1>1. CASE \/ \E c \in Comps, p \in Pkgs : LinkFromPool(c, p) \/ LinkFromPoolS3(c, p)
           \/ \E i \in Index : FinalizeIndex(i)
           \/ \E sign \in conf.sign : FinalizeRelease(sign)
           \/ SignRelease
           \/ \E x \in Index \cup {Release, Signatures} : RenameFiles(x)
  BY <1>1, PublishingCleaned
<1>2. CASE SaveRecord \/ \E c \in Comps : SaveRefs(c)
  BY <1>2, SaveCleaned
<1>3. CASE \/ CleanupPrefixComponentFiles \/ CleanupFails \/ RemoveFiles
           \/ \E c \in Comps, x \in Paths : RemoveFile(<<c, x>>) \/ RemovePool(<<c, x>>)
  BY <1>3, CleaningCleaned, RemovingCleaned
<1>4. CASE CleanedUp \/ Unrecord
  BY <1>4, EndCleaned DEF CleanedUp, Unrecord
<1>9. CASE PackageIndexByHash \/ IgnoredError
  <2>1. op'.phase \in {"index", "release"}
    BY <1>9 DEF PackageIndexByHash, IgnoredError, HashStep
  <2>2. op'.phase \in {"link", "dists"} \cup Putting
    BY <2>1 DEF Putting
  <2> QED
    BY <2>2, WorkingCleaned
<1>5. CASE Step
  BY <1>1, <1>2, <1>3, <1>4, <1>5, <1>9, CommandsCleaned DEF Step
<1>6. CASE Refuse \/ Abort \/ Crash
  BY <1>6, StopShape, EndCleaned DEF Stop
<1>7. CASE Reload \/ Flush
  <2>1. op' = op /\ op.name = "idle"
    BY <1>7 DEF Reload, Flush
  <2>2. op' = Idle
    BY <2>1 DEF Core, Operations
  <2> QED
    BY <2>2, EndCleaned
<1>8. CASE UNCHANGED vars
  <2>1. db' = db /\ cache' = cache /\ pub' = pub /\ op' = op
    BY <1>8 DEF vars
  <2> QED
    BY <2>1, SMTT(30) DEF Cleaned, Matching, Loadable, Referenced, RefsOf
<1> QED
  BY <1>5, <1>6, <1>7, <1>8, <1>9 DEF Next

\* the publications whose records are there when a cleanup has run to its end
Published == IF op.name = "drop" THEN DOMAIN db \ {op.dist} ELSE DOMAIN db

\* the files of the packages their records refer to
LEMMA KeptFiles ==
  ASSUME NEW c, NEW x, NEW d \in Published, c \in DOMAIN db[d].refs,
         NEW p \in db[d].refs[c], x = Path[p]
  PROVE  x \in {Path[q] : q \in UNION UNION {At(db[e].refs, c) : e \in Published}}
<1>1. db[d].refs[c] \in At(db[d].refs, c)
  BY DEF At
<1>2. At(db[d].refs, c) \in {At(db[e].refs, c) : e \in Published}
  OBVIOUS
<1>3. p \in UNION UNION {At(db[e].refs, c) : e \in Published}
  BY <1>1, <1>2
<1> QED
  BY <1>3

\* A cleanup that has run to its end leaves no package file in the components
\* it cleaned up that no record refers to.
THEOREM CleanupIsThorough == Spec => []CleanupLeavesNothing
<1>1. Init => Cleaned
  <2> SUFFICES ASSUME Init
               PROVE  Cleaned
    OBVIOUS
  <2>1. op.phase = "none"
    BY IdleOperation DEF Init
  <2>2. op.phase # "pool" /\ op.phase \notin {"clean", "remove", "unrecord"}
        /\ op.phase \notin {"remove", "cleaned"} /\ op.phase # "unrecord"
    BY <2>1
  <2> QED
    BY <2>2 DEF Cleaned
<1>2. ASSUME Core, Cleaned, op.clean, op.phase \in {"cleaned", "unrecord"},
             \A d \in Dists : "stale" \notin why[d],
             NEW c \in IF op.name = "drop" THEN DOMAIN op.new ELSE op.comps,
             NEW x \in DOMAIN pub[c]
      PROVE  \E d \in Published : c \in DOMAIN db[d].refs /\ \E p \in db[d].refs[c] : x = Path[p]
  <2> USE <1>2
  <2>1. op.phase \notin {"link"} \cup Putting /\ op.phase # "remove" /\ op.phase \notin {"dists", "pool"}
        /\ op.phase # "refs" /\ op.phase # "none"
    BY DEF Putting
  <2>2. op.name # "idle"
    BY <2>1, IdleOperation DEF Core, Operations
  <2>3. op.name = "drop" => op.phase \in {"clean", "remove", "unrecord"}
    BY <2>1 DEF Core, Operations
  <2>4. c \in op.comps
    BY <2>3 DEF Cleaned
  <2>5. op.phase \in {"remove", "cleaned"} \/ (op.phase = "unrecord" /\ op.clean)
    OBVIOUS
  <2>6. x \in Referenced(c) /\ \A d \in Matching(op.comps) : Loadable(d)
    BY <2>1, <2>4, <2>5 DEF Cleaned
  <2>7. PICK d \in DOMAIN cache : c \in cache[d].comps /\ \E p \in RefsOf(d)[c] : x = Path[p]
    BY <2>6 DEF Referenced
  <2>8. c \in DOMAIN RefsOf(d)
    BY <2>4, <2>6, <2>7 DEF Matching, Loadable
  <2>9. d \in DOMAIN db /\ d \in Dists
    BY DEF Core, TypeOK
  <2>10. RefsOf(d) = db[d].refs
    <3>1. CASE cache[d].kind = "local"
      BY <3>1 DEF RefsOf
    <3>2. CASE cache[d].kind # "local"
      <4>1. cache[d].kind = db[d].kind /\ db[d].kind \in {"local", "snapshot"}
        BY <2>9 DEF Core, Records, TypeOK
      <4>2. cache[d].kind = "snapshot"
        BY <3>2, <4>1
      <4> QED
        BY <2>1, <2>9, <3>2, <4>2 DEF Core, Cached, RefsOf
    <3> QED
      BY <3>1, <3>2
  <2>11. op.name = "drop" => d # op.dist
    BY <2>1 DEF Core, Operations
  <2> QED
    BY <2>7, <2>8, <2>9, <2>10, <2>11 DEF Published
<1>3. Core /\ Cleaned => CleanupLeavesNothing
  <2> SUFFICES ASSUME Core, Cleaned, op.clean, op.phase \in {"cleaned", "unrecord"},
                      \A d \in Dists : "stale" \notin why[d],
                      NEW c \in IF op.name = "drop" THEN DOMAIN op.new ELSE op.comps,
                      NEW x \in DOMAIN pub[c]
               PROVE  x \in {Path[p] : p \in UNION UNION {At(db[d].refs, c) : d \in Published}}
    BY DEF CleanupLeavesNothing, Published
  <2>1. \E d \in Published : c \in DOMAIN db[d].refs /\ \E p \in db[d].refs[c] : x = Path[p]
    BY <1>2
  <2> QED
    BY <2>1, KeptFiles
<1> QED
  BY <1>1, <1>3, NextCleaned, CoreInvariant, PTL DEF Spec
=============================================================================
