-------------------------- MODULE PublishPackages --------------------------
EXTENDS PublishSites

(***************************************************************************)
(* The package files, from where they are linked to where a cleanup spares *)
(* them: what the indexes list can be downloaded.  The invariant Packages  *)
(* rests on the one of the metadata (Sites): an index is known by what the *)
(* record says, or by how far the operation that puts it has come.         *)
(***************************************************************************)

\* the backend of every leaf that names no other
USE ZenonT(30)

\* the package is at its place
Present(c, p) == At(pub[c], Path[p]) = {p}

\* the packages that an index lists are at their places
Served(c, w) == \A p \in w \ {Torn} : Present(c, p)

\* What was left behind, forced or skipped voids the promise to a client.
Void(d) == why[d] \cap {"torn", "stale", "force", "missing"} # {}

\* The packages to be published are linked, unless the storage was wrong about
\* a place or two of them have the same.
Linked ==
  /\ op.phase = "link" => op.todo \subseteq ToLink(op.new)
  /\ ~op.missed =>
       \A c \in Comps, p \in Pkgs :
         /\ <<c, p>> \in ToLink(op.new)
         /\ (op.phase = "link" /\ <<c, p>> \notin op.todo) \/ op.phase \in Putting
         => Present(c, p)

\* The files that are put are those of the publication.
Named ==
  op.phase \in Putting =>
    /\ DOMAIN op.tmp \subseteq Generated(op.new, conf.contents) \cup {Release, Signatures}
    /\ op.phase = "index" => op.todo \subseteq Generated(op.new, conf.contents)

\* While the files of a re-publication are renamed, Release and an index that
\* it names may be of different publications: both have to be served.
Mixed ==
  op.phase = "rename" /\ ~Void(op.dist) /\ ~op.missed =>
    \A i \in Generated(op.new, conf.contents) : i[1] = "Packages" =>
      \A w \in At(site[op.dist].vis, i) : Served(i[2], w)

\* What is to be removed is referred to by nobody else.
Spared ==
  /\ op.phase = "pool" =>
       \A c \in Comps, x \in Paths : <<c, x>> \in op.todo =>
         \A e \in Others(op.dist) : c \notin cache[e].comps
  /\ op.phase = "remove" =>
       \A c \in Comps, x \in Paths : <<c, x>> \in op.todo => x \notin Referenced(c)

\* What a client is offered can be downloaded.
Offers == \A d \in Dists : ~Void(d) /\ (Quiet(d) \/ ~op.missed) => Complete(d)

\* The invariant of the package files.
Packages == Linked /\ Named /\ Mixed /\ Spared /\ Offers

\* Complete, without the pairs that Offered makes
Sound(d) ==
  \A r \in At(site[d].vis, Release) : \A x \in r :
    x \notin Partial /\ x[1][1] = "Packages" =>
      Served(x[1][2], x[2]) /\ \A w \in At(site[d].vis, x[1]) : Served(x[1][2], w)

\* what clients may fetch
LEMMA OfferedFacts ==
  ASSUME NEW d
  PROVE  /\ \A r \in At(site[d].vis, Release) : \A x \in r :
              x \notin Partial /\ x[1][1] = "Packages" =>
                x \in Offered(d) /\ \A w \in At(site[d].vis, x[1]) : <<x[1], w>> \in Offered(d)
         /\ \A y \in Offered(d) : \E r \in At(site[d].vis, Release) : \E x \in r :
              /\ x \notin Partial /\ x[1][1] = "Packages"
              /\ y = x \/ \E w \in At(site[d].vis, x[1]) : y = <<x[1], w>>
<1>1. PICK v : v = site[d].vis
  OBVIOUS
<1>2. PICK named : named = {x \in (UNION At(v, Release)) \ Partial : x[1][1] = "Packages"}
  OBVIOUS
<1>3. Offered(d) = named \cup UNION {{<<x[1], w>> : w \in At(v, x[1])} : x \in named}
  BY <1>1, <1>2, SMTT(30) DEF Offered
<1>4. \A x : x \in named <=>
        (\E r \in At(v, Release) : x \in r) /\ x \notin Partial /\ x[1][1] = "Packages"
  <2>1. PICK A : A = At(v, Release)
    OBVIOUS
  <2>2. \A x : x \in UNION A <=> \E r \in A : x \in r
    OBVIOUS
  <2>3. PICK S : S = (UNION A) \ Partial
    OBVIOUS
  <2>4. \A x : x \in S <=> x \in UNION A /\ x \notin Partial
    BY <2>3
  <2>5. named = {x \in S : x[1][1] = "Packages"}
    BY <1>2, <2>1, <2>3
  <2>6. \A x : x \in named <=> x \in S /\ x[1][1] = "Packages"
    BY <2>5
  <2> QED
    BY <2>1, <2>2, <2>4, <2>6
<1>5. \A y : y \in Offered(d) <=>
        y \in named \/ \E x \in named : \E w \in At(v, x[1]) : y = <<x[1], w>>
  BY <1>3, SMTT(30)
<1>6. \A r \in At(v, Release) : \A x \in r : x \notin Partial /\ x[1][1] = "Packages" => x \in named
  BY <1>4
<1>7. \A y \in Offered(d) : \E x \in named : y = x \/ \E w \in At(v, x[1]) : y = <<x[1], w>>
  BY <1>5
<1>8. \A x \in named : x \in Offered(d) /\ \A w \in At(v, x[1]) : <<x[1], w>> \in Offered(d)
  BY <1>5
<1>9. \A y \in Offered(d) : \E r \in At(v, Release) : \E x \in r :
        /\ x \notin Partial /\ x[1][1] = "Packages"
        /\ y = x \/ \E w \in At(v, x[1]) : y = <<x[1], w>>
  BY <1>4, <1>7
<1> QED
  BY <1>1, <1>6, <1>8, <1>9, SMTT(30)

\* Sound and Complete say the same.
LEMMA CompleteSound ==
  ASSUME NEW d
  PROVE  Complete(d) <=> Sound(d)
<1>1. \A y, w : <<y, w>>[1] = y /\ <<y, w>>[2] = w
  OBVIOUS
<1>2. Complete(d) <=> \A y \in Offered(d) : Served(y[1][2], y[2])
  BY DEF Complete, Served, Present
<1>3. ASSUME Complete(d)
      PROVE  Sound(d)
  BY <1>1, <1>2, <1>3, OfferedFacts DEF Sound
<1>4. ASSUME Sound(d), NEW y \in Offered(d)
      PROVE  Served(y[1][2], y[2])
  <2>1. PICK r \in At(site[d].vis, Release) : \E x \in r :
          /\ x \notin Partial /\ x[1][1] = "Packages"
          /\ y = x \/ \E w \in At(site[d].vis, x[1]) : y = <<x[1], w>>
    BY <1>4, OfferedFacts
  <2>2. PICK x \in r : /\ x \notin Partial /\ x[1][1] = "Packages"
                       /\ y = x \/ \E w \in At(site[d].vis, x[1]) : y = <<x[1], w>>
    BY <2>1
  <2>3. Served(x[1][2], x[2]) /\ \A w \in At(site[d].vis, x[1]) : Served(x[1][2], w)
    BY <1>4, <2>1, <2>2 DEF Sound
  <2> QED
    BY <1>1, <2>2, <2>3, SMTT(30)
<1> QED
  BY <1>2, <1>3, <1>4

\* A distribution that is settled offers what its record says.
LEMMA SettledOffers ==
  ASSUME NEW d, Settled(d), NEW y \in Offered(d)
  PROVE  Recorded(d) /\ y \in Rel(db[d].refs)
<1>1. PICK r \in At(site[d].vis, Release) : \E x \in r :
        y = x \/ \E w \in At(site[d].vis, x[1]) : y = <<x[1], w>>
  BY OfferedFacts, SMTT(30)
<1>2. PICK x \in r : y = x \/ \E w \in At(site[d].vis, x[1]) : y = <<x[1], w>>
  BY <1>1
<1>3. r \in IF Recorded(d) THEN {Rel(db[d].refs)} ELSE {}
  BY <1>1 DEF Settled
<1>4. Recorded(d) /\ r = Rel(db[d].refs)
  BY <1>3
<1>5. At(site[d].vis, x[1]) = {x[2]}
  BY <1>2, <1>4 DEF Settled
<1>6. PICK i : x = <<i, Listed(i, db[d].refs)>>
  BY <1>2, <1>4 DEF Rel, ReleaseOf
<1>7. x = <<x[1], x[2]>>
  BY <1>6
<1>8. y = x
  BY <1>2, <1>5, <1>7
<1> QED
  BY <1>2, <1>4, <1>8

\* what Complete depends on
LEMMA CompleteFrame ==
  ASSUME NEW d, Complete(d), site'[d].vis = site[d].vis, pub' = pub
  PROVE  Complete(d)'
<1>1. Offered(d)' = Offered(d)
  BY SMTT(30) DEF Offered
<1> QED
  BY <1>1 DEF Complete

\* no files
LEMMA NothingOffered ==
  ASSUME NEW d, site'[d] = EmptySite
  PROVE  Complete(d)'
<1>1. site'[d].vis = <<>>
  BY EmptySiteFields
<1>2. At(site'[d].vis, Release) = {}
  BY <1>1, EmptyFunction DEF At
<1>3. Sound(d)'
  BY <1>2 DEF Sound
<1>4. Complete(d)' <=> Sound(d)'
  BY CompleteSound, PTL
<1> QED
  BY <1>3, <1>4

\* the voids of a distribution whose marks only grow
LEMMA VoidGrows ==
  ASSUME NEW d, why[d] \subseteq why'[d]
  PROVE  ~Void(d)' => ~Void(d)
  BY DEF Void

\* what a step leaves to the clients of d
LEMMA OffersKept ==
  ASSUME Packages, NEW d \in Dists, why[d] \subseteq why'[d], ~Void(d)', Quiet(d) \/ ~op.missed,
         site'[d].vis = site[d].vis, pub' = pub
  PROVE  Complete(d)'
<1>1. Complete(d)
  BY VoidGrows DEF Packages, Offers
<1> QED
  BY <1>1, CompleteFrame

\* A distribution that no operation works on and that is not void is quiet.
LEMMA OthersQuiet ==
  ASSUME NEW d, d # op.dist, ~Void(d)
  PROVE  Quiet(d)
<1>1. "torn" \notin why[d]
  BY DEF Void
<1> QED
  BY <1>1 DEF Quiet

\* Packages of which the step leaves alone what is linked and what is removed
LEMMA PackagesFrame ==
  ASSUME Offers', op'.phase \notin Putting, op'.phase # "link", op'.phase # "pool",
         op'.phase # "remove"
  PROVE  Packages'
<1>1. op'.phase # "rename"
  BY DEF Putting
<1>2. Linked'
  BY DEF Linked
<1>3. Mixed'
  BY <1>1 DEF Mixed
<1>4. Spared'
  BY DEF Spared
<1>5. Named'
  BY DEF Named
<1> QED
  BY <1>2, <1>3, <1>4, <1>5 DEF Packages

\* an operation ends
LEMMA EndPackages ==
  ASSUME Offers', op' = Idle
  PROVE  Packages'
<1>1. op'.phase = "none"
  BY IdleOperation
<1>2. op'.phase \notin Putting /\ op'.phase # "link" /\ op'.phase # "pool" /\ op'.phase # "remove"
  BY <1>1 DEF Putting
<1> QED
  BY <1>2, PackagesFrame

\* an operation that has put nothing
LEMMA FreshNamed == Fresh => Named
<1> SUFFICES ASSUME Fresh, op.phase \in Putting
             PROVE  Named
  BY DEF Named
<1>1. DOMAIN op.tmp = {}
  BY EmptyFunction DEF Fresh
<1>2. op.phase = "index" => op.todo = Generated(op.new, conf.contents)
  BY DEF Fresh
<1> QED
  BY <1>1, <1>2 DEF Named

\* an operation before it puts files
LEMMA EarlyPackages ==
  ASSUME Offers', Linked', Fresh', op'.phase = "link" \/ op'.phase = "index" \/ op'.phase = "release"
                             \/ op'.phase = "dists"
  PROVE  Packages'
<1>1. op'.phase # "rename" /\ op'.phase # "pool" /\ op'.phase # "remove"
  OBVIOUS
<1>2. Mixed'
  BY <1>1 DEF Mixed
<1>3. Spared'
  BY <1>1 DEF Spared
<1>4. Fresh' => Named'
  BY FreshNamed, PTL
<1> QED
  BY <1>2, <1>3, <1>4 DEF Packages

\* a command begins
LEMMA BeginOffers ==
  ASSUME Core, Packages, op.name = "idle", UNCHANGED <<pub, site, why>>
  PROVE  Offers'
<1>1. \A d \in Dists : op.dist # d
  BY IdleFields DEF Core
<1>2. ASSUME NEW d \in Dists, ~Void(d)'
      PROVE  Complete(d)'
  <2>1. ~Void(d)
    BY <1>2 DEF Void
  <2>2. Quiet(d)
    BY <1>1, <2>1, OthersQuiet
  <2> QED
    BY <1>2, <2>2, OffersKept
<1> QED
  BY <1>2 DEF Offers

\* the operations that commands begin
LEMMA BeginsLinked ==
  ASSUME NEW name, NEW d, NEW kind, NEW new, NEW side, NEW comps,
         op' = AfterLink(Operation(name, d, kind, new, side, comps, "link", ToLink(new)))
  PROVE  Linked' /\ (op'.phase = "link" \/ op'.phase = "index" \/ op'.phase = "release")
<1>1. PICK t : t = ToLink(new)
  OBVIOUS
<1>2. PICK o : o = Operation(name, d, kind, new, side, comps, "link", t)
  OBVIOUS
<1>3. IsOperation(o) /\ o.phase = "link" /\ o.new = new /\ o.todo = t
  BY <1>2 DEF Operation, IsOperation
<1>4. PICK G : G = Generated(o.new, conf.contents)
  OBVIOUS
<1>5. PICK u : u = AfterLink(o)
  OBVIOUS
<1>6. /\ Continues(o, u)
      /\ \/ o.todo # {} /\ u = o
         \/ o.todo = {} /\ u.phase = "index"
         \/ o.todo = {} /\ u.phase = "release"
  BY <1>3, <1>4, <1>5, AfterLinkFields, SMTT(30)
<1>7. op' = u /\ u.new = new
  BY <1>1, <1>2, <1>3, <1>5, <1>6 DEF Continues
<1>8. ToLink(op'.new) = t
  BY <1>1, <1>7
<1>9. CASE u = o
  <2>1. op'.phase = "link" /\ op'.todo = ToLink(op'.new)
    BY <1>3, <1>7, <1>8, <1>9
  <2>2. op'.phase \notin Putting
    BY <2>1 DEF Putting
  <2>3. Linked'
    BY <2>1, <2>2 DEF Linked, ToLink
  <2> QED
    BY <2>1, <2>3
<1>10. CASE o.todo = {} /\ (u.phase = "index" \/ u.phase = "release")
  <2>1. ToLink(op'.new) = {}
    BY <1>3, <1>8, <1>10
  <2>2. op'.phase # "link"
    BY <1>7, <1>10
  <2>3. Linked'
    BY <2>1, <2>2 DEF Linked, ToLink
  <2> QED
    BY <1>7, <1>10, <2>3
<1> QED
  BY <1>6, <1>9, <1>10

\* the commands
LEMMA CommandsPackages ==
  ASSUME Core, Packages, Commands
  PROVE  Packages'
<1>1. ASSUME NEW name, NEW d, NEW kind, NEW new, NEW side, NEW comps,
             op.name = "idle", UNCHANGED <<pub, site, conf, why>>,
             op' = AfterLink(Operation(name, d, kind, new, side, comps, "link", ToLink(new)))
      PROVE  Packages'
  <2>1. Linked' /\ (op'.phase = "link" \/ op'.phase = "index" \/ op'.phase = "release")
    BY <1>1, BeginsLinked
  <2>2. Offers'
    BY <1>1, BeginOffers
  <2>3. Fresh'
    BY <1>1, BeginsFresh
  <2> QED
    BY <2>1, <2>2, <2>3, EarlyPackages
<1>2. ASSUME NEW d, NEW kind, NEW new, PublishSnapshotOrRepo(d, kind, new)
      PROVE  Packages'
  BY <1>1, <1>2 DEF PublishSnapshotOrRepo, Begin, files, paths, fixed
<1>3. ASSUME NEW d, NEW new, NEW comps, op.name = "idle", UNCHANGED <<pub, site, conf, why>>,
             Republish(d, new, comps)
      PROVE  Packages'
  <2>1. PICK side : side = IF cache'[d].re THEN "tmp" ELSE "vis"
    OBVIOUS
  <2>2. op' = AfterLink(Operation("update", d, cache[d].kind, new, side, comps, "link", ToLink(new)))
    BY <1>3, <2>1 DEF Republish, Begin
  <2> QED
    BY <1>1, <1>3, <2>2
<1>4. ASSUME NEW d, NEW new, PublishUpdate(d, new)
      PROVE  Packages'
  BY <1>3, <1>4 DEF PublishUpdate, files, paths, fixed
<1>5. ASSUME NEW d, NEW snaps, PublishSwitch(d, snaps)
      PROVE  Packages'
  BY <1>3, <1>5 DEF PublishSwitch, files, paths, fixed
<1>6. ASSUME NEW d, PublishDrop(d)
      PROVE  Packages'
  <2>1. op.name = "idle" /\ UNCHANGED <<pub, site, conf, why>>
    BY <1>6 DEF PublishDrop, files, paths, fixed
  <2>2. op'.phase = "dists"
    BY <1>6 DEF PublishDrop, Operation
  <2>3. op'.phase \notin Putting /\ op'.phase # "link" /\ op'.phase # "pool" /\ op'.phase # "remove"
    BY <2>2 DEF Putting
  <2>4. Offers'
    BY <2>1, BeginOffers
  <2> QED
    BY <2>3, <2>4, PackagesFrame
<1> QED
  BY <1>2, <1>4, <1>5, <1>6 DEF Commands

\* what a record that is settled lists
LEMMA SettledLists ==
  ASSUME Core, NEW d, Settled(d), NEW y \in Offered(d)
  PROVE  /\ Recorded(d) /\ y[1] \in Generated(db[d].refs, conf.contents) /\ y[1] \in Index
         /\ y[2] = Listed(y[1], db[d].refs)
         /\ y[1][2] \in Comps /\ y[1][2] \in DOMAIN db[d].refs /\ y[1][3] \in Archs
         /\ y[2] \subseteq db[d].refs[y[1][2]] /\ y[2] \subseteq Pkgs
<1>1. Recorded(d) /\ y \in Rel(db[d].refs)
  BY SettledOffers
<1>2. y[1] \in Generated(db[d].refs, conf.contents) /\ y[2] = Listed(y[1], db[d].refs)
  BY <1>1, RelFacts
<1>3. y[1] \in Index /\ y[1][2] \in DOMAIN db[d].refs
  BY <1>2 DEF Generated
<1>4. \A i \in Index : i[2] \in Comps /\ i[3] \in Archs
  BY SMTT(30) DEF Index
<1>5. y[2] \subseteq db[d].refs[y[1][2]]
  BY <1>2 DEF Listed
<1>6. Sources(db[d].refs)
  BY <1>1 DEF Core, Records, Recorded
<1>7. db[d].refs[y[1][2]] \subseteq Pkgs
  BY <1>3, <1>6 DEF Sources
<1> QED
  BY <1>1, <1>2, <1>3, <1>4, <1>5, <1>7

\* linking a package file
LEMMA LinkPresent ==
  ASSUME Core, NEW c \in Comps, NEW p \in Pkgs, NEW seen, LinkStep(c, p, seen)
  PROVE  /\ seen # {p} => Present(c, p)'
         /\ \A e \in Comps, q \in Pkgs :
              Present(e, q) /\ ~(pub' # pub /\ e = c /\ Path[q] = Path[p] /\ q # p) => Present(e, q)'
<1>1. /\ seen = {p} => pub' = pub
      /\ seen # {p} => /\ pub'[c] = Bind(pub[c], Path[p], p)
                       /\ \A e \in Comps : e # c => pub'[e] = pub[e]
  BY CoreShapes, LinkShape
<1>2. CASE seen = {p}
  BY <1>1, <1>2 DEF Present
<1>3. CASE seen # {p}
  <2>1. PICK b : b = Bind(pub[c], Path[p], p) /\ Bound(b, pub[c], Path[p], p)
    BY BindBound
  <2>2. At(b, Path[p]) = {p} /\ \A x : x # Path[p] => At(b, x) = At(pub[c], x)
    BY <2>1 DEF Bound
  <2>3. pub'[c] = b
    BY <1>1, <1>3, <2>1
  <2>4. Present(c, p)'
    BY <2>2, <2>3 DEF Present
  <2>5. ASSUME NEW e \in Comps, NEW q \in Pkgs, Present(e, q),
               ~(pub' # pub /\ e = c /\ Path[q] = Path[p] /\ q # p)
        PROVE  Present(e, q)'
    <3>1. CASE pub' = pub
      BY <2>5, <3>1 DEF Present
    <3>2. CASE e # c
      BY <1>1, <1>3, <2>5, <3>2 DEF Present
    <3>3. CASE e = c /\ Path[q] # Path[p]
      BY <2>2, <2>3, <2>5, <3>3 DEF Present
    <3>4. CASE e = c /\ q = p
      BY <2>4, <3>4
    <3> QED
      BY <2>5, <3>1, <3>2, <3>3, <3>4
  <2> QED
    BY <2>4, <2>5
<1> QED
  BY <1>2, <1>3

\* What linking overwrites is marked.
LEMMA LinkOffers ==
  ASSUME Core, Sites, Packages, NEW c \in Comps, NEW p \in Pkgs, NEW seen, LinkStep(c, p, seen),
         pub' = pub \/ why' = Overwritten(c, p), NEW d \in Dists, why[d] \subseteq why'[d], ~Void(d)'
  PROVE  Complete(d)'
<1>1. op.phase = "link" /\ site' = site
  BY DEF LinkStep
<1>2. ~Void(d) /\ "torn" \notin why[d] /\ "force" \notin why'[d]
  BY VoidGrows DEF Void
<1>3. op.phase \in {"link", "dists"}
  BY <1>1
<1>4. Quiet(d)
  BY <1>2, <1>3 DEF Quiet
<1>5. Settled(d) /\ Complete(d)
  BY <1>2, <1>4 DEF Sites, Packages, Offers
<1>6. Offered(d)' = Offered(d)
  BY <1>1, SMTT(30) DEF Offered
<1>7. ASSUME NEW y \in Offered(d), NEW q \in y[2] \ {Torn}
      PROVE  Present(y[1][2], q)'
  <2>1. PICK e : e = y[1][2]
    OBVIOUS
  <2>2. e \in Comps /\ q \in Pkgs
    BY <1>5, <1>7, <2>1, SettledLists
  <2>3. Present(e, q)
    BY <1>5, <1>7, <2>1 DEF Complete, Present
  <2>4. ~(pub' # pub /\ e = c /\ Path[q] = Path[p] /\ q # p)
    <3> SUFFICES ASSUME pub' # pub, e = c, Path[q] = Path[p], q # p
                 PROVE  FALSE
      OBVIOUS
    <3>1. At(pub[c], Path[p]) = {q}
      BY <2>3 DEF Present
    <3>2. Lists(d, c, q)
      BY <1>7, <2>1 DEF Lists
    <3>3. \E r \in At(pub[c], Path[p]) \ {p} : Lists(d, c, r)
      BY <3>1, <3>2
    <3>4. "force" \in Overwritten(c, p)[d]
      BY <3>3 DEF Overwritten
    <3> QED
      BY <1>2, <3>4
  <2>5. \A f \in Comps, r \in Pkgs :
          Present(f, r) /\ ~(pub' # pub /\ f = c /\ Path[r] = Path[p] /\ r # p) => Present(f, r)'
    BY LinkPresent
  <2>6. Present(e, q)'
    BY <2>2, <2>3, <2>4, <2>5
  <2> QED
    BY <2>1, <2>6
<1> QED
  BY <1>6, <1>7 DEF Complete, Present

\* What is linked stays linked while the rest is.
LEMMA LinkLinked ==
  ASSUME Core, Packages, NEW c \in Comps, NEW p \in Pkgs, NEW seen, LinkStep(c, p, seen)
  PROVE  Linked' /\ (op'.phase = "link" \/ op'.phase = "index" \/ op'.phase = "release")
<1>0. op.phase = "link" /\ op.name # "idle" /\ <<c, p>> \in op.todo
  BY DEF LinkStep
<1>1. PICK G : G = Generated(op.new, conf.contents)
  OBVIOUS
<1>2. /\ Continues(op, op')
      /\ op'.missed = (op.missed \/ Misses(c, p, seen))
      /\ \/ op'.phase = "link" /\ op'.todo = op.todo \ {<<c, p>>}
         \/ op.todo \ {<<c, p>>} = {} /\ op'.phase = "index"
         \/ op.todo \ {<<c, p>>} = {} /\ op'.phase = "release"
  <2>1. IsOperation(op)
    BY DEF Core, Operations
  <2>2. op'.missed = (op.missed \/ Misses(c, p, seen))
    BY <1>1, <2>1, LinkFields, SMTT(30)
  <2>3. Continues(op, op')
    BY <1>1, <2>1, LinkFields
  <2>4. \/ op'.phase = "link" /\ op'.todo = op.todo \ {<<c, p>>}
        \/ op.todo \ {<<c, p>>} = {} /\ op'.phase = "index"
        \/ op.todo \ {<<c, p>>} = {} /\ op'.phase = "release"
    BY <1>1, <2>1, LinkFields
  <2> QED
    BY <2>2, <2>3, <2>4
<1>3. op'.new = op.new
  BY <1>2 DEF Continues
<1>4. op.todo \subseteq ToLink(op.new)
  BY <1>0 DEF Packages, Linked
<1>6. ASSUME NEW e, NEW q, <<e, q>> \in ToLink(op.new)
      PROVE  e \in DOMAIN op.new /\ q \in op.new[e]
  <2>1. \A x \in ToLink(op.new) : x[1] \in DOMAIN op.new /\ x[2] \in op.new[x[1]]
    BY DEF ToLink
  <2> QED
    BY <1>6, <2>1
<1>7. op'.phase = "link" => op'.todo \subseteq ToLink(op'.new)
  BY <1>2, <1>3, <1>4
<1>8. ASSUME ~op'.missed, NEW e \in Comps, NEW q \in Pkgs, <<e, q>> \in ToLink(op.new),
             (op'.phase = "link" /\ <<e, q>> \notin op'.todo) \/ op'.phase \in Putting
      PROVE  Present(e, q)'
  <2>0. ~op.missed /\ ~Misses(c, p, seen)
    BY <1>2, <1>8
  <2>1. /\ ~op.missed /\ (seen = {p} => At(pub[c], Path[p]) = {p})
        /\ seen # {p} => (At(pub[c], Path[p]) \ {p}) \cap op.new[c] = {}
    BY <2>0 DEF Misses
  <2>2. <<e, q>> = <<c, p>> \/ <<e, q>> \notin op.todo
    <3>1. "link" \notin Putting
      BY DEF Putting
    <3> QED
      BY <1>2, <1>8, <3>1
  <2>3. CASE <<e, q>> = <<c, p>>
    <3>1. e = c /\ q = p
      BY <2>3
    <3>2. CASE seen = {p}
      <4>1. Present(c, p)
        BY <2>1, <3>2 DEF Present
      <4> QED
        BY <3>1, <4>1, LinkPresent
    <3>3. CASE seen # {p}
      BY <3>1, <3>3, LinkPresent
    <3> QED
      BY <3>2, <3>3
  <2>4. CASE <<e, q>> \notin op.todo
    <3>1. Present(e, q)
      BY <1>0, <1>8, <2>1, <2>4 DEF Packages, Linked
    <3>2. ~(pub' # pub /\ e = c /\ Path[q] = Path[p] /\ q # p)
      <4> SUFFICES ASSUME pub' # pub, e = c, Path[q] = Path[p], q # p
                   PROVE  FALSE
        OBVIOUS
      <4>1. q \in op.new[c]
        BY <1>6, <1>8
      <4>2. At(pub[c], Path[p]) = {q}
        BY <3>1 DEF Present
      <4>3. seen # {p}
        BY DEF LinkStep
      <4> QED
        BY <2>1, <4>1, <4>2, <4>3
    <3> QED
      BY <3>1, <3>2, LinkPresent
  <2> QED
    BY <2>2, <2>3, <2>4
<1>9. Linked'
  BY <1>3, <1>7, <1>8 DEF Linked
<1> QED
  BY <1>2, <1>9

\* linking package files
LEMMA LinkPackages ==
  ASSUME Core, Sites, Packages, NEW c \in Comps, NEW p \in Pkgs,
         LinkFromPool(c, p) \/ LinkFromPoolS3(c, p)
  PROVE  Packages'
<1>1. PICK seen : LinkStep(c, p, seen)
  BY DEF LinkFromPool, LinkFromPoolS3
<1>2. (why' = why /\ pub' = pub) \/ why' = Overwritten(c, p)
  BY DEF LinkFromPool, LinkFromPoolS3
<1>3. \A d \in Dists : why[d] \subseteq why'[d]
  <2>1. why \in [Dists -> SUBSET Reasons]
    BY DEF Core, TypeOK
  <2>2. \A d \in Dists : why[d] \subseteq Overwritten(c, p)[d]
    BY <2>1, OverwrittenType
  <2> QED
    BY <1>2, <2>2
<1>4. \A d \in Dists : ~Void(d)' => Complete(d)'
  BY <1>1, <1>2, <1>3, LinkOffers
<1>5. Offers'
  BY <1>4 DEF Offers
<1>6. Linked' /\ (op'.phase = "link" \/ op'.phase = "index" \/ op'.phase = "release")
  BY <1>1, LinkLinked
<1>7. conf' = conf
  BY DEF LinkFromPool, LinkFromPoolS3, paths, fixed
<1>8. Fresh'
  BY <1>1, <1>7, LinkFresh
<1> QED
  BY <1>5, <1>6, <1>8, EarlyPackages

\* A file of the publication is put: with the suffix, or in place.
PutAs(x) ==
  /\ op.phase \in {"index", "release", "sign", "rename"}
  /\ op'.phase \in {"index", "release", "sign", "rename", "save"}
  /\ op.phase = "rename" => op'.phase = "rename" \/ op'.phase = "save"
  /\ op'.phase = "rename" => op.side = "tmp"
  /\ op'.phase = "index" => op.phase = "index" /\ op'.todo \subseteq op.todo
  /\ Continues(op, op') /\ op'.missed = op.missed /\ DOMAIN op'.tmp \subseteq DOMAIN op.tmp \cup {x}
  /\ UNCHANGED <<db, pub, conf, why>> /\ \A e \in Dists : e # op.dist => site'[e] = site[e]
  /\ op.side = "vis" \/ op.phase = "rename" =>
       site'[op.dist].vis = Bind(site[op.dist].vis, x, Target(x))
  /\ op.side = "tmp" /\ op.phase # "rename" => site'[op.dist].vis = site[op.dist].vis
  /\ x \in Generated(op.new, conf.contents) \cup {Release, Signatures}
  /\ x = Release => op.phase = "release" \/ op.phase = "rename"

\* The packages that the operation lists are served once they are linked.
LEMMA ListedServed ==
  ASSUME Core, Packages, op.name # "idle", op.phase \in Putting, ~op.missed,
         NEW i \in Generated(op.new, conf.contents)
  PROVE  Served(i[2], Listed(i, op.new))
<1>1. Sources(op.new) /\ i \in Index /\ i[2] \in DOMAIN op.new
  BY DEF Core, Operations, Generated
<1>2. i[2] \in Comps /\ i[3] \in Archs
  BY <1>1, SMTT(30) DEF Index
<1>3. ASSUME NEW p \in Listed(i, op.new)
      PROVE  Present(i[2], p)
  <2>1. p \in op.new[i[2]] /\ i[3] \in Arch[p] /\ p \in Pkgs
    BY <1>1, <1>3 DEF Listed, Sources
  <2>2. PICK y : y = <<i[2], p>>
    OBVIOUS
  <2>3. y[1] = i[2] /\ y[2] = p /\ y \in Comps \X Pkgs
    BY <1>2, <2>1, <2>2
  <2>4. y \in ToLink(op.new)
    BY <1>1, <1>2, <2>1, <2>3 DEF ToLink
  <2> QED
    BY <1>2, <2>1, <2>2, <2>4 DEF Packages, Linked
<1> QED
  BY <1>3 DEF Served

\* The visible package indexes that the operation replaces are served.
LEMMA VisibleServed ==
  ASSUME Core, Sites, Packages, op.name # "idle", op.side = "tmp", ~Void(op.dist),
         op.phase \in {"index", "release", "sign"},
         NEW i \in Generated(op.new, conf.contents), i[1] = "Packages",
         NEW w \in At(site[op.dist].vis, i)
  PROVE  Served(i[2], w)
<1>1. PICK d \in Dists : d = op.dist
  BY DEF Core, Operations
<1>2. "torn" \notin why[d]
  BY <1>1 DEF Void
<1>3. Quiet(d)
  BY <1>1, <1>2 DEF Quiet
<1>4. Settled(d)
  BY <1>3 DEF Sites
<1>5. Sound(d)
  BY <1>1, <1>3, CompleteSound DEF Packages, Offers
<1>6. op.phase \in Putting /\ op.phase # "refs"
  BY DEF Putting
<1>7. op.name = "update"
  <2>1. op.name = "publish" \/ op.name = "update"
    BY <1>6, PhaseNames DEF Core
  <2>2. op.name = "publish" => op.side = "vis"
    BY DEF Core, Operations
  <2>3. op.side # "vis"
    OBVIOUS
  <2> QED
    BY <2>1, <2>2, <2>3
<1>8. d \in DOMAIN cache /\ DOMAIN op.new = cache[d].comps
  BY <1>1, <1>7 DEF Core, Operations
<1>9. Recorded(d)
  BY <1>2, <1>6, <1>8 DEF Core, Cached
<1>10. DOMAIN op.new = DOMAIN db[d].refs
  BY <1>8, <1>9 DEF Core, Records, Recorded
<1>11. i \in Generated(db[d].refs, conf.contents) /\ i \in Index
  BY <1>10 DEF Generated
<1>12. PICK x : x = <<i, Listed(i, db[d].refs)>>
  OBVIOUS
<1>13. x \in Rel(db[d].refs) /\ x[1] = i
  <2>1. x \in Rel(db[d].refs)
    BY <1>11, <1>12, RelFacts
  <2>2. x[1] = i
    BY <1>12
  <2> QED
    BY <2>1, <2>2
<1>14. x \notin Partial
  <2>1. i[2] \in DOMAIN db[d].refs
    BY <1>11 DEF Generated
  <2>2. Sources(db[d].refs)
    BY <1>9 DEF Core, Records, Recorded
  <2>3. Listed(i, db[d].refs) \in SUBSET Pkgs
    BY <2>1, <2>2 DEF Listed, Sources
  <2>4. x \in Index \X SUBSET Pkgs
    BY <1>11, <1>12, <2>3
  <2> QED
    BY <2>4, TornAssumption DEF Partial
<1>15. Rel(db[d].refs) \in At(site[d].vis, Release)
  BY <1>4, <1>9 DEF Settled
<1> QED
  BY <1>1, <1>5, <1>13, <1>14, <1>15 DEF Sound

\* Release is put when the indexes are in place, or renamed between two
\* publications that are both served.
LEMMA IndexesServed ==
  ASSUME Core, Sites, Packages, op.name # "idle", ~op.missed, ~Void(op.dist),
         (op.phase = "release" /\ op.side = "vis") \/ op.phase = "rename",
         NEW i \in Generated(op.new, conf.contents), i[1] = "Packages",
         NEW w \in At(site[op.dist].vis, i)
  PROVE  Served(i[2], w)
<1>1. CASE op.phase = "rename"
  BY <1>1 DEF Packages, Mixed
<1>2. CASE op.phase = "release" /\ op.side = "vis"
  <2>1. op.phase \in Putting
    BY <1>2 DEF Putting
  <2>2. i \in Written
    BY <1>2, WrittenFacts DEF ByPhase
  <2>3. Shown(i)
    BY <1>2, <2>1, <2>2 DEF Sites, Progress
  <2>4. i \in Index
    BY DEF Generated
  <2>5. w = Listed(i, op.new)
    BY <2>3, <2>4, FileNames DEF Shown, Target
  <2> QED
    BY <2>1, <2>5, ListedServed
<1> QED
  BY <1>1, <1>2

\* What clients see stays served when a file is put in place.
LEMMA SoundPut ==
  ASSUME Core, Sites, Packages, op.name # "idle", ~op.missed, NEW d, d = op.dist, ~Void(d), Sound(d),
         NEW x, PutAs(x), op.side = "vis" \/ op.phase = "rename"
  PROVE  Sound(d)'
<1>1. PICK v, w : v = site[d].vis /\ w = Target(x)
  OBVIOUS
<1>2. PICK b : b = Bind(v, x, w) /\ Bound(b, v, x, w)
  BY BindBound
<1>3. site'[d].vis = b /\ pub' = pub
  BY <1>1, <1>2 DEF PutAs
<1>4. At(b, x) = {w} /\ \A y : y # x => At(b, y) = At(v, y)
  BY <1>2 DEF Bound
<1>5. \A c, u : Served(c, u)' <=> Served(c, u)
  BY <1>3 DEF Served, Present
<1>6. op.phase \in Putting
  BY DEF PutAs, Putting
<1>7. \A i \in Generated(op.new, conf.contents) : Served(i[2], Listed(i, op.new)) /\ i \in Index
  BY <1>6, ListedServed DEF Generated
<1>8. ASSUME NEW r \in At(b, Release), NEW y \in r, y \notin Partial, y[1][1] = "Packages"
      PROVE  Served(y[1][2], y[2]) /\ \A u \in At(b, y[1]) : Served(y[1][2], u)
  <2>1. CASE x = Release
    <3>1. r = Rel(op.new)
      BY <1>1, <1>4, <1>8, <2>1 DEF Target
    <3>2. y[1] \in Generated(op.new, conf.contents) /\ y[2] = Listed(y[1], op.new)
      BY <1>8, <3>1, RelFacts
    <3>3. y[1] # x
      BY <1>7, <2>1, <3>2, FileNames
    <3>4. (op.phase = "release" /\ op.side = "vis") \/ op.phase = "rename"
      BY <2>1 DEF PutAs
    <3>5. \A u \in At(v, y[1]) : Served(y[1][2], u)
      BY <1>1, <1>8, <3>2, <3>4, IndexesServed
    <3> QED
      BY <1>4, <1>7, <3>2, <3>3, <3>5
  <2>2. CASE x # Release
    <3>1. r \in At(v, Release)
      BY <1>4, <1>8, <2>2
    <3>2. Served(y[1][2], y[2]) /\ \A u \in At(v, y[1]) : Served(y[1][2], u)
      BY <1>1, <1>8, <3>1 DEF Sound
    <3>3. ASSUME y[1] = x
          PROVE  Served(y[1][2], w)
      <4>1. x # Signatures
        BY <1>8, <3>3, SMTT(30) DEF Signatures
      <4>2. x \in Generated(op.new, conf.contents)
        BY <2>2, <4>1 DEF PutAs
      <4>3. w = Listed(x, op.new)
        BY <1>1, <2>2, <4>1 DEF Target
      <4> QED
        BY <1>7, <3>3, <4>2, <4>3
    <3> QED
      BY <1>4, <3>2, <3>3
  <2> QED
    BY <2>1, <2>2
<1> QED
  BY <1>3, <1>5, <1>8 DEF Sound

\* What clients see, when a file is put
LEMMA PutOffers ==
  ASSUME Core, Sites, Packages, op.name # "idle", NEW x, PutAs(x)
  PROVE  Offers'
<1>1. UNCHANGED <<db, pub, conf, why>> /\ op'.dist = op.dist /\ op'.side = op.side /\ op'.missed = op.missed
  BY DEF PutAs, Continues
<1>2. ASSUME NEW d \in Dists, ~Void(d)', Quiet(d)' \/ ~op'.missed
      PROVE  Complete(d)'
  <2>1. ~Void(d) /\ why[d] \subseteq why'[d]
    BY <1>1, <1>2 DEF Void
  <2>2. ASSUME d # op.dist
        PROVE  Complete(d)'
    <3>1. Quiet(d)
      BY <2>1, <2>2, OthersQuiet
    <3>2. site'[d].vis = site[d].vis
      BY <2>2 DEF PutAs
    <3> QED
      BY <1>1, <1>2, <2>1, <3>1, <3>2, OffersKept
  <2>3. ASSUME d = op.dist, op.side = "tmp" /\ op.phase # "rename"
        PROVE  Complete(d)'
    <3>1. op.phase \in {"index", "release", "sign"}
      BY <2>3 DEF PutAs
    <3>2. "torn" \notin why[d]
      BY <2>1 DEF Void
    <3>3. Quiet(d)
      BY <2>3, <3>1, <3>2 DEF Quiet
    <3>4. site'[d].vis = site[d].vis
      BY <2>3 DEF PutAs
    <3> QED
      BY <1>1, <1>2, <2>1, <3>3, <3>4, OffersKept
  <2>4. ASSUME d = op.dist, op.side = "vis" \/ op.phase = "rename"
        PROVE  Complete(d)'
    <3>1. ~Quiet(d)'
      <4>1. op'.phase \notin {"link", "dists"} /\ op'.phase \notin Cleaning
        BY DEF PutAs, Cleaning
      <4>2. ~(op'.side = "tmp" /\ op'.phase \in {"index", "release", "sign"})
        BY <1>1, <2>4 DEF PutAs
      <4> QED
        BY <1>1, <2>4, <4>1, <4>2 DEF Quiet
    <3>2. ~op.missed
      BY <1>1, <1>2, <3>1
    <3>3. Sound(d)
      BY <2>1, <3>2, CompleteSound DEF Packages, Offers
    <3>4. Sound(d)'
      BY <2>1, <2>4, <3>2, <3>3, SoundPut
    <3>5. Complete(d)' <=> Sound(d)'
      BY CompleteSound, PTL
    <3> QED
      BY <3>4, <3>5
  <2>5. op.side = "vis" \/ op.side = "tmp"
    BY DEF Core, Operations
  <2> QED
    BY <2>2, <2>3, <2>4, <2>5
<1> QED
  BY <1>2 DEF Offers

\* a file is put
LEMMA PutPackages ==
  ASSUME Core, Sites, Packages, op.name # "idle", NEW x, PutAs(x)
  PROVE  Packages'
<1>1. /\ UNCHANGED <<db, pub, conf, why>> /\ op'.dist = op.dist /\ op'.side = op.side
      /\ op'.missed = op.missed /\ op'.new = op.new
  BY DEF PutAs, Continues
<1>2. op.phase \in Putting /\ op'.phase \in Putting /\ op'.phase # "link"
      /\ op'.phase # "pool" /\ op'.phase # "remove"
  BY DEF PutAs, Putting
<1>3. \A c, w : Served(c, w)' <=> Served(c, w)
  BY <1>1 DEF Served, Present
<1>4. Linked'
  <2>1. \A c, p : Present(c, p)' <=> Present(c, p)
    BY <1>1 DEF Present
  <2>2. ToLink(op.new)' = ToLink(op.new)
    BY <1>1 DEF ToLink
  <2> QED
    BY <1>1, <1>2, <2>1, <2>2 DEF Packages, Linked
<1>5. Named'
  <2>1. PICK G : G = Generated(op.new, conf.contents) /\ G = Generated(op'.new, conf'.contents)
    BY <1>1
  <2>2. DOMAIN op.tmp \subseteq G \cup {Release, Signatures}
    BY <1>2, <2>1 DEF Packages, Named
  <2>3. DOMAIN op'.tmp \subseteq G \cup {Release, Signatures}
    BY <2>1, <2>2 DEF PutAs
  <2>4. op'.phase = "index" => op'.todo \subseteq G
    BY <1>2, <2>1 DEF Packages, Named, PutAs
  <2> QED
    BY <2>1, <2>3, <2>4 DEF Named
<1>6. Spared'
  BY <1>2 DEF Spared
<1>7. Mixed'
  <2> SUFFICES ASSUME op'.phase = "rename", ~Void(op.dist), ~op.missed,
                      NEW i \in Generated(op.new, conf.contents), i[1] = "Packages",
                      NEW w \in At(site'[op.dist].vis, i)
               PROVE  Served(i[2], w)
    <3>1. Void(op.dist)' <=> Void(op.dist)
      BY <1>1 DEF Void
    <3> QED
      BY <1>1, <1>3, <3>1 DEF Mixed
  <2>1. op.side = "tmp"
    BY DEF PutAs
  <2>2. CASE op.phase # "rename"
    <3>1. site'[op.dist].vis = site[op.dist].vis
      BY <2>1, <2>2 DEF PutAs
    <3>2. op.phase \in {"index", "release", "sign"}
      BY <2>2 DEF PutAs
    <3> QED
      BY <2>1, <3>1, <3>2, VisibleServed
  <2>3. CASE op.phase = "rename"
    <3>1. PICK v, t : v = site[op.dist].vis /\ t = Target(x)
      OBVIOUS
    <3>2. PICK b : b = Bind(v, x, t) /\ Bound(b, v, x, t)
      BY BindBound
    <3>3. site'[op.dist].vis = b
      BY <2>3, <3>1, <3>2 DEF PutAs
    <3>4. At(b, x) = {t} /\ \A y : y # x => At(b, y) = At(v, y)
      BY <3>2 DEF Bound
    <3>5. ASSUME i = x
          PROVE  Served(i[2], w)
      <4>1. i \in Index
        BY DEF Generated
      <4>2. t = Listed(i, op.new)
        BY <3>1, <3>5, <4>1, FileNames DEF Target
      <4>3. w = t
        BY <3>3, <3>4, <3>5
      <4> QED
        BY <1>2, <4>2, <4>3, ListedServed
    <3>6. ASSUME i # x
          PROVE  Served(i[2], w)
      <4>1. w \in At(v, i)
        BY <3>3, <3>4, <3>6
      <4> QED
        BY <2>3, <3>1, <4>1 DEF Packages, Mixed
    <3> QED
      BY <3>5, <3>6
  <2> QED
    BY <2>2, <2>3
<1>8. Offers'
  BY PutOffers
<1> QED
  BY <1>4, <1>5, <1>6, <1>7, <1>8 DEF Packages

\* an index is put
LEMMA IndexPackages ==
  ASSUME Core, Sites, Packages, NEW i \in Index, FinalizeIndex(i)
  PROVE  Packages'
<1>1. /\ op.name # "idle" /\ op.phase = "index" /\ i \in op.todo /\ UNCHANGED <<db, pub, conf, why>>
      /\ site' = [site EXCEPT ![op.dist] = PutFile(site[op.dist], op.side, i, Listed(i, op.new))]
  BY DEF FinalizeIndex, Running, data
<1>2. PICK w : w = Listed(i, op.new)
  OBVIOUS
<1>4. PICK s : s = site[op.dist] /\ IsSite(s)
  BY <1>1, OwnSite
<1>5. PICK u : u = PutFile(s, op.side, i, w)
  OBVIOUS
<1>6. (op.side = "vis" => u.vis = Bind(s.vis, i, w)) /\ (op.side # "vis" => u.vis = s.vis)
  BY <1>4, <1>5, PutFileShape, SMTT(30)
<1>7. site'[op.dist] = u
  BY <1>1, <1>2, <1>4, <1>5, OwnSite
<1>8. Continues(op, op') /\ \A e \in Dists : e # op.dist => site'[e] = site[e]
  BY PuttingCore
<1>9. /\ op'.todo = op.todo \ {i} /\ Keeps(op, op')
      /\ (op.side = "vis" => op'.tmp = op.tmp) /\ (op.side # "vis" => op'.tmp = Bind(op.tmp, i, w))
      /\ op'.phase = "index" \/ op'.phase = "release"
  BY <1>2, IndexFields DEF Core, Operations
<1>10. w = Target(i) /\ i # Release
  BY <1>2, FileNames DEF Target
<1>11. i \in Generated(op.new, conf.contents)
  <2>1. op.phase \in Putting
    BY <1>1 DEF Putting
  <2> QED
    BY <1>1, <2>1 DEF Packages, Named
<1>12. DOMAIN op'.tmp \subseteq DOMAIN op.tmp \cup {i}
  BY <1>9 DEF Bind
<1>13. /\ op.phase \in {"index", "release", "sign", "rename"} /\ op.phase # "rename"
       /\ op'.phase \in {"index", "release", "sign", "rename", "save"} /\ op'.phase # "rename"
  BY <1>1, <1>9
<1>14. /\ op.side = "vis" => site'[op.dist].vis = Bind(site[op.dist].vis, i, Target(i))
       /\ op.side = "tmp" => site'[op.dist].vis = site[op.dist].vis
  <2>1. op.side = "tmp" => op.side # "vis"
    OBVIOUS
  <2> QED
    BY <1>4, <1>6, <1>7, <1>10, <2>1
<1>15. op'.missed = op.missed /\ op'.todo \subseteq op.todo
  BY <1>9 DEF Keeps
<1>16. PutAs(i)
  BY <1>1, <1>8, <1>10, <1>11, <1>12, <1>13, <1>14, <1>15 DEF PutAs
<1> QED
  BY <1>1, <1>16, PutPackages

\* Release is put
LEMMA ReleasePackages ==
  ASSUME Core, Sites, Packages, NEW sign, FinalizeRelease(sign)
  PROVE  Packages'
<1>1. /\ op.name # "idle" /\ op.phase = "release" /\ UNCHANGED <<db, pub, conf, why>>
      /\ site' = [site EXCEPT ![op.dist] = PutFile(site[op.dist], op.side, Release,
                                                   ReleaseOf(op.new, conf.contents))]
  BY DEF FinalizeRelease, Running, data, paths, fixed
<1>2. PICK w : w = ReleaseOf(op.new, conf.contents)
  OBVIOUS
<1>4. PICK s : s = site[op.dist] /\ IsSite(s)
  BY <1>1, OwnSite
<1>5. PICK u : u = PutFile(s, op.side, Release, w)
  OBVIOUS
<1>6. (op.side = "vis" => u.vis = Bind(s.vis, Release, w)) /\ (op.side # "vis" => u.vis = s.vis)
  BY <1>4, <1>5, PutFileShape, SMTT(30)
<1>7. site'[op.dist] = u
  BY <1>1, <1>2, <1>4, <1>5, OwnSite
<1>8. Continues(op, op') /\ \A e \in Dists : e # op.dist => site'[e] = site[e]
  BY PuttingCore
<1>9. /\ Keeps(op, op')
      /\ (op.side = "vis" => op'.tmp = op.tmp) /\ (op.side # "vis" => op'.tmp = Bind(op.tmp, Release, w))
      /\ \/ op'.phase = "sign"
         \/ op'.phase = "save"
         \/ op.side # "vis" /\ op'.phase = "rename"
  BY <1>2, ReleaseFields DEF Core, Operations
<1>10. w = Target(Release)
  BY <1>2 DEF Target, Rel
<1>11. op.side = "vis" \/ op.side = "tmp"
  BY DEF Core, Operations
<1>12. DOMAIN op'.tmp \subseteq DOMAIN op.tmp \cup {Release}
  BY <1>9 DEF Bind
<1>13. /\ op.phase \in {"index", "release", "sign", "rename"} /\ op.phase # "rename"
       /\ op'.phase \in {"index", "release", "sign", "rename", "save"} /\ op'.phase # "index"
       /\ op'.phase = "rename" => op.side = "tmp"
  BY <1>1, <1>9, <1>11
<1>14. /\ op.side = "vis" => site'[op.dist].vis = Bind(site[op.dist].vis, Release, Target(Release))
       /\ op.side = "tmp" => site'[op.dist].vis = site[op.dist].vis
  <2>1. op.side = "tmp" => op.side # "vis"
    OBVIOUS
  <2> QED
    BY <1>4, <1>6, <1>7, <1>10, <2>1
<1>15. op'.missed = op.missed
  BY <1>9 DEF Keeps
<1>16. PutAs(Release)
  BY <1>1, <1>8, <1>12, <1>13, <1>14, <1>15 DEF PutAs
<1> QED
  BY <1>1, <1>16, PutPackages

\* the signatures are put
LEMMA SignPackages ==
  ASSUME Core, Sites, Packages, SignRelease
  PROVE  Packages'
<1>1. /\ op.name # "idle" /\ op.phase = "sign" /\ UNCHANGED <<db, pub, conf, why>>
      /\ site' = [site EXCEPT ![op.dist] = PutFile(site[op.dist], op.side, Signatures,
                                                   ReleaseOf(op.new, conf.contents))]
  BY DEF SignRelease, Running, data, paths, fixed
<1>2. PICK w : w = ReleaseOf(op.new, conf.contents)
  OBVIOUS
<1>4. PICK s : s = site[op.dist] /\ IsSite(s)
  BY <1>1, OwnSite
<1>5. PICK u : u = PutFile(s, op.side, Signatures, w)
  OBVIOUS
<1>6. (op.side = "vis" => u.vis = Bind(s.vis, Signatures, w)) /\ (op.side # "vis" => u.vis = s.vis)
  BY <1>4, <1>5, PutFileShape, SMTT(30)
<1>7. site'[op.dist] = u
  BY <1>1, <1>2, <1>4, <1>5, OwnSite
<1>8. Continues(op, op') /\ \A e \in Dists : e # op.dist => site'[e] = site[e]
  BY PuttingCore
<1>9. /\ Keeps(op, op')
      /\ (op.side = "vis" => op'.tmp = op.tmp) /\ (op.side # "vis" => op'.tmp = Bind(op.tmp, Signatures, w))
      /\ \/ op'.phase = "save"
         \/ op.side # "vis" /\ op'.phase = "rename"
  BY <1>2, SignFields DEF Core, Operations
<1>10. w = Target(Signatures) /\ Signatures # Release
  BY <1>2, FileNames DEF Target, Rel
<1>11. op.side = "vis" \/ op.side = "tmp"
  BY DEF Core, Operations
<1>12. DOMAIN op'.tmp \subseteq DOMAIN op.tmp \cup {Signatures}
  BY <1>9 DEF Bind
<1>13. /\ op.phase \in {"index", "release", "sign", "rename"} /\ op.phase # "rename"
       /\ op'.phase \in {"index", "release", "sign", "rename", "save"} /\ op'.phase # "index"
       /\ op'.phase = "rename" => op.side = "tmp"
  BY <1>1, <1>9, <1>11
<1>14. /\ op.side = "vis" => site'[op.dist].vis = Bind(site[op.dist].vis, Signatures, Target(Signatures))
       /\ op.side = "tmp" => site'[op.dist].vis = site[op.dist].vis
  <2>1. op.side = "tmp" => op.side # "vis"
    OBVIOUS
  <2> QED
    BY <1>4, <1>6, <1>7, <1>10, <2>1
<1>15. op'.missed = op.missed
  BY <1>9 DEF Keeps
<1>16. PutAs(Signatures)
  BY <1>1, <1>8, <1>10, <1>12, <1>13, <1>14, <1>15 DEF PutAs
<1> QED
  BY <1>1, <1>16, PutPackages

\* a file is renamed
LEMMA RenamePackages ==
  ASSUME Core, Sites, Packages, NEW x, RenameFiles(x)
  PROVE  Packages'
<1>1. /\ op.name # "idle" /\ op.phase = "rename" /\ x \in op.todo /\ UNCHANGED <<db, pub, conf, why>>
      /\ site' = [site EXCEPT ![op.dist] = RenameFile(site[op.dist], x, op.tmp[x])]
  BY DEF RenameFiles, Running, data, paths, fixed
<1>2. op.phase \in Putting /\ op.phase \notin {"save", "refs"} /\ op.side = "tmp"
  BY <1>1 DEF Putting, Core, Operations
<1>3. x \in DOMAIN op.tmp /\ op.tmp[x] = Target(x)
  BY <1>1, <1>2 DEF Sites, Progress
<1>4. PICK s : s = site[op.dist] /\ IsSite(s)
  BY <1>1, OwnSite
<1>5. PICK w : w = Target(x)
  OBVIOUS
<1>6. PICK u : u = RenameFile(s, x, w)
  OBVIOUS
<1>7. u.vis = Bind(s.vis, x, w)
  BY <1>4, <1>6, RenameFileShape, SMTT(30)
<1>8. site'[op.dist] = u
  BY <1>1, <1>3, <1>4, <1>5, <1>6, OwnSite
<1>9. Continues(op, op') /\ \A e \in Dists : e # op.dist => site'[e] = site[e]
  BY PuttingCore
<1>10. Keeps(op, op') /\ op'.tmp = op.tmp /\ (op'.phase = "rename" \/ op'.phase = "save")
  BY RenameFields DEF Core, Operations
<1>11. x \in Generated(op.new, conf.contents) \cup {Release, Signatures}
  BY <1>2, <1>3 DEF Packages, Named
<1>12. site'[op.dist].vis = Bind(site[op.dist].vis, x, Target(x))
  BY <1>4, <1>5, <1>7, <1>8
<1>13. /\ op.phase \in {"index", "release", "sign", "rename"}
       /\ op'.phase \in {"index", "release", "sign", "rename", "save"} /\ op'.phase # "index"
  BY <1>1, <1>10
<1>14. op'.missed = op.missed
  BY <1>10 DEF Keeps
<1>15. PutAs(x)
  BY <1>1, <1>2, <1>9, <1>10, <1>11, <1>12, <1>13, <1>14 DEF PutAs
<1> QED
  BY <1>1, <1>15, PutPackages

\* A distribution whose clients see what the database says offers the packages
\* of the record.
OffersRecorded ==
  \A d \in Dists : Settled(d) => \A y \in Offered(d) : y \in Rel(db[d].refs)

\* what is offered, of every distribution
LEMMA OfferedRecorded == OffersRecorded
  BY SettledOffers DEF OffersRecorded

\* Once the record is stored clients find what it says.
LEMMA SavedComplete ==
  ASSUME Core, Sites, Packages, op.name # "idle", op.phase \in {"save", "refs"},
         UNCHANGED <<pub, site, conf>>, NEW d \in Dists, d = op.dist, ~Void(d)',
         NEW r, Stores(r), AfterSave, r.comps = DOMAIN op.new, DOMAIN r.refs = DOMAIN op.new,
         \A e \in DOMAIN op.new : r.refs[e] = op.new[e]
  PROVE  Complete(d)'
<1>1. Settled(d)'
  BY SavedSettled
<1>2. ~op.missed
  <2>1. PICK w, v : /\ v = (IF ~op.sign /\ Signatures \in DOMAIN site[op.dist].vis
                            THEN {"unsigned"} ELSE {})
                    /\ w = (why[op.dist] \cap {"hash"})
                           \cup (IF op.missed THEN {"missing"} ELSE {}) \cup v
    OBVIOUS
  <2>2. why' = [why EXCEPT ![op.dist] = w] /\ DOMAIN why = Dists
    BY <2>1 DEF AfterSave, Core, TypeOK
  <2>3. why'[d] = w
    BY <2>2
  <2>4. op.missed => "missing" \in w
    BY <2>1
  <2> QED
    BY <2>3, <2>4 DEF Void
<1>3. Rel(db[d].refs)' = Rel(op.new)
  <2>1. Rel(r.refs) = Rel(op.new)
    BY RelSame
  <2>2. db'[d] = r
    BY DEF Stores
  <2> QED
    BY <2>1, <2>2 DEF Rel
<1>4. OffersRecorded'
  BY OfferedRecorded, PTL
<1>5. op.phase \in Putting
  BY DEF Putting
<1>6. ASSUME NEW y \in Offered(d)'
      PROVE  Served(y[1][2], y[2])'
  <2>1. y \in Rel(op.new)
    BY <1>1, <1>3, <1>4, <1>6 DEF OffersRecorded
  <2>2. y[1] \in Generated(op.new, conf.contents) /\ y[2] = Listed(y[1], op.new)
    BY <2>1, RelFacts
  <2>3. Served(y[1][2], y[2])
    BY <1>2, <1>5, <2>2, ListedServed
  <2> QED
    BY <2>3 DEF Served, Present
<1> QED
  BY <1>6 DEF Complete, Served, Present

\* the record is stored
LEMMA SavePackages ==
  ASSUME Core, Sites, Packages, NEW c, SaveRecord \/ SaveRefs(c)
  PROVE  Packages'
<1>1. /\ op.name = "publish" \/ op.name = "update"
      /\ op.name # "idle" /\ op.phase \in {"save", "refs"} /\ UNCHANGED <<pub, site, conf>>
  BY SaveShape
<1>2. PICK r : Saves(r)
  BY SaveShape
<1>3. Stores(r) /\ op.dist \in Dists
  BY <1>1, <1>2 DEF Saves, Core, Operations
<1>4. ASSUME NEW d \in Dists, d # op.dist, why'[d] = why[d], ~Void(d)'
      PROVE  Complete(d)'
  <2>1. ~Void(d) /\ why[d] \subseteq why'[d]
    BY <1>4 DEF Void
  <2>2. Quiet(d)
    BY <1>4, <2>1, OthersQuiet
  <2> QED
    BY <1>1, <1>4, <2>1, <2>2, OffersKept
<1>6. CASE /\ AfterSave /\ r.comps = DOMAIN op.new /\ DOMAIN r.refs = DOMAIN op.new
           /\ \A e \in DOMAIN op.new : r.refs[e] = op.new[e]
  <2>1. /\ \A e \in Dists : e # op.dist => why'[e] = why[e]
        /\ op' = Idle \/ (Continues(op, op') /\ op'.phase = "clean")
    BY <1>3, <1>6, AfterSaveFields DEF Core, Operations
  <2>2. ASSUME NEW d \in Dists, ~Void(d)'
        PROVE  Complete(d)'
    <3>1. CASE d = op.dist
      BY <1>1, <1>3, <1>6, <2>2, <3>1, SavedComplete
    <3>2. CASE d # op.dist
      BY <1>4, <2>1, <2>2, <3>2
    <3> QED
      BY <3>1, <3>2
  <2>3. Offers'
    BY <2>2 DEF Offers
  <2>4. op'.phase = "none" \/ op'.phase = "clean"
    BY <2>1, IdleOperation
  <2>5. op'.phase \notin Putting /\ op'.phase # "link" /\ op'.phase # "pool" /\ op'.phase # "remove"
    BY <2>4 DEF Putting
  <2> QED
    BY <2>3, <2>5, PackagesFrame
<1>7. CASE /\ UNCHANGED <<cache, why>> /\ Continues(op, op') /\ op'.phase = "refs"
           /\ op'.sign = op.sign /\ op'.missed = op.missed /\ op'.tmp = op.tmp
  <2>1. op'.dist = op.dist /\ op'.new = op.new
    BY <1>7 DEF Continues
  <2>2. /\ op'.phase \notin {"link", "dists"} /\ op'.phase \notin {"index", "release", "sign"}
        /\ op'.phase \notin Cleaning /\ op'.phase # "rename" /\ op'.phase # "link"
        /\ op'.phase # "index" /\ op'.phase # "pool" /\ op'.phase # "remove" /\ op.phase \in Putting
        /\ op'.phase \in Putting
    BY <1>1, <1>7 DEF Cleaning, Putting
  <2>3. ASSUME NEW d \in Dists, ~Void(d)', Quiet(d)' \/ ~op'.missed
        PROVE  Complete(d)'
    <3>1. CASE d # op.dist
      BY <1>4, <1>7, <2>3, <3>1
    <3>2. CASE d = op.dist
      <4>1. ~op.missed
        BY <1>7, <2>1, <2>2, <2>3, <3>2 DEF Quiet
      <4> QED
        BY <1>1, <1>7, <2>3, <4>1, OffersKept
    <3> QED
      BY <3>1, <3>2
  <2>4. Offers'
    BY <2>3 DEF Offers
  <2>5. Linked'
    <3>1. \A e, p : Present(e, p)' <=> Present(e, p)
      BY <1>1 DEF Present
    <3>2. ToLink(op.new)' = ToLink(op.new)
      BY <2>1 DEF ToLink
    <3> QED
      BY <1>7, <2>1, <2>2, <3>1, <3>2 DEF Packages, Linked
  <2>6. Named'
    BY <1>1, <1>7, <2>1, <2>2 DEF Packages, Named
  <2>7. Mixed' /\ Spared'
    BY <2>2 DEF Mixed, Spared
  <2> QED
    BY <2>4, <2>5, <2>6, <2>7 DEF Packages
<1> QED
  BY <1>2, <1>6, <1>7 DEF Saves

\* a package file is removed, the others stay
LEMMA RemovePresent ==
  ASSUME Core, NEW c \in Comps, NEW x, pub' = [pub EXCEPT ![c] = Unbind(pub[c], {x})],
         NEW e \in Comps, NEW p, Present(e, p), e # c \/ Path[p] # x
  PROVE  Present(e, p)'
<1>1. DOMAIN pub = Comps
  BY DEF Core, Records
<1>2. CASE e # c
  <2>1. pub'[e] = pub[e]
    BY <1>1, <1>2
  <2> QED
    BY <2>1 DEF Present
<1>3. CASE e = c /\ Path[p] # x
  <2>1. pub'[c] = Unbind(pub[c], {x})
    BY <1>1
  <2>2. PICK f, y : f = pub[c] /\ y = Path[p]
    OBVIOUS
  <2>3. At(Unbind(f, {x}), y) = At(f, y)
    BY <1>3, <2>2 DEF At, Unbind
  <2> QED
    BY <1>3, <2>1, <2>2, <2>3 DEF Present
<1> QED
  BY <1>2, <1>3

\* Clients of a distribution that does not list the file find what they look
\* for when it is gone.
LEMMA CompleteRemoved ==
  ASSUME Core, NEW d \in Dists, Settled(d), Complete(d), site'[d].vis = site[d].vis,
         NEW c \in Comps, NEW x, pub' = [pub EXCEPT ![c] = Unbind(pub[c], {x})],
         Recorded(d) /\ c \in DOMAIN db[d].refs => \A p \in db[d].refs[c] : Path[p] # x
  PROVE  Complete(d)'
<1>1. Offered(d)' = Offered(d)
  BY SMTT(30) DEF Offered
<1>2. ASSUME NEW y \in Offered(d), NEW q \in y[2] \ {Torn}
      PROVE  Present(y[1][2], q)'
  <2>1. PICK e : e = y[1][2]
    OBVIOUS
  <2>2. Recorded(d) /\ e \in Comps /\ e \in DOMAIN db[d].refs /\ y[2] \subseteq db[d].refs[e]
    BY <1>2, <2>1, SettledLists
  <2>3. Present(e, q)
    BY <1>2, <2>1 DEF Complete, Present
  <2>4. e # c \/ Path[q] # x
    BY <1>2, <2>2
  <2> QED
    BY <2>1, <2>2, <2>3, <2>4, RemovePresent
<1> QED
  BY <1>1, <1>2 DEF Complete, Present

\* The list has the references of a distribution that clients rely on.
LEMMA ReferencedBy ==
  ASSUME Core, NEW d \in Dists, ~Void(d), Recorded(d),
         op.dist = d => op.name = "update" /\ op.phase \in Cleaning,
         NEW c \in DOMAIN db[d].refs
  PROVE  /\ d \in DOMAIN cache /\ c \in cache[d].comps
         /\ \A p \in db[d].refs[c] : Path[p] \in Referenced(c)
<1>1. "torn" \notin why[d] /\ "stale" \notin why[d] /\ d \in DOMAIN db
  BY DEF Void, Recorded
<1>2. op.dist = d => op.name # "drop" /\ op.name # "publish" /\ op.phase \notin {"link"} \cup Putting
  BY DEF Cleaning, Putting
<1>3. d \in DOMAIN cache
  BY <1>1, <1>2 DEF Core, Cached
<1>4. c \in cache[d].comps
  BY <1>3 DEF Core, Records, Recorded
<1>5. RefsOf(d) = db[d].refs
  <2>1. CASE cache[d].kind = "local"
    BY <2>1 DEF RefsOf
  <2>2. CASE cache[d].kind # "local"
    <3>1. cache[d].kind = db[d].kind /\ db[d].kind \in {"local", "snapshot"}
      BY <1>1, <1>3 DEF Core, Records, TypeOK
    <3>2. cache[d].kind = "snapshot"
      BY <2>2, <3>1
    <3> QED
      BY <1>1, <1>2, <1>3, <2>2, <3>2 DEF Core, Cached, RefsOf
  <2> QED
    BY <2>1, <2>2
<1>6. ASSUME NEW p \in db[d].refs[c]
      PROVE  Path[p] \in Referenced(c)
  <2>1. d \in {e \in DOMAIN cache : c \in cache[e].comps}
    BY <1>3, <1>4
  <2>2. p \in UNION {RefsOf(e)[c] : e \in {e \in DOMAIN cache : c \in cache[e].comps}}
    BY <1>5, <1>6, <2>1
  <2> QED
    BY <2>2 DEF Referenced
<1> QED
  BY <1>3, <1>4, <1>6

\* a cleanup
LEMMA CleaningPackages ==
  ASSUME Core, Sites, Packages, NEW c, NEW x,
         \/ CleanupPrefixComponentFiles \/ CleanupFails
         \/ RemoveFile(<<c, x>>) /\ c \in Comps /\ x \in Paths
  PROVE  Packages'
<1>1. /\ UNCHANGED <<db, cache, conf, why, site>> /\ op.name # "idle"
      /\ op.phase = "clean" \/ op.phase = "remove"
      /\ op.name = "drop" \/ op.name = "update"
      /\ Continues(op, op') /\ op'.missed = op.missed
      /\ op.name = "drop" => op'.phase = "remove" \/ op'.phase = "unrecord"
      /\ op.name = "update" => op'.phase = "remove" \/ op'.phase = "cleaned"
  BY CleaningShape
<1>2. /\ op.phase \in Cleaning /\ op.phase # "dists" /\ op'.phase \notin Putting
      /\ op'.phase # "link" /\ op'.phase # "pool" /\ op'.phase # "rename"
  BY <1>1 DEF Cleaning, Putting
<1>3. ASSUME NEW d \in Dists, ~Void(d)'
      PROVE  Complete(d)'
  <2>1. ~Void(d) /\ why[d] \subseteq why'[d] /\ "torn" \notin why[d]
    BY <1>1, <1>3 DEF Void
  <2>2. CASE d = op.dist /\ op.name = "drop"
    <3>1. site'[d] = EmptySite
      BY <1>1, <1>2, <2>2 DEF Sites, Dropped
    <3> QED
      BY <3>1, NothingOffered
  <2>3. CASE ~(d = op.dist /\ op.name = "drop")
    <3>1. op.dist = d => op.name = "update" /\ op.phase \in Cleaning
      BY <1>1, <1>2, <2>3
    <3>2. Quiet(d)
      BY <2>1, <3>1 DEF Quiet
    <3>3. Settled(d) /\ Complete(d)
      BY <2>1, <3>2 DEF Sites, Packages, Offers
    <3>4. CASE pub' = pub
      BY <1>1, <3>3, <3>4, CompleteFrame
    <3>5. CASE RemoveFile(<<c, x>>) /\ c \in Comps /\ x \in Paths
      <4>1. pub' = [pub EXCEPT ![c] = Unbind(pub[c], {x})] /\ <<c, x>> \in op.todo /\ op.phase = "remove"
        BY <3>5, CleaningTodo
      <4>2. x \notin Referenced(c)
        BY <3>5, <4>1 DEF Packages, Spared
      <4>3. Recorded(d) /\ c \in DOMAIN db[d].refs => \A p \in db[d].refs[c] : Path[p] # x
        BY <2>1, <3>1, <4>2, ReferencedBy
      <4> QED
        BY <1>1, <3>3, <3>5, <4>1, <4>3, CompleteRemoved
    <3>6. pub' = pub \/ (RemoveFile(<<c, x>>) /\ c \in Comps /\ x \in Paths)
      BY CleaningTodo
    <3> QED
      BY <3>4, <3>5, <3>6
  <2> QED
    BY <2>2, <2>3
<1>4. Offers'
  BY <1>3 DEF Offers
<1>5. ASSUME op'.phase = "remove", NEW e \in Comps, NEW y \in Paths, <<e, y>> \in op'.todo
      PROVE  y \notin Referenced(e)'
  <2>1. Referenced(e)' = Referenced(e)
    BY <1>1 DEF Referenced, RefsOf
  <2>2. CASE CleanupPrefixComponentFiles
    <3>1. op'.todo = Unreferenced(op.comps)
      BY <2>2, CleaningTodo
    <3>2. <<e, y>> \in Unreferenced(op.comps)
      BY <1>5, <3>1
    <3>3. y \notin Referenced(e)
      BY <3>2, UnreferencedFacts
    <3> QED
      BY <2>1, <3>3
  <2>3. CASE RemoveFile(<<c, x>>)
    <3>1. <<e, y>> \in op.todo /\ op.phase = "remove"
      BY <1>5, <2>3, CleaningTodo
    <3> QED
      BY <2>1, <3>1 DEF Packages, Spared
  <2>4. ~CleanupFails
    <3>1. CleanupFails => op'.phase = "unrecord"
      BY CleaningTodo
    <3> QED
      BY <1>5, <3>1
  <2> QED
    BY <2>2, <2>3, <2>4
<1>6. Spared'
  BY <1>2, <1>5 DEF Spared
<1>7. Linked' /\ Named' /\ Mixed'
  BY <1>2 DEF Linked, Named, Mixed
<1> QED
  BY <1>4, <1>6, <1>7 DEF Packages

\* components that no other distribution has
LEMMA NotShared ==
  ASSUME NEW d, NEW c, c \in cache[d].comps, c \notin Shared(d), NEW e \in Others(d)
  PROVE  c \notin cache[e].comps
  BY DEF Shared

\* Remove before the cleanup
LEMMA RemovingPackages ==
  ASSUME Core, Sites, Packages, NEW c, NEW x,
         RemoveFiles \/ (RemovePool(<<c, x>>) /\ c \in Comps /\ x \in Paths)
  PROVE  Packages'
<1>1. /\ UNCHANGED <<db, conf, why>> /\ op.name = "drop" /\ op.name # "idle"
      /\ op.phase = IF RemoveFiles THEN "dists" ELSE "pool"
      /\ Continues(op, op') /\ op'.missed = op.missed
      /\ op'.phase = "pool" \/ op'.phase = "clean" \/ op'.phase = "unrecord"
  BY RemovingShape
<1>2. PICK o : /\ Continues(op, o) /\ AfterPool(o)
               /\ ~RemoveFiles => o.todo = op.todo \ {<<c, x>>}
               /\ RemoveFiles =>
                    o.todo = InPool(IF Others(op.dist) = {} THEN Comps ELSE DOMAIN op.new \ op.comps)
  BY RemovingShape
<1>3. /\ op'.dist = op.dist /\ IsOperation(o) /\ op.phase \in {"dists", "pool"}
      /\ op'.phase \notin Putting /\ op'.phase # "link" /\ op'.phase # "remove" /\ op'.phase # "rename"
  <2>1. op'.dist = op.dist /\ IsOperation(o)
    BY <1>1, <1>2 DEF Continues
  <2>2. op.phase \in {"dists", "pool"}
    BY <1>1
  <2> QED
    BY <1>1, <2>1, <2>2 DEF Putting
<1>4. site'[op.dist] = EmptySite
  <2>1. CASE RemoveFiles
    BY <2>1, RemoveFilesShape
  <2>2. CASE ~RemoveFiles
    <3>1. site' = site /\ op.phase = "pool"
      BY <1>1, <2>2 DEF RemovePool
    <3>2. op.phase # "dists"
      BY <3>1
    <3> QED
      BY <1>1, <3>1, <3>2 DEF Sites, Dropped
  <2> QED
    BY <2>1, <2>2
<1>5. ASSUME NEW d \in Dists, ~Void(d)'
      PROVE  Complete(d)'
  <2>1. ~Void(d) /\ why[d] \subseteq why'[d]
    BY <1>1, <1>5 DEF Void
  <2>2. CASE site'[d] = EmptySite
    BY <2>2, NothingOffered
  <2>3. CASE RemoveFiles /\ site'[d] # EmptySite
    <3>1. d # op.dist /\ site'[d] = site[d] /\ pub' = pub
      BY <1>4, <2>3, RemoveFilesShape DEF RemoveFiles
    <3>2. Quiet(d)
      BY <2>1, <3>1, OthersQuiet
    <3> QED
      BY <1>5, <2>1, <3>1, <3>2, OffersKept
  <2>4. CASE ~RemoveFiles /\ site'[d] # EmptySite
    <3>1. /\ op.phase = "pool" /\ site' = site /\ d # op.dist /\ <<c, x>> \in op.todo
          /\ c \in Comps /\ x \in Paths
      BY <1>1, <1>4, <2>4 DEF RemovePool
    <3>2. pub' = [pub EXCEPT ![c] = Unbind(pub[c], {x})]
      <4>1. <<c, x>>[1] = c /\ <<c, x>>[2] = x
        OBVIOUS
      <4> QED
        BY <2>4, <4>1 DEF RemovePool
    <3>3. Quiet(d)
      BY <2>1, <3>1, OthersQuiet
    <3>4. Settled(d) /\ Complete(d)
      BY <2>1, <3>3 DEF Sites, Packages, Offers
    <3>5. \A e \in Others(op.dist) : c \notin cache[e].comps
      BY <3>1 DEF Packages, Spared
    <3>6. ~(Recorded(d) /\ c \in DOMAIN db[d].refs)
      <4>1. ASSUME Recorded(d), c \in DOMAIN db[d].refs
            PROVE  d \in DOMAIN cache /\ c \in cache[d].comps
        BY <2>1, <3>1, <4>1, ReferencedBy
      <4> QED
        BY <3>1, <3>5, <4>1 DEF Others
    <3> QED
      BY <3>1, <3>2, <3>4, <3>6, CompleteRemoved
  <2> QED
    BY <2>2, <2>3, <2>4
<1>6. Offers'
  BY <1>5 DEF Offers
<1>7. ASSUME op'.phase = "pool", NEW e \in Comps, NEW y \in Paths, <<e, y>> \in op'.todo,
             NEW z \in Others(op.dist)
      PROVE  cache' = cache /\ e \notin cache[z].comps
  <2>1. op' = o /\ cache' = cache
    BY <1>2, <1>3, <1>7, AfterPoolStays
  <2>2. CASE RemoveFiles
    <3>1. PICK C : C = DOMAIN op.new \ op.comps
      OBVIOUS
    <3>2. o.todo = InPool(C)
      BY <1>2, <1>7, <2>2, <3>1
    <3>3. e \in C
      BY <1>7, <2>1, <3>2, InPoolFacts, SMTT(30)
    <3>4. DOMAIN op.new = cache[op.dist].comps /\ op.comps = Shared(op.dist)
      BY <1>1, <1>3 DEF Core, Operations
    <3> QED
      BY <1>7, <2>1, <3>1, <3>3, <3>4, NotShared
  <2>3. CASE ~RemoveFiles
    <3>1. op.phase = "pool" /\ <<e, y>> \in op.todo
      BY <1>1, <1>2, <1>7, <2>1, <2>3
    <3> QED
      BY <1>7, <2>1, <3>1 DEF Packages, Spared
  <2> QED
    BY <2>2, <2>3
<1>8. Spared'
  <2>1. ASSUME op'.phase = "pool"
        PROVE  cache' = cache
    BY <1>2, <1>3, <2>1, AfterPoolStays
  <2>2. cache' = cache => Others(op.dist)' = Others(op.dist)
    BY <1>3 DEF Others
  <2> QED
    BY <1>3, <1>7, <2>1, <2>2 DEF Spared
<1>9. Linked' /\ Named' /\ Mixed'
  BY <1>3 DEF Linked, Named, Mixed
<1> QED
  BY <1>6, <1>8, <1>9 DEF Packages

\* the end of a cleanup
LEMMA CleanedUpPackages ==
  ASSUME Core, Sites, Packages, CleanedUp
  PROVE  Packages'
<1>1. UNCHANGED <<pub, site, why>> /\ op' = Idle /\ op.name # "idle" /\ op.phase = "cleaned"
  BY DEF CleanedUp, Running, files
<1>2. op.name = "update" /\ op.phase \in Cleaning
  BY <1>1, PhaseNames DEF Core, Cleaning
<1>3. ASSUME NEW d \in Dists, ~Void(d)'
      PROVE  Complete(d)'
  <2>1. "torn" \notin why[d]
    BY <1>1, <1>3 DEF Void
  <2>2. Quiet(d)
    BY <1>2, <2>1 DEF Quiet
  <2> QED
    BY <1>1, <1>3, <2>2, OffersKept
<1>4. Offers'
  BY <1>3 DEF Offers
<1> QED
  BY <1>1, <1>4, EndPackages

\* the end of Remove
LEMMA UnrecordPackages ==
  ASSUME Core, Sites, Packages, Unrecord
  PROVE  Packages'
<1>1. /\ UNCHANGED <<pub, site>> /\ op' = Idle /\ op.name # "idle" /\ op.phase = "unrecord"
      /\ why' = [why EXCEPT ![op.dist] = {}]
  BY DEF Unrecord, Running, files
<1>2. op.name = "drop" /\ op.phase # "dists"
  BY <1>1, PhaseNames DEF Core
<1>3. site[op.dist] = EmptySite
  BY <1>2 DEF Sites, Dropped
<1>4. \A d \in Dists : d # op.dist => why'[d] = why[d]
  BY <1>1 DEF Core, TypeOK
<1>5. ASSUME NEW d \in Dists, ~Void(d)'
      PROVE  Complete(d)'
  <2>1. CASE d = op.dist
    <3>1. site'[d] = EmptySite
      BY <1>1, <1>3, <2>1
    <3> QED
      BY <3>1, NothingOffered
  <2>2. CASE d # op.dist
    <3>1. ~Void(d) /\ why[d] \subseteq why'[d]
      BY <1>4, <1>5, <2>2 DEF Void
    <3>2. Quiet(d)
      BY <2>2, <3>1, OthersQuiet
    <3> QED
      BY <1>1, <1>5, <3>1, <3>2, OffersKept
  <2> QED
    BY <2>1, <2>2
<1>6. Offers'
  BY <1>5 DEF Offers
<1> QED
  BY <1>1, <1>6, EndPackages

\* a failure
LEMMA StopPackages ==
  ASSUME Core, Sites, Packages, Refuse \/ Abort \/ Crash
  PROVE  Packages'
<1>1. PICK stale : Stop(stale) /\ (site' = site \/ Unfinished)
  BY StopShape
<1>2. TypeOK /\ Operations /\ Shapes
  BY CoreShapes DEF Core
<1>3. /\ op.name # "idle" /\ op.dist \in Dists /\ op' = Idle /\ pub' = pub
      /\ \A d \in Dists : why[d] \subseteq why'[d]
  BY <1>1, <1>2, StopFields
<1>4. \A e \in Dists : e # op.dist => site'[e] = site[e]
  BY <1>1, <1>2, <1>3, UnfinishedShape
<1>5. ASSUME NEW d \in Dists, ~Void(d)'
      PROVE  Complete(d)'
  <2>1. ~Void(d)
    BY <1>3, <1>5, VoidGrows
  <2>2. CASE d = op.dist
    <3>1. "torn" \notin why'[d]
      BY <1>5 DEF Void
    <3>2. Quiet(d) /\ site'[d].vis = site[d].vis
      BY <1>1, <2>2, <3>1, StopKept DEF Kept
    <3> QED
      BY <1>3, <1>5, <3>2, OffersKept
  <2>3. CASE d # op.dist
    <3>1. Quiet(d)
      BY <2>1, <2>3, OthersQuiet
    <3>2. site'[d].vis = site[d].vis
      BY <1>4, <2>3
    <3> QED
      BY <1>3, <1>5, <3>1, <3>2, OffersKept
  <2> QED
    BY <2>2, <2>3
<1>6. Offers'
  BY <1>5 DEF Offers
<1> QED
  BY <1>3, <1>6, EndPackages

\* a step that leaves the operation and what clients see alone
LEMMA PackagesSame ==
  ASSUME Packages, UNCHANGED <<pub, conf, op, why>>, \A d \in Dists : site'[d].vis = site[d].vis,
         op.phase = "rename" => site' = site,
         op.phase \in {"pool", "remove"} => UNCHANGED <<db, cache>>
  PROVE  Packages'
<1>1. /\ \A c, p : Present(c, p)' <=> Present(c, p)
      /\ \A c, w : Served(c, w)' <=> Served(c, w)
      /\ \A d : (Void(d)' <=> Void(d)) /\ (Quiet(d)' <=> Quiet(d))
  BY DEF Present, Served, Void, Quiet
<1>2. Linked'
  BY <1>1 DEF Packages, Linked, ToLink
<1>3. Named'
  BY DEF Packages, Named
<1>4. Mixed'
  <2>1. Void(op.dist)' <=> Void(op.dist)
    BY DEF Void
  <2> QED
    BY <1>1, <2>1 DEF Packages, Mixed
<1>5. Offers'
  <2>1. ASSUME NEW d \in Dists, ~Void(d)', Quiet(d)' \/ ~op'.missed
        PROVE  Complete(d)'
    <3>1. Complete(d)
      BY <1>1, <2>1 DEF Packages, Offers
    <3> QED
      BY <3>1, CompleteFrame
  <2> QED
    BY <2>1 DEF Offers
<1>6. Spared'
  <2>1. CASE op.phase \in {"pool", "remove"}
    <3>1. UNCHANGED <<db, cache>>
      BY <2>1
    <3>2. Others(op.dist)' = Others(op.dist) /\ \A c : Referenced(c)' = Referenced(c)
      BY <3>1 DEF Others, Referenced, RefsOf
    <3> QED
      BY <3>1, <3>2 DEF Packages, Spared
  <2>2. CASE op.phase # "pool" /\ op.phase # "remove"
    BY <2>2 DEF Spared
  <2> QED
    BY <2>1, <2>2
<1> QED
  BY <1>2, <1>3, <1>4, <1>5, <1>6 DEF Packages

\* Every step keeps the packages that clients look for.
LEMMA NextPackages == Core /\ Sites /\ Packages /\ [Next]_vars => Packages'
<1> SUFFICES ASSUME Core, Sites, Packages, [Next]_vars
             PROVE  Packages'
  OBVIOUS
<1>1. CASE \E c \in Comps, p \in Pkgs : LinkFromPool(c, p) \/ LinkFromPoolS3(c, p)
  BY <1>1, LinkPackages
<1>2. CASE \/ \E i \in Index : FinalizeIndex(i)
           \/ \E sign \in conf.sign : FinalizeRelease(sign)
           \/ SignRelease
           \/ \E x \in Index \cup {Release, Signatures} : RenameFiles(x)
  BY <1>2, IndexPackages, ReleasePackages, SignPackages, RenamePackages
<1>3. CASE SaveRecord \/ \E c \in Comps : SaveRefs(c)
  BY <1>3, SavePackages
<1>4. CASE \E c \in Comps, x \in Paths : RemoveFile(<<c, x>>) \/ RemovePool(<<c, x>>)
  BY <1>4, CleaningPackages, RemovingPackages
<1>5. CASE CleanupPrefixComponentFiles \/ CleanupFails
  BY <1>5, CleaningPackages
<1>6. CASE RemoveFiles
  BY <1>6, RemovingPackages
<1>7. CASE Commands \/ CleanedUp \/ Unrecord
  BY <1>7, CommandsPackages, CleanedUpPackages, UnrecordPackages
<1>12. CASE PackageIndexByHash \/ IgnoredError
  <2>1. op.phase = "index" \/ op.phase = "release"
    BY <1>12 DEF PackageIndexByHash, IgnoredError, HashStep
  <2>2. UNCHANGED <<pub, conf, op, why>> /\ \A d \in Dists : site'[d].vis = site[d].vis
    BY <1>12, HashCore
  <2>3. op.phase \notin {"pool", "remove"} /\ op.phase # "rename"
    BY <2>1
  <2> QED
    BY <2>2, <2>3, PackagesSame
<1>8. CASE Step
  BY <1>1, <1>2, <1>3, <1>4, <1>5, <1>6, <1>7, <1>8, <1>12 DEF Step
<1>9. CASE Refuse \/ Abort \/ Crash
  BY <1>9, StopPackages
<1>10. CASE Reload \/ Flush
  <2>1. op.phase \notin {"pool", "remove"}
    <3>1. op.name = "idle"
      BY <1>10 DEF Reload, Flush
    <3>2. op.phase = "none"
      BY <3>1, IdleOperation DEF Core, Operations
    <3> QED
      BY <3>2
  <2>2. UNCHANGED <<pub, site, conf, op, why>>
    BY <1>10 DEF Reload, Flush, files, fixed, paths
  <2> QED
    BY <2>1, <2>2, PackagesSame
<1>11. CASE UNCHANGED vars
  BY <1>11, PackagesSame DEF vars
<1> QED
  BY <1>8, <1>9, <1>10, <1>11, <1>12 DEF Next

\* the beginning
LEMMA InitPackages == Init => Packages
<1> SUFFICES ASSUME Init
             PROVE  Packages
  OBVIOUS
<1>1. op = Idle /\ \A d \in Dists : site[d] = EmptySite
  BY DEF Init
<1>2. op.phase = "none"
  BY <1>1, IdleOperation
<1>3. op.phase \notin Putting /\ op.phase # "link" /\ op.phase # "pool" /\ op.phase # "remove"
      /\ op.phase # "rename"
  BY <1>2 DEF Putting
<1>4. ASSUME NEW d \in Dists
      PROVE  Complete(d)
  <2>1. site[d].vis = <<>>
    BY <1>1, EmptySiteFields
  <2>2. At(site[d].vis, Release) = {}
    BY <2>1, EmptyFunction DEF At
  <2>3. Sound(d)
    BY <2>2 DEF Sound
  <2> QED
    BY <2>3, CompleteSound
<1> QED
  BY <1>3, <1>4 DEF Packages, Linked, Named, Mixed, Spared, Offers

\* Packages that are published are linked before an index names them, and no
\* cleanup or drop takes one away that is still listed.
THEOREM PackagesInvariant == Spec => [](Core /\ Sites /\ Packages)
  BY SitesInvariant, InitPackages, NextPackages, PTL DEF Spec

\* Clients of a distribution find every package file that its indexes name, at
\* every moment of every operation on it or on others.
THEOREM IndexesComplete == Spec => []IndexComplete
<1>1. Core /\ Sites /\ Packages => IndexComplete
  <2> SUFFICES ASSUME Packages, NEW d \in Dists, ~Void(d), ~(op.dist = d /\ op.missed)
               PROVE  Complete(d)
    BY DEF IndexComplete, Void
  <2>1. Quiet(d) \/ ~op.missed
    BY OthersQuiet
  <2> QED
    BY <2>1 DEF Packages, Offers
<1> QED
  BY <1>1, PackagesInvariant, PTL
=============================================================================
