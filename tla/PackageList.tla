---------------------------- MODULE PackageList ----------------------------
(***************************************************************************)
(* Lists of packages, queries on them and the search for dependencies      *)
(* (deb/list.go, deb/query.go), and the commands that go by them: `package *)
(* search`, `snapshot verify`, `snapshot filter` and `snapshot pull`.      *)
(* Names and architectures are numbers in byte order.  The version of a    *)
(* package is its rank in the order of versions; that CompareVersions is   *)
(* such an order is checked here as well.                                  *)
(***************************************************************************)
EXTENDS Version, FiniteSets

CONSTANTS Pkgs,    \* packages
          Attr,    \* [name, ver, arch, hash, provides, deps, source] of each
          Cases    \* the commands looked at

NoArch == 0
All == 1
Source == 9
Options == {"recommends", "suggests", "build", "source", "all"}

VARIABLES
  conf,      \* the command and its arguments, a member of Cases
  at,        \* where it is
  archs,     \* architectures it goes through
  todo,      \* VerifyDependencies: dependencies not looked at yet
  cache,     \* its cache: what is satisfied (good) and what is not (bad)
  list,      \* the list that is filtered or verified, with its index
  result,    \* what FilterWithProgress returns
  have,      \* dependencySource
  missing,   \* missing dependencies not gone through yet
  added,     \* packages added in this round
  dest,      \* the snapshot pulled into
  rest,      \* pulled packages not gone through yet
  seen,      \* alreadySeen
  answer     \* what the command prints

vars == <<conf, at, archs, todo, cache, list, result, have, missing, added, dest, rest, seen, answer>>

----------------------------------------------------------------------------
\* PackageList

ShortKey(p) == <<Attr[p].arch, Attr[p].name, Attr[p].ver>>

\* by name and then from the latest version to the oldest
lessPackages(p, q) ==
  LET a == Attr[p]  b == Attr[q]
  IN IF a.name # b.name THEN a.name < b.name
     ELSE IF a.ver = b.ver THEN a.arch < b.arch ELSE a.ver > b.ver

\* The sequence of S in that order.  No two versions of a package are equal in it.
Sorted(S) ==
  [i \in 1 .. Cardinality(S) |-> CHOOSE p \in S : Cardinality({q \in S : lessPackages(q, p)}) = i - 1]

Names == UNION {{Attr[p].name} \cup Attr[p].provides : p \in Pkgs}
NoProviders == [n \in Names |-> {}]
NewPackageList == [packages |-> {}, index |-> <<>>, provides |-> NoProviders, indexed |-> FALSE]

\* a list loaded from the references of a snapshot
Loaded(S) == [NewPackageList EXCEPT !.packages = S]

PrepareIndex(l) ==
  IF l.indexed THEN l
  ELSE [packages |-> l.packages, indexed |-> TRUE,
        index |-> Sorted(l.packages),
        provides |-> [n \in Names |-> {p \in l.packages : n \in Attr[p].provides}]]

Has(l, p) == \E q \in l.packages : ShortKey(q) = ShortKey(p)

\* PackageConflictError: another package with the same name, version and architecture
Conflict(l, p) == \E q \in l.packages \ {p} : ShortKey(q) = ShortKey(p)

\* mutant: packages of the same name, version and architecture may differ in content
Add_Duplicates(l, p) ==
  LET later == {j \in DOMAIN l.index : lessPackages(p, l.index[j])}
      i == IF later = {} THEN Len(l.index) + 1 ELSE CHOOSE j \in later : \A k \in later : j <= k
  IN IF p \in l.packages THEN l
     ELSE IF ~l.indexed THEN [l EXCEPT !.packages = @ \cup {p}]
     ELSE [l EXCEPT !.packages = @ \cup {p}, !.index = SE!InsertAt(@, i, p),
                    !.provides = [n \in Names |-> IF n \in Attr[p].provides THEN @[n] \cup {p} ELSE @[n]]]

Add(l, p) ==
  LET later == {j \in DOMAIN l.index : lessPackages(p, l.index[j])}
      i == IF later = {} THEN Len(l.index) + 1 ELSE CHOOSE j \in later : \A k \in later : j <= k
  IN IF Has(l, p) THEN l
     ELSE IF ~l.indexed THEN [l EXCEPT !.packages = @ \cup {p}]
     ELSE [l EXCEPT !.packages = @ \cup {p}, !.index = SE!InsertAt(@, i, p),
                    !.provides = [n \in Names |-> IF n \in Attr[p].provides THEN @[n] \cup {p} ELSE @[n]]]

\* mutant: the index of what packages provide keeps the packages
Remove_KeepsProvides(l, S) ==
  [l EXCEPT !.packages = {q \in @ : \A p \in S : ShortKey(q) # ShortKey(p)},
            !.index = SelectSeq(@, LAMBDA q : q \notin S)]

\* Remove, of each package of S
Remove(l, S) ==
  [l EXCEPT !.packages = {q \in @ : \A p \in S : ShortKey(q) # ShortKey(p)},
            !.index = SelectSeq(@, LAMBDA q : q \notin S),
            !.provides = [n \in Names |-> @[n] \ S]]

\* PackageList.Append goes through a map, in any order, and stops at the first conflict:
\* the lists it may leave.
AppendList(l, m) ==
  LET bad == {p \in m.packages : Conflict(l, p)}
  IN {[l EXCEPT !.packages = @ \cup S] :
        S \in IF bad = {} THEN {m.packages} ELSE SUBSET (m.packages \ bad)}

Architectures(l, includeSource) ==
  {Attr[p].arch : p \in l.packages} \ ({All} \cup (IF includeSource THEN {} ELSE {Source}))

----------------------------------------------------------------------------
\* Dependencies: [pkg, rel, ver, arch]

MatchesArchitecture(p, arch) == (Attr[p].arch = All /\ arch # Source) \/ Attr[p].arch = arch

MatchesDependency(p, dep) ==
  LET ver == Attr[p].ver
  IN /\ dep.arch = NoArch \/ MatchesArchitecture(p, dep.arch)
     /\ IF dep.rel = "any" THEN dep.pkg \in Attr[p].provides \cup {Attr[p].name}
        ELSE /\ dep.pkg = Attr[p].name
             /\ CASE dep.rel = "=" -> ver = dep.ver
                  [] dep.rel = "<<" -> ver < dep.ver
                  [] dep.rel = ">>" -> ver > dep.ver
                  [] dep.rel = "<=" -> ver <= dep.ver
                  [] dep.rel = ">=" -> ver >= dep.ver

\* mutant: packages that provide the name are not found
Search_NoProviders(l, dep) ==
  [named |-> SelectSeq(l.index, LAMBDA p : Attr[p].name = dep.pkg /\ MatchesDependency(p, dep)),
   provided |-> {}]

\* The index is sorted: the binary search finds the packages of that name.
\* Those of the index come first, in its order, then those that provide it.
Search(l, dep) ==
  [named |-> SelectSeq(l.index, LAMBDA p : Attr[p].name = dep.pkg /\ MatchesDependency(p, dep)),
   provided |-> IF dep.rel # "any" \/ dep.pkg \notin Names THEN {}
                ELSE {p \in l.provides[dep.pkg] : dep.arch = NoArch \/ MatchesArchitecture(p, dep.arch)}]

Nothing(s) == s.named = <<>> /\ s.provided = {}

\* Each dependency is a sequence of variants; <<>> cannot be parsed.
GetDependencies(p, options) ==
  LET d == Attr[p].deps
      Follow(kind) == IF kind \in options THEN d[kind] ELSE <<>>
      source == [pkg |-> Attr[p].source.pkg, rel |-> "=", ver |-> Attr[p].source.ver, arch |-> Source]
  IN d.depends \o Follow("recommends") \o Follow("suggests") \o Follow("build")
     \o (IF "source" \in options THEN <<<<source>>>> ELSE <<>>)

\* all dependencies of the packages of an index, architecture by architecture
Wanted(index, architectures, options) ==
  LET Of(p, a) ==
        LET deps == GetDependencies(p, options)
        IN IF MatchesArchitecture(p, a) THEN [i \in DOMAIN deps |-> [arch |-> a, of |-> deps[i]]] ELSE <<>>
  IN SE!FlattenSeq([k \in DOMAIN architectures |->
       SE!FlattenSeq([i \in DOMAIN index |-> Of(index[i], architectures[k])])])

----------------------------------------------------------------------------
\* Queries: [q, ...] with the kind of the query in q

RECURSIVE Matches(_, _)
Matches(q, p) ==
  CASE q.q = "or" -> Matches(q.l, p) \/ Matches(q.r, p)
    [] q.q = "and" -> Matches(q.l, p) /\ Matches(q.r, p)
    [] q.q = "not" -> ~Matches(q.l, p)
    [] q.q = "arch" -> MatchesArchitecture(p, q.arch)
    [] q.q = "field" -> p \in q.those
    [] q.q = "dep" -> MatchesDependency(p, q.dep)
    [] q.q = "pkg" -> ShortKey(p) = q.key
    [] q.q = "all" -> TRUE

\* A catalog is a list, or the collection of all packages in the database,
\* which does not support Search.
RECURSIVE Fast(_, _)
Fast(q, searchable) ==
  CASE q.q = "or" -> Fast(q.l, searchable) /\ Fast(q.r, searchable)
    [] q.q = "and" -> Fast(q.l, searchable) \/ Fast(q.r, searchable)
    [] q.q \in {"not", "arch", "field"} -> FALSE
    [] q.q = "dep" -> searchable
    [] q.q \in {"pkg", "all"} -> TRUE

Scan(q, S) == {p \in S : Matches(q, p)}

AllMatches(l, dep) == LET s == Search(l, dep) IN {s.named[i] : i \in DOMAIN s.named} \cup s.provided

RECURSIVE Query(_, _, _)
Query(q, l, searchable) ==
  LET slow == ~Fast(q, searchable)
  IN CASE q.q = "or" /\ ~slow -> Query(q.l, l, searchable) \cup Query(q.r, l, searchable)
       [] q.q = "and" /\ ~slow ->
            IF Fast(q.l, searchable) THEN Scan(q.r, Query(q.l, l, searchable))
            ELSE Scan(q.l, Query(q.r, l, searchable))
       [] q.q = "dep" /\ ~slow -> AllMatches(l, q.dep)
       [] q.q = "pkg" -> {p \in l.packages : ShortKey(p) = q.key}
       [] slow \/ q.q = "all" -> Scan(q, l.packages)

----------------------------------------------------------------------------
\* The commands

NoCache == [good |-> {}, bad |-> {}]

Init ==
  /\ conf \in Cases /\ at = "start" /\ archs = <<>> /\ todo = <<>> /\ cache = NoCache
  /\ list = NewPackageList /\ result = NewPackageList /\ have = NewPackageList /\ dest = NewPackageList
  /\ missing = <<>> /\ added = 0 /\ rest = <<>> /\ seen = {} /\ answer = <<>>

Ended == {"end", "error"}

Fail == at' = "error" /\ UNCHANGED <<conf, archs, todo, cache, list, result, have, missing, added, dest, rest, seen, answer>>

\* the architectures asked for, or those of the snapshot: sorted, but `snapshot
\* verify` takes them in any order
Archs ==
  LET A == Architectures(Loaded(IF conf.op = "pull" THEN conf.into ELSE conf.list), conf.op = "verify")
  IN IF conf.archs # <<>> THEN {conf.archs}
     ELSE IF conf.op = "verify" THEN SE!SetToSeqs(A) ELSE {SE!SetToSortSeq(A, <)}

\* two versions are compared
Compare ==
  /\ at = "start" /\ conf.op = "compare"
  /\ answer' = CompareVersions(conf.a, conf.b) /\ at' = "end"
  /\ UNCHANGED <<conf, archs, todo, cache, list, result, have, missing, added, dest, rest, seen>>

aptlyPackageSearch ==
  /\ at = "start" /\ conf.op = "search"
  /\ answer' = Query(conf.query, Loaded(conf.list), FALSE) /\ at' = "end"
  /\ UNCHANGED <<conf, archs, todo, cache, list, result, have, missing, added, dest, rest, seen>>

\* `snapshot verify` loads the snapshots before it looks for anything.
VerifyBegins ==
  /\ at = "start" /\ conf.op = "verify"
  /\ IF (\E p \in conf.into : Conflict(Loaded(conf.list), p)) \/ Archs = {<<>>} THEN Fail
     ELSE \E l \in {PrepareIndex(Loaded(conf.list))}, as \in Archs :
            /\ list' = l /\ have' = PrepareIndex(Loaded(conf.list \cup conf.into)) /\ archs' = as
            /\ todo' = Wanted(l.index, as, conf.options) /\ at' = "verify"
            /\ UNCHANGED <<conf, cache, result, missing, added, dest, rest, seen, answer>>

\* VerifyDependencies, one dependency.  Its variants are looked at up to the
\* first that is satisfied; without one, those not met before are missing.
\* The cache is one for each architecture.  A dependency that cannot be parsed
\* ends the command.
VerifyDependency ==
  LET d == Head(todo)
      all == "all" \in conf.options
      variants == [i \in DOMAIN d.of |-> IF d.of[i].arch = NoArch THEN [d.of[i] EXCEPT !.arch = d.arch] ELSE d.of[i]]
      Known(v) == <<d.arch, v>> \in cache.good \cup cache.bad
      Ok(v) == IF Known(v) THEN <<d.arch, v>> \in cache.good ELSE ~Nothing(Search(have, v))
      New(v) == ~Known(v) /\ ~Ok(v)
  IN /\ at = "verify" /\ todo # <<>>
     /\ IF d.of = <<>> THEN Fail
        ELSE \E ok \in {{i \in DOMAIN variants : Ok(variants[i])}} :
             LET looked == {i \in DOMAIN variants : all \/ \A j \in ok : i <= j}
             IN /\ missing' = missing \o (IF ok = {} \/ all THEN SelectSeq(variants, New) ELSE <<>>)
                /\ cache' = [good |-> cache.good \cup {<<d.arch, variants[i]>> : i \in looked \cap ok},
                             bad |-> cache.bad \cup {<<d.arch, variants[i]>> : i \in looked \ ok}]
                /\ todo' = Tail(todo)
                /\ UNCHANGED <<conf, at, archs, list, result, have, added, dest, rest, seen, answer>>

aptlySnapshotVerify ==
  /\ at = "verify" /\ todo = <<>> /\ conf.op = "verify"
  /\ answer' = missing /\ at' = "end"
  /\ UNCHANGED <<conf, archs, todo, cache, list, result, have, missing, added, dest, rest, seen>>

\* `snapshot pull` takes packages of the architectures, and those for all, only.
ArchQuery(q, as) ==
  LET Is(a) == [q |-> "arch", arch |-> a]
  IN [q |-> "and", l |-> q,
      r |-> SE!FoldLeft(LAMBDA r, a : [q |-> "or", l |-> Is(a), r |-> r], Is(NoArch), as)]

\* FilterWithProgress until its loop; source is the snapshot pulled into.
FilterBegins ==
  /\ at = "start" /\ conf.op \in {"filter", "pull"}
  /\ IF Archs = {<<>>} /\ (conf.withDeps \/ conf.op = "pull") THEN Fail
     ELSE \E l \in {PrepareIndex(Loaded(conf.list))}, as \in Archs :
          \E found \in {Query(IF conf.op = "pull" THEN ArchQuery(conf.query, as) ELSE conf.query, l, TRUE)} :
            /\ list' = l /\ dest' = PrepareIndex(Loaded(conf.into)) /\ archs' = as
            /\ IF conf.withDeps
               THEN /\ result' = PrepareIndex(Loaded(found)) /\ added' = Cardinality(found)
                    /\ \E h \in AppendList(Loaded(conf.into), Loaded(found)) : have' = PrepareIndex(h)
                    /\ at' = "round"
               ELSE result' = Loaded(found) /\ at' = "filtered" /\ UNCHANGED <<added, have>>
            /\ UNCHANGED <<conf, todo, cache, missing, rest, seen, answer>>

\* mutant: the number of packages added is that of all rounds
FindMissing_KeepsAdded ==
  /\ at = "round" /\ added > 0 /\ at' = "verify"
  /\ todo' = Wanted(result.index, archs, conf.options) /\ cache' = NoCache /\ missing' = <<>>
  /\ UNCHANGED <<conf, archs, list, result, have, added, dest, rest, seen, answer>>

FindMissing ==
  /\ at = "round" /\ added > 0 /\ at' = "verify" /\ added' = 0
  /\ todo' = Wanted(result.index, archs, conf.options) /\ cache' = NoCache /\ missing' = <<>>
  /\ UNCHANGED <<conf, archs, list, result, have, dest, rest, seen, answer>>

MissingFound ==
  /\ at = "verify" /\ todo = <<>> /\ conf.op # "verify" /\ at' = "satisfy"
  /\ UNCHANGED <<conf, archs, todo, cache, list, result, have, missing, added, dest, rest, seen, answer>>

\* A missing dependency: the first package that satisfies it is added, or all
\* of them, one by one.  Providers are in no particular order.
Satisfy ==
  LET dep == Head(missing)
      all == "all" \in conf.options
      s == Search(list, dep)
      New(p) == ~Has(result, p)
      named == SelectSeq(s.named, New)
      provided == {p \in s.provided : New(p)}
      next == IF named # <<>> THEN {Head(named)} ELSE provided
  IN /\ at = "satisfy" /\ missing # <<>>
     /\ IF (~all /\ ~Nothing(Search(result, dep))) \/ next = {}
        THEN missing' = Tail(missing) /\ UNCHANGED <<result, have, added>>
        ELSE /\ \E p \in next : result' = Add(result, p) /\ have' = Add(have, p)
             /\ added' = added + 1
             /\ missing' = IF all THEN missing ELSE Tail(missing)
     /\ UNCHANGED <<conf, at, archs, todo, cache, list, dest, rest, seen, answer>>

\* mutant: what is added is not looked at for dependencies
RoundEnds_Last ==
  /\ at = "satisfy" /\ missing = <<>> /\ at' = "filtered"
  /\ UNCHANGED <<conf, archs, todo, cache, list, result, have, missing, added, dest, rest, seen, answer>>

RoundEnds ==
  /\ at = "satisfy" /\ missing = <<>> /\ at' = "round"
  /\ UNCHANGED <<conf, archs, todo, cache, list, result, have, missing, added, dest, rest, seen, answer>>

FilterEnds ==
  /\ at = "round" /\ added = 0 /\ at' = "filtered"
  /\ UNCHANGED <<conf, archs, todo, cache, list, result, have, missing, added, dest, rest, seen, answer>>

aptlySnapshotFilter ==
  /\ at = "filtered" /\ conf.op = "filter"
  /\ answer' = result.packages /\ at' = "end"
  /\ UNCHANGED <<conf, archs, todo, cache, list, result, have, missing, added, dest, rest, seen>>

PullBegins ==
  /\ at = "filtered" /\ conf.op = "pull"
  /\ result' = PrepareIndex(result) /\ rest' = result'.index /\ at' = "pull"
  /\ UNCHANGED <<conf, archs, todo, cache, list, have, missing, added, dest, seen, answer>>

NameArch(p) == <<Attr[p].arch, Attr[p].name>>

\* what the pulled package p takes the place of
Replaced(l, p) == AllMatches(l, [pkg |-> Attr[p].name, rel |-> "any", ver |-> 0, arch |-> Attr[p].arch])

\* mutant: packages pulled before, of the same name, are removed as well
PullPackage_RemovesAlways ==
  LET p == Head(rest)
      new == NameArch(p) \notin seen
  IN /\ at = "pull" /\ rest # <<>>
     /\ \E l \in {Remove(dest, IF ~conf.noRemove THEN Replaced(dest, p) ELSE {})} :
          dest' = IF new \/ conf.allMatches THEN Add(l, p) ELSE l
     /\ seen' = seen \cup {NameArch(p)} /\ rest' = Tail(rest)
     /\ UNCHANGED <<conf, at, archs, todo, cache, list, result, have, missing, added, answer>>

PullPackage ==
  LET p == Head(rest)
      new == NameArch(p) \notin seen
  IN /\ at = "pull" /\ rest # <<>>
     /\ \E l \in {Remove(dest, IF new /\ ~conf.noRemove THEN Replaced(dest, p) ELSE {})} :
          dest' = IF new \/ conf.allMatches THEN Add(l, p) ELSE l
     /\ seen' = seen \cup {NameArch(p)} /\ rest' = Tail(rest)
     /\ UNCHANGED <<conf, at, archs, todo, cache, list, result, have, missing, added, answer>>

aptlySnapshotPull ==
  /\ at = "pull" /\ rest = <<>> /\ answer' = dest.packages /\ at' = "end"
  /\ UNCHANGED <<conf, archs, todo, cache, list, result, have, missing, added, dest, rest, seen>>

Next ==
  \/ Compare \/ aptlyPackageSearch \/ VerifyBegins \/ VerifyDependency \/ aptlySnapshotVerify
  \/ FilterBegins \/ FindMissing \/ MissingFound \/ Satisfy \/ RoundEnds \/ FilterEnds
  \/ aptlySnapshotFilter \/ PullBegins \/ PullPackage \/ aptlySnapshotPull

Spec == Init /\ [][Next]_vars /\ WF_vars(Next)

----------------------------------------------------------------------------

IsList(l) ==
  /\ l.packages \subseteq Pkgs /\ l.indexed \in BOOLEAN
  /\ \A i \in DOMAIN l.index : l.index[i] \in Pkgs
  /\ \A n \in Names : l.provides[n] \subseteq Pkgs
  /\ Cardinality({ShortKey(p) : p \in l.packages}) = Cardinality(l.packages)

\* Types; the packages of a list differ in name, version or architecture.
TypeOK ==
  /\ conf.op \in {"compare", "search", "verify", "filter", "pull"}
  /\ at \in Ended \cup {"start", "round", "satisfy", "filtered", "pull", "verify"}
  /\ \A l \in {list, result, have, dest} : IsList(l)
  /\ added \in 0 .. Cardinality(Pkgs) /\ rest \in Seq(Pkgs)

\* Whatever is added and removed, an index has the packages of its list, by
\* name and from the latest version on, and finds them by what they provide:
\* the binary searches rely on it (list.go, PrepareIndex, Add and Remove).
IndexAgrees ==
  \A l \in {list, result, have, dest} : l.indexed =>
    /\ {l.index[i] : i \in DOMAIN l.index} = l.packages /\ Len(l.index) = Cardinality(l.packages)
    /\ \A i, j \in DOMAIN l.index : i < j => ~lessPackages(l.index[j], l.index[i])
    /\ \A n \in Names : l.provides[n] = {p \in l.packages : n \in Attr[p].provides}

\* Whichever way a query is evaluated, by searching an index, by key, by
\* scanning or by a mixture, it finds the packages that match (query.go).
QueryFindsMatches ==
  /\ at = "end" /\ conf.op = "search" => answer = Scan(conf.query, conf.list)
  /\ at = "filtered" /\ conf.op = "filter" /\ ~conf.withDeps =>
       result.packages = Scan(conf.query, conf.list)

\* the dependencies that an architecture's packages have in a list: [arch, of]
Dependencies(l) ==
  UNION {UNION {{[arch |-> archs[a], of |-> GetDependencies(p, conf.options)[i]] :
                   i \in DOMAIN GetDependencies(p, conf.options)} :
                a \in {b \in DOMAIN archs : MatchesArchitecture(p, archs[b])}} : p \in l.packages}

Variants(d) == {IF d.of[i].arch = NoArch THEN [d.of[i] EXCEPT !.arch = d.arch] ELSE d.of[i] : i \in DOMAIN d.of}
Satisfied(l, dep) == ~Nothing(Search(l, dep))

\* The variant is one of another dependency that a package at hand satisfies.
Masked(v) ==
  \E d \in Dependencies(result) : v \in Variants(d) /\ \E w \in Variants(d) : Satisfied(have, w)

\* Filtering with dependencies leaves nothing out: what a package found needs
\* is found as well, or at hand already, or not in the list.  The exception is
\* a variant that is not needed for another dependency (list.go,
\* FilterWithProgress and VerifyDependencies).
FilterClosed ==
  at = "filtered" /\ conf.withDeps =>
    \A d \in Dependencies(result) :
      LET Good(v) == Satisfied(have, v) \/ Satisfied(result, v) \/ ~Satisfied(list, v)
      IN IF "all" \in conf.options THEN \A v \in Variants(d) : Good(v)
         ELSE \/ \E v \in Variants(d) : Satisfied(have, v) \/ Satisfied(result, v)
              \/ \A v \in Variants(d) : Good(v) \/ Masked(v)

\* Pulling r removes p.  The comment of snapshotPull speaks of "packages with
\* the same name and architecture"; its search also finds packages of
\* architecture all, and packages that only provide the name of r.
TakesPlace(r, p) ==
  \/ NameArch(p) = NameArch(r)
  \/ MatchesArchitecture(p, Attr[r].arch) /\ Attr[r].name \in Attr[p].provides \cup {Attr[p].name}

\* Unless -no-remove is given, pulling removes every package with the name and
\* architecture of a pulled one, and otherwise only what TakesPlace allows,
\* which is more than the comment and the flag's "other package versions" say.
\* What is pulled stays, unless a package pulled after it removes it again
\* (cmd/snapshot_pull.go).
PullKeeps ==
  at = "end" /\ conf.op = "pull" =>
    LET Pulled == result.packages
        First(i) == \A j \in 1 .. i - 1 : NameArch(result.index[j]) # NameArch(result.index[i])
    IN /\ answer \subseteq conf.into \cup Pulled
       /\ \A p \in conf.into \ answer : ~conf.noRemove /\ \E r \in Pulled : TakesPlace(r, p)
       /\ conf.noRemove \/ \A p \in answer \ Pulled : \A r \in Pulled : NameArch(p) # NameArch(r)
       /\ \A i \in DOMAIN result.index : First(i) \/ conf.allMatches =>
            \/ result.index[i] \in answer
            \/ ~conf.noRemove /\ \E j \in i + 1 .. Len(result.index) :
                 First(j) /\ TakesPlace(result.index[j], result.index[i])
            \/ conf.noRemove /\ \E p \in conf.into : ShortKey(p) = ShortKey(result.index[i])

\* Every search for dependencies ends: a round that adds nothing is the last,
\* even if packages depend on each other (list.go, FilterWithProgress).
FilterTerminates == <>(at \in Ended)

\* Versions are in the order of the Debian policy, which the comment of
\* compareVersionPart quotes, as long as their numbers fit an int.
VersionsOrdered ==
  at = "end" /\ conf.op = "compare" /\ Fits(conf.a) /\ Fits(conf.b) => answer = Policy(conf.a, conf.b)

\* "All unsatisfied dependencies are printed." (cmd/snapshot_verify.go:106):
\* of every dependency that no package satisfies, some variant is printed.
VerifyPrintsAll ==
  at = "end" /\ conf.op = "verify" =>
    \A d \in Dependencies(list) :
      \/ \E v \in Variants(d) : Satisfied(have, v)
      \/ \E i \in DOMAIN answer : answer[i] \in Variants(d)
=============================================================================
