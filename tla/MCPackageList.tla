--------------------------- MODULE MCPackageList ---------------------------
EXTENDS PackageList

i386 == 3
app == 11
bpp == 12
lib == 13
mail == 14
virt == 15
one == 1
two == 2

Dep(n) == [pkg |-> n, rel |-> "any", ver |-> 0, arch |-> NoArch]
Since(n, v) == [pkg |-> n, rel |-> ">=", ver |-> v, arch |-> NoArch]

Package(n, v, a, hash, provides, depends, recommends) ==
  [name |-> n, ver |-> v, arch |-> a, hash |-> hash, provides |-> provides,
   deps |-> [depends |-> depends, recommends |-> recommends, suggests |-> <<>>, build |-> <<>>],
   source |-> [pkg |-> app, ver |-> v]]

MCAttr == <<
  Package(app, one, i386, 1, {}, <<<<Since(lib, two), Dep(virt)>>>>, <<<<Dep(mail)>>>>),
  Package(bpp, one, i386, 1, {}, <<<<Since(lib, two)>>>>, <<>>),
  Package(lib, one, i386, 1, {}, <<>>, <<>>),
  Package(lib, two, i386, 1, {}, <<<<Dep(app)>>>>, <<>>),
  Package(mail, one, All, 1, {virt}, <<<<Dep(lib)>>>>, <<>>),
  Package(lib, one, i386, 2, {virt, mail}, <<>>, <<>>),
  Package(app, one, Source, 1, {}, <<>>, <<>>),
  Package(lib, two, All, 1, {}, <<>>, <<>>),
  Package(virt, one, i386, 1, {}, <<<<>>>>, <<>>) >>

MCPkgs == DOMAIN MCAttr

Sound(S) == {L \in SUBSET S : \A p, q \in L : ShortKey(p) = ShortKey(q) => p = q}

DepQ(d) == [q |-> "dep", dep |-> d]
Queries == {
  DepQ(Dep(app)),
  DepQ(Since(lib, one)),
  [q |-> "or", l |-> DepQ(Dep(virt)), r |-> [q |-> "pkg", key |-> ShortKey(2)]],
  [q |-> "and", l |-> [q |-> "not", l |-> [q |-> "field", those |-> {1, 3, 7}]], r |-> DepQ(Dep(lib))],
  [q |-> "or", l |-> [q |-> "arch", arch |-> Source],
   r |-> [q |-> "and", l |-> [q |-> "pkg", key |-> ShortKey(3)], r |-> [q |-> "all"]]] }

Filters ==
  [op : {"filter"}, list : Sound({1, 2, 3, 4, 5}) \cup {{1, 9}, {1, 5, 7}, {1, 2, 5, 8}}, into : {{}}, query : Queries,
   archs : {<<>>, <<2, i386>>}, options : {{}, {"all", "recommends"}, {"source"}}, withDeps : BOOLEAN,
   noRemove : {FALSE}, allMatches : {FALSE}]

Pulls ==
  [op : {"pull"}, list : Sound({1, 4, 5, 8}) \cup {{1, 6} \cup S : S \in SUBSET {4, 5}}, into : {{3}, {3, 8}, {1, 6}},
   query : {DepQ(Dep(app)), DepQ(Dep(virt)), DepQ(Since(lib, one))},
   archs : {<<>>}, options : {{}, {"all"}}, withDeps : BOOLEAN, noRemove : BOOLEAN, allMatches : BOOLEAN]

Verifies ==
  [op : {"verify"}, list : Sound({1, 2, 3, 4, 5, 7}) \cup {{1, 9}}, into : {{}, {5}, {6}}, archs : {<<>>},
   options : {{}, {"all"}, {"recommends", "source"}}]

Searches == [op : {"search"}, list : SUBSET {1, 2, 3, 5, 6, 7}, query : Queries]

Words(chars, n) == UNION {[1 .. k -> chars] : k \in 0 .. n}
Pairs(S) == [op : {"compare"}, a : S, b : S]
\* separators and signs; ~ and letters around numbers; the digits 0, 1 and 9
\* in numbers of up to three digits, MaxInt being 99
Compares ==
  Pairs(Words({Tilde, Dash, Colon, 43, 49, 97}, 2)) \cup Pairs(Words({Tilde, 49, 97}, 3))
  \cup Pairs(Words({48, 49, 57}, 3) \cup Words({49, 57, 97}, 2))

MCCases == Filters \cup Pulls \cup Verifies \cup Searches \cup Compares
=============================================================================
