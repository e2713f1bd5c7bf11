------------------------------ MODULE RefList ------------------------------
(***************************************************************************)
(* The lists of package keys that mirrors, local repositories, snapshots   *)
(* and published repositories are made of (deb/reflist.go): the loops of   *)
(* Merge, FilterLatestRefs and Subtract, one action per branch, and the    *)
(* way the commands chain them.  "snapshot merge" merges two lists and may *)
(* filter the outcome; "db cleanup" subtracts a stored list from the list  *)
(* of all the packages of the database.                                    *)
(*                                                                         *)
(* A key "P<arch> <name> <version> <hash>" is its rank in the order of     *)
(* bytes.Compare, a number.  What the loops read out of a key is given by  *)
(* functions of the rank: its architecture and name (Group), those and its *)
(* version (Short), and the place of its version in the order of           *)
(* CompareVersions (Age), which is not the byte order: "1.10" sorts before *)
(* "1.9".                                                                  *)
(***************************************************************************)
EXTENDS Integers, Sequences

CONSTANTS Refs,        \* the keys, as ranks in byte order
          SortedLists, \* the sorted lists of keys an instance works on
          NoRef,       \* the nil overriddenName and lastName
          Group, Short, Age

ASSUME RefsAssumption == Refs \subseteq Nat /\ NoRef \notin Refs

\* CompareVersions is a total order
ASSUME AgeAssumption == \A x \in Refs : Age[x] \in Nat

Elems(s) == {s[i] : i \in 1..Len(s)}

Sorted(s) == \A i, j \in 1..Len(s) : i < j => s[i] < s[j]

ASSUME ListsAssumption == \A s \in SortedLists : s \in Seq(Refs) /\ Sorted(s)

\* A key begins with the architecture and the name, then the version: the
\* keys of one package, and those of one version of it, are neighbours.
ASSUME KeyOrder ==
  /\ \A x, y \in Refs : Short[x] = Short[y] => Group[x] = Group[y] /\ Age[x] = Age[y]
  /\ \A x, y, z \in Refs :
       x < y /\ y < z =>
         /\ Group[x] = Group[z] => Group[y] = Group[x]
         /\ Short[x] = Short[z] => Short[y] = Short[x]

VARIABLES op,     \* the loop that runs, or the result that is ready
          l, r,   \* the operands of Merge and of Subtract
          il, ir, \* the positions in them; il is also FilterLatestRefs' i
          res,    \* result.Refs, and l.Refs of FilterLatestRefs
          override, ignore,  \* overrideMatching, ignoreConflicting
          over,   \* a key with overriddenArch and overridenName
          last    \* the key that lastArch, lastName and lastVer come from

flags == <<override, ignore>>
vars == <<op, l, r, il, ir, res, override, ignore, over, last>>

\* A list made of a PackageList is sorted and has one key per version of a
\* package: PackageList.Add refuses a second one with another hash.
OneKeyEach(s) == \A i, j \in 1..Len(s) : Short[s[i]] = Short[s[j]] => i = j

OneVersionEach(s) == \A i, j \in 1..Len(s) : Group[s[i]] = Group[s[j]] => i = j

RefLists == {s \in SortedLists : OneKeyEach(s)}

Rest(s, i) == SubSeq(s, i, Len(s))

SameGroup(x, y) == x # NoRef /\ y # NoRef /\ Group[x] = Group[y]

\* "snapshot merge" passes (override, FALSE) and two snapshots; "db cleanup"
\* passes (FALSE, TRUE), what it has gathered so far and one more list.
Init ==
  /\ op = "merge"
  /\ \/ override \in BOOLEAN /\ ignore = FALSE /\ l \in RefLists
     \/ override = FALSE /\ ignore = TRUE /\ l \in SortedLists
  /\ r \in RefLists
  /\ il = 1 /\ ir = 1 /\ res = <<>> /\ over = NoRef /\ last = NoRef

\* Every variable stays in its type: in particular no position runs past the
\* end of its list by more than one, where the loops stop.
TypeOK ==
  /\ op \in {"merge", "merged", "filter", "filtered", "subtract", "cleaned"}
  /\ l \in Seq(Refs) /\ r \in Seq(Refs) /\ res \in Seq(Refs)
  /\ il \in 1..(Len(IF op \in {"filter", "filtered"} THEN res ELSE l) + 1)
  /\ ir \in 1..(Len(r) + 1)
  /\ override \in BOOLEAN /\ ignore \in BOOLEAN
  /\ over \in Refs \cup {NoRef} /\ last \in Refs \cup {NoRef}

----------------------------------------------------------------------------
(* Merge                                                                   *)

\* both lists have a key left; the loop looks at the two
Heads == op = "merge" /\ il <= Len(l) /\ ir <= Len(r)

Take(x, dl, dr, o) ==
  /\ res' = Append(res, x)
  /\ il' = il + dl /\ ir' = ir + dr /\ over' = o
  /\ UNCHANGED <<op, l, r, flags, last>>

\* one of the lists, or both, are exhausted: the rest of the other follows
MergeRest ==
  /\ op = "merge" /\ ~Heads
  /\ res' = res \o (IF il > Len(l) THEN Rest(r, ir) ELSE Rest(l, il))
  /\ op' = "merged"
  /\ UNCHANGED <<l, r, il, ir, flags, over, last>>

MergeEqual == Heads /\ l[il] = r[ir] /\ Take(l[il], 1, 1, NoRef)

\* same architecture, name and version, different hash
Conflict == ~ignore /\ Short[l[il]] = Short[r[ir]]

MergeConflict_KeepsLeft ==
  Heads /\ l[il] # r[ir] /\ Conflict /\ Take(l[il], 1, 1, NoRef)

MergeConflict ==
  Heads /\ l[il] # r[ir] /\ Conflict /\ Take(r[ir], 1, 1, NoRef)

\* the key on the left was already overridden by one from the right
Overridden == override /\ SameGroup(l[il], over)

MergeSkip ==
  /\ Heads /\ l[il] # r[ir] /\ ~Conflict /\ Overridden
  /\ il' = il + 1
  /\ UNCHANGED <<op, l, r, ir, res, flags, over, last>>

Overrides == override /\ SameGroup(l[il], r[ir])

MergeOverride_LeftStays ==
  /\ Heads /\ l[il] # r[ir] /\ ~Conflict /\ ~Overridden /\ Overrides
  /\ Take(r[ir], 0, 1, NoRef)

MergeOverride ==
  /\ Heads /\ l[il] # r[ir] /\ ~Conflict /\ ~Overridden /\ Overrides
  /\ Take(r[ir], 1, 1, l[il])

\* otherwise the smaller of the two
MergeSmaller ==
  /\ Heads /\ l[il] # r[ir] /\ ~Conflict /\ ~Overridden /\ ~Overrides
  /\ IF l[il] < r[ir] THEN Take(l[il], 1, 0, over) ELSE Take(r[ir], 0, 1, NoRef)

\* the result is merged with the list of the next source
MergeNext ==
  /\ op = "merged"
  /\ l' = res /\ r' \in RefLists
  /\ op' = "merge" /\ il' = 1 /\ ir' = 1 /\ res' = <<>> /\ over' = NoRef
  /\ UNCHANGED <<flags, last>>

MergeStep ==
  \/ MergeRest \/ MergeEqual \/ MergeConflict \/ MergeSkip \/ MergeOverride
  \/ MergeSmaller \/ MergeNext

----------------------------------------------------------------------------
(* FilterLatestRefs, for "snapshot merge -latest"                          *)

FilterLatestRefs ==
  /\ op = "merged" /\ ~override /\ ~ignore
  /\ op' = "filter" /\ l' = res /\ il' = 1 /\ last' = NoRef
  /\ UNCHANGED <<r, ir, res, flags, over>>

Without(s, i) == SubSeq(s, 1, i - 1) \o Rest(s, i + 1)

FilterStep_NoCompensation ==
  /\ op = "filter" /\ il <= Len(res)
  /\ il' = il + 1
  /\ IF SameGroup(res[il], last)
     THEN IF Age[res[il]] > Age[last]
          THEN res' = Without(res, il - 1) /\ last' = res[il]
          ELSE res' = Without(res, il) /\ last' = last
     ELSE last' = res[il] /\ res' = res
  /\ UNCHANGED <<op, l, r, ir, flags, over>>

FilterStep_ByteOrder ==
  /\ op = "filter" /\ il <= Len(res)
  /\ IF SameGroup(res[il], last)
     THEN il' = il /\ res' = Without(res, il - 1) /\ last' = res[il]
     ELSE il' = il + 1 /\ last' = res[il] /\ res' = res
  /\ UNCHANGED <<op, l, r, ir, flags, over>>

\* i moves on; when an element goes, "i--" makes up for it
FilterStep ==
  /\ op = "filter" /\ il <= Len(res)
  /\ IF SameGroup(res[il], last)
     THEN /\ il' = il
          /\ IF Age[res[il]] > Age[last]
             THEN res' = Without(res, il - 1) /\ last' = res[il]
             ELSE res' = Without(res, il) /\ last' = last
     ELSE il' = il + 1 /\ last' = res[il] /\ res' = res
  /\ UNCHANGED <<op, l, r, ir, flags, over>>

FilterDone ==
  /\ op = "filter" /\ il > Len(res)
  /\ op' = "filtered" /\ UNCHANGED <<l, r, il, ir, res, flags, over, last>>

----------------------------------------------------------------------------
(* Subtract, for "db cleanup": what no stored list has                     *)

\* The list is merged into an empty one, which leaves it as it is, and taken
\* from the list of all packages, in which every key of it is present.
Subtract ==
  /\ op \in {"merged", "filtered"}
  /\ l' \in SortedLists /\ Elems(res) \subseteq Elems(l')
  /\ r' = res
  /\ op' = "subtract" /\ il' = 1 /\ ir' = 1 /\ res' = <<>>
  /\ UNCHANGED <<flags, over, last>>

SubtractStep ==
  /\ op = "subtract" /\ il <= Len(l) /\ ir <= Len(r)
  /\ IF l[il] = r[ir] THEN il' = il + 1 /\ ir' = ir + 1 /\ res' = res
     ELSE IF l[il] < r[ir] THEN il' = il + 1 /\ ir' = ir /\ res' = Append(res, l[il])
     ELSE il' = il /\ ir' = ir + 1 /\ res' = res
  /\ UNCHANGED <<op, l, r, flags, over, last>>

SubtractRest_Dropped ==
  /\ op = "subtract" /\ (il > Len(l) \/ ir > Len(r))
  /\ res' = res
  /\ op' = "cleaned"
  /\ UNCHANGED <<l, r, il, ir, flags, over, last>>

SubtractRest ==
  /\ op = "subtract" /\ (il > Len(l) \/ ir > Len(r))
  /\ res' = res \o Rest(l, il)
  /\ op' = "cleaned"
  /\ UNCHANGED <<l, r, il, ir, flags, over, last>>

Next ==
  \/ MergeStep
  \/ FilterLatestRefs \/ FilterStep \/ FilterDone
  \/ Subtract \/ SubtractStep \/ SubtractRest

Spec == Init /\ [][Next]_vars

----------------------------------------------------------------------------
(* Properties                                                              *)

\* Without overrideMatching a merge loses nothing but what conflicts.  The
\* result is sorted; with ignoreConflicting (db cleanup) it has exactly the
\* keys of the two lists, otherwise every key of the right one and those of
\* the left one that have no other hash on the right.
MergeKeeps ==
  op = "merged" /\ ~override =>
    /\ Sorted(res)
    /\ Elems(res) = Elems(r) \cup
         {x \in Elems(l) : \A y \in Elems(r) : ~ignore /\ Short[x] = Short[y] => x = y}

\* Merge with overrideMatching of lists that have one version of a package
\* each: the result is sorted, has every key of the right list, and of the
\* left list exactly the packages that the right one does not have.
MergeOverridesOne ==
  op = "merged" /\ override /\ OneVersionEach(l) /\ OneVersionEach(r) =>
    /\ Sorted(res)
    /\ Elems(res) = Elems(r) \cup
         {x \in Elems(l) : \A y \in Elems(r) : Group[x] # Group[y]}

\* FilterLatestRefs leaves one key of every package of the list, and none of
\* the list is newer in the order of CompareVersions.
FilterKeepsLatest ==
  op = "filtered" =>
    /\ Sorted(res) /\ OneVersionEach(res) /\ Elems(res) \subseteq Elems(l)
    /\ \A x \in Elems(l) : \E y \in Elems(res) :
         Group[x] = Group[y] /\ Age[x] <= Age[y]

\* db cleanup takes exactly the packages that the stored list does not have,
\* for every list a command stores without overrideMatching.
CleanupExact ==
  op = "cleaned" /\ ~override => Elems(res) = Elems(l) \ Elems(r)

\* "Database cleanup removes information about unreferenced packages": the
\* packages it deletes are in no stored list.
CleanupSparesReferenced ==
  op = "cleaned" => Elems(res) \cap Elems(r) = {}
=============================================================================
