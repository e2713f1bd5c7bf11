--------------------------- MODULE RefListProofs ---------------------------
EXTENDS RefList, SequenceTheorems, TLAPS

(***************************************************************************)
(* The loops on lists of package keys do what they are for, for lists of   *)
(* any length and any keys: Merge keeps what it has to (MergeKeeps,        *)
(* MergeOverridesOne), FilterLatestRefs leaves the latest (                *)
(* FilterKeepsLatest), db cleanup subtracts exactly (CleanupExact).        *)
(*                                                                         *)
(* The invariants say how far a loop has come: what it has put into the    *)
(* result comes before all it has not looked at, and is what was to be     *)
(* kept of all it has looked at.                                           *)
(***************************************************************************)

\* Keys that Merge takes for the same: those of one package when it is to
\* override, of one version of it, or equal ones when conflicts are ignored.
Class(x) == IF override THEN Group[x] ELSE IF ignore THEN x ELSE Short[x]

\* no two keys of a class
OneEach(s) == \A i, j \in 1..Len(s) : Class(s[i]) = Class(s[j]) => i = j

\* With overrideMatching the keys of one package may come in any order.
Below(x, y) == x < y \/ (override /\ Group[x] = Group[y])

\* a list in the order the loop of Merge relies on
Loose(s) == \A i, j \in 1..Len(s) : i < j => Below(s[i], s[j])

\* The loop does not meet two keys of a class in one list.
Clean == OneEach(l) /\ OneEach(r)

\* a key of the left list that no different key of the right one displaces
Kept(x) == \A y \in Elems(r) : Class(x) = Class(y) => x = y

\* the lists and flags that the loop works on
Operands ==
  /\ Loose(l) /\ Sorted(r)
  /\ ~override => Clean
  /\ ~(override /\ ignore)

\* The keys of s come before those from m on in l and from n on in r, and are
\* of other classes.
Ahead(s, m, n) ==
  \A i \in 1..Len(s) :
    /\ \A j \in m..Len(l) : Below(s[i], l[j]) /\ (Clean => Class(s[i]) # Class(l[j]))
    /\ \A j \in n..Len(r) : Below(s[i], r[j]) /\ (Clean => Class(s[i]) # Class(r[j]))

\* all of s is to be kept
ToKeep(s) == \A i \in 1..Len(s) : s[i] \in Elems(r) \/ (s[i] \in Elems(l) /\ Kept(s[i]))

\* s has what is to be kept of the keys a to m - 1 of l and b to n - 1 of r.
Covers(s, a, b, m, n) ==
  /\ \A j \in b..(n - 1) : r[j] \in Elems(s)
  /\ \A j \in a..(m - 1) : Kept(l[j]) => l[j] \in Elems(s)

\* The invariant of the loop of Merge: the result comes before all that is
\* left, and is what was to be kept of all that was looked at.
Merging ==
  /\ Operands /\ Loose(res) /\ Ahead(res, il, ir)
  /\ over # NoRef => \E k \in 1..(il - 1) : over = l[k]
  /\ Clean => OneEach(res) /\ ToKeep(res) /\ Covers(res, 1, 1, il, ir)

\* The result of Merge: the right list, and what it leaves of the left one.
Merged ==
  /\ Operands /\ Loose(res)
  /\ Clean => OneEach(res) /\ Elems(res) = Elems(r) \cup {x \in Elems(l) : Kept(x)}

\* The first il - 1 keys are of different packages, the last of them is the
\* one the next key is compared with.
Filtering ==
  /\ ~override /\ Sorted(l) /\ Sorted(res) /\ Elems(res) \subseteq Elems(l)
  /\ \A x \in Elems(l) : \E y \in Elems(res) : Group[x] = Group[y] /\ Age[x] <= Age[y]
  /\ \A i, j \in 1..(il - 1) : Group[res[i]] = Group[res[j]] => i = j
  /\ last = IF il = 1 THEN NoRef ELSE res[il - 1]

\* The keys on the right that were gone through come before those left on the
\* left; those on the left that the right does not have are in the result.
Subtracting ==
  ~override =>
    /\ Sorted(l) /\ Sorted(r)
    /\ \A i \in 1..(ir - 1) : \A j \in il..Len(l) : r[i] < l[j]
    /\ \A i \in 1..Len(res) : res[i] \in Elems(l) \ Elems(r)
    /\ \A j \in 1..(il - 1) : l[j] \notin Elems(r) => l[j] \in Elems(res)

\* the inductive invariant
ListInv ==
  /\ TypeOK
  /\ op = "merge" => Merging
  /\ op = "merged" => Merged
  /\ op = "filter" => Filtering
  /\ op = "filtered" => FilterKeepsLatest /\ Sorted(res) /\ ~override
  /\ op = "subtract" => Subtracting
  /\ op = "cleaned" => CleanupExact

----------------------------------------------------------------------------
(* Sequences                                                               *)

\* what Append gives
LEMMA AppendFacts ==
  ASSUME NEW s \in Seq(Refs), NEW x \in Refs
  PROVE  /\ Append(s, x) \in Seq(Refs) /\ Len(Append(s, x)) = Len(s) + 1
         /\ \A i \in 1..Len(s) : Append(s, x)[i] = s[i]
         /\ Append(s, x)[Len(s) + 1] = x
         /\ Elems(Append(s, x)) = Elems(s) \cup {x}
<1>1. /\ Append(s, x) \in Seq(Refs) /\ Len(Append(s, x)) = Len(s) + 1 /\ Len(s) \in Nat
      /\ \A i \in 1..Len(s) : Append(s, x)[i] = s[i]
      /\ Append(s, x)[Len(s) + 1] = x
  BY AppendProperties, LenProperties
<1> DEFINE t == Append(s, x)
<1> HIDE DEF t
<1>2. Len(t) = Len(s) + 1 /\ Len(s) \in Nat /\ (\A i \in 1..Len(s) : t[i] = s[i]) /\ t[Len(s) + 1] = x
  BY <1>1 DEF t
<1>3. Elems(t) = Elems(s) \cup {x}
  <2>1. ASSUME NEW y \in Elems(t) PROVE y \in Elems(s) \cup {x}
    <3>1. PICK i \in 1..Len(t) : y = t[i]
      BY <2>1, Zenon DEF Elems
    <3>2. i \in 1..Len(s) \/ i = Len(s) + 1
      BY <1>2, <3>1
    <3> QED
      BY <1>2, <3>1, <3>2, Zenon DEF Elems
  <2>2. ASSUME NEW y \in Elems(s) PROVE y \in Elems(t)
    <3>1. PICK i \in 1..Len(s) : y = s[i]
      BY <2>2, Zenon DEF Elems
    <3>2. i \in 1..Len(t) /\ t[i] = y
      BY <1>2, <3>1
    <3> QED
      BY <3>2, Zenon DEF Elems
  <2>3. x \in Elems(t)
    <3>1. Len(s) + 1 \in 1..Len(t)
      BY <1>2
    <3> QED
      BY <1>2, <3>1, Zenon DEF Elems
  <2> QED
    BY <2>1, <2>2, <2>3
<1> QED
  BY <1>1, <1>3 DEF t

\* what \o gives
LEMMA ConcatFacts ==
  ASSUME NEW s \in Seq(Refs), NEW t \in Seq(Refs)
  PROVE  /\ s \o t \in Seq(Refs) /\ Len(s \o t) = Len(s) + Len(t)
         /\ \A i \in 1..Len(s) : (s \o t)[i] = s[i]
         /\ \A i \in 1..Len(t) : (s \o t)[Len(s) + i] = t[i]
         /\ Elems(s \o t) = Elems(s) \cup Elems(t)
<1>1. /\ s \o t \in Seq(Refs) /\ Len(s \o t) = Len(s) + Len(t) /\ Len(s) \in Nat /\ Len(t) \in Nat
      /\ \A i \in 1..(Len(s) + Len(t)) : (s \o t)[i] = IF i <= Len(s) THEN s[i] ELSE t[i - Len(s)]
  BY ConcatProperties, LenProperties
<1> DEFINE u == s \o t
<1> HIDE DEF u
<1>2. /\ Len(u) = Len(s) + Len(t) /\ Len(s) \in Nat /\ Len(t) \in Nat
      /\ \A i \in 1..(Len(s) + Len(t)) : u[i] = IF i <= Len(s) THEN s[i] ELSE t[i - Len(s)]
  BY <1>1 DEF u
<1>3. \A i \in 1..Len(s) : u[i] = s[i] /\ i \in 1..Len(u)
  BY <1>2
<1>4. \A i \in 1..Len(t) : u[Len(s) + i] = t[i] /\ Len(s) + i \in 1..Len(u)
  BY <1>2
<1>5. \A i \in 1..Len(u) : i \in 1..Len(s) \/ (i - Len(s) \in 1..Len(t) /\ u[i] = t[i - Len(s)])
  BY <1>2
<1>6. Elems(u) = Elems(s) \cup Elems(t)
  <2>1. ASSUME NEW y \in Elems(u) PROVE y \in Elems(s) \cup Elems(t)
    <3>1. PICK i \in 1..Len(u) : y = u[i]
      BY <2>1, Zenon DEF Elems
    <3> QED
      BY <1>3, <1>5, <3>1, Zenon DEF Elems
  <2>2. ASSUME NEW y \in Elems(s) PROVE y \in Elems(u)
    BY <1>3, <2>2, Zenon DEF Elems
  <2>3. ASSUME NEW y \in Elems(t) PROVE y \in Elems(u)
    BY <1>4, <2>3, Zenon DEF Elems
  <2> QED
    BY <2>1, <2>2, <2>3
<1> QED
  BY <1>1, <1>3, <1>4, <1>6 DEF u

\* the rest of a list
LEMMA RestFacts ==
  ASSUME NEW s \in Seq(Refs), NEW n \in 1..(Len(s) + 1)
  PROVE  /\ Rest(s, n) \in Seq(Refs) /\ Len(Rest(s, n)) = Len(s) - n + 1
         /\ \A i \in 1..Len(Rest(s, n)) : Rest(s, n)[i] = s[n + i - 1] /\ n + i - 1 \in n..Len(s)
         /\ \A j \in n..Len(s) : s[j] \in Elems(Rest(s, n))
         /\ \A x \in Elems(Rest(s, n)) : \E j \in n..Len(s) : x = s[j]
<1>0. Len(s) \in Nat /\ \A i \in 1..Len(s) : s[i] \in Refs
  BY LenProperties, ElementOfSeq
<1>1. n \in Int /\ Len(s) \in Int /\ \A i \in n..Len(s) : s[i] \in Refs
  BY <1>0
<1>2. /\ Rest(s, n) \in Seq(Refs) /\ Len(Rest(s, n)) = IF n <= Len(s) THEN Len(s) - n + 1 ELSE 0
      /\ \A i \in 1..(Len(s) - n + 1) : Rest(s, n)[i] = s[n + i - 1]
  BY <1>1, SubSeqProperties DEF Rest
<1> DEFINE u == Rest(s, n)
<1> HIDE DEF u
<1>3. Len(u) = Len(s) - n + 1 /\ \A i \in 1..(Len(s) - n + 1) : u[i] = s[n + i - 1]
  BY <1>0, <1>2 DEF u
<1>4. \A i \in 1..Len(u) : u[i] = s[n + i - 1] /\ n + i - 1 \in n..Len(s)
  BY <1>0, <1>3
<1>5. ASSUME NEW j \in n..Len(s) PROVE s[j] \in Elems(u)
  <2>1. j - n + 1 \in 1..Len(u) /\ u[j - n + 1] = s[j]
    BY <1>0, <1>3
  <2> QED
    BY <2>1, Zenon DEF Elems
<1>6. \A x \in Elems(u) : \E j \in n..Len(s) : x = s[j]
  BY <1>4, Zenon DEF Elems
<1> QED
  BY <1>2, <1>3, <1>4, <1>5, <1>6, Zenon DEF u

\* a list without one of its elements
LEMMA WithoutFacts ==
  ASSUME NEW s \in Seq(Refs), NEW n \in 1..Len(s)
  PROVE  /\ Without(s, n) \in Seq(Refs) /\ Len(Without(s, n)) = Len(s) - 1
         /\ \A i \in 1..(n - 1) : Without(s, n)[i] = s[i]
         /\ \A i \in n..(Len(s) - 1) : Without(s, n)[i] = s[i + 1]
<1>0. Len(s) \in Nat /\ \A i \in 1..Len(s) : s[i] \in Refs
  BY LenProperties, ElementOfSeq
<1>1. 1 \in Int /\ n - 1 \in Int /\ \A i \in 1..(n - 1) : s[i] \in Refs
  BY <1>0
<1> DEFINE u == SubSeq(s, 1, n - 1)
           v == Rest(s, n + 1)
<1>2. /\ u \in Seq(Refs) /\ Len(u) = IF 1 <= n - 1 THEN n - 1 - 1 + 1 ELSE 0
      /\ \A i \in 1..(n - 1 - 1 + 1) : u[i] = s[1 + i - 1]
  BY <1>1, SubSeqProperties
<1>3. n + 1 \in 1..(Len(s) + 1)
  BY <1>0
<1>4. /\ v \in Seq(Refs) /\ Len(v) = Len(s) - (n + 1) + 1
      /\ \A i \in 1..Len(v) : v[i] = s[n + 1 + i - 1]
  BY <1>3, RestFacts, Zenon
<1> HIDE DEF u, v
<1>5. u \in Seq(Refs) /\ Len(u) = n - 1 /\ \A i \in 1..(n - 1) : u[i] = s[i]
  BY <1>0, <1>2
<1>6. /\ u \o v \in Seq(Refs) /\ Len(u \o v) = Len(u) + Len(v)
      /\ \A i \in 1..Len(u) : (u \o v)[i] = u[i]
      /\ \A i \in 1..Len(v) : (u \o v)[Len(u) + i] = v[i]
  BY <1>4, <1>5, ConcatFacts, Zenon
<1> DEFINE w == u \o v
<1> HIDE DEF w
<1>7. Len(w) = Len(s) - 1 /\ \A i \in 1..(n - 1) : w[i] = s[i]
  BY <1>0, <1>4, <1>5, <1>6 DEF w
<1>8. ASSUME NEW i \in n..(Len(s) - 1) PROVE w[i] = s[i + 1]
  <2>1. i - n + 1 \in 1..Len(v) /\ Len(u) + (i - n + 1) = i
    BY <1>0, <1>4, <1>5
  <2>2. w[i] = v[i - n + 1]
    BY <1>6, <2>1 DEF w
  <2>3. v[i - n + 1] = s[i + 1]
    BY <1>0, <1>4, <2>1
  <2> QED
    BY <2>2, <2>3
<1>9. Without(s, n) = w
  BY DEF Without, u, v, w
<1> QED
  BY <1>6, <1>7, <1>8, <1>9 DEF w

----------------------------------------------------------------------------
(* Merge                                                                   *)

\* keys of a class are neighbours
LEMMA ClassOrder ==
  ASSUME NEW x \in Refs, NEW y \in Refs, NEW z \in Refs, x < y, y < z, Class(x) = Class(z)
  PROVE  Class(y) = Class(x)
<1>0. x \in Nat /\ y \in Nat /\ z \in Nat /\ x # z
  BY RefsAssumption
<1>1. CASE override
  BY <1>1, KeyOrder, Zenon DEF Class
<1>2. CASE ~override /\ ignore
  BY <1>0, <1>2, Zenon DEF Class
<1>3. CASE ~override /\ ~ignore
  BY <1>3, KeyOrder, Zenon DEF Class
<1> QED
  BY <1>1, <1>2, <1>3, Zenon

\* the order of a merge is transitive
LEMMA BelowTransitive ==
  ASSUME NEW x \in Refs, NEW y \in Refs, NEW z \in Refs, Below(x, y), Below(y, z)
  PROVE  Below(x, z)
<1>0. x \in Nat /\ y \in Nat /\ z \in Nat
  BY RefsAssumption
<1>1. CASE ~override
  BY <1>0, <1>1 DEF Below
<1>2. CASE override
  <2>1. x < y \/ Group[x] = Group[y]
    BY Zenon DEF Below
  <2>2. y < z \/ Group[y] = Group[z]
    BY Zenon DEF Below
  <2>3. x < z \/ Group[x] = Group[z]
    <3>1. x < z \/ x = z \/ z < x
      BY <1>0
    <3>2. CASE z < x
      <4>1. CASE x < y
        <5>1. Group[y] = Group[z]
          BY <1>0, <2>2, <3>2, <4>1
        <5> QED
          BY <3>2, <4>1, <5>1, KeyOrder
      <4>2. CASE Group[x] = Group[y]
        BY <2>2, <3>2, <4>2, KeyOrder
      <4> QED
        BY <2>1, <4>1, <4>2, Zenon
    <3> QED
      BY <3>1, <3>2, Zenon
  <2> QED
    BY <1>2, <2>3, Zenon DEF Below
<1> QED
  BY <1>1, <1>2, Zenon

\* what comes after a key of a class comes after all of the class
LEMMA BelowClass ==
  ASSUME NEW x \in Refs, NEW y \in Refs, NEW z \in Refs,
         Class(x) = Class(y), Below(y, z), Class(y) # Class(z)
  PROVE  Below(x, z)
<1>0. x \in Nat /\ y \in Nat /\ z \in Nat
  BY RefsAssumption
<1>1. y < z
  BY Zenon DEF Below, Class
<1>2. x # z /\ ~(z < x)
  BY <1>1, ClassOrder, Zenon
<1>3. x < z
  BY <1>0, <1>2
<1> QED
  BY <1>3, Zenon DEF Below

\* a list in the loose order that has one key of a class is sorted
LEMMA LooseSorted ==
  ASSUME NEW s \in Seq(Refs), Loose(s), override => OneEach(s)
  PROVE  Sorted(s)
<1> SUFFICES ASSUME NEW i \in 1..Len(s), NEW j \in 1..Len(s), i < j
             PROVE  s[i] < s[j]
  BY Zenon DEF Sorted
<1>1. Below(s[i], s[j])
  BY Zenon DEF Loose
<1>2. i # j
  OBVIOUS
<1>3. override => Group[s[i]] # Group[s[j]]
  BY <1>2, Zenon DEF OneEach, Class
<1> QED
  BY <1>1, <1>3, Zenon DEF Below

\* a sorted list is in that order
LEMMA SortedLoose ==
  ASSUME NEW s, Sorted(s)
  PROVE  Loose(s)
  BY Zenon DEF Sorted, Loose, Below

\* what t may be when a step of the loop puts it behind the result and goes on
\* at m and n
Chosen(t, m, n) ==
  /\ m \in il..(Len(l) + 1) /\ n \in ir..(Len(r) + 1)
  /\ \A k \in 1..Len(t) : \/ \E j \in il..Len(l) : t[k] = l[j]
                          \/ \E j \in ir..Len(r) : t[k] = r[j]
  /\ Loose(t) /\ Ahead(t, m, n)
  /\ Clean => OneEach(t) /\ ToKeep(t) /\ Covers(t, il, ir, m, n)

\* a step that puts such a t behind the result keeps the invariant of the loop
LEMMA Extended ==
  ASSUME TypeOK, Merging, NEW t \in Seq(Refs), NEW m, NEW n, Chosen(t, m, n)
  PROVE  /\ Loose(res \o t) /\ Ahead(res \o t, m, n)
         /\ Clean => OneEach(res \o t) /\ ToKeep(res \o t) /\ Covers(res \o t, 1, 1, m, n)
<1> DEFINE u == res \o t
<1>0. /\ res \in Seq(Refs) /\ Len(res) \in Nat /\ Len(t) \in Nat /\ il \in Nat /\ ir \in Nat
      /\ Len(l) \in Nat /\ Len(r) \in Nat /\ il > 0 /\ ir > 0
  <2>1. /\ res \in Seq(Refs) /\ l \in Seq(Refs) /\ r \in Seq(Refs) /\ ir \in 1..(Len(r) + 1)
        /\ il \in 1..(Len(l) + 1) \/ il \in 1..(Len(res) + 1)
    BY Zenon DEF TypeOK
  <2> QED
    BY <2>1, LenProperties
<1>1. /\ Len(u) = Len(res) + Len(t) /\ Elems(u) = Elems(res) \cup Elems(t)
      /\ \A i \in 1..Len(res) : u[i] = res[i]
      /\ \A i \in 1..Len(t) : u[Len(res) + i] = t[i]
  BY <1>0, ConcatFacts, Zenon
<1> HIDE DEF u
<1>2. m \in il..(Len(l) + 1) /\ n \in ir..(Len(r) + 1)
  BY Zenon DEF Chosen
<1>3. ASSUME NEW i \in 1..Len(u)
      PROVE  \/ i \in 1..Len(res) /\ u[i] = res[i]
             \/ \E k \in 1..Len(t) : i = Len(res) + k /\ u[i] = t[k]
  <2>1. i \in 1..Len(res) \/ i - Len(res) \in 1..Len(t)
    BY <1>0, <1>1
  <2>2. i = Len(res) + (i - Len(res))
    BY <1>0
  <2> QED
    BY <1>1, <2>1, <2>2, Zenon
<1>4. ASSUME NEW i \in 1..Len(res), NEW k \in 1..Len(t)
      PROVE  Below(res[i], t[k]) /\ (Clean => Class(res[i]) # Class(t[k]))
  BY Zenon DEF Chosen, Merging, Ahead
<1>5. Loose(u)
  <2> SUFFICES ASSUME NEW i \in 1..Len(u), NEW j \in 1..Len(u), i < j
               PROVE  Below(u[i], u[j])
    BY Zenon DEF Loose
  <2>1. CASE j \in 1..Len(res)
    <3>1. i \in 1..Len(res)
      BY <1>0, <2>1
    <3> QED
      BY <1>1, <2>1, <3>1, Zenon DEF Merging, Loose
  <2>2. ASSUME NEW k \in 1..Len(t), j = Len(res) + k, u[j] = t[k]
        PROVE  Below(u[i], u[j])
    <3>1. CASE i \in 1..Len(res)
      BY <1>1, <1>4, <2>2, <3>1, Zenon
    <3>2. ASSUME NEW h \in 1..Len(t), i = Len(res) + h, u[i] = t[h]
          PROVE  Below(u[i], u[j])
      <4>1. h < k
        BY <1>0, <2>2, <3>2
      <4> QED
        BY <2>2, <3>2, <4>1, Zenon DEF Chosen, Loose
    <3> QED
      BY <1>3, <3>1, <3>2, Zenon
  <2> QED
    BY <1>3, <2>1, <2>2, Zenon
<1>6. Ahead(u, m, n)
  <2>1. \A j \in m..Len(l) : j \in il..Len(l)
    BY <1>0, <1>2
  <2>2. \A j \in n..Len(r) : j \in ir..Len(r)
    BY <1>0, <1>2
  <2>3. ASSUME NEW i \in 1..Len(u), i \in 1..Len(res), u[i] = res[i]
        PROVE  /\ \A j \in m..Len(l) : Below(u[i], l[j]) /\ (Clean => Class(u[i]) # Class(l[j]))
               /\ \A j \in n..Len(r) : Below(u[i], r[j]) /\ (Clean => Class(u[i]) # Class(r[j]))
    BY <2>1, <2>2, <2>3, Zenon DEF Merging, Ahead
  <2>4. ASSUME NEW i \in 1..Len(u), NEW k \in 1..Len(t), u[i] = t[k]
        PROVE  /\ \A j \in m..Len(l) : Below(u[i], l[j]) /\ (Clean => Class(u[i]) # Class(l[j]))
               /\ \A j \in n..Len(r) : Below(u[i], r[j]) /\ (Clean => Class(u[i]) # Class(r[j]))
    BY <2>4, Zenon DEF Chosen, Ahead
  <2> QED
    BY <1>3, <2>3, <2>4, Zenon DEF Ahead
<1>7. ASSUME Clean PROVE OneEach(u)
  <2> SUFFICES ASSUME NEW i \in 1..Len(u), NEW j \in 1..Len(u), Class(u[i]) = Class(u[j])
               PROVE  i = j
    BY Zenon DEF OneEach
  <2>1. CASE i \in 1..Len(res) /\ j \in 1..Len(res)
    BY <1>1, <1>7, <2>1, Zenon DEF Merging, OneEach
  <2>2. ASSUME NEW k \in 1..Len(t), u[j] = t[k], i \in 1..Len(res)
        PROVE  FALSE
    BY <1>1, <1>4, <1>7, <2>2, Zenon
  <2>3. ASSUME NEW k \in 1..Len(t), u[i] = t[k], j \in 1..Len(res)
        PROVE  FALSE
    BY <1>1, <1>4, <1>7, <2>3, Zenon
  <2>4. ASSUME NEW h \in 1..Len(t), NEW k \in 1..Len(t), i = Len(res) + h, j = Len(res) + k,
               u[i] = t[h], u[j] = t[k]
        PROVE  i = j
    BY <1>7, <2>4, Zenon DEF Chosen, OneEach
  <2> QED
    BY <1>3, <2>1, <2>2, <2>3, <2>4, Zenon
<1>8. ASSUME Clean PROVE ToKeep(u)
  BY <1>3, <1>8, Zenon DEF Merging, Chosen, ToKeep
<1>9. ASSUME Clean PROVE Covers(u, 1, 1, m, n)
  <2>1. \A j \in 1..(n - 1) : j \in 1..(ir - 1) \/ j \in ir..(n - 1)
    BY <1>0, <1>2
  <2>2. \A j \in 1..(m - 1) : j \in 1..(il - 1) \/ j \in il..(m - 1)
    BY <1>0, <1>2
  <2>3. \A j \in 1..(n - 1) : r[j] \in Elems(u)
    BY <1>1, <1>9, <2>1, Zenon DEF Merging, Chosen, Covers
  <2>4. \A j \in 1..(m - 1) : Kept(l[j]) => l[j] \in Elems(u)
    BY <1>1, <1>9, <2>2, Zenon DEF Merging, Chosen, Covers
  <2> QED
    BY <2>3, <2>4, Zenon DEF Covers
<1> QED
  BY <1>5, <1>6, <1>7, <1>8, <1>9, Zenon DEF u

\* both lists have a key left
LEMMA HeadFacts ==
  ASSUME TypeOK, Heads
  PROVE  /\ l \in Seq(Refs) /\ r \in Seq(Refs) /\ res \in Seq(Refs)
         /\ il \in 1..Len(l) /\ ir \in 1..Len(r) /\ il \in Nat /\ ir \in Nat
         /\ Len(l) \in Nat /\ Len(r) \in Nat
         /\ l[il] \in Refs /\ r[ir] \in Refs /\ l[il] \in Elems(l) /\ r[ir] \in Elems(r)
         /\ \A j \in 1..Len(l) : l[j] \in Refs
         /\ \A j \in 1..Len(r) : r[j] \in Refs
<1>1. /\ l \in Seq(Refs) /\ r \in Seq(Refs) /\ res \in Seq(Refs) /\ ir \in 1..(Len(r) + 1)
      /\ op \in {"filter", "filtered"} \/ il \in 1..(Len(l) + 1)
  BY Zenon DEF TypeOK
<1>2. op = "merge" /\ il <= Len(l) /\ ir <= Len(r)
  BY Zenon DEF Heads
<1>3. il \in 1..(Len(l) + 1)
  BY <1>1, <1>2
<1>4. Len(l) \in Nat /\ Len(r) \in Nat
  BY <1>1, LenProperties
<1>5. il \in 1..Len(l) /\ ir \in 1..Len(r) /\ il \in Nat /\ ir \in Nat
  BY <1>1, <1>2, <1>3, <1>4
<1>6. (\A j \in 1..Len(l) : l[j] \in Refs) /\ (\A j \in 1..Len(r) : r[j] \in Refs)
  BY <1>1, ElementOfSeq
<1>7. l[il] \in Elems(l) /\ r[ir] \in Elems(r)
  BY <1>5, Zenon DEF Elems
<1> QED
  BY <1>1, <1>4, <1>5, <1>6, <1>7, Zenon

\* a step takes one of the two keys
LEMMA ChosenOne ==
  ASSUME TypeOK, Heads, NEW x \in Refs, x = l[il] \/ x = r[ir],
         NEW m, NEW n, m = il \/ m = il + 1, n = ir \/ n = ir + 1,
         \A j \in m..Len(l) : Below(x, l[j]) /\ (Clean => Class(x) # Class(l[j])),
         \A j \in n..Len(r) : Below(x, r[j]) /\ (Clean => Class(x) # Class(r[j])),
         Clean => /\ x \in Elems(r) \/ (x \in Elems(l) /\ Kept(x))
                  /\ n = ir + 1 => x = r[ir]
                  /\ m = il + 1 /\ Kept(l[il]) => x = l[il]
  PROVE  Chosen(<<x>>, m, n) /\ <<x>> \in Seq(Refs)
<1> DEFINE t == <<x>>
<1>1. t \in Seq(Refs) /\ Len(t) = 1 /\ t[1] = x
  OBVIOUS
<1> HIDE DEF t
<1>2. \A k \in 1..Len(t) : k = 1 /\ t[k] = x
  BY <1>1
<1>3. Elems(t) = {x}
  <2>1. 1 \in 1..Len(t)
    BY <1>1
  <2> QED
    BY <1>1, <1>2, <2>1 DEF Elems
<1>4. /\ il \in 1..Len(l) /\ ir \in 1..Len(r) /\ il \in Nat /\ ir \in Nat
      /\ Len(l) \in Nat /\ Len(r) \in Nat
  BY HeadFacts, Zenon
<1>5. m \in il..(Len(l) + 1) /\ n \in ir..(Len(r) + 1) /\ il \in il..Len(l) /\ ir \in ir..Len(r)
  BY <1>4
<1>6. Loose(t)
  <2>1. \A i, j \in 1..Len(t) : ~(i < j)
    BY <1>1
  <2> QED
    BY <2>1, Zenon DEF Loose
<1>7. Ahead(t, m, n)
  BY <1>2, Zenon DEF Ahead
<1>8. OneEach(t) /\ (Clean => ToKeep(t))
  BY <1>2, Zenon DEF OneEach, ToKeep
<1>9. Clean => Covers(t, il, ir, m, n)
  <2>1. \A j \in ir..(n - 1) : j = ir /\ n = ir + 1
    BY <1>4
  <2>2. \A j \in il..(m - 1) : j = il /\ m = il + 1
    BY <1>4
  <2> QED
    BY <1>3, <2>1, <2>2 DEF Covers
<1>10. \A k \in 1..Len(t) : \/ \E j \in il..Len(l) : t[k] = l[j]
                            \/ \E j \in ir..Len(r) : t[k] = r[j]
  BY <1>2, <1>5, Zenon
<1> QED
  BY <1>1, <1>5, <1>6, <1>7, <1>8, <1>9, <1>10, Zenon DEF Chosen, t

\* what comes after the two keys in their lists
LEMMA After ==
  ASSUME TypeOK, Heads, Operands
  PROVE  /\ \A j \in (il + 1)..Len(l) :
              /\ j \in 1..Len(l) /\ Below(l[il], l[j]) /\ (Clean => Class(l[il]) # Class(l[j]))
         /\ \A j \in (ir + 1)..Len(r) :
              /\ j \in 1..Len(r) /\ Below(r[ir], r[j]) /\ r[ir] < r[j]
              /\ (Clean => Class(r[ir]) # Class(r[j]))
         /\ \A j \in il..Len(l) : j = il \/ j \in (il + 1)..Len(l)
         /\ \A j \in ir..Len(r) : j = ir \/ j \in (ir + 1)..Len(r)
<1>1. /\ il \in 1..Len(l) /\ ir \in 1..Len(r) /\ il \in Nat /\ ir \in Nat
      /\ Len(l) \in Nat /\ Len(r) \in Nat
  BY HeadFacts, Zenon
<1>2. \A j \in (il + 1)..Len(l) : j \in 1..Len(l) /\ il < j /\ il # j
  BY <1>1
<1>3. \A j \in (ir + 1)..Len(r) : j \in 1..Len(r) /\ ir < j /\ ir # j
  BY <1>1
<1>4. (\A j \in il..Len(l) : j = il \/ j \in (il + 1)..Len(l))
      /\ \A j \in ir..Len(r) : j = ir \/ j \in (ir + 1)..Len(r)
  BY <1>1
<1>5. \A j \in (il + 1)..Len(l) : Below(l[il], l[j]) /\ (Clean => Class(l[il]) # Class(l[j]))
  BY <1>1, <1>2, Zenon DEF Operands, Loose, Clean, OneEach
<1>6. \A j \in (ir + 1)..Len(r) : r[ir] < r[j] /\ (Clean => Class(r[ir]) # Class(r[j]))
  BY <1>1, <1>3, Zenon DEF Operands, Sorted, Clean, OneEach
<1> QED
  BY <1>2, <1>3, <1>4, <1>5, <1>6, Zenon DEF Below

\* MergeEqual, MergeConflict, MergeOverride: the key on the right is taken for
\* both
LEMMA ChosenForBoth ==
  ASSUME TypeOK, Heads, Operands, Class(l[il]) = Class(r[ir])
  PROVE  Chosen(<<r[ir]>>, il + 1, ir + 1) /\ <<r[ir]>> \in Seq(Refs)
<1> DEFINE x == r[ir]
<1>1. /\ x \in Refs /\ l[il] \in Refs /\ x \in Elems(r) /\ \A j \in 1..Len(l) : l[j] \in Refs
  BY HeadFacts, Zenon
<1>2. /\ \A j \in (il + 1)..Len(l) :
           /\ j \in 1..Len(l) /\ Below(l[il], l[j]) /\ (Clean => Class(l[il]) # Class(l[j]))
      /\ \A j \in (ir + 1)..Len(r) : Below(x, r[j]) /\ (Clean => Class(x) # Class(r[j]))
  BY After, Zenon
<1>3. ASSUME NEW j \in (il + 1)..Len(l)
      PROVE  Below(x, l[j]) /\ (Clean => Class(x) # Class(l[j]))
  <2>1. l[j] \in Refs /\ Below(l[il], l[j]) /\ (Clean => Class(l[il]) # Class(l[j]))
    BY <1>1, <1>2, Zenon
  <2>2. CASE Class(l[il]) # Class(l[j])
    BY <1>1, <2>1, <2>2, BelowClass, Zenon
  <2>3. CASE Class(l[il]) = Class(l[j])
    BY <2>1, <2>3, Zenon DEF Below, Class, Operands
  <2> QED
    BY <2>1, <2>2, <2>3, Zenon
<1>4. Kept(l[il]) => x = l[il]
  BY <1>1, Zenon DEF Kept
<1> QED
  BY <1>1, <1>2, <1>3, <1>4, ChosenOne, Zenon

\* MergeSmaller takes the key on the left: the right list has no other of its
\* class, neither among the keys that were gone through nor among the others
LEMMA ChosenLeft ==
  ASSUME TypeOK, Heads, Merging, Class(l[il]) # Class(r[ir]), l[il] < r[ir]
  PROVE  Chosen(<<l[il]>>, il + 1, ir) /\ <<l[il]>> \in Seq(Refs)
<1> DEFINE x == l[il]
<1>0. Operands /\ Ahead(res, il, ir) /\ (Clean => Covers(res, 1, 1, il, ir))
  BY Zenon DEF Merging
<1>1. /\ x \in Refs /\ r[ir] \in Refs /\ x \in Elems(l) /\ (\A j \in 1..Len(r) : r[j] \in Refs)
      /\ il \in 1..Len(l) /\ ir \in 1..Len(r) /\ il \in Nat /\ ir \in Nat
      /\ Len(l) \in Nat /\ Len(r) \in Nat
  BY HeadFacts, Zenon
<1>2. /\ \A j \in (il + 1)..Len(l) : Below(x, l[j]) /\ (Clean => Class(x) # Class(l[j]))
      /\ \A j \in (ir + 1)..Len(r) : j \in 1..Len(r) /\ r[ir] < r[j]
      /\ \A j \in ir..Len(r) : j = ir \/ j \in (ir + 1)..Len(r)
  BY <1>0, After, Zenon
<1>3. ASSUME NEW j \in ir..Len(r)
      PROVE  Below(x, r[j]) /\ Class(x) # Class(r[j])
  <2>1. CASE j = ir
    BY <2>1, Zenon DEF Below
  <2>2. CASE j \in (ir + 1)..Len(r)
    <3>1. r[j] \in Refs /\ r[ir] < r[j]
      BY <1>1, <1>2, <2>2, Zenon
    <3>2. Class(x) # Class(r[j])
      BY <1>1, <3>1, ClassOrder, Zenon
    <3>3. x < r[j]
      <4>1. x \in Nat /\ r[ir] \in Nat /\ r[j] \in Nat /\ x < r[ir] /\ r[ir] < r[j]
        BY <1>1, <3>1, RefsAssumption, Zenon
      <4> HIDE DEF x
      <4> QED
        BY <4>1
    <3> QED
      BY <3>2, <3>3, Zenon DEF Below
  <2> QED
    BY <1>2, <2>1, <2>2, Zenon
<1>4. ASSUME Clean PROVE Kept(x)
  <2> SUFFICES ASSUME NEW j \in 1..Len(r) PROVE Class(x) # Class(r[j])
    BY Zenon DEF Kept, Elems
  <2>1. CASE j \in 1..(ir - 1)
    <3>1. r[j] \in Elems(res)
      BY <1>0, <1>4, <2>1, Zenon DEF Covers
    <3>2. PICK i \in 1..Len(res) : r[j] = res[i]
      BY <3>1, Zenon DEF Elems
    <3>3. il \in il..Len(l)
      BY <1>1
    <3> QED
      BY <1>0, <1>4, <3>2, <3>3, Zenon DEF Ahead
  <2>2. j \in 1..(ir - 1) \/ j \in ir..Len(r)
    BY <1>1
  <2> QED
    BY <1>3, <2>1, <2>2, Zenon
<1>5. ir # ir + 1
  BY <1>1
<1> QED
  BY <1>1, <1>2, <1>3, <1>4, <1>5, ChosenOne, Zenon

\* MergeSmaller takes the key on the right
LEMMA ChosenRight ==
  ASSUME TypeOK, Heads, Operands, Class(l[il]) # Class(r[ir]), r[ir] < l[il]
  PROVE  Chosen(<<r[ir]>>, il, ir + 1) /\ <<r[ir]>> \in Seq(Refs)
<1> DEFINE x == r[ir]
<1>1. /\ x \in Refs /\ l[il] \in Refs /\ x \in Elems(r) /\ (\A j \in 1..Len(l) : l[j] \in Refs)
      /\ il \in Nat
  BY HeadFacts, Zenon
<1>2. /\ \A j \in (ir + 1)..Len(r) : Below(x, r[j]) /\ (Clean => Class(x) # Class(r[j]))
      /\ \A j \in (il + 1)..Len(l) :
           /\ j \in 1..Len(l) /\ Below(l[il], l[j]) /\ (Clean => Class(l[il]) # Class(l[j]))
      /\ \A j \in il..Len(l) : j = il \/ j \in (il + 1)..Len(l)
  BY After, Zenon
<1>3. ASSUME NEW j \in il..Len(l)
      PROVE  Below(x, l[j]) /\ (Clean => Class(x) # Class(l[j]))
  <2>1. CASE j = il
    BY <2>1, Zenon DEF Below
  <2>2. CASE j \in (il + 1)..Len(l)
    <3>1. l[j] \in Refs /\ Below(l[il], l[j]) /\ (Clean => Class(l[il]) # Class(l[j]))
      BY <1>1, <1>2, <2>2, Zenon
    <3>2. Below(x, l[il])
      BY Zenon DEF Below
    <3>3. Below(x, l[j])
      BY <1>1, <3>1, <3>2, BelowTransitive, Zenon
    <3>4. ASSUME Clean PROVE Class(x) # Class(l[j])
      <4>1. l[il] < l[j]
        BY <3>1, <3>4, Zenon DEF Below, Class
      <4> QED
        BY <1>1, <3>1, <3>4, <4>1, ClassOrder, Zenon
    <3> QED
      BY <3>3, <3>4, Zenon
  <2> QED
    BY <1>2, <2>1, <2>2, Zenon
<1>4. il # il + 1
  BY <1>1
<1> QED
  BY <1>1, <1>2, <1>3, <1>4, ChosenOne, Zenon

\* the branches of the loop go by the classes of the two keys
LEMMA Branches ==
  ASSUME TypeOK, Heads
  PROVE  /\ Conflict => Class(l[il]) = Class(r[ir])
         /\ Overrides => Class(l[il]) = Class(r[ir])
         /\ l[il] # r[ir] /\ ~Conflict /\ ~Overrides => Class(l[il]) # Class(r[ir])
<1>1. l[il] \in Refs /\ r[ir] \in Refs
  BY HeadFacts, Zenon
<1>2. l[il] # NoRef /\ r[ir] # NoRef
  BY <1>1, RefsAssumption, Zenon
<1>3. Short[l[il]] = Short[r[ir]] => Group[l[il]] = Group[r[ir]]
  BY <1>1, KeyOrder, Zenon
<1> QED
  BY <1>2, <1>3, Zenon DEF Conflict, Overrides, SameGroup, Class

\* the invariant of the next state, in terms of the lists of this one
LEMMA MergingNext ==
  ASSUME UNCHANGED <<l, r, flags>>, Operands, Loose(res'), Ahead(res', il', ir'),
         over' # NoRef => \E k \in 1..(il' - 1) : over' = l[k],
         Clean => OneEach(res') /\ ToKeep(res') /\ Covers(res', 1, 1, il', ir')
  PROVE  Merging'
<1>1. l' = l /\ r' = r /\ override' = override /\ ignore' = ignore
  BY Zenon DEF flags
<1>3. Clean' <=> Clean
  BY <1>1, Zenon DEF Clean, OneEach, Class
<1>2. Operands'
  <2>1. Loose(l)' /\ Sorted(r)'
    BY <1>1 DEF Operands, Loose, Below, Sorted
  <2> QED
    BY <1>1, <1>3, <2>1, Zenon DEF Operands
<1>4. Loose(res)' /\ (Clean => OneEach(res)')
  BY <1>1, Zenon DEF Loose, Below, OneEach, Class
<1>5. Ahead(res, il, ir)'
  BY <1>1, <1>3, SMTT(30) DEF Ahead, Below, Class
<1>6. Clean => ToKeep(res)' /\ Covers(res, 1, 1, il, ir)'
  BY <1>1, Zenon DEF ToKeep, Covers, Kept, Class
<1> QED
  BY <1>1, <1>2, <1>3, <1>4, <1>5, <1>6, Zenon DEF Merging

\* a step of the loop keeps the types
LEMMA TakeTypes ==
  ASSUME TypeOK, Heads, NEW x \in Refs, NEW dl \in {0, 1}, NEW dr \in {0, 1},
         NEW o \in Refs \cup {NoRef}, Take(x, dl, dr, o)
  PROVE  TypeOK'
<1>1. /\ l \in Seq(Refs) /\ r \in Seq(Refs) /\ res \in Seq(Refs)
      /\ il \in 1..Len(l) /\ ir \in 1..Len(r) /\ Len(l) \in Nat /\ Len(r) \in Nat
  BY HeadFacts, Zenon
<1>2. /\ res' = Append(res, x) /\ il' = il + dl /\ ir' = ir + dr /\ over' = o
      /\ op' = op /\ l' = l /\ r' = r /\ override' = override /\ ignore' = ignore /\ last' = last
  BY Zenon DEF Take, flags
<1>3. il' \in 1..(Len(l') + 1) /\ ir' \in 1..(Len(r') + 1)
  BY <1>1, <1>2
<1>4. res' \in Seq(Refs)
  BY <1>1, <1>2, AppendFacts, Zenon
<1>5. op' = "merge" /\ op' \notin {"filter", "filtered"}
  BY <1>2 DEF Heads
<1> QED
  BY <1>1, <1>2, <1>3, <1>4, <1>5, Zenon DEF TypeOK

\* a step of Merge that takes a key
LEMMA TakeMerging ==
  ASSUME TypeOK, Heads, Merging, NEW x \in Refs, NEW dl \in {0, 1}, NEW dr \in {0, 1},
         NEW o \in Refs \cup {NoRef}, Take(x, dl, dr, o), <<x>> \in Seq(Refs),
         Chosen(<<x>>, il + dl, ir + dr),
         o # NoRef => \E k \in 1..((il + dl) - 1) : o = l[k]
  PROVE  ListInv'
<1>1. /\ res' = Append(res, x) /\ il' = il + dl /\ ir' = ir + dr /\ over' = o
      /\ op' = op /\ UNCHANGED <<l, r, flags>>
  BY Zenon DEF Take
<1>2. res' = res \o <<x>>
  BY <1>1, AppendIsConcat, Zenon DEF TypeOK
<1>3. /\ Loose(res') /\ Ahead(res', il', ir')
      /\ Clean => OneEach(res') /\ ToKeep(res') /\ Covers(res', 1, 1, il', ir')
  BY <1>1, <1>2, Extended, Zenon
<1>4. Operands /\ (over' # NoRef => \E k \in 1..(il' - 1) : over' = l[k])
  <2>1. Operands
    BY Zenon DEF Merging
  <2>2. il' - 1 = (il + dl) - 1 /\ over' = o
    BY <1>1, Zenon
  <2> QED
    BY <2>1, <2>2, Zenon
<1>5. Merging'
  BY <1>1, <1>3, <1>4, MergingNext, Zenon
<1>6. TypeOK'
  BY TakeTypes, Zenon
<1>7. op' = "merge"
  BY <1>1, Zenon DEF Heads
<1> QED
  BY <1>5, <1>6, <1>7 DEF ListInv

\* the steps of the loop of Merge keep the invariant
LEMMA MergeTakes ==
  ASSUME ListInv, MergeEqual \/ MergeConflict \/ MergeOverride \/ MergeSmaller
  PROVE  ListInv'
<1>0. Heads /\ TypeOK
  BY Zenon DEF MergeEqual, MergeConflict, MergeOverride, MergeSmaller, ListInv
<1>1. Merging /\ Operands
  BY <1>0, Zenon DEF Heads, ListInv, Merging
<1>2. /\ l[il] \in Refs /\ r[ir] \in Refs /\ il \in Nat /\ il > 0 /\ ir \in Nat
  BY <1>0, HeadFacts
<1>3. CASE MergeEqual
  <2>1. l[il] = r[ir] /\ Take(r[ir], 1, 1, NoRef)
    BY <1>3, Zenon DEF MergeEqual
  <2>2. Chosen(<<r[ir]>>, il + 1, ir + 1) /\ <<r[ir]>> \in Seq(Refs)
    BY <1>0, <1>1, <2>1, ChosenForBoth, Zenon
  <2> QED
    BY <1>0, <1>1, <1>2, <2>1, <2>2, TakeMerging, Zenon
<1>4. CASE MergeConflict
  <2>1. Conflict /\ Take(r[ir], 1, 1, NoRef)
    BY <1>4, Zenon DEF MergeConflict
  <2>2. Chosen(<<r[ir]>>, il + 1, ir + 1) /\ <<r[ir]>> \in Seq(Refs)
    BY <1>0, <1>1, <2>1, Branches, ChosenForBoth, Zenon
  <2> QED
    BY <1>0, <1>1, <1>2, <2>1, <2>2, TakeMerging, Zenon
<1>5. CASE MergeOverride
  <2>1. Overrides /\ Take(r[ir], 1, 1, l[il])
    BY <1>5, Zenon DEF MergeOverride
  <2>2. Chosen(<<r[ir]>>, il + 1, ir + 1) /\ <<r[ir]>> \in Seq(Refs)
    BY <1>0, <1>1, <2>1, Branches, ChosenForBoth, Zenon
  <2>3. il \in 1..((il + 1) - 1)
    BY <1>2
  <2> QED
    BY <1>0, <1>1, <1>2, <2>1, <2>2, <2>3, TakeMerging, Zenon
<1>6. CASE MergeSmaller
  <2>1. Class(l[il]) # Class(r[ir])
    BY <1>0, <1>6, Branches, Zenon DEF MergeSmaller
  <2>2. CASE l[il] < r[ir]
    <3>1. Take(l[il], 1, 0, over)
      BY <1>6, <2>2, Zenon DEF MergeSmaller
    <3>2. Chosen(<<l[il]>>, il + 1, ir) /\ <<l[il]>> \in Seq(Refs)
      BY <1>0, <1>1, <2>1, <2>2, ChosenLeft, Zenon
    <3>3. ir + 0 = ir /\ \A k \in 1..(il - 1) : k \in 1..((il + 1) - 1)
      BY <1>2
    <3>4. over \in Refs \cup {NoRef} /\ (over # NoRef => \E k \in 1..((il + 1) - 1) : over = l[k])
      BY <1>0, <1>1, <3>3, Zenon DEF TypeOK, Merging
    <3> QED
      BY <1>0, <1>1, <1>2, <3>1, <3>2, <3>3, <3>4, TakeMerging, Zenon
  <2>3. CASE ~(l[il] < r[ir])
    <3>1. Take(r[ir], 0, 1, NoRef) /\ l[il] # r[ir]
      BY <1>6, <2>3, Zenon DEF MergeSmaller
    <3>2. r[ir] < l[il]
      <4>1. l[il] \in Nat /\ r[ir] \in Nat
        BY <1>2, RefsAssumption, Zenon
      <4> QED
        BY <2>3, <3>1, <4>1
    <3>3. Chosen(<<r[ir]>>, il, ir + 1) /\ <<r[ir]>> \in Seq(Refs)
      BY <1>0, <1>1, <2>1, <3>2, ChosenRight, Zenon
    <3>4. il + 0 = il
      BY <1>2
    <3> QED
      BY <1>0, <1>1, <1>2, <3>1, <3>3, <3>4, TakeMerging, Zenon
  <2> QED
    BY <2>2, <2>3, Zenon
<1> QED
  BY <1>3, <1>4, <1>5, <1>6, Zenon

\* A key that was overridden is skipped only when its list has another one of
\* the same package.
LEMMA MergeSkips ==
  ASSUME ListInv, MergeSkip
  PROVE  ListInv'
<1>0. Heads /\ TypeOK /\ Overridden
  BY Zenon DEF MergeSkip, ListInv
<1>1. Merging /\ Operands /\ Ahead(res, il, ir) /\ Loose(res)
  BY <1>0, Zenon DEF Heads, ListInv, Merging
<1>2. /\ l \in Seq(Refs) /\ r \in Seq(Refs) /\ res \in Seq(Refs)
      /\ il \in 1..Len(l) /\ ir \in 1..Len(r) /\ il \in Nat /\ Len(l) \in Nat /\ Len(r) \in Nat
  BY <1>0, HeadFacts, Zenon
<1>3. /\ il' = il + 1 /\ ir' = ir /\ res' = res /\ over' = over /\ op' = op /\ last' = last
      /\ l' = l /\ r' = r /\ override' = override /\ ignore' = ignore /\ UNCHANGED <<l, r, flags>>
  BY Zenon DEF MergeSkip, flags
<1>4. op' = "merge" /\ op' \notin {"filter", "filtered"}
  BY <1>0, <1>3 DEF Heads
<1>5. TypeOK'
  <2>1. il' \in 1..(Len(l') + 1) /\ ir' \in 1..(Len(r') + 1)
    BY <1>2, <1>3
  <2> QED
    BY <1>0, <1>2, <1>3, <1>4, <2>1, Zenon DEF TypeOK
<1>6. over # NoRef /\ override /\ Group[l[il]] = Group[over]
  BY <1>0, Zenon DEF Overridden, SameGroup
<1>7. PICK k \in 1..(il - 1) : over = l[k]
  BY <1>1, <1>6, Zenon DEF Merging
<1>8. k \in 1..Len(l) /\ k # il /\ k \in 1..(il' - 1)
  BY <1>2, <1>3, <1>7
<1>9. ~Clean
  BY <1>2, <1>6, <1>7, <1>8, Zenon DEF Clean, OneEach, Class
<1>10. \A j \in il'..Len(l) : j \in il..Len(l)
  BY <1>2, <1>3
<1>11. Ahead(res', il', ir')
  BY <1>1, <1>3, <1>10, Zenon DEF Ahead
<1>12. over' # NoRef => \E i \in 1..(il' - 1) : over' = l[i]
  BY <1>3, <1>7, <1>8, Zenon
<1>13. Merging'
  BY <1>1, <1>3, <1>9, <1>11, <1>12, MergingNext, Zenon
<1> QED
  BY <1>4, <1>5, <1>13 DEF ListInv

\* the operands stay, and what they are
LEMMA SameOperands ==
  ASSUME UNCHANGED <<l, r, flags>>, Operands
  PROVE  Operands' /\ (Clean' <=> Clean)
<1>1. l' = l /\ r' = r /\ override' = override /\ ignore' = ignore
  BY Zenon DEF flags
<1>2. Clean' <=> Clean
  BY <1>1, Zenon DEF Clean, OneEach, Class
<1>3. Loose(l)' /\ Sorted(r)'
  BY <1>1 DEF Operands, Loose, Below, Sorted
<1> QED
  BY <1>1, <1>2, <1>3, Zenon DEF Operands

\* the end of a list is in order, as the list is
LEMMA RestOf ==
  ASSUME NEW s \in Seq(Refs), NEW n \in 1..(Len(s) + 1), Loose(s), NEW t, t = Rest(s, n)
  PROVE  /\ t \in Seq(Refs) /\ Loose(t) /\ (OneEach(s) => OneEach(t))
         /\ \A i \in 1..Len(t) : \E j \in n..Len(s) : t[i] = s[j]
         /\ \A j \in n..Len(s) : s[j] \in Elems(t)
<1>1. /\ t \in Seq(Refs)
      /\ \A i \in 1..Len(t) : t[i] = s[n + i - 1] /\ n + i - 1 \in n..Len(s)
      /\ \A j \in n..Len(s) : s[j] \in Elems(t)
  BY RestFacts, Zenon
<1>2. Len(t) \in Nat /\ n \in Nat /\ n > 0 /\ Len(s) \in Nat
  BY <1>1, LenProperties
<1>3. ASSUME NEW i \in 1..Len(t), NEW j \in 1..Len(t)
      PROVE  /\ n + i - 1 \in 1..Len(s) /\ n + j - 1 \in 1..Len(s)
             /\ i < j => n + i - 1 < n + j - 1
             /\ n + i - 1 = n + j - 1 => i = j
  BY <1>1, <1>2
<1>4. Loose(t)
  <2> SUFFICES ASSUME NEW i \in 1..Len(t), NEW j \in 1..Len(t), i < j
               PROVE  Below(t[i], t[j])
    BY Zenon DEF Loose
  <2> HIDE DEF Below
  <2>1. Below(s[n + i - 1], s[n + j - 1])
    BY <1>3, Zenon DEF Loose
  <2> QED
    BY <1>1, <2>1, Zenon
<1>5. ASSUME OneEach(s) PROVE OneEach(t)
  <2> SUFFICES ASSUME NEW i \in 1..Len(t), NEW j \in 1..Len(t), Class(t[i]) = Class(t[j])
               PROVE  i = j
    BY Zenon DEF OneEach
  <2>1. Class(s[n + i - 1]) = Class(s[n + j - 1])
    BY <1>1, Zenon
  <2>2. n + i - 1 = n + j - 1
    BY <1>3, <1>5, <2>1, Zenon DEF OneEach
  <2> QED
    BY <1>3, <2>2, Zenon
<1> QED
  BY <1>1, <1>4, <1>5, Zenon

\* what the loop has not looked at follows the result
LEMMA ChosenRest ==
  ASSUME TypeOK, op = "merge", Merging, ~Heads,
         NEW t, t = IF il > Len(l) THEN Rest(r, ir) ELSE Rest(l, il)
  PROVE  t \in Seq(Refs) /\ Chosen(t, Len(l) + 1, Len(r) + 1)
<1>1. /\ l \in Seq(Refs) /\ r \in Seq(Refs) /\ il \in 1..(Len(l) + 1) /\ ir \in 1..(Len(r) + 1)
      /\ res \in Seq(Refs) /\ (il <= Len(l) => ir > Len(r))
  <2>1. op \notin {"filter", "filtered"}
    OBVIOUS
  <2>2. ~(il <= Len(l) /\ ir <= Len(r))
    BY Zenon DEF Heads
  <2>3. ir \in Int /\ Len(r) \in Int
    BY LenProperties DEF TypeOK
  <2> QED
    BY <2>1, <2>2, <2>3 DEF TypeOK
<1>2. Len(l) \in Nat /\ Len(r) \in Nat /\ il \in Nat /\ ir \in Nat /\ il > 0 /\ ir > 0
  BY <1>1, LenProperties
<1>3. /\ Loose(l) /\ Sorted(r) /\ Ahead(res, il, ir) /\ (Clean => Covers(res, 1, 1, il, ir))
  BY Zenon DEF Merging, Operands
<1>4. Loose(r)
  BY <1>3, SortedLoose, Zenon
<1>5. ASSUME NEW s \in Seq(Refs), NEW n \in 1..(Len(s) + 1), Loose(s), t = Rest(s, n)
      PROVE  /\ t \in Seq(Refs) /\ Loose(t) /\ (OneEach(s) => OneEach(t))
             /\ \A i \in 1..Len(t) : \E j \in n..Len(s) : t[i] = s[j]
             /\ \A j \in n..Len(s) : s[j] \in Elems(t)
  BY <1>5, RestOf, ZenonT(30)
<1>6. Ahead(t, Len(l) + 1, Len(r) + 1)
  <2>1. (Len(l) + 1)..Len(l) = {} /\ (Len(r) + 1)..Len(r) = {}
    BY <1>2
  <2> QED
    BY <2>1, Zenon DEF Ahead
<1>7. Len(l) + 1 \in il..(Len(l) + 1) /\ Len(r) + 1 \in ir..(Len(r) + 1)
  BY <1>1, <1>2
<1>8. (Len(l) + 1) - 1 = Len(l) /\ (Len(r) + 1) - 1 = Len(r)
  BY <1>2
<1>9. (\A j \in il..Len(l) : j \in 1..Len(l)) /\ (\A j \in ir..Len(r) : j \in 1..Len(r))
  BY <1>2
<1>10. CASE il > Len(l)
  <2>1. t = Rest(r, ir)
    BY <1>10, Zenon
  <2>2. /\ t \in Seq(Refs) /\ Loose(t) /\ (OneEach(r) => OneEach(t))
        /\ \A i \in 1..Len(t) : \E j \in ir..Len(r) : t[i] = r[j]
        /\ \A j \in ir..Len(r) : r[j] \in Elems(t)
    BY <1>1, <1>4, <1>5, <2>1, Zenon
  <2>3. il..Len(l) = {}
    BY <1>2, <1>10
  <2>4. ToKeep(t)
    BY <1>9, <2>2, Zenon DEF ToKeep, Elems
  <2>5. Covers(t, il, ir, Len(l) + 1, Len(r) + 1)
    BY <1>8, <2>2, <2>3, Zenon DEF Covers
  <2> QED
    BY <1>6, <1>7, <2>2, <2>4, <2>5, Zenon DEF Chosen, Clean
<1>11. CASE ~(il > Len(l))
  <2>1. t = Rest(l, il)
    BY <1>11, Zenon
  <2>2. /\ t \in Seq(Refs) /\ Loose(t) /\ (OneEach(l) => OneEach(t))
        /\ \A i \in 1..Len(t) : \E j \in il..Len(l) : t[i] = l[j]
        /\ \A j \in il..Len(l) : l[j] \in Elems(t)
    BY <1>1, <1>3, <1>5, <2>1, Zenon
  <2>3. ir..Len(r) = {} /\ \A i \in 1..Len(r) : i \in 1..(ir - 1)
    <3>1. il <= Len(l)
      BY <1>2, <1>11
    <3>2. ir > Len(r)
      BY <1>1, <3>1, Zenon
    <3> QED
      BY <1>2, <3>2
  <2>4. Clean => \A j \in il..Len(l) : Kept(l[j])
    <3> SUFFICES ASSUME Clean, NEW j \in il..Len(l), NEW i \in 1..Len(r)
                 PROVE  Class(l[j]) # Class(r[i])
      BY Zenon DEF Kept, Elems
    <3>1. r[i] \in Elems(res)
      BY <1>3, <2>3, Zenon DEF Covers
    <3>2. PICK k \in 1..Len(res) : r[i] = res[k]
      BY <3>1, Zenon DEF Elems
    <3> QED
      BY <1>3, <3>2, Zenon DEF Ahead
  <2>5. Clean => ToKeep(t)
    BY <1>9, <2>2, <2>4, Zenon DEF ToKeep, Elems
  <2>6. Covers(t, il, ir, Len(l) + 1, Len(r) + 1)
    BY <1>8, <2>2, <2>3, Zenon DEF Covers
  <2> QED
    BY <1>6, <1>7, <2>2, <2>5, <2>6, Zenon DEF Chosen, Clean
<1> QED
  BY <1>10, <1>11, Zenon

\* the rest of one list is appended
LEMMA MergeRests ==
  ASSUME ListInv, MergeRest
  PROVE  ListInv'
<1>1. /\ TypeOK /\ op = "merge" /\ ~Heads /\ Merging /\ Operands
  BY Zenon DEF MergeRest, ListInv, Merging
<1> DEFINE t == IF il > Len(l) THEN Rest(r, ir) ELSE Rest(l, il)
<1>2. /\ res' = res \o t /\ op' = "merged" /\ il' = il /\ ir' = ir /\ over' = over /\ last' = last
      /\ l' = l /\ r' = r /\ override' = override /\ ignore' = ignore /\ UNCHANGED <<l, r, flags>>
  BY Zenon DEF MergeRest, flags
<1> HIDE DEF t
<1>3. t \in Seq(Refs) /\ Chosen(t, Len(l) + 1, Len(r) + 1)
  BY <1>1, ChosenRest, Zenon DEF t
<1>4. /\ Loose(res') /\ (Clean => OneEach(res') /\ ToKeep(res')
                                  /\ Covers(res', 1, 1, Len(l) + 1, Len(r) + 1))
  BY <1>1, <1>2, <1>3, Extended, Zenon
<1>5. l \in Seq(Refs) /\ r \in Seq(Refs) /\ res \in Seq(Refs)
  BY <1>1, Zenon DEF TypeOK
<1>6. (Len(l) + 1) - 1 = Len(l) /\ (Len(r) + 1) - 1 = Len(r)
  BY <1>5, LenProperties
<1>7. Clean => Elems(res') = Elems(r) \cup {x \in Elems(l) : Kept(x)}
  <2> SUFFICES ASSUME Clean PROVE Elems(res') = Elems(r) \cup {x \in Elems(l) : Kept(x)}
    BY Zenon
  <2>1. ASSUME NEW x \in Elems(res') PROVE x \in Elems(r) \cup {y \in Elems(l) : Kept(y)}
    BY <1>4, <2>1, Zenon DEF ToKeep, Elems
  <2>2. ASSUME NEW x \in Elems(r) PROVE x \in Elems(res')
    BY <1>4, <1>6, <2>2, Zenon DEF Covers, Elems
  <2>3. ASSUME NEW x \in Elems(l), Kept(x) PROVE x \in Elems(res')
    BY <1>4, <1>6, <2>3, Zenon DEF Covers, Elems
  <2> QED
    BY <2>1, <2>2, <2>3, Zenon
<1>8. Operands' /\ (Clean' <=> Clean)
  BY <1>1, <1>2, SameOperands, Zenon
<1>9. Loose(res)' /\ (Clean => OneEach(res)')
  <2>1. override' = override /\ ignore' = ignore
    BY <1>2, Zenon
  <2> QED
    BY <1>4, <2>1, Zenon DEF Loose, Below, OneEach, Class
<1>10. {x \in Elems(l) : Kept(x)}' = {x \in Elems(l) : Kept(x)}
  <2>1. Elems(l)' = Elems(l) /\ Elems(r)' = Elems(r)
    BY <1>2, Zenon DEF Elems
  <2> QED
    BY <1>2, <2>1 DEF Kept, Class
<1>11. Clean => Elems(res)' = Elems(r)' \cup {x \in Elems(l) : Kept(x)}'
  BY <1>2, <1>7, <1>10, Zenon DEF Elems
<1>12. Merged'
  BY <1>8, <1>9, <1>11, Zenon DEF Merged
<1>13. TypeOK'
  <2>1. op' \notin {"filter", "filtered"} /\ op \notin {"filter", "filtered"}
    BY <1>1, <1>2
  <2>2. res' \in Seq(Refs)
    BY <1>2, <1>3, <1>5, ConcatFacts, Zenon
  <2> QED
    BY <1>1, <1>2, <2>1, <2>2, Zenon DEF TypeOK
<1> QED
  BY <1>2, <1>12, <1>13 DEF ListInv

\* the lists a merge starts with
MergeStart ==
  /\ op = "merge" /\ il = 1 /\ ir = 1 /\ res = <<>> /\ over = NoRef
  /\ l \in Seq(Refs) /\ Loose(l) /\ (~override => OneEach(l)) /\ r \in RefLists
  /\ override \in BOOLEAN /\ ignore \in BOOLEAN /\ ~(override /\ ignore)
  /\ last \in Refs \cup {NoRef}

\* the invariant holds when Merge begins
LEMMA MergeStarts == MergeStart => ListInv
<1> SUFFICES ASSUME MergeStart PROVE ListInv
  BY Zenon
<1>0. /\ op = "merge" /\ il = 1 /\ ir = 1 /\ res = <<>> /\ over = NoRef
      /\ l \in Seq(Refs) /\ Loose(l) /\ (~override => OneEach(l)) /\ r \in RefLists
      /\ override \in BOOLEAN /\ ignore \in BOOLEAN /\ ~(override /\ ignore)
      /\ last \in Refs \cup {NoRef}
  BY Zenon DEF MergeStart
<1>1. r \in Seq(Refs) /\ Sorted(r) /\ OneKeyEach(r)
  BY <1>0, ListsAssumption, Zenon DEF RefLists
<1>2. Len(l) \in Nat /\ Len(r) \in Nat /\ Len(res) = 0 /\ res \in Seq(Refs)
  BY <1>0, <1>1, LenProperties
<1>3. TypeOK
  <2>1. op \notin {"filter", "filtered"}
    BY <1>0
  <2>2. il \in 1..(Len(l) + 1) /\ ir \in 1..(Len(r) + 1)
    BY <1>0, <1>2
  <2> QED
    BY <1>0, <1>1, <1>2, <2>1, <2>2, Zenon DEF TypeOK
<1>4. ~override => OneEach(r)
  <2> SUFFICES ASSUME ~override, NEW i \in 1..Len(r), NEW j \in 1..Len(r),
                      Class(r[i]) = Class(r[j])
               PROVE  i = j
    BY Zenon DEF OneEach
  <2>1. CASE ~ignore
    BY <1>1, <2>1, Zenon DEF OneKeyEach, Class
  <2>2. CASE ignore
    <3>1. r[i] = r[j]
      BY <2>2, Zenon DEF Class
    <3>2. Short[r[i]] = Short[r[j]]
      BY <3>1, Zenon
    <3> QED
      BY <1>1, <3>2, Zenon DEF OneKeyEach
  <2> QED
    BY <2>1, <2>2, Zenon
<1>5. Operands
  BY <1>0, <1>1, <1>4, Zenon DEF Operands, Clean
<1>6. 1..Len(res) = {} /\ 1..(il - 1) = {} /\ 1..(ir - 1) = {}
  BY <1>0, <1>2
<1>7. Loose(res) /\ OneEach(res) /\ ToKeep(res) /\ Ahead(res, il, ir)
  BY <1>6, Zenon DEF Loose, OneEach, ToKeep, Ahead
<1>8. Covers(res, 1, 1, il, ir)
  BY <1>6, Zenon DEF Covers
<1>9. Merging
  BY <1>0, <1>5, <1>7, <1>8, Zenon DEF Merging
<1> QED
  BY <1>0, <1>3, <1>9 DEF ListInv

\* the same of the state after a step
LEMMA MergeStartsNext == MergeStart' => ListInv'
  BY MergeStarts, PTL

\* it holds at first
LEMMA InitList ==
  ASSUME Init PROVE ListInv
<1>1. /\ op = "merge" /\ r \in RefLists /\ il = 1 /\ ir = 1 /\ res = <<>> /\ over = NoRef
      /\ last = NoRef /\ l \in SortedLists
      /\ override \in BOOLEAN /\ ignore \in BOOLEAN /\ ~(override /\ ignore)
      /\ ~ignore => l \in RefLists
  BY Zenon DEF Init, RefLists
<1>2. l \in Seq(Refs) /\ Sorted(l)
  BY <1>1, ListsAssumption, Zenon
<1>3. ~override => OneEach(l)
  <2> SUFFICES ASSUME ~override, NEW i \in 1..Len(l), NEW j \in 1..Len(l),
                      Class(l[i]) = Class(l[j])
               PROVE  i = j
    BY Zenon DEF OneEach
  <2>1. CASE ~ignore
    BY <1>1, <2>1, Zenon DEF RefLists, OneKeyEach, Class
  <2>2. CASE ignore
    <3>1. l[i] = l[j]
      BY <2>2, Zenon DEF Class
    <3>2. l[i] \in Nat /\ i \in Int /\ j \in Int
      <4>1. l[i] \in Refs
        BY <1>2, ElementOfSeq, Zenon
      <4>2. l[i] \in Nat
        BY <4>1, RefsAssumption, Zenon
      <4> QED
        BY <4>2
    <3>3. ~(i < j) /\ ~(j < i)
      BY <1>2, <3>1, <3>2 DEF Sorted
    <3> QED
      BY <3>2, <3>3
  <2> QED
    BY <2>1, <2>2, Zenon
<1>4. Loose(l)
  BY <1>2, SortedLoose, Zenon
<1> QED
  BY <1>1, <1>2, <1>3, <1>4, MergeStarts, Zenon DEF MergeStart

\* the result is merged with another list
LEMMA MergeNexts ==
  ASSUME ListInv, MergeNext
  PROVE  ListInv'
<1>1. TypeOK /\ Merged /\ op = "merged"
  BY Zenon DEF MergeNext, ListInv
<1>2. /\ l' = res /\ r' \in RefLists /\ op' = "merge" /\ il' = 1 /\ ir' = 1 /\ res' = <<>>
      /\ over' = NoRef /\ override' = override /\ ignore' = ignore /\ last' = last
  BY Zenon DEF MergeNext, flags
<1>3. Loose(res) /\ (~override => OneEach(res)) /\ ~(override /\ ignore)
  BY <1>1, Zenon DEF Merged, Operands
<1>4. override' = override /\ ignore' = ignore /\ l' = res
  BY <1>2, Zenon
<1>5. Loose(l)' /\ (~override => OneEach(l)')
  BY <1>3, <1>4, Zenon DEF Loose, Below, OneEach, Class
<1>6. RefLists' = RefLists
  BY Zenon DEF RefLists, OneKeyEach
<1>7. MergeStart'
  BY <1>1, <1>2, <1>3, <1>5, <1>6, Zenon DEF MergeStart, TypeOK
<1> QED
  BY <1>7, MergeStartsNext, Zenon

\* Merge does what MergeKeeps and MergeOverridesOne say.
LEMMA MergedProperties ==
  ASSUME ListInv
  PROVE  MergeKeeps /\ MergeOverridesOne
<1>0. TypeOK /\ (op = "merged" => Merged)
  BY Zenon DEF ListInv
<1>1. res \in Seq(Refs) /\ l \in Seq(Refs) /\ r \in Seq(Refs)
  BY <1>0, Zenon DEF TypeOK
<1>2. ASSUME op = "merged", ~override
      PROVE  /\ Sorted(res)
             /\ Elems(res) = Elems(r) \cup
                  {x \in Elems(l) : \A y \in Elems(r) : ~ignore /\ Short[x] = Short[y] => x = y}
  <2>1. Loose(res) /\ Clean /\ Elems(res) = Elems(r) \cup {x \in Elems(l) : Kept(x)}
    BY <1>0, <1>2, Zenon DEF Merged, Operands
  <2>2. Sorted(res)
    BY <1>1, <1>2, <2>1, LooseSorted, Zenon
  <2>3. ASSUME NEW x PROVE Kept(x) <=> \A y \in Elems(r) : ~ignore /\ Short[x] = Short[y] => x = y
    BY <1>2, Zenon DEF Kept, Class
  <2>4. {x \in Elems(l) : Kept(x)} =
          {x \in Elems(l) : \A y \in Elems(r) : ~ignore /\ Short[x] = Short[y] => x = y}
    BY <2>3, Zenon
  <2> QED
    BY <2>1, <2>2, <2>4, Zenon
<1>3. ASSUME op = "merged", override, OneVersionEach(l), OneVersionEach(r)
      PROVE  /\ Sorted(res)
             /\ Elems(res) = Elems(r) \cup
                  {x \in Elems(l) : \A y \in Elems(r) : Group[x] # Group[y]}
  <2>1. Clean
    BY <1>3, Zenon DEF Clean, OneEach, OneVersionEach, Class
  <2>2. Loose(res) /\ OneEach(res) /\ Elems(res) = Elems(r) \cup {x \in Elems(l) : Kept(x)}
    BY <1>0, <1>3, <2>1, Zenon DEF Merged
  <2>3. Sorted(res)
    BY <1>1, <2>2, LooseSorted, Zenon
  <2>4. ASSUME NEW x, Kept(x), ~\A y \in Elems(r) : Group[x] # Group[y]
        PROVE  x \in Elems(r)
    BY <1>3, <2>4, Zenon DEF Kept, Class
  <2>5. ASSUME NEW x, \A y \in Elems(r) : Group[x] # Group[y] PROVE Kept(x)
    BY <1>3, <2>5, Zenon DEF Kept, Class
  <2>6. Elems(r) \cup {x \in Elems(l) : Kept(x)} =
          Elems(r) \cup {x \in Elems(l) : \A y \in Elems(r) : Group[x] # Group[y]}
    BY <2>4, <2>5, Zenon
  <2> QED
    BY <2>2, <2>3, <2>6, Zenon
<1> QED
  BY <1>2, <1>3, Zenon DEF MergeKeeps, MergeOverridesOne

----------------------------------------------------------------------------
(* FilterLatestRefs                                                        *)

\* what a list loses when a key is cut out of it
LEMMA WithoutKeeps ==
  ASSUME NEW s \in Seq(Refs), NEW n \in 1..Len(s), Sorted(s), NEW t, t = Without(s, n)
  PROVE  /\ Sorted(t) /\ Elems(t) \subseteq Elems(s)
         /\ \A k \in 1..Len(s) : k # n => s[k] \in Elems(t)
<1>1. /\ Len(t) = Len(s) - 1 /\ Len(s) \in Nat
      /\ \A i \in 1..(n - 1) : t[i] = s[i]
      /\ \A i \in n..(Len(s) - 1) : t[i] = s[i + 1]
  BY WithoutFacts, LenProperties, Zenon
<1> DEFINE at(i) == IF i < n THEN i ELSE i + 1
<1>2. ASSUME NEW i \in 1..Len(t) PROVE at(i) \in 1..Len(s) /\ t[i] = s[at(i)]
  <2>1. CASE i < n
    <3>1. i \in 1..(n - 1) /\ at(i) = i /\ i \in 1..Len(s)
      BY <1>1, <2>1
    <3> QED
      BY <1>1, <3>1, Zenon
  <2>2. CASE ~(i < n)
    <3>1. i \in n..(Len(s) - 1) /\ at(i) = i + 1 /\ i + 1 \in 1..Len(s)
      BY <1>1, <2>2
    <3> QED
      BY <1>1, <3>1, Zenon
  <2> QED
    BY <2>1, <2>2, Zenon
<1>3. \A i, j \in 1..Len(t) : i < j => at(i) < at(j)
  BY <1>1
<1>4. ASSUME NEW k \in 1..Len(s), k # n PROVE \E i \in 1..Len(t) : at(i) = k
  <2>1. CASE k < n
    <3>1. k \in 1..Len(t) /\ at(k) = k
      BY <1>1, <2>1
    <3> QED
      BY <3>1, Zenon
  <2>2. CASE ~(k < n)
    <3>1. k - 1 \in 1..Len(t) /\ at(k - 1) = k
      BY <1>1, <1>4, <2>2
    <3> QED
      BY <3>1, Zenon
  <2> QED
    BY <2>1, <2>2, Zenon
<1> HIDE DEF at
<1>5. Sorted(t)
  <2> SUFFICES ASSUME NEW i \in 1..Len(t), NEW j \in 1..Len(t), i < j PROVE t[i] < t[j]
    BY Zenon DEF Sorted
  <2>1. s[at(i)] < s[at(j)]
    BY <1>2, <1>3, Zenon DEF Sorted
  <2> QED
    BY <1>2, <2>1, Zenon
<1>6. ASSUME NEW x \in Elems(t) PROVE x \in Elems(s)
  <2>1. PICK i \in 1..Len(t) : x = t[i]
    BY <1>6, Zenon DEF Elems
  <2> QED
    BY <1>2, <2>1, Zenon DEF Elems
<1>7. ASSUME NEW k \in 1..Len(s), k # n PROVE s[k] \in Elems(t)
  <2>1. PICK i \in 1..Len(t) : at(i) = k
    BY <1>4, <1>7, Zenon
  <2> QED
    BY <1>2, <2>1, Zenon DEF Elems
<1> QED
  BY <1>5, <1>6, <1>7, Zenon

\* of two keys of one package the older one goes
LEMMA FilterDrops ==
  ASSUME TypeOK, Filtering, NEW n \in 1..Len(res), NEW k \in 1..Len(res), k # n,
         Group[res[k]] = Group[res[n]], Age[res[n]] <= Age[res[k]],
         NEW s, s = Without(res, n)
  PROVE  /\ Sorted(s) /\ Elems(s) \subseteq Elems(l)
         /\ \A x \in Elems(l) : \E y \in Elems(s) : Group[x] = Group[y] /\ Age[x] <= Age[y]
<1>0. res \in Seq(Refs) /\ l \in Seq(Refs)
  BY Zenon DEF TypeOK
<1>1. /\ Sorted(s) /\ Elems(s) \subseteq Elems(res)
      /\ \A i \in 1..Len(res) : i # n => res[i] \in Elems(s)
  BY <1>0, WithoutKeeps, ZenonT(30) DEF Filtering
<1>2. ASSUME NEW x \in Elems(l)
      PROVE  \E y \in Elems(s) : Group[x] = Group[y] /\ Age[x] <= Age[y]
  <2>0. PICK z \in Elems(res) : Group[x] = Group[z] /\ Age[x] <= Age[z]
    BY <1>2, Zenon DEF Filtering
  <2>1. PICK i \in 1..Len(res) : z = res[i] /\ Group[x] = Group[res[i]] /\ Age[x] <= Age[res[i]]
    BY <2>0, Zenon DEF Elems
  <2>2. CASE i # n
    BY <1>1, <2>1, <2>2, Zenon
  <2>3. CASE i = n
    <3>1. x \in Refs /\ res[n] \in Refs /\ res[k] \in Refs
      BY <1>0, <1>2, ElementOfSeq, Zenon DEF Elems
    <3>2. Age[x] \in Nat /\ Age[res[n]] \in Nat /\ Age[res[k]] \in Nat
      BY <3>1, AgeAssumption, Zenon
    <3>3. Age[x] <= Age[res[n]]
      BY <2>1, <2>3, Zenon
    <3>4. Age[x] <= Age[res[k]]
      BY <3>2, <3>3, SMTT(30)
    <3>5. Group[x] = Group[res[k]]
      BY <2>1, <2>3, Zenon
    <3> QED
      BY <1>1, <3>4, <3>5, Zenon
  <2> QED
    BY <2>2, <2>3, Zenon
<1>3. Elems(res) \subseteq Elems(l)
  BY Zenon DEF Filtering
<1> QED
  BY <1>1, <1>2, <1>3, Zenon

\* FilterLatestRefs begins
LEMMA FilterStarts ==
  ASSUME ListInv, FilterLatestRefs
  PROVE  ListInv'
<1>1. TypeOK /\ Merged /\ op = "merged" /\ ~override
  BY Zenon DEF FilterLatestRefs, ListInv
<1>2. /\ op' = "filter" /\ l' = res /\ il' = 1 /\ last' = NoRef /\ r' = r /\ ir' = ir
      /\ res' = res /\ over' = over /\ override' = override /\ ignore' = ignore
  BY Zenon DEF FilterLatestRefs, flags
<1>3. res \in Seq(Refs) /\ r \in Seq(Refs)
  BY <1>1, Zenon DEF TypeOK
<1>4. Sorted(res)
  BY <1>1, MergedProperties, Zenon DEF MergeKeeps
<1>5. Sorted(l)' /\ Sorted(res)' /\ (Elems(res) \subseteq Elems(l))'
  BY <1>2, <1>4, Zenon DEF Sorted
<1>6. ASSUME NEW x \in Elems(res) PROVE Group[x] = Group[x] /\ Age[x] <= Age[x]
  <2>0. PICK i \in 1..Len(res) : x = res[i]
    BY <1>6, Zenon DEF Elems
  <2>1. x \in Refs
    BY <1>3, <2>0, ElementOfSeq, Zenon
  <2>2. Age[x] \in Nat
    BY <2>1, AgeAssumption, Zenon
  <2> QED
    BY <2>2
<1>7. (\A x \in Elems(l) : \E y \in Elems(res) : Group[x] = Group[y] /\ Age[x] <= Age[y])'
  BY <1>2, <1>6, Zenon
<1>8. 1..(il' - 1) = {}
  BY <1>2
<1>9. Filtering'
  BY <1>1, <1>2, <1>5, <1>7, <1>8, Zenon DEF Filtering
<1>10. TypeOK'
  <2>1. op' \in {"filter", "filtered"}
    BY <1>2
  <2>2. il' \in 1..(Len(res') + 1)
    BY <1>2, <1>3, LenProperties
  <2> QED
    BY <1>1, <1>2, <1>3, <2>1, <2>2, Zenon DEF TypeOK
<1> QED
  BY <1>2, <1>9, <1>10 DEF ListInv

\* the keys of a package are neighbours
LEMMA GroupOrder ==
  ASSUME NEW x \in Refs, NEW y \in Refs, NEW z \in Refs, x < y, y < z, Group[x] = Group[z]
  PROVE  Group[y] = Group[z]
  BY KeyOrder, SMTT(30)

\* an iteration of FilterLatestRefs
LEMMA FilterSteps ==
  ASSUME ListInv, FilterStep
  PROVE  ListInv'
<1>1. TypeOK /\ Filtering /\ op = "filter" /\ il <= Len(res)
  BY Zenon DEF FilterStep, ListInv
<1>2. /\ res \in Seq(Refs) /\ l \in Seq(Refs) /\ il \in 1..(Len(res) + 1) /\ Len(res) \in Nat
  <2>1. op \in {"filter", "filtered"}
    BY <1>1
  <2> QED
    BY <1>1, <2>1, LenProperties, Zenon DEF TypeOK
<1>3. il \in 1..Len(res) /\ il \in Nat /\ il > 0
  BY <1>1, <1>2
<1>4. \A i \in 1..Len(res) : res[i] \in Refs
  BY <1>2, ElementOfSeq, Zenon
<1>5. res[il] \in Refs /\ res[il] # NoRef
  BY <1>3, <1>4, RefsAssumption, Zenon
<1>6. /\ op' = op /\ l' = l /\ r' = r /\ ir' = ir /\ over' = over
      /\ override' = override /\ ignore' = ignore
  BY Zenon DEF FilterStep, flags
<1>7. op' = "filter" /\ op' \in {"filter", "filtered"}
  BY <1>1, <1>6
<1>8. /\ Sorted(l) /\ Sorted(res) /\ ~override
      /\ \A i, j \in 1..(il - 1) : Group[res[i]] = Group[res[j]] => i = j
      /\ last = IF il = 1 THEN NoRef ELSE res[il - 1]
  BY <1>1, Zenon DEF Filtering
<1>9. ASSUME res' \in Seq(Refs), il' \in 1..(Len(res') + 1), last' \in Refs \cup {NoRef},
             Sorted(res'), Elems(res') \subseteq Elems(l),
             \A x \in Elems(l) : \E y \in Elems(res') : Group[x] = Group[y] /\ Age[x] <= Age[y],
             \A i, j \in 1..(il' - 1) : Group[res'[i]] = Group[res'[j]] => i = j,
             last' = IF il' = 1 THEN NoRef ELSE res'[il' - 1]
      PROVE  ListInv'
  <2>1. TypeOK'
    BY <1>1, <1>6, <1>7, <1>9, Zenon DEF TypeOK
  <2>2. Filtering'
    BY <1>6, <1>8, <1>9, Zenon DEF Filtering, Sorted
  <2> QED
    BY <1>7, <2>1, <2>2 DEF ListInv
<1>10. CASE SameGroup(res[il], last)
  <2>1. last # NoRef /\ Group[res[il]] = Group[last] /\ il' = il
    BY <1>10, Zenon DEF FilterStep, SameGroup
  <2>2. il # 1 /\ last = res[il - 1]
    BY <1>8, <2>1, Zenon
  <2>3. /\ il - 1 \in 1..Len(res) /\ il - 1 # il /\ il \in 1..Len(res) /\ il - 1 \in 1..(il - 1)
        /\ \A i \in 1..(il - 1) : i \in 1..Len(res)
    BY <1>2, <1>3, <2>2
  <2>4. Age[res[il]] \in Nat /\ Age[last] \in Nat /\ last \in Refs
    BY <1>4, <1>5, <2>2, <2>3, AgeAssumption, Zenon
  <2>5. CASE Age[res[il]] > Age[last]
    <3>1. res' = Without(res, il - 1) /\ last' = res[il]
      BY <1>10, <2>5, Zenon DEF FilterStep
    <3>2. Age[res[il - 1]] <= Age[res[il]]
      BY <2>2, <2>4, <2>5
    <3>3. /\ res' \in Seq(Refs) /\ Len(res') = Len(res) - 1
          /\ \A i \in 1..(il - 1 - 1) : res'[i] = res[i]
          /\ \A i \in (il - 1)..(Len(res) - 1) : res'[i] = res[i + 1]
      BY <1>2, <2>3, <3>1, WithoutFacts, Zenon
    <3>4. /\ Sorted(res') /\ Elems(res') \subseteq Elems(l)
          /\ \A x \in Elems(l) : \E y \in Elems(res') : Group[x] = Group[y] /\ Age[x] <= Age[y]
      BY <1>1, <2>1, <2>2, <2>3, <3>1, <3>2, FilterDrops, Zenon
    <3>5. il' \in 1..(Len(res') + 1)
      BY <1>2, <1>3, <2>1, <3>3
    <3>6. (il - 1) + 1 = il /\ il - 1 \in (il - 1)..(Len(res) - 1)
      BY <1>2, <1>3
    <3>7. res'[il - 1] = res[il]
      BY <3>3, <3>6, Zenon
    <3>8. ASSUME NEW i \in 1..(il - 1) PROVE Group[res'[i]] = Group[res[i]]
      <4>1. CASE i = il - 1
        BY <2>1, <2>2, <3>7, <4>1, Zenon
      <4>2. CASE i # il - 1
        <5>1. i \in 1..(il - 1 - 1)
          BY <1>3, <4>2
        <5> QED
          BY <3>3, <5>1, Zenon
      <4> QED
        BY <4>1, <4>2, Zenon
    <3>9. \A i, j \in 1..(il' - 1) : Group[res'[i]] = Group[res'[j]] => i = j
      <4> SUFFICES ASSUME NEW i \in 1..(il - 1), NEW j \in 1..(il - 1),
                          Group[res'[i]] = Group[res'[j]]
                   PROVE  i = j
        BY <2>1, Zenon
      <4>1. Group[res[i]] = Group[res[j]]
        BY <3>8, Zenon
      <4> QED
        BY <1>8, <4>1, Zenon
    <3>10. last' = (IF il' = 1 THEN NoRef ELSE res'[il' - 1]) /\ last' \in Refs \cup {NoRef}
      BY <1>5, <2>1, <2>2, <3>1, <3>7, Zenon
    <3> QED
      BY <1>9, <3>3, <3>4, <3>5, <3>9, <3>10, Zenon
  <2>6. CASE ~(Age[res[il]] > Age[last])
    <3>1. res' = Without(res, il) /\ last' = last
      BY <1>10, <2>6, Zenon DEF FilterStep
    <3>2. Age[res[il]] <= Age[res[il - 1]]
      BY <2>2, <2>4, <2>6
    <3>3. /\ res' \in Seq(Refs) /\ Len(res') = Len(res) - 1
          /\ \A i \in 1..(il - 1) : res'[i] = res[i]
      BY <1>2, <1>3, <3>1, WithoutFacts, Zenon
    <3>4. /\ Sorted(res') /\ Elems(res') \subseteq Elems(l)
          /\ \A x \in Elems(l) : \E y \in Elems(res') : Group[x] = Group[y] /\ Age[x] <= Age[y]
      BY <1>1, <2>1, <2>2, <2>3, <3>1, <3>2, FilterDrops, Zenon
    <3>5. il' \in 1..(Len(res') + 1)
      BY <1>2, <1>3, <2>1, <3>3
    <3>9. \A i, j \in 1..(il' - 1) : Group[res'[i]] = Group[res'[j]] => i = j
      <4> SUFFICES ASSUME NEW i \in 1..(il - 1), NEW j \in 1..(il - 1),
                          Group[res'[i]] = Group[res'[j]]
                   PROVE  i = j
        BY <2>1, Zenon
      <4>1. Group[res[i]] = Group[res[j]]
        BY <3>3, Zenon
      <4> QED
        BY <1>8, <4>1, Zenon
    <3>10. last' = (IF il' = 1 THEN NoRef ELSE res'[il' - 1]) /\ last' \in Refs \cup {NoRef}
      BY <2>1, <2>2, <2>3, <2>4, <3>1, <3>3, Zenon
    <3> QED
      BY <1>9, <3>3, <3>4, <3>5, <3>9, <3>10, Zenon
  <2> QED
    BY <2>5, <2>6, Zenon

<1>11. CASE ~SameGroup(res[il], last)
  <2>1. il' = il + 1 /\ last' = res[il] /\ res' = res
    BY <1>11, Zenon DEF FilterStep
  <2>2. ASSUME NEW i \in 1..(il - 1) PROVE Group[res[i]] # Group[res[il]]
    <3>1. /\ il # 1 /\ il - 1 \in 1..Len(res) /\ i \in 1..Len(res) /\ (i = il - 1 \/ i < il - 1)
          /\ il - 1 < il
      BY <1>2, <1>3, <2>2
    <3>2. last = res[il - 1] /\ res[il - 1] \in Refs /\ res[i] \in Refs
      BY <1>4, <1>8, <3>1, Zenon
    <3>3. Group[res[il - 1]] # Group[res[il]]
      BY <1>5, <1>11, <3>2, RefsAssumption, Zenon DEF SameGroup
    <3>4. CASE i = il - 1
      BY <3>3, <3>4, Zenon
    <3>5. CASE i < il - 1
      <4>1. res[i] < res[il - 1] /\ res[il - 1] < res[il]
        BY <1>3, <1>8, <3>1, <3>5, Zenon DEF Sorted
      <4> QED
        BY <1>5, <3>2, <3>3, <4>1, GroupOrder, Zenon
    <3> QED
      BY <3>1, <3>4, <3>5, Zenon
  <2>3. \A i \in 1..(il' - 1) : i \in 1..(il - 1) \/ i = il
    BY <1>3, <2>1
  <2>4. \A i, j \in 1..(il' - 1) : Group[res'[i]] = Group[res'[j]] => i = j
    BY <1>8, <2>1, <2>2, <2>3, ZenonT(30)
  <2>5. il' \in 1..(Len(res') + 1) /\ il' # 1 /\ il' - 1 = il
    BY <1>2, <1>3, <2>1
  <2>6. last' = (IF il' = 1 THEN NoRef ELSE res'[il' - 1]) /\ last' \in Refs \cup {NoRef}
    BY <1>5, <2>1, <2>5, Zenon
  <2>7. /\ res' \in Seq(Refs) /\ Sorted(res') /\ Elems(res') \subseteq Elems(l)
        /\ \A x \in Elems(l) : \E y \in Elems(res') : Group[x] = Group[y] /\ Age[x] <= Age[y]
    BY <1>1, <1>2, <2>1, Zenon DEF Filtering
  <2> QED
    BY <1>9, <2>4, <2>5, <2>6, <2>7, Zenon
<1> QED
  BY <1>10, <1>11, Zenon

\* FilterLatestRefs is at the end of the list
LEMMA FilterDones ==
  ASSUME ListInv, FilterDone
  PROVE  ListInv'
<1>1. TypeOK /\ Filtering /\ op = "filter" /\ il > Len(res)
  BY Zenon DEF FilterDone, ListInv
<1>2. /\ op' = "filtered" /\ l' = l /\ r' = r /\ il' = il /\ ir' = ir /\ res' = res
      /\ over' = over /\ last' = last /\ override' = override /\ ignore' = ignore
  BY Zenon DEF FilterDone, flags
<1>3. op \in {"filter", "filtered"} /\ op' \in {"filter", "filtered"}
  BY <1>1, <1>2
<1>4. TypeOK'
  BY <1>1, <1>2, <1>3, Zenon DEF TypeOK
<1>5. \A i \in 1..Len(res) : i \in 1..(il - 1)
  <2>1. il \in Int /\ Len(res) \in Nat
    BY <1>1, <1>3, LenProperties DEF TypeOK
  <2> QED
    BY <1>1, <2>1
<1>6. /\ ~override /\ Sorted(res) /\ OneVersionEach(res) /\ Elems(res) \subseteq Elems(l)
      /\ \A x \in Elems(l) : \E y \in Elems(res) : Group[x] = Group[y] /\ Age[x] <= Age[y]
  BY <1>1, <1>5, Zenon DEF Filtering, OneVersionEach
<1>7. FilterKeepsLatest' /\ Sorted(res)' /\ ~override'
  BY <1>2, <1>6, Zenon DEF FilterKeepsLatest, Sorted, OneVersionEach
<1> QED
  BY <1>2, <1>4, <1>7 DEF ListInv

----------------------------------------------------------------------------
(* Subtract                                                                *)

\* Subtract begins
LEMMA SubtractStarts ==
  ASSUME ListInv, Subtract
  PROVE  ListInv'
<1>1. TypeOK /\ (op = "merged" \/ op = "filtered")
  BY DEF Subtract, ListInv
<1>2. /\ op' = "subtract" /\ l' \in SortedLists /\ r' = res /\ il' = 1 /\ ir' = 1 /\ res' = <<>>
      /\ over' = over /\ last' = last /\ override' = override /\ ignore' = ignore
  BY Zenon DEF Subtract, flags
<1>3. res \in Seq(Refs) /\ l' \in Seq(Refs) /\ Sorted(l')
  BY <1>1, <1>2, ListsAssumption, Zenon DEF TypeOK
<1>4. ~override => Sorted(res)
  <2>1. op = "merged" /\ ~override => Sorted(res)
    BY MergedProperties, Zenon DEF MergeKeeps
  <2>2. op = "filtered" => Sorted(res)
    BY Zenon DEF ListInv
  <2> QED
    BY <1>1, <2>1, <2>2, Zenon
<1>5. 1..(ir' - 1) = {} /\ 1..(il' - 1) = {} /\ 1..Len(res') = {} /\ res' \in Seq(Refs)
  BY <1>2
<1>6. Sorted(l)' /\ (~override => Sorted(r)')
  BY <1>2, <1>3, <1>4, Zenon DEF Sorted
<1>7. Subtracting'
  BY <1>2, <1>5, <1>6, Zenon DEF Subtracting
<1>8. TypeOK'
  <2>1. op' \notin {"filter", "filtered"} /\ op' \in {"subtract"}
    BY <1>2
  <2>2. il' \in 1..(Len(l') + 1) /\ ir' \in 1..(Len(r') + 1)
    BY <1>2, <1>3, LenProperties
  <2> QED
    BY <1>1, <1>2, <1>3, <1>5, <2>1, <2>2, Zenon DEF TypeOK
<1> QED
  BY <1>2, <1>7, <1>8 DEF ListInv

\* an iteration of Subtract
LEMMA SubtractSteps ==
  ASSUME ListInv, SubtractStep
  PROVE  ListInv'
<1>1. TypeOK /\ Subtracting /\ op = "subtract" /\ il <= Len(l) /\ ir <= Len(r)
  BY Zenon DEF SubtractStep, ListInv
<1>2. /\ res \in Seq(Refs) /\ l \in Seq(Refs) /\ r \in Seq(Refs)
      /\ il \in 1..(Len(l) + 1) /\ ir \in 1..(Len(r) + 1) /\ Len(l) \in Nat /\ Len(r) \in Nat
  <2>1. op \notin {"filter", "filtered"}
    BY <1>1
  <2> QED
    BY <1>1, <2>1, LenProperties, Zenon DEF TypeOK
<1>3. il \in 1..Len(l) /\ ir \in 1..Len(r) /\ il \in Nat /\ ir \in Nat
  BY <1>1, <1>2
<1>4. /\ (\A i \in 1..Len(l) : l[i] \in Refs /\ l[i] \in Nat)
      /\ (\A i \in 1..Len(r) : r[i] \in Refs /\ r[i] \in Nat)
  BY <1>2, ElementOfSeq, RefsAssumption, Zenon
<1>5. /\ op' = op /\ l' = l /\ r' = r /\ over' = over /\ last' = last
      /\ override' = override /\ ignore' = ignore
  BY Zenon DEF SubtractStep, flags
<1>6. ASSUME res' \in Seq(Refs), il' \in 1..(Len(l) + 1), ir' \in 1..(Len(r) + 1),
             ~override => /\ \A i \in 1..(ir' - 1) : \A j \in il'..Len(l) : r[i] < l[j]
                          /\ \A i \in 1..Len(res') : res'[i] \in Elems(l) \ Elems(r)
                          /\ \A j \in 1..(il' - 1) : l[j] \notin Elems(r) => l[j] \in Elems(res')
      PROVE  ListInv'
  <2>1. op' = "subtract" /\ op' \notin {"filter", "filtered"}
    BY <1>1, <1>5
  <2>2. TypeOK'
    BY <1>1, <1>5, <1>6, <2>1, Zenon DEF TypeOK
  <2>3. ~override => Sorted(l)' /\ Sorted(r)'
    BY <1>1, <1>5, Zenon DEF Subtracting, Sorted
  <2>4. Elems(l)' = Elems(l) /\ Elems(r)' = Elems(r)
    BY <1>5, Zenon
  <2>5. Subtracting'
    BY <1>5, <1>6, <2>3, <2>4, Zenon DEF Subtracting
  <2> QED
    BY <2>1, <2>2, <2>5 DEF ListInv
<1>7. ~override => /\ \A i, j \in 1..Len(l) : i < j => l[i] < l[j]
                   /\ \A i, j \in 1..Len(r) : i < j => r[i] < r[j]
                   /\ \A i \in 1..(ir - 1) : \A j \in il..Len(l) : r[i] < l[j]
                   /\ \A i \in 1..Len(res) : res[i] \in Elems(l) \ Elems(r)
                   /\ \A j \in 1..(il - 1) : l[j] \notin Elems(r) => l[j] \in Elems(res)
  BY <1>1, Zenon DEF Subtracting, Sorted
<1>8. /\ \A j \in (il + 1)..Len(l) : j \in il..Len(l) /\ j \in 1..Len(l) /\ il < j
      /\ \A j \in il..Len(l) : j = il \/ j \in (il + 1)..Len(l)
      /\ \A i \in 1..((ir + 1) - 1) : i = ir \/ i \in 1..(ir - 1)
      /\ \A j \in 1..((il + 1) - 1) : j = il \/ j \in 1..(il - 1)
      /\ il \in il..Len(l)
      /\ \A i \in 1..Len(r) : i = ir \/ i \in 1..(ir - 1) \/ ir < i
  BY <1>3, <1>2
<1>9. il + 1 \in 1..(Len(l) + 1) /\ ir + 1 \in 1..(Len(r) + 1)
  BY <1>3, <1>2
<1>10. CASE l[il] = r[ir]
  <2>1. il' = il + 1 /\ ir' = ir + 1 /\ res' = res
    BY <1>10, Zenon DEF SubtractStep
  <2>2. ~override => \A i \in 1..((ir + 1) - 1) : \A j \in (il + 1)..Len(l) : r[i] < l[j]
    <3> SUFFICES ASSUME ~override, NEW i \in 1..((ir + 1) - 1), NEW j \in (il + 1)..Len(l)
                 PROVE  r[i] < l[j]
      BY Zenon
    <3>1. l[il] < l[j]
      BY <1>3, <1>7, <1>8, Zenon
    <3> QED
      BY <1>7, <1>8, <1>10, <3>1, Zenon
  <2>3. l[il] \in Elems(r)
    BY <1>3, <1>10, Zenon DEF Elems
  <2>4. ~override => \A j \in 1..((il + 1) - 1) : l[j] \notin Elems(r) => l[j] \in Elems(res)
    BY <1>7, <1>8, <2>3, Zenon
  <2> QED
    BY <1>2, <1>6, <1>7, <1>9, <2>1, <2>2, <2>4, Zenon

<1>11. CASE l[il] # r[ir] /\ l[il] < r[ir]
  <2>1. il' = il + 1 /\ ir' = ir /\ res' = Append(res, l[il])
    BY <1>11, Zenon DEF SubtractStep
  <2>2. ~override => l[il] \notin Elems(r)
    <3> SUFFICES ASSUME ~override, NEW i \in 1..Len(r) PROVE l[il] # r[i]
      BY Zenon DEF Elems
    <3>1. l[il] \in Nat /\ r[i] \in Nat /\ r[ir] \in Nat
      BY <1>3, <1>4, Zenon
    <3>2. i = ir \/ r[i] < l[il] \/ r[ir] < r[i]
      BY <1>3, <1>7, <1>8, Zenon
    <3> QED
      BY <1>11, <3>1, <3>2
  <2>3. l[il] \in Elems(l) /\ l[il] \in Refs
    BY <1>3, <1>4, Zenon DEF Elems
  <2>4. /\ res' \in Seq(Refs) /\ Elems(res') = Elems(res) \cup {l[il]}
    BY <1>2, <2>1, <2>3, AppendFacts, Zenon
  <2>5. ~override => \A i \in 1..Len(res') : res'[i] \in Elems(l) \ Elems(r)
    <3>1. ASSUME ~override, NEW i \in 1..Len(res') PROVE res'[i] \in Elems(l) \ Elems(r)
      <4>1. res'[i] \in Elems(res')
        BY <3>1, Zenon DEF Elems
      <4>2. res'[i] \in Elems(res) \/ res'[i] = l[il]
        BY <2>4, <4>1, Zenon
      <4> QED
        BY <1>7, <2>2, <2>3, <3>1, <4>2, Zenon DEF Elems
    <3> QED
      BY <3>1, Zenon
  <2>6. ~override => \A j \in 1..((il + 1) - 1) : l[j] \notin Elems(r) => l[j] \in Elems(res')
    BY <1>7, <1>8, <2>4, Zenon
  <2>7. ~override => \A i \in 1..(ir - 1) : \A j \in (il + 1)..Len(l) : r[i] < l[j]
    BY <1>7, <1>8, Zenon
  <2> QED
    BY <1>2, <1>6, <1>9, <2>1, <2>4, <2>5, <2>6, <2>7, Zenon
<1>12. CASE l[il] # r[ir] /\ ~(l[il] < r[ir])
  <2>1. il' = il /\ ir' = ir + 1 /\ res' = res
    BY <1>12, Zenon DEF SubtractStep
  <2>2. l[il] \in Nat /\ r[ir] \in Nat
    BY <1>3, <1>4, Zenon
  <2>3. r[ir] < l[il]
    BY <1>12, <2>2
  <2>4. ~override => \A j \in il..Len(l) : r[ir] < l[j]
    <3> SUFFICES ASSUME ~override, NEW j \in (il + 1)..Len(l) PROVE r[ir] < l[j]
      BY <1>8, <2>3, Zenon
    <3>1. l[il] < l[j] /\ l[j] \in Nat
      BY <1>3, <1>4, <1>7, <1>8, Zenon
    <3> QED
      BY <2>2, <2>3, <3>1
  <2>5. ~override => \A i \in 1..((ir + 1) - 1) : \A j \in il..Len(l) : r[i] < l[j]
    BY <1>7, <1>8, <2>4, Zenon
  <2> QED
    BY <1>2, <1>6, <1>7, <1>9, <2>1, <2>5, Zenon
<1> QED
  BY <1>10, <1>11, <1>12, Zenon

\* the rest of the left list is appended
LEMMA SubtractRests ==
  ASSUME ListInv, SubtractRest
  PROVE  ListInv'
<1>1. TypeOK /\ Subtracting /\ op = "subtract" /\ (il > Len(l) \/ ir > Len(r))
  BY Zenon DEF SubtractRest, ListInv
<1>2. /\ res \in Seq(Refs) /\ l \in Seq(Refs) /\ r \in Seq(Refs)
      /\ il \in 1..(Len(l) + 1) /\ ir \in 1..(Len(r) + 1) /\ Len(l) \in Nat /\ Len(r) \in Nat
  <2>1. op \notin {"filter", "filtered"}
    BY <1>1
  <2> QED
    BY <1>1, <2>1, LenProperties, Zenon DEF TypeOK
<1>3. /\ op' = "cleaned" /\ l' = l /\ r' = r /\ il' = il /\ ir' = ir /\ over' = over
      /\ last' = last /\ override' = override /\ ignore' = ignore /\ res' = res \o Rest(l, il)
  BY Zenon DEF SubtractRest, flags
<1>4. /\ Rest(l, il) \in Seq(Refs)
      /\ \A j \in il..Len(l) : l[j] \in Elems(Rest(l, il))
      /\ \A x \in Elems(Rest(l, il)) : \E j \in il..Len(l) : x = l[j]
  BY <1>2, RestFacts, Zenon
<1>5. res' \in Seq(Refs) /\ Elems(res') = Elems(res) \cup Elems(Rest(l, il))
  BY <1>2, <1>3, <1>4, ConcatFacts, Zenon
<1>6. op' \notin {"filter", "filtered"} /\ op \notin {"filter", "filtered"}
  BY <1>1, <1>3
<1>7. TypeOK'
  BY <1>1, <1>3, <1>5, <1>6, Zenon DEF TypeOK
<1>8. ASSUME ~override PROVE Elems(res') = Elems(l) \ Elems(r)
  <2>1. /\ \A i \in 1..(ir - 1) : \A j \in il..Len(l) : r[i] < l[j]
        /\ \A i \in 1..Len(res) : res[i] \in Elems(l) \ Elems(r)
        /\ \A j \in 1..(il - 1) : l[j] \notin Elems(r) => l[j] \in Elems(res)
    BY <1>1, <1>8, Zenon DEF Subtracting
  <2>2. ASSUME NEW j \in il..Len(l) PROVE l[j] \in Elems(l) \ Elems(r)
    <3>1. j \in 1..Len(l) /\ ir > Len(r) /\ \A i \in 1..Len(r) : i \in 1..(ir - 1)
      BY <1>1, <1>2, <2>2
    <3>2. ASSUME NEW i \in 1..Len(r) PROVE r[i] # l[j]
      <4>1. r[i] < l[j] /\ r[i] \in Refs
        BY <1>2, <2>1, <3>1, ElementOfSeq, Zenon
      <4>2. r[i] \in Nat
        BY <4>1, RefsAssumption, Zenon
      <4> QED
        BY <4>1, <4>2
    <3> QED
      BY <3>1, <3>2, Zenon DEF Elems
  <2>3. ASSUME NEW x \in Elems(res') PROVE x \in Elems(l) \ Elems(r)
    <3>1. CASE x \in Elems(res)
      BY <2>1, <3>1, Zenon DEF Elems
    <3>2. CASE x \in Elems(Rest(l, il))
      BY <1>4, <2>2, <3>2, Zenon
    <3> QED
      BY <1>5, <2>3, <3>1, <3>2, Zenon
  <2>4. ASSUME NEW x \in Elems(l) \ Elems(r) PROVE x \in Elems(res')
    <3>1. PICK j \in 1..Len(l) : x = l[j]
      BY <2>4, Zenon DEF Elems
    <3>2. j \in 1..(il - 1) \/ j \in il..Len(l)
      BY <1>2, <3>1
    <3> QED
      BY <1>4, <1>5, <2>1, <2>4, <3>1, <3>2, Zenon
  <2> QED
    BY <2>3, <2>4, Zenon
<1>9. CleanupExact'
  BY <1>3, <1>8, Zenon DEF CleanupExact
<1> QED
  BY <1>3, <1>7, <1>9 DEF ListInv

----------------------------------------------------------------------------
(* The theorems                                                            *)

\* A step that leaves the variables alone leaves the invariant alone.
LEMMA StutterList ==
  ASSUME ListInv, UNCHANGED vars
  PROVE  ListInv'
<1>1. /\ op' = op /\ l' = l /\ r' = r /\ il' = il /\ ir' = ir /\ res' = res
      /\ override' = override /\ ignore' = ignore /\ over' = over /\ last' = last
  BY Zenon DEF vars
<1>2. TypeOK'
  BY <1>1, Zenon DEF ListInv, TypeOK
<1>3. op = "merge" => Merging'
  BY <1>1, MergingNext, Zenon DEF ListInv, Merging, flags
<1>4. op = "merged" => Merged'
  <2> SUFFICES ASSUME op = "merged" PROVE Merged'
    BY Zenon
  <2>1. Operands' /\ (Clean' <=> Clean)
    BY <1>1, SameOperands, Zenon DEF ListInv, Merged, flags
  <2>2. Loose(res)' /\ (Clean => OneEach(res)')
    BY <1>1, Zenon DEF ListInv, Merged, Loose, Below, OneEach, Class
  <2>3. {x \in Elems(l) : Kept(x)}' = {x \in Elems(l) : Kept(x)}
    BY <1>1 DEF Kept, Class
  <2> QED
    BY <1>1, <2>1, <2>2, <2>3, Zenon DEF ListInv, Merged
<1>5. op = "filter" => Filtering'
  BY <1>1, Zenon DEF ListInv, Filtering, Sorted
<1>6. op = "filtered" => FilterKeepsLatest' /\ Sorted(res)' /\ ~override'
  BY <1>1, Zenon DEF ListInv, FilterKeepsLatest, Sorted, OneVersionEach
<1>7. op = "subtract" => Subtracting'
  BY <1>1, Zenon DEF ListInv, Subtracting, Sorted
<1>8. op = "cleaned" => CleanupExact'
  BY <1>1, Zenon DEF ListInv, CleanupExact
<1> QED
  BY <1>1, <1>2, <1>3, <1>4, <1>5, <1>6, <1>7, <1>8, Zenon DEF ListInv

\* Every loop keeps the invariant that says how far it has come.
THEOREM ListInvariant == Spec => []ListInv
<1>1. Init => ListInv
  BY InitList, Zenon
<1>2. ListInv /\ [Next]_vars => ListInv'
  <2> SUFFICES ASSUME ListInv, [Next]_vars PROVE ListInv'
    BY Zenon
  <2>1. CASE MergeStep
    BY <2>1, MergeRests, MergeTakes, MergeSkips, MergeNexts, Zenon DEF MergeStep
  <2>2. CASE FilterLatestRefs \/ FilterStep \/ FilterDone
    BY <2>2, FilterStarts, FilterSteps, FilterDones, Zenon
  <2>3. CASE Subtract \/ SubtractStep \/ SubtractRest
    BY <2>3, SubtractStarts, SubtractSteps, SubtractRests, Zenon
  <2>4. CASE UNCHANGED vars
    BY <2>4, StutterList, Zenon
  <2> QED
    BY <2>1, <2>2, <2>3, <2>4, Zenon DEF Next
<1> QED
  BY <1>1, <1>2, PTL DEF Spec

\* No position of a loop runs past the end of its list by more than one.
THEOREM ListsTyped == Spec => []TypeOK
<1>1. ListInv => TypeOK
  BY Zenon DEF ListInv
<1> QED
  BY <1>1, ListInvariant, PTL

\* Without overrideMatching Merge loses nothing but what conflicts, for any
\* two lists, in any number of merges one after the other.
THEOREM MergeKeepsAll == Spec => []MergeKeeps
<1>1. ListInv => MergeKeeps
  BY MergedProperties, Zenon
<1> QED
  BY <1>1, ListInvariant, PTL

\* With overrideMatching the right list wins, package by package, when both
\* have one version of each.
THEOREM MergeOverridesAll == Spec => []MergeOverridesOne
<1>1. ListInv => MergeOverridesOne
  BY MergedProperties, Zenon
<1> QED
  BY <1>1, ListInvariant, PTL

\* FilterLatestRefs leaves the newest version of every package, though it
\* only compares neighbours and cuts the list it goes through.
THEOREM FilterLatest == Spec => []FilterKeepsLatest
<1>1. ListInv => FilterKeepsLatest
  BY Zenon DEF ListInv, FilterKeepsLatest
<1> QED
  BY <1>1, ListInvariant, PTL

\* db cleanup takes exactly the packages that the stored list does not have.
THEOREM CleanupTakesExactly == Spec => []CleanupExact
<1>1. ListInv => CleanupExact
  BY Zenon DEF ListInv, CleanupExact
<1> QED
  BY <1>1, ListInvariant, PTL
=============================================================================
