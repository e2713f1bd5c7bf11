----------------------------- MODULE MCRefList -----------------------------
(***************************************************************************)
(* Five keys of two packages.  Package "a" has three keys, two of them of  *)
(* one version with different hashes, and its versions sort in bytes the   *)
(* other way round than in CompareVersions ("1.10", "1.9"); package "b"    *)
(* has two versions.                                                       *)
(***************************************************************************)
EXTENDS RefList, FiniteSets

MCRefs == 1..5
MCGroup == <<"a", "a", "a", "b", "b">>
MCShort == <<"a1.10", "a1.9", "a1.9", "b1", "b2">>
MCAge == <<10, 9, 9, 1, 2>>

ListOf(S) == CHOOSE s \in [1..Cardinality(S) -> S] : Sorted(s)
MCSortedLists == {ListOf(S) : S \in SUBSET MCRefs}
=============================================================================
