----------------------------- MODULE MCCatalog -----------------------------
(* Small instances of Catalog for TLC.                                     *)
EXTENDS Catalog, FiniteSets, TLC

CONSTANTS pa, pb,    \* packages
          fa, fb     \* files

(* Both packages contain fa, the way two versions of a source package      *)
(* share a tarball.                                                        *)
MCFilesOf == [q \in Pkgs |-> IF q = pa THEN {fa} ELSE Files]

Symmetry == Permutations(Procs) \cup Permutations(Repos) \cup Permutations(Snaps)

(* A forced update of a locked mirror voids the guarantees; what follows   *)
(* it is not explored further.                                             *)
NotForced == "force" \notin waived

(* Two local repositories by themselves move two packages that share a     *)
(* file.  With snapshots and published repositories one of each is enough; *)
(* merging two snapshots into a third takes both packages, which then come *)
(* and go together, and nothing is dropped or cut short.                   *)
Scope ==
    \/ used = Repos
    \/ /\ Cardinality(used \cap Repos) <= 1 /\ Cardinality(used \cap Snaps) <= 2
       /\ parts[pb] = "none" /\ fb \notin pool
    \/ /\ Cardinality(used \cap Repos) <= 1 /\ used \cap Pubs = {}
       /\ pc = "idle" => used \subseteq rec /\ \A k \in stored : refs[k] \in {{}, Pkgs}
=============================================================================
