----------------------------- MODULE MCPublish -----------------------------
EXTENDS Publish, TLC

CONSTANTS d1, d2, c1, c2, pa, pb, pc

\* pa and pc have the same name and version and different contents
MCArch == [p \in {pa, pb, pc} |-> {"amd64"}]
MCPath == [p \in {pa, pb, pc} |-> IF p = pb THEN "b" ELSE "a"]

Base == [storage |-> "files", dists |-> {d1, d2}, comps |-> {c1},
         sources |-> {{pa}, {pb}}, contents |-> FALSE, byHash |-> FALSE,
         sign |-> {TRUE}, maxFaults |-> 1]

\* two distributions that share a component; two components; packages that
\* conflict, in two lists and in one; s3; by-hash; contents
MCConfigs ==
  {Base,
   [Base EXCEPT !.comps = {c1, c2}, !.sources = {{}, {pa}}, !.maxFaults = 0],
   [Base EXCEPT !.sources = {{pa}, {pc}}],
   [Base EXCEPT !.dists = {d1}, !.sources = {{pa}, {pc}, {pa, pc}}],
   [Base EXCEPT !.storage = "s3", !.dists = {d1}, !.sources = {{pa}, {pb}, {pb, pc}}],
   [Base EXCEPT !.byHash = TRUE, !.dists = {d1}, !.sources = {{}, {pa}, {pb}}],
   [Base EXCEPT !.contents = TRUE, !.dists = {d1}, !.sources = {{}, {pa}, {pb}},
                !.sign = BOOLEAN]}

Symmetry == Permutations({d1, d2})
=============================================================================
