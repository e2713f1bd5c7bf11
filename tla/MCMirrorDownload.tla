-------------------------- MODULE MCMirrorDownload --------------------------
EXTENDS MirrorDownload

CONSTANTS a, b, c  \* a and b have the same size, a and c the same old place

MCSize == [k \in Contents |-> IF k = c THEN 2 ELSE 1]
MCLegacy == [k \in Contents |-> IF k = b THEN 2 ELSE 1]

File(url, claim, full) == [url |-> url, claim |-> claim, full |-> full]
Plain == [files |-> <<File(1, a, TRUE), File(2, b, TRUE)>>, served |-> {}, ignore |-> FALSE,
          skip |-> FALSE, stalls |-> FALSE, tries |-> 1, runs |-> 1, others |-> 0, imports |-> {}]

\* Two tasks while others work on the pool; one task and two operations of
\* others; a file attached to the task of another and wrong answers that are
\* ignored; a restart that skips what is there; servers that stall; wrong
\* answers of another size to incomplete checksums; no tries at all.
MCUpdates ==
  {[Plain EXCEPT !.others = 1, !.imports = {[src |-> b, claim |-> a]}],
   [Plain EXCEPT !.others = 2, !.imports = {[src |-> a, claim |-> Unknown]},
                 !.files = <<File(1, a, TRUE)>>],
   [Plain EXCEPT !.files = <<File(1, a, TRUE), File(2, b, TRUE), File(1, a, TRUE)>>,
                 !.served = {b}, !.ignore = TRUE],
   [Plain EXCEPT !.runs = 2, !.skip = TRUE, !.served = {c}],
   [Plain EXCEPT !.stalls = TRUE, !.tries = 2],
   [Plain EXCEPT !.files = <<File(1, a, FALSE), File(2, b, TRUE)>>, !.served = {c}, !.ignore = TRUE],
   [Plain EXCEPT !.tries = 0]}
=============================================================================
