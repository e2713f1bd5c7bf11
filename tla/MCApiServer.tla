---------------------------- MODULE MCApiServer ----------------------------
(***************************************************************************)
(* Instances of ApiServer.  The goroutines that serve requests are         *)
(* interchangeable.                                                        *)
(***************************************************************************)
EXTENDS ApiServer, TLC

\* -no-lock: any two requests at a time, and three at a time of a handler that
\* reads and of those that take several locks, one for each way to take them
NoLockModes ==
  {[noLock |-> TRUE, calls |-> Handlers, load |-> 2],
   [noLock |-> TRUE, load |-> 3,
    calls |-> {"apiReposList", "apiReposDrop", "apiSnapshotsCreateFromMirror", "apiSnapshotsDrop",
               "apiSnapshotsCreateFromRepository", "apiPublishList", "apiPublishRepo",
               "apiPublishUpdateSwitch", "apiGraph"}]}

\* -no-lock with handlers that take up to three locks in both modes, and the
\* ticker
LiveModes ==
  {[noLock |-> TRUE, calls |-> {"apiReposDrop", "apiPublishList", "apiSnapshotsDrop"}, load |-> 2],
   [noLock |-> FALSE, calls |-> {"apiSnapshotsDrop"}, load |-> 1]}

\* the ticker
TickerModes == {[noLock |-> FALSE, calls |-> {"apiReposCreate"}, load |-> 2]}

Symmetry == Permutations(Reqs)
=============================================================================
