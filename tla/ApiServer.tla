----------------------------- MODULE ApiServer -----------------------------
(***************************************************************************)
(* The concurrency of `aptly api serve'.  Every HTTP request runs in a     *)
(* goroutine that locks the collections it works on, in the order that     *)
(* api/api.go calls canonical, and unlocks them when it returns.  The      *)
(* collections are caches of the database, made on first use by the        *)
(* CollectionFactory (deb/collections.go) and dropped by Flush, which      *)
(* makes the next user load a new object with a new mutex.                 *)
(*                                                                         *)
(* With -no-lock (noLock) the database is open only while requests are     *)
(* served: a goroutine counts them (acquireDatabase), opens it for the     *)
(* first, and flushes the collections and closes it after the last, so     *)
(* that other processes may use it in between.  Without -no-lock the       *)
(* database stays open and a ticker flushes the collections (cacheFlusher).*)
(*                                                                         *)
(* What a request does to the data is left to the other modules.  Here it  *)
(* is a body that runs with its locks held, that may write to some of the  *)
(* collections and may use others without having locked them; handlers     *)
(* that lock and write alike share an entry.                               *)
(***************************************************************************)
EXTENDS Integers, Sequences, FiniteSets

CONSTANTS Reqs,      \* goroutines that serve requests
          Flusher,   \* the goroutine of cacheFlusher or acquireDatabase
          Objs,      \* identities of collection objects
          Nil,       \* no object, no goroutine
          Modes      \* servers an instance looks at: the -no-lock flag,
                     \* the handlers that are called, the requests at a time

ASSUME NamesAssumption == Flusher \notin Reqs /\ Nil \notin Reqs \cup Objs

Agents == Reqs \cup {Flusher}
Colls == {"mirror", "local", "snapshot", "published"}

\* collection.Lock() and collection.RLock()
W(c) == [coll |-> c, mode |-> "w"]
R(c) == [coll |-> c, mode |-> "r"]

ReposLocks_Reversed ==
  [apiReposList   |-> <<R("local")>>,
   apiReposCreate |-> <<W("local")>>,
   apiReposDrop   |-> <<R("published"), R("snapshot"), W("local")>>]

\* apiReposCreate stands for Edit, PackagesAddDelete, PackagesShow and
\* PackageFromDir as well, apiReposList for Show.
ReposLocks ==
  [apiReposList   |-> <<R("local")>>,
   apiReposCreate |-> <<W("local")>>,
   apiReposDrop   |-> <<W("local"), R("snapshot"), R("published")>>]

\* apiSnapshotsCreate stands for Update, Show, Diff and SearchPackages.
SnapshotLocks ==
  [apiSnapshotsList                 |-> <<R("snapshot")>>,
   apiSnapshotsCreateFromMirror     |-> <<W("mirror"), W("snapshot")>>,
   apiSnapshotsCreate               |-> <<W("snapshot")>>,
   apiSnapshotsCreateFromRepository |-> <<W("local"), W("snapshot")>>,
   apiSnapshotsDrop                 |-> <<W("snapshot"), R("published")>>]

\* apiPublishRepoOrSnapshot has one entry per kind of source.
PublishLocks ==
  [apiPublishList         |-> <<R("local"), R("snapshot"), W("published")>>,
   apiPublishSnapshot     |-> <<W("snapshot"), W("published")>>,
   apiPublishRepo         |-> <<W("local"), W("published")>>,
   apiPublishUpdateSwitch |-> <<W("local"), W("snapshot"), W("published")>>,
   apiPublishDrop         |-> <<W("local"), W("published")>>]

AllLocks == <<W("mirror"), W("local"), W("snapshot"), W("published")>>

Handlers ==
  DOMAIN ReposLocks \cup DOMAIN SnapshotLocks \cup DOMAIN PublishLocks
  \cup {"apiGraph"}

ASSUME ModesAssumption == Modes \subseteq [noLock : BOOLEAN, calls : SUBSET Handlers, load : Nat]

\* the locks a call takes, in its order
Locks(h) ==
  IF h \in DOMAIN ReposLocks THEN ReposLocks[h]
  ELSE IF h \in DOMAIN SnapshotLocks THEN SnapshotLocks[h]
  ELSE IF h \in DOMAIN PublishLocks THEN PublishLocks[h]
  ELSE IF h \in {"apiGraph", "flush"} THEN AllLocks
  ELSE <<>>

\* the collections whose records the body adds, updates or drops
Writes(h) ==
  CASE h \in {"apiReposCreate", "apiReposDrop"} -> {"local"}
    [] h \in {"apiSnapshotsCreateFromMirror", "apiSnapshotsCreate",
              "apiSnapshotsCreateFromRepository", "apiSnapshotsDrop"} -> {"snapshot"}
    [] h \in {"apiPublishSnapshot", "apiPublishRepo", "apiPublishUpdateSwitch",
              "apiPublishDrop"} -> {"published"}
    [] OTHER -> {}

\* those of which it drops records
Drops(h) ==
  CASE h = "apiReposDrop" -> {"local"}
    [] h = "apiSnapshotsDrop" -> {"snapshot"}
    [] h = "apiPublishDrop" -> {"published"}
    [] OTHER -> {}

\* The collections that the body uses and has not locked: walkUpTree goes up
\* to the mirrors and local repositories that a snapshot comes from, and
\* PublishedRepoCollection.LoadComplete loads the sources of a duplicate, or
\* of the other publications under the prefix when one is dropped.
Unlocked(h) ==
  CASE h = "apiPublishSnapshot" -> {"mirror", "local"}
    [] h \in {"apiPublishRepo", "apiPublishDrop"} -> {"snapshot"}
    [] OTHER -> {}

VARIABLES
  object,  \* the collection objects of the factory
  stale,   \* the objects of each collection that the database has overtaken
  wlock,   \* mutex of an object: no writer, a writer waiting, a writer
  readers, \* and its number of readers
  call, pc,
  held,    \* number of locks the call holds
  ptr,     \* the objects it got from the factory, lock by lock
  dfr,     \* the objects its deferred Unlock calls are bound to
  clients, \* of acquireDatabase
  closing, \* the request whose release it is serving, or Nil
  open,    \* the database is open in this process
  up,      \* the process has not died of a fatal error
  mode     \* how the server was started

mutexes == <<wlock, readers>>
factory == <<object, stale>>
agents == <<call, pc, held, ptr, dfr>>
dbvars == <<clients, closing, open>>
vars == <<object, stale, wlock, readers, call, pc, held, ptr, dfr, clients,
          closing, open, up, mode>>

Init ==
  /\ object = [c \in Colls |-> Nil] /\ stale = [c \in Colls |-> {}]
  /\ wlock = [c \in Colls |-> [o \in Objs |-> "free"]]
  /\ readers = [c \in Colls |-> [o \in Objs |-> 0]]
  /\ call = [g \in Agents |-> "none"] /\ pc = [g \in Agents |-> "idle"]
  /\ held = [g \in Agents |-> 0]
  /\ ptr = [g \in Agents |-> <<>>] /\ dfr = [g \in Agents |-> <<>>]
  /\ clients = 0 /\ closing = Nil /\ up = TRUE
  /\ mode \in Modes /\ open = ~mode.noLock

\* Every variable stays in its type: no mutex and no count of clients is ever
\* released more often than it was acquired.
TypeOK ==
  /\ object \in [Colls -> Objs \cup {Nil}] /\ stale \in [Colls -> SUBSET Objs]
  /\ wlock \in [Colls -> [Objs -> {"free", "pending", "held"}]]
  /\ readers \in [Colls -> [Objs -> Nat]]
  /\ call \in [Agents -> Handlers \cup {"flush", "none"}]
  /\ pc \in [Agents -> {"idle", "acquire", "fetch", "lock", "pending", "wait",
                        "defer", "body", "unlock", "release"}]
  /\ held \in [Agents -> Nat]
  /\ ptr \in [Agents -> Seq(Objs)] /\ dfr \in [Agents -> Seq(Objs)]
  /\ clients \in Nat /\ closing \in Reqs \cup {Nil}
  /\ open \in BOOLEAN /\ up \in BOOLEAN /\ mode \in Modes

----------------------------------------------------------------------------
(* The collection factory                                                  *)

Pointers(c) ==
  {object[c]} \cup
  UNION {LET At == {i \in DOMAIN ptr[g] : Locks(call[g])[i].coll = c} IN
         {ptr[g][i] : i \in At} \cup {dfr[g][i] : i \in At \cap DOMAIN dfr[g]} : g \in Agents}

Lookup_NotKept(c, o) ==
  /\ o = CHOOSE x \in Objs : x \notin Pointers(c) \/ Objs \subseteq Pointers(c)
  /\ object' = object
  /\ stale' = [stale EXCEPT ![c] = @ \ {o}]
  /\ wlock' = [wlock EXCEPT ![c][o] = "free"]
  /\ readers' = [readers EXCEPT ![c][o] = 0]

\* o is what the factory returns for c: the object it has, or one made now,
\* which loads its list from the database
Lookup(c, o) ==
  /\ IF object[c] # Nil
     THEN o = object[c] /\ UNCHANGED <<factory, mutexes>>
     ELSE /\ o = CHOOSE x \in Objs : x \notin Pointers(c)
          /\ object' = [object EXCEPT ![c] = o]
          /\ stale' = [stale EXCEPT ![c] = @ \ {o}]
          /\ wlock' = [wlock EXCEPT ![c][o] = "free"]
          /\ readers' = [readers EXCEPT ![c][o] = 0]

NextLock(g) == Locks(call[g])[held[g] + 1]

Fetch(g) ==
  /\ pc[g] = "fetch"
  /\ \E o \in Objs :
       /\ Lookup(NextLock(g).coll, o)
       /\ ptr' = [ptr EXCEPT ![g] = Append(@, o)]
  /\ pc' = [pc EXCEPT ![g] = "lock"]
  /\ UNCHANGED <<call, held, dfr, dbvars, up>>

----------------------------------------------------------------------------
(* sync.RWMutex: a writer that waits keeps new readers out, and lets in    *)
(* the readers that wait when it unlocks                                   *)

Lock(g) ==
  LET k == NextLock(g)  o == ptr[g][held[g] + 1] IN
  /\ pc[g] = "lock" /\ k.mode = "w"
  /\ wlock[k.coll][o] = "free"
  /\ wlock' = [wlock EXCEPT ![k.coll][o] = "pending"]
  /\ pc' = [pc EXCEPT ![g] = "pending"]
  /\ UNCHANGED <<factory, readers, call, held, ptr, dfr, dbvars, up>>

LockGranted(g) ==
  LET k == NextLock(g)  o == ptr[g][held[g] + 1] IN
  /\ pc[g] = "pending"
  /\ readers[k.coll][o] = 0
  /\ wlock' = [wlock EXCEPT ![k.coll][o] = "held"]
  /\ pc' = [pc EXCEPT ![g] = "defer"]
  /\ UNCHANGED <<factory, readers, call, held, ptr, dfr, dbvars, up>>

RLock(g) ==
  LET k == NextLock(g)  o == ptr[g][held[g] + 1] IN
  /\ pc[g] = "lock" /\ k.mode = "r"
  /\ IF wlock[k.coll][o] = "free"
     THEN /\ readers' = [readers EXCEPT ![k.coll][o] = @ + 1]
          /\ pc' = [pc EXCEPT ![g] = "defer"]
     ELSE readers' = readers /\ pc' = [pc EXCEPT ![g] = "wait"]
  /\ UNCHANGED <<factory, wlock, call, held, ptr, dfr, dbvars, up>>

\* The receiver of a deferred call is evaluated by the defer statement.
\* apiGraph asks the factory for it again, the others have it in a variable.
Defer(g) ==
  /\ pc[g] = "defer"
  /\ \E o \in Objs :
       /\ IF call[g] = "apiGraph"
          THEN Lookup(NextLock(g).coll, o)
          ELSE o = ptr[g][held[g] + 1] /\ UNCHANGED <<factory, mutexes>>
       /\ dfr' = [dfr EXCEPT ![g] = Append(@, o)]
  /\ held' = [held EXCEPT ![g] = @ + 1]
  /\ pc' = [pc EXCEPT ![g] = IF held[g] + 1 = Len(Locks(call[g])) THEN "body" ELSE "fetch"]
  /\ UNCHANGED <<call, ptr, dbvars, up>>

Done(g) == IF mode.noLock /\ g \in Reqs THEN "release" ELSE "idle"

\* A request is refused before it locks anything (its body does not parse,
\* its query is wrong), or has nothing to lock (apiVersion, the uploads).
\* apiPublishRepoOrSnapshot also returns when it cannot load a source, before
\* it locks the published repositories.
EarlyReturn(g) ==
  /\ pc[g] = "fetch" /\ g \in Reqs
  /\ \/ /\ held[g] = 0
        /\ pc' = [pc EXCEPT ![g] = Done(g)] /\ call' = [call EXCEPT ![g] = "none"]
     \/ /\ held[g] = 1 /\ call[g] \in {"apiPublishSnapshot", "apiPublishRepo"}
        /\ pc' = [pc EXCEPT ![g] = "unlock"] /\ call' = call
  /\ UNCHANGED <<factory, mutexes, held, ptr, dfr, dbvars, up>>

\* the body gets one of them from the factory
UseUnlocked(g) ==
  /\ pc[g] = "body"
  /\ \E c \in Unlocked(call[g]) : \E o \in Objs : Lookup(c, o)
  /\ UNCHANGED <<agents, dbvars, up>>

\* the object that a call works on as collection c
PtrOf(g, c) == ptr[g][CHOOSE i \in DOMAIN ptr[g] : Locks(call[g])[i].coll = c]

\* A request writes to its collections or fails.  The other objects of a
\* collection that it has written to are stale now.
Body(g) ==
  /\ pc[g] = "body" /\ g \in Reqs
  /\ \/ stale' = [c \in Colls |->
                    IF c \in Writes(call[g])
                    THEN stale[c] \cup (Pointers(c) \ {PtrOf(g, c), Nil}) ELSE stale[c]]
     \/ UNCHANGED stale
  /\ pc' = [pc EXCEPT ![g] = "unlock"]
  /\ UNCHANGED <<object, mutexes, call, held, ptr, dfr, dbvars, up>>

Flush_ForgetsPublished(g) ==
  /\ pc[g] = "body" /\ g = Flusher
  /\ object' = [c \in Colls |-> IF c = "published" THEN object[c] ELSE Nil]
  /\ pc' = [pc EXCEPT ![g] = "unlock"]
  /\ UNCHANGED <<stale, mutexes, call, held, ptr, dfr, dbvars, up>>

Flush(g) ==
  /\ pc[g] = "body" /\ g = Flusher
  /\ object' = [c \in Colls |-> Nil]
  /\ pc' = [pc EXCEPT ![g] = "unlock"]
  /\ UNCHANGED <<stale, mutexes, call, held, ptr, dfr, dbvars, up>>

Receiver_Late(g) ==
  LET c == Locks(call[g])[held[g]].coll IN
  IF object[c] # Nil THEN object[c] ELSE CHOOSE x \in Objs : x \notin Pointers(c)

\* the object that the next deferred Unlock is bound to
Receiver(g) == dfr[g][held[g]]

\* the deferred calls run last to first; to unlock a mutex that is not
\* locked is a fatal error of the Go runtime
Unlock(g) ==
  LET k == Locks(call[g])[held[g]]
      o == Receiver(g)
      c == k.coll
      Waiting == {a \in Agents : pc[a] = "wait" /\ NextLock(a).coll = c /\ ptr[a][held[a] + 1] = o}
  IN
  /\ pc[g] = "unlock"
  /\ IF k.mode = "w" /\ wlock[c][o] # "held"
     THEN up' = FALSE /\ UNCHANGED <<mutexes, agents>>
     ELSE /\ up' = up
          /\ IF k.mode = "w"
             THEN /\ wlock' = [wlock EXCEPT ![c][o] = "free"]
                  /\ readers' = [readers EXCEPT ![c][o] = Cardinality(Waiting)]
             ELSE readers' = [readers EXCEPT ![c][o] = @ - 1] /\ wlock' = wlock
          /\ pc' = [a \in Agents |->
                      IF a = g THEN IF held[g] = 1 THEN Done(g) ELSE "unlock"
                      ELSE IF k.mode = "w" /\ a \in Waiting THEN "defer" ELSE pc[a]]
          /\ held' = [held EXCEPT ![g] = @ - 1]
          /\ IF held[g] = 1
             THEN /\ ptr' = [ptr EXCEPT ![g] = <<>>] /\ dfr' = [dfr EXCEPT ![g] = <<>>]
                  /\ call' = [call EXCEPT ![g] = "none"]
             ELSE UNCHANGED <<ptr, dfr, call>>
  /\ UNCHANGED <<factory, dbvars>>

----------------------------------------------------------------------------
(* Requests, and who opens and closes the database                         *)

Request(g, h) ==
  /\ pc[g] = "idle" /\ Cardinality({a \in Reqs : pc[a] # "idle"}) < mode.load
  /\ call' = [call EXCEPT ![g] = h]
  /\ pc' = [pc EXCEPT ![g] = IF mode.noLock THEN "acquire" ELSE "fetch"]
  /\ UNCHANGED <<factory, mutexes, held, ptr, dfr, dbvars, up>>

AcquireDatabase_UncountsRefused(g) ==
  /\ pc[g] = "acquire" /\ closing = Nil
  /\ \/ /\ clients' = clients + 1 /\ open' = TRUE
        /\ pc' = [pc EXCEPT ![g] = "fetch"] /\ call' = call
     \/ /\ clients = 0 /\ clients' = clients - 1 /\ UNCHANGED open
        /\ pc' = [pc EXCEPT ![g] = "idle"] /\ call' = [call EXCEPT ![g] = "none"]
  /\ UNCHANGED <<factory, mutexes, held, ptr, dfr, closing, up>>

\* one round of acquireDatabase's loop; another process may have the
\* database, and then the request is refused
AcquireDatabase(g) ==
  /\ pc[g] = "acquire" /\ closing = Nil
  /\ \/ /\ clients' = clients + 1 /\ open' = TRUE
        /\ pc' = [pc EXCEPT ![g] = "fetch"] /\ call' = call
     \/ /\ clients = 0 /\ UNCHANGED <<clients, open>>
        /\ pc' = [pc EXCEPT ![g] = "idle"] /\ call' = [call EXCEPT ![g] = "none"]
  /\ UNCHANGED <<factory, mutexes, held, ptr, dfr, closing, up>>

StartFlush(p) == [p EXCEPT ![Flusher] = "fetch"]

ReleaseDatabase_Early(g) ==
  /\ pc[g] = "release" /\ closing = Nil
  /\ clients' = clients - 1
  /\ closing' = g /\ pc' = StartFlush(pc)
  /\ call' = [call EXCEPT ![Flusher] = "flush"]
  /\ UNCHANGED <<factory, mutexes, held, ptr, dfr, open, up>>

ReleaseDatabase_Unanswered(g) ==
  /\ pc[g] = "release" /\ closing = Nil
  /\ clients' = clients - 1
  /\ IF clients = 1
     THEN /\ closing' = g /\ pc' = StartFlush(pc)
          /\ call' = [call EXCEPT ![Flusher] = "flush"]
     ELSE closing' = Nil /\ pc' = [pc EXCEPT ![g] = "unanswered"] /\ call' = call
  /\ UNCHANGED <<factory, mutexes, held, ptr, dfr, open, up>>

ReleaseDatabase(g) ==
  /\ pc[g] = "release" /\ closing = Nil
  /\ clients' = clients - 1
  /\ IF clients = 1
     THEN /\ closing' = g /\ pc' = StartFlush(pc)
          /\ call' = [call EXCEPT ![Flusher] = "flush"]
     ELSE closing' = Nil /\ pc' = [pc EXCEPT ![g] = "idle"] /\ call' = call
  /\ UNCHANGED <<factory, mutexes, held, ptr, dfr, open, up>>

CloseDatabase ==
  /\ closing # Nil /\ pc[Flusher] = "idle"
  /\ open' = FALSE /\ closing' = Nil
  /\ pc' = [pc EXCEPT ![closing] = "idle"]
  /\ UNCHANGED <<factory, mutexes, call, held, ptr, dfr, clients, up>>

\* cacheFlusher
Tick ==
  /\ ~mode.noLock /\ pc[Flusher] = "idle"
  /\ pc' = StartFlush(pc) /\ call' = [call EXCEPT ![Flusher] = "flush"]
  /\ UNCHANGED <<factory, mutexes, held, ptr, dfr, dbvars, up>>

\* another process opens the database, changes it and closes it
OtherProcess ==
  /\ ~open
  /\ stale' = [c \in Colls |-> Pointers(c) \ {Nil}]
  /\ UNCHANGED <<object, mutexes, agents, dbvars, up>>

Run(g) ==
  \/ Fetch(g) \/ Lock(g) \/ LockGranted(g) \/ RLock(g) \/ Defer(g)
  \/ EarlyReturn(g) \/ UseUnlocked(g) \/ Body(g) \/ Flush(g) \/ Unlock(g)

Alive(A) == up /\ A /\ UNCHANGED mode

Next ==
  /\ up /\ UNCHANGED mode
  /\ \/ \E g \in Agents : Run(g)
     \/ \E g \in Reqs : \/ \E h \in mode.calls : Request(g, h)
                        \/ AcquireDatabase(g) \/ ReleaseDatabase(g)
     \/ CloseDatabase \/ Tick \/ OtherProcess

Spec == Init /\ [][Next]_vars

Fairness ==
  /\ \A g \in Agents : WF_vars(Alive(Run(g))) /\ SF_vars(Alive(Lock(g)))
  /\ \A g \in Reqs : SF_vars(Alive(AcquireDatabase(g))) /\ SF_vars(Alive(ReleaseDatabase(g)))
  /\ WF_vars(Alive(CloseDatabase))

FairSpec == Spec /\ Fairness

----------------------------------------------------------------------------
(* Properties                                                              *)

Holds(g, c, m) ==
  \E i \in 1..held[g] : Locks(call[g])[i] = [coll |-> c, mode |-> m]

\* Two requests at work that have locked the same collection have locked it
\* for reading: the locks of the handlers, taken on objects that come and go
\* with Flush, exclude as if each collection had one mutex.  A request that
\* uses a collection without having locked it (Unlocked) is not kept from
\* running beside one that adds to the collection or edits it, but it never
\* runs beside one that drops a record of it.
CollectionExclusion ==
  \A g, a \in Agents : \A c \in Colls :
    g # a /\ pc[g] = "body" /\ pc[a] = "body" =>
      /\ Holds(g, c, "w") => ~Holds(a, c, "r") /\ ~Holds(a, c, "w")
      /\ c \in Drops(call[g]) => c \notin Unlocked(call[a])

\* A request never works on a cached collection that differs from the
\* database, locked or not, whatever other requests, and other processes
\* between requests, have written (flushColections before CloseDatabase).
CacheFresh ==
  \A g \in Reqs : pc[g] = "body" =>
    /\ \A i \in 1..held[g] : ptr[g][i] \notin stale[Locks(call[g])[i].coll]
    /\ \A c \in Unlocked(call[g]) : object[c] \notin stale[c]

\* The database is open for every request between acquire and release, and
\* no request counts when it is closed.
OpenWhileServing ==
  mode.noLock =>
    /\ clients = Cardinality({g \in Reqs : pc[g] \notin {"idle", "acquire"} /\ g # closing})
    /\ clients > 0 \/ closing # Nil => open
    /\ pc[Flusher] # "idle" => clients = 0

\* A deferred Unlock always meets the mutex that its handler has locked.
UnlocksWhatItLocked == up

\* An agent is blocked on a mutex, or on acquireDatabase
Blocked(g) ==
  LET k == NextLock(g)  o == ptr[g][held[g] + 1] IN
  \/ pc[g] = "lock" /\ k.mode = "w" /\ wlock[k.coll][o] # "free"
  \/ pc[g] = "pending" /\ readers[k.coll][o] # 0
  \/ pc[g] = "wait"
  \/ pc[g] \in {"acquire", "release"} /\ closing # Nil

\* No deadlock: as long as somebody is at work, somebody at work can go on.
\* This is what the canonical lock order is for.
SomebodyMoves ==
  up /\ (\E g \in Agents : pc[g] # "idle" /\ g # closing) =>
    \/ \E g \in Agents : pc[g] # "idle" /\ g # closing /\ ~Blocked(g)
    \/ closing # Nil /\ pc[Flusher] = "idle"  \* about to close the database

\* Every request is answered.
RequestsServed == \A g \in Reqs : pc[g] # "idle" ~> pc[g] = "idle"
=============================================================================
