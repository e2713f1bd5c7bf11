-------------------------- MODULE ApiServerProofs --------------------------
(***************************************************************************)
(* What is proved of the API server started with -no-lock, for any number  *)
(* of requests, any objects and any calls: the database is open while      *)
(* requests are served, the locks exclude, the deferred Unlock calls meet  *)
(* what was locked, nobody works on a stale collection and nobody waits in *)
(* a circle.                                                               *)
(*                                                                         *)
(* The argument is that the collections are only flushed when no request   *)
(* is inside, so that every pointer a request has is to the object the     *)
(* factory has; on that one object, the state of its mutex is exactly what *)
(* the agents that hold it and wait for it make of it.  With the ticker    *)
(* (without -no-lock) a request may have an object that the factory has    *)
(* dropped, and requests no longer exclude each other.                     *)
(***************************************************************************)
EXTENDS ApiServer, FiniteSetTheorems, TLAPS

\* the backend of every leaf that names no other
USE ZenonT(30)

Kinds == [coll : Colls, mode : {"w", "r"}]
Called == Handlers \cup {"flush"}

\* the canonical order of the collections (api/api.go)
Rank == [mirror |-> 1, local |-> 2, snapshot |-> 3, published |-> 4]

AtLock == {"lock", "pending", "wait", "defer"}
Outside == {"idle", "acquire", "release"}

\* where an agent is, and what it has by then
Control(g) ==
  /\ pc[g] \in Outside => held[g] = 0 /\ ptr[g] = <<>> /\ dfr[g] = <<>>
  /\ pc[g] # "idle" /\ pc[g] # "release" => call[g] \in Called
  /\ pc[g] = "fetch" => /\ Len(ptr[g]) = held[g] /\ Len(dfr[g]) = held[g]
                        /\ held[g] < Len(Locks(call[g]))
  /\ pc[g] \in AtLock => /\ Len(ptr[g]) = held[g] + 1 /\ Len(dfr[g]) = held[g]
                         /\ held[g] < Len(Locks(call[g]))
  /\ pc[g] = "body" => /\ Len(ptr[g]) = held[g] /\ Len(dfr[g]) = held[g]
                       /\ held[g] = Len(Locks(call[g]))
  /\ pc[g] = "unlock" => /\ held[g] > 0 /\ held[g] <= Len(ptr[g])
                         /\ Len(dfr[g]) = Len(ptr[g])
                         /\ Len(ptr[g]) <= Len(Locks(call[g]))
  /\ pc[g] = "pending" => NextLock(g).mode = "w"
  /\ pc[g] = "wait" => NextLock(g).mode = "r"

\* the requests that acquireDatabase counts
Serving == {g \in Reqs : pc[g] \notin {"idle", "acquire"} /\ g # closing}

\* acquireDatabase: the last request out flushes and closes
Database ==
  /\ IsFiniteSet(Serving) /\ clients = Cardinality(Serving)
  /\ pc[Flusher] \notin {"acquire", "release"}
  /\ closing = Nil => pc[Flusher] = "idle"
  /\ closing # Nil => clients = 0 /\ pc[closing] = "release"
  /\ clients > 0 \/ closing # Nil => open

\* What g has are objects of the factory, except for the flusher after it has
\* flushed; and it unlocks what it works on.
Attached(g) ==
  /\ \A i \in 1..Len(ptr[g]) : \/ g = Flusher /\ pc[g] = "unlock"
                              \/ ptr[g][i] = object[Locks(call[g])[i].coll]
  /\ \A i \in 1..Len(dfr[g]) : dfr[g][i] = ptr[g][i]

\* The factory has what the database holds, and nothing when it is closed.
Pointed ==
  /\ \A g \in Agents : Attached(g)
  /\ \A c \in Colls : object[c] \notin stale[c]
  /\ ~open => \A c \in Colls : object[c] = Nil
  /\ closing # Nil /\ pc[Flusher] \in {"unlock", "idle"} => \A c \in Colls : object[c] = Nil

\* the number of mutexes g has locked, and that it has locked o as k says
Locked(g) == IF pc[g] = "defer" THEN held[g] + 1 ELSE held[g]
Has(g, k, o) == \E i \in 1..Locked(g) : Locks(call[g])[i] = k /\ ptr[g][i] = o

\* the lock that g took last, which it gives back first
LastLock(g) == Locks(call[g])[held[g]]

\* g waits for the mutex of o, as a writer ("pending") or a reader ("wait")
Wants(g, c, o, at) == pc[g] = at /\ NextLock(g).coll = c /\ ptr[g][held[g] + 1] = o

Readers(c, o) == {g \in Agents : Has(g, R(c), o)}

\* the state of a mutex is the work of the agents
Mutex(c, o) ==
  /\ wlock[c][o] = "held" <=> \E g \in Agents : Has(g, W(c), o)
  /\ wlock[c][o] = "pending" <=> \E g \in Agents : Wants(g, c, o, "pending")
  /\ \A g, a \in Agents : Has(g, W(c), o) /\ Has(a, W(c), o) => g = a
  /\ \A g, a \in Agents : Wants(g, c, o, "pending") /\ Wants(a, c, o, "pending") => g = a
  /\ (\E g \in Agents : Has(g, W(c), o)) => Readers(c, o) = {}
  /\ IsFiniteSet(Readers(c, o)) /\ readers[c][o] = Cardinality(Readers(c, o))
  /\ \A g \in Agents : Wants(g, c, o, "wait") => wlock[c][o] # "free"

Controls == \A g \in Agents : Control(g)
Mutexes == \A c \in Colls : \A o \in Objs : Mutex(c, o)

\* the inductive invariant of a server with -no-lock
ServerInv == TypeOK /\ up /\ Controls /\ Database /\ Pointed /\ Mutexes

----------------------------------------------------------------------------
(* The locks of the calls                                                  *)

\* every call takes between one and four locks (the tables of api/*.go)
LEMMA LocksTable ==
  ASSUME NEW h \in Called
  PROVE  Locks(h) \in {<<R("local")>>, <<W("local")>>, <<R("snapshot")>>, <<W("snapshot")>>,
                       <<W("local"), R("snapshot"), R("published")>>,
                       <<W("mirror"), W("snapshot")>>, <<W("local"), W("snapshot")>>,
                       <<W("snapshot"), R("published")>>,
                       <<R("local"), R("snapshot"), W("published")>>,
                       <<W("snapshot"), W("published")>>, <<W("local"), W("published")>>,
                       <<W("local"), W("snapshot"), W("published")>>, AllLocks}
<1>1. CASE h \in DOMAIN ReposLocks
  BY <1>1, SMTT(30) DEF Locks, ReposLocks
<1>2. CASE h \in DOMAIN SnapshotLocks
  BY <1>2, SMTT(30) DEF Locks, ReposLocks, SnapshotLocks
<1>3. CASE h \in DOMAIN PublishLocks
  BY <1>3, SMTT(30) DEF Locks, ReposLocks, SnapshotLocks, PublishLocks
<1>4. CASE h \in {"apiGraph", "flush"}
  BY <1>4 DEF Locks, ReposLocks, SnapshotLocks, PublishLocks
<1> QED
  BY <1>1, <1>2, <1>3, <1>4 DEF Called, Handlers

\* a lock is of a collection, in one of two modes, and the order of the locks
\* of a call is the canonical one
LEMMA LocksFacts ==
  ASSUME NEW h \in Called
  PROVE  /\ Len(Locks(h)) \in Nat /\ Len(Locks(h)) > 0
         /\ \A i \in 1..Len(Locks(h)) : Locks(h)[i] \in Kinds
         /\ \A i, j \in 1..Len(Locks(h)) :
              i < j => Rank[Locks(h)[i].coll] < Rank[Locks(h)[j].coll]
<1> DEFINE Good(s) == /\ Len(s) \in Nat /\ Len(s) > 0
                      /\ \A i \in 1..Len(s) : s[i] \in Kinds
                      /\ \A i, j \in 1..Len(s) : i < j => Rank[s[i].coll] < Rank[s[j].coll]
<1>0. /\ \A c \in Colls : W(c) \in Kinds /\ R(c) \in Kinds /\ W(c).coll = c /\ R(c).coll = c
      /\ Rank["mirror"] = 1 /\ Rank["local"] = 2 /\ Rank["snapshot"] = 3 /\ Rank["published"] = 4
      /\ Colls = {"mirror", "local", "snapshot", "published"}
  BY DEF W, R, Kinds, Rank, Colls
<1>1. \A c \in Colls : Good(<<W(c)>>) /\ Good(<<R(c)>>)
  BY <1>0, SMTT(30)
<1>2. \A k, l \in Kinds : Rank[k.coll] < Rank[l.coll] => Good(<<k, l>>)
  BY SMTT(30)
<1>3. \A k, l, m \in Kinds :
        /\ Rank[k.coll] < Rank[l.coll] /\ Rank[l.coll] < Rank[m.coll]
        /\ Rank[k.coll] < Rank[m.coll]
        => Good(<<k, l, m>>)
  BY SMTT(30)
<1>4. Good(AllLocks)
  BY <1>0, SMTT(30) DEF AllLocks
<1> HIDE DEF Good
<1>5. /\ Good(<<W("mirror"), W("snapshot")>>) /\ Good(<<W("local"), W("snapshot")>>)
      /\ Good(<<W("snapshot"), R("published")>>) /\ Good(<<W("snapshot"), W("published")>>)
      /\ Good(<<W("local"), W("published")>>)
  BY <1>0, <1>2, SMTT(30)
<1>6. /\ Good(<<W("local"), R("snapshot"), R("published")>>)
      /\ Good(<<R("local"), R("snapshot"), W("published")>>)
      /\ Good(<<W("local"), W("snapshot"), W("published")>>)
  BY <1>0, <1>3, SMTT(30)
<1>7. Good(Locks(h))
  BY <1>0, <1>1, <1>4, <1>5, <1>6, LocksTable
<1> QED
  BY <1>7 DEF Good

\* no call locks a collection twice
LEMMA LocksDistinct ==
  ASSUME NEW h \in Called, NEW i \in 1..Len(Locks(h)), NEW j \in 1..Len(Locks(h)),
         Locks(h)[i].coll = Locks(h)[j].coll
  PROVE  i = j
<1>1. \A k \in Colls : Rank[k] \in Nat
  BY SMTT(30) DEF Rank, Colls
<1>2. Len(Locks(h)) \in Nat /\ Locks(h)[i].coll \in Colls
  BY LocksFacts DEF Kinds
<1>3. ~(i < j) /\ ~(j < i)
  BY <1>1, <1>2, LocksFacts, SMTT(30)
<1> QED
  BY <1>2, <1>3, SMTT(30)
----------------------------------------------------------------------------
(* What the invariant says of an agent on its way                          *)

\* an agent that is at a mutex has got the object of the factory for it
LEMMA AtLockFacts ==
  ASSUME ServerInv, NEW g \in Agents, pc[g] \in AtLock
  PROVE  /\ call[g] \in Called /\ held[g] \in Nat
         /\ held[g] + 1 \in 1..Len(ptr[g]) /\ held[g] + 1 \in 1..Len(Locks(call[g]))
         /\ NextLock(g) \in Kinds /\ NextLock(g).coll \in Colls
         /\ ptr[g][held[g] + 1] \in Objs
         /\ ptr[g][held[g] + 1] = object[NextLock(g).coll]
<1>1. /\ call[g] \in Called /\ held[g] \in Nat /\ ptr[g] \in Seq(Objs)
      /\ Len(ptr[g]) = held[g] + 1 /\ held[g] < Len(Locks(call[g])) /\ pc[g] # "unlock"
  BY DEF ServerInv, TypeOK, Controls, Control, AtLock
<1>2. Len(Locks(call[g])) \in Nat
  BY <1>1, LocksFacts
<1>3. held[g] + 1 \in 1..Len(ptr[g]) /\ held[g] + 1 \in 1..Len(Locks(call[g]))
  BY <1>1, <1>2, SMTT(30)
<1>4. NextLock(g) \in Kinds
  BY <1>1, <1>3, LocksFacts DEF NextLock
<1>5. ptr[g][held[g] + 1] \in Objs
  BY <1>1, <1>3, SMTT(30)
<1>6. ptr[g][held[g] + 1] = object[NextLock(g).coll]
  BY <1>1, <1>3 DEF ServerInv, Pointed, Attached, NextLock
<1> QED
  BY <1>1, <1>3, <1>4, <1>5, <1>6 DEF Kinds

\* an agent that is about to get an object has none for that lock yet
LEMMA AtFetchFacts ==
  ASSUME ServerInv, NEW g \in Agents, pc[g] = "fetch"
  PROVE  /\ call[g] \in Called /\ held[g] \in Nat /\ Len(ptr[g]) = held[g]
         /\ held[g] + 1 \in 1..Len(Locks(call[g]))
         /\ NextLock(g) \in Kinds /\ NextLock(g).coll \in Colls
<1>1. call[g] \in Called /\ held[g] \in Nat /\ Len(ptr[g]) = held[g] /\ held[g] < Len(Locks(call[g]))
  BY DEF ServerInv, TypeOK, Controls, Control
<1>2. held[g] + 1 \in 1..Len(Locks(call[g]))
  BY <1>1, LocksFacts, SMTT(30)
<1> QED
  BY <1>1, <1>2, LocksFacts DEF NextLock, Kinds

\* an agent that unlocks has locked what its deferred call is bound to
LEMMA AtUnlockFacts ==
  ASSUME ServerInv, NEW g \in Agents, pc[g] = "unlock"
  PROVE  /\ call[g] \in Called /\ held[g] \in Nat /\ held[g] \in 1..Len(ptr[g])
         /\ held[g] \in 1..Len(Locks(call[g]))
         /\ Locks(call[g])[held[g]] \in Kinds /\ Locks(call[g])[held[g]].coll \in Colls
         /\ Receiver(g) \in Objs /\ Receiver(g) = ptr[g][held[g]]
         /\ Has(g, Locks(call[g])[held[g]], Receiver(g))
<1>1. /\ call[g] \in Called /\ held[g] \in Nat /\ ptr[g] \in Seq(Objs)
      /\ held[g] > 0 /\ held[g] <= Len(ptr[g]) /\ Len(dfr[g]) = Len(ptr[g])
      /\ Len(ptr[g]) <= Len(Locks(call[g]))
  BY DEF ServerInv, TypeOK, Controls, Control
<1>2. Len(Locks(call[g])) \in Nat
  BY <1>1, LocksFacts
<1>3. held[g] \in 1..Len(ptr[g]) /\ held[g] \in 1..Len(Locks(call[g])) /\ held[g] \in 1..held[g]
  BY <1>1, <1>2, SMTT(30)
<1>4. Locks(call[g])[held[g]] \in Kinds
  BY <1>1, <1>3, LocksFacts
<1>5. Receiver(g) = ptr[g][held[g]]
  BY <1>1, <1>3 DEF ServerInv, Pointed, Attached, Receiver
<1>6. Receiver(g) \in Objs
  BY <1>1, <1>3, <1>5, SMTT(30)
<1>7. Has(g, Locks(call[g])[held[g]], Receiver(g))
  BY <1>3, <1>5 DEF Has, Locked
<1> QED
  BY <1>1, <1>3, <1>4, <1>5, <1>6, <1>7 DEF Kinds

\* a lock that is held is one of the call's, on an object that it has got
LEMMA HasFacts ==
  ASSUME ServerInv, NEW g \in Agents
  PROVE  /\ Locked(g) \in Nat
         /\ \A i \in 1..Locked(g) : /\ call[g] \in Called /\ pc[g] \notin Outside
                                    /\ i \in 1..Len(ptr[g]) /\ i \in 1..Len(Locks(call[g]))
<1>1. held[g] \in Nat /\ ptr[g] \in Seq(Objs) /\ Control(g)
  BY DEF ServerInv, TypeOK, Controls
<1>2. pc[g] \in {"idle", "acquire", "fetch", "lock", "pending", "wait",
                 "defer", "body", "unlock", "release"}
  BY DEF ServerInv, TypeOK
<1>3. Locked(g) \in Nat /\ Len(ptr[g]) \in Nat
  BY <1>1, SMTT(30) DEF Locked
<1>4. pc[g] \in Outside => Locked(g) = 0
  BY <1>1 DEF Control, Locked, Outside
<1>5. pc[g] \notin Outside => /\ call[g] \in Called /\ Locked(g) <= Len(ptr[g])
                              /\ Locked(g) <= Len(Locks(call[g]))
  <2> HAVE pc[g] \notin Outside
  <2>1. call[g] \in Called
    BY <1>1 DEF Control, Outside
  <2>2. Len(Locks(call[g])) \in Nat
    BY <2>1, LocksFacts
  <2> QED
    BY <1>1, <1>2, <1>3, <2>1, <2>2, SMTT(30) DEF Control, Locked, Outside, AtLock
<1>6. pc[g] \notin Outside => Len(Locks(call[g])) \in Nat
  BY <1>5, LocksFacts
<1> QED
  BY <1>3, <1>4, <1>5, <1>6, SMTT(30)

\* Every pointer is for a lock of its call, and there are no more deferred
\* calls than pointers.
LEMMA PointedColls ==
  ASSUME ServerInv, NEW g \in Agents, NEW i \in 1..Len(ptr[g])
  PROVE  /\ call[g] \in Called /\ i \in 1..Len(Locks(call[g]))
         /\ Locks(call[g])[i] \in Kinds /\ Locks(call[g])[i].coll \in Colls
<1>1. ptr[g] \in Seq(Objs) /\ held[g] \in Nat /\ Control(g)
  BY DEF ServerInv, TypeOK, Controls
<1>2. pc[g] \in {"idle", "acquire", "fetch", "lock", "pending", "wait",
                 "defer", "body", "unlock", "release"}
  BY DEF ServerInv, TypeOK
<1>3. ptr[g] # <<>>
  BY SMTT(30)
<1>4. pc[g] \notin Outside
  BY <1>1, <1>3 DEF Control
<1>5. call[g] \in Called
  BY <1>1, <1>4 DEF Control, Outside
<1>6. Len(Locks(call[g])) \in Nat /\ Len(ptr[g]) \in Nat
  BY <1>1, <1>5, LocksFacts, SMTT(30)
<1>7. Len(ptr[g]) <= Len(Locks(call[g]))
  BY <1>1, <1>2, <1>4, <1>6, SMTT(30) DEF Control, Outside, AtLock
<1>8. i \in 1..Len(Locks(call[g]))
  BY <1>6, <1>7, SMTT(30)
<1>9. Locks(call[g])[i] \in Kinds
  BY <1>5, <1>8, LocksFacts
<1> QED
  BY <1>5, <1>8, <1>9 DEF Kinds

LEMMA DeferredFewer ==
  ASSUME ServerInv, NEW g \in Agents
  PROVE  Len(dfr[g]) \in Nat /\ Len(dfr[g]) <= Len(ptr[g])
<1>1. ptr[g] \in Seq(Objs) /\ dfr[g] \in Seq(Objs) /\ held[g] \in Nat /\ Control(g)
  BY DEF ServerInv, TypeOK, Controls
<1>2. pc[g] \in {"idle", "acquire", "fetch", "lock", "pending", "wait",
                 "defer", "body", "unlock", "release"}
  BY DEF ServerInv, TypeOK
<1>3. Len(dfr[g]) \in Nat /\ Len(ptr[g]) \in Nat
  BY <1>1, SMTT(30)
<1>4. pc[g] \in Outside => Len(dfr[g]) = 0
  BY <1>1 DEF Control
<1> QED
  BY <1>1, <1>2, <1>3, <1>4, SMTT(30) DEF Control, Outside, AtLock

\* nobody holds one collection for reading and for writing
LEMMA OneMode ==
  ASSUME ServerInv, NEW g \in Agents, NEW c \in Colls, NEW o, NEW q,
         Has(g, W(c), o)
  PROVE  ~Has(g, R(c), q)
<1> SUFFICES ASSUME Has(g, R(c), q) PROVE FALSE
  OBVIOUS
<1>1. PICK i \in 1..Locked(g) : Locks(call[g])[i] = W(c)
  BY DEF Has
<1>2. PICK j \in 1..Locked(g) : Locks(call[g])[j] = R(c)
  BY DEF Has
<1>3. W(c).coll = c /\ R(c).coll = c /\ W(c) # R(c)
  BY DEF W, R
<1>4. /\ call[g] \in Called
      /\ i \in 1..Len(Locks(call[g])) /\ j \in 1..Len(Locks(call[g]))
  BY HasFacts
<1>5. i = j
  BY <1>1, <1>2, <1>3, <1>4, LocksDistinct, SMTT(30)
<1> QED
  BY <1>1, <1>2, <1>3, <1>5

\* an agent holds no lock on the collection it asks for next
LEMMA NotYetHeld ==
  ASSUME ServerInv, NEW g \in Agents, pc[g] \in {"lock", "pending", "wait"},
         NEW k \in Kinds, k.coll = NextLock(g).coll, NEW o
  PROVE  ~Has(g, k, o)
<1> SUFFICES ASSUME Has(g, k, o) PROVE FALSE
  OBVIOUS
<1>1. PICK i \in 1..held[g] : Locks(call[g])[i] = k
  BY DEF Has, Locked
<1>2. /\ call[g] \in Called /\ held[g] \in Nat
      /\ held[g] + 1 \in 1..Len(Locks(call[g]))
  BY AtLockFacts DEF AtLock
<1>3. i \in 1..Len(Locks(call[g]))
  <2>1. Locked(g) = held[g]
    BY DEF Locked
  <2> QED
    BY <1>1, <2>1, HasFacts
<1>4. i = held[g] + 1
  BY <1>1, <1>2, <1>3, LocksDistinct DEF NextLock
<1> QED
  BY <1>2, <1>4, SMTT(30)
\* a lock is for writing or for reading
LEMMA KindFacts ==
  ASSUME NEW k \in Kinds
  PROVE  \/ k.mode = "w" /\ k = W(k.coll)
         \/ k.mode = "r" /\ k = R(k.coll)
  BY DEF Kinds, W, R

\* To unlock finds the mutex locked, and to unlock a reader finds a reader.
LEMMA UnlockSound ==
  ASSUME ServerInv, NEW g \in Agents, pc[g] = "unlock"
  PROVE  /\ LastLock(g).mode = "w" => wlock[LastLock(g).coll][Receiver(g)] = "held"
         /\ LastLock(g).mode # "w" =>
              /\ LastLock(g) = R(LastLock(g).coll)
              /\ g \in Readers(LastLock(g).coll, Receiver(g))
              /\ readers[LastLock(g).coll][Receiver(g)] \in Nat
              /\ readers[LastLock(g).coll][Receiver(g)] > 0
<1> DEFINE k == LastLock(g)
           o == Receiver(g)
<1>1. k \in Kinds /\ k.coll \in Colls /\ o \in Objs /\ Has(g, k, o)
  BY AtUnlockFacts DEF LastLock
<1> HIDE DEF k, o
<1>2. Mutex(k.coll, o)
  BY <1>1 DEF ServerInv, Mutexes
<1>3. k.mode = "w" => wlock[k.coll][o] = "held"
  <2> HAVE k.mode = "w"
  <2>1. k = W(k.coll)
    BY <1>1, KindFacts, "w" # "r"
  <2>2. Has(g, W(k.coll), o)
    BY <1>1, <2>1
  <2> QED
    BY <1>2, <2>2 DEF Mutex
<1>4. k.mode # "w" => /\ k = R(k.coll) /\ g \in Readers(k.coll, o)
                      /\ readers[k.coll][o] \in Nat /\ readers[k.coll][o] > 0
  <2> HAVE k.mode # "w"
  <2>1. k = R(k.coll)
    BY <1>1, KindFacts
  <2>2. g \in Readers(k.coll, o)
    BY <1>1, <2>1 DEF Readers
  <2>3. /\ IsFiniteSet(Readers(k.coll, o))
        /\ readers[k.coll][o] = Cardinality(Readers(k.coll, o))
    BY <1>2 DEF Mutex
  <2>4. readers[k.coll][o] \in Nat
    BY <2>3, FS_CardinalityType
  <2>5. readers[k.coll][o] # 0
    BY <2>2, <2>3, FS_EmptySet
  <2> QED
    BY <2>1, <2>2, <2>4, <2>5, SMTT(30)
<1> QED
  BY <1>3, <1>4 DEF k, o

\* The readers that a writer lets in are requests that are served, and those
\* are finitely many.
LEMMA WaitingFinite ==
  ASSUME ServerInv, NEW T, T \subseteq {a \in Agents : pc[a] = "wait"}
  PROVE  IsFiniteSet(T) /\ Cardinality(T) \in Nat
<1>1. T \subseteq Serving \cup {Flusher}
  BY "wait" # "release", "wait" # "idle", "wait" # "acquire", NamesAssumption
  DEF ServerInv, TypeOK, Database, Serving, Agents
<1>2. IsFiniteSet(Serving \cup {Flusher})
  BY FS_AddElement DEF ServerInv, Database
<1>3. IsFiniteSet(T)
  BY <1>1, <1>2, FS_Subset
<1> QED
  BY <1>3, FS_CardinalityType

\* While the flusher is at work no request is between acquire and release.
LEMMA FlusherAlone ==
  ASSUME ServerInv, pc[Flusher] # "idle"
  PROVE  \A g \in Reqs : pc[g] \in Outside
<1>1. closing # Nil /\ Cardinality(Serving) = 0 /\ pc[closing] = "release" /\ IsFiniteSet(Serving)
  BY DEF ServerInv, Database
<1>2. Serving = {}
  BY <1>1, FS_EmptySet
<1> QED
  BY <1>1, <1>2 DEF Serving, Outside

\* An agent that has pointers has them from the factory as it is, but for
\* the flusher that has just flushed.
LEMMA PointerFacts ==
  ASSUME ServerInv, NEW g \in Agents, NEW i \in 1..Len(ptr[g]), pc[Flusher] # "unlock"
  PROVE  /\ ptr[g][i] \in Objs /\ ptr[g][i] = object[Locks(call[g])[i].coll]
         /\ object[Locks(call[g])[i].coll] # Nil
<1>1. ptr[g] \in Seq(Objs)
  BY DEF ServerInv, TypeOK
<1>2. ptr[g][i] \in Objs
  BY <1>1, SMTT(30)
<1>3. ptr[g][i] = object[Locks(call[g])[i].coll]
  BY DEF ServerInv, Pointed, Attached
<1> QED
  BY <1>2, <1>3, NamesAssumption

\* as long as an agent gets or locks collections the flusher has not flushed
LEMMA NotFlushed ==
  ASSUME ServerInv, NEW g \in Agents, pc[g] \notin Outside, pc[g] # "unlock"
  PROVE  pc[Flusher] # "unlock"
<1>1. g \in Reqs \/ g = Flusher
  BY DEF Agents
<1> QED
  BY <1>1, FlusherAlone, "unlock" # "idle"

\* The deferred Unlock of a call is bound to the object that the call has
\* locked, also when it asks the factory again.
LEMMA DeferFacts ==
  ASSUME ServerInv, NEW g \in Agents, Defer(g)
  PROVE  /\ UNCHANGED <<factory, mutexes>>
         /\ dfr' = [dfr EXCEPT ![g] = Append(@, ptr[g][held[g] + 1])]
<1>1. pc[g] \in AtLock
  BY DEF Defer, AtLock
<1>2. object[NextLock(g).coll] # Nil /\ ptr[g][held[g] + 1] = object[NextLock(g).coll]
  BY <1>1, AtLockFacts, NamesAssumption
<1>3. PICK o \in Objs : /\ IF call[g] = "apiGraph"
                           THEN Lookup(NextLock(g).coll, o)
                           ELSE o = ptr[g][held[g] + 1] /\ UNCHANGED <<factory, mutexes>>
                        /\ dfr' = [dfr EXCEPT ![g] = Append(@, o)]
  BY DEF Defer
<1>4. o = ptr[g][held[g] + 1] /\ UNCHANGED <<factory, mutexes>>
  BY <1>2, <1>3 DEF Lookup
<1> QED
  BY <1>3, <1>4
----------------------------------------------------------------------------
(* Types                                                                   *)

\* to change what one mutex, one agent has
LEMMA OneMutex ==
  ASSUME NEW S, NEW f \in [Colls -> [Objs -> S]], NEW c \in Colls, NEW o \in Objs, NEW v \in S
  PROVE  [f EXCEPT ![c][o] = v] \in [Colls -> [Objs -> S]]
  OBVIOUS

LEMMA OneAgent ==
  ASSUME NEW S, NEW f \in [Agents -> S], NEW g \in Agents, NEW v \in S
  PROVE  [f EXCEPT ![g] = v] \in [Agents -> S]
  OBVIOUS

\* what the factory and its mutexes are after a lookup
LEMMA LookupTypes ==
  ASSUME TypeOK, NEW c \in Colls, NEW o \in Objs, Lookup(c, o)
  PROVE  /\ object' \in [Colls -> Objs \cup {Nil}] /\ stale' \in [Colls -> SUBSET Objs]
         /\ wlock' \in [Colls -> [Objs -> {"free", "pending", "held"}]]
         /\ readers' \in [Colls -> [Objs -> Nat]]
<1>1. /\ object \in [Colls -> Objs \cup {Nil}] /\ stale \in [Colls -> SUBSET Objs]
      /\ wlock \in [Colls -> [Objs -> {"free", "pending", "held"}]]
      /\ readers \in [Colls -> [Objs -> Nat]]
  BY DEF TypeOK
<1>2. CASE object[c] # Nil
  BY <1>1, <1>2 DEF Lookup, factory, mutexes
<1>3. CASE object[c] = Nil
  <2>1. /\ object' = [object EXCEPT ![c] = o]
        /\ stale' = [stale EXCEPT ![c] = @ \ {o}]
        /\ wlock' = [wlock EXCEPT ![c][o] = "free"]
        /\ readers' = [readers EXCEPT ![c][o] = 0]
    BY <1>3 DEF Lookup
  <2> QED
    BY <1>1, <2>1
<1> QED
  BY <1>2, <1>3

\* the steps of a call up to its body
LEMMA LockTypes ==
  ASSUME ServerInv, NEW g \in Agents, UNCHANGED mode,
         Fetch(g) \/ Lock(g) \/ LockGranted(g) \/ RLock(g) \/ Defer(g)
  PROVE  TypeOK'
<1>0. TypeOK
  BY DEF ServerInv
<1>1. CASE Fetch(g)
  <2>1. PICK o \in Objs : /\ Lookup(NextLock(g).coll, o)
                          /\ ptr' = [ptr EXCEPT ![g] = Append(@, o)]
    BY <1>1 DEF Fetch
  <2>2. NextLock(g).coll \in Colls
    BY <1>1, AtFetchFacts DEF Fetch
  <2>3. /\ object' \in [Colls -> Objs \cup {Nil}] /\ stale' \in [Colls -> SUBSET Objs]
        /\ wlock' \in [Colls -> [Objs -> {"free", "pending", "held"}]]
        /\ readers' \in [Colls -> [Objs -> Nat]]
    BY <1>0, <2>1, <2>2, LookupTypes
  <2>4. ptr' \in [Agents -> Seq(Objs)]
    BY <1>0, <2>1, SMTT(30) DEF TypeOK
  <2>5. pc' = [pc EXCEPT ![g] = "lock"] /\ UNCHANGED <<call, held, dfr, clients, closing, open, up>>
    BY <1>1 DEF Fetch, dbvars
  <2> QED
    BY <1>0, <2>3, <2>4, <2>5 DEF TypeOK
<1>2. CASE Lock(g) \/ LockGranted(g) \/ RLock(g)
  <2> DEFINE c == NextLock(g).coll
             o == ptr[g][held[g] + 1]
  <2>1. pc[g] \in AtLock
    BY <1>2 DEF Lock, LockGranted, RLock, AtLock
  <2>2. c \in Colls /\ o \in Objs
    BY <2>1, AtLockFacts
  <2>3. PICK ph \in {"pending", "defer", "wait"} : pc' = [pc EXCEPT ![g] = ph]
    BY <1>2 DEF Lock, LockGranted, RLock
  <2>4. PICK s \in {"free", "pending", "held"} : wlock' = [wlock EXCEPT ![c][o] = s] \/ wlock' = wlock
    BY <1>2 DEF Lock, LockGranted, RLock
  <2>5. readers' = [readers EXCEPT ![c][o] = @ + 1] \/ readers' = readers
    BY <1>2 DEF Lock, LockGranted, RLock
  <2>6. UNCHANGED <<object, stale, call, held, ptr, dfr, clients, closing, open, up>>
    BY <1>2 DEF Lock, LockGranted, RLock, factory, dbvars
  <2> HIDE DEF c, o
  <2>7. wlock' \in [Colls -> [Objs -> {"free", "pending", "held"}]]
    <3>1. wlock \in [Colls -> [Objs -> {"free", "pending", "held"}]]
      BY <1>0 DEF TypeOK
    <3>2. [wlock EXCEPT ![c][o] = s] \in [Colls -> [Objs -> {"free", "pending", "held"}]]
      BY <2>2, <3>1, OneMutex
    <3> QED
      BY <2>4, <3>1, <3>2
  <2>8. readers' \in [Colls -> [Objs -> Nat]]
    <3>1. readers \in [Colls -> [Objs -> Nat]]
      BY <1>0 DEF TypeOK
    <3>2. readers[c][o] + 1 \in Nat
      BY <2>2, <3>1, SMTT(30)
    <3>3. [readers EXCEPT ![c][o] = readers[c][o] + 1] \in [Colls -> [Objs -> Nat]]
      BY <2>2, <3>1, <3>2, OneMutex
    <3> QED
      BY <2>5, <3>1, <3>3
  <2>9. pc' \in [Agents -> {"idle", "acquire", "fetch", "lock", "pending", "wait",
                           "defer", "body", "unlock", "release"}]
    BY <1>0, <2>3 DEF TypeOK
  <2> QED
    BY <1>0, <2>6, <2>7, <2>8, <2>9 DEF TypeOK
<1>3. CASE Defer(g)
  <2>1. ptr[g][held[g] + 1] \in Objs
    BY <1>3, AtLockFacts DEF Defer, AtLock
  <2>2. /\ UNCHANGED <<object, stale, wlock, readers, call, ptr, clients, closing, open, up>>
        /\ dfr' = [dfr EXCEPT ![g] = Append(@, ptr[g][held[g] + 1])]
    BY <1>3, DeferFacts DEF Defer, factory, mutexes, dbvars
  <2>3. dfr' \in [Agents -> Seq(Objs)]
    BY <1>0, <2>1, <2>2, SMTT(30) DEF TypeOK
  <2>4. PICK ph \in {"body", "fetch"} : pc' = [pc EXCEPT ![g] = ph]
    BY <1>3 DEF Defer
  <2>5. held' \in [Agents -> Nat]
    <3>1. held' = [held EXCEPT ![g] = held[g] + 1] /\ held \in [Agents -> Nat]
      BY <1>0, <1>3 DEF TypeOK, Defer
    <3> QED
      BY <3>1, SMTT(30)
  <2>6. pc' \in [Agents -> {"idle", "acquire", "fetch", "lock", "pending", "wait",
                           "defer", "body", "unlock", "release"}]
    BY <1>0, <2>4 DEF TypeOK
  <2> QED
    BY <1>0, <2>2, <2>3, <2>5, <2>6 DEF TypeOK
<1> QED
  BY <1>1, <1>2, <1>3

\* the objects that anybody refers to
LEMMA PointersType ==
  ASSUME TypeOK, NEW c \in Colls
  PROVE  Pointers(c) \ {Nil} \in SUBSET Objs
<1> SUFFICES ASSUME NEW q \in Pointers(c), q # Nil PROVE q \in Objs
  OBVIOUS
<1>1. \A a \in Agents : ptr[a] \in Seq(Objs) /\ dfr[a] \in Seq(Objs)
  BY DEF TypeOK
<1>2. \A a \in Agents : \A i \in DOMAIN ptr[a] : ptr[a][i] \in Objs
  BY <1>1, SMTT(30)
<1>3. \A a \in Agents : \A i \in DOMAIN dfr[a] : dfr[a][i] \in Objs
  BY <1>1, SMTT(30)
<1>4. object[c] \in Objs \cup {Nil}
  BY DEF TypeOK
<1>5. \/ q = object[c]
      \/ \E a \in Agents : \/ \E i \in DOMAIN ptr[a] : q = ptr[a][i]
                           \/ \E i \in DOMAIN dfr[a] : q = dfr[a][i]
  BY DEF Pointers
<1> QED
  BY <1>2, <1>3, <1>4, <1>5

\* the agents that an Unlock of o for writing lets in
Admitted(c, o) ==
  {a \in Agents : pc[a] = "wait" /\ NextLock(a).coll = c /\ ptr[a][held[a] + 1] = o}

\* what an Unlock does when it finds its mutex locked
Unlocks(g, k, o) ==
  /\ pc[g] = "unlock" /\ up' = up
  /\ IF k.mode = "w"
     THEN /\ wlock' = [wlock EXCEPT ![k.coll][o] = "free"]
          /\ readers' = [readers EXCEPT ![k.coll][o] = Cardinality(Admitted(k.coll, o))]
     ELSE readers' = [readers EXCEPT ![k.coll][o] = @ - 1] /\ wlock' = wlock
  /\ pc' = [a \in Agents |->
              IF a = g THEN IF held[g] = 1 THEN Done(g) ELSE "unlock"
              ELSE IF k.mode = "w" /\ a \in Admitted(k.coll, o) THEN "defer" ELSE pc[a]]
  /\ held' = [held EXCEPT ![g] = @ - 1]
  /\ IF held[g] = 1
     THEN /\ ptr' = [ptr EXCEPT ![g] = <<>>] /\ dfr' = [dfr EXCEPT ![g] = <<>>]
          /\ call' = [call EXCEPT ![g] = "none"]
     ELSE ptr' = ptr /\ dfr' = dfr /\ call' = call
  /\ UNCHANGED <<object, stale, clients, closing, open>>

\* an Unlock always finds it locked
LEMMA UnlockStep ==
  ASSUME ServerInv, NEW g \in Agents, Unlock(g)
  PROVE  Unlocks(g, LastLock(g), Receiver(g))
<1> DEFINE k == LastLock(g)
           o == Receiver(g)
           T == {a \in Agents : pc[a] = "wait" /\ NextLock(a).coll = k.coll
                                /\ ptr[a][held[a] + 1] = o}
<1>1. pc[g] = "unlock"
  BY DEF Unlock
<1>2. k.mode = "w" => wlock[k.coll][o] = "held"
  BY <1>1, UnlockSound
<1>3. /\ up' = up
      /\ IF k.mode = "w"
         THEN /\ wlock' = [wlock EXCEPT ![k.coll][o] = "free"]
              /\ readers' = [readers EXCEPT ![k.coll][o] = Cardinality(T)]
         ELSE readers' = [readers EXCEPT ![k.coll][o] = @ - 1] /\ wlock' = wlock
      /\ pc' = [a \in Agents |->
                  IF a = g THEN IF held[g] = 1 THEN Done(g) ELSE "unlock"
                  ELSE IF k.mode = "w" /\ a \in T THEN "defer" ELSE pc[a]]
      /\ held' = [held EXCEPT ![g] = @ - 1]
      /\ IF held[g] = 1
         THEN /\ ptr' = [ptr EXCEPT ![g] = <<>>] /\ dfr' = [dfr EXCEPT ![g] = <<>>]
              /\ call' = [call EXCEPT ![g] = "none"]
         ELSE ptr' = ptr /\ dfr' = dfr /\ call' = call
  BY <1>2 DEF Unlock, LastLock
<1>4. UNCHANGED <<object, stale, clients, closing, open>>
  BY DEF Unlock, factory, dbvars
<1>5. T = Admitted(k.coll, o)
  BY DEF Admitted
<1>6. Unlocks(g, k, o)
  <2> HIDE DEF k, o, T
  <2> QED
    BY <1>1, <1>3, <1>4, <1>5 DEF Unlocks
<1> QED
  BY <1>6

\* the body of a call and what comes after it
LEMMA UnlockTypes ==
  ASSUME ServerInv, NEW g \in Agents, UNCHANGED mode,
         EarlyReturn(g) \/ Body(g) \/ Flush(g) \/ Unlock(g)
  PROVE  TypeOK' /\ up'
<1>0. TypeOK /\ up
  BY DEF ServerInv
<1>1. CASE EarlyReturn(g)
  <2>1. PICK ph \in {"idle", "release", "unlock"} : pc' = [pc EXCEPT ![g] = ph]
    BY <1>1 DEF EarlyReturn, Done
  <2>2. call' = [call EXCEPT ![g] = "none"] \/ call' = call
    BY <1>1 DEF EarlyReturn
  <2> QED
    BY <1>0, <1>1, <2>1, <2>2 DEF EarlyReturn, TypeOK, factory, mutexes, dbvars
<1>2. CASE Body(g)
  <2>1. \A c \in Colls : Pointers(c) \ {Nil} \in SUBSET Objs
    BY <1>0, PointersType
  <2>2. stale' \in [Colls -> SUBSET Objs]
    <3>1. stale \in [Colls -> SUBSET Objs]
      BY <1>0 DEF TypeOK
    <3>2. CASE UNCHANGED stale
      BY <3>1, <3>2
    <3>3. CASE stale' = [c \in Colls |->
                           IF c \in Writes(call[g])
                           THEN stale[c] \cup (Pointers(c) \ {PtrOf(g, c), Nil}) ELSE stale[c]]
      <4>1. \A c \in Colls : stale[c] \cup (Pointers(c) \ {PtrOf(g, c), Nil}) \in SUBSET Objs
        BY <2>1, <3>1
      <4> QED
        BY <3>1, <3>3, <4>1
    <3> QED
      BY <1>2, <3>2, <3>3 DEF Body
  <2>3. pc' = [pc EXCEPT ![g] = "unlock"]
    BY <1>2 DEF Body
  <2> QED
    BY <1>0, <1>2, <2>2, <2>3 DEF Body, TypeOK, mutexes, dbvars
<1>3. CASE Flush(g)
  BY <1>0, <1>3 DEF Flush, TypeOK, mutexes, dbvars
<1>4. CASE Unlock(g)
  <2> DEFINE k == LastLock(g)
             o == Receiver(g)
             T == Admitted(k.coll, o)
  <2>1. k.coll \in Colls /\ o \in Objs /\ held[g] \in Nat /\ held[g] \in 1..Len(ptr[g])
    BY <1>4, AtUnlockFacts DEF Unlock, LastLock
  <2>2. k.mode # "w" => readers[k.coll][o] \in Nat /\ readers[k.coll][o] > 0
    BY <1>4, UnlockSound DEF Unlock
  <2>3. Cardinality(T) \in Nat
    <3>1. T \subseteq {a \in Agents : pc[a] = "wait"}
      BY DEF Admitted
    <3> HIDE DEF T
    <3> QED
      BY <3>1, WaitingFinite
  <2>4. Unlocks(g, k, o)
    BY <1>4, UnlockStep
  <2> HIDE DEF k, o
  <2>5. UNCHANGED <<object, stale, clients, closing, open>> /\ up' = up
    BY <2>4 DEF Unlocks
  <2>6. wlock' \in [Colls -> [Objs -> {"free", "pending", "held"}]]
    <3>1. wlock \in [Colls -> [Objs -> {"free", "pending", "held"}]]
      BY <1>0 DEF TypeOK
    <3>2. [wlock EXCEPT ![k.coll][o] = "free"] \in [Colls -> [Objs -> {"free", "pending", "held"}]]
      BY <2>1, <3>1, OneMutex
    <3> QED
      BY <2>4, <3>1, <3>2 DEF Unlocks
  <2>7. readers' \in [Colls -> [Objs -> Nat]]
    <3>1. k.mode # "w" => readers[k.coll][o] - 1 \in Nat
      BY <2>2, SMTT(30)
    <3>2. \/ readers' = [readers EXCEPT ![k.coll][o] = Cardinality(T)]
          \/ k.mode # "w" /\ readers' = [readers EXCEPT ![k.coll][o] = readers[k.coll][o] - 1]
      BY <2>4 DEF Unlocks
    <3>3. readers \in [Colls -> [Objs -> Nat]]
      BY <1>0 DEF TypeOK
    <3>4. \A n \in Nat : [readers EXCEPT ![k.coll][o] = n] \in [Colls -> [Objs -> Nat]]
      BY <2>1, <3>3, OneMutex
    <3> QED
      BY <2>3, <3>1, <3>2, <3>4
  <2>8. pc' \in [Agents -> {"idle", "acquire", "fetch", "lock", "pending", "wait",
                           "defer", "body", "unlock", "release"}]
    <3> DEFINE P == {"idle", "acquire", "fetch", "lock", "pending", "wait",
                     "defer", "body", "unlock", "release"}
    <3>1. \A a \in Agents : pc[a] \in P
      BY <1>0 DEF TypeOK
    <3>2. Done(g) \in P
      BY DEF Done
    <3>3. pc' = [a \in Agents |->
                  IF a = g THEN IF held[g] = 1 THEN Done(g) ELSE "unlock"
                  ELSE IF k.mode = "w" /\ a \in T THEN "defer" ELSE pc[a]]
      BY <2>4 DEF Unlocks
    <3>4. "unlock" \in P /\ "defer" \in P
      OBVIOUS
    <3> HIDE DEF P, T
    <3>5. pc' \in [Agents -> P]
      BY <3>1, <3>2, <3>3, <3>4
    <3> QED
      BY <3>5 DEF P
  <2>9. held' \in [Agents -> Nat]
    <3>1. held' = [held EXCEPT ![g] = held[g] - 1] /\ held \in [Agents -> Nat]
      BY <1>0, <2>4 DEF TypeOK, Unlocks
    <3>2. held[g] - 1 \in Nat
      BY <2>1, SMTT(30)
    <3> QED
      BY <3>1, <3>2, OneAgent
  <2>10. ptr' \in [Agents -> Seq(Objs)] /\ dfr' \in [Agents -> Seq(Objs)]
    <3>1. ptr \in [Agents -> Seq(Objs)] /\ dfr \in [Agents -> Seq(Objs)]
      BY <1>0 DEF TypeOK
    <3>2. /\ [ptr EXCEPT ![g] = <<>>] \in [Agents -> Seq(Objs)]
          /\ [dfr EXCEPT ![g] = <<>>] \in [Agents -> Seq(Objs)]
      BY <3>1, SMTT(30)
    <3> QED
      BY <2>4, <3>1, <3>2 DEF Unlocks
  <2>11. call' \in [Agents -> Handlers \cup {"flush", "none"}]
    <3>1. "none" \in Handlers \cup {"flush", "none"}
      OBVIOUS
    <3> QED
      BY <1>0, <2>4, <3>1, OneAgent DEF TypeOK, Unlocks
  <2> QED
    BY <1>0, <2>5, <2>6, <2>7, <2>8, <2>9, <2>10, <2>11 DEF TypeOK
<1> QED
  BY <1>1, <1>2, <1>3, <1>4

\* the steps between requests
LEMMA OtherTypes ==
  ASSUME ServerInv, mode.noLock, UNCHANGED mode,
         \/ \E g \in Reqs : \/ \E h \in mode.calls : Request(g, h)
                            \/ AcquireDatabase(g) \/ ReleaseDatabase(g)
         \/ CloseDatabase \/ OtherProcess
  PROVE  TypeOK'
<1> DEFINE Phases == {"idle", "acquire", "fetch", "lock", "pending", "wait",
                      "defer", "body", "unlock", "release"}
<1>0. /\ TypeOK /\ up /\ mode.calls \subseteq Handlers /\ Flusher \in Agents
      /\ Reqs \subseteq Agents
  BY ModesAssumption DEF ServerInv, TypeOK, Agents
<1>1. ASSUME NEW g \in Reqs, \E h \in mode.calls : Request(g, h) PROVE TypeOK'
  <2>1. PICK h \in Handlers : Request(g, h)
    BY <1>0, <1>1
  <2>2. call' = [call EXCEPT ![g] = h] /\ pc' = [pc EXCEPT ![g] = "acquire"]
    BY <2>1 DEF Request
  <2> QED
    BY <1>0, <2>1, <2>2, SMTT(30) DEF Request, TypeOK, factory, mutexes, dbvars
<1>2. ASSUME NEW g \in Reqs, AcquireDatabase(g) PROVE TypeOK'
  <2>1. PICK ph \in {"fetch", "idle"} : pc' = [pc EXCEPT ![g] = ph]
    BY <1>2 DEF AcquireDatabase
  <2>2. /\ clients' = clients + 1 \/ clients' = clients
        /\ open' = TRUE \/ open' = open
        /\ call' = call \/ call' = [call EXCEPT ![g] = "none"]
        /\ UNCHANGED <<factory, mutexes, held, ptr, dfr, closing, up>>
    BY <1>2 DEF AcquireDatabase
  <2> QED
    <3>1. pc' \in [Agents -> Phases]
      BY <1>0, <2>1 DEF TypeOK
    <3>2. call' \in [Agents -> Handlers \cup {"flush", "none"}]
      <4>1. call \in [Agents -> Handlers \cup {"flush", "none"}]
        BY <1>0 DEF TypeOK
      <4> QED
        BY <1>0, <2>2, <4>1
    <3>3. clients' \in Nat
      <4>1. clients \in Nat
        BY <1>0 DEF TypeOK
      <4>2. clients' = clients + 1 \/ clients' = clients
        BY <2>2
      <4> QED
        BY <4>1, <4>2, SMT
    <3>4. open' \in BOOLEAN
      BY <1>0, <2>2 DEF TypeOK
    <3> QED
      BY <1>0, <2>2, <3>1, <3>2, <3>3, <3>4 DEF TypeOK, factory, mutexes
<1>3. ASSUME NEW g \in Reqs, ReleaseDatabase(g) PROVE TypeOK'
  <2>1. clients - 1 \in Nat
    <3>1. g \in Serving
      BY <1>3, NamesAssumption DEF ReleaseDatabase, Serving
    <3>2. clients # 0 /\ clients \in Nat
      BY <3>1, FS_EmptySet DEF ServerInv, Database, TypeOK
    <3> QED
      BY <3>2, SMTT(30)
  <2>2. pc' \in [Agents -> Phases]
    <3>1. pc' = [pc EXCEPT ![Flusher] = "fetch"] \/ pc' = [pc EXCEPT ![g] = "idle"]
      BY <1>3 DEF ReleaseDatabase, StartFlush
    <3> QED
      BY <1>0, <3>1 DEF TypeOK
  <2>3. call' \in [Agents -> Handlers \cup {"flush", "none"}]
    <3>1. call' = [call EXCEPT ![Flusher] = "flush"] \/ call' = call
      BY <1>3 DEF ReleaseDatabase
    <3>2. call \in [Agents -> Handlers \cup {"flush", "none"}]
      BY <1>0 DEF TypeOK
    <3> QED
      BY <1>0, <3>1, <3>2
  <2>4. /\ closing' \in Reqs \cup {Nil} /\ clients' = clients - 1
        /\ UNCHANGED <<factory, mutexes, held, ptr, dfr, open, up>>
    BY <1>3 DEF ReleaseDatabase
  <2> QED
    BY <1>0, <2>1, <2>2, <2>3, <2>4 DEF TypeOK, factory, mutexes
<1>4. CASE CloseDatabase
  <2>1. closing \in Reqs
    BY <1>0, <1>4 DEF CloseDatabase, TypeOK
  <2> QED
    <3>1. pc' = [pc EXCEPT ![closing] = "idle"] /\ closing \in Agents
      BY <1>0, <1>4, <2>1 DEF CloseDatabase
    <3>2. pc' \in [Agents -> Phases]
      BY <1>0, <3>1 DEF TypeOK
    <3> QED
      BY <1>0, <1>4, <3>2 DEF CloseDatabase, TypeOK, factory, mutexes
<1>5. CASE OtherProcess
  <2>1. \A c \in Colls : Pointers(c) \ {Nil} \in SUBSET Objs
    BY <1>0, PointersType
  <2>2. stale' \in [Colls -> SUBSET Objs]
    BY <1>5, <2>1 DEF OtherProcess
  <2>3. UNCHANGED <<object, mutexes, agents, dbvars, up>>
    BY <1>5 DEF OtherProcess
  <2> QED
    BY <1>0, <2>2, <2>3 DEF TypeOK, mutexes, agents, dbvars
<1> QED
  BY <1>1, <1>2, <1>3, <1>4, <1>5

----------------------------------------------------------------------------
(* acquireDatabase counts the requests that are served                     *)

\* A call goes its way between acquire and release, and the flusher goes from
\* idle to idle.
LEMMA RunPhases ==
  ASSUME ServerInv, mode.noLock, NEW g \in Agents, Run(g), NEW a \in Agents
  PROVE  /\ pc[a] \in Outside => pc'[a] = pc[a]
         /\ pc[a] \notin Outside /\ a \in Reqs => pc'[a] \notin {"idle", "acquire"}
         /\ a = Flusher => pc'[a] \notin {"acquire", "release"}
<1>0. /\ pc \in [Agents -> {"idle", "acquire", "fetch", "lock", "pending", "wait",
                            "defer", "body", "unlock", "release"}]
      /\ pc[Flusher] \notin {"acquire", "release"} /\ Flusher \notin Reqs
  BY NamesAssumption DEF ServerInv, TypeOK, Database
<1>1. pc[g] \notin Outside
  BY DEF Run, Fetch, Lock, LockGranted, RLock, Defer, EarlyReturn, UseUnlocked, Body, Flush,
         Unlock, Outside
<1>2. CASE Unlock(g)
  <2>1. \/ pc'[a] = pc[a]
        \/ a = g /\ pc'[a] \in {Done(g), "unlock"}
        \/ pc[a] = "wait" /\ pc'[a] = "defer"
    BY <1>2 DEF Unlock, agents
  <2>2. Done(g) = IF g = Flusher THEN "idle" ELSE "release"
    BY <1>0 DEF Done, Agents
  <2>3. CASE pc'[a] = pc[a]
    BY <1>0, <2>3 DEF Outside
  <2>4. CASE a = g /\ pc'[a] \in {Done(g), "unlock"}
    BY <1>0, <1>1, <2>2, <2>4
  <2>5. CASE pc[a] = "wait" /\ pc'[a] = "defer"
    BY <2>5 DEF Outside
  <2> QED
    BY <2>1, <2>3, <2>4, <2>5
<1>3. CASE EarlyReturn(g)
  <2>1. PICK ph \in {"release", "unlock"} : pc' = [pc EXCEPT ![g] = ph]
    BY <1>3 DEF EarlyReturn, Done
  <2>2. g # Flusher /\ (pc'[a] = pc[a] \/ (a = g /\ pc'[a] = ph))
    BY <1>0, <1>3, <2>1 DEF EarlyReturn
  <2> QED
    BY <1>0, <1>1, <2>2 DEF Outside
<1>4. CASE Fetch(g) \/ Lock(g) \/ LockGranted(g) \/ RLock(g) \/ Defer(g) \/ Body(g) \/ Flush(g)
  <2>1. PICK ph \in {"lock", "pending", "wait", "defer", "body", "fetch", "unlock"} :
          pc' = [pc EXCEPT ![g] = ph]
    BY <1>4 DEF Fetch, Lock, LockGranted, RLock, Defer, Body, Flush
  <2>2. pc'[a] = pc[a] \/ (a = g /\ pc'[a] = ph)
    BY <1>0, <2>1
  <2> QED
    BY <1>0, <1>1, <2>2 DEF Outside
<1>5. CASE UseUnlocked(g)
  BY <1>0, <1>5 DEF UseUnlocked, agents, Outside
<1> QED
  BY <1>2, <1>3, <1>4, <1>5 DEF Run

\* Steps of calls leave the count right.
LEMMA RunDatabase ==
  ASSUME ServerInv, mode.noLock, NEW g \in Agents, Run(g)
  PROVE  Database'
<1>0. /\ UNCHANGED <<clients, closing, open>> /\ Flusher \in Agents /\ Reqs \subseteq Agents
      /\ closing \in Reqs \cup {Nil} /\ Flusher \notin Reqs
  <2>1. UNCHANGED dbvars
    BY DEF Run, Fetch, Lock, LockGranted, RLock, Defer, EarlyReturn, UseUnlocked, Body,
           Flush, Unlock
  <2> QED
    BY <2>1, NamesAssumption DEF dbvars, Agents, ServerInv, TypeOK
<1>1. pc[g] \notin Outside
  BY DEF Run, Fetch, Lock, LockGranted, RLock, Defer, EarlyReturn, UseUnlocked, Body, Flush,
         Unlock, Outside
<1>2. \A a \in Agents : /\ pc[a] \in Outside => pc'[a] = pc[a]
                        /\ pc[a] \notin Outside /\ a \in Reqs => pc'[a] \notin {"idle", "acquire"}
                        /\ a = Flusher => pc'[a] \notin {"acquire", "release"}
  BY RunPhases
<1>3. Serving' = Serving
  <2>1. \A a \in Reqs : pc'[a] \in {"idle", "acquire"} <=> pc[a] \in {"idle", "acquire"}
    BY <1>0, <1>2 DEF Outside
  <2> QED
    BY <1>0, <2>1 DEF Serving
<1>4. closing # Nil => pc'[closing] = "release"
  BY <1>0, <1>2 DEF ServerInv, Database, Outside
<1>5. closing = Nil => pc'[Flusher] = "idle"
  BY <1>0, <1>2 DEF ServerInv, Database, Outside
<1> QED
  BY <1>0, <1>2, <1>3, <1>4, <1>5 DEF ServerInv, Database

\* So does a request that comes, and acquireDatabase when it lets one in or
\* refuses it.
LEMMA AcquireKept ==
  ASSUME ServerInv, mode.noLock, NEW g \in Reqs,
         (\E h \in mode.calls : Request(g, h)) \/ AcquireDatabase(g)
  PROVE  Database'
<1>0. /\ pc \in [Agents -> {"idle", "acquire", "fetch", "lock", "pending", "wait",
                            "defer", "body", "unlock", "release"}]
      /\ Reqs \subseteq Agents /\ Flusher \in Agents /\ Flusher \notin Reqs
      /\ IsFiniteSet(Serving) /\ clients = Cardinality(Serving) /\ clients \in Nat
      /\ closing # Nil => clients = 0 /\ pc[closing] = "release"
      /\ Database
  BY NamesAssumption DEF ServerInv, TypeOK, Database, Agents
<1>1. CASE \E h \in mode.calls : Request(g, h)
  <2>1. pc[g] = "idle" /\ pc' = [pc EXCEPT ![g] = "acquire"] /\ UNCHANGED <<clients, closing, open>>
    BY <1>1 DEF Request, dbvars
  <2>2. \A a \in Agents : pc'[a] = IF a = g THEN "acquire" ELSE pc[a]
    BY <1>0, <2>1
  <2>3. Serving' = Serving
    BY <1>0, <2>1, <2>2 DEF Serving
  <2>4. pc'[Flusher] = pc[Flusher] /\ (closing # Nil => pc'[closing] = "release")
    BY <1>0, <2>1, <2>2, SMTT(30)
  <2> QED
    BY <1>0, <2>1, <2>3, <2>4 DEF Database
<1>2. CASE AcquireDatabase(g) /\ clients' = clients + 1
  <2>1. /\ pc[g] = "acquire" /\ closing = Nil /\ closing' = Nil
        /\ (open' = TRUE /\ pc' = [pc EXCEPT ![g] = "fetch"]) \/ clients' = clients
    BY <1>2 DEF AcquireDatabase
  <2>2. open' /\ pc' = [pc EXCEPT ![g] = "fetch"]
    BY <1>0, <1>2, <2>1, SMTT(30)
  <2>3. \A a \in Agents : pc'[a] = IF a = g THEN "fetch" ELSE pc[a]
    BY <1>0, <2>2
  <2>4. Serving' = Serving \cup {g} /\ g \notin Serving
    BY <1>0, <2>1, <2>3, NamesAssumption DEF Serving
  <2>5. IsFiniteSet(Serving') /\ Cardinality(Serving') = Cardinality(Serving) + 1
    BY <1>0, <2>4, FS_AddElement
  <2>6. pc'[Flusher] = pc[Flusher]
    BY <1>0, <2>3
  <2> QED
    BY <1>0, <1>2, <2>1, <2>2, <2>5, <2>6 DEF Database
<1>3. CASE AcquireDatabase(g) /\ ~(clients' = clients + 1)
  <2>1. /\ pc[g] = "acquire" /\ closing = Nil /\ pc' = [pc EXCEPT ![g] = "idle"]
        /\ UNCHANGED <<clients, closing, open>>
    BY <1>3 DEF AcquireDatabase
  <2>2. \A a \in Agents : pc'[a] = IF a = g THEN "idle" ELSE pc[a]
    BY <1>0, <2>1
  <2>3. Serving' = Serving
    BY <1>0, <2>1, <2>2 DEF Serving
  <2>4. pc'[Flusher] = pc[Flusher]
    BY <1>0, <2>2
  <2> QED
    BY <1>0, <2>1, <2>3, <2>4 DEF Database
<1> QED
  BY <1>1, <1>2, <1>3

\* The last request out is no longer counted, and starts the flusher; the
\* others go.
LEMMA ReleaseKept ==
  ASSUME ServerInv, mode.noLock, NEW g \in Reqs, ReleaseDatabase(g)
  PROVE  Database'
<1>0. /\ pc \in [Agents -> {"idle", "acquire", "fetch", "lock", "pending", "wait",
                            "defer", "body", "unlock", "release"}]
      /\ Reqs \subseteq Agents /\ Flusher \in Agents /\ Flusher \notin Reqs /\ Nil \notin Reqs
      /\ IsFiniteSet(Serving) /\ clients = Cardinality(Serving) /\ clients \in Nat
      /\ Database /\ closing = Nil /\ pc[g] = "release" /\ pc[Flusher] = "idle"
  BY NamesAssumption DEF ServerInv, TypeOK, Database, Agents, ReleaseDatabase
<1>1. g \in Serving
  BY <1>0 DEF Serving
<1>2. IsFiniteSet(Serving \ {g}) /\ Cardinality(Serving \ {g}) = clients - 1
  BY <1>0, <1>1, FS_RemoveElement
<1>3. clients # 0
  BY <1>0, <1>1, FS_EmptySet
<1>4. clients > 0 /\ open
  BY <1>0, <1>3, SMTT(30) DEF Database
<1>5. CASE clients = 1
  <2>1. /\ closing' = g /\ pc' = [pc EXCEPT ![Flusher] = "fetch"]
        /\ clients' = clients - 1 /\ open' = open
    BY <1>5 DEF ReleaseDatabase, StartFlush
  <2>2. \A a \in Agents : pc'[a] = IF a = Flusher THEN "fetch" ELSE pc[a]
    BY <1>0, <2>1
  <2>3. Serving' = Serving \ {g}
    BY <1>0, <2>1, <2>2 DEF Serving
  <2>4. pc'[Flusher] = "fetch" /\ pc'[g] = "release" /\ clients' = 0
    BY <1>0, <1>5, <2>1, <2>2, SMTT(30)
  <2> QED
    BY <1>0, <1>2, <1>4, <2>1, <2>3, <2>4 DEF Database
<1>6. CASE clients # 1
  <2>1. /\ closing' = Nil /\ pc' = [pc EXCEPT ![g] = "idle"]
        /\ clients' = clients - 1 /\ open' = open
    BY <1>6 DEF ReleaseDatabase
  <2>2. \A a \in Agents : pc'[a] = IF a = g THEN "idle" ELSE pc[a]
    BY <1>0, <2>1
  <2>3. Serving' = Serving \ {g}
    BY <1>0, <2>1, <2>2 DEF Serving
  <2>4. pc'[Flusher] = "idle"
    BY <1>0, <2>2
  <2> QED
    BY <1>0, <1>2, <1>4, <2>1, <2>3, <2>4 DEF Database
<1> QED
  BY <1>5, <1>6

\* The database closes when nobody is left.
LEMMA CloseKept ==
  ASSUME ServerInv, CloseDatabase \/ OtherProcess
  PROVE  Database'
<1>1. CASE CloseDatabase
  <2>0. /\ pc \in [Agents -> {"idle", "acquire", "fetch", "lock", "pending", "wait",
                              "defer", "body", "unlock", "release"}]
        /\ Reqs \subseteq Agents /\ Flusher \in Agents /\ Flusher \notin Reqs
        /\ closing \in Reqs /\ clients = 0 /\ pc[Flusher] = "idle"
        /\ IsFiniteSet(Serving) /\ clients = Cardinality(Serving)
        /\ pc' = [pc EXCEPT ![closing] = "idle"] /\ closing' = Nil /\ clients' = clients
    BY <1>1, NamesAssumption DEF ServerInv, TypeOK, Database, Agents, CloseDatabase
  <2>1. \A a \in Agents : pc'[a] = IF a = closing THEN "idle" ELSE pc[a]
    BY <2>0
  <2>2. Serving' = Serving
    BY <2>0, <2>1, NamesAssumption DEF Serving
  <2>3. pc'[Flusher] = "idle"
    BY <2>0, <2>1
  <2> QED
    BY <2>0, <2>2, <2>3, SMTT(30) DEF Database
<1>2. CASE OtherProcess
  BY <1>2 DEF ServerInv, Database, OtherProcess, agents, dbvars, Serving
<1> QED
  BY <1>1, <1>2
----------------------------------------------------------------------------
(* Where the agents are                                                    *)

\* an agent that does nothing is where it was
LEMMA ControlSame ==
  ASSUME NEW a, Control(a), UNCHANGED <<call[a], pc[a], held[a], ptr[a], dfr[a]>>
  PROVE  Control(a)'
  BY DEF Control, NextLock

\* what an agent has between two locks, and with all of them
LEMMA FetchControl ==
  ASSUME NEW a, Control(a), pc[a] = "fetch"
  PROVE  /\ call[a] \in Called /\ Len(ptr[a]) = held[a] /\ Len(dfr[a]) = held[a]
         /\ held[a] < Len(Locks(call[a]))
  BY "fetch" # "idle", "fetch" # "release" DEF Control

LEMMA BodyControl ==
  ASSUME NEW a, Control(a), pc[a] = "body"
  PROVE  /\ call[a] \in Called /\ Len(ptr[a]) = held[a] /\ Len(dfr[a]) = held[a]
         /\ held[a] = Len(Locks(call[a]))
  BY "body" # "idle", "body" # "release" DEF Control

\* what it needs to unlock, and to have returned
LEMMA UnlockControlled ==
  ASSUME NEW a, pc'[a] = "unlock", call'[a] \in Called, held'[a] > 0, held'[a] <= Len(ptr'[a]),
         Len(dfr'[a]) = Len(ptr'[a]), Len(ptr'[a]) <= Len(Locks(call'[a]))
  PROVE  Control(a)'
  BY DEF Control, Outside, AtLock

LEMMA ReturnControlled ==
  ASSUME NEW a, pc'[a] = "idle" \/ pc'[a] = "release",
         held'[a] = 0, ptr'[a] = <<>>, dfr'[a] = <<>>
  PROVE  Control(a)'
  BY DEF Control, Outside, AtLock

\* with the pointer to the next mutex
LEMMA LockControlled ==
  ASSUME NEW a, pc'[a] = "lock", call'[a] \in Called, Len(ptr'[a]) = held'[a] + 1,
         Len(dfr'[a]) = held'[a], held'[a] < Len(Locks(call'[a]))
  PROVE  Control(a)'
  BY DEF Control, Outside, AtLock

\* and after it has deferred an Unlock
LEMMA DeferControlled ==
  ASSUME NEW a, call'[a] \in Called, Len(ptr'[a]) = held'[a], Len(dfr'[a]) = held'[a],
         \/ pc'[a] = "fetch" /\ held'[a] < Len(Locks(call'[a]))
         \/ pc'[a] = "body" /\ held'[a] = Len(Locks(call'[a]))
  PROVE  Control(a)'
  BY DEF Control, Outside, AtLock

\* the steps of a call up to its body
LEMMA LockControl ==
  ASSUME ServerInv, NEW g \in Agents,
         Fetch(g) \/ Lock(g) \/ LockGranted(g) \/ RLock(g) \/ Defer(g)
  PROVE  Controls'
<1>0. /\ \A a \in Agents : Control(a)
      /\ DOMAIN pc = Agents /\ DOMAIN call = Agents /\ DOMAIN held = Agents
      /\ DOMAIN ptr = Agents /\ DOMAIN dfr = Agents
  BY DEF ServerInv, Controls, TypeOK
<1>c. Control(g) /\ held[g] \in Nat /\ ptr[g] \in Seq(Objs) /\ dfr[g] \in Seq(Objs)
  BY DEF ServerInv, Controls, TypeOK
<1>1. CASE Fetch(g)
  <2>1. PICK o \in Objs : ptr' = [ptr EXCEPT ![g] = Append(@, o)]
    BY <1>1 DEF Fetch
  <2>2. pc[g] = "fetch" /\ pc' = [pc EXCEPT ![g] = "lock"] /\ UNCHANGED <<call, held, dfr>>
    BY <1>1 DEF Fetch
  <2>3. ptr'[g] = Append(ptr[g], o) /\ pc'[g] = "lock" /\ call'[g] = call[g]
        /\ held'[g] = held[g] /\ dfr'[g] = dfr[g]
    BY <1>0, <2>1, <2>2
  <2>4. Len(ptr'[g]) = Len(ptr[g]) + 1
    BY <1>c, <2>3, SMTT(30)
  <2>5. Control(g)'
    <3>1. /\ call[g] \in Called /\ Len(ptr[g]) = held[g] /\ Len(dfr[g]) = held[g]
          /\ held[g] < Len(Locks(call[g]))
      BY <1>c, <2>2, FetchControl
    <3> QED
      BY <2>3, <2>4, <3>1, LockControlled
  <2>6. \A a \in Agents \ {g} : UNCHANGED <<call[a], pc[a], held[a], ptr[a], dfr[a]>>
    BY <1>0, <2>1, <2>2
  <2>7. \A a \in Agents \ {g} : Control(a)'
    BY <1>0, <2>6, ControlSame
  <2> QED
    BY <2>5, <2>7 DEF Controls
<1>2. CASE Lock(g) \/ LockGranted(g) \/ RLock(g)
  <2>1. PICK ph : /\ pc' = [pc EXCEPT ![g] = ph]
                  /\ \/ ph = "pending" /\ NextLock(g).mode = "w"
                     \/ ph = "wait" /\ NextLock(g).mode = "r"
                     \/ ph = "defer"
    BY <1>2 DEF Lock, LockGranted, RLock
  <2>2. UNCHANGED <<call, held, ptr, dfr>> /\ pc[g] \in AtLock
    BY <1>2 DEF Lock, LockGranted, RLock, AtLock
  <2>3. pc'[g] = ph /\ \A a \in Agents \ {g} : pc'[a] = pc[a]
    BY <1>0, <2>1
  <2>4. NextLock(g)' = NextLock(g)
    BY <2>2 DEF NextLock
  <2>5. Control(g)'
    BY <1>c, <2>1, <2>2, <2>3, <2>4 DEF Control, Outside, AtLock
  <2>6. \A a \in Agents \ {g} : UNCHANGED <<call[a], pc[a], held[a], ptr[a], dfr[a]>>
    BY <2>2, <2>3
  <2>7. \A a \in Agents \ {g} : Control(a)'
    BY <1>0, <2>6, ControlSame
  <2> QED
    BY <2>5, <2>7 DEF Controls
<1>3. CASE Defer(g)
  <2>0. dfr' = [dfr EXCEPT ![g] = Append(@, ptr[g][held[g] + 1])]
    BY <1>3, DeferFacts
  <2>1. /\ pc[g] = "defer" /\ UNCHANGED <<call, ptr>>
        /\ held' = [held EXCEPT ![g] = held[g] + 1]
        /\ pc' = [pc EXCEPT ![g] = IF held[g] + 1 = Len(Locks(call[g])) THEN "body" ELSE "fetch"]
    BY <1>3 DEF Defer
  <2>2. /\ call[g] \in Called /\ held[g] + 1 \in 1..Len(Locks(call[g]))
        /\ ptr[g][held[g] + 1] \in Objs
    BY <2>1, AtLockFacts DEF AtLock
  <2>3. /\ held'[g] = held[g] + 1 /\ dfr'[g] = Append(dfr[g], ptr[g][held[g] + 1])
        /\ pc'[g] = IF held[g] + 1 = Len(Locks(call[g])) THEN "body" ELSE "fetch"
    BY <1>0, <2>0, <2>1
  <2>4. Len(dfr'[g]) = Len(dfr[g]) + 1
    BY <1>c, <2>2, <2>3, SMTT(30)
  <2>5. Len(Locks(call[g])) \in Nat
    BY <2>2, LocksFacts
  <2>6. Control(g)'
    <3>1. Len(ptr[g]) = held[g] + 1 /\ Len(dfr[g]) = held[g]
      BY <1>c, <2>1 DEF Control, AtLock
    <3>2. call'[g] \in Called /\ Len(ptr'[g]) = held'[g]
      BY <2>1, <2>2, <2>3, <3>1
    <3>3. Len(dfr'[g]) = held'[g]
      BY <2>3, <2>4, <3>1
    <3>4. held[g] + 1 # Len(Locks(call[g])) => held[g] + 1 < Len(Locks(call[g]))
      BY <2>2, <2>5, SMTT(30)
    <3>5. \/ pc'[g] = "fetch" /\ held'[g] < Len(Locks(call'[g]))
          \/ pc'[g] = "body" /\ held'[g] = Len(Locks(call'[g]))
      BY <2>1, <2>3, <3>4
    <3> QED
      BY <3>2, <3>3, <3>5, DeferControlled
  <2>7. \A a \in Agents \ {g} : UNCHANGED <<call[a], pc[a], held[a], ptr[a], dfr[a]>>
    BY <1>0, <2>0, <2>1
  <2>8. \A a \in Agents \ {g} : Control(a)'
    BY <1>0, <2>7, ControlSame
  <2> QED
    BY <2>6, <2>8 DEF Controls
<1> QED
  BY <1>1, <1>2, <1>3

\* the body of a call and what comes after it
LEMMA UnlockControl ==
  ASSUME ServerInv, mode.noLock, NEW g \in Agents,
         EarlyReturn(g) \/ Body(g) \/ Flush(g) \/ Unlock(g)
  PROVE  Controls'
<1>0. /\ \A a \in Agents : Control(a)
      /\ DOMAIN pc = Agents /\ DOMAIN call = Agents /\ DOMAIN held = Agents
      /\ DOMAIN ptr = Agents /\ DOMAIN dfr = Agents /\ call = [call EXCEPT ![g] = call[g]]
  BY DEF ServerInv, Controls, TypeOK
<1>c. Control(g) /\ held[g] \in Nat /\ ptr[g] \in Seq(Objs) /\ dfr[g] \in Seq(Objs)
  BY DEF ServerInv, Controls, TypeOK
<1>1. CASE EarlyReturn(g) \/ Body(g) \/ Flush(g)
  <2>1. PICK ph, h : /\ pc' = [pc EXCEPT ![g] = ph] /\ call' = [call EXCEPT ![g] = h]
                     /\ \/ ph = "release" /\ pc[g] = "fetch" /\ held[g] = 0
                        \/ /\ ph = "unlock" /\ h = call[g]
                           /\ \/ pc[g] = "fetch" /\ held[g] = 1
                              \/ pc[g] = "body"
    <3>1. g \in Reqs => Done(g) = "release"
      BY DEF Done
    <3> QED
      BY <1>0, <1>1, <3>1 DEF EarlyReturn, Body, Flush
  <2>2. UNCHANGED <<held, ptr, dfr>>
    BY <1>1 DEF EarlyReturn, Body, Flush
  <2>3. pc' = [pc EXCEPT ![g] = ph] /\ call' = [call EXCEPT ![g] = h]
    BY <2>1
  <2>4. pc'[g] = ph /\ call'[g] = h /\ held'[g] = held[g] /\ ptr'[g] = ptr[g] /\ dfr'[g] = dfr[g]
    BY <1>0, <2>2, <2>3
  <2>5. Control(g)'
    <3>1. CASE ph = "release" /\ pc[g] = "fetch" /\ held[g] = 0
      <4>1. Len(ptr[g]) = 0 /\ Len(dfr[g]) = 0
        BY <1>c, <3>1, FetchControl
      <4>2. ptr[g] = <<>> /\ dfr[g] = <<>>
        BY <1>c, <4>1, SMTT(30)
      <4> QED
        BY <2>4, <3>1, <4>2, ReturnControlled
    <3>2. CASE ph = "unlock" /\ h = call[g] /\ pc[g] = "fetch" /\ held[g] = 1
      <4>1. /\ call[g] \in Called /\ Len(ptr[g]) = 1 /\ Len(dfr[g]) = 1
            /\ 1 < Len(Locks(call[g]))
        BY <1>c, <3>2, FetchControl
      <4>2. Len(Locks(call[g])) \in Nat
        BY <4>1, LocksFacts
      <4>3. held[g] > 0 /\ held[g] <= Len(ptr[g]) /\ Len(ptr[g]) <= Len(Locks(call[g]))
        BY <3>2, <4>1, <4>2, SMTT(30)
      <4> QED
        BY <2>4, <3>2, <4>1, <4>3, UnlockControlled
    <3>3. CASE ph = "unlock" /\ h = call[g] /\ pc[g] = "body"
      <4>1. /\ call[g] \in Called /\ Len(ptr[g]) = held[g] /\ Len(dfr[g]) = held[g]
            /\ held[g] = Len(Locks(call[g]))
        BY <1>c, <3>3, BodyControl
      <4>2. Len(Locks(call[g])) > 0
        BY <4>1, LocksFacts
      <4>3. held[g] > 0 /\ held[g] <= Len(ptr[g]) /\ Len(ptr[g]) <= Len(Locks(call[g]))
        BY <1>c, <4>1, <4>2, SMTT(30)
      <4> QED
        BY <2>4, <3>3, <4>1, <4>3, UnlockControlled
    <3> QED
      BY <2>1, <3>1, <3>2, <3>3
  <2>6. \A a \in Agents \ {g} : UNCHANGED <<call[a], pc[a], held[a], ptr[a], dfr[a]>>
    BY <1>0, <2>2, <2>3
  <2>7. \A a \in Agents \ {g} : Control(a)'
    BY <1>0, <2>6, ControlSame
  <2> QED
    BY <2>5, <2>7 DEF Controls
<1>2. CASE Unlock(g)
  <2>0. /\ pc[g] = "unlock" /\ held[g] \in 1..Len(ptr[g]) /\ held[g] \in Nat /\ call[g] \in Called
    BY <1>2, AtUnlockFacts DEF Unlock
  <2> DEFINE k == LastLock(g)
  <2>1. Unlocks(g, k, Receiver(g))
    BY <1>2, UnlockStep
  <2> HIDE DEF k
  <2>2. \A a \in Admitted(k.coll, Receiver(g)) : pc[a] = "wait"
    BY DEF Admitted
  <2>3. /\ pc'[g] = IF held[g] = 1 THEN Done(g) ELSE "unlock"
        /\ \A a \in Agents \ {g} : pc'[a] = pc[a] \/ (pc[a] = "wait" /\ pc'[a] = "defer")
    BY <2>1, <2>2 DEF Unlocks
  <2>4. /\ held' = [held EXCEPT ![g] = held[g] - 1]
        /\ held[g] = 1 => /\ ptr' = [ptr EXCEPT ![g] = <<>>] /\ dfr' = [dfr EXCEPT ![g] = <<>>]
                          /\ call' = [call EXCEPT ![g] = "none"]
        /\ held[g] # 1 => ptr' = ptr /\ dfr' = dfr /\ call' = call
    BY <2>1 DEF Unlocks
  <2>5. held'[g] = held[g] - 1
    BY <1>0, <2>4
  <2>6. Control(g)'
    <3>1. CASE held[g] = 1
      <4>1. ptr'[g] = <<>> /\ dfr'[g] = <<>>
        BY <1>0, <2>4, <3>1
      <4>2. pc'[g] = "idle" \/ pc'[g] = "release"
        BY <2>3, <3>1 DEF Done
      <4>3. held'[g] = 0
        BY <2>5, <3>1, SMTT(30)
      <4> QED
        BY <4>1, <4>2, <4>3, ReturnControlled
    <3>2. CASE held[g] # 1
      <4>1. ptr'[g] = ptr[g] /\ dfr'[g] = dfr[g] /\ call'[g] = call[g] /\ pc'[g] = "unlock"
        BY <2>3, <2>4, <3>2
      <4>2. held'[g] > 0 /\ held'[g] <= Len(ptr[g])
        BY <2>0, <2>5, <3>2, SMTT(30)
      <4>3. Len(dfr[g]) = Len(ptr[g]) /\ Len(ptr[g]) <= Len(Locks(call[g]))
        BY <1>c, <2>0 DEF Control
      <4> QED
        BY <2>0, <4>1, <4>2, <4>3, UnlockControlled
    <3> QED
      BY <3>1, <3>2
  <2>7. \A a \in Agents \ {g} : UNCHANGED <<call[a], held[a], ptr[a], dfr[a]>>
    BY <1>0, <2>4
  <2>8. \A a \in Agents \ {g} : Control(a)'
    <3> SUFFICES ASSUME NEW a \in Agents \ {g} PROVE Control(a)'
      OBVIOUS
    <3>1. CASE pc'[a] = pc[a]
      BY <1>0, <2>7, <3>1, ControlSame
    <3>2. CASE pc[a] = "wait" /\ pc'[a] = "defer"
      <4>1. Control(a) /\ UNCHANGED <<call[a], held[a], ptr[a], dfr[a]>>
        BY <1>0, <2>7
      <4> QED
        BY <3>2, <4>1 DEF Control, Outside, AtLock
    <3> QED
      BY <2>3, <3>1, <3>2
  <2> QED
    BY <2>6, <2>8 DEF Controls
<1> QED
  BY <1>1, <1>2

\* the steps between requests
LEMMA OtherControl ==
  ASSUME ServerInv, mode.noLock,
         \/ \E g \in Reqs : \/ \E h \in mode.calls : Request(g, h)
                            \/ AcquireDatabase(g) \/ ReleaseDatabase(g)
         \/ CloseDatabase \/ OtherProcess
  PROVE  Controls'
<1>0. /\ TypeOK /\ \A a \in Agents : Control(a)
      /\ Reqs \subseteq Agents /\ Flusher \in Agents /\ mode.calls \subseteq Handlers
  BY ModesAssumption DEF ServerInv, Controls, TypeOK, Agents
<1>1. UNCHANGED <<held, ptr, dfr>>
  BY DEF Request, AcquireDatabase, ReleaseDatabase, CloseDatabase, OtherProcess, agents
<1>2. ASSUME NEW a \in Agents, NEW ph, NEW h, pc[a] \in Outside,
             pc' = [pc EXCEPT ![a] = ph], call' = [call EXCEPT ![a] = h],
             \/ ph \in {"idle", "release"}
             \/ ph \in {"acquire", "fetch"} /\ h \in Called
      PROVE  Controls'
  <2>1. pc'[a] = ph /\ call'[a] = h
    BY <1>0, <1>2 DEF TypeOK
  <2>2. held'[a] = 0 /\ ptr'[a] = <<>> /\ dfr'[a] = <<>>
    BY <1>0, <1>1, <1>2 DEF Control
  <2>3. Control(a)'
    <3>1. CASE ph \in {"idle", "release"}
      BY <2>1, <2>2, <3>1 DEF Control, Outside, AtLock
    <3>2. CASE ph \in {"acquire", "fetch"} /\ h \in Called
      <4>1. Len(Locks(h)) \in Nat /\ Len(Locks(h)) > 0
        BY <3>2, LocksFacts
      <4> QED
        BY <2>1, <2>2, <3>2, <4>1 DEF Control, Outside, AtLock
    <3> QED
      BY <1>2, <3>1, <3>2
  <2>4. \A b \in Agents \ {a} : UNCHANGED <<call[b], pc[b], held[b], ptr[b], dfr[b]>>
    BY <1>0, <1>1, <1>2 DEF TypeOK
  <2>5. \A b \in Agents \ {a} : Control(b)'
    BY <1>0, <2>4, ControlSame
  <2> QED
    BY <2>3, <2>5 DEF Controls
<1>3. \A a \in Agents : call = [call EXCEPT ![a] = call[a]]
  BY <1>0 DEF TypeOK
<1>4. ASSUME NEW g \in Reqs, \E h \in mode.calls : Request(g, h) PROVE Controls'
  <2>1. PICK h \in Handlers : Request(g, h)
    BY <1>0, <1>4
  <2>2. pc[g] \in Outside /\ pc' = [pc EXCEPT ![g] = "acquire"] /\ call' = [call EXCEPT ![g] = h]
    BY <2>1 DEF Request, Outside
  <2>3. h \in Called
    BY DEF Called
  <2> QED
    BY <1>0, <1>2, <2>2, <2>3
<1>5. ASSUME NEW g \in Reqs, AcquireDatabase(g) PROVE Controls'
  <2>1. pc[g] = "acquire" /\ pc[g] \in Outside
    BY <1>5 DEF AcquireDatabase, Outside
  <2>2. call[g] \in Called
    BY <1>0, <2>1 DEF Control
  <2>3. \/ pc' = [pc EXCEPT ![g] = "fetch"] /\ call' = call
        \/ pc' = [pc EXCEPT ![g] = "idle"] /\ call' = [call EXCEPT ![g] = "none"]
    BY <1>5 DEF AcquireDatabase
  <2> QED
    BY <1>0, <1>2, <1>3, <2>1, <2>2, <2>3
<1>6. ASSUME NEW g \in Reqs, ReleaseDatabase(g) PROVE Controls'
  <2>1. pc[g] \in Outside /\ pc[Flusher] \in Outside
    BY <1>6 DEF ReleaseDatabase, Outside, ServerInv, Database
  <2>2. \/ pc' = [pc EXCEPT ![Flusher] = "fetch"] /\ call' = [call EXCEPT ![Flusher] = "flush"]
        \/ pc' = [pc EXCEPT ![g] = "idle"] /\ call' = call
    BY <1>6 DEF ReleaseDatabase, StartFlush
  <2>3. "flush" \in Called
    BY DEF Called
  <2> QED
    BY <1>0, <1>2, <1>3, <2>1, <2>2, <2>3
<1>7. CASE CloseDatabase
  <2>1. closing \in Agents /\ pc[closing] \in Outside
    BY <1>7 DEF CloseDatabase, ServerInv, TypeOK, Database, Agents, Outside
  <2>2. pc' = [pc EXCEPT ![closing] = "idle"] /\ call' = call
    BY <1>7 DEF CloseDatabase
  <2> QED
    BY <1>2, <1>3, <2>1, <2>2
<1>8. CASE OtherProcess
  BY <1>0, <1>8, ControlSame DEF OtherProcess, agents, Controls
<1> QED
  BY <1>4, <1>5, <1>6, <1>7, <1>8

----------------------------------------------------------------------------
(* The pointers are those of the factory                                   *)

\* the collections that a call writes to are among those it locks
LEMMA WritesLocked ==
  ASSUME NEW h \in Called, NEW c \in Writes(h)
  PROVE  \E i \in 1..Len(Locks(h)) : Locks(h)[i].coll = c
<1>0. ASSUME NEW n \in Nat, n > 0, n <= Len(Locks(h)), Locks(h)[n].coll = c
      PROVE  \E i \in 1..Len(Locks(h)) : Locks(h)[i].coll = c
  <2>1. Len(Locks(h)) \in Nat
    BY LocksFacts
  <2>2. n \in 1..Len(Locks(h))
    BY <1>0, <2>1, SMTT(30)
  <2> QED
    BY <1>0, <2>2
<1>w. \A d : W(d).coll = d
  BY DEF W
<1>1. CASE h \in {"apiReposCreate", "apiReposDrop"}
  <2>1. c = "local"
    BY <1>1 DEF Writes
  <2>2. Locks(h) = ReposLocks[h]
    BY <1>1 DEF Locks, ReposLocks
  <2>3. ReposLocks[h] = <<W("local")>> \/ ReposLocks[h] = <<W("local"), R("snapshot"), R("published")>>
    BY <1>1, SMTT(30) DEF ReposLocks
  <2>4. Len(Locks(h)) >= 1 /\ Locks(h)[1] = W("local")
    <3>1. CASE ReposLocks[h] = <<W("local")>>
      BY <2>2, <3>1, SMTT(30)
    <3>2. CASE ReposLocks[h] = <<W("local"), R("snapshot"), R("published")>>
      BY <2>2, <3>2, SMTT(30)
    <3> QED
      BY <2>3, <3>1, <3>2
  <2> QED
    BY <1>0, <1>w, <2>1, <2>4, SMTT(30)
<1>2. CASE h \in {"apiSnapshotsCreate", "apiSnapshotsDrop"}
  <2>1. c = "snapshot"
    BY <1>2, SMTT(30) DEF Writes
  <2>2. Locks(h) = SnapshotLocks[h]
    BY <1>2 DEF Locks, ReposLocks, SnapshotLocks
  <2>3. SnapshotLocks[h] = <<W("snapshot")>> \/ SnapshotLocks[h] = <<W("snapshot"), R("published")>>
    BY <1>2, SMTT(30) DEF SnapshotLocks
  <2>4. Len(Locks(h)) >= 1 /\ Locks(h)[1] = W("snapshot")
    <3>1. CASE SnapshotLocks[h] = <<W("snapshot")>>
      BY <2>2, <3>1, SMTT(30)
    <3>2. CASE SnapshotLocks[h] = <<W("snapshot"), R("published")>>
      BY <2>2, <3>2, SMTT(30)
    <3> QED
      BY <2>3, <3>1, <3>2
  <2> QED
    BY <1>0, <1>w, <2>1, <2>4, SMTT(30)
<1>3. CASE h \in {"apiSnapshotsCreateFromMirror", "apiSnapshotsCreateFromRepository"}
  <2>1. c = "snapshot"
    BY <1>3 DEF Writes
  <2>2. Locks(h) = SnapshotLocks[h]
    BY <1>3 DEF Locks, ReposLocks, SnapshotLocks
  <2>3. SnapshotLocks[h] = <<W("mirror"), W("snapshot")>> \/ SnapshotLocks[h] = <<W("local"), W("snapshot")>>
    BY <1>3, SMTT(30) DEF SnapshotLocks
  <2>4. Len(Locks(h)) = 2 /\ Locks(h)[2] = W("snapshot")
    BY <2>2, <2>3, SMTT(30)
  <2> QED
    BY <1>0, <1>w, <2>1, <2>4, SMTT(30)
<1>4. CASE h \in {"apiPublishSnapshot", "apiPublishRepo", "apiPublishDrop"}
  <2>1. c = "published"
    BY <1>4, SMTT(30) DEF Writes
  <2>2. Locks(h) = PublishLocks[h]
    BY <1>4 DEF Locks, ReposLocks, SnapshotLocks, PublishLocks
  <2>3. PublishLocks[h] = <<W("snapshot"), W("published")>> \/ PublishLocks[h] = <<W("local"), W("published")>>
    BY <1>4, SMTT(30) DEF PublishLocks
  <2>4. Len(Locks(h)) = 2 /\ Locks(h)[2] = W("published")
    BY <2>2, <2>3, SMTT(30)
  <2> QED
    BY <1>0, <1>w, <2>1, <2>4, SMTT(30)
<1>5. CASE h = "apiPublishUpdateSwitch"
  <2>1. c = "published"
    BY <1>5, SMTT(30) DEF Writes
  <2>2. Locks(h) = <<W("local"), W("snapshot"), W("published")>>
    BY <1>5 DEF Locks, ReposLocks, SnapshotLocks, PublishLocks
  <2>3. Len(Locks(h)) = 3 /\ Locks(h)[3] = W("published")
    BY <2>2, SMTT(30)
  <2> QED
    BY <1>0, <1>w, <2>1, <2>3, SMTT(30)
<1> QED
  BY <1>1, <1>2, <1>3, <1>4, <1>5 DEF Writes
\* an agent that gets no pointer stays attached, if the factory keeps its
\* objects
LEMMA AttachedSame ==
  ASSUME NEW a, Attached(a), UNCHANGED object,
         \/ ptr'[a] = <<>> /\ dfr'[a] = <<>>
         \/ UNCHANGED <<ptr[a], dfr[a], call[a]>>,
         a = Flusher /\ pc[a] = "unlock" => pc'[a] = "unlock" \/ ptr'[a] = <<>>
  PROVE  Attached(a)'
<1>1. CASE ptr'[a] = <<>> /\ dfr'[a] = <<>>
  BY <1>1, SMTT(30) DEF Attached
<1>2. CASE UNCHANGED <<ptr[a], dfr[a], call[a]>> /\ ptr'[a] = <<>>
  BY <1>2, SMTT(30) DEF Attached
<1>3. CASE UNCHANGED <<ptr[a], dfr[a], call[a]>> /\ ptr'[a] # <<>>
  BY <1>3 DEF Attached
<1> QED
  BY <1>1, <1>2, <1>3

\* whoever is inside keeps the database open
LEMMA InsideOpen ==
  ASSUME ServerInv, NEW g \in Agents, pc[g] \notin Outside
  PROVE  open /\ (g \in Reqs => closing = Nil)
<1>1. CASE g \in Reqs
  <2>1. g # closing /\ g \in Serving
    BY <1>1, NamesAssumption DEF ServerInv, Database, Outside, Serving
  <2>2. clients # 0 /\ clients \in Nat
    BY <2>1, FS_EmptySet DEF ServerInv, TypeOK, Database
  <2> QED
    BY <2>2, SMTT(30) DEF ServerInv, Database
<1>2. CASE g \notin Reqs
  <2>1. g = Flusher
    BY <1>2 DEF Agents
  <2> QED
    BY <1>2, <2>1 DEF ServerInv, Database, Outside
<1> QED
  BY <1>1, <1>2

\* The factory keeps what it has, and what it makes is fresh.
LEMMA LookupPointed ==
  ASSUME ServerInv, NEW c \in Colls, NEW o \in Objs, Lookup(c, o)
  PROVE  /\ \A d \in Colls : object[d] # Nil => object'[d] = object[d]
         /\ object'[c] = o /\ o # Nil
         /\ \A d \in Colls : object'[d] \notin stale'[d]
<1>1. /\ object \in [Colls -> Objs \cup {Nil}] /\ stale \in [Colls -> SUBSET Objs]
      /\ \A d \in Colls : object[d] \notin stale[d]
  BY DEF ServerInv, TypeOK, Pointed
<1>2. CASE object[c] # Nil
  BY <1>1, <1>2, NamesAssumption DEF Lookup, factory
<1>3. CASE object[c] = Nil
  <2>1. object' = [object EXCEPT ![c] = o] /\ stale' = [stale EXCEPT ![c] = stale[c] \ {o}]
    BY <1>3 DEF Lookup
  <2>2. \A d \in Colls : /\ object'[d] = IF d = c THEN o ELSE object[d]
                         /\ stale'[d] = IF d = c THEN stale[c] \ {o} ELSE stale[d]
    BY <1>1, <2>1
  <2>3. o # Nil /\ object'[c] = o /\ o \notin stale'[c]
    BY <2>2, NamesAssumption
  <2>4. \A d \in Colls \ {c} : object'[d] = object[d] /\ stale'[d] = stale[d]
    BY <2>2
  <2> QED
    BY <1>1, <1>3, <2>3, <2>4
<1> QED
  BY <1>2, <1>3

\* To get a collection is to get the object of the factory.
LEMMA FetchPointed ==
  ASSUME ServerInv, NEW g \in Agents, Fetch(g)
  PROVE  Pointed'
<1> DEFINE c == NextLock(g).coll
<1>1. PICK o \in Objs : Lookup(c, o) /\ ptr' = [ptr EXCEPT ![g] = Append(@, o)]
  BY DEF Fetch
<1>2. /\ pc[g] = "fetch" /\ pc[g] \notin Outside /\ pc[g] # "unlock"
      /\ pc' = [pc EXCEPT ![g] = "lock"] /\ UNCHANGED <<call, dfr, closing, open>>
  BY DEF Fetch, dbvars, Outside
<1>3. /\ call[g] \in Called /\ held[g] \in Nat /\ Len(ptr[g]) = held[g]
      /\ c = Locks(call[g])[held[g] + 1].coll /\ c \in Colls
  BY <1>2, AtFetchFacts DEF NextLock
<1> HIDE DEF c
<1>4. /\ \A d \in Colls : object[d] # Nil => object'[d] = object[d]
      /\ object'[c] = o /\ o # Nil
      /\ \A d \in Colls : object'[d] \notin stale'[d]
  BY <1>1, <1>3, LookupPointed
<1>5. pc[Flusher] # "unlock"
  BY <1>2, NotFlushed
<1>6. \A a \in Agents : /\ ptr[a] \in Seq(Objs) /\ dfr[a] \in Seq(Objs)
                        /\ Len(dfr[a]) \in Nat /\ Len(dfr[a]) <= Len(ptr[a])
  <2>1. \A a \in Agents : ptr[a] \in Seq(Objs) /\ dfr[a] \in Seq(Objs)
    BY DEF ServerInv, TypeOK
  <2> QED
    BY <2>1, DeferredFewer
<1>7. \A a \in Agents : \A i \in 1..Len(ptr[a]) :
        /\ Locks(call[a])[i].coll \in Colls
        /\ ptr[a][i] = object'[Locks(call[a])[i].coll]
  <2> SUFFICES ASSUME NEW a \in Agents, NEW i \in 1..Len(ptr[a])
               PROVE  /\ Locks(call[a])[i].coll \in Colls
                      /\ ptr[a][i] = object'[Locks(call[a])[i].coll]
    OBVIOUS
  <2>1. Locks(call[a])[i].coll \in Colls
    BY PointedColls
  <2> QED
    BY <1>4, <1>5, <2>1, PointerFacts
<1>8. \A a \in Agents \ {g} : Attached(a)'
  <2>1. \A a \in Agents \ {g} : ptr'[a] = ptr[a]
    BY <1>1 DEF ServerInv, TypeOK
  <2>2. \A a \in Agents : \A i \in 1..Len(dfr[a]) : dfr[a][i] = ptr[a][i]
    BY DEF Attached, ServerInv, Pointed
  <2>3. ASSUME NEW a \in Agents \ {g} PROVE Attached(a)'
    <3>0. ptr'[a] = ptr[a] /\ call'[a] = call[a]
      BY <1>2, <2>1
    <3>1. \A i \in 1..Len(ptr'[a]) : ptr'[a][i] = object'[Locks(call'[a])[i].coll]
      BY <1>7, <3>0
    <3>2. \A i \in 1..Len(dfr'[a]) : dfr'[a][i] = ptr'[a][i]
      BY <1>2, <2>1, <2>2
    <3> QED
      BY <3>1, <3>2 DEF Attached
  <2> QED
    BY <2>3
<1>9. Attached(g)'
  <2>1. ptr'[g] = Append(ptr[g], o)
    BY <1>1 DEF ServerInv, TypeOK
  <2>2. /\ Len(ptr'[g]) = held[g] + 1 /\ ptr'[g][held[g] + 1] = o
        /\ \A i \in 1..Len(ptr[g]) : ptr'[g][i] = ptr[g][i]
    BY <1>3, <1>6, <2>1, SMTT(30)
  <2>3. \A i \in 1..Len(ptr'[g]) : i \in 1..Len(ptr[g]) \/ i = held[g] + 1
    BY <1>3, <2>2, SMTT(30)
  <2>4. \A i \in 1..Len(ptr'[g]) : ptr'[g][i] = object'[Locks(call[g])[i].coll]
    BY <1>3, <1>4, <1>7, <2>2, <2>3
  <2>5. \A i \in 1..Len(dfr[g]) : i \in 1..Len(ptr[g])
    BY <1>3, <1>6, SMTT(30)
  <2>6. \A i \in 1..Len(dfr[g]) : dfr[g][i] = ptr'[g][i]
    BY <2>2, <2>5 DEF ServerInv, Pointed, Attached
  <2> QED
    BY <1>2, <2>4, <2>6 DEF Attached
<1>10. open /\ (closing # Nil => pc'[Flusher] \notin {"unlock", "idle"})
  <2>1. open /\ (g \in Reqs => closing = Nil)
    BY <1>2, InsideOpen
  <2>2. g = Flusher => pc'[Flusher] = "lock"
    BY <1>2 DEF ServerInv, TypeOK
  <2> QED
    BY <2>1, <2>2 DEF Agents
<1> QED
  BY <1>2, <1>4, <1>8, <1>9, <1>10 DEF Pointed
\* the other steps of a call up to its body
LEMMA LockPointed ==
  ASSUME ServerInv, NEW g \in Agents, Lock(g) \/ LockGranted(g) \/ RLock(g) \/ Defer(g)
  PROVE  Pointed'
<1>0. TypeOK /\ Pointed
  BY DEF ServerInv
<1>1. /\ pc[g] \in AtLock /\ pc[g] # "unlock"
      /\ \E ph \in {"pending", "wait", "defer", "fetch", "body"} : pc' = [pc EXCEPT ![g] = ph]
  BY DEF Lock, LockGranted, RLock, Defer, AtLock
<1>2. pc'[g] \in {"pending", "wait", "defer", "fetch", "body"}
      /\ \A a \in Agents \ {g} : pc'[a] = pc[a]
  BY <1>0, <1>1 DEF TypeOK
<1>3. UNCHANGED <<object, stale, call, ptr, closing, open>>
  BY DeferFacts DEF Lock, LockGranted, RLock, Defer, factory, dbvars
<1>4. \A a \in Agents \ {g} : dfr'[a] = dfr[a]
  <2>1. CASE Defer(g)
    BY <1>0, <2>1, DeferFacts DEF TypeOK
  <2>2. CASE ~Defer(g)
    BY <2>2 DEF Lock, LockGranted, RLock
  <2> QED
    BY <2>1, <2>2
<1>5. \A i \in 1..Len(dfr'[g]) : dfr'[g][i] = ptr[g][i]
  <2>0. \A i \in 1..Len(dfr[g]) : dfr[g][i] = ptr[g][i]
    BY <1>0 DEF Pointed, Attached
  <2>1. CASE Defer(g)
    <3>1. dfr'[g] = Append(dfr[g], ptr[g][held[g] + 1])
      BY <1>0, <2>1, DeferFacts DEF TypeOK
    <3>2. dfr[g] \in Seq(Objs) /\ held[g] \in Nat /\ Len(dfr[g]) = held[g]
      BY <1>1 DEF ServerInv, TypeOK, Controls, Control
    <3>3. \A i \in 1..Len(dfr'[g]) : /\ i \in 1..Len(dfr[g]) \/ i = held[g] + 1
                                     /\ i \in 1..Len(dfr[g]) => dfr'[g][i] = dfr[g][i]
                                     /\ i = held[g] + 1 => dfr'[g][i] = ptr[g][held[g] + 1]
      BY <3>1, <3>2, SMTT(30)
    <3> QED
      BY <2>0, <3>3
  <2>2. CASE ~Defer(g)
    BY <2>0, <2>2 DEF Lock, LockGranted, RLock
  <2> QED
    BY <2>1, <2>2
<1>6. Attached(g)'
  <2>1. \A i \in 1..Len(ptr'[g]) : ptr'[g][i] = object'[Locks(call'[g])[i].coll]
    BY <1>0, <1>1, <1>3 DEF Pointed, Attached
  <2>2. \A i \in 1..Len(dfr'[g]) : dfr'[g][i] = ptr'[g][i]
    BY <1>3, <1>5
  <2> QED
    BY <2>1, <2>2 DEF Attached
<1>7. \A a \in Agents \ {g} : Attached(a)'
  BY <1>0, <1>2, <1>3, <1>4, AttachedSame DEF Pointed
<1>8. pc'[Flusher] \in {"unlock", "idle"} => pc[Flusher] \in {"unlock", "idle"}
  BY <1>2 DEF Agents
<1> QED
  BY <1>0, <1>3, <1>6, <1>7, <1>8 DEF Pointed

\* an agent that does nothing while the factory makes an object
LEMMA AttachedKept ==
  ASSUME ServerInv, NEW a \in Agents, pc[Flusher] # "unlock",
         UNCHANGED <<ptr[a], dfr[a], call[a]>>,
         \A d \in Colls : object[d] # Nil => object'[d] = object[d]
  PROVE  Attached(a)'
<1>1. ASSUME NEW i \in 1..Len(ptr[a]) PROVE ptr[a][i] = object'[Locks(call[a])[i].coll]
  <2>1. Locks(call[a])[i].coll \in Colls
    BY PointedColls
  <2> QED
    BY <2>1, PointerFacts
<1>2. \A i \in 1..Len(dfr[a]) : dfr[a][i] = ptr[a][i]
  BY DEF Attached, ServerInv, Pointed
<1> QED
  BY <1>1, <1>2 DEF Attached

\* A request that uses a collection it has not locked
LEMMA UnlockedKept ==
  ASSUME ServerInv, UNCHANGED mode, NEW g \in Agents, UseUnlocked(g)
  PROVE  TypeOK' /\ Controls' /\ Pointed'
<1>1. PICK c \in Unlocked(call[g]), o \in Objs : Lookup(c, o)
  BY DEF UseUnlocked
<1>2. c \in Colls
  BY <1>1 DEF Unlocked, Colls
<1>3. /\ pc[g] \notin Outside /\ pc[g] # "unlock"
      /\ UNCHANGED <<call, pc, held, ptr, dfr, clients, closing, open, up>>
  BY DEF UseUnlocked, agents, dbvars, Outside
<1>4. TypeOK'
  <2>1. TypeOK
    BY DEF ServerInv
  <2>2. /\ object' \in [Colls -> Objs \cup {Nil}] /\ stale' \in [Colls -> SUBSET Objs]
        /\ wlock' \in [Colls -> [Objs -> {"free", "pending", "held"}]]
        /\ readers' \in [Colls -> [Objs -> Nat]]
    BY <1>1, <1>2, <2>1, LookupTypes
  <2> QED
    BY <1>3, <2>1, <2>2 DEF TypeOK
<1>5. Controls'
  BY <1>3, ControlSame DEF ServerInv, Controls
<1>6. /\ \A d \in Colls : object[d] # Nil => object'[d] = object[d]
      /\ \A d \in Colls : object'[d] \notin stale'[d]
  BY <1>1, <1>2, LookupPointed
<1>7. pc[Flusher] # "unlock" /\ open
  BY <1>3, NotFlushed, InsideOpen
<1>8. \A a \in Agents : Attached(a)'
  BY <1>3, <1>6, <1>7, AttachedKept
<1>9. closing # Nil => pc[Flusher] # "idle"
  <2>1. CASE g \in Reqs
    BY <1>3, <2>1, InsideOpen
  <2>2. CASE g = Flusher
    BY <1>3, <2>2 DEF Outside
  <2> QED
    BY <2>1, <2>2 DEF Agents
<1> QED
  BY <1>3, <1>4, <1>5, <1>6, <1>7, <1>8, <1>9 DEF Pointed

\* What a request writes is in the object that it works on, which is the one
\* of the factory.
LEMMA BodyPointed ==
  ASSUME ServerInv, NEW g \in Agents, Body(g)
  PROVE  Pointed'
<1>0. TypeOK /\ Pointed /\ g # Flusher
  BY NamesAssumption DEF ServerInv, Body
<1>1. /\ pc[g] = "body" /\ pc' = [pc EXCEPT ![g] = "unlock"]
      /\ UNCHANGED <<object, call, ptr, dfr, closing, open>>
  BY DEF Body, dbvars
<1>2. \A a \in Agents \ {g} : pc'[a] = pc[a]
  BY <1>0, <1>1 DEF TypeOK
<1>3. pc[Flusher] # "unlock"
  BY <1>1, NotFlushed DEF Outside
<1>4. \A a \in Agents : Attached(a)'
  BY <1>0, <1>1, <1>2, <1>3, AttachedSame DEF Pointed
<1>5. ASSUME NEW c \in Writes(call[g]) PROVE PtrOf(g, c) = object[c]
  <2>1. call[g] \in Called /\ ptr[g] \in Seq(Objs) /\ Len(ptr[g]) = Len(Locks(call[g]))
    BY <1>1 DEF ServerInv, TypeOK, Controls, Control
  <2>2. DOMAIN ptr[g] = 1..Len(ptr[g])
    BY <2>1, SMTT(30)
  <2>3. \E i \in DOMAIN ptr[g] : Locks(call[g])[i].coll = c
    BY <1>5, <2>1, <2>2, WritesLocked
  <2>4. PICK i \in DOMAIN ptr[g] : /\ i = CHOOSE j \in DOMAIN ptr[g] : Locks(call[g])[j].coll = c
                                   /\ Locks(call[g])[i].coll = c
    BY <2>3
  <2>5. ptr[g][i] = object[c]
    BY <1>3, <2>2, <2>4, PointerFacts
  <2> QED
    BY <2>4, <2>5 DEF PtrOf
<1>6. \A c \in Colls : object[c] \notin stale'[c]
  <2>0. \A c \in Colls : object[c] \notin stale[c]
    BY <1>0 DEF Pointed
  <2>1. CASE UNCHANGED stale
    BY <2>0, <2>1
  <2>2. CASE stale' = [c \in Colls |->
                         IF c \in Writes(call[g])
                         THEN stale[c] \cup (Pointers(c) \ {PtrOf(g, c), Nil}) ELSE stale[c]]
    BY <1>5, <2>0, <2>2
  <2> QED
    BY <2>1, <2>2 DEF Body
<1>7. pc'[Flusher] = pc[Flusher]
  BY <1>0, <1>2 DEF Agents
<1> QED
  BY <1>0, <1>1, <1>4, <1>6, <1>7 DEF Pointed

\* The collections are flushed when no request has one.
LEMMA FlushPointed ==
  ASSUME ServerInv, NEW g \in Agents, Flush(g)
  PROVE  Pointed'
<1>1. /\ g = Flusher /\ pc[Flusher] = "body" /\ pc' = [pc EXCEPT ![g] = "unlock"]
      /\ object' = [c \in Colls |-> Nil] /\ UNCHANGED <<stale, call, ptr, dfr>>
  BY DEF Flush
<1>2. \A c \in Colls : object'[c] = Nil /\ stale[c] \subseteq Objs
  BY <1>1 DEF ServerInv, TypeOK
<1>3. \A a \in Reqs : ptr[a] = <<>> /\ dfr[a] = <<>>
  BY <1>1, FlusherAlone, "body" # "idle" DEF ServerInv, Controls, Control, Agents
<1>4. \A a \in Reqs : Attached(a)'
  BY <1>1, <1>3, SMTT(30) DEF Attached
<1>5. pc'[Flusher] = "unlock"
  BY <1>1 DEF ServerInv, TypeOK
<1>6. Attached(Flusher)'
  BY <1>1, <1>5 DEF Attached, ServerInv, Pointed, Agents
<1> QED
  BY <1>1, <1>2, <1>4, <1>6, NamesAssumption DEF Pointed, Agents

\* what comes after the body, and between requests
LEMMA OtherPointed ==
  ASSUME ServerInv, mode.noLock,
         \/ \E g \in Agents : EarlyReturn(g) \/ Unlock(g)
         \/ \E g \in Reqs : \/ \E h \in mode.calls : Request(g, h)
                            \/ AcquireDatabase(g) \/ ReleaseDatabase(g)
         \/ CloseDatabase \/ OtherProcess
  PROVE  Pointed'
<1>0. /\ TypeOK /\ Pointed /\ Flusher \in Agents /\ Reqs \subseteq Agents /\ Flusher \notin Reqs
      /\ \A a \in Agents : Control(a)
      /\ \A a \in Agents : Attached(a)
  BY NamesAssumption DEF ServerInv, Agents, Controls, Pointed
<1>1. ASSUME NEW g \in Agents, EarlyReturn(g) PROVE Pointed'
  <2>1. /\ pc[g] = "fetch" /\ g # Flusher /\ \A a \in Agents \ {g} : pc'[a] = pc[a]
        /\ \A a \in Agents \ {g} : call'[a] = call[a]
        /\ call' = call \/ held[g] = 0
        /\ UNCHANGED <<object, stale, ptr, dfr, closing, open>>
    BY <1>0, <1>1 DEF EarlyReturn, TypeOK, factory, dbvars
  <2>2. held[g] = 0 => ptr[g] = <<>> /\ dfr[g] = <<>>
    <3>1. /\ Len(ptr[g]) = held[g] /\ Len(dfr[g]) = held[g]
          /\ ptr[g] \in Seq(Objs) /\ dfr[g] \in Seq(Objs)
      BY <1>0, <2>1, FetchControl DEF TypeOK
    <3> QED
      BY <3>1, SMTT(30)
  <2>3. Attached(g)'
    BY <1>0, <2>1, <2>2, AttachedSame
  <2>4. \A a \in Agents \ {g} : Attached(a)'
    BY <1>0, <2>1, AttachedSame
  <2> QED
    BY <1>0, <2>1, <2>3, <2>4 DEF Pointed
<1>2. ASSUME NEW g \in Agents, Unlock(g) PROVE Pointed'
  <2>1. Unlocks(g, LastLock(g), Receiver(g))
    BY <1>2, UnlockStep
  <2>2. /\ pc[g] = "unlock"
        /\ \A a \in Agents \ {g} : pc'[a] = pc[a] \/ (pc[a] = "wait" /\ pc'[a] = "defer")
        /\ pc'[g] = "unlock" \/ ptr'[g] = <<>>
    BY <1>0, <2>1 DEF Unlocks, Admitted, TypeOK
  <2>3. \A a \in Agents : \/ ptr'[a] = <<>> /\ dfr'[a] = <<>>
                          \/ UNCHANGED <<ptr[a], dfr[a], call[a]>>
    BY <1>0, <2>1 DEF Unlocks, TypeOK
  <2>4. UNCHANGED <<object, stale, closing, open>>
    BY <2>1 DEF Unlocks
  <2>5. Attached(g)'
    BY <1>0, <2>2, <2>3, <2>4, AttachedSame
  <2>6. \A a \in Agents \ {g} : Attached(a)'
    <3>1. \A a \in Agents \ {g} : pc[a] = "unlock" => pc'[a] = "unlock"
      BY <2>2
    <3> QED
      BY <1>0, <2>3, <2>4, <3>1, AttachedSame
  <2>7. pc'[Flusher] \in {"unlock", "idle"} => pc[Flusher] \in {"unlock", "idle"}
    <3>1. \A a \in Agents \ {g} : pc'[a] # "defer" => pc'[a] = pc[a]
      BY <2>2
    <3> QED
      BY <1>0, <2>2, <3>1, "unlock" # "defer", "idle" # "defer"
  <2> QED
    BY <1>0, <2>4, <2>5, <2>6, <2>7 DEF Pointed
<1>3. ASSUME NEW b \in Agents, pc[b] \in Outside, UNCHANGED <<object, ptr, dfr>>,
             \A a \in Agents \ {b} : call'[a] = call[a] /\ pc'[a] = pc[a]
      PROVE  \A a \in Agents : Attached(a)'
  <2>1. ptr[b] = <<>> /\ dfr[b] = <<>>
    BY <1>0, <1>3 DEF Control
  <2>2. Attached(b)'
    BY <1>3, <2>1, SMTT(30) DEF Attached
  <2>3. \A a \in Agents \ {b} : Attached(a)'
    BY <1>0, <1>3, AttachedSame
  <2> QED
    BY <2>2, <2>3
<1>4. ASSUME NEW g \in Reqs, \E h \in mode.calls : Request(g, h) PROVE Pointed'
  <2>1. /\ pc[g] \in Outside /\ UNCHANGED <<object, stale, ptr, dfr, closing, open>>
        /\ \A a \in Agents \ {g} : call'[a] = call[a] /\ pc'[a] = pc[a]
    BY <1>0, <1>4 DEF Request, Outside, factory, dbvars, TypeOK
  <2>2. \A a \in Agents : Attached(a)'
    BY <1>0, <1>3, <2>1
  <2> QED
    BY <1>0, <2>1, <2>2 DEF Pointed
<1>5. ASSUME NEW g \in Reqs, AcquireDatabase(g) PROVE Pointed'
  <2>1. /\ pc[g] \in Outside /\ UNCHANGED <<object, stale, ptr, dfr, closing>>
        /\ closing = Nil /\ (open' = TRUE \/ open' = open)
        /\ \A a \in Agents \ {g} : call'[a] = call[a] /\ pc'[a] = pc[a]
    BY <1>0, <1>5 DEF AcquireDatabase, Outside, factory, TypeOK
  <2>2. \A a \in Agents : Attached(a)'
    BY <1>0, <1>3, <2>1
  <2>3. ~open' => ~open
    BY <2>1
  <2> QED
    BY <1>0, <2>1, <2>2, <2>3 DEF Pointed
<1>6. ASSUME NEW g \in Reqs, ReleaseDatabase(g) PROVE Pointed'
  <2>1. /\ pc[g] \in Outside /\ pc[Flusher] \in Outside
        /\ UNCHANGED <<object, stale, ptr, dfr, open>>
        /\ closing' # Nil => pc'[Flusher] = "fetch"
        /\ \E b \in {g, Flusher} :
             \A a \in Agents \ {b} : call'[a] = call[a] /\ pc'[a] = pc[a]
    BY <1>0, <1>6
    DEF ReleaseDatabase, StartFlush, Outside, factory, TypeOK, ServerInv, Database
  <2>2. \A a \in Agents : Attached(a)'
    BY <1>0, <1>3, <2>1
  <2> QED
    BY <1>0, <2>1, <2>2 DEF Pointed
<1>7. ASSUME CloseDatabase PROVE Pointed'
  <2>1. /\ closing \in Agents /\ pc[closing] \in Outside
        /\ UNCHANGED <<object, stale, ptr, dfr>> /\ closing' = Nil
        /\ \A c \in Colls : object[c] = Nil
        /\ \A a \in Agents \ {closing} : call'[a] = call[a] /\ pc'[a] = pc[a]
    BY <1>0, <1>7
    DEF CloseDatabase, Outside, factory, TypeOK, ServerInv, Database, Pointed
  <2>2. \A a \in Agents : Attached(a)'
    BY <1>0, <1>3, <2>1
  <2> QED
    BY <1>0, <2>1, <2>2 DEF Pointed
<1>8. ASSUME OtherProcess PROVE Pointed'
  <2>1. /\ UNCHANGED <<object, ptr, dfr, call, pc, closing, open>> /\ ~open
        /\ stale' = [c \in Colls |-> Pointers(c) \ {Nil}]
    BY <1>8 DEF OtherProcess, agents, dbvars
  <2>2. \A c \in Colls : object[c] = Nil /\ object'[c] \notin stale'[c]
    BY <1>0, <2>1 DEF Pointed
  <2>3. \A a \in Agents : Attached(a)'
    BY <1>0, <2>1, AttachedSame
  <2> QED
    BY <1>0, <2>1, <2>2, <2>3 DEF Pointed
<1> QED
  BY <1>1, <1>2, <1>4, <1>5, <1>6, <1>7, <1>8
----------------------------------------------------------------------------
(* The mutexes are what the agents make of them                            *)

\* a holds and waits for the mutex of o as before
Same(a, c, o) ==
  /\ Has(a, W(c), o)' <=> Has(a, W(c), o)
  /\ Has(a, R(c), o)' <=> Has(a, R(c), o)
  /\ Wants(a, c, o, "pending")' <=> Wants(a, c, o, "pending")
  /\ Wants(a, c, o, "wait")' <=> Wants(a, c, o, "wait")

\* a mutex that nobody touches stays right
LEMMA MutexFrame ==
  ASSUME NEW c, NEW o, Mutex(c, o), \A a \in Agents : Same(a, c, o),
         wlock'[c][o] = wlock[c][o], readers'[c][o] = readers[c][o]
  PROVE  Mutex(c, o)'
<1>1. /\ \A a \in Agents : Has(a, W(c), o)' <=> Has(a, W(c), o)
      /\ \A a \in Agents : Wants(a, c, o, "pending")' <=> Wants(a, c, o, "pending")
      /\ \A a \in Agents : Wants(a, c, o, "wait")' <=> Wants(a, c, o, "wait")
  BY DEF Same
<1>2. Readers(c, o)' = Readers(c, o)
  BY DEF Same, Readers
<1> QED
  BY <1>1, <1>2 DEF Mutex

\* an agent that does nothing
LEMMA SameIdle ==
  ASSUME NEW a, UNCHANGED <<call[a], pc[a], held[a], ptr[a]>>, NEW c, NEW o
  PROVE  Same(a, c, o)
  BY DEF Same, Has, Wants, Locked, NextLock

\* an agent that neither locks nor unlocks nor waits
LEMMA SameOnward ==
  ASSUME NEW a, Locked(a)' = Locked(a),
         \A i \in 1..Locked(a) : /\ ptr'[a][i] = ptr[a][i]
                                 /\ Locks(call'[a])[i] = Locks(call[a])[i],
         pc[a] \notin {"pending", "wait"}, pc'[a] \notin {"pending", "wait"}, NEW c, NEW o
  PROVE  Same(a, c, o)
<1>1. \A k : Has(a, k, o)' <=> Has(a, k, o)
  BY DEF Has
<1> QED
  BY <1>1 DEF Same, Wants

\* an agent gets one lock more
LEMMA HasMore ==
  ASSUME ServerInv, NEW g \in Agents, pc[g] \in {"lock", "pending", "wait"}, pc'[g] = "defer",
         UNCHANGED <<call[g], held[g], ptr[g]>>, NEW k, NEW o
  PROVE  Has(g, k, o)' <=> \/ Has(g, k, o)
                           \/ k = NextLock(g) /\ o = ptr[g][held[g] + 1]
<1>1. held[g] \in Nat /\ Locked(g) = held[g] /\ Locked(g)' = held[g] + 1
  BY DEF ServerInv, TypeOK, Locked
<1>2. \A i : i \in 1..(held[g] + 1) <=> i \in 1..held[g] \/ i = held[g] + 1
  BY <1>1, SMTT(30)
<1>3. /\ Has(g, k, o) <=> \E i \in 1..held[g] : Locks(call[g])[i] = k /\ ptr[g][i] = o
      /\ Has(g, k, o)' <=> \E i \in 1..(held[g] + 1) : Locks(call[g])[i] = k /\ ptr[g][i] = o
  BY <1>1 DEF Has
<1> QED
  BY <1>2, <1>3 DEF NextLock

\* an agent gives back its last lock
LEMMA HasLess ==
  ASSUME ServerInv, NEW g \in Agents, Unlocks(g, LastLock(g), Receiver(g)), NEW k, NEW o
  PROVE  Has(g, k, o)' <=> Has(g, k, o) /\ k # LastLock(g)
<1>1. /\ call[g] \in Called /\ held[g] \in Nat /\ held[g] \in 1..Len(Locks(call[g]))
      /\ pc[g] = "unlock"
  BY AtUnlockFacts DEF Unlocks
<1>2. Locked(g) = held[g]
  BY <1>1 DEF Locked
<1>3. held'[g] = held[g] - 1 /\ pc'[g] # "defer"
  <2>1. held' = [held EXCEPT ![g] = held[g] - 1] /\ held \in [Agents -> Nat]
    BY DEF Unlocks, ServerInv, TypeOK
  <2>2. pc'[g] \in {Done(g), "unlock"}
    BY DEF Unlocks
  <2> QED
    BY <2>1, <2>2 DEF Done
<1>4. Locked(g)' = held[g] - 1
  BY <1>3 DEF Locked
<1>5. held[g] # 1 => call' = call /\ ptr' = ptr
  BY DEF Unlocks
<1>6. ASSUME Has(g, k, o)' PROVE Has(g, k, o) /\ k # LastLock(g)
  <2>1. PICK i \in 1..(held[g] - 1) : Locks(call'[g])[i] = k /\ ptr'[g][i] = o
    BY <1>4, <1>6 DEF Has
  <2>2. held[g] # 1 /\ i \in 1..held[g] /\ i # held[g] /\ i \in 1..Len(Locks(call[g]))
    BY <1>1, <2>1, SMTT(30)
  <2>3. Locks(call[g])[i] = k /\ ptr[g][i] = o
    BY <1>5, <2>1, <2>2
  <2>4. Has(g, k, o)
    BY <1>2, <2>2, <2>3 DEF Has
  <2>5. k # LastLock(g)
    BY <1>1, <2>2, <2>3, LocksDistinct DEF LastLock
  <2> QED
    BY <2>4, <2>5
<1>7. ASSUME Has(g, k, o), k # LastLock(g) PROVE Has(g, k, o)'
  <2>1. PICK i \in 1..held[g] : Locks(call[g])[i] = k /\ ptr[g][i] = o
    BY <1>2, <1>7 DEF Has
  <2>2. i # held[g]
    BY <1>7, <2>1 DEF LastLock
  <2>3. i \in 1..(held[g] - 1) /\ held[g] # 1
    BY <1>1, <2>2, SMTT(30)
  <2>4. Locks(call'[g])[i] = k /\ ptr'[g][i] = o
    BY <1>5, <2>1, <2>3
  <2> QED
    BY <1>4, <2>3, <2>4 DEF Has
<1> QED
  BY <1>6, <1>7

\* The steps that lock and unlock nothing.
LEMMA QuietSame ==
  ASSUME ServerInv, mode.noLock,
         \/ \E g \in Agents : Fetch(g) \/ Defer(g) \/ EarlyReturn(g) \/ Body(g) \/ Flush(g)
         \/ \E g \in Reqs : \/ \E h \in mode.calls : Request(g, h)
                            \/ AcquireDatabase(g) \/ ReleaseDatabase(g)
         \/ CloseDatabase \/ OtherProcess,
         NEW c, NEW o
  PROVE  \A a \in Agents : Same(a, c, o)
<1>0. /\ TypeOK /\ Flusher \in Agents /\ Reqs \subseteq Agents
      /\ \A a \in Agents : Control(a) /\ held[a] \in Nat /\ ptr[a] \in Seq(Objs)
  BY DEF ServerInv, Agents, Controls, TypeOK
<1>1. ASSUME NEW g \in Agents, Fetch(g) PROVE \A a \in Agents : Same(a, c, o)
  <2>1. PICK q \in Objs : ptr' = [ptr EXCEPT ![g] = Append(@, q)]
    BY <1>1 DEF Fetch
  <2>2. pc[g] = "fetch" /\ pc' = [pc EXCEPT ![g] = "lock"] /\ UNCHANGED <<call, held>>
    BY <1>1 DEF Fetch
  <2>3. pc'[g] = "lock" /\ ptr'[g] = Append(ptr[g], q)
    BY <1>0, <2>1, <2>2 DEF TypeOK
  <2>4. Locked(g) = held[g] /\ Locked(g)' = held[g] /\ Len(ptr[g]) = held[g]
    <3>1. Len(ptr[g]) = held[g]
      BY <1>0, <2>2, FetchControl
    <3> QED
      BY <2>2, <2>3, <3>1, "fetch" # "defer", "lock" # "defer" DEF Locked
  <2>5. \A i \in 1..Locked(g) : ptr'[g][i] = ptr[g][i]
    <3>1. ptr[g] \in Seq(Objs) /\ ptr'[g] = Append(ptr[g], q) /\ Locked(g) = Len(ptr[g])
      BY <1>0, <2>3, <2>4
    <3> QED
      BY <3>1, SMTT(30)
  <2>6. Same(g, c, o)
    BY <2>2, <2>3, <2>4, <2>5, SameOnward
  <2>7. \A a \in Agents \ {g} : Same(a, c, o)
    BY <1>0, <2>1, <2>2, SameIdle DEF TypeOK
  <2> QED
    BY <2>6, <2>7
<1>2. ASSUME NEW g \in Agents, Defer(g) PROVE \A a \in Agents : Same(a, c, o)
  <2>1. /\ pc[g] = "defer" /\ held' = [held EXCEPT ![g] = held[g] + 1] /\ UNCHANGED <<call, ptr>>
        /\ \E ph \in {"body", "fetch"} : pc' = [pc EXCEPT ![g] = ph]
    BY <1>2 DEF Defer
  <2>2. pc'[g] \in {"body", "fetch"} /\ held'[g] = held[g] + 1
    BY <1>0, <2>1 DEF TypeOK
  <2>3. Locked(g)' = Locked(g)
    BY <2>1, <2>2, SMTT(30) DEF Locked
  <2>4. Same(g, c, o)
    BY <2>1, <2>2, <2>3, SameOnward
  <2>5. \A a \in Agents \ {g} : Same(a, c, o)
    BY <1>0, <2>1, SameIdle DEF TypeOK
  <2> QED
    BY <2>4, <2>5
<1>3. ASSUME NEW g \in Agents, EarlyReturn(g) \/ Body(g) \/ Flush(g)
      PROVE  \A a \in Agents : Same(a, c, o)
  <2>1. /\ pc[g] \in {"fetch", "body"} /\ UNCHANGED <<held, ptr>>
        /\ \E ph \in {"unlock", "release", "idle"} : pc' = [pc EXCEPT ![g] = ph]
        /\ call' = call \/ (held[g] = 0 /\ call' = [call EXCEPT ![g] = "none"])
    BY <1>3 DEF EarlyReturn, Body, Flush, Done
  <2>2. pc'[g] \in {"unlock", "release", "idle"}
    BY <1>0, <2>1 DEF TypeOK
  <2>3. Locked(g)' = Locked(g) /\ Locked(g) = held[g]
    BY <2>1, <2>2, SMTT(30) DEF Locked
  <2>4. \A i \in 1..Locked(g) : call' = call
    BY <2>1, <2>3, SMTT(30)
  <2>5. Same(g, c, o)
    BY <2>1, <2>2, <2>3, <2>4, SameOnward
  <2>6. \A a \in Agents \ {g} : Same(a, c, o)
    BY <1>0, <2>1, SameIdle DEF TypeOK
  <2> QED
    BY <2>5, <2>6
<1>4. ASSUME NEW b \in Agents, pc[b] \in Outside, UNCHANGED <<held, ptr>>,
             pc'[b] \in Outside \cup {"fetch"},
             \A a \in Agents \ {b} : call'[a] = call[a] /\ pc'[a] = pc[a]
      PROVE  \A a \in Agents : Same(a, c, o)
  <2>1. held[b] = 0
    BY <1>0, <1>4 DEF Control
  <2>2. Locked(b) = 0 /\ Locked(b)' = 0
    BY <1>4, <2>1 DEF Locked, Outside
  <2>3. \A i \in 1..Locked(b) : FALSE
    BY <2>2, SMTT(30)
  <2>4. pc[b] \notin {"pending", "wait"} /\ pc'[b] \notin {"pending", "wait"}
    BY <1>4 DEF Outside
  <2>5. Same(b, c, o)
    BY <2>2, <2>3, <2>4, SameOnward
  <2>6. \A a \in Agents \ {b} : Same(a, c, o)
    BY <1>4, SameIdle
  <2> QED
    BY <2>5, <2>6
<1>5. ASSUME NEW g \in Reqs, (\E h \in mode.calls : Request(g, h)) \/ AcquireDatabase(g)
      PROVE  \A a \in Agents : Same(a, c, o)
  <2>1. /\ pc[g] \in Outside /\ UNCHANGED <<held, ptr>>
        /\ pc'[g] \in Outside \cup {"fetch"}
        /\ \A a \in Agents \ {g} : call'[a] = call[a] /\ pc'[a] = pc[a]
    BY <1>0, <1>5 DEF Request, AcquireDatabase, Outside, TypeOK
  <2> QED
    BY <1>0, <1>4, <2>1
<1>6. ASSUME NEW g \in Reqs, ReleaseDatabase(g) PROVE \A a \in Agents : Same(a, c, o)
  <2>1. /\ pc[g] \in Outside /\ pc[Flusher] \in Outside /\ UNCHANGED <<held, ptr>>
        /\ \E b \in {g, Flusher} :
             /\ pc'[b] \in Outside \cup {"fetch"}
             /\ \A a \in Agents \ {b} : call'[a] = call[a] /\ pc'[a] = pc[a]
    BY <1>0, <1>6 DEF ReleaseDatabase, StartFlush, Outside, TypeOK, ServerInv, Database
  <2> QED
    BY <1>0, <1>4, <2>1
<1>7. ASSUME CloseDatabase PROVE \A a \in Agents : Same(a, c, o)
  <2>1. /\ closing \in Agents /\ pc[closing] \in Outside /\ UNCHANGED <<held, ptr>>
        /\ pc'[closing] \in Outside \cup {"fetch"}
        /\ \A a \in Agents \ {closing} : call'[a] = call[a] /\ pc'[a] = pc[a]
    BY <1>0, <1>7 DEF CloseDatabase, Outside, TypeOK, ServerInv, Database
  <2> QED
    BY <1>4, <2>1
<1>8. ASSUME OtherProcess PROVE \A a \in Agents : Same(a, c, o)
  BY <1>8, SameIdle DEF OtherProcess, agents
<1> QED
  BY <1>1, <1>2, <1>3, <1>5, <1>6, <1>7, <1>8
\* A collection that the factory does not have is locked by nobody.
LEMMA NobodyAt ==
  ASSUME ServerInv, NEW c \in Colls, object[c] = Nil, pc[Flusher] # "unlock",
         NEW a \in Agents, NEW o
  PROVE  /\ ~Has(a, W(c), o) /\ ~Has(a, R(c), o)
         /\ ~Wants(a, c, o, "pending") /\ ~Wants(a, c, o, "wait")
<1>1. ASSUME NEW k, k.coll = c, Has(a, k, o) PROVE FALSE
  <2>1. PICK i \in 1..Locked(a) : Locks(call[a])[i] = k
    BY <1>1 DEF Has
  <2>2. i \in 1..Len(ptr[a])
    BY HasFacts
  <2> QED
    BY <1>1, <2>1, <2>2, PointerFacts
<1>2. W(c).coll = c /\ R(c).coll = c
  BY DEF W, R
<1>3. ASSUME pc[a] \in {"pending", "wait"}, NextLock(a).coll = c PROVE FALSE
  <2>1. pc[a] \in AtLock
    BY <1>3 DEF AtLock
  <2> QED
    BY <1>3, <2>1, AtLockFacts, NamesAssumption
<1> QED
  BY <1>1, <1>2, <1>3 DEF Wants

\* To get an object of the factory leaves the mutexes right: a new mutex is
\* nobody's.
LEMMA LookupMutexes ==
  ASSUME ServerInv, NEW d \in Colls, NEW q \in Objs, Lookup(d, q), pc[Flusher] # "unlock",
         \A c, o : \A a \in Agents : Same(a, c, o)
  PROVE  Mutexes'
<1>1. \A c \in Colls : \A o \in Objs : Mutex(c, o)
  BY DEF ServerInv, Mutexes
<1>2. CASE object[d] # Nil
  <2>1. UNCHANGED <<wlock, readers>>
    BY <1>2 DEF Lookup, mutexes
  <2> QED
    BY <1>1, <2>1, MutexFrame DEF Mutexes
<1>3. CASE object[d] = Nil
  <2>1. /\ wlock' = [wlock EXCEPT ![d][q] = "free"]
        /\ readers' = [readers EXCEPT ![d][q] = 0]
    BY <1>3 DEF Lookup
  <2>2. /\ wlock \in [Colls -> [Objs -> {"free", "pending", "held"}]]
        /\ readers \in [Colls -> [Objs -> Nat]]
    BY DEF ServerInv, TypeOK
  <2>3. ASSUME NEW c \in Colls, NEW o \in Objs PROVE Mutex(c, o)'
    <3>1. CASE c = d /\ o = q
      <4>1. \A a \in Agents : /\ ~Has(a, W(c), o)' /\ ~Has(a, R(c), o)'
                              /\ ~Wants(a, c, o, "pending")' /\ ~Wants(a, c, o, "wait")'
        BY <1>3, <3>1, NobodyAt DEF Same
      <4>2. wlock'[c][o] = "free" /\ readers'[c][o] = 0
        BY <2>1, <2>2, <3>1
      <4>3. Readers(c, o)' = {}
        BY <4>1 DEF Readers
      <4>4. IsFiniteSet({}) /\ Cardinality({}) = 0
        BY FS_EmptySet
      <4> QED
        BY <4>1, <4>2, <4>3, <4>4 DEF Mutex
    <3>2. CASE ~(c = d /\ o = q)
      <4>1. wlock'[c][o] = wlock[c][o] /\ readers'[c][o] = readers[c][o]
        BY <2>1, <2>2, <3>2
      <4> QED
        BY <1>1, <4>1, MutexFrame
    <3> QED
      BY <3>1, <3>2
  <2> QED
    BY <2>3 DEF Mutexes
<1> QED
  BY <1>2, <1>3

\* and so does a request that uses a collection it has not locked
LEMMA UnlockedMutexes ==
  ASSUME ServerInv, NEW g \in Agents, UseUnlocked(g)
  PROVE  Mutexes'
<1>1. PICK c \in Unlocked(call[g]), o \in Objs : Lookup(c, o)
  BY DEF UseUnlocked
<1>2. c \in Colls
  BY <1>1 DEF Unlocked, Colls
<1>3. pc[g] \notin Outside /\ pc[g] # "unlock" /\ UNCHANGED <<call, pc, held, ptr>>
  BY DEF UseUnlocked, agents, Outside
<1>4. \A d, q : \A a \in Agents : Same(a, d, q)
  BY <1>3, SameIdle
<1> QED
  BY <1>1, <1>2, <1>3, <1>4, NotFlushed, LookupMutexes

\* The steps that lock and unlock nothing leave the mutexes right.
LEMMA QuietMutexes ==
  ASSUME ServerInv, mode.noLock,
         \/ \E g \in Agents : Fetch(g) \/ Defer(g) \/ EarlyReturn(g) \/ Body(g) \/ Flush(g)
         \/ \E g \in Reqs : \/ \E h \in mode.calls : Request(g, h)
                            \/ AcquireDatabase(g) \/ ReleaseDatabase(g)
         \/ CloseDatabase \/ OtherProcess
  PROVE  Mutexes'
<1>1. \A c, o : \A a \in Agents : Same(a, c, o)
  BY QuietSame
<1>2. \A c \in Colls : \A o \in Objs : Mutex(c, o)
  BY DEF ServerInv, Mutexes
<1>3. CASE UNCHANGED <<wlock, readers>>
  BY <1>1, <1>2, <1>3, MutexFrame DEF Mutexes
<1>4. CASE \E g \in Agents : Fetch(g)
  <2>1. PICK g \in Agents : Fetch(g)
    BY <1>4
  <2>2. PICK q \in Objs : Lookup(NextLock(g).coll, q)
    BY <2>1 DEF Fetch
  <2> DEFINE d == NextLock(g).coll
  <2>3. pc[Flusher] # "unlock" /\ d \in Colls
    BY <2>1, NotFlushed, AtFetchFacts DEF Fetch, Outside
  <2> HIDE DEF d
  <2> QED
    BY <1>1, <2>2, <2>3, LookupMutexes DEF d
<1> QED
  <2>1. ASSUME NEW g \in Agents, Defer(g) PROVE UNCHANGED <<wlock, readers>>
    BY <2>1, DeferFacts DEF mutexes
  <2> QED
    BY <1>3, <1>4, <2>1
    DEF EarlyReturn, Body, Flush, Request, AcquireDatabase, ReleaseDatabase, CloseDatabase,
        OtherProcess, mutexes

\* sync.RWMutex.Lock, up to the wait for the readers
LEMMA LockMutexes ==
  ASSUME ServerInv, NEW g \in Agents, Lock(g)
  PROVE  Mutexes'
<1> DEFINE d == NextLock(g).coll
           q == ptr[g][held[g] + 1]
<1>1. /\ pc[g] = "lock" /\ wlock[d][q] = "free" /\ wlock' = [wlock EXCEPT ![d][q] = "pending"]
      /\ pc' = [pc EXCEPT ![g] = "pending"] /\ UNCHANGED <<readers, call, held, ptr>>
  BY DEF Lock
<1>2. d \in Colls /\ q \in Objs
  BY <1>1, AtLockFacts DEF AtLock
<1>3. /\ wlock \in [Colls -> [Objs -> {"free", "pending", "held"}]]
      /\ pc'[g] = "pending" /\ \A a \in Agents \ {g} : pc'[a] = pc[a]
  BY <1>1 DEF ServerInv, TypeOK
<1>4. \A c, o : Wants(g, c, o, "pending")' <=> c = d /\ o = q
  BY <1>1, <1>3 DEF Wants, NextLock
<1> HIDE DEF d, q
<1>5. \A a \in Agents \ {g} : \A c, o : Same(a, c, o)
  BY <1>1, <1>3, SameIdle
<1>6. Locked(g)' = Locked(g)
  BY <1>1, <1>3 DEF Locked
<1>7. \A c, o : /\ Has(g, W(c), o)' <=> Has(g, W(c), o)
                /\ Has(g, R(c), o)' <=> Has(g, R(c), o)
                /\ ~Wants(g, c, o, "pending") /\ ~Wants(g, c, o, "wait")
                /\ ~Wants(g, c, o, "wait")'
  BY <1>1, <1>3, <1>6 DEF Has, Wants
<1>8. ASSUME NEW c \in Colls, NEW o \in Objs PROVE Mutex(c, o)'
  <2>0. Mutex(c, o)
    BY DEF ServerInv, Mutexes
  <2>1. CASE c = d /\ o = q
    <3>1. wlock[c][o] = "free" /\ wlock'[c][o] = "pending" /\ readers' = readers
      BY <1>1, <1>2, <1>3, <2>1
    <3>2. \A a \in Agents : ~Has(a, W(c), o) /\ ~Wants(a, c, o, "pending")
      BY <2>0, <3>1, "free" # "held", "free" # "pending" DEF Mutex
    <3>3. /\ \A a \in Agents : ~Has(a, W(c), o)'
          /\ \A a \in Agents : Wants(a, c, o, "pending")' <=> a = g
      BY <1>4, <1>5, <1>7, <2>1, <3>2 DEF Same
    <3>4. Readers(c, o)' = Readers(c, o)
      BY <1>5, <1>7 DEF Readers, Same
    <3>5. IsFiniteSet(Readers(c, o)) /\ readers[c][o] = Cardinality(Readers(c, o))
      BY <2>0 DEF Mutex
    <3> QED
      BY <3>1, <3>3, <3>4, <3>5, "pending" # "held", "pending" # "free" DEF Mutex
  <2>2. CASE ~(c = d /\ o = q)
    <3>1. wlock'[c][o] = wlock[c][o] /\ readers'[c][o] = readers[c][o]
      BY <1>1, <1>2, <1>3, <2>2
    <3>2. \A a \in Agents : Same(a, c, o)
      BY <1>4, <1>5, <1>7, <2>2 DEF Same
    <3> QED
      BY <2>0, <3>1, <3>2, MutexFrame
  <2> QED
    BY <2>1, <2>2
<1> QED
  BY <1>8 DEF Mutexes

\* sync.RWMutex.Lock, when the readers have gone
LEMMA GrantedMutexes ==
  ASSUME ServerInv, NEW g \in Agents, LockGranted(g)
  PROVE  Mutexes'
<1> DEFINE d == NextLock(g).coll
           q == ptr[g][held[g] + 1]
<1>1. /\ pc[g] = "pending" /\ readers[d][q] = 0 /\ wlock' = [wlock EXCEPT ![d][q] = "held"]
      /\ pc' = [pc EXCEPT ![g] = "defer"] /\ UNCHANGED <<readers, call, held, ptr>>
  BY DEF LockGranted
<1>2. d \in Colls /\ q \in Objs /\ NextLock(g) \in Kinds
  BY <1>1, AtLockFacts DEF AtLock
<1>3. /\ wlock \in [Colls -> [Objs -> {"free", "pending", "held"}]]
      /\ pc'[g] = "defer" /\ \A a \in Agents \ {g} : pc'[a] = pc[a]
  BY <1>1 DEF ServerInv, TypeOK
<1>4. NextLock(g) = W(d)
  <2>1. NextLock(g).mode = "w"
    BY <1>1 DEF ServerInv, Controls, Control
  <2> QED
    BY <1>2, <2>1, KindFacts, "w" # "r"
<1>5. \A c, o : Wants(g, c, o, "pending") <=> c = d /\ o = q
  BY <1>1 DEF Wants
<1>6. \A c, o : ~Wants(g, c, o, "wait") /\ ~Wants(g, c, o, "wait")' /\ ~Wants(g, c, o, "pending")'
  BY <1>1, <1>3 DEF Wants
<1>7. \A k, o : Has(g, k, o)' <=> Has(g, k, o) \/ (k = W(d) /\ o = q)
  BY <1>1, <1>3, <1>4, HasMore
<1> HIDE DEF d, q
<1>8. \A a \in Agents \ {g} : \A c, o : Same(a, c, o)
  BY <1>1, <1>3, SameIdle
<1>9. \A c, e : W(c) # R(e) /\ (W(c) = W(e) => c = e)
  BY DEF W, R
<1>10. ASSUME NEW c \in Colls, NEW o \in Objs PROVE Mutex(c, o)'
  <2>0. Mutex(c, o)
    BY DEF ServerInv, Mutexes
  <2>1. CASE c = d /\ o = q
    <3>1. wlock'[c][o] = "held" /\ readers' = readers
      BY <1>1, <1>2, <1>3, <2>1
    <3>2. wlock[c][o] = "pending" /\ \A a \in Agents : Wants(a, c, o, "pending") => a = g
      BY <1>5, <2>0, <2>1 DEF Mutex
    <3>3. \A a \in Agents : ~Has(a, W(c), o)
      BY <2>0, <3>2, "pending" # "held" DEF Mutex
    <3>4. /\ \A a \in Agents : Has(a, W(c), o)' <=> a = g
          /\ \A a \in Agents : ~Wants(a, c, o, "pending")'
      <4>1. Has(g, W(c), o)' /\ ~Wants(g, c, o, "pending")'
        BY <1>6, <1>7, <2>1
      <4>2. \A a \in Agents \ {g} : ~Has(a, W(c), o)' /\ ~Wants(a, c, o, "pending")'
        BY <1>8, <3>2, <3>3 DEF Same
      <4> QED
        BY <4>1, <4>2
    <3>5. IsFiniteSet(Readers(c, o)) /\ readers[c][o] = Cardinality(Readers(c, o))
      BY <2>0 DEF Mutex
    <3>6. Readers(c, o) = {}
      BY <1>1, <2>1, <3>5, FS_EmptySet
    <3>7. Readers(c, o)' = Readers(c, o)
      <4>1. Has(g, R(c), o)' <=> Has(g, R(c), o)
        BY <1>7, <1>9
      <4>2. \A a \in Agents \ {g} : Has(a, R(c), o)' <=> Has(a, R(c), o)
        BY <1>8 DEF Same
      <4> QED
        BY <4>1, <4>2 DEF Readers
    <3> QED
      BY <3>1, <3>4, <3>5, <3>6, <3>7, "pending" # "held", "held" # "free" DEF Mutex
  <2>2. CASE ~(c = d /\ o = q)
    <3>1. wlock'[c][o] = wlock[c][o] /\ readers'[c][o] = readers[c][o]
      BY <1>1, <1>2, <1>3, <2>2
    <3>2. Has(g, W(c), o)' <=> Has(g, W(c), o)
      BY <1>7, <1>9, <2>2
    <3>3. Has(g, R(c), o)' <=> Has(g, R(c), o)
      BY <1>7, <1>9
    <3>4. Same(g, c, o)
      BY <1>5, <1>6, <2>2, <3>2, <3>3, SMTT(30) DEF Same
    <3> QED
      BY <1>8, <2>0, <3>1, <3>4, MutexFrame
  <2> QED
    BY <2>1, <2>2
<1> QED
  BY <1>10 DEF Mutexes
\* sync.RWMutex.RLock
LEMMA RLockMutexes ==
  ASSUME ServerInv, NEW g \in Agents, RLock(g)
  PROVE  Mutexes'
<1> DEFINE d == NextLock(g).coll
           q == ptr[g][held[g] + 1]
<1>1. /\ pc[g] = "lock" /\ UNCHANGED <<wlock, call, held, ptr>> /\ NextLock(g).mode = "r"
      /\ \/ /\ wlock[d][q] = "free" /\ readers' = [readers EXCEPT ![d][q] = readers[d][q] + 1]
            /\ pc' = [pc EXCEPT ![g] = "defer"]
         \/ /\ wlock[d][q] # "free" /\ readers' = readers
            /\ pc' = [pc EXCEPT ![g] = "wait"]
  BY DEF RLock
<1>2. d \in Colls /\ q \in Objs /\ NextLock(g) \in Kinds
  BY <1>1, AtLockFacts DEF AtLock
<1>3. /\ readers \in [Colls -> [Objs -> Nat]]
      /\ \A a \in Agents \ {g} : pc'[a] = pc[a]
      /\ pc' = [pc EXCEPT ![g] = "defer"] => pc'[g] = "defer"
      /\ pc' = [pc EXCEPT ![g] = "wait"] => pc'[g] = "wait"
  BY <1>1 DEF ServerInv, TypeOK
<1>4. NextLock(g) = R(d)
  BY <1>1, <1>2, KindFacts, "w" # "r"
<1>5. \A o : ~Has(g, R(d), o)
  BY <1>1, <1>2, <1>4, NotYetHeld
<1>6. \A c, o : ~Wants(g, c, o, "wait") /\ ~Wants(g, c, o, "pending")
  BY <1>1 DEF Wants
<1>7. \A a \in Agents \ {g} : \A c, o : Same(a, c, o)
  BY <1>1, <1>3, SameIdle
<1>8. \A c, e : W(c) # R(e) /\ (R(c) = R(e) => c = e)
  BY DEF W, R
<1>9. \A c \in Colls : \A o \in Objs : Mutex(c, o)
  BY DEF ServerInv, Mutexes
<1>10. CASE pc'[g] = "defer" /\ wlock[d][q] = "free"
            /\ readers' = [readers EXCEPT ![d][q] = readers[d][q] + 1]
  <2>1. \A k, o : Has(g, k, o)' <=> Has(g, k, o) \/ (k = R(d) /\ o = q)
    BY <1>1, <1>4, <1>10, HasMore
  <2>2. \A c, o : ~Wants(g, c, o, "wait")' /\ ~Wants(g, c, o, "pending")'
    BY <1>10 DEF Wants
  <2> HIDE DEF d, q
  <2>3. ASSUME NEW c \in Colls, NEW o \in Objs PROVE Mutex(c, o)'
    <3>1. CASE c = d /\ o = q
      <4>1. wlock[c][o] = "free" /\ wlock' = wlock /\ readers'[c][o] = readers[c][o] + 1
        BY <1>1, <1>2, <1>3, <1>10, <3>1
      <4>2. \A a \in Agents : /\ ~Has(a, W(c), o) /\ ~Wants(a, c, o, "pending")
                              /\ ~Wants(a, c, o, "wait")
        BY <1>9, <4>1, "free" # "held", "free" # "pending" DEF Mutex
      <4>3. \A a \in Agents : /\ ~Has(a, W(c), o)' /\ ~Wants(a, c, o, "pending")'
                              /\ ~Wants(a, c, o, "wait")'
        <5>1. ~Has(g, W(c), o)'
          <6>1. W(c) # R(d)
            BY <1>8
          <6> QED
            BY <2>1, <4>2, <6>1
        <5>2. \A a \in Agents \ {g} : /\ ~Has(a, W(c), o)' /\ ~Wants(a, c, o, "pending")'
                                      /\ ~Wants(a, c, o, "wait")'
          BY <1>7, <4>2 DEF Same
        <5> QED
          BY <2>2, <5>1, <5>2
      <4>4. Readers(c, o)' = Readers(c, o) \cup {g} /\ g \notin Readers(c, o)
        <5>1. Has(g, R(c), o)' /\ ~Has(g, R(c), o)
          BY <1>5, <2>1, <3>1
        <5>2. \A a \in Agents \ {g} : Has(a, R(c), o)' <=> Has(a, R(c), o)
          BY <1>7 DEF Same
        <5> QED
          BY <5>1, <5>2 DEF Readers
      <4>5. IsFiniteSet(Readers(c, o)) /\ readers[c][o] = Cardinality(Readers(c, o))
        BY <1>9 DEF Mutex
      <4>6. IsFiniteSet(Readers(c, o)') /\ readers'[c][o] = Cardinality(Readers(c, o)')
        BY <4>1, <4>4, <4>5, FS_AddElement
      <4> QED
        BY <4>1, <4>3, <4>6, "free" # "held", "free" # "pending" DEF Mutex
    <3>2. CASE ~(c = d /\ o = q)
      <4>1. wlock'[c][o] = wlock[c][o] /\ readers'[c][o] = readers[c][o]
        BY <1>1, <1>2, <1>3, <1>10, <3>2
      <4>2. Same(g, c, o)
        <5>0. W(c) # R(d) /\ (R(c) = R(d) => c = d)
          BY <1>8
        <5>1. Has(g, W(c), o)' <=> Has(g, W(c), o)
          BY <2>1, <5>0
        <5>2. Has(g, R(c), o)' <=> Has(g, R(c), o)
          BY <2>1, <3>2, <5>0
        <5> QED
          BY <1>6, <2>2, <5>1, <5>2 DEF Same
      <4> QED
        BY <1>7, <1>9, <4>1, <4>2, MutexFrame
    <3> QED
      BY <3>1, <3>2
  <2> QED
    BY <2>3 DEF Mutexes
<1>11. CASE pc'[g] = "wait" /\ wlock[d][q] # "free" /\ readers' = readers
  <2>1. \A c, o : Wants(g, c, o, "wait")' => c = d /\ o = q
    BY <1>1, <1>11 DEF Wants, NextLock
  <2>2. \A c, o : ~Wants(g, c, o, "pending")'
    BY <1>11 DEF Wants
  <2> HIDE DEF d, q
  <2>3. Locked(g)' = Locked(g)
    BY <1>1, <1>11 DEF Locked
  <2>4. \A k, o : Has(g, k, o)' <=> Has(g, k, o)
    BY <1>1, <2>3 DEF Has
  <2>5. ASSUME NEW c \in Colls, NEW o \in Objs PROVE Mutex(c, o)'
    <3>1. Readers(c, o)' = Readers(c, o)
      BY <1>7, <2>4 DEF Readers, Same
    <3>2. /\ \A a \in Agents : Has(a, W(c), o)' <=> Has(a, W(c), o)
          /\ \A a \in Agents : Wants(a, c, o, "pending")' <=> Wants(a, c, o, "pending")
      BY <1>6, <1>7, <2>2, <2>4 DEF Same
    <3>3. \A a \in Agents : Wants(a, c, o, "wait")' => Wants(a, c, o, "wait") \/ (c = d /\ o = q)
      BY <1>7, <2>1 DEF Same
    <3>4. \A a \in Agents : Wants(a, c, o, "wait")' => wlock[c][o] # "free"
      BY <1>9, <1>11, <3>3 DEF Mutex
    <3>5. /\ wlock[c][o] = "held" <=> \E a \in Agents : Has(a, W(c), o)
          /\ wlock[c][o] = "pending" <=> \E a \in Agents : Wants(a, c, o, "pending")
          /\ \A h, a \in Agents : Has(h, W(c), o) /\ Has(a, W(c), o) => h = a
          /\ \A h, a \in Agents : Wants(h, c, o, "pending") /\ Wants(a, c, o, "pending") => h = a
          /\ (\E a \in Agents : Has(a, W(c), o)) => Readers(c, o) = {}
          /\ IsFiniteSet(Readers(c, o)) /\ readers[c][o] = Cardinality(Readers(c, o))
      BY <1>9 DEF Mutex
    <3> QED
      BY <1>1, <1>11, <3>1, <3>2, <3>4, <3>5 DEF Mutex
  <2> QED
    BY <2>5 DEF Mutexes
<1> QED
  BY <1>1, <1>3, <1>10, <1>11
\* sync.RWMutex.RUnlock
LEMMA RUnlockMutexes ==
  ASSUME ServerInv, NEW g \in Agents, Unlock(g), LastLock(g).mode # "w"
  PROVE  Mutexes'
<1> DEFINE d == LastLock(g).coll
           q == Receiver(g)
<1>0. Unlocks(g, LastLock(g), q)
  BY UnlockStep
<1>1. /\ pc[g] = "unlock" /\ wlock' = wlock
      /\ readers' = [readers EXCEPT ![d][q] = readers[d][q] - 1]
      /\ \A a \in Agents \ {g} : pc'[a] = pc[a]
      /\ pc'[g] \in {Done(g), "unlock"}
  BY <1>0 DEF Unlocks
<1>2. \A a \in Agents \ {g} : held'[a] = held[a] /\ ptr'[a] = ptr[a] /\ call'[a] = call[a]
  BY <1>0 DEF Unlocks, ServerInv, TypeOK
<1>3. d \in Colls /\ q \in Objs /\ Has(g, LastLock(g), q)
  BY <1>1, AtUnlockFacts DEF LastLock
<1>4. LastLock(g) = R(d) /\ g \in Readers(d, q) /\ readers \in [Colls -> [Objs -> Nat]]
  BY <1>1, UnlockSound DEF ServerInv, TypeOK
<1>5. \A k, o : Has(g, k, o)' <=> Has(g, k, o) /\ k # R(d)
  BY <1>0, <1>4, HasLess
<1>6. \A o : o # q => ~Has(g, R(d), o)
  <2> SUFFICES ASSUME NEW o, o # q, Has(g, R(d), o) PROVE FALSE
    OBVIOUS
  <2>1. Locked(g) = held[g]
    BY <1>1 DEF Locked
  <2>2. PICK i \in 1..Locked(g) : Locks(call[g])[i] = R(d) /\ ptr[g][i] = o
    BY DEF Has
  <2>3. /\ call[g] \in Called /\ held[g] \in 1..Len(Locks(call[g]))
        /\ i \in 1..Len(Locks(call[g])) /\ q = ptr[g][held[g]]
    BY <1>1, <2>2, HasFacts, AtUnlockFacts
  <2>4. Locks(call[g])[i].coll = Locks(call[g])[held[g]].coll
    BY <1>4, <2>2 DEF LastLock
  <2>5. i = held[g]
    BY <2>3, <2>4, LocksDistinct
  <2> QED
    BY <2>2, <2>3, <2>5
<1> HIDE DEF d, q
<1>7. \A a \in Agents \ {g} : \A c, o : Same(a, c, o)
  BY <1>1, <1>2, SameIdle
<1>8. \A c, o : /\ ~Wants(g, c, o, "pending") /\ ~Wants(g, c, o, "wait")
                /\ ~Wants(g, c, o, "pending")' /\ ~Wants(g, c, o, "wait")'
  <2>1. pc'[g] \notin {"pending", "wait"}
    BY <1>1 DEF Done
  <2> QED
    BY <1>1, <2>1 DEF Wants
<1>9. \A c : W(c) # R(d) /\ (R(c) = R(d) => c = d)
  BY DEF W, R
<1>10. ASSUME NEW c \in Colls, NEW o \in Objs PROVE Mutex(c, o)'
  <2>0. Mutex(c, o)
    BY DEF ServerInv, Mutexes
  <2>1. Has(g, W(c), o)' <=> Has(g, W(c), o)
    BY <1>5, <1>9
  <2>2. CASE c = d /\ o = q
    <3>1. wlock' = wlock /\ readers'[c][o] = readers[c][o] - 1
      BY <1>1, <1>3, <1>4, <2>2
    <3>2. Readers(c, o)' = Readers(c, o) \ {g} /\ g \in Readers(c, o)
      <4>1. ~Has(g, R(c), o)'
        BY <1>5, <2>2
      <4>2. \A a \in Agents \ {g} : Has(a, R(c), o)' <=> Has(a, R(c), o)
        BY <1>7 DEF Same
      <4> QED
        BY <1>4, <2>2, <4>1, <4>2 DEF Readers
    <3>3. IsFiniteSet(Readers(c, o)) /\ readers[c][o] = Cardinality(Readers(c, o))
      BY <2>0 DEF Mutex
    <3>4. IsFiniteSet(Readers(c, o)') /\ readers'[c][o] = Cardinality(Readers(c, o)')
      BY <3>1, <3>2, <3>3, FS_RemoveElement
    <3>5. /\ \A a \in Agents : Has(a, W(c), o)' <=> Has(a, W(c), o)
          /\ \A a \in Agents : Wants(a, c, o, "pending")' <=> Wants(a, c, o, "pending")
          /\ \A a \in Agents : Wants(a, c, o, "wait")' <=> Wants(a, c, o, "wait")
      BY <1>7, <1>8, <2>1 DEF Same
    <3>6. /\ wlock[c][o] = "held" <=> \E a \in Agents : Has(a, W(c), o)
          /\ wlock[c][o] = "pending" <=> \E a \in Agents : Wants(a, c, o, "pending")
          /\ \A h, a \in Agents : Has(h, W(c), o) /\ Has(a, W(c), o) => h = a
          /\ \A h, a \in Agents : Wants(h, c, o, "pending") /\ Wants(a, c, o, "pending") => h = a
          /\ ~\E a \in Agents : Has(a, W(c), o)
          /\ \A a \in Agents : Wants(a, c, o, "wait") => wlock[c][o] # "free"
      BY <2>0, <3>2 DEF Mutex
    <3> QED
      BY <3>1, <3>4, <3>5, <3>6 DEF Mutex
  <2>3. CASE ~(c = d /\ o = q)
    <3>1. wlock'[c][o] = wlock[c][o] /\ readers'[c][o] = readers[c][o]
      BY <1>1, <1>3, <1>4, <2>3
    <3>2. Has(g, R(c), o)' <=> Has(g, R(c), o)
      BY <1>5, <1>6, <1>9, <2>3
    <3>3. Same(g, c, o)
      BY <1>8, <2>1, <3>2 DEF Same
    <3> QED
      BY <1>7, <2>0, <3>1, <3>3, MutexFrame
  <2> QED
    BY <2>2, <2>3
<1> QED
  BY <1>10 DEF Mutexes

\* sync.RWMutex.Unlock lets in the readers that have come in the meantime
LEMMA WUnlockMutexes ==
  ASSUME ServerInv, NEW g \in Agents, Unlock(g), LastLock(g).mode = "w"
  PROVE  Mutexes'
<1> DEFINE d == LastLock(g).coll
           q == Receiver(g)
           T == Admitted(d, q)
<1>0. Unlocks(g, LastLock(g), q)
  BY UnlockStep
<1>1. /\ pc[g] = "unlock" /\ wlock' = [wlock EXCEPT ![d][q] = "free"]
      /\ readers' = [readers EXCEPT ![d][q] = Cardinality(T)]
      /\ \A a \in Agents \ {g} : pc'[a] = IF a \in T THEN "defer" ELSE pc[a]
      /\ pc'[g] \in {Done(g), "unlock"}
  BY <1>0 DEF Unlocks
<1>2. \A a \in Agents \ {g} : held'[a] = held[a] /\ ptr'[a] = ptr[a] /\ call'[a] = call[a]
  BY <1>0 DEF Unlocks, ServerInv, TypeOK
<1>3. d \in Colls /\ q \in Objs /\ Has(g, LastLock(g), q) /\ LastLock(g) \in Kinds
  BY <1>1, AtUnlockFacts DEF LastLock
<1>4. /\ LastLock(g) = W(d) /\ readers \in [Colls -> [Objs -> Nat]]
      /\ wlock \in [Colls -> [Objs -> {"free", "pending", "held"}]]
  BY <1>3, KindFacts, "w" # "r" DEF ServerInv, TypeOK
<1>5. \A k, o : Has(g, k, o)' <=> Has(g, k, o) /\ k # W(d)
  BY <1>0, <1>4, HasLess
<1>6. \A o : o # q => ~Has(g, W(d), o)
  <2> SUFFICES ASSUME NEW o, o # q, Has(g, W(d), o) PROVE FALSE
    OBVIOUS
  <2>1. Locked(g) = held[g]
    BY <1>1 DEF Locked
  <2>2. PICK i \in 1..Locked(g) : Locks(call[g])[i] = W(d) /\ ptr[g][i] = o
    BY DEF Has
  <2>3. /\ call[g] \in Called /\ held[g] \in 1..Len(Locks(call[g]))
        /\ i \in 1..Len(Locks(call[g])) /\ q = ptr[g][held[g]]
    BY <1>1, <2>2, HasFacts, AtUnlockFacts
  <2>4. Locks(call[g])[i].coll = Locks(call[g])[held[g]].coll
    BY <1>4, <2>2 DEF LastLock
  <2>5. i = held[g]
    BY <2>3, <2>4, LocksDistinct
  <2> QED
    BY <2>2, <2>3, <2>5
<1>7. \A a \in T : a \in Agents /\ a # g /\ pc[a] = "wait" /\ Wants(a, d, q, "wait")
  BY <1>1, "wait" # "unlock" DEF Admitted, Wants
<1>8. \A a \in Agents : Wants(a, d, q, "wait") => a \in T
  BY DEF Admitted, Wants
<1>9. \A a \in T : NextLock(a) = R(d) /\ ptr[a][held[a] + 1] = q
  <2> SUFFICES ASSUME NEW a \in T PROVE NextLock(a) = R(d) /\ ptr[a][held[a] + 1] = q
    OBVIOUS
  <2>1. NextLock(a).mode = "r" /\ NextLock(a).coll = d /\ ptr[a][held[a] + 1] = q
    BY <1>7 DEF Wants, ServerInv, Controls, Control
  <2>2. NextLock(a) \in Kinds
    BY <1>7, AtLockFacts DEF AtLock
  <2> QED
    BY <2>1, <2>2, KindFacts, "w" # "r"
<1> HIDE DEF d, q, T
<1>10. \A a \in Agents \ {g} : a \notin T => \A c, o : Same(a, c, o)
  BY <1>1, <1>2, SameIdle
<1>11. \A a \in T : \A k, o : Has(a, k, o)' <=> Has(a, k, o) \/ (k = R(d) /\ o = q)
  <2> SUFFICES ASSUME NEW a \in T, NEW k, NEW o
               PROVE  Has(a, k, o)' <=> Has(a, k, o) \/ (k = R(d) /\ o = q)
    OBVIOUS
  <2>1. /\ a \in Agents /\ pc[a] \in {"lock", "pending", "wait"} /\ pc'[a] = "defer"
        /\ UNCHANGED <<call[a], held[a], ptr[a]>>
    BY <1>1, <1>2, <1>7
  <2>2. Has(a, k, o)' <=> \/ Has(a, k, o)
                          \/ k = NextLock(a) /\ o = ptr[a][held[a] + 1]
    BY <2>1, HasMore
  <2> QED
    BY <1>9, <2>2
<1>12. \A a \in T : \A c, o : /\ ~Wants(a, c, o, "pending") /\ ~Wants(a, c, o, "pending")'
                             /\ ~Wants(a, c, o, "wait")' /\ (Wants(a, c, o, "wait") => c = d /\ o = q)
  <2>1. \A a \in T : pc[a] = "wait" /\ pc'[a] = "defer" /\ NextLock(a).coll = d
                     /\ ptr[a][held[a] + 1] = q
    BY <1>1, <1>7 DEF Wants
  <2> QED
    BY <2>1 DEF Wants
<1>13. \A c, o : /\ ~Wants(g, c, o, "pending") /\ ~Wants(g, c, o, "wait")
                 /\ ~Wants(g, c, o, "pending")' /\ ~Wants(g, c, o, "wait")'
  <2>1. pc'[g] \notin {"pending", "wait"}
    BY <1>1 DEF Done
  <2> QED
    BY <1>1, <2>1 DEF Wants
<1>14. ASSUME NEW c \in Colls, NEW o \in Objs PROVE Mutex(c, o)'
  <2>0. Mutex(c, o) /\ W(c) # R(d) /\ R(c) # W(d) /\ (R(c) = R(d) => c = d) /\ (W(c) = W(d) => c = d)
    <3>1. W(c) # R(d) /\ R(c) # W(d) /\ (R(c) = R(d) => c = d) /\ (W(c) = W(d) => c = d)
      BY DEF W, R
    <3> QED
      BY <3>1 DEF ServerInv, Mutexes
  <2>1. CASE c = d /\ o = q
    <3>1. wlock'[c][o] = "free" /\ readers'[c][o] = Cardinality(T)
      BY <1>1, <1>3, <1>4, <2>1
    <3>2. Has(g, W(c), o)
      BY <1>3, <1>4, <2>1
    <3>3. /\ \A a \in Agents \ {g} : ~Has(a, W(c), o)
          /\ \A a \in Agents : ~Wants(a, c, o, "pending")
          /\ Readers(c, o) = {}
      BY <2>0, <3>2, "held" # "pending" DEF Mutex
    <3>4. \A a \in Agents : ~Has(a, W(c), o)'
      <4>1. ~Has(g, W(c), o)'
        BY <1>5, <2>1
      <4>2. \A a \in T : ~Has(a, W(c), o)'
        <5> SUFFICES ASSUME NEW a \in T PROVE ~Has(a, W(c), o)'
          OBVIOUS
        <5>1. Has(a, W(c), o)' <=> Has(a, W(c), o) \/ (W(c) = R(d) /\ o = q)
          BY <1>11
        <5>2. W(c) # R(d)
          BY <2>0
        <5>3. ~Has(a, W(c), o)
          BY <1>7, <3>3
        <5> QED
          BY <5>1, <5>2, <5>3
      <4>3. \A a \in Agents \ {g} : a \notin T => ~Has(a, W(c), o)'
        BY <1>10, <3>3 DEF Same
      <4> QED
        BY <4>1, <4>2, <4>3
    <3>5. \A a \in Agents : ~Wants(a, c, o, "pending")' /\ ~Wants(a, c, o, "wait")'
      <4>1. \A a \in Agents \ {g} : a \notin T => ~Wants(a, c, o, "pending")' /\ ~Wants(a, c, o, "wait")'
        BY <1>8, <1>10, <2>1, <3>3 DEF Same
      <4> QED
        BY <1>12, <1>13, <4>1
    <3>6. Readers(c, o)' = T
      <4>1. \A a \in T : a \in Agents /\ Has(a, R(c), o)'
        BY <1>7, <1>11, <2>1
      <4>2. ~Has(g, R(c), o)'
        BY <1>5, <3>3 DEF Readers
      <4>3. \A a \in Agents \ {g} : a \notin T => ~Has(a, R(c), o)'
        BY <1>10, <3>3 DEF Same, Readers
      <4> QED
        BY <4>1, <4>2, <4>3 DEF Readers
    <3>7. IsFiniteSet(T)
      <4>1. T \subseteq {a \in Agents : pc[a] = "wait"}
        BY <1>7
      <4> QED
        BY <4>1, WaitingFinite
    <3> QED
      BY <3>1, <3>4, <3>5, <3>6, <3>7, "free" # "held", "free" # "pending" DEF Mutex
  <2>2. CASE ~(c = d /\ o = q)
    <3>1. wlock'[c][o] = wlock[c][o] /\ readers'[c][o] = readers[c][o]
      BY <1>1, <1>3, <1>4, <2>2, SMTT(30)
    <3>2. Same(g, c, o)
      <4>1. Has(g, W(c), o)' <=> Has(g, W(c), o)
        BY <1>5, <1>6, <2>0, <2>2
      <4>2. Has(g, R(c), o)' <=> Has(g, R(c), o)
        BY <1>5, <2>0
      <4> QED
        BY <1>13, <4>1, <4>2 DEF Same
    <3>3. \A a \in T : Same(a, c, o)
      <4> SUFFICES ASSUME NEW a \in T PROVE Same(a, c, o)
        OBVIOUS
      <4>1. Has(a, W(c), o)' <=> Has(a, W(c), o)
        <5>1. Has(a, W(c), o)' <=> Has(a, W(c), o) \/ (W(c) = R(d) /\ o = q)
          BY <1>11
        <5>2. W(c) # R(d)
          BY <2>0
        <5> QED
          BY <5>1, <5>2
      <4>2. Has(a, R(c), o)' <=> Has(a, R(c), o)
        BY <1>11, <2>0, <2>2
      <4>3. /\ Wants(a, c, o, "pending")' <=> Wants(a, c, o, "pending")
            /\ Wants(a, c, o, "wait")' <=> Wants(a, c, o, "wait")
        BY <1>12, <2>2
      <4> QED
        BY <4>1, <4>2, <4>3 DEF Same
    <3>4. \A a \in Agents : Same(a, c, o)
      BY <1>10, <3>2, <3>3
    <3> QED
      BY <2>0, <3>1, <3>4, MutexFrame
  <2> QED
    BY <2>1, <2>2
<1> QED
  BY <1>14 DEF Mutexes
----------------------------------------------------------------------------
(* The invariant                                                           *)

LEMMA ServerInit ==
  ASSUME Init, mode.noLock
  PROVE  ServerInv
<1>0. /\ object = [c \in Colls |-> Nil] /\ stale = [c \in Colls |-> {}]
      /\ wlock = [c \in Colls |-> [o \in Objs |-> "free"]]
      /\ readers = [c \in Colls |-> [o \in Objs |-> 0]]
      /\ call = [g \in Agents |-> "none"] /\ pc = [g \in Agents |-> "idle"]
      /\ held = [g \in Agents |-> 0]
      /\ ptr = [g \in Agents |-> <<>>] /\ dfr = [g \in Agents |-> <<>>]
      /\ clients = 0 /\ closing = Nil /\ up = TRUE
      /\ mode \in Modes /\ open = FALSE
  BY DEF Init
<1>1. TypeOK /\ up
  <2>1. /\ object \in [Colls -> Objs \cup {Nil}] /\ stale \in [Colls -> SUBSET Objs]
        /\ wlock \in [Colls -> [Objs -> {"free", "pending", "held"}]]
        /\ call \in [Agents -> Handlers \cup {"flush", "none"}]
        /\ pc \in [Agents -> {"idle", "acquire", "fetch", "lock", "pending", "wait",
                              "defer", "body", "unlock", "release"}]
    BY <1>0
  <2>2. readers \in [Colls -> [Objs -> Nat]] /\ held \in [Agents -> Nat] /\ clients \in Nat
    BY <1>0
  <2>3. ptr \in [Agents -> Seq(Objs)] /\ dfr \in [Agents -> Seq(Objs)]
    BY <1>0, SMTT(30)
  <2> QED
    BY <1>0, <2>1, <2>2, <2>3 DEF TypeOK
<1>2. \A g \in Agents : /\ pc[g] = "idle" /\ held[g] = 0 /\ ptr[g] = <<>> /\ dfr[g] = <<>>
  BY <1>0
<1>3. Controls
  BY <1>2 DEF Controls, Control, Outside, AtLock
<1>4. Database
  <2>1. Serving = {}
    BY <1>2 DEF Serving, Agents
  <2>2. pc[Flusher] = "idle"
    BY <1>2 DEF Agents
  <2>3. IsFiniteSet(Serving) /\ clients = Cardinality(Serving)
    BY <1>0, <2>1, FS_EmptySet
  <2> QED
    BY <1>0, <2>2, <2>3, SMTT(30) DEF Database
<1>5. Pointed
  <2>1. \A g \in Agents : Attached(g)
    BY <1>2, SMTT(30) DEF Attached
  <2>2. \A c \in Colls : object[c] = Nil /\ object[c] \notin stale[c]
    BY <1>0
  <2> QED
    BY <2>1, <2>2 DEF Pointed
<1>6. Mutexes
  <2> SUFFICES ASSUME NEW c \in Colls, NEW o \in Objs PROVE Mutex(c, o)
    BY DEF Mutexes
  <2>1. \A g \in Agents : \A k : ~Has(g, k, o)
    BY <1>2, SMTT(30) DEF Has, Locked
  <2>2. \A g \in Agents : ~Wants(g, c, o, "pending") /\ ~Wants(g, c, o, "wait")
    BY <1>2, "idle" # "pending", "idle" # "wait" DEF Wants
  <2>3. Readers(c, o) = {}
    BY <2>1 DEF Readers
  <2>4. wlock[c][o] = "free" /\ readers[c][o] = 0
    BY <1>0
  <2>5. IsFiniteSet(Readers(c, o)) /\ readers[c][o] = Cardinality(Readers(c, o))
    BY <2>3, <2>4, FS_EmptySet
  <2> QED
    BY <2>1, <2>2, <2>4, <2>5, "free" # "held", "free" # "pending" DEF Mutex
<1> QED
  BY <1>1, <1>3, <1>4, <1>5, <1>6 DEF ServerInv

\* one step of a goroutine
LEMMA RunStep ==
  ASSUME ServerInv, mode.noLock, UNCHANGED mode, NEW g \in Agents, Run(g)
  PROVE  ServerInv'
<1>0. Database'
  BY RunDatabase
<1>1. CASE Fetch(g)
  <2>1. TypeOK' /\ Controls' /\ Pointed' /\ Mutexes'
    BY <1>1, LockTypes, LockControl, FetchPointed, QuietMutexes
  <2> QED
    BY <1>0, <1>1, <2>1 DEF ServerInv, Fetch
<1>2. CASE Lock(g)
  <2>1. TypeOK' /\ Controls' /\ Pointed' /\ Mutexes'
    BY <1>2, LockTypes, LockControl, LockPointed, LockMutexes
  <2> QED
    BY <1>0, <1>2, <2>1 DEF ServerInv, Lock
<1>3. CASE LockGranted(g)
  <2>1. TypeOK' /\ Controls' /\ Pointed' /\ Mutexes'
    BY <1>3, LockTypes, LockControl, LockPointed, GrantedMutexes
  <2> QED
    BY <1>0, <1>3, <2>1 DEF ServerInv, LockGranted
<1>4. CASE RLock(g)
  <2>1. TypeOK' /\ Controls' /\ Pointed' /\ Mutexes'
    BY <1>4, LockTypes, LockControl, LockPointed, RLockMutexes
  <2> QED
    BY <1>0, <1>4, <2>1 DEF ServerInv, RLock
<1>5. CASE Defer(g)
  <2>1. TypeOK' /\ Controls' /\ Pointed' /\ Mutexes'
    BY <1>5, LockTypes, LockControl, LockPointed, QuietMutexes
  <2> QED
    BY <1>0, <1>5, <2>1 DEF ServerInv, Defer
<1>6. CASE EarlyReturn(g)
  <2>1. TypeOK' /\ up' /\ Controls' /\ Pointed' /\ Mutexes'
    BY <1>6, UnlockTypes, UnlockControl, OtherPointed, QuietMutexes
  <2> QED
    BY <1>0, <2>1 DEF ServerInv
<1>7. CASE Body(g)
  <2>1. TypeOK' /\ up' /\ Controls' /\ Pointed' /\ Mutexes'
    BY <1>7, UnlockTypes, UnlockControl, BodyPointed, QuietMutexes
  <2> QED
    BY <1>0, <2>1 DEF ServerInv
<1>8. CASE Flush(g)
  <2>1. TypeOK' /\ up' /\ Controls' /\ Pointed' /\ Mutexes'
    BY <1>8, UnlockTypes, UnlockControl, FlushPointed, QuietMutexes
  <2> QED
    BY <1>0, <2>1 DEF ServerInv
<1>9. CASE Unlock(g)
  <2>1. TypeOK' /\ up' /\ Controls' /\ Pointed' /\ Mutexes'
    BY <1>9, UnlockTypes, UnlockControl, OtherPointed, RUnlockMutexes, WUnlockMutexes
  <2> QED
    BY <1>0, <2>1 DEF ServerInv
<1>10. CASE UseUnlocked(g)
  <2>1. TypeOK' /\ Controls' /\ Pointed' /\ Mutexes'
    BY <1>10, UnlockedKept, UnlockedMutexes
  <2> QED
    BY <1>0, <1>10, <2>1 DEF ServerInv, UseUnlocked
<1> QED
  BY <1>1, <1>2, <1>3, <1>4, <1>5, <1>6, <1>7, <1>8, <1>9, <1>10 DEF Run

LEMMA ServerStep ==
  ASSUME ServerInv, mode.noLock, [Next]_vars
  PROVE  ServerInv' /\ mode'.noLock
<1>1. CASE UNCHANGED vars
  <2>0. /\ UNCHANGED <<object, stale, wlock, readers, call, pc, held, ptr, dfr>>
        /\ UNCHANGED <<clients, closing, open, up, mode>>
        /\ \A a : UNCHANGED <<call[a], pc[a], held[a], ptr[a], dfr[a]>>
    BY <1>1 DEF vars
  <2>1. TypeOK' /\ up'
    BY <2>0 DEF ServerInv, TypeOK
  <2>2. Controls'
    BY <2>0, ControlSame DEF ServerInv, Controls
  <2>3. Database'
    BY <2>0 DEF ServerInv, Database, Serving
  <2>4. Pointed'
    <3>1. \A a \in Agents : Attached(a)'
      BY <2>0, AttachedSame DEF ServerInv, Pointed
    <3> QED
      BY <2>0, <3>1 DEF ServerInv, Pointed
  <2>5. Mutexes'
    <3>1. \A a \in Agents : \A c, o : Same(a, c, o)
      BY <2>0, SameIdle
    <3> QED
      BY <2>0, <3>1, MutexFrame DEF ServerInv, Mutexes
  <2> QED
    BY <2>0, <2>1, <2>2, <2>3, <2>4, <2>5 DEF ServerInv
<1>2. ASSUME UNCHANGED mode, NEW g \in Agents, Run(g)
      PROVE  ServerInv' /\ mode'.noLock
  BY <1>2, RunStep
<1>3. ASSUME UNCHANGED mode,
             \/ \E g \in Reqs : \/ \E h \in mode.calls : Request(g, h)
                                \/ AcquireDatabase(g) \/ ReleaseDatabase(g)
             \/ CloseDatabase \/ OtherProcess
      PROVE  ServerInv' /\ mode'.noLock
  <2>1. TypeOK' /\ Controls' /\ Pointed' /\ Mutexes'
    BY <1>3, OtherTypes, OtherControl, OtherPointed, QuietMutexes
  <2>2. Database'
    BY <1>3, AcquireKept, ReleaseKept, CloseKept
  <2>3. up'
    BY <1>3 DEF ServerInv, Request, AcquireDatabase, ReleaseDatabase, CloseDatabase, OtherProcess
  <2> QED
    BY <1>3, <2>1, <2>2, <2>3 DEF ServerInv
<1>4. ~Tick
  BY DEF Tick
<1> QED
  BY <1>1, <1>2, <1>3, <1>4 DEF Next

\* With -no-lock the invariant holds of every state of the server: where each
\* goroutine is and what it has, that acquireDatabase counts the requests
\* inside, that every pointer is to the object of the factory, and that each
\* mutex is what the goroutines that hold it and wait for it make of it.
THEOREM ServerInvariant == Spec => [](mode.noLock => ServerInv)
<1> DEFINE I == mode.noLock => ServerInv
<1>1. Init => I
  BY ServerInit
<1>2. I /\ [Next]_vars => I'
  <2>1. [Next]_vars => mode' = mode
    BY DEF Next, vars
  <2> QED
    BY <2>1, ServerStep
<1> QED
  BY <1>1, <1>2, PTL DEF Spec
----------------------------------------------------------------------------
(* What follows from it                                                    *)

\* With -no-lock the state of the server stays in its type: no reader count
\* of a mutex and no count of clients is released more often than acquired.
THEOREM NoLockTypes == Spec => [](mode.noLock => TypeOK)
<1>1. (mode.noLock => ServerInv) => (mode.noLock => TypeOK)
  BY DEF ServerInv
<1> QED
  BY <1>1, ServerInvariant, PTL

\* A deferred Unlock always meets the mutex that its handler has locked, so
\* that a server with -no-lock never dies of the runtime's fatal error.
THEOREM NoLockUnlocks == Spec => [](mode.noLock => UnlocksWhatItLocked)
<1>1. (mode.noLock => ServerInv) => (mode.noLock => UnlocksWhatItLocked)
  BY DEF ServerInv, UnlocksWhatItLocked
<1> QED
  BY <1>1, ServerInvariant, PTL

\* acquireDatabase counts the requests between acquire and release, keeps the
\* database open for them, and flushes only when there are none.
THEOREM DatabaseOpen == Spec => []OpenWhileServing
<1>1. (mode.noLock => ServerInv) => OpenWhileServing
  BY DEF ServerInv, Database, Serving, OpenWhileServing
<1> QED
  BY <1>1, ServerInvariant, PTL

\* what a call in its body has locked is the object of the factory
LEMMA BodyHas ==
  ASSUME ServerInv, NEW g \in Agents, pc[g] = "body", NEW c \in Colls, NEW m, Holds(g, c, m)
  PROVE  Has(g, [coll |-> c, mode |-> m], object[c]) /\ object[c] \in Objs
<1>1. PICK i \in 1..held[g] : Locks(call[g])[i] = [coll |-> c, mode |-> m]
  BY DEF Holds
<1>2. Locked(g) = held[g] /\ pc[g] \notin Outside /\ pc[g] # "unlock"
  BY DEF Locked, Outside
<1>3. i \in 1..Len(ptr[g]) /\ pc[Flusher] # "unlock"
  BY <1>1, <1>2, HasFacts, NotFlushed
<1>4. Locks(call[g])[i].coll = c
  BY <1>1, SMTT(30)
<1>5. ptr[g][i] = object[c] /\ object[c] \in Objs
  BY <1>3, <1>4, PointerFacts
<1> QED
  BY <1>1, <1>2, <1>5 DEF Has

\* the published repositories are locked, at its end, by a call that drops
\* snapshots or local repositories and by one that uses them unlocked
LEMMA PublishedLocked ==
  ASSUME NEW h \in Called
  PROVE  /\ Unlocked(h) # {} => Locks(h)[Len(Locks(h))] = W("published")
         /\ Drops(h) \ {"published"} # {} => Locks(h)[Len(Locks(h))] = R("published")
<1> DEFINE Last(s) == s[Len(s)]
<1>1. \A k, l, m : Last(<<k, l>>) = l /\ Last(<<k, l, m>>) = m
  BY SMTT(30)
<1> HIDE DEF Last
<1>2. CASE Unlocked(h) # {}
  <2>1. h \in {"apiPublishSnapshot", "apiPublishRepo", "apiPublishDrop"}
    BY <1>2 DEF Unlocked
  <2>2. Locks(h) \in {<<W("snapshot"), W("published")>>, <<W("local"), W("published")>>}
    BY <2>1, SMTT(30) DEF Locks, ReposLocks, SnapshotLocks, PublishLocks
  <2>3. Last(Locks(h)) = W("published")
    BY <1>1, <2>2
  <2>4. Drops(h) \ {"published"} = {}
    BY <2>1, SMTT(30) DEF Drops
  <2> QED
    BY <2>3, <2>4 DEF Last
<1>3. CASE Unlocked(h) = {} /\ Drops(h) \ {"published"} # {}
  <2>1. h \in {"apiReposDrop", "apiSnapshotsDrop"}
    BY <1>3 DEF Drops
  <2>2. \/ Locks(h) = <<W("local"), R("snapshot"), R("published")>>
        \/ Locks(h) = <<W("snapshot"), R("published")>>
    BY <2>1, SMTT(30) DEF Locks, ReposLocks, SnapshotLocks
  <2>3. /\ Last(<<W("local"), R("snapshot"), R("published")>>) = R("published")
        /\ Last(<<W("snapshot"), R("published")>>) = R("published")
    BY <1>1
  <2>4. Last(Locks(h)) = R("published")
    BY <2>2, <2>3
  <2> QED
    BY <1>3, <2>4 DEF Last
<1>4. CASE Unlocked(h) = {} /\ Drops(h) \ {"published"} = {}
  BY <1>4
<1> QED
  BY <1>2, <1>3, <1>4

\* With -no-lock the locks of the handlers, on objects that come and go with
\* Flush, exclude as if every collection had one mutex.  Nothing is dropped
\* from a collection that a request uses without having locked it.
THEOREM NoLockExclusion == Spec => [](mode.noLock => CollectionExclusion)
<1>1. ASSUME ServerInv, NEW g \in Agents, NEW a \in Agents, NEW c \in Colls,
             g # a, pc[g] = "body", Holds(g, c, "w"), pc[a] = "body",
             Holds(a, c, "r") \/ Holds(a, c, "w")
      PROVE  FALSE
  <2>1. Has(g, W(c), object[c]) /\ object[c] \in Objs
    BY <1>1, BodyHas DEF W
  <2>2. Has(a, R(c), object[c]) \/ Has(a, W(c), object[c])
    BY <1>1, BodyHas DEF W, R
  <2>3. Mutex(c, object[c])
    BY <1>1, <2>1 DEF ServerInv, Mutexes
  <2>4. ~Has(a, W(c), object[c])
    BY <1>1, <2>1, <2>3 DEF Mutex
  <2>5. ~Has(a, R(c), object[c])
    BY <1>1, <2>1, <2>3 DEF Mutex, Readers
  <2> QED
    BY <2>2, <2>4, <2>5
<1>2. ASSUME ServerInv, NEW g \in Agents, NEW a \in Agents, NEW c \in Colls,
             g # a, pc[g] = "body", pc[a] = "body", c \in Drops(call[g]), c \in Unlocked(call[a])
      PROVE  FALSE
  <2>1. ASSUME NEW b \in Agents, pc[b] = "body"
        PROVE  call[b] \in Called /\ Len(Locks(call[b])) \in 1..held[b]
    <3>1. call[b] \in Called /\ held[b] = Len(Locks(call[b]))
      BY <1>2, <2>1 DEF ServerInv, Controls, Control
    <3>2. Len(Locks(call[b])) \in Nat /\ Len(Locks(call[b])) > 0
      BY <3>1, LocksFacts
    <3> QED
      BY <3>1, <3>2, SMTT(30)
  <2>2. c # "published"
    BY <1>2 DEF Unlocked
  <2>3. Locks(call[a])[Len(Locks(call[a]))] = W("published")
    BY <1>2, <2>1, PublishedLocked
  <2>4. Locks(call[g])[Len(Locks(call[g]))] = R("published")
    BY <1>2, <2>1, <2>2, PublishedLocked
  <2>5. Holds(a, "published", "w") /\ Holds(g, "published", "r")
    BY <1>2, <2>1, <2>3, <2>4 DEF Holds, W, R
  <2> QED
    BY <1>1, <1>2, <2>5 DEF Colls
<1>3. ServerInv => CollectionExclusion
  BY <1>1, <1>2 DEF CollectionExclusion
<1> QED
  BY <1>3, ServerInvariant, PTL

\* With -no-lock a request never works on a cached collection that another
\* request or another process has overtaken, whether it has locked it or not.
THEOREM NoLockCache == Spec => [](mode.noLock => CacheFresh)
<1>1. ASSUME ServerInv, NEW g \in Reqs, pc[g] = "body", NEW i \in 1..held[g]
      PROVE  ptr[g][i] \notin stale[Locks(call[g])[i].coll]
  <2>1. g \in Agents /\ Locked(g) = held[g] /\ pc[g] \notin Outside /\ pc[g] # "unlock"
    BY <1>1 DEF Locked, Outside, Agents
  <2>2. i \in 1..Len(ptr[g]) /\ pc[Flusher] # "unlock"
    BY <1>1, <2>1, HasFacts, NotFlushed
  <2>3. ptr[g][i] = object[Locks(call[g])[i].coll] /\ Locks(call[g])[i].coll \in Colls
    BY <1>1, <2>1, <2>2, PointerFacts, PointedColls
  <2> QED
    BY <1>1, <2>3 DEF ServerInv, Pointed
<1>2. ASSUME ServerInv, NEW g \in Reqs, NEW c \in Unlocked(call[g])
      PROVE  object[c] \notin stale[c]
  BY <1>2 DEF ServerInv, Pointed, Unlocked, Colls
<1>3. ServerInv => CacheFresh
  BY <1>1, <1>2 DEF CacheFresh
<1> QED
  BY <1>3, ServerInvariant, PTL

----------------------------------------------------------------------------
(* Nobody waits in a circle                                                *)

\* g is blocked on the mutex of a collection
AtMutex(g) == Blocked(g) /\ pc[g] \in {"lock", "pending", "wait"}

\* everybody at work is blocked
AllBlocked == \A g \in Agents : pc[g] # "idle" /\ g # closing => Blocked(g)

\* the request whose release is served has returned
LEMMA ClosingOutside ==
  ASSUME ServerInv, NEW a \in Agents, pc[a] \notin Outside
  PROVE  a # closing /\ pc[a] # "idle"
<1>1. pc[a] # "idle" /\ pc[a] # "release"
  BY DEF Outside
<1>2. CASE closing = Nil
  BY <1>1, <1>2, NamesAssumption DEF ServerInv, Database, Agents
<1>3. CASE closing # Nil
  BY <1>1, <1>3 DEF ServerInv, Database
<1> QED
  BY <1>2, <1>3

\* a blocked agent is at a mutex or at acquireDatabase
LEMMA BlockedWhere ==
  ASSUME NEW a, Blocked(a)
  PROVE  \/ AtMutex(a)
         \/ pc[a] \in {"acquire", "release"} /\ closing # Nil
<1>1. \/ pc[a] \in {"lock", "pending", "wait"}
      \/ pc[a] \in {"acquire", "release"} /\ closing # Nil
  BY DEF Blocked
<1> QED
  BY <1>1 DEF AtMutex

\* if everybody is blocked, whoever waits for a mutex waits for somebody who
\* holds it: a writer that is next in line waits for a reader
LEMMA BlockedByHolder ==
  ASSUME ServerInv, AllBlocked, NEW g \in Agents, AtMutex(g)
  PROVE  \E a \in Agents : \E i \in 1..Locked(a) : Locks(call[a])[i].coll = NextLock(g).coll
<1> DEFINE c == NextLock(g).coll
           o == ptr[g][held[g] + 1]
<1>1. pc[g] \in {"lock", "pending", "wait"} /\ Blocked(g) /\ pc[g] \in AtLock
  BY DEF AtMutex, AtLock
<1>2. c \in Colls /\ o \in Objs
  BY <1>1, AtLockFacts
<1>3. Mutex(c, o) /\ wlock[c][o] \in {"free", "pending", "held"}
  BY <1>2 DEF ServerInv, Mutexes, TypeOK
<1>4. \/ wlock[c][o] # "free"
      \/ readers[c][o] # 0
  <2>1. CASE pc[g] = "wait"
    BY <1>3, <2>1 DEF Mutex, Wants
  <2>2. CASE pc[g] # "wait"
    BY <1>1, <2>2 DEF Blocked
  <2> QED
    BY <2>1, <2>2
<1> HIDE DEF c, o
<1>5. readers[c][o] # 0 => \E a \in Agents : Has(a, R(c), o)
  <2>1. Readers(c, o) = {} => readers[c][o] = 0
    BY <1>3, FS_EmptySet DEF Mutex
  <2> QED
    BY <2>1 DEF Readers
<1>6. wlock[c][o] = "held" => \E a \in Agents : Has(a, W(c), o)
  BY <1>3 DEF Mutex
<1>7. wlock[c][o] = "pending" => readers[c][o] # 0
  <2> SUFFICES ASSUME wlock[c][o] = "pending" PROVE readers[c][o] # 0
    OBVIOUS
  <2>1. PICK a \in Agents : Wants(a, c, o, "pending")
    BY <1>3 DEF Mutex
  <2>2. pc[a] = "pending" /\ NextLock(a).coll = c /\ ptr[a][held[a] + 1] = o
    BY <2>1 DEF Wants
  <2>3. a # closing
    <3>1. pc[a] \notin Outside
      BY <2>2 DEF Outside
    <3> QED
      BY <3>1, ClosingOutside
  <2>4. Blocked(a)
    BY <2>2, <2>3, "pending" # "idle" DEF AllBlocked
  <2> QED
    BY <2>2, <2>4 DEF Blocked
<1>8. \E a \in Agents : Has(a, R(c), o) \/ Has(a, W(c), o)
  BY <1>3, <1>4, <1>5, <1>6, <1>7
<1>9. R(c).coll = c /\ W(c).coll = c
  BY DEF R, W
<1>10. PICK a \in Agents : Has(a, R(c), o) \/ Has(a, W(c), o)
  BY <1>8
<1>11. PICK i \in 1..Locked(a) : Locks(call[a])[i] = R(c) \/ Locks(call[a])[i] = W(c)
  BY <1>10 DEF Has
<1> QED
  BY <1>9, <1>11 DEF c

\* and that somebody waits for a collection further on in the canonical order
LEMMA BlockedHigher ==
  ASSUME ServerInv, AllBlocked, NEW g \in Agents, AtMutex(g)
  PROVE  \E a \in Agents : AtMutex(a) /\ Rank[NextLock(a).coll] > Rank[NextLock(g).coll]
<1>1. PICK a \in Agents : \E i \in 1..Locked(a) : Locks(call[a])[i].coll = NextLock(g).coll
  BY BlockedByHolder
<1>2. PICK i \in 1..Locked(a) : Locks(call[a])[i].coll = NextLock(g).coll
  BY <1>1
<1>3. /\ call[a] \in Called /\ pc[a] \notin Outside /\ i \in 1..Len(Locks(call[a]))
  BY <1>2, HasFacts
<1>4. a # closing /\ pc[a] # "idle"
  BY <1>3, ClosingOutside
<1>5. Blocked(a)
  BY <1>4 DEF AllBlocked
<1>6. pc[a] \in {"lock", "pending", "wait"}
  BY <1>3, <1>5 DEF Blocked, Outside
<1>7. Locked(a) = held[a] /\ held[a] + 1 \in 1..Len(Locks(call[a])) /\ held[a] \in Nat
  <2>1. pc[a] \in AtLock /\ pc[a] # "defer"
    BY <1>6 DEF AtLock
  <2>2. Locked(a) = held[a]
    BY <2>1 DEF Locked
  <2> QED
    BY <2>1, <2>2, AtLockFacts
<1>8. i < held[a] + 1
  BY <1>2, <1>7, SMTT(30)
<1>9. Rank[Locks(call[a])[i].coll] < Rank[Locks(call[a])[held[a] + 1].coll]
  BY <1>3, <1>7, <1>8, LocksFacts
<1>10. Rank[NextLock(g).coll] < Rank[NextLock(a).coll]
  BY <1>2, <1>9 DEF NextLock
<1>11. AtMutex(a)
  BY <1>5, <1>6 DEF AtMutex
<1> QED
  BY <1>10, <1>11

\* With -no-lock there is no deadlock, neither on the mutexes, which all
\* handlers take in the canonical order, nor on acquireDatabase, whose flush
\* takes them too: as long as somebody is at work, somebody can go on.
THEOREM NoLockMoves == Spec => [](mode.noLock => SomebodyMoves)
<1>1. ServerInv => SomebodyMoves
  <2> SUFFICES ASSUME ServerInv, NEW g \in Agents, pc[g] # "idle", g # closing, AllBlocked,
                      ~(closing # Nil /\ pc[Flusher] = "idle")
               PROVE  FALSE
    BY DEF SomebodyMoves, AllBlocked
  <2>1. \A a \in Agents : AtMutex(a) => Rank[NextLock(a).coll] \in 1..4
    <3>1. \A a \in Agents : AtMutex(a) => NextLock(a).coll \in Colls
      BY AtLockFacts DEF AtMutex, AtLock
    <3>2. \A c \in Colls : Rank[c] \in 1..4
      BY SMTT(30) DEF Colls, Rank
    <3> QED
      BY <3>1, <3>2
  <2>2. \A a \in Agents : AtMutex(a) =>
          \E b \in Agents : AtMutex(b) /\ Rank[NextLock(b).coll] > Rank[NextLock(a).coll]
    BY BlockedHigher
  <2> DEFINE Over(r) == \E a \in Agents : AtMutex(a) /\ Rank[NextLock(a).coll] > r
  <2>3. ASSUME NEW r \in Nat, Over(r) PROVE Over(r + 1)
    <3>1. PICK a \in Agents : AtMutex(a) /\ Rank[NextLock(a).coll] > r
      BY <2>3
    <3>2. PICK b \in Agents : AtMutex(b) /\ Rank[NextLock(b).coll] > Rank[NextLock(a).coll]
      BY <2>2, <3>1
    <3>3. Rank[NextLock(a).coll] \in 1..4 /\ Rank[NextLock(b).coll] \in 1..4
      BY <2>1, <3>1, <3>2
    <3>4. Rank[NextLock(b).coll] > r + 1
      BY <3>1, <3>2, <3>3, SMTT(30)
    <3> QED
      BY <3>2, <3>4
  <2>4. \E a \in Agents : AtMutex(a)
    <3>1. Blocked(g)
      BY DEF AllBlocked
    <3>2. CASE closing # Nil /\ ~AtMutex(g)
      <4>1. pc[Flusher] # "idle" /\ Flusher \in Agents /\ pc[Flusher] \notin {"acquire", "release"}
        BY <3>2 DEF ServerInv, Database, Agents
      <4>2. Flusher # closing
        BY <3>2, NamesAssumption DEF ServerInv, TypeOK
      <4>3. Blocked(Flusher)
        BY <4>1, <4>2 DEF AllBlocked
      <4> QED
        BY <4>1, <4>3, BlockedWhere
    <3> QED
      BY <3>1, <3>2, BlockedWhere
  <2>5. Over(0)
    BY <2>1, <2>4, SMTT(30)
  <2> HIDE DEF Over
  <2>6. Over(4)
    BY <2>3, <2>5, SMTT(30)
  <2> QED
    BY <2>1, <2>6, SMTT(30) DEF Over
<1> QED
  BY <1>1, ServerInvariant, PTL
=============================================================================
