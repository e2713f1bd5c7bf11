---------------------------- MODULE PackagePool ----------------------------
(***************************************************************************)
(* The package pool on the filesystem (files/package_pool.go) and the      *)
(* checksums of its files in the database (deb/checksum_collection.go).    *)
(*                                                                         *)
(* A file has its place in the pool by its SHA256, or, from before aptly   *)
(* 1.1, by a part of its MD5 and its name.  Import is one step up to the   *)
(* point where it links or begins to copy the file; then it copies, stores *)
(* the checksums and removes the source, and the process may fail or die   *)
(* in between.  One import runs at a time: those of a process hold the     *)
(* pool's mutex, and a process that imports has the database open.         *)
(***************************************************************************)
EXTENDS Naturals

CONSTANTS Contents,  \* what files may hold; full checksums tell them apart
          Size,      \* the size of a file
          Names,     \* places of the old layout
          Legacy,    \* the old place of a file
          Partial,   \* what a file holds whose copy was not finished
          Unknown,   \* checksums that lack MD5 or SHA256
          Legacies   \* the values of supportLegacyPaths looked at

ASSUME PoolAssumption ==
  /\ Partial \notin Contents /\ Unknown \notin Contents
  /\ Legacies \subseteq BOOLEAN
  /\ \A c \in Contents : Legacy[c] \in Names /\ Size[c] \in Nat

\* The old layout keeps 16 bits of the MD5.  With the name and the size they
\* are taken to identify a file, as Import takes them to.
ASSUME LegacyAssumption ==
  \A c, d \in Contents : Legacy[c] = Legacy[d] /\ Size[c] = Size[d] => c = d

VARIABLES
  file,     \* the files of the pool: place to content
  sums,     \* the stored checksums: place to the content they are of
  imp,      \* the import that runs: a set with at most one record
  reply,    \* the last answer
  path,     \* the place it gave
  tainted,  \* history: checksums under which a wrong file was imported
  legacy    \* supportLegacyPaths

poolvars == <<file, sums, imp, reply, path, tainted, legacy>>

Modern(k) == <<"sha256", k>>
Old(k) == <<"md5", Legacy[k]>>
NoPath == <<>>
OldPlaces == {<<"md5", n>> : n \in Names}
Places == {Modern(k) : k \in Contents} \cup OldPlaces

NoAnswer == [ok |-> FALSE]
Absent(k) == [ok |-> FALSE, ask |-> k]
Found(k, got) == [ok |-> TRUE, ask |-> k, got |-> got]

With(f, x, v) == [y \in DOMAIN f \cup {x} |-> IF y = x THEN v ELSE f[y]]
Without(f, x) == [y \in DOMAIN f \ {x} |-> f[y]]

\* a pool from before 1.1, or an empty one
Init ==
  /\ legacy \in Legacies
  /\ \E S \in SUBSET (IF legacy THEN Contents ELSE {}) :
       /\ \A c, d \in S : Old(c) = Old(d) => c = d
       /\ file = [x \in {Old(c) : c \in S} |-> CHOOSE c \in S : Old(c) = x]
  /\ sums = [x \in {} |-> 0]
  /\ imp = {} /\ reply = NoAnswer /\ path = NoPath /\ tainted = {}

----------------------------------------------------------------------------

\* os.Stat finds a file of that size.  An unfinished copy is smaller.
SameSize(x, n) == x \in DOMAIN file /\ file[x] # Partial /\ Size[file[x]] = n

\* the checksums of a file of the pool: the stored ones, or computed and stored
EnsureChecksums(x) == IF x \in DOMAIN sums THEN sums[x] ELSE file[x]

Ensured(x) == sums' = With(sums, x, EnsureChecksums(x))

\* mutant: checksums are trusted whatever the size of the file
KeyOf_NoSize(src, claim) == IF claim # Unknown THEN claim ELSE src

\* The checksums Import goes by: the given ones, unless some are missing or the
\* size is not the source's.
KeyOf(src, claim) ==
  IF claim # Unknown /\ Size[claim] = Size[src] THEN claim ELSE src

\* where Import finds the file already
Existing(src, key) ==
  {x \in {Modern(key)} : SameSize(x, Size[src])}
  \cup {x \in {Old(key)} : legacy /\ Modern(key) \notin DOMAIN file /\ SameSize(x, Size[src])}

ImportFound(src, claim) ==
  /\ imp = {}
  /\ \E x \in Existing(src, KeyOf(src, claim)) :
       /\ Ensured(x) /\ path' = x
       /\ reply' = Found(KeyOf(src, claim), EnsureChecksums(x))
  /\ UNCHANGED <<file, imp, tainted, legacy>>

\* "unable to import into pool: file already exists"
ImportRefused(src, claim) ==
  LET x == Modern(KeyOf(src, claim))
  IN /\ imp = {} /\ x \in DOMAIN file /\ ~SameSize(x, Size[src])
     /\ reply' = NoAnswer /\ path' = NoPath
     /\ UNCHANGED <<file, sums, imp, tainted, legacy>>

\* mutant: a file that is there is overwritten
ImportNew_Overwrite(src, claim, move, copy) ==
  LET key == KeyOf(src, claim)
  IN /\ imp = {}
     /\ file' = With(file, Modern(key), IF copy THEN Partial ELSE src)
     /\ imp' = {[src |-> src, key |-> key, move |-> move,
                 at |-> IF copy THEN "copy" ELSE "sum"]}
     /\ tainted' = IF claim \in {src, Unknown} \/ Size[claim] # Size[src]
                   THEN tainted ELSE tainted \cup {claim}
     /\ UNCHANGED <<sums, reply, path, legacy>>

\* The file is linked, or its copy begun if it cannot be linked.
ImportNew(src, claim, move, copy) ==
  LET key == KeyOf(src, claim)
  IN /\ imp = {} /\ Modern(key) \notin DOMAIN file /\ Existing(src, key) = {}
     /\ file' = With(file, Modern(key), IF copy THEN Partial ELSE src)
     /\ imp' = {[src |-> src, key |-> key, move |-> move,
                 at |-> IF copy THEN "copy" ELSE "sum"]}
     /\ tainted' = IF claim \in {src, Unknown} \/ Size[claim] # Size[src]
                   THEN tainted ELSE tainted \cup {claim}
     /\ UNCHANGED <<sums, reply, path, legacy>>

ImportCopied(i) ==
  /\ i \in imp /\ i.at = "copy"
  /\ file' = With(file, Modern(i.key), i.src)
  /\ imp' = {[i EXCEPT !.at = "sum"]}
  /\ UNCHANGED <<sums, reply, path, tainted, legacy>>

\* What Import ends with.
ImportReturns(i, got) ==
  imp' = {} /\ reply' = Found(i.key, got) /\ path' = Modern(i.key)

\* The given checksums are stored, or those of the source if some are missing.
ImportSums(i, complete) ==
  LET got == IF complete THEN i.key ELSE i.src
  IN /\ i \in imp /\ i.at = "sum"
     /\ sums' = With(sums, Modern(i.key), got)
     /\ IF i.move THEN imp' = {[i EXCEPT !.at = "move"]} /\ UNCHANGED <<reply, path>>
        ELSE ImportReturns(i, got)
     /\ UNCHANGED <<file, tainted, legacy>>

ImportMoved(i) ==
  /\ i \in imp /\ i.at = "move" /\ ImportReturns(i, sums[Modern(i.key)])
  /\ UNCHANGED <<file, sums, tainted, legacy>>

\* Any call of Import may fail; it returns at once and leaves what there is.
ImportFails ==
  /\ imp' = {} /\ reply' = NoAnswer /\ path' = NoPath
  /\ UNCHANGED <<file, sums, tainted, legacy>>

ImportDies == imp # {} /\ imp' = {} /\ UNCHANGED <<file, sums, reply, path, tainted, legacy>>

\* Where Verify looks, in order; the first file of the right size decides.
\* Without its SHA256 a file is looked for in the old layout only.
Candidate(k, full) ==
  IF full /\ SameSize(Modern(k), Size[k]) THEN {Modern(k)}
  ELSE {x \in {Old(k)} : legacy /\ SameSize(x, Size[k])}

Verify(k, full) ==
  LET no == /\ path' = NoPath
            /\ reply' = IF full THEN Absent(k) ELSE NoAnswer
  IN /\ imp = {}
     /\ \/ Candidate(k, full) = {} /\ no /\ UNCHANGED sums
        \/ \E x \in Candidate(k, full) :
             /\ Ensured(x)
             /\ IF EnsureChecksums(x) = k THEN reply' = Found(k, k) /\ path' = x ELSE no
     /\ UNCHANGED <<file, imp, tainted, legacy>>

\* db cleanup; the checksums stay in the database
Remove(x) ==
  /\ imp = {} /\ x \in DOMAIN file
  /\ file' = Without(file, x)
  /\ UNCHANGED <<sums, imp, reply, path, tainted, legacy>>

Import(src, claim) ==
  \/ ImportFound(src, claim) \/ ImportRefused(src, claim)
  \/ \E move, copy \in BOOLEAN : ImportNew(src, claim, move, copy)

ImportStep ==
  \/ \E i \in imp : ImportCopied(i) \/ ImportMoved(i) \/ \E b \in BOOLEAN : ImportSums(i, b)
  \/ ImportFails \/ ImportDies

PoolNext ==
  \/ \E src \in Contents, claim \in Contents \cup {Unknown} : Import(src, claim)
  \/ ImportStep
  \/ \E k \in Contents, full \in BOOLEAN : Verify(k, full)
  \/ \E x \in Places : Remove(x)

PoolSpec == Init /\ [][PoolNext]_poolvars

----------------------------------------------------------------------------

PoolTypeOK ==
  /\ DOMAIN file \subseteq Places /\ DOMAIN sums \subseteq Places
  /\ \A x \in DOMAIN file : file[x] \in Contents \cup {Partial}
  /\ \A x \in DOMAIN sums : sums[x] \in Contents
  /\ imp \subseteq [src : Contents, key : Contents, move : BOOLEAN, at : {"copy", "sum", "move"}]
  /\ path \in Places \cup {NoPath} /\ tainted \subseteq Contents /\ legacy \in BOOLEAN

\* The files as those who look for them know them: at the place of their
\* SHA256, whole, or in the old layout.
Held ==
  {k \in Contents : Modern(k) \in DOMAIN file /\ file[Modern(k)] # Partial}
  \cup {k \in Contents : legacy /\ Old(k) \in DOMAIN file /\ file[Old(k)] = k}

Store == INSTANCE PoolStore WITH
           held <- Held, putting <- {i.key : i \in imp}, dubious <- tainted

\* The pool is a store: whatever is interrupted, an import never takes a file
\* out of the pool or puts one in the place of another, and Verify and Import
\* answer rightly (package_pool.go, Import, Verify and Remove).
ImplementsStore == Store!Spec

\* A file has the checksums of its place and those stored for it, unless it was
\* imported under checksums that somebody else vouched for (package_pool.go,
\* Import and ensureChecksums).
PoolHonest ==
  /\ \A k \in Contents \ tainted :
       /\ Modern(k) \in DOMAIN file => file[Modern(k)] \in {k, Partial}
       /\ Modern(k) \in DOMAIN sums => sums[Modern(k)] = k
  /\ \A x \in OldPlaces : x \in DOMAIN file /\ x \in DOMAIN sums => sums[x] = file[x]
=============================================================================
