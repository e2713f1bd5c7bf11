---------------------------- MODULE MirrorProofs ----------------------------
(***************************************************************************)
(* The package pool implements the abstract store, for any files, sizes    *)
(* and places.                                                             *)
(*                                                                         *)
(* Updates of mirrors use the pool as it is meant to be used, so the pool  *)
(* keeps its promise under them; and an update that succeeds has delivered *)
(* every file, for any number of files, workers, runs and processes.  The  *)
(* inductive invariant follows every file from the queue through the       *)
(* downloads to its place in the pool.                                     *)
(***************************************************************************)
EXTENDS MirrorDownload, TLAPS

-----------------------------------------------------------------------------
(* The package pool                                                        *)

(* Places of the two layouts never meet.                                   *)
LEMMA PlacesDistinct ==
  /\ \A k, d : Modern(k) = Modern(d) => k = d
  /\ \A k : Modern(k) \notin OldPlaces
  /\ \A k \in Contents : Modern(k) \in Places /\ Old(k) \in OldPlaces
  /\ OldPlaces \subseteq Places
BY Zenon, PoolAssumption DEF Modern, Old, OldPlaces, Places

(* What an import that runs has done so far.                               *)
ImportOK(i) ==
  /\ i.key # i.src => i.key \in tainted
  /\ Size[i.src] = Size[i.key]
  /\ Modern(i.key) \in DOMAIN file
  /\ i.at = "copy" => file[Modern(i.key)] = Partial
  /\ i.at # "copy" => file[Modern(i.key)] = i.src
  /\ i.at = "move" => Modern(i.key) \in DOMAIN sums

(* The inductive invariant: a whole file has the size of its place, files  *)
(* of the old layout are whole and at the right place, and an import is as *)
(* far as it says.                                                         *)
PoolInv ==
  /\ PoolTypeOK /\ PoolHonest
  /\ \A i, j \in imp : i = j
  /\ \A i \in imp : ImportOK(i)
  /\ \A k \in Contents :
       Modern(k) \in DOMAIN file /\ file[Modern(k)] # Partial => Size[file[Modern(k)]] = Size[k]
  /\ \A x \in OldPlaces : x \in DOMAIN file => file[x] \in Contents /\ Old(file[x]) = x

(* With and Without as functions.                                          *)
LEMMA WithProperties ==
  ASSUME NEW f, NEW x, NEW v
  PROVE  /\ DOMAIN With(f, x, v) = DOMAIN f \cup {x}
         /\ With(f, x, v)[x] = v
         /\ \A y \in DOMAIN f : y # x => With(f, x, v)[y] = f[y]
         /\ DOMAIN Without(f, x) = DOMAIN f \ {x}
         /\ \A y \in DOMAIN f : y # x => Without(f, x)[y] = f[y]
BY Zenon DEF With, Without

(* KeyOf gives a key of the source's size; it is the source's own unless   *)
(* another one of that size was claimed.                                   *)
LEMMA KeyProperties ==
  ASSUME NEW src \in Contents, NEW claim \in Contents \cup {Unknown}
  PROVE  /\ KeyOf(src, claim) \in Contents
         /\ Size[KeyOf(src, claim)] = Size[src]
         /\ KeyOf(src, claim) # src =>
              KeyOf(src, claim) = claim /\ claim \notin {src, Unknown} /\ Size[claim] = Size[src]
BY Zenon, PoolAssumption DEF KeyOf

(* A file of the right size that Import or Verify finds is known by the    *)
(* key they look for, and the checksums ensured for it are right.          *)
LEMMA FoundIsHeld ==
  ASSUME PoolInv, NEW k \in Contents, NEW x,
         \/ x = Modern(k) /\ SameSize(x, Size[k])
         \/ x = Old(k) /\ legacy /\ SameSize(x, Size[k])
  PROVE  /\ x \in Places /\ x \in DOMAIN file
         /\ k \in Held
         /\ EnsureChecksums(x) \in Contents
         /\ k \notin tainted => EnsureChecksums(x) = k
         /\ x = Old(k) => EnsureChecksums(x) = k /\ file[x] = k
<1>1. CASE x = Modern(k) /\ SameSize(x, Size[k])
  BY <1>1, PlacesDistinct DEF PoolInv, PoolTypeOK, PoolHonest, SameSize, EnsureChecksums, Held
<1>2. CASE x = Old(k) /\ legacy /\ SameSize(x, Size[k])
  <2>1. x \in OldPlaces /\ x \in Places /\ x \in DOMAIN file
    BY Zenon, <1>2, PlacesDistinct DEF SameSize
  <2>2. file[x] \in Contents /\ Old(file[x]) = Old(k) /\ Size[file[x]] = Size[k]
    BY Zenon, <1>2, <2>1 DEF PoolInv, SameSize
  <2>3. file[x] = k
    BY Zenon, <2>2, LegacyAssumption DEF Old
  <2>4. EnsureChecksums(x) = k
    BY Zenon, <2>1, <2>3 DEF EnsureChecksums, PoolInv, PoolHonest
  <2> QED
    BY Zenon, <1>2, <2>1, <2>3, <2>4 DEF Held
<1> QED
  BY Zenon, <1>1, <1>2

(* The store's answer about what is not there is right.                    *)
LEMMA NotFoundIsAbsent ==
  ASSUME PoolInv, NEW k \in Contents, Candidate(k, TRUE) = {}
  PROVE  k \notin Held
<1>1. ~SameSize(Modern(k), Size[k])
  BY Zenon DEF Candidate
<1>2. ~(legacy /\ SameSize(Old(k), Size[k]))
  BY Zenon, <1>1 DEF Candidate
<1>3. ~(Modern(k) \in DOMAIN file /\ file[Modern(k)] # Partial)
  BY Zenon, <1>1 DEF PoolInv, SameSize
<1>4. ~(legacy /\ Old(k) \in DOMAIN file /\ file[Old(k)] = k)
  BY Zenon, <1>2, PoolAssumption DEF SameSize
<1> QED
  BY Zenon, <1>3, <1>4 DEF Held

(* The pool starts in the invariant: a file of an old pool is at its place. *)
LEMMA PoolInit == Init => PoolInv
<1> SUFFICES ASSUME Init PROVE PoolInv
  BY Zenon
<1>1. PICK S \in SUBSET (IF legacy THEN Contents ELSE {}) :
        file = [x \in {Old(c) : c \in S} |-> CHOOSE c \in S : Old(c) = x]
  BY Zenon DEF Init
<1>2. \A x \in DOMAIN file : x \in OldPlaces /\ file[x] \in Contents /\ Old(file[x]) = x
  <2> TAKE x \in DOMAIN file
  <2>1. PICK c \in S : x = Old(c)
    BY Zenon, <1>1
  <2>2. file[x] \in S /\ Old(file[x]) = x
    BY Zenon, <1>1, <2>1
  <2> QED
    BY Zenon, <2>1, <2>2, PlacesDistinct
<1>3. legacy \in BOOLEAN /\ sums = [x \in {} |-> 0] /\ imp = {} /\ path = NoPath /\ tainted = {}
  BY Zenon, PoolAssumption DEF Init
<1>4. DOMAIN sums = {}
  BY Zenon, <1>3
<1>5. \A k \in Contents : Modern(k) \notin DOMAIN file
  BY Zenon, <1>2, PlacesDistinct
<1> QED
  BY Zenon, <1>2, <1>3, <1>4, <1>5, PlacesDistinct DEF PoolInv, PoolTypeOK, PoolHonest, ImportOK

(* Storing the checksums of a file that was found keeps the invariant.     *)
LEMMA EnsuredStep ==
  ASSUME PoolInv, NEW k \in Contents, NEW x,
         \/ x = Modern(k) /\ SameSize(x, Size[k])
         \/ x = Old(k) /\ legacy /\ SameSize(x, Size[k]),
         Ensured(x), imp = {}, path' \in Places \cup {NoPath},
         UNCHANGED <<file, imp, tainted, legacy>>
  PROVE  PoolInv'
<1>1. /\ x \in Places /\ x \in DOMAIN file /\ EnsureChecksums(x) \in Contents
      /\ k \notin tainted => EnsureChecksums(x) = k
      /\ x = Old(k) => EnsureChecksums(x) = k /\ file[x] = k
  BY FoundIsHeld, Zenon
<1>2. /\ DOMAIN sums' = DOMAIN sums \cup {x} /\ sums'[x] = EnsureChecksums(x)
      /\ \A y \in DOMAIN sums : y # x => sums'[y] = sums[y]
  BY Zenon, WithProperties DEF Ensured, With
<1>3. PoolTypeOK'
  BY Zenon, <1>1, <1>2 DEF PoolInv, PoolTypeOK
<1>4. ASSUME NEW d \in Contents \ tainted, Modern(d) \in DOMAIN sums'
      PROVE  sums'[Modern(d)] = d
  <2>1. CASE Modern(d) = x
    BY Zenon, <1>1, <1>2, <2>1, PlacesDistinct
  <2>2. CASE Modern(d) # x
    BY Zenon, <1>2, <1>4, <2>2 DEF PoolInv, PoolHonest
  <2> QED
    BY Zenon, <2>1, <2>2
<1>5. ASSUME NEW y \in OldPlaces, y \in DOMAIN file, y \in DOMAIN sums'
      PROVE  sums'[y] = file[y]
  <2>1. CASE y = x
    BY Zenon, <1>1, <1>2, <2>1, PlacesDistinct
  <2>2. CASE y # x
    BY Zenon, <1>2, <1>5, <2>2 DEF PoolInv, PoolHonest
  <2> QED
    BY Zenon, <2>1, <2>2
<1>6. PoolHonest'
  BY Zenon, <1>4, <1>5 DEF PoolInv, PoolHonest
<1> QED
  BY Zenon, <1>3, <1>6 DEF PoolInv, ImportOK

(* Where Import and Verify look, put the way FoundIsHeld wants it.         *)
LEMMA ExistingPlace ==
  ASSUME NEW src, NEW key, Size[key] = Size[src], NEW x \in Existing(src, key)
  PROVE  \/ x = Modern(key) /\ SameSize(x, Size[key])
         \/ x = Old(key) /\ legacy /\ SameSize(x, Size[key])
BY Zenon DEF Existing

(* The same for Verify.                                                    *)
LEMMA CandidatePlace ==
  ASSUME NEW k, NEW full, NEW x \in Candidate(k, full)
  PROVE  \/ x = Modern(k) /\ SameSize(x, Size[k])
         \/ x = Old(k) /\ legacy /\ SameSize(x, Size[k])
BY Zenon DEF Candidate

(* The file an import begins with is new, and of the size of its place.    *)
LEMMA ImportNewStep ==
  ASSUME PoolInv, NEW src \in Contents, NEW claim \in Contents \cup {Unknown},
         NEW move \in BOOLEAN, NEW copy \in BOOLEAN, ImportNew(src, claim, move, copy)
  PROVE  PoolInv'
<1> DEFINE key == KeyOf(src, claim)
           v == IF copy THEN Partial ELSE src
           i == [src |-> src, key |-> key, move |-> move, at |-> IF copy THEN "copy" ELSE "sum"]
<1>1. /\ key \in Contents /\ Size[key] = Size[src] /\ Modern(key) \in Places
      /\ key # src => key \in tainted'
      /\ tainted \subseteq tainted' /\ tainted' \subseteq Contents
  BY Zenon, KeyProperties, PlacesDistinct DEF ImportNew, PoolInv, PoolTypeOK
<1>2. imp' = {i} /\ imp = {} /\ UNCHANGED <<sums, path, legacy>>
  BY Zenon DEF ImportNew
<1>3. /\ Modern(key) \notin DOMAIN file
      /\ DOMAIN file' = DOMAIN file \cup {Modern(key)} /\ file'[Modern(key)] = v
      /\ \A y \in DOMAIN file : file'[y] = file[y]
  BY Zenon, WithProperties DEF ImportNew, With
<1> HIDE DEF key
<1>4. i \in [src : Contents, key : Contents, move : BOOLEAN, at : {"copy", "sum", "move"}]
  BY Zenon, <1>1
<1>5. PoolTypeOK'
  BY Zenon, <1>1, <1>2, <1>3, <1>4 DEF PoolInv, PoolTypeOK
<1>6. ImportOK(i)'
  BY Zenon, <1>1, <1>3 DEF ImportOK
<1>7. \A y \in OldPlaces : y \in DOMAIN file' => y \in DOMAIN file /\ file'[y] = file[y]
  BY <1>3, PlacesDistinct
<1>8. PoolHonest'
  <2>1. ASSUME NEW d \in Contents \ tainted', Modern(d) \in DOMAIN file'
        PROVE  file'[Modern(d)] \in {d, Partial}
    <3>1. CASE d = key
      BY Zenon, <1>1, <1>3, <3>1, <2>1
    <3>2. CASE d # key
      BY <1>1, <1>3, <3>2, <2>1, PlacesDistinct DEF PoolInv, PoolHonest
    <3> QED
      BY Zenon, <3>1, <3>2
  <2>2. \A d \in Contents \ tainted' : Modern(d) \in DOMAIN sums' => sums'[Modern(d)] = d
    BY Zenon, <1>1, <1>2 DEF PoolInv, PoolHonest
  <2>3. \A x \in OldPlaces : x \in DOMAIN file' /\ x \in DOMAIN sums' => sums'[x] = file'[x]
    BY Zenon, <1>2, <1>7 DEF PoolInv, PoolHonest
  <2> QED
    BY Zenon, <2>1, <2>2, <2>3 DEF PoolHonest
<1>9. \A k \in Contents :
        Modern(k) \in DOMAIN file' /\ file'[Modern(k)] # Partial => Size[file'[Modern(k)]] = Size[k]
  BY Zenon, <1>1, <1>3, PlacesDistinct DEF PoolInv
<1>10. \A x \in OldPlaces : x \in DOMAIN file' => file'[x] \in Contents /\ Old(file'[x]) = x
  BY Zenon, <1>7 DEF PoolInv
<1> QED
  BY Zenon, <1>2, <1>5, <1>6, <1>8, <1>9, <1>10 DEF PoolInv

(* The copy ends with the source in its place.                             *)
LEMMA ImportCopiedStep ==
  ASSUME PoolInv, NEW i \in imp, ImportCopied(i)
  PROVE  PoolInv'
<1> DEFINE j == [i EXCEPT !.at = "sum"]
<1>1. /\ i.key \in Contents /\ i.src \in Contents /\ Size[i.src] = Size[i.key]
      /\ i.key # i.src => i.key \in tainted
      /\ i \in [src : Contents, key : Contents, move : BOOLEAN, at : {"copy", "sum", "move"}]
  BY Zenon DEF PoolInv, PoolTypeOK, ImportOK
<1>2. imp' = {j} /\ UNCHANGED <<sums, path, tainted, legacy>>
  BY Zenon DEF ImportCopied
<1>3. /\ DOMAIN file' = DOMAIN file /\ file'[Modern(i.key)] = i.src
      /\ \A y \in DOMAIN file : y # Modern(i.key) => file'[y] = file[y]
  BY ZenonT(30), WithProperties DEF ImportCopied, PoolInv, ImportOK, With
<1>4. /\ j \in [src : Contents, key : Contents, move : BOOLEAN, at : {"copy", "sum", "move"}]
      /\ j.src = i.src /\ j.key = i.key /\ j.at = "sum"
  BY Zenon, <1>1
<1>5. Modern(i.key) \in DOMAIN file
  BY Zenon DEF PoolInv, ImportOK
<1> HIDE DEF j
<1>6. PoolTypeOK'
  BY Zenon, <1>1, <1>2, <1>3, <1>4 DEF PoolInv, PoolTypeOK
<1>7. ImportOK(j)'
  BY Zenon, <1>1, <1>2, <1>3, <1>4, <1>5 DEF ImportOK
<1>8. \A y \in OldPlaces : y \in DOMAIN file' => y \in DOMAIN file /\ file'[y] = file[y]
  BY Zenon, <1>3, PlacesDistinct
<1>9. PoolHonest'
  <2>1. ASSUME NEW d \in Contents \ tainted, Modern(d) \in DOMAIN file'
        PROVE  file'[Modern(d)] \in {d, Partial}
    BY <1>1, <1>3, <2>1, PlacesDistinct DEF PoolInv, PoolHonest
  <2> QED
    BY Zenon, <1>2, <1>8, <2>1 DEF PoolInv, PoolHonest
<1>10. \A k \in Contents :
        Modern(k) \in DOMAIN file' /\ file'[Modern(k)] # Partial => Size[file'[Modern(k)]] = Size[k]
  BY <1>1, <1>3, PlacesDistinct DEF PoolInv
<1>11. \A x \in OldPlaces : x \in DOMAIN file' => file'[x] \in Contents /\ Old(file'[x]) = x
  BY Zenon, <1>8 DEF PoolInv
<1> QED
  BY Zenon, <1>2, <1>6, <1>7, <1>9, <1>10, <1>11 DEF PoolInv

(* The checksums stored are those of the place, or those of the source,    *)
(* which differ only where a wrong file was imported.                      *)
LEMMA ImportSumsStep ==
  ASSUME PoolInv, NEW i \in imp, NEW complete \in BOOLEAN, ImportSums(i, complete)
  PROVE  PoolInv'
<1> DEFINE j == [i EXCEPT !.at = "move"]
           got == IF complete THEN i.key ELSE i.src
<1>1. /\ i.key \in Contents /\ i.src \in Contents /\ Modern(i.key) \in Places
      /\ i.key # i.src => i.key \in tainted
      /\ i \in [src : Contents, key : Contents, move : BOOLEAN, at : {"copy", "sum", "move"}]
  BY Zenon, PlacesDistinct DEF PoolInv, PoolTypeOK, ImportOK
<1>2. /\ i.at = "sum" /\ UNCHANGED <<file, tainted, legacy>>
      /\ imp' = {} \/ imp' = {j}
      /\ path' = path \/ path' = Modern(i.key)
  BY Zenon DEF ImportSums, ImportReturns
<1>3. /\ DOMAIN sums' = DOMAIN sums \cup {Modern(i.key)} /\ sums'[Modern(i.key)] = got
      /\ \A y \in DOMAIN sums : y # Modern(i.key) => sums'[y] = sums[y]
  BY Zenon, WithProperties DEF ImportSums, With
<1>4. /\ j \in [src : Contents, key : Contents, move : BOOLEAN, at : {"copy", "sum", "move"}]
      /\ j.src = i.src /\ j.key = i.key /\ j.at = "move"
  BY Zenon, <1>1
<1> HIDE DEF j
<1>5. PoolTypeOK'
  BY Zenon, <1>1, <1>2, <1>3, <1>4 DEF PoolInv, PoolTypeOK
<1>6. ImportOK(j)'
  BY Zenon, <1>1, <1>2, <1>3, <1>4 DEF ImportOK, PoolInv
<1>7. PoolHonest'
  <2>1. ASSUME NEW d \in Contents \ tainted, Modern(d) \in DOMAIN sums'
        PROVE  sums'[Modern(d)] = d
    BY <1>1, <1>3, <2>1, PlacesDistinct DEF PoolInv, PoolHonest
  <2>2. \A x \in OldPlaces : x \in DOMAIN file /\ x \in DOMAIN sums' => sums'[x] = file[x]
    BY <1>3, PlacesDistinct DEF PoolInv, PoolHonest
  <2> QED
    BY Zenon, <1>2, <2>1, <2>2 DEF PoolInv, PoolHonest
<1> QED
  BY Zenon, <1>2, <1>5, <1>6, <1>7 DEF PoolInv

(* Every step of the pool keeps the invariant.                             *)
LEMMA PoolStep == PoolInv /\ [PoolNext]_poolvars => PoolInv'
<1> SUFFICES ASSUME PoolInv, [PoolNext]_poolvars PROVE PoolInv'
  BY Zenon
<1>1. ASSUME NEW src \in Contents, NEW claim \in Contents \cup {Unknown}, ImportFound(src, claim)
      PROVE  PoolInv'
  <2> DEFINE key == KeyOf(src, claim)
  <2>1. key \in Contents /\ Size[key] = Size[src]
    BY Zenon, KeyProperties
  <2>2. PICK x \in Existing(src, key) : Ensured(x) /\ path' = x
    BY Zenon, <1>1 DEF ImportFound
  <2>3. imp = {} /\ UNCHANGED <<file, imp, tainted, legacy>>
    BY Zenon, <1>1 DEF ImportFound
  <2> HIDE DEF key
  <2>4. \/ x = Modern(key) /\ SameSize(x, Size[key])
        \/ x = Old(key) /\ legacy /\ SameSize(x, Size[key])
    BY Zenon, <2>1, ExistingPlace
  <2>5. path' \in Places \cup {NoPath}
    BY Zenon, <2>1, <2>2, <2>4, PlacesDistinct
  <2> QED
    BY Zenon, <2>1, <2>2, <2>3, <2>4, <2>5, EnsuredStep
<1>2. ASSUME NEW src, NEW claim, ImportRefused(src, claim)
      PROVE  PoolInv'
  BY Zenon, <1>2 DEF ImportRefused, PoolInv, PoolTypeOK, PoolHonest, ImportOK
<1>3. ASSUME NEW i \in imp, ImportMoved(i)
      PROVE  PoolInv'
  <2>1. Modern(i.key) \in Places
    BY Zenon, PlacesDistinct DEF PoolInv, PoolTypeOK
  <2> QED
    BY Zenon, <1>3, <2>1 DEF ImportMoved, ImportReturns, PoolInv, PoolTypeOK, PoolHonest, ImportOK
<1>4. CASE ImportFails \/ ImportDies
  BY Zenon, <1>4 DEF ImportFails, ImportDies, PoolInv, PoolTypeOK, PoolHonest, ImportOK
<1>5. ASSUME NEW k \in Contents, NEW full \in BOOLEAN, Verify(k, full)
      PROVE  PoolInv'
  <2>1. imp = {} /\ UNCHANGED <<file, imp, tainted, legacy>>
    BY Zenon, <1>5 DEF Verify
  <2>2. CASE UNCHANGED sums /\ path' = NoPath
    BY Zenon, <2>1, <2>2 DEF PoolInv, PoolTypeOK, PoolHonest, ImportOK
  <2>3. ASSUME NEW x \in Candidate(k, full), Ensured(x), path' = x \/ path' = NoPath
        PROVE  PoolInv'
    <3>1. \/ x = Modern(k) /\ SameSize(x, Size[k])
          \/ x = Old(k) /\ legacy /\ SameSize(x, Size[k])
      BY Zenon, CandidatePlace
    <3>2. path' \in Places \cup {NoPath}
      BY Zenon, <2>3, <3>1, PlacesDistinct
    <3> QED
      BY Zenon, <2>1, <2>3, <3>1, <3>2, EnsuredStep
  <2> QED
    BY Zenon, <1>5, <2>2, <2>3 DEF Verify
<1>6. ASSUME NEW x \in Places, Remove(x)
      PROVE  PoolInv'
  <2>1. imp = {} /\ UNCHANGED <<sums, imp, path, tainted, legacy>>
    BY Zenon, <1>6 DEF Remove
  <2>2. DOMAIN file' = DOMAIN file \ {x} /\ \A y \in DOMAIN file' : file'[y] = file[y]
    BY Zenon, <1>6 DEF Remove, Without
  <2> QED
    BY Zenon, <2>1, <2>2 DEF PoolInv, PoolTypeOK, PoolHonest, ImportOK
<1>7. CASE UNCHANGED poolvars
  BY Zenon, <1>7 DEF poolvars, PoolInv, PoolTypeOK, PoolHonest, ImportOK
<1> QED
  BY Zenon, <1>1, <1>2, <1>3, <1>4, <1>5, <1>6, <1>7, ImportNewStep, ImportCopiedStep, ImportSumsStep
  DEF PoolNext, Import, ImportStep

(* the keys that imports are under way for                                 *)
Putting == {i.key : i \in imp}

(* An import begins: the file is not held, and only it may be held next.   *)
LEMMA BeginSimulates ==
  ASSUME PoolInv, NEW src \in Contents, NEW claim \in Contents \cup {Unknown},
         NEW move \in BOOLEAN, NEW copy \in BOOLEAN, ImportNew(src, claim, move, copy)
  PROVE  \E k \in Contents : Store!Begin(k)
<1> DEFINE key == KeyOf(src, claim)
<1>1. key \in Contents /\ Size[key] = Size[src]
  BY Zenon, KeyProperties
<1>2. imp = {} /\ Putting' = {key} /\ UNCHANGED <<reply, legacy>>
  BY DEF ImportNew, Putting
<1>3. /\ Modern(key) \notin DOMAIN file
      /\ DOMAIN file' = DOMAIN file \cup {Modern(key)}
      /\ \A y \in DOMAIN file : file'[y] = file[y]
  BY Zenon, WithProperties DEF ImportNew, With
<1>4. ~(legacy /\ SameSize(Old(key), Size[key]))
  BY Zenon, <1>1, <1>3 DEF ImportNew, Existing
<1>5. tainted' = tainted \/ tainted' = tainted \cup {key}
  BY Zenon DEF ImportNew, KeyOf
<1> HIDE DEF key
<1>6. key \notin Held
  BY Zenon, <1>1, <1>3, <1>4, PoolAssumption DEF Held, SameSize
<1>7. \A k \in Contents : Old(k) \in DOMAIN file' <=> Old(k) \in DOMAIN file
  BY Zenon, <1>3, PlacesDistinct
<1>8. \A k \in Contents : k # key => (k \in Held' <=> k \in Held)
  BY Zenon, <1>2, <1>3, <1>7, PlacesDistinct DEF Held
<1>9. Held \subseteq Contents /\ Held' \subseteq Contents
  BY Zenon DEF Held
<1>10. Held' = Held \/ Held' = Held \cup {key}
  BY <1>1, <1>6, <1>8, <1>9
<1> QED
  BY Zenon, <1>1, <1>2, <1>5, <1>6, <1>10 DEF Store!Begin, Putting

(* The end of the copy puts the file in.                                   *)
LEMMA CompleteSimulates ==
  ASSUME PoolInv, NEW i \in imp, ImportCopied(i)
  PROVE  \E k \in Contents : Store!Complete(k)
<1>1. i.key \in Contents /\ i.src \in Contents /\ i.src # Partial /\ Modern(i.key) \in DOMAIN file
  BY Zenon, PoolAssumption DEF PoolInv, PoolTypeOK, ImportOK
<1>2. /\ DOMAIN file' = DOMAIN file /\ file'[Modern(i.key)] = i.src
      /\ \A y \in DOMAIN file : y # Modern(i.key) => file'[y] = file[y]
  BY <1>1, WithProperties DEF ImportCopied, With
<1>3. i \in [src : Contents, key : Contents, move : BOOLEAN, at : {"copy", "sum", "move"}]
  BY Zenon DEF PoolInv, PoolTypeOK
<1>4. imp = {i} /\ imp' = {[i EXCEPT !.at = "sum"]} /\ UNCHANGED <<reply, tainted, legacy>>
  BY Zenon DEF ImportCopied, PoolInv
<1>5. Putting = {i.key} /\ Putting' = {i.key}
  BY Zenon, <1>3, <1>4 DEF Putting
<1>6. \A k \in Contents : k # i.key => (k \in Held' <=> k \in Held)
  BY <1>2, <1>4, PlacesDistinct DEF Held
<1>7. i.key \in Held' /\ Held \subseteq Contents /\ Held' \subseteq Contents
  BY Zenon, <1>1, <1>2 DEF Held
<1>8. Held' = Held \cup {i.key}
  BY Zenon, <1>1, <1>6, <1>7
<1> QED
  BY Zenon, <1>1, <1>4, <1>5, <1>8 DEF Store!Complete, Putting

(* When an import returns, its file is held.                               *)
LEMMA ReturnSimulates ==
  ASSUME PoolInv, NEW i \in imp, i.at # "copy", NEW got \in Contents,
         got = i.key \/ i.key \in tainted,
         ImportReturns(i, got), UNCHANGED <<file, tainted, legacy>>
  PROVE  \E k, g \in Contents : Store!AnswerFound(k, g)
<1>1. i.key \in Contents /\ i.key \in Held
  BY PoolAssumption DEF PoolInv, PoolTypeOK, ImportOK, Held
<1>2. imp = {i} /\ imp' = {}
  BY Zenon DEF PoolInv, ImportReturns
<1>3. Putting = {i.key} /\ Putting' = {} /\ UNCHANGED Held
  BY Zenon, <1>2 DEF Putting, Held
<1>4. reply' = Store!Found(i.key, got)
  BY Zenon DEF ImportReturns, Found, Store!Found
<1> QED
  BY Zenon, <1>1, <1>3, <1>4 DEF Store!AnswerFound, Putting

(* Verify answers rightly.                                                 *)
LEMMA VerifySimulates ==
  ASSUME PoolInv, NEW k \in Contents, NEW full \in BOOLEAN, Verify(k, full)
  PROVE  Store!Next
<1>1. imp = {} /\ UNCHANGED <<file, imp, tainted, legacy>>
  BY Zenon DEF Verify
<1>2. Putting = {} /\ Putting' = {} /\ UNCHANGED <<Held, tainted>>
  BY Zenon, <1>1 DEF Putting, Held
<1>3. CASE reply' = NoAnswer
  BY Zenon, <1>2, <1>3 DEF Store!Next, Store!GiveUp, Store!NoAnswer, NoAnswer, Putting
<1>4. CASE reply' = Absent(k) /\ (k \notin Held \/ k \in tainted)
  <2>1. Store!AnswerAbsent(k)
    BY Zenon, <1>2, <1>4 DEF Store!AnswerAbsent, Store!Absent, Absent, Putting
  <2> QED
    BY Zenon, <2>1 DEF Store!Next
<1>5. CASE reply' = Found(k, k) /\ k \in Held
  <2>1. Store!AnswerFound(k, k)
    BY Zenon, <1>2, <1>5 DEF Store!AnswerFound, Store!Found, Found, Putting
  <2> QED
    BY Zenon, <2>1 DEF Store!Next
<1>6. CASE Candidate(k, full) = {} /\ reply' = IF full THEN Absent(k) ELSE NoAnswer
  BY Zenon, <1>3, <1>4, <1>6, NotFoundIsAbsent
<1>7. ASSUME NEW x \in Candidate(k, full),
             IF EnsureChecksums(x) = k THEN reply' = Found(k, k)
             ELSE reply' = IF full THEN Absent(k) ELSE NoAnswer
      PROVE  Store!Next
  <2>1. k \in Held /\ (k \notin tainted => EnsureChecksums(x) = k)
    BY Zenon, CandidatePlace, FoundIsHeld
  <2> QED
    BY Zenon, <1>3, <1>4, <1>5, <1>7, <2>1
<1> QED
  BY Zenon, <1>6, <1>7 DEF Verify

(* Removing a file takes out at most what it was known by.                 *)
LEMMA RemoveSimulates ==
  ASSUME PoolInv, NEW x \in Places, Remove(x)
  PROVE  (\E k \in Contents : Store!Delete(k)) \/ UNCHANGED Store!storevars
<1>1. imp = {} /\ x \in DOMAIN file /\ UNCHANGED <<imp, reply, tainted, legacy>>
  BY Zenon DEF Remove
<1>2. DOMAIN file' = DOMAIN file \ {x} /\ \A y \in DOMAIN file' : file'[y] = file[y]
  BY Zenon DEF Remove, Without
<1>3. Putting = {} /\ Putting' = {}
  BY Zenon, <1>1 DEF Putting
<1>4. PICK c \in Contents : x = Modern(c) \/ (x \in OldPlaces /\ file[x] = c)
  BY Zenon, <1>1 DEF PoolInv, Places
<1>5. \A k \in Contents : k # c => (k \in Held' <=> k \in Held)
  BY <1>1, <1>2, <1>4, PlacesDistinct DEF Held
<1>6. Held \subseteq Contents /\ Held' \subseteq Contents /\ (c \in Held' => c \in Held)
  BY Zenon, <1>1, <1>2 DEF Held
<1>7. CASE c \in Held'
  <2>1. Held' = Held
    BY <1>5, <1>6, <1>7
  <2> QED
    BY Zenon, <1>1, <2>1 DEF Store!storevars
<1>8. CASE c \notin Held'
  <2>1. Held' = Held \ {c}
    BY Zenon, <1>5, <1>6, <1>8
  <2> QED
    BY Zenon, <1>1, <1>3, <1>4, <2>1 DEF Store!Delete, Putting
<1> QED
  BY Zenon, <1>7, <1>8

(* Every step of the pool is a step of the store, or the store does not    *)
(* see it.                                                                 *)
LEMMA PoolSimulates == PoolInv /\ [PoolNext]_poolvars => [Store!Next]_(Store!storevars)
<1> SUFFICES ASSUME PoolInv, [PoolNext]_poolvars PROVE Store!Next \/ UNCHANGED Store!storevars
  BY Zenon
<1>1. ASSUME NEW src \in Contents, NEW claim \in Contents \cup {Unknown}, ImportFound(src, claim)
      PROVE  Store!Next
  <2> DEFINE key == KeyOf(src, claim)
  <2>1. key \in Contents /\ Size[key] = Size[src]
    BY Zenon, KeyProperties
  <2>2. PICK x \in Existing(src, key) : reply' = Found(key, EnsureChecksums(x))
    BY Zenon, <1>1 DEF ImportFound
  <2>3. imp = {} /\ UNCHANGED <<file, imp, tainted, legacy>>
    BY Zenon, <1>1 DEF ImportFound
  <2>4. Putting = {} /\ Putting' = {} /\ UNCHANGED Held
    BY Zenon, <2>3 DEF Putting, Held
  <2> HIDE DEF key
  <2>5. /\ key \in Held /\ EnsureChecksums(x) \in Contents
        /\ key \notin tainted => EnsureChecksums(x) = key
    BY Zenon, <2>1, ExistingPlace, FoundIsHeld
  <2>6. PICK got \in Contents : got = EnsureChecksums(x)
    BY Zenon, <2>5
  <2>7. Store!AnswerFound(key, got)
    BY Zenon, <2>2, <2>3, <2>4, <2>5, <2>6 DEF Store!AnswerFound, Store!Found, Found, Putting
  <2> QED
    BY Zenon, <2>1, <2>7 DEF Store!Next
<1>2. ASSUME NEW src, NEW claim, ImportRefused(src, claim)
      PROVE  Store!Next
  BY Zenon, <1>2 DEF ImportRefused, Store!Next, Store!GiveUp, Store!NoAnswer, NoAnswer, Held
<1>3. ASSUME NEW src \in Contents, NEW claim \in Contents \cup {Unknown},
             NEW move \in BOOLEAN, NEW copy \in BOOLEAN, ImportNew(src, claim, move, copy)
      PROVE  Store!Next
  BY Zenon, <1>3, BeginSimulates DEF Store!Next
<1>4. ASSUME NEW i \in imp, ImportCopied(i)
      PROVE  Store!Next
  BY Zenon, <1>4, CompleteSimulates DEF Store!Next
<1>5. ASSUME NEW i \in imp, NEW b \in BOOLEAN, ImportSums(i, b)
      PROVE  Store!Next \/ UNCHANGED Store!storevars
  <2>1. i \in [src : Contents, key : Contents, move : BOOLEAN, at : {"copy", "sum", "move"}]
    BY Zenon DEF PoolInv, PoolTypeOK
  <2>2. imp = {i} /\ i.at = "sum" /\ UNCHANGED <<file, tainted, legacy>>
    BY Zenon, <1>5 DEF ImportSums, PoolInv
  <2>3. CASE i.move
    <3>1. imp' = {[i EXCEPT !.at = "move"]} /\ UNCHANGED reply
      BY Zenon, <1>5, <2>3 DEF ImportSums
    <3>2. Putting' = {i.key} /\ Putting = {i.key} /\ UNCHANGED Held
      BY Zenon, <2>1, <2>2, <3>1 DEF Putting, Held
    <3> QED
      BY Zenon, <2>2, <3>1, <3>2 DEF Store!storevars, Putting
  <2>4. CASE ~i.move
    <3> DEFINE got == IF b THEN i.key ELSE i.src
    <3>1. ImportReturns(i, got)
      BY Zenon, <1>5, <2>4 DEF ImportSums
    <3>2. got \in Contents /\ (got = i.key \/ i.key \in tainted)
      BY Zenon, <2>1 DEF PoolInv, ImportOK
    <3> HIDE DEF got
    <3>3. \E k, g \in Contents : Store!AnswerFound(k, g)
      BY Zenon, <2>2, <3>1, <3>2, ReturnSimulates
    <3> QED
      BY Zenon, <3>3 DEF Store!Next
  <2> QED
    BY Zenon, <2>3, <2>4
<1>6. ASSUME NEW i \in imp, ImportMoved(i)
      PROVE  Store!Next
  <2>1. /\ i.at = "move" /\ UNCHANGED <<file, tainted, legacy>>
        /\ ImportReturns(i, sums[Modern(i.key)])
    BY Zenon, <1>6 DEF ImportMoved
  <2>2. /\ sums[Modern(i.key)] \in Contents
        /\ sums[Modern(i.key)] = i.key \/ i.key \in tainted
    BY Zenon, <2>1 DEF PoolInv, PoolTypeOK, PoolHonest, ImportOK
  <2>3. \E k, g \in Contents : Store!AnswerFound(k, g)
    BY Zenon, <2>1, <2>2, ReturnSimulates
  <2> QED
    BY Zenon, <2>3 DEF Store!Next
<1>7. CASE ImportFails \/ ImportDies
  BY <1>7 DEF ImportFails, ImportDies, Store!Next, Store!GiveUp, Store!NoAnswer, NoAnswer, Held
<1>8. ASSUME NEW k \in Contents, NEW full \in BOOLEAN, Verify(k, full)
      PROVE  Store!Next
  BY Zenon, <1>8, VerifySimulates
<1>9. ASSUME NEW x \in Places, Remove(x)
      PROVE  Store!Next \/ UNCHANGED Store!storevars
  BY Zenon, <1>9, RemoveSimulates DEF Store!Next
<1>10. CASE UNCHANGED poolvars
  BY Zenon, <1>10 DEF poolvars, Store!storevars, Held
<1> QED
  BY Zenon, <1>1, <1>2, <1>3, <1>4, <1>5, <1>6, <1>7, <1>8, <1>9, <1>10
  DEF PoolNext, Import, ImportStep

(* The pool starts as a store.                                             *)
LEMMA InitSimulates == Init => Store!Init
BY Zenon DEF Init, Store!Init, Store!NoAnswer, NoAnswer, Held

(* Whatever is imported, verified, removed and interrupted, files of the   *)
(* pool have the checksums of their place and those stored for them.       *)
THEOREM PoolIsHonest == PoolSpec => []PoolHonest
<1>1. PoolInv => PoolHonest
  BY Zenon DEF PoolInv
<1> QED
  BY <1>1, PoolInit, PoolStep, PTL DEF PoolSpec

(* The pool implements the store: the refinement under Held.               *)
THEOREM PoolImplementsStore == PoolSpec => ImplementsStore
<1> QED
  BY PoolInit, PoolStep, InitSimulates, PoolSimulates, PTL DEF PoolSpec, ImplementsStore, Store!Spec

(* What only grows: an import changes no file that is whole and adds none  *)
(* to the old layout.                                                      *)
Grows ==
  /\ tainted \subseteq tainted'
  /\ \A x \in DOMAIN file : file[x] # Partial => x \in DOMAIN file' /\ file'[x] = file[x]
  /\ \A x \in OldPlaces : x \in DOMAIN file' => x \in DOMAIN file

(* Whatever is not a removal only grows.                                   *)
LEMMA PoolGrows ==
  ASSUME PoolInv, [PoolNext]_poolvars
  PROVE  Grows \/ \E x \in Places : Remove(x)
<1>1. ASSUME NEW src \in Contents, NEW claim \in Contents \cup {Unknown},
             NEW move \in BOOLEAN, NEW copy \in BOOLEAN, ImportNew(src, claim, move, copy)
      PROVE  Grows
  <2> DEFINE key == KeyOf(src, claim)
  <2>1. /\ Modern(key) \notin DOMAIN file
        /\ DOMAIN file' = DOMAIN file \cup {Modern(key)}
        /\ \A y \in DOMAIN file : file'[y] = file[y]
    BY Zenon, <1>1, WithProperties DEF ImportNew, With
  <2>2. tainted \subseteq tainted'
    BY Zenon, <1>1 DEF ImportNew
  <2> HIDE DEF key
  <2> QED
    BY Zenon, <2>1, <2>2, PlacesDistinct DEF Grows
<1>2. ASSUME NEW i \in imp, ImportCopied(i)
      PROVE  Grows
  <2>1. Modern(i.key) \in DOMAIN file /\ file[Modern(i.key)] = Partial /\ UNCHANGED tainted
    BY Zenon, <1>2 DEF ImportCopied, PoolInv, ImportOK
  <2>2. DOMAIN file' = DOMAIN file /\ \A y \in DOMAIN file : y # Modern(i.key) => file'[y] = file[y]
    BY Zenon, <1>2, <2>1, WithProperties DEF ImportCopied, With
  <2> QED
    BY Zenon, <2>1, <2>2 DEF Grows
<1>3. CASE UNCHANGED <<file, tainted>>
  BY Zenon, <1>3 DEF Grows
<1>4. ASSUME NEW src, NEW claim, ImportFound(src, claim) \/ ImportRefused(src, claim)
      PROVE  UNCHANGED <<file, tainted>>
  BY Zenon, <1>4 DEF ImportFound, ImportRefused
<1>5. ASSUME NEW i, NEW b, ImportMoved(i) \/ ImportSums(i, b)
      PROVE  UNCHANGED <<file, tainted>>
  BY Zenon, <1>5 DEF ImportMoved, ImportSums
<1>6. ImportFails \/ ImportDies => UNCHANGED <<file, tainted>>
  BY Zenon DEF ImportFails, ImportDies
<1>7. ASSUME NEW k, NEW full, Verify(k, full)
      PROVE  UNCHANGED <<file, tainted>>
  BY Zenon, <1>7 DEF Verify
<1>8. UNCHANGED poolvars => UNCHANGED <<file, tainted>>
  BY Zenon DEF poolvars
<1> QED
  BY Zenon, <1>1, <1>2, <1>3, <1>4, <1>5, <1>6, <1>7, <1>8 DEF PoolNext, Import, ImportStep

(* A place that is returned is that of a whole file, and the checksums     *)
(* that come with it are right.                                            *)
Returned(x, c) ==
  /\ c \in Contents /\ x \in Places /\ x \in DOMAIN file' /\ file'[x] # Partial
  /\ \/ \E k \in Contents : x = Modern(k) /\ (c = k \/ k \in tainted')
     \/ x \in OldPlaces /\ file'[x] = c

(* So is what Import and Verify find.                                      *)
LEMMA FoundReturns ==
  ASSUME PoolInv, NEW k \in Contents, NEW x,
         \/ x = Modern(k) /\ SameSize(x, Size[k])
         \/ x = Old(k) /\ legacy /\ SameSize(x, Size[k]),
         UNCHANGED <<file, tainted>>
  PROVE  Returned(x, EnsureChecksums(x))
<1>1. /\ x \in Places /\ x \in DOMAIN file /\ EnsureChecksums(x) \in Contents
      /\ k \notin tainted => EnsureChecksums(x) = k
      /\ x = Old(k) => EnsureChecksums(x) = k /\ file[x] = k
  BY FoundIsHeld, Zenon
<1>2. file[x] # Partial /\ (x = Old(k) => x \in OldPlaces)
  BY Zenon, PlacesDistinct DEF SameSize
<1> QED
  BY Zenon, <1>1, <1>2 DEF Returned

(* An import that ends with a place returns it.                            *)
LEMMA ImportAnswers ==
  ASSUME PoolInv, imp' = {}, path' # NoPath,
         \/ \E src \in Contents, claim \in Contents \cup {Unknown} :
              ImportFound(src, claim) \/ ImportRefused(src, claim)
         \/ \E i \in imp : ImportMoved(i) \/ \E b \in BOOLEAN : ImportSums(i, b)
         \/ ImportFails
  PROVE  Returned(path', reply'.got)
<1>1. ASSUME NEW src \in Contents, NEW claim \in Contents \cup {Unknown}, ImportFound(src, claim)
      PROVE  Returned(path', reply'.got)
  <2> DEFINE key == KeyOf(src, claim)
  <2>1. key \in Contents /\ Size[key] = Size[src]
    BY Zenon, KeyProperties
  <2>2. PICK x \in Existing(src, key) : reply' = Found(key, EnsureChecksums(x)) /\ path' = x
    BY Zenon, <1>1 DEF ImportFound
  <2>3. UNCHANGED <<file, tainted>>
    BY Zenon, <1>1 DEF ImportFound
  <2> HIDE DEF key
  <2>4. Returned(x, EnsureChecksums(x))
    BY Zenon, <2>1, <2>3, ExistingPlace, FoundReturns
  <2>5. reply'.got = EnsureChecksums(x) /\ path' = x
    BY Zenon, <2>2 DEF Found
  <2> QED
    BY Zenon, <2>4, <2>5 DEF Returned
<1>2. ASSUME NEW i \in imp, ImportMoved(i) \/ \E b \in BOOLEAN : ImportSums(i, b)
      PROVE  Returned(path', reply'.got)
  <2>1. /\ i.key \in Contents /\ i.src \in Contents /\ i.at \in {"sum", "move"}
        /\ i.key # i.src => i.key \in tainted
        /\ i.at = "move" => sums[Modern(i.key)] \in Contents
        /\ i.at = "move" /\ i.key \notin tainted => sums[Modern(i.key)] = i.key
        /\ Modern(i.key) \in DOMAIN file /\ file[Modern(i.key)] = i.src
    BY Zenon, <1>2 DEF PoolInv, PoolTypeOK, PoolHonest, ImportOK, ImportMoved, ImportSums
  <2>2. PICK got \in Contents : /\ reply' = Found(i.key, got) /\ path' = Modern(i.key)
                                /\ got = i.key \/ i.key \in tainted
    BY Zenon, <1>2, <2>1 DEF ImportMoved, ImportSums, ImportReturns
  <2>3. UNCHANGED <<file, tainted>>
    BY Zenon, <1>2 DEF ImportMoved, ImportSums
  <2>4. reply'.got = got
    BY Zenon, <2>2 DEF Found
  <2> QED
    BY Zenon, <2>1, <2>2, <2>3, <2>4, PoolAssumption, PlacesDistinct DEF Returned
<1> QED
  BY Zenon, <1>1, <1>2 DEF ImportRefused, ImportFails

(* Verify returns a place only together with the checksums asked for.      *)
LEMMA VerifyAnswers ==
  ASSUME PoolInv, NEW k \in Contents, NEW full \in BOOLEAN, Verify(k, full), path' # NoPath
  PROVE  reply'.got = k /\ Returned(path', k)
<1>1. PICK x \in Candidate(k, full) : EnsureChecksums(x) = k /\ reply' = Found(k, k) /\ path' = x
  BY Zenon DEF Verify
<1>2. Returned(x, EnsureChecksums(x))
  BY Zenon, CandidatePlace, FoundReturns DEF Verify
<1>3. reply'.got = k
  BY Zenon, <1>1 DEF Found
<1> QED
  BY Zenon, <1>1, <1>2, <1>3 DEF Returned

-----------------------------------------------------------------------------
(* Updates of mirrors                                                      *)

(* The types an update needs to use the pool.                              *)
UpdateTypes ==
  /\ conf \in Updates
  /\ chk \in [Ids -> [of : Contents, full : BOOLEAN]]
  /\ temp \in [Ids -> Contents \cup {NoFile}]
  /\ queue \in Seq(Ids)
  /\ place \in [Ids -> Places \cup {NoPath}]
  /\ idx \in Nat \ {0}
  /\ feeder \in Nat
  /\ worker \in [Workers -> [at : {"idle", "get", "rename", "gone"}, task : Nat, tries : Nat]]

(* Every step of an update and of the processes beside it is a step of the *)
(* pool or does not touch it.                                              *)
LEMMA UpdateUsesPool ==
  ASSUME UpdateTypes, [MirrorNext]_vars
  PROVE  [PoolNext]_poolvars
<1>1. CASE QueueFile
  <2>1. CASE SkipFile(idx)
    BY Zenon, <2>1 DEF SkipFile
  <2>2. CASE VerifyFile(idx)
    <3>1. chk[idx].of \in Contents /\ chk[idx].full \in BOOLEAN
      BY Zenon, <1>1 DEF QueueFile, UpdateTypes
    <3>2. Verify(chk[idx].of, chk[idx].full)
      BY Zenon, <2>2 DEF VerifyFile
    <3> QED
      BY Zenon, <3>1, <3>2 DEF PoolNext
  <2> QED
    BY Zenon, <1>1, <2>1, <2>2 DEF QueueFile
<1>2. CASE ImportTask
  <2> DEFINE j == queue[idx]
  <2>1. j \in Ids /\ temp[j] \in Contents \cup {NoFile} /\ Claim(j) \in Contents \cup {Unknown}
    BY <1>2 DEF ImportTask, UpdateTypes, Claim
  <2>2. CASE ImportFails \/ \E i \in imp : ImportCopied(i) \/ ImportMoved(i) \/ \E b \in BOOLEAN : ImportSums(i, b)
    BY Zenon, <2>2 DEF PoolNext, ImportStep
  <2>3. CASE temp[j] # NoFile /\ (ImportFound(temp[j], Claim(j)) \/ ImportRefused(temp[j], Claim(j))
                                  \/ \E copy \in BOOLEAN : ImportNew(temp[j], Claim(j), TRUE, copy))
    BY Zenon, <2>1, <2>3 DEF PoolNext, Import
  <2> QED
    BY Zenon, <1>2, <2>2, <2>3 DEF ImportTask
<1>3. CASE Die
  BY Zenon, <1>3 DEF Die, PoolNext, ImportStep
<1>4. CASE OtherBegins
  <2>1. PICK m \in conf.imports : Import(m.src, m.claim) \/ Verify(m.src, TRUE)
    BY Zenon, <1>4 DEF OtherBegins
  <2>2. m.src \in Contents /\ m.claim \in Contents \cup {Unknown}
    BY Zenon, UpdatesAssumption DEF UpdateTypes
  <2> QED
    BY Zenon, <2>1, <2>2 DEF PoolNext
<1>5. CASE OtherImports
  BY Zenon, <1>5 DEF OtherImports, PoolNext
<1>6. CASE OtherCleans
  BY Zenon, <1>6 DEF OtherCleans, PoolNext
<1>7. CASE UNCHANGED poolvars
  BY Zenon, <1>7
<1>8. Start \/ CloseDatabase \/ ReOpenDatabase \/ SkipTask \/ Finish \/ FeederEnds \/ Cancel => UNCHANGED poolvars
  BY Zenon DEF Start, CloseDatabase, ReOpenDatabase, SkipTask, Finish, FeederEnds, Cancel
<1>9. ASSUME NEW w \in Workers, Worker(w) \/ Network(w)
      PROVE  UNCHANGED poolvars
  BY Zenon, <1>9 DEF Worker, Network, Feed, WorkerEnds, TriesSpent, Renamed, Broken, Receive
<1> QED
  BY Zenon, <1>1, <1>2, <1>3, <1>4, <1>5, <1>6, <1>7, <1>8, <1>9 DEF MirrorNext, Main, vars

(* A place and checksums that go together whatever is imported.            *)
Pair(x, c) ==
  \/ \E k \in Contents : x = Modern(k) /\ (c = k \/ k \in tainted)
  \/ x \in OldPlaces

(* The place holds the file, or cleanup took it during downloads.          *)
There(x, c) ==
  /\ Pair(x, c)
  /\ x \in lost \/ (x \in DOMAIN file /\ file[x] # Partial /\ Holds(x, c))

SameURL(i, j) == conf.files[i].url = conf.files[j].url
Busy(w) == worker[w].at \in {"get", "rename"}

(* The parts of the inductive invariant.  What the packages of the mirror  *)
(* have, and what the update has found or imported, is good.               *)
LastGood ==
  \A j \in Ids : /\ last[j].at = NoPath => last[j].of = Unknown
                 /\ last[j].at # NoPath => last[j].at \in Places /\ There(last[j].at, last[j].of)

PlaceGood ==
  phase \in {"queue", "down", "import", "ok"} =>
    \A j \in Ids : place[j] # NoPath => There(place[j], chk[j].of)

(* Every file looked for and not found is covered by a task.               *)
Covered ==
  phase \in {"queue", "down", "import"} =>
    \A j \in Ids : (phase = "queue" => j < idx) /\ place[j] = NoPath =>
      \E n \in DOMAIN queue : SameURL(queue[n], j)

(* A task handed out is done, or in work, or has left an error.            *)
HandedOut ==
  /\ phase = "queue" => feeder = 0 /\ ~closed /\ \A w \in Workers : worker[w] = Idle
  /\ phase = "down" /\ ~cancelled =>
       /\ closed <=> feeder = 0
       /\ \A w \in Workers : worker[w].at = "gone" => closed
       /\ errors = {} => \A n \in DOMAIN queue : n < feeder \/ feeder = 0 =>
            queue[n] \in done \/ \E w \in Workers : Busy(w) /\ worker[w].task = queue[n]
  /\ phase = "import" /\ ~cancelled /\ errors = {} => \A n \in DOMAIN queue : queue[n] \in done

(* The tasks gone through have given all files with their URL a place.     *)
Imported ==
  /\ phase = "import" =>
       \A n \in DOMAIN queue : n < idx /\ queue[n] \in done =>
         \A j \in Ids : SameURL(queue[n], j) => place[j] # NoPath
  /\ phase = "ok" => \A j \in Ids : place[j] # NoPath /\ last[j] = [at |-> place[j], of |-> chk[j].of]

UpdateInv ==
  /\ UpdateTypes
  /\ \A x \in OldPlaces : x \in lost => x \notin DOMAIN file
  /\ LastGood /\ PlaceGood /\ Covered /\ HandedOut /\ Imported

(* A good place stays good while the pool only grows and cleanup only adds *)
(* to what is lost.                                                        *)
LEMMA ThereGrows ==
  ASSUME NEW x, NEW c, There(x, c), Grows, lost \subseteq lost'
  PROVE  There(x, c)'
<1>1. Pair(x, c)'
  BY Zenon DEF There, Pair, Grows
<1>2. CASE x \in lost
  BY Zenon, <1>1, <1>2 DEF There
<1>3. CASE x \in DOMAIN file /\ file[x] # Partial /\ Holds(x, c)
  BY Zenon, <1>1, <1>3 DEF There, Grows, Holds
<1> QED
  BY Zenon, <1>2, <1>3 DEF There

(* It stays good when cleanup takes it, if that is remembered.             *)
LEMMA ThereRemoved ==
  ASSUME NEW x, NEW c, There(x, c), NEW y \in Places, Remove(y),
         lost \subseteq lost', y = x => y \in lost'
  PROVE  There(x, c)'
<1>1. UNCHANGED tainted /\ DOMAIN file' = DOMAIN file \ {y} /\ \A z \in DOMAIN file' : file'[z] = file[z]
  BY Zenon DEF Remove, Without
<1>2. Pair(x, c)'
  BY Zenon, <1>1 DEF There, Pair
<1>3. CASE x \in lost'
  BY Zenon, <1>2, <1>3 DEF There
<1>4. CASE x # y /\ x \in DOMAIN file /\ file[x] # Partial /\ Holds(x, c)
  BY Zenon, <1>1, <1>2, <1>4 DEF There, Holds
<1> QED
  BY Zenon, <1>3, <1>4 DEF There

(* It stays good when a lost file is found again: what is there has the    *)
(* checksums of its place.                                                 *)
LEMMA ThereFound ==
  ASSUME NEW x, NEW c, There(x, c), PoolInv', Grows,
         \A z \in OldPlaces : z \in lost => z \notin DOMAIN file,
         NEW y, NEW d, Returned(y, d), lost' = lost \ {y}
  PROVE  There(x, c)'
<1>1. Pair(x, c)'
  BY Zenon DEF There, Pair, Grows
<1>2. CASE x \in lost /\ x # y
  BY Zenon, <1>1, <1>2 DEF There
<1>3. CASE x \in DOMAIN file /\ file[x] # Partial /\ Holds(x, c)
  BY Zenon, <1>1, <1>3 DEF There, Grows, Holds
<1>4. CASE x \in lost /\ x = y
  <2>1. x \in DOMAIN file' /\ file'[x] # Partial
    BY Zenon, <1>4 DEF Returned
  <2>2. x \notin OldPlaces
    BY Zenon, <1>4, <2>1 DEF Grows
  <2>3. PICK k \in Contents : x = Modern(k) /\ (c = k \/ k \in tainted')
    BY Zenon, <1>1, <2>2 DEF Pair
  <2>4. k \notin tainted' => file'[x] = k
    BY Zenon, <2>1, <2>3 DEF PoolInv, PoolHonest
  <2> QED
    BY Zenon, <1>1, <2>1, <2>3, <2>4 DEF There, Holds
<1> QED
  BY Zenon, <1>2, <1>3, <1>4 DEF There

(* What the pool returns is good.                                          *)
LEMMA ThereReturned ==
  ASSUME NEW x, NEW c, Returned(x, c), PoolInv'
  PROVE  There(x, c)'
<1>1. CASE x \in OldPlaces /\ file'[x] = c
  BY Zenon, <1>1 DEF Returned, There, Pair, Holds
<1>2. ASSUME NEW k \in Contents, x = Modern(k), c = k \/ k \in tainted'
      PROVE  There(x, c)'
  <2>1. k \notin tainted' => file'[x] = k
    BY Zenon, <1>2 DEF Returned, PoolInv, PoolHonest
  <2> QED
    BY Zenon, <1>2, <2>1 DEF Returned, There, Pair, Holds
<1> QED
  BY Zenon, <1>1, <1>2 DEF Returned

(* Files are numbered from 1 on.                                           *)
LEMMA IdsAreNumbers ==
  ASSUME UpdateTypes
  PROVE  /\ Ids = 1 .. Len(conf.files) /\ Len(conf.files) \in Nat
         /\ DOMAIN queue = 1 .. Len(queue) /\ Len(queue) \in Nat
         /\ \A n \in DOMAIN queue : queue[n] \in Ids
BY UpdatesAssumption DEF UpdateTypes, Ids

(* Steps that leave the pool and the places alone.                         *)
LEMMA QuietStep ==
  ASSUME UpdateInv, UNCHANGED <<poolvars, conf, place, last, lost>>, UpdateTypes',
         \A j \in Ids : chk'[j].of = chk[j].of,
         phase' \in {"queue", "down", "import", "ok"} => phase \in {"queue", "down", "import", "ok"}
  PROVE  (\A x \in OldPlaces : x \in lost => x \notin DOMAIN file)' /\ LastGood' /\ PlaceGood'
<1>1. UNCHANGED <<file, tainted, lost, last, place, Ids>>
  BY Zenon DEF poolvars, Ids
<1>2. \A x, c : There(x, c) => There(x, c)'
  BY Zenon, <1>1 DEF There, Pair, Holds
<1>3. LastGood'
  BY Zenon, <1>1, <1>2 DEF UpdateInv, LastGood
<1>4. PlaceGood'
  BY Zenon, <1>1, <1>2 DEF UpdateInv, PlaceGood
<1> QED
  BY Zenon, <1>1, <1>3, <1>4 DEF UpdateInv

(* The feeder hands out a task.                                            *)
LEMMA FeedStep ==
  ASSUME UpdateInv, NEW w \in Workers, Feed(w)
  PROVE  UpdateInv'
<1>1. UNCHANGED <<poolvars, conf, place, last, lost, chk, queue, phase, idx, closed, done, errors, cancelled, temp>>
  BY Zenon DEF Feed, fixed, lists, ends
<1>2. /\ phase = "down" /\ feeder \in DOMAIN queue /\ worker[w] = Idle /\ feeder' = feeder + 1
      /\ worker' = [worker EXCEPT ![w] = [at |-> "get", task |-> queue[feeder], tries |-> conf.tries]]
  BY Zenon DEF Feed
<1>3. UpdateTypes'
  <2>1. queue[feeder] \in Nat /\ feeder' \in Nat
    BY <1>2, IdsAreNumbers DEF UpdateInv
  <2>2. conf.tries \in Nat
    BY Zenon, UpdatesAssumption DEF UpdateInv, UpdateTypes
  <2> QED
    BY Zenon, <1>1, <1>2, <2>1, <2>2 DEF UpdateInv, UpdateTypes, Ids
<1>4. HandedOut'
  <2>1. /\ worker'[w].at = "get" /\ worker'[w].task = queue[feeder]
        /\ \A v \in Workers : v # w => worker'[v] = worker[v]
        /\ ~Busy(w) /\ Busy(w)'
    BY <1>2 DEF UpdateInv, UpdateTypes, Busy, Idle
  <2>2. feeder # 0 /\ feeder' # 0 /\ \A n \in DOMAIN queue : n < feeder' => n < feeder \/ n = feeder
    BY <1>2, IdsAreNumbers DEF UpdateInv
  <2>3. \A v \in Workers : Busy(v) => Busy(v)' /\ worker'[v].task = worker[v].task
    BY Zenon, <2>1 DEF Busy
  <2>4. ASSUME ~cancelled, errors = {}, NEW n \in DOMAIN queue, n < feeder'
        PROVE  queue[n] \in done \/ \E v \in Workers : Busy(v)' /\ worker'[v].task = queue[n]
    <3>1. CASE n < feeder
      BY Zenon, <1>2, <2>2, <2>3, <2>4, <3>1 DEF UpdateInv, HandedOut
    <3>2. CASE n = feeder
      BY Zenon, <2>1, <3>2
    <3> QED
      BY Zenon, <2>2, <2>4, <3>1, <3>2
  <2> QED
    BY <1>1, <1>2, <2>1, <2>2, <2>4 DEF UpdateInv, HandedOut
<1>5. Covered' /\ Imported'
  BY Zenon, <1>1 DEF UpdateInv, Covered, Imported, SameURL, Ids
<1> QED
  BY Zenon, <1>1, <1>3, <1>4, <1>5, QuietStep DEF UpdateInv

(* The end of the feeder, of a worker and of the downloads, and ^C.        *)
LEMMA EndsStep ==
  ASSUME UpdateInv, FeederEnds \/ Cancel \/ (\E w \in Workers : WorkerEnds(w))
  PROVE  UpdateInv'
<1>1. /\ UNCHANGED <<poolvars, conf, place, last, lost, chk, queue, phase, idx, done, errors, temp>>
      /\ cancelled => cancelled'
  BY DEF FeederEnds, Cancel, WorkerEnds, fixed, lists, ends, downs
<1>2. Covered' /\ Imported'
  BY Zenon, <1>1 DEF UpdateInv, Covered, Imported, SameURL, Ids
<1>3. ASSUME UpdateTypes', HandedOut' PROVE UpdateInv'
  BY Zenon, <1>1, <1>2, <1>3, QuietStep DEF UpdateInv
<1>4. CASE FeederEnds
  <2>1. /\ phase = "down" /\ feeder' = 0 /\ UNCHANGED <<worker, cancelled>>
        /\ ~cancelled => closed' /\ feeder = Len(queue) + 1
    BY Zenon, <1>4 DEF FeederEnds, ends
  <2>2. UpdateTypes'
    BY Zenon, <1>1, <2>1 DEF UpdateInv, UpdateTypes, Ids
  <2>3. \A n \in DOMAIN queue : ~cancelled => n < feeder
    BY <2>1, IdsAreNumbers DEF UpdateInv
  <2>4. HandedOut'
    BY Zenon, <1>1, <2>1, <2>3 DEF UpdateInv, HandedOut, Busy
  <2> QED
    BY Zenon, <1>3, <2>2, <2>4
<1>5. CASE Cancel
  <2>1. cancelled' /\ phase \in {"down", "import"} /\ UNCHANGED <<feeder, closed, worker>>
    BY Zenon, <1>5 DEF Cancel, downs
  <2> QED
    BY Zenon, <1>1, <1>3, <2>1 DEF UpdateInv, UpdateTypes, HandedOut, Ids
<1>6. ASSUME NEW w \in Workers, WorkerEnds(w)
      PROVE  UpdateInv'
  <2>1. /\ phase = "down" /\ worker[w] = Idle /\ UNCHANGED <<feeder, closed, cancelled>>
        /\ ~cancelled => closed
        /\ worker' = [worker EXCEPT ![w].at = "gone"]
    BY Zenon, <1>6 DEF WorkerEnds, ends
  <2>2. worker[w] \in [at : {"idle", "get", "rename", "gone"}, task : Nat, tries : Nat]
    BY Zenon DEF UpdateInv, UpdateTypes
  <2>3. UpdateTypes'
    BY Zenon, <1>1, <2>1, <2>2 DEF UpdateInv, UpdateTypes, Ids
  <2>4. ~Busy(w) /\ \A v \in Workers : v # w => worker'[v] = worker[v]
    BY <2>1 DEF Busy, Idle, UpdateInv, UpdateTypes
  <2>5. \A v \in Workers : Busy(v) => Busy(v)' /\ worker'[v].task = worker[v].task
    BY Zenon, <2>4 DEF Busy
  <2>6. HandedOut'
    BY Zenon, <1>1, <2>1, <2>5 DEF UpdateInv, HandedOut
  <2> QED
    BY Zenon, <1>3, <2>3, <2>6
<1> QED
  BY Zenon, <1>4, <1>5, <1>6

(* A worker that gives up leaves an error, so nothing is claimed any more. *)
LEMMA PushErrorStep ==
  ASSUME UpdateInv, NEW w \in Workers, NEW kind, NEW left, PushError(w, kind, left), phase = "down",
         UNCHANGED <<poolvars, conf, place, last, lost, chk, queue, phase, idx, temp, feeder, closed, cancelled>>
  PROVE  UpdateInv'
<1>1. errors' # {} /\ worker' = [worker EXCEPT ![w] = Idle]
  BY Zenon DEF PushError
<1>2. UpdateTypes'
  BY Zenon, <1>1 DEF UpdateInv, UpdateTypes, Ids, Idle
<1>3. HandedOut'
  BY Zenon, <1>1 DEF UpdateInv, HandedOut, UpdateTypes, Idle
<1>4. Covered' /\ Imported'
  BY Zenon DEF UpdateInv, Covered, Imported, SameURL, Ids
<1> QED
  BY Zenon, <1>2, <1>3, <1>4, QuietStep DEF UpdateInv

(* A worker goes on with its task, or puts it into done.                   *)
LEMMA WorkerGoesOn ==
  ASSUME UpdateInv, NEW w \in Workers, phase = "down",
         NEW r \in [at : {"idle", "get", "rename", "gone"}, task : Nat, tries : Nat],
         worker' = [worker EXCEPT ![w] = r], r.at # "gone",
         \/ r.at \in {"get", "rename"} /\ r.task = worker[w].task /\ UNCHANGED done
         \/ done' = done \cup {worker[w].task},
         UpdateTypes', \A j \in Ids : chk'[j].of = chk[j].of,
         UNCHANGED <<poolvars, conf, place, last, lost, queue, phase, idx, feeder, closed, errors, cancelled>>
  PROVE  UpdateInv'
<1>1. worker'[w] = r /\ \A v \in Workers : v # w => worker'[v] = worker[v]
  BY Zenon DEF UpdateInv, UpdateTypes
<1>2. ASSUME NEW n, queue[n] \in done \/ \E v \in Workers : Busy(v) /\ worker[v].task = queue[n]
      PROVE  queue[n] \in done' \/ \E v \in Workers : Busy(v)' /\ worker'[v].task = queue[n]
  <2>1. CASE queue[n] \in done
    BY Zenon, <2>1
  <2>2. ASSUME NEW v \in Workers, Busy(v), worker[v].task = queue[n]
        PROVE  queue[n] \in done' \/ \E u \in Workers : Busy(u)' /\ worker'[u].task = queue[n]
    BY Zenon, <1>1, <2>2 DEF Busy
  <2> QED
    BY Zenon, <1>2, <2>1, <2>2
<1>3. HandedOut'
  BY <1>1, <1>2 DEF UpdateInv, HandedOut
<1>4. Covered' /\ Imported'
  BY Zenon DEF UpdateInv, Covered, Imported, SameURL, Ids
<1> QED
  BY Zenon, <1>3, <1>4, QuietStep DEF UpdateInv

(* The steps of the downloader.                                            *)
LEMMA DownloadStep ==
  ASSUME UpdateInv, NEW w \in Workers,
         Broken(w) \/ TriesSpent(w) \/ Renamed(w) \/ \E c \in Contents : Receive(w, c)
  PROVE  UpdateInv'
<1> DEFINE j == worker[w].task
           W == [at : {"idle", "get", "rename", "gone"}, task : Nat, tries : Nat]
<1>1. worker[w] \in W
  BY Zenon DEF UpdateInv, UpdateTypes
<1>2. ASSUME NEW e, TryFailed(w, e), worker[w].at = "get", worker[w].tries > 0, phase = "down",
             UNCHANGED <<poolvars, conf, place, last, lost, chk, queue, phase, idx, temp, feeder, closed, done, cancelled>>
      PROVE  UpdateInv'
  <2>1. CASE RetryableError(e)
    <3> DEFINE r == [worker[w] EXCEPT !.tries = @ - 1]
    <3>1. r \in W /\ r.at = "get" /\ r.task = worker[w].task
      BY <1>1, <1>2
    <3>2. worker' = [worker EXCEPT ![w] = r] /\ UNCHANGED errors
      BY Zenon, <1>1, <1>2, <2>1 DEF TryFailed
    <3> HIDE DEF r
    <3>3. UpdateTypes'
      BY Zenon, <1>2, <3>1, <3>2 DEF UpdateInv, UpdateTypes, Ids
    <3> QED
      BY Zenon, <1>2, <3>1, <3>2, <3>3, WorkerGoesOn
  <2>2. CASE ~RetryableError(e)
    BY Zenon, <1>2, <2>2, PushErrorStep DEF TryFailed
  <2> QED
    BY Zenon, <2>1, <2>2
<1>3. CASE Broken(w)
  <2>1. PICK e \in Errors : TryFailed(w, e)
    BY Zenon, <1>3 DEF Broken
  <2> QED
    BY Zenon, <1>2, <1>3, <2>1 DEF Broken, fixed, lists, ends
<1>4. CASE TriesSpent(w)
  BY Zenon, <1>4, PushErrorStep DEF TriesSpent, fixed, lists, ends
<1>5. CASE Renamed(w)
  <2>1. /\ phase = "down"
        /\ UNCHANGED <<poolvars, conf, place, last, lost, chk, queue, phase, idx, temp, feeder, closed, cancelled>>
    BY Zenon, <1>5 DEF Renamed, fixed, lists, ends
  <2>2. CASE temp[j] = NoFile
    <3>1. PushError(w, "rename", 0)
      BY Zenon, <1>5, <2>2 DEF Renamed
    <3> QED
      BY Zenon, <2>1, <3>1, PushErrorStep
  <2>3. CASE temp[j] # NoFile
    <3>1. /\ worker' = [worker EXCEPT ![w] = Idle] /\ UNCHANGED errors
          /\ done' = done \cup {worker[w].task}
      BY Zenon, <1>5, <2>3 DEF Renamed
    <3>2. Idle \in W /\ Idle.at # "gone"
      BY Zenon DEF Idle
    <3>3. UpdateTypes'
      BY Zenon, <2>1, <3>1, <3>2 DEF UpdateInv, UpdateTypes, Ids
    <3> QED
      BY Zenon, <2>1, <3>1, <3>2, <3>3, WorkerGoesOn
  <2> QED
    BY Zenon, <2>2, <2>3
<1>6. ASSUME NEW c \in Contents, Receive(w, c)
      PROVE  UpdateInv'
  <2>1. /\ phase = "down" /\ worker[w].at = "get" /\ worker[w].tries > 0
        /\ UNCHANGED <<poolvars, conf, place, last, lost, queue, phase, idx, feeder, closed, done, cancelled>>
    BY Zenon, <1>6 DEF Receive, fixed, ends
  <2>2. CASE c = chk[j].of \/ conf.ignore
    <3> DEFINE r == [worker[w] EXCEPT !.at = "rename"]
    <3>1. r \in W /\ r.at = "rename" /\ r.task = worker[w].task
      BY Zenon, <1>1
    <3>2. /\ worker' = [worker EXCEPT ![w].at = "rename"] /\ UNCHANGED errors
          /\ temp' = [temp EXCEPT ![j] = c]
          /\ chk' = chk \/ chk' = [chk EXCEPT ![j].full = TRUE]
      BY <1>6, <2>2, Zenon DEF Receive
    <3>3. worker' = [worker EXCEPT ![w] = r]
      BY Zenon, <1>1, <3>2 DEF UpdateInv, UpdateTypes
    <3> HIDE DEF r
    <3>4. /\ chk' \in [Ids -> [of : Contents, full : BOOLEAN]]
          /\ \A i \in Ids : chk'[i].of = chk[i].of
      <4>1. chk \in [Ids -> [of : Contents, full : BOOLEAN]]
        BY Zenon DEF UpdateInv, UpdateTypes
      <4>2. CASE chk' = chk
        BY Zenon, <4>1, <4>2
      <4>3. CASE chk' = [chk EXCEPT ![j].full = TRUE]
        <5>1. \A i \in Ids : chk'[i] = IF i = j THEN [chk[i] EXCEPT !.full = TRUE] ELSE chk[i]
          BY Zenon, <4>1, <4>3
        <5>2. \A i \in Ids : chk'[i] \in [of : Contents, full : BOOLEAN] /\ chk'[i].of = chk[i].of
          BY Zenon, <4>1, <5>1
        <5>3. DOMAIN chk' = Ids /\ chk' = [i \in DOMAIN chk' |-> chk'[i]]
          BY Zenon, <4>1, <4>3
        <5> QED
          BY Zenon, <5>2, <5>3
      <4> QED
        BY Zenon, <3>2, <4>2, <4>3
    <3>5. temp' \in [Ids -> Contents \cup {NoFile}]
      BY Zenon, <3>2 DEF UpdateInv, UpdateTypes
    <3>6. UpdateTypes'
      BY <2>1, <3>1, <3>2, <3>3, <3>4, <3>5 DEF UpdateInv, UpdateTypes, Ids
    <3> QED
      BY Zenon, <2>1, <3>1, <3>2, <3>3, <3>4, <3>6, WorkerGoesOn
  <2>3. CASE ~(c = chk[j].of \/ conf.ignore)
    <3>1. TryFailed(w, Mismatch) /\ UNCHANGED <<temp, chk>>
      BY Zenon, <1>6, <2>3 DEF Receive
    <3> QED
      BY Zenon, <1>2, <2>1, <3>1
  <2> QED
    BY Zenon, <2>2, <2>3
<1> QED
  BY Zenon, <1>3, <1>4, <1>5, <1>6

(* The steps of the main goroutine that use neither pool nor network.      *)
LEMMA MainStep ==
  ASSUME UpdateInv, CloseDatabase \/ ReOpenDatabase \/ SkipTask
  PROVE  UpdateInv'
<1>1. UNCHANGED <<poolvars, conf, place, last, lost, chk, queue, worker, closed, done, errors, cancelled, temp, Ids>>
  BY Zenon DEF CloseDatabase, ReOpenDatabase, SkipTask, fixed, lists, ends, downs, Ids
<1>2. ASSUME UpdateTypes', Covered', HandedOut', Imported', phase \in {"queue", "down", "import"}
      PROVE  UpdateInv'
  BY Zenon, <1>1, <1>2, QuietStep DEF UpdateInv
<1>3. CASE CloseDatabase
  <2>1. phase = "queue" /\ idx \notin Ids /\ phase' = "down" /\ feeder' = 1 /\ idx' = idx
    BY Zenon, <1>3 DEF CloseDatabase
  <2>2. \A j \in Ids : j < idx
    BY <2>1, IdsAreNumbers DEF UpdateInv, UpdateTypes
  <2>3. \A n \in DOMAIN queue : ~(n < feeder' \/ feeder' = 0)
    BY <2>1, IdsAreNumbers DEF UpdateInv
  <2>4. UpdateTypes'
    BY Zenon, <1>1, <2>1 DEF UpdateInv, UpdateTypes
  <2>5. HandedOut'
    BY <1>1, <2>1, <2>3 DEF UpdateInv, HandedOut, Idle
  <2>6. Covered' /\ Imported'
    BY Zenon, <1>1, <2>1, <2>2 DEF UpdateInv, Covered, Imported, SameURL
  <2> QED
    BY Zenon, <1>2, <2>1, <2>4, <2>5, <2>6
<1>4. CASE ReOpenDatabase
  <2>1. /\ phase = "down" /\ \A w \in Workers : worker[w].at = "gone"
        /\ phase' = "failed" \/ (phase' = "import" /\ idx' = 1)
        /\ idx' = idx \/ idx' = 1
        /\ feeder' = feeder
    BY Zenon, <1>4 DEF ReOpenDatabase, downs
  <2>2. UpdateTypes'
    BY <1>1, <2>1 DEF UpdateInv, UpdateTypes
  <2>3. ~cancelled => feeder = 0
    BY Zenon, <2>1, WorkersAssumption DEF UpdateInv, HandedOut
  <2>4. \A w \in Workers : ~Busy(w)
    BY Zenon, <2>1 DEF Busy
  <2>5. HandedOut'
    BY Zenon, <1>1, <2>1, <2>3, <2>4 DEF UpdateInv, HandedOut
  <2>6. \A n \in DOMAIN queue : ~(n < 1)
    BY IdsAreNumbers DEF UpdateInv
  <2>7. Covered' /\ Imported'
    BY Zenon, <1>1, <2>1, <2>6 DEF UpdateInv, Covered, Imported, SameURL
  <2> QED
    BY Zenon, <1>2, <2>1, <2>2, <2>5, <2>7
<1>5. CASE SkipTask
  <2>1. /\ phase = "import" /\ queue[idx] \notin done /\ idx' = idx + 1
        /\ phase' = phase /\ feeder' = feeder
    BY Zenon, <1>5 DEF SkipTask, downs
  <2>2. UpdateTypes' /\ \A n \in DOMAIN queue : n < idx' => n < idx \/ n = idx
    BY <1>1, <2>1, IdsAreNumbers DEF UpdateInv, UpdateTypes
  <2>3. HandedOut' /\ Covered' /\ Imported'
    BY Zenon, <1>1, <2>1, <2>2 DEF UpdateInv, HandedOut, Covered, Imported, SameURL
  <2> QED
    BY Zenon, <1>2, <2>1, <2>2, <2>3
<1> QED
  BY Zenon, <1>3, <1>4, <1>5

(* The checksums files come with.                                          *)
LEMMA OfferedTypes ==
  ASSUME conf \in Updates
  PROVE  Offered \in [Ids -> [of : Contents, full : BOOLEAN]]
<1>1. conf.files \in Seq([url : Nat, claim : Contents, full : BOOLEAN])
  BY Zenon, UpdatesAssumption
<1>2. \A S : conf.files \in Seq(S) => \A j \in Ids : conf.files[j] \in S
  BY DEF Ids
<1>3. \A j \in Ids : conf.files[j] \in [url : Nat, claim : Contents, full : BOOLEAN]
  BY Zenon, <1>1, <1>2
<1> QED
  BY Zenon, <1>3 DEF Offered

(* The beginning of an update and its end.                                 *)
LEMMA BoundaryStep ==
  ASSUME UpdateInv, Start \/ Finish
  PROVE  UpdateInv'
<1>1. UNCHANGED <<file, tainted, conf, lost, Ids>>
  BY Zenon DEF Start, Finish, fixed, ends, Ids, poolvars
<1>2. \A x, c : There(x, c) => There(x, c)'
  BY Zenon, <1>1 DEF There, Pair, Holds
<1>3. (\A x \in OldPlaces : x \in lost => x \notin DOMAIN file)'
  BY Zenon, <1>1 DEF UpdateInv
<1>4. CASE Start
  <2>1. /\ phase' = "queue" /\ idx' = 1 /\ queue' = <<>> /\ place' = [j \in Ids |-> NoPath]
        /\ chk' = Offered /\ feeder' = 0 /\ closed' = FALSE /\ worker' = [w \in Workers |-> Idle]
        /\ temp' = [j \in Ids |-> NoFile] /\ UNCHANGED last
    BY Zenon, <1>4 DEF Start
  <2>2. Offered \in [Ids -> [of : Contents, full : BOOLEAN]]
    BY Zenon, OfferedTypes DEF UpdateInv, UpdateTypes
  <2>3. Idle \in [at : {"idle", "get", "rename", "gone"}, task : Nat, tries : Nat]
    BY Zenon DEF Idle
  <2>4. UpdateTypes'
    BY <1>1, <2>1, <2>2, <2>3 DEF UpdateInv, UpdateTypes
  <2>5. \A j \in Ids : ~(j < 1)
    BY IdsAreNumbers DEF UpdateInv
  <2>6. LastGood' /\ PlaceGood' /\ Covered' /\ HandedOut' /\ Imported'
    BY Zenon, <1>1, <1>2, <2>1, <2>5 DEF UpdateInv, LastGood, PlaceGood, Covered, HandedOut, Imported
  <2> QED
    BY Zenon, <1>3, <2>4, <2>6 DEF UpdateInv
<1>5. CASE Finish
  <2>1. /\ phase = "import" /\ idx \notin DOMAIN queue
        /\ UNCHANGED <<idx, queue, place, chk, feeder, worker, temp>>
    BY Zenon, <1>5 DEF Finish, downs
  <2>2. UpdateTypes'
    BY Zenon, <1>1, <2>1 DEF UpdateInv, UpdateTypes
  <2>3. CASE phase' = "failed" /\ UNCHANGED last
    BY Zenon, <1>1, <1>2, <1>3, <2>2, <2>3 DEF UpdateInv, LastGood, PlaceGood, Covered, HandedOut, Imported
  <2>4. CASE /\ phase' = "ok" /\ ~cancelled /\ errors = {}
             /\ last' = [j \in Ids |-> [at |-> place[j], of |-> chk[j].of]]
    <3>1. \A n \in DOMAIN queue : n < idx
      BY <2>1, IdsAreNumbers DEF UpdateInv, UpdateTypes
    <3>2. \A j \in Ids : place[j] # NoPath /\ place[j] \in Places
      BY Zenon, <2>1, <2>4, <3>1 DEF UpdateInv, UpdateTypes, Covered, HandedOut, Imported
    <3>3. PlaceGood'
      BY Zenon, <1>1, <1>2, <2>1 DEF UpdateInv, PlaceGood
    <3>4. LastGood'
      BY Zenon, <1>1, <1>2, <2>1, <2>4, <3>2 DEF UpdateInv, PlaceGood, LastGood
    <3>5. Covered' /\ HandedOut' /\ Imported'
      BY Zenon, <1>1, <2>1, <2>4, <3>2 DEF Covered, HandedOut, Imported
    <3> QED
      BY Zenon, <1>3, <2>2, <3>3, <3>4, <3>5 DEF UpdateInv
  <2> QED
    BY Zenon, <1>5, <2>3, <2>4 DEF Finish
<1> QED
  BY Zenon, <1>4, <1>5

(* While the pool only grows, what is good stays good.                     *)
LEMMA GoodStays ==
  ASSUME UpdateInv, PoolInv', Grows,
         lost' = lost \/ \E y, d : Returned(y, d) /\ lost' = lost \ {y}
  PROVE  /\ \A x, c : There(x, c) => There(x, c)'
         /\ (\A x \in OldPlaces : x \in lost => x \notin DOMAIN file)'
<1>1. ASSUME NEW x, NEW c, There(x, c)
      PROVE  There(x, c)'
  <2>1. CASE lost' = lost
    BY Zenon, <1>1, <2>1, ThereGrows
  <2>2. ASSUME NEW y, NEW d, Returned(y, d), lost' = lost \ {y}
        PROVE  There(x, c)'
    BY Zenon, <1>1, <2>2, ThereFound DEF UpdateInv
  <2> QED
    BY Zenon, <2>1, <2>2
<1>2. lost' \subseteq lost
  BY Zenon
<1>3. (\A x \in OldPlaces : x \in lost => x \notin DOMAIN file)'
  BY Zenon, <1>2 DEF UpdateInv, Grows
<1> QED
  BY Zenon, <1>1, <1>3

(* A step of the pool beside the update.                                   *)
LEMMA BesideStep ==
  ASSUME UpdateInv, PoolInv', Grows, UNCHANGED <<conf, phase, idx, lists, downs, ends>>
  PROVE  UpdateInv'
<1>1. UNCHANGED <<conf, phase, idx, queue, place, chk, last, feeder, closed, worker, temp, done, errors,
                  cancelled, lost, Ids>>
  BY Zenon DEF lists, downs, ends, Ids
<1>2. /\ \A x, c : There(x, c) => There(x, c)'
      /\ (\A x \in OldPlaces : x \in lost => x \notin DOMAIN file)'
  BY Zenon, <1>1, GoodStays
<1>3. UpdateTypes'
  BY Zenon, <1>1 DEF UpdateInv, UpdateTypes
<1>4. LastGood' /\ PlaceGood'
  BY Zenon, <1>1, <1>2 DEF UpdateInv, LastGood, PlaceGood
<1>5. Covered' /\ Imported'
  BY <1>1 DEF UpdateInv, Covered, Imported, SameURL
<1>6. HandedOut'
  BY Zenon, <1>1 DEF UpdateInv, HandedOut, Busy
<1> QED
  BY Zenon, <1>2, <1>3, <1>4, <1>5, <1>6 DEF UpdateInv

(***************************************************************************)
(* The steps of updates and of other processes that look for files in the  *)
(* pool, import into it or remove from it keep the invariant of updates.   *)
(***************************************************************************)

(* Looking for a file: it is taken from the package in the database, found *)
(* in the pool, or left to a task.                                         *)
LEMMA QueueStep ==
  ASSUME PoolInv, UpdateInv, PoolInv', QueueFile
  PROVE  UpdateInv'
<1>1. /\ phase = "queue" /\ phase' = "queue" /\ idx \in Ids /\ idx' = idx + 1
      /\ UNCHANGED <<conf, last, feeder, closed, worker, temp, done, errors, cancelled, Ids>>
  BY Zenon DEF QueueFile, fixed, downs, Ids
<1>2. /\ chk[idx] \in [of : Contents, full : BOOLEAN]
      /\ \A j \in Ids : j < idx' => j < idx \/ j = idx
  BY <1>1, IdsAreNumbers DEF UpdateInv, UpdateTypes
<1>3. HandedOut' /\ Imported'
  BY Zenon, <1>1 DEF UpdateInv, HandedOut, Imported
<1>4. ASSUME Grows, UpdateTypes',
             lost' = lost \/ \E y, d : Returned(y, d) /\ lost' = lost \ {y},
             \A j \in Ids : j # idx => place'[j] = place[j] /\ chk'[j] = chk[j],
             \A n \in DOMAIN queue : n \in DOMAIN queue' /\ queue'[n] = queue[n],
             \E x, c : place'[idx] = x /\ chk'[idx].of = c /\ (x # NoPath => There(x, c)'),
             place'[idx] = NoPath => \E n \in DOMAIN queue' : SameURL(queue'[n], idx)
      PROVE  UpdateInv'
  <2>1. /\ \A x, c : There(x, c) => There(x, c)'
        /\ (\A x \in OldPlaces : x \in lost => x \notin DOMAIN file)'
    BY Zenon, <1>4, GoodStays
  <2>2. LastGood'
    BY Zenon, <1>1, <2>1 DEF UpdateInv, LastGood
  <2>3. PlaceGood'
    <3>1. ASSUME NEW j \in Ids, place'[j] # NoPath
          PROVE  \E x, c : place'[j] = x /\ chk'[j].of = c /\ There(x, c)'
      <4>1. CASE j = idx
        BY <1>4, <3>1, <4>1
      <4>2. CASE j # idx
        <5>1. PICK x, c : x = place[j] /\ c = chk[j].of
          OBVIOUS
        <5>2. There(x, c)
          BY <1>1, <1>4, <3>1, <4>2, <5>1 DEF UpdateInv, PlaceGood
        <5> QED
          BY Zenon, <1>4, <2>1, <4>2, <5>1, <5>2
      <4> QED
        BY <4>1, <4>2
    <3> QED
      BY <1>1, <3>1 DEF PlaceGood
  <2>4. Covered'
    BY <1>1, <1>2, <1>4 DEF UpdateInv, Covered, SameURL
  <2> QED
    BY Zenon, <1>3, <1>4, <2>1, <2>2, <2>3, <2>4 DEF UpdateInv
<1>5. CASE SkipFile(idx) /\ last[idx].of = chk[idx].of
  <2>1. UNCHANGED <<file, tainted, queue, chk, lost>> /\ place' = [place EXCEPT ![idx] = last[idx].at]
    BY <1>5 DEF SkipFile, poolvars
  <2>2. Grows
    BY <2>1 DEF Grows
  <2>3. last[idx].at # NoPath /\ last[idx].at \in Places /\ There(last[idx].at, chk[idx].of)
    BY <1>1, <1>2, <1>5, PoolAssumption DEF UpdateInv, LastGood
  <2>4. UpdateTypes'
    BY <1>1, <2>1, <2>3 DEF UpdateInv, UpdateTypes
  <2>5. place'[idx] = last[idx].at /\ \A j \in Ids : j # idx => place'[j] = place[j]
    BY <1>1, <2>1 DEF UpdateInv, UpdateTypes
  <2>6. PICK x, c : x = last[idx].at /\ c = chk[idx].of
    OBVIOUS
  <2>7. There(x, c)'
    BY <2>1, <2>2, <2>3, <2>6, ThereGrows
  <2> QED
    BY Zenon, <1>4, <2>1, <2>2, <2>3, <2>4, <2>5, <2>6, <2>7
<1>6. CASE VerifyFile(idx)
  <2>1. Verify(chk[idx].of, chk[idx].full) /\ UNCHANGED <<file, tainted>>
    BY <1>6 DEF VerifyFile, Verify
  <2>2. Grows
    BY <2>1 DEF Grows
  <2>3. CASE path' # NoPath
    <3>1. PICK x, c : x = path' /\ c = chk[idx].of
      OBVIOUS
    <3>2. reply'.got = c /\ Returned(x, c) /\ x \in Places
      BY Zenon, <1>2, <2>1, <2>3, <3>1, VerifyAnswers DEF Returned
    <3>3. /\ place' = [place EXCEPT ![idx] = x] /\ chk' = [chk EXCEPT ![idx] = [of |-> c, full |-> TRUE]]
          /\ lost' = lost \ {x} /\ queue' = queue
      BY <1>6, <2>3, <3>1, <3>2 DEF VerifyFile
    <3>4. UpdateTypes'
      BY <1>1, <1>2, <3>1, <3>2, <3>3 DEF UpdateInv, UpdateTypes
    <3>5. /\ place'[idx] = x /\ chk'[idx].of = c
          /\ \A j \in Ids : j # idx => place'[j] = place[j] /\ chk'[j] = chk[j]
      BY <1>1, <3>3 DEF UpdateInv, UpdateTypes
    <3>6. There(x, c)'
      BY <3>2, ThereReturned
    <3> QED
      BY <1>4, <2>2, <2>3, <3>1, <3>2, <3>3, <3>4, <3>5, <3>6
  <2>4. CASE path' = NoPath
    <3>1. /\ queue' = (IF TaskOf(idx) = {} THEN Append(queue, idx) ELSE queue)
          /\ UNCHANGED <<place, chk, lost>>
      BY <1>6, <2>4 DEF VerifyFile
    <3>2. UpdateTypes'
      BY <1>1, <3>1 DEF UpdateInv, UpdateTypes
    <3>3. \A n \in DOMAIN queue : n \in DOMAIN queue' /\ queue'[n] = queue[n]
      BY <1>1, <3>1 DEF UpdateInv, UpdateTypes
    <3>4. \E n \in DOMAIN queue' : SameURL(queue'[n], idx)
      <4>1. CASE TaskOf(idx) = {}
        <5>1. Len(queue) + 1 \in DOMAIN queue' /\ queue'[Len(queue) + 1] = idx
          BY <1>1, <3>1, <4>1 DEF UpdateInv, UpdateTypes
        <5> QED
          BY <5>1 DEF SameURL
      <4>2. CASE TaskOf(idx) # {}
        BY <3>1, <4>2 DEF TaskOf, SameURL
      <4> QED
        BY <4>1, <4>2
    <3>5. PICK x, c : x = place[idx] /\ c = chk[idx].of
      OBVIOUS
    <3>6. x # NoPath => There(x, c)'
      BY <1>1, <2>2, <3>1, <3>5, ThereGrows DEF UpdateInv, PlaceGood
    <3> QED
      BY Zenon, <1>4, <2>2, <3>1, <3>2, <3>3, <3>4, <3>5, <3>6
  <2> QED
    BY <2>3, <2>4
<1> QED
  BY <1>5, <1>6 DEF QueueFile

(* A step of an import only adds to the pool.                              *)
LEMMA ImportsGrow ==
  ASSUME PoolInv, [PoolNext]_poolvars, DOMAIN file \subseteq DOMAIN file'
  PROVE  Grows
<1>1. \A x \in Places : ~Remove(x)
  BY DEF Remove, Without
<1> QED
  BY <1>1, PoolGrows

(* Importing a task: a step inside pool.Import, its failure, or its end,   *)
(* which gives a place to all files with the task's URL.                   *)
LEMMA ImportTaskStep ==
  ASSUME PoolInv, UpdateInv, PoolInv', [PoolNext]_poolvars, ImportTask
  PROVE  UpdateInv'
<1> DEFINE j == queue[idx]
<1>1. /\ phase = "import" /\ idx \in DOMAIN queue /\ j \in done /\ AfterImport(j)
      /\ UNCHANGED <<conf, queue, last, feeder, closed, worker, temp, done, errors, cancelled, Ids>>
  BY DEF ImportTask, fixed, downs, Ids
<1>2. DOMAIN file \subseteq DOMAIN file'
  BY Zenon DEF ImportTask, ImportFound, ImportRefused, ImportNew, ImportCopied, ImportMoved, ImportSums, ImportFails,
         With
<1>3. Grows
  BY <1>2, ImportsGrow
<1>4. CASE imp' # {}
  <2>1. UNCHANGED <<conf, phase, idx, lists, downs, ends>>
    BY <1>1, <1>4 DEF AfterImport, lists, downs, ends
  <2> QED
    BY <1>3, <2>1, BesideStep
<1>5. CASE imp' = {} /\ path' = NoPath
  <2>1. phase' = "failed" /\ UNCHANGED <<idx, place, chk, lost>>
    BY <1>1, <1>5 DEF AfterImport
  <2>2. /\ \A x, c : There(x, c) => There(x, c)'
        /\ (\A x \in OldPlaces : x \in lost => x \notin DOMAIN file)'
    BY <1>3, <2>1, GoodStays
  <2>3. UpdateTypes'
    BY <1>1, <2>1 DEF UpdateInv, UpdateTypes
  <2>4. LastGood'
    BY <1>1, <2>2 DEF UpdateInv, LastGood
  <2>5. PlaceGood' /\ Covered' /\ HandedOut' /\ Imported'
    BY Zenon, <2>1 DEF PlaceGood, Covered, HandedOut, Imported
  <2> QED
    BY <2>2, <2>3, <2>4, <2>5 DEF UpdateInv
<1>6. CASE imp' = {} /\ path' # NoPath
  <2> DEFINE same == {i \in Ids : i = j \/ (place[i] = NoPath /\ conf.files[i].url = conf.files[j].url)}
  <2>1. PICK x, c : x = path' /\ c = reply'.got
    OBVIOUS
  <2>2. Returned(x, c)
    <3>1. j \in Ids /\ temp[j] \in Contents \cup {NoFile} /\ Claim(j) \in Contents \cup {Unknown}
      BY <1>1, IdsAreNumbers DEF UpdateInv, UpdateTypes, Claim
    <3>2. \A src, claim, move, copy : ~ImportNew(src, claim, move, copy)
      BY Zenon, <1>6 DEF ImportNew
    <3>3. \A i : ~ImportCopied(i)
      BY Zenon, <1>6 DEF ImportCopied
    <3>4. \/ temp[j] # NoFile /\ (ImportFound(temp[j], Claim(j)) \/ ImportRefused(temp[j], Claim(j)))
          \/ \E i \in imp : ImportMoved(i) \/ \E b \in BOOLEAN : ImportSums(i, b)
          \/ ImportFails
      BY Zenon, <3>2, <3>3 DEF ImportTask
    <3>5. \/ \E src \in Contents, claim \in Contents \cup {Unknown} :
               ImportFound(src, claim) \/ ImportRefused(src, claim)
          \/ \E i \in imp : ImportMoved(i) \/ \E b \in BOOLEAN : ImportSums(i, b)
          \/ ImportFails
      BY Zenon, <3>1, <3>4
    <3> QED
      BY <1>6, <2>1, <3>5, ImportAnswers
  <2>3. /\ place' = [i \in Ids |-> IF i \in same THEN x ELSE place[i]]
        /\ chk' = [i \in Ids |-> IF i \in same THEN [of |-> c, full |-> TRUE] ELSE chk[i]]
        /\ lost' = lost \ {x} /\ idx' = idx + 1 /\ phase' = "import"
    BY <1>1, <1>6, <2>1 DEF AfterImport
  <2>4. x \in Places /\ x # NoPath /\ c \in Contents
    BY <1>6, <2>1, <2>2 DEF Returned
  <2>5. UpdateTypes'
    <3>1. UpdateTypes
      BY DEF UpdateInv
    <3>2. place' \in [Ids -> Places \cup {NoPath}]
      BY Zenon, <2>3, <2>4, <3>1 DEF UpdateTypes
    <3>3. chk' \in [Ids -> [of : Contents, full : BOOLEAN]]
      BY <2>3, <2>4, <3>1 DEF UpdateTypes
    <3>4. idx' \in Nat \ {0}
      BY <2>3, <3>1 DEF UpdateTypes
    <3> HIDE DEF same
    <3> QED
      BY Zenon, <1>1, <3>1, <3>2, <3>3, <3>4 DEF UpdateTypes
  <2>6. /\ \A y, d : There(y, d) => There(y, d)'
        /\ (\A y \in OldPlaces : y \in lost => y \notin DOMAIN file)'
    BY Zenon, <1>3, <2>2, <2>3, GoodStays
  <2>7. There(x, c)'
    BY <2>2, ThereReturned
  <2>8. LastGood'
    BY <1>1, <2>6 DEF UpdateInv, LastGood
  <2>9. PlaceGood'
    <3>1. ASSUME NEW i \in Ids, place'[i] # NoPath
          PROVE  \E y, d : place'[i] = y /\ chk'[i].of = d /\ There(y, d)'
      <4>1. CASE i \in same
        BY Zenon, <2>3, <2>7, <4>1
      <4>2. CASE i \notin same
        <5>1. PICK y, d : y = place[i] /\ d = chk[i].of
          OBVIOUS
        <5>2. There(y, d) /\ place'[i] = y /\ chk'[i].of = d
          BY Zenon, <1>1, <2>3, <3>1, <4>2, <5>1 DEF UpdateInv, PlaceGood
        <5> QED
          BY Zenon, <2>6, <5>2
      <4> QED
        BY <4>1, <4>2
    <3> QED
      BY <1>1, <3>1 DEF PlaceGood
  <2>10. \A i \in Ids : place[i] # NoPath \/ SameURL(j, i) => place'[i] # NoPath
    BY ZenonT(30), <2>3, <2>4 DEF SameURL
  <2>11. Covered'
    BY <1>1, <2>3, <2>10, Zenon DEF UpdateInv, Covered, SameURL
  <2>12. HandedOut'
    BY Zenon, <1>1, <2>3 DEF UpdateInv, HandedOut
  <2>13. \A n \in DOMAIN queue : n < idx' => n < idx \/ n = idx
    <3>1. UpdateTypes /\ idx \in Nat /\ idx' = idx + 1
      BY Zenon, <2>3 DEF UpdateInv, UpdateTypes
    <3>2. DOMAIN queue \subseteq Nat
      BY <3>1, IdsAreNumbers
    <3> QED
      BY <3>1, <3>2
  <2>14. Imported'
    <3>1. ASSUME NEW n \in DOMAIN queue, n < idx', queue[n] \in done,
                 NEW i \in Ids, SameURL(queue[n], i)
          PROVE  place'[i] # NoPath
      <4>1. CASE n = idx
        BY Zenon, <2>10, <3>1, <4>1
      <4>2. CASE n < idx
        BY Zenon, <1>1, <2>10, <3>1, <4>2 DEF UpdateInv, Imported
      <4> QED
        BY Zenon, <2>13, <3>1, <4>1, <4>2
    <3>2. \A n, i : SameURL(n, i)' = SameURL(n, i)
      BY <1>1 DEF SameURL
    <3>3. phase' # "ok"
      BY <2>3
    <3> QED
      BY Zenon, <1>1, <3>1, <3>2, <3>3 DEF Imported
  <2> QED
    BY <2>5, <2>6, <2>8, <2>9, <2>11, <2>12, <2>14 DEF UpdateInv
<1> QED
  BY <1>4, <1>5, <1>6

(* The process dies.                                                       *)
LEMMA DieStep ==
  ASSUME UpdateInv, PoolInv', Die
  PROVE  UpdateInv'
<1>1. /\ phase' = "idle" /\ UNCHANGED <<file, tainted>>
      /\ UNCHANGED <<conf, idx, queue, place, chk, last, feeder, worker, temp, lost, Ids>>
  BY DEF Die, ImportDies, poolvars, fixed, lists, downs, ends, Ids
<1>2. Grows
  BY <1>1 DEF Grows
<1>3. /\ \A x, c : There(x, c) => There(x, c)'
      /\ (\A x \in OldPlaces : x \in lost => x \notin DOMAIN file)'
  BY <1>1, <1>2, GoodStays
<1>4. UpdateTypes'
  BY <1>1 DEF UpdateInv, UpdateTypes
<1>5. LastGood'
  BY <1>1, <1>3 DEF UpdateInv, LastGood
<1>6. PlaceGood' /\ Covered' /\ HandedOut' /\ Imported'
  BY Zenon, <1>1 DEF PlaceGood, Covered, HandedOut, Imported
<1> QED
  BY Zenon, <1>3, <1>4, <1>5, <1>6 DEF UpdateInv

(* Another process imports.                                                *)
LEMMA OtherImportStep ==
  ASSUME PoolInv, UpdateInv, PoolInv', [PoolNext]_poolvars, OtherBegins \/ OtherImports
  PROVE  UpdateInv'
<1>1. UNCHANGED <<conf, phase, idx, lists, downs, ends>>
  BY Zenon DEF OtherBegins, OtherImports, updatevars, fixed
<1>2. DOMAIN file \subseteq DOMAIN file'
  BY ZenonT(30) DEF OtherBegins, OtherImports, Import, Verify, ImportStep, ImportFound, ImportRefused, ImportNew,
         ImportCopied, ImportMoved, ImportSums, ImportFails, ImportDies, With
<1>3. Grows
  BY <1>2, ImportsGrow
<1> QED
  BY <1>1, <1>3, BesideStep

(* Another process cleans up: it spares what the packages of the mirror    *)
(* have, so all of a finished update; what a running update has found it   *)
(* may take.                                                               *)
LEMMA OtherCleansStep ==
  ASSUME UpdateInv, OtherCleans
  PROVE  UpdateInv'
<1>1. /\ phase \in {"idle", "ok", "failed", "down"}
      /\ UNCHANGED <<conf, phase, idx, queue, place, chk, last, feeder, closed, worker, done, errors,
                     cancelled, Ids>>
  BY DEF OtherCleans, Ended, lists, Ids
<1>2. Covered' /\ HandedOut' /\ Imported'
  BY Zenon, <1>1 DEF UpdateInv, Covered, HandedOut, Imported, SameURL, Busy
<1>3. CASE \E i \in Ids : temp' = [temp EXCEPT ![i] = NoFile] /\ UNCHANGED <<poolvars, lost>>
  <2>1. UpdateTypes'
    BY <1>1, <1>3 DEF UpdateInv, UpdateTypes
  <2> QED
    BY Zenon, <1>1, <1>2, <1>3, <2>1, QuietStep DEF UpdateInv
<1>4. ASSUME NEW x \in Places, \A i \in Ids : last[i].at # x, Remove(x), UNCHANGED temp,
             lost' = IF phase = "down" THEN lost \cup {x} ELSE lost
      PROVE  UpdateInv'
  <2>1. UpdateTypes'
    BY Zenon, <1>1, <1>4 DEF UpdateInv, UpdateTypes
  <2>2. (\A y \in OldPlaces : y \in lost => y \notin DOMAIN file)'
    BY Zenon, <1>4 DEF UpdateInv, Remove, Without
  <2>3. lost \subseteq lost' /\ (phase = "down" => x \in lost')
    BY <1>4
  <2>4. ASSUME NEW y, NEW c, There(y, c), y = x => phase = "down"
        PROVE  There(y, c)'
    BY <1>4, <2>3, <2>4, ThereRemoved
  <2>5. LastGood'
    <3>1. ASSUME NEW i \in Ids, last[i].at # NoPath
          PROVE  \E y, c : last[i].at = y /\ last[i].of = c /\ There(y, c)'
      <4>1. PICK y, c : y = last[i].at /\ c = last[i].of
        OBVIOUS
      <4>2. There(y, c) /\ y # x
        BY <1>4, <3>1, <4>1 DEF UpdateInv, LastGood
      <4> QED
        BY <2>4, <4>1, <4>2
    <3> QED
      BY <1>1, <3>1 DEF UpdateInv, LastGood
  <2>6. PlaceGood'
    <3>1. ASSUME NEW i \in Ids, place[i] # NoPath, phase \in {"down", "ok"}
          PROVE  \E y, c : place[i] = y /\ chk[i].of = c /\ There(y, c)'
      <4>1. PICK y, c : y = place[i] /\ c = chk[i].of
        OBVIOUS
      <4>2. There(y, c)
        BY <3>1, <4>1 DEF UpdateInv, PlaceGood
      <4>3. ASSUME phase = "ok"
            PROVE  y # x
        <5>1. last[i] = [at |-> place[i], of |-> chk[i].of]
          BY <4>3 DEF UpdateInv, Imported
        <5>2. last[i].at = y /\ last[i].at # x
          BY <1>4, <4>1, <5>1
        <5> QED
          BY <5>2
      <4> QED
        BY Zenon, <2>4, <3>1, <4>1, <4>2, <4>3
    <3> QED
      BY <1>1, <3>1 DEF PlaceGood
  <2> QED
    BY Zenon, <1>2, <2>1, <2>2, <2>5, <2>6 DEF UpdateInv
<1> QED
  BY <1>3, <1>4 DEF OtherCleans

(***************************************************************************)
(* The invariant holds, and what follows from it.                          *)
(***************************************************************************)

(* Before the first update.                                                *)
LEMMA UpdateInit == MirrorInit => UpdateInv
<1> SUFFICES ASSUME MirrorInit PROVE UpdateInv
  OBVIOUS
<1>1. /\ conf \in Updates /\ phase = "idle" /\ idx = 1 /\ queue = <<>> /\ chk = Offered
      /\ place = [j \in Ids |-> NoPath] /\ last = [j \in Ids |-> [at |-> NoPath, of |-> Unknown]]
      /\ feeder = 0 /\ worker = [w \in Workers |-> Idle] /\ temp = [j \in Ids |-> NoFile] /\ lost = {}
  BY DEF MirrorInit
<1>2. Offered \in [Ids -> [of : Contents, full : BOOLEAN]]
  BY <1>1, OfferedTypes
<1>3. Idle \in [at : {"idle", "get", "rename", "gone"}, task : Nat, tries : Nat]
  BY DEF Idle
<1>4. UpdateTypes
  BY <1>1, <1>2, <1>3 DEF UpdateTypes
<1>5. LastGood /\ PlaceGood /\ Covered /\ HandedOut /\ Imported
  BY <1>1 DEF LastGood, PlaceGood, Covered, HandedOut, Imported
<1> QED
  BY <1>1, <1>4, <1>5 DEF UpdateInv

(* Every step keeps the invariants of the pool and of the update.          *)
LEMMA UpdateStep == PoolInv /\ UpdateInv /\ [MirrorNext]_vars => PoolInv' /\ UpdateInv'
<1> SUFFICES ASSUME PoolInv, UpdateInv, [MirrorNext]_vars
             PROVE  PoolInv' /\ UpdateInv'
  OBVIOUS
<1>1. [PoolNext]_poolvars
  BY UpdateUsesPool DEF UpdateInv
<1>2. PoolInv'
  BY <1>1, PoolStep
<1>3. CASE Start \/ Main \/ FeederEnds \/ Cancel \/ Die
  BY <1>1, <1>2, <1>3, BoundaryStep, MainStep, QueueStep, ImportTaskStep, EndsStep, DieStep DEF Main
<1>4. ASSUME NEW w \in Workers, Worker(w) \/ Network(w)
      PROVE  UpdateInv'
  BY <1>4, FeedStep, EndsStep, DownloadStep DEF Worker, Network
<1>5. CASE OtherBegins \/ OtherImports \/ OtherCleans
  BY <1>1, <1>2, <1>5, OtherImportStep, OtherCleansStep
<1>6. CASE UNCHANGED vars
  <2>1. Grows
    BY <1>6 DEF vars, poolvars, Grows
  <2>2. UNCHANGED <<conf, phase, idx, lists, downs, ends>>
    BY <1>6 DEF vars, updatevars, fixed
  <2> QED
    BY <1>2, <2>1, <2>2, BesideStep
<1> QED
  BY <1>2, <1>3, <1>4, <1>5, <1>6 DEF MirrorNext

(* The two invariants together.                                            *)
LEMMA UpdateInvariant == MirrorSpec => [](PoolInv /\ UpdateInv)
<1>1. MirrorInit => PoolInv /\ UpdateInv
  BY PoolInit, UpdateInit DEF MirrorInit
<1> QED
  BY <1>1, UpdateStep, PTL DEF MirrorSpec

(* With updates, the processes beside them, cleanup and crashes, files of  *)
(* the pool keep the checksums of their place.                             *)
THEOREM UpdatesKeepPoolHonest == MirrorSpec => []PoolHonest
<1>1. PoolInv => PoolHonest
  BY DEF PoolInv
<1> QED
  BY <1>1, UpdateInvariant, PTL

(* To those who use it, the pool is a store also while mirrors are updated. *)
THEOREM UpdatesImplementStore == MirrorSpec => ImplementsStore
<1>1. MirrorInit => Store!Init
  BY InitSimulates DEF MirrorInit
<1>2. PoolInv /\ UpdateInv /\ [MirrorNext]_vars => [Store!Next]_(Store!storevars)
  BY UpdateUsesPool, PoolSimulates DEF UpdateInv
<1> QED
  BY <1>1, <1>2, UpdateInvariant, PTL DEF MirrorSpec, ImplementsStore, Store!Spec

(* An update that succeeds has delivered every file of the mirror's        *)
(* packages, but for what cleanup took during its downloads.               *)
THEOREM UpdatesDeliver == MirrorSpec => []Delivered
<1>1. UpdateInv => Delivered
  <2> SUFFICES ASSUME UpdateInv, phase = "ok", NEW j \in Ids
               PROVE  place[j] \in lost \/ (place[j] \in DOMAIN file /\ Holds(place[j], chk[j].of))
    BY DEF Delivered
  <2>1. There(place[j], chk[j].of)
    BY Zenon DEF UpdateInv, PlaceGood, Imported
  <2> QED
    BY <2>1 DEF There
<1> QED
  BY <1>1, UpdateInvariant, PTL
(***************************************************************************)
(* The indexes of the loops and the tasks of the workers.                  *)
(***************************************************************************)

(* There are no more tasks than files gone through, and no loop runs past  *)
(* its end; workers only have tasks out of the queue.                      *)
Bounds ==
  /\ phase \in Ended \cup {"queue", "down", "import"}
  /\ idx <= Len(conf.files) + 1 /\ Len(queue) <= Len(conf.files)
  /\ phase = "queue" => Len(queue) < idx
  /\ feeder <= Len(queue) + 1 /\ done \subseteq Ids
  /\ \A w \in Workers : /\ worker[w].task \in Ids \cup {0}
                        /\ Busy(w) => worker[w].task \in Ids

(* Steps that hand out no task and end none.                               *)
LEMMA BoundsFrame ==
  ASSUME UpdateTypes, Bounds, UNCHANGED <<conf, queue, worker, done>>, feeder' \in {0, 1, feeder},
         phase' \in Ended \cup {"queue", "down", "import"},
         (idx' = idx /\ (phase' = "queue" => phase = "queue")) \/ (idx' = 1 /\ phase' # "queue")
           \/ (idx \in DOMAIN queue /\ idx' = idx + 1 /\ phase' # "queue")
  PROVE  Bounds'
<1>1. /\ DOMAIN queue = 1 .. Len(queue) /\ Len(queue) \in Nat /\ Len(conf.files) \in Nat
      /\ idx \in Nat /\ feeder \in Nat
  BY IdsAreNumbers DEF UpdateTypes
<1>2. /\ idx' <= Len(conf.files) + 1 /\ Len(queue) <= Len(conf.files)
      /\ phase' = "queue" => Len(queue) < idx'
      /\ feeder' <= Len(queue) + 1
  BY <1>1 DEF Bounds
<1>3. /\ done \subseteq Ids
      /\ \A w \in Workers : /\ worker[w].task \in Ids \cup {0}
                            /\ Busy(w) => worker[w].task \in Ids
  BY Zenon DEF Bounds
<1> QED
  BY Zenon, <1>2, <1>3 DEF Bounds, Ids, Busy

(* Steps of a worker, with its task or without one.                        *)
LEMMA BoundsWorker ==
  ASSUME UpdateTypes, Bounds, NEW w \in Workers, UNCHANGED <<conf, queue, phase, idx, feeder>>,
         NEW r, worker' = [worker EXCEPT ![w] = r],
         r.task \in Ids \cup {0}, r.at \in {"get", "rename"} => r.task \in Ids,
         done' = done \/ (Busy(w) /\ done' = done \cup {worker[w].task})
  PROVE  Bounds'
<1>1. /\ worker \in [Workers -> [at : {"idle", "get", "rename", "gone"}, task : Nat, tries : Nat]]
      /\ done \subseteq Ids
      /\ \A v \in Workers : /\ worker[v].task \in Ids \cup {0}
                            /\ Busy(v) => worker[v].task \in Ids
  BY Zenon DEF Bounds, UpdateTypes
<1>2. worker'[w] = r /\ \A v \in Workers : v # w => worker'[v] = worker[v]
  BY Zenon, <1>1
<1>3. \A v \in Workers : /\ worker'[v].task \in Ids \cup {0}
                         /\ Busy(v)' => worker'[v].task \in Ids
  BY Zenon, <1>1, <1>2 DEF Busy
<1>4. done' \subseteq Ids /\ Ids' = Ids
  BY Zenon, <1>1 DEF Ids
<1> QED
  BY Zenon, <1>3, <1>4 DEF Bounds

(* The bounds are kept by every step.                                      *)
LEMMA BoundsStep ==
  ASSUME UpdateInv, UpdateTypes', Bounds, [MirrorNext]_vars
  PROVE  Bounds'
<1>0. /\ UpdateTypes /\ Ids = 1 .. Len(conf.files) /\ DOMAIN queue = 1 .. Len(queue)
      /\ Len(queue) \in Nat /\ Len(conf.files) \in Nat /\ idx \in Nat \ {0} /\ feeder \in Nat
      /\ worker \in [Workers -> [at : {"idle", "get", "rename", "gone"}, task : Nat, tries : Nat]]
      /\ \A n \in DOMAIN queue : queue[n] \in Ids
  BY Zenon, IdsAreNumbers DEF UpdateInv, UpdateTypes
<1>1. CASE Start
  <2>1. /\ phase' = "queue" /\ idx' = 1 /\ queue' = <<>> /\ feeder' = 0 /\ done' = {}
        /\ worker' = [w \in Workers |-> Idle] /\ conf' = conf
    BY Zenon, <1>1 DEF Start
  <2>2. /\ 1 <= Len(conf.files) + 1 /\ Len(<<>>) <= Len(conf.files) /\ Len(<<>>) < 1
        /\ 0 <= Len(<<>>) + 1
    BY <1>0
  <2>3. Idle.task = 0 /\ Idle.at = "idle"
    BY DEF Idle
  <2>4. \A w \in Workers : worker'[w].task = 0 /\ ~Busy(w)'
    BY Zenon, <2>1, <2>3, "idle" # "get", "idle" # "rename" DEF Busy
  <2> QED
    BY Zenon, <2>1, <2>2, <2>4 DEF Bounds
<1>2. CASE QueueFile
  <2>1. /\ phase = "queue" /\ idx \in Ids /\ idx' = idx + 1
        /\ queue' = queue \/ queue' = Append(queue, idx)
        /\ UNCHANGED <<conf, phase, feeder, worker, done>>
    BY Zenon, <1>2 DEF QueueFile, SkipFile, VerifyFile, fixed, downs
  <2>2. feeder = 0
    BY Zenon, <2>1 DEF UpdateInv, HandedOut
  <2>3. Len(queue) < idx /\ Len(queue) <= Len(conf.files)
    BY Zenon, <2>1 DEF Bounds
  <2>4. queue \in Seq(Ids)
    BY Zenon, <1>0 DEF UpdateTypes
  <2>5. Len(queue') \in {Len(queue), Len(queue) + 1}
    BY <2>1, <2>4
  <2>6. /\ idx' <= Len(conf.files) + 1 /\ Len(queue') <= Len(conf.files) /\ Len(queue') < idx'
        /\ 0 <= Len(queue') + 1
    BY <1>0, <2>1, <2>3, <2>5
  <2> QED
    BY Zenon, <2>1, <2>2, <2>6 DEF Bounds, Ids, Busy
<1>3. CASE CloseDatabase
  <2>1. /\ UNCHANGED <<conf, queue, worker, done, idx>> /\ feeder' = 1 /\ phase' = "down"
    BY Zenon, <1>3 DEF CloseDatabase, fixed, lists
  <2> QED
    BY <1>0, <2>1, BoundsFrame DEF Ended
<1>4. CASE FeederEnds \/ Cancel
  <2>1. /\ UNCHANGED <<conf, queue, worker, done, idx, phase>> /\ feeder' \in {0, feeder}
    BY Zenon, <1>4 DEF FeederEnds, Cancel, fixed, lists, downs
  <2>2. phase \in Ended \cup {"queue", "down", "import"}
    BY Zenon DEF Bounds
  <2> QED
    BY <1>0, <2>1, <2>2, BoundsFrame
<1>5. CASE ReOpenDatabase
  <2>1. /\ UNCHANGED <<conf, queue, worker, done, feeder>>
        /\ phase' \in {"import", "failed"} /\ idx' \in {1, idx}
    BY Zenon, <1>5 DEF ReOpenDatabase, fixed, lists, downs
  <2> QED
    BY <1>0, <2>1, BoundsFrame DEF Ended
<1>6. CASE SkipTask
  <2>1. /\ UNCHANGED <<conf, queue, worker, done, feeder, phase>>
        /\ phase = "import" /\ idx \in DOMAIN queue /\ idx' = idx + 1
    BY Zenon, <1>6 DEF SkipTask, fixed, lists, downs
  <2> QED
    BY <1>0, <2>1, BoundsFrame
<1>7. CASE ImportTask
  <2>1. /\ UNCHANGED <<conf, queue, worker, done, feeder>>
        /\ phase = "import" /\ idx \in DOMAIN queue
        /\ phase' \in {"failed", phase} /\ idx' \in {idx, idx + 1}
    BY Zenon, <1>7 DEF ImportTask, AfterImport, fixed, downs
  <2> QED
    BY <1>0, <2>1, BoundsFrame DEF Ended
<1>8. CASE Finish \/ Die
  <2>1. /\ UNCHANGED <<conf, queue, worker, done, feeder, idx>>
        /\ phase' \in {"failed", "ok", "idle"}
    BY Zenon, <1>8 DEF Finish, Die, fixed, downs, lists
  <2> QED
    BY <1>0, <2>1, BoundsFrame DEF Ended
<1>9. CASE OtherBegins \/ OtherImports \/ OtherCleans \/ UNCHANGED vars
  <2>1. UNCHANGED <<conf, queue, worker, done, feeder, idx, phase>>
    BY Zenon, <1>9 DEF OtherBegins, OtherImports, OtherCleans, vars, updatevars, fixed, downs, lists
  <2>2. phase \in Ended \cup {"queue", "down", "import"}
    BY Zenon DEF Bounds
  <2> QED
    BY <1>0, <2>1, <2>2, BoundsFrame
<1>10. ASSUME NEW w \in Workers, Feed(w) PROVE Bounds'
  <2>1. /\ feeder \in DOMAIN queue /\ feeder' = feeder + 1
        /\ worker' = [worker EXCEPT ![w] = [at |-> "get", task |-> queue[feeder], tries |-> conf.tries]]
        /\ UNCHANGED <<conf, queue, phase, idx, done>>
    BY Zenon, <1>10 DEF Feed, fixed, lists
  <2>2. /\ worker'[w].task = queue[feeder] /\ queue[feeder] \in Ids
        /\ \A v \in Workers : v # w => worker'[v] = worker[v]
    BY Zenon, <1>0, <2>1
  <2>3. feeder' <= Len(queue) + 1
    BY <1>0, <2>1
  <2>4. \A v \in Workers : /\ worker'[v].task \in Ids \cup {0}
                           /\ Busy(v)' => worker'[v].task \in Ids
    BY Zenon, <2>2 DEF Bounds, Busy
  <2> QED
    BY Zenon, <2>1, <2>3, <2>4 DEF Bounds, Ids
<1>11. ASSUME NEW w \in Workers, WorkerEnds(w) \/ TriesSpent(w) \/ Renamed(w) \/ Network(w)
       PROVE  Bounds'
  <2>0. /\ worker[w] \in [at : {"idle", "get", "rename", "gone"}, task : Nat, tries : Nat]
        /\ worker[w].task \in Ids \cup {0} /\ (Busy(w) => worker[w].task \in Ids)
        /\ Idle.task = 0 /\ Idle.at = "idle"
    BY <1>0 DEF Bounds, Idle
  <2>1. UNCHANGED <<conf, queue, phase, idx, feeder>>
    BY Zenon, <1>11 DEF WorkerEnds, TriesSpent, Renamed, Network, Broken, Receive, fixed, lists
  <2>2. CASE worker' = [worker EXCEPT ![w] = Idle]
             /\ (done' = done \/ (Busy(w) /\ done' = done \cup {worker[w].task}))
    BY Zenon, <1>0, <2>0, <2>1, <2>2, BoundsWorker, "idle" # "get", "idle" # "rename"
  <2>3. ASSUME NEW r, worker' = [worker EXCEPT ![w] = r], r.task = worker[w].task,
               r.at = "gone" \/ Busy(w), done' = done
        PROVE  Bounds'
    BY Zenon, <1>0, <2>0, <2>1, <2>3, BoundsWorker, "gone" # "get", "gone" # "rename"
  <2>4. CASE WorkerEnds(w)
    <3>1. worker' = [worker EXCEPT ![w] = [worker[w] EXCEPT !.at = "gone"]] /\ done' = done
      BY <1>0, <2>4 DEF WorkerEnds
    <3>2. [worker[w] EXCEPT !.at = "gone"].at = "gone" /\ [worker[w] EXCEPT !.at = "gone"].task = worker[w].task
      BY <2>0
    <3> QED
      BY Zenon, <2>3, <3>1, <3>2
  <2>5. CASE TriesSpent(w) \/ Renamed(w)
    BY Zenon, <2>2, <2>5 DEF TriesSpent, Renamed, PushError, Busy
  <2>6. ASSUME NEW e, worker[w].at = "get", TryFailed(w, e), done' = done PROVE Bounds'
    <3>1. CASE worker' = [worker EXCEPT ![w].tries = @ - 1]
      <4>1. worker' = [worker EXCEPT ![w] = [worker[w] EXCEPT !.tries = @ - 1]]
        BY <1>0, <3>1
      <4>2. [worker[w] EXCEPT !.tries = @ - 1].task = worker[w].task /\ Busy(w)
        BY <2>0, <2>6 DEF Busy
      <4> QED
        BY Zenon, <2>3, <2>6, <4>1, <4>2
    <3> QED
      BY Zenon, <2>2, <2>6, <3>1 DEF TryFailed, PushError
  <2>7. CASE Broken(w)
    BY Zenon, <2>6, <2>7 DEF Broken
  <2>8. ASSUME NEW c, Receive(w, c) PROVE Bounds'
    <3>1. worker[w].at = "get" /\ done' = done
      BY Zenon, <2>8 DEF Receive
    <3>2. CASE worker' = [worker EXCEPT ![w].at = "rename"]
      <4>1. worker' = [worker EXCEPT ![w] = [worker[w] EXCEPT !.at = "rename"]]
        BY <1>0, <3>2
      <4>2. [worker[w] EXCEPT !.at = "rename"].task = worker[w].task /\ Busy(w)
        BY <2>0, <3>1 DEF Busy
      <4> QED
        BY Zenon, <2>3, <3>1, <4>1, <4>2
    <3> QED
      BY Zenon, <2>6, <2>8, <3>1, <3>2 DEF Receive
  <2> QED
    BY Zenon, <1>11, <2>4, <2>5, <2>7, <2>8 DEF Network
<1> QED
  BY Zenon, <1>1, <1>2, <1>3, <1>4, <1>5, <1>6, <1>7, <1>8, <1>9, <1>10, <1>11 DEF MirrorNext, Main, Worker

(* Types, with the bounds of the loops: an update never indexes past the   *)
(* files or the queue, and a worker only has tasks that were queued.       *)
THEOREM UpdatesTyped == MirrorSpec => []TypeOK
<1>1. MirrorInit => Bounds
  <2> SUFFICES ASSUME MirrorInit PROVE Bounds
    OBVIOUS
  <2>1. /\ phase = "idle" /\ idx = 1 /\ queue = <<>> /\ feeder = 0 /\ done = {}
        /\ worker = [w \in Workers |-> Idle]
    BY Zenon DEF MirrorInit
  <2>2. Len(conf.files) \in Nat
    BY UpdateInit, IdsAreNumbers, Zenon DEF UpdateInv
  <2>3. idx <= Len(conf.files) + 1 /\ Len(queue) <= Len(conf.files) /\ feeder <= Len(queue) + 1
    BY <2>1, <2>2
  <2>4. \A w \in Workers : worker[w].task = 0 /\ ~Busy(w)
    BY <2>1 DEF Idle, Busy
  <2> QED
    BY <2>1, <2>3, <2>4 DEF Bounds, Ended
<1>2. PoolInv /\ UpdateInv /\ Bounds /\ [MirrorNext]_vars => PoolInv' /\ UpdateInv' /\ Bounds'
  BY Zenon, UpdateStep, BoundsStep DEF UpdateInv
<1>3. PoolInv /\ UpdateInv /\ Bounds => TypeOK
  <2> SUFFICES ASSUME PoolInv, UpdateInv, Bounds PROVE TypeOK
    OBVIOUS
  <2>1. idx \in 1 .. Len(conf.files) + 1 /\ feeder \in 0 .. Len(queue) + 1
    <3>1. Len(queue) \in Nat /\ Len(conf.files) \in Nat /\ idx \in Nat \ {0} /\ feeder \in Nat
      BY Zenon, IdsAreNumbers DEF UpdateInv, UpdateTypes
    <3> QED
      BY <3>1 DEF Bounds
  <2>2. worker \in [Workers -> [at : {"idle", "get", "rename", "gone"}, task : Ids \cup {0}, tries : Nat]]
    <3>1. /\ worker \in [Workers -> [at : {"idle", "get", "rename", "gone"}, task : Nat, tries : Nat]]
          /\ \A w \in Workers : worker[w].task \in Ids \cup {0}
      BY Zenon DEF UpdateInv, UpdateTypes, Bounds
    <3> QED
      BY <3>1
  <2> QED
    BY Zenon, <2>1, <2>2 DEF TypeOK, PoolInv, UpdateInv, UpdateTypes, Bounds
<1> QED
  BY <1>1, <1>2, <1>3, PoolInit, UpdateInit, PTL DEF MirrorSpec, MirrorInit
=============================================================================
