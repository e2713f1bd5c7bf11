----------------------------- MODULE IndexFiles -----------------------------
(***************************************************************************)
(* The index files of one published distribution on its storage            *)
(* (deb/index_files.go): how Finalize puts a file in place, how the        *)
(* by-hash directories of Acquire-By-Hash follow it, how RenameFiles makes *)
(* a re-publication visible.                                               *)
(*                                                                         *)
(* A file's content is a set: of packages for an index, of <<index,        *)
(* content>> pairs for Release and its signatures.  A name stands for the  *)
(* file and its compressed forms.  A site is the directory                 *)
(* dists/<distribution>:                                                   *)
(*   vis    the files clients see                                          *)
(*   sum    by-hash/<checksum>, keyed by <<directory, content>>; the value *)
(*          is what the file holds                                         *)
(*   link   by-hash/<index>, the symbolic link to the latest checksum      *)
(*   old    by-hash/<index>.old, the one before                            *)
(*   alias  <<side, name, key>>: by-hash file key is a hard link of the    *)
(*          visible file of that name ("vis"), or of the one with the      *)
(*          suffix ".tmp" ("tmp"), and changes when that is rewritten      *)
(* What the files with the suffix hold is part of the operation that puts  *)
(* them: it puts every file anew before it renames it.                     *)
(***************************************************************************)
EXTENDS Naturals

CONSTANTS Comps, Archs, Pkgs,
          Arch,       \* the architectures a package matches: one, or all of them
          Torn        \* the mark of a file that was not written to its end

Kinds == {"Packages", "Contents"}

Index == {<<k, c, a>> : k \in Kinds, c \in Comps, a \in Archs}

\* The mark is no package, and no entry of a Release.
ASSUME TornAssumption == Torn \notin Pkgs /\ Torn \notin Index \X SUBSET Pkgs

Release == <<"Release">>

\* Release.gpg and InRelease, which are made, put and renamed together
Signatures == <<"InRelease">>

Partial == {Torn}

\* the directory of an index file; by-hash is below it
Dir(i) == IF i[1] = "Packages" THEN <<i[2], i[3]>> ELSE <<i[2]>>

Bind(f, x, v) == [y \in DOMAIN f \cup {x} |-> IF y = x THEN v ELSE f[y]]

Unbind(f, S) == [y \in DOMAIN f \ S |-> f[y]]

EmptySite ==
  [vis |-> <<>>, sum |-> <<>>, link |-> <<>>, old |-> <<>>, alias |-> {}]

----------------------------------------------------------------------------

\* what Publish writes to an index: the packages of the component that match
\* its architecture
Listed(i, refs) == {p \in refs[i[2]] : i[3] \in Arch[p]}

\* The indexes of a publication.  A package index is there even if it is
\* empty, an index of contents is discardable, and not made with SkipContents.
Generated(refs, contents) ==
  {i \in Index : /\ i[2] \in DOMAIN refs
                 /\ i[1] = "Packages" \/ (contents /\ Listed(i, refs) # {})}

\* PublishedStorage.PutFile truncates a file that exists, and with it the
\* by-hash files that are links to it.
PutFile(s, side, x, w) ==
  [s EXCEPT !.vis = IF side = "vis" THEN Bind(@, x, w) ELSE @,
            !.sum = [k \in DOMAIN @ |-> IF <<side, x, k>> \in s.alias THEN w ELSE @[k]]]

(* The steps of packageIndexByHash on a storage of files.  It does nothing *)
(* when the checksum is there already.                                     *)

HashSteps == {"link", "target", "old", "rename", "symlink"}

Hashed(s, i, w) == <<Dir(i), w>> \in DOMAIN s.sum

\* the checksum becomes a hard link of the file that was put
HardLink(s, side, i, w) ==
  [s EXCEPT !.sum = Bind(@, <<Dir(i), w>>, w), !.alias = @ \cup {<<side, i, <<Dir(i), w>>>>}]

\* if there are links to the latest two checksums, the older one is forgotten,
\* and the link to the latest becomes the .old one
AfterHardLink(s, i) ==
  IF i \notin DOMAIN s.link THEN "symlink" ELSE IF i \in DOMAIN s.old THEN "target" ELSE "rename"

RemoveSum(s, key) ==
  [s EXCEPT !.sum = Unbind(@, {key}), !.alias = {a \in @ : a[3] # key}]

\* mutant: the latest checksum is removed instead of the one before it
RemoveTarget_Latest(s, i) == RemoveSum(s, <<Dir(i), s.link[i]>>)

RemoveTarget(s, i) == RemoveSum(s, <<Dir(i), s.old[i]>>)

RemoveOld(s, i) == [s EXCEPT !.old = Unbind(@, {i})]

\* takes the place of an .old link that could not be removed
RenameLink(s, i) == [s EXCEPT !.old = Bind(@, i, s.link[i]), !.link = Unbind(@, {i})]

SymLink(s, i, w) == [s EXCEPT !.link = Bind(@, i, w)]

\* what Publish writes to Release: the checksum of every generated file
ReleaseOf(refs, contents) == {<<i, Listed(i, refs)>> : i \in Generated(refs, contents)}

\* one step of RenameFiles: the file with the suffix, which holds w, takes the
\* place of the visible one
RenameFile(s, x, w) ==
  [s EXCEPT !.vis = Bind(@, x, w),
            !.alias = {a \in @ : a[2] # x}
                      \cup {<<"vis", x, a[3]>> : a \in {b \in @ : b[1] = "tmp" /\ b[2] = x}}]
=============================================================================
