--------------------------- MODULE MirrorDownload ---------------------------
(***************************************************************************)
(* The downloads of `mirror update` (cmd/mirror_update.go and              *)
(* http/download.go), composed with the package pool.  An update looks     *)
(* which files the pool lacks, closes the database, has a feeder goroutine *)
(* hand the tasks to workers over an unbuffered channel, waits for the     *)
(* workers, opens the database again and imports what was downloaded.      *)
(* Other processes use the pool while it downloads: they import and clean  *)
(* up.  ^C cancels the downloads, a second one kills the process.          *)
(***************************************************************************)
EXTENDS PackagePool, Sequences

CONSTANTS Workers,  \* DownloadConcurrency goroutines
          NoFile,   \* there is no temporary file
          Updates   \* the settings looked at

ASSUME UpdatesAssumption ==
  \A u \in Updates :
    /\ u.files \in Seq([url : Nat, claim : Contents, full : BOOLEAN])
    /\ u.served \subseteq Contents /\ u.tries \in Nat
    /\ u.imports \subseteq [src : Contents, claim : Contents \cup {Unknown}]

\* With no worker at all, an update would succeed without its files.
ASSUME WorkersAssumption == Workers # {}

VARIABLES
  conf,       \* the files offered and the settings, a member of Updates
  phase,      \* where the update is
  runs,       \* the updates that may still be started
  others,     \* the operations that other processes may still begin
  idx,        \* the index of the loop that runs
  queue,      \* the tasks: indexes of conf.files
  place,      \* PoolPath of each file
  chk,        \* Checksums of each file: [of, full]
  last,       \* the same as the packages of the mirror have it: [at, of]
  feeder,     \* position of the feeder in queue, 0 when it is not there
  closed,     \* the channel is closed
  worker,     \* what each worker does: [at, task, tries]
  temp,       \* what the temporary file of a task holds
  done,       \* the tasks with Done set
  errors,     \* the errors pushed: their kind and the tries that were left
  cancelled,  \* context.Done() is closed
  lost        \* history: what cleanup removed during downloads, until it is found again

fixed == <<conf, runs, others>>
lists == <<queue, place, chk, last>>
downs == <<feeder, closed, worker, temp, done, errors>>
ends == <<cancelled, lost>>
updatevars == <<fixed, phase, idx, lists, downs, ends>>
vars == <<poolvars, updatevars>>

Ids == DOMAIN conf.files
Ended == {"idle", "ok", "failed"}
Idle == [at |-> "idle", task |-> 0, tries |-> 0]

\* the checksums each file comes with in the indexes of the mirror
Offered == [j \in Ids |-> [of |-> conf.files[j].claim, full |-> conf.files[j].full]]

MirrorInit ==
  /\ Init /\ conf \in Updates
  /\ phase = "idle" /\ runs = conf.runs /\ others = conf.others /\ idx = 1
  /\ queue = <<>> /\ place = [j \in Ids |-> NoPath] /\ chk = Offered
  /\ last = [j \in Ids |-> [at |-> NoPath, of |-> Unknown]]
  /\ feeder = 0 /\ closed = FALSE /\ worker = [w \in Workers |-> Idle]
  /\ temp = [j \in Ids |-> NoFile] /\ done = {} /\ errors = {}
  /\ cancelled = FALSE /\ lost = {}

----------------------------------------------------------------------------
\* BuildDownloadQueue, with the database open

Start ==
  /\ phase \in Ended /\ runs > 0 /\ imp = {}
  /\ runs' = runs - 1 /\ phase' = "queue" /\ idx' = 1
  /\ queue' = <<>> /\ place' = [j \in Ids |-> NoPath] /\ chk' = Offered
  /\ feeder' = 0 /\ closed' = FALSE /\ worker' = [w \in Workers |-> Idle]
  /\ temp' = [j \in Ids |-> NoFile] /\ done' = {} /\ errors' = {}
  /\ cancelled' = FALSE
  /\ UNCHANGED <<poolvars, conf, others, last, lost>>

\* the task already queued for the same URL: file j is attached to it
TaskOf(j) == {i \in Ids : conf.files[i].url = conf.files[j].url /\ \E n \in DOMAIN queue : queue[n] = i}

\* -skip-existing-packages: the file is taken from the package in the database
SkipFile(j) ==
  /\ place' = [place EXCEPT ![j] = last[j].at]
  /\ UNCHANGED <<poolvars, queue, chk, lost>>

VerifyFile(j) ==
  /\ Verify(chk[j].of, chk[j].full)
  /\ IF path' # NoPath
     THEN /\ place' = [place EXCEPT ![j] = path']
          /\ chk' = [chk EXCEPT ![j] = [of |-> reply'.got, full |-> TRUE]]
          /\ lost' = lost \ {path'}
          /\ UNCHANGED queue
     ELSE /\ queue' = IF TaskOf(j) = {} THEN Append(queue, j) ELSE queue
          /\ UNCHANGED <<place, chk, lost>>

QueueFile ==
  /\ phase = "queue" /\ idx \in Ids
  /\ IF conf.skip /\ last[idx].of = chk[idx].of THEN SkipFile(idx) ELSE VerifyFile(idx)
  /\ idx' = idx + 1
  /\ UNCHANGED <<fixed, phase, last, downs, cancelled>>

CloseDatabase ==
  /\ phase = "queue" /\ idx \notin Ids
  /\ phase' = "down" /\ feeder' = 1
  /\ UNCHANGED <<poolvars, fixed, idx, lists, closed, worker, temp, done, errors, ends>>

----------------------------------------------------------------------------
\* The feeder, the workers and the downloader

Feed(w) ==
  /\ phase = "down" /\ feeder \in DOMAIN queue /\ worker[w] = Idle
  /\ worker' = [worker EXCEPT ![w] = [at |-> "get", task |-> queue[feeder], tries |-> conf.tries]]
  /\ feeder' = feeder + 1
  /\ UNCHANGED <<poolvars, fixed, phase, idx, lists, closed, temp, done, errors, ends>>

FeederEnds ==
  /\ phase = "down"
  /\ \/ feeder = Len(queue) + 1 /\ closed' = TRUE
     \/ feeder \in DOMAIN queue /\ cancelled /\ UNCHANGED closed
  /\ feeder' = 0
  /\ UNCHANGED <<poolvars, fixed, phase, idx, lists, worker, temp, done, errors, ends>>

\* mutant: workers do not watch the context
WorkerEnds_ClosedOnly(w) ==
  /\ phase = "down" /\ worker[w] = Idle /\ closed
  /\ worker' = [worker EXCEPT ![w].at = "gone"]
  /\ UNCHANGED <<poolvars, fixed, phase, idx, lists, feeder, closed, temp, done, errors, ends>>

WorkerEnds(w) ==
  /\ phase = "down" /\ worker[w] = Idle /\ (closed \/ cancelled)
  /\ worker' = [worker EXCEPT ![w].at = "gone"]
  /\ UNCHANGED <<poolvars, fixed, phase, idx, lists, feeder, closed, temp, done, errors, ends>>

\* download returns errors of the network and of the filesystem wrapped, those
\* of HTTP and of checksums as they are.
Errors == {[kind |-> "network", wrapped |-> TRUE], [kind |-> "status", wrapped |-> FALSE]}
Mismatch == [kind |-> "mismatch", wrapped |-> FALSE]

\* The type switch looks at the outermost error.
RetryableError(e) == e.kind = "network" /\ ~e.wrapped

\* mutant: the error is not kept
PushError_Lost(w, kind, left) == worker' = [worker EXCEPT ![w] = Idle] /\ UNCHANGED errors

\* pushError, and on to the next task
PushError(w, kind, left) ==
  /\ worker' = [worker EXCEPT ![w] = Idle]
  /\ errors' = errors \cup {[kind |-> kind, left |-> left]}

\* the loop of DownloadWithChecksum after a try that failed
TryFailed(w, e) ==
  IF RetryableError(e)
  THEN worker' = [worker EXCEPT ![w].tries = @ - 1] /\ UNCHANGED errors
  ELSE PushError(w, e.kind, worker[w].tries - 1)

\* mutant: a response that breaks off is taken for the file
Receive_Truncated(w, c) ==
  LET j == worker[w].task
  IN /\ phase = "down" /\ worker[w].at = "get" /\ worker[w].tries > 0
     /\ c \in conf.served \cup {chk[j].of}
     /\ worker' = [worker EXCEPT ![w].at = "rename"]
     /\ temp' = [temp EXCEPT ![j] = Partial]
     /\ UNCHANGED <<poolvars, fixed, phase, idx, lists, feeder, closed, done, errors, ends>>

\* A response with content c; matching checksums are completed.
Receive(w, c) ==
  LET j == worker[w].task
  IN /\ phase = "down" /\ worker[w].at = "get" /\ worker[w].tries > 0
     /\ c \in conf.served \cup {chk[j].of}
     /\ IF c = chk[j].of \/ conf.ignore
        THEN /\ worker' = [worker EXCEPT ![w].at = "rename"]
             /\ temp' = [temp EXCEPT ![j] = c]
             /\ chk' = IF c = chk[j].of THEN [chk EXCEPT ![j].full = TRUE] ELSE chk
             /\ UNCHANGED errors
        ELSE TryFailed(w, Mismatch) /\ UNCHANGED <<temp, chk>>
     /\ UNCHANGED <<poolvars, fixed, phase, idx, queue, place, last, feeder, closed, done, ends>>

Broken(w) ==
  /\ phase = "down" /\ worker[w].at = "get" /\ worker[w].tries > 0
  /\ \E e \in Errors : TryFailed(w, e)
  /\ UNCHANGED <<poolvars, fixed, phase, idx, lists, feeder, closed, temp, done, ends>>

\* No try is left, or there was none: then the rename of "" fails.
TriesSpent(w) ==
  /\ phase = "down" /\ worker[w].at = "get" /\ worker[w].tries = 0
  /\ PushError(w, "tries", 0)
  /\ UNCHANGED <<poolvars, fixed, phase, idx, lists, feeder, closed, temp, done, ends>>

Renamed(w) ==
  LET j == worker[w].task
  IN /\ phase = "down" /\ worker[w].at = "rename"
     /\ IF temp[j] = NoFile THEN PushError(w, "rename", 0) /\ UNCHANGED done
        ELSE /\ worker' = [worker EXCEPT ![w] = Idle]
             /\ done' = done \cup {j} /\ UNCHANGED errors
     /\ UNCHANGED <<poolvars, fixed, phase, idx, lists, feeder, closed, temp, ends>>

Cancel ==
  /\ phase \in {"down", "import"} /\ ~cancelled /\ cancelled' = TRUE
  /\ UNCHANGED <<poolvars, fixed, phase, idx, lists, downs, lost>>

----------------------------------------------------------------------------
\* Imports, with the database open again

ReOpenDatabase ==
  /\ phase = "down" /\ \A w \in Workers : worker[w].at = "gone"
  /\ \/ imp = {} /\ phase' = "import" /\ idx' = 1
     \/ phase' = "failed" /\ UNCHANGED idx
  /\ UNCHANGED <<poolvars, fixed, lists, downs, ends>>

SkipTask ==
  /\ phase = "import" /\ idx \in DOMAIN queue /\ queue[idx] \notin done
  /\ idx' = idx + 1
  /\ UNCHANGED <<poolvars, fixed, phase, lists, downs, ends>>

Claim(j) == IF chk[j].full THEN chk[j].of ELSE Unknown

\* What follows the end of pool.Import: the place and the checksums of the file
\* and of those attached to its task, or the end of the update.
AfterImport(j) ==
  LET same == {i \in Ids : i = j \/ (place[i] = NoPath /\ conf.files[i].url = conf.files[j].url)}
  IN IF imp' # {} THEN UNCHANGED <<phase, idx, place, chk, lost>>
     ELSE IF path' = NoPath THEN phase' = "failed" /\ UNCHANGED <<idx, place, chk, lost>>
     ELSE /\ place' = [i \in Ids |-> IF i \in same THEN path' ELSE place[i]]
          /\ chk' = [i \in Ids |-> IF i \in same THEN [of |-> reply'.got, full |-> TRUE] ELSE chk[i]]
          /\ lost' = lost \ {path'}
          /\ idx' = idx + 1 /\ UNCHANGED phase

ImportTask ==
  LET j == queue[idx]
  IN /\ phase = "import" /\ idx \in DOMAIN queue /\ j \in done
     /\ \/ imp = {} /\ temp[j] # NoFile
           /\ \/ ImportFound(temp[j], Claim(j)) \/ ImportRefused(temp[j], Claim(j))
              \/ \E copy \in BOOLEAN : ImportNew(temp[j], Claim(j), TRUE, copy)
        \/ \E i \in imp : ImportCopied(i) \/ ImportMoved(i) \/ \E b \in BOOLEAN : ImportSums(i, b)
        \/ ImportFails
     /\ AfterImport(j)
     /\ UNCHANGED <<fixed, queue, last, downs, cancelled>>

\* FinalizeDownload, or an error is returned
Finish ==
  /\ phase = "import" /\ idx \notin DOMAIN queue
  /\ IF cancelled \/ errors # {} THEN phase' = "failed" /\ UNCHANGED last
     ELSE phase' = "ok" /\ last' = [j \in Ids |-> [at |-> place[j], of |-> chk[j].of]]
  /\ UNCHANGED <<poolvars, fixed, idx, queue, place, chk, downs, ends>>

Die ==
  /\ phase \notin Ended /\ phase' = "idle"
  /\ IF phase = "import" /\ imp # {} THEN ImportDies ELSE UNCHANGED poolvars
  /\ UNCHANGED <<fixed, idx, lists, downs, ends>>

----------------------------------------------------------------------------
\* Other processes, while the update does not have the database open

OtherBegins ==
  /\ phase \in Ended \cup {"down"} /\ others > 0 /\ imp = {}
  /\ others' = others - 1
  /\ \E m \in conf.imports : Import(m.src, m.claim) \/ Verify(m.src, TRUE)
  /\ UNCHANGED <<conf, runs, phase, idx, lists, downs, ends>>

OtherImports ==
  /\ phase \in Ended \cup {"down"} /\ imp # {} /\ ImportStep
  /\ UNCHANGED updatevars

\* db cleanup spares what packages refer to; temporary files it does not know
OtherCleans ==
  /\ phase \in Ended \cup {"down"} /\ others > 0 /\ imp = {}
  /\ others' = others - 1
  /\ \/ /\ \E x \in Places :
             /\ \A j \in Ids : last[j].at # x
             /\ Remove(x) /\ lost' = IF phase = "down" THEN lost \cup {x} ELSE lost
        /\ UNCHANGED temp
     \/ /\ \E j \in Ids : temp[j] # NoFile /\ temp' = [temp EXCEPT ![j] = NoFile]
        /\ UNCHANGED <<poolvars, lost>>
  /\ UNCHANGED <<conf, runs, phase, idx, lists, feeder, closed, worker, done, errors, cancelled>>

Main == QueueFile \/ CloseDatabase \/ ReOpenDatabase \/ SkipTask \/ ImportTask \/ Finish
Network(w) == Broken(w) \/ \E c \in Contents : Receive(w, c)
Worker(w) == Feed(w) \/ WorkerEnds(w) \/ TriesSpent(w) \/ Renamed(w)

MirrorNext ==
  \/ Start \/ Main \/ FeederEnds \/ Cancel \/ Die
  \/ \E w \in Workers : Worker(w) \/ Network(w)
  \/ OtherBegins \/ OtherImports \/ OtherCleans

\* Goroutines run.  A server answers, unless it stalls: then only cancelling
\* the request ends it.
Fairness ==
  /\ WF_vars(Main) /\ WF_vars(FeederEnds)
  /\ \A w \in Workers :
       WF_vars(Worker(w)) /\ WF_vars((~conf.stalls \/ cancelled) /\ Network(w))

MirrorSpec == MirrorInit /\ [][MirrorNext]_vars /\ Fairness

----------------------------------------------------------------------------

\* Types, and when the channel and the workers are in use.
TypeOK ==
  /\ PoolTypeOK /\ conf \in Updates
  /\ phase \in Ended \cup {"queue", "down", "import"}
  /\ idx \in 1 .. Len(conf.files) + 1 /\ queue \in Seq(Ids) /\ done \subseteq Ids
  /\ place \in [Ids -> Places \cup {NoPath}]
  /\ chk \in [Ids -> [of : Contents, full : BOOLEAN]]
  /\ feeder \in 0 .. Len(queue) + 1
  /\ temp \in [Ids -> Contents \cup {NoFile}]
  /\ worker \in [Workers -> [at : {"idle", "get", "rename", "gone"}, task : Ids \cup {0}, tries : Nat]]

\* The place holds what the checksums say, unless a wrong file was imported
\* under the checksums of the place.
Holds(x, c) == file[x] = c \/ \E k \in tainted : x = Modern(k)

\* An update succeeds only if every file of the mirror's packages, those with a
\* task of their own, those attached to another's and those found in the pool,
\* is where its package says and has the package's checksums.  What cleanup
\* removed during the downloads is the exception (cmd/mirror_update.go, from
\* BuildDownloadQueue to FinalizeDownload).
Delivered ==
  phase = "ok" => \A j \in Ids :
    place[j] \in lost \/ (place[j] \in DOMAIN file /\ Holds(place[j], chk[j].of))

\* Every update ends: the feeder, the workers and wg.Wait do not wait for each
\* other for ever, whoever stops first, and ^C gets it out of a stalled
\* download (cmd/mirror_update.go:135-192).
Terminates == (phase \notin Ended /\ (~conf.stalls \/ cancelled)) ~> (phase \in Ended)
=============================================================================
