----------------------------- MODULE PoolStore -----------------------------
(***************************************************************************)
(* What the package pool promises those who use it (the interface          *)
(* PackagePool of aptly/interfaces.go): a set of files, each known by its  *)
(* checksums.  Only a removal takes a file out, an import adds at most the *)
(* file it is about, and the pool's answers are right when they are given. *)
(* The exception are checksums under which somebody put a file that does   *)
(* not have them.                                                          *)
(***************************************************************************)
CONSTANT Contents

VARIABLES held,     \* the files in the pool, by the checksums they are known by
          putting,  \* the file being put in, as a set
          dubious,  \* the checksums under which a wrong file was put
          reply     \* the last answer

storevars == <<held, putting, dubious, reply>>

NoAnswer == [ok |-> FALSE]
Absent(k) == [ok |-> FALSE, ask |-> k]
Found(k, got) == [ok |-> TRUE, ask |-> k, got |-> got]

Init == held \in SUBSET Contents /\ putting = {} /\ dubious = {} /\ reply = NoAnswer

\* A file that is not held is put in: at once, or later.
Begin(k) ==
  /\ putting = {} /\ putting' = {k}
  /\ k \notin held /\ (held' = held \/ held' = held \cup {k})
  /\ (dubious' = dubious \/ dubious' = dubious \cup {k})
  /\ UNCHANGED reply

Complete(k) == k \in putting /\ held' = held \cup {k} /\ UNCHANGED <<putting, dubious, reply>>

\* It is in, or was found in the pool.
AnswerFound(k, got) ==
  /\ k \in held /\ (got = k \/ k \in dubious)
  /\ putting \subseteq {k} /\ putting' = {}
  /\ reply' = Found(k, got) /\ UNCHANGED <<held, dubious>>

AnswerAbsent(k) ==
  /\ putting = {} /\ (k \notin held \/ k \in dubious)
  /\ reply' = Absent(k) /\ UNCHANGED <<held, putting, dubious>>

\* An error, or the end of the process.
GiveUp ==
  /\ putting' = {} /\ (reply' = NoAnswer \/ UNCHANGED reply)
  /\ UNCHANGED <<held, dubious>>

Delete(k) == putting = {} /\ held' = held \ {k} /\ UNCHANGED <<putting, dubious, reply>>

Next ==
  \/ \E k \in Contents : Begin(k) \/ Complete(k) \/ AnswerAbsent(k) \/ Delete(k)
  \/ \E k, got \in Contents : AnswerFound(k, got)
  \/ GiveUp

Spec == Init /\ [][Next]_storevars
=============================================================================
