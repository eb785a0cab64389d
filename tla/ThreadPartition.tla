--------------------------- MODULE ThreadPartition ---------------------------
(***************************************************************************)
(* What threading promises, without thread ids, ghosts, metadata or       *)
(* transactions.  The index holds a set of documents (messages added and  *)
(* messages referenced) and a partition of them into threads.  Adding a   *)
(* message file puts the message and every message it names in one       *)
(* thread: the threads it touches are merged, and ids not seen before     *)
(* join them.  Threads are never split and documents never leave.         *)
(***************************************************************************)
EXTENDS FiniteSets, SequencesExt

CONSTANTS
    MsgIds,     \* message-ids
    Files       \* message files: [id, refs, irt, mail]

VARIABLES
    docs,       \* message-ids that have a document
    part        \* the threads: a partition of docs

\* The ids a file names besides its own: References and In-Reply-To.
Named(f) == (ToSet(f.refs) \cup ToSet(f.irt)) \ {f.id}

Init == docs = {} /\ part = {}

\* Adding a mail file: its id and the ids it names end in one thread.
Add(f) ==
    LET new     == {f.id} \cup Named(f)
        touched == {T \in part : T \cap new # {}}
    IN  /\ f.mail
        /\ docs' = docs \cup new
        /\ part' = (part \ touched) \cup {new \cup UNION touched}

Next == \E f \in Files : Add(f)

Spec == Init /\ [][Next]_<<docs, part>>

\* The threads partition the documents: disjoint, non-empty, covering.
IsPartition ==
    /\ UNION part = docs
    /\ {} \notin part
    /\ \A S, T \in part : S = T \/ S \cap T = {}
=============================================================================
