----------------------------- MODULE AddMessage -----------------------------
(***************************************************************************)
(* notmuch_database_add_message and the thread linking it performs         *)
(* (src/lib/add-message.cc).  One writer adds message files to the index   *)
(* inside an atomic transaction: it finds or creates the document for the  *)
(* file's message-id, resolves the thread of every parent named in         *)
(* References/In-Reply-To (creating ghosts, or legacy metadata entries,    *)
(* for parents not yet seen), merges distinct threads, links already       *)
(* indexed children (legacy format only), assigns a fresh thread to an     *)
(* orphan, and commits.                                                    *)
(*                                                                         *)
(* The index is kept twice: db/meta/lastThreadId is the writer's view of   *)
(* the open transaction, cdb/cmeta/clast the committed state readers see.  *)
(* The add is split at the points where the code calls into the index, so  *)
(* that an index error, a failed commit or a crash can happen between any  *)
(* two of them.  Message-ids and files are model values; the header       *)
(* values of a file are already parsed into message-id sequences (the      *)
(* parser is module MessageIdParser).                                      *)
(***************************************************************************)
EXTENDS Naturals, Sequences, SequencesExt, FiniteSets

FaultKinds == {"index", "merge", "commit", "crash"}

CONSTANTS
    MsgIds,      \* message-ids
    Files,       \* message files: [id, refs, irt, mail]
    Ghosts,      \* TRUE iff the database has NOTMUCH_FEATURE_GHOSTS
    Faults,      \* the faults that occur: a subset of FaultKinds
    MaxThread,   \* bound on the last_thread_id counter
    MaxFaults    \* bound on the number of faults in a behaviour

ASSUME Files \subseteq [id: MsgIds, refs: Seq(MsgIds), irt: Seq(MsgIds),
                        mail: BOOLEAN]
ASSUME Faults \subseteq FaultKinds

VARIABLES
    db,            \* documents as the writer sees them: MsgIds -> Doc
    meta,          \* legacy thread_id_<mid> metadata, writer's view
    lastThreadId,  \* notmuch->last_thread_id (in memory, = staged metadata)
    cdb,           \* committed documents
    cmeta,         \* committed thread_id_<mid> metadata
    clast,         \* committed "last_thread_id" metadata
    pc,            \* where the writer is in notmuch_database_add_message
    file,          \* the file being (or last) added
    msg,           \* the in-memory notmuch_message_t of the file
    isGhost,       \* is_ghost
    tid,           \* the linker's thread_id (NoThread for NULL)
    todo,          \* parents still to resolve, in hash-table key order
    kids,          \* children still to link (legacy)
    ret,           \* status returned by the last add
    excReported,   \* notmuch->exception_reported
    faults         \* faults so far

vars == <<db, meta, lastThreadId, cdb, cmeta, clast, pc, file, msg, isGhost,
          tid, todo, kids, ret, excReported, faults>>

NoThread == 0
ThreadIds == 1..MaxThread

\* A document of the index; type "none" stands for no document.
\* A document carries at most one replyto term.
Doc == [type: {"none", "ghost", "mail"}, thread: SUBSET ThreadIds,
        refs: SUBSET MsgIds, replyto: {{}} \cup {{m} : m \in MsgIds},
        files: SUBSET Files]
Absent == [type |-> "none", thread |-> {}, refs |-> {}, replyto |-> {},
           files |-> {}]

Status == {"NONE", "SUCCESS", "DUPLICATE_MESSAGE_ID", "FILE_NOT_EMAIL",
           "FILE_ERROR", "XAPIAN_EXCEPTION"}

-----------------------------------------------------------------------------
(* Helpers                                                                 *)

\* notmuch_message_get_thread_id: the (first, in term order) thread term.
ThreadOf(d) == Min(d.thread)

\* parse_references: the parsed ids of one header, without the message's
\* own id; its result is the last of them.
ParseReferences(self, ids) == SelectSeq(ids, LAMBDA x : x # self)

\* _notmuch_database_generate_thread_id: increments notmuch->last_thread_id,
\* writes it to the "last_thread_id" metadata and returns it.
\* Mutant: the new value of the counter is not kept.
GenerateThreadIdNoSave(l) == [id |-> l + 1, last |-> l]
GenerateThreadId(l) == [id |-> l + 1, last |-> l + 1]

\* The replyto term: the last id of References, else the last of In-Reply-To.
\* Mutant: both headers give a replyto term.
ReplyToBoth(refs, irt) ==
    (IF refs # <<>> THEN {Last(refs)} ELSE {})
        \cup (IF irt # <<>> THEN {Last(irt)} ELSE {})
ReplyTo(refs, irt) ==
    IF refs # <<>> THEN {Last(refs)}
    ELSE IF irt # <<>> THEN {Last(irt)} ELSE {}

\* The reference terms: one for every key of the parents hash table.
\* Mutant: only the designated parent gets a reference term.
ReferenceTermsReplyOnly(refs, irt) == ReplyTo(refs, irt)
ReferenceTerms(refs, irt) == ToSet(refs) \cup ToSet(irt)

\* _consume_metadata_thread_id: read and clear thread_id_<mid>.
\* Mutant: the entry is read but not cleared.
ConsumeMetadataKeep(m, id) == m
ConsumeMetadata(m, id) == [m EXCEPT ![id] = NoThread]

\* _merge_threads: every document carrying thread term 'loser' in the set
\* 'some' gets 'winner' instead.  The full merge takes all of them.
\* Mutant: the loser thread term is not removed.
MergeSomeNoRemove(d, winner, loser, some) ==
    [m \in MsgIds |-> IF m \in some /\ loser \in d[m].thread
                      THEN [d[m] EXCEPT !.thread = @ \cup {winner}]
                      ELSE d[m]]
MergeSome(d, winner, loser, some) ==
    [m \in MsgIds |-> IF m \in some /\ loser \in d[m].thread
                      THEN [d[m] EXCEPT !.thread = (@ \ {loser}) \cup {winner}]
                      ELSE d[m]]
MergeThreads(d, winner, loser) == MergeSome(d, winner, loser, MsgIds)

\* Documents a merge would rewrite.
Losers(d, loser) == {m \in MsgIds : loser \in d[m].thread}

\* _resolve_message_id_to_thread_id (ghost format): an existing document
\* (mail or ghost) gives its thread; otherwise a ghost is created with a
\* freshly generated thread id.
ResolveGhost(p) ==
    IF db[p].type # "none"
    THEN [t |-> ThreadOf(db[p]), db |-> db, meta |-> meta, last |-> lastThreadId]
    ELSE LET n == GenerateThreadId(lastThreadId)
         IN  [t |-> n.id, last |-> n.last, meta |-> meta,
              db |-> [db EXCEPT ![p] = [Absent EXCEPT !.type = "ghost",
                                                      !.thread = {n.id}]]]

\* _resolve_message_id_to_thread_id_old: a real message gives its thread;
\* otherwise the metadata entry for p, or a fresh id stored there.
ResolveOld(p) ==
    IF db[p].type = "mail"
    THEN [t |-> ThreadOf(db[p]), db |-> db, meta |-> meta, last |-> lastThreadId]
    ELSE IF meta[p] # NoThread
    THEN [t |-> meta[p], db |-> db, meta |-> meta, last |-> lastThreadId]
    ELSE LET n == GenerateThreadId(lastThreadId)
         IN  [t |-> n.id, last |-> n.last, db |-> db,
              meta |-> [meta EXCEPT ![p] = n.id]]

Resolve(p) == IF Ghosts THEN ResolveGhost(p) ELSE ResolveOld(p)

\* Locals of an add that is not running.
ResetLocals ==
    /\ msg' = Absent /\ isGhost' = FALSE /\ tid' = NoThread
    /\ todo' = <<>> /\ kids' = {}

\* notmuch_database_end_atomic at DONE: the outermost end commits the
\* transaction.  If the commit fails the transaction is lost, and the
\* failure replaces a SUCCESS or DUPLICATE_MESSAGE_ID result.
\* Mutant: a failing end_atomic does not override the result.
EndAtomicNoOverride(d, m, l, r, exc, fc) ==
    /\ pc' = "idle"
    /\ ResetLocals
    /\ \/ /\ cdb' = d /\ cmeta' = m /\ clast' = l
          /\ db' = d /\ meta' = m /\ lastThreadId' = l
          /\ ret' = r /\ excReported' = exc /\ faults' = fc
       \/ /\ "commit" \in Faults /\ fc < MaxFaults /\ faults' = fc + 1
          /\ UNCHANGED <<cdb, cmeta, clast>>
          /\ db' = cdb /\ meta' = cmeta /\ lastThreadId' = l
          /\ ret' = r
          /\ excReported' = TRUE
EndAtomic(d, m, l, r, exc, fc) ==
    /\ pc' = "idle"
    /\ ResetLocals
    /\ \/ /\ cdb' = d /\ cmeta' = m /\ clast' = l
          /\ db' = d /\ meta' = m /\ lastThreadId' = l
          /\ ret' = r /\ excReported' = exc /\ faults' = fc
       \/ /\ "commit" \in Faults /\ fc < MaxFaults /\ faults' = fc + 1
          /\ UNCHANGED <<cdb, cmeta, clast>>
          /\ db' = cdb /\ meta' = cmeta /\ lastThreadId' = l
          /\ ret' = IF r \in {"SUCCESS", "DUPLICATE_MESSAGE_ID"}
                    THEN "XAPIAN_EXCEPTION" ELSE r
          /\ excReported' = TRUE

\* The not-an-email check of notmuch_database_add_message: a file with no
\* non-empty From, Subject or To header (mail = FALSE) is not an email.
\* Mutant: the check is dropped and every file is indexed.
IsEmailAlways(f) == TRUE
IsEmail(f) == f.mail

-----------------------------------------------------------------------------
Init ==
    /\ db = [m \in MsgIds |-> Absent] /\ cdb = db
    /\ meta = [m \in MsgIds |-> NoThread] /\ cmeta = meta
    /\ lastThreadId = 0 /\ clast = 0
    /\ pc = "idle" /\ file = (CHOOSE f \in Files : TRUE) /\ ret = "NONE"
    /\ msg = Absent /\ isGhost = FALSE /\ tid = NoThread
    /\ todo = <<>> /\ kids = {}
    /\ excReported = FALSE /\ faults = 0

\* link_message_to_parents: the ids of the References and of the In-Reply-To
\* header, each parsed by parse_references into the parents hash table.
HeaderParents(f) ==
    [refs |-> ParseReferences(f.id, f.refs), irt |-> ParseReferences(f.id, f.irt)]

\* _notmuch_database_link_message's first thread_id: with ghosts, the thread
\* of the ghost being promoted; without, the thread_id_<mid> entry that
\* _consume_metadata_thread_id reads (NoThread when there is none).
InitialThread(d, id) ==
    IF Ghosts THEN IF d.type = "ghost" THEN ThreadOf(d) ELSE NoThread
    ELSE meta[id]

\* _notmuch_database_link_message calls link_message_to_children only when
\* the database lacks NOTMUCH_FEATURE_GHOSTS.
LinksChildren == ~Ghosts

\* The ways the last calls of an add can fail: _notmuch_message_index_file
\* returns an error status (exception_reported untouched), or
\* _notmuch_message_sync throws and the catch sets exception_reported and
\* XAPIAN_EXCEPTION.  Either way the message document is never written.
IndexFailures(exc) ==
    {[ret |-> "FILE_ERROR", exc |-> exc], [ret |-> "XAPIAN_EXCEPTION", exc |-> TRUE]}

(***************************************************************************)
(* notmuch_database_add_message up to the parent loop: begin_atomic, the   *)
(* not-an-email check, find-or-create by message-id, the duplicate exit   *)
(* (whose _notmuch_message_sync may throw: XAPIAN_EXCEPTION, nothing kept), *)
(* promotion of a ghost, _notmuch_database_link_message's initial thread   *)
(* (the ghost's, or the consumed legacy metadata) and the parsing of the   *)
(* References and In-Reply-To headers of link_message_to_parents.         *)
(***************************************************************************)
StartAdd(f) ==
    LET id      == f.id
        d       == db[id]
        refs    == HeaderParents(f).refs
        irt     == HeaderParents(f).irt
        parents == ToSet(refs) \cup ToSet(irt)
        t0      == InitialThread(d, id)
    IN
    /\ pc = "idle"
    /\ file' = f
    /\ \/ /\ ~IsEmail(f)
          /\ EndAtomic(db, meta, lastThreadId, "FILE_NOT_EMAIL", excReported, faults)
       \/ /\ IsEmail(f) /\ d.type = "mail"
          /\ EndAtomic([db EXCEPT ![id].files = @ \cup {f}], meta, lastThreadId,
                       "DUPLICATE_MESSAGE_ID", excReported, faults)
       \/ /\ IsEmail(f) /\ d.type = "mail"
          /\ "index" \in Faults /\ faults < MaxFaults
          /\ EndAtomic(db, meta, lastThreadId, "XAPIAN_EXCEPTION", TRUE, faults + 1)
       \/ /\ IsEmail(f) /\ d.type # "mail"
          /\ pc' = "parents"
          /\ isGhost' = (d.type = "ghost")
          /\ tid' = t0
          /\ meta' = IF Ghosts THEN meta ELSE ConsumeMetadata(meta, id)
          /\ msg' = [type |-> "mail", files |-> d.files \cup {f},
                     thread |-> d.thread \cup (IF t0 # NoThread THEN {t0} ELSE {}),
                     refs |-> ReferenceTerms(refs, irt),
                     replyto |-> ReplyTo(refs, irt)]
          /\ todo' \in SetToSeqs(parents)
          /\ UNCHANGED <<db, lastThreadId, cdb, cmeta, clast, kids, ret,
                         excReported, faults>>

(***************************************************************************)
(* One iteration of the loop of _notmuch_database_link_message_to_parents: *)
(* resolve the parent's thread; adopt it if the message has none yet,      *)
(* otherwise merge it into the message's thread.                           *)
(***************************************************************************)
\* Mutant: a parent in another thread is not merged.
LinkParentNoMerge ==
    /\ pc = "parents" /\ todo # <<>>
    /\ LET r == Resolve(Head(todo)) IN
       /\ r.t <= MaxThread
       /\ lastThreadId' = r.last /\ meta' = r.meta
       /\ \/ /\ tid = NoThread
             /\ tid' = r.t /\ msg' = [msg EXCEPT !.thread = @ \cup {r.t}]
             /\ db' = r.db
          \/ /\ tid # NoThread /\ tid = r.t
             /\ db' = r.db /\ UNCHANGED <<tid, msg>>
          \/ /\ tid # NoThread /\ tid # r.t
             /\ db' = r.db /\ UNCHANGED <<tid, msg>>
    /\ todo' = Tail(todo)
    /\ UNCHANGED <<cdb, cmeta, clast, pc, file, isGhost, kids, ret,
                   excReported, faults>>

LinkParent ==
    /\ pc = "parents" /\ todo # <<>>
    /\ LET r == Resolve(Head(todo)) IN
       /\ r.t <= MaxThread
       /\ lastThreadId' = r.last /\ meta' = r.meta
       /\ \/ /\ tid = NoThread
             /\ tid' = r.t /\ msg' = [msg EXCEPT !.thread = @ \cup {r.t}]
             /\ db' = r.db
          \/ /\ tid # NoThread /\ tid = r.t
             /\ db' = r.db /\ UNCHANGED <<tid, msg>>
          \/ /\ tid # NoThread /\ tid # r.t
             /\ db' = MergeThreads(r.db, tid, r.t) /\ UNCHANGED <<tid, msg>>
    /\ todo' = Tail(todo)
    /\ UNCHANGED <<cdb, cmeta, clast, pc, file, isGhost, kids, ret,
                   excReported, faults>>

(***************************************************************************)
(* _notmuch_database_link_message_to_children (legacy format only): the    *)
(* posting-list query for documents referencing the message.              *)
(***************************************************************************)
\* Mutant: the children are never looked up.
QueryChildrenNone ==
    /\ pc = "parents" /\ todo = <<>> /\ LinksChildren
    /\ pc' = "children"
    /\ kids' = {}
    /\ UNCHANGED <<db, meta, lastThreadId, cdb, cmeta, clast, file, msg,
                   isGhost, tid, todo, ret, excReported, faults>>
QueryChildren ==
    /\ pc = "parents" /\ todo = <<>> /\ LinksChildren
    /\ pc' = "children"
    /\ kids' = {c \in MsgIds : file.id \in db[c].refs}
    /\ UNCHANGED <<db, meta, lastThreadId, cdb, cmeta, clast, file, msg,
                   isGhost, tid, todo, ret, excReported, faults>>

(* One iteration of its loop: adopt the child's thread, or drop the        *)
(* child's reference term and merge the child's thread into ours.          *)
\* Mutant: the child's reference term is dropped but its thread not merged.
LinkChildNoMerge ==
    /\ pc = "children"
    /\ \E c \in kids :
          LET ct == ThreadOf(db[c]) IN
          /\ kids' = kids \ {c}
          /\ \/ /\ tid = NoThread
                /\ tid' = ct /\ msg' = [msg EXCEPT !.thread = @ \cup {ct}]
                /\ UNCHANGED db
             \/ /\ tid # NoThread
                /\ db' = [db EXCEPT ![c].refs = @ \ {file.id}]
                /\ UNCHANGED <<tid, msg>>
    /\ UNCHANGED <<meta, lastThreadId, cdb, cmeta, clast, pc, file, isGhost,
                   todo, ret, excReported, faults>>
LinkChild ==
    /\ pc = "children"
    /\ \E c \in kids :
          LET ct == ThreadOf(db[c]) IN
          /\ kids' = kids \ {c}
          /\ \/ /\ tid = NoThread
                /\ tid' = ct /\ msg' = [msg EXCEPT !.thread = @ \cup {ct}]
                /\ UNCHANGED db
             \/ /\ tid # NoThread /\ tid = ct
                /\ UNCHANGED <<db, tid, msg>>
             \/ /\ tid # NoThread /\ tid # ct
                /\ db' = MergeThreads([db EXCEPT ![c].refs = @ \ {file.id}],
                                      tid, ct)
                /\ UNCHANGED <<tid, msg>>
    /\ UNCHANGED <<meta, lastThreadId, cdb, cmeta, clast, pc, file, isGhost,
                   todo, ret, excReported, faults>>

(***************************************************************************)
(* The rest of the add: a fresh thread for an orphan (end of               *)
(* _notmuch_database_link_message), header values, indexing of the file,   *)
(* sync of the message, and end_atomic.  Indexing may fail, in which case  *)
(* the message is not synced but the transaction is still ended.           *)
(***************************************************************************)
Finish ==
    /\ \/ pc = "parents" /\ todo = <<>> /\ ~LinksChildren
       \/ pc = "children" /\ kids = {}
    /\ LET n  == IF tid = NoThread THEN GenerateThreadId(lastThreadId)
                 ELSE [id |-> tid, last |-> lastThreadId]
           m2 == [msg EXCEPT !.thread = @ \cup {n.id}]
       IN  /\ n.id <= MaxThread
           /\ \/ EndAtomic([db EXCEPT ![file.id] = m2], meta, n.last, "SUCCESS",
                           excReported, faults)
              \/ /\ "index" \in Faults /\ faults < MaxFaults
                 /\ \E x \in IndexFailures(excReported) :
                       EndAtomic(db, meta, n.last, x.ret, x.exc, faults + 1)
    /\ UNCHANGED file

(***************************************************************************)
(* Faults.  An index error (Xapian::Error or a failing index call) during  *)
(* linking goes to DONE: exception_reported is set and end_atomic commits  *)
(* what the transaction holds.  A merge can fail after rewriting some of   *)
(* the loser's documents.  A crash discards the open transaction, and the  *)
(* reopened database reloads last_thread_id from committed metadata.       *)
(***************************************************************************)
IndexError ==
    /\ "index" \in Faults /\ faults < MaxFaults
    /\ pc \in {"parents", "children"}
    /\ EndAtomic(db, meta, lastThreadId, "XAPIAN_EXCEPTION", TRUE, faults + 1)
    /\ UNCHANGED file

\* The merge the next linking step would start, with the state before it:
\* for the next parent after resolving it, or for a child after its
\* reference term is removed.
PendingMerges ==
    (IF pc = "parents" /\ todo # <<>>
     THEN LET r == Resolve(Head(todo)) IN
          {[db |-> r.db, meta |-> r.meta, last |-> r.last, loser |-> r.t]}
     ELSE {})
    \cup
    (IF pc = "children"
     THEN {[db |-> [db EXCEPT ![c].refs = @ \ {file.id}], meta |-> meta,
            last |-> lastThreadId, loser |-> ThreadOf(db[c])] : c \in kids}
     ELSE {})

MergeFails ==
    /\ "merge" \in Faults /\ faults < MaxFaults
    /\ tid # NoThread
    /\ \E x \in PendingMerges :
          /\ x.loser <= MaxThread /\ x.loser # tid
          /\ \E some \in SUBSET Losers(x.db, x.loser) :
                EndAtomic(MergeSome(x.db, tid, x.loser, some), x.meta, x.last,
                          "XAPIAN_EXCEPTION", TRUE, faults + 1)
    /\ UNCHANGED file

Crash ==
    /\ "crash" \in Faults /\ faults < MaxFaults
    /\ faults' = faults + 1
    /\ db' = cdb /\ meta' = cmeta /\ lastThreadId' = clast
    /\ pc' = "idle" /\ ResetLocals /\ ret' = "NONE"
    /\ UNCHANGED <<cdb, cmeta, clast, file, excReported>>

-----------------------------------------------------------------------------
Next ==
    \/ \E f \in Files : StartAdd(f)
    \/ LinkParent \/ QueryChildren \/ LinkChild \/ Finish
    \/ IndexError \/ MergeFails \/ Crash

\* No fairness: every property is a safety property.  An add's loops run
\* over finite sets, so it ends by construction; nothing obliges a caller
\* to add a file or the index to fail.
Spec == Init /\ [][Next]_vars

-----------------------------------------------------------------------------
(***************************************************************************)
(* Properties.  They are stated over the committed index (cdb, cmeta,      *)
(* clast): what a reader, or the writer after a restart, sees.             *)
(***************************************************************************)
Indexed == {m \in MsgIds : cdb[m].type # "none"}
Real    == {m \in MsgIds : cdb[m].type = "mail"}

\* Reference terms between indexed documents, as undirected edges.
Linked(m, n) == m \in cdb[n].refs \/ n \in cdb[m].refs

\* The indexed documents joined to some document of S by reference chains.
RECURSIVE Reach(_)
Reach(S) ==
    LET S2 == S \cup {n \in Indexed : \E m \in S : Linked(m, n)}
    IN  IF S2 = S THEN S ELSE Reach(S2)

Components == {Reach({m}) : m \in Indexed}

TypeOK ==
    /\ db \in [MsgIds -> Doc] /\ cdb \in [MsgIds -> Doc]
    /\ meta \in [MsgIds -> 0..MaxThread] /\ cmeta \in [MsgIds -> 0..MaxThread]
    /\ lastThreadId \in 0..MaxThread /\ clast \in 0..MaxThread
    /\ pc \in {"idle", "parents", "children"}
    /\ file \in Files /\ msg \in Doc /\ isGhost \in BOOLEAN
    /\ tid \in 0..MaxThread /\ todo \in Seq(MsgIds) /\ kids \subseteq MsgIds
    /\ ret \in Status /\ excReported \in BOOLEAN /\ faults \in 0..MaxFaults

\* I1: every committed document, real or ghost, carries exactly one thread
\* term, however merges (_merge_threads) and ghost promotion interleave.
OneThreadPerDoc == \A m \in Indexed : Cardinality(cdb[m].thread) = 1

\* I2: documents joined by a chain of reference terms, in either direction
\* and through ghosts, share their thread.  This is what the parent loop
\* of _notmuch_database_link_message_to_parents and _merge_threads are for.
ThreadsFollowReferences ==
    \A C \in Components : \A m, n \in C : cdb[m].thread = cdb[n].thread

\* I2 in terms of the mail itself: an indexed message and an indexed
\* message its file's References or In-Reply-To names share a thread.
\* Unlike ThreadsFollowReferences this does not depend on the reference
\* terms, which link_message_to_children removes from a child.
ParentsShareThread ==
    \A f \in Files : f.mail /\ f.id \in Real =>
        \A p \in (ToSet(f.refs) \cup ToSet(f.irt)) \ {f.id} :
            p \in Real => cdb[p].thread = cdb[f.id].thread

\* The converse (ghost format): documents share a thread only when a chain
\* of references joins them, so the thread partition is the set of
\* connected components and does not depend on the order of ingestion (P4).
ThreadsAreComponents ==
    \A m, n \in Indexed :
        cdb[m].thread = cdb[n].thread => \E C \in Components : {m, n} \subseteq C

\* A ghost exists only because a real message references it: ghosts are
\* created by _resolve_message_id_to_thread_id for a parent being linked.
GhostsAreReferenced ==
    \A g \in Indexed \ Real : \E m \in Real : g \in cdb[m].refs

\* I4/P7: the committed last_thread_id is at least every committed thread
\* id (of a document or a legacy metadata entry), and the in-memory counter
\* never falls behind it, so a restarted writer never reissues an id.
HighWaterMark ==
    /\ \A m \in Indexed : cdb[m].thread \subseteq 1..clast
    /\ \A m \in MsgIds : cmeta[m] <= clast
    /\ clast <= lastThreadId

\* An add that returned SUCCESS or DUPLICATE_MESSAGE_ID left the message,
\* with this file among its filenames, in the committed index: the result
\* of notmuch_database_add_message is not a lie even when end_atomic fails.
ReturnedMessageIsIndexed ==
    (pc = "idle" /\ ret \in {"SUCCESS", "DUPLICATE_MESSAGE_ID"})
        => /\ cdb[file.id].type = "mail"
           /\ file \in cdb[file.id].files

\* I6 (legacy format): no thread_id_<mid> metadata entry survives once the
\* message it names is real; _consume_metadata_thread_id clears it.
MetadataClearedOnArrival == \A m \in Real : cmeta[m] = NoThread

\* Legacy format: two real messages that reference the same message that is
\* not (yet) indexed share a thread.  The comments of the legacy path rely
\* on it: the thread id stored in metadata for the missing parent is "looked
\* up if the message is added later" and shared by its children.
SiblingsShareThread ==
    \A m, n \in Real :
        (\E x \in MsgIds \ Real : x \in cdb[m].refs \cap cdb[n].refs)
            => cdb[m].thread = cdb[n].thread

\* The parents of f in insertion order: References, then In-Reply-To.
ParentOrder(f) ==
    LET ps == ParseReferences(f.id, f.refs) \o ParseReferences(f.id, f.irt)
    IN  FoldLeft(LAMBDA acc, x : IF x \in ToSet(acc) THEN acc ELSE Append(acc, x),
                 <<>>, ps)

\* S4: when a new (not ghost) message whose first parent is already indexed
\* is added, the message lands in that parent's thread: the merge winner is
\* the thread of the first parent in insertion order.
FirstParentThreadWins ==
    [][ (/\ pc # "idle" /\ pc' = "idle" /\ ret' = "SUCCESS" /\ ~isGhost
         /\ ParentOrder(file) # <<>>
         /\ cdb[Head(ParentOrder(file))].type # "none")
        => cdb'[file.id].thread = cdb[Head(ParentOrder(file))].thread ]_vars


-----------------------------------------------------------------------------
(***************************************************************************)
(* Refinement of ThreadPartition: the committed documents, and the        *)
(* classes of documents carrying the same thread term.  Only commits by   *)
(* end_atomic change them, so every other step is a stuttering step.      *)
(***************************************************************************)
Partition == {{n \in Indexed : cdb[n].thread = cdb[m].thread} : m \in Indexed}

TP == INSTANCE ThreadPartition WITH docs <- Indexed, part <- Partition

\* With ghosts and without faults, every committed add is one Add step of
\* ThreadPartition: the message, its parents (as ghosts if unseen) and
\* every thread they were in end up in one thread, nothing else moves.
ImplementsThreadPartition == TP!Spec

=============================================================================
