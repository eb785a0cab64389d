# TLA+ models of notmuch's message adding and threading

This directory models `src/lib/add-message.cc`: how `notmuch_database_add_message`
adds a mail file to the index and threads it with the messages it references
and with the messages that reference it. The models are checked with TLC.

## 1. The system

### Parts

| Part | Code | What it does |
|---|---|---|
| MsgIdParser | `skip_space_and_comments`, `_parse_message_id`, `parse_references` (11-142) | Turns a `Message-ID`, `References` or `In-Reply-To` value into ids. Skips blanks, nested `(...)` comments with `\` escapes, and unstructured text. Removes blanks inside an id. Drops the message's own id. |
| ThreadIdAllocator | `_notmuch_database_generate_thread_id` (144-161) | Increments `last_thread_id` and stores it as metadata inside the open transaction. |
| ThreadResolver | `_resolve_message_id_to_thread_id` (193-233), `_old` (236-283) | Gives a parent's thread. With ghosts, an unseen parent becomes a ghost document with a fresh thread. In the legacy format, it becomes a `thread_id_<mid>` metadata entry. |
| ParentMetadataStore | `_get_metadata_thread_id_key`, `_consume_metadata_thread_id` (163-171, 449-477) | Legacy format only: the metadata entry of an arriving message is read and cleared. |
| Linker | `_merge_threads`, `link_message_to_parents`, `link_message_to_children`, `_notmuch_database_link_message` (285-562) | Adopts the first thread it finds and merges every other one into it. Legacy: pulls already-indexed children back in. An orphan gets a fresh thread. |
| AddMessage | `notmuch_database_add_message` (564-720) | Runs under `begin_atomic`/`end_atomic`. Steps: not-email check, find-or-create by id, duplicate exit, ghost promotion, link, index, sync. On any error it goes to `DONE`, which always calls `end_atomic`. |
| Transaction | `begin_atomic`/`end_atomic` (outside `src/`) | The outermost end commits. A failing commit overrides a SUCCESS or DUPLICATE result (714-718). |

### How they interact

A single writer performs one add at a time, and nothing runs concurrently.

The hard behaviours are these:
- **Order of parents.** The parents of a message are walked in hash-table order (364). The order decides which thread wins each merge.
- **Several index calls per add.** One add makes many index calls: ghost creation, metadata writes, the `last_thread_id` write, and the merges. Any of them can throw, and a merge can stop part way (303).
- **Partial work committed.** The error path still calls `end_atomic`, so the work done before the error is committed.
- **Crashes.** A crash loses the open transaction. The reopened database reloads `last_thread_id` from the committed metadata.
- **Stale legacy metadata.** In the legacy format, merges do not rewrite the metadata entries. An entry can therefore name a thread that no longer exists.

## 2. Modules

### `AddMessage.tla` (with `MCAddMessage.tla`)

**Constants:**
- `MsgIds`: the message-ids.
- `Files`: records `[id, refs, irt, mail]`. `refs` and `irt` are the parsed References and In-Reply-To sequences, and `mail` is false for a file that is not an email.
- `Ghosts`: the `NOTMUCH_FEATURE_GHOSTS` feature.
- `Faults`: the kinds of fault that can happen, a subset of `FaultKinds`:
  - `"index"`: a Xapian exception while linking (`IndexError`), and FILE_ERROR from indexing (`Finish`);
  - `"merge"`: `_merge_threads` stops part way (`MergeFails`);
  - `"commit"`: `end_atomic` fails to commit (the second disjunct of `EndAtomic`);
  - `"crash"`: the process dies (`Crash`).
- `MaxThread`: bound on `last_thread_id`.
- `MaxFaults`: bound on the number of faults.

**State.**
- `db`, `meta` and `lastThreadId` are the writer's view of the open transaction: documents, the legacy metadata, and `notmuch->last_thread_id`.
- `cdb`, `cmeta` and `clast` are the committed state.
- A document is a record with these fields:
  - `type`: none, ghost or mail;
  - `thread`: its set of thread terms;
  - `refs`: its `reference` terms;
  - `replyto`: its `replyto` term;
  - `files`.
- `pc`, `msg`, `isGhost`, `tid`, `todo` and `kids` are the locals of the running add. `tid` is the linker's `thread_id`, `todo` the remaining hash keys, and `kids` the children still to visit.
- `ret` is the returned status, and `excReported` is `exception_reported`.

**Actions.** Each action is cut at a point where the code calls into the index.

| Action | Code |
|---|---|
| `StartAdd(f)` | add_message up to the parent loop: the not-email exit (`IsEmail`, 606-615), the duplicate exit (filename added, then commit; with index faults, the sync of 692 may throw and the add returns XAPIAN_EXCEPTION with nothing kept), ghost promotion, and `_consume_metadata_thread_id` (legacy). It also adds the `reference` and `replyto` terms and fixes the hash order of the parents. |
| `LinkParent` | One iteration of the parents loop: resolve the parent (creating a ghost or a metadata entry), then adopt its thread or merge it. |
| `QueryChildren` | The posting-list query of `link_message_to_children` (legacy only). |
| `LinkChild` | One iteration of the children loop. It either adopts the child's thread, or removes the child's reference term and merges. |
| `Finish` | A fresh thread for an orphan, then index, sync and `end_atomic`. With index faults, the message is never written, in one of the two ways `IndexFailures` lists: indexing returns FILE_ERROR (686), or the sync throws, which sets `exception_reported` and returns XAPIAN_EXCEPTION (692-699). Either way, `end_atomic` commits what linking did. |
| `IndexError` | A Xapian exception during linking: `exception_reported` is set and control goes to DONE. |
| `MergeFails` | `_merge_threads` fails after rewriting any subset of the loser's documents. `PendingMerges` lists the merges that can fail: the one of the current parent (after its resolution), and in the legacy children loop the one of each child, after its reference term was removed and synced (429-434). |
| `Crash` | The process dies and the database is reopened from committed state. |

`StartAdd` uses three helpers, each for one piece of the code it runs:
- `HeaderParents(f)`: the References and In-Reply-To ids that `link_message_to_parents` parses into its hash table (326-351).
- `InitialThread(d, id)`: the first `thread_id` of `_notmuch_database_link_message`. With ghosts, it is the promoted ghost's thread. Without, it is the consumed metadata entry (513-525).
- `LinksChildren`: the children are linked only without `NOTMUCH_FEATURE_GHOSTS` (533-549). It also guards `QueryChildren` and `Finish`.

`EndAtomic` is the code at `DONE`. The commit either succeeds, or, with faults, fails. A failed commit loses the transaction and turns SUCCESS or DUPLICATE into XAPIAN_EXCEPTION.

Every operator named `...NoMerge`, `...Keep` and so on is a mutant: a plausible bug in the definition that follows it, used to show that a property can fail.

### `ThreadPartition.tla`

The abstract specification of threading. There are no thread ids, ghosts, metadata or transactions.
- `docs` is the set of message-ids that have a document.
- `part` partitions `docs` into threads.
- `Add(f)` puts the id of a mail file and every id it names into one thread. It merges the threads those ids were in.

`AddMessage` refines it through `TP == INSTANCE ThreadPartition WITH docs <- Indexed, part <- Partition`:
- `Indexed` maps to `docs`: the committed documents, mail or ghost.
- `Partition` maps to `part`: the committed documents grouped by thread term.

Only a commit by `end_atomic` changes the committed index. So every other step of `AddMessage` is a stuttering step of `ThreadPartition`, and a commit must be one `Add`.

### `MessageIdParser.tla` (with `MCMessageIdParser.tla`)

- A C string is a sequence of one-character strings. Position `Len(s)+1` is the NUL.
- `SkipSpaces`, `CommentEnd`, `SkipSpaceAndComments`, `SkipTo`, `Collapse`, `NextAfter` and `ParseMessageId` are RECURSIVE or plain operators. Each is translated from the C loops line by line in behaviour (not in text).
- The `while (*refs)` loop of `parse_references` is a state machine with:
  - `refs`: the pointer;
  - `hash`: the table;
  - `lastRef`: `last_ref`;
  - `calls`: a ghost count of calls.
- `Cases` are header values paired with the ids they are meant to name.
- `MCMessageIdParser` builds them from one or two ids separated by:
  - nothing, a blank, or unstructured text;
  - an empty `<>`;
  - comments that hide a `<ba>`: a flat comment, a nested comment, and one with an escaped `)`.

  Optionally, the last `>` is missing.
- `MessageIdOf(h)` is the id `notmuch_database_add_message` stores for a `Message-ID` header `h` (616-645):
  - the parsed id;
  - the header verbatim when the parser gives NULL;
  - the `notmuch-sha1` form when there is no header.

## 3. Runs

| Run | cfg | Checks | Shows |
|---|---|---|---|
| ghost (pass) | `AddMessageGhost.cfg` | TypeOK, GhostsAreReferenced, ThreadsFollowReferences, ThreadsAreComponents, ImplementsThreadPartition | With ghosts and no faults, every order of adds gives threads that are exactly the connected components of the reference graph. No ghost is left unreferenced, and every commit is one `Add` step of `ThreadPartition`. |
| legacy (pass) | `AddMessageLegacy.cfg` | ThreadsFollowReferences, MetadataClearedOnArrival, ParentsShareThread | The children query repairs what stale metadata breaks. Consumed entries are cleared, and a message shares the thread of every indexed message its headers name. |
| legacy_faults (pass) | `AddMessageLegacyFaults.cfg` | OneThreadPerDoc, HighWaterMark, ReturnedMessageIsIndexed | Under every fault kind, one at a time: one thread per document, no reissued thread id, and SUCCESS or DUPLICATE only for a committed message. |
| ghost_index_faults (pass) | `AddMessageGhostIndexFaults.cfg` | ParentsShareThread | With ghosts and up to two index errors, failed commits or crashes, a message still shares the thread of the messages it names, once both are indexed. This holds because the ghost path removes nothing before the failure point. |
| first_parent (violation) | `AddMessageFirstParent.cfg` | FirstParentThreadWins | Spec S4 says the first parent's thread wins. The code takes the hash-table order. |
| legacy_siblings (violation) | `AddMessageLegacySiblings.cfg` | SiblingsShareThread | In the legacy format, two replies to an unseen parent can end up in different threads. |
| faults_i2 (violation) | `AddMessageFaultsI2.cfg` | ThreadsFollowReferences | A failed merge is committed half done. |
| legacy_retry (violation) | `AddMessageLegacyRetry.cfg` | ParentsShareThread | In the legacy format, one failed add of a parent separates it from its child for good (see below). |
| parser (pass) | `MessageIdParser.cfg` | TypeOK, ParsedAsIntended, LoopTerminates | The ids of well-formed headers are found, with comments, text, `<>` and an unterminated last id, and the loop ends. |
| parser_one_char (violation) | `MessageIdParserOneChar.cfg` | ParsedAsIntended | `<a>` parses to NULL, against spec P6. |
| parser_blanks (violation) | `MessageIdParserBlanks.cfg` | ParsedAsIntended | In `a  b`, the second blank survives. |
| parser_verbatim (violation) | `MessageIdParserVerbatim.cfg` | ReplyFindsMessage | Spec S7 says a malformed Message-ID stored verbatim is threadable to messages that reference the same string. A References header that repeats it as it stands parses to no id, because `parse_references` only yields ids between `<` and `>`. Only a reference that adds the missing brackets names it. |

**legacy_retry in detail.**
1. `c` (References `a`, `b`) is added while `a` and `b` are unseen, so metadata entries are written for both.
2. `b` is added. `_consume_metadata_thread_id` clears its entry, and `link_message_to_children` finds `c`. It removes `c`'s reference term to `b` and syncs `c` (429-430), then merges.
3. Indexing `b` fails. `DONE` still calls `end_atomic` (714), which commits the removal and the cleared entry, but not `b`.
4. The retried add of `b` finds neither the entry nor the child, and gives `b` a fresh thread.

The spec says an error leaves the index as it was. In the ghost format nothing is removed before a failure, and ghost_index_faults passes. That run leaves out merges that fail part way. With them, TLC finds ParentsShareThread violated after one fault, with the same cause as faults_i2:
1. d's add creates ghost g and starts merging c's thread into g's thread.
2. The merge fails after rewriting a but not c.
3. `end_atomic` commits it, so a and c stay in different threads.

**A failed add also merges threads.** c references both a and b. The parent loop merges b's thread into a's thread, and then indexing c fails (FILE_ERROR). `end_atomic` commits the merge without c, so a and b stay one thread with no message that joins them, and ThreadsAreComponents fails after one index fault. This is listed as a hazard (391). It has no run of its own, because its cause is the same commit on error as faults_i2 and legacy_retry. GhostsAreReferenced fails in the same way: one index fault commits a parent's new ghost without the message that references it. That does no harm to threading, because a later add of the message adopts the ghost.

The spec contradicts itself on errors. Section 3 (the Linker's ownership) and Step K say every pending mutation is abandoned on error. Section 5 says the transaction is closed with the mutations staged, and the caller decides. The code does the second: with no enclosing transaction, `end_atomic` commits.

`LoopTerminates` is stated as a bound: at most one call per character of the header. This is a safety form of termination. It is checked instead of `<>Done`, because TLC's liveness checking over the recursive parser operators is slow. A parser whose pointer does not move fails it.

## 4. Bounds

- **Messages.** `MCAddMessage` has six ids: a, b, c, d, e, g.
- **Files.** The files cover these cases:
  - two roots (a and b);
  - c, which references both roots, so its add merges two threads;
  - d, which references g (never added, so it becomes a ghost or metadata) and itself in References, and has c in In-Reply-To;
  - e, a second child of g, so it is a sibling of d under an unseen parent;
  - a second file for b that is not an email, with References `a`. If the not-email check is skipped, the refinement sees `b` joined to `a` without any `Add` of a mail file.

  Every order of adds is explored, and every add can be repeated, which gives the duplicate path.
- **Thread ids.** `MaxThread` is 6 without faults, 9 with one fault and 10 with two, because a failed add still uses up ids. In every pass run, `lastThreadId` stays below `MaxThread` in every reachable state, so the `<= MaxThread` guards never cut off a behaviour.
- **Faults.** `MaxFaults = 1`: one fault of any kind anywhere in a behaviour. That is enough for each finding and hazard above. ghost_index_faults allows two (304630 states, about 15 s) so that a retry can itself fail. Two faults with merge failures in the legacy format multiply the state space by about seven without reaching new kinds of state.
- **Parser.** Ids have two or three characters, plus one id with an inner blank. The message's own id `ab` is among them, so the self filter is exercised.

## 5. Fairness

No specification assumes fairness, and no run checks a liveness property. Every property is a safety property, and `ImplementsThreadPartition` is checked against a `ThreadPartition` specification without fairness.

An earlier `AddReturns` (`pc # "idle" ~> pc = "idle"`, under weak fairness of the add's steps) was dropped because it held by the shape of the model:
- each `LinkParent` removes the head of a finite `todo`;
- each `LinkChild` removes one child from a finite set;
- `Finish` ends the add.

In the code the loops advance in their own headers (`l = l->next`, `child++`), so no code change short of rewriting those headers could break it.

Starting an add and the faults get no fairness in any case, because nothing forces a caller to add mail or the index to fail.

## 6. Not modelled

- Header parsing, MIME, `_notmuch_message_index_file` and sha1: these are I/O outside `src/`. Only the possible failure of indexing is modelled.
- The parser and the linker are not composed into one model. `parse_references` is a pure function of one header value, and the linker sees only its result: the sequence of parent ids in `Files`. Feeding header texts through `MessageIdParser` into `AddMessage` would give the same parent sequences, and no new interleaving. The parser's own runs already check what a wrong parse does: one-character ids, runs of blanks, verbatim ids.
- In `AddMessage`, message-ids are model values. The fallbacks (verbatim, sha1) are modelled in `MessageIdParser` by `MessageIdOf`, and checked only against `parse_references` (parser_verbatim).
- Failures that return before any index write: `ensure_writable`, `begin_atomic`, `_notmuch_message_file_parse`, and the sha1 computation. They reach `DONE` with nothing to commit.
- A caller's own `begin_atomic` around several adds. That code is outside `src/`, and what an inner failure does there is a choice of the caller.
- Termination of the `parse_references` loop as a liveness property. With `WF_vars(ParseOne)` and `<>Done`, TLC advanced about nine states a minute over the RECURSIVE parser operators, so the run could not finish. `LoopTerminates` checks the safety form instead: at most one call per character, which fails for any loop that does not advance.
- `_get_metadata_thread_id_key`: the key formatting and the compression of long ids. Keys are assumed injective.
- The hex formatting of thread ids and the 64-bit range of `last_thread_id`: the counter cannot reach 2^64.
- Header values (date, from, subject) and filenames beyond set membership.

## 7. Open questions

1. The comment at 353-355 says the first In-Reply-To id becomes `replyto`. The code (`parse_references` and `last_ref`) and the spec both take the last one. `ReplyTo` models the code, so this is only a stale comment, and no run is spent on it.
2. The spec leaves open what a caller's enclosing transaction does with a failed inner add (section 9). The findings about committing on error hold for the code as it is: an add with no enclosing transaction.
