--------------------------- MODULE MessageIdParser ---------------------------
(***************************************************************************)
(* The message-id parser of lib/add-message.cc: skip_space_and_comments,  *)
(* _parse_message_id and the loop of parse_references.                    *)
(*                                                                         *)
(* A C string is a sequence of one-character strings; position i of s is  *)
(* s[i], and position Len(s) + 1 is its terminating NUL.  A pointer into  *)
(* the string is such a position.  The pure functions are operators; the  *)
(* loop of parse_references is a state machine over one header value, so  *)
(* that its termination can be checked.                                   *)
(***************************************************************************)
EXTENDS Naturals, Sequences, SequencesExt, FiniteSets

CONSTANTS
    Self,       \* the message's own message-id (already parsed)
    Cases       \* header values: [text |-> chars, ids |-> intended ids]

NUL  == "NUL"
NoId == <<>>   \* NULL: a parsed id is never empty

\* *s in C: the character at position i, or NUL past the end.
Char(s, i) == IF i <= Len(s) THEN s[i] ELSE NUL

\* isspace() on the characters a header can hold.
IsSpace(c) == c \in {" ", "\t", "\n", "\r"}

\* while (*s && isspace (*s)) s++;
RECURSIVE SkipSpaces(_, _)
SkipSpaces(s, i) == IF IsSpace(Char(s, i)) THEN SkipSpaces(s, i + 1) ELSE i

\* The comment loop of skip_space_and_comments, entered just after the
\* opening '(' with nesting = 1: parentheses nest, and '\' escapes the
\* next character unless it is the terminating NUL.
\* Mutant: parentheses inside a comment do not nest.
RECURSIVE CommentEndFlat(_, _, _)
CommentEndFlat(s, i, nesting) ==
    IF Char(s, i) = NUL \/ nesting = 0 THEN i
    ELSE LET c == s[i] IN
         CommentEndFlat(s, i + (IF c = "\\" /\ Char(s, i + 1) # NUL THEN 2 ELSE 1),
                        IF c = ")" THEN nesting - 1 ELSE nesting)
RECURSIVE CommentEnd(_, _, _)
CommentEnd(s, i, nesting) ==
    IF Char(s, i) = NUL \/ nesting = 0 THEN i
    ELSE LET c == s[i] IN
         CommentEnd(s, i + (IF c = "\\" /\ Char(s, i + 1) # NUL THEN 2 ELSE 1),
                    CASE c = "(" -> nesting + 1
                      [] c = ")" -> nesting - 1
                      [] OTHER   -> nesting)

\* skip_space_and_comments: alternately skip whitespace and one comment
\* while the current character is a space or '('.
RECURSIVE SkipSpaceAndComments(_, _)
SkipSpaceAndComments(s, i) ==
    IF IsSpace(Char(s, i)) \/ Char(s, i) = "("
    THEN LET j == SkipSpaces(s, i) IN
         SkipSpaceAndComments(s, IF Char(s, j) = "(" THEN CommentEnd(s, j + 1, 1)
                                 ELSE j)
    ELSE i

\* while (*s && *s != c) s++;
RECURSIVE SkipTo(_, _, _)
SkipTo(s, i, c) == IF Char(s, i) \in {NUL, c} THEN i ELSE SkipTo(s, i + 1, c)

\* The whitespace-collapsing loop of _parse_message_id.  memmove shifts the
\* rest of the id over a removed ' ' or '\t', and the r++ of the for loop
\* then steps over the character that moved into its place unexamined.
RECURSIVE Collapse(_)
Collapse(r) ==
    IF r = <<>> THEN <<>>
    ELSE IF Head(r) \in {" ", "\t"}
         THEN IF Len(r) = 1 THEN <<>> ELSE <<r[2]>> \o Collapse(Tail(Tail(r)))
         ELSE <<Head(r)>> \o Collapse(Tail(r))

\* *next after the id: one past the closing '>', or the NUL.
\* Mutant: the '*end' test is dropped, and next goes past the NUL.
NextAfterPastEnd(s, e) == e + 1
NextAfter(s, e) == IF Char(s, e) # NUL THEN e + 1 ELSE e

\* The early return when no '<' follows: *next = s and NULL.
\* Mutant: *next is not set, so the caller's pointer does not move.
UnparsedKeep(i, p) == [id |-> NoId, next |-> i]
Unparsed(i, p) == [id |-> NoId, next |-> p]

\* _parse_message_id (message_id + i - 1, &next): the id and next.
ParseMessageId(s, i) ==
    LET lt  == SkipTo(s, SkipSpaceAndComments(s, i), "<")
        st  == SkipSpaceAndComments(s, lt + 1)
        end == SkipTo(s, st, ">")
        e   == IF end > st /\ Char(s, end) = ">" THEN end - 1 ELSE end
    IN  IF Char(s, i) = NUL THEN [id |-> NoId, next |-> i]
        ELSE IF Char(s, lt) # "<" THEN Unparsed(i, lt)
        ELSE [next |-> NextAfter(s, end),
              id   |-> IF e <= st THEN NoId
                       ELSE Collapse(SubSeq(s, st, IF e <= Len(s) THEN e ELSE Len(s)))]

\* The id of a file without a Message-ID header: "notmuch-sha1-" and the
\* SHA-1 of its contents.
Sha1Id == "notmuch-sha1"

\* The message-id notmuch_database_add_message stores for a Message-ID
\* header h (<<>> for none or empty): the parsed id, or, when that is
\* NULL, the header verbatim; without a header, the SHA-1 form.
MessageIdOf(h) ==
    LET p == ParseMessageId(h, 1).id IN
    IF h = <<>> THEN Sha1Id ELSE IF p = NoId THEN h ELSE p

-----------------------------------------------------------------------------
(***************************************************************************)
(* The loop of parse_references over one header value: refs is the read  *)
(* pointer, hash the table of parsed ids and last_ref the last one added. *)
(* calls counts the calls of _parse_message_id, to bound the loop.        *)
(***************************************************************************)
VARIABLES hdr, refs, hash, lastRef, calls

vars == <<hdr, refs, hash, lastRef, calls>>

Init ==
    /\ hdr \in Cases
    /\ refs = 1 /\ hash = {} /\ lastRef = NoId /\ calls = 0

\* One iteration: parse the next id and keep it unless it is the
\* message's own.
ParseOne ==
    /\ Char(hdr.text, refs) # NUL
    /\ LET r == ParseMessageId(hdr.text, refs) IN
       /\ refs' = r.next /\ calls' = calls + 1
       /\ IF r.id # NoId /\ r.id # Self
          THEN hash' = hash \cup {r.id} /\ lastRef' = r.id
          ELSE UNCHANGED <<hash, lastRef>>
    /\ UNCHANGED hdr

Next == ParseOne

Spec == Init /\ [][Next]_vars

-----------------------------------------------------------------------------
Done == Char(hdr.text, refs) = NUL

\* An id as the header means it: with its spaces and tabs removed (4.1).
StripBlanks(id) == SelectSeq(id, LAMBDA c : c \notin {" ", "\t"})

Intended == SelectSeq([k \in 1..Len(hdr.ids) |-> StripBlanks(hdr.ids[k])],
                      LAMBDA id : id # Self)

TypeOK ==
    /\ refs \in 1..Len(hdr.text) + 1
    /\ lastRef \in hash \cup {NoId}

\* When the loop of parse_references ends, the table holds exactly the
\* ids the header names, without the message's own, and last_ref is the
\* last of them: comments (nested, with escapes) and unstructured text
\* between ids hide any '<' in them, and an empty <> names nothing.
ParsedAsIntended ==
    Done => /\ hash = ToSet(Intended)
            /\ lastRef = IF Intended = <<>> THEN NoId ELSE Last(Intended)

\* The loop of parse_references terminates: every call of
\* _parse_message_id moves *next forward, so the loop makes at most one
\* call per character of the header before *refs is the NUL.
LoopTerminates == calls <= Len(hdr.text)

\* S7: a reply whose References header repeats a message's Message-ID
\* header names that message, also when that header is not an RFC 822 id
\* and notmuch_database_add_message stored it verbatim: the loop of
\* parse_references yields the id that was stored.
ReplyFindsMessage == Done => MessageIdOf(hdr.text) \in hash
=============================================================================
