-------------------------- MODULE MCMessageIdParser --------------------------
(***************************************************************************)
(* Header values for MessageIdParser: one or two ids between separators.  *)
(* The separators are empty, a space, unstructured text, an empty <>,     *)
(* and comments holding a '<ba>' that must not be parsed: a flat one, a   *)
(* nested one and one with an escaped ')'.  The last '>' may be missing.  *)
(***************************************************************************)
EXTENDS MessageIdParser

Angle(id) == <<"<">> \o id \o <<">">>

MCSelf == <<"a", "b">>

PassIds == {<<"a", "b">>, <<"b", "a">>, <<"a", " ", "b">>, <<"b", "a", "b">>}

Seps == {<<>>, <<" ">>, <<"b">>, <<"<", ">">>,
         <<"(", "<", "b", "a", ">", ")">>,
         <<"(", "(", ")", "<", "b", "a", ">", ")">>,
         <<"(", "\\", ")", "<", "b", "a", ">", ")">>}

\* sep[1] <id[1]> sep[2] ... <id[n]> sep[n+1]
Header(ids, sep) ==
    FoldLeft(LAMBDA acc, k : acc \o Angle(ids[k]) \o sep[k + 1],
             sep[1], [k \in 1..Len(ids) |-> k])

CasesOf(ids) ==
    UNION {{[text |-> Header(L, sep), ids |-> L] : sep \in [1..Len(L) + 1 -> Seps]} :
           L \in {<<x>> : x \in ids} \cup {<<x, y>> : x, y \in ids}}

\* A last id whose closing '>' is missing.
Unterminated(ids) ==
    {[text |-> c.text \o <<"<">> \o x, ids |-> c.ids \o <<x>>] :
        c \in {c \in CasesOf(ids) : Len(c.ids) = 1}, x \in ids}

PassCases == {c \in CasesOf(PassIds) \cup Unterminated(PassIds) : Len(c.text) > 0}

\* P6: "<id>" for ids of one character.
OneCharCases == {[text |-> Angle(<<x>>), ids |-> <<<<x>>>>] : x \in {"a", "b"}}

\* Ids holding a run of two blanks.
BlankCases == {[text |-> Angle(<<"a", " ", " ", "b">>),
                ids |-> <<<<"a", " ", " ", "b">>>>]}
\* S7: Message-ID headers that are not RFC 822 ids, stored verbatim, each
\* also the References header of a reply whose own id is MCOther.
MCOther == <<"b", "b">>

VerbatimCases == {[text |-> t, ids |-> <<>>] : t \in {<<"a", "b">>, <<"a", " ", "b">>}}
=============================================================================
