---------------------------- MODULE MCAddMessage ----------------------------
(***************************************************************************)
(* Model of AddMessage for TLC.  Six message-ids; five mail files and one  *)
(* file that is not an email:                                              *)
(*   a, b   orphans (two threads)                                          *)
(*   c      References: <a> <b>        joins the threads of a and b        *)
(*   d      References: <g> <d>, In-Reply-To: <c>                          *)
(*          names itself, and a message g that is never ingested           *)
(*   e      References: <g>            joined to d only through ghost g    *)
(*   b'     a second file with message-id b that is not an email, though  *)
(*          it has References: <a>                                         *)
(***************************************************************************)
EXTENDS AddMessage

CONSTANTS a, b, c, d, e, g

MCMsgIds == {a, b, c, d, e, g}

MCFiles ==
    { [id |-> a, refs |-> <<>>,     irt |-> <<>>,  mail |-> TRUE],
      [id |-> b, refs |-> <<>>,     irt |-> <<>>,  mail |-> TRUE],
      [id |-> c, refs |-> <<a, b>>, irt |-> <<>>,  mail |-> TRUE],
      [id |-> d, refs |-> <<g, d>>, irt |-> <<c>>, mail |-> TRUE],
      [id |-> e, refs |-> <<g>>,    irt |-> <<>>,  mail |-> TRUE],
      [id |-> b, refs |-> <<a>>,    irt |-> <<>>,  mail |-> FALSE] }

=============================================================================
