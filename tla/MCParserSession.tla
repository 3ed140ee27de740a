--------------------------- MODULE MCParserSession ---------------------------
(* Model-checking instance of ParserSession: what is typed and what is sent. *)
EXTENDS ParserSession

Of(kinds) == {c \in Command : c[1] \in kinds}

UartLines == Of({"login", "logout", "guarded"}) \cup {NoLine}
MenuCommands == Of({"login", "silent"})
=============================================================================
