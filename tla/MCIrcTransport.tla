--------------------------- MODULE MCIrcTransport ---------------------------
(* Scripts for IrcTransport: lines of all lengths around the limit of a    *)
(* read buffer of 3 units, commands that are answered, commands that are   *)
(* not, lines that are no command or no UTF-8, and a rest without newline. *)
EXTENDS IrcTransport

MCLine(kind, size) == [kind |-> kind, size |-> size]

MCScripts ==
  LET lines == {MCLine("ping", 2), MCLine("join", 1), MCLine("join", 3), MCLine("join", 4),
                MCLine("invalid", 1), MCLine("bad_utf8", 2)}
  IN  [lines : {<<a, b>> : a, b \in lines}, rest : {0}]
      \cup [lines : {<<a>> : a \in lines}, rest : {2, 3}]
      \cup [lines : {<<MCLine("ping", 2), MCLine("ping", 1), MCLine("ping", 1)>>}, rest : {1}]
=============================================================================
