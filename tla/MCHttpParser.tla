---------------------------- MODULE MCHttpParser ----------------------------
(* Scripts for HttpParser: up to three responses, empty and not, with one  *)
(* that has no length or is broken only at the end, as after it nothing    *)
(* more can be told apart.                                                 *)
EXTENDS HttpParser

MCResponse(framing, chunks) == [framing |-> framing, chunks |-> chunks]

MCScripts ==
  LET framed == {MCResponse("length", <<n>>) : n \in {0, 2}}
                \cup {MCResponse("chunked", chunks) : chunks \in {<<>>, <<1>>, <<2, 1>>}}
      last == framed \cup {MCResponse("none", <<0>>), MCResponse("none", <<1>>), MCResponse("bad_head", <<>>),
                           MCResponse("bad_chunk", <<>>), MCResponse("bad_chunk", <<1>>)}
  IN  {<<a, b>> : a \in framed, b \in last} \cup {<<a, b, c>> : a, b \in framed, c \in last}
=============================================================================
