------------------------------ MODULE MCLogin ------------------------------
(* Scripts for Login: registrations in all orders, with and without a      *)
(* password, with lines that follow at once.                               *)
EXTENDS Login

MCLine(kind) == [kind |-> kind, size |-> 1]

MCScripts ==
  LET commands == {MCLine(kind) : kind \in {"NICK", "USER", "PASS", "ping", "invalid"}}
      register == {MCLine(kind) : kind \in {"NICK", "USER", "PASS"}}
  IN  [lines : UNION {[1 .. n -> commands] : n \in 2 .. 3}, rest : {0}]
      \cup [lines : {<<a, b, c, MCLine("join")>> : a, b, c \in register}, rest : {0}]
=============================================================================
