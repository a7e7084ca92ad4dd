---------------------------- MODULE MCIrcGrammar ----------------------------
(* Lines for TLC: short ones of everything, longer ones of few units, with *)
(* several parameters and several spaces between them.                     *)
EXTENDS IrcGrammar

MCAlphabets ==
  {[units |-> {"PRIVMSG", "Q", "7", "x", ":", " ", "bad"}, length |-> 6],
   [units |-> {"USER", "x", ":", " "}, length |-> 8]}
=============================================================================
