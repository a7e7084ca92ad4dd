------------------------------- MODULE Names -------------------------------
(***************************************************************************)
(* IRC names made from Matrix text: what MappingStore does to a display    *)
(* name, a room name, a user id or a room id before it serves as a nick or *)
(* as a channel (src/src/bridge/mod.rs:346-470).                           *)
(*                                                                         *)
(* A name is a text, a sequence of chunks (runs of characters the bridge   *)
(* keeps or strips), followed by bracketed numbers, the last one first:    *)
(* "bob[1][2]" is [text |-> <<bob>>, numbers |-> <<2, <<1, <<>>>>>>].  A   *)
(* user may really call himself "bob[1]", so that names the bridge numbers *)
(* and names people choose can be the same.                                *)
(***************************************************************************)
EXTENDS Integers, Sequences, FiniteSets

CONSTANTS StrippedChunks, \* control characters, blanks and @ " + #
          ShortChunks     \* chunks of fewer than three bytes

Name(text) == [text |-> text, numbers |-> <<>>]

NoName == Name(<<>>)

(* chars().filter(..): drop what IRC does not allow in a name. *)
Stripped(name) ==
  [name EXCEPT !.text = SelectSeq(@, LAMBDA chunk : chunk \notin StrippedChunks)]

(* nick.len() < 3, in bytes; "[1]" has three. *)
TooShort(name) == /\ name.numbers = <<>>
                  /\ \/ name.text = <<>>
                     \/ Len(name.text) = 1 /\ name.text[1] \in ShortChunks

(* format!("#{}", name) *)
Prefixed(prefix, name) == [name EXCEPT !.text = <<prefix>> \o @]

(* format!("{}[{}]", name, idx) *)
Numbered(name, idx) == [text |-> name.text, numbers |-> <<idx, name.numbers>>]

(* The numbers the search below may stop at.  Among one more than there are*)
(* taken names, one is free.                                               *)
FreeNumbers(name, taken) ==
  {idx \in 1 .. Cardinality(taken) + 1 : Numbered(name, idx) \notin taken}

(* Mutant: the name is taken unchecked. *)
UniqueNameUnchecked(name, taken) == name

(* The name itself when it is free, otherwise its first numbered variant   *)
(* that is: the search loop over idx = 1, 2, ...                           *)
UniqueName(name, taken) ==
  IF name \notin taken
  THEN name
  ELSE Numbered(name, CHOOSE idx \in FreeNumbers(name, taken) :
                        \A other \in FreeNumbers(name, taken) : idx <= other)
=============================================================================
