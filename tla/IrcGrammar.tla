----------------------------- MODULE IrcGrammar -----------------------------
(***************************************************************************)
(* The grammar of IRC lines and the commands made of them                  *)
(* (src/src/irc/protocol.rs).  A line is a sequence of units: a run of     *)
(* capital letters that matters as a whole, a digit, ":", " ", and one     *)
(* unit each for the other characters the grammar takes and for those it   *)
(* takes nowhere (NUL, CR, LF and all above U+1FFFF).                      *)
(*                                                                         *)
(* The rules of the grammar have their names.  A rule is a function of the *)
(* line and a position; the grammar is a PEG: a repetition takes what it   *)
(* can, and a part that fails gives back what it took.  An Option is a set *)
(* of at most one element.                                                 *)
(***************************************************************************)
EXTENDS Integers, SequencesExt

CONSTANT Alphabets    \* what may be typed: records [units, length]

VARIABLES alphabet, line

vars == <<alphabet, line>>

(* The commands the code knows. *)
Named == {"NICK", "USER", "JOIN", "PART", "QUIT", "PING", "PONG", "MODE", "PASS", "PRIVMSG",
          "TOPIC", "WHO", "AWAY"}

upper == Named \cup {"Q"}
digit == {"7"}
nospcrlfcl == upper \cup digit \cup {"x"}
word == nospcrlfcl \cup {":"}
space == {" "}

ASSUME AlphabetsAssumption ==
  \A a \in Alphabets : /\ a.units \subseteq word \cup space \cup {"bad"}
                       /\ a.length \in Nat

-----------------------------------------------------------------------------
(* The grammar.                                                            *)

(* class*, from position i: the position behind it. *)
Star(s, i, class) ==
  CHOOSE j \in i .. Len(s) + 1 :
    /\ \A k \in i .. j - 1 : s[k] \in class
    /\ j \in DOMAIN s => s[j] \notin class

At(s, i, class) == i \in DOMAIN s /\ s[i] \in class

(* ([":"] ~ prefix ~ space)? *)
prefix(s) ==
  LET e == Star(s, 2, word)
      next == Star(s, e, space)
  IN  IF At(s, 1, {":"}) /\ e > 2 /\ next > e
      THEN [text |-> {SubSeq(s, 2, e - 1)}, next |-> next]
      ELSE [text |-> {}, next |-> 1]

(* Capital letters, else three digits; i itself if it fails. *)
command(s, i) ==
  LET e == Star(s, i, upper) IN
  IF e > i THEN e
  ELSE IF \A k \in i .. i + 2 : At(s, k, digit) THEN i + 3
  ELSE i

(* Mutant: one space between parameters. *)
paramsOneSpace(s, i) ==
  LET rest[b \in 1 .. Len(s) + 1] ==
        LET e == Star(s, b + 1, word) IN
        IF At(s, b, space) /\ At(s, b + 1, nospcrlfcl)
        THEN [args |-> <<SubSeq(s, b + 1, e - 1)>> \o rest[e].args, next |-> rest[e].next]
        ELSE [args |-> <<>>, next |-> b]
  IN  rest[i]

(* (space ~ param)* *)
params(s, i) ==
  LET rest[b \in 1 .. Len(s) + 1] ==
        LET p == Star(s, b, space)
            e == Star(s, p, word)
        IN  IF p > b /\ At(s, p, nospcrlfcl)
            THEN [args |-> <<SubSeq(s, p, e - 1)>> \o rest[e].args, next |-> rest[e].next]
            ELSE [args |-> <<>>, next |-> b]
  IN  rest[i]

(* (space ~ [":"] ~ trailing_param)? *)
trailing_param(s, i) ==
  LET p == Star(s, i, space)
      e == Star(s, p + 1, word \cup space)
  IN  IF p > i /\ At(s, p, {":"})
      THEN [args |-> <<SubSeq(s, p + 1, e - 1)>>, next |-> e]
      ELSE [args |-> <<>>, next |-> i]

(* Command::from: the name, if it is known. *)
CommandOf(text) ==
  IF Len(text) = 1 /\ text[1] \in Named THEN text[1]
  ELSE IF text[1] \in digit THEN "Numeric" ELSE "Unknown"

(* The line, if the rules take it to its end. *)
parse_irc_line(s) ==
  LET start == prefix(s)
      e == command(s, start.next)
      middle == params(s, e)
      last == trailing_param(s, middle.next)
  IN  IF e > start.next /\ last.next = Len(s) + 1
      THEN {[prefix  |-> start.text,
             command |-> CommandOf(SubSeq(s, start.next, e - 1)),
             args    |-> middle.args \o last.args]}
      ELSE {}

-----------------------------------------------------------------------------
(* IrcCommand::from_irc_line.                                              *)

(* Iterator::nth of an iterator with items it, and what it leaves.         *)
Nth(it, n) == IF n < Len(it) THEN {it[n + 1]} ELSE {}
After(it, n) == SubSeq(it, n + 2, Len(it))

(* Mutant: the second index counts from the start. *)
UserNth(it) == <<Nth(it, 0), Nth(After(it, 0), 3)>>

(* it.nth(0), it.nth(2) *)
UserArgs(it) == <<Nth(it, 0), Nth(After(it, 0), 2)>>

(* it.nth(0), it.nth(0) *)
TwoArgs(it) == <<Nth(it, 0), Nth(After(it, 0), 0)>>

(* A command of the given arguments, if they are all there. *)
AllSome(name, options) ==
  IF {} \in Range(options) THEN {}
  ELSE {[command |-> name, fields |-> [i \in DOMAIN options |-> CHOOSE arg \in options[i] : TRUE]]}

from_irc_line(irc_line) ==
  LET name == irc_line.command
      it == irc_line.args
  IN  CASE name \in {"Numeric", "Unknown"} -> {}
        [] name = "QUIT" -> {[command |-> name, fields |-> <<>>]}
        [] name = "USER" -> AllSome(name, UserArgs(it))
        [] name \in {"PRIVMSG", "TOPIC"} -> AllSome(name, TwoArgs(it))
        [] name = "MODE" -> AllSome(name, <<Nth(it, 0), {Nth(After(it, 0), 0)}>>)
        [] name = "AWAY" -> {[command |-> name, fields |-> <<IF it = <<>> THEN <<>> ELSE it[1]>>]}
        [] OTHER -> AllSome(name, <<Nth(it, 0)>>)

(* IrcCommand::from_str *)
from_str(s) == UNION {from_irc_line(irc_line) : irc_line \in parse_irc_line(s)}

-----------------------------------------------------------------------------
(* A client types a line, unit by unit.                                    *)
Init == alphabet \in Alphabets /\ line = <<>>

Type == /\ Len(line) < alphabet.length
        /\ \E unit \in alphabet.units : line' = Append(line, unit)
        /\ UNCHANGED alphabet

Spec == Init /\ [][Type]_vars

-----------------------------------------------------------------------------
(* Properties.                                                             *)

(* The elements of a set of numbers, from the least on. *)
InOrder(S) ==
  CHOOSE f \in [1 .. Cardinality(S) -> S] : \A m, n \in DOMAIN f : m < n => f[m] < f[n]

(* A line seen as words: what stands between spaces.                       *)
Words(s) ==
  LET starts == {i \in DOMAIN s : s[i] \notin space /\ (i = 1 \/ s[i - 1] \in space)}
      ends == {i \in DOMAIN s : s[i] \notin space /\ (i = Len(s) \/ s[i + 1] \in space)}
      from == InOrder(starts)
      to == InOrder(ends)
  IN  [n \in DOMAIN from |-> SubSeq(s, from[n], to[n])]

IsCommand(text) ==
  \/ Range(text) \subseteq upper
  \/ Len(text) = 3 /\ Range(text) \subseteq digit

(* The reading of IRC's message format with no grammar: the first word that*)
(* begins with a colon, but the first of the line, begins the last argument*)
(* and runs to the end of the line; the other words are the source of the  *)
(* line, if its first begins with a colon, the command and its arguments.  *)
Split(s) ==
  LET colons == {i \in 2 .. Len(s) : s[i - 1] \in space /\ s[i] = ":"}
      colon == Min(colons)
      words == Words(IF colons = {} THEN s ELSE SubSeq(s, 1, colon - 1))
      sourced == words # <<>> /\ words[1][1] = ":"
      rest == IF sourced THEN Tail(words) ELSE words
      last == IF colons = {} THEN <<>> ELSE <<SubSeq(s, colon + 1, Len(s))>>
  IN  IF /\ "bad" \notin Range(s)
         /\ rest # <<>> /\ IsCommand(rest[1])
         /\ sourced => Len(words[1]) > 1
         /\ s[1] \notin space /\ (colons = {} => Last(s) \notin space)
      THEN {[prefix  |-> IF sourced THEN {Tail(words[1])} ELSE {},
             command |-> CommandOf(rest[1]),
             args    |-> Tail(rest) \o last]}
      ELSE {}

(* The grammar takes a line for what it is, with any number of spaces, and *)
(* refuses nothing but what has no command, begins or ends with a space, or*)
(* holds a character it does not know.                                     *)
ParsesAsSplit == parse_irc_line(line) = Split(line)

(* Whatever a user says, however many spaces and colons it has and even if *)
(* it is empty, arrives as he wrote it, behind the colon a client puts; so *)
(* do his real name, which is the fourth argument of USER, and a password. *)
TextsArriveWhole ==
  "bad" \notin Range(line) =>
    \A sent \in {[words |-> <<"PRIVMSG", "x">>, fields |-> <<<<"x">>, line>>],
                 [words |-> <<"TOPIC", "x">>, fields |-> <<<<"x">>, line>>],
                 [words |-> <<"AWAY">>, fields |-> <<line>>],
                 [words |-> <<"PASS">>, fields |-> <<line>>],
                 [words |-> <<"USER", "x", "7", "x">>, fields |-> <<<<"x">>, line>>]} :
      from_str(FlattenSeq([i \in DOMAIN sent.words |-> <<sent.words[i], " ">>]) \o <<":">> \o line)
        = {[command |-> sent.words[1], fields |-> sent.fields]}
=============================================================================
