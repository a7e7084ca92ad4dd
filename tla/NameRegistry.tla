---------------------------- MODULE NameRegistry ----------------------------
(***************************************************************************)
(* What the bridge promises of each of its two name tables (Matrix room to *)
(* IRC channel, Matrix user to IRC nick) to somebody who only sees names:  *)
(* a name belongs to one id, an id has one name, and a binding once made   *)
(* stays for the rest of the session.  IRC clients address rooms and       *)
(* people by these names alone.                                            *)
(***************************************************************************)
CONSTANT Initial      \* the bindings a new session starts with
VARIABLE name         \* the bindings: a function from ids to names

Injective(f) == \A a, b \in DOMAIN f : f[a] = f[b] => a = b

Init == /\ name = Initial
        /\ Injective(name)

(* Some ids that had no name get one. *)
Bind == /\ DOMAIN name \subseteq DOMAIN name'
        /\ \A id \in DOMAIN name : name'[id] = name[id]
        /\ name' = [id \in DOMAIN name' |-> name'[id]]
        /\ Injective(name')

Spec == Init /\ [][Bind]_name
=============================================================================
