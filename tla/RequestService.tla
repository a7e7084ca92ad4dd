--------------------------- MODULE RequestService ---------------------------
(***************************************************************************)
(* What HttpClient promises to the code that sends requests, with no word  *)
(* of connections: requests are numbered in the order they are sent; the   *)
(* oldest one that waits is answered, or the oldest few fail together; a   *)
(* request is settled once and never sent again.                           *)
(***************************************************************************)
EXTENDS Integers, Sequences

CONSTANTS Waiting, Cancelled,
          Answer(_)           \* the answers there are to a request

VARIABLES outstanding,        \* the requests that wait, oldest first
          results             \* of every request sent so far

Init == outstanding = <<>> /\ results = <<>>

Send == /\ results' = Append(results, Waiting)
        /\ outstanding' = Append(outstanding, Len(results) + 1)

Reply == /\ outstanding # <<>>
         /\ outstanding' = Tail(outstanding)
         /\ \E answer \in Answer(Head(outstanding)) :
              results' = [results EXCEPT ![Head(outstanding)] = answer]

Fail == \E n \in 1 .. Len(outstanding) :
          /\ outstanding' = SubSeq(outstanding, n + 1, Len(outstanding))
          /\ results' = [r \in DOMAIN results |->
                           IF \E i \in 1 .. n : outstanding[i] = r THEN Cancelled
                                                                   ELSE results[r]]

Next == Send \/ Reply \/ Fail

Spec == Init /\ [][Next]_<<outstanding, results>>
=============================================================================
