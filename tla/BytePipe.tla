----------------------------- MODULE BytePipe -----------------------------
(***************************************************************************)
(* What a stream to a child process and back promises: the bytes arrive in *)
(* the order they were put, none twice, and unless the stream broke none   *)
(* is missing when the reader is told that there are no more.              *)
(***************************************************************************)
EXTENDS Naturals, Sequences

VARIABLES
  sent,      \* number of bytes put: the i-th is the number i
  received,  \* the bytes got
  broken,    \* bytes may have been lost at the writer's end
  closed,    \* the writer puts no more
  ended      \* the reader has seen the end of the file

vars == <<sent, received, broken, closed, ended>>

Init == sent = 0 /\ received = <<>> /\ ~broken /\ ~closed /\ ~ended

Send == /\ ~closed
        /\ sent' \in Nat /\ sent' > sent
        /\ UNCHANGED <<received, broken, closed, ended>>

Receive == /\ ~ended
           /\ \E n \in 1..(sent - Len(received)) :
                received' = received \o [i \in 1..n |-> Len(received) + i]
           /\ UNCHANGED <<sent, broken, closed, ended>>

Break == broken' = TRUE /\ UNCHANGED <<sent, received, closed, ended>>

Close == closed' = TRUE /\ UNCHANGED <<sent, received, broken, ended>>

Finish == /\ broken \/ (closed /\ Len(received) = sent)
          /\ ended' = TRUE
          /\ UNCHANGED <<sent, received, broken, closed>>

Next == Send \/ Receive \/ Break \/ Close \/ Finish

Spec == Init /\ [][Next]_vars
=============================================================================
