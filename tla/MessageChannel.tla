--------------------------- MODULE MessageChannel ---------------------------
(***************************************************************************)
(* What a connection promises the applications at its two ends: each end   *)
(* gets the messages the other one sent, each once, in the order in which  *)
(* they were accepted, and none after it closed.  Messages are numbered by *)
(* the order in which Send accepted them.                                  *)
(***************************************************************************)
EXTENDS Naturals, Sequences

VARIABLES accepted,  \* how many messages each end has accepted from its application
          received,  \* what each end has handed to its application
          closed     \* which ends have closed

Ends == {"client", "server"}
Other(e) == IF e = "client" THEN "server" ELSE "client"

Init ==
    /\ accepted = [e \in Ends |-> 0]
    /\ received = [e \in Ends |-> <<>>]
    /\ closed = [e \in Ends |-> FALSE]

Accept(e) ==
    /\ ~closed[e]
    /\ accepted' = [accepted EXCEPT ![e] = @ + 1]
    /\ UNCHANGED <<received, closed>>

Receive(e) ==
    /\ ~closed[e] /\ Len(received[e]) < accepted[Other(e)]
    /\ received' = [received EXCEPT ![e] = Append(@, Len(@) + 1)]
    /\ UNCHANGED <<accepted, closed>>

Close(e) ==
    /\ ~closed[e]
    /\ closed' = [closed EXCEPT ![e] = TRUE]
    /\ UNCHANGED <<accepted, received>>

Next == \E e \in Ends : Accept(e) \/ Receive(e) \/ Close(e)

Spec == Init /\ [][Next]_<<accepted, received, closed>>
=============================================================================
