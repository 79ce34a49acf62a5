------------------------------ MODULE PositionBook ------------------------------
(***************************************************************************)
(* What the paper risk engine and the paper account both keep of a         *)
(* position: it opens once and closes once, for good; it is booked when it *)
(* closes, or later while the close still waits for funding, or not at     *)
(* all; a booking and a settled funding are never taken back.              *)
(***************************************************************************)
CONSTANT Positions

VARIABLES
    status,   \* absent, open or closed
    booked,   \* positions with a realised entry in the ledger
    awaiting  \* closed positions whose funding is not complete

Init ==
    /\ status = [p \in Positions |-> "absent"]
    /\ booked = {}
    /\ awaiting = {}

Enter(p) ==
    /\ status[p] = "absent"
    /\ status' = [status EXCEPT ![p] = "open"]
    /\ UNCHANGED <<booked, awaiting>>

Close(p) ==
    /\ status[p] = "open"
    /\ status' = [status EXCEPT ![p] = "closed"]
    /\ booked' \in {booked, booked \union {p}}
    /\ awaiting' \in {awaiting, awaiting \union {p}}

(* The only second chance a failed booking has. *)
Settle(p) ==
    /\ p \in awaiting
    /\ awaiting' \in {awaiting, awaiting \ {p}}
    /\ booked' \in {booked, booked \union {p}}
    /\ UNCHANGED status

Next == \E p \in Positions : Enter(p) \/ Close(p) \/ Settle(p)

Spec == Init /\ [][Next]_<<status, booked, awaiting>>

(* What is booked, or waits for funding, has closed. *)
BookedIsClosed == \A p \in booked \union awaiting : status[p] = "closed"

(* A close that was not booked with all its funding in is never booked:     *)
(* only reconciliation will say so.                                         *)
LeftUnbooked ==
    [][\A p \in Positions : status[p] = "closed" /\ p \notin booked \union awaiting
          => p \notin booked' \union awaiting']_<<status, booked, awaiting>>

================================================================================
