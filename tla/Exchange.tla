------------------------------- MODULE Exchange -------------------------------
(***************************************************************************)
(* What the try-it console promises its user: one request at a time, of    *)
(* the operation on show, and on show with an operation only the answer to *)
(* the last request made there.                                            *)
(***************************************************************************)
CONSTANTS Operation, Request, None

VARIABLES place,  \* the operation on show
          asked,  \* the request waiting for its answer, or None
          shown   \* the request whose answer is on show, or None

Init == place \in Operation /\ asked = None /\ shown = None

Ask == /\ asked = None /\ asked' \in Request /\ asked'.op = place
       /\ shown' = None /\ place' = place
Show == asked # None /\ shown' = asked /\ asked' = None /\ place' = place
GiveUp == asked # None /\ asked' = None /\ UNCHANGED <<place, shown>>
Move == place' \in Operation /\ asked' = None /\ shown' = None

Next == Ask \/ Show \/ GiveUp \/ Move

Spec == Init /\ [][Next]_<<place, asked, shown>>
=============================================================================
