------------------------------ MODULE JobBoard ------------------------------
(***************************************************************************)
(* What the IntegrationQueue table promises to whoever looks at it while   *)
(* nothing goes wrong underneath: a row is created pending, is claimed     *)
(* once, and is settled once, as processed or as failed.  A settled row    *)
(* never changes again, and no row is left unsettled for ever.             *)
(*                                                                         *)
(* IntegrationSync is the detailed design; it is shown to implement Spec   *)
(* while no crash, no lost database write and no doubly stored job has     *)
(* happened.                                                               *)
(***************************************************************************)
CONSTANT Jobs        \* the ids a row can have

VARIABLE row         \* row[j]: the status column of row j, or "absent"

Settled   == {"processed", "failed"}
RowStatus == {"absent", "pending", "processing"} \cup Settled

TypeOK == row \in [Jobs -> RowStatus]

Init == row = [j \in Jobs |-> "absent"]

Move(j, from, to) == row[j] \in from /\ row' = [row EXCEPT ![j] = to]

Create(j) == Move(j, {"absent"}, "pending")
Claim(j)  == Move(j, {"pending"}, "processing")
Settle(j) == \E outcome \in Settled : Move(j, {"processing"}, outcome)

Next == \E j \in Jobs : Create(j) \/ Claim(j) \/ Settle(j)

Fairness == \A j \in Jobs : WF_row(Claim(j)) /\ WF_row(Settle(j))

Spec == Init /\ [][Next]_row /\ Fairness
=============================================================================
