-------------------------------- MODULE MCStore --------------------------------
(***************************************************************************)
(* What the missions of one store share: the purchase lane, here of two    *)
(* missions in a combined order, and the pace of page loads.  The two      *)
(* share no state, so that one of them moves in each behaviour and the     *)
(* state space is their sum.                                               *)
(***************************************************************************)
EXTENDS MCLane, Traffic

VARIABLE part

storeVars == <<vars, trafficVars, part>>

StoreInit == part \in {"lane", "pace"} /\ Init /\ TrafficInit

LaneMoves == part = "lane" /\ Next /\ UNCHANGED <<trafficVars, part>>

PaceMoves == part = "pace" /\ TrafficNext /\ UNCHANGED <<vars, part>>

StoreSpec == StoreInit /\ [][LaneMoves \/ PaceMoves]_storeVars

================================================================================
