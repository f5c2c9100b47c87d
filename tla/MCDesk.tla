-------------------------------- MODULE MCDesk --------------------------------
(***************************************************************************)
(* What the operator decides and looks at: the plan and its purchase mode, *)
(* the review of an order, the update, and the push enrollment of his      *)
(* browser, which starts with a visible subscription.                      *)
(* They share no state, so that one of them moves in each behaviour and    *)
(* the state space is their sum.                                           *)
(***************************************************************************)
EXTENDS Plan, Review, Update, Enrollment

VARIABLE part

deskVars == <<vars, reviewVars, updateVars, enrollVars, part>>

\* Of the parts that do not move one initial state is enough.
DeskInit ==
  /\ part \in {"plan", "review", "update", "enrollment"}
  /\ Init /\ ReviewInit /\ UpdateInit /\ EnrollInit
  /\ sub.id = IF part = "enrollment" THEN 1 ELSE 0
  /\ part # "review" => ~combined /\ trust = Nothing /\ approved = [m \in Missions |-> Nothing]

PlanMoves ==
  part = "plan" /\ Next /\ UNCHANGED <<reviewVars, updateVars, enrollVars, part>>

ReviewMoves ==
  part = "review" /\ ReviewNext /\ UNCHANGED <<vars, updateVars, enrollVars, part>>

UpdateMoves ==
  part = "update" /\ UpdateNext /\ UNCHANGED <<vars, reviewVars, enrollVars, part>>

EnrollmentMoves ==
  part = "enrollment" /\ EnrollNext /\ UNCHANGED <<vars, reviewVars, updateVars, part>>

DeskNext == PlanMoves \/ ReviewMoves \/ UpdateMoves \/ EnrollmentMoves

DeskSpec == DeskInit /\ [][DeskNext]_deskVars
=============================================================================
