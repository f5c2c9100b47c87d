------------------------------ MODULE OpenOnce ------------------------------
(***************************************************************************)
(* What the opening of store pages promises: a request to open a page is   *)
(* accepted, and then either its page is opened, once, or the request is   *)
(* dropped.  A dropped request never opens a page.                         *)
(***************************************************************************)
EXTENDS Naturals

CONSTANT Requests

VARIABLES
  accepted,   \* requests the desktop has taken on
  dropped,    \* requests given up
  opens       \* pages opened for each request

promise == <<accepted, dropped, opens>>

Open(r) ==
  /\ r \in accepted \ dropped
  /\ opens[r] = 0
  /\ opens' = [opens EXCEPT ![r] = 1]
  /\ UNCHANGED <<accepted, dropped>>

Accept(R) ==
  /\ R \cap accepted = {}
  /\ accepted' = accepted \cup R
  /\ UNCHANGED <<dropped, opens>>

Drop(R) ==
  /\ R \subseteq accepted \ dropped
  /\ \A r \in R : opens[r] = 0
  /\ dropped' = dropped \cup R
  /\ UNCHANGED <<accepted, opens>>

Init ==
  /\ accepted = {}
  /\ dropped = {}
  /\ opens = [r \in Requests |-> 0]

Next ==
  \/ \E r \in Requests : Open(r)
  \/ \E R \in SUBSET Requests : Accept(R) \/ Drop(R)
  \* a request refused or opened in the step that accepts it
  \/ \E r \in Requests \ accepted :
       /\ accepted' = accepted \cup {r}
       /\ \/ opens' = [opens EXCEPT ![r] = 1] /\ UNCHANGED dropped
          \/ dropped' = dropped \cup {r} /\ UNCHANGED opens

Spec == Init /\ [][Next]_promise
=============================================================================
