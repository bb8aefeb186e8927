----------------------------- MODULE NameTable -----------------------------
(***************************************************************************)
(* What the typedef table asks of the tree that holds it: a set of names,  *)
(* to which one is added at a time unless it is there already.             *)
(***************************************************************************)
CONSTANTS Key,  \* what is put into the set
          None  \* no key

VARIABLES members, \* the set
          request  \* the key being inserted, or None

vars == <<members, request>>

Init == members = {} /\ request = None

Ask ==
  /\ request = None
  /\ request' \in Key
  /\ UNCHANGED members

Add ==
  /\ request # None
  /\ members' = members \cup {request}
  /\ members' # members
  /\ UNCHANGED request

Answer ==
  /\ request \in members
  /\ request' = None
  /\ UNCHANGED members

Next == Ask \/ Add \/ Answer

\* Whatever was asked for is answered.
Spec == Init /\ [][Next]_vars /\ WF_vars(Add \/ Answer)
=============================================================================
