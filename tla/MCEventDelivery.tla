--------------------------- MODULE MCEventDelivery --------------------------
(* Instances of EventDelivery for TLC. *)
EXTENDS EventDelivery

CONSTANTS e1, e2, s1, s2

OneSubject == [e \in Events |-> s1]
TwoSubjects == [e \in Events |-> IF e = e1 THEN s1 ELSE s2]
============================================================================
