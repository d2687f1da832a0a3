------------------------- MODULE MCHealthAssessment -------------------------
(* Values of the constants of HealthAssessment for TLC. *)
EXTENDS HealthAssessment

CONSTANTS o1, o2

Ranks == [o \in {o1, o2} |-> IF o = o1 THEN 1 ELSE 2]
SomeSymptoms == {{}, {"service", "resource"}}

=============================================================================
