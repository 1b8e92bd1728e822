----------------------------- MODULE TwentyCall -----------------------------
(***************************************************************************)
(* What the rest of the service may assume of one call of Twenty: it is    *)
(* carried out any number of times up to the number of attempts, never     *)
(* acknowledged before it was carried out, and answered once.  An attempt  *)
(* may still be carried out after the answer.                              *)
(***************************************************************************)
CONSTANT Attempts

VARIABLES
    applied, \* the attempts that Twenty carried out
    result   \* "pending", "returned" or "thrown"

callVars == <<applied, result>>

CallInit == applied = {} /\ result = "pending"

Apply(a) ==
    /\ applied' = applied \cup {a}
    /\ UNCHANGED result

Return ==
    /\ result = "pending"
    /\ applied # {}
    /\ result' = "returned"
    /\ UNCHANGED applied

Throw ==
    /\ result = "pending"
    /\ result' = "thrown"
    /\ UNCHANGED applied

CallNext == Return \/ Throw \/ \E a \in Attempts : Apply(a)

CallSpec == CallInit /\ [][CallNext]_callVars
=============================================================================
