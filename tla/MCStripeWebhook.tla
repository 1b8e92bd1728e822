-------------------------- MODULE MCStripeWebhook --------------------------
(***************************************************************************)
(* Instances of StripeWebhook: one session of each kind that the service   *)
(* tells apart.                                                            *)
(***************************************************************************)
EXTENDS StripeWebhook

CONSTANTS email, name, nameless, unlinked, agr

MCAgreement == [s \in Sessions |-> IF s = email THEN agr ELSE NoAgreement]
MCSubscribed == {email, unlinked} \cap Sessions

AllFaults == [c \in Calls |-> {"failed", "dropped", "repeated"}]

\* A call that fails did nothing; staging and the agreement's update succeed.
CleanFaults == [c \in Calls |-> IF c \in {"person", "gift"} THEN {"failed"} ELSE {}]
=============================================================================
