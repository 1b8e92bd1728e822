---------------------------- MODULE MCSchemaSetup ---------------------------
(***************************************************************************)
(* Instance of SchemaSetup for TLC: an excerpt of the script's plan that   *)
(* has steps of each kind, in their order.                                 *)
(***************************************************************************)
EXTENDS SchemaSetup, FundraisingSchema

Excerpt == <<Appeal[1], Gift[1]>> \o Opportunity \o SubSeq(GiftRelations, 4, 5)

MCCore == {<<"person">>, <<"company">>, <<"opportunity">>}

\* The whole plan is one the theorems are about.
ASSUME MainAssumption == StepsOf(Main) /\ NoClash(Main)

MCInstalls == {MCCore, MCCore \ {<<"opportunity">>}}

\* A field of that name has been made by hand.
MCReserved == {<<"appeal", "gifts">>}
=============================================================================
