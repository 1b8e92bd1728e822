----------------------------- MODULE GiftLedger -----------------------------
(***************************************************************************)
(* What the staging component promises, with no handlers, calls or         *)
(* failures in sight: a donation is admitted, by a reviewer or by the      *)
(* auto-process decision; only an admitted donation is turned into gifts;  *)
(* a gift belongs to one donation for ever; and the gift a donation names  *)
(* as its own is one of those made from it.                                *)
(***************************************************************************)
CONSTANTS Rows, Gifts, NoGift

VARIABLES
    admitted, \* donations that may become gifts
    credited, \* the gifts made from each donation
    settled   \* the gift each donation names

ledgerVars == <<admitted, credited, settled>>

LedgerInit ==
    /\ admitted = {}
    /\ credited = [r \in Rows |-> {}]
    /\ settled = [r \in Rows |-> NoGift]

Admit(r) ==
    /\ admitted' = admitted \cup {r}
    /\ UNCHANGED <<credited, settled>>

Credit(r, g) ==
    /\ r \in admitted
    /\ \A q \in Rows : g \notin credited[q]
    /\ credited' = [credited EXCEPT ![r] = @ \cup {g}]
    /\ UNCHANGED <<admitted, settled>>

Settle(r, g) ==
    /\ g \in credited[r]
    /\ settled' = [settled EXCEPT ![r] = g]
    /\ UNCHANGED <<admitted, credited>>

LedgerNext ==
    \E r \in Rows :
        \/ Admit(r)
        \/ \E g \in Gifts : Credit(r, g) \/ Settle(r, g)

LedgerSpec == LedgerInit /\ [][LedgerNext]_ledgerVars
=============================================================================
