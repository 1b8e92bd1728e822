--------------------------- MODULE MCClientPages ----------------------------
(***************************************************************************)
(* Instance of ClientPages for TLC.                                        *)
(***************************************************************************)
EXTENDS ClientPages

\* A gift of the queue in a batch, and one in none.
OneInBatch == CHOOSE f \in [QueuedGifts -> Batches \cup {None}] :
                  \E p, q \in QueuedGifts : f[p] # None /\ f[q] = None

\* People are added, merged and removed while the form is open.
Changing == [c \in EntryContacts |-> SUBSET Donors]
=============================================================================
