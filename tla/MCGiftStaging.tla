--------------------------- MODULE MCGiftStaging ---------------------------
(***************************************************************************)
(* Instances of GiftStaging for TLC.  Each run chooses which calls may end *)
(* badly, and how.                                                         *)
(***************************************************************************)
EXTENDS GiftStaging, TLC

Reads == {"fetch", "lookup", "read_for_edit", "read_for_status"}

\* Twenty always answers, once.
Reliable == [c \in Calls |-> {}]

\* Any call may fail, or be done and reported as failed, or be done twice.
Hostile == [c \in Calls |-> IF c \in Reads THEN {"failed"}
                            ELSE {"failed", "dropped", "retry"}]

\* The failures that sequential processing survives: the lock is always
\* written, POSTs and lookups are not ambiguous, updates may be.
Survivable ==
    [c \in Calls |->
        CASE c \in {"lock", "lookup"} -> {}
          [] c \in {"create_gift", "person", "fetch", "read_for_edit",
                     "read_for_status", "stage"} -> {"failed"}
          [] OTHER -> {"failed", "dropped", "retry"}]

\* Updates may fail, or be repeated; a gift may be created and reported as an
\* error.  Ids then suffice for every request.
Impatient == [c \in Calls |->
    CASE c \in {"edit", "status", "lock", "mark", "agreement"} ->
            {"failed", "dropped", "retry"}
      [] c \in {"fetch", "read_for_edit", "read_for_status"} -> {"failed"}
      [] c = "create_gift" -> {"dropped"}
      [] OTHER -> {}]

\* RecurringRows is empty or all of Rows wherever this is used.
Ids == Permutations(Rows) \cup Permutations(Gifts) \cup Permutations(People)
       \cup Permutations(Handlers)
=============================================================================
