--------------------------- MODULE MCManualEntry ---------------------------
(***************************************************************************)
(* Instance of ManualEntry for TLC.                                       *)
(***************************************************************************)
EXTENDS ManualEntry

\* Nobody is known by the details that are typed.
Unknown == [c \in Contacts |-> {{}}]
=============================================================================
