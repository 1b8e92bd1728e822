----------------------------- MODULE MCSession -----------------------------
(***************************************************************************)
(* An instance of Session for TLC: the requests of one tab, and other tabs *)
(* that load pages.                                                        *)
(***************************************************************************)
EXTENDS Session

CONSTANT t1

OneTab == [r \in Requests |-> t1]
=============================================================================
