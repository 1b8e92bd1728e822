-------------------------- MODULE MCTwentyRequest --------------------------
(***************************************************************************)
(* TwentyRequest with the number of attempts of TwentyApiService.          *)
(***************************************************************************)
EXTENDS TwentyRequest
=============================================================================
