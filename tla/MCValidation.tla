---------------------------- MODULE MCValidation ----------------------------
(* A small instance of Validation with the default scores of the code: one *)
(* device (devices share nothing but the clock), three places of which one *)
(* is out of reach for either aircraft.                                     *)
EXTENDS Validation, TLC

CONSTANTS d1, slow, fast

MCMaxSpeed == slow :> 1 @@ fast :> 2
=============================================================================
