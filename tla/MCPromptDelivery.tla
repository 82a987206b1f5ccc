-------------------------- MODULE MCPromptDelivery --------------------------
(***************************************************************************)
(* A small instance of PromptDelivery: an observed and an unobserved       *)
(* request, a wakeup and a hold.                                           *)
(***************************************************************************)
EXTENDS PromptDelivery
=============================================================================
