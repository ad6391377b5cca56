---------------------------- MODULE MCLoraLink ----------------------------
(* Instances of LoraLink for TLC; the bounds are set in the .cfg files. *)
EXTENDS LoraLink
=============================================================================
