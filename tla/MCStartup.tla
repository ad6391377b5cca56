----------------------------- MODULE MCStartup -----------------------------
(* Startup with both presets, a message of two packets and one packet heard. *)
EXTENDS Startup
=============================================================================
