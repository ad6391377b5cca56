---------------------------- MODULE MCUnixSocket ----------------------------
(* Instances of UnixSocket for TLC; the bounds are set in the .cfg files. *)
EXTENDS UnixSocket
=============================================================================
