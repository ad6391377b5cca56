---------------------------- MODULE MCReassembly ----------------------------
(* Reassembly with messages of one, two and three fragments. *)
EXTENDS Reassembly

MCFrags == <<2, 1, 3, 1>>
MCKind == <<"MSG", "FLAGS", "MSG", "MSG">>
=============================================================================
