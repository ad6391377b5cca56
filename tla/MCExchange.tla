----------------------------- MODULE MCExchange -----------------------------
(* Exchange with a text of two packets and one that fills a single block. *)
EXTENDS Exchange

MCText ==
    << [i \in 1 .. 130 |-> i],            \* two packets
       [i \in 1 .. 16 |-> 16],            \* a full block, not like a padding
       [i \in 1 .. 5 |-> 5] >>

MCFrags == [m \in Messages |-> totalFragments(Len(MCText[m]))]
MCKind == [m \in Messages |-> "MSG"]
MCCommands ==
    << [cmd |-> "TEXT", text |-> MCText[1]], [cmd |-> "PRESET", text |-> MCText[3]] >>
=============================================================================
