------------------------------ MODULE MCClient ------------------------------
(* Two of the eight keys, both for left.                                    *)
EXTENDS Client

MCKeys == {"a", "left"}
MCDirectionOf == [k \in MCKeys |-> "LEFT"]
=============================================================================
