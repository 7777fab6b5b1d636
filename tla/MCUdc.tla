------------------------------- MODULE MCUdc -------------------------------
EXTENDS Udc

MCReqs == {"o", "p", "i", "s"}
MCEpOf == [r \in MCReqs |-> CASE r \in {"o", "p"} -> 1 [] r = "i" -> 2 [] r = "s" -> 3]
MCGadgets == {{1}, {2, 3}}
=============================================================================
