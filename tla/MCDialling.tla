---- MODULE MCDialling ----
(* Bounds for Dialling: the two have met, or only one remembers it.        *)
EXTENDS Dialling

Remembered == [Devices -> BOOLEAN] \ {[d \in Devices |-> FALSE]}
====
