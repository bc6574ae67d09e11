----------------------------- MODULE MCGenerator -----------------------------
(* Small instances of the data generator for TLC: the weights of the code
   divided by five, and coarse units of time. *)
EXTENDS DataGenerator

Fifths       == <<<<"A", 9>>, <<"B", 6>>, <<"C", 5>>>>
SoftFifths   == <<<<"A", 8>>, <<"B", 7>>, <<"C", 5>>>>
=============================================================================
