---------------------------- MODULE MCSpscQueue ----------------------------
(* The queue lane with a ring of two slots and five values, enough for the *)
(* ring to fill, to wrap and to be closed with values still in it.         *)
EXTENDS SpscQueue
============================================================================
