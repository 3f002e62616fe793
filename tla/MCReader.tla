------------------------------ MODULE MCReader ------------------------------
(* Reader for TLC: to_upper, and a negative argument, 0 (loop) and 2. *)
EXTENDS Reader

Arguments == {-2, 0, 2}

ToUpper == -32
=============================================================================
