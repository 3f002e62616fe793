------------------------------ MODULE MCWriter ------------------------------
(* Writer for TLC, with a negative argument, 0 (loop) and 2. *)
EXTENDS Writer

Arguments == {-2, 0, 2}
=============================================================================
