------------------------------ MODULE MCParts -------------------------------
(***************************************************************************)
(* The parts of the system that a mutex makes sequential: the linked list  *)
(* of the module with the statistics (DsStat), the linked list of the      *)
(* programs (WBuf), and the size of the FIFO (Occupation).  They share     *)
(* nothing at run time: a behaviour is one of one part.  Strings have      *)
(* lengths 0, 1 and 3.                                                     *)
(***************************************************************************)
EXTENDS DsStat, WBuf, Occupation, TLC

CONSTANTS s0, s1, s3

VARIABLE part   (* the one this behaviour is about *)

Strings == {s0, s1, s3}

Lengths == s0 :> 0 @@ s1 :> 1 @@ s3 :> 3

PartsInit ==
  /\ part \in {"kbuf", "wbuf", "size"}
  /\ StatInit /\ WbInit /\ OccInit
  /\ part # "kbuf" => next = [n \in Node |-> NULL]
  /\ part # "wbuf" => wnext = [n \in Node |-> NULL]

PartsNext ==
  /\ UNCHANGED part
  /\ \/ part = "kbuf" /\ StatNext /\ UNCHANGED <<wvars, ovars>>
     \/ part = "wbuf" /\ WbNext /\ UNCHANGED <<kvars, svars, ovars>>
     \/ part = "size" /\ OccNext /\ UNCHANGED <<kvars, svars, wvars>>

PartsSpec == PartsInit /\ [][PartsNext]_<<part, kvars, svars, wvars, ovars>>

Symmetry == Permutations(Node)
=============================================================================
