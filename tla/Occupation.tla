----------------------------- MODULE Occupation -----------------------------
(***************************************************************************)
(* The control loop the two kernel threads make up: kt_stat samples the    *)
(* length of the FIFO, kt_realloc sets its maximum size from the average   *)
(* of the samples, and the size limits the length in turn.  The FIFO is    *)
(* its length, a call is the step at which it changes it; sizes are the    *)
(* real ones (START_KB_DIM = 5), which MyDev is too large for.             *)
(*                                                                         *)
(* lo and hi are no part of the code: the smallest and the largest sample  *)
(* since the last reallocation.                                            *)
(***************************************************************************)
EXTENDS DsAlloc

CONSTANTS
  START_KB_DIM,   (* initial maximum size                                  *)
  MaxLevel,       (* bound: length of the FIFO                             *)
  MaxSamples      (* bound: samples between two reallocations              *)

ASSUME SizesAssumption ==
  START_KB_DIM \in Nat \ {0, 1} /\ MaxLevel \in Nat /\ MaxSamples \in Nat

VARIABLES level, kb_dim, kb_sum, kb_max, lo, hi

ovars == <<level, kb_dim, kb_sum, kb_max, lo, hi>>

OccInit ==
  /\ level = 0
  /\ kb_dim = 0
  /\ kb_sum = 0
  /\ kb_max = START_KB_DIM
  /\ lo = 0 /\ hi = 0

Write ==
  /\ level < kb_max
  /\ level < MaxLevel
  /\ level' = level + 1
  /\ UNCHANGED <<kb_dim, kb_sum, kb_max, lo, hi>>

Read ==
  /\ level # 0
  /\ level' = level - 1
  /\ UNCHANGED <<kb_dim, kb_sum, kb_max, lo, hi>>

(* ds_add_kb_value *)
Sample ==
  /\ kb_dim < MaxSamples
  /\ kb_dim' = kb_dim + 1
  /\ kb_sum' = kb_sum + level
  /\ lo' = IF kb_dim = 0 \/ level < lo THEN level ELSE lo
  /\ hi' = IF kb_dim = 0 \/ level > hi THEN level ELSE hi
  /\ UNCHANGED <<level, kb_max>>

(* Slip: the sum is not reset. *)
Realloc_KeepsSum ==
  /\ kb_dim # 0
  /\ kb_max' = realloc_size(kb_sum, kb_dim, kb_max)
  /\ kb_dim' = 0
  /\ UNCHANGED <<level, kb_sum, lo, hi>>

(* The body of kt_realloc; without a sample it traps *)
Realloc ==
  /\ kb_dim # 0
  /\ kb_max' = realloc_size(kb_sum, kb_dim, kb_max)
  /\ kb_dim' = 0
  /\ kb_sum' = 0
  /\ UNCHANGED <<level, lo, hi>>

OccNext == Write \/ Read \/ Sample \/ Realloc

OccSpec == OccInit /\ [][OccNext]_ovars

-----------------------------------------------------------------------------
med_occ == my_div(kb_sum, kb_dim)

(* "Calculate average kbuf size": the number kt_realloc works with is an   *)
(* average, so it lies between the samples.  It takes two samples or more: *)
(* my_div(a, 1) is a + 1 (PartsProofs, MyDivByOne).                        *)
AverageOfSeveral == kb_dim >= 2 => lo <= med_occ /\ med_occ <= hi

(* "Min 2 otherwise stuck on 1": a FIFO that was full at every sample gets *)
(* a larger maximum size, from wherever earlier reallocations left it, so  *)
(* that a lasting burst of writes is always given more room.               *)
FullGrows == [][Realloc /\ lo >= kb_max => kb_max' > kb_max]_ovars

(* "Try to keep kbuf occupation around 75%": at the size kt_realloc leaves *)
(* behind, an average of two strings or more occupies 67% to 80%, whether  *)
(* it changed the size or kept it; a smaller one is given two places.      *)
AroundKbOcc ==
  [][Realloc =>
       IF med_occ >= 2
       THEN calculate_per(med_occ, kb_max') \in 67 .. 80
       ELSE kb_max' = 2]_ovars
=============================================================================
