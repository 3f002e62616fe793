------------------------------- MODULE DsStat -------------------------------
(***************************************************************************)
(* The "stat section" of struct ds (Module/stat.c) and the pass kt_stat    *)
(* makes over the list of KBuf with it: ds_populate sizes an array by      *)
(* count, kb_scan fills it by following the pointers, and ds_med, ds_max   *)
(* and ds_min fold it.  kt_stat holds dev_mutex all along, so kb_push and  *)
(* kb_pop come before or after a pass, never during it.                    *)
(***************************************************************************)
EXTENDS KBuf, Functions, FiniteSetsExt

CONSTANTS
  strlen,    (* length of each string                                      *)
  Garbage    (* an element of a fresh array                                *)

ASSUME StrlenAssumption == strlen \in [Str -> Nat] /\ Garbage \notin Nat

VARIABLES
  phase,     (* "idle", or where kt_stat is: "scan", "report"              *)
  ds_dim,    (* number of elements of ds_list                              *)
  ds_list,   (* the array of lengths                                       *)
  ptr, idx,  (* kb_scan's p and i                                          *)
  report     (* dim, med, max, min as last printed                         *)

svars == <<phase, ds_dim, ds_list, ptr, idx, report>>

(* ds_init_stat *)
NewArray(dim) == [k \in 0 .. dim - 1 |-> Garbage]

Plus(x, y) == x + y

Larger(x, y) == IF x < y THEN y ELSE x

Smaller(x, y) == IF x > y THEN y ELSE x

ds_med == FoldFunction(Plus, 0, ds_list) \div ds_dim

ds_max == FoldFunction(Larger, 0, ds_list)

(* Slip: the minimum starts from 0, like the maximum. *)
ds_min_FromZero(max) == FoldFunction(Smaller, 0, ds_list)

ds_min(max) == IF max = 0 THEN 0 ELSE FoldFunction(Smaller, max, ds_list)

(* kb_push and kb_pop, between two passes *)
Use == phase = "idle" /\ KbNext /\ UNCHANGED svars

(* ds_populate, up to the loop of kb_scan; an empty list it leaves alone *)
Populate ==
  /\ phase = "idle" /\ count # 0
  /\ ds_dim' = count
  /\ ds_list' = NewArray(count)
  /\ ptr' = head
  /\ idx' = 0
  /\ phase' = "scan"
  /\ UNCHANGED <<report, kvars>>

(* One turn of kb_scan's loop.  A store past the end of the array would    *)
(* leave ds_list as it is, and ScanFits says there is none.                *)
Scan ==
  /\ phase = "scan" /\ ptr # NULL
  /\ ds_list' = [ds_list EXCEPT ![idx] = strlen[data[ptr]]]
  /\ idx' = idx + 1
  /\ ptr' = next[ptr]
  /\ UNCHANGED <<phase, ds_dim, report, kvars>>

ScanEnd ==
  /\ phase = "scan" /\ ptr = NULL
  /\ phase' = "report"
  /\ UNCHANGED <<ds_dim, ds_list, ptr, idx, report, kvars>>

(* What kt_stat prints, and ds_reset_stat *)
Report ==
  /\ phase = "report"
  /\ report' = [dim |-> ds_dim, med |-> ds_med, max |-> ds_max, min |-> ds_min(ds_max)]
  /\ ds_dim' = 0
  /\ ds_list' = <<>>
  /\ phase' = "idle"
  /\ UNCHANGED <<ptr, idx, kvars>>

NoReport == [dim |-> 0, med |-> 0, max |-> 0, min |-> 0]

StatInit ==
  /\ KbInit
  /\ phase = "idle"
  /\ ds_dim = 0
  /\ ds_list = <<>>
  /\ ptr = NULL /\ idx = 0
  /\ report = NoReport

StatNext == Use \/ Populate \/ Scan \/ ScanEnd \/ Report

StatSpec == StatInit /\ [][StatNext]_<<kvars, svars>>

-----------------------------------------------------------------------------
(* kb_scan, which stops at NULL, never stores past the array, which        *)
(* ds_populate sized by count; and when it stops it has filled it, so that *)
(* no uninitialised element enters the statistics.                         *)
ScanFits ==
  /\ phase = "scan" /\ ptr # NULL => idx < ds_dim
  /\ phase = "report" => ds_list \in [0 .. count - 1 -> Nat]

lengths == [k \in 1 .. Len(chain) |-> strlen[data[chain[k]]]]

(* The numbers kt_stat prints are the ones its message names: the number   *)
(* of strings, and the average (rounded down), largest and smallest of     *)
(* their lengths.  ds_min relies on being passed the maximum, and ds_max   *)
(* on lengths not being negative.                                          *)
ReportRight ==
  [][Report =>
       /\ report'.dim = Len(chain)
       /\ report'.max = Max(Range(lengths))
       /\ report'.min = Min(Range(lengths))
       /\ report'.med * Len(chain) <= FoldFunction(Plus, 0, lengths)
       /\ FoldFunction(Plus, 0, lengths) < (report'.med + 1) * Len(chain)
    ]_<<kvars, svars>>
=============================================================================
