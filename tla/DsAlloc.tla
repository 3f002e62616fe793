------------------------------ MODULE DsAlloc ------------------------------
(***************************************************************************)
(* The "alloc section" of struct ds (Module/stat.c, Module/stat.h): the    *)
(* integer arithmetic with which the reallocation thread turns the samples *)
(* of the statistics thread into a new maximum size of the kernel buffer.  *)
(* All arguments are non-negative C ints and stay far below 2^31: the      *)
(* largest intermediate value is 100 times the number of buffered strings. *)
(***************************************************************************)
EXTENDS Integers

(* Kernel buffer occupation the reallocator aims at, in percent. *)
KB_OCC == 75

(* Slip: the quotient is truncated. *)
my_div_Floor(a, b) == a \div b

(* Rounding division.  The callers may pass b = 0, which traps: they test  *)
(* it before they use the value.                                           *)
my_div(a, b) ==
  LET res == a % b
      mod == a \div b
  IN  IF res >= b \div 2 THEN mod + 1 ELSE mod

calculate_per(a, b) == my_div(a * 100, b)

(* Percentage of `max' that the average of the samples occupies. *)
ds_get_kb_occupation(sum, dim, max) == calculate_per(my_div(sum, dim), max)

(* Slip: the least size is 1. *)
ds_set_kb_occupation_Min1(value) ==
  IF value <= 1 THEN 1 ELSE my_div(value * 100, KB_OCC)

(* The size at which `value' strings occupy KB_OCC percent, and at least 2. *)
ds_set_kb_occupation(value) ==
  IF value <= 1 THEN 2 ELSE my_div(value * 100, KB_OCC)

(* The size kt_realloc leaves behind, from the samples and the old size.   *)
realloc_size(sum, dim, max) ==
  IF ds_get_kb_occupation(sum, dim, max) # KB_OCC
  THEN ds_set_kb_occupation(my_div(sum, dim))
  ELSE max
=============================================================================
