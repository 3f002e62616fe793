-------------------------------- MODULE Heap --------------------------------
(* The memory the linked lists of kbuf.c and buffer.c live in: addresses   *)
(* that the allocator hands out, and the strings stored behind them.       *)

CONSTANTS
  Node,   (* addresses malloc and kmalloc can return                       *)
  Str,    (* strings                                                       *)
  NULL,   (* the null pointer                                              *)
  NoStr   (* contents of a data buffer nobody has written                  *)

ASSUME HeapAssumption == NULL \notin Node /\ NoStr \notin Str
=============================================================================
