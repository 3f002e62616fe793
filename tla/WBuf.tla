-------------------------------- MODULE WBuf --------------------------------
(***************************************************************************)
(* The linked list of Writer/buffer.c and Reader/buffer.c, pointer by      *)
(* pointer, and what the SIGINT handlers of write.c and read.c do to it:   *)
(* they take the nodes away from under it by clearing head and count, but  *)
(* leave tail where it is and free nothing.  Every caller holds the mutex  *)
(* of the buffer, so one operation is one step.                            *)
(*                                                                         *)
(* wchain and wlost are no part of the code: the nodes in the list, in     *)
(* order, and the ones the handler dropped.                                *)
(***************************************************************************)
EXTENDS Heap, Integers, Sequences

VARIABLES
  whead, wtail, wcount,   (* struct wbuf, without done                     *)
  wnext, wdata,           (* struct wbe of every address                   *)
  wlive,                  (* allocated nodes                               *)
  wout,                   (* the string wbuf_ext returned                  *)
  caught,                 (* the handler has run                           *)
  wchain, wlost           (* auxiliary                                     *)

wvars == <<whead, wtail, wcount, wnext, wdata, wlive, wout, caught, wchain, wlost>>

(* wbuf_init, on a heap in any condition *)
WbInit ==
  /\ whead = NULL
  /\ wtail = NULL
  /\ wcount = 0
  /\ wnext \in [Node -> Node \cup {NULL}]
  /\ wdata = [n \in Node |-> NoStr]
  /\ wlive = {}
  /\ wout = NoStr
  /\ caught = FALSE
  /\ wchain = <<>>
  /\ wlost = {}

(* Slip: the empty list is recognised by its tail. *)
EmptyBeforeIns_Tail == wtail = NULL

EmptyBeforeIns == whead = NULL

wbuf_ins(value) ==
  \E new \in Node \ wlive :
    /\ wlive' = wlive \cup {new}
    /\ wdata' = [wdata EXCEPT ![new] = value]
    /\ wnext' = IF EmptyBeforeIns
                THEN [wnext EXCEPT ![new] = NULL]
                ELSE [wnext EXCEPT ![new] = NULL, ![wtail] = new]
    /\ whead' = IF EmptyBeforeIns THEN new ELSE whead
    /\ wtail' = new
    /\ wcount' = wcount + 1
    /\ wchain' = Append(wchain, new)
    /\ UNCHANGED <<wout, caught, wlost>>

(* Slip: free leaves out the node. *)
Freed_Nothing == {}

Freed == {whead}

(* Slip: the string is copied from where head points by then. *)
Extracted_NewHead == IF wnext[whead] = NULL THEN NoStr ELSE wdata[wnext[whead]]

Extracted == wdata[whead]

(* wbuf_ext follows head without a test: elaborate_data, write_dev and     *)
(* print_data make it before the call.                                     *)
wbuf_ext ==
  /\ whead # NULL
  /\ whead' = wnext[whead]
  /\ wtail' = IF whead' = NULL THEN NULL ELSE wtail
  /\ wcount' = wcount - 1
  /\ wout' = Extracted
  /\ wlive' = wlive \ Freed
  /\ wchain' = Tail(wchain)
  /\ UNCHANGED <<wnext, wdata, caught, wlost>>

(* The handler drops the contents, on the first signal only. *)
drop ==
  /\ ~ caught
  /\ caught' = TRUE
  /\ whead' = NULL
  /\ wcount' = 0
  /\ wlost' = wlost \cup {wchain[i] : i \in 1 .. Len(wchain)}
  /\ wchain' = <<>>
  /\ UNCHANGED <<wtail, wnext, wdata, wlive, wout>>

WbNext == wbuf_ext \/ drop \/ \E value \in Str : wbuf_ins(value)

WbSpec == WbInit /\ [][WbNext]_wvars

-----------------------------------------------------------------------------
(* Types of the fields of struct wbuf and struct wbe. *)
WbTypeOK ==
  /\ whead \in Node \cup {NULL}
  /\ wtail \in Node \cup {NULL}
  /\ wcount \in Nat
  /\ wnext \in [Node -> Node \cup {NULL}]
  /\ wdata \in [Node -> Str \cup {NoStr}]
  /\ wlive \subseteq Node
  /\ wout \in Str \cup {NoStr}
  /\ caught \in BOOLEAN
  /\ wchain \in Seq(Node)
  /\ wlost \subseteq Node

(* Following next from head visits the nodes inserted since the last drop, *)
(* in order, each once, and ends at tail, although the handler leaves tail *)
(* on a node that is no longer in the list; and count, by which            *)
(* elaborate_data multiplies its pause, is their number.                   *)
WListIntact ==
  /\ wcount = Len(wchain)
  /\ whead = IF wchain = <<>> THEN NULL ELSE wchain[1]
  /\ wchain # <<>> => wtail = wchain[Len(wchain)]
  /\ \A i \in 1 .. Len(wchain) :
       /\ wnext[wchain[i]] = IF i = Len(wchain) THEN NULL ELSE wchain[i + 1]
       /\ wdata[wchain[i]] \in Str
       /\ \A j \in 1 .. Len(wchain) : wchain[i] = wchain[j] => i = j

(* The nodes in the list and the ones the handler dropped are all that is  *)
(* allocated, no node is both, and even a tail the handler left behind     *)
(* points at allocated memory: the stale pointer is a leak, not a write to *)
(* freed memory.                                                           *)
OnlyDropLeaks ==
  /\ wlive = wlost \cup {wchain[i] : i \in 1 .. Len(wchain)}
  /\ \A i \in 1 .. Len(wchain) : wchain[i] \notin wlost
  /\ wtail # NULL => wtail \in wlive

wcontents == [i \in 1 .. Len(wchain) |-> wdata[wchain[i]]]

WQueue == INSTANCE StringQueue WITH q <- wcontents, out <- wout

(* wbuf_ins, wbuf_ext and the handler together are a queue that can be     *)
(* emptied: what is inserted after the drop comes out, what was in before  *)
(* never does.                                                             *)
ImplementsClearable == WQueue!ClearableSpec
=============================================================================
