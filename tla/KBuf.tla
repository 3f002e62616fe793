-------------------------------- MODULE KBuf --------------------------------
(***************************************************************************)
(* The linked list of Module/kbuf.c, pointer by pointer.  A node of the    *)
(* heap is an element of Node; kmalloc returns any node that is not live,  *)
(* kfree gives one back and leaves its fields as they are.  One operation  *)
(* is one step: every caller in main.c holds dev_mutex.                    *)
(*                                                                         *)
(* chain is no part of the code: it records which nodes are in the list,   *)
(* in order, and no action reads it.                                       *)
(***************************************************************************)
EXTENDS Heap, Integers, Sequences

VARIABLES
  head, tail, count,   (* struct kb                                        *)
  next, data,          (* struct kb_node of every address                  *)
  live,                (* allocated nodes                                  *)
  out,                 (* what kb_pop copied to its caller's buffer        *)
  chain                (* auxiliary                                        *)

kvars == <<head, tail, count, next, data, live, out, chain>>

(* kb_init, on a heap in any condition *)
KbInit ==
  /\ head = NULL
  /\ tail = NULL
  /\ count = 0
  /\ next \in [Node -> Node \cup {NULL}]
  /\ data = [n \in Node |-> NoStr]
  /\ live = {}
  /\ out = NoStr
  /\ chain = <<>>

kb_isempty == head = NULL

kb_isfull(max) == ~ (count < max)

(* Slip: count grows only when the list was not empty. *)
kb_push_CountElse(s) ==
  \E node \in Node \ live :
    /\ live' = live \cup {node}
    /\ data' = [data EXCEPT ![node] = s]
    /\ next' = [n \in Node |-> IF n = node THEN NULL ELSE IF n = tail THEN node ELSE next[n]]
    /\ head' = IF head = NULL THEN node ELSE head
    /\ tail' = node
    /\ count' = IF head = NULL THEN count ELSE count + 1
    /\ chain' = Append(chain, node)
    /\ UNCHANGED out

(* The node is filled in, then linked: at the head of an empty list, behind *)
(* the tail of any other.                                                  *)
kb_push(s) ==
  \E node \in Node \ live :
    /\ live' = live \cup {node}
    /\ data' = [data EXCEPT ![node] = s]
    /\ IF head = NULL
       THEN /\ next' = [next EXCEPT ![node] = NULL]
            /\ head' = node
       ELSE /\ next' = [next EXCEPT ![node] = NULL, ![tail] = node]
            /\ UNCHANGED head
    /\ tail' = node
    /\ count' = count + 1
    /\ chain' = Append(chain, node)
    /\ UNCHANGED out

(* Slips: tail keeps pointing at the node that is freed; the node is not   *)
(* freed; the string is copied from where head points by then.             *)
kb_pop_StaleTail ==
  /\ ~ kb_isempty
  /\ head' = next[head]
  /\ count' = count - 1
  /\ out' = data[head]
  /\ live' = live \ {head}
  /\ chain' = Tail(chain)
  /\ UNCHANGED <<tail, next, data>>

kb_pop_Leak ==
  /\ ~ kb_isempty
  /\ head' = next[head]
  /\ tail' = IF head' = NULL THEN NULL ELSE tail
  /\ count' = count - 1
  /\ out' = data[head]
  /\ chain' = Tail(chain)
  /\ UNCHANGED <<next, data, live>>

kb_pop_NewHead ==
  /\ ~ kb_isempty
  /\ head' = next[head]
  /\ tail' = IF head' = NULL THEN NULL ELSE tail
  /\ count' = count - 1
  /\ out' = IF head' = NULL THEN NoStr ELSE data[head']
  /\ live' = live \ {head}
  /\ chain' = Tail(chain)
  /\ UNCHANGED <<next, data>>

(* On an empty list kb_pop returns 1 and changes nothing. *)
kb_pop ==
  /\ ~ kb_isempty
  /\ head' = next[head]
  /\ tail' = IF head' = NULL THEN NULL ELSE tail
  /\ count' = count - 1
  /\ out' = data[head]
  /\ live' = live \ {head}
  /\ chain' = Tail(chain)
  /\ UNCHANGED <<next, data>>

KbNext == kb_pop \/ \E s \in Str : kb_push(s)

KbSpec == KbInit /\ [][KbNext]_kvars

-----------------------------------------------------------------------------
(* Types of the fields of struct kb and struct kb_node. *)
KbTypeOK ==
  /\ head \in Node \cup {NULL}
  /\ tail \in Node \cup {NULL}
  /\ count \in Nat
  /\ next \in [Node -> Node \cup {NULL}]
  /\ data \in [Node -> Str \cup {NoStr}]
  /\ live \subseteq Node
  /\ out \in Str \cup {NoStr}
  /\ chain \in Seq(Node)

(* The pointers spell out the list: following next from head visits the    *)
(* nodes in the order in which they were pushed, each once, and ends with  *)
(* NULL at tail.  In particular tail never points at a freed node, whose   *)
(* next the following kb_push would write to.                              *)
ListIntact ==
  /\ head = IF chain = <<>> THEN NULL ELSE chain[1]
  /\ tail = IF chain = <<>> THEN NULL ELSE chain[Len(chain)]
  /\ \A i \in 1 .. Len(chain) :
       /\ next[chain[i]] = IF i = Len(chain) THEN NULL ELSE chain[i + 1]
       /\ data[chain[i]] \in Str
       /\ \A j \in 1 .. Len(chain) : chain[i] = chain[j] => i = j

(* The allocated nodes are exactly the ones in the list: nothing in it has *)
(* been freed, and nothing that left it is still allocated.                *)
NoLeak == live = {chain[i] : i \in 1 .. Len(chain)}

(* count is the number of nodes, so that head = NULL iff count = 0: the    *)
(* two fields that readers and writers look at without the mutex agree.    *)
CountExact == count = Len(chain) /\ (kb_isempty <=> count = 0)

contents == [i \in 1 .. Len(chain) |-> data[chain[i]]]

Queue == INSTANCE StringQueue WITH q <- contents, out <- out

(* Every use of kb_push and kb_pop is a use of a queue of strings. *)
ImplementsQueue == Queue!QueueSpec
=============================================================================
