---------------------------- MODULE PartsProofs -----------------------------
(***************************************************************************)
(* The parts of the system that are used under a mutex: the lists of the   *)
(* kernel module and of the programs, on a heap of any size, and the       *)
(* control loop of the reallocator, for every load.                        *)
(*                                                                         *)
(* The list of kbuf.c is intact, leaks nothing, counts right and is a      *)
(* queue.  The four invariants are inductive together: kb_pop needs        *)
(* ListIntact to know that head->next is the next node, and NoLeak to know *)
(* that kmalloc does not return a node of the list.                        *)
(*                                                                         *)
(* The list of buffer.c stays intact although the SIGINT handler resets    *)
(* only head and count, and is a queue that can be emptied.  Again the     *)
(* invariants are inductive together: wbuf_ins may find a stale tail, but  *)
(* only when head is NULL, and then does not use it; and malloc returns no *)
(* dropped node, because those stay allocated.                             *)
(*                                                                         *)
(* The control loop works for every initial size and every load.  The      *)
(* invariant behind it ties the sum the code keeps to the samples:         *)
(* lo * kb_dim <= kb_sum <= hi * kb_dim.                                   *)
(***************************************************************************)
EXTENDS KBuf, WBuf, Occupation, TLAPS

KbInv == KbTypeOK /\ ListIntact /\ NoLeak /\ CountExact

(* Appending a node to the list. *)
LEMMA AppendFacts ==
  ASSUME NEW S, NEW s \in Seq(S), NEW e \in S
  PROVE  /\ Append(s, e) \in Seq(S)
         /\ Append(s, e) # <<>>
         /\ Len(s) \in Nat
         /\ Len(Append(s, e)) = Len(s) + 1
         /\ \A i \in 1 .. Len(s) : s[i] \in S /\ Append(s, e)[i] = s[i]
         /\ Append(s, e)[Len(s) + 1] = e
OBVIOUS

(* Removing the first one. *)
LEMMA TailFacts ==
  ASSUME NEW S, NEW s \in Seq(S), s # <<>>
  PROVE  /\ Tail(s) \in Seq(S)
         /\ Len(s) \in Nat \ {0}
         /\ Len(Tail(s)) = Len(s) - 1
         /\ Head(s) = s[1]
         /\ \A i \in 1 .. Len(s) : s[i] \in S
         /\ \A i \in 1 .. Len(s) - 1 : Tail(s)[i] = s[i + 1]
OBVIOUS

(* Both, as functions on the positions. *)
LEMMA SeqEqual ==
  ASSUME NEW S, NEW s \in Seq(S), NEW t \in Seq(S), Len(s) = Len(t),
         \A i \in 1 .. Len(s) : s[i] = t[i]
  PROVE  s = t
OBVIOUS

LEMMA AppendFcn ==
  ASSUME NEW S, NEW s \in Seq(S), NEW e \in S
  PROVE  Append(s, e) = [i \in 1 .. Len(s) + 1 |-> IF i = Len(s) + 1 THEN e ELSE s[i]]
<1> DEFINE f == [i \in 1 .. Len(s) + 1 |-> IF i = Len(s) + 1 THEN e ELSE s[i]]
<1>1. f \in Seq(S) /\ Len(f) = Len(s) + 1
  BY AppendFacts
<1>2. \A i \in 1 .. Len(s) + 1 : f[i] = Append(s, e)[i]
  BY AppendFacts
<1> HIDE DEF f
<1>3. f = Append(s, e)
  BY <1>1, <1>2, AppendFacts, SeqEqual
<1> QED BY <1>3 DEF f

LEMMA TailFcn ==
  ASSUME NEW S, NEW s \in Seq(S), s # <<>>
  PROVE  Tail(s) = [i \in 1 .. Len(s) - 1 |-> s[i + 1]]
<1> DEFINE f == [i \in 1 .. Len(s) - 1 |-> s[i + 1]]
<1>1. f \in Seq(S) /\ Len(f) = Len(s) - 1
  BY TailFacts
<1>2. \A i \in 1 .. Len(s) - 1 : f[i] = Tail(s)[i]
  BY TailFacts
<1> HIDE DEF f
<1>3. f = Tail(s)
  BY <1>1, <1>2, TailFacts, SeqEqual
<1> QED BY <1>3 DEF f

(* kb_push keeps the list intact. *)
LEMMA PushInv ==
  ASSUME KbInv, NEW str \in Str, kb_push(str)
  PROVE  KbInv'
<1>1. PICK node \in Node \ live :
        /\ live' = live \cup {node}
        /\ data' = [data EXCEPT ![node] = str]
        /\ IF head = NULL
           THEN /\ next' = [next EXCEPT ![node] = NULL]
                /\ head' = node
           ELSE /\ next' = [next EXCEPT ![node] = NULL, ![tail] = node]
                /\ UNCHANGED head
        /\ tail' = node
        /\ count' = count + 1
        /\ chain' = Append(chain, node)
        /\ UNCHANGED out
  BY Zenon DEF kb_push
<1> DEFINE n == Len(chain)
<1>2. /\ chain' \in Seq(Node)
      /\ n \in Nat
      /\ chain' # <<>>
      /\ Len(chain') = n + 1
      /\ \A i \in 1 .. n : chain[i] \in Node /\ chain'[i] = chain[i]
      /\ chain'[n + 1] = node
  BY <1>1, AppendFacts DEF KbInv, KbTypeOK
<1>3. \A i \in 1 .. n : chain[i] # node
  BY <1>1 DEF KbInv, NoLeak
<1>4. chain = <<>> <=> n = 0
  BY DEF KbInv, KbTypeOK
<1>old. /\ head = IF n = 0 THEN NULL ELSE chain[1]
        /\ tail = IF n = 0 THEN NULL ELSE chain[n]
        /\ \A i \in 1 .. n : next[chain[i]] = IF i = n THEN NULL ELSE chain[i + 1]
        /\ \A i, j \in 1 .. n : chain[i] = chain[j] => i = j
        /\ next \in [Node -> Node \cup {NULL}]
  BY <1>4 DEF KbInv, KbTypeOK, ListIntact
<1>5. head = NULL <=> n = 0
  BY <1>2, <1>old, HeapAssumption
<1>6. /\ next' \in [Node -> Node \cup {NULL}]
      /\ next'[node] = NULL
      /\ \A i \in 1 .. n : next'[chain[i]] = IF i = n THEN node ELSE chain[i + 1]
  <2>1. CASE n = 0
    BY <1>1, <1>2, <1>old, <1>5, <2>1
  <2>2. CASE n # 0
    <3>1. /\ next' = [next EXCEPT ![node] = NULL, ![tail] = node]
          /\ tail = chain[n] /\ n \in 1 .. n
      BY <1>1, <1>2, <1>old, <1>5, <2>2
    <3>2. tail \in Node /\ tail # node
      BY <1>2, <1>3, <3>1
    <3>3. \A i \in 1 .. n : chain[i] = tail <=> i = n
      BY <1>old, <3>1
    <3>4. next'[node] = NULL /\ next'[tail] = node
      BY <1>old, <3>1, <3>2
    <3>5. \A m \in Node : m # node /\ m # tail => next'[m] = next[m]
      BY <1>old, <3>1
    <3>6. next' \in [Node -> Node \cup {NULL}]
      BY <1>old, <3>1, Zenon
    <3>7. \A i \in 1 .. n : i # n => next'[chain[i]] = chain[i + 1]
      BY <1>2, <1>3, <1>old, <3>3, <3>5
    <3> QED BY <3>1, <3>4, <3>6, <3>7, Zenon
  <2> QED BY <2>1, <2>2
<1>7. KbTypeOK'
  BY <1>1, <1>2, <1>6 DEF KbInv, KbTypeOK
<1>8. ListIntact'
  <2>1. head' = chain'[1] /\ tail' = chain'[n + 1]
    BY <1>1, <1>2, <1>5, <1>old
  <2>2. \A i \in 1 .. n + 1 : next'[chain'[i]] = IF i = n + 1 THEN NULL ELSE chain'[i + 1]
    BY <1>2, <1>6
  <2>3. \A i \in 1 .. n + 1 : data'[chain'[i]] \in Str
    BY <1>1, <1>2, <1>3 DEF KbInv, KbTypeOK, ListIntact
  <2>4. \A i, j \in 1 .. n + 1 : chain'[i] = chain'[j] => i = j
    BY <1>2, <1>3, <1>old
  <2> QED BY <1>2, <2>1, <2>2, <2>3, <2>4 DEF ListIntact
<1>9. NoLeak'
  BY <1>1, <1>2 DEF KbInv, NoLeak
<1>10. CountExact'
  BY <1>1, <1>2, HeapAssumption DEF KbInv, CountExact, kb_isempty, ListIntact, KbTypeOK
<1> QED BY <1>7, <1>8, <1>9, <1>10 DEF KbInv

(* kb_pop keeps the list intact. *)
LEMMA PopInv ==
  ASSUME KbInv, kb_pop
  PROVE  KbInv'
<1> DEFINE n == Len(chain)
<1>1. chain # <<>> /\ chain \in Seq(Node)
  BY DEF kb_pop, kb_isempty, KbInv, ListIntact, KbTypeOK
<1>2. /\ chain' \in Seq(Node)
      /\ n \in Nat \ {0}
      /\ Len(chain') = n - 1
      /\ \A i \in 1 .. n : chain[i] \in Node
      /\ \A i \in 1 .. n - 1 : chain'[i] = chain[i + 1]
  BY <1>1, TailFacts DEF kb_pop
<1>3. chain' = <<>> <=> n = 1
  BY <1>2
<1>old. /\ head = chain[1]
        /\ tail = chain[n]
        /\ \A i \in 1 .. n : next[chain[i]] = IF i = n THEN NULL ELSE chain[i + 1]
        /\ \A i \in 1 .. n : data[chain[i]] \in Str
  BY <1>1 DEF KbInv, ListIntact
<1>new. /\ head' = next[head]
        /\ tail' = IF head' = NULL THEN NULL ELSE tail
        /\ next' = next
        /\ data' = data
  BY DEF kb_pop
<1>4. head' = IF n = 1 THEN NULL ELSE chain[2]
  BY <1>2, <1>old, <1>new
<1>5. tail' = IF n = 1 THEN NULL ELSE chain[n]
  BY <1>2, <1>4, <1>old, <1>new, HeapAssumption
<1>6. KbTypeOK'
  <2>1. count = n /\ count' = count - 1
    BY DEF kb_pop, KbInv, CountExact
  <2>0. 1 \in 1 .. n
    BY <1>2
  <2>2. head \in Node /\ out' = data[head] /\ live' = live \ {head}
    BY <1>2, <1>old, <2>0, Zenon DEF kb_pop
  <2>3. n # 1 => 2 \in 1 .. n
    BY <1>2
  <2>4. head' \in Node \cup {NULL} /\ tail' \in Node \cup {NULL}
    BY <1>2, <1>4, <1>5, <2>3
  <2>5. count' \in Nat
    BY <1>2, <2>1
  <2> QED BY <1>2, <1>new, <2>2, <2>4, <2>5 DEF KbInv, KbTypeOK
<1>7. ListIntact'
  <2>1. head' = IF chain' = <<>> THEN NULL ELSE chain'[1]
    BY <1>2, <1>3, <1>4
  <2>2. tail' = IF chain' = <<>> THEN NULL ELSE chain'[n - 1]
    BY <1>2, <1>3, <1>5
  <2>3. \A i \in 1 .. n - 1 : next'[chain'[i]] = IF i = n - 1 THEN NULL ELSE chain'[i + 1]
    BY <1>2, <1>old, <1>new
  <2>4. \A i \in 1 .. n - 1 : data'[chain'[i]] \in Str
    BY <1>2, <1>old, <1>new
  <2>5. \A i, j \in 1 .. n - 1 : chain'[i] = chain'[j] => i = j
    BY <1>2 DEF KbInv, ListIntact
  <2> QED BY <1>2, <2>1, <2>2, <2>3, <2>4, <2>5 DEF ListIntact
<1>8. NoLeak'
  <2>1. \A i \in 2 .. n : chain[i] # head
    BY <1>2, <1>old DEF KbInv, ListIntact
  <2>2. \A i \in 2 .. n : i - 1 \in 1 .. n - 1 /\ chain'[i - 1] = chain[i]
    BY <1>2
  <2>3. live' = {chain[i] : i \in 2 .. n}
    <3>1. live = {chain[i] : i \in 1 .. n} /\ live' = live \ {chain[1]}
      BY <1>old DEF kb_pop, KbInv, NoLeak
    <3>2. \A i \in 1 .. n : i = 1 \/ i \in 2 .. n
      BY <1>2
    <3>3. \A i \in 2 .. n : i \in 1 .. n /\ chain[i] # chain[1]
      BY <1>2, <1>old, <2>1
    <3> HIDE DEF n
    <3> QED BY <3>1, <3>2, <3>3, Zenon
  <2>4. {chain[i] : i \in 2 .. n} = {chain'[i] : i \in 1 .. n - 1}
    BY <1>2, <2>2
  <2> QED BY <1>2, <2>3, <2>4, Zenon DEF NoLeak
<1>9. CountExact'
  BY <1>2, <1>3, <1>4, HeapAssumption DEF kb_pop, KbInv, CountExact, kb_isempty
<1> QED BY <1>6, <1>7, <1>8, <1>9 DEF KbInv

(* The conjunction of the four invariants is inductive. *)
LEMMA KbStep == KbInv /\ [KbNext]_kvars => KbInv'
<1>1. KbInv /\ UNCHANGED kvars => KbInv'
  BY DEF KbInv, KbTypeOK, ListIntact, NoLeak, CountExact, kb_isempty, kvars
<1> QED BY <1>1, PushInv, PopInv DEF KbNext

LEMMA KbInvariance == KbSpec => []KbInv
<1>1. KbInit => KbInv
  BY HeapAssumption
     DEF KbInit, KbInv, KbTypeOK, ListIntact, NoLeak, CountExact, kb_isempty
<1> QED BY <1>1, KbStep, PTL DEF KbSpec

(* In every state kb_push and kb_pop can lead to, the list is intact.      *)
THEOREM KbSafe == KbSpec => []ListIntact
BY KbInvariance, PTL DEF KbInv

(* Types of the fields of struct kb and struct kb_node. *)
THEOREM KbTyped == KbSpec => []KbTypeOK
BY KbInvariance, PTL DEF KbInv

(* kb_pop frees every node it takes out, and no other. *)
THEOREM KbNoLeak == KbSpec => []NoLeak
BY KbInvariance, PTL DEF KbInv

(* count is the length of the list, so kb_isempty and count agree. *)
THEOREM KbCount == KbSpec => []CountExact
BY KbInvariance, PTL DEF KbInv

(* The contents of the list after kb_push and kb_pop are those of a queue  *)
(* after Put and Get, and kb_pop copies out the oldest string.             *)
THEOREM KbQueue == KbSpec => ImplementsQueue
<1>1. KbInit => Queue!QueueInit
  BY DEF KbInit, Queue!QueueInit, contents
<1>2. ASSUME KbInv, NEW s \in Str, kb_push(s)
      PROVE  Queue!Put(s)
  <2> DEFINE n == Len(chain)
  <2>1. PICK node \in Node \ live :
          /\ data' = [data EXCEPT ![node] = s]
          /\ chain' = Append(chain, node)
          /\ UNCHANGED out
    BY <1>2, Zenon DEF kb_push
  <2>2. /\ n \in Nat
        /\ Len(chain') = n + 1
        /\ \A i \in 1 .. n : chain[i] \in Node /\ chain'[i] = chain[i] /\ chain[i] # node
        /\ chain'[n + 1] = node
    BY <1>2, <2>1, AppendFacts DEF KbInv, KbTypeOK, NoLeak
  <2>3. contents \in Seq(Str) /\ Len(contents) = n
    BY <1>2, <2>2 DEF contents, KbInv, ListIntact
  <2>4. contents' = [i \in 1 .. n + 1 |-> IF i = n + 1 THEN s ELSE contents[i]]
    <3>1. contents' = [i \in 1 .. n + 1 |-> data'[chain'[i]]]
      BY <2>2 DEF contents
    <3>2. \A i \in 1 .. n : data'[chain'[i]] = contents[i]
      BY <1>2, <2>1, <2>2 DEF contents, KbInv, KbTypeOK
    <3>3. data'[chain'[n + 1]] = s
      BY <1>2, <2>1, <2>2 DEF KbInv, KbTypeOK
    <3> QED BY <2>2, <3>1, <3>2, <3>3
  <2>5. Append(contents, s) = [i \in 1 .. n + 1 |-> IF i = n + 1 THEN s ELSE contents[i]]
    BY <1>2, <2>3, AppendFcn
  <2> QED BY <2>1, <2>4, <2>5 DEF Queue!Put
<1>3. ASSUME KbInv, kb_pop
      PROVE  Queue!Get
  <2> DEFINE n == Len(chain)
  <2>1. chain # <<>> /\ chain \in Seq(Node)
    BY <1>3 DEF kb_pop, kb_isempty, KbInv, ListIntact, KbTypeOK
  <2>2. /\ n \in Nat \ {0}
        /\ Len(chain') = n - 1
        /\ \A i \in 1 .. n - 1 : chain'[i] = chain[i + 1]
    BY <1>3, <2>1, TailFacts DEF kb_pop
  <2>3. contents \in Seq(Str) /\ Len(contents) = n /\ contents # <<>>
    BY <1>3, <2>2 DEF contents, KbInv, ListIntact
  <2>4. head = chain[1] /\ data' = data /\ out' = data[head]
    BY <1>3, <2>1 DEF kb_pop, KbInv, ListIntact
  <2>5. out' = Head(contents)
    BY <2>2, <2>3, <2>4 DEF contents
  <2>6. contents' = [i \in 1 .. n - 1 |-> contents[i + 1]]
    BY <2>2, <2>4 DEF contents
  <2>7. Tail(contents) = [i \in 1 .. n - 1 |-> contents[i + 1]]
    BY <2>3, TailFcn
  <2> QED BY <2>3, <2>5, <2>6, <2>7 DEF Queue!Get
<1>4. UNCHANGED kvars => UNCHANGED Queue!qvars
  BY DEF kvars, contents, Queue!qvars
<1>5. KbInv /\ [KbNext]_kvars => [Queue!QueueNext]_(Queue!qvars)
  BY <1>2, <1>3, <1>4 DEF KbNext, Queue!QueueNext
<1> QED BY <1>1, <1>5, KbInvariance, PTL DEF KbSpec, ImplementsQueue, Queue!QueueSpec

-----------------------------------------------------------------------------
(* The list of the programs *)

WbInv == WbTypeOK /\ WListIntact /\ OnlyDropLeaks

(* wbuf_ins keeps the list intact, whatever tail points at when the list   *)
(* is empty.                                                               *)
LEMMA InsInv ==
  ASSUME WbInv, NEW str \in Str, wbuf_ins(str)
  PROVE  WbInv'
<1>1. PICK new \in Node \ wlive :
        /\ wlive' = wlive \cup {new}
        /\ wdata' = [wdata EXCEPT ![new] = str]
        /\ wnext' = IF whead = NULL
                    THEN [wnext EXCEPT ![new] = NULL]
                    ELSE [wnext EXCEPT ![new] = NULL, ![wtail] = new]
        /\ whead' = IF whead = NULL THEN new ELSE whead
        /\ wtail' = new
        /\ wcount' = wcount + 1
        /\ wchain' = Append(wchain, new)
        /\ UNCHANGED <<wout, caught, wlost>>
  BY Zenon DEF wbuf_ins, EmptyBeforeIns
<1> DEFINE n == Len(wchain)
<1>2. /\ wchain' \in Seq(Node)
      /\ n \in Nat
      /\ wchain' # <<>>
      /\ Len(wchain') = n + 1
      /\ \A i \in 1 .. n : wchain[i] \in Node /\ wchain'[i] = wchain[i]
      /\ wchain'[n + 1] = new
  BY <1>1, AppendFacts DEF WbInv, WbTypeOK
<1>3. \A i \in 1 .. n : wchain[i] # new
  BY <1>1 DEF WbInv, OnlyDropLeaks
<1>4. wchain = <<>> <=> n = 0
  BY DEF WbInv, WbTypeOK
<1>old. /\ whead = IF n = 0 THEN NULL ELSE wchain[1]
        /\ n # 0 => wtail = wchain[n]
        /\ \A i \in 1 .. n : wnext[wchain[i]] = IF i = n THEN NULL ELSE wchain[i + 1]
        /\ \A i, j \in 1 .. n : wchain[i] = wchain[j] => i = j
        /\ wnext \in [Node -> Node \cup {NULL}]
  BY <1>4 DEF WbInv, WbTypeOK, WListIntact
<1>5. whead = NULL <=> n = 0
  BY <1>2, <1>old, HeapAssumption
<1>6. /\ wnext' \in [Node -> Node \cup {NULL}]
      /\ wnext'[new] = NULL
      /\ \A i \in 1 .. n : wnext'[wchain[i]] = IF i = n THEN new ELSE wchain[i + 1]
  <2>1. CASE n = 0
    BY <1>1, <1>2, <1>old, <1>5, <2>1
  <2>2. CASE n # 0
    <3>1. /\ wnext' = [wnext EXCEPT ![new] = NULL, ![wtail] = new]
          /\ wtail = wchain[n] /\ n \in 1 .. n
      BY <1>1, <1>2, <1>old, <1>5, <2>2
    <3>2. wtail \in Node /\ wtail # new
      BY <1>2, <1>3, <3>1
    <3>3. \A i \in 1 .. n : wchain[i] = wtail <=> i = n
      BY <1>old, <3>1
    <3>4. wnext'[new] = NULL /\ wnext'[wtail] = new
      BY <1>old, <3>1, <3>2
    <3>5. \A m \in Node : m # new /\ m # wtail => wnext'[m] = wnext[m]
      BY <1>old, <3>1
    <3>6. wnext' \in [Node -> Node \cup {NULL}]
      BY <1>old, <3>1, Zenon
    <3>7. \A i \in 1 .. n : i # n => wnext'[wchain[i]] = wchain[i + 1]
      BY <1>2, <1>3, <1>old, <3>3, <3>5
    <3> QED BY <3>1, <3>4, <3>6, <3>7, Zenon
  <2> QED BY <2>1, <2>2
<1>7. WbTypeOK'
  <2>1. whead' \in Node \cup {NULL} /\ wtail' \in Node /\ wcount' \in Nat
    BY <1>1 DEF WbInv, WbTypeOK
  <2>2. wdata' \in [Node -> Str \cup {NoStr}] /\ wlive' \subseteq Node
    BY <1>1 DEF WbInv, WbTypeOK
  <2> QED BY <1>1, <1>2, <1>6, <2>1, <2>2, Zenon DEF WbInv, WbTypeOK
<1>8. WListIntact'
  <2>1. whead' = wchain'[1] /\ wtail' = wchain'[n + 1]
    BY <1>1, <1>2, <1>5, <1>old
  <2>2. \A i \in 1 .. n + 1 : wnext'[wchain'[i]] = IF i = n + 1 THEN NULL ELSE wchain'[i + 1]
    BY <1>2, <1>6
  <2>3. \A i \in 1 .. n + 1 : wdata'[wchain'[i]] \in Str
    BY <1>1, <1>2, <1>3 DEF WbInv, WbTypeOK, WListIntact
  <2>4. \A i, j \in 1 .. n + 1 : wchain'[i] = wchain'[j] => i = j
    BY <1>2, <1>3, <1>old
  <2>5. wcount' = n + 1
    BY <1>1 DEF WbInv, WListIntact
  <2> QED BY <1>2, <2>1, <2>2, <2>3, <2>4, <2>5 DEF WListIntact
<1>9. OnlyDropLeaks'
  <2>1. {wchain'[i] : i \in 1 .. n + 1} = {wchain[i] : i \in 1 .. n} \cup {new}
    BY <1>2
  <2>2. \A i \in 1 .. n + 1 : wchain'[i] \notin wlost
    BY <1>1, <1>2 DEF WbInv, OnlyDropLeaks
  <2> QED BY <1>1, <1>2, <2>1, <2>2 DEF WbInv, OnlyDropLeaks
<1> QED BY <1>7, <1>8, <1>9 DEF WbInv

(* wbuf_ext finds a node, and keeps the list intact. *)
LEMMA ExtInv ==
  ASSUME WbInv, wbuf_ext
  PROVE  WbInv'
<1> DEFINE n == Len(wchain)
<1>1. wchain # <<>> /\ wchain \in Seq(Node)
  BY DEF wbuf_ext, WbInv, WListIntact, WbTypeOK
<1>2. /\ wchain' \in Seq(Node)
      /\ n \in Nat \ {0}
      /\ Len(wchain') = n - 1
      /\ \A i \in 1 .. n : wchain[i] \in Node
      /\ \A i \in 1 .. n - 1 : wchain'[i] = wchain[i + 1]
  BY <1>1, TailFacts DEF wbuf_ext
<1>3. wchain' = <<>> <=> n = 1
  BY <1>2
<1>old. /\ wcount = n
        /\ whead = wchain[1]
        /\ wtail = wchain[n]
        /\ \A i \in 1 .. n : wnext[wchain[i]] = IF i = n THEN NULL ELSE wchain[i + 1]
        /\ \A i \in 1 .. n : wdata[wchain[i]] \in Str
  BY <1>1 DEF WbInv, WListIntact
<1>new. /\ whead' = wnext[whead]
        /\ wtail' = IF whead' = NULL THEN NULL ELSE wtail
        /\ wcount' = wcount - 1
        /\ wout' = wdata[whead]
        /\ wlive' = wlive \ {whead}
        /\ UNCHANGED <<wnext, wdata, caught, wlost>>
  BY DEF wbuf_ext, Extracted, Freed
<1>4. whead' = IF n = 1 THEN NULL ELSE wchain[2]
  BY <1>2, <1>old, <1>new
<1>5. wtail' = IF n = 1 THEN NULL ELSE wchain[n]
  BY <1>2, <1>4, <1>old, <1>new, HeapAssumption
<1>6. WbTypeOK'
  <2>0. 1 \in 1 .. n
    BY <1>2
  <2>2. whead \in Node
    BY <1>2, <1>old, <2>0, Zenon
  <2>3. n # 1 => 2 \in 1 .. n
    BY <1>2
  <2>4. whead' \in Node \cup {NULL} /\ wtail' \in Node \cup {NULL}
    BY <1>2, <1>4, <1>5, <2>3
  <2>5. wcount' \in Nat
    BY <1>2, <1>old, <1>new
  <2> QED BY <1>2, <1>new, <2>2, <2>4, <2>5 DEF WbInv, WbTypeOK
<1>7. WListIntact'
  <2>1. whead' = IF wchain' = <<>> THEN NULL ELSE wchain'[1]
    BY <1>2, <1>3, <1>4
  <2>2. wchain' # <<>> => wtail' = wchain'[n - 1]
    BY <1>2, <1>3, <1>5
  <2>3. \A i \in 1 .. n - 1 : wnext'[wchain'[i]] = IF i = n - 1 THEN NULL ELSE wchain'[i + 1]
    BY <1>2, <1>old, <1>new
  <2>4. \A i \in 1 .. n - 1 : wdata'[wchain'[i]] \in Str
    BY <1>2, <1>old, <1>new
  <2>5. \A i, j \in 1 .. n - 1 : wchain'[i] = wchain'[j] => i = j
    BY <1>2 DEF WbInv, WListIntact
  <2>6. wcount' = n - 1
    BY <1>old, <1>new
  <2> QED BY <1>2, <2>1, <2>2, <2>3, <2>4, <2>5, <2>6 DEF WListIntact
<1>8. OnlyDropLeaks'
  <2>1. \A i \in 2 .. n : i \in 1 .. n /\ wchain[i] # wchain[1] /\ i - 1 \in 1 .. n - 1
                            /\ wchain'[i - 1] = wchain[i]
    BY <1>2 DEF WbInv, WListIntact
  <2>2. \A i \in 1 .. n - 1 : i + 1 \in 2 .. n
    BY <1>2
  <2>3. {wchain[i] : i \in 2 .. n} = {wchain'[i] : i \in 1 .. n - 1}
    <3> HIDE DEF n
    <3>1. \A i \in 1 .. n - 1 : wchain'[i] = wchain[i + 1]
      BY <1>2
    <3>2. \A x \in {wchain[i] : i \in 2 .. n} : x \in {wchain'[i] : i \in 1 .. n - 1}
      BY <2>1
    <3>3. \A x \in {wchain'[i] : i \in 1 .. n - 1} : x \in {wchain[i] : i \in 2 .. n}
      BY <2>2, <3>1
    <3> QED BY <3>2, <3>3
  <2>4. wlive = wlost \cup {wchain[i] : i \in 1 .. n} /\ \A i \in 1 .. n : wchain[i] \notin wlost
    BY DEF WbInv, OnlyDropLeaks
  <2>5. \A i \in 1 .. n : i = 1 \/ i \in 2 .. n
    BY <1>2
  <2>6. wlive' = wlost \cup {wchain[i] : i \in 2 .. n}
    <3>1. wlive' = wlive \ {wchain[1]} /\ 1 \in 1 .. n
      BY <1>2, <1>old, <1>new
    <3>2. \A i \in 2 .. n : i \in 1 .. n /\ wchain[i] # wchain[1]
      BY <2>1
    <3> HIDE DEF n
    <3> QED BY <2>4, <2>5, <3>1, <3>2, Zenon
  <2>7. \A i \in 1 .. n - 1 : wchain'[i] \notin wlost'
    BY <1>2, <1>new, <2>2, <2>4
  <2>8. wtail' # NULL => wtail' \in wlive'
    <3>1. wtail' # NULL => wtail' = wchain[n] /\ n \in 2 .. n
      BY <1>2, <1>5
    <3> QED BY <2>6, <3>1
  <2> QED BY <1>2, <1>new, <2>3, <2>6, <2>7, <2>8, Zenon DEF OnlyDropLeaks
<1> QED BY <1>6, <1>7, <1>8 DEF WbInv

(* The handler leaves an intact, empty list behind. *)
LEMMA DropInv ==
  ASSUME WbInv, drop
  PROVE  WbInv'
<1> DEFINE n == Len(wchain)
<1>1. wchain' = <<>> /\ Len(wchain') = 0 /\ wchain' \in Seq(Node)
  BY DEF drop
<1>2. wlost' = wlost \cup {wchain[i] : i \in 1 .. n} /\ \A i \in 1 .. n : wchain[i] \in Node
  BY DEF drop, WbInv, WbTypeOK
<1>3. WbTypeOK'
  BY <1>1, <1>2 DEF drop, WbInv, WbTypeOK
<1>4. WListIntact'
  BY <1>1 DEF drop, WListIntact
<1>5. OnlyDropLeaks'
  BY <1>1, <1>2 DEF drop, WbInv, OnlyDropLeaks
<1> QED BY <1>3, <1>4, <1>5 DEF WbInv

(* The conjunction of the three invariants is inductive. *)
LEMMA WbInvariance == WbSpec => []WbInv
<1>1. WbInit => WbInv
  <2> SUFFICES ASSUME WbInit PROVE WbInv
    OBVIOUS
  <2>1. WbTypeOK
    <3>1. wdata \in [Node -> Str \cup {NoStr}] /\ wchain \in Seq(Node) /\ wcount \in Nat
      BY DEF WbInit
    <3>2. caught \in BOOLEAN
      BY Zenon DEF WbInit
    <3> QED BY <3>1, <3>2 DEF WbInit, WbTypeOK
  <2>2. WListIntact
    BY DEF WbInit, WListIntact
  <2>3. OnlyDropLeaks
    BY DEF WbInit, OnlyDropLeaks
  <2> QED BY <2>1, <2>2, <2>3 DEF WbInv
<1>2. WbInv /\ [WbNext]_wvars => WbInv'
  <2>1. WbInv /\ UNCHANGED wvars => WbInv'
    BY DEF WbInv, WbTypeOK, WListIntact, OnlyDropLeaks, wvars
  <2> QED BY <2>1, InsInv, ExtInv, DropInv DEF WbNext
<1> QED BY <1>1, <1>2, PTL DEF WbSpec

(* In every state wbuf_ins, wbuf_ext and the handler can lead to, the      *)
(* pointers spell out the list and count is its length.                    *)
THEOREM UserListIntact == WbSpec => []WListIntact
BY WbInvariance, PTL DEF WbInv

(* Types of the fields of struct wbuf and struct wbe. *)
THEOREM UserListTyped == WbSpec => []WbTypeOK
BY WbInvariance, PTL DEF WbInv

(* Nothing but the handler loses nodes, and tail never points at freed     *)
(* memory.                                                                 *)
THEOREM UserListLeaks == WbSpec => []OnlyDropLeaks
BY WbInvariance, PTL DEF WbInv

(* The list of the programs implements a queue that can be emptied.        *)
THEOREM UserListQueue == WbSpec => ImplementsClearable
<1>1. WbInit => WQueue!QueueInit
  BY DEF WbInit, WQueue!QueueInit, wcontents
<1>2. ASSUME WbInv, NEW s \in Str, wbuf_ins(s)
      PROVE  WQueue!Put(s)
  <2> DEFINE n == Len(wchain)
  <2>1. PICK new \in Node \ wlive :
          /\ wdata' = [wdata EXCEPT ![new] = s]
          /\ wchain' = Append(wchain, new)
          /\ UNCHANGED wout
    BY <1>2, Zenon DEF wbuf_ins
  <2>2. /\ n \in Nat
        /\ Len(wchain') = n + 1
        /\ \A i \in 1 .. n : wchain[i] \in Node /\ wchain'[i] = wchain[i] /\ wchain[i] # new
        /\ wchain'[n + 1] = new
    BY <1>2, <2>1, AppendFacts DEF WbInv, WbTypeOK, OnlyDropLeaks
  <2>3. wcontents \in Seq(Str) /\ Len(wcontents) = n
    BY <1>2, <2>2 DEF wcontents, WbInv, WListIntact
  <2>4. wcontents' = [i \in 1 .. n + 1 |-> IF i = n + 1 THEN s ELSE wcontents[i]]
    <3>1. wcontents' = [i \in 1 .. n + 1 |-> wdata'[wchain'[i]]]
      BY <2>2 DEF wcontents
    <3>2. \A i \in 1 .. n : wdata'[wchain'[i]] = wcontents[i]
      BY <1>2, <2>1, <2>2 DEF wcontents, WbInv, WbTypeOK
    <3>3. wdata'[wchain'[n + 1]] = s
      BY <1>2, <2>1, <2>2 DEF WbInv, WbTypeOK
    <3> QED BY <2>2, <3>1, <3>2, <3>3
  <2>5. Append(wcontents, s) = [i \in 1 .. n + 1 |-> IF i = n + 1 THEN s ELSE wcontents[i]]
    BY <1>2, <2>3, AppendFcn
  <2> QED BY <2>1, <2>4, <2>5 DEF WQueue!Put
<1>3. ASSUME WbInv, wbuf_ext
      PROVE  WQueue!Get
  <2> DEFINE n == Len(wchain)
  <2>1. wchain # <<>> /\ wchain \in Seq(Node)
    BY <1>3 DEF wbuf_ext, WbInv, WListIntact, WbTypeOK
  <2>2. /\ n \in Nat \ {0}
        /\ Len(wchain') = n - 1
        /\ \A i \in 1 .. n - 1 : wchain'[i] = wchain[i + 1]
    BY <1>3, <2>1, TailFacts DEF wbuf_ext
  <2>3. wcontents \in Seq(Str) /\ Len(wcontents) = n /\ wcontents # <<>>
    BY <1>3, <2>2 DEF wcontents, WbInv, WListIntact
  <2>4. whead = wchain[1] /\ wdata' = wdata /\ wout' = wdata[whead]
    BY <1>3, <2>1 DEF wbuf_ext, Extracted, WbInv, WListIntact
  <2>5. wout' = Head(wcontents)
    BY <2>2, <2>3, <2>4 DEF wcontents
  <2>6. wcontents' = [i \in 1 .. n - 1 |-> wcontents[i + 1]]
    BY <2>2, <2>4 DEF wcontents
  <2>7. Tail(wcontents) = [i \in 1 .. n - 1 |-> wcontents[i + 1]]
    BY <2>3, TailFcn
  <2> QED BY <2>3, <2>5, <2>6, <2>7 DEF WQueue!Get
<1>4. drop => WQueue!Clear
  BY DEF drop, WQueue!Clear, wcontents
<1>5. UNCHANGED wvars => UNCHANGED WQueue!qvars
  BY DEF wvars, wcontents, WQueue!qvars
<1>6. WbInv /\ [WbNext]_wvars => [WQueue!QueueNext \/ WQueue!Clear]_(WQueue!qvars)
  BY <1>2, <1>3, <1>4, <1>5 DEF WbNext, WQueue!QueueNext
<1> QED BY <1>1, <1>6, WbInvariance, PTL DEF WbSpec, ImplementsClearable, WQueue!ClearableSpec

-----------------------------------------------------------------------------
(* The control loop of the reallocator *)

OccInv ==
  /\ level \in Nat /\ kb_dim \in Nat /\ kb_sum \in Nat
  /\ lo \in Nat /\ hi \in Nat
  /\ kb_max \in Nat \ {0, 1}
  /\ kb_dim = 0 => kb_sum = 0
  /\ kb_dim # 0 => lo * kb_dim <= kb_sum /\ kb_sum <= hi * kb_dim

(* my_div of a natural number by a positive one is its quotient or one     *)
(* more (stat.c, my_div).                                                  *)
LEMMA MyDivBounds ==
  ASSUME NEW a \in Nat, NEW b \in Nat \ {0}
  PROVE  /\ my_div(a, b) \in Nat
         /\ my_div(a, b) \in {a \div b, (a \div b) + 1}
<1>1. a \div b \in Nat
  BY SMT
<1> QED BY <1>1 DEF my_div

(* By 1 it is always one more than the quotient: the remainder 0 reaches   *)
(* b / 2, which is 0 (stat.c, my_div).  This is what kt_realloc takes for  *)
(* the average when there is a single sample.                              *)
LEMMA MyDivByOne ==
  ASSUME NEW a \in Nat
  PROVE  my_div(a, 1) = a + 1
<1>1. a \div 1 = a /\ a % 1 = 0 /\ 1 \div 2 = 0
  BY SMT
<1> QED BY <1>1 DEF my_div

(* Quotient and remainder. *)
LEMMA DivMod ==
  ASSUME NEW a \in Nat, NEW b \in Nat \ {0}
  PROVE  /\ a \div b \in Nat /\ a % b \in Nat
         /\ a = b * (a \div b) + (a % b)
         /\ a % b < b
<1>1. a \div b \in Nat
  OBVIOUS
<1>2. a % b \in 0 .. b - 1
  OBVIOUS
<1>3. a = b * (a \div b) + (a % b)
  OBVIOUS
<1> QED BY <1>1, <1>2, <1>3

(* A factor can be cancelled. *)
LEMMA Cancel ==
  ASSUME NEW x \in Int, NEW y \in Int, NEW b \in Nat \ {0}
  PROVE  /\ x * b <= y * b => x <= y
         /\ x * b < y * b => x < y
         /\ x <= y => x * b <= y * b
OBVIOUS

(* The quotient lies between bounds of the dividend, and so does my_div,   *)
(* except that division by 1 adds one.                                     *)
LEMMA QuotientBounds ==
  ASSUME NEW a \in Nat, NEW b \in Nat \ {0}, NEW l \in Nat, NEW h \in Nat
  PROVE  /\ l * b <= a => l <= a \div b
         /\ a < h * b => a \div b < h
         /\ b >= 2 /\ a <= h * b => my_div(a, b) <= h
<1> DEFINE q == a \div b
           r == a % b
<1>1. q \in Nat /\ r \in Nat /\ a = b * q + r /\ r < b
  BY DivMod
<1> HIDE DEF q, r
<1>2. l * b <= a => l <= q
  <2>1. SUFFICES ASSUME l * b <= a PROVE l < q + 1
    BY <1>1
  <2>2. l * b < (q + 1) * b
    BY <1>1, <2>1
  <2> QED BY <1>1, <2>2, Cancel
<1>3. a < h * b => q < h
  <2>1. SUFFICES ASSUME a < h * b PROVE q < h
    OBVIOUS
  <2>2. q * b < h * b
    BY <1>1, <2>1
  <2> QED BY <1>1, <2>2, Cancel
<1>4. ASSUME b >= 2, a <= h * b
      PROVE  (IF r >= b \div 2 THEN q + 1 ELSE q) <= h
  <2>1. q * b <= h * b
    BY <1>1, <1>4
  <2>2. q <= h
    BY <1>1, <2>1, Cancel
  <2>3. ASSUME r >= b \div 2 PROVE q < h
    <3>1. b \div 2 >= 1
      BY <1>4
    <3>2. q * b < h * b
      BY <1>1, <1>4, <2>3, <3>1
    <3> QED BY <1>1, <3>2, Cancel
  <2> QED BY <1>1, <2>2, <2>3
<1> QED BY <1>2, <1>3, <1>4 DEF my_div, q, r

(* Two facts on the size ds_set_kb_occupation picks for two strings or     *)
(* more: it is larger, and the strings occupy 67% to 80% of it.            *)
LEMMA SetSize ==
  ASSUME NEW v \in Nat, v >= 2
  PROVE  /\ ds_set_kb_occupation(v) \in Nat
         /\ ds_set_kb_occupation(v) > v
         /\ calculate_per(v, ds_set_kb_occupation(v)) \in 67 .. 80
<1> DEFINE a == v * 100
           s == my_div(a, 75)
<1>1. ds_set_kb_occupation(v) = s
  BY DEF ds_set_kb_occupation, KB_OCC
<1>2. s \in Nat /\ 75 * s <= a + 38 /\ 75 * s >= a - 36
  BY DEF my_div
<1>3. s > v
  BY <1>2
<1>4. CASE v <= 6
  <2>1. v \in {2, 3, 4, 5, 6}
    BY <1>4
  <2> QED BY <2>1, <1>1, <1>3, <1>2 DEF my_div, calculate_per
<1>5. CASE v >= 7
  <2>1. s >= 9
    BY <1>2, <1>5
  <2> HIDE DEF s
  <2>2. 70 * s <= a /\ a < 80 * s
    BY <1>2, <2>1
  <2>3. 70 <= a \div s /\ a \div s < 80
    BY <1>2, <2>1, <2>2, QuotientBounds
  <2>n. a \in Nat /\ s \in Nat \ {0}
    BY <1>2, <2>1
  <2> HIDE DEF a
  <2>4. my_div(a, s) \in {a \div s, (a \div s) + 1} /\ a \div s \in Nat
    BY <2>n, MyDivBounds, DivMod, Zenon
  <2>5. my_div(a, s) \in 67 .. 80
    BY <2>3, <2>4
  <2> QED BY <1>1, <1>2, <1>3, <2>5 DEF calculate_per, a
<1> QED BY <1>4, <1>5

(* kt_realloc keeps the size or sets one of at least 2 (stat.c, "Min 2     *)
(* otherwise stuck on 1").                                                 *)
LEMMA NewSize ==
  ASSUME NEW sum \in Nat, NEW dim \in Nat \ {0}, NEW max \in Nat \ {0, 1}
  PROVE  realloc_size(sum, dim, max) \in Nat \ {0, 1}
<1>1. my_div(sum, dim) \in Nat
  BY MyDivBounds
<1>2. \A v \in Nat : ds_set_kb_occupation(v) \in Nat \ {0, 1}
  <2>1. \A v \in Nat : v >= 2 => ds_set_kb_occupation(v) \in Nat \ {0, 1}
    BY SetSize
  <2>2. \A v \in Nat : v <= 1 => ds_set_kb_occupation(v) \in Nat \ {0, 1}
    BY DEF ds_set_kb_occupation
  <2> QED BY <2>1, <2>2
<1> QED BY <1>1, <1>2, Zenon DEF realloc_size

(* The sum of the samples lies between bounds of them. *)
LEMMA OccInvariance == OccSpec => []OccInv
<1>1. OccInit => OccInv
  BY SizesAssumption DEF OccInit, OccInv
<1>2. ASSUME OccInv, [OccNext]_ovars
      PROVE  OccInv'
  <2> USE <1>2 DEF OccInv
  <2>1. CASE Write \/ Read
    BY <2>1 DEF Write, Read
  <2>2. CASE Sample
    <3> USE <2>2 DEF Sample
    <3>1. lo' \in Nat /\ hi' \in Nat /\ lo' <= level /\ level <= hi'
      OBVIOUS
    <3>2. lo' * kb_dim <= kb_sum /\ kb_sum <= hi' * kb_dim
      <4>1. CASE kb_dim = 0
        BY <3>1, <4>1
      <4>2. CASE kb_dim # 0
        <5>1. lo' <= lo /\ hi <= hi'
          BY <4>2
        <5>2. lo' * kb_dim <= lo * kb_dim /\ hi * kb_dim <= hi' * kb_dim
          BY <3>1, <4>2, <5>1, Cancel
        <5>3. /\ lo * kb_dim \in Nat /\ hi * kb_dim \in Nat
              /\ lo' * kb_dim \in Nat /\ hi' * kb_dim \in Nat
          BY <3>1
        <5> QED BY <4>2, <5>2, <5>3
      <4> QED BY <4>1, <4>2
    <3>3. lo' * (kb_dim + 1) = lo' * kb_dim + lo' /\ hi' * (kb_dim + 1) = hi' * kb_dim + hi'
      BY <3>1
    <3>4. lo' * kb_dim \in Nat /\ hi' * kb_dim \in Nat
      BY <3>1
    <3> QED BY <3>1, <3>2, <3>3, <3>4
  <2>3. CASE Realloc
    BY <2>3, NewSize DEF Realloc
  <2>4. CASE UNCHANGED ovars
    BY <2>4 DEF ovars
  <2> QED BY <2>1, <2>2, <2>3, <2>4 DEF OccNext
<1> QED BY <1>1, <1>2, PTL DEF OccSpec

(* my_div averages two samples or more: kt_realloc never works with a      *)
(* number outside the samples.                                             *)
THEOREM AverageSound == OccSpec => []AverageOfSeveral
<1>1. OccInv => AverageOfSeveral
  <2> SUFFICES ASSUME OccInv, kb_dim >= 2
               PROVE  lo <= med_occ /\ med_occ <= hi
    BY DEF AverageOfSeveral
  <2>1. lo <= kb_sum \div kb_dim /\ my_div(kb_sum, kb_dim) <= hi
    BY QuotientBounds DEF OccInv
  <2>2. my_div(kb_sum, kb_dim) \in {kb_sum \div kb_dim, (kb_sum \div kb_dim) + 1}
    BY MyDivBounds DEF OccInv
  <2>3. kb_sum \div kb_dim \in Nat
    BY DivMod DEF OccInv
  <2> QED BY <2>1, <2>2, <2>3 DEF med_occ, OccInv
<1> QED BY <1>1, OccInvariance, PTL

(* The average of samples that are all at least m is at least m. *)
LEMMA AverageAtLeast ==
  ASSUME OccInv, kb_dim # 0
  PROVE  med_occ \in Nat /\ med_occ >= lo
<1>1. kb_dim \in Nat \ {0} /\ kb_sum \in Nat /\ lo \in Nat /\ lo * kb_dim <= kb_sum
  BY DEF OccInv
<1>2. lo <= kb_sum \div kb_dim /\ kb_sum \div kb_dim \in Nat
  BY <1>1, QuotientBounds, DivMod
<1>3. med_occ \in {kb_sum \div kb_dim, (kb_sum \div kb_dim) + 1}
  BY <1>1, MyDivBounds, Zenon DEF med_occ
<1> QED BY <1>1, <1>2, <1>3

(* A FIFO that was full at every sample gets a larger maximum size, so the *)
(* reallocator is never stuck, at any size.                                *)
THEOREM NeverStuck == OccSpec => FullGrows
<1>1. ASSUME OccInv, Realloc, lo >= kb_max
      PROVE  kb_max' > kb_max
  <2>1. med_occ \in Nat /\ med_occ >= kb_max /\ kb_max \in Nat /\ kb_max >= 2
    BY <1>1, AverageAtLeast DEF OccInv, Realloc
  <2>2. calculate_per(med_occ, kb_max) # 75
    <3> DEFINE a == med_occ * 100
    <3>1. a \in Nat /\ kb_max \in Nat \ {0} /\ 100 * kb_max <= a
      BY <2>1
    <3> HIDE DEF a
    <3>2. 100 <= a \div kb_max /\ a \div kb_max \in Nat
      BY <3>1, QuotientBounds, DivMod
    <3>3. my_div(a, kb_max) \in {a \div kb_max, (a \div kb_max) + 1}
      BY <3>1, MyDivBounds, Zenon
    <3> QED BY <3>2, <3>3 DEF a, calculate_per
  <2>3. kb_max' = ds_set_kb_occupation(med_occ)
    BY <1>1, <2>2 DEF Realloc, realloc_size, ds_get_kb_occupation, KB_OCC, med_occ
  <2>4. ds_set_kb_occupation(med_occ) \in Nat /\ ds_set_kb_occupation(med_occ) > med_occ
    BY <2>1, SetSize
  <2> QED BY <2>1, <2>3, <2>4
<1>2. OccInv /\ [OccNext]_ovars => [Realloc /\ lo >= kb_max => kb_max' > kb_max]_ovars
  BY <1>1
<1> QED BY <1>2, OccInvariance, PTL DEF OccSpec, FullGrows

(* After every reallocation the average of the samples occupies 67% to 80% *)
(* of the maximum size, or the size is the least.                          *)
THEOREM OccupationKept == OccSpec => AroundKbOcc
<1> DEFINE Around == IF med_occ >= 2
                     THEN calculate_per(med_occ, kb_max') \in 67 .. 80
                     ELSE kb_max' = 2
<1>1. ASSUME OccInv, Realloc
      PROVE  Around
  <2>1. med_occ \in Nat /\ kb_max \in Nat /\ kb_max >= 2
    BY <1>1, AverageAtLeast DEF OccInv, Realloc
  <2>2. kb_max' = IF calculate_per(med_occ, kb_max) # 75
                  THEN ds_set_kb_occupation(med_occ) ELSE kb_max
    BY <1>1 DEF Realloc, realloc_size, ds_get_kb_occupation, KB_OCC, med_occ
  <2>3. CASE med_occ >= 2
    BY <2>1, <2>2, <2>3, SetSize
  <2>4. CASE med_occ < 2
    <3> DEFINE a == med_occ * 100
    <3>1. a \in Nat /\ kb_max \in Nat \ {0} /\ a < 51 * kb_max
      BY <2>1, <2>4
    <3> HIDE DEF a
    <3>2. a \div kb_max < 51 /\ a \div kb_max \in Nat
      BY <3>1, QuotientBounds, DivMod
    <3>3. my_div(a, kb_max) \in {a \div kb_max, (a \div kb_max) + 1}
      BY <3>1, MyDivBounds, Zenon
    <3>4. calculate_per(med_occ, kb_max) # 75
      BY <3>2, <3>3 DEF a, calculate_per
    <3> QED BY <2>1, <2>2, <2>4, <3>4 DEF ds_set_kb_occupation
  <2> QED BY <2>1, <2>3, <2>4
<1>2. OccInv /\ [OccNext]_ovars => [Realloc => Around]_ovars
  BY <1>1
<1> QED BY <1>2, OccInvariance, PTL DEF OccSpec, AroundKbOcc
=============================================================================
