--------------------------- MODULE PipelineProofs ---------------------------
(***************************************************************************)
(* What the Writer and the Reader have in common, for any number of        *)
(* threads of each kind: the label of a thread decides what it carries,    *)
(* main goes past a stage only when the threads it joined have ended,      *)
(* no string inside a program is in two places, and a kind of threads that *)
(* has ended has left nothing to do, unless SIGINT came.                   *)
(***************************************************************************)
EXTENDS Pipeline, FiniteSetTheorems, TLAPS

(* A string before and after the elaboration *)
Fresh == [id : 1 .. MaxItems, shift : {IF Shift = 32 THEN 0 ELSE 32}]

Cased == [id : 1 .. MaxItems, shift : {IF Shift = 32 THEN 32 ELSE 0}]

(* Where main is after each of its joins and releases *)
AfterS == {"finish", "exit"}
AfterESet == {"rel_e_end", "join_s"} \cup AfterS
AfterE == {"rel_e", "rel_e_set"} \cup AfterESet
AfterRSet == {"rel_r_end", "join_e"} \cup AfterE
AfterC == {"rel_r", "rel_r_set"} \cup AfterRSet

(* The labels of each kind of thread, and what they imply for the          *)
(* condition variables and rmutex                                          *)
Labels ==
  /\ pc = [t \in Workers \cup {Main} |-> pc[t]]
  /\ pc[Main] \in {"setup", "create", "join_c"} \cup AfterC
  /\ \A t \in Sources : pc[t] \in {"none", "new", "c_lock", "r_read", "end"}
  /\ \A t \in Elabs : pc[t] \in {"none", "new", "e_lock", "e_wait", "e_put", "end"}
  /\ \A t \in Sinks : pc[t] \in {"none", "new", "s_lock", "s_wait", "s_out", "end"}
  /\ \A t \in rcv : t \in Elabs /\ pc[t] = "e_wait"
  /\ \A t \in ecv : t \in Sinks /\ pc[t] = "s_wait"

Locks ==
  /\ rmutex \in Sources \cup {None, Main}
  /\ emutex \in Sinks \cup {None, Main}
  /\ \A t \in Sources : rmutex = t <=> pc[t] = "r_read"
  /\ hpc = "h_e" => rmutex = Main

(* What a thread carries *)
Hands ==
  /\ item \in [Workers -> Item \cup {None}]
  /\ \A t \in Workers : item[t] \in IF pc[t] = "e_put" THEN Fresh
                                    ELSE IF pc[t] = "s_out" THEN Cased ELSE {None}

Buffers ==
  /\ rbuffer \in Seq(Fresh) /\ ebuffer \in Seq(Cased) /\ dropped \in Seq(Item)
  /\ arg \in Int /\ todo \in Int /\ control \in 0 .. 2

Ended(kind) == \A t \in kind : pc[t] = "end"

(* What the progress of main implies *)
Stages ==
  /\ pc[Main] \in {"setup", "create"} =>
       /\ \A t \in Workers : pc[t] \in {"none", "new", "end"}
       /\ rbuffer = <<>> /\ ebuffer = <<>>
  /\ pc[Main] \in AfterC => Ended(Sources)
  /\ pc[Main] \in AfterE => Ended(Elabs)
  /\ pc[Main] \in AfterS => Ended(Sinks)

PInv == Labels /\ Locks /\ Hands /\ Buffers /\ Stages /\ Apart

(* What holds until SIGINT comes *)
Quiet ==
  control = 0 =>
    /\ hpc = "no" /\ dropped = <<>>
    /\ rdone => pc[Main] \in AfterRSet
    /\ edone => pc[Main] \in AfterESet
    /\ Ended(Elabs) => rbuffer = <<>> /\ (rdone \/ arg < 0)
    /\ Ended(Sinks) => ebuffer = <<>> /\ (edone \/ arg < 0)
    /\ arg < 0 => Within = {}
    /\ pc[Main] = "setup" => todo = arg /\ (loop <=> arg = 0)

-----------------------------------------------------------------------------
(* Sequences of strings *)

(* Appending a string, or the terminator, to a buffer or to what was written *)
LEMMA IdsAppended ==
  ASSUME NEW S, NEW s \in Seq(S), NEW x
  PROVE  /\ x # Terminator => Ids(Append(s, x)) = Ids(s) \cup {x.id}
         /\ x = Terminator => Ids(Append(s, x)) = Ids(s)
         /\ Once(s) /\ (x = Terminator \/ x.id \notin Ids(s)) => Once(Append(s, x))
<1> DEFINE r == Append(s, x)
<1>1. /\ Len(s) \in Nat /\ DOMAIN s = 1 .. Len(s) /\ DOMAIN r = 1 .. Len(s) + 1
      /\ \A k \in 1 .. Len(s) : r[k] = s[k]
      /\ r[Len(s) + 1] = x
  OBVIOUS
<1> HIDE DEF r
<1>2. x # Terminator => Ids(r) = Ids(s) \cup {x.id}
  BY <1>1 DEF Ids
<1>3. x = Terminator => Ids(r) = Ids(s)
  BY <1>1 DEF Ids
<1>4. ASSUME Once(s), x = Terminator \/ x.id \notin Ids(s)
      PROVE  Once(r)
  BY <1>1, <1>4 DEF Once, Ids
<1> QED BY <1>2, <1>3, <1>4 DEF r

(* Taking the first string out of a buffer, or out of the device *)
LEMMA IdsTaken ==
  ASSUME NEW S, NEW s \in Seq(S), s # <<>>, Once(s)
  PROVE  /\ Head(s) \in S /\ Tail(s) \in Seq(S) /\ Once(Tail(s))
         /\ Head(s) # Terminator => /\ Head(s).id \in Ids(s)
                                    /\ Ids(Tail(s)) = Ids(s) \ {Head(s).id}
         /\ Head(s) = Terminator => Ids(Tail(s)) = Ids(s)
<1> DEFINE r == Tail(s)
<1>1. /\ Len(s) \in Nat /\ DOMAIN s = 1 .. Len(s) /\ 1 \in 1 .. Len(s)
      /\ DOMAIN r = 1 .. Len(s) - 1
      /\ \A k \in 1 .. Len(s) - 1 : r[k] = s[k + 1]
      /\ Head(s) = s[1] /\ s[1] \in S /\ r \in Seq(S)
  OBVIOUS
<1> HIDE DEF r
<1>2. /\ \A k \in DOMAIN r : k + 1 \in DOMAIN s /\ k + 1 # 1 /\ r[k] = s[k + 1]
      /\ \A k \in DOMAIN s : k = 1 \/ (k - 1 \in DOMAIN r /\ s[k] = r[k - 1])
  BY <1>1
<1>3. Ids(r) \subseteq Ids(s) /\ \A x \in Ids(s) : x \in Ids(r) \/ x = s[1].id
  BY <1>2 DEF Ids
<1>4. ASSUME s[1] # Terminator PROVE s[1].id \in Ids(s) /\ s[1].id \notin Ids(r)
  <2>1. s[1].id \in Ids(s)
    BY <1>1, <1>4 DEF Ids
  <2>2. \A k \in DOMAIN r : r[k] # Terminator => r[k].id # s[1].id
    BY <1>1, <1>2, <1>4 DEF Once
  <2> QED BY <2>1, <2>2 DEF Ids
<1>5. ASSUME s[1] = Terminator PROVE Ids(s) \subseteq Ids(r)
  BY <1>1, <1>2, <1>5 DEF Ids
<1>6. Once(r)
  <2> SUFFICES ASSUME NEW j \in DOMAIN r, NEW k \in DOMAIN r,
                      r[j] # Terminator, r[k] # Terminator, r[j].id = r[k].id
               PROVE  j = k
    BY DEF Once
  <2>1. j \in Nat /\ k \in Nat
    BY <1>1
  <2>2. j + 1 = k + 1
    BY <1>2 DEF Once
  <2> QED BY <2>1, <2>2
<1> QED BY <1>1, <1>3, <1>4, <1>5, <1>6, Zenon DEF r

(* An empty buffer *)
LEMMA IdsEmpty == Ids(<<>>) = {} /\ Once(<<>>)
<1>1. DOMAIN <<>> = {}
  OBVIOUS
<1> QED BY <1>1, Zenon DEF Ids, Once

(* What the handler appends to the strings it has thrown away *)
LEMMA IdsJoined ==
  ASSUME NEW S, NEW s \in Seq(S), NEW r \in Seq(S),
         Once(s), Once(r), Ids(s) \cap Ids(r) = {}
  PROVE  Ids(s \o r) = Ids(s) \cup Ids(r) /\ Once(s \o r)
<1> DEFINE u == s \o r
<1>1. /\ Len(s) \in Nat /\ DOMAIN s = 1 .. Len(s)
      /\ Len(r) \in Nat /\ DOMAIN r = 1 .. Len(r)
      /\ DOMAIN u = 1 .. Len(s) + Len(r)
      /\ \A k \in 1 .. Len(s) : u[k] = s[k]
      /\ \A k \in Len(s) + 1 .. Len(s) + Len(r) : u[k] = r[k - Len(s)]
  OBVIOUS
<1> HIDE DEF u
<1>2. \A k \in DOMAIN u : \/ k \in DOMAIN s /\ u[k] = s[k]
                          \/ k - Len(s) \in DOMAIN r /\ u[k] = r[k - Len(s)]
  BY <1>1
<1>3. /\ \A k \in DOMAIN s : k \in DOMAIN u /\ u[k] = s[k]
      /\ \A k \in DOMAIN r : k + Len(s) \in DOMAIN u /\ u[k + Len(s)] = r[k]
  <2>1. \A k \in DOMAIN s : k \in DOMAIN u /\ u[k] = s[k]
    BY <1>1
  <2>2. ASSUME NEW k \in DOMAIN r
        PROVE  k + Len(s) \in DOMAIN u /\ u[k + Len(s)] = r[k]
    <3>1. k \in Nat /\ k + Len(s) \in Len(s) + 1 .. Len(s) + Len(r) /\ (k + Len(s)) - Len(s) = k
      BY <1>1
    <3>2. k + Len(s) \in DOMAIN u
      BY <1>1, <3>1
    <3>3. u[k + Len(s)] = r[(k + Len(s)) - Len(s)]
      BY <1>1, <3>1
    <3> QED BY <3>1, <3>2, <3>3
  <2> QED BY <2>1, <2>2
<1>4. Ids(u) = Ids(s) \cup Ids(r)
  <2>1. Ids(u) \subseteq Ids(s) \cup Ids(r)
    BY <1>2 DEF Ids
  <2>2. Ids(s) \subseteq Ids(u) /\ Ids(r) \subseteq Ids(u)
    BY <1>3 DEF Ids
  <2> QED BY <2>1, <2>2
<1>5. Once(u)
  <2> SUFFICES ASSUME NEW j \in DOMAIN u, NEW k \in DOMAIN u,
                      u[j] # Terminator, u[k] # Terminator, u[j].id = u[k].id
               PROVE  j = k
    BY DEF Once
  <2>1. j \in Nat /\ k \in Nat
    BY <1>1
  <2>2. CASE j \in DOMAIN s /\ u[j] = s[j]
    <3>1. u[j].id \in Ids(s)
      BY <2>2 DEF Ids
    <3>2. ~ (k - Len(s) \in DOMAIN r /\ u[k] = r[k - Len(s)])
      BY <3>1 DEF Ids
    <3> QED BY <1>2, <2>2, <3>2 DEF Once
  <2>3. CASE j - Len(s) \in DOMAIN r /\ u[j] = r[j - Len(s)]
    <3>1. u[j].id \in Ids(r)
      BY <2>3 DEF Ids
    <3>2. ~ (k \in DOMAIN s /\ u[k] = s[k])
      BY <3>1 DEF Ids
    <3>3. j - Len(s) = k - Len(s)
      BY <1>2, <2>3, <3>2 DEF Once
    <3> QED BY <1>1, <2>1, <3>3
  <2> QED BY <1>2, <2>2, <2>3
<1> QED BY <1>4, <1>5, Zenon DEF u

(* A buffer with no identities is empty. *)
LEMMA NoIds ==
  ASSUME NEW S, NEW s \in Seq(S), Terminator \notin S, Ids(s) = {}
  PROVE  s = <<>>
<1> SUFFICES ASSUME s # <<>> PROVE FALSE
  OBVIOUS
<1>1. 1 \in DOMAIN s /\ s[1] # Terminator
  OBVIOUS
<1> QED BY <1>1, Zenon DEF Ids

-----------------------------------------------------------------------------
(* The steps both programs take *)

SinkShared(t) == SinkWait(t) \/ SinkStop(t) \/ SinkTake(t) \/ SinkSpurious(t)

Moves(t) == (t \in Elabs /\ elaborate_data(t)) \/ (t \in Sinks /\ SinkShared(t))

Shared == (\E t \in Workers : Moves(t)) \/ start \/ wait_for \/ release_t

(* The kinds of threads are disjoint, and main is of none. *)
LEMMA Kinds ==
  /\ Sources \subseteq Workers /\ Elabs \subseteq Workers /\ Sinks \subseteq Workers
  /\ \A t \in Workers : t # Main /\ t # None /\ (t \in Sources \/ t \in Elabs \/ t \in Sinks)
  /\ \A t \in Sources : t \notin Elabs /\ t \notin Sinks
  /\ \A t \in Elabs : t \notin Sinks
  /\ Main # None
BY PipelineAssumption DEF Workers

(* Strings, the terminator and None are different things. *)
LEMMA ItemTypes ==
  /\ Fresh \subseteq Item /\ Cased \subseteq Item
  /\ None \notin Item /\ Terminator \notin Item /\ Terminator # None
  /\ Terminator \notin Fresh /\ Terminator \notin Cased
  /\ \A s \in Fresh : to_case(s) \in Cased /\ to_case(s).id = s.id
<1>1. Fresh \subseteq Item /\ Cased \subseteq Item
  BY DEF Fresh, Cased, Item
<1>2. \A s \in Fresh : to_case(s) \in Cased /\ to_case(s).id = s.id
  BY PipelineAssumption DEF Fresh, Cased, to_case
<1> QED BY <1>1, <1>2, PipelineAssumption

(* Which labels the threads and main go to; a step never starts a thread   *)
(* again.                                                                  *)
LEMMA SharedLabels ==
  ASSUME Labels, Stages, Shared
  PROVE  Labels'
<1> USE Kinds DEF Labels, Goto
<1>1. ASSUME NEW t \in Elabs, ElabWait(t) PROVE Labels'
  BY <1>1, Zenon DEF ElabWait, evars
<1>2. ASSUME NEW t \in Elabs, ElabStop(t) \/ ElabTake(t) PROVE Labels'
  BY <1>2, Zenon DEF ElabStop, ElabTake, rvars, evars
<1>3. ASSUME NEW t \in Elabs, ElabPut(t) PROVE Labels'
  BY <1>3, Zenon DEF ElabPut, Signal, rvars
<1>4. ASSUME NEW t \in Elabs, ElabSpurious(t) PROVE Labels'
  BY <1>4, Zenon DEF ElabSpurious, evars
<1>5. ASSUME NEW t \in Sinks, SinkWait(t) PROVE Labels'
  BY <1>5, Zenon DEF SinkWait, rvars
<1>6. ASSUME NEW t \in Sinks, SinkStop(t) \/ SinkTake(t) PROVE Labels'
  BY <1>6, Zenon DEF SinkStop, SinkTake, rvars, evars
<1>7. ASSUME NEW t \in Sinks, SinkSpurious(t) PROVE Labels'
  BY <1>7, Zenon DEF SinkSpurious, rvars
<1> USE DEF Broadcast, MainAt, AfterC, AfterRSet, AfterE, AfterESet, AfterS
<1>8. ASSUME MainChoose PROVE Labels'
  <2>1. /\ DOMAIN pc = Workers \cup {Main} /\ DOMAIN pc' = DOMAIN pc
        /\ pc' = [t \in DOMAIN pc |-> pc'[t]] /\ pc'[Main] = "create"
        /\ \A t \in Workers : pc'[t] \in {"new", "end"}
    BY <1>8, Zenon DEF MainChoose
  <2>2. rcv = {} /\ ecv = {}
    BY <1>8, Zenon DEF Stages, MainChoose
  <2> QED BY <1>8, <2>1, <2>2, Zenon DEF MainChoose, rvars, evars
<1>9. ASSUME MainCreate PROVE Labels'
  <2>1. /\ DOMAIN pc = Workers \cup {Main} /\ DOMAIN pc' = DOMAIN pc
        /\ pc' = [t \in DOMAIN pc |-> pc'[t]] /\ pc'[Main] = "join_c"
        /\ \A t \in Sources : pc'[t] \in {"c_lock", "end"}
        /\ \A t \in Elabs : pc'[t] \in {"e_lock", "end"}
        /\ \A t \in Sinks : pc'[t] \in {"s_lock", "end"}
    BY <1>9, Zenon DEF MainCreate
  <2>2. rcv = {} /\ ecv = {}
    BY <1>9, Zenon DEF Stages, MainCreate
  <2> QED BY <1>9, <2>1, <2>2, Zenon DEF MainCreate
<1>10. ASSUME wait_for PROVE Labels'
  BY <1>10, Zenon DEF wait_for, MainJoin, rvars, evars
<1>11. ASSUME ReleaseRLock \/ ReleaseREnd \/ ReleaseELock \/ ReleaseEEnd PROVE Labels'
  BY <1>11, Zenon DEF ReleaseRLock, ReleaseREnd, ReleaseELock, ReleaseEEnd, rvars, evars
<1>12. ASSUME ReleaseRSet PROVE Labels'
  BY <1>12, Zenon DEF ReleaseRSet, evars
<1>13. ASSUME ReleaseESet PROVE Labels'
  BY <1>13, Zenon DEF ReleaseESet, rvars
<1> QED
  BY <1>1, <1>2, <1>3, <1>4, <1>5, <1>6, <1>7, <1>8, <1>9, <1>10, <1>11, <1>12, <1>13, Zenon
  DEF Shared, Moves, SinkShared, elaborate_data, start, release_t

(* No step of the elaborate_data threads and of the sinks moves main, ends *)
(* another thread or restarts one that has ended.                          *)
LEMMA ThreadMoves ==
  ASSUME Labels, NEW t \in Workers, Moves(t)
  PROVE  /\ pc'[Main] = pc[Main]
         /\ pc[t] \notin {"none", "new", "end"}
         /\ \A u \in Workers \ {t} : pc'[u] = pc[u] \/
              (pc[u] \in {"e_wait", "s_wait"} /\ pc'[u] \in {"e_lock", "s_lock"})
         /\ pc'[t] \in {"end", "e_lock", "e_wait", "e_put", "s_lock", "s_wait", "s_out"}
         /\ \A u \in Sources : pc'[u] = pc[u]
<1> USE Kinds DEF Labels, Goto
<1>1. CASE t \in Elabs /\ ElabWait(t)
  BY <1>1, Zenon DEF ElabWait
<1>2. CASE t \in Elabs /\ ElabStop(t)
  BY <1>2, Zenon DEF ElabStop
<1>3. CASE t \in Elabs /\ ElabTake(t)
  BY <1>3, Zenon DEF ElabTake
<1>4. CASE t \in Elabs /\ ElabPut(t)
  BY <1>4, Zenon DEF ElabPut, Signal
<1>5. CASE t \in Elabs /\ ElabSpurious(t)
  BY <1>5, Zenon DEF ElabSpurious
<1>6. CASE t \in Sinks /\ (SinkWait(t) \/ SinkStop(t) \/ SinkTake(t))
  BY <1>6, Zenon DEF SinkWait, SinkStop, SinkTake
<1>7. CASE t \in Sinks /\ SinkSpurious(t)
  BY <1>7, Zenon DEF SinkSpurious
<1> HIDE DEF Labels
<1> QED
  BY <1>1, <1>2, <1>3, <1>4, <1>5, <1>6, <1>7, Zenon DEF Moves, elaborate_data, SinkShared

(* Who holds the mutexes *)
LEMMA SharedLocks ==
  ASSUME Labels, Locks, Stages, Shared
  PROVE  Locks'
<1> USE Kinds DEF Locks
<1>1. ASSUME NEW t \in Workers, Moves(t) PROVE Locks'
  <2>1. \A u \in Sources : pc'[u] = pc[u]
    BY <1>1, ThreadMoves
  <2>2. UNCHANGED <<rmutex, hpc>> /\ emutex' \in {emutex, t} /\ (emutex' = t => t \in Sinks \/ emutex = t)
    BY <1>1, Zenon
    DEF Moves, elaborate_data, ElabWait, ElabStop, ElabTake, ElabPut, ElabSpurious,
        SinkShared, SinkWait, SinkStop, SinkTake, SinkSpurious, rvars, evars, hvars
  <2> QED BY <2>1, <2>2, Zenon
<1>2. ASSUME start PROVE Locks'
  <2>1. /\ UNCHANGED <<rmutex, emutex, hpc>>
        /\ \A t \in Sources : pc[t] # "r_read" /\ pc'[t] # "r_read"
    BY <1>2, Zenon DEF start, MainChoose, MainCreate, MainAt, Labels, Stages, rvars, evars, hvars
  <2> QED BY <2>1, Zenon
<1>3. ASSUME wait_for \/ release_t PROVE Locks'
  <2>1. /\ hpc = "no" /\ hpc' = hpc /\ emutex' \in {emutex, None, Main}
        /\ \A t \in Sources : pc'[t] = pc[t]
    BY <1>3, Zenon
    DEF wait_for, MainJoin, release_t, ReleaseRLock, ReleaseRSet, ReleaseREnd, ReleaseELock,
        ReleaseESet, ReleaseEEnd, MainAt, Goto, Broadcast, Labels, rvars, evars, hvars
  <2>2. \/ rmutex' = rmutex
        \/ rmutex = None /\ rmutex' = Main
        \/ rmutex' = None /\ Ended(Sources)
    BY <1>3, Zenon
    DEF wait_for, MainJoin, release_t, ReleaseRLock, ReleaseRSet, ReleaseREnd, ReleaseELock,
        ReleaseESet, ReleaseEEnd, MainAt, Stages, AfterC, AfterRSet, rvars, evars
  <2>3. \A t \in Sources : rmutex' = t <=> pc[t] = "r_read"
    BY <2>2, Zenon DEF Ended
  <2> QED BY <2>1, <2>2, <2>3
<1> HIDE DEF Locks
<1> QED BY <1>1, <1>2, <1>3, Zenon DEF Shared

(* A thread carries a string to be elaborated to ebuffer, an elaborated    *)
(* one to where it goes.                                                   *)
LEMMA SharedHands ==
  ASSUME Labels, Hands, Buffers, Stages, Shared
  PROVE  Hands'
<1> DEFINE Kept == /\ item' = item
                   /\ \A t \in Workers : pc'[t] = pc[t] \/
                        (pc[t] \notin {"e_put", "s_out"} /\ pc'[t] \notin {"e_put", "s_out"})
<1>1. ASSUME Kept PROVE Hands'
  BY <1>1, Zenon DEF Hands
<1>2. ASSUME NEW t \in Elabs, ElabWait(t) \/ ElabStop(t) \/ ElabSpurious(t) PROVE Kept
  BY <1>2, Kinds, Zenon DEF ElabWait, ElabStop, ElabSpurious, Labels, Goto
<1>3. ASSUME NEW t \in Sinks, SinkWait(t) \/ SinkStop(t) \/ SinkSpurious(t) PROVE Kept
  BY <1>3, Kinds, Zenon DEF SinkWait, SinkStop, SinkSpurious, Labels, Goto
<1>4. ASSUME NEW t \in Elabs, ElabTake(t) PROVE Hands'
  <2>1. Head(rbuffer) \in Fresh
    BY <1>4 DEF ElabTake, Buffers
  <2> QED BY <1>4, <2>1, Kinds, ItemTypes, Zenon DEF ElabTake, Hands, Labels, Goto
<1>5. ASSUME NEW t \in Elabs, ElabPut(t) PROVE Hands'
  <2>1. item' = [item EXCEPT ![t] = None] /\ pc'[t] = "e_lock"
    BY <1>5, Kinds, Zenon DEF ElabPut, Labels, Goto, Signal
  <2>2. \A u \in Workers \ {t} : pc'[u] = pc[u] \/
          (pc[u] \notin {"e_put", "s_out"} /\ pc'[u] \notin {"e_put", "s_out"})
    BY <1>5, Kinds, Zenon DEF ElabPut, Labels, Goto, Signal
  <2> QED BY <2>1, <2>2, Kinds, ItemTypes, Zenon DEF Hands
<1>6. ASSUME NEW t \in Sinks, SinkTake(t) PROVE Hands'
  <2>1. Head(ebuffer) \in Cased
    BY <1>6 DEF SinkTake, Buffers
  <2> QED BY <1>6, <2>1, Kinds, ItemTypes, Zenon DEF SinkTake, Hands, Labels, Goto
<1>7. ASSUME wait_for \/ ReleaseRLock \/ ReleaseREnd \/ ReleaseELock \/ ReleaseEEnd
      PROVE  Kept
  BY <1>7, Kinds, Zenon
  DEF wait_for, MainJoin, ReleaseRLock, ReleaseREnd, ReleaseELock, ReleaseEEnd, Labels, Goto
<1>8. ASSUME ReleaseRSet \/ ReleaseESet PROVE Kept
  BY <1>8, Kinds, Zenon DEF ReleaseRSet, ReleaseESet, Broadcast, Labels
<1>9. ASSUME start PROVE Kept
  BY <1>9, Kinds, Zenon DEF start, MainChoose, MainCreate, MainAt, Stages, Labels
<1> QED
  BY <1>1, <1>2, <1>3, <1>4, <1>5, <1>6, <1>7, <1>8, <1>9, Zenon
  DEF Shared, Moves, SinkShared, elaborate_data, release_t

(* The buffers keep their types. *)
LEMMA SharedBuffers ==
  ASSUME Hands, Buffers, Shared
  PROVE  Buffers'
<1> DEFINE Kept == UNCHANGED <<rbuffer, ebuffer, dropped, arg, todo, control>>
<1>1. ASSUME Kept PROVE Buffers'
  BY <1>1, Zenon DEF Buffers
<1>2. ASSUME NEW t \in Elabs, ElabTake(t) PROVE Buffers'
  BY <1>2 DEF ElabTake, Buffers, evars, hvars
<1>3. ASSUME NEW t \in Elabs, ElabPut(t) PROVE Buffers'
  <2>1. to_case(item[t]) \in Cased
    BY <1>3, Kinds, ItemTypes DEF ElabPut, Hands
  <2> QED BY <1>3, <2>1 DEF ElabPut, Buffers, rvars, hvars
<1>4. ASSUME NEW t \in Sinks, SinkTake(t) PROVE Buffers'
  BY <1>4 DEF SinkTake, Buffers, rvars, hvars
<1>5. ASSUME MainCreate PROVE Buffers'
  BY <1>5 DEF MainCreate, Buffers, hvars
<1>6. ASSUME NEW t \in Elabs, ElabWait(t) \/ ElabStop(t) \/ ElabSpurious(t) PROVE Kept
  BY <1>6, Zenon DEF ElabWait, ElabStop, ElabSpurious, rvars, evars, hvars
<1>7. ASSUME NEW t \in Sinks, SinkWait(t) \/ SinkStop(t) \/ SinkSpurious(t) PROVE Kept
  BY <1>7, Zenon DEF SinkWait, SinkStop, SinkSpurious, rvars, evars, hvars
<1>8. ASSUME MainChoose \/ wait_for \/ release_t PROVE Kept
  BY <1>8, Zenon
  DEF MainChoose, wait_for, MainJoin, release_t, ReleaseRLock, ReleaseRSet, ReleaseREnd,
      ReleaseELock, ReleaseESet, ReleaseEEnd, rvars, evars, hvars
<1> HIDE DEF Kept
<1> QED
  BY <1>1, <1>2, <1>3, <1>4, <1>5, <1>6, <1>7, <1>8, Zenon
  DEF Shared, Moves, SinkShared, elaborate_data, start

(* Only main passes a stage, and only when its join has seen the threads   *)
(* end; nobody starts again.                                               *)
LEMMA SharedStages ==
  ASSUME Labels, Stages, Shared
  PROVE  Stages'
<1> USE Kinds DEF Ended
<1>1. ASSUME NEW t \in Workers, Moves(t) PROVE Stages'
  <2>1. /\ pc'[Main] = pc[Main] /\ pc[Main] \notin {"setup", "create"}
        /\ \A u \in Workers : pc[u] = "end" => pc'[u] = "end"
    BY <1>1, ThreadMoves, Zenon DEF Stages
  <2> QED BY <2>1, Zenon DEF Stages
<1> USE DEF Labels, Stages, AfterC, AfterRSet, AfterE, AfterESet, AfterS
<1>2. ASSUME MainChoose PROVE Stages'
  BY <1>2, Zenon DEF MainChoose, MainAt, rvars, evars
<1>3. ASSUME MainCreate PROVE Stages'
  BY <1>3, Zenon DEF MainCreate, MainAt
<1>4. ASSUME wait_for PROVE Stages'
  BY <1>4, Zenon DEF wait_for, MainJoin, MainAt, Goto
<1>5. ASSUME ReleaseRLock \/ ReleaseREnd \/ ReleaseELock \/ ReleaseEEnd PROVE Stages'
  BY <1>5, Zenon DEF ReleaseRLock, ReleaseREnd, ReleaseELock, ReleaseEEnd, MainAt, Goto
<1>6. ASSUME ReleaseRSet PROVE Stages'
  <2>1. /\ pc[Main] = "rel_r_set" /\ pc'[Main] = "rel_r_end"
        /\ \A t \in Workers : pc[t] = "end" => pc'[t] = "end"
    BY <1>6, Zenon DEF ReleaseRSet, Broadcast, MainAt
  <2> QED BY <2>1, Zenon
<1>7. ASSUME ReleaseESet PROVE Stages'
  <2>1. /\ pc[Main] = "rel_e_set" /\ pc'[Main] = "rel_e_end"
        /\ \A t \in Workers : pc[t] = "end" => pc'[t] = "end"
    BY <1>7, Zenon DEF ReleaseESet, Broadcast, MainAt
  <2> QED BY <2>1, Zenon
<1> HIDE DEF Stages, Labels
<1> QED
  BY <1>1, <1>2, <1>3, <1>4, <1>5, <1>6, <1>7, Zenon DEF Shared, start, release_t

-----------------------------------------------------------------------------
(* Where the strings are *)

Distinct == \A t, u \in Carriers : item[t].id = item[u].id => t = u

(* A thread with empty hands takes a string. *)
LEMMA Takes ==
  ASSUME Hands, Distinct, NEW t \in Workers, item[t] = None,
         NEW x \in Item, x.id \notin Held, item' = [item EXCEPT ![t] = x]
  PROVE  Held' = Held \cup {x.id} /\ Distinct'
<1>1. /\ Carriers' = Carriers \cup {t} /\ t \notin Carriers
      /\ item'[t] = x /\ \A u \in Carriers : item'[u] = item[u]
  BY ItemTypes DEF Hands, Carriers
<1>2. Held' = Held \cup {x.id}
  BY <1>1 DEF Held
<1>3. Distinct'
  BY <1>1 DEF Held, Distinct
<1> QED BY <1>2, <1>3

(* A thread hands on the string it carries. *)
LEMMA Gives ==
  ASSUME Hands, Distinct, NEW t \in Workers, item[t] # None,
         item' = [item EXCEPT ![t] = None]
  PROVE  item[t].id \in Held /\ Held' = Held \ {item[t].id} /\ Distinct'
<1>1. /\ Carriers' = Carriers \ {t} /\ t \in Carriers
      /\ \A u \in Carriers \ {t} : item'[u] = item[u]
  BY DEF Hands, Carriers
<1>2. item[t].id \in Held /\ Held' = Held \ {item[t].id}
  BY <1>1 DEF Held, Distinct
<1>3. Distinct'
  BY <1>1 DEF Distinct
<1> QED BY <1>2, <1>3

(* Four sets that do not meet *)
Disjoint(A, B, C, D) ==
  /\ A \cap B = {} /\ A \cap C = {} /\ A \cap D = {}
  /\ B \cap C = {} /\ B \cap D = {} /\ C \cap D = {}

(* Apart says that the four places are disjoint, and none holds a string   *)
(* twice.                                                                  *)
LEMMA ApartMeans ==
  /\ Apart <=> /\ Once(rbuffer) /\ Once(ebuffer) /\ Once(dropped) /\ Distinct
               /\ Disjoint(Ids(rbuffer), Held, Ids(ebuffer), Ids(dropped))
  /\ Apart' <=> /\ Once(rbuffer') /\ Once(ebuffer') /\ Once(dropped') /\ Distinct'
                /\ Disjoint(Ids(rbuffer'), Held', Ids(ebuffer'), Ids(dropped'))
<1>1. ASSUME NEW A, NEW B, NEW C, NEW D
      PROVE  Disjoint(A, B, C, D) <=> /\ A \cap (B \cup C \cup D) = {}
                                      /\ B \cap (C \cup D) = {} /\ C \cap D = {}
  BY DEF Disjoint
<1> QED BY <1>1, Zenon DEF Apart, Distinct

(* Nothing moves. *)
LEMMA ApartFrame ==
  ASSUME Apart, UNCHANGED <<rbuffer, item, ebuffer, dropped>>
  PROVE  Apart' /\ Within' = Within
<1>1. Held' = Held
  BY Zenon DEF Held, Carriers
<1>2. Distinct <=> Distinct'
  BY Zenon DEF Distinct, Carriers
<1>3. Apart'
  BY <1>1, <1>2, ApartMeans
<1>4. Within' = Within
  BY <1>1, Zenon DEF Within
<1> QED BY <1>3, <1>4

(* The threads hand the strings on: none is duplicated, none vanishes. *)
LEMMA SharedApart ==
  ASSUME Labels, Hands, Buffers, Stages, Apart, Shared
  PROVE  Apart' /\ Within' = Within
<1>a. /\ Once(rbuffer) /\ Once(ebuffer) /\ Once(dropped) /\ Distinct
      /\ Disjoint(Ids(rbuffer), Held, Ids(ebuffer), Ids(dropped))
  BY ApartMeans
<1>b. rbuffer \in Seq(Fresh) /\ ebuffer \in Seq(Cased)
  BY DEF Buffers
<1>1. ASSUME NEW t \in Elabs, ElabTake(t) PROVE Apart' /\ Within' = Within
  <2> DEFINE x == Head(rbuffer)
  <2>1. /\ rbuffer # <<>> /\ rbuffer' = Tail(rbuffer) /\ item' = [item EXCEPT ![t] = x]
        /\ UNCHANGED <<ebuffer, dropped>>
    BY <1>1 DEF ElabTake, evars, hvars
  <2>2. x \in Fresh /\ x # Terminator
    BY <1>b, <2>1, ItemTypes
  <2>3. x.id \in Ids(rbuffer) /\ Ids(rbuffer') = Ids(rbuffer) \ {x.id} /\ Once(rbuffer')
    BY <1>a, <1>b, <2>1, <2>2, IdsTaken, Zenon
  <2> HIDE DEF x
  <2>4. t \in Workers /\ item[t] = None
    BY <1>1, Kinds DEF ElabTake, Hands
  <2>5. Held' = Held \cup {x.id} /\ Distinct'
    <3>1. x.id \notin Held /\ x \in Item
      BY <1>a, <2>2, <2>3, ItemTypes DEF Disjoint
    <3> QED BY <1>a, <2>1, <2>4, <3>1, Takes, Zenon
  <2>6. Disjoint(Ids(rbuffer'), Held', Ids(ebuffer), Ids(dropped))
    BY <1>a, <2>3, <2>5 DEF Disjoint
  <2>7. Apart'
    BY <1>a, <2>1, <2>3, <2>5, <2>6, ApartMeans
  <2>8. Within' = Within
    BY <2>1, <2>3, <2>5 DEF Within
  <2> QED BY <2>7, <2>8
<1>2. ASSUME NEW t \in Elabs, ElabPut(t) PROVE Apart' /\ Within' = Within
  <2> DEFINE x == item[t]
  <2>1. /\ ebuffer' = Append(ebuffer, to_case(x)) /\ item' = [item EXCEPT ![t] = None]
        /\ UNCHANGED <<rbuffer, dropped>>
    BY <1>2 DEF ElabPut, rvars, hvars
  <2>2. t \in Workers /\ x \in Fresh /\ to_case(x) \in Cased /\ to_case(x).id = x.id
    BY <1>2, Kinds, ItemTypes DEF ElabPut, Hands
  <2>3. x.id \in Held /\ Held' = Held \ {x.id} /\ Distinct'
    BY <1>a, <2>1, <2>2, ItemTypes, Gives, Zenon
  <2> HIDE DEF x
  <2>4. Ids(ebuffer') = Ids(ebuffer) \cup {x.id} /\ Once(ebuffer')
    <3>1. x.id \notin Ids(ebuffer) /\ to_case(x) # Terminator
      BY <1>a, <2>2, <2>3, ItemTypes DEF Disjoint
    <3> QED BY <1>a, <1>b, <2>1, <2>2, <3>1, IdsAppended, Zenon
  <2>5. Disjoint(Ids(rbuffer), Held', Ids(ebuffer'), Ids(dropped))
    BY <1>a, <2>3, <2>4 DEF Disjoint
  <2>6. Apart'
    BY <1>a, <2>1, <2>3, <2>4, <2>5, ApartMeans
  <2>7. Within' = Within
    BY <2>1, <2>3, <2>4 DEF Within
  <2> QED BY <2>6, <2>7
<1>3. ASSUME NEW t \in Sinks, SinkTake(t) PROVE Apart' /\ Within' = Within
  <2> DEFINE x == Head(ebuffer)
  <2>1. /\ ebuffer # <<>> /\ ebuffer' = Tail(ebuffer) /\ item' = [item EXCEPT ![t] = x]
        /\ UNCHANGED <<rbuffer, dropped>>
    BY <1>3 DEF SinkTake, rvars, hvars
  <2>2. x \in Cased /\ x # Terminator
    BY <1>b, <2>1, ItemTypes
  <2>3. x.id \in Ids(ebuffer) /\ Ids(ebuffer') = Ids(ebuffer) \ {x.id} /\ Once(ebuffer')
    BY <1>a, <1>b, <2>1, <2>2, IdsTaken, Zenon
  <2> HIDE DEF x
  <2>4. t \in Workers /\ item[t] = None
    BY <1>3, Kinds DEF SinkTake, Hands
  <2>5. Held' = Held \cup {x.id} /\ Distinct'
    <3>1. x.id \notin Held /\ x \in Item
      BY <1>a, <2>2, <2>3, ItemTypes DEF Disjoint
    <3> QED BY <1>a, <2>1, <2>4, <3>1, Takes, Zenon
  <2>6. Disjoint(Ids(rbuffer), Held', Ids(ebuffer'), Ids(dropped))
    BY <1>a, <2>3, <2>5 DEF Disjoint
  <2>7. Apart'
    BY <1>a, <2>1, <2>3, <2>5, <2>6, ApartMeans
  <2>8. Within' = Within
    BY <2>1, <2>3, <2>5 DEF Within
  <2> QED BY <2>7, <2>8
<1>4. ASSUME NEW t \in Elabs, ElabWait(t) \/ ElabStop(t) \/ ElabSpurious(t)
      PROVE  UNCHANGED <<rbuffer, item, ebuffer, dropped>>
  BY <1>4, Zenon DEF ElabWait, ElabStop, ElabSpurious, rvars, evars, hvars
<1>5. ASSUME NEW t \in Sinks, SinkWait(t) \/ SinkStop(t) \/ SinkSpurious(t)
      PROVE  UNCHANGED <<rbuffer, item, ebuffer, dropped>>
  BY <1>5, Zenon DEF SinkWait, SinkStop, SinkSpurious, rvars, evars, hvars
<1>6. ASSUME start \/ wait_for \/ release_t PROVE UNCHANGED <<rbuffer, item, ebuffer, dropped>>
  BY <1>6, Zenon
  DEF start, MainChoose, MainCreate, MainAt, Stages, wait_for, MainJoin, release_t, ReleaseRLock,
      ReleaseRSet, ReleaseREnd, ReleaseELock, ReleaseESet, ReleaseEEnd, rvars, evars, hvars
<1> QED
  BY <1>1, <1>2, <1>3, <1>4, <1>5, <1>6, ApartFrame, Zenon
  DEF Shared, Moves, SinkShared, elaborate_data

(* The steps both programs take keep the invariant, and every string       *)
(* inside the program.                                                     *)
LEMMA SharedKeeps ==
  ASSUME PInv, Shared
  PROVE  PInv' /\ Within' = Within
BY SharedLabels, SharedLocks, SharedHands, SharedBuffers, SharedStages, SharedApart, Zenon DEF PInv

-----------------------------------------------------------------------------
(* What the programs do of their own *)

(* A step of a thread that fills rbuffer, to `label', with its effect on   *)
(* rbuffer, on the counter and on the loop still open                      *)
Source(t, label) ==
  /\ (pc[t] = "c_lock" /\ rmutex = None) \/ pc[t] = "r_read"
  /\ label \in {"c_lock", "r_read", "end"}
  /\ rmutex' = IF label = "r_read" THEN t ELSE None
  /\ (Goto(t, label) /\ rcv' = rcv) \/ Signal(rcv, "e_lock", t, label)
  /\ todo' \in Int
  /\ UNCHANGED <<rdone, evars, item, hvars>>

(* It moves nobody else but a thread it wakes. *)
LEMMA SourceMoves ==
  ASSUME Labels, NEW t \in Sources, NEW label, Source(t, label)
  PROVE  /\ Labels'
         /\ pc'[Main] = pc[Main] /\ pc'[t] = label
         /\ \A u \in Workers \ {t} : pc'[u] = pc[u] \/
              (pc[u] = "e_wait" /\ pc'[u] = "e_lock" /\ u \notin Sources)
<1>1. CASE Goto(t, label) /\ rcv' = rcv
  BY <1>1, Kinds, Zenon DEF Labels, Source, Goto, evars
<1>2. ASSUME NEW w \in rcv, rcv' = rcv \ {w}, pc' = [pc EXCEPT ![w] = "e_lock", ![t] = label]
      PROVE  /\ Labels'
             /\ pc'[Main] = pc[Main] /\ pc'[t] = label
             /\ \A u \in Workers \ {t} : pc'[u] = pc[u] \/
                  (pc[u] = "e_wait" /\ pc'[u] = "e_lock" /\ u \notin Sources)
  <2>1. w \in Elabs /\ w # t /\ w # Main /\ pc[w] = "e_wait"
    BY Kinds, Zenon DEF Labels
  <2>2. /\ pc' = [u \in Workers \cup {Main} |-> pc'[u]]
        /\ pc'[Main] = pc[Main] /\ pc'[t] = label /\ pc'[w] = "e_lock"
        /\ \A u \in Workers \ {t, w} : pc'[u] = pc[u]
    BY <1>2, <2>1, Kinds, Zenon DEF Labels
  <2>3. label \in {"c_lock", "r_read", "end"} /\ ecv' = ecv
    BY Zenon DEF Source, evars
  <2>4. \A u \in Sources : pc'[u] \in {"none", "new", "c_lock", "r_read", "end"}
    BY <2>1, <2>2, <2>3, Kinds, Zenon DEF Labels
  <2>5. \A u \in Elabs : pc'[u] \in {"none", "new", "e_lock", "e_wait", "e_put", "end"}
    BY <2>1, <2>2, Kinds, Zenon DEF Labels
  <2>6. \A u \in Sinks : pc'[u] = pc[u]
    BY <2>1, <2>2, Kinds, Zenon
  <2>7. \A u \in rcv' : u \in Elabs /\ pc'[u] = "e_wait"
    BY <1>2, <2>2, Kinds DEF Labels
  <2>8. Labels'
    BY <2>2, <2>3, <2>4, <2>5, <2>6, <2>7 DEF Labels
  <2> QED BY <2>1, <2>2, <2>8, Kinds, Zenon
<1> QED BY <1>1, <1>2, Zenon DEF Source, Signal

(* rmutex is with the thread exactly while it is at "r_read". *)
LEMMA SourceLocks ==
  ASSUME Labels, Locks, NEW t \in Sources, NEW label, Source(t, label)
  PROVE  Locks'
<1>1. /\ pc'[t] = label /\ \A u \in Sources \ {t} : pc'[u] = pc[u]
  BY SourceMoves, Kinds, Zenon
<1>2. rmutex \in {None, t} /\ hpc # "h_e"
  BY Kinds DEF Source, Locks
<1>3. \A u \in Sources \ {t} : pc[u] # "r_read" /\ rmutex' # u
  BY <1>2, Kinds DEF Source, Locks
<1> QED BY <1>1, <1>2, <1>3, Kinds, Zenon DEF Source, Locks, evars, hvars

(* Nobody ends but the thread, and it has not left a stage behind. *)
LEMMA SourceStages ==
  ASSUME Labels, Stages, NEW t \in Sources, NEW label, Source(t, label)
  PROVE  Stages' /\ pc[Main] \notin {"setup", "create"} \cup AfterC
<1>1. /\ pc'[Main] = pc[Main] /\ pc'[t] = label
      /\ \A u \in Workers \ {t} : pc[u] = "end" => pc'[u] = "end"
  BY SourceMoves, Zenon
<1>2. pc[Main] \notin {"setup", "create"} \cup AfterC
  BY Kinds, Zenon DEF Source, Stages, Ended
<1>3. /\ pc[Main] \notin AfterC
      /\ \A u \in Elabs : u # t /\ u \in Workers
      /\ \A u \in Sinks : u # t /\ u \in Workers
  BY <1>2, Kinds
<1> QED BY <1>1, <1>2, <1>3, Zenon DEF Stages, Ended

(* It leaves what the threads carry. *)
LEMMA SourceHands ==
  ASSUME Labels, Hands, NEW t \in Sources, NEW label, Source(t, label)
  PROVE  Hands'
<1>1. \A u \in Workers : pc'[u] = pc[u] \/
        (pc[u] \notin {"e_put", "s_out"} /\ pc'[u] \notin {"e_put", "s_out"})
  <2>1. /\ pc[t] \notin {"e_put", "s_out"} /\ pc'[t] \notin {"e_put", "s_out"}
        /\ \A u \in Workers \ {t} : pc'[u] = pc[u] \/ (pc[u] = "e_wait" /\ pc'[u] = "e_lock")
    BY SourceMoves DEF Source
  <2> QED BY <2>1, Zenon
<1> QED BY <1>1, Zenon DEF Source, Hands

(* It may put a new string into rbuffer. *)
LEMMA SourceKeeps ==
  ASSUME PInv, NEW t \in Sources, NEW label, Source(t, label)
  PROVE  /\ rbuffer' = rbuffer => PInv' /\ Within' = Within
         /\ \A x \in Fresh : x.id \notin Within /\ rbuffer' = Append(rbuffer, x) =>
              PInv' /\ Within' = Within \cup {x.id}
<1>1. Labels' /\ Locks' /\ Hands' /\ Stages'
  BY SourceMoves, SourceLocks, SourceHands, SourceStages, Zenon DEF PInv
<1>2. /\ UNCHANGED <<ebuffer, item, dropped, arg, control>> /\ todo' \in Int
      /\ Buffers /\ Apart
  BY DEF Source, evars, hvars, PInv
<1>3. ASSUME rbuffer' = rbuffer PROVE PInv' /\ Within' = Within
  <2>1. Buffers'
    BY <1>2, <1>3, Zenon DEF Buffers
  <2> QED BY <1>1, <1>2, <1>3, <2>1, ApartFrame, Zenon DEF PInv
<1>4. ASSUME NEW x \in Fresh, x.id \notin Within, rbuffer' = Append(rbuffer, x)
      PROVE  PInv' /\ Within' = Within \cup {x.id}
  <2>1. rbuffer \in Seq(Fresh) /\ rbuffer' \in Seq(Fresh)
    BY <1>2, <1>4 DEF Buffers
  <2>2. Buffers'
    BY <1>2, <2>1, Zenon DEF Buffers
  <2>3. /\ Once(rbuffer) /\ Once(ebuffer) /\ Once(dropped) /\ Distinct
        /\ Disjoint(Ids(rbuffer), Held, Ids(ebuffer), Ids(dropped))
    BY <1>2, ApartMeans
  <2>4. Ids(rbuffer') = Ids(rbuffer) \cup {x.id} /\ Once(rbuffer')
    <3>1. x.id \notin Ids(rbuffer) /\ x # Terminator
      BY <1>4, ItemTypes DEF Within
    <3> QED BY <1>4, <2>1, <2>3, <3>1, IdsAppended, Zenon
  <2>5. Held' = Held /\ Distinct'
    BY <1>2, <2>3, Zenon DEF Held, Distinct, Carriers
  <2>6. Disjoint(Ids(rbuffer'), Held, Ids(ebuffer), Ids(dropped))
    BY <1>4, <2>3, <2>4 DEF Disjoint, Within
  <2>7. Apart'
    BY <1>2, <2>3, <2>4, <2>5, <2>6, ApartMeans
  <2>8. Within' = Within \cup {x.id}
    BY <1>2, <2>4, <2>5 DEF Within
  <2> QED BY <1>1, <2>2, <2>7, <2>8, Zenon DEF PInv
<1> QED BY <1>3, <1>4, Zenon

(* A thread that empties ebuffer is rid of the string it carries. *)
Output(t) ==
  /\ pc[t] = "s_out" /\ Goto(t, "s_lock")
  /\ item' = [item EXCEPT ![t] = None]
  /\ emutex' = None
  /\ UNCHANGED <<rvars, ecv, ebuffer, edone, hvars>>

(* That string, elaborated, has left the program. *)
LEMMA OutputKeeps ==
  ASSUME PInv, NEW t \in Sinks, Output(t)
  PROVE  /\ item[t] \in Cased /\ item[t].id \in Within
         /\ PInv' /\ Within' = Within \ {item[t].id}
<1>0. Labels /\ Locks /\ Hands /\ Buffers /\ Stages /\ Apart
  BY DEF PInv
<1>1. /\ t \in Workers /\ t # Main /\ pc'[t] = "s_lock" /\ pc'[Main] = pc[Main]
      /\ \A u \in Workers \ {t} : pc'[u] = pc[u]
      /\ pc' = [u \in Workers \cup {Main} |-> pc'[u]]
  BY <1>0, Kinds, Zenon DEF Output, Goto, Labels
<1>2. /\ UNCHANGED <<rmutex, rcv, rbuffer, ecv, ebuffer, dropped, arg, todo, control, hpc>>
      /\ item' = [item EXCEPT ![t] = None] /\ emutex' = None /\ pc[t] = "s_out"
  BY DEF Output, rvars, hvars
<1>3. item[t] \in Cased
  BY <1>0, <1>1, <1>2 DEF Hands
<1>4. Labels'
  BY <1>0, <1>1, <1>2, Kinds DEF Labels
<1>5. Locks'
  BY <1>0, <1>1, <1>2, Kinds, Zenon DEF Locks
<1>6. Hands'
  BY <1>0, <1>1, <1>2, Kinds, Zenon DEF Hands
<1>7. Buffers'
  BY <1>0, <1>2, Zenon DEF Buffers
<1>8. Stages'
  BY <1>0, <1>1, <1>2, Kinds, Zenon DEF Stages, Ended
<1>9. /\ Once(rbuffer) /\ Once(ebuffer) /\ Once(dropped) /\ Distinct
      /\ Disjoint(Ids(rbuffer), Held, Ids(ebuffer), Ids(dropped))
  BY <1>0, ApartMeans
<1>10. item[t].id \in Held /\ Held' = Held \ {item[t].id} /\ Distinct'
  BY <1>0, <1>1, <1>2, <1>3, <1>9, ItemTypes, Gives, Zenon
<1>11. Disjoint(Ids(rbuffer), Held', Ids(ebuffer), Ids(dropped))
  BY <1>9, <1>10 DEF Disjoint
<1>12. Apart'
  BY <1>2, <1>9, <1>10, <1>11, ApartMeans
<1>13. item[t].id \in Within /\ Within' = Within \ {item[t].id}
  BY <1>2, <1>9, <1>10 DEF Disjoint, Within
<1> QED BY <1>3, <1>4, <1>5, <1>6, <1>7, <1>8, <1>12, <1>13, Zenon DEF PInv

(* The end of main *)
Leave ==
  /\ MainAt("finish") /\ Goto(Main, "exit")
  /\ UNCHANGED <<rvars, evars, item, hvars>>

LEMMA LeaveKeeps ==
  ASSUME PInv, Leave
  PROVE  PInv' /\ Within' = Within
<1>0. Labels /\ Locks /\ Hands /\ Buffers /\ Stages /\ Apart
  BY DEF PInv
<1>1. /\ pc[Main] = "finish" /\ pc'[Main] = "exit"
      /\ \A u \in Workers : pc'[u] = pc[u]
      /\ pc' = [u \in Workers \cup {Main} |-> pc'[u]]
  BY <1>0, Kinds, Zenon DEF Leave, MainAt, Goto, Labels
<1>2. UNCHANGED <<rmutex, emutex, rcv, rbuffer, ecv, ebuffer, item, dropped, arg, todo, control, hpc>>
  BY DEF Leave, rvars, evars, hvars
<1>3. Labels'
  BY <1>0, <1>1, <1>2, Kinds
  DEF Labels, AfterC, AfterRSet, AfterE, AfterESet, AfterS
<1>4. Locks' /\ Hands' /\ Buffers'
  BY <1>0, <1>1, <1>2, Kinds, Zenon DEF Locks, Hands, Buffers
<1>5. Stages'
  BY <1>0, <1>1, <1>2, Kinds, Zenon
  DEF Stages, Ended, AfterC, AfterRSet, AfterE, AfterESet, AfterS
<1> QED BY <1>0, <1>2, <1>3, <1>4, <1>5, ApartFrame, Zenon DEF PInv

(* Nothing happens. *)
LEMMA StillKeeps ==
  ASSUME PInv, UNCHANGED pvars
  PROVE  PInv' /\ Within' = Within
<1>1. UNCHANGED <<pc, rmutex, emutex, rcv, rbuffer, ecv, ebuffer, item, dropped, arg, todo,
                  control, hpc>>
  BY DEF pvars, rvars, evars, hvars
<1>2. Labels' /\ Locks' /\ Hands' /\ Buffers' /\ Stages'
  BY <1>1, Zenon DEF PInv, Labels, Locks, Hands, Buffers, Stages, Ended
<1> QED BY <1>1, <1>2, ApartFrame, Zenon DEF PInv

(* The handler of SIGINT moves no thread and touches no string in a        *)
(* thread's hands; what the buffers hold it throws away.                   *)
LEMMA SignalKeeps ==
  ASSUME PInv, catcher_SIGINT
  PROVE  PInv' /\ Within' = Within
<1>0. Labels /\ Locks /\ Hands /\ Buffers /\ Stages /\ Apart
  BY DEF PInv
<1>a. rbuffer \in Seq(Item) /\ ebuffer \in Seq(Item) /\ dropped \in Seq(Item)
  <2>1. rbuffer \in Seq(Fresh) /\ ebuffer \in Seq(Cased) /\ dropped \in Seq(Item)
    BY <1>0 DEF Buffers
  <2> QED BY <2>1, ItemTypes
<1>b. /\ Once(rbuffer) /\ Once(ebuffer) /\ Once(dropped) /\ Distinct
      /\ Disjoint(Ids(rbuffer), Held, Ids(ebuffer), Ids(dropped))
  BY <1>0, ApartMeans
<1>c. Ids(<<>>) = {} /\ Once(<<>>)
  BY IdsEmpty
<1>1. /\ UNCHANGED <<pc, rcv, ecv, emutex, item, arg>>
      /\ rbuffer' \in {rbuffer, <<>>} /\ ebuffer' \in {ebuffer, <<>>}
  BY Zenon DEF catcher_SIGINT, Caught, HandlerR, HandlerE, rvars, evars
<1>2. Labels' /\ Hands' /\ Stages'
  BY <1>0, <1>1, Zenon DEF Labels, Hands, Stages, Ended
<1>3. Held' = Held /\ Distinct'
  BY <1>b, <1>1, Zenon DEF Held, Distinct, Carriers
<1>4. ASSUME Caught PROVE Locks' /\ Buffers' /\ Apart' /\ Within' = Within
  <2>1. /\ UNCHANGED <<rbuffer, ebuffer, dropped, rmutex, todo>> /\ hpc' # "h_e"
        /\ control' \in 0 .. 2
    BY <1>0, <1>4 DEF Caught, rvars, evars, Buffers
  <2>2. Locks' /\ Buffers'
    BY <1>0, <1>1, <2>1, Zenon DEF Locks, Buffers
  <2> QED BY <1>0, <1>1, <2>1, <2>2, ApartFrame, Zenon
<1>5. ASSUME HandlerR PROVE Locks' /\ Buffers' /\ Apart' /\ Within' = Within
  <2>1. /\ dropped' = dropped \o rbuffer /\ rbuffer' = <<>> /\ UNCHANGED <<ebuffer, control>>
        /\ rmutex = None /\ rmutex' = Main /\ todo' = 0
    BY <1>5 DEF HandlerR, evars
  <2>2. Locks'
    BY <1>0, <1>1, <2>1, Kinds DEF Locks
  <2>3. dropped' \in Seq(Item)
    BY <1>a, <2>1
  <2>4. Buffers'
    BY <1>0, <1>1, <2>1, <2>3 DEF Buffers
  <2>5. Ids(dropped') = Ids(dropped) \cup Ids(rbuffer) /\ Once(dropped')
    BY <1>a, <1>b, <2>1, IdsJoined DEF Disjoint
  <2>6. Disjoint({}, Held, Ids(ebuffer), Ids(dropped'))
    BY <1>b, <2>5 DEF Disjoint
  <2>7. Apart'
    BY <1>b, <1>c, <1>3, <2>1, <2>5, <2>6, ApartMeans, Zenon
  <2>8. Within' = Within
    BY <1>c, <1>3, <2>1, <2>5 DEF Within
  <2> QED BY <2>2, <2>4, <2>7, <2>8
<1>6. ASSUME HandlerE PROVE Locks' /\ Buffers' /\ Apart' /\ Within' = Within
  <2>1. /\ dropped' = dropped \o ebuffer /\ ebuffer' = <<>>
        /\ UNCHANGED <<rbuffer, control, todo>>
        /\ hpc = "h_e" /\ hpc' = "no" /\ rmutex' = None
    BY <1>6 DEF HandlerE
  <2>2. Locks'
    BY <1>0, <1>1, <2>1, Kinds DEF Locks
  <2>3. dropped' \in Seq(Item)
    BY <1>a, <2>1
  <2>4. Buffers'
    BY <1>0, <1>1, <2>1, <2>3 DEF Buffers
  <2>5. Ids(dropped') = Ids(dropped) \cup Ids(ebuffer) /\ Once(dropped')
    BY <1>a, <1>b, <2>1, IdsJoined DEF Disjoint
  <2>6. Disjoint(Ids(rbuffer), Held, {}, Ids(dropped'))
    BY <1>b, <2>5 DEF Disjoint
  <2>7. Apart'
    BY <1>b, <1>c, <1>3, <2>1, <2>5, <2>6, ApartMeans, Zenon
  <2>8. Within' = Within
    BY <1>c, <1>3, <2>1, <2>5 DEF Within
  <2> QED BY <2>2, <2>4, <2>7, <2>8
<1> QED BY <1>2, <1>4, <1>5, <1>6, Zenon DEF PInv, catcher_SIGINT

(* Nothing has happened yet. *)
LEMMA PipelineStarts ==
  ASSUME PipelineInit
  PROVE  PInv /\ Within = {} /\ Quiet
<1> USE Kinds DEF PipelineInit
<1>1. Labels
  BY Zenon DEF Labels
<1>2. Locks
  BY Zenon DEF Locks
<1>3. Hands
  BY ItemTypes, Zenon DEF Hands
<1>4. Buffers
  BY PipelineAssumption DEF Buffers
<1>5. Stages
  BY Zenon DEF Stages, AfterC, AfterRSet, AfterE, AfterESet, AfterS
<1>6. Ids(<<>>) = {} /\ Once(<<>>)
  BY IdsEmpty
<1>7. Held = {} /\ Distinct
  <2>1. Carriers = {}
    BY DEF Carriers
  <2> QED BY <2>1 DEF Held, Distinct
<1>8. Apart
  <2>1. Disjoint(Ids(rbuffer), Held, Ids(ebuffer), Ids(dropped))
    BY <1>6, <1>7 DEF Disjoint
  <2> QED BY <1>6, <1>7, <2>1, ApartMeans
<1>9. Within = {}
  BY <1>6, <1>7 DEF Within
<1>10. Quiet
  <2>1. ~ Ended(Elabs) /\ ~ Ended(Sinks)
    BY PipelineAssumption, Zenon DEF Ended
  <2> QED BY <1>9, <2>1, Zenon DEF Quiet
<1> QED BY <1>1, <1>2, <1>3, <1>4, <1>5, <1>8, <1>9, <1>10 DEF PInv

-----------------------------------------------------------------------------
(* The threads main creates *)

(* A finite set has a subset of every smaller size. *)
LEMMA SubsetOfSize ==
  ASSUME NEW K, IsFiniteSet(K), NEW m \in Nat, m <= Cardinality(K)
  PROVE  \E S \in SUBSET K : Cardinality(S) = m
<1>1. /\ Cardinality(K) \in Nat
      /\ \E f : f \in Bijection(1 .. Cardinality(K), K)
  BY FS_CardinalityType DEF ExistsBijection
<1>2. PICK f : f \in Bijection(1 .. Cardinality(K), K)
  BY <1>1
<1> DEFINE S == {f[k] : k \in 1 .. m}
           g == [k \in 1 .. m |-> f[k]]
<1>3. 1 .. m \subseteq 1 .. Cardinality(K)
  BY <1>1
<1>4. S \subseteq K
  BY <1>2, <1>3 DEF Bijection, Injection
<1>5. g \in Bijection(1 .. m, S)
  BY <1>2, <1>3 DEF Bijection, Injection, Surjection, IsInjective
<1>6. ExistsBijection(1 .. m, S)
  BY <1>5 DEF ExistsBijection
<1>7. Cardinality(S) = m
  BY <1>6, FS_CountingElements
<1> QED BY <1>4, <1>7

(* main creates a thread of each kind, unless its argument is negative. *)
LEMMA SomeChosen ==
  ASSUME NEW kind, kind \subseteq Workers, kind # {}, NEW step \in Nat \ {0},
         todo \in Int, loop \/ todo > 0
  PROVE  Chosen(kind, step) \subseteq kind /\ Chosen(kind, step) # {}
<1> DEFINE c == Cardinality(kind)
           n == IF loop \/ Quotient(todo, step) + 1 > c THEN c ELSE Quotient(todo, step) + 1
<1>1. IsFiniteSet(kind)
  BY FS_Subset, PipelineAssumption
<1>2. c \in Nat /\ c > 0
  BY <1>1, FS_CardinalityType, FS_EmptySet
<1> HIDE DEF c
<1>3. n \in Nat /\ 0 < n /\ n <= c
  <2>1. CASE loop
    BY <1>2, <2>1
  <2>2. CASE ~ loop
    <3>1. Quotient(todo, step) \in Nat
      BY <2>2 DEF Quotient
    <3> HIDE DEF Quotient
    <3> QED BY <1>2, <3>1
  <2> QED BY <2>1, <2>2
<1> HIDE DEF n
<1>4. Chosen(kind, step) = CHOOSE S \in SUBSET kind : Cardinality(S) = n
  BY <1>3 DEF Chosen, n, c
<1>5. \E S \in SUBSET kind : Cardinality(S) = n
  BY <1>1, <1>3, SubsetOfSize DEF c
<1>6. Chosen(kind, step) \in SUBSET kind /\ Cardinality(Chosen(kind, step)) = n
  BY <1>4, <1>5
<1> QED BY <1>3, <1>6, FS_EmptySet

-----------------------------------------------------------------------------
(* What the threads leave behind, until SIGINT comes *)

(* A step that leaves the buffers alone and ends no thread *)
LEMMA QuietFrame ==
  ASSUME Quiet, UNCHANGED <<hvars, rbuffer, ebuffer, rdone, edone>>, Within' \subseteq Within,
         \A t \in Workers : pc'[t] = "end" => pc[t] = "end",
         pc[Main] \in AfterRSet => pc'[Main] \in AfterRSet,
         pc[Main] \in AfterESet => pc'[Main] \in AfterESet,
         pc'[Main] = "setup" => pc[Main] = "setup" /\ UNCHANGED <<todo, loop>>
  PROVE  Quiet'
<1> SUFFICES ASSUME control' = 0
    PROVE  /\ hpc' = "no" /\ dropped' = <<>>
           /\ rdone' => pc'[Main] \in AfterRSet
           /\ edone' => pc'[Main] \in AfterESet
           /\ Ended(Elabs)' => rbuffer' = <<>> /\ (rdone' \/ arg' < 0)
           /\ Ended(Sinks)' => ebuffer' = <<>> /\ (edone' \/ arg' < 0)
           /\ arg' < 0 => Within' = {}
           /\ pc'[Main] = "setup" => todo' = arg' /\ (loop' <=> arg' = 0)
  BY Zenon DEF Quiet
<1>1. control = 0 /\ UNCHANGED <<arg, hpc, dropped, rbuffer, ebuffer, rdone, edone>>
  BY DEF hvars
<1>2. Ended(Elabs)' => Ended(Elabs)
  BY Kinds, Zenon DEF Ended
<1>3. Ended(Sinks)' => Ended(Sinks)
  BY Kinds, Zenon DEF Ended
<1>4. Within = {} => Within' = {}
  OBVIOUS
<1>5. pc'[Main] = "setup" => pc[Main] = "setup" /\ todo' = todo /\ loop' = loop
  OBVIOUS
<1> QED BY <1>1, <1>2, <1>3, <1>4, <1>5 DEF Quiet

(* When main has chosen, a thread of each kind is to be created, unless    *)
(* the argument is negative.                                               *)
LEMMA Created ==
  ASSUME PInv, Quiet, control = 0, MainChoose, ~ (arg < 0), NEW kind \in {Sources, Elabs, Sinks}
  PROVE  ~ Ended(kind)'
<1> DEFINE chosen == Chosen(Sources, SourceStep) \cup Chosen(Elabs, ElabStep)
                       \cup Chosen(Sinks, SinkStep)
<1>1. todo \in Int /\ arg \in Int /\ pc[Main] = "setup" /\ Labels
  BY DEF MainChoose, MainAt, PInv, Buffers
<1>2. loop \/ todo > 0
  BY <1>1 DEF Quiet
<1>3. kind \subseteq Workers /\ kind \cap chosen # {}
  BY <1>1, <1>2, SomeChosen, Kinds, PipelineAssumption
<1>4. PICK t \in kind : t \in chosen
  BY <1>3
<1>5. \A u \in Workers : u \in chosen => pc'[u] = "new"
  BY <1>1, Kinds, Zenon DEF MainChoose, Labels
<1> QED BY <1>3, <1>4, <1>5 DEF Ended

(* No thread and no step of main leaves anything to do to a kind of        *)
(* threads that has ended.                                                 *)
LEMMA SharedQuiet ==
  ASSUME PInv, Quiet, Shared
  PROVE  Quiet'
<1> USE Kinds
<1>a. Labels /\ Locks /\ Hands /\ Buffers /\ Stages /\ Apart /\ Within' = Within
  BY SharedKeeps DEF PInv
<1>b. ASSUME NEW t \in Workers, Moves(t)
      PROVE  /\ pc'[Main] = pc[Main] /\ pc[Main] # "setup"
             /\ \A u \in Workers \ {t} : pc'[u] = "end" => pc[u] = "end"
  BY <1>a, <1>b, ThreadMoves, Zenon DEF Stages
<1>1. ASSUME NEW t \in Workers, Moves(t), pc'[t] # "end",
             UNCHANGED <<hvars, rbuffer, ebuffer, rdone, edone>>
      PROVE  Quiet'
  BY <1>a, <1>b, <1>1, QuietFrame
<1>2. ASSUME NEW t \in Elabs, ElabWait(t) \/ ElabSpurious(t) PROVE Quiet'
  <2>0. t \in Workers /\ Moves(t)
    BY <1>2 DEF Moves, elaborate_data
  <2>1. pc'[t] # "end" /\ UNCHANGED <<hvars, rbuffer, ebuffer, rdone, edone>>
    BY <1>a, <1>2, Zenon DEF ElabWait, ElabSpurious, Goto, Labels, evars
  <2> QED BY <1>1, <2>0, <2>1, Zenon
<1>3. ASSUME NEW t \in Sinks, SinkWait(t) \/ SinkSpurious(t) PROVE Quiet'
  <2>0. t \in Workers /\ Moves(t)
    BY <1>3, Zenon DEF Moves, SinkShared
  <2>1. pc'[t] # "end" /\ UNCHANGED <<hvars, rbuffer, ebuffer, rdone, edone>>
    BY <1>a, <1>3, Zenon DEF SinkWait, SinkSpurious, Goto, Labels, rvars
  <2> QED BY <1>1, <2>0, <2>1, Zenon
<1>4. ASSUME NEW t \in Elabs, ElabStop(t) PROVE Quiet'
  <2>0. t \in Workers /\ Moves(t)
    BY <1>4 DEF Moves, elaborate_data
  <2>1. /\ rbuffer = <<>> /\ rdone /\ UNCHANGED <<hvars, rbuffer, ebuffer, rdone, edone>>
        /\ pc'[Main] = pc[Main] /\ pc[Main] # "setup"
        /\ \A u \in Sinks : pc'[u] = "end" => pc[u] = "end"
    BY <1>b, <1>4, <2>0, Zenon DEF ElabStop, rvars, evars
  <2> QED BY <1>a, <2>1, Zenon DEF Quiet, Ended, hvars
<1>5. ASSUME NEW t \in Sinks, SinkStop(t) PROVE Quiet'
  <2>0. t \in Workers /\ Moves(t)
    BY <1>5, Zenon DEF Moves, SinkShared
  <2>1. /\ ebuffer = <<>> /\ edone /\ UNCHANGED <<hvars, rbuffer, ebuffer, rdone, edone>>
        /\ pc'[Main] = pc[Main] /\ pc[Main] # "setup"
        /\ \A u \in Elabs : pc'[u] = "end" => pc[u] = "end"
    BY <1>b, <1>5, <2>0, Zenon DEF SinkStop, rvars, evars
  <2> QED BY <1>a, <2>1, Zenon DEF Quiet, Ended, hvars
<1>6. ASSUME NEW t \in Elabs, ElabTake(t) PROVE Quiet'
  <2>0. t \in Workers /\ Moves(t)
    BY <1>6 DEF Moves, elaborate_data
  <2>1. /\ UNCHANGED <<hvars, ebuffer, rdone, edone>>
        /\ pc'[Main] = pc[Main] /\ pc[Main] # "setup"
        /\ \A u \in Sinks : pc'[u] = "end" => pc[u] = "end"
    BY <1>b, <1>6, <2>0, Zenon DEF ElabTake, evars
  <2>2. ~ Ended(Elabs)'
    BY <1>a, <1>6, Zenon DEF ElabTake, Goto, Labels, Ended
  <2> QED BY <1>a, <2>1, <2>2, Zenon DEF Quiet, Ended, hvars
<1>7. ASSUME NEW t \in Sinks, SinkTake(t) PROVE Quiet'
  <2>0. t \in Workers /\ Moves(t)
    BY <1>7, Zenon DEF Moves, SinkShared
  <2>1. /\ UNCHANGED <<hvars, rbuffer, rdone, edone>>
        /\ pc'[Main] = pc[Main] /\ pc[Main] # "setup"
        /\ \A u \in Elabs : pc'[u] = "end" => pc[u] = "end"
    BY <1>b, <1>7, <2>0, Zenon DEF SinkTake, rvars
  <2>2. ~ Ended(Sinks)'
    BY <1>a, <1>7, Zenon DEF SinkTake, Goto, Labels, Ended
  <2> QED BY <1>a, <2>1, <2>2, Zenon DEF Quiet, Ended, hvars
<1>8. ASSUME NEW t \in Elabs, ElabPut(t) PROVE Quiet'
  <2>0. t \in Workers /\ Moves(t)
    BY <1>8 DEF Moves, elaborate_data
  <2> SUFFICES ASSUME control' = 0 PROVE Quiet'
    BY Zenon DEF Quiet
  <2>1. /\ control = 0 /\ UNCHANGED <<hvars, rbuffer, rdone, edone>> /\ pc[t] = "e_put"
        /\ pc'[Main] = pc[Main] /\ pc[Main] # "setup"
        /\ \A u \in Workers \ {t} : pc'[u] = "end" => pc[u] = "end"
    BY <1>b, <1>8, <2>0, Zenon DEF ElabPut, rvars, hvars
  <2>2. ~ edone
    BY <1>a, <2>1, Zenon DEF Quiet, Stages, Ended, AfterE
  <2>3. ~ (arg < 0)
    <3>1. item[t] \in Fresh
      BY <1>a, <2>1 DEF Hands
    <3>2. t \in Carriers
      BY <3>1, ItemTypes DEF Carriers
    <3>3. Within # {}
      BY <3>2 DEF Within, Held
    <3> QED BY <2>1, <3>3 DEF Quiet
  <2>4. ~ Ended(Sinks)
    BY <2>1, <2>2, <2>3 DEF Quiet
  <2>5. ~ Ended(Sinks)'
    BY <2>1, <2>4, Zenon DEF Ended
  <2>6. ~ Ended(Elabs)'
    BY <1>a, <1>8, Zenon DEF ElabPut, Signal, Goto, Labels, Ended
  <2> QED BY <1>a, <2>1, <2>5, <2>6, Zenon DEF Quiet, hvars
<1>9. ASSUME wait_for \/ ReleaseRLock \/ ReleaseREnd \/ ReleaseELock \/ ReleaseEEnd PROVE Quiet'
  <2>1. UNCHANGED <<hvars, rbuffer, ebuffer, rdone, edone>>
    BY <1>9, Zenon
    DEF wait_for, MainJoin, ReleaseRLock, ReleaseREnd, ReleaseELock, ReleaseEEnd, rvars, evars
  <2>2. \A u \in Workers : pc'[u] = "end" => pc[u] = "end"
    BY <1>a, <1>9, Zenon
    DEF wait_for, MainJoin, ReleaseRLock, ReleaseREnd, ReleaseELock, ReleaseEEnd, Goto, Labels
  <2>3. /\ pc[Main] \in AfterRSet => pc'[Main] \in AfterRSet
        /\ pc[Main] \in AfterESet => pc'[Main] \in AfterESet
        /\ pc'[Main] # "setup"
    BY <1>a, <1>9, Zenon
    DEF wait_for, MainJoin, ReleaseRLock, ReleaseREnd, ReleaseELock, ReleaseEEnd, MainAt, Goto,
        Labels, AfterRSet, AfterE, AfterESet, AfterS
  <2> QED BY <1>a, <2>1, <2>2, <2>3, QuietFrame
<1>10. ASSUME ReleaseRSet PROVE Quiet'
  <2>1. /\ pc'[Main] = "rel_r_end" /\ pc[Main] = "rel_r_set"
        /\ \A u \in Workers : pc'[u] = "end" => pc[u] = "end"
    BY <1>a, <1>10, Zenon DEF ReleaseRSet, MainAt, Broadcast, Labels
  <2>2. /\ UNCHANGED <<hvars, rbuffer, ebuffer, edone>> /\ rdone'
    BY <1>10, Zenon DEF ReleaseRSet, evars
  <2>3. pc'[Main] \in AfterRSet /\ pc'[Main] # "setup" /\ pc[Main] \notin AfterESet
    BY <2>1 DEF AfterRSet, AfterESet, AfterS
  <2> QED BY <1>a, <2>1, <2>2, <2>3, Zenon DEF Quiet, Ended, hvars
<1>11. ASSUME ReleaseESet PROVE Quiet'
  <2>1. /\ pc'[Main] = "rel_e_end" /\ pc[Main] = "rel_e_set"
        /\ \A u \in Workers : pc'[u] = "end" => pc[u] = "end"
    BY <1>a, <1>11, Zenon DEF ReleaseESet, MainAt, Broadcast, Labels
  <2>2. /\ UNCHANGED <<hvars, rbuffer, ebuffer, rdone>> /\ edone'
    BY <1>11, Zenon DEF ReleaseESet, rvars
  <2>3. pc'[Main] \in AfterRSet /\ pc'[Main] \in AfterESet /\ pc'[Main] # "setup"
    BY <2>1 DEF AfterRSet, AfterE, AfterESet
  <2> QED BY <1>a, <2>1, <2>2, <2>3, Zenon DEF Quiet, Ended, hvars
<1>12. ASSUME MainCreate PROVE Quiet'
  <2> SUFFICES ASSUME control' = 0 PROVE Quiet'
    BY Zenon DEF Quiet
  <2>1. /\ control = 0 /\ ~ rdone' /\ ~ edone' /\ rbuffer' = <<>> /\ ebuffer' = <<>>
        /\ UNCHANGED hvars /\ pc[Main] = "create" /\ pc'[Main] = "join_c"
        /\ \A u \in Workers : pc'[u] = "end" => pc[u] = "end"
    BY <1>a, <1>12, Zenon DEF MainCreate, MainAt, Labels, hvars
  <2>2. ~ rdone /\ ~ edone
    BY <2>1 DEF Quiet, AfterRSet, AfterE, AfterESet, AfterS
  <2> QED BY <1>a, <2>1, <2>2, Zenon DEF Quiet, Ended, hvars
<1>13. ASSUME MainChoose PROVE Quiet'
  <2> SUFFICES ASSUME control' = 0 PROVE Quiet'
    BY Zenon DEF Quiet
  <2>1. /\ control = 0 /\ UNCHANGED <<hvars, rdone, edone, rbuffer, ebuffer>>
        /\ pc[Main] = "setup" /\ pc'[Main] = "create" /\ rbuffer = <<>> /\ ebuffer = <<>>
    BY <1>a, <1>13, Zenon DEF MainChoose, MainAt, Labels, Stages, rvars, evars, hvars
  <2>2. ~ rdone /\ ~ edone
    BY <2>1 DEF Quiet, AfterRSet, AfterE, AfterESet, AfterS
  <2>3. (Ended(Elabs)' => arg < 0) /\ (Ended(Sinks)' => arg < 0)
    BY <1>13, <2>1, Created
  <2> QED BY <1>a, <2>1, <2>2, <2>3, Zenon DEF Quiet, hvars
<1> QED
  BY <1>2, <1>3, <1>4, <1>5, <1>6, <1>7, <1>8, <1>9, <1>10, <1>11, <1>12, <1>13, Zenon
  DEF Shared, Moves, SinkShared, elaborate_data, start, release_t

(* A thread that fills rbuffer ends no elaborate_data thread, and puts     *)
(* something into rbuffer only while there is one.                         *)
LEMMA SourceQuiet ==
  ASSUME PInv, Quiet, NEW t \in Sources, NEW label, Source(t, label),
         (rbuffer' = rbuffer /\ Within' = Within) \/ (control = 0 => ~ (arg < 0))
  PROVE  Quiet'
<1> SUFFICES ASSUME control' = 0 PROVE Quiet'
  BY Zenon DEF Quiet
<1>1. /\ pc[Main] \notin {"setup", "create"} \cup AfterC /\ pc'[Main] = pc[Main]
      /\ \A u \in Workers \ {t} : pc'[u] = "end" => pc[u] = "end"
  BY SourceStages, SourceMoves, Zenon DEF PInv
<1>2. /\ control = 0 /\ UNCHANGED <<arg, hpc, dropped, rdone, edone, ebuffer>>
  BY DEF Source, evars, hvars
<1>3. ~ rdone /\ ~ edone
  BY <1>1, <1>2 DEF Quiet, AfterC, AfterRSet, AfterE, AfterESet
<1>4. (Ended(Elabs)' => Ended(Elabs)) /\ (Ended(Sinks)' => Ended(Sinks))
  BY <1>1, Kinds, Zenon DEF Ended
<1>5. CASE ~ (arg < 0)
  BY <1>1, <1>2, <1>3, <1>4, <1>5, Zenon DEF Quiet
<1>6. CASE rbuffer' = rbuffer /\ Within' = Within
  BY <1>1, <1>2, <1>3, <1>4, <1>6, Zenon DEF Quiet
<1> QED BY <1>2, <1>5, <1>6

(* The other steps of a program end no thread. *)
LEMMA OwnQuiet ==
  ASSUME PInv, Quiet, (\E t \in Sinks : Output(t)) \/ Leave \/ UNCHANGED pvars
  PROVE  Quiet'
<1>0. Labels
  BY DEF PInv
<1>1. ASSUME NEW t \in Sinks, Output(t) PROVE Quiet'
  <2>1. /\ UNCHANGED <<hvars, rbuffer, ebuffer, rdone, edone, todo, loop>>
        /\ pc'[Main] = pc[Main] /\ \A u \in Workers : pc'[u] = "end" => pc[u] = "end"
    BY <1>0, <1>1, Kinds, Zenon DEF Output, Goto, Labels, rvars
  <2> QED BY <1>1, <2>1, OutputKeeps, QuietFrame
<1>2. ASSUME Leave PROVE Quiet'
  <2>1. /\ UNCHANGED <<hvars, rbuffer, ebuffer, rdone, edone, todo, loop>>
        /\ pc'[Main] = "exit" /\ \A u \in Workers : pc'[u] = "end" => pc[u] = "end"
    BY <1>0, <1>2, Kinds, Zenon DEF Leave, Goto, Labels, rvars, evars
  <2> QED
    BY <1>2, <2>1, LeaveKeeps, QuietFrame DEF AfterRSet, AfterE, AfterESet, AfterS
<1>3. ASSUME UNCHANGED pvars PROVE Quiet'
  <2>1. UNCHANGED <<hvars, rbuffer, ebuffer, rdone, edone, todo, loop, pc>>
    BY <1>3 DEF pvars, rvars, evars
  <2> QED BY <1>3, <2>1, StillKeeps, QuietFrame
<1> QED BY <1>1, <1>2, <1>3

(* After SIGINT nothing is promised. *)
LEMMA SignalQuiet ==
  ASSUME PInv, Quiet, catcher_SIGINT
  PROVE  Quiet'
<1>1. CASE Caught
  <2>1. control' = control + 1 /\ control \in 0 .. 2
    BY <1>1 DEF Caught, PInv, Buffers
  <2>2. control' # 0
    BY <2>1
  <2> QED BY <2>2, Zenon DEF Quiet
<1>2. CASE HandlerR \/ HandlerE
  <2>1. control' = control /\ hpc # "no"
    BY <1>2 DEF HandlerR, HandlerE
  <2> QED BY <2>1 DEF Quiet
<1> QED BY <1>1, <1>2 DEF catcher_SIGINT

(* What the common steps do not touch: the argument, the counter, main's   *)
(* end and, but for their creation, the threads that fill rbuffer.         *)
LEMMA SharedEffects ==
  ASSUME PInv, Shared
  PROVE  /\ UNCHANGED <<arg, control, loop, todo>>
         /\ pc'[Main] = "exit" <=> pc[Main] = "exit"
         /\ \A t \in Sources : pc'[t] = "r_read" <=> pc[t] = "r_read"
         /\ MainChoose \/ \A t \in Sources : pc'[t] = "end" <=> pc[t] = "end"
<1> USE Kinds
<1>0. Labels /\ Stages
  BY DEF PInv
<1>1. ASSUME NEW t \in Workers, Moves(t)
      PROVE  pc'[Main] = pc[Main] /\ \A u \in Sources : pc'[u] = pc[u]
  BY <1>0, <1>1, ThreadMoves
<1>2. ASSUME NEW t \in Workers, Moves(t) PROVE UNCHANGED <<arg, control, loop, todo>>
  BY <1>2, Zenon
  DEF Moves, elaborate_data, ElabWait, ElabStop, ElabTake, ElabPut, ElabSpurious,
      SinkShared, SinkWait, SinkStop, SinkTake, SinkSpurious, rvars, hvars
<1>3. ASSUME start \/ wait_for \/ release_t PROVE UNCHANGED <<arg, control, loop, todo>>
  BY <1>3, Zenon
  DEF start, MainChoose, MainCreate, wait_for, MainJoin, release_t, ReleaseRLock, ReleaseRSet,
      ReleaseREnd, ReleaseELock, ReleaseESet, ReleaseEEnd, rvars, hvars
<1>4. ASSUME MainChoose
      PROVE  /\ pc[Main] # "exit" /\ pc'[Main] # "exit"
             /\ \A t \in Sources : pc[t] # "r_read" /\ pc'[t] # "r_read"
  BY <1>0, <1>4, Zenon DEF MainChoose, MainAt, Labels, Stages
<1>5. ASSUME MainCreate
      PROVE  /\ pc[Main] # "exit" /\ pc'[Main] # "exit"
             /\ \A t \in Sources : /\ pc[t] # "r_read" /\ pc'[t] # "r_read"
                                   /\ pc'[t] = "end" <=> pc[t] = "end"
  BY <1>0, <1>5, Zenon DEF MainCreate, MainAt, Labels, Stages
<1>6. ASSUME wait_for
      PROVE  pc[Main] # "exit" /\ pc'[Main] # "exit" /\ \A t \in Sources : pc'[t] = pc[t]
  BY <1>0, <1>6, Zenon DEF wait_for, MainJoin, MainAt, Goto, Labels
<1>7. ASSUME release_t
      PROVE  pc[Main] # "exit" /\ pc'[Main] # "exit" /\ \A t \in Sources : pc'[t] = pc[t]
  <2>1. CASE ReleaseRLock \/ ReleaseREnd \/ ReleaseELock \/ ReleaseEEnd
    BY <1>0, <2>1, Zenon
    DEF ReleaseRLock, ReleaseREnd, ReleaseELock, ReleaseEEnd, MainAt, Goto, Labels
  <2>2. CASE ReleaseRSet \/ ReleaseESet
    BY <1>0, <2>2, Zenon DEF ReleaseRSet, ReleaseESet, MainAt, Broadcast, Labels
  <2> QED BY <1>7, <2>1, <2>2, Zenon DEF release_t
<1> QED BY <1>1, <1>2, <1>3, <1>4, <1>5, <1>6, <1>7, Zenon DEF Shared, start

(* A program that was not interrupted is empty when main has joined all    *)
(* its threads.                                                            *)
LEMMA AllOut ==
  ASSUME PInv, Quiet, control = 0, pc[Main] \in AfterS
  PROVE  Within = {} /\ Ended(Sources)
<1>1. Ended(Sources) /\ Ended(Elabs) /\ Ended(Sinks) /\ Hands
  BY DEF PInv, Stages, AfterC, AfterRSet, AfterE, AfterESet, AfterS
<1>2. rbuffer = <<>> /\ ebuffer = <<>> /\ dropped = <<>>
  BY <1>1 DEF Quiet
<1>3. \A t \in Workers : item[t] = None
  BY <1>1, Kinds DEF Hands, Ended
<1>4. Held = {}
  BY <1>3 DEF Held, Carriers
<1> QED BY <1>1, <1>2, <1>4, IdsEmpty, Zenon DEF Within
-----------------------------------------------------------------------------
(* Who is awake and who holds what, whether SIGINT has come or not *)

(* A thread that sleeps is known to its condition variable, and nobody     *)
(* sleeps once main has set done.                                          *)
Sleeping ==
  /\ \A t \in Elabs : pc[t] = "e_wait" => t \in rcv
  /\ \A t \in Sinks : pc[t] = "s_wait" => t \in ecv
  /\ pc[Main] \in AfterRSet => rcv = {} /\ rdone
  /\ pc[Main] \in AfterESet => ecv = {} /\ edone

(* A mutex that is held is with a thread that says so: one inside a call   *)
(* of the device, or main in release_t or in the handler.                  *)
Owners ==
  /\ hpc \in {"no", "h_r", "h_e"}
  /\ \A t \in Sinks : emutex = t <=> pc[t] = "s_out"
  /\ emutex = Main <=> pc[Main] \in {"rel_e_set", "rel_e_end"}
  /\ rmutex = Main => pc[Main] \in {"rel_r_set", "rel_r_end"} \/ hpc = "h_e"
  /\ pc[Main] \notin {"setup", "create"} => \A t \in Workers : pc[t] \notin {"none", "new"}

(* Strings that sleepers wait for have somebody who comes for them. *)
Announced ==
  /\ rcv # {} /\ rbuffer # <<>> => \E t \in Elabs : pc[t] \in {"e_lock", "e_put"}
  /\ ecv # {} /\ ebuffer # <<>> => \E t \in Sinks : pc[t] \in {"s_lock", "s_out"}

Alert == Sleeping /\ Owners /\ Announced

(* A thread goes to sleep only while done is not set, and main sets it     *)
(* with everybody woken.                                                   *)
LEMMA SharedSleeping ==
  ASSUME PInv, Sleeping, Shared
  PROVE  Sleeping'
<1>0. Labels /\ Stages
  BY DEF PInv
<1> USE Kinds DEF Labels, Goto
<1>1. ASSUME NEW t \in Elabs, ElabWait(t) \/ ElabStop(t) \/ ElabTake(t) \/ ElabSpurious(t)
      PROVE  Sleeping'
  BY <1>0, <1>1, Zenon DEF ElabWait, ElabStop, ElabTake, ElabSpurious, rvars, evars, Sleeping
<1>2. ASSUME NEW t \in Elabs, ElabPut(t) PROVE Sleeping'
  BY <1>0, <1>2, Zenon DEF ElabPut, Signal, rvars, Sleeping
<1>3. ASSUME NEW t \in Sinks, SinkShared(t) PROVE Sleeping'
  BY <1>0, <1>3, Zenon DEF SinkShared, SinkWait, SinkStop, SinkTake, SinkSpurious, rvars, evars, Sleeping
<1> USE DEF AfterRSet, AfterE, AfterESet, AfterS
<1>4. ASSUME MainChoose PROVE Sleeping'
  BY <1>0, <1>4, Zenon DEF MainChoose, MainAt, Sleeping
<1>5. ASSUME MainCreate PROVE Sleeping'
  BY <1>0, <1>5, Zenon DEF MainCreate, MainAt, Sleeping
<1>6. ASSUME wait_for PROVE Sleeping'
  BY <1>0, <1>6, Zenon DEF wait_for, MainJoin, MainAt, Sleeping, rvars, evars
<1>7. ASSUME ReleaseRLock \/ ReleaseREnd \/ ReleaseELock \/ ReleaseEEnd PROVE Sleeping'
  BY <1>0, <1>7, Zenon
  DEF ReleaseRLock, ReleaseREnd, ReleaseELock, ReleaseEEnd, MainAt, Sleeping, rvars, evars
<1>8. ASSUME ReleaseRSet PROVE Sleeping'
  BY <1>0, <1>8, Zenon DEF ReleaseRSet, Broadcast, MainAt, Sleeping, evars
<1>9. ASSUME ReleaseESet PROVE Sleeping'
  BY <1>0, <1>9, Zenon DEF ReleaseESet, Broadcast, MainAt, Sleeping, rvars
<1> QED
  BY <1>1, <1>2, <1>3, <1>4, <1>5, <1>6, <1>7, <1>8, <1>9, Zenon
  DEF Shared, Moves, elaborate_data, start, release_t

(* Whoever takes a mutex finds it free, and whoever gives one back held it. *)
LEMMA SharedOwners ==
  ASSUME PInv, Owners, Shared
  PROVE  Owners'
<1>0. Labels /\ Stages
  BY DEF PInv
<1> USE Kinds
<1>1. ASSUME NEW t \in Elabs, elaborate_data(t) PROVE Owners'
  <2>1. /\ UNCHANGED <<rmutex, emutex, hpc>> /\ pc'[Main] = pc[Main]
        /\ \A u \in Sinks : pc'[u] = "s_out" <=> pc[u] = "s_out"
    BY <1>0, <1>1, Zenon
    DEF elaborate_data, ElabWait, ElabStop, ElabTake, ElabPut, ElabSpurious, Signal, Labels, Goto,
        rvars, evars, hvars
  <2>2. \A u \in Workers : pc'[u] \in {"none", "new"} => pc[u] = pc'[u]
    BY <1>0, <1>1, ThreadMoves, Zenon DEF Moves
  <2> QED BY <2>1, <2>2, Zenon DEF Owners
<1>2. ASSUME NEW t \in Sinks, SinkShared(t) PROVE Owners'
  <2>1. UNCHANGED <<rmutex, hpc>> /\ pc'[Main] = pc[Main]
    BY <1>0, <1>2, Zenon
    DEF SinkShared, SinkWait, SinkStop, SinkTake, SinkSpurious, Labels, Goto, rvars, hvars
  <2>2. /\ emutex' = Main <=> emutex = Main
        /\ \A u \in Sinks : emutex' = u <=> pc'[u] = "s_out"
    <3>1. CASE SinkTake(t)
      <4>1. /\ emutex = None /\ emutex' = t /\ pc'[t] = "s_out"
            /\ \A u \in Sinks \ {t} : pc'[u] = pc[u]
        BY <1>0, <3>1, Zenon DEF SinkTake, Labels, Goto
      <4> QED BY <4>1, Zenon DEF Owners
    <3>2. CASE SinkWait(t) \/ SinkStop(t) \/ SinkSpurious(t)
      BY <1>0, <3>2, Zenon DEF SinkWait, SinkStop, SinkSpurious, Labels, Goto, Owners, evars
    <3> QED BY <1>2, <3>1, <3>2, Zenon DEF SinkShared
  <2>3. \A u \in Workers : pc'[u] \in {"none", "new"} => pc[u] = pc'[u]
    BY <1>0, <1>2, ThreadMoves, Zenon DEF Moves
  <2> QED BY <2>1, <2>2, <2>3, Zenon DEF Owners
<1>3. ASSUME MainChoose PROVE Owners'
  BY <1>0, <1>3, Zenon DEF MainChoose, MainAt, Labels, Stages, Owners, rvars, evars, hvars
<1>4. ASSUME MainCreate PROVE Owners'
  BY <1>0, <1>4, Zenon DEF MainCreate, MainAt, Labels, Stages, Owners, hvars
<1>5. ASSUME wait_for \/ release_t PROVE Owners'
  <2>1. /\ hpc' = hpc /\ pc[Main] \notin {"setup", "create"}
        /\ \A u \in Sinks : pc'[u] = "s_out" <=> pc[u] = "s_out"
        /\ \A u \in Workers : pc'[u] \in {"none", "new"} => pc[u] = pc'[u]
    BY <1>0, <1>5, Zenon
    DEF wait_for, MainJoin, release_t, ReleaseRLock, ReleaseRSet, ReleaseREnd, ReleaseELock,
        ReleaseESet, ReleaseEEnd, MainAt, Goto, Broadcast, Labels, hvars
  <2>2. rmutex' = Main => pc'[Main] \in {"rel_r_set", "rel_r_end"}
    BY <1>0, <1>5, Zenon
    DEF wait_for, MainJoin, release_t, ReleaseRLock, ReleaseRSet, ReleaseREnd, ReleaseELock,
        ReleaseESet, ReleaseEEnd, MainAt, Goto, Broadcast, Labels, rvars, Owners
  <2>3. /\ \A u \in Sinks : emutex' = u <=> emutex = u
        /\ emutex' = Main <=> pc'[Main] \in {"rel_e_set", "rel_e_end"}
    <3>1. CASE wait_for \/ ReleaseRLock \/ ReleaseRSet \/ ReleaseREnd
      <4>1. /\ emutex' = emutex
            /\ pc[Main] \notin {"rel_e_set", "rel_e_end"} /\ pc'[Main] \notin {"rel_e_set", "rel_e_end"}
        BY <1>0, <3>1, Zenon
        DEF wait_for, MainJoin, ReleaseRLock, ReleaseRSet, ReleaseREnd, MainAt, Goto, Broadcast,
            Labels, evars
      <4> QED BY <4>1, Zenon DEF Owners
    <3>2. CASE ReleaseELock
      BY <1>0, <3>2, Zenon DEF ReleaseELock, MainAt, Goto, Labels, Owners
    <3>3. CASE ReleaseESet
      BY <1>0, <3>3, Zenon DEF ReleaseESet, Broadcast, MainAt, Labels, Owners
    <3>4. CASE ReleaseEEnd
      BY <1>0, <3>4, Zenon DEF ReleaseEEnd, MainAt, Goto, Labels, Owners
    <3> QED BY <1>5, <3>1, <3>2, <3>3, <3>4, Zenon DEF release_t
  <2> QED BY <2>1, <2>2, <2>3, Zenon DEF Owners
<1> QED BY <1>1, <1>2, <1>3, <1>4, <1>5, Zenon DEF Shared, Moves, start

(* A string is put into a buffer with a signal, and a thread that goes to  *)
(* sleep or stops has found the buffer empty.                              *)
LEMMA SharedAnnounced ==
  ASSUME PInv, Announced, Shared
  PROVE  Announced'
<1>0. Labels /\ Stages
  BY DEF PInv
<1> USE Kinds
<1> DEFINE Takers(kind, labels) == \E t \in kind : pc[t] \in labels
           RSide == rcv # {} /\ rbuffer # <<>> => Takers(Elabs, {"e_lock", "e_put"})
           ESide == ecv # {} /\ ebuffer # <<>> => Takers(Sinks, {"s_lock", "s_out"})
<1>a. (Announced <=> RSide /\ ESide) /\ (Announced' <=> RSide' /\ ESide')
  BY Zenon DEF Announced
<1>1. ASSUME NEW t \in Elabs, elaborate_data(t) PROVE RSide'
  <2>1. CASE ElabWait(t) \/ ElabStop(t)
    BY <2>1, Zenon DEF ElabWait, ElabStop, rvars
  <2>2. CASE ElabTake(t) \/ ElabPut(t) \/ ElabSpurious(t)
    <3>1. pc'[t] \in {"e_lock", "e_put"}
      BY <1>0, <2>2, Zenon DEF ElabTake, ElabPut, ElabSpurious, Signal, Labels, Goto
    <3> QED BY <3>1, Zenon
  <2> QED BY <1>1, <2>1, <2>2, Zenon DEF elaborate_data
<1>2. ASSUME NEW t \in Elabs, elaborate_data(t) PROVE ESide'
  <2>1. CASE ElabPut(t)
    <3>1. ecv' = {} \/ \E u \in ecv : pc'[u] = "s_lock"
      BY <1>0, <2>1, Zenon DEF ElabPut, Signal, Labels
    <3> QED BY <1>0, <3>1, Zenon DEF Labels
  <2>2. CASE ElabWait(t) \/ ElabStop(t) \/ ElabTake(t) \/ ElabSpurious(t)
    <3>1. UNCHANGED <<ecv, ebuffer>> /\ \A u \in Sinks : pc'[u] = pc[u]
      BY <1>0, <2>2, Zenon DEF ElabWait, ElabStop, ElabTake, ElabSpurious, Labels, Goto, evars
    <3> QED BY <1>a, <3>1, Zenon
  <2> QED BY <1>2, <2>1, <2>2, Zenon DEF elaborate_data
<1>3. ASSUME NEW t \in Sinks, SinkShared(t) PROVE RSide' /\ ESide'
  <2>1. UNCHANGED <<rcv, rbuffer>> /\ \A u \in Elabs : pc'[u] = pc[u]
    BY <1>0, <1>3, Zenon
    DEF SinkShared, SinkWait, SinkStop, SinkTake, SinkSpurious, Labels, Goto, rvars
  <2>2. ebuffer' = <<>> \/ pc'[t] \in {"s_lock", "s_out"}
    BY <1>0, <1>3, Zenon
    DEF SinkShared, SinkWait, SinkStop, SinkTake, SinkSpurious, Labels, Goto, evars
  <2> QED BY <1>a, <2>1, <2>2, Zenon
<1>4. ASSUME start PROVE RSide' /\ ESide'
  <2>1. UNCHANGED <<rcv, ecv>> /\ rcv = {} /\ ecv = {}
    BY <1>0, <1>4, Zenon DEF start, MainChoose, MainCreate, MainAt, Labels, Stages, rvars, evars
  <2> QED BY <2>1, Zenon
<1>5. ASSUME wait_for \/ release_t PROVE RSide' /\ ESide'
  <2>1. /\ \A u \in Elabs : pc'[u] = pc[u] \/ pc'[u] = "e_lock"
        /\ \A u \in Sinks : pc'[u] = pc[u] \/ pc'[u] = "s_lock"
    BY <1>0, <1>5, Zenon
    DEF wait_for, MainJoin, release_t, ReleaseRLock, ReleaseRSet, ReleaseREnd, ReleaseELock,
        ReleaseESet, ReleaseEEnd, Goto, Broadcast, Labels
  <2>2. UNCHANGED <<rbuffer, ebuffer>> /\ rcv' \in {rcv, {}} /\ ecv' \in {ecv, {}}
    BY <1>0, <1>5, Zenon
    DEF wait_for, MainJoin, release_t, ReleaseRLock, ReleaseRSet, ReleaseREnd, ReleaseELock,
        ReleaseESet, ReleaseEEnd, Broadcast, rvars, evars
  <2> QED BY <1>a, <2>1, <2>2, Zenon
<1> HIDE DEF RSide, ESide
<1> QED BY <1>a, <1>1, <1>2, <1>3, <1>4, <1>5, Zenon DEF Shared, Moves

LEMMA SharedAlert ==
  ASSUME PInv, Alert, Shared
  PROVE  Alert'
BY SharedSleeping, SharedOwners, SharedAnnounced, Zenon DEF Alert

(* A thread that puts a string into rbuffer signals. *)
LEMMA SourceAlert ==
  ASSUME PInv, Alert, NEW t \in Sources, NEW label, Source(t, label),
         rbuffer' = rbuffer \/ Signal(rcv, "e_lock", t, label)
  PROVE  Alert'
<1>0. Labels /\ Locks /\ Sleeping /\ Owners /\ Announced
  BY DEF PInv, Alert
<1>1. /\ pc'[Main] = pc[Main] /\ pc'[t] = label /\ label \in {"c_lock", "r_read", "end"}
      /\ \A u \in Workers \ {t} : pc'[u] = pc[u] \/ (pc[u] = "e_wait" /\ pc'[u] = "e_lock")
  BY <1>0, SourceMoves, Zenon DEF Source
<1>2. /\ UNCHANGED <<rdone, ebuffer, edone, emutex, ecv, hpc>> /\ rcv' \subseteq rcv
      /\ rmutex' \in {None, t}
  BY DEF Source, Signal, evars, hvars
<1>3. \A u \in Sinks : pc'[u] = pc[u]
  BY <1>0, <1>1, Kinds, Zenon DEF Labels
<1>4. \A u \in Elabs : pc'[u] = "e_wait" => u \in rcv'
  BY <1>0, Kinds, Zenon DEF Source, Signal, Goto, Labels, Sleeping
<1>5. Sleeping'
  <2>1. rcv = {} => rcv' = {}
    BY <1>2
  <2> QED BY <1>0, <1>1, <1>2, <1>3, <1>4, <2>1, Zenon DEF Sleeping
<1>6. Owners'
  BY <1>0, <1>1, <1>2, <1>3, Kinds, Zenon DEF Owners
<1>7. Announced'
  <2>1. ecv' # {} /\ ebuffer' # <<>> => \E u \in Sinks : pc'[u] \in {"s_lock", "s_out"}
    BY <1>0, <1>2, <1>3, Zenon DEF Announced
  <2>2. CASE rbuffer' = rbuffer
    <3>1. rcv' # {} => rcv # {}
      BY <1>2
    <3>2. \A u \in Elabs : pc[u] \in {"e_lock", "e_put"} => pc'[u] = pc[u]
      BY <1>1, Kinds, Zenon
    <3> QED BY <1>0, <2>1, <2>2, <3>1, <3>2, Zenon DEF Announced
  <2>3. CASE Signal(rcv, "e_lock", t, label)
    <3>1. rcv' = {} \/ \E u \in rcv : u \in Elabs /\ pc'[u] = "e_lock"
      BY <1>0, <2>3, Kinds, Zenon DEF Signal, Labels
    <3> QED BY <2>1, <3>1, Zenon DEF Announced
  <2> QED BY <2>2, <2>3
<1> QED BY <1>5, <1>6, <1>7 DEF Alert

(* The other steps of a program wake nobody and put nobody to sleep. *)
LEMMA OwnAlert ==
  ASSUME PInv, Alert, (\E t \in Sinks : Output(t)) \/ Leave \/ UNCHANGED pvars
  PROVE  Alert'
<1>0. Labels /\ Sleeping /\ Owners /\ Announced
  BY DEF PInv, Alert
<1>1. ASSUME NEW t \in Sinks, Output(t) PROVE Alert'
  <2>1. /\ UNCHANGED <<rmutex, rcv, rbuffer, rdone, ecv, ebuffer, edone, hpc>> /\ emutex' = None
        /\ pc[t] = "s_out" /\ pc'[t] = "s_lock"
        /\ \A u \in (Workers \cup {Main}) \ {t} : pc'[u] = pc[u]
    BY <1>0, <1>1, Kinds, Zenon DEF Output, Goto, Labels, rvars, hvars
  <2>2. emutex = t
    BY <1>0, <2>1, Zenon DEF Owners
  <2>3. Sleeping'
    BY <1>0, <2>1, Kinds, Zenon DEF Sleeping
  <2>4. Owners'
    BY <1>0, <2>1, <2>2, Kinds, Zenon DEF Owners
  <2>5. Announced'
    BY <1>0, <2>1, Kinds, Zenon DEF Announced
  <2> QED BY <2>3, <2>4, <2>5 DEF Alert
<1>2. ASSUME Leave PROVE Alert'
  <2>1. /\ UNCHANGED <<rmutex, rcv, rbuffer, rdone, emutex, ecv, ebuffer, edone, hpc>>
        /\ pc[Main] = "finish" /\ pc'[Main] = "exit"
        /\ \A u \in Workers : pc'[u] = pc[u]
    BY <1>0, <1>2, Kinds, Zenon DEF Leave, MainAt, Goto, Labels, rvars, evars, hvars
  <2>2. Sleeping'
    BY <1>0, <2>1, Kinds, Zenon DEF Sleeping, AfterRSet, AfterE, AfterESet, AfterS
  <2>3. Owners' /\ Announced'
    BY <1>0, <2>1, Kinds, Zenon DEF Owners, Announced
  <2> QED BY <2>2, <2>3 DEF Alert
<1>3. ASSUME UNCHANGED pvars PROVE Alert'
  <2>1. UNCHANGED <<pc, rmutex, rcv, rbuffer, rdone, emutex, ecv, ebuffer, edone, hpc>>
    BY <1>3 DEF pvars, rvars, evars, hvars
  <2> QED BY <1>0, <2>1, Zenon DEF Alert, Sleeping, Owners, Announced
<1> QED BY <1>1, <1>2, <1>3

(* The handler wakes nobody either, but leaves nothing in the buffers; the *)
(* rmutex it gives back is the one it took.                                *)
LEMMA SignalAlert ==
  ASSUME PInv, Alert, catcher_SIGINT
  PROVE  Alert'
<1>0. Locks /\ Sleeping /\ Owners /\ Announced
  BY DEF PInv, Alert
<1>1. /\ UNCHANGED <<pc, rcv, ecv, emutex>>
      /\ (rdone => rdone') /\ (edone => edone')
      /\ rbuffer' \in {rbuffer, <<>>} /\ ebuffer' \in {ebuffer, <<>>}
  <2>1. CASE Caught
    BY <2>1, Zenon DEF Caught, rvars, evars
  <2>2. CASE HandlerR
    BY <2>2 DEF HandlerR, evars
  <2>3. CASE HandlerE
    BY <2>3 DEF HandlerE
  <2> QED BY <2>1, <2>2, <2>3, Zenon DEF catcher_SIGINT
<1>2. hpc' \in {"no", "h_r", "h_e"}
  BY Zenon DEF catcher_SIGINT, Caught, HandlerR, HandlerE
<1>3. rmutex' = Main => (rmutex = Main /\ hpc # "h_e") \/ hpc' = "h_e"
  BY Kinds, Zenon DEF catcher_SIGINT, Caught, HandlerR, HandlerE, rvars
<1>4. Sleeping' /\ Announced'
  BY <1>0, <1>1, Zenon DEF Sleeping, Announced
<1>5. Owners'
  BY <1>0, <1>1, <1>2, <1>3, Zenon DEF Owners
<1> QED BY <1>4, <1>5 DEF Alert

(* When the handler has been installed nobody sleeps and nothing is held. *)
LEMMA AlertStarts == PipelineInit => Alert
<1> SUFFICES ASSUME PipelineInit PROVE Alert
  OBVIOUS
<1>1. /\ pc[Main] = "setup" /\ \A t \in Workers : pc[t] = "none"
      /\ rmutex = None /\ emutex = None /\ rcv = {} /\ ecv = {} /\ hpc = "no"
  BY Kinds, Zenon DEF PipelineInit
<1> QED
  BY <1>1, Kinds, Zenon
  DEF Alert, Sleeping, Owners, Announced, AfterRSet, AfterE, AfterESet, AfterS

(* While this holds no sleeper is forgotten ... *)
LEMMA AlertForgetsNobody == Alert => NobodyForgotten
BY Zenon
DEF Alert, Sleeping, Announced, NobodyForgotten, AfterRSet, AfterE, AfterESet, AfterS

(* ... and somebody can go on: if nobody could, the mutexes would be free, *)
(* main would be waiting for threads of a kind that has none left at work, *)
(* and none of that kind asleep.                                           *)
LEMMA AlertNoDeadlock ==
  ASSUME PInv, Alert
  PROVE  NoDeadlock
<1> SUFFICES ASSUME pc[Main] # "exit", ~ SelfLocked, ~ MainGoes,
                    \A t \in Workers : ~ CanGo(t) /\ ~ AtDevice(t)
             PROVE  FALSE
  BY Zenon DEF NoDeadlock
<1>0. Labels /\ Locks /\ Sleeping /\ Owners
  BY DEF PInv, Alert
<1>1. /\ \A t \in Sources : pc[t] # "r_read"
      /\ \A t \in Sinks : pc[t] # "s_out"
  BY Kinds, Zenon DEF AtDevice
<1>2. rmutex \in {None, Main} /\ emutex \in {None, Main}
  BY <1>0, <1>1 DEF Locks, Owners
<1>3. hpc # "h_e"
  BY <1>2, Zenon DEF MainGoes, SelfLocked
<1>4. pc[Main] \notin {"rel_r_set", "rel_r_end"} \/ hpc # "no"
  BY Zenon DEF MainGoes, MainAt
<1>5. rmutex = None /\ hpc = "no"
  <2>1. hpc = "h_r" => FALSE
    BY <1>2, Zenon DEF MainGoes, SelfLocked
  <2>2. hpc = "no"
    BY <1>0, <1>3, <2>1 DEF Owners
  <2> QED BY <1>0, <1>2, <1>4, <2>2 DEF Owners
<1>6. emutex = None
  BY <1>0, <1>2, <1>5, Zenon DEF Owners, MainGoes, MainAt
<1>7. pc[Main] \in {"join_c", "join_e", "join_s"}
  BY <1>0, <1>5, <1>6, Zenon
  DEF Labels, MainGoes, MainAt, AfterC, AfterRSet, AfterE, AfterESet, AfterS
<1>8. \A t \in Workers : pc[t] \notin {"none", "new", "c_lock", "e_lock", "e_put", "s_lock"}
  BY <1>0, <1>5, <1>6, <1>7, Zenon DEF Owners, CanGo
<1>9. CASE pc[Main] = "join_c"
  <2>1. \A t \in Sources : pc[t] = "end"
    BY <1>0, <1>1, <1>8, Kinds, Zenon DEF Labels
  <2> QED BY <1>5, <1>9, <2>1, Zenon DEF MainGoes, MainAt
<1>10. CASE pc[Main] = "join_e"
  <2>1. \A t \in Elabs : pc[t] # "e_wait"
    BY <1>0, <1>10, Zenon DEF Sleeping, AfterRSet
  <2>2. \A t \in Elabs : pc[t] = "end"
    BY <1>0, <1>8, <2>1, Kinds, Zenon DEF Labels
  <2> QED BY <1>5, <1>10, <2>2, Zenon DEF MainGoes, MainAt
<1>11. CASE pc[Main] = "join_s"
  <2>1. \A t \in Sinks : pc[t] # "s_wait"
    BY <1>0, <1>11, Zenon DEF Sleeping, AfterESet
  <2>2. \A t \in Sinks : pc[t] = "end"
    BY <1>0, <1>1, <1>8, <2>1, Kinds, Zenon DEF Labels
  <2> QED BY <1>5, <1>11, <2>2, Zenon DEF MainGoes, MainAt
<1> QED BY <1>7, <1>9, <1>10, <1>11
=============================================================================
