---------------------------- MODULE MyDevProofs ----------------------------
(***************************************************************************)
(* Proofs about MyDev for every number of readers, writers and strings,    *)
(* every starting size, and with or without bad buffers, failing           *)
(* allocations and signals.  IInv is the inductive invariant: the          *)
(* properties themselves and three facts they rest on, Sleepers, Carried   *)
(* and IdleSeen.  Each conjunct has a lemma with a case per action.        *)
(***************************************************************************)
EXTENDS MyDev, FiniteSetTheorems, TLAPS

(* my_div of a natural number by a positive one is its quotient or one     *)
(* more (stat.c, my_div).                                                  *)
LEMMA MyDivBounds ==
  ASSUME NEW a \in Nat, NEW b \in Nat \ {0}
  PROVE  /\ my_div(a, b) \in Nat
         /\ my_div(a, b) \in {a \div b, (a \div b) + 1}
<1>1. a \div b \in Nat
  BY SMT
<1> QED BY <1>1 DEF my_div

(* ds_set_kb_occupation never sets a size below 2 (stat.c, "Min 2          *)
(* otherwise stuck on 1").                                                 *)
LEMMA SetSizeMin ==
  ASSUME NEW v \in Nat
  PROVE  ds_set_kb_occupation(v) \in Nat \ {0, 1}
<1>1. CASE v <= 1
  BY <1>1 DEF ds_set_kb_occupation
<1>2. CASE v > 1
  <2>1. v * 100 \in Nat /\ (v * 100) \div 75 >= 2
    BY <1>2
  <2>2. my_div(v * 100, 75) \in {(v * 100) \div 75, ((v * 100) \div 75) + 1}
    BY <2>1, MyDivBounds
  <2> QED BY <1>2, <2>1, <2>2 DEF ds_set_kb_occupation, KB_OCC
<1> QED BY <1>1, <1>2

(* kt_realloc keeps the size or sets one of at least 2, whatever samples   *)
(* it averages, as long as there is one.                                   *)
LEMMA ReallocSize ==
  ASSUME NEW sum \in Nat, NEW dim \in Nat \ {0}, NEW max \in Nat \ {0}
  PROVE  realloc_size(sum, dim, max) \in {max} \cup (Nat \ {0, 1})
BY MyDivBounds, SetSizeMin DEF realloc_size

(* A client or kernel thread whose state is INTERRUPTIBLE is past the      *)
(* statement that set it, and a client is then on its wait queue.          *)
Sleepers ==
  /\ \A r \in Readers : state[r] = "INTERRUPTIBLE" =>
       pc[r] \in {"r_recheck", "r_sched"} /\ r \in wait_r
  /\ \A w \in Writers : state[w] = "INTERRUPTIBLE" =>
       pc[w] \in {"w_load", "w_recheck", "w_sched"} /\ w \in wait_w

(* A writer inside my_write carries a string, the size it compares with    *)
(* outside the mutex is one that ds_kb_max had, and its result is 0 once   *)
(* it has pushed; a client in no call, or in my_open or my_close, carries  *)
(* nothing.                                                                *)
Carried ==
  /\ \A w \in Writers :
       /\ pc[w] \in WriteLocked \cup WriteWaits => value[w] \in Msg
       /\ pc[w] \in {"w_check", "w_recheck"} => seen[w] # 0
       /\ pc[w] = "w_wake" => res[w] = 0
  /\ \A p \in Clients : pc[p] \in ClientLabels => value[p] = None

(* A kernel thread that decided to sleep without a timer saw dev_run = 0   *)
(* and still holds the mutex.                                              *)
IdleSeen == \A k \in KThreads : pc[k] = "k_none" => dev_run = 0

OpenClients == {p \in Clients : pc[p] \notin {"closed", "o_inc", "c_end"}}

IInv ==
  /\ TypeOK
  /\ MutexDiscipline
  /\ Sleepers
  /\ Carried
  /\ PopNeverEmpty
  /\ PushNeverFull
  /\ ReaderWakeable
  /\ WriterWakeable
  /\ KthreadWakeable
  /\ IdleSeen
  /\ DevRunExact

-----------------------------------------------------------------------------
(* Readers, writers and kernel threads are different tasks. *)
LEMMA TaskSets ==
  /\ Clients = Readers \cup Writers
  /\ Readers \subseteq Tasks /\ Writers \subseteq Tasks /\ KThreads \subseteq Tasks
  /\ Readers \cap Writers = {} /\ Clients \cap KThreads = {}
  /\ "kt_stat" \in KThreads /\ "kt_realloc" \in KThreads
  /\ None \notin Tasks /\ None \notin Msg
BY ClientsAssumption DEF Tasks, Clients, KThreads

(* What kb_pop takes out of a FIFO of strings, and what it leaves. *)
LEMMA HeadTail ==
  ASSUME NEW S, NEW s \in Seq(S), s # <<>>
  PROVE  Head(s) \in S /\ Tail(s) \in Seq(S)
OBVIOUS

(* Cardinality when one element comes or goes. *)
LEMMA CardinalityMore ==
  ASSUME NEW S, IsFiniteSet(S), NEW x, x \notin S
  PROVE  Cardinality(S \cup {x}) = Cardinality(S) + 1
BY FS_AddElement

LEMMA CardinalityLess ==
  ASSUME NEW S, IsFiniteSet(S), NEW x \in S
  PROVE  Cardinality(S \ {x}) = Cardinality(S) - 1
BY FS_RemoveElement

(* Finitely many clients have the device open. *)
LEMMA OpenFinite == IsFiniteSet(OpenClients)
BY FS_Subset, FS_Union, ClientsAssumption, Zenon DEF OpenClients, Clients

(* my_close finds dev_run above zero: its caller is among those it counts. *)
LEMMA OpenCount ==
  ASSUME DevRunExact, NEW p \in Clients, pc[p] \notin {"closed", "o_inc", "c_end"}
  PROVE  dev_run \in Nat \ {0}
<1>1. p \in OpenClients
  BY DEF OpenClients
<1>2. Cardinality(OpenClients) \in Nat /\ Cardinality(OpenClients) # 0
  BY <1>1, OpenFinite, FS_CardinalityType, FS_EmptySet
<1> QED BY <1>2 DEF DevRunExact, OpenClients

(* Every step takes a task to a label of the function it executes.         *)
LEMMA LabelsStep == IInv /\ [Next]_vars => LabelsOK'
<1> SUFFICES ASSUME IInv, [Next]_vars PROVE LabelsOK'
  OBVIOUS
<1>0. /\ LabelsOK
  BY DEF IInv, TypeOK
<1> USE TaskSets, <1>0 DEF LabelsOK, Goto, mutex_lock, mutex_unlock, calls,
      queues, alloc, ClientLabels, ReaderLabels, WriterLabels, KThreadLabels,
      OpenLocked, CloseLocked, ReadLocked, ReadWaits, WriteLocked, WriteWaits,
      KtLocked, KtUnlocked
<1>1. ASSUME NEW p \in Clients, OpenLock(p) \/ OpenEnd(p) PROVE LabelsOK'
  BY <1>1 DEF OpenLock, OpenEnd
<1>2. ASSUME NEW p \in Clients, OpenInc(p) PROVE LabelsOK'
  BY <1>2 DEF OpenInc
<1>3. ASSUME NEW p \in Clients, OpenWake(p) PROVE LabelsOK'
  BY <1>3 DEF OpenWake
<1>4. ASSUME NEW p \in Clients, CloseLock(p) \/ CloseEnd(p) PROVE LabelsOK'
  BY <1>4 DEF CloseLock, CloseEnd
<1>5. ASSUME NEW p \in Clients, CloseDec(p) PROVE LabelsOK'
  BY <1>5 DEF CloseDec
<1>6. ASSUME NEW p \in Clients, Signal(p) PROVE LabelsOK'
  BY <1>6 DEF Signal
<1>7. ASSUME NEW r \in Readers, ReadCall(r) \/ ReadAlloc(r) \/ ReadTest(r) PROVE
      LabelsOK'
  BY <1>7 DEF ReadCall, ReadAlloc, ReadTest
<1>8. ASSUME NEW r \in Readers, ReadWait(r) \/ ReadRecheck(r) \/ ReadSched(r)
      PROVE LabelsOK'
  BY <1>8 DEF ReadWait, ReadRecheck, ReadSched, ReadPrepare
<1>9. ASSUME NEW r \in Readers, ReadRelock(r) \/ ReadEnd(r) PROVE LabelsOK'
  BY <1>9 DEF ReadRelock, ReadEnd
<1>10. ASSUME NEW r \in Readers, ReadPop(r) PROVE LabelsOK'
  BY <1>10 DEF ReadPop
<1>11. ASSUME NEW r \in Readers, ReadCopy(r) PROVE LabelsOK'
  BY <1>11 DEF ReadCopy
<1>12. ASSUME NEW w \in Writers, WriteCall(w) \/ WriteAlloc(w) \/ WriteTest(w)
      PROVE LabelsOK'
  BY <1>12 DEF WriteCall, WriteAlloc, WriteTest
<1>13. ASSUME NEW w \in Writers, WriteWait(w) \/ WriteCheck(w) PROVE LabelsOK'
  BY <1>13 DEF WriteWait, WriteCheck, LoadMax, WritePrepare
<1>14. ASSUME NEW w \in Writers, WriteLoad(w) \/ WriteRecheck(w) \/
      WriteSched(w) PROVE LabelsOK'
  BY <1>14 DEF WriteLoad, WriteRecheck, WriteSched, LoadMax, WritePrepare
<1>15. ASSUME NEW w \in Writers, WriteRelock(w) \/ WriteCopy(w) \/ WriteEnd(w)
      PROVE LabelsOK'
  BY <1>15 DEF WriteRelock, WriteCopy, WriteEnd
<1>16. ASSUME NEW w \in Writers, WritePush(w) PROVE LabelsOK'
  BY <1>16 DEF WritePush
<1>17. ASSUME NEW w \in Writers, WriteWake(w) PROVE LabelsOK'
  BY <1>17 DEF WriteWake
<1>18. ASSUME NEW k \in KThreads, KtLock(k) \/ KtSet(k) \/ KtUnlock(k) PROVE
      LabelsOK'
  BY <1>18 DEF KtLock, KtSet, KtUnlock
<1>19. ASSUME NEW k \in KThreads, KtTimeout(k) \/ KtResume(k) PROVE LabelsOK'
  BY <1>19 DEF KtTimeout, KtResume
<1>20. CASE StatBody
  BY <1>20 DEF StatBody
<1>21. CASE ReallocBody
  BY <1>21 DEF ReallocBody
<1>22. CASE UNCHANGED vars
  BY <1>22 DEF vars
<1> QED BY <1>1, <1>2, <1>3, <1>4, <1>5, <1>6, <1>7, <1>8, <1>9, <1>10, <1>11,
      <1>12, <1>13, <1>14, <1>15, <1>16, <1>17, <1>18, <1>19, <1>20, <1>21,
      <1>22, Zenon DEF Next, my_open, my_close, my_read, my_write, kt_stat, kt_realloc,
      KtLoop, KThreads

(* Types.  my_close does not take dev_run below zero because its caller is *)
(* counted; kt_realloc leaves a positive size by ReallocSize; my_write     *)
(* pushes the string it carries.                                           *)
LEMMA DataStep == IInv /\ [Next]_vars => DataOK'
<1> SUFFICES ASSUME IInv, [Next]_vars PROVE DataOK'
  OBVIOUS
<1>0. /\ DataOK /\ Carried /\ DevRunExact
  BY DEF IInv, TypeOK
<1> USE TaskSets, <1>0 DEF DataOK, EFAULT, calls, queues, alloc, wake_up,
      still_queued, set_state
<1>1. ASSUME NEW p \in Clients, OpenLock(p) \/ OpenEnd(p) PROVE DataOK'
  BY <1>1 DEF OpenLock, OpenEnd
<1>2. ASSUME NEW p \in Clients, OpenInc(p) PROVE DataOK'
  BY <1>2 DEF OpenInc
<1>3. ASSUME NEW p \in Clients, OpenWake(p) PROVE DataOK'
  BY <1>3 DEF OpenWake
<1>4. ASSUME NEW p \in Clients, CloseLock(p) \/ CloseEnd(p) PROVE DataOK'
  BY <1>4 DEF CloseLock, CloseEnd
<1>5. ASSUME NEW p \in Clients, CloseDec(p) PROVE DataOK'
  <2>1. dev_run - 1 \in Nat
    BY <1>5, OpenCount DEF CloseDec
  <2> QED BY <1>5, <2>1 DEF CloseDec
<1>6. ASSUME NEW p \in Clients, Signal(p) PROVE DataOK'
  BY <1>6 DEF Signal
<1>7. ASSUME NEW r \in Readers, ReadCall(r) PROVE DataOK'
  BY <1>7 DEF ReadCall
<1>8. ASSUME NEW r \in Readers, ReadAlloc(r) PROVE DataOK'
  BY <1>8 DEF ReadAlloc
<1>9. ASSUME NEW r \in Readers, ReadTest(r) PROVE DataOK'
  BY <1>9 DEF ReadTest
<1>10. ASSUME NEW r \in Readers, ReadWait(r) PROVE DataOK'
  BY <1>10 DEF ReadWait, ReadPrepare
<1>11. ASSUME NEW r \in Readers, ReadRecheck(r) PROVE DataOK'
  BY <1>11 DEF ReadRecheck
<1>12. ASSUME NEW r \in Readers, ReadSched(r) PROVE DataOK'
  BY <1>12 DEF ReadSched, ReadPrepare
<1>13. ASSUME NEW r \in Readers, ReadRelock(r) PROVE DataOK'
  BY <1>13 DEF ReadRelock
<1>14. ASSUME NEW r \in Readers, ReadEnd(r) PROVE DataOK'
  BY <1>14 DEF ReadEnd
<1>15. ASSUME NEW r \in Readers, ReadPop(r) PROVE DataOK'
  <2>1. fifo # <<>> => Head(fifo) \in Msg /\ Tail(fifo) \in Seq(Msg)
    BY HeadTail
  <2>2. CASE kb_isempty
    BY <1>15, <2>2 DEF ReadPop
  <2>3. CASE ~ kb_isempty
    <3>1. fifo' = Tail(fifo) /\ value' = [value EXCEPT ![r] = Head(fifo)]
      BY <1>15, <2>3 DEF ReadPop
    <3>2. fifo' \in Seq(Msg) /\ value' \in [Clients -> Msg \cup {None}]
      BY <2>1, <2>3, <3>1 DEF kb_isempty
    <3> QED BY <1>15, <2>3, <3>2 DEF ReadPop
  <2> QED BY <2>2, <2>3
<1>16. ASSUME NEW r \in Readers, ReadCopy(r) PROVE DataOK'
  BY <1>16 DEF ReadCopy
<1>17. ASSUME NEW w \in Writers, WriteCall(w) PROVE DataOK'
  BY <1>17 DEF WriteCall
<1>18. ASSUME NEW w \in Writers, WriteAlloc(w) PROVE DataOK'
  BY <1>18, Zenon DEF WriteAlloc
<1>19. ASSUME NEW w \in Writers, WriteTest(w) PROVE DataOK'
  BY <1>19 DEF WriteTest
<1>20. ASSUME NEW w \in Writers, WriteWait(w) PROVE DataOK'
  BY <1>20 DEF WriteWait, LoadMax
<1>21. ASSUME NEW w \in Writers, WriteCheck(w) PROVE DataOK'
  BY <1>21 DEF WriteCheck, WritePrepare
<1>22. ASSUME NEW w \in Writers, WriteLoad(w) PROVE DataOK'
  BY <1>22 DEF WriteLoad, LoadMax
<1>23. ASSUME NEW w \in Writers, WriteRecheck(w) PROVE DataOK'
  BY <1>23 DEF WriteRecheck
<1>24. ASSUME NEW w \in Writers, WriteSched(w) PROVE DataOK'
  BY <1>24 DEF WriteSched, WritePrepare
<1>25. ASSUME NEW w \in Writers, WriteRelock(w) PROVE DataOK'
  BY <1>25 DEF WriteRelock
<1>26. ASSUME NEW w \in Writers, WriteCopy(w) PROVE DataOK'
  BY <1>26 DEF WriteCopy
<1>27. ASSUME NEW w \in Writers, WriteEnd(w) PROVE DataOK'
  BY <1>27 DEF WriteEnd
<1>28. ASSUME NEW w \in Writers, WritePush(w) PROVE DataOK'
  <2>1. Append(fifo, value[w]) \in Seq(Msg)
    BY <1>28 DEF WritePush, Carried, WriteLocked
  <2> QED BY <1>28, <2>1, Zenon DEF WritePush
<1>29. ASSUME NEW w \in Writers, WriteWake(w) PROVE DataOK'
  BY <1>29 DEF WriteWake
<1>30. ASSUME NEW k \in KThreads, KtLock(k) \/ KtSet(k) \/ KtUnlock(k) PROVE DataOK'
  BY <1>30 DEF KtLock, KtSet, KtUnlock
<1>31. ASSUME NEW k \in KThreads, KtTimeout(k) \/ KtResume(k) PROVE DataOK'
  BY <1>31 DEF KtTimeout, KtResume
<1>32. CASE StatBody
  BY <1>32 DEF StatBody
<1>33. CASE ReallocBody
  <2>1. kb_dim # 0 => realloc_size(kb_sum, kb_dim, kb_max) \in Nat \ {0}
    BY ReallocSize
  <2> QED BY <1>33, <2>1 DEF ReallocBody
<1>34. CASE UNCHANGED vars
  BY <1>34 DEF vars
<1> QED BY <1>1, <1>2, <1>3, <1>4, <1>5, <1>6, <1>7, <1>8, <1>9, <1>10, <1>11,
      <1>12, <1>13, <1>14, <1>15, <1>16, <1>17, <1>18, <1>19, <1>20, <1>21,
      <1>22, <1>23, <1>24, <1>25, <1>26, <1>27, <1>28, <1>29, <1>30, <1>31,
      <1>32, <1>33, <1>34, Zenon DEF Next, my_open, my_close, my_read, my_write,
      kt_stat, kt_realloc, KtLoop, KThreads

(* Every step that takes a task across a mutex_lock or a mutex_unlock of   *)
(* main.c moves the mutex, and no other step does.                         *)
LEMMA MutexStep == IInv /\ [Next]_vars => MutexDiscipline'
<1> SUFFICES ASSUME IInv, [Next]_vars PROVE MutexDiscipline'
  OBVIOUS
<1>0. /\ pc \in [Tasks -> ReaderLabels \cup WriterLabels \cup KThreadLabels]
      /\ mutex \in Tasks \cup {None} /\ MutexDiscipline
  BY DEF IInv, TypeOK, LabelsOK
<1> USE TaskSets, <1>0 DEF MutexDiscipline, Goto, mutex_lock, mutex_unlock,
      calls, queues, alloc, Locked, OpenLocked, CloseLocked, ReadLocked,
      WriteLocked, KtLocked
<1>1. ASSUME NEW p \in Clients, OpenLock(p) \/ OpenEnd(p) PROVE MutexDiscipline'
  BY <1>1 DEF OpenLock, OpenEnd
<1>2. ASSUME NEW p \in Clients, OpenInc(p) PROVE MutexDiscipline'
  BY <1>2 DEF OpenInc
<1>3. ASSUME NEW p \in Clients, OpenWake(p) PROVE MutexDiscipline'
  BY <1>3 DEF OpenWake
<1>4. ASSUME NEW p \in Clients, CloseLock(p) \/ CloseEnd(p) PROVE MutexDiscipline'
  BY <1>4 DEF CloseLock, CloseEnd
<1>5. ASSUME NEW p \in Clients, CloseDec(p) PROVE MutexDiscipline'
  BY <1>5 DEF CloseDec
<1>6. ASSUME NEW p \in Clients, Signal(p) PROVE MutexDiscipline'
  BY <1>6 DEF Signal
<1>7. ASSUME NEW r \in Readers, ReadCall(r) \/ ReadAlloc(r) \/ ReadTest(r) PROVE
      MutexDiscipline'
  BY <1>7 DEF ReadCall, ReadAlloc, ReadTest
<1>8. ASSUME NEW r \in Readers, ReadWait(r) \/ ReadRecheck(r) \/ ReadSched(r)
      PROVE MutexDiscipline'
  BY <1>8 DEF ReadWait, ReadRecheck, ReadSched, ReadPrepare
<1>9. ASSUME NEW r \in Readers, ReadRelock(r) \/ ReadEnd(r) PROVE MutexDiscipline'
  BY <1>9 DEF ReadRelock, ReadEnd
<1>10. ASSUME NEW r \in Readers, ReadPop(r) PROVE MutexDiscipline'
  BY <1>10 DEF ReadPop
<1>11. ASSUME NEW r \in Readers, ReadCopy(r) PROVE MutexDiscipline'
  BY <1>11 DEF ReadCopy
<1>12. ASSUME NEW w \in Writers, WriteCall(w) \/ WriteAlloc(w) \/ WriteTest(w)
      PROVE MutexDiscipline'
  BY <1>12 DEF WriteCall, WriteAlloc, WriteTest
<1>13. ASSUME NEW w \in Writers, WriteWait(w) \/ WriteCheck(w) PROVE
      MutexDiscipline'
  BY <1>13 DEF WriteWait, WriteCheck, LoadMax, WritePrepare
<1>14. ASSUME NEW w \in Writers, WriteLoad(w) \/ WriteRecheck(w) \/
      WriteSched(w) PROVE MutexDiscipline'
  BY <1>14 DEF WriteLoad, WriteRecheck, WriteSched, LoadMax, WritePrepare
<1>15. ASSUME NEW w \in Writers, WriteRelock(w) \/ WriteCopy(w) \/ WriteEnd(w)
      PROVE MutexDiscipline'
  BY <1>15 DEF WriteRelock, WriteCopy, WriteEnd
<1>16. ASSUME NEW w \in Writers, WritePush(w) PROVE MutexDiscipline'
  BY <1>16 DEF WritePush
<1>17. ASSUME NEW w \in Writers, WriteWake(w) PROVE MutexDiscipline'
  BY <1>17 DEF WriteWake
<1>18. ASSUME NEW k \in KThreads, KtLock(k) \/ KtSet(k) \/ KtUnlock(k) PROVE
      MutexDiscipline'
  BY <1>18 DEF KtLock, KtSet, KtUnlock
<1>19. ASSUME NEW k \in KThreads, KtTimeout(k) \/ KtResume(k) PROVE MutexDiscipline'
  BY <1>19 DEF KtTimeout, KtResume
<1>20. CASE StatBody
  BY <1>20 DEF StatBody
<1>21. CASE ReallocBody
  BY <1>21 DEF ReallocBody
<1>22. CASE UNCHANGED vars
  BY <1>22 DEF vars
<1> QED BY <1>1, <1>2, <1>3, <1>4, <1>5, <1>6, <1>7, <1>8, <1>9, <1>10, <1>11,
      <1>12, <1>13, <1>14, <1>15, <1>16, <1>17, <1>18, <1>19, <1>20, <1>21,
      <1>22, Zenon DEF Next, my_open, my_close, my_read, my_write, kt_stat, kt_realloc,
      KtLoop, KThreads

(* In wait_event_interruptible, a state of INTERRUPTIBLE comes with a place *)
(* on the queue, and a wake-up removes both.                               *)
LEMMA SleepersStep == IInv /\ [Next]_vars => Sleepers'
<1> SUFFICES ASSUME IInv, [Next]_vars PROVE Sleepers'
  OBVIOUS
<1>0. /\ pc \in [Tasks -> ReaderLabels \cup WriterLabels \cup KThreadLabels]
      /\ state \in [Tasks -> {"RUNNING", "INTERRUPTIBLE"}]
      /\ wait_r \subseteq Readers /\ wait_w \subseteq Writers
      /\ Sleepers
  BY DEF IInv, TypeOK, LabelsOK, DataOK
<1> USE TaskSets, <1>0 DEF Sleepers, Goto, mutex_lock, mutex_unlock, calls,
      queues, alloc, wake_up, still_queued, set_state
<1>1. ASSUME NEW p \in Clients, OpenLock(p) \/ OpenEnd(p) PROVE Sleepers'
  BY <1>1 DEF OpenLock, OpenEnd
<1>2. ASSUME NEW p \in Clients, OpenInc(p) PROVE Sleepers'
  BY <1>2 DEF OpenInc
<1>3. ASSUME NEW p \in Clients, OpenWake(p) PROVE Sleepers'
  BY <1>3 DEF OpenWake
<1>4. ASSUME NEW p \in Clients, CloseLock(p) \/ CloseEnd(p) PROVE Sleepers'
  BY <1>4 DEF CloseLock, CloseEnd
<1>5. ASSUME NEW p \in Clients, CloseDec(p) PROVE Sleepers'
  BY <1>5 DEF CloseDec
<1>6. ASSUME NEW p \in Clients, Signal(p) PROVE Sleepers'
  BY <1>6 DEF Signal
<1>7. ASSUME NEW r \in Readers, ReadCall(r) \/ ReadAlloc(r) \/ ReadTest(r) PROVE
      Sleepers'
  BY <1>7 DEF ReadCall, ReadAlloc, ReadTest
<1>8. ASSUME NEW r \in Readers, ReadWait(r) \/ ReadRecheck(r) \/ ReadSched(r)
      PROVE Sleepers'
  BY <1>8 DEF ReadWait, ReadRecheck, ReadSched, ReadPrepare
<1>9. ASSUME NEW r \in Readers, ReadRelock(r) \/ ReadEnd(r) PROVE Sleepers'
  BY <1>9 DEF ReadRelock, ReadEnd
<1>10. ASSUME NEW r \in Readers, ReadPop(r) PROVE Sleepers'
  BY <1>10 DEF ReadPop
<1>11. ASSUME NEW r \in Readers, ReadCopy(r) PROVE Sleepers'
  BY <1>11 DEF ReadCopy
<1>12. ASSUME NEW w \in Writers, WriteCall(w) \/ WriteAlloc(w) \/ WriteTest(w)
      PROVE Sleepers'
  BY <1>12 DEF WriteCall, WriteAlloc, WriteTest
<1>13. ASSUME NEW w \in Writers, WriteWait(w) \/ WriteCheck(w) PROVE Sleepers'
  BY <1>13 DEF WriteWait, WriteCheck, LoadMax, WritePrepare
<1>14. ASSUME NEW w \in Writers, WriteLoad(w) \/ WriteRecheck(w) \/
      WriteSched(w) PROVE Sleepers'
  BY <1>14 DEF WriteLoad, WriteRecheck, WriteSched, LoadMax, WritePrepare
<1>15. ASSUME NEW w \in Writers, WriteRelock(w) \/ WriteCopy(w) \/ WriteEnd(w)
      PROVE Sleepers'
  BY <1>15 DEF WriteRelock, WriteCopy, WriteEnd
<1>16. ASSUME NEW w \in Writers, WritePush(w) PROVE Sleepers'
  BY <1>16 DEF WritePush
<1>17. ASSUME NEW w \in Writers, WriteWake(w) PROVE Sleepers'
  BY <1>17 DEF WriteWake
<1>18. ASSUME NEW k \in KThreads, KtLock(k) \/ KtSet(k) \/ KtUnlock(k) PROVE
      Sleepers'
  BY <1>18 DEF KtLock, KtSet, KtUnlock
<1>19. ASSUME NEW k \in KThreads, KtTimeout(k) \/ KtResume(k) PROVE Sleepers'
  BY <1>19 DEF KtTimeout, KtResume
<1>20. CASE StatBody
  BY <1>20 DEF StatBody
<1>21. CASE ReallocBody
  BY <1>21 DEF ReallocBody
<1>22. CASE UNCHANGED vars
  BY <1>22 DEF vars
<1> QED BY <1>1, <1>2, <1>3, <1>4, <1>5, <1>6, <1>7, <1>8, <1>9, <1>10, <1>11,
      <1>12, <1>13, <1>14, <1>15, <1>16, <1>17, <1>18, <1>19, <1>20, <1>21,
      <1>22, Zenon DEF Next, my_open, my_close, my_read, my_write, kt_stat, kt_realloc,
      KtLoop, KThreads

(* The string, the size and the result my_write carries through its call.  *)
LEMMA CarriedStep == IInv /\ [Next]_vars => Carried'
<1> SUFFICES ASSUME IInv, [Next]_vars PROVE Carried'
  OBVIOUS
<1>0. /\ pc \in [Tasks -> ReaderLabels \cup WriterLabels \cup KThreadLabels]
      /\ value \in [Clients -> Msg \cup {None}] /\ seen \in [Writers -> Nat]
      /\ res \in [Clients -> {0, 1, -EFAULT}] /\ kb_max \in Nat \ {0}
      /\ Carried
  BY DEF IInv, TypeOK, LabelsOK, DataOK
<1> USE TaskSets, <1>0 DEF Carried, Goto, mutex_lock, mutex_unlock, calls,
      queues, alloc, ClientLabels, ReaderLabels, WriterLabels, KThreadLabels,
      OpenLocked, CloseLocked, ReadLocked, ReadWaits, WriteLocked, WriteWaits,
      KtLocked, KtUnlocked
<1>1. ASSUME NEW p \in Clients, OpenLock(p) \/ OpenEnd(p) PROVE Carried'
  BY <1>1 DEF OpenLock, OpenEnd
<1>2. ASSUME NEW p \in Clients, OpenInc(p) PROVE Carried'
  BY <1>2 DEF OpenInc
<1>3. ASSUME NEW p \in Clients, OpenWake(p) PROVE Carried'
  BY <1>3 DEF OpenWake
<1>4. ASSUME NEW p \in Clients, CloseLock(p) \/ CloseEnd(p) PROVE Carried'
  BY <1>4 DEF CloseLock, CloseEnd
<1>5. ASSUME NEW p \in Clients, CloseDec(p) PROVE Carried'
  BY <1>5 DEF CloseDec
<1>6. ASSUME NEW p \in Clients, Signal(p) PROVE Carried'
  BY <1>6 DEF Signal
<1>7. ASSUME NEW r \in Readers, ReadCall(r) \/ ReadAlloc(r) \/ ReadTest(r) PROVE
      Carried'
  BY <1>7 DEF ReadCall, ReadAlloc, ReadTest
<1>8. ASSUME NEW r \in Readers, ReadWait(r) \/ ReadRecheck(r) \/ ReadSched(r)
      PROVE Carried'
  BY <1>8 DEF ReadWait, ReadRecheck, ReadSched, ReadPrepare
<1>9. ASSUME NEW r \in Readers, ReadRelock(r) \/ ReadEnd(r) PROVE Carried'
  BY <1>9 DEF ReadRelock, ReadEnd
<1>10. ASSUME NEW r \in Readers, ReadPop(r) PROVE Carried'
  BY <1>10 DEF ReadPop
<1>11. ASSUME NEW r \in Readers, ReadCopy(r) PROVE Carried'
  BY <1>11 DEF ReadCopy
<1>12. ASSUME NEW w \in Writers, WriteCall(w) \/ WriteAlloc(w) \/ WriteTest(w)
      PROVE Carried'
  BY <1>12 DEF WriteCall, WriteAlloc, WriteTest
<1>13. ASSUME NEW w \in Writers, WriteWait(w) \/ WriteCheck(w) PROVE Carried'
  BY <1>13 DEF WriteWait, WriteCheck, LoadMax, WritePrepare
<1>14. ASSUME NEW w \in Writers, WriteLoad(w) \/ WriteRecheck(w) \/
      WriteSched(w) PROVE Carried'
  BY <1>14 DEF WriteLoad, WriteRecheck, WriteSched, LoadMax, WritePrepare
<1>15. ASSUME NEW w \in Writers, WriteRelock(w) \/ WriteCopy(w) \/ WriteEnd(w)
      PROVE Carried'
  BY <1>15 DEF WriteRelock, WriteCopy, WriteEnd
<1>16. ASSUME NEW w \in Writers, WritePush(w) PROVE Carried'
  BY <1>16 DEF WritePush
<1>17. ASSUME NEW w \in Writers, WriteWake(w) PROVE Carried'
  BY <1>17 DEF WriteWake
<1>18. ASSUME NEW k \in KThreads, KtLock(k) \/ KtSet(k) \/ KtUnlock(k) PROVE
      Carried'
  BY <1>18 DEF KtLock, KtSet, KtUnlock
<1>19. ASSUME NEW k \in KThreads, KtTimeout(k) \/ KtResume(k) PROVE Carried'
  BY <1>19 DEF KtTimeout, KtResume
<1>20. CASE StatBody
  BY <1>20 DEF StatBody
<1>21. CASE ReallocBody
  BY <1>21 DEF ReallocBody
<1>22. CASE UNCHANGED vars
  BY <1>22 DEF vars
<1> QED BY <1>1, <1>2, <1>3, <1>4, <1>5, <1>6, <1>7, <1>8, <1>9, <1>10, <1>11,
      <1>12, <1>13, <1>14, <1>15, <1>16, <1>17, <1>18, <1>19, <1>20, <1>21,
      <1>22, Zenon DEF Next, my_open, my_close, my_read, my_write, kt_stat, kt_realloc,
      KtLoop, KThreads

(* Between the test under the mutex and kb_pop or kb_push nobody else      *)
(* changes the FIFO or its size: only the holder of the mutex does.        *)
LEMMA BufferStep == IInv /\ [Next]_vars => (PopNeverEmpty /\ PushNeverFull)'
<1> SUFFICES ASSUME IInv, [Next]_vars PROVE (PopNeverEmpty /\ PushNeverFull)'
  OBVIOUS
<1>0. /\ pc \in [Tasks -> ReaderLabels \cup WriterLabels \cup KThreadLabels]
      /\ mutex \in Tasks \cup {None} /\ MutexDiscipline
      /\ PopNeverEmpty /\ PushNeverFull
  BY DEF IInv, TypeOK, LabelsOK, DataOK
<1> USE TaskSets, <1>0 DEF MutexDiscipline, PopNeverEmpty, PushNeverFull,
      kb_isempty, kb_isfull, Goto, mutex_lock, mutex_unlock, calls, queues,
      alloc, Locked, OpenLocked, CloseLocked, ReadLocked, WriteLocked, KtLocked
<1>1. ASSUME NEW p \in Clients, OpenLock(p) \/ OpenEnd(p) PROVE (PopNeverEmpty
      /\ PushNeverFull)'
  BY <1>1 DEF OpenLock, OpenEnd
<1>2. ASSUME NEW p \in Clients, OpenInc(p) PROVE (PopNeverEmpty /\ PushNeverFull)'
  BY <1>2 DEF OpenInc
<1>3. ASSUME NEW p \in Clients, OpenWake(p) PROVE (PopNeverEmpty /\ PushNeverFull)'
  BY <1>3 DEF OpenWake
<1>4. ASSUME NEW p \in Clients, CloseLock(p) \/ CloseEnd(p) PROVE (PopNeverEmpty
      /\ PushNeverFull)'
  BY <1>4 DEF CloseLock, CloseEnd
<1>5. ASSUME NEW p \in Clients, CloseDec(p) PROVE (PopNeverEmpty /\ PushNeverFull)'
  BY <1>5 DEF CloseDec
<1>6. ASSUME NEW p \in Clients, Signal(p) PROVE (PopNeverEmpty /\ PushNeverFull)'
  BY <1>6 DEF Signal
<1>7. ASSUME NEW r \in Readers, ReadCall(r) \/ ReadAlloc(r) \/ ReadTest(r) PROVE
      (PopNeverEmpty /\ PushNeverFull)'
  BY <1>7 DEF ReadCall, ReadAlloc, ReadTest
<1>8. ASSUME NEW r \in Readers, ReadWait(r) \/ ReadRecheck(r) \/ ReadSched(r)
      PROVE (PopNeverEmpty /\ PushNeverFull)'
  BY <1>8 DEF ReadWait, ReadRecheck, ReadSched, ReadPrepare
<1>9. ASSUME NEW r \in Readers, ReadRelock(r) \/ ReadEnd(r) PROVE (PopNeverEmpty
      /\ PushNeverFull)'
  BY <1>9 DEF ReadRelock, ReadEnd
<1>10. ASSUME NEW r \in Readers, ReadPop(r) PROVE (PopNeverEmpty /\ PushNeverFull)'
  <2>1. pc[r] = "r_pop" /\ fifo # <<>>
    BY <1>10 DEF ReadPop
  <2>2. pc' = [pc EXCEPT ![r] = "r_copy"]
    BY <1>10, <2>1 DEF ReadPop
  <2>3. \A t \in Tasks : pc'[t] \notin {"r_pop", "w_copy", "w_push"}
    BY <2>1, <2>2
  <2> QED BY <2>3
<1>11. ASSUME NEW r \in Readers, ReadCopy(r) PROVE (PopNeverEmpty /\ PushNeverFull)'
  BY <1>11 DEF ReadCopy
<1>12. ASSUME NEW w \in Writers, WriteCall(w) \/ WriteAlloc(w) \/ WriteTest(w)
      PROVE (PopNeverEmpty /\ PushNeverFull)'
  BY <1>12 DEF WriteCall, WriteAlloc, WriteTest
<1>13. ASSUME NEW w \in Writers, WriteWait(w) \/ WriteCheck(w) PROVE
      (PopNeverEmpty /\ PushNeverFull)'
  BY <1>13 DEF WriteWait, WriteCheck, LoadMax, WritePrepare
<1>14. ASSUME NEW w \in Writers, WriteLoad(w) \/ WriteRecheck(w) \/
      WriteSched(w) PROVE (PopNeverEmpty /\ PushNeverFull)'
  BY <1>14 DEF WriteLoad, WriteRecheck, WriteSched, LoadMax, WritePrepare
<1>15. ASSUME NEW w \in Writers, WriteRelock(w) \/ WriteCopy(w) \/ WriteEnd(w)
      PROVE (PopNeverEmpty /\ PushNeverFull)'
  BY <1>15 DEF WriteRelock, WriteCopy, WriteEnd
<1>16. ASSUME NEW w \in Writers, WritePush(w) PROVE (PopNeverEmpty /\
      PushNeverFull)'
  <2>1. pc[w] = "w_push" /\ pc' \in {[pc EXCEPT ![w] = "w_wake"], [pc EXCEPT
        ![w] = "oops"]}
    BY <1>16 DEF WritePush
  <2>2. \A t \in Tasks : pc'[t] \notin {"r_pop", "w_copy", "w_push"}
    BY <2>1
  <2> QED BY <2>2
<1>17. ASSUME NEW w \in Writers, WriteWake(w) PROVE (PopNeverEmpty /\
      PushNeverFull)'
  BY <1>17 DEF WriteWake
<1>18. ASSUME NEW k \in KThreads, KtLock(k) \/ KtSet(k) \/ KtUnlock(k) PROVE
      (PopNeverEmpty /\ PushNeverFull)'
  BY <1>18 DEF KtLock, KtSet, KtUnlock
<1>19. ASSUME NEW k \in KThreads, KtTimeout(k) \/ KtResume(k) PROVE
      (PopNeverEmpty /\ PushNeverFull)'
  BY <1>19 DEF KtTimeout, KtResume
<1>20. CASE StatBody
  BY <1>20 DEF StatBody
<1>21. CASE ReallocBody
  BY <1>21 DEF ReallocBody
<1>22. CASE UNCHANGED vars
  BY <1>22 DEF vars
<1> QED BY <1>1, <1>2, <1>3, <1>4, <1>5, <1>6, <1>7, <1>8, <1>9, <1>10, <1>11,
      <1>12, <1>13, <1>14, <1>15, <1>16, <1>17, <1>18, <1>19, <1>20, <1>21,
      <1>22, Zenon DEF Next, my_open, my_close, my_read, my_write, kt_stat, kt_realloc,
      KtLoop, KThreads

(* A reader falls asleep on an empty FIFO only; the push that ends that    *)
(* leaves its writer at wake_up_interruptible(&wait_r), which wakes all.   *)
LEMMA ReaderStep == IInv /\ [Next]_vars => ReaderWakeable'
<1> SUFFICES ASSUME IInv, [Next]_vars PROVE ReaderWakeable'
  OBVIOUS
<1>0. /\ pc \in [Tasks -> ReaderLabels \cup WriterLabels \cup KThreadLabels]
      /\ state \in [Tasks -> {"RUNNING", "INTERRUPTIBLE"}]
      /\ fifo \in Seq(Msg) /\ ReaderWakeable
  BY DEF IInv, TypeOK, LabelsOK, DataOK
<1>s. \A r \in Readers : state[r] = "INTERRUPTIBLE" => r \in wait_r
  BY DEF IInv, Sleepers
<1> USE TaskSets, <1>0 DEF ReaderWakeable, Asleep, kb_isempty, Goto, calls,
      queues, alloc, wake_up, set_state
<1>1. ASSUME NEW p \in Clients, OpenLock(p) \/ OpenEnd(p) PROVE ReaderWakeable'
  BY <1>1 DEF OpenLock, OpenEnd
<1>2. ASSUME NEW p \in Clients, OpenInc(p) PROVE ReaderWakeable'
  BY <1>2 DEF OpenInc
<1>3. ASSUME NEW p \in Clients, OpenWake(p) PROVE ReaderWakeable'
  BY <1>3 DEF OpenWake
<1>4. ASSUME NEW p \in Clients, CloseLock(p) \/ CloseEnd(p) PROVE ReaderWakeable'
  BY <1>4 DEF CloseLock, CloseEnd
<1>5. ASSUME NEW p \in Clients, CloseDec(p) PROVE ReaderWakeable'
  BY <1>5 DEF CloseDec
<1>6. ASSUME NEW p \in Clients, Signal(p) PROVE ReaderWakeable'
  BY <1>6 DEF Signal
<1>7. ASSUME NEW r \in Readers, ReadCall(r) \/ ReadAlloc(r) \/ ReadTest(r) PROVE
      ReaderWakeable'
  BY <1>7 DEF ReadCall, ReadAlloc, ReadTest
<1>8. ASSUME NEW r \in Readers, ReadWait(r) \/ ReadRecheck(r) \/ ReadSched(r)
      PROVE ReaderWakeable'
  BY <1>8 DEF ReadWait, ReadRecheck, ReadSched, ReadPrepare
<1>9. ASSUME NEW r \in Readers, ReadRelock(r) \/ ReadEnd(r) PROVE ReaderWakeable'
  BY <1>9 DEF ReadRelock, ReadEnd
<1>10. ASSUME NEW r \in Readers, ReadPop(r) PROVE ReaderWakeable'
  BY <1>10 DEF ReadPop
<1>11. ASSUME NEW r \in Readers, ReadCopy(r) PROVE ReaderWakeable'
  BY <1>11 DEF ReadCopy
<1>12. ASSUME NEW w \in Writers, WriteCall(w) \/ WriteAlloc(w) \/ WriteTest(w)
      PROVE ReaderWakeable'
  <2>1. CASE WriteCall(w)
    BY <2>1 DEF WriteCall
  <2>2. CASE WriteAlloc(w)
    BY <2>2 DEF WriteAlloc
  <2>3. CASE WriteTest(w)
    BY <2>3 DEF WriteTest
  <2> QED BY <1>12, <2>1, <2>2, <2>3
<1>13. ASSUME NEW w \in Writers, WriteWait(w) \/ WriteCheck(w) PROVE ReaderWakeable'
  <2>1. CASE WriteWait(w)
    BY <2>1 DEF WriteWait, LoadMax
  <2>2. CASE WriteCheck(w)
    BY <2>2 DEF WriteCheck, WritePrepare
  <2> QED BY <1>13, <2>1, <2>2
<1>14. ASSUME NEW w \in Writers, WriteLoad(w) \/ WriteRecheck(w) \/
      WriteSched(w) PROVE ReaderWakeable'
  <2>1. CASE WriteLoad(w)
    BY <2>1 DEF WriteLoad, LoadMax
  <2>2. CASE WriteRecheck(w)
    BY <2>2 DEF WriteRecheck
  <2>3. CASE WriteSched(w)
    BY <2>3 DEF WriteSched, WritePrepare
  <2> QED BY <1>14, <2>1, <2>2, <2>3
<1>15. ASSUME NEW w \in Writers, WriteRelock(w) \/ WriteCopy(w) \/ WriteEnd(w)
      PROVE ReaderWakeable'
  <2>1. CASE WriteRelock(w)
    BY <2>1 DEF WriteRelock
  <2>2. CASE WriteCopy(w)
    BY <2>2 DEF WriteCopy
  <2>3. CASE WriteEnd(w)
    BY <2>3 DEF WriteEnd
  <2> QED BY <1>15, <2>1, <2>2, <2>3
<1>16. ASSUME NEW w \in Writers, WritePush(w) PROVE ReaderWakeable'
  BY <1>16 DEF WritePush
<1>17. ASSUME NEW w \in Writers, WriteWake(w) PROVE ReaderWakeable'
  BY <1>17, <1>s DEF WriteWake
<1>18. ASSUME NEW k \in KThreads, KtLock(k) \/ KtSet(k) \/ KtUnlock(k) PROVE
      ReaderWakeable'
  <2>1. CASE KtLock(k)
    BY <2>1 DEF KtLock
  <2>2. CASE KtSet(k)
    BY <2>2 DEF KtSet
  <2>3. CASE KtUnlock(k)
    BY <2>3 DEF KtUnlock
  <2> QED BY <1>18, <2>1, <2>2, <2>3
<1>19. ASSUME NEW k \in KThreads, KtTimeout(k) \/ KtResume(k) PROVE ReaderWakeable'
  BY <1>19 DEF KtTimeout, KtResume
<1>20. CASE StatBody
  BY <1>20 DEF StatBody
<1>21. CASE ReallocBody
  BY <1>21 DEF ReallocBody
<1>22. CASE UNCHANGED vars
  BY <1>22 DEF vars
<1> QED BY <1>1, <1>2, <1>3, <1>4, <1>5, <1>6, <1>7, <1>8, <1>9, <1>10, <1>11,
      <1>12, <1>13, <1>14, <1>15, <1>16, <1>17, <1>18, <1>19, <1>20, <1>21,
      <1>22, Zenon DEF Next, my_open, my_close, my_read, my_write, kt_stat, kt_realloc,
      KtLoop, KThreads

(* A writer falls asleep on a FIFO of at least seen[w] > 0 strings; the pop *)
(* that empties it leaves its reader at the wake-up of wait_w.             *)
LEMMA WriterStep == IInv /\ [Next]_vars => WriterWakeable'
<1> SUFFICES ASSUME IInv, [Next]_vars PROVE WriterWakeable'
  OBVIOUS
<1>0. /\ pc \in [Tasks -> ReaderLabels \cup WriterLabels \cup KThreadLabels]
      /\ state \in [Tasks -> {"RUNNING", "INTERRUPTIBLE"}]
      /\ fifo \in Seq(Msg) /\ WriterWakeable
  BY DEF IInv, TypeOK, LabelsOK, DataOK
<1>s. \A w \in Writers : state[w] = "INTERRUPTIBLE" => w \in wait_w
  BY DEF IInv, Sleepers
<1>c. \A w \in Writers : pc[w] = "w_recheck" => seen[w] \in Nat \ {0}
  BY DEF IInv, Carried, TypeOK, DataOK
<1> USE TaskSets, <1>0 DEF WriterWakeable, Asleep, kb_isempty, Goto, calls,
      queues, alloc, wake_up, set_state
<1>1. ASSUME NEW p \in Clients, OpenLock(p) \/ OpenEnd(p) PROVE WriterWakeable'
  BY <1>1 DEF OpenLock, OpenEnd
<1>2. ASSUME NEW p \in Clients, OpenInc(p) PROVE WriterWakeable'
  BY <1>2 DEF OpenInc
<1>3. ASSUME NEW p \in Clients, OpenWake(p) PROVE WriterWakeable'
  BY <1>3 DEF OpenWake
<1>4. ASSUME NEW p \in Clients, CloseLock(p) \/ CloseEnd(p) PROVE WriterWakeable'
  BY <1>4 DEF CloseLock, CloseEnd
<1>5. ASSUME NEW p \in Clients, CloseDec(p) PROVE WriterWakeable'
  BY <1>5 DEF CloseDec
<1>6. ASSUME NEW p \in Clients, Signal(p) PROVE WriterWakeable'
  BY <1>6 DEF Signal
<1>7. ASSUME NEW r \in Readers, ReadCall(r) \/ ReadAlloc(r) \/ ReadTest(r) PROVE
      WriterWakeable'
  <2>1. CASE ReadCall(r)
    BY <2>1 DEF ReadCall
  <2>2. CASE ReadAlloc(r)
    BY <2>2 DEF ReadAlloc
  <2>3. CASE ReadTest(r)
    BY <2>3 DEF ReadTest
  <2> QED BY <1>7, <2>1, <2>2, <2>3
<1>8. ASSUME NEW r \in Readers, ReadWait(r) \/ ReadRecheck(r) \/ ReadSched(r)
      PROVE WriterWakeable'
  <2>1. CASE ReadWait(r)
    BY <2>1 DEF ReadWait, ReadPrepare
  <2>2. CASE ReadRecheck(r)
    BY <2>2 DEF ReadRecheck
  <2>3. CASE ReadSched(r)
    BY <2>3 DEF ReadSched, ReadPrepare
  <2> QED BY <1>8, <2>1, <2>2, <2>3
<1>9. ASSUME NEW r \in Readers, ReadRelock(r) \/ ReadEnd(r) PROVE WriterWakeable'
  BY <1>9 DEF ReadRelock, ReadEnd
<1>10. ASSUME NEW r \in Readers, ReadPop(r) PROVE WriterWakeable'
  BY <1>10 DEF ReadPop
<1>11. ASSUME NEW r \in Readers, ReadCopy(r) PROVE WriterWakeable'
  BY <1>11, <1>s DEF ReadCopy
<1>12. ASSUME NEW w \in Writers, WriteCall(w) \/ WriteAlloc(w) \/ WriteTest(w)
      PROVE WriterWakeable'
  <2>1. CASE WriteCall(w)
    BY <2>1 DEF WriteCall
  <2>2. CASE WriteAlloc(w)
    BY <2>2 DEF WriteAlloc
  <2>3. CASE WriteTest(w)
    BY <2>3 DEF WriteTest
  <2> QED BY <1>12, <2>1, <2>2, <2>3
<1>13. ASSUME NEW w \in Writers, WriteWait(w) \/ WriteCheck(w) PROVE WriterWakeable'
  <2>1. CASE WriteWait(w)
    BY <2>1 DEF WriteWait, LoadMax
  <2>2. CASE WriteCheck(w)
    BY <2>2 DEF WriteCheck, WritePrepare
  <2> QED BY <1>13, <2>1, <2>2
<1>14. ASSUME NEW w \in Writers, WriteLoad(w) \/ WriteRecheck(w) \/
      WriteSched(w) PROVE WriterWakeable'
  <2>1. CASE WriteLoad(w)
    BY <2>1 DEF WriteLoad, LoadMax
  <2>2. CASE WriteRecheck(w)
    BY <2>2, <1>c DEF WriteRecheck, kb_isfull
  <2>3. CASE WriteSched(w)
    BY <2>3 DEF WriteSched, WritePrepare
  <2> QED BY <1>14, <2>1, <2>2, <2>3
<1>15. ASSUME NEW w \in Writers, WriteRelock(w) \/ WriteCopy(w) \/ WriteEnd(w)
      PROVE WriterWakeable'
  <2>1. CASE WriteRelock(w)
    BY <2>1 DEF WriteRelock
  <2>2. CASE WriteCopy(w)
    BY <2>2 DEF WriteCopy
  <2>3. CASE WriteEnd(w)
    BY <2>3 DEF WriteEnd
  <2> QED BY <1>15, <2>1, <2>2, <2>3
<1>16. ASSUME NEW w \in Writers, WritePush(w) PROVE WriterWakeable'
  BY <1>16 DEF WritePush
<1>17. ASSUME NEW w \in Writers, WriteWake(w) PROVE WriterWakeable'
  BY <1>17 DEF WriteWake
<1>18. ASSUME NEW k \in KThreads, KtLock(k) \/ KtSet(k) \/ KtUnlock(k) PROVE
      WriterWakeable'
  <2>1. CASE KtLock(k)
    BY <2>1 DEF KtLock
  <2>2. CASE KtSet(k)
    BY <2>2 DEF KtSet
  <2>3. CASE KtUnlock(k)
    BY <2>3 DEF KtUnlock
  <2> QED BY <1>18, <2>1, <2>2, <2>3
<1>19. ASSUME NEW k \in KThreads, KtTimeout(k) \/ KtResume(k) PROVE WriterWakeable'
  BY <1>19 DEF KtTimeout, KtResume
<1>20. CASE StatBody
  BY <1>20 DEF StatBody
<1>21. CASE ReallocBody
  BY <1>21 DEF ReallocBody
<1>22. CASE UNCHANGED vars
  BY <1>22 DEF vars
<1> QED BY <1>1, <1>2, <1>3, <1>4, <1>5, <1>6, <1>7, <1>8, <1>9, <1>10, <1>11,
      <1>12, <1>13, <1>14, <1>15, <1>16, <1>17, <1>18, <1>19, <1>20, <1>21,
      <1>22, Zenon DEF Next, my_open, my_close, my_read, my_write, kt_stat, kt_realloc,
      KtLoop, KThreads

(* kt_stat and kt_realloc read dev_run and set their state under the mutex, *)
(* so the my_open that makes it 1 comes before or after both.              *)
LEMMA KthreadStep == IInv /\ [Next]_vars => (KthreadWakeable /\ IdleSeen)'
<1> SUFFICES ASSUME IInv, [Next]_vars PROVE (KthreadWakeable /\ IdleSeen)'
  OBVIOUS
<1>0. /\ pc \in [Tasks -> ReaderLabels \cup WriterLabels \cup KThreadLabels]
      /\ state \in [Tasks -> {"RUNNING", "INTERRUPTIBLE"}]
      /\ dev_run \in Nat /\ KthreadWakeable /\ IdleSeen
  BY DEF IInv, TypeOK, LabelsOK, DataOK
<1>m. \A p \in Clients, k \in KThreads : pc[p] \in {"o_inc", "c_dec"} => pc[k] # "k_none"
  BY TaskSets DEF IInv, MutexDiscipline, Locked, OpenLocked, CloseLocked, KtLocked
<1> USE TaskSets, <1>0 DEF KthreadWakeable, IdleSeen, Asleep, Goto, calls,
      queues, alloc, wake_up, set_state
<1>1. ASSUME NEW p \in Clients, OpenLock(p) \/ OpenEnd(p) PROVE (KthreadWakeable
      /\ IdleSeen)'
  BY <1>1 DEF OpenLock, OpenEnd
<1>2. ASSUME NEW p \in Clients, OpenInc(p) PROVE (KthreadWakeable /\ IdleSeen)'
  BY <1>2, <1>m DEF OpenInc
<1>3. ASSUME NEW p \in Clients, OpenWake(p) PROVE (KthreadWakeable /\ IdleSeen)'
  BY <1>3 DEF OpenWake
<1>4. ASSUME NEW p \in Clients, CloseLock(p) \/ CloseEnd(p) PROVE
      (KthreadWakeable /\ IdleSeen)'
  BY <1>4 DEF CloseLock, CloseEnd
<1>5. ASSUME NEW p \in Clients, CloseDec(p) PROVE (KthreadWakeable /\ IdleSeen)'
  <2>1. dev_run # 0
    BY <1>5, OpenCount DEF CloseDec, IInv
  <2> QED BY <1>5, <1>m, <2>1 DEF CloseDec
<1>6. ASSUME NEW p \in Clients, Signal(p) PROVE (KthreadWakeable /\ IdleSeen)'
  BY <1>6 DEF Signal
<1>7. ASSUME NEW r \in Readers, ReadCall(r) \/ ReadAlloc(r) \/ ReadTest(r) PROVE
      (KthreadWakeable /\ IdleSeen)'
  <2>1. CASE ReadCall(r)
    BY <2>1 DEF ReadCall
  <2>2. CASE ReadAlloc(r)
    BY <2>2 DEF ReadAlloc
  <2>3. CASE ReadTest(r)
    BY <2>3 DEF ReadTest
  <2> QED BY <1>7, <2>1, <2>2, <2>3
<1>8. ASSUME NEW r \in Readers, ReadWait(r) \/ ReadRecheck(r) \/ ReadSched(r)
      PROVE (KthreadWakeable /\ IdleSeen)'
  <2>1. CASE ReadWait(r)
    BY <2>1 DEF ReadWait, ReadPrepare
  <2>2. CASE ReadRecheck(r)
    BY <2>2 DEF ReadRecheck
  <2>3. CASE ReadSched(r)
    BY <2>3 DEF ReadSched, ReadPrepare
  <2> QED BY <1>8, <2>1, <2>2, <2>3
<1>9. ASSUME NEW r \in Readers, ReadRelock(r) \/ ReadEnd(r) PROVE
      (KthreadWakeable /\ IdleSeen)'
  BY <1>9 DEF ReadRelock, ReadEnd
<1>10. ASSUME NEW r \in Readers, ReadPop(r) PROVE (KthreadWakeable /\ IdleSeen)'
  BY <1>10 DEF ReadPop
<1>11. ASSUME NEW r \in Readers, ReadCopy(r) PROVE (KthreadWakeable /\ IdleSeen)'
  BY <1>11 DEF ReadCopy
<1>12. ASSUME NEW w \in Writers, WriteCall(w) \/ WriteAlloc(w) \/ WriteTest(w)
      PROVE (KthreadWakeable /\ IdleSeen)'
  <2>1. CASE WriteCall(w)
    BY <2>1 DEF WriteCall
  <2>2. CASE WriteAlloc(w)
    BY <2>2 DEF WriteAlloc
  <2>3. CASE WriteTest(w)
    BY <2>3 DEF WriteTest
  <2> QED BY <1>12, <2>1, <2>2, <2>3
<1>13. ASSUME NEW w \in Writers, WriteWait(w) \/ WriteCheck(w) PROVE
      (KthreadWakeable /\ IdleSeen)'
  <2>1. CASE WriteWait(w)
    BY <2>1 DEF WriteWait, LoadMax
  <2>2. CASE WriteCheck(w)
    BY <2>2 DEF WriteCheck, WritePrepare
  <2> QED BY <1>13, <2>1, <2>2
<1>14. ASSUME NEW w \in Writers, WriteLoad(w) \/ WriteRecheck(w) \/
      WriteSched(w) PROVE (KthreadWakeable /\ IdleSeen)'
  <2>1. CASE WriteLoad(w)
    BY <2>1 DEF WriteLoad, LoadMax
  <2>2. CASE WriteRecheck(w)
    BY <2>2 DEF WriteRecheck
  <2>3. CASE WriteSched(w)
    BY <2>3 DEF WriteSched, WritePrepare
  <2> QED BY <1>14, <2>1, <2>2, <2>3
<1>15. ASSUME NEW w \in Writers, WriteRelock(w) \/ WriteCopy(w) \/ WriteEnd(w)
      PROVE (KthreadWakeable /\ IdleSeen)'
  <2>1. CASE WriteRelock(w)
    BY <2>1 DEF WriteRelock
  <2>2. CASE WriteCopy(w)
    BY <2>2 DEF WriteCopy
  <2>3. CASE WriteEnd(w)
    BY <2>3 DEF WriteEnd
  <2> QED BY <1>15, <2>1, <2>2, <2>3
<1>16. ASSUME NEW w \in Writers, WritePush(w) PROVE (KthreadWakeable /\ IdleSeen)'
  BY <1>16 DEF WritePush
<1>17. ASSUME NEW w \in Writers, WriteWake(w) PROVE (KthreadWakeable /\ IdleSeen)'
  BY <1>17 DEF WriteWake
<1>18. ASSUME NEW k \in KThreads, KtLock(k) \/ KtSet(k) \/ KtUnlock(k) PROVE
      (KthreadWakeable /\ IdleSeen)'
  <2>1. CASE KtLock(k)
    BY <2>1 DEF KtLock
  <2>2. CASE KtSet(k)
    BY <2>2 DEF KtSet
  <2>3. CASE KtUnlock(k)
    BY <2>3 DEF KtUnlock
  <2> QED BY <1>18, <2>1, <2>2, <2>3
<1>19. ASSUME NEW k \in KThreads, KtTimeout(k) \/ KtResume(k) PROVE
      (KthreadWakeable /\ IdleSeen)'
  BY <1>19 DEF KtTimeout, KtResume
<1>20. CASE StatBody
  BY <1>20 DEF StatBody
<1>21. CASE ReallocBody
  BY <1>21 DEF ReallocBody
<1>22. CASE UNCHANGED vars
  BY <1>22 DEF vars
<1> QED BY <1>1, <1>2, <1>3, <1>4, <1>5, <1>6, <1>7, <1>8, <1>9, <1>10, <1>11,
      <1>12, <1>13, <1>14, <1>15, <1>16, <1>17, <1>18, <1>19, <1>20, <1>21,
      <1>22, Zenon DEF Next, my_open, my_close, my_read, my_write, kt_stat, kt_realloc,
      KtLoop, KThreads

(* Only dev_run++ in my_open and dev_run-- in my_close change the set of   *)
(* clients that have the device open, each by its caller.                  *)
LEMMA DevRunStep == IInv /\ [Next]_vars => DevRunExact'
<1> DEFINE Same == OpenClients' = OpenClients /\ dev_run' = dev_run
<1> SUFFICES ASSUME IInv, [Next]_vars PROVE Same \/ DevRunExact'
  BY DEF IInv, DevRunExact, OpenClients
<1>0. /\ pc \in [Tasks -> ReaderLabels \cup WriterLabels \cup KThreadLabels]
      /\ dev_run \in Nat /\ DevRunExact
  BY DEF IInv, TypeOK, LabelsOK, DataOK
<1> USE TaskSets, <1>0 DEF Goto, mutex_lock, mutex_unlock, calls, queues, alloc,
      OpenClients
<1>1. ASSUME NEW p \in Clients, OpenLock(p) \/ OpenEnd(p) PROVE Same \/ DevRunExact'
  BY <1>1 DEF OpenLock, OpenEnd
<1>2. ASSUME NEW p \in Clients, OpenInc(p) PROVE Same \/ DevRunExact'
  <2>1. OpenClients' = OpenClients \cup {p} /\ p \notin OpenClients
    BY <1>2 DEF OpenInc
  <2>2. Cardinality(OpenClients') = Cardinality(OpenClients) + 1
    BY <2>1, OpenFinite, CardinalityMore
  <2> QED BY <1>2, <2>2 DEF OpenInc, DevRunExact
<1>3. ASSUME NEW p \in Clients, OpenWake(p) PROVE Same \/ DevRunExact'
  BY <1>3 DEF OpenWake
<1>4. ASSUME NEW p \in Clients, CloseLock(p) \/ CloseEnd(p) PROVE Same \/
      DevRunExact'
  BY <1>4 DEF CloseLock, CloseEnd
<1>5. ASSUME NEW p \in Clients, CloseDec(p) PROVE Same \/ DevRunExact'
  <2>1. OpenClients' = OpenClients \ {p} /\ p \in OpenClients
    BY <1>5 DEF CloseDec
  <2>2. Cardinality(OpenClients') = Cardinality(OpenClients) - 1
    BY <2>1, OpenFinite, CardinalityLess
  <2> QED BY <1>5, <2>2 DEF CloseDec, DevRunExact
<1>6. ASSUME NEW p \in Clients, Signal(p) PROVE Same \/ DevRunExact'
  BY <1>6 DEF Signal
<1>7. ASSUME NEW r \in Readers, ReadCall(r) \/ ReadAlloc(r) \/ ReadTest(r) PROVE
      Same \/ DevRunExact'
  BY <1>7 DEF ReadCall, ReadAlloc, ReadTest
<1>8. ASSUME NEW r \in Readers, ReadWait(r) \/ ReadRecheck(r) \/ ReadSched(r)
      PROVE Same \/ DevRunExact'
  BY <1>8 DEF ReadWait, ReadRecheck, ReadSched, ReadPrepare
<1>9. ASSUME NEW r \in Readers, ReadRelock(r) \/ ReadEnd(r) PROVE Same \/
      DevRunExact'
  BY <1>9 DEF ReadRelock, ReadEnd
<1>10. ASSUME NEW r \in Readers, ReadPop(r) PROVE Same \/ DevRunExact'
  BY <1>10 DEF ReadPop
<1>11. ASSUME NEW r \in Readers, ReadCopy(r) PROVE Same \/ DevRunExact'
  BY <1>11 DEF ReadCopy
<1>12. ASSUME NEW w \in Writers, WriteCall(w) \/ WriteAlloc(w) \/ WriteTest(w)
      PROVE Same \/ DevRunExact'
  BY <1>12 DEF WriteCall, WriteAlloc, WriteTest
<1>13. ASSUME NEW w \in Writers, WriteWait(w) \/ WriteCheck(w) PROVE Same \/
      DevRunExact'
  BY <1>13 DEF WriteWait, WriteCheck, LoadMax, WritePrepare
<1>14. ASSUME NEW w \in Writers, WriteLoad(w) \/ WriteRecheck(w) \/
      WriteSched(w) PROVE Same \/ DevRunExact'
  BY <1>14 DEF WriteLoad, WriteRecheck, WriteSched, LoadMax, WritePrepare
<1>15. ASSUME NEW w \in Writers, WriteRelock(w) \/ WriteCopy(w) \/ WriteEnd(w)
      PROVE Same \/ DevRunExact'
  BY <1>15 DEF WriteRelock, WriteCopy, WriteEnd
<1>16. ASSUME NEW w \in Writers, WritePush(w) PROVE Same \/ DevRunExact'
  BY <1>16 DEF WritePush
<1>17. ASSUME NEW w \in Writers, WriteWake(w) PROVE Same \/ DevRunExact'
  BY <1>17 DEF WriteWake
<1>18. ASSUME NEW k \in KThreads, KtLock(k) \/ KtSet(k) \/ KtUnlock(k) PROVE
      Same \/ DevRunExact'
  BY <1>18 DEF KtLock, KtSet, KtUnlock
<1>19. ASSUME NEW k \in KThreads, KtTimeout(k) \/ KtResume(k) PROVE Same \/
      DevRunExact'
  BY <1>19 DEF KtTimeout, KtResume
<1>20. CASE StatBody
  BY <1>20 DEF StatBody
<1>21. CASE ReallocBody
  BY <1>21 DEF ReallocBody
<1>22. CASE UNCHANGED vars
  BY <1>22 DEF vars
<1> QED BY <1>1, <1>2, <1>3, <1>4, <1>5, <1>6, <1>7, <1>8, <1>9, <1>10, <1>11,
      <1>12, <1>13, <1>14, <1>15, <1>16, <1>17, <1>18, <1>19, <1>20, <1>21,
      <1>22, Zenon DEF Next, my_open, my_close, my_read, my_write, kt_stat, kt_realloc,
      KtLoop, KThreads

-----------------------------------------------------------------------------
(* The state my_module_init leaves satisfies the invariant. *)
LEMMA InitIInv == Init => IInv
<1> SUFFICES ASSUME Init PROVE IInv
  OBVIOUS
<1> USE ClientsAssumption, ValuesAssumption
    DEF Init, Tasks, Clients, KThreads
<1>1. LabelsOK
  BY DEF LabelsOK, ReaderLabels, WriterLabels, KThreadLabels, ClientLabels, KtUnlocked
<1>2. DataOK
  BY DEF DataOK
<1>3. MutexDiscipline
  BY DEF MutexDiscipline, Locked, OpenLocked, CloseLocked, ReadLocked, WriteLocked, KtLocked
<1>4. Sleepers /\ IdleSeen
  BY DEF Sleepers, IdleSeen
<1>5. Carried
  BY DEF Carried, WriteLocked, WriteWaits, ClientLabels
<1>6. PopNeverEmpty /\ PushNeverFull
  BY DEF PopNeverEmpty, PushNeverFull
<1>7. ReaderWakeable /\ WriterWakeable /\ KthreadWakeable
  BY DEF ReaderWakeable, WriterWakeable, KthreadWakeable, Asleep
<1>8. DevRunExact
  <2>1. OpenClients = {}
    BY DEF OpenClients
  <2> QED BY <2>1, FS_EmptySet, Zenon DEF DevRunExact, OpenClients
<1> QED BY <1>1, <1>2, <1>3, <1>4, <1>5, <1>6, <1>7, <1>8 DEF IInv, TypeOK

(* IInv holds in every state the module can be in. *)
THEOREM Invariance == Spec => []IInv
<1>1. IInv /\ [Next]_vars => IInv'
  BY LabelsStep, DataStep, MutexStep, SleepersStep, CarriedStep, BufferStep,
     ReaderStep, WriterStep, KthreadStep, DevRunStep DEF IInv, TypeOK
<1> QED BY InitIInv, <1>1, PTL DEF Spec

(* Type correctness, for any number of processes: in particular dev_run    *)
(* never goes below zero and ds_kb_max is never zero.                      *)
THEOREM TypeCorrect == Spec => []TypeOK
BY Invariance, PTL DEF IInv

(* dev_mutex is balanced on every path of main.c. *)
THEOREM MutexBalanced == Spec => []MutexDiscipline
BY Invariance, PTL DEF IInv

(* my_read never calls kb_pop on an empty FIFO. *)
THEOREM PopSafe == Spec => []PopNeverEmpty
BY Invariance, PTL DEF IInv

(* my_write never calls kb_push on a full FIFO. *)
THEOREM PushSafe == Spec => []PushNeverFull
BY Invariance, PTL DEF IInv

(* No wake-up of a reader in my_read is lost. *)
THEOREM ReadersWoken == Spec => []ReaderWakeable
BY Invariance, PTL DEF IInv

(* No wake-up of a writer in my_write is lost. *)
THEOREM WritersWoken == Spec => []WriterWakeable
BY Invariance, PTL DEF IInv

(* my_open's wake-up of kt_stat and kt_realloc is not lost. *)
THEOREM KthreadsWoken == Spec => []KthreadWakeable
BY Invariance, PTL DEF IInv

(* dev_run counts the clients that have the device open. *)
THEOREM DevRunCounts == Spec => []DevRunExact
BY Invariance, PTL DEF IInv

(* While all user buffers are valid, the readers and writers are never all *)
(* asleep in my_read and my_write.                                         *)
THEOREM SomeoneAwake == Spec => []NeverAllAsleep
<1>1. IInv => NeverAllAsleep
  <2> SUFFICES ASSUME IInv, ~ CopyFaults, NEW r \in Readers, NEW w \in Writers,
                      \A p \in Clients : Asleep(p)
               PROVE  FALSE
    BY DEF NeverAllAsleep
  <2>1. \A p \in Clients : pc[p] # "w_wake" /\ pc[p] # "r_copy"
    BY DEF Asleep
  <2>2. kb_isempty
    BY <2>1 DEF IInv, ReaderWakeable, Clients
  <2>3. ~ kb_isempty
    BY <2>1 DEF IInv, WriterWakeable, Clients
  <2> QED BY <2>2, <2>3
<1> QED BY Invariance, <1>1, PTL

-----------------------------------------------------------------------------
(* MyDev implements DevFifo: every step of a behaviour that satisfies IInv *)
(* maps to a step of the FIFO or to a stutter.                             *)

(* A step of one client leaves the standing of the others alone. *)
LEMMA StandingMoves ==
  ASSUME NEW p \in Clients,
         \A q \in Clients \ {p} : pc'[q] = pc[q] /\ res'[q] = res[q]
  PROVE  standing' = [standing EXCEPT ![p] = Standing(p)']
<1>1. \A q \in Clients \ {p} : Standing(q)' = Standing(q)
  BY DEF Standing
<1> QED BY <1>1, Zenon DEF standing

(* Every step of main.c is a step of the abstract FIFO or changes nothing  *)
(* that it shows.                                                          *)
LEMMA FifoStep == IInv /\ [Next]_vars => Fifo!FifoNext \/ UNCHANGED Fifo!fvars
<1> SUFFICES ASSUME IInv, [Next]_vars PROVE Fifo!FifoNext \/ UNCHANGED Fifo!fvars
  OBVIOUS
<1> USE ClientsAssumption, ValuesAssumption
    DEF IInv, TypeOK, LabelsOK, DataOK, Goto, mutex_lock, mutex_unlock, calls,
          queues, alloc, Tasks, Clients, KThreads, Fifo!fvars
<1>1. ASSUME NEW p \in Clients, OpenLock(p) \/ OpenEnd(p) PROVE Fifo!FifoNext \/
      UNCHANGED Fifo!fvars
  BY <1>1 DEF OpenLock, OpenEnd, standing, Standing, OpenLocked, CloseLocked,
        ReadLocked, ReadWaits, WriteLocked, WriteWaits, ClientLabels
<1>2. ASSUME NEW p \in Clients, OpenInc(p) PROVE Fifo!FifoNext \/ UNCHANGED
      Fifo!fvars
  BY <1>2 DEF OpenInc, standing, Standing, OpenLocked, CloseLocked, ReadLocked,
        ReadWaits, WriteLocked, WriteWaits, ClientLabels
<1>3. ASSUME NEW p \in Clients, OpenWake(p) PROVE Fifo!FifoNext \/ UNCHANGED
      Fifo!fvars
  BY <1>3 DEF OpenWake, standing, Standing, OpenLocked, CloseLocked, ReadLocked,
        ReadWaits, WriteLocked, WriteWaits, ClientLabels
<1>4. ASSUME NEW p \in Clients, CloseLock(p) \/ CloseEnd(p) PROVE Fifo!FifoNext
      \/ UNCHANGED Fifo!fvars
  BY <1>4 DEF CloseLock, CloseEnd, standing, Standing, OpenLocked, CloseLocked,
        ReadLocked, ReadWaits, WriteLocked, WriteWaits, ClientLabels
<1>5. ASSUME NEW p \in Clients, CloseDec(p) PROVE Fifo!FifoNext \/ UNCHANGED
      Fifo!fvars
  BY <1>5 DEF CloseDec, standing, Standing, OpenLocked, CloseLocked, ReadLocked,
        ReadWaits, WriteLocked, WriteWaits, ClientLabels
<1>6. ASSUME NEW p \in Clients, Signal(p) PROVE Fifo!FifoNext \/ UNCHANGED
      Fifo!fvars
  BY <1>6 DEF Signal, standing, Standing, OpenLocked, CloseLocked, ReadLocked,
        ReadWaits, WriteLocked, WriteWaits, ClientLabels
<1>7. ASSUME NEW r \in Readers, ReadTest(r) PROVE Fifo!FifoNext \/ UNCHANGED
      Fifo!fvars
  BY <1>7 DEF ReadTest, standing, Standing, OpenLocked, CloseLocked, ReadLocked,
        ReadWaits, WriteLocked, WriteWaits, ClientLabels
<1>8. ASSUME NEW r \in Readers, ReadCall(r) PROVE Fifo!FifoNext \/ UNCHANGED
      Fifo!fvars
  <2>1. \A q \in Clients \ {r} : pc'[q] = pc[q] /\ res'[q] = res[q]
    BY <1>8 DEF ReadCall
  <2>2. Standing(r) = "out" /\ Standing(r)' = "in"
    BY <1>8 DEF ReadCall, Standing, OpenLocked, CloseLocked, ReadLocked,
          ReadWaits, WriteLocked, WriteWaits, ClientLabels
  <2>3. standing[r] = Standing(r) /\ standing' = [standing EXCEPT ![r] =
        Standing(r)']
    BY <2>1, StandingMoves, Zenon DEF standing
  <2>5. value' = [value EXCEPT ![r] = None]
    BY <1>8 DEF ReadCall, Carried, ClientLabels
  <2>4. Fifo!Begin(r, None)
    BY <1>8, <2>2, <2>3, <2>5, Zenon DEF ReadCall, Fifo!Begin
  <2> QED BY <2>4, Zenon DEF Fifo!FifoNext, Fifo!Procs
<1>9. ASSUME NEW r \in Readers, ReadAlloc(r) PROVE Fifo!FifoNext \/ UNCHANGED
      Fifo!fvars
  <2>1. CASE res' = res /\ pc' = [pc EXCEPT ![r] = "r_test"]
    BY <1>9, <2>1 DEF ReadAlloc, standing, Standing, OpenLocked, CloseLocked,
          ReadLocked, ReadWaits, WriteLocked, WriteWaits, ClientLabels
  <2>2. CASE res' = [res EXCEPT ![r] = 1] /\ pc' = [pc EXCEPT ![r] = "r_end"]
    <3>1. \A q \in Clients \ {r} : pc'[q] = pc[q] /\ res'[q] = res[q]
      BY <1>9 DEF ReadAlloc
    <3>2. Standing(r) = "in" /\ Standing(r)' = "fail"
      BY <1>9, <2>2 DEF ReadAlloc, Standing, OpenLocked, CloseLocked,
            ReadLocked, ReadWaits, WriteLocked, WriteWaits, ClientLabels
    <3>3. standing[r] = Standing(r) /\ standing' = [standing EXCEPT ![r] =
          Standing(r)']
      BY <3>1, StandingMoves, Zenon DEF standing
    <3>4. Fifo!Fail(r)
      BY <1>9, <2>2, <3>2, <3>3 DEF ReadAlloc, Fifo!Fail
    <3> QED BY <3>4, Zenon DEF Fifo!FifoNext, Fifo!Procs
  <2> QED BY <1>9, <2>1, <2>2, Zenon DEF ReadAlloc
<1>10. ASSUME NEW r \in Readers, ReadWait(r) \/ ReadRecheck(r) \/ ReadSched(r)
      PROVE Fifo!FifoNext \/ UNCHANGED Fifo!fvars
  BY <1>10 DEF ReadWait, ReadRecheck, ReadSched, ReadPrepare, standing,
        Standing, OpenLocked, CloseLocked, ReadLocked, ReadWaits, WriteLocked,
        WriteWaits, ClientLabels
<1>11. ASSUME NEW r \in Readers, ReadRelock(r) PROVE Fifo!FifoNext \/ UNCHANGED
      Fifo!fvars
  BY <1>11 DEF ReadRelock, standing, Standing, OpenLocked, CloseLocked,
        ReadLocked, ReadWaits, WriteLocked, WriteWaits, ClientLabels
<1>12. ASSUME NEW r \in Readers, ReadEnd(r) PROVE Fifo!FifoNext \/ UNCHANGED
      Fifo!fvars
  <2>1. \A q \in Clients \ {r} : pc'[q] = pc[q] /\ res'[q] = res[q]
    BY <1>12 DEF ReadEnd
  <2>2. Standing(r) \in {"ok", "fail"} /\ Standing(r)' = "out"
    BY <1>12 DEF ReadEnd, Standing, OpenLocked, CloseLocked, ReadLocked,
          ReadWaits, WriteLocked, WriteWaits, ClientLabels
  <2>3. standing[r] = Standing(r) /\ standing' = [standing EXCEPT ![r] =
        Standing(r)']
    BY <2>1, StandingMoves, Zenon DEF standing
  <2>4. Fifo!Return(r)
    BY <1>12, <2>2, <2>3 DEF ReadEnd, Fifo!Return
  <2> QED BY <2>4, Zenon DEF Fifo!FifoNext, Fifo!Procs
<1>13. ASSUME NEW r \in Readers, ReadPop(r) PROVE Fifo!FifoNext \/ UNCHANGED
      Fifo!fvars
  <2>1. \A q \in Clients \ {r} : pc'[q] = pc[q] /\ res'[q] = res[q]
    BY <1>13 DEF ReadPop
  <2>2. Standing(r) = "in" /\ Standing(r)' = "taken"
    BY <1>13 DEF ReadPop, PopNeverEmpty, kb_isempty, Standing, OpenLocked,
          CloseLocked, ReadLocked, ReadWaits, WriteLocked, WriteWaits,
          ClientLabels
  <2>3. standing[r] = Standing(r) /\ standing' = [standing EXCEPT ![r] =
        Standing(r)']
    BY <2>1, StandingMoves, Zenon DEF standing
  <2>5. fifo # <<>> /\ fifo' = Tail(fifo) /\ value' = [value EXCEPT ![r] =
        Head(fifo)]
    BY <1>13 DEF ReadPop, PopNeverEmpty, kb_isempty
  <2>4. Fifo!Take(r)
    BY <1>13, <2>2, <2>3, <2>5 DEF ReadPop, Fifo!Take
  <2> QED BY <2>4, Zenon DEF Fifo!FifoNext, Fifo!Procs
<1>14. ASSUME NEW r \in Readers, ReadCopy(r) PROVE Fifo!FifoNext \/ UNCHANGED
      Fifo!fvars
  <2>1. \A q \in Clients \ {r} : pc'[q] = pc[q] /\ res'[q] = res[q]
    BY <1>14, Zenon DEF ReadCopy
  <2>2. Standing(r) = "taken" /\ Standing(r)' \in {"ok", "fail"}
    BY <1>14 DEF ReadCopy, Standing, OpenLocked, CloseLocked, ReadLocked,
          ReadWaits, WriteLocked, WriteWaits, ClientLabels
  <2>3. standing[r] = Standing(r) /\ standing' = [standing EXCEPT ![r] =
        Standing(r)']
    BY <2>1, StandingMoves, Zenon DEF standing
  <2>4. Fifo!Deliver(r)
    BY <1>14, <2>2, <2>3, Zenon DEF ReadCopy, Fifo!Deliver
  <2> QED BY <2>4, Zenon DEF Fifo!FifoNext, Fifo!Procs
<1>15. ASSUME NEW w \in Writers, WriteTest(w) PROVE Fifo!FifoNext \/ UNCHANGED
      Fifo!fvars
  BY <1>15 DEF WriteTest, standing, Standing, OpenLocked, CloseLocked,
        ReadLocked, ReadWaits, WriteLocked, WriteWaits, ClientLabels
<1>16. ASSUME NEW w \in Writers, WriteCall(w) PROVE Fifo!FifoNext \/ UNCHANGED
      Fifo!fvars
  <2>1. \A q \in Clients \ {w} : pc'[q] = pc[q] /\ res'[q] = res[q]
    BY <1>16 DEF WriteCall
  <2>2. Standing(w) = "out" /\ Standing(w)' = "in"
    BY <1>16 DEF WriteCall, Standing, OpenLocked, CloseLocked, ReadLocked,
          ReadWaits, WriteLocked, WriteWaits, ClientLabels
  <2>3. standing[w] = Standing(w) /\ standing' = [standing EXCEPT ![w] =
        Standing(w)']
    BY <2>1, StandingMoves, Zenon DEF standing
  <2>5. PICK m \in Msg : value' = [value EXCEPT ![w] = m]
    BY <1>16, Zenon DEF WriteCall
  <2>4. Fifo!Begin(w, m)
    BY <1>16, <2>2, <2>3, <2>5 DEF WriteCall, Fifo!Begin
  <2> QED BY <2>4, Zenon DEF Fifo!FifoNext, Fifo!Procs
<1>17. ASSUME NEW w \in Writers, WriteAlloc(w) PROVE Fifo!FifoNext \/ UNCHANGED
      Fifo!fvars
  <2>1. CASE res' = res /\ pc' = [pc EXCEPT ![w] = "w_test"]
    BY <1>17, <2>1 DEF WriteAlloc, standing, Standing, OpenLocked, CloseLocked,
          ReadLocked, ReadWaits, WriteLocked, WriteWaits, ClientLabels
  <2>2. CASE res' = [res EXCEPT ![w] = 1] /\ pc' = [pc EXCEPT ![w] = "w_end"]
    <3>1. \A q \in Clients \ {w} : pc'[q] = pc[q] /\ res'[q] = res[q]
      BY <1>17, Zenon DEF WriteAlloc
    <3>2. Standing(w) = "in" /\ Standing(w)' = "fail"
      BY <1>17, <2>2 DEF WriteAlloc, Standing, OpenLocked, CloseLocked,
            ReadLocked, ReadWaits, WriteLocked, WriteWaits, ClientLabels
    <3>3. standing[w] = Standing(w) /\ standing' = [standing EXCEPT ![w] =
          Standing(w)']
      BY <3>1, StandingMoves, Zenon DEF standing
    <3>4. Fifo!Fail(w)
      BY <1>17, <2>2, <3>2, <3>3 DEF WriteAlloc, Fifo!Fail
    <3> QED BY <3>4, Zenon DEF Fifo!FifoNext, Fifo!Procs
  <2> QED BY <1>17, <2>1, <2>2, Zenon DEF WriteAlloc
<1>18. ASSUME NEW w \in Writers, WriteWait(w) \/ WriteCheck(w) PROVE
      Fifo!FifoNext \/ UNCHANGED Fifo!fvars
  BY <1>18 DEF WriteWait, WriteCheck, LoadMax, WritePrepare, standing, Standing,
        OpenLocked, CloseLocked, ReadLocked, ReadWaits, WriteLocked, WriteWaits,
        ClientLabels
<1>19. ASSUME NEW w \in Writers, WriteLoad(w) \/ WriteRecheck(w) \/
      WriteSched(w) PROVE Fifo!FifoNext \/ UNCHANGED Fifo!fvars
  BY <1>19 DEF WriteLoad, WriteRecheck, WriteSched, LoadMax, WritePrepare,
        standing, Standing, OpenLocked, CloseLocked, ReadLocked, ReadWaits,
        WriteLocked, WriteWaits, ClientLabels
<1>20. ASSUME NEW w \in Writers, WriteRelock(w) PROVE Fifo!FifoNext \/ UNCHANGED
      Fifo!fvars
  BY <1>20 DEF WriteRelock, standing, Standing, OpenLocked, CloseLocked,
        ReadLocked, ReadWaits, WriteLocked, WriteWaits, ClientLabels
<1>21. ASSUME NEW w \in Writers, WriteCopy(w) PROVE Fifo!FifoNext \/ UNCHANGED
      Fifo!fvars
  <2>1. CASE res' = res /\ pc' = [pc EXCEPT ![w] = "w_push"]
    BY <1>21, <2>1 DEF WriteCopy, standing, Standing, OpenLocked, CloseLocked,
          ReadLocked, ReadWaits, WriteLocked, WriteWaits, ClientLabels
  <2>2. CASE res' = [res EXCEPT ![w] = -EFAULT] /\ pc' = [pc EXCEPT ![w] = "w_end"]
    <3>1. \A q \in Clients \ {w} : pc'[q] = pc[q] /\ res'[q] = res[q]
      BY <1>21 DEF WriteCopy
    <3>2. Standing(w) = "in" /\ Standing(w)' = "fail"
      BY <1>21, <2>2 DEF WriteCopy, EFAULT, Standing, OpenLocked, CloseLocked,
            ReadLocked, ReadWaits, WriteLocked, WriteWaits, ClientLabels
    <3>3. standing[w] = Standing(w) /\ standing' = [standing EXCEPT ![w] =
          Standing(w)']
      BY <3>1, StandingMoves, Zenon DEF standing
    <3>4. Fifo!Fail(w)
      BY <1>21, <2>2, <3>2, <3>3 DEF WriteCopy, Fifo!Fail
    <3> QED BY <3>4, Zenon DEF Fifo!FifoNext, Fifo!Procs
  <2> QED BY <1>21, <2>1, <2>2 DEF WriteCopy
<1>22. ASSUME NEW w \in Writers, WriteEnd(w) PROVE Fifo!FifoNext \/ UNCHANGED
      Fifo!fvars
  <2>1. \A q \in Clients \ {w} : pc'[q] = pc[q] /\ res'[q] = res[q]
    BY <1>22 DEF WriteEnd
  <2>2. Standing(w) \in {"ok", "fail"} /\ Standing(w)' = "out"
    BY <1>22 DEF WriteEnd, Standing, OpenLocked, CloseLocked, ReadLocked,
          ReadWaits, WriteLocked, WriteWaits, ClientLabels
  <2>3. standing[w] = Standing(w) /\ standing' = [standing EXCEPT ![w] =
        Standing(w)']
    BY <2>1, StandingMoves, Zenon DEF standing
  <2>4. Fifo!Return(w)
    BY <1>22, <2>2, <2>3 DEF WriteEnd, Fifo!Return
  <2> QED BY <2>4, Zenon DEF Fifo!FifoNext, Fifo!Procs
<1>23. ASSUME NEW w \in Writers, WritePush(w) PROVE Fifo!FifoNext \/ UNCHANGED
      Fifo!fvars
  <2>1. CASE fifo' = fifo /\ res' = res /\ pc' = [pc EXCEPT ![w] = "oops"]
    BY <1>23, <2>1 DEF WritePush, standing, Standing, OpenLocked, CloseLocked,
          ReadLocked, ReadWaits, WriteLocked, WriteWaits, ClientLabels
  <2>2. CASE fifo' = Append(fifo, value[w]) /\ res' = [res EXCEPT ![w] = 0] /\
        pc' = [pc EXCEPT ![w] = "w_wake"]
    <3>1. \A q \in Clients \ {w} : pc'[q] = pc[q] /\ res'[q] = res[q]
      BY <1>23, Zenon DEF WritePush
    <3>2. Standing(w) = "in" /\ Standing(w)' = "ok"
      BY <1>23, <2>2 DEF WritePush, Standing, OpenLocked, CloseLocked,
            ReadLocked, ReadWaits, WriteLocked, WriteWaits, ClientLabels
    <3>3. standing[w] = Standing(w) /\ standing' = [standing EXCEPT ![w] =
          Standing(w)']
      BY <3>1, StandingMoves, Zenon DEF standing
    <3>5. Len(fifo) < kb_max
      BY <1>23, Zenon DEF WritePush, PushNeverFull
    <3>4. Fifo!Put(w)
      BY <1>23, <2>2, <3>2, <3>3, <3>5, Zenon DEF WritePush, Fifo!Put
    <3> QED BY <3>4, Zenon DEF Fifo!FifoNext, Fifo!Procs
  <2> QED BY <1>23, <2>1, <2>2, Zenon DEF WritePush
<1>24. ASSUME NEW w \in Writers, WriteWake(w) PROVE Fifo!FifoNext \/ UNCHANGED
      Fifo!fvars
  <2>1. \A q \in Clients \ {w} : pc'[q] = pc[q] /\ res'[q] = res[q]
    BY <1>24, Zenon DEF WriteWake
  <2>2. Standing(w) = "ok" /\ Standing(w)' = "ok"
    BY <1>24 DEF WriteWake, Carried, Standing, OpenLocked, CloseLocked,
          ReadLocked, ReadWaits, WriteLocked, WriteWaits, ClientLabels
  <2>3. standing' = [standing EXCEPT ![w] = "ok"] /\ standing[w] = "ok"
    BY <2>1, <2>2, StandingMoves, Zenon DEF standing
  <2>4. standing' = standing
    BY <2>3, Zenon DEF standing
  <2> QED BY <1>24, <2>4, Zenon DEF WriteWake
<1>25. ASSUME NEW k \in KThreads, KtLock(k) \/ KtSet(k) \/ KtUnlock(k) PROVE
      Fifo!FifoNext \/ UNCHANGED Fifo!fvars
  BY <1>25 DEF KtLock, KtSet, KtUnlock, standing, Standing, OpenLocked,
        CloseLocked, ReadLocked, ReadWaits, WriteLocked, WriteWaits,
        ClientLabels
<1>26. ASSUME NEW k \in KThreads, KtTimeout(k) \/ KtResume(k) PROVE
      Fifo!FifoNext \/ UNCHANGED Fifo!fvars
  BY <1>26 DEF KtTimeout, KtResume, standing, Standing, OpenLocked, CloseLocked,
        ReadLocked, ReadWaits, WriteLocked, WriteWaits, ClientLabels
<1>27. CASE StatBody
  BY <1>27 DEF StatBody, standing, Standing, OpenLocked, CloseLocked,
        ReadLocked, ReadWaits, WriteLocked, WriteWaits, ClientLabels
<1>28. CASE ReallocBody
  <2>1. standing' = standing /\ fifo' = fifo /\ value' = value
    BY <1>28 DEF ReallocBody, standing, Standing, OpenLocked, CloseLocked,
          ReadLocked, ReadWaits, WriteLocked, WriteWaits, ClientLabels
  <2>2. kb_max' = kb_max \/ kb_max' \in Nat \ {0, 1}
    BY <1>28, ReallocSize DEF ReallocBody
  <2> QED BY <2>1, <2>2, Zenon DEF Fifo!FifoNext, Fifo!Resize
<1>29. CASE UNCHANGED vars
  BY <1>29 DEF vars, standing, Standing
<1> QED BY <1>1, <1>2, <1>3, <1>4, <1>5, <1>6, <1>7, <1>8, <1>9, <1>10, <1>11,
      <1>12, <1>13, <1>14, <1>15, <1>16, <1>17, <1>18, <1>19, <1>20, <1>21,
      <1>22, <1>23, <1>24, <1>25, <1>26, <1>27, <1>28, <1>29, Zenon DEF Next, my_open,
      my_close, my_read, my_write, kt_stat, kt_realloc, KtLoop, KThreads

(* main.c implements the abstract FIFO. *)
THEOREM Refinement == Spec => ImplementsFifo
<1>1. Init => Fifo!FifoInit
  BY ClientsAssumption
     DEF Init, Fifo!FifoInit, Fifo!Procs, standing, Standing, Clients, Tasks, ReadLocked,
         ReadWaits, WriteLocked, WriteWaits
<1>2. IInv /\ [Next]_vars => [Fifo!FifoNext]_(Fifo!fvars)
  BY FifoStep
<1> QED BY <1>1, <1>2, Invariance, PTL DEF Spec, ImplementsFifo, Fifo!FifoSpec
=============================================================================
