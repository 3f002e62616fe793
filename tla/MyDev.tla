------------------------------- MODULE MyDev -------------------------------
(***************************************************************************)
(* The character device /dev/mydev (Module/main.c): a FIFO of strings      *)
(* shared by any number of processes that open, read, write and close it,  *)
(* one mutex, two wait queues and two kernel threads: kt_stat samples the  *)
(* length of the FIFO and kt_realloc sets its maximum size from them.      *)
(*                                                                         *)
(* The kernel is uniprocessor and preemptible (CONFIG_PREEMPT=y), so a     *)
(* task can lose the processor between any two steps below.  Every task    *)
(* has a program counter whose labels name the statement it executes next. *)
(* The behaviours start when my_module_init has returned.  The linked list *)
(* of kbuf.c is the sequence fifo: head = NULL iff fifo = <<>>, and count  *)
(* = Len(fifo) (module KBuf justifies both).                               *)
(***************************************************************************)
EXTENDS DsAlloc, Sequences, FiniteSets

CONSTANTS
  Readers,       (* processes that read the device                         *)
  Writers,       (* processes that write to it                             *)
  Msg,           (* strings                                                *)
  None,          (* no task, no string                                     *)
  START_KB_DIM,  (* initial maximum size (main.h)                          *)
  CopyFaults,    (* can a user buffer be bad?                              *)
  AllocFails,    (* can kmalloc return NULL?                               *)
  Signals,       (* can a signal arrive during a call?                     *)
  MaxLen,        (* bound: no write starts when fifo has MaxLen strings    *)
  MaxSamples     (* bound: samples kt_stat takes between two runs of       *)
                 (* kt_realloc (1 s and 3 s timers: about 3)               *)

EFAULT == 14     (* "Bad address"; the calls return -EFAULT                *)

KThreads == {"kt_stat", "kt_realloc"}
Clients  == Readers \cup Writers
Tasks    == Clients \cup KThreads

ASSUME ClientsAssumption ==
  /\ IsFiniteSet(Readers)
  /\ IsFiniteSet(Writers)
  /\ Readers \cap Writers = {}
  /\ Clients \cap KThreads = {}
  /\ None \notin Tasks \cup Msg

ASSUME ValuesAssumption ==
  /\ START_KB_DIM \in Nat \ {0}
  /\ CopyFaults \in BOOLEAN
  /\ AllocFails \in BOOLEAN
  /\ Signals \in BOOLEAN
  /\ MaxLen \in Nat
  /\ MaxSamples \in Nat

VARIABLES
  mutex,    (* dev_mutex: the task that holds it, or None                  *)
  pc,       (* the statement each task executes next                       *)
  state,    (* current->state of each task                                 *)
  sig,      (* clients with a pending signal                               *)
  value,    (* the string a call carries: buf/value in my_read, my_write   *)
  seen,     (* ds_kb_max as loaded by a writer outside the mutex           *)
  res,      (* the result the call is about to return                      *)
  fifo,     (* kb_fifo                                                     *)
  wait_r,   (* readers on wait queue wait_r                                *)
  wait_w,   (* writers on wait queue wait_w                                *)
  dev_run,  (* how many times the device is open                           *)
  kb_dim,   (* dev_stat.ds_kb_dim: samples since the last reallocation     *)
  kb_sum,   (* dev_stat.ds_kb_sum: their sum                               *)
  kb_max    (* dev_stat.ds_kb_max: maximum size of fifo                    *)

calls  == <<sig, value, seen, res>>
queues == <<wait_r, wait_w>>
alloc  == <<kb_dim, kb_sum, kb_max>>
vars   == <<mutex, pc, state, calls, fifo, queues, dev_run, alloc>>

-----------------------------------------------------------------------------
(* The kernel services the module calls. *)

Goto(t, label) == pc' = [pc EXCEPT ![t] = label]

mutex_lock(t) == mutex = None /\ mutex' = t

mutex_unlock(t) == mutex' = None

(* wake_up_interruptible: every waiter of q that sleeps becomes runnable    *)
(* (none waits exclusively) ...                                            *)
wake_up(q) == state' = [t \in Tasks |-> IF t \in q THEN "RUNNING" ELSE state[t]]

(* ... and is taken off the queue; one that a signal woke stays on it.     *)
still_queued(q) == {t \in q : state[t] = "RUNNING"}

(* set_current_state *)
set_state(t, s) == state' = [state EXCEPT ![t] = s]

kb_isempty == fifo = <<>>

kb_isfull(max) == ~ (Len(fifo) < max)

-----------------------------------------------------------------------------
(* my_open and my_close *)

OpenLock(p) ==
  /\ pc[p] = "closed"
  /\ mutex_lock(p)
  /\ Goto(p, "o_inc")
  /\ UNCHANGED <<state, calls, fifo, queues, dev_run, alloc>>

(* Slip: the counter is tested before it changes. *)
OpenInc_TestFirst(p) ==
  /\ pc[p] = "o_inc"
  /\ dev_run' = dev_run + 1
  /\ Goto(p, IF dev_run = 1 THEN "o_wake" ELSE "o_end")
  /\ UNCHANGED <<mutex, state, calls, fifo, queues, alloc>>

OpenInc(p) ==
  /\ pc[p] = "o_inc"
  /\ dev_run' = dev_run + 1
  /\ Goto(p, IF dev_run' = 1 THEN "o_wake" ELSE "o_end")
  /\ UNCHANGED <<mutex, state, calls, fifo, queues, alloc>>

(* Slip: one thread is forgotten. *)
OpenWake_StatOnly(p) ==
  /\ pc[p] = "o_wake"
  /\ wake_up({"kt_stat"})
  /\ Goto(p, "o_end")
  /\ UNCHANGED <<mutex, calls, fifo, queues, dev_run, alloc>>

(* wake_up_process on both kernel threads *)
OpenWake(p) ==
  /\ pc[p] = "o_wake"
  /\ wake_up(KThreads)
  /\ Goto(p, "o_end")
  /\ UNCHANGED <<mutex, calls, fifo, queues, dev_run, alloc>>

OpenEnd(p) ==
  /\ pc[p] = "o_end"
  /\ mutex_unlock(p)
  /\ Goto(p, "idle")
  /\ sig' = sig \ {p}
  /\ UNCHANGED <<state, value, seen, res, fifo, queues, dev_run, alloc>>

my_open(p) == OpenLock(p) \/ OpenInc(p) \/ OpenWake(p) \/ OpenEnd(p)

CloseLock(p) ==
  /\ pc[p] = "idle"
  /\ mutex_lock(p)
  /\ Goto(p, "c_dec")
  /\ UNCHANGED <<state, calls, fifo, queues, dev_run, alloc>>

CloseDec(p) ==
  /\ pc[p] = "c_dec"
  /\ dev_run' = dev_run - 1
  /\ Goto(p, "c_end")
  /\ UNCHANGED <<mutex, state, calls, fifo, queues, alloc>>

CloseEnd(p) ==
  /\ pc[p] = "c_end"
  /\ mutex_unlock(p)
  /\ Goto(p, "closed")
  /\ sig' = sig \ {p}
  /\ UNCHANGED <<state, value, seen, res, fifo, queues, dev_run, alloc>>

my_close(p) == CloseLock(p) \/ CloseDec(p) \/ CloseEnd(p)

-----------------------------------------------------------------------------
(* my_read.  Its wait_event_interruptible is ReadWait (test, then queue and *)
(* set the state), ReadRecheck (test again, and the pending signal),       *)
(* ReadSched (schedule() returns: queue again) and finish_wait.            *)

ReadCall(r) ==
  /\ pc[r] = "idle"
  /\ mutex_lock(r)
  /\ Goto(r, "r_alloc")
  /\ UNCHANGED <<state, calls, fifo, queues, dev_run, alloc>>

(* Slip: the error path returns without unlocking. *)
ReadAlloc_NoUnlock(r) ==
  /\ pc[r] = "r_alloc"
  /\ Goto(r, "r_test") \/ (AllocFails /\ Goto(r, "idle"))
  /\ UNCHANGED <<mutex, state, calls, fifo, queues, dev_run, alloc>>

ReadAlloc(r) ==
  /\ pc[r] = "r_alloc"
  /\ \/ /\ Goto(r, "r_test")
        /\ UNCHANGED res
     \/ /\ AllocFails
        /\ res' = [res EXCEPT ![r] = 1]
        /\ Goto(r, "r_end")
  /\ UNCHANGED <<mutex, state, sig, value, seen, fifo, queues, dev_run, alloc>>

ReadTest(r) ==
  /\ pc[r] = "r_test"
  /\ \/ /\ kb_isempty
        /\ mutex_unlock(r)
        /\ Goto(r, "r_wait")
     \/ /\ ~ kb_isempty
        /\ Goto(r, "r_pop")
        /\ UNCHANGED mutex
  /\ UNCHANGED <<state, calls, fifo, queues, dev_run, alloc>>

(* Slip: the condition is not tested again once the reader is queued. *)
ReadPrepare_NoRecheck(r) ==
  /\ wait_r' = wait_r \cup {r}
  /\ set_state(r, "INTERRUPTIBLE")
  /\ Goto(r, "r_sched")

ReadPrepare(r) ==
  /\ wait_r' = wait_r \cup {r}
  /\ set_state(r, "INTERRUPTIBLE")
  /\ Goto(r, "r_recheck")

ReadWait(r) ==
  /\ pc[r] = "r_wait"
  /\ \/ /\ kb_isempty
        /\ ReadPrepare(r)
     \/ /\ ~ kb_isempty
        /\ Goto(r, "r_relock")
        /\ UNCHANGED <<state, wait_r>>
  /\ UNCHANGED <<mutex, calls, fifo, wait_w, dev_run, alloc>>

ReadRecheck(r) ==
  /\ pc[r] = "r_recheck"
  /\ \/ /\ ~ kb_isempty \/ r \in sig
        /\ wait_r' = wait_r \ {r}
        /\ set_state(r, "RUNNING")
        /\ Goto(r, "r_relock")
     \/ /\ kb_isempty /\ r \notin sig
        /\ Goto(r, "r_sched")
        /\ UNCHANGED <<state, wait_r>>
  /\ UNCHANGED <<mutex, calls, fifo, wait_w, dev_run, alloc>>

ReadSched(r) ==
  /\ pc[r] = "r_sched"
  /\ state[r] = "RUNNING"
  /\ ReadPrepare(r)
  /\ UNCHANGED <<mutex, calls, fifo, wait_w, dev_run, alloc>>

(* Slip: `if' for `while' around the wait. *)
ReadRelock_If(r) ==
  /\ pc[r] = "r_relock"
  /\ mutex_lock(r)
  /\ Goto(r, "r_pop")
  /\ UNCHANGED <<state, calls, fifo, queues, dev_run, alloc>>

(* The result of wait_event_interruptible is not looked at. *)
ReadRelock(r) ==
  /\ pc[r] = "r_relock"
  /\ mutex_lock(r)
  /\ Goto(r, "r_test")
  /\ UNCHANGED <<state, calls, fifo, queues, dev_run, alloc>>

(* Slip: the string is read but stays in the list. *)
ReadPop_Peek(r) ==
  /\ pc[r] = "r_pop"
  /\ value' = [value EXCEPT ![r] = Head(fifo)]
  /\ Goto(r, "r_copy")
  /\ UNCHANGED <<mutex, state, sig, seen, res, fifo, queues, dev_run, alloc>>

(* kb_pop, which returns 1 on an empty list *)
ReadPop(r) ==
  /\ pc[r] = "r_pop"
  /\ IF kb_isempty
     THEN /\ res' = [res EXCEPT ![r] = 1]
          /\ Goto(r, "r_end")
          /\ UNCHANGED <<value, fifo>>
     ELSE /\ value' = [value EXCEPT ![r] = Head(fifo)]
          /\ fifo' = Tail(fifo)
          /\ Goto(r, "r_copy")
          /\ UNCHANGED res
  /\ UNCHANGED <<mutex, state, sig, seen, queues, dev_run, alloc>>

(* Slip: the writers are woken only by the read that makes the first room. *)
ReadCopy_FirstRoom(r) ==
  /\ pc[r] = "r_copy"
  /\ res' = [res EXCEPT ![r] = 0]
  /\ LET woken == IF Len(fifo) + 1 = kb_max THEN wait_w ELSE {}
     IN  wake_up(woken) /\ wait_w' = still_queued(woken) \cup (wait_w \ woken)
  /\ Goto(r, "r_end")
  /\ UNCHANGED <<mutex, sig, value, seen, fifo, wait_r, dev_run, alloc>>

(* copy_to_user; wait_w is woken only if it succeeds *)
ReadCopy(r) ==
  /\ pc[r] = "r_copy"
  /\ \/ /\ res' = [res EXCEPT ![r] = 0]
        /\ wake_up(wait_w)
        /\ wait_w' = still_queued(wait_w)
     \/ /\ CopyFaults
        /\ res' = [res EXCEPT ![r] = -EFAULT]
        /\ UNCHANGED <<state, wait_w>>
  /\ Goto(r, "r_end")
  /\ UNCHANGED <<mutex, sig, value, seen, fifo, wait_r, dev_run, alloc>>

ReadEnd(r) ==
  /\ pc[r] = "r_end"
  /\ mutex_unlock(r)
  /\ Goto(r, "idle")
  /\ sig' = sig \ {r}
  /\ value' = [value EXCEPT ![r] = None]
  /\ res' = [res EXCEPT ![r] = 0]
  /\ UNCHANGED <<state, seen, fifo, queues, dev_run, alloc>>

my_read(r) ==
  \/ ReadCall(r) \/ ReadAlloc(r) \/ ReadTest(r) \/ ReadWait(r) \/ ReadRecheck(r)
  \/ ReadSched(r) \/ ReadRelock(r) \/ ReadPop(r) \/ ReadCopy(r) \/ ReadEnd(r)

-----------------------------------------------------------------------------
(* my_write.  The condition of its wait_event_interruptible is evaluated   *)
(* outside the mutex and reads two words: ds_kb_max, the argument, and     *)
(* then count, in kb_isfull.  WriteWait and WriteLoad are the first of     *)
(* the two loads, WriteCheck and WriteRecheck the second and the test.     *)

WriteCall(w) ==
  /\ pc[w] = "idle"
  /\ Len(fifo) < MaxLen
  /\ mutex_lock(w)
  /\ \E m \in Msg : value' = [value EXCEPT ![w] = m]
  /\ Goto(w, "w_alloc")
  /\ UNCHANGED <<state, sig, seen, res, fifo, queues, dev_run, alloc>>

WriteAlloc(w) ==
  /\ pc[w] = "w_alloc"
  /\ \/ /\ Goto(w, "w_test")
        /\ UNCHANGED res
     \/ /\ AllocFails
        /\ res' = [res EXCEPT ![w] = 1]
        /\ Goto(w, "w_end")
  /\ UNCHANGED <<mutex, state, sig, value, seen, fifo, queues, dev_run, alloc>>

WriteTest(w) ==
  /\ pc[w] = "w_test"
  /\ \/ /\ kb_isfull(kb_max)
        /\ mutex_unlock(w)
        /\ Goto(w, "w_wait")
     \/ /\ ~ kb_isfull(kb_max)
        /\ Goto(w, "w_copy")
        /\ UNCHANGED mutex
  /\ UNCHANGED <<state, calls, fifo, queues, dev_run, alloc>>

LoadMax(w) == seen' = [seen EXCEPT ![w] = kb_max]

WriteWait(w) ==
  /\ pc[w] = "w_wait"
  /\ LoadMax(w)
  /\ Goto(w, "w_check")
  /\ UNCHANGED <<mutex, state, sig, value, res, fifo, queues, dev_run, alloc>>

WritePrepare(w) ==
  /\ wait_w' = wait_w \cup {w}
  /\ set_state(w, "INTERRUPTIBLE")
  /\ Goto(w, "w_load")

WriteCheck(w) ==
  /\ pc[w] = "w_check"
  /\ \/ /\ kb_isfull(seen[w])
        /\ WritePrepare(w)
     \/ /\ ~ kb_isfull(seen[w])
        /\ Goto(w, "w_relock")
        /\ UNCHANGED <<state, wait_w>>
  /\ UNCHANGED <<mutex, calls, fifo, wait_r, dev_run, alloc>>

WriteLoad(w) ==
  /\ pc[w] = "w_load"
  /\ LoadMax(w)
  /\ Goto(w, "w_recheck")
  /\ UNCHANGED <<mutex, state, sig, value, res, fifo, queues, dev_run, alloc>>

WriteRecheck(w) ==
  /\ pc[w] = "w_recheck"
  /\ \/ /\ ~ kb_isfull(seen[w]) \/ w \in sig
        /\ wait_w' = wait_w \ {w}
        /\ set_state(w, "RUNNING")
        /\ Goto(w, "w_relock")
     \/ /\ kb_isfull(seen[w]) /\ w \notin sig
        /\ Goto(w, "w_sched")
        /\ UNCHANGED <<state, wait_w>>
  /\ UNCHANGED <<mutex, calls, fifo, wait_r, dev_run, alloc>>

WriteSched(w) ==
  /\ pc[w] = "w_sched"
  /\ state[w] = "RUNNING"
  /\ WritePrepare(w)
  /\ UNCHANGED <<mutex, calls, fifo, wait_r, dev_run, alloc>>

(* Slip: `if' for `while' around the wait. *)
WriteRelock_If(w) ==
  /\ pc[w] = "w_relock"
  /\ mutex_lock(w)
  /\ Goto(w, "w_copy")
  /\ UNCHANGED <<state, calls, fifo, queues, dev_run, alloc>>

WriteRelock(w) ==
  /\ pc[w] = "w_relock"
  /\ mutex_lock(w)
  /\ Goto(w, "w_test")
  /\ UNCHANGED <<state, calls, fifo, queues, dev_run, alloc>>

WriteCopy(w) ==
  /\ pc[w] = "w_copy"
  /\ \/ /\ Goto(w, "w_push")
        /\ UNCHANGED res
     \/ /\ CopyFaults
        /\ res' = [res EXCEPT ![w] = -EFAULT]
        /\ Goto(w, "w_end")
  /\ UNCHANGED <<mutex, state, sig, value, seen, fifo, queues, dev_run, alloc>>

(* kb_push dereferences what kmalloc returns without a test *)
WritePush(w) ==
  /\ pc[w] = "w_push"
  /\ \/ /\ fifo' = Append(fifo, value[w])
        /\ res' = [res EXCEPT ![w] = 0]
        /\ Goto(w, "w_wake")
     \/ /\ AllocFails
        /\ Goto(w, "oops")
        /\ UNCHANGED <<fifo, res>>
  /\ UNCHANGED <<mutex, state, sig, value, seen, queues, dev_run, alloc>>

(* Slip: the wrong queue is woken. *)
WriteWake_Writers(w) ==
  /\ pc[w] = "w_wake"
  /\ wake_up(wait_w)
  /\ wait_w' = still_queued(wait_w)
  /\ Goto(w, "w_end")
  /\ UNCHANGED <<mutex, calls, fifo, wait_r, dev_run, alloc>>

WriteWake(w) ==
  /\ pc[w] = "w_wake"
  /\ wake_up(wait_r)
  /\ wait_r' = still_queued(wait_r)
  /\ Goto(w, "w_end")
  /\ UNCHANGED <<mutex, calls, fifo, wait_w, dev_run, alloc>>

WriteEnd(w) ==
  /\ pc[w] = "w_end"
  /\ mutex_unlock(w)
  /\ Goto(w, "idle")
  /\ sig' = sig \ {w}
  /\ value' = [value EXCEPT ![w] = None]
  /\ seen' = [seen EXCEPT ![w] = 0]
  /\ res' = [res EXCEPT ![w] = 0]
  /\ UNCHANGED <<state, fifo, queues, dev_run, alloc>>

my_write(w) ==
  \/ WriteCall(w) \/ WriteAlloc(w) \/ WriteTest(w) \/ WriteWait(w) \/ WriteCheck(w)
  \/ WriteLoad(w) \/ WriteRecheck(w) \/ WriteSched(w) \/ WriteRelock(w)
  \/ WriteCopy(w) \/ WritePush(w) \/ WriteWake(w) \/ WriteEnd(w)

-----------------------------------------------------------------------------
(* The kernel threads.  kthread_should_stop() is false as long as the      *)
(* module stays loaded.                                                    *)

KtLock(k) ==
  /\ pc[k] = "k_top"
  /\ k = "kt_stat" => kb_dim < MaxSamples
  /\ mutex_lock(k)
  /\ Goto(k, "k_set")
  /\ UNCHANGED <<state, calls, fifo, queues, dev_run, alloc>>

KtSet(k) ==
  /\ pc[k] = "k_set"
  /\ set_state(k, "INTERRUPTIBLE")
  /\ Goto(k, IF dev_run # 0 THEN "k_body" ELSE "k_none")
  /\ UNCHANGED <<mutex, calls, fifo, queues, dev_run, alloc>>

(* One sample; ds_populate does not test what kmalloc returns.  What the   *)
(* thread prints is in module DsStat.                                      *)
StatBody ==
  /\ pc["kt_stat"] = "k_body"
  /\ \/ /\ kb_dim' = kb_dim + 1
        /\ kb_sum' = kb_sum + Len(fifo)
        /\ Goto("kt_stat", "k_timed")
     \/ /\ AllocFails /\ ~ kb_isempty
        /\ Goto("kt_stat", "oops")
        /\ UNCHANGED <<kb_dim, kb_sum>>
  /\ UNCHANGED <<mutex, state, calls, fifo, queues, dev_run, kb_max>>

(* Without a sample, the first division traps with the mutex held. *)
ReallocBody ==
  /\ pc["kt_realloc"] = "k_body"
  /\ \/ /\ kb_dim = 0
        /\ Goto("kt_realloc", "oops")
        /\ UNCHANGED alloc
     \/ /\ kb_dim # 0
        /\ kb_max' = realloc_size(kb_sum, kb_dim, kb_max)
        /\ kb_dim' = 0
        /\ kb_sum' = 0
        /\ Goto("kt_realloc", "k_timed")
  /\ UNCHANGED <<mutex, state, calls, fifo, queues, dev_run>>

KtUnlock(k) ==
  /\ pc[k] \in {"k_timed", "k_none"}
  /\ mutex_unlock(k)
  /\ Goto(k, IF pc[k] = "k_timed" THEN "k_tsched" ELSE "k_sched")
  /\ UNCHANGED <<state, calls, fifo, queues, dev_run, alloc>>

(* schedule_timeout returns: the timer, or my_open, made it runnable *)
KtTimeout(k) ==
  /\ pc[k] = "k_tsched"
  /\ set_state(k, "RUNNING")
  /\ Goto(k, "k_top")
  /\ UNCHANGED <<mutex, calls, fifo, queues, dev_run, alloc>>

(* schedule returns: my_open made it runnable *)
KtResume(k) ==
  /\ pc[k] = "k_sched"
  /\ state[k] = "RUNNING"
  /\ Goto(k, "k_top")
  /\ UNCHANGED <<mutex, state, calls, fifo, queues, dev_run, alloc>>

KtLoop(k) == KtLock(k) \/ KtSet(k) \/ KtUnlock(k) \/ KtTimeout(k) \/ KtResume(k)

kt_stat == KtLoop("kt_stat") \/ StatBody

kt_realloc == KtLoop("kt_realloc") \/ ReallocBody

-----------------------------------------------------------------------------
(* A signal reaches a process inside a call.  It ends an interruptible     *)
(* sleep and stays pending until the call returns.                         *)
Signal(p) ==
  /\ Signals
  /\ pc[p] \notin {"closed", "idle"}
  /\ p \notin sig
  /\ sig' = sig \cup {p}
  /\ wake_up({p})
  /\ UNCHANGED <<mutex, pc, value, seen, res, fifo, queues, dev_run, alloc>>

(* my_module_init *)
Init ==
  /\ mutex = None
  /\ pc = [t \in Tasks |-> IF t \in KThreads THEN "k_top" ELSE "closed"]
  /\ state = [t \in Tasks |-> "RUNNING"]
  /\ sig = {}
  /\ value = [p \in Clients |-> None]
  /\ seen = [w \in Writers |-> 0]
  /\ res = [p \in Clients |-> 0]
  /\ fifo = <<>>
  /\ wait_r = {} /\ wait_w = {}
  /\ dev_run = 0
  /\ kb_dim = 0 /\ kb_sum = 0 /\ kb_max = START_KB_DIM

Next ==
  \/ \E p \in Clients : my_open(p) \/ my_close(p) \/ Signal(p)
  \/ \E r \in Readers : my_read(r)
  \/ \E w \in Writers : my_write(w)
  \/ kt_stat
  \/ kt_realloc

Spec == Init /\ [][Next]_vars

-----------------------------------------------------------------------------
(* The labels, and the ones between mutex_lock and mutex_unlock. *)

OpenLocked  == {"o_inc", "o_wake", "o_end"}
CloseLocked == {"c_dec", "c_end"}
ReadLocked  == {"r_alloc", "r_test", "r_pop", "r_copy", "r_end"}
ReadWaits   == {"r_wait", "r_recheck", "r_sched", "r_relock"}
WriteLocked == {"w_alloc", "w_test", "w_copy", "w_push", "w_wake", "w_end", "oops"}
WriteWaits  == {"w_wait", "w_check", "w_load", "w_recheck", "w_sched", "w_relock"}
KtLocked    == {"k_set", "k_body", "k_timed", "k_none", "oops"}
KtUnlocked  == {"k_top", "k_tsched", "k_sched"}

Locked == OpenLocked \cup CloseLocked \cup ReadLocked \cup WriteLocked \cup KtLocked

ClientLabels  == {"closed", "idle"} \cup OpenLocked \cup CloseLocked
ReaderLabels  == ClientLabels \cup ReadLocked \cup ReadWaits
WriterLabels  == ClientLabels \cup WriteLocked \cup WriteWaits
KThreadLabels == KtLocked \cup KtUnlocked

(* Every task is at a statement of a function it can execute ... *)
LabelsOK ==
  /\ mutex \in Tasks \cup {None}
  /\ pc \in [Tasks -> ReaderLabels \cup WriterLabels \cup KThreadLabels]
  /\ \A r \in Readers : pc[r] \in ReaderLabels
  /\ \A w \in Writers : pc[w] \in WriterLabels
  /\ \A k \in KThreads : pc[k] \in KThreadLabels

(* ... and every other variable has its type; in particular the maximum    *)
(* size the reallocator computes is positive, the counters never go below  *)
(* zero, and only readers wait on wait_r, only writers on wait_w.          *)
DataOK ==
  /\ state \in [Tasks -> {"RUNNING", "INTERRUPTIBLE"}]
  /\ sig \subseteq Clients
  /\ value \in [Clients -> Msg \cup {None}]
  /\ seen \in [Writers -> Nat]
  /\ res \in [Clients -> {0, 1, -EFAULT}]
  /\ fifo \in Seq(Msg)
  /\ wait_r \subseteq Readers
  /\ wait_w \subseteq Writers
  /\ dev_run \in Nat
  /\ kb_dim \in Nat
  /\ kb_sum \in Nat
  /\ kb_max \in Nat \ {0}

(* Type correctness of the module's state: LabelsOK and DataOK. *)
TypeOK == LabelsOK /\ DataOK

(* dev_mutex is held by exactly the task that is between mutex_lock and    *)
(* mutex_unlock: the loops of my_read and my_write, which give it up and   *)
(* take it again around every wait, and their error exits included.        *)
MutexDiscipline == \A t \in Tasks : mutex = t <=> pc[t] \in Locked

(* kb_pop is never called on an empty FIFO, however many readers one       *)
(* wake-up on wait_r sends after the same string.                          *)
PopNeverEmpty == \A r \in Readers : pc[r] = "r_pop" => fifo # <<>>

(* kb_push is never called on a full FIFO, although the reallocator may    *)
(* shrink it between a writer's wait and its push.                         *)
PushNeverFull ==
  \A w \in Writers : pc[w] \in {"w_copy", "w_push"} => Len(fifo) < kb_max

(* Asleep in schedule(), with nothing to end it but a wake-up or a signal. *)
Asleep(t) == pc[t] \in {"r_sched", "w_sched", "k_sched"} /\ state[t] = "INTERRUPTIBLE"

(* No wake-up of a reader is lost: one that sleeps in my_read sleeps on an *)
(* empty FIFO, or a writer that has just pushed is about to wake wait_r.   *)
(* my_read gives up the mutex before it queues itself, so a push can come  *)
(* in between; the second test in wait_event_interruptible catches it.     *)
ReaderWakeable ==
  \A r \in Readers :
    Asleep(r) => kb_isempty \/ \E w \in Writers : pc[w] = "w_wake"

(* When every user buffer is valid, a writer never sleeps on an empty      *)
(* FIFO, where no read would ever come to wake wait_w, unless the reader   *)
(* that emptied it has yet to do so.  So readers and writers are never all *)
(* asleep, although the reallocator moves the limit without the knowledge  *)
(* of those who wait.                                                      *)
WriterWakeable ==
  \/ CopyFaults
  \/ \A w \in Writers :
       Asleep(w) => ~ kb_isempty \/ \E r \in Readers : pc[r] = "r_copy"

(* As a consequence, when every user buffer is valid, the readers and the  *)
(* writers are never all asleep in my_read and my_write at the same time.  *)
NeverAllAsleep ==
  \/ CopyFaults \/ Readers = {} \/ Writers = {}
  \/ \E p \in Clients : ~ Asleep(p)

(* A kernel thread that went to sleep without a timer because the device   *)
(* was not in use does not sleep on once it is: the my_open that took      *)
(* dev_run from 0 to 1 is about to wake it.                                *)
KthreadWakeable ==
  \A k \in KThreads :
    Asleep(k) => dev_run = 0 \/ \E p \in Clients : pc[p] = "o_wake"

(* dev_run is the number of clients that have the device open: from        *)
(* dev_run++ in my_open to dev_run-- in my_close.                          *)
DevRunExact ==
  dev_run = Cardinality({p \in Clients : pc[p] \notin {"closed", "o_inc", "c_end"}})

(* "Cooperate with Reallocator for calculating average occupation": there  *)
(* is a sample when kt_realloc averages.                                   *)
ReallocHasSample == pc["kt_realloc"] = "k_body" => kb_dim # 0

(* The same promise as WriterWakeable without its premise, from "Awake     *)
(* Writer": the read that empties the FIFO wakes the writers.              *)
ReadAwakesWriter ==
  \A w \in Writers :
    Asleep(w) => ~ kb_isempty \/ \E r \in Readers : pc[r] = "r_copy"

-----------------------------------------------------------------------------
(* MyDev implements DevFifo.  A call has its effect at kb_pop or kb_push;  *)
(* a writer that traps in kb_push never returns and has had no effect.     *)

Standing(p) ==
  CASE pc[p] \in (ReadLocked \ {"r_copy", "r_end"}) \cup ReadWaits -> "in"
    [] pc[p] \in (WriteLocked \ {"w_wake", "w_end"}) \cup WriteWaits -> "in"
    [] pc[p] = "r_copy" -> "taken"
    [] pc[p] = "w_wake" -> "ok"
    [] pc[p] \in {"r_end", "w_end"} -> IF res[p] = 0 THEN "ok" ELSE "fail"
    [] OTHER -> "out"

standing == [p \in Clients |-> Standing(p)]

Fifo == INSTANCE DevFifo WITH
  Cap0 <- START_KB_DIM, q <- fifo, cap <- kb_max, st <- standing, item <- value

(* Every behaviour of the module, with its locks, waits and wake-ups, bad  *)
(* buffers, failed allocations, signals and resizes, is one of the FIFO:   *)
(* no string is duplicated, reordered, mixed up or lost on the way, and    *)
(* none enters when there is no room.                                      *)
ImplementsFifo == Fifo!FifoSpec

-----------------------------------------------------------------------------
(* Liveness.  The scheduler runs every runnable task; a task that keeps    *)
(* asking for the mutex gets it; timers fire.  Nobody has to start a call. *)

OpenCloseStep(p) ==
  OpenInc(p) \/ OpenWake(p) \/ OpenEnd(p) \/ CloseDec(p) \/ CloseEnd(p)

ReadStep(r) ==
  \/ ReadAlloc(r) \/ ReadTest(r) \/ ReadWait(r) \/ ReadRecheck(r)
  \/ ReadSched(r) \/ ReadPop(r) \/ ReadCopy(r) \/ ReadEnd(r)

WriteStep(w) ==
  \/ WriteAlloc(w) \/ WriteTest(w) \/ WriteWait(w) \/ WriteCheck(w)
  \/ WriteLoad(w) \/ WriteRecheck(w) \/ WriteSched(w) \/ WriteCopy(w)
  \/ WritePush(w) \/ WriteWake(w) \/ WriteEnd(w)

KtStep(k) ==
  \/ KtSet(k) \/ KtUnlock(k) \/ KtTimeout(k) \/ KtResume(k)
  \/ (k = "kt_stat" /\ StatBody)
  \/ (k = "kt_realloc" /\ ReallocBody)

Fairness ==
  /\ \A r \in Readers : WF_vars(OpenCloseStep(r) \/ ReadStep(r)) /\ SF_vars(ReadRelock(r))
  /\ \A w \in Writers : WF_vars(OpenCloseStep(w) \/ WriteStep(w)) /\ SF_vars(WriteRelock(w))
  /\ \A k \in KThreads : WF_vars(KtStep(k)) /\ SF_vars(KtLock(k))

FairSpec == Spec /\ Fairness

(* Readers that come back: they open the device and read from it again. *)
KeenReaders == \A r \in Readers : SF_vars(OpenLock(r)) /\ SF_vars(ReadCall(r))

(* A kernel thread that trapped holds the mutex for good. *)
Oops == \E t \in Tasks : pc[t] = "oops"

(* As long as the device is in use, both kernel threads go on doing their  *)
(* work, although each of them sleeps without a timer when it is not and   *)
(* the device may be opened just before it falls asleep.                   *)
KthreadsWork ==
  \A k \in KThreads : []<>(dev_run = 0 \/ pc[k] = "k_body" \/ Oops)

(* A reader that waits while there are strings gets one, or others get     *)
(* them all.                                                               *)
ReaderServed ==
  \A r \in Readers :
    (pc[r] \in ReadWaits /\ ~ kb_isempty) ~> (pc[r] = "r_copy" \/ kb_isempty \/ Oops)

(* If readers keep coming, a writer that waits on a full FIFO gets its     *)
(* turn, whatever the reallocator does to the maximum size meanwhile.      *)
WriterServed ==
  KeenReaders => \A w \in Writers : pc[w] \in WriteWaits ~> (pc[w] = "w_copy" \/ Oops)

=============================================================================
