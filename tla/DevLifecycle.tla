---------------------------- MODULE DevLifecycle ----------------------------
(***************************************************************************)
(* Loading and unloading of the module: my_module_init and my_module_exit  *)
(* statement by statement, beside processes that open and close the device *)
(* and the loops of the two kernel threads as far as they concern dev_run  *)
(* and kthread_stop.  misc_register comes first, so the device can be      *)
(* opened while it is being set up; a load that fails leaves it registered *)
(* and frees the memory; the kernel unloads the module only while nobody   *)
(* has the device open, and refuses new opens then.                        *)
(*                                                                         *)
(* early and window are no part of the code.                               *)
(***************************************************************************)
EXTENDS Integers, FiniteSets

CONSTANTS Clients   (* processes that open the device *)

KThreads == {"kt_stat", "kt_realloc"}

ASSUME LifeAssumption ==
  IsFiniteSet(Clients) /\ Clients \cap (KThreads \cup {"zero", "free"}) = {}

Tasks == Clients \cup KThreads

VARIABLES
  at,        (* where insmod or rmmod is                                   *)
  reg,       (* the device is registered                                   *)
  mutex,     (* dev_mutex: "zero" before mutex_init, "free" or its owner   *)
  desc,      (* kt_stat_desc and kt_realloc_desc have been assigned        *)
  dev_run,
  pc,        (* where each task is; "oops" if it trapped                   *)
  intr,      (* kernel threads whose state is TASK_INTERRUPTIBLE           *)
  stop,      (* kernel threads that kthread_stop was called for            *)
  early,     (* somebody opened the device before it was set up            *)
  window     (* a kthread_stop came after the thread's kthread_should_stop *)
             (* and before its set_current_state                           *)

lvars == <<at, reg, mutex, desc, dev_run, pc, intr, stop, early, window>>

Goto(t, label) == pc' = [pc EXCEPT ![t] = label]

Unloading == at \in {"stop_stat", "join_stat", "stop_realloc", "join_realloc", "deregister"}

Freed == at \in {"failed", "gone"}

(* Clients the kernel counts as users of the module *)
Users == {c \in Clients : pc[c] # "out"}

-----------------------------------------------------------------------------
(* my_module_init *)
RegisterDevice ==
  /\ at = "out"
  /\ \/ reg' = TRUE /\ at' = "fields"
     \/ UNCHANGED reg /\ at' = "gone"
  /\ UNCHANGED <<mutex, desc, dev_run, pc, intr, stop, early, window>>

InitFields ==
  /\ at = "fields" /\ at' = "run_stat"
  /\ mutex' = "free"
  /\ UNCHANGED <<reg, desc, dev_run, pc, intr, stop, early, window>>

(* kthread_run starts the thread before its result is stored *)
RunThread(k, here, set) ==
  /\ at = here
  /\ \/ at' = set /\ Goto(k, "test")
     \/ at' = "failed" /\ UNCHANGED pc
  /\ UNCHANGED <<reg, mutex, desc, dev_run, intr, stop, early, window>>

SetDesc(k, here, then) ==
  /\ at = here /\ at' = then
  /\ desc' = desc \cup {k}
  /\ UNCHANGED <<reg, mutex, dev_run, pc, intr, stop, early, window>>

(* ds_init_alloc and dev_run = 0 *)
InitLast ==
  /\ at = "last" /\ at' = "loaded"
  /\ dev_run' = 0
  /\ UNCHANGED <<reg, mutex, desc, pc, intr, stop, early, window>>

my_module_init ==
  \/ RegisterDevice
  \/ InitFields
  \/ RunThread("kt_stat", "run_stat", "set_stat")
  \/ SetDesc("kt_stat", "set_stat", "run_realloc")
  \/ RunThread("kt_realloc", "run_realloc", "set_realloc")
  \/ SetDesc("kt_realloc", "set_realloc", "last")
  \/ InitLast

-----------------------------------------------------------------------------
(* rmmod; mutex_destroy does nothing *)
Unload ==
  /\ at = "loaded" /\ Users = {} /\ at' = "stop_stat"
  /\ UNCHANGED <<reg, mutex, desc, dev_run, pc, intr, stop, early, window>>

(* kthread_stop tells the thread to stop, wakes it, and waits for its end *)
StopThread(k, here, then) ==
  /\ at = here /\ at' = then
  /\ stop' = stop \cup {k}
  /\ intr' = intr \ {k}
  /\ window' = (window \/ pc[k] \in {"lock", "set"})
  /\ UNCHANGED <<reg, mutex, desc, dev_run, pc, early>>

Join(k, here, then) ==
  /\ at = here /\ at' = then
  /\ pc[k] = "end"
  /\ UNCHANGED <<reg, mutex, desc, dev_run, pc, intr, stop, early, window>>

DeregisterDevice ==
  /\ at = "deregister" /\ at' = "gone"
  /\ reg' = FALSE
  /\ UNCHANGED <<mutex, desc, dev_run, pc, intr, stop, early, window>>

(* Slip: the reallocation thread is not stopped. *)
my_module_exit_One ==
  \/ Unload
  \/ StopThread("kt_stat", "stop_stat", "join_stat")
  \/ Join("kt_stat", "join_stat", "deregister")
  \/ DeregisterDevice

my_module_exit ==
  \/ Unload
  \/ StopThread("kt_stat", "stop_stat", "join_stat")
  \/ Join("kt_stat", "join_stat", "stop_realloc")
  \/ StopThread("kt_realloc", "stop_realloc", "join_realloc")
  \/ Join("kt_realloc", "join_realloc", "deregister")
  \/ DeregisterDevice

-----------------------------------------------------------------------------
(* A process opens the device: the kernel refuses while the module is      *)
(* being unloaded.                                                         *)
OpenCall(c) ==
  /\ pc[c] = "out" /\ reg /\ ~ Unloading /\ ~ Freed
  /\ Goto(c, "o_lock")
  /\ early' = (early \/ at # "loaded")
  /\ UNCHANGED <<at, reg, mutex, desc, dev_run, intr, stop, window>>

(* A mutex that is all zeroes is locked, and its list of waiters begins    *)
(* with a null pointer, which mutex_lock follows.                          *)
OpenLock(c) ==
  /\ pc[c] = "o_lock" /\ ~ Freed
  /\ \/ mutex = "zero" /\ Goto(c, "oops") /\ UNCHANGED mutex
     \/ mutex = "free" /\ Goto(c, "o_inc") /\ mutex' = c
  /\ UNCHANGED <<at, reg, desc, dev_run, intr, stop, early, window>>

(* Slip: a second user is not counted. *)
OpenInc_First(c) ==
  /\ pc[c] = "o_inc" /\ ~ Freed
  /\ dev_run' = IF dev_run = 0 THEN 1 ELSE dev_run
  /\ Goto(c, IF dev_run' = 1 THEN "o_wake" ELSE "o_end")
  /\ UNCHANGED <<at, reg, mutex, desc, intr, stop, early, window>>

OpenInc(c) ==
  /\ pc[c] = "o_inc" /\ ~ Freed
  /\ dev_run' = dev_run + 1
  /\ Goto(c, IF dev_run' = 1 THEN "o_wake" ELSE "o_end")
  /\ UNCHANGED <<at, reg, mutex, desc, intr, stop, early, window>>

(* wake_up_process of both threads; a descriptor that is still NULL traps, *)
(* with dev_mutex held.                                                    *)
OpenWake(c) ==
  /\ pc[c] = "o_wake" /\ ~ Freed
  /\ intr' = intr \ desc
  /\ Goto(c, IF desc = KThreads THEN "o_end" ELSE "oops")
  /\ UNCHANGED <<at, reg, mutex, desc, dev_run, stop, early, window>>

OpenEnd(c) ==
  /\ pc[c] = "o_end" /\ ~ Freed
  /\ mutex' = "free"
  /\ Goto(c, "open")
  /\ UNCHANGED <<at, reg, desc, dev_run, intr, stop, early, window>>

CloseLock(c) ==
  /\ pc[c] = "open" /\ ~ Freed
  /\ mutex = "free" /\ mutex' = c
  /\ Goto(c, "c_dec")
  /\ UNCHANGED <<at, reg, desc, dev_run, intr, stop, early, window>>

CloseDec(c) ==
  /\ pc[c] = "c_dec" /\ ~ Freed
  /\ dev_run' = dev_run - 1
  /\ mutex' = "free"
  /\ Goto(c, "out")
  /\ UNCHANGED <<at, reg, desc, intr, stop, early, window>>

ClientStep(c) ==
  OpenLock(c) \/ OpenInc(c) \/ OpenWake(c) \/ OpenEnd(c) \/ CloseDec(c)

-----------------------------------------------------------------------------
(* The loop of kt_stat and of kt_realloc *)
KtTest(k) ==
  /\ pc[k] = "test" /\ ~ Freed
  /\ Goto(k, IF k \in stop THEN "end" ELSE "lock")
  /\ UNCHANGED <<at, reg, mutex, desc, dev_run, intr, stop, early, window>>

KtLock(k) ==
  /\ pc[k] = "lock" /\ ~ Freed
  /\ mutex = "free" /\ mutex' = k
  /\ Goto(k, "set")
  /\ UNCHANGED <<at, reg, desc, dev_run, intr, stop, early, window>>

(* From set_current_state to the unlock: what it does under the mutex is   *)
(* in MyDev.  Then it sleeps, with a timer if the device is in use.        *)
KtSet(k) ==
  /\ pc[k] = "set" /\ ~ Freed
  /\ intr' = intr \cup {k}
  /\ mutex' = "free"
  /\ Goto(k, IF dev_run # 0 THEN "timed" ELSE "untimed")
  /\ UNCHANGED <<at, reg, desc, dev_run, stop, early, window>>

KtTimeout(k) ==
  /\ pc[k] = "timed"
  /\ k \in intr /\ intr' = intr \ {k}
  /\ UNCHANGED <<at, reg, mutex, desc, dev_run, pc, stop, early, window>>

(* Slip: a thread that wakes up goes on without kthread_should_stop. *)
KtResume_NoTest(k) ==
  /\ pc[k] \in {"timed", "untimed"} /\ ~ Freed
  /\ k \notin intr
  /\ Goto(k, "lock")
  /\ UNCHANGED <<at, reg, mutex, desc, dev_run, intr, stop, early, window>>

KtResume(k) ==
  /\ pc[k] \in {"timed", "untimed"} /\ ~ Freed
  /\ k \notin intr
  /\ Goto(k, "test")
  /\ UNCHANGED <<at, reg, mutex, desc, dev_run, intr, stop, early, window>>

kt_loop(k) == KtTest(k) \/ KtLock(k) \/ KtSet(k) \/ KtTimeout(k) \/ KtResume(k)

(* The code and data of the module are gone: who runs or needs it, traps.  *)
Crash(t) ==
  /\ Freed
  /\ \/ pc[t] = "out" /\ reg
     \/ pc[t] \notin {"out", "none", "end", "oops"} /\ t \notin intr
  /\ Goto(t, "oops")
  /\ UNCHANGED <<at, reg, mutex, desc, dev_run, intr, stop, early, window>>

LifeInit ==
  /\ at = "out" /\ reg = FALSE /\ mutex = "zero" /\ desc = {}
  /\ dev_run = 0
  /\ pc = [t \in Tasks |-> IF t \in Clients THEN "out" ELSE "none"]
  /\ intr = {} /\ stop = {}
  /\ early = FALSE /\ window = FALSE

LifeNext ==
  \/ my_module_init
  \/ my_module_exit
  \/ \E c \in Clients : OpenCall(c) \/ CloseLock(c) \/ ClientStep(c)
  \/ \E k \in KThreads : kt_loop(k)
  \/ \E t \in Tasks : Crash(t)

LifeSpec == LifeInit /\ [][LifeNext]_lvars

-----------------------------------------------------------------------------
(* Clients my_open has counted and my_close has not *)
Counted == {c \in Clients : pc[c] \in {"o_wake", "o_end", "open", "c_dec"}}

(* Types; even with early opens dev_run stays within the number of clients. *)
LifeTypeOK ==
  /\ at \in {"out", "fields", "run_stat", "set_stat", "run_realloc", "set_realloc", "last",
             "loaded", "stop_stat", "join_stat", "stop_realloc", "join_realloc",
             "deregister", "failed", "gone"}
  /\ reg \in BOOLEAN /\ early \in BOOLEAN /\ window \in BOOLEAN
  /\ mutex \in Tasks \cup {"zero", "free"}
  /\ desc \subseteq KThreads /\ intr \subseteq KThreads /\ stop \subseteq KThreads
  /\ dev_run \in (- Cardinality(Clients)) .. Cardinality(Clients)
  /\ pc \in [Tasks -> {"out", "o_lock", "o_inc", "o_wake", "o_end", "open", "c_dec", "oops",
                       "none", "test", "lock", "set", "timed", "untimed", "end"}]

(* If nobody opens the device before my_module_init is through, and it     *)
(* does not fail, then no task ever traps and dev_run is the number of     *)
(* users, whatever opens, closes and unloading come later.                 *)
OrderlyUse ==
  ~ early /\ at # "failed" =>
    /\ \A t \in Tasks : pc[t] # "oops"
    /\ dev_run = Cardinality(Counted)

(* When my_module_exit has returned, nothing of the module is in use: both *)
(* kernel threads have ended, the device is not registered and no process  *)
(* is in it, even if some opened it too early.                             *)
NothingOutlives ==
  at = "gone" =>
    /\ ~ reg
    /\ \A c \in Clients : pc[c] = "out"
    /\ \A k \in KThreads : pc[k] \in {"none", "end"}

(* A kthread_stop that does not fall between the thread's                  *)
(* kthread_should_stop and its set_current_state reaches it: the thread    *)
(* neither sleeps nor takes the mutex any more, and is on its way out.     *)
StopReaches ==
  \A k \in stop : window \/ (k \notin intr /\ pc[k] \in {"timed", "untimed", "test", "end"})

FairLifeSpec ==
  /\ LifeSpec
  /\ WF_lvars(my_module_init) /\ WF_lvars(my_module_exit /\ ~ Unload)
  /\ \A c \in Clients : WF_lvars(ClientStep(c))
  /\ \A k \in KThreads : WF_lvars(kt_loop(k))

(* Unloading ends, unless kthread_stop met a thread between its            *)
(* kthread_should_stop and its set_current_state: the wake-up then comes   *)
(* before the thread goes to sleep without a timer, and rmmod waits for a  *)
(* thread that sleeps for good.                                            *)
UnloadEnds == Unloading ~> (at = "gone" \/ window)
=============================================================================
