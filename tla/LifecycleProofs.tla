-------------------------- MODULE LifecycleProofs ---------------------------
(***************************************************************************)
(* Loading and unloading, for any number of processes.  The invariant says *)
(* where insmod or rmmod has to be for what the tasks do: the descriptors  *)
(* are set and the mutex initialised once the module is loaded, nobody is  *)
(* in the device while it is unloaded, and each kthread_stop returns after *)
(* the end of its thread.                                                  *)
(***************************************************************************)
EXTENDS DevLifecycle, FiniteSetTheorems, TLAPS

Loading == at \in {"fields", "run_stat", "set_stat", "run_realloc", "set_realloc", "last"}

InService == at = "loaded" \/ Unloading

(* Types, without the bound on dev_run *)
LTyped ==
  /\ at \in {"out", "fields", "run_stat", "set_stat", "run_realloc", "set_realloc", "last",
             "loaded", "stop_stat", "join_stat", "stop_realloc", "join_realloc",
             "deregister", "failed", "gone"}
  /\ mutex \in Tasks \cup {"zero", "free"}
  /\ desc \subseteq KThreads /\ intr \subseteq KThreads /\ stop \subseteq KThreads
  /\ pc \in [Tasks -> {"out", "o_lock", "o_inc", "o_wake", "o_end", "open", "c_dec", "oops",
                       "none", "test", "lock", "set", "timed", "untimed", "end"}]

Flags == reg \in BOOLEAN /\ early \in BOOLEAN /\ window \in BOOLEAN

Trapped == {c \in Clients : pc[c] = "oops"}

(* dev_run counts the users and those of them that trapped, less the ones  *)
(* that were there when my_module_init set it to 0.                        *)
Drift ==
  \E S \in SUBSET Clients, b \in 0 .. Cardinality(Clients) :
    /\ Counted \subseteq S /\ S \subseteq Counted \cup Trapped
    /\ dev_run = Cardinality(S) - b
    /\ ~ early => b = 0

(* What the progress of insmod and rmmod implies *)
Stages ==
  /\ at = "out" => ~ reg /\ Users = {} /\ \A k \in KThreads : pc[k] = "none"
  /\ Loading /\ ~ early => Users = {}
  /\ at \notin {"out", "fields", "gone"} => mutex # "zero"
  /\ at \in {"out", "fields", "run_stat", "set_stat"} => desc = {}
  /\ at \in {"run_realloc", "set_realloc"} => desc = {"kt_stat"}
  /\ InService \/ at = "last" => desc = KThreads
  /\ Unloading \/ at = "gone" => Users = {}
  /\ at \in {"stop_realloc", "join_realloc", "deregister"} => pc["kt_stat"] = "end"
  /\ at = "deregister" => pc["kt_realloc"] = "end"
  /\ at = "gone" => ~ reg /\ \A k \in KThreads : pc[k] \in {"none", "end"}

NoTrap == ~ early /\ at # "failed" => \A t \in Tasks : pc[t] # "oops"

LInv == LTyped /\ Flags /\ Drift /\ Stages /\ NoTrap

(* Tasks *)
LEMMA TaskFacts ==
  /\ "kt_stat" \in KThreads /\ "kt_realloc" \in KThreads
  /\ KThreads \subseteq Tasks /\ Clients \subseteq Tasks
  /\ \A c \in Clients : c \notin KThreads /\ c # "zero"
BY LifeAssumption DEF KThreads, Tasks

(* Sets of clients are finite, with at most as many members *)
LEMMA ClientSets ==
  /\ Cardinality(Clients) \in Nat
  /\ \A S \in SUBSET Clients :
       IsFiniteSet(S) /\ Cardinality(S) \in Nat /\ Cardinality(S) <= Cardinality(Clients)
BY LifeAssumption, FS_Subset, FS_CardinalityType

(* A step that counts and discounts nobody keeps Drift; a counted client   *)
(* may trap.                                                               *)
LEMMA DriftKept ==
  ASSUME Drift, dev_run' = dev_run, early => early',
         Counted' \subseteq Counted, Counted \subseteq Counted' \cup Trapped',
         Trapped \subseteq Trapped'
  PROVE  Drift'
BY DEF Drift

(* A task that moves and is no client leaves the users alone *)
LEMMA KthreadMoves ==
  ASSUME LTyped, NEW k \in KThreads, NEW label, Goto(k, label)
  PROVE  /\ Counted' = Counted /\ Trapped' = Trapped /\ Users' = Users
         /\ \A t \in Tasks : t # k => pc'[t] = pc[t]
<1>1. \A t \in Tasks : t # k => pc'[t] = pc[t]
  BY DEF LTyped, Goto
<1>2. \A c \in Clients : pc'[c] = pc[c]
  BY <1>1, TaskFacts
<1> QED BY <1>1, <1>2 DEF Counted, Trapped, Users

(* The lists of labels, kept folded *)
LEMMA GotoTyped ==
  ASSUME LTyped, NEW t \in Tasks,
         NEW l \in {"out", "o_lock", "o_inc", "o_wake", "o_end", "open", "c_dec", "oops",
                    "none", "test", "lock", "set", "timed", "untimed", "end"},
         Goto(t, l)
  PROVE  /\ pc' \in [Tasks -> {"out", "o_lock", "o_inc", "o_wake", "o_end", "open", "c_dec",
                               "oops", "none", "test", "lock", "set", "timed", "untimed",
                               "end"}]
         /\ pc'[t] = l /\ \A u \in Tasks : u # t => pc'[u] = pc[u]
BY DEF LTyped, Goto

LEMMA LifeStart == LifeInit => LInv
<1> SUFFICES ASSUME LifeInit PROVE LInv
  OBVIOUS
<1>1. LTyped /\ Flags
  BY TaskFacts DEF LifeInit, LTyped, Flags
<1>2. Users = {} /\ Counted = {} /\ Trapped = {}
  BY TaskFacts DEF LifeInit, Users, Counted, Trapped
<1>3. Drift
  BY <1>2, FS_EmptySet, ClientSets DEF Drift, LifeInit
<1>4. Stages
  BY <1>2, TaskFacts DEF LifeInit, Stages, Loading, InService, Unloading
<1>5. NoTrap
  BY TaskFacts DEF LifeInit, NoTrap
<1> QED BY <1>1, <1>3, <1>4, <1>5 DEF LInv

(* my_module_init: only InitLast touches dev_run *)
LEMMA InitKeeps ==
  ASSUME LInv, my_module_init
  PROVE  LInv'
<1> USE DEF LInv
<1>1. CASE RegisterDevice
  <2>1. LTyped' /\ Flags'
    BY <1>1 DEF RegisterDevice, LTyped, Flags
  <2>2. Users' = Users /\ Counted' = Counted /\ Trapped' = Trapped
    BY <1>1 DEF RegisterDevice, Users, Counted, Trapped
  <2>3. Drift'
    BY <1>1, <2>2, DriftKept DEF RegisterDevice
  <2>4. Stages'
    BY <1>1, <2>2 DEF RegisterDevice, Stages, Loading, InService, Unloading
  <2>5. NoTrap'
    BY <1>1 DEF RegisterDevice, NoTrap
  <2> QED BY <2>1, <2>3, <2>4, <2>5
<1>2. CASE InitFields
  <2>1. LTyped' /\ Flags'
    BY <1>2 DEF InitFields, LTyped, Flags
  <2>2. Users' = Users /\ Counted' = Counted /\ Trapped' = Trapped
    BY <1>2 DEF InitFields, Users, Counted, Trapped
  <2>3. Drift'
    BY <1>2, <2>2, DriftKept DEF InitFields
  <2>4. "free" # "zero"
    OBVIOUS
  <2>5. Stages'
    BY <1>2, <2>2, <2>4 DEF InitFields, Stages, Loading, InService, Unloading
  <2>6. NoTrap'
    BY <1>2 DEF InitFields, NoTrap
  <2> QED BY <2>1, <2>3, <2>5, <2>6
<1>3. ASSUME NEW k \in KThreads, NEW here, NEW set, RunThread(k, here, set),
             <<here, set>> \in {<<"run_stat", "set_stat">>, <<"run_realloc", "set_realloc">>}
      PROVE  LInv'
  <2>1. at' = set \/ at' = "failed"
    BY <1>3 DEF RunThread
  <2>2. Users' = Users /\ Counted' = Counted /\ Trapped' = Trapped
    <3>1. CASE Goto(k, "test")
      BY <3>1, KthreadMoves
    <3>2. CASE UNCHANGED pc
      BY <3>2 DEF Users, Counted, Trapped
    <3> QED BY <1>3, <3>1, <3>2 DEF RunThread
  <2>3. LTyped' /\ Flags'
    BY <1>3, TaskFacts DEF RunThread, LTyped, Flags, Goto
  <2>4. Drift'
    BY <1>3, <2>2, DriftKept DEF RunThread
  <2>5. Stages'
    BY <1>3, <2>1, <2>2 DEF RunThread, Stages, Loading, InService, Unloading
  <2>6. NoTrap'
    <3>1. "test" # "oops"
      OBVIOUS
    <3> QED BY <1>3, <3>1, GotoTyped, TaskFacts DEF RunThread, NoTrap
  <2> QED BY <2>3, <2>4, <2>5, <2>6
<1>4. ASSUME NEW k \in KThreads, NEW here, NEW then, SetDesc(k, here, then),
             <<k, here, then>> \in {<<"kt_stat", "set_stat", "run_realloc">>,
                                    <<"kt_realloc", "set_realloc", "last">>}
      PROVE  LInv'
  <2>1. LTyped' /\ Flags'
    BY <1>4 DEF SetDesc, LTyped, Flags
  <2>2. Users' = Users /\ Counted' = Counted /\ Trapped' = Trapped
    BY <1>4 DEF SetDesc, Users, Counted, Trapped
  <2>3. Drift'
    BY <1>4, <2>2, DriftKept DEF SetDesc
  <2>4. Stages'
    BY <1>4, <2>2 DEF SetDesc, Stages, Loading, InService, Unloading, KThreads
  <2>5. NoTrap'
    BY <1>4 DEF SetDesc, NoTrap
  <2> QED BY <2>1, <2>3, <2>4, <2>5
<1>5. CASE InitLast
  <2>1. LTyped' /\ Flags'
    BY <1>5 DEF InitLast, LTyped, Flags
  <2>2. Users' = Users /\ Counted' = Counted /\ Trapped' = Trapped
    BY <1>5 DEF InitLast, Users, Counted, Trapped
  <2>3. ~ early => Counted = {}
    BY <1>5 DEF InitLast, Stages, Loading, Users, Counted
  <2>4. Drift'
    <3>1. Counted \in SUBSET Clients
      BY DEF Counted
    <3>2. Cardinality(Counted) \in 0 .. Cardinality(Clients)
      BY <3>1, ClientSets
    <3>3. dev_run' = Cardinality(Counted) - Cardinality(Counted) /\ early' = early
      BY <1>5, <3>2 DEF InitLast
    <3>4. ~ early => Cardinality(Counted) = 0
      BY <2>3, FS_EmptySet
    <3> QED BY <2>2, <3>1, <3>2, <3>3, <3>4 DEF Drift
  <2>5. Stages'
    BY <1>5, <2>2 DEF InitLast, Stages, Loading, InService, Unloading
  <2>6. NoTrap'
    BY <1>5 DEF InitLast, NoTrap
  <2> QED BY <2>1, <2>4, <2>5, <2>6
<1> QED BY <1>1, <1>2, <1>3, <1>4, <1>5, TaskFacts DEF my_module_init

(* my_module_exit: nobody is in the device from the moment it begins *)
LEMMA ExitKeeps ==
  ASSUME LInv, my_module_exit
  PROVE  LInv'
<1> USE DEF LInv
<1>1. CASE Unload
  <2>1. LTyped' /\ Flags'
    BY <1>1 DEF Unload, LTyped, Flags
  <2>2. Users' = Users /\ Counted' = Counted /\ Trapped' = Trapped
    BY <1>1 DEF Unload, Users, Counted, Trapped
  <2>3. Drift'
    BY <1>1, <2>2, DriftKept DEF Unload
  <2>4. Stages'
    BY <1>1, <2>2 DEF Unload, Stages, Loading, InService, Unloading
  <2>5. NoTrap'
    BY <1>1 DEF Unload, NoTrap
  <2> QED BY <2>1, <2>3, <2>4, <2>5
<1>2. ASSUME NEW k \in KThreads, NEW here, NEW then, StopThread(k, here, then),
             <<here, then>> \in {<<"stop_stat", "join_stat">>,
                                 <<"stop_realloc", "join_realloc">>}
      PROVE  LInv'
  <2>1. LTyped'
    BY <1>2 DEF StopThread, LTyped
  <2>2. Flags'
    BY <1>2 DEF StopThread, Flags
  <2>3. Users' = Users /\ Counted' = Counted /\ Trapped' = Trapped
    BY <1>2 DEF StopThread, Users, Counted, Trapped
  <2>4. Drift'
    BY <1>2, <2>3, DriftKept DEF StopThread
  <2>5. Stages'
    BY <1>2, <2>3 DEF StopThread, Stages, Loading, InService, Unloading
  <2>6. NoTrap'
    BY <1>2 DEF StopThread, NoTrap
  <2> QED BY <2>1, <2>2, <2>4, <2>5, <2>6
<1>3. ASSUME NEW k \in KThreads, NEW here, NEW then, Join(k, here, then),
             <<k, here, then>> \in {<<"kt_stat", "join_stat", "stop_realloc">>,
                                    <<"kt_realloc", "join_realloc", "deregister">>}
      PROVE  LInv'
  <2>1. LTyped' /\ Flags'
    BY <1>3 DEF Join, LTyped, Flags
  <2>2. Users' = Users /\ Counted' = Counted /\ Trapped' = Trapped
    BY <1>3 DEF Join, Users, Counted, Trapped
  <2>3. Drift'
    BY <1>3, <2>2, DriftKept DEF Join
  <2>4. Stages'
    BY <1>3, <2>2 DEF Join, Stages, Loading, InService, Unloading
  <2>5. NoTrap'
    BY <1>3 DEF Join, NoTrap
  <2> QED BY <2>1, <2>3, <2>4, <2>5
<1>4. CASE DeregisterDevice
  <2>1. LTyped' /\ Flags'
    BY <1>4 DEF DeregisterDevice, LTyped, Flags
  <2>2. Users' = Users /\ Counted' = Counted /\ Trapped' = Trapped
    BY <1>4 DEF DeregisterDevice, Users, Counted, Trapped
  <2>3. Drift'
    BY <1>4, <2>2, DriftKept DEF DeregisterDevice
  <2>4. Stages'
    BY <1>4, <2>2 DEF DeregisterDevice, Stages, Loading, InService, Unloading, KThreads
  <2>5. NoTrap'
    BY <1>4 DEF DeregisterDevice, NoTrap
  <2> QED BY <2>1, <2>3, <2>4, <2>5
<1> QED BY <1>1, <1>2, <1>3, <1>4, TaskFacts DEF my_module_exit

(* The loop of a kernel thread: neither users nor dev_run change, and a    *)
(* thread that has ended, or has not been started, does nothing.           *)
LEMMA ThreadKeeps ==
  ASSUME LInv, NEW k \in KThreads, kt_loop(k)
  PROVE  LInv'
<1> USE DEF LInv
<1>1. k \in Tasks /\ k # "zero"
  BY TaskFacts DEF KThreads
<1>2. at' = at /\ reg' = reg /\ desc' = desc /\ dev_run' = dev_run
      /\ early' = early /\ window' = window /\ stop' = stop
  BY DEF kt_loop, KtTest, KtLock, KtSet, KtTimeout, KtResume
<1>3. pc[k] \notin {"none", "end"}
  BY DEF kt_loop, KtTest, KtLock, KtSet, KtTimeout, KtResume
<1>4. UNCHANGED pc \/ \E l \in {"test", "lock", "set", "timed", "untimed", "end"} : Goto(k, l)
  BY DEF kt_loop, KtTest, KtLock, KtSet, KtTimeout, KtResume
<1>5. mutex' \in {mutex, k, "free"} /\ intr' \subseteq intr \cup {k} /\ (mutex' = "zero" => mutex = "zero")
  BY <1>1 DEF kt_loop, KtTest, KtLock, KtSet, KtTimeout, KtResume
<1>6. /\ Users' = Users /\ Counted' = Counted /\ Trapped' = Trapped
      /\ \A t \in Tasks : t # k => pc'[t] = pc[t]
      /\ pc'[k] # pc[k] => pc'[k] # "oops"
      /\ LTyped'
  <2>1. CASE UNCHANGED pc
    BY <1>1, <1>2, <1>5, <2>1 DEF Users, Counted, Trapped, LTyped
  <2>2. CASE \E l \in {"test", "lock", "set", "timed", "untimed", "end"} : Goto(k, l)
    <3>1. PICK l \in {"test", "lock", "set", "timed", "untimed", "end"} : Goto(k, l)
      BY <2>2
    <3>2. pc'[k] = l
      BY <1>1, <3>1, GotoTyped
    <3>3. LTyped'
      BY <1>1, <1>2, <1>5, <3>1 DEF LTyped, Goto
    <3> QED BY <3>1, <3>2, <3>3, KthreadMoves
  <2> QED BY <1>4, <2>1, <2>2
<1>7. Flags' /\ Drift'
  BY <1>2, <1>6, DriftKept DEF Flags
<1>8. NoTrap'
  BY <1>1, <1>2, <1>6 DEF NoTrap
<1>9. Stages'
  BY <1>2, <1>3, <1>5, <1>6, TaskFacts DEF Stages, Loading, InService, Unloading
<1> QED BY <1>6, <1>7, <1>8, <1>9

(* Where a client that moves leaves the other tasks and the stages: the    *)
(* users may grow only in an open call, which the kernel refuses while the *)
(* module is unloaded.                                                     *)
LEMMA ClientStages ==
  ASSUME LInv, NEW c \in Clients,
         UNCHANGED <<at, reg, desc>>, early => early',
         mutex' = "zero" => mutex = "zero",
         \A t \in Tasks : t # c => pc'[t] = pc[t],
         Users' \subseteq Users \/ (early' /\ Loading) \/ at \in {"loaded", "failed"}
  PROVE  Stages'
<1>1. \A k \in KThreads : pc'[k] = pc[k]
  BY TaskFacts
<1>2. Users' \subseteq Users \/ (early' /\ Loading /\ at \notin {"out", "gone"} /\ ~ Unloading)
        \/ at \in {"loaded", "failed"}
  BY DEF Loading, Unloading
<1> QED BY <1>1, <1>2, TaskFacts DEF LInv, Stages, Loading, InService, Unloading

(* my_open before it counts *)
LEMMA OpenCallKeeps ==
  ASSUME LInv, NEW c \in Clients, OpenCall(c)
  PROVE  LInv'
<1> USE DEF LInv
<1>1. c \in Tasks
  BY TaskFacts
<1>2. pc'[c] = "o_lock" /\ \A t \in Tasks : t # c => pc'[t] = pc[t]
  BY <1>1, GotoTyped DEF OpenCall
<1>3. Counted' = Counted /\ Trapped' = Trapped
  BY <1>2, TaskFacts DEF Counted, Trapped, OpenCall
<1>4. LTyped'
  BY <1>1, GotoTyped DEF OpenCall, LTyped
<1>5. Flags'
  BY DEF OpenCall, Flags
<1>6. early => early'
  BY DEF OpenCall
<1>7. Drift'
  BY <1>3, <1>6, DriftKept DEF OpenCall
<1>8. at = "loaded" \/ (early' /\ Loading)
  BY DEF OpenCall, Unloading, Freed, LTyped, Loading, Stages
<1>9. Stages'
  BY <1>2, <1>6, <1>8, ClientStages DEF OpenCall
<1>10. NoTrap'
  BY <1>1, <1>2, <1>6 DEF NoTrap, OpenCall
<1> QED BY <1>4, <1>5, <1>7, <1>9, <1>10

(* my_open and my_close *)
LEMMA ClientKeeps ==
  ASSUME LInv, NEW c \in Clients, CloseLock(c) \/ ClientStep(c)
  PROVE  LInv'
<1> USE DEF LInv
<1>1. c \in Tasks
  BY TaskFacts
<1>a. c \in Users
  BY DEF Users, CloseLock, ClientStep, OpenLock, OpenInc, OpenWake, OpenEnd, CloseDec
<1>b. at' = at /\ reg' = reg /\ desc' = desc /\ early' = early /\ window' = window /\ stop' = stop
  BY DEF CloseLock, ClientStep, OpenLock, OpenInc, OpenWake, OpenEnd, CloseDec
<1>c. mutex' \in {mutex, c, "free"} /\ intr' \subseteq intr
  BY DEF CloseLock, ClientStep, OpenLock, OpenInc, OpenWake, OpenEnd, CloseDec
<1>d. \E l \in {"out", "o_inc", "o_wake", "o_end", "open", "c_dec", "oops"} : Goto(c, l)
  BY DEF CloseLock, ClientStep, OpenLock, OpenInc, OpenWake, OpenEnd, CloseDec
<1>e. mutex' = "zero" => mutex = "zero"
  BY <1>c, TaskFacts
<1>2. PICK l \in {"out", "o_inc", "o_wake", "o_end", "open", "c_dec", "oops"} : Goto(c, l)
  BY <1>d
<1>3. pc'[c] = l /\ \A t \in Tasks : t # c => pc'[t] = pc[t]
  BY <1>1, <1>2, GotoTyped
<1>4. Users' \subseteq Users
  BY <1>a, <1>3, TaskFacts DEF Users
<1>5. LTyped'
  BY <1>1, <1>2, <1>b, <1>c DEF LTyped, Goto
<1>6. Flags'
  BY <1>b DEF Flags
<1>7. Stages'
  BY <1>3, <1>4, <1>b, <1>e, ClientStages
<1>8. NoTrap'
  <2> SUFFICES ASSUME ~ early, at # "failed" PROVE \A t \in Tasks : pc'[t] # "oops"
    BY <1>b DEF NoTrap
  <2>1. InService
    BY <1>a DEF Stages, Loading, InService, Unloading, LTyped
  <2>2. desc = KThreads /\ mutex # "zero"
    BY <2>1 DEF Stages, InService, Unloading
  <2>3. pc'[c] # "oops"
    BY <1>1, <2>2, GotoTyped
    DEF CloseLock, ClientStep, OpenLock, OpenInc, OpenWake, OpenEnd, CloseDec, Goto, LTyped
  <2> QED BY <1>3, <2>3 DEF NoTrap
<1>9. Drift'
  <2>1. CASE OpenInc(c)
    <3>1. l \in {"o_wake", "o_end"} /\ c \notin Counted \cup Trapped /\ dev_run' = dev_run + 1
      BY <1>1, <1>3, <2>1 DEF OpenInc, Counted, Trapped, Goto, LTyped
    <3>2. Counted' = Counted \cup {c} /\ Trapped' = Trapped
      BY <1>3, <3>1, TaskFacts DEF Counted, Trapped
    <3>3. PICK S \in SUBSET Clients, b \in 0 .. Cardinality(Clients) :
            /\ Counted \subseteq S /\ S \subseteq Counted \cup Trapped
            /\ dev_run = Cardinality(S) - b
            /\ ~ early => b = 0
      BY DEF Drift
    <3>4. Cardinality(S \cup {c}) = Cardinality(S) + 1
      BY <3>1, <3>3, ClientSets, FS_AddElement
    <3>5. dev_run' = Cardinality(S \cup {c}) - b
      BY <3>1, <3>3, <3>4, ClientSets
    <3>6. S \cup {c} \in SUBSET Clients
      OBVIOUS
    <3> QED BY <1>b, <3>2, <3>3, <3>5, <3>6 DEF Drift
  <2>2. CASE CloseDec(c)
    <3>1. l = "out" /\ c \in Counted /\ c \notin Trapped /\ dev_run' = dev_run - 1
      BY <1>1, <1>3, <2>2 DEF CloseDec, Counted, Trapped, Goto, LTyped
    <3>2. Counted' = Counted \ {c} /\ Trapped' = Trapped
      BY <1>3, <3>1, TaskFacts DEF Counted, Trapped
    <3>3. PICK S \in SUBSET Clients, b \in 0 .. Cardinality(Clients) :
            /\ Counted \subseteq S /\ S \subseteq Counted \cup Trapped
            /\ dev_run = Cardinality(S) - b
            /\ ~ early => b = 0
      BY DEF Drift
    <3>4. Cardinality(S \ {c}) = Cardinality(S) - 1
      BY <3>1, <3>3, ClientSets, FS_RemoveElement
    <3>5. dev_run' = Cardinality(S \ {c}) - b
      BY <3>1, <3>3, <3>4, ClientSets
    <3>6. S \ {c} \in SUBSET Clients
      OBVIOUS
    <3> QED BY <1>b, <3>1, <3>2, <3>3, <3>5, <3>6 DEF Drift
  <2>3. CASE ~ OpenInc(c) /\ ~ CloseDec(c)
    <3>1. dev_run' = dev_run /\ pc[c] # "oops"
      BY <2>3 DEF CloseLock, ClientStep, OpenLock, OpenWake, OpenEnd
    <3>2. \/ pc[c] = "o_lock" /\ l \in {"o_inc", "oops"}
          \/ pc[c] \in {"o_wake", "o_end", "open"} /\ l \in {"o_end", "open", "c_dec", "oops"}
      BY <1>1, <1>3, <2>3
      DEF CloseLock, ClientStep, OpenLock, OpenWake, OpenEnd, Goto, LTyped
    <3>3. /\ Counted' \subseteq Counted /\ Counted \subseteq Counted' \cup Trapped'
          /\ Trapped \subseteq Trapped'
      BY <1>3, <3>1, <3>2, TaskFacts DEF Counted, Trapped
    <3> QED BY <1>b, <3>1, <3>3, DriftKept
  <2> QED BY <2>1, <2>2, <2>3
<1> QED BY <1>5, <1>6, <1>7, <1>8, <1>9

(* A trap after the memory of the module is gone: only after a failed load *)
LEMMA CrashKeeps ==
  ASSUME LInv, NEW t \in Tasks, Crash(t)
  PROVE  LInv'
<1> USE DEF LInv
<1>1. at = "failed"
  <2>1. SUFFICES ASSUME at = "gone" PROVE FALSE
    BY DEF Crash, Freed
  <2>2. \A c \in Clients : pc[c] = "out"
    BY <2>1 DEF Stages, Users
  <2>3. ~ reg /\ \A k \in KThreads : pc[k] \in {"none", "end"}
    BY <2>1 DEF Stages
  <2> QED BY <2>2, <2>3 DEF Crash, Tasks
<1>2. pc'[t] = "oops" /\ \A u \in Tasks : u # t => pc'[u] = pc[u]
  BY GotoTyped DEF Crash
<1>3. LTyped' /\ Flags'
  BY GotoTyped DEF Crash, LTyped, Flags
<1>4. /\ Counted' \subseteq Counted /\ Counted \subseteq Counted' \cup Trapped'
      /\ Trapped \subseteq Trapped'
  BY <1>2, TaskFacts DEF Counted, Trapped
<1>5. Drift'
  BY <1>4, DriftKept DEF Crash
<1>6. Stages'
  BY <1>1 DEF Crash, Stages, Loading, InService, Unloading
<1>7. NoTrap'
  BY <1>1 DEF Crash, NoTrap
<1> QED BY <1>3, <1>5, <1>6, <1>7

LEMMA LifeStep == LInv /\ [LifeNext]_lvars => LInv'
<1>1. ASSUME LInv, UNCHANGED lvars PROVE LInv'
  BY <1>1 DEF lvars, LInv, LTyped, Flags, Drift, Counted, Trapped, Stages, Loading, InService,
              Unloading, Users, NoTrap
<1>2. ASSUME LInv, LifeNext PROVE LInv'
  BY <1>2, InitKeeps, ExitKeeps, OpenCallKeeps, ClientKeeps, ThreadKeeps, CrashKeeps
  DEF LifeNext
<1> QED BY <1>1, <1>2

LEMMA LifeInvariance == LifeSpec => []LInv
BY LifeStart, LifeStep, PTL DEF LifeSpec

LEMMA DriftBound ==
  ASSUME Drift
  PROVE  dev_run \in (- Cardinality(Clients)) .. Cardinality(Clients)
BY ClientSets DEF Drift

(* Whatever the order of opens, traps and my_module_init's dev_run = 0,    *)
(* dev_run stays within the number of processes.                           *)
THEOREM LifeTyped == LifeSpec => []LifeTypeOK
<1>1. LInv => LifeTypeOK
  BY DriftBound DEF LInv, LTyped, Flags, LifeTypeOK
<1> QED BY <1>1, LifeInvariance, PTL

(* A device that nobody opens before my_module_init is through never makes *)
(* a task trap, and dev_run counts its users exactly.                      *)
THEOREM OrderlySafe == LifeSpec => []OrderlyUse
<1>1. LInv => OrderlyUse
  <2> SUFFICES ASSUME LInv, ~ early, at # "failed" PROVE OrderlyUse
    BY DEF OrderlyUse
  <2>1. \A t \in Tasks : pc[t] # "oops"
    BY DEF LInv, NoTrap
  <2>2. Trapped = {}
    BY <2>1, TaskFacts DEF Trapped
  <2>3. dev_run = Cardinality(Counted) - 0
    BY <2>2 DEF LInv, Drift
  <2>4. Counted \in SUBSET Clients
    BY DEF Counted
  <2> QED BY <2>1, <2>3, <2>4, ClientSets DEF OrderlyUse
<1> QED BY <1>1, LifeInvariance, PTL

(* After my_module_exit both kernel threads have ended, nobody is in the   *)
(* device and it is not registered.                                        *)
THEOREM NothingLeft == LifeSpec => []NothingOutlives
<1>1. LInv => NothingOutlives
  BY DEF LInv, Stages, Users, NothingOutlives
<1> QED BY <1>1, LifeInvariance, PTL
-----------------------------------------------------------------------------
(* kthread_stop *)

(* The kernel threads run from kthread_run on, and are told to stop only   *)
(* by my_module_exit.                                                      *)
Running ==
  /\ \A k \in KThreads : pc[k] \in {"none", "test", "lock", "set", "timed", "untimed", "end", "oops"}
  /\ at \in {"set_stat", "run_realloc", "set_realloc", "last"} \/ InService =>
       pc["kt_stat"] \notin {"none", "oops"}
  /\ at \in {"set_realloc", "last"} \/ InService => pc["kt_realloc"] \notin {"none", "oops"}
  /\ stop # {} => Unloading \/ at = "gone"

LEMMA RunningStart == LifeInit => Running /\ StopReaches
BY TaskFacts DEF LifeInit, Running, StopReaches, InService, Unloading

(* The loop of a kernel thread leaves the other one alone, and stays       *)
(* within its labels.                                                      *)
LEMMA LoopMoves ==
  ASSUME LTyped, NEW k \in KThreads, kt_loop(k)
  PROVE  /\ UNCHANGED <<at, stop, window>>
         /\ pc'[k] \in {"test", "lock", "set", "timed", "untimed", "end"}
         /\ pc[k] \in {"test", "lock", "set", "timed", "untimed"}
         /\ \A j \in KThreads : j # k => pc'[j] = pc[j] /\ (j \in intr' => j \in intr)
<1>1. k \in Tasks
  BY TaskFacts
<1> QED
  BY <1>1, TaskFacts, Zenon DEF kt_loop, KtTest, KtLock, KtSet, KtTimeout, KtResume, Goto, LTyped

(* A thread that was told to stop goes from schedule to                    *)
(* kthread_should_stop and from there out of its loop.                     *)
LEMMA LoopStops ==
  ASSUME LTyped, StopReaches, NEW k \in KThreads, kt_loop(k)
  PROVE  StopReaches'
<1>1. ASSUME k \in stop, ~ window
      PROVE  k \notin intr' /\ pc'[k] \in {"timed", "untimed", "test", "end"}
  <2>1. k \notin intr /\ pc[k] \in {"timed", "untimed", "test", "end"} /\ k \in Tasks
    BY <1>1, TaskFacts DEF StopReaches
  <2>2. KtTest(k) \/ KtResume(k)
    BY <2>1, Zenon DEF kt_loop, KtLock, KtSet, KtTimeout
  <2>3. intr' = intr /\ (pc'[k] = "end" \/ pc'[k] = "test")
    BY <1>1, <2>1, <2>2, Zenon DEF KtTest, KtResume, Goto, LTyped
  <2> QED BY <2>1, <2>3
<1>2. stop \subseteq KThreads
  BY DEF LTyped
<1>3. ASSUME NEW j \in stop', ~ window'
      PROVE  j \notin intr' /\ pc'[j] \in {"timed", "untimed", "test", "end"}
  <2>1. j \in stop /\ j \in KThreads /\ ~ window
    BY <1>2, <1>3, LoopMoves, Zenon
  <2>2. CASE j = k
    BY <1>1, <2>1, <2>2, Zenon
  <2>3. CASE j # k
    BY <2>1, <2>3, LoopMoves DEF StopReaches
  <2> QED BY <2>2, <2>3
<1> QED BY <1>3 DEF StopReaches

(* A step of a client, or of insmod and rmmod but for kthread_stop, moves  *)
(* no thread that was told to stop and puts nobody to sleep.               *)
LEMMA OthersStop ==
  ASSUME LTyped, StopReaches, UNCHANGED <<stop, window>>, intr' \subseteq intr,
         \A k \in stop : pc'[k] = pc[k]
  PROVE  StopReaches'
BY DEF StopReaches

LEMMA RunningStep ==
  ASSUME LInv, Running, StopReaches, LifeNext
  PROVE  Running' /\ StopReaches'
<1> USE TaskFacts
<1>0. LTyped /\ Stages
  BY DEF LInv
<1>1. ASSUME RegisterDevice \/ InitFields \/ InitLast \/ Unload \/ DeregisterDevice
      PROVE  Running' /\ StopReaches'
  <2>1. UNCHANGED <<pc, stop, window, intr>>
    BY <1>1 DEF RegisterDevice, InitFields, InitLast, Unload, DeregisterDevice
  <2>2. Running'
    BY <1>1, <2>1
    DEF RegisterDevice, InitFields, InitLast, Unload, DeregisterDevice, Running, InService, Unloading
  <2> QED BY <1>0, <2>1, <2>2, OthersStop
<1>2. ASSUME NEW k \in KThreads, NEW here, NEW set, RunThread(k, here, set),
             <<k, here, set>> \in {<<"kt_stat", "run_stat", "set_stat">>,
                                   <<"kt_realloc", "run_realloc", "set_realloc">>}
      PROVE  Running' /\ StopReaches'
  <2>1. /\ UNCHANGED <<stop, window, intr>> /\ stop = {}
        /\ \A j \in KThreads : pc'[j] = pc[j] \/ (j = k /\ pc'[j] = "test")
        /\ at' = set => pc'[k] = "test"
    BY <1>0, <1>2 DEF RunThread, Running, Unloading, Goto, LTyped
  <2>2. Running'
    BY <1>2, <2>1 DEF RunThread, Running, InService, Unloading
  <2> QED BY <2>1, <2>2 DEF StopReaches
<1>3. ASSUME NEW k \in KThreads, NEW here, NEW then, SetDesc(k, here, then),
             <<here, then>> \in {<<"set_stat", "run_realloc">>, <<"set_realloc", "last">>}
      PROVE  Running' /\ StopReaches'
  <2>1. UNCHANGED <<pc, stop, window, intr>>
    BY <1>3 DEF SetDesc
  <2>2. Running'
    BY <1>3, <2>1 DEF SetDesc, Running, InService, Unloading
  <2> QED BY <1>0, <2>1, <2>2, OthersStop
<1>4. ASSUME NEW k \in KThreads, NEW here, NEW then, Join(k, here, then),
             <<here, then>> \in {<<"join_stat", "stop_realloc">>, <<"join_realloc", "deregister">>}
      PROVE  Running' /\ StopReaches'
  <2>1. UNCHANGED <<pc, stop, window, intr>>
    BY <1>4 DEF Join
  <2>2. Running'
    BY <1>4, <2>1 DEF Join, Running, InService, Unloading
  <2> QED BY <1>0, <2>1, <2>2, OthersStop
<1>5. ASSUME NEW k \in KThreads, NEW here, NEW then, StopThread(k, here, then),
             <<here, then>> \in {<<"stop_stat", "join_stat">>, <<"stop_realloc", "join_realloc">>}
      PROVE  Running' /\ StopReaches'
  <2>1. /\ pc' = pc /\ stop' = stop \cup {k} /\ intr' = intr \ {k}
        /\ window' = (window \/ pc[k] \in {"lock", "set"})
        /\ InService /\ InService' /\ Unloading'
    BY <1>5 DEF StopThread, InService, Unloading
  <2>2. Running'
    BY <1>5, <2>1 DEF StopThread, Running, Unloading
  <2>3. pc[k] \in {"test", "lock", "set", "timed", "untimed", "end"}
    BY <2>1 DEF Running, KThreads
  <2>4. StopReaches'
    BY <2>1, <2>3, Zenon DEF StopReaches
  <2> QED BY <2>2, <2>4
<1>6. ASSUME NEW c \in Clients, OpenCall(c) \/ CloseLock(c) \/ ClientStep(c)
      PROVE  Running' /\ StopReaches'
  <2>1. /\ UNCHANGED <<at, stop, window>> /\ intr' \subseteq intr
        /\ \A k \in KThreads : pc'[k] = pc[k]
    BY <1>0, <1>6
    DEF OpenCall, CloseLock, ClientStep, OpenLock, OpenInc, OpenWake, OpenEnd, CloseDec, Goto, LTyped
  <2>2. Running'
    BY <2>1, Zenon DEF Running, InService, Unloading
  <2>3. \A k \in stop : pc'[k] = pc[k]
    BY <1>0, <2>1 DEF LTyped
  <2> QED BY <1>0, <2>1, <2>2, <2>3, OthersStop
<1>7. ASSUME NEW k \in KThreads, kt_loop(k) PROVE Running' /\ StopReaches'
  <2>1. Running'
    BY <1>0, <1>7, LoopMoves, Zenon DEF Running, InService, Unloading
  <2> QED BY <1>0, <1>7, <2>1, LoopStops
<1>8. ASSUME NEW t \in Tasks, Crash(t) PROVE Running' /\ StopReaches'
  <2>1. at = "failed"
    BY <1>0, <1>8 DEF Crash, Freed, Stages, Users, Tasks
  <2>2. /\ UNCHANGED <<at, stop, window>> /\ stop = {}
        /\ \A k \in KThreads : pc'[k] \in {pc[k], "oops"}
    BY <1>0, <1>8, <2>1 DEF Crash, Running, Unloading, Goto, LTyped
  <2>3. Running'
    BY <2>1, <2>2 DEF Running, InService, Unloading
  <2> QED BY <2>2, <2>3 DEF StopReaches
<1> QED
  BY <1>1, <1>2, <1>3, <1>4, <1>5, <1>6, <1>7, <1>8 DEF LifeNext, my_module_init, my_module_exit

(* Whatever the processes have done to the device before, and wherever     *)
(* the two kernel threads are, kthread_stop fails to end a thread only     *)
(* when it comes between kthread_should_stop and set_current_state.        *)
THEOREM StopsThreads == LifeSpec => []StopReaches
<1>1. LInv /\ Running /\ StopReaches /\ [LifeNext]_lvars => Running' /\ StopReaches'
  <2> SUFFICES ASSUME LInv, Running, StopReaches, UNCHANGED lvars PROVE Running' /\ StopReaches'
    BY RunningStep
  <2> QED BY DEF lvars, Running, StopReaches, InService, Unloading
<1> QED BY <1>1, RunningStart, LifeStart, LifeStep, PTL DEF LifeSpec
=============================================================================
