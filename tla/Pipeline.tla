------------------------------ MODULE Pipeline ------------------------------
(***************************************************************************)
(* What the programs Writer and Reader have in common: threads that fill   *)
(* rbuffer, elaborate_data threads that move its strings to ebuffer,       *)
(* threads that empty ebuffer, a main thread that joins them kind by kind, *)
(* and the handler of SIGINT.  Writer and Reader add the first kind, the   *)
(* last kind and the end of main.                                          *)
(*                                                                         *)
(* What a thread does between pthread_mutex_lock and pthread_mutex_unlock  *)
(* without blocking is one step, because nobody looks at a buffer without  *)
(* its mutex; a mutex has an owner where one is held across a step: main's *)
(* release_t, the handler, and device calls.                               *)
(*                                                                         *)
(* SIGINT goes to the main thread, which the kernel prefers and which does *)
(* not block it, and interrupts it between any two of its steps.  The      *)
(* behaviours start when main has installed the handler.                   *)
(***************************************************************************)
EXTENDS Integers, Sequences, FiniteSets

CONSTANTS
  Sources,   (* threads that fill rbuffer: at most MAX_CT or MAX_RT        *)
  Elabs,     (* elaborate_data threads: at most MAX_ET                     *)
  Sinks,     (* threads that empty ebuffer: at most MAX_WT or MAX_PT       *)
  SourceStep, ElabStep, SinkStep,  (* S_CT or S_RT, S_ET, S_WT or S_PT     *)
  Main,      (* the main thread                                            *)
  None,      (* no thread, no string                                       *)
  Terminator,  (* the string "00"                                          *)
  Shift,     (* what the elaboration adds to the letters of a string       *)
  Args,      (* values of the program's argument                           *)
  Sigint,    (* can SIGINT arrive?                                         *)
  MaxItems   (* bound: strings the sources bring in                        *)

Workers == Sources \cup Elabs \cup Sinks

(* A string: its identity, and how far its letters are from capital ones. *)
Item == [id : 1 .. MaxItems, shift : {0, 32}]

ASSUME PipelineAssumption ==
  /\ IsFiniteSet(Workers)
  /\ Sources # {} /\ Elabs # {} /\ Sinks # {}
  /\ Sources \cap Elabs = {} /\ Sources \cap Sinks = {} /\ Elabs \cap Sinks = {}
  /\ Main \notin Workers
  /\ None \notin Workers \cup {Main} \cup Item
  /\ Terminator \notin Item \cup {None}
  /\ Shift \in {32, -32}
  /\ {SourceStep, ElabStep, SinkStep} \subseteq Nat \ {0}
  /\ Args \subseteq Int /\ MaxItems \in Nat
  /\ Sigint \in BOOLEAN

VARIABLES
  pc,        (* where each thread is                                       *)
  rmutex, emutex,      (* the thread that holds the mutex, or None         *)
  rcv, ecv,            (* threads waiting on the condition variable        *)
  rbuffer, rdone,      (* rbuffer: its strings, and done                   *)
  ebuffer, edone,      (* ebuffer                                          *)
  arg,       (* the program's argument                                     *)
  loop, todo,          (* write_loop (read_loop), todo                     *)
  item,      (* the string each worker carries                             *)
  control,   (* SIGINTs caught, up to 2                                    *)
  hpc,       (* where catcher_SIGINT is; "no" when it does not run         *)
  dropped    (* strings the handler threw away                             *)

rvars == <<rmutex, rcv, rbuffer, rdone, loop, todo>>
evars == <<emutex, ecv, ebuffer, edone>>
hvars == <<arg, control, hpc, dropped>>
pvars == <<pc, rvars, evars, item, hvars>>

Goto(t, label) == pc' = [pc EXCEPT ![t] = label]

(* pthread_cond_signal wakes one waiter, if there is one, to `label'; the  *)
(* thread that signals goes on at `mine'.                                  *)
Signal(cv, label, t, mine) ==
  \/ /\ cv = {}
     /\ cv' = cv
     /\ Goto(t, mine)
  \/ \E u \in cv :
       /\ cv' = cv \ {u}
       /\ pc' = [pc EXCEPT ![u] = label, ![t] = mine]

(* pthread_cond_broadcast wakes them all. *)
Broadcast(cv, label, t, mine) ==
  /\ cv' = {}
  /\ pc' = [u \in DOMAIN pc |-> IF u \in cv THEN label ELSE IF u = t THEN mine ELSE pc[u]]

-----------------------------------------------------------------------------
(* elaborate_data *)

to_case(s) == [s EXCEPT !.shift = s.shift + Shift]

ElabWait(t) ==
  /\ pc[t] = "e_lock" /\ rmutex = None
  /\ rbuffer = <<>> /\ ~ rdone
  /\ rcv' = rcv \cup {t}
  /\ Goto(t, "e_wait")
  /\ UNCHANGED <<rmutex, rbuffer, rdone, loop, todo, evars, item, hvars>>

ElabStop(t) ==
  /\ pc[t] = "e_lock" /\ rmutex = None
  /\ rbuffer = <<>> /\ rdone
  /\ Goto(t, "end")
  /\ UNCHANGED <<rvars, evars, item, hvars>>

(* Slip: head is not advanced. *)
ElabTake_Peek(t) ==
  /\ pc[t] = "e_lock" /\ rmutex = None
  /\ rbuffer # <<>>
  /\ item' = [item EXCEPT ![t] = Head(rbuffer)]
  /\ Goto(t, "e_put")
  /\ UNCHANGED <<rvars, evars, hvars>>

ElabTake(t) ==
  /\ pc[t] = "e_lock" /\ rmutex = None
  /\ rbuffer # <<>>
  /\ item' = [item EXCEPT ![t] = Head(rbuffer)]
  /\ rbuffer' = Tail(rbuffer)
  /\ Goto(t, "e_put")
  /\ UNCHANGED <<rmutex, rcv, rdone, loop, todo, evars, hvars>>

(* Slip: the thread that waits for the string is not woken. *)
ElabPut_NoSignal(t) ==
  /\ pc[t] = "e_put" /\ emutex = None
  /\ ebuffer' = Append(ebuffer, to_case(item[t]))
  /\ Goto(t, "e_lock")
  /\ item' = [item EXCEPT ![t] = None]
  /\ UNCHANGED <<rvars, emutex, ecv, edone, hvars>>

(* The string is converted outside the mutexes, then handed on. *)
ElabPut(t) ==
  /\ pc[t] = "e_put" /\ emutex = None
  /\ ebuffer' = Append(ebuffer, to_case(item[t]))
  /\ Signal(ecv, "s_lock", t, "e_lock")
  /\ item' = [item EXCEPT ![t] = None]
  /\ UNCHANGED <<rvars, emutex, edone, hvars>>

(* pthread_cond_wait may return without a reason. *)
ElabSpurious(t) ==
  /\ t \in rcv
  /\ rcv' = rcv \ {t}
  /\ Goto(t, "e_lock")
  /\ UNCHANGED <<rmutex, rbuffer, rdone, loop, todo, evars, item, hvars>>

elaborate_data(t) ==
  ElabWait(t) \/ ElabStop(t) \/ ElabTake(t) \/ ElabPut(t) \/ ElabSpurious(t)

-----------------------------------------------------------------------------
(* The threads that empty ebuffer, up to what they do with a string. *)

SinkWait(t) ==
  /\ pc[t] = "s_lock" /\ emutex = None
  /\ ebuffer = <<>> /\ ~ edone
  /\ ecv' = ecv \cup {t}
  /\ Goto(t, "s_wait")
  /\ UNCHANGED <<rvars, emutex, ebuffer, edone, item, hvars>>

SinkStop(t) ==
  /\ pc[t] = "s_lock" /\ emutex = None
  /\ ebuffer = <<>> /\ edone
  /\ Goto(t, "end")
  /\ UNCHANGED <<rvars, evars, item, hvars>>

(* The mutex stays locked. *)
SinkTake(t) ==
  /\ pc[t] = "s_lock" /\ emutex = None
  /\ ebuffer # <<>>
  /\ emutex' = t
  /\ item' = [item EXCEPT ![t] = Head(ebuffer)]
  /\ ebuffer' = Tail(ebuffer)
  /\ Goto(t, "s_out")
  /\ UNCHANGED <<rvars, ecv, edone, hvars>>

SinkSpurious(t) ==
  /\ t \in ecv
  /\ ecv' = ecv \ {t}
  /\ Goto(t, "s_lock")
  /\ UNCHANGED <<rvars, emutex, ebuffer, edone, item, hvars>>

-----------------------------------------------------------------------------
(* main: it chooses how many threads of each kind to create, creates them, *)
(* and calls wait_for and release_t, twice.  It runs only while the        *)
(* handler does not.                                                       *)

MainAt(label) == pc[Main] = label /\ hpc = "no"

(* todo / step in C rounds towards zero *)
Quotient(n, step) == IF n >= 0 THEN n \div step ELSE - ((- n) \div step)

(* The threads of a kind that main creates; none if the number it computes *)
(* is not positive.                                                        *)
Chosen(kind, step) ==
  LET n == IF loop \/ Quotient(todo, step) + 1 > Cardinality(kind)
           THEN Cardinality(kind) ELSE Quotient(todo, step) + 1
  IN  CHOOSE S \in SUBSET kind : Cardinality(S) = IF n > 0 THEN n ELSE 0

MainChoose ==
  /\ MainAt("setup")
  /\ LET chosen == Chosen(Sources, SourceStep) \cup Chosen(Elabs, ElabStep)
                     \cup Chosen(Sinks, SinkStep)
     IN  pc' = [t \in DOMAIN pc |-> IF t = Main THEN "create"
                                    ELSE IF t \in chosen THEN "new" ELSE "end"]
  /\ UNCHANGED <<rvars, evars, item, hvars>>

(* wbuf_init, also on what an early SIGINT has left, and pthread_create *)
MainCreate ==
  /\ MainAt("create")
  /\ rbuffer' = <<>> /\ rdone' = FALSE
  /\ ebuffer' = <<>> /\ edone' = FALSE
  /\ pc' = [t \in DOMAIN pc |->
              IF t = Main THEN "join_c"
              ELSE IF pc[t] = "end" THEN "end"
              ELSE IF t \in Sources THEN "c_lock"
              ELSE IF t \in Elabs THEN "e_lock" ELSE "s_lock"]
  /\ UNCHANGED <<rmutex, rcv, loop, todo, emutex, ecv, item, hvars>>

start == MainChoose \/ MainCreate

(* wait_for *)
MainJoin(from, kind, to) ==
  /\ MainAt(from)
  /\ \A t \in kind : pc[t] = "end"
  /\ Goto(Main, to)
  /\ UNCHANGED <<rvars, evars, item, hvars>>

ReleaseRLock ==
  /\ MainAt("rel_r") /\ rmutex = None
  /\ rmutex' = Main
  /\ Goto(Main, "rel_r_set")
  /\ UNCHANGED <<rcv, rbuffer, rdone, loop, todo, evars, item, hvars>>

(* Slip: pthread_cond_signal for pthread_cond_broadcast. *)
ReleaseRSet_Signal ==
  /\ MainAt("rel_r_set")
  /\ rdone' = TRUE
  /\ Signal(rcv, "e_lock", Main, "rel_r_end")
  /\ UNCHANGED <<rmutex, rbuffer, loop, todo, evars, item, hvars>>

ReleaseRSet ==
  /\ MainAt("rel_r_set")
  /\ rdone' = TRUE
  /\ Broadcast(rcv, "e_lock", Main, "rel_r_end")
  /\ UNCHANGED <<rmutex, rbuffer, loop, todo, evars, item, hvars>>

ReleaseREnd ==
  /\ MainAt("rel_r_end")
  /\ rmutex' = None
  /\ Goto(Main, "join_e")
  /\ UNCHANGED <<rcv, rbuffer, rdone, loop, todo, evars, item, hvars>>

ReleaseELock ==
  /\ MainAt("rel_e") /\ emutex = None
  /\ emutex' = Main
  /\ Goto(Main, "rel_e_set")
  /\ UNCHANGED <<rvars, ecv, ebuffer, edone, item, hvars>>

ReleaseESet ==
  /\ MainAt("rel_e_set")
  /\ edone' = TRUE
  /\ Broadcast(ecv, "s_lock", Main, "rel_e_end")
  /\ UNCHANGED <<rvars, emutex, ebuffer, item, hvars>>

ReleaseEEnd ==
  /\ MainAt("rel_e_end")
  /\ emutex' = None
  /\ Goto(Main, "join_s")
  /\ UNCHANGED <<rvars, ecv, ebuffer, edone, item, hvars>>

release_t ==
  \/ ReleaseRLock \/ ReleaseRSet \/ ReleaseREnd
  \/ ReleaseELock \/ ReleaseESet \/ ReleaseEEnd

(* Slip: main does not wait for the elaborate_data threads. *)
wait_for_NoElabs ==
  \/ MainJoin("join_c", Sources, "rel_r")
  \/ MainJoin("join_e", {}, "rel_e")
  \/ MainJoin("join_s", Sinks, "finish")

wait_for ==
  \/ MainJoin("join_c", Sources, "rel_r")
  \/ MainJoin("join_e", Elabs, "rel_e")
  \/ MainJoin("join_s", Sinks, "finish")

-----------------------------------------------------------------------------
(* catcher_SIGINT, on top of whatever main does.  Only the first SIGINT    *)
(* has an effect.                                                          *)

Caught ==
  /\ Sigint /\ hpc = "no" /\ pc[Main] # "exit"
  /\ control < 2
  /\ control' = control + 1
  /\ hpc' = IF control = 0 THEN "h_r" ELSE "no"
  /\ UNCHANGED <<pc, rvars, evars, item, arg, dropped>>

HandlerR ==
  /\ hpc = "h_r" /\ rmutex = None
  /\ rmutex' = Main
  /\ todo' = 0
  /\ loop' = FALSE
  /\ dropped' = dropped \o rbuffer
  /\ rbuffer' = <<>>
  /\ rdone' = TRUE
  /\ hpc' = "h_e"
  /\ UNCHANGED <<pc, rcv, evars, item, arg, control>>

(* emutex is locked before rmutex is unlocked. *)
HandlerE ==
  /\ hpc = "h_e" /\ emutex = None
  /\ rmutex' = None
  /\ dropped' = dropped \o ebuffer
  /\ ebuffer' = <<>>
  /\ edone' = TRUE
  /\ hpc' = "no"
  /\ UNCHANGED <<pc, rcv, rbuffer, rdone, loop, todo, emutex, ecv, item, arg, control>>

catcher_SIGINT == Caught \/ HandlerR \/ HandlerE

(* The handler is installed, the device is open. *)
PipelineInit ==
  /\ pc = [t \in Workers \cup {Main} |-> IF t = Main THEN "setup" ELSE "none"]
  /\ rmutex = None /\ emutex = None
  /\ rcv = {} /\ ecv = {}
  /\ rbuffer = <<>> /\ rdone = FALSE
  /\ ebuffer = <<>> /\ edone = FALSE
  /\ arg \in Args
  /\ todo = arg
  /\ loop = (arg = 0)
  /\ item = [t \in Workers |-> None]
  /\ control = 0
  /\ hpc = "no"
  /\ dropped = <<>>

-----------------------------------------------------------------------------
(* The strings inside the program: in the buffers, in the threads' hands,  *)
(* and thrown away by SIGINT                                               *)

Ids(s) == {s[k].id : k \in {j \in DOMAIN s : s[j] # Terminator}}

Carriers == {t \in Workers : item[t] # None}

Held == {item[t].id : t \in Carriers}

Within == Ids(rbuffer) \cup Held \cup Ids(ebuffer) \cup Ids(dropped)

(* No string is twice in a sequence. *)
Once(s) ==
  \A j, k \in DOMAIN s : s[j] # Terminator /\ s[k] # Terminator /\ s[j].id = s[k].id => j = k

(* No string is in two of these places, or twice in one. *)
Apart ==
  /\ Once(rbuffer) /\ Once(ebuffer) /\ Once(dropped)
  /\ \A t, u \in Carriers : item[t].id = item[u].id => t = u
  /\ Ids(rbuffer) \cap (Held \cup Ids(ebuffer) \cup Ids(dropped)) = {}
  /\ Held \cap (Ids(ebuffer) \cup Ids(dropped)) = {}
  /\ Ids(ebuffer) \cap Ids(dropped) = {}

-----------------------------------------------------------------------------
(* The handler waits for a mutex that main itself holds, below it on the   *)
(* same stack: neither will ever run again.                                *)
SelfLocked ==
  \/ hpc = "h_r" /\ rmutex = Main
  \/ hpc = "h_e" /\ emutex = Main

(* What holds up a thread, if anything does: a mutex, or the device. *)
CanGo(t) ==
  \/ pc[t] \in {"c_lock", "e_lock"} /\ rmutex = None
  \/ pc[t] \in {"e_put", "s_lock"} /\ emutex = None

AtDevice(t) == pc[t] \in {"r_read", "s_out"}

MainGoes ==
  \/ hpc = "h_r" /\ rmutex = None
  \/ hpc = "h_e" /\ emutex = None
  \/ MainAt("rel_r") /\ rmutex = None
  \/ MainAt("rel_e") /\ emutex = None
  \/ MainAt("join_c") /\ \A t \in Sources : pc[t] = "end"
  \/ MainAt("join_e") /\ \A t \in Elabs : pc[t] = "end"
  \/ MainAt("join_s") /\ \A t \in Sinks : pc[t] = "end"
  \/ \E label \in {"setup", "create", "rel_r_set", "rel_r_end", "rel_e_set", "rel_e_end", "finish"} :
       MainAt(label)

(* The program does not deadlock: until main returns there is a thread     *)
(* that can go on or is inside a call of the device, except when SIGINT    *)
(* finds main with a mutex locked.  The handler locks emutex while it      *)
(* holds rmutex and sets done without waking anybody, device calls keep a  *)
(* mutex locked, and main joins threads that may sleep on a condition      *)
(* variable.                                                               *)
NoDeadlock ==
  pc[Main] = "exit" \/ SelfLocked \/ MainGoes \/ \E t \in Workers : CanGo(t) \/ AtDevice(t)

(* No wake-up is lost, although a string is announced to one sleeper only  *)
(* (pthread_cond_signal): while somebody sleeps for want of strings and    *)
(* there are some, another thread of the kind is awake and will come back  *)
(* for them.  And when main joins the threads of a kind, none of them      *)
(* sleeps any more, whether SIGINT came or not.                            *)
NobodyForgotten ==
  /\ rcv # {} /\ rbuffer # <<>> => \E t \in Elabs : pc[t] \in {"e_lock", "e_put"}
  /\ ecv # {} /\ ebuffer # <<>> => \E t \in Sinks : pc[t] \in {"s_lock", "s_out"}
  /\ pc[Main] \in {"join_e", "rel_e", "rel_e_set", "rel_e_end", "join_s", "finish", "exit"} => rcv = {}
  /\ pc[Main] \in {"join_s", "finish", "exit"} => ecv = {}
=============================================================================
