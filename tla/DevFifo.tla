------------------------------ MODULE DevFifo ------------------------------
(***************************************************************************)
(* What /dev/mydev promises the processes that share it: one FIFO of       *)
(* strings with a maximum size.  A write puts its own string at the end,   *)
(* once, and only when there is room; a read takes the first one; a string *)
(* is taken by one read and lost only if that read cannot deliver it; a    *)
(* call that fails otherwise has no effect; the size may be changed at any *)
(* time, to at least two places.  Nothing is said about locks, wait        *)
(* queues, wake-ups or about how the size is chosen.                       *)
(***************************************************************************)
EXTENDS Naturals, Sequences

CONSTANTS Readers, Writers, Msg, None, Cap0

VARIABLES
  q,     (* the strings in the device                                      *)
  cap,   (* maximum size                                                   *)
  st,    (* where each process stands: "out" of any call, "in" one that    *)
         (* has had no effect yet, "taken" (a read that owns its string),  *)
         (* "ok" or "fail" (about to return)                               *)
  item   (* the string of its call                                         *)

Procs == Readers \cup Writers
fvars == <<q, cap, st, item>>

Begin(p, m) ==
  /\ st[p] = "out"
  /\ st' = [st EXCEPT ![p] = "in"]
  /\ item' = [item EXCEPT ![p] = m]
  /\ UNCHANGED <<q, cap>>

Take(r) ==
  /\ st[r] = "in"
  /\ q # <<>>
  /\ item' = [item EXCEPT ![r] = Head(q)]
  /\ q' = Tail(q)
  /\ st' = [st EXCEPT ![r] = "taken"]
  /\ UNCHANGED cap

Deliver(r) ==
  /\ st[r] = "taken"
  /\ \E s \in {"ok", "fail"} : st' = [st EXCEPT ![r] = s]
  /\ UNCHANGED <<q, cap, item>>

Put(w) ==
  /\ st[w] = "in"
  /\ Len(q) < cap
  /\ q' = Append(q, item[w])
  /\ st' = [st EXCEPT ![w] = "ok"]
  /\ UNCHANGED <<cap, item>>

Fail(p) ==
  /\ st[p] = "in"
  /\ st' = [st EXCEPT ![p] = "fail"]
  /\ UNCHANGED <<q, cap, item>>

Return(p) ==
  /\ st[p] \in {"ok", "fail"}
  /\ st' = [st EXCEPT ![p] = "out"]
  /\ item' = [item EXCEPT ![p] = None]
  /\ UNCHANGED <<q, cap>>

Resize ==
  /\ cap' \in Nat \ {0, 1}
  /\ UNCHANGED <<q, st, item>>

FifoInit ==
  /\ q = <<>>
  /\ cap = Cap0
  /\ st = [p \in Procs |-> "out"]
  /\ item = [p \in Procs |-> None]

FifoNext ==
  \/ \E r \in Readers : Begin(r, None) \/ Take(r) \/ Deliver(r)
  \/ \E w \in Writers : (\E m \in Msg : Begin(w, m)) \/ Put(w)
  \/ \E p \in Procs : Fail(p) \/ Return(p)
  \/ Resize

FifoSpec == FifoInit /\ [][FifoNext]_fvars
=============================================================================
