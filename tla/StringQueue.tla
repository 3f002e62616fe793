---------------------------- MODULE StringQueue ----------------------------
(* What struct kb and struct wbuf promise their users: a queue of strings, *)
(* as long as nobody operates on it at the same time.                      *)
EXTENDS Sequences

CONSTANTS Str, NoStr

VARIABLES
  q,    (* the strings, oldest first                                       *)
  out   (* the string the last extraction returned                         *)

qvars == <<q, out>>

Put(s) ==
  /\ q' = Append(q, s)
  /\ UNCHANGED out

Get ==
  /\ q # <<>>
  /\ out' = Head(q)
  /\ q' = Tail(q)

QueueInit == q = <<>> /\ out = NoStr

QueueNext == Get \/ \E s \in Str : Put(s)

QueueSpec == QueueInit /\ [][QueueNext]_qvars

(* A queue that can also be emptied in one step *)
Clear ==
  /\ q' = <<>>
  /\ UNCHANGED out

ClearableSpec == QueueInit /\ [][QueueNext \/ Clear]_qvars
=============================================================================
