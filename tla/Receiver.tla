------------------------------ MODULE Receiver ------------------------------
(***************************************************************************)
(* What a Reader promises: it takes strings from the device until it has   *)
(* taken the terminator, or as many as it was told to (attempts that fail  *)
(* count), or it is cut short; it takes nothing after that; it shows what  *)
(* it has taken, each string once; and it has shown everything when it     *)
(* closes, unless it was cut short.                                        *)
(***************************************************************************)
EXTENDS Integers, Sequences, Functions

CONSTANTS Str, Terminator

VARIABLES
  limit,   (* how many strings to take; 0 for no limit, below 0 for none   *)
  got,     (* what it has taken, in order                                  *)
  missed,  (* attempts that failed                                         *)
  shown,   (* strings it has shown                                         *)
  cut,     (* has it been cut short?                                       *)
  phase    (* "reading", "draining" or "closed"                            *)

Quota(n) == IF n > 0 THEN n ELSE 0

ReceiverInit ==
  limit \in Int /\ got = <<>> /\ missed = 0 /\ shown = {} /\ ~ cut /\ phase = "reading"

Take(s) ==
  /\ phase = "reading"
  /\ got' = Append(got, s)
  /\ phase' = IF s = Terminator THEN "draining" ELSE "reading"
  /\ UNCHANGED <<limit, missed, shown, cut>>

Miss ==
  /\ phase = "reading"
  /\ missed' = missed + 1
  /\ UNCHANGED <<limit, got, shown, cut, phase>>

Stop ==
  /\ phase = "reading" /\ phase' = "draining"
  /\ cut \/ (limit # 0 /\ Len(got) + missed = Quota(limit))
  /\ UNCHANGED <<limit, got, missed, shown, cut>>

Cut == phase # "closed" /\ cut' /\ UNCHANGED <<limit, got, missed, shown, phase>>

Show(s) ==
  /\ phase # "closed"
  /\ s \in Range(got) \ (shown \cup {Terminator})
  /\ shown' = shown \cup {s}
  /\ UNCHANGED <<limit, got, missed, cut, phase>>

Close ==
  /\ phase = "draining" /\ phase' = "closed"
  /\ cut \/ Range(got) \subseteq shown \cup {Terminator}
  /\ UNCHANGED <<limit, got, missed, shown, cut>>

ReceiverNext ==
  \/ \E s \in Str \cup {Terminator} : Take(s)
  \/ \E s \in Str : Show(s)
  \/ Miss \/ Stop \/ Cut \/ Close

ReceiverSpec == ReceiverInit /\ [][ReceiverNext]_<<limit, got, missed, shown, cut, phase>>
=============================================================================
