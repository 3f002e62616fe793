------------------------------- MODULE Sender -------------------------------
(***************************************************************************)
(* What a Writer promises to those who read the device: it sends strings,  *)
(* none of them twice; if it is told how many, it has sent or reported as  *)
(* lost exactly as many before it ends, unless it is cut short; and the    *)
(* last thing it does is to send the terminator, or to fail to.            *)
(***************************************************************************)
EXTENDS Integers, Sequences, FiniteSets, Functions

CONSTANTS Str, Terminator

VARIABLES
  limit,   (* how many strings to send; 0 for no limit, below 0 for none   *)
  sent,    (* what it has sent, in order                                   *)
  lost,    (* strings it has reported as lost                              *)
  cut,     (* has it been cut short?                                       *)
  over     (* has it ended?                                                *)

Quota(n) == IF n > 0 THEN n ELSE 0

SenderInit == limit \in Int /\ sent = <<>> /\ lost = {} /\ ~ cut /\ ~ over

Send(s) ==
  /\ ~ over
  /\ s \notin Range(sent) \cup lost
  /\ sent' = Append(sent, s)
  /\ UNCHANGED <<limit, lost, cut, over>>

Lose(s) ==
  /\ ~ over
  /\ s \notin Range(sent) \cup lost
  /\ lost' = lost \cup {s}
  /\ UNCHANGED <<limit, sent, cut, over>>

Cut == ~ over /\ cut' /\ UNCHANGED <<limit, sent, lost, over>>

End ==
  /\ ~ over /\ over'
  /\ cut \/ (limit # 0 /\ Len(sent) + Cardinality(lost) = Quota(limit))
  /\ sent' \in {sent, Append(sent, Terminator)}
  /\ UNCHANGED <<limit, lost, cut>>

SenderNext == (\E s \in Str : Send(s) \/ Lose(s)) \/ Cut \/ End

SenderSpec == SenderInit /\ [][SenderNext]_<<limit, sent, lost, cut, over>>
=============================================================================
