------------------------------- MODULE System -------------------------------
(***************************************************************************)
(* Several Writers and several Readers on one device.  A Writer is what    *)
(* Sender says (Writer.tla shows that the program is one), a Reader what   *)
(* Receiver says (Reader.tla), and the device is the FIFO of DevFifo       *)
(* (MyDev.tla), whose calls are the steps at which they take effect: a     *)
(* write waits for room, a read for a string.                              *)
(*                                                                         *)
(* All terminators are the same string "00", and nobody can tell whose it  *)
(* is.  An item records its Writer and its number only for the properties. *)
(***************************************************************************)
EXTENDS Naturals, Sequences, FiniteSets

CONSTANTS
  Writers, Readers,   (* processes that may be started                     *)
  Limits,             (* arguments of the programs; 0 is no limit          *)
  Caps,               (* maximum sizes kt_realloc may choose               *)
  MaxItems,           (* bound: strings of one Writer                      *)
  MaxFaults           (* bound: failing calls and SIGINTs                  *)

ASSUME SystemAssumption ==
  /\ IsFiniteSet(Writers) /\ IsFiniteSet(Readers)
  /\ Limits \subseteq Nat /\ Caps \subseteq Nat
  /\ MaxItems \in Nat /\ MaxFaults \in Nat

VARIABLES
  present,        (* the processes that are started                        *)
  limit,          (* argument of each                                      *)
  q, cap,         (* the device: its strings, its maximum size             *)
  made,           (* how many items each Writer has made                   *)
  over,           (* Writers that have ended                               *)
  got,            (* what each Reader has taken                            *)
  missed,         (* reads of each Reader that failed                      *)
  ended,          (* Readers that have stopped reading                     *)
  cut,            (* processes that got SIGINT                             *)
  lost,           (* items that never reached the device: write failed     *)
  dropped,        (* items that never reached a Reader: read failed        *)
  faults          (* failing calls and SIGINTs so far                      *)

sysvars == <<present, limit, q, cap, made, over, got, missed, ended, cut, lost, dropped, faults>>

Item == [from : Writers, no : Nat \ {0}, done : BOOLEAN]

NewItem(w, done) == [from |-> w, no |-> made[w] + 1, done |-> done]

Fault == faults < MaxFaults /\ faults' = faults + 1

(* A write that waits for room, or one that fails to the end of its retries *)
Put(item) ==
  \/ Len(q) < cap /\ q' = Append(q, item) /\ UNCHANGED <<lost, faults>>
  \/ Fault /\ lost' = lost \cup {item} /\ UNCHANGED q

(* Slip: a string that is given up is not reported. *)
write_dev_Silent(w) ==
  /\ w \in present \ over /\ made[w] < MaxItems
  /\ limit[w] = 0 \/ made[w] < limit[w]
  /\ made' = [made EXCEPT ![w] = @ + 1]
  /\ Put(NewItem(w, FALSE)) \/ (Fault /\ UNCHANGED <<q, lost>>)
  /\ UNCHANGED <<present, limit, cap, over, got, missed, ended, cut, dropped>>

(* A string of Writer w *)
write_dev(w) ==
  /\ w \in present \ over /\ made[w] < MaxItems
  /\ limit[w] = 0 \/ made[w] < limit[w]
  /\ made' = [made EXCEPT ![w] = @ + 1]
  /\ Put(NewItem(w, FALSE))
  /\ UNCHANGED <<present, limit, cap, over, got, missed, ended, cut, dropped>>

(* Slip: the terminator is sent while write_dev may still be at work. *)
dev_done_Early(w) ==
  /\ w \in present \ over
  /\ \/ over' = over \cup {w}
     \/ UNCHANGED over
  /\ made' = [made EXCEPT ![w] = @ + 1]
  /\ Put(NewItem(w, TRUE))
  /\ UNCHANGED <<present, limit, cap, got, missed, ended, cut, dropped>>

(* Its terminator: when all strings are written, or after SIGINT *)
dev_done(w) ==
  /\ w \in present \ over
  /\ w \in cut \/ (limit[w] # 0 /\ made[w] = limit[w])
  /\ over' = over \cup {w}
  /\ made' = [made EXCEPT ![w] = @ + 1]
  /\ Put(NewItem(w, TRUE))
  /\ UNCHANGED <<present, limit, cap, got, missed, ended, cut, dropped>>

Used(r) == Len(got[r]) + missed[r]

Reading(r) == r \in present \ ended /\ (limit[r] = 0 \/ Used(r) < limit[r])

(* Slips: the string stays in the device; the terminator does not stop the *)
(* Reader.                                                                 *)
ReadString_Peek(r) ==
  /\ Reading(r) /\ q # <<>>
  /\ got' = [got EXCEPT ![r] = Append(@, Head(q))]
  /\ q' \in {q, Tail(q)}
  /\ ended' = IF Head(q).done THEN ended \cup {r} ELSE ended
  /\ UNCHANGED <<present, limit, cap, made, over, missed, cut, lost, dropped, faults>>

ReadString_Loops(r) ==
  /\ Reading(r) /\ q # <<>>
  /\ got' = [got EXCEPT ![r] = Append(@, Head(q))]
  /\ q' = Tail(q)
  /\ UNCHANGED <<present, limit, cap, made, over, missed, ended, cut, lost, dropped, faults>>

(* A read that waits for a string; the terminator is the last one *)
ReadString(r) ==
  /\ Reading(r) /\ q # <<>>
  /\ got' = [got EXCEPT ![r] = Append(@, Head(q))]
  /\ q' = Tail(q)
  /\ ended' = IF Head(q).done THEN ended \cup {r} ELSE ended
  /\ UNCHANGED <<present, limit, cap, made, over, missed, cut, lost, dropped, faults>>

(* A read that fails, before or after it has taken a string *)
ReadFails(r) ==
  /\ Reading(r) /\ Fault
  /\ missed' = [missed EXCEPT ![r] = @ + 1]
  /\ \/ q # <<>> /\ q' = Tail(q) /\ dropped' = dropped \cup {Head(q)}
     \/ UNCHANGED <<q, dropped>>
  /\ UNCHANGED <<present, limit, cap, made, over, got, ended, cut, lost>>

ReadStop(r) ==
  /\ r \in present \ ended
  /\ r \in cut \/ (limit[r] # 0 /\ Used(r) = limit[r])
  /\ ended' = ended \cup {r}
  /\ UNCHANGED <<present, limit, q, cap, made, over, got, missed, cut, lost, dropped, faults>>

read_dev(r) == ReadString(r) \/ ReadFails(r) \/ ReadStop(r)

catcher_SIGINT(p) ==
  /\ p \in present \ (over \cup ended \cup cut)
  /\ Fault
  /\ cut' = cut \cup {p}
  /\ UNCHANGED <<present, limit, q, cap, made, over, got, missed, ended, lost, dropped>>

kt_realloc ==
  /\ cap' \in Caps \ {cap}
  /\ UNCHANGED <<present, limit, q, made, over, got, missed, ended, cut, lost, dropped, faults>>

SysInit ==
  /\ present \in SUBSET (Writers \cup Readers)
  /\ limit \in [Writers \cup Readers -> Limits]
  /\ q = <<>> /\ cap \in Caps
  /\ made = [w \in Writers |-> 0] /\ over = {}
  /\ got = [r \in Readers |-> <<>>] /\ missed = [r \in Readers |-> 0] /\ ended = {}
  /\ cut = {} /\ lost = {} /\ dropped = {} /\ faults = 0

SysNext ==
  \/ \E w \in Writers : write_dev(w) \/ dev_done(w)
  \/ \E r \in Readers : read_dev(r)
  \/ \E p \in present : catcher_SIGINT(p)
  \/ kt_realloc

SysSpec == SysInit /\ [][SysNext]_sysvars

-----------------------------------------------------------------------------
InDevice == {q[i] : i \in 1 .. Len(q)}

TakenBy(r) == {got[r][i] : i \in 1 .. Len(got[r])}

(* Types; a Writer with a limit makes as many strings and one terminator.  *)
SysTypeOK ==
  /\ present \subseteq Writers \cup Readers
  /\ limit \in [Writers \cup Readers -> Nat]
  /\ q \in Seq(Item) /\ cap \in Nat
  /\ made \in [Writers -> Nat] /\ over \subseteq Writers
  /\ got \in [Readers -> Seq(Item)] /\ missed \in [Readers -> Nat] /\ ended \subseteq Readers
  /\ cut \subseteq present
  /\ lost \subseteq Item /\ dropped \subseteq Item
  /\ faults \in Nat
  /\ \A w \in Writers : limit[w] # 0 => made[w] <= limit[w] + 1

(* Whatever fails and however the processes interleave, each Reader sees   *)
(* the strings of each Writer in the order in which they were written, and *)
(* no string reaches two Readers or one twice.                             *)
OnceInOrder ==
  /\ \A r \in Readers : \A i, j \in 1 .. Len(got[r]) :
       i < j /\ got[r][i].from = got[r][j].from => got[r][i].no < got[r][j].no
  /\ \A r, s \in Readers : r # s => TakenBy(r) \cap TakenBy(s) = {}

(* Every string and every terminator a Writer made is in the device, or    *)
(* with a Reader, or its failed write or read has been reported.           *)
NothingVanishes ==
  \A w \in Writers : \A n \in 1 .. made[w] :
    \E e \in InDevice \cup lost \cup dropped \cup UNION {TakenBy(r) : r \in Readers} :
      e.from = w /\ e.no = n

Told == {r \in Readers : \E e \in TakenBy(r) : e.done}

(* The terminator protocol: all Writers send the same "00", each Reader    *)
(* ends at the first one it meets, whoever sent it.  When as many Readers  *)
(* have met one as there are Writers, all Writers have ended and the       *)
(* device is empty: nothing was written that nobody will read.             *)
TerminatorsMean ==
  Cardinality(Told) >= Cardinality(present \cap Writers) =>
    present \cap Writers \subseteq over /\ q = <<>>

-----------------------------------------------------------------------------
(* The device wakes who waits in it (ReaderServed and WriterServed of      *)
(* MyDev), and the programs go on (Terminates of Writer, ReaderEnds of     *)
(* Reader).                                                                *)
FairSysSpec ==
  /\ SysSpec
  /\ \A w \in Writers : WF_sysvars(write_dev(w) \/ dev_done(w))
  /\ \A r \in Readers : WF_sysvars(ReadString(r) \/ ReadStop(r))

(* Writers that were told how much to write and Readers that were not,     *)
(* with nothing in their way                                               *)
Plain ==
  /\ faults = 0
  /\ \A w \in present \cap Writers : limit[w] \in 1 .. MaxItems
  /\ \A r \in present \cap Readers : limit[r] = 0

(* Only what is in excess is left waiting. *)
ExcessOnly ==
  LET ws == present \cap Writers
      rs == present \cap Readers
  IN  /\ Cardinality(rs) <= Cardinality(ws) => rs \subseteq ended
      /\ Cardinality(ws) <= Cardinality(rs) => ws \subseteq over

(* All who are left wait in the device, Writers for room and Readers for a *)
(* string.                                                                 *)
AllWait ==
  /\ present \cap Writers \subseteq over \/ Len(q) >= cap
  /\ present \cap Readers \subseteq ended \/ q = <<>>

(* Nobody waits for good but the ones in excess: Writers and Readers do    *)
(* not wait for each other, and no Reader has used up the terminator of    *)
(* another.                                                                *)
OnlyExcessBlocked == Plain /\ cap # 0 /\ AllWait => ExcessOnly

(* Without faults it comes to that: all Readers end if there are no more   *)
(* of them than Writers, and all Writers end if there are no more of them  *)
(* than Readers.                                                           *)
OnlyExcessWaits == <>(Plain => ExcessOnly)
=============================================================================
