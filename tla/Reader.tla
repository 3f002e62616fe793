------------------------------- MODULE Reader -------------------------------
(***************************************************************************)
(* The program Reader (Reader/read.c): read_dev threads read strings from  *)
(* /dev/mydev, elaborate_data threads put them in capital letters and      *)
(* print_data threads print them.  The string "00" ends the reading.       *)
(*                                                                         *)
(* The device is what read(2) shows of it: a call returns 0 and the next   *)
(* string, blocks for good when there is none, or fails and takes nothing  *)
(* (my_read could not allocate its buffer).  read_dev calls it with rmutex *)
(* locked.                                                                 *)
(***************************************************************************)
EXTENDS Pipeline, Functions

CONSTANT
  Failures   (* bound: reads that fail                                     *)

MAX_RT == 1  (* read.h *)

ASSUME ReaderAssumption ==
  /\ Cardinality(Sources) = MAX_RT
  /\ Shift = -32
  /\ Failures \in Nat

VARIABLES
  device,    (* strings the device will still give                         *)
  taken,     (* strings the program has read, in order                     *)
  failed,    (* reads that have failed                                     *)
  printed    (* strings it has printed, in order                           *)

dvars == <<device, taken, failed, printed>>

(* What Writers may leave in the device: lowercase strings and terminators. *)
Feeds ==
  UNION {{[k \in 1 .. n |-> IF k \in ends THEN Terminator ELSE [id |-> k, shift |-> 32]] :
             ends \in SUBSET (1 .. n)} : n \in 0 .. MaxItems}

-----------------------------------------------------------------------------
(* read_dev: a round of its loop, with rmutex locked throughout *)

ReadStop(t) ==
  /\ pc[t] = "c_lock" /\ rmutex = None
  /\ ~ loop /\ todo <= 0
  /\ todo' = todo - 1
  /\ Goto(t, "end")
  /\ UNCHANGED <<rmutex, rcv, rbuffer, rdone, loop, evars, item, hvars, dvars>>

ReadBegin(t) ==
  /\ pc[t] = "c_lock" /\ rmutex = None
  /\ loop \/ todo > 0
  /\ rmutex' = t
  /\ todo' = IF loop THEN todo ELSE todo - 1
  /\ Goto(t, "r_read")
  /\ UNCHANGED <<rcv, rbuffer, rdone, loop, evars, item, hvars, dvars>>

(* read(2) has given the next string, s *)
Taken(s) ==
  /\ device # <<>> /\ s = Head(device)
  /\ device' = Tail(device)
  /\ taken' = Append(taken, s)
  /\ UNCHANGED <<failed, printed>>

ReadString(t) ==
  /\ pc[t] = "r_read"
  /\ \E s \in Item : Taken(s) /\ rbuffer' = Append(rbuffer, s)
  /\ Signal(rcv, "e_lock", t, "c_lock")
  /\ rmutex' = None
  /\ UNCHANGED <<rdone, loop, todo, evars, item, hvars>>

(* Slip: the loop goes on. *)
ReadLast_Loops(t) ==
  /\ pc[t] = "r_read"
  /\ Taken(Terminator)
  /\ Signal(rcv, "e_lock", t, "c_lock")
  /\ rmutex' = None
  /\ UNCHANGED <<rbuffer, rdone, loop, todo, evars, item, hvars>>

ReadLast(t) ==
  /\ pc[t] = "r_read"
  /\ Taken(Terminator)
  /\ loop' = FALSE
  /\ Signal(rcv, "e_lock", t, "end")
  /\ rmutex' = None
  /\ UNCHANGED <<rbuffer, rdone, todo, evars, item, hvars>>

(* Slip: the error path leaves rmutex locked. *)
ReadFailed_NoUnlock(t) ==
  /\ pc[t] = "r_read"
  /\ failed < Failures
  /\ failed' = failed + 1
  /\ Goto(t, "c_lock")
  /\ UNCHANGED <<rvars, evars, item, hvars, device, taken, printed>>

(* A failed read uses up one of the reads that were asked for. *)
ReadFailed(t) ==
  /\ pc[t] = "r_read"
  /\ failed < Failures
  /\ failed' = failed + 1
  /\ Signal(rcv, "e_lock", t, "c_lock")
  /\ rmutex' = None
  /\ UNCHANGED <<rbuffer, rdone, loop, todo, evars, item, hvars, device, taken, printed>>

read_dev(t) == ReadStop(t) \/ ReadBegin(t) \/ ReadString(t) \/ ReadLast(t)

-----------------------------------------------------------------------------
(* print_data, with emutex locked *)
PrintOut(t) ==
  /\ pc[t] = "s_out"
  /\ printed' = Append(printed, item[t])
  /\ item' = [item EXCEPT ![t] = None]
  /\ emutex' = None
  /\ Goto(t, "s_lock")
  /\ UNCHANGED <<rvars, ecv, ebuffer, edone, hvars, device, taken, failed>>

print_data(t) ==
  \/ PrintOut(t)
  \/ (SinkWait(t) \/ SinkStop(t) \/ SinkTake(t)) /\ UNCHANGED dvars

(* The end of main: dev_close and cleanup *)
dev_close ==
  /\ MainAt("finish")
  /\ Goto(Main, "exit")
  /\ UNCHANGED <<rvars, evars, item, hvars, dvars>>

closing == (wait_for \/ release_t) /\ UNCHANGED dvars

main == (start /\ UNCHANGED dvars) \/ closing \/ dev_close

(* The functions read.c shares with write.c *)
elaborate(t) == elaborate_data(t) /\ UNCHANGED dvars

interrupt == catcher_SIGINT /\ UNCHANGED dvars

ReaderInit ==
  /\ PipelineInit
  /\ device \in Feeds
  /\ taken = <<>>
  /\ failed = 0
  /\ printed = <<>>

Exited == pc[Main] = "exit"

ReaderNext ==
  \/ \E t \in Sources : read_dev(t) \/ ReadFailed(t)
  \/ \E t \in Elabs : elaborate(t)
  \/ \E t \in Sinks : print_data(t) \/ (SinkSpurious(t) /\ UNCHANGED dvars)
  \/ main
  \/ interrupt
  \/ Exited /\ UNCHANGED <<pvars, dvars>>

ReaderSpec == ReaderInit /\ [][ReaderNext]_<<pvars, dvars>>

-----------------------------------------------------------------------------
(* Every variable has its type; only a read_dev thread inside read(2) and  *)
(* main hold rmutex.                                                       *)
ReaderTypeOK ==
  /\ rmutex \in Sources \cup {None, Main}
  /\ \A t \in Sources : rmutex = t <=> pc[t] = "r_read"
  /\ emutex \in Sinks \cup {None, Main}
  /\ rcv \subseteq Elabs /\ ecv \subseteq Sinks
  /\ rbuffer \in Seq(Item) /\ ebuffer \in Seq(Item) /\ printed \in Seq(Item)
  /\ taken \in Seq(Item \cup {Terminator})
  /\ \A t \in Workers : item[t] \in Item \cup {None}

(* Every string that was read is in exactly one place: a buffer, a         *)
(* thread's hands, on the screen in capital letters, or thrown away by     *)
(* SIGINT.                                                                 *)
ReadConserved ==
  /\ Apart /\ Once(printed)
  /\ Within \cap Ids(printed) = {}
  /\ Within \cup Ids(printed) = Ids(taken)
  /\ \A k \in DOMAIN printed : printed[k].shift = 0

(* What a string was when it left the device *)
Original(s) == [s EXCEPT !.shift = 32]

In == INSTANCE Receiver WITH
  Str <- [id : 1 .. MaxItems, shift : {32}], limit <- arg, got <- taken, missed <- failed,
  shown <- {Original(printed[k]) : k \in DOMAIN printed}, cut <- control > 0,
  phase <- IF Exited THEN "closed"
           ELSE IF \A t \in Sources : pc[t] = "end" THEN "draining" ELSE "reading"

(* A Reader with its one read_dev thread (MAX_RT) is a Receiver:           *)
(* "Infinite loop until 00 (done command) or fixed number of read".  Once  *)
(* it has read the terminator it takes nothing more, so that it neither    *)
(* blocks on the device nor steals a string from another Reader, and it    *)
(* exits only after it has printed everything, unless SIGINT came.         *)
ImplementsReceiver == In!ReceiverSpec

-----------------------------------------------------------------------------
(* Every thread that can run does; the device gives the strings it has.    *)
(* Reads need not fail.                                                    *)
ReaderFairness ==
  /\ \A t \in Sources : WF_<<pvars, dvars>>(read_dev(t))
  /\ \A t \in Elabs :
       WF_<<pvars, dvars>>((ElabWait(t) \/ ElabStop(t) \/ ElabTake(t) \/ ElabPut(t)) /\ UNCHANGED dvars)
  /\ \A t \in Sinks : WF_<<pvars, dvars>>(print_data(t))
  /\ WF_<<pvars, dvars>>(main)
  /\ WF_<<pvars, dvars>>((HandlerR \/ HandlerE) /\ UNCHANGED dvars)

FairReaderSpec == ReaderSpec /\ ReaderFairness

(* A read_dev thread is blocked in read(2), with rmutex locked. *)
Stalled == device = <<>> /\ \E t \in Sources : pc[t] = "r_read"

(* The Reader terminates, by itself or after SIGINT, unless it waits for a *)
(* string that never comes, or SIGINT arrives while main holds a mutex.    *)
ReaderEnds == <>(Exited \/ Stalled \/ SelfLocked)

(* As long as there is no SIGINT, a string that was read is printed        *)
(* sooner or later.  Only one that is still in rbuffer can be held up, by  *)
(* a thread that keeps rmutex while it waits for the device.               *)
EveryStringPrinted ==
  []<>(\/ Ids(printed) = Ids(taken)
       \/ control > 0
       \/ Stalled /\ Ids(printed) = Ids(taken) \ Ids(rbuffer))
=============================================================================
