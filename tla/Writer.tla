------------------------------- MODULE Writer -------------------------------
(***************************************************************************)
(* The program Writer (Writer/write.c): create_data threads generate       *)
(* strings of capital letters, elaborate_data threads make them lowercase, *)
(* write_dev threads write them to /dev/mydev, and main ends the           *)
(* transmission with the string "00" when all of them have stopped.        *)
(*                                                                         *)
(* The device is what write(2) shows of it: a call returns 0 when the      *)
(* string was accepted, something else when it was not, and blocks while   *)
(* there is no room.                                                       *)
(***************************************************************************)
EXTENDS Pipeline, Functions

CONSTANTS
  Failures,    (* bound: writes that fail                                  *)
  Room         (* strings the device accepts before it blocks for good     *)

MAX_RETRY == 5  (* write.h *)

ASSUME WriterAssumption ==
  /\ Shift = 32
  /\ Failures \in Nat
  /\ Room \in Nat

VARIABLES
  made,      (* strings created so far                                     *)
  tries,     (* i in write_dev and in dev_done, of each thread             *)
  written,   (* strings the device has accepted, in order                  *)
  lost,      (* strings reported as lost                                   *)
  failed,    (* writes that have failed                                    *)
  critical   (* has dev_done reported an error?                            *)

wvars == <<made, tries, written, lost, failed, critical>>

-----------------------------------------------------------------------------
(* create_data *)

CreateStop(t) ==
  /\ pc[t] = "c_lock" /\ rmutex = None
  /\ ~ loop /\ todo <= 0
  /\ todo' = todo - 1
  /\ Goto(t, "end")
  /\ UNCHANGED <<rmutex, rcv, rbuffer, rdone, loop, evars, item, hvars, wvars>>

CreatePut(t) ==
  /\ pc[t] = "c_lock" /\ rmutex = None
  /\ loop \/ todo > 0
  /\ made < MaxItems
  /\ made' = made + 1
  /\ todo' = IF loop THEN todo ELSE todo - 1
  /\ rbuffer' = Append(rbuffer, [id |-> made', shift |-> 0])
  /\ Signal(rcv, "e_lock", t, "c_lock")
  /\ UNCHANGED <<rmutex, rdone, loop, evars, item, hvars, tries, written, lost, failed, critical>>

create_data(t) == CreatePut(t) \/ CreateStop(t)

-----------------------------------------------------------------------------
(* write(2) on the device, as the program sees it *)

Accept(s) ==
  /\ Len(written) < Room
  /\ written' = Append(written, s)
  /\ UNCHANGED failed

Refuse ==
  /\ failed < Failures
  /\ failed' = failed + 1
  /\ UNCHANGED written

(* write_dev writes the string it carries with emutex locked; it gives up  *)
(* after MAX_RETRY failures.                                               *)

Release(t) ==
  /\ emutex' = None
  /\ item' = [item EXCEPT ![t] = None]
  /\ tries' = [tries EXCEPT ![t] = 0]
  /\ Goto(t, "s_lock")

WriteAccepted(t) ==
  /\ pc[t] = "s_out"
  /\ Accept(item[t])
  /\ Release(t)
  /\ UNCHANGED <<rvars, ecv, ebuffer, edone, hvars, made, lost, critical>>

(* Slip: one attempt more. *)
WriteRefused_Again(t) ==
  /\ pc[t] = "s_out"
  /\ Refuse
  /\ IF tries[t] < MAX_RETRY
     THEN /\ tries' = [tries EXCEPT ![t] = tries[t] + 1]
          /\ UNCHANGED <<pc, item, emutex, lost>>
     ELSE /\ lost' = IF tries[t] + 1 = 5 THEN Append(lost, item[t]) ELSE lost
          /\ Release(t)
  /\ UNCHANGED <<rvars, ecv, ebuffer, edone, hvars, made, critical>>

(* The test after the loop is i == 5, not i == MAX_RETRY. *)
WriteRefused(t) ==
  /\ pc[t] = "s_out"
  /\ Refuse
  /\ IF tries[t] + 1 < MAX_RETRY
     THEN /\ tries' = [tries EXCEPT ![t] = tries[t] + 1]
          /\ UNCHANGED <<pc, item, emutex, lost>>
     ELSE /\ lost' = IF tries[t] + 1 = 5 THEN Append(lost, item[t]) ELSE lost
          /\ Release(t)
  /\ UNCHANGED <<rvars, ecv, ebuffer, edone, hvars, made, critical>>

write_dev(t) ==
  \/ (SinkWait(t) \/ SinkStop(t) \/ SinkTake(t) \/ SinkSpurious(t)) /\ UNCHANGED wvars
  \/ WriteAccepted(t) \/ WriteRefused(t)

-----------------------------------------------------------------------------
(* The end of main: dev_done, dev_close and cleanup.  dev_done leaves its  *)
(* loop when the device accepts the terminator or when i > MAX_RETRY, and  *)
(* reports an error if i = MAX_RETRY.                                      *)

DoneAccepted ==
  /\ MainAt("finish")
  /\ tries[Main] <= MAX_RETRY
  /\ Accept(Terminator)
  /\ critical' = (tries[Main] = MAX_RETRY)
  /\ Goto(Main, "exit")
  /\ UNCHANGED <<rvars, evars, item, hvars, made, tries, lost>>

DoneRefused ==
  /\ MainAt("finish")
  /\ tries[Main] <= MAX_RETRY
  /\ Refuse
  /\ tries' = [tries EXCEPT ![Main] = tries[Main] + 1]
  /\ UNCHANGED <<pc, rvars, evars, item, hvars, made, lost, critical>>

DoneGivesUp ==
  /\ MainAt("finish")
  /\ tries[Main] > MAX_RETRY
  /\ critical' = (tries[Main] = MAX_RETRY)
  /\ Goto(Main, "exit")
  /\ UNCHANGED <<rvars, evars, item, hvars, made, tries, written, lost, failed>>

dev_done == DoneAccepted \/ DoneRefused \/ DoneGivesUp

main == dev_done \/ ((start \/ wait_for \/ release_t) /\ UNCHANGED wvars)

WriterInit ==
  /\ PipelineInit
  /\ made = 0
  /\ tries = [t \in Sinks \cup {Main} |-> 0]
  /\ written = <<>>
  /\ lost = <<>>
  /\ failed = 0
  /\ critical = FALSE

Exited == pc[Main] = "exit"

(* The threads, the signal, and the end of the program. *)
WriterNext ==
  \/ \E t \in Sources : create_data(t)
  \/ \E t \in Elabs : elaborate_data(t) /\ UNCHANGED wvars
  \/ \E t \in Sinks : write_dev(t)
  \/ main
  \/ catcher_SIGINT /\ UNCHANGED wvars
  \/ Exited /\ UNCHANGED <<pvars, wvars>>

WriterSpec == WriterInit /\ [][WriterNext]_<<pvars, wvars>>

-----------------------------------------------------------------------------
(* Every variable has its type. *)
WriterTypeOK ==
  /\ rmutex \in {None, Main}
  /\ emutex \in Sinks \cup {None, Main}
  /\ rcv \subseteq Elabs /\ ecv \subseteq Sinks
  /\ rbuffer \in Seq(Item) /\ ebuffer \in Seq(Item) /\ lost \in Seq(Item)
  /\ written \in Seq(Item \cup {Terminator})
  /\ \A t \in Workers : item[t] \in Item \cup {None}
  /\ \A t \in Sinks : tries[t] \in 0 .. MAX_RETRY - 1
  /\ tries[Main] \in 0 .. MAX_RETRY + 1

(* Every string that was created is in exactly one place: a buffer, a      *)
(* thread's hands, the device, the list of the reported losses, or what    *)
(* SIGINT threw away.  No hand-over between threads, retry or signal       *)
(* duplicates a string or makes one vanish.                                *)
Conserved ==
  /\ Apart /\ Once(written) /\ Once(lost)
  /\ Within \cap (Ids(written) \cup Ids(lost)) = {}
  /\ Ids(written) \cap Ids(lost) = {}
  /\ Within \cup Ids(written) \cup Ids(lost) = 1 .. made

Out == INSTANCE Sender WITH
  Str <- [id : 1 .. MaxItems, shift : {32}], limit <- arg, sent <- written,
  lost <- Range(lost), cut <- control > 0, over <- Exited

(* To those who read the device the Writer is a Sender: whatever its       *)
(* threads and SIGINT do, what it writes is lowercase and no string comes  *)
(* twice; a Writer that was not interrupted has created as many strings as *)
(* it was told to, however many create_data threads share the counter, and *)
(* written or reported every one of them before dev_done; and nothing      *)
(* follows the terminator.                                                 *)
ImplementsSender == Out!SenderSpec

(* "Try for MAX_RETRY times ... Critical Error": dev_done reports an error *)
(* if and only if the terminator did not reach the device.                 *)
DoneReported == Exited => (critical <=> ~ Terminator \in Range(written))

-----------------------------------------------------------------------------
(* Every thread that can run does; the device, while it has room, answers. *)
WriterFairness ==
  /\ \A t \in Sources : WF_<<pvars, wvars>>(create_data(t))
  /\ \A t \in Elabs :
       WF_<<pvars, wvars>>((ElabWait(t) \/ ElabStop(t) \/ ElabTake(t) \/ ElabPut(t)) /\ UNCHANGED wvars)
  /\ \A t \in Sinks :
       WF_<<pvars, wvars>>(\/ (SinkWait(t) \/ SinkStop(t) \/ SinkTake(t)) /\ UNCHANGED wvars
                           \/ WriteAccepted(t) \/ WriteRefused(t))
  /\ WF_<<pvars, wvars>>(main)
  /\ WF_<<pvars, wvars>>((HandlerR \/ HandlerE) /\ UNCHANGED wvars)

FairWriterSpec == WriterSpec /\ WriterFairness

(* A Writer that is told how many strings to send terminates: no thread    *)
(* sleeps through the end of its input.  SIGINT ends any Writer, one that  *)
(* loops included, whenever it arrives, the creation of the threads        *)
(* included.  The one exception is a SIGINT while main holds a mutex in    *)
(* release_t.                                                              *)
Terminates == (arg # 0 \/ control > 0) ~> (Exited \/ SelfLocked)
=============================================================================
