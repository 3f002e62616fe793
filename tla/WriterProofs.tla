---------------------------- MODULE WriterProofs ----------------------------
(***************************************************************************)
(* The program Writer for any number of threads of each kind: no string is *)
(* duplicated or vanishes, and the Writer is a Sender.                     *)
(***************************************************************************)
EXTENDS Writer, PipelineProofs

(* The variables of the Writer, and the create_data threads, which never   *)
(* hold rmutex across a step *)
Device ==
  /\ lost \in Seq(Cased) /\ written \in Seq(Cased \cup {Terminator})
  /\ pc[Main] # "exit" => written \in Seq(Cased)
  /\ made \in 0 .. MaxItems
  /\ tries \in [Sinks \cup {Main} -> 0 .. MAX_RETRY + 1]
  /\ \A t \in Sinks : tries[t] < MAX_RETRY
  /\ \A t \in Sources : pc[t] # "r_read"

(* Until SIGINT comes, the strings still to be created are those missing   *)
(* from the ones asked for.                                                *)
Counted ==
  control = 0 =>
    /\ loop <=> arg = 0
    /\ arg # 0 => made + Out!Quota(todo) = Out!Quota(arg)
    /\ Ended(Sources) => arg # 0 /\ todo <= 0

WInv == PInv /\ Quiet /\ Device /\ Conserved /\ Counted

(* The steps of the Writer, those it has in common with the Reader apart *)
LEMMA WriterSteps ==
  ASSUME [WriterNext]_<<pvars, wvars>>
  PROVE  \/ Shared /\ UNCHANGED wvars
         \/ \E t \in Sources : CreateStop(t) \/ CreatePut(t)
         \/ \E t \in Sinks : WriteAccepted(t) \/ WriteRefused(t)
         \/ DoneAccepted \/ DoneGivesUp \/ DoneRefused
         \/ catcher_SIGINT /\ UNCHANGED wvars
         \/ UNCHANGED <<pvars, wvars>>
<1>1. ASSUME NEW t \in Elabs, elaborate_data(t) PROVE Shared
  <2>1. t \in Workers /\ Moves(t)
    BY <1>1, Kinds DEF Moves
  <2> QED BY <2>1 DEF Shared
<1>2. ASSUME NEW t \in Sinks, SinkShared(t) PROVE Shared
  <2>1. t \in Workers /\ Moves(t)
    BY <1>2, Kinds DEF Moves
  <2> QED BY <2>1 DEF Shared
<1>3. start \/ wait_for \/ release_t => Shared
  BY DEF Shared
<1> QED
  BY <1>1, <1>2, <1>3, Zenon DEF WriterNext, create_data, write_dev, SinkShared, main, dev_done

(* Strings that leave the program, or a device that has taken the          *)
(* terminator, keep every string in one place.                             *)
LEMMA ConservedMoves ==
  ASSUME Conserved, Device, Apart', UNCHANGED made,
         NEW x \in Cased, x.id \in Within, Within' = Within \ {x.id},
         \/ written' = Append(written, x) /\ lost' = lost
         \/ lost' = Append(lost, x) /\ written' = written
  PROVE  Conserved'
<1>1. /\ written \in Seq(Cased \cup {Terminator}) /\ lost \in Seq(Cased) /\ x # Terminator
      /\ Once(written) /\ Once(lost) /\ x.id \notin Ids(written) /\ x.id \notin Ids(lost)
  BY ItemTypes DEF Device, Conserved
<1>2. \/ /\ Ids(written') = Ids(written) \cup {x.id} /\ Ids(lost') = Ids(lost)
         /\ Once(written') /\ Once(lost')
      \/ /\ Ids(lost') = Ids(lost) \cup {x.id} /\ Ids(written') = Ids(written)
         /\ Once(written') /\ Once(lost')
  <2>1. /\ Ids(Append(written, x)) = Ids(written) \cup {x.id} /\ Once(Append(written, x))
    BY <1>1, IdsAppended, Zenon
  <2>2. /\ Ids(Append(lost, x)) = Ids(lost) \cup {x.id} /\ Once(Append(lost, x))
    BY <1>1, IdsAppended, Zenon
  <2> QED BY <1>1, <2>1, <2>2, Zenon
<1>3. /\ Within' \cap (Ids(written') \cup Ids(lost')) = {}
      /\ Ids(written') \cap Ids(lost') = {}
      /\ Within' \cup Ids(written') \cup Ids(lost') = Within \cup Ids(written) \cup Ids(lost)
  BY <1>1, <1>2 DEF Conserved
<1> QED BY <1>2, <1>3, Zenon DEF Conserved

(* The strings stay where they are. *)
LEMMA ConservedFrame ==
  ASSUME Conserved, Apart', Within' = Within, UNCHANGED <<made, written, lost>>
  PROVE  Conserved'
BY Zenon DEF Conserved

(* The counts depend on these variables, and on the create_data threads    *)
(* that have ended.                                                        *)
LEMMA CountedFrame ==
  ASSUME Counted, UNCHANGED <<arg, control, loop, todo, made>>, Ended(Sources)' => Ended(Sources)
  PROVE  Counted'
BY Zenon DEF Counted, Out!Quota

(* The steps the Writer has in common with the Reader *)
LEMMA WriterShared ==
  ASSUME WInv, Shared, UNCHANGED wvars
  PROVE  WInv'
<1>0. PInv /\ Quiet /\ Device /\ Conserved /\ Counted
  BY DEF WInv
<1>1. PInv' /\ Within' = Within /\ Quiet'
  BY <1>0, SharedKeeps, SharedQuiet
<1>2. /\ UNCHANGED <<arg, control, loop, todo>> /\ (pc'[Main] = "exit" <=> pc[Main] = "exit")
      /\ \A t \in Sources : pc'[t] = "r_read" <=> pc[t] = "r_read"
      /\ MainChoose \/ \A t \in Sources : pc'[t] = "end" <=> pc[t] = "end"
  BY <1>0, SharedEffects
<1>3. UNCHANGED <<made, tries, written, lost>>
  BY DEF wvars
<1>4. Device'
  BY <1>0, <1>2, <1>3, Zenon DEF Device
<1>5. Conserved'
  BY <1>0, <1>1, <1>3, ConservedFrame DEF PInv
<1>6. Counted'
  <2>1. CASE \A t \in Sources : pc'[t] = "end" <=> pc[t] = "end"
    <3>1. Ended(Sources)' => Ended(Sources)
      BY <2>1, Zenon DEF Ended
    <3> QED BY <1>0, <1>2, <1>3, <3>1, CountedFrame
  <2>2. CASE MainChoose
    <3>1. control = 0 /\ Ended(Sources)' => arg < 0 /\ todo = arg /\ arg \in Int
      BY <1>0, <2>2, Created DEF MainChoose, MainAt, Quiet, PInv, Buffers
    <3>2. control = 0 /\ Ended(Sources)' => arg # 0 /\ todo <= 0
      BY <3>1
    <3> QED BY <1>0, <1>2, <1>3, <3>2, Zenon DEF Counted, Out!Quota
  <2> QED BY <1>2, <2>1, <2>2
<1> QED BY <1>1, <1>4, <1>5, <1>6 DEF WInv

(* A create_data thread stops, or puts a new string into rbuffer. *)
LEMMA WriterCreates ==
  ASSUME WInv, NEW t \in Sources, CreateStop(t) \/ CreatePut(t)
  PROVE  WInv'
<1>0. PInv /\ Quiet /\ Device /\ Conserved /\ Counted
  BY DEF WInv
<1>a. todo \in Int /\ arg \in Int /\ made \in Nat
  BY <1>0 DEF PInv, Buffers, Device
<1>1. ASSUME CreateStop(t) PROVE WInv'
  <2>1. /\ Source(t, "end") /\ rbuffer' = rbuffer /\ ~ loop /\ todo <= 0 /\ todo' = todo - 1
        /\ UNCHANGED <<made, tries, written, lost, arg, control, loop>>
    BY <1>a, <1>1 DEF CreateStop, Source, evars, hvars, wvars
  <2>2. PInv' /\ Within' = Within /\ Quiet'
    BY <1>0, <2>1, SourceKeeps, SourceQuiet
  <2>3. /\ pc'[t] = "end" /\ pc'[Main] = pc[Main]
        /\ \A u \in Sources \ {t} : pc'[u] = pc[u]
    BY <1>0, <2>1, SourceMoves, Kinds, Zenon DEF PInv
  <2>4. Device'
    BY <1>0, <2>1, <2>3, Zenon DEF Device
  <2>5. Conserved'
    BY <1>0, <2>1, <2>2, ConservedFrame DEF PInv
  <2>6. Counted'
    <3>1. Out!Quota(todo) = 0 /\ Out!Quota(todo') = 0 /\ todo' <= 0
      BY <1>a, <2>1 DEF Out!Quota
    <3> QED BY <1>0, <2>1, <3>1, Zenon DEF Counted, Out!Quota
  <2> QED BY <2>2, <2>4, <2>5, <2>6 DEF WInv
<1>2. ASSUME CreatePut(t) PROVE WInv'
  <2> DEFINE x == [id |-> made + 1, shift |-> 0]
  <2>1. /\ Source(t, "c_lock") /\ rbuffer' = Append(rbuffer, x) /\ (loop \/ todo > 0)
        /\ made' = made + 1 /\ made < MaxItems /\ todo' = IF loop THEN todo ELSE todo - 1
        /\ UNCHANGED <<tries, written, lost, arg, control, loop>>
    BY <1>a, <1>2 DEF CreatePut, Source, evars, hvars
  <2>2. x \in Fresh /\ x.id = made + 1
    BY <1>a, <2>1, PipelineAssumption, WriterAssumption DEF Fresh
  <2>3. made + 1 \notin Within \cup Ids(written) \cup Ids(lost)
    BY <1>0, <1>a DEF Conserved
  <2> HIDE DEF x
  <2>4. PInv' /\ Within' = Within \cup {made + 1}
    BY <1>0, <2>1, <2>2, <2>3, SourceKeeps
  <2>5. Quiet'
    <3>1. control = 0 => ~ (arg < 0)
      BY <1>0, <1>a, <2>1 DEF Counted, Out!Quota
    <3> QED BY <1>0, <2>1, <3>1, SourceQuiet
  <2>6. /\ pc'[t] = "c_lock" /\ pc'[Main] = pc[Main]
        /\ \A u \in Sources \ {t} : pc'[u] = pc[u]
    BY <1>0, <2>1, SourceMoves, Kinds, Zenon DEF PInv
  <2>7. Device'
    <3>1. made' \in 0 .. MaxItems
      BY <1>a, <2>1, PipelineAssumption
    <3> QED BY <1>0, <2>1, <2>6, <3>1, Zenon DEF Device
  <2>8. Conserved'
    <3>1. (1 .. made) \cup {made + 1} = 1 .. made'
      BY <1>a, <2>1
    <3>2. /\ Within' \cap (Ids(written) \cup Ids(lost)) = {}
          /\ Within' \cup Ids(written) \cup Ids(lost) = 1 .. made'
      BY <1>0, <2>3, <2>4, <3>1 DEF Conserved
    <3>3. Apart'
      BY <2>4 DEF PInv
    <3> QED BY <1>0, <2>1, <3>2, <3>3, Zenon DEF Conserved
  <2>9. Counted'
    <3>1. ~ Ended(Sources)'
      BY <2>6, Zenon DEF Ended
    <3>2. control = 0 /\ arg # 0 => made' + Out!Quota(todo') = Out!Quota(arg)
      BY <1>0, <1>a, <2>1 DEF Counted, Out!Quota
    <3> QED BY <1>0, <2>1, <3>1, <3>2, Zenon DEF Counted, Out!Quota
  <2> QED BY <2>4, <2>5, <2>7, <2>8, <2>9 DEF WInv
<1> QED BY <1>1, <1>2

(* A write_dev thread has written its string, has given it up, or tries    *)
(* again.                                                                  *)
LEMMA WriterWrites ==
  ASSUME WInv, NEW t \in Sinks, WriteAccepted(t) \/ WriteRefused(t)
  PROVE  WInv'
<1>0. PInv /\ Quiet /\ Device /\ Conserved /\ Counted
  BY DEF WInv
<1>a. /\ lost \in Seq(Cased) /\ written \in Seq(Cased \cup {Terminator})
      /\ tries \in [Sinks \cup {Main} -> 0 .. MAX_RETRY + 1]
      /\ \A u \in Sinks : tries[u] < MAX_RETRY
  BY <1>0 DEF Device
<1>b. UNCHANGED made
  BY DEF WriteAccepted, WriteRefused
<1>1. ASSUME Output(t), tries' = [tries EXCEPT ![t] = 0],
             \/ written' = Append(written, item[t]) /\ lost' = lost
             \/ lost' = Append(lost, item[t]) /\ written' = written
      PROVE  WInv'
  <2>1. /\ item[t] \in Cased /\ item[t].id \in Within
        /\ PInv' /\ Within' = Within \ {item[t].id} /\ Quiet'
    BY <1>0, <1>1, OutputKeeps, OwnQuiet
  <2>2. /\ UNCHANGED <<arg, control, loop, todo>> /\ pc[t] = "s_out"
        /\ pc'[Main] = pc[Main] /\ \A u \in Sources : pc'[u] = pc[u]
    BY <1>0, <1>1, Kinds, Zenon DEF Output, Goto, PInv, Labels, rvars, hvars
  <2>3. /\ tries' \in [Sinks \cup {Main} -> 0 .. MAX_RETRY + 1]
        /\ \A u \in Sinks : tries'[u] < MAX_RETRY
    BY <1>a, <1>1 DEF MAX_RETRY
  <2>4. lost' \in Seq(Cased) /\ written' \in Seq(Cased \cup {Terminator})
    <3>1. lost \in Seq(Cased) /\ written \in Seq(Cased \cup {Terminator})
      BY <1>a
    <3>2. Append(lost, item[t]) \in Seq(Cased)
      BY <2>1, <3>1
    <3>3. Append(written, item[t]) \in Seq(Cased \cup {Terminator})
      BY <2>1, <3>1
    <3> QED BY <1>1, <3>1, <3>2, <3>3, Zenon
  <2>5. pc'[Main] # "exit" => written' \in Seq(Cased)
    <3> SUFFICES ASSUME pc[Main] # "exit" PROVE written' \in Seq(Cased)
      BY <2>2, Zenon
    <3>1. written \in Seq(Cased)
      BY <1>0 DEF Device
    <3>2. Append(written, item[t]) \in Seq(Cased)
      BY <2>1, <3>1
    <3> QED BY <1>1, <3>1, <3>2, Zenon
  <2>6. Device'
    BY <1>0, <1>b, <2>2, <2>3, <2>4, <2>5, Zenon DEF Device
  <2>7. Conserved'
    BY <1>0, <1>1, <1>b, <2>1, ConservedMoves DEF PInv
  <2>8. Counted'
    BY <1>0, <1>b, <2>2, CountedFrame, Zenon DEF Ended
  <2> QED BY <2>1, <2>6, <2>7, <2>8 DEF WInv
<1>2. ASSUME WriteRefused(t), tries[t] + 1 < MAX_RETRY PROVE WInv'
  <2>1. /\ UNCHANGED pvars /\ UNCHANGED <<lost, written>>
        /\ tries' = [tries EXCEPT ![t] = tries[t] + 1]
    BY <1>2 DEF WriteRefused, Refuse, pvars, evars
  <2>2. PInv' /\ Within' = Within /\ Quiet'
    BY <1>0, <2>1, StillKeeps, OwnQuiet
  <2>3. UNCHANGED <<pc, arg, control, loop, todo>>
    BY <2>1 DEF pvars, rvars, hvars
  <2>4. /\ tries' \in [Sinks \cup {Main} -> 0 .. MAX_RETRY + 1]
        /\ \A u \in Sinks : tries'[u] < MAX_RETRY
    <3>1. tries[t] \in 0 .. MAX_RETRY + 1 /\ tries[t] + 1 \in 0 .. MAX_RETRY + 1
      BY <1>a, <1>2 DEF MAX_RETRY
    <3> QED BY <1>a, <1>2, <2>1, <3>1
  <2>5. Device'
    BY <1>0, <1>b, <2>1, <2>3, <2>4, Zenon DEF Device
  <2>6. Conserved'
    BY <1>0, <1>b, <2>1, <2>2, ConservedFrame DEF PInv
  <2>7. Counted'
    BY <1>0, <1>b, <2>3, CountedFrame, Zenon DEF Ended
  <2> QED BY <2>2, <2>5, <2>6, <2>7 DEF WInv
<1>3. ASSUME WriteRefused(t), ~ (tries[t] + 1 < MAX_RETRY) PROVE WInv'
  <2>1. tries[t] + 1 = 5
    BY <1>a, <1>3 DEF MAX_RETRY
  <2>2. /\ Output(t) /\ tries' = [tries EXCEPT ![t] = 0]
        /\ lost' = Append(lost, item[t]) /\ written' = written
    BY <1>3, <2>1, Zenon DEF WriteRefused, Refuse, Release, Output
  <2> QED BY <1>1, <2>2
<1>4. ASSUME WriteAccepted(t) PROVE WInv'
  <2>1. /\ Output(t) /\ tries' = [tries EXCEPT ![t] = 0]
        /\ written' = Append(written, item[t]) /\ lost' = lost
    BY <1>4, Zenon DEF WriteAccepted, Accept, Release, Output
  <2> QED BY <1>1, <2>1
<1> QED BY <1>2, <1>3, <1>4

(* dev_done *)
LEMMA WriterDone ==
  ASSUME WInv, DoneAccepted \/ DoneGivesUp \/ DoneRefused
  PROVE  WInv'
<1>0. PInv /\ Quiet /\ Device /\ Conserved /\ Counted
  BY DEF WInv
<1>a. /\ written \in Seq(Cased \cup {Terminator})
      /\ tries \in [Sinks \cup {Main} -> 0 .. MAX_RETRY + 1]
      /\ \A u \in Sinks : tries[u] < MAX_RETRY /\ u # Main
  BY <1>0, Kinds DEF Device
<1>b. UNCHANGED <<made, lost>>
  BY DEF DoneAccepted, DoneGivesUp, DoneRefused
<1>1. ASSUME DoneAccepted \/ DoneGivesUp PROVE WInv'
  <2>1. /\ Leave /\ UNCHANGED <<tries, arg, control, loop, todo>>
        /\ (written' = written \/ written' = Append(written, Terminator))
    BY <1>1, Zenon DEF DoneAccepted, DoneGivesUp, Accept, Leave, rvars, hvars
  <2>2. PInv' /\ Within' = Within /\ Quiet'
    BY <1>0, <2>1, LeaveKeeps, OwnQuiet
  <2>3. pc'[Main] = "exit" /\ \A u \in Sources : pc'[u] = pc[u]
    BY <1>0, <2>1, Kinds, Zenon DEF Leave, Goto, PInv, Labels
  <2>4. written' \in Seq(Cased \cup {Terminator})
    BY <1>a, <2>1
  <2>5. Device'
    BY <1>0, <1>b, <2>1, <2>3, <2>4, Zenon DEF Device
  <2>6. Ids(written') = Ids(written) /\ Once(written')
    <3>1. Once(written)
      BY <1>0 DEF Conserved
    <3> QED BY <1>a, <2>1, <3>1, IdsAppended, Zenon
  <2>7. Apart'
    BY <2>2 DEF PInv
  <2>8. Conserved'
    BY <1>0, <1>b, <2>2, <2>6, <2>7, Zenon DEF Conserved
  <2>9. Counted'
    BY <1>0, <1>b, <2>1, <2>3, CountedFrame, Zenon DEF Ended
  <2> QED BY <2>2, <2>5, <2>8, <2>9 DEF WInv
<1>2. ASSUME DoneRefused PROVE WInv'
  <2>1. /\ UNCHANGED pvars /\ UNCHANGED <<pc, arg, control, loop, todo, written>>
        /\ tries' = [tries EXCEPT ![Main] = tries[Main] + 1] /\ tries[Main] <= MAX_RETRY
    BY <1>2, Zenon DEF DoneRefused, Refuse, pvars, rvars, hvars
  <2>2. PInv' /\ Within' = Within /\ Quiet'
    BY <1>0, <2>1, StillKeeps, OwnQuiet
  <2>3. /\ tries' \in [Sinks \cup {Main} -> 0 .. MAX_RETRY + 1]
        /\ \A u \in Sinks : tries'[u] < MAX_RETRY
    <3>1. tries[Main] + 1 \in 0 .. MAX_RETRY + 1
      BY <1>a, <2>1 DEF MAX_RETRY
    <3> QED BY <1>a, <2>1, <3>1
  <2>4. Device'
    BY <1>0, <1>b, <2>1, <2>3, Zenon DEF Device
  <2>5. Conserved'
    BY <1>0, <1>b, <2>1, <2>2, ConservedFrame DEF PInv
  <2>6. Counted'
    BY <1>0, <1>b, <2>1, CountedFrame, Zenon DEF Ended
  <2> QED BY <2>2, <2>4, <2>5, <2>6 DEF WInv
<1> QED BY <1>1, <1>2

(* SIGINT, and nothing at all *)
LEMMA WriterSignal ==
  ASSUME WInv, UNCHANGED wvars, catcher_SIGINT \/ UNCHANGED pvars
  PROVE  WInv'
<1>0. PInv /\ Quiet /\ Device /\ Conserved /\ Counted
  BY DEF WInv
<1>1. PInv' /\ Within' = Within /\ Quiet'
  BY <1>0, SignalKeeps, SignalQuiet, StillKeeps, OwnQuiet
<1>2. /\ UNCHANGED <<pc, arg, made, tries, written, lost>>
      /\ (UNCHANGED <<control, loop, todo>>) \/ control' # 0
  <2>1. CASE UNCHANGED pvars
    BY <2>1 DEF pvars, rvars, hvars, wvars
  <2>2. CASE Caught
    BY <1>0, <2>2 DEF Caught, PInv, Buffers, wvars
  <2>3. CASE HandlerR \/ HandlerE
    BY <1>0, <2>3 DEF HandlerR, HandlerE, Quiet, wvars
  <2> QED BY <2>1, <2>2, <2>3 DEF catcher_SIGINT
<1>3. Device'
  BY <1>0, <1>2, Zenon DEF Device
<1>4. Conserved'
  BY <1>0, <1>1, <1>2, ConservedFrame DEF PInv
<1>5. Counted'
  <2>1. CASE control' # 0
    BY <2>1 DEF Counted
  <2>2. CASE UNCHANGED <<control, loop, todo>>
    BY <1>0, <1>2, <2>2, CountedFrame, Zenon DEF Ended
  <2> QED BY <1>2, <2>1, <2>2
<1> QED BY <1>1, <1>3, <1>4, <1>5 DEF WInv

(* The invariant holds when the Writer starts. *)
LEMMA WriterStarts == WriterInit => WInv
<1> SUFFICES ASSUME WriterInit PROVE WInv
  OBVIOUS
<1>1. PInv /\ Within = {} /\ Quiet
  BY PipelineStarts DEF WriterInit
<1>2. Device
  <2>1. lost \in Seq(Cased) /\ written \in Seq(Cased) /\ written \in Seq(Cased \cup {Terminator})
    BY DEF WriterInit
  <2>2. \A t \in Sources : pc[t] = "none"
    BY Kinds, Zenon DEF WriterInit, PipelineInit
  <2> QED BY <2>1, <2>2, PipelineAssumption DEF Device, WriterInit, MAX_RETRY
<1>3. Conserved
  <2>1. Ids(written) = {} /\ Once(written) /\ Ids(lost) = {} /\ Once(lost) /\ made = 0
    BY IdsEmpty, Zenon DEF WriterInit
  <2> QED BY <1>1, <2>1 DEF Conserved, PInv
<1>4. Counted
  <2>1. ~ Ended(Sources)
    BY Kinds, PipelineAssumption, Zenon DEF Ended, WriterInit, PipelineInit
  <2>2. made + Out!Quota(todo) = Out!Quota(arg)
    BY PipelineAssumption DEF Out!Quota, WriterInit, PipelineInit
  <2> QED BY <2>1, <2>2, Zenon DEF Counted, WriterInit, PipelineInit
<1> QED BY <1>1, <1>2, <1>3, <1>4 DEF WInv

(* Every step keeps it. *)
LEMMA WriterKeeps == WInv /\ [WriterNext]_<<pvars, wvars>> => WInv'
<1> SUFFICES ASSUME WInv, [WriterNext]_<<pvars, wvars>> PROVE WInv'
  OBVIOUS
<1>1. UNCHANGED <<pvars, wvars>> => UNCHANGED pvars /\ UNCHANGED wvars
  OBVIOUS
<1> QED
  BY <1>1, WriterSteps, WriterShared, WriterCreates, WriterWrites, WriterDone, WriterSignal, Zenon

(* WInv is an invariant of the Writer. *)
LEMMA WriterInvariance == WriterSpec => []WInv
BY WriterStarts, WriterKeeps, PTL DEF WriterSpec

(* However many threads of each kind run and whenever SIGINT comes, the    *)
(* variables of the Writer keep their types: the mutexes are free or with  *)
(* one of the threads that hold them across a step, and no write_dev       *)
(* thread counts past its last attempt.                                    *)
THEOREM WriterTypes == WriterSpec => []WriterTypeOK
<1>1. WInv => WriterTypeOK
  <2> SUFFICES ASSUME WInv PROVE WriterTypeOK
    OBVIOUS
  <2>0. Labels /\ Locks /\ Hands /\ Buffers /\ Device
    BY DEF WInv, PInv
  <2>1. rmutex \in {None, Main} /\ emutex \in Sinks \cup {None, Main}
    BY <2>0 DEF Locks, Device
  <2>2. rcv \subseteq Elabs /\ ecv \subseteq Sinks
    BY <2>0 DEF Labels
  <2>3. \A t \in Workers : item[t] \in Item \cup {None}
    BY <2>0 DEF Hands
  <2>4. rbuffer \in Seq(Item) /\ ebuffer \in Seq(Item) /\ lost \in Seq(Item)
    <3>1. rbuffer \in Seq(Fresh) /\ ebuffer \in Seq(Cased) /\ lost \in Seq(Cased)
      BY <2>0 DEF Buffers, Device
    <3> QED BY <3>1, ItemTypes
  <2>5. written \in Seq(Item \cup {Terminator})
    <3>1. written \in Seq(Cased \cup {Terminator})
      BY <2>0 DEF Device
    <3>2. Cased \cup {Terminator} \subseteq Item \cup {Terminator}
      BY ItemTypes
    <3> QED BY <3>1, <3>2
  <2>6. /\ \A t \in Sinks : tries[t] \in 0 .. MAX_RETRY - 1
        /\ tries[Main] \in 0 .. MAX_RETRY + 1
    <3>1. /\ tries \in [Sinks \cup {Main} -> 0 .. MAX_RETRY + 1]
          /\ \A t \in Sinks : tries[t] < MAX_RETRY
      BY <2>0 DEF Device
    <3>2. \A n \in 0 .. MAX_RETRY + 1 : n < MAX_RETRY => n \in 0 .. MAX_RETRY - 1
      BY DEF MAX_RETRY
    <3> QED BY <3>1, <3>2
  <2> QED BY <2>1, <2>2, <2>3, <2>4, <2>5, <2>6, Zenon DEF WriterTypeOK
<1> QED BY <1>1, WriterInvariance, PTL

(* However many create_data, elaborate_data and write_dev threads hand the *)
(* strings on, and whenever SIGINT comes, every string that was created is *)
(* in exactly one place: none is duplicated and none vanishes.             *)
THEOREM WriterConserves == WriterSpec => []Conserved
<1>1. WInv => Conserved
  BY DEF WInv
<1> QED BY <1>1, WriterInvariance, PTL

(* No step of the Writer puts a string into rbuffer without a signal. *)
LEMMA WriterAlert == WInv /\ Alert /\ [WriterNext]_<<pvars, wvars>> => Alert'
<1> SUFFICES ASSUME WInv, Alert, [WriterNext]_<<pvars, wvars>> PROVE Alert'
  OBVIOUS
<1>0. PInv /\ todo \in Int /\ Device
  BY DEF WInv, PInv, Buffers
<1>1. ASSUME NEW t \in Sources, CreateStop(t) PROVE Alert'
  <2>1. Source(t, "end") /\ rbuffer' = rbuffer
    BY <1>0, <1>1 DEF CreateStop, Source, evars, hvars
  <2> QED BY <1>0, <2>1, SourceAlert
<1>2. ASSUME NEW t \in Sources, CreatePut(t) PROVE Alert'
  <2>1. Source(t, "c_lock") /\ Signal(rcv, "e_lock", t, "c_lock")
    BY <1>0, <1>2 DEF CreatePut, Source, evars, hvars
  <2> QED BY <1>0, <2>1, SourceAlert
<1>3. ASSUME NEW t \in Sinks, WriteAccepted(t) \/ WriteRefused(t) PROVE Output(t) \/ UNCHANGED pvars
  BY <1>3, Zenon DEF WriteAccepted, WriteRefused, Release, Output, pvars, evars
<1>4. ASSUME DoneAccepted \/ DoneGivesUp \/ DoneRefused PROVE Leave \/ UNCHANGED pvars
  BY <1>4, Zenon DEF DoneAccepted, DoneGivesUp, DoneRefused, Leave, pvars
<1>5. UNCHANGED <<pvars, wvars>> => UNCHANGED pvars
  OBVIOUS
<1> QED
  BY <1>0, <1>1, <1>2, <1>3, <1>4, <1>5, WriterSteps, SharedAlert, OwnAlert, SignalAlert, Zenon

(* Alert is an invariant of the Writer. *)
LEMMA WriterStaysAlert == WriterSpec => [](WInv /\ Alert)
<1>1. WriterInit => Alert
  BY AlertStarts DEF WriterInit
<1> QED BY <1>1, WriterStarts, WriterKeeps, WriterAlert, PTL DEF WriterSpec

(* However many threads of each kind the Writer has, whenever SIGINT comes *)
(* and however long the device blocks: until main returns, some thread can *)
(* go on or is inside a call of the device, unless the handler runs on top *)
(* of a release_t that holds the mutex it waits for.                       *)
THEOREM WriterNoDeadlock == WriterSpec => []NoDeadlock
<1>1. WInv /\ Alert => NoDeadlock
  BY AlertNoDeadlock DEF WInv
<1> QED BY <1>1, WriterStaysAlert, PTL

(* No wake-up of the Writer is lost: create_data and elaborate_data signal *)
(* one sleeper for each string, which is enough for strings to be fetched, *)
(* and when main joins a kind of threads none of them sleeps.              *)
THEOREM WriterForgetsNobody == WriterSpec => []NobodyForgotten
<1>1. WInv /\ Alert => NobodyForgotten
  BY AlertForgetsNobody
<1> QED BY <1>1, WriterStaysAlert, PTL

-----------------------------------------------------------------------------
(* The Writer is a Sender. *)

(* As many identities, and as many elements, as there are positions *)
LEMMA Counts ==
  ASSUME NEW S, NEW s \in Seq(S), Terminator \notin S, Once(s)
  PROVE  /\ IsFiniteSet(Ids(s)) /\ Cardinality(Ids(s)) = Len(s)
         /\ Cardinality(Range(s)) = Len(s)
<1>1. /\ Len(s) \in Nat /\ DOMAIN s = 1 .. Len(s)
      /\ \A k \in 1 .. Len(s) : s[k] # Terminator
  OBVIOUS
<1>2. Ids(s) = {s[k].id : k \in 1 .. Len(s)} /\ Range(s) = {s[k] : k \in 1 .. Len(s)}
  BY <1>1 DEF Ids, Range
<1>3. \A j, k \in 1 .. Len(s) : s[j].id = s[k].id => j = k
  BY <1>1 DEF Once
<1> DEFINE f == [k \in 1 .. Len(s) |-> s[k].id]
           g == [k \in 1 .. Len(s) |-> s[k]]
<1>4. f \in Bijection(1 .. Len(s), Ids(s))
  BY <1>2, <1>3, Zenon DEF Bijection, Injection, Surjection, IsInjective
<1>5. g \in Bijection(1 .. Len(s), Range(s))
  BY <1>2, <1>3 DEF Bijection, Injection, Surjection, IsInjective
<1>6. ExistsBijection(1 .. Len(s), Ids(s)) /\ ExistsBijection(1 .. Len(s), Range(s))
  BY <1>4, <1>5 DEF ExistsBijection
<1>7. IsFiniteSet(1 .. Len(s))
  BY <1>1, FS_Interval
<1> QED BY <1>1, <1>6, <1>7, FS_CountingElements, FS_Bijection

(* When nobody interrupted it, main comes to dev_done with every string    *)
(* that was asked for written or reported as lost.                         *)
LEMMA AllSent ==
  ASSUME WInv, pc[Main] = "finish", control = 0
  PROVE  arg # 0 /\ Len(written) + Cardinality(Range(lost)) = Out!Quota(arg)
<1>1. Within = {} /\ Ended(Sources)
  BY AllOut DEF WInv, AfterS
<1>2. written \in Seq(Cased) /\ lost \in Seq(Cased)
  BY DEF WInv, Device
<1>3. /\ arg # 0 /\ todo <= 0 /\ todo \in Int /\ made \in Nat
      /\ made + Out!Quota(todo) = Out!Quota(arg)
  BY <1>1 DEF WInv, Counted, PInv, Buffers, Device
<1>4. made = Out!Quota(arg)
  BY <1>3 DEF Out!Quota
<1>5. /\ Ids(written) \cup Ids(lost) = 1 .. made /\ Ids(written) \cap Ids(lost) = {}
      /\ Once(written) /\ Once(lost)
  BY <1>1, Zenon DEF WInv, Conserved
<1>6. Ids(written) \cup Ids(lost) = 1 .. made /\ Ids(written) \cap Ids(lost) = {}
  BY <1>5
<1>7. /\ IsFiniteSet(Ids(written)) /\ Cardinality(Ids(written)) = Len(written)
      /\ IsFiniteSet(Ids(lost)) /\ Cardinality(Ids(lost)) = Len(lost)
      /\ Cardinality(Range(lost)) = Len(lost)
  BY <1>2, <1>5, ItemTypes, Counts
<1>8. Cardinality(1 .. made) = made
  BY <1>3, FS_Interval
<1>9. Cardinality(1 .. made) = Len(written) + Len(lost) - Cardinality({})
  <2>1. Cardinality(Ids(written) \cup Ids(lost)) =
          Cardinality(Ids(written)) + Cardinality(Ids(lost))
            - Cardinality(Ids(written) \cap Ids(lost))
    BY <1>7, FS_Union
  <2> QED BY <1>6, <1>7, <2>1, Zenon
<1>10. Len(written) \in Nat /\ Len(lost) \in Nat
  BY <1>2
<1> QED BY <1>3, <1>4, <1>7, <1>8, <1>9, <1>10, FS_EmptySet

(* The Writer starts as a Sender does. *)
LEMMA SenderStarts == WriterInit => Out!SenderInit
BY PipelineAssumption DEF WriterInit, PipelineInit, Out!SenderInit, Exited, Range

(* A string in a thread's hands has not been sent or reported. *)
LEMMA NotSentYet ==
  ASSUME WInv, NEW t \in Sinks, pc[t] = "s_out"
  PROVE  /\ item[t] \in [id : 1 .. MaxItems, shift : {32}] /\ ~ Exited
         /\ item[t] \notin Range(written) \cup Range(lost)
<1>1. item[t] \in Cased /\ t \in Carriers
  BY Kinds, ItemTypes DEF WInv, PInv, Hands, Carriers
<1>2. ~ Exited
  BY Zenon DEF WInv, PInv, Stages, Ended, AfterS, Exited
<1>3. item[t].id \in Within
  BY <1>1 DEF Within, Held
<1>4. item[t].id \notin Ids(written) /\ item[t].id \notin Ids(lost)
  BY <1>3 DEF WInv, Conserved
<1>5. item[t] # Terminator
  BY <1>1, ItemTypes
<1>6. item[t] \notin Range(written) /\ item[t] \notin Range(lost)
  BY <1>4, <1>5 DEF Ids, Range
<1>7. item[t] \in [id : 1 .. MaxItems, shift : {32}]
  BY <1>1, WriterAssumption DEF Cased
<1> QED BY <1>2, <1>6, <1>7

(* Every step of the Writer is a step of the Sender, or none. *)
LEMMA SenderStep ==
  ASSUME WInv, [WriterNext]_<<pvars, wvars>>
  PROVE  [Out!SenderNext]_<<arg, written, Range(lost), control > 0, Exited>>
<1> DEFINE Still == UNCHANGED <<arg, written, Range(lost), control > 0, Exited>>
<1>0. Labels /\ PInv
  BY DEF WInv, PInv
<1>1. ASSUME NEW t \in Sinks, WriteAccepted(t) PROVE Out!SenderNext
  <2>1. /\ written' = Append(written, item[t]) /\ UNCHANGED <<arg, lost, control>>
        /\ pc[t] = "s_out"
    BY <1>1 DEF WriteAccepted, Accept, hvars
  <2>2. Exited' = Exited
    BY <1>0, <1>1, Kinds, Zenon DEF WriteAccepted, Release, Goto, Labels, Exited
  <2>3. /\ item[t] \in [id : 1 .. MaxItems, shift : {32}] /\ ~ Exited
        /\ item[t] \notin Range(written) \cup Range(lost)
    BY <2>1, NotSentYet
  <2>4. Out!Send(item[t])
    <3>1. item[t] \notin Out!Range(written) \cup Range(lost)
      BY <2>3 DEF Out!Range, Range
    <3>2. UNCHANGED <<arg, Range(lost), control > 0, Exited>>
      BY <2>1, <2>2, Zenon DEF Range
    <3> QED BY <2>1, <2>3, <3>1, <3>2, Zenon DEF Out!Send
  <2> QED BY <2>3, <2>4, Zenon DEF Out!SenderNext
<1>2. ASSUME NEW t \in Sinks, WriteRefused(t) PROVE Out!SenderNext \/ Still
  <2>1. /\ (lost' = lost \/ lost' = Append(lost, item[t])) /\ UNCHANGED <<arg, written, control>>
        /\ pc[t] = "s_out"
    BY <1>2, Zenon DEF WriteRefused, Refuse, hvars
  <2>2. Exited' = Exited
    BY <1>0, <1>2, Kinds, Zenon DEF WriteRefused, Release, Goto, Labels, Exited
  <2>3. /\ item[t] \in [id : 1 .. MaxItems, shift : {32}] /\ ~ Exited
        /\ item[t] \notin Range(written) \cup Range(lost)
    BY <2>1, NotSentYet, Zenon
  <2>4. CASE lost' = lost
    BY <2>1, <2>2, <2>4, Zenon DEF Range
  <2>5. CASE lost' = Append(lost, item[t])
    <3>1. lost \in Seq(Cased)
      BY DEF WInv, Device
    <3>2. Range(lost') = Range(lost) \cup {item[t]}
      BY <2>3, <2>5, <3>1 DEF Range
    <3>3. item[t] \notin Out!Range(written) \cup Range(lost)
      BY <2>3 DEF Out!Range, Range
    <3>4. Out!Lose(item[t])
      BY <2>1, <2>2, <2>3, <3>2, <3>3, Zenon DEF Out!Lose
    <3> QED BY <2>3, <3>4, Zenon DEF Out!SenderNext
  <2> QED BY <2>1, <2>4, <2>5
<1>3. ASSUME Caught, UNCHANGED wvars PROVE Out!SenderNext
  <2>1. /\ UNCHANGED <<arg, written, lost, pc>> /\ pc[Main] # "exit" /\ control' > 0
    BY <1>0, <1>3 DEF Caught, PInv, Buffers, wvars
  <2>2. Out!Cut
    BY <2>1, Zenon DEF Out!Cut, Exited, Range
  <2> QED BY <2>2 DEF Out!SenderNext
<1>4. ASSUME HandlerR \/ HandlerE, UNCHANGED wvars PROVE Still
  <2>1. UNCHANGED <<arg, written, lost, pc, control>>
    BY <1>4, Zenon DEF HandlerR, HandlerE, wvars
  <2> QED BY <2>1, Zenon DEF Exited, Range
<1>5. ASSUME DoneAccepted \/ DoneGivesUp PROVE Out!SenderNext
  <2>1. /\ pc[Main] = "finish" /\ UNCHANGED <<arg, lost, control>>
        /\ written' \in {written, Append(written, Terminator)}
    BY <1>5, Zenon DEF DoneAccepted, DoneGivesUp, MainAt, Accept, hvars
  <2>2. ~ Exited /\ Exited'
    BY <1>0, <1>5, Kinds, Zenon DEF DoneAccepted, DoneGivesUp, MainAt, Goto, Labels, Exited
  <2>3. control > 0 \/ (arg # 0 /\ Len(written) + Cardinality(Range(lost)) = Out!Quota(arg))
    <3>1. control = 0 \/ control > 0
      BY <1>0 DEF PInv, Buffers
    <3> QED BY <2>1, <3>1, AllSent
  <2>4. Out!End
    BY <2>1, <2>2, <2>3, Zenon DEF Out!End, Range, Cardinality, Out!Cardinality
  <2> QED BY <2>4 DEF Out!SenderNext
<1>6. ASSUME UNCHANGED <<arg, written, lost, control>>, Exited' = Exited PROVE Still
  BY <1>6, Zenon DEF Range
<1> HIDE DEF Still
<1>7. ASSUME NEW t \in Sources, CreateStop(t) \/ CreatePut(t) PROVE Still
  <2>1. UNCHANGED <<arg, written, lost, control>>
    BY <1>7, Zenon DEF CreateStop, CreatePut, hvars, wvars
  <2>2. Exited' = Exited
    BY <1>0, <1>7, Kinds, Zenon DEF CreateStop, CreatePut, Signal, Goto, Labels, Exited
  <2> QED BY <1>6, <2>1, <2>2
<1>8. ASSUME DoneRefused PROVE Still
  BY <1>6, <1>8 DEF DoneRefused, Refuse, Exited, hvars
<1>9. ASSUME Shared, UNCHANGED wvars PROVE Still
  <2>1. UNCHANGED <<arg, written, lost, control>> /\ Exited' = Exited
    BY <1>0, <1>9, SharedEffects DEF wvars, Exited
  <2> QED BY <1>6, <2>1
<1>10. ASSUME UNCHANGED <<pvars, wvars>> PROVE Still
  BY <1>6, <1>10 DEF pvars, hvars, wvars, Exited
<1>11. Out!SenderNext \/ Still
  BY <1>1, <1>2, <1>3, <1>4, <1>5, <1>7, <1>8, <1>9, <1>10, WriterSteps, Zenon DEF catcher_SIGINT
<1> QED BY <1>11 DEF Still

(* However many threads of each kind run and whenever SIGINT comes, the    *)
(* Writer is a Sender to those who read the device: what it writes is      *)
(* lowercase, no string comes twice, a Writer that was not interrupted has *)
(* written or reported exactly as many strings as it was told to before    *)
(* dev_done, and nothing follows the terminator.                           *)
THEOREM WriterIsSender == WriterSpec => ImplementsSender
BY WriterInvariance, SenderStarts, SenderStep, PTL
DEF WriterSpec, ImplementsSender, Out!SenderSpec
=============================================================================
