---------------------------- MODULE ReaderProofs ----------------------------
(***************************************************************************)
(* The program Reader for any number of elaborate_data and print_data      *)
(* threads: no string it has read is duplicated or vanishes, and the       *)
(* Reader is a Receiver.                                                   *)
(***************************************************************************)
EXTENDS Reader, PipelineProofs

(* What the device gives *)
Feed == Fresh \cup {Terminator}

Device ==
  /\ device \in Seq(Feed) /\ taken \in Seq(Feed) /\ printed \in Seq(Cased)
  /\ failed \in Nat
  /\ Once(device) /\ Ids(device) \cap Ids(taken) = {}
  /\ pc[Main] = "setup" => \A t \in Sources : pc[t] = "none"

(* Is a read_dev thread inside read(2)? *)
Reading == IF \E t \in Sources : pc[t] = "r_read" THEN 1 ELSE 0

(* Until SIGINT or the terminator comes, the reads still to be done are    *)
(* those missing from the ones asked for.                                  *)
Counted ==
  control = 0 /\ ~ Ended(Sources) =>
    /\ loop <=> arg = 0
    /\ arg # 0 => Len(taken) + failed + In!Quota(todo) + Reading = In!Quota(arg)

RInv == PInv /\ Quiet /\ Device /\ ReadConserved /\ Counted

(* There is one read_dev thread. *)
LEMMA OneReader ==
  ASSUME NEW t \in Sources
  PROVE  Sources = {t}
<1>1. IsFiniteSet(Sources)
  BY Kinds, FS_Subset, PipelineAssumption
<1>2. \A x : Cardinality(Sources) = 1 => \E y : Sources = {y}
  BY <1>1, FS_Singleton
<1>3. \E y : Sources = {y}
  BY <1>2, ReaderAssumption DEF MAX_RT
<1> QED BY <1>3

(* So the reading is over as soon as it has ended. *)
LEMMA OneReading ==
  ASSUME NEW t \in Sources
  PROVE  /\ Ended(Sources) <=> pc[t] = "end"
         /\ Ended(Sources)' <=> pc'[t] = "end"
         /\ Reading = IF pc[t] = "r_read" THEN 1 ELSE 0
         /\ Reading' = IF pc'[t] = "r_read" THEN 1 ELSE 0
<1>1. Sources = {t}
  BY OneReader
<1> QED BY <1>1 DEF Ended, Reading

(* The steps of the Reader, those it has in common with the Writer apart *)
LEMMA ReaderSteps ==
  ASSUME [ReaderNext]_<<pvars, dvars>>
  PROVE  \/ Shared /\ UNCHANGED dvars
         \/ \E t \in Sources :
              ReadStop(t) \/ ReadBegin(t) \/ ReadString(t) \/ ReadLast(t) \/ ReadFailed(t)
         \/ \E t \in Sinks : PrintOut(t)
         \/ dev_close
         \/ catcher_SIGINT /\ UNCHANGED dvars
         \/ UNCHANGED <<pvars, dvars>>
<1>1. ASSUME NEW t \in Elabs, elaborate_data(t) PROVE Shared
  <2>1. t \in Workers /\ Moves(t)
    BY <1>1, Kinds DEF Moves
  <2> QED BY <2>1 DEF Shared
<1>2. ASSUME NEW t \in Sinks, SinkWait(t) \/ SinkStop(t) \/ SinkTake(t) \/ SinkSpurious(t)
      PROVE  Shared
  <2>1. t \in Workers /\ Moves(t)
    BY <1>2, Kinds DEF Moves, SinkShared
  <2> QED BY <2>1 DEF Shared
<1>3. start \/ wait_for \/ release_t => Shared
  BY DEF Shared
<1> QED
  BY <1>1, <1>2, <1>3, Zenon
  DEF ReaderNext, read_dev, elaborate, print_data, main, closing, interrupt

(* The strings stay where they are. *)
LEMMA ConservedFrame ==
  ASSUME ReadConserved, Apart', Within' = Within, UNCHANGED <<taken, printed>>
  PROVE  ReadConserved'
BY Zenon DEF ReadConserved

(* The counts depend on these variables, and on the read_dev thread. *)
LEMMA CountedFrame ==
  ASSUME Counted, UNCHANGED <<arg, control, loop, todo, taken, failed>>,
         Ended(Sources) => Ended(Sources)', Reading' = Reading
  PROVE  Counted'
BY Zenon DEF Counted, In!Quota

(* The steps the Reader has in common with the Writer *)
LEMMA ReaderShared ==
  ASSUME RInv, Shared, UNCHANGED dvars
  PROVE  RInv'
<1>0. PInv /\ Quiet /\ Device /\ ReadConserved /\ Counted
  BY DEF RInv
<1>1. PInv' /\ Within' = Within /\ Quiet'
  BY <1>0, SharedKeeps, SharedQuiet
<1>2. /\ UNCHANGED <<arg, control, loop, todo>>
      /\ \A t \in Sources : pc'[t] = "r_read" <=> pc[t] = "r_read"
      /\ MainChoose \/ \A t \in Sources : pc'[t] = "end" <=> pc[t] = "end"
  BY <1>0, SharedEffects
<1>3. UNCHANGED <<device, taken, failed, printed>>
  BY DEF dvars
<1>4. pc'[Main] # "setup"
  <2>1. CASE \E t \in Workers : Moves(t)
    BY <1>0, <2>1, ThreadMoves, Zenon DEF PInv, Stages
  <2>2. CASE start
    BY <1>0, <2>2, Kinds, Zenon DEF start, MainChoose, MainCreate, PInv, Labels
  <2>3. CASE wait_for
    BY <1>0, <2>3, Kinds, Zenon DEF wait_for, MainJoin, Goto, PInv, Labels
  <2>4. CASE release_t
    BY <1>0, <2>4, Kinds, Zenon
    DEF release_t, ReleaseRLock, ReleaseRSet, ReleaseREnd, ReleaseELock, ReleaseESet, ReleaseEEnd,
        MainAt, Goto, Broadcast, PInv, Labels
  <2> QED BY <2>1, <2>2, <2>3, <2>4 DEF Shared
<1>5. Device'
  BY <1>0, <1>3, <1>4, Zenon DEF Device
<1>6. ReadConserved'
  BY <1>0, <1>1, <1>3, ConservedFrame DEF PInv
<1>7. Reading' = Reading
  BY <1>2, Zenon DEF Reading
<1>8. Ended(Sources) => Ended(Sources)'
  <2>1. MainChoose => ~ Ended(Sources)
    BY <1>0, PipelineAssumption DEF MainChoose, MainAt, Device, Ended
  <2> QED BY <1>2, <2>1, Zenon DEF Ended
<1>9. Counted'
  BY <1>0, <1>2, <1>3, <1>7, <1>8, CountedFrame
<1> QED BY <1>1, <1>5, <1>6, <1>9 DEF RInv

(* A read_dev thread begins a read, or has done enough of them. *)
LEMMA ReaderTurns ==
  ASSUME RInv, NEW t \in Sources, ReadStop(t) \/ ReadBegin(t)
  PROVE  RInv'
<1>0. PInv /\ Quiet /\ Device /\ ReadConserved /\ Counted
  BY DEF RInv
<1>a. /\ todo \in Int /\ arg \in Int /\ Len(taken) \in Nat /\ failed \in Nat
      /\ t \in Workers /\ pc[t] = "c_lock"
  BY <1>0, Kinds DEF PInv, Buffers, Device, ReadStop, ReadBegin
<1>b. /\ UNCHANGED <<device, taken, failed, printed, arg, control, loop>> /\ rbuffer' = rbuffer
      /\ todo' \in Int
  BY <1>a DEF ReadStop, ReadBegin, dvars, hvars
<1>1. ASSUME NEW label, Source(t, label), Counted' PROVE RInv'
  <2>1. PInv' /\ Within' = Within /\ Quiet'
    BY <1>0, <1>1, <1>b, SourceKeeps, SourceQuiet
  <2>2. pc'[Main] # "setup"
    BY <1>0, <1>1, SourceMoves, SourceStages, Zenon DEF PInv
  <2>3. Device'
    BY <1>0, <1>b, <2>2, Zenon DEF Device
  <2>4. ReadConserved'
    BY <1>0, <1>b, <2>1, ConservedFrame DEF PInv
  <2> QED BY <1>1, <2>1, <2>3, <2>4 DEF RInv
<1>2. ASSUME ReadStop(t) PROVE RInv'
  <2>1. Source(t, "end")
    BY <1>b, <1>2 DEF ReadStop, Source
  <2>2. pc'[t] = "end"
    BY <1>0, <2>1, SourceMoves DEF PInv
  <2>3. Counted'
    BY <2>2, OneReading DEF Counted
  <2> QED BY <1>1, <2>1, <2>3
<1>3. ASSUME ReadBegin(t) PROVE RInv'
  <2>1. /\ Source(t, "r_read") /\ (loop \/ todo > 0)
        /\ todo' = IF loop THEN todo ELSE todo - 1
    BY <1>b, <1>3 DEF ReadBegin, Source
  <2>2. pc'[t] = "r_read"
    BY <1>0, <2>1, SourceMoves DEF PInv
  <2>3. ~ Ended(Sources) /\ Reading = 0 /\ Reading' = 1
    BY <1>a, <2>2, OneReading
  <2>4. control = 0 =>
          /\ loop <=> arg = 0
          /\ arg # 0 => Len(taken) + failed + In!Quota(todo) = In!Quota(arg)
    BY <1>0, <1>a, <2>3 DEF Counted, In!Quota
  <2>5. control = 0 /\ arg # 0 =>
          Len(taken') + failed' + In!Quota(todo') + Reading' = In!Quota(arg')
    BY <1>a, <1>b, <2>1, <2>3, <2>4 DEF In!Quota
  <2>6. Counted'
    BY <1>b, <2>4, <2>5, Zenon DEF Counted, In!Quota
  <2> QED BY <1>1, <2>1, <2>6
<1> QED BY <1>2, <1>3

(* The string read(2) gives is the device's next one. *)
LEMMA TakenFrom ==
  ASSUME Device, ReadConserved, NEW s, Taken(s)
  PROVE  /\ s \in Feed /\ device' \in Seq(Feed) /\ taken' \in Seq(Feed)
         /\ Len(taken') = Len(taken) + 1
         /\ Once(device') /\ Ids(device') \cap Ids(taken') = {}
         /\ s # Terminator => s.id \notin Within /\ Ids(taken') = Ids(taken) \cup {s.id}
         /\ s = Terminator => Ids(taken') = Ids(taken)
<1>1. /\ device \in Seq(Feed) /\ taken \in Seq(Feed) /\ Once(device)
      /\ Ids(device) \cap Ids(taken) = {} /\ Within \subseteq Ids(taken)
  BY DEF Device, ReadConserved
<1>2. /\ device # <<>> /\ s = Head(device) /\ device' = Tail(device)
      /\ taken' = Append(taken, s)
  BY DEF Taken
<1>3. /\ s \in Feed /\ device' \in Seq(Feed) /\ Once(device')
      /\ s # Terminator => s.id \in Ids(device) /\ Ids(device') = Ids(device) \ {s.id}
      /\ s = Terminator => Ids(device') = Ids(device)
  BY <1>1, <1>2, IdsTaken, Zenon
<1>4. /\ s # Terminator => Ids(taken') = Ids(taken) \cup {s.id}
      /\ s = Terminator => Ids(taken') = Ids(taken)
  BY <1>1, <1>2, IdsAppended, Zenon
<1>5. taken' \in Seq(Feed) /\ Len(taken') = Len(taken) + 1
  BY <1>1, <1>2, <1>3
<1>6. Ids(device') \cap Ids(taken') = {} /\ (s # Terminator => s.id \notin Within)
  BY <1>1, <1>3, <1>4
<1> QED BY <1>3, <1>4, <1>5, <1>6

(* read(2) has returned: with a string, with the terminator, or with an    *)
(* error.                                                                  *)
LEMMA ReaderReads ==
  ASSUME RInv, NEW t \in Sources, ReadString(t) \/ ReadLast(t) \/ ReadFailed(t)
  PROVE  RInv'
<1>0. PInv /\ Quiet /\ Device /\ ReadConserved /\ Counted
  BY DEF RInv
<1>a. /\ todo \in Int /\ arg \in Int /\ Len(taken) \in Nat /\ failed \in Nat
      /\ t \in Workers /\ pc[t] = "r_read"
  BY <1>0, Kinds DEF PInv, Buffers, Device, ReadString, ReadLast, ReadFailed
<1>b. UNCHANGED <<printed, arg, control, todo>>
  BY DEF ReadString, ReadLast, ReadFailed, Taken, hvars
<1>c. ~ Ended(Sources) /\ Reading = 1
  BY <1>a, OneReading
<1>d. control = 0 =>
        /\ loop <=> arg = 0
        /\ arg # 0 => Len(taken) + failed + In!Quota(todo) + 1 = In!Quota(arg)
  BY <1>0, <1>c DEF Counted
<1>e. ASSUME NEW label, Source(t, label) PROVE pc'[t] = label /\ pc'[Main] # "setup"
  BY <1>0, <1>e, SourceMoves, SourceStages, Zenon DEF PInv
<1>f. ASSUME Source(t, "c_lock"), loop' = loop, Len(taken') + failed' = Len(taken) + failed + 1,
             Len(taken') \in Nat, failed' \in Nat
      PROVE  Counted'
  <2>1. pc'[t] = "c_lock"
    BY <1>e, <1>f
  <2>2. ~ Ended(Sources)' /\ Reading' = 0
    BY <2>1, OneReading
  <2>3. control = 0 /\ arg # 0 =>
          Len(taken') + failed' + In!Quota(todo) + Reading' = In!Quota(arg)
    BY <1>a, <1>d, <1>f, <2>2 DEF In!Quota
  <2> QED BY <1>b, <1>d, <1>f, <2>3, Zenon DEF Counted, In!Quota
<1>1. ASSUME NEW s \in Item, ReadString(t), Taken(s), rbuffer' = Append(rbuffer, s)
      PROVE  RInv'
  <2>1. Source(t, "c_lock") /\ loop' = loop /\ failed' = failed
    BY <1>a, <1>1 DEF ReadString, Taken, Source
  <2>2. /\ s \in Feed /\ device' \in Seq(Feed) /\ taken' \in Seq(Feed)
        /\ Len(taken') = Len(taken) + 1
        /\ Once(device') /\ Ids(device') \cap Ids(taken') = {}
        /\ s # Terminator => s.id \notin Within /\ Ids(taken') = Ids(taken) \cup {s.id}
    BY <1>0, <1>1, TakenFrom, Zenon
  <2>3. s \in Fresh /\ s # Terminator
    BY <2>2, ItemTypes DEF Feed
  <2>4. PInv' /\ Within' = Within \cup {s.id}
    BY <1>0, <1>1, <2>1, <2>2, <2>3, SourceKeeps, Zenon
  <2>5. Quiet'
    <3>1. control = 0 => ~ (arg < 0)
      BY <1>a, <1>d DEF In!Quota
    <3> QED BY <1>0, <2>1, <3>1, SourceQuiet
  <2>6. Device'
    <3>1. pc'[Main] # "setup"
      BY <1>e, <2>1
    <3> QED BY <1>0, <1>b, <2>1, <2>2, <3>1, Zenon DEF Device
  <2>7. ReadConserved'
    <3>1. Apart'
      BY <2>4 DEF PInv
    <3>2. s.id \notin Ids(printed)
      <4>1. s.id \in Ids(device) \/ s.id \notin Ids(taken)
        BY <1>0, <1>1, <2>3, IdsTaken, Zenon DEF Taken, Device
      <4> QED BY <1>0, <4>1 DEF ReadConserved, Device
    <3>3. /\ Within' \cap Ids(printed) = {} /\ Within' \cup Ids(printed) = Ids(taken')
      BY <1>0, <2>2, <2>3, <2>4, <3>2 DEF ReadConserved
    <3> QED BY <1>0, <1>b, <3>1, <3>3, Zenon DEF ReadConserved
  <2>8. Counted'
    BY <1>a, <1>f, <2>1, <2>2
  <2> QED BY <2>4, <2>5, <2>6, <2>7, <2>8 DEF RInv
<1>2. ASSUME ReadLast(t) PROVE RInv'
  <2>1. Source(t, "end") /\ failed' = failed /\ rbuffer' = rbuffer /\ Taken(Terminator)
    BY <1>a, <1>2 DEF ReadLast, Taken, Source
  <2>2. /\ device' \in Seq(Feed) /\ taken' \in Seq(Feed)
        /\ Once(device') /\ Ids(device') \cap Ids(taken') = {} /\ Ids(taken') = Ids(taken)
    BY <1>0, <2>1, TakenFrom, Zenon
  <2>3. PInv' /\ Within' = Within /\ Quiet'
    BY <1>0, <2>1, SourceKeeps, SourceQuiet
  <2>4. Device'
    <3>1. pc'[Main] # "setup"
      BY <1>e, <2>1
    <3> QED BY <1>0, <1>b, <2>1, <2>2, <3>1, Zenon DEF Device
  <2>5. ReadConserved'
    <3>1. Apart'
      BY <2>3 DEF PInv
    <3> QED BY <1>0, <1>b, <2>2, <2>3, <3>1, Zenon DEF ReadConserved
  <2>6. Counted'
    <3>1. Ended(Sources)'
      BY <1>e, <2>1, OneReading
    <3> QED BY <3>1 DEF Counted
  <2> QED BY <2>3, <2>4, <2>5, <2>6 DEF RInv
<1>3. ASSUME ReadFailed(t) PROVE RInv'
  <2>1. /\ Source(t, "c_lock") /\ failed' = failed + 1 /\ rbuffer' = rbuffer
        /\ UNCHANGED <<device, taken, loop>>
    BY <1>a, <1>3 DEF ReadFailed, Source
  <2>2. PInv' /\ Within' = Within /\ Quiet'
    BY <1>0, <2>1, SourceKeeps, SourceQuiet
  <2>3. Device'
    <3>1. pc'[Main] # "setup"
      BY <1>e, <2>1
    <3>2. failed' \in Nat
      BY <1>a, <2>1
    <3> QED BY <1>0, <1>b, <2>1, <3>1, <3>2, Zenon DEF Device
  <2>4. ReadConserved'
    BY <1>0, <1>b, <2>1, <2>2, ConservedFrame DEF PInv
  <2>5. Counted'
    BY <1>a, <1>f, <2>1
  <2> QED BY <2>2, <2>3, <2>4, <2>5 DEF RInv
<1>4. ReadString(t) => \E s \in Item : Taken(s) /\ rbuffer' = Append(rbuffer, s)
  BY DEF ReadString
<1> QED BY <1>1, <1>2, <1>3, <1>4

(* A print_data thread prints its string. *)
LEMMA ReaderPrints ==
  ASSUME RInv, NEW t \in Sinks, PrintOut(t)
  PROVE  RInv' /\ item[t] \in Cased /\ item[t].id \in Within
<1>0. PInv /\ Quiet /\ Device /\ ReadConserved /\ Counted
  BY DEF RInv
<1>1. /\ Output(t) /\ printed' = Append(printed, item[t]) /\ UNCHANGED <<device, taken, failed>>
  BY DEF PrintOut, Output
<1>2. /\ item[t] \in Cased /\ item[t].id \in Within
      /\ PInv' /\ Within' = Within \ {item[t].id} /\ Quiet'
  BY <1>0, <1>1, OutputKeeps, OwnQuiet
<1>3. /\ UNCHANGED <<arg, control, loop, todo>>
      /\ pc'[Main] = pc[Main] /\ \A u \in Sources : pc'[u] = pc[u]
  BY <1>0, <1>1, Kinds, Zenon DEF Output, Goto, PInv, Labels, rvars, hvars
<1>4. printed \in Seq(Cased) /\ printed' \in Seq(Cased)
  <2>1. printed \in Seq(Cased)
    BY <1>0 DEF Device
  <2> QED BY <1>1, <1>2, <2>1
<1>5. Device'
  BY <1>0, <1>1, <1>3, <1>4, Zenon DEF Device
<1>6. ReadConserved'
  <2>1. /\ Once(printed) /\ Within \cap Ids(printed) = {}
        /\ Within \cup Ids(printed) = Ids(taken)
    BY <1>0 DEF ReadConserved
  <2>2. item[t] # Terminator /\ item[t].id \notin Ids(printed)
    BY <1>2, <2>1, ItemTypes
  <2>3. Ids(printed') = Ids(printed) \cup {item[t].id} /\ Once(printed')
    BY <1>1, <1>4, <2>1, <2>2, IdsAppended, Zenon
  <2>4. Within' \cap Ids(printed') = {} /\ Within' \cup Ids(printed') = Ids(taken)
    BY <1>2, <2>1, <2>3
  <2>5. Apart'
    BY <1>2 DEF PInv
  <2>6. \A k \in DOMAIN printed' : printed'[k].shift = 0
    <3>1. \A x \in Cased : x.shift = 0
      BY ReaderAssumption DEF Cased
    <3> QED BY <1>4, <3>1
  <2> QED BY <1>1, <2>3, <2>4, <2>5, <2>6, Zenon DEF ReadConserved
<1>7. Counted'
  BY <1>0, <1>1, <1>3, CountedFrame, Zenon DEF Ended, Reading
<1> QED BY <1>2, <1>5, <1>6, <1>7 DEF RInv

(* SIGINT, the end of main, and nothing at all *)
LEMMA ReaderSignal ==
  ASSUME RInv, UNCHANGED dvars, catcher_SIGINT \/ Leave \/ UNCHANGED pvars
  PROVE  RInv'
<1>0. PInv /\ Quiet /\ Device /\ ReadConserved /\ Counted
  BY DEF RInv
<1>1. PInv' /\ Within' = Within /\ Quiet'
  BY <1>0, SignalKeeps, SignalQuiet, LeaveKeeps, StillKeeps, OwnQuiet
<1>2. /\ UNCHANGED <<arg, device, taken, failed, printed>>
      /\ pc'[Main] \in {pc[Main], "exit"} /\ \A t \in Sources : pc'[t] = pc[t]
      /\ (UNCHANGED <<control, loop, todo>>) \/ control' # 0
  <2>1. CASE UNCHANGED pvars
    BY <2>1 DEF pvars, rvars, hvars, dvars
  <2>2. CASE Caught
    BY <1>0, <2>2 DEF Caught, PInv, Buffers, dvars
  <2>3. CASE HandlerR \/ HandlerE
    BY <1>0, <2>3 DEF HandlerR, HandlerE, Quiet, dvars
  <2>4. CASE Leave
    BY <1>0, <2>4, Kinds, Zenon DEF Leave, Goto, PInv, Labels, rvars, hvars, dvars
  <2> QED BY <2>1, <2>2, <2>3, <2>4 DEF catcher_SIGINT
<1>3. Device'
  <2>1. pc'[Main] = "setup" => pc[Main] = "setup"
    BY <1>2
  <2> QED BY <1>0, <1>2, <2>1, Zenon DEF Device
<1>4. ReadConserved'
  BY <1>0, <1>1, <1>2, ConservedFrame DEF PInv
<1>5. Counted'
  <2>1. CASE control' # 0
    BY <2>1 DEF Counted
  <2>2. CASE UNCHANGED <<control, loop, todo>>
    BY <1>0, <1>2, <2>2, CountedFrame, Zenon DEF Ended, Reading
  <2> QED BY <1>2, <2>1, <2>2
<1> QED BY <1>1, <1>3, <1>4, <1>5 DEF RInv

(* What may be in the device has no string twice. *)
LEMMA FeedsTypes ==
  ASSUME NEW d \in Feeds
  PROVE  d \in Seq(Feed) /\ Once(d)
<1>0. PICK n \in 0 .. MaxItems :
        d \in {[k \in 1 .. n |-> IF k \in ends THEN Terminator ELSE [id |-> k, shift |-> 32]] :
                 ends \in SUBSET (1 .. n)}
  BY Zenon DEF Feeds
<1>1. PICK ends \in SUBSET (1 .. n) :
        d = [k \in 1 .. n |-> IF k \in ends THEN Terminator ELSE [id |-> k, shift |-> 32]]
  BY <1>0, Zenon
<1>2. n \in Nat /\ \A k \in 1 .. n : k \in 1 .. MaxItems
  BY PipelineAssumption
<1>3. /\ DOMAIN d = 1 .. n /\ \A k \in 1 .. n : d[k] # Terminator => d[k].id = k
  BY <1>1
<1>4. \A k \in 1 .. n : d[k] \in Feed
  BY <1>1, <1>2, ReaderAssumption DEF Feed, Fresh
<1>5. d \in [1 .. n -> Feed]
  BY <1>1, <1>4
<1>6. d \in Seq(Feed)
  BY <1>2, <1>5
<1>7. Once(d)
  BY <1>3 DEF Once
<1> QED BY <1>6, <1>7

(* The invariant holds when the Reader starts. *)
LEMMA ReaderStarts == ReaderInit => RInv
<1> SUFFICES ASSUME ReaderInit PROVE RInv
  OBVIOUS
<1>1. PInv /\ Within = {} /\ Quiet
  BY PipelineStarts DEF ReaderInit
<1>2. \A t \in Sources : pc[t] = "none"
  BY Kinds, Zenon DEF ReaderInit, PipelineInit
<1>3. Ids(taken) = {} /\ Ids(printed) = {} /\ Once(printed)
  BY IdsEmpty, Zenon DEF ReaderInit
<1>4. Device
  <2>1. device \in Seq(Feed) /\ Once(device)
    BY FeedsTypes DEF ReaderInit
  <2>2. taken \in Seq(Feed) /\ printed \in Seq(Cased) /\ failed \in Nat
    BY DEF ReaderInit
  <2> QED BY <1>2, <1>3, <2>1, <2>2 DEF Device
<1>5. ReadConserved
  <2>1. \A k \in DOMAIN printed : printed[k].shift = 0
    BY DEF ReaderInit
  <2> QED BY <1>1, <1>3, <2>1 DEF ReadConserved, PInv
<1>6. Counted
  <2>1. Reading = 0
    BY <1>2, Zenon DEF Reading
  <2>2. Len(taken) + failed + In!Quota(todo) + Reading = In!Quota(arg)
    BY <2>1, PipelineAssumption DEF In!Quota, ReaderInit, PipelineInit
  <2> QED BY <2>2, Zenon DEF Counted, ReaderInit, PipelineInit
<1> QED BY <1>1, <1>4, <1>5, <1>6 DEF RInv

(* Every step keeps it. *)
LEMMA ReaderKeeps == RInv /\ [ReaderNext]_<<pvars, dvars>> => RInv'
<1> SUFFICES ASSUME RInv, [ReaderNext]_<<pvars, dvars>> PROVE RInv'
  OBVIOUS
<1>1. UNCHANGED <<pvars, dvars>> => UNCHANGED pvars /\ UNCHANGED dvars
  OBVIOUS
<1>2. dev_close => Leave /\ UNCHANGED dvars
  BY DEF dev_close, Leave
<1> QED
  BY <1>1, <1>2, ReaderSteps, ReaderShared, ReaderTurns, ReaderReads, ReaderPrints, ReaderSignal,
     Zenon

(* RInv is an invariant of the Reader. *)
LEMMA ReaderInvariance == ReaderSpec => []RInv
BY ReaderStarts, ReaderKeeps, PTL DEF ReaderSpec

(* However many elaborate_data and print_data threads run and whenever     *)
(* SIGINT comes, the variables of the Reader keep their types, and the     *)
(* read_dev thread holds rmutex exactly while it is inside read(2).        *)
THEOREM ReaderTypes == ReaderSpec => []ReaderTypeOK
<1>1. RInv => ReaderTypeOK
  <2> SUFFICES ASSUME RInv PROVE ReaderTypeOK
    OBVIOUS
  <2>0. Labels /\ Locks /\ Hands /\ Buffers /\ Device
    BY DEF RInv, PInv
  <2>1. /\ rmutex \in Sources \cup {None, Main} /\ emutex \in Sinks \cup {None, Main}
        /\ \A t \in Sources : rmutex = t <=> pc[t] = "r_read"
    BY <2>0 DEF Locks
  <2>2. rcv \subseteq Elabs /\ ecv \subseteq Sinks
    BY <2>0 DEF Labels
  <2>3. \A t \in Workers : item[t] \in Item \cup {None}
    BY <2>0 DEF Hands
  <2>4. rbuffer \in Seq(Item) /\ ebuffer \in Seq(Item) /\ printed \in Seq(Item)
    <3>1. rbuffer \in Seq(Fresh) /\ ebuffer \in Seq(Cased) /\ printed \in Seq(Cased)
      BY <2>0 DEF Buffers, Device
    <3> QED BY <3>1, ItemTypes
  <2>5. taken \in Seq(Item \cup {Terminator})
    <3>1. taken \in Seq(Feed)
      BY <2>0 DEF Device
    <3>2. Feed \subseteq Item \cup {Terminator}
      BY ItemTypes DEF Feed
    <3> QED BY <3>1, <3>2
  <2> QED BY <2>1, <2>2, <2>3, <2>4, <2>5, Zenon DEF ReaderTypeOK
<1> QED BY <1>1, ReaderInvariance, PTL

(* However many elaborate_data and print_data threads hand the strings on, *)
(* and whenever SIGINT comes, every string that was read is in exactly one *)
(* place: none is printed twice and none vanishes.                         *)
THEOREM ReaderConserves == ReaderSpec => []ReadConserved
<1>1. RInv => ReadConserved
  BY DEF RInv
<1> QED BY <1>1, ReaderInvariance, PTL

(* No step of the Reader puts a string into rbuffer without a signal. *)
LEMMA ReaderAlert == RInv /\ Alert /\ [ReaderNext]_<<pvars, dvars>> => Alert'
<1> SUFFICES ASSUME RInv, Alert, [ReaderNext]_<<pvars, dvars>> PROVE Alert'
  OBVIOUS
<1>0. PInv /\ todo \in Int
  BY DEF RInv, PInv, Buffers
<1>1. ASSUME NEW t \in Sources, ReadStop(t) PROVE Alert'
  <2>1. Source(t, "end") /\ rbuffer' = rbuffer
    BY <1>0, <1>1 DEF ReadStop, Source, evars, hvars
  <2> QED BY <1>0, <2>1, SourceAlert
<1>2. ASSUME NEW t \in Sources, ReadBegin(t) PROVE Alert'
  <2>1. Source(t, "r_read") /\ rbuffer' = rbuffer
    BY <1>0, <1>2 DEF ReadBegin, Source, evars, hvars
  <2> QED BY <1>0, <2>1, SourceAlert
<1>3. ASSUME NEW t \in Sources, ReadString(t) \/ ReadFailed(t) PROVE Alert'
  <2>1. Source(t, "c_lock") /\ Signal(rcv, "e_lock", t, "c_lock")
    BY <1>0, <1>3, Zenon DEF ReadString, ReadFailed, Source, evars, hvars
  <2> QED BY <1>0, <2>1, SourceAlert
<1>4. ASSUME NEW t \in Sources, ReadLast(t) PROVE Alert'
  <2>1. Source(t, "end") /\ Signal(rcv, "e_lock", t, "end")
    BY <1>0, <1>4, Zenon DEF ReadLast, Source, evars, hvars
  <2> QED BY <1>0, <2>1, SourceAlert
<1>5. ASSUME NEW t \in Sinks, PrintOut(t) PROVE Output(t)
  BY <1>5, Zenon DEF PrintOut, Output
<1>6. dev_close => Leave
  BY Zenon DEF dev_close, Leave
<1>7. UNCHANGED <<pvars, dvars>> => UNCHANGED pvars
  OBVIOUS
<1> QED
  BY <1>0, <1>1, <1>2, <1>3, <1>4, <1>5, <1>6, <1>7, ReaderSteps, SharedAlert, OwnAlert,
     SignalAlert, Zenon

(* Alert is an invariant of the Reader. *)
LEMMA ReaderStaysAlert == ReaderSpec => [](RInv /\ Alert)
<1>1. ReaderInit => Alert
  BY AlertStarts DEF ReaderInit
<1> QED BY <1>1, ReaderStarts, ReaderKeeps, ReaderAlert, PTL DEF ReaderSpec

(* However many elaborate_data and print_data threads the Reader has,      *)
(* whenever SIGINT comes and however long read(2) keeps rmutex: until main *)
(* returns, some thread can go on or is inside a call of the device,       *)
(* unless the handler runs on top of a release_t that holds the mutex it   *)
(* waits for.                                                              *)
THEOREM ReaderNoDeadlock == ReaderSpec => []NoDeadlock
<1>1. RInv /\ Alert => NoDeadlock
  BY AlertNoDeadlock DEF RInv
<1> QED BY <1>1, ReaderStaysAlert, PTL

(* No wake-up of the Reader is lost: read_dev and elaborate_data signal    *)
(* one sleeper for each string, which is enough for strings to be fetched, *)
(* and when main joins a kind of threads none of them sleeps.              *)
THEOREM ReaderForgetsNobody == ReaderSpec => []NobodyForgotten
<1>1. RInv /\ Alert => NobodyForgotten
  BY AlertForgetsNobody
<1> QED BY <1>1, ReaderStaysAlert, PTL

-----------------------------------------------------------------------------
(* The Reader is a Receiver. *)

Phase ==
  IF Exited THEN "closed"
  ELSE IF \A t \in Sources : pc[t] = "end" THEN "draining" ELSE "reading"

Shown == {Original(printed[k]) : k \in DOMAIN printed}

(* A string that was read looks like this, and so does one that is printed *)
(* as it was when it left the device.                                      *)
LEMMA Originals ==
  /\ Fresh = [id : 1 .. MaxItems, shift : {32}]
  /\ \A s \in Cased : Original(s) \in Fresh /\ Original(s).id = s.id
  /\ \A r, s \in Fresh : r.id = s.id => r = s
<1>1. Fresh = [id : 1 .. MaxItems, shift : {32}]
  BY ReaderAssumption DEF Fresh
<1>2. \A s \in Cased : Original(s) \in Fresh /\ Original(s).id = s.id
  BY <1>1 DEF Cased, Original
<1>3. \A r, s \in Fresh : r.id = s.id => r = s
  BY <1>1
<1> QED BY <1>1, <1>2, <1>3

(* What is shown is known by its identities. *)
LEMMA ShownIds ==
  ASSUME Device, NEW s \in Fresh
  PROVE  /\ s \in Shown <=> s.id \in Ids(printed)
         /\ s \in Range(taken) <=> s.id \in Ids(taken)
<1>1. /\ \A k \in DOMAIN printed : printed[k] \in Cased
      /\ \A k \in DOMAIN taken : taken[k] \in Fresh \cup {Terminator}
  BY DEF Device, Feed
<1>2. /\ \A x \in Cased : x # Terminator /\ (Original(x) = s <=> x.id = s.id)
      /\ \A x \in Fresh : x # Terminator /\ (x = s <=> x.id = s.id)
  <2>1. \A x \in Cased : Original(x) = s <=> x.id = s.id
    <3> TAKE x \in Cased
    <3>1. Original(x) \in Fresh /\ Original(x).id = x.id
      BY Originals
    <3>2. Original(x).id = s.id => Original(x) = s
      BY <3>1, Originals
    <3> QED BY <3>1, <3>2, Zenon
  <2>2. \A x \in Fresh : x.id = s.id => x = s
    BY Originals
  <2> QED BY <2>1, <2>2, ItemTypes, Zenon
<1>3. /\ \A k \in DOMAIN printed :
           printed[k] # Terminator /\ (Original(printed[k]) = s <=> printed[k].id = s.id)
      /\ \A k \in DOMAIN taken : taken[k] = s <=> (taken[k] # Terminator /\ taken[k].id = s.id)
  <2>1. s # Terminator
    BY <1>2
  <2> QED BY <1>1, <1>2, <2>1, Zenon
<1>4. s \in Shown <=> s.id \in Ids(printed)
  BY <1>3 DEF Shown, Ids
<1>5. s \in Range(taken) <=> s.id \in Ids(taken)
  BY <1>3 DEF Range, Ids
<1> QED BY <1>4, <1>5

(* The Reader starts as a Receiver does. *)
LEMMA ReceiverStarts == ReaderInit => In!ReceiverInit
<1> SUFFICES ASSUME ReaderInit PROVE In!ReceiverInit
  OBVIOUS
<1>1. pc[Main] = "setup" /\ \A t \in Sources : pc[t] = "none"
  BY Kinds, Zenon DEF ReaderInit, PipelineInit
<1>2. ~ Exited /\ ~ \A t \in Sources : pc[t] = "end"
  BY <1>1, PipelineAssumption DEF Exited
<1>3. {Original(printed[k]) : k \in DOMAIN printed} = {}
  BY DEF ReaderInit
<1>4. arg \in Int /\ taken = <<>> /\ failed = 0 /\ ~ (control > 0)
  BY PipelineAssumption DEF ReaderInit, PipelineInit
<1> QED BY <1>2, <1>3, <1>4 DEF In!ReceiverInit

(* A step of the read_dev thread is made while the Receiver is reading. *)
LEMMA SourcePhase ==
  ASSUME RInv, NEW t \in Sources, NEW label, Source(t, label)
  PROVE  /\ Phase = "reading" /\ Phase' = IF label = "end" THEN "draining" ELSE "reading"
         /\ UNCHANGED <<arg, control>>
<1>0. PInv
  BY DEF RInv
<1>1. ~ Exited /\ ~ Exited'
  <2>1. pc[Main] \notin {"setup", "create"} \cup AfterC /\ pc'[Main] = pc[Main]
    BY <1>0, SourceStages, SourceMoves DEF PInv
  <2> QED BY <2>1 DEF Exited, AfterC, AfterRSet, AfterE, AfterESet, AfterS
<1>2. pc[t] # "end" /\ pc'[t] = label
  BY <1>0, SourceMoves DEF PInv, Source
<1>3. /\ (\A u \in Sources : pc[u] = "end") <=> pc[t] = "end"
      /\ (\A u \in Sources : pc'[u] = "end") <=> pc'[t] = "end"
  BY OneReader
<1>4. Phase = "reading" /\ Phase' = IF label = "end" THEN "draining" ELSE "reading"
  BY <1>1, <1>2, <1>3 DEF Phase
<1>5. UNCHANGED <<arg, control>>
  BY DEF Source, hvars
<1> QED BY <1>4, <1>5

(* What the read_dev thread does, the Receiver does. *)
LEMMA ReceiverReads ==
  ASSUME RInv, NEW t \in Sources,
         ReadStop(t) \/ ReadBegin(t) \/ ReadString(t) \/ ReadLast(t) \/ ReadFailed(t)
  PROVE  In!ReceiverNext \/ UNCHANGED <<arg, taken, failed, Shown, control > 0, Phase>>
<1>0. /\ todo \in Int /\ arg \in Int /\ Len(taken) \in Nat /\ failed \in Nat
      /\ control \in Nat /\ Device /\ ReadConserved
  BY DEF RInv, PInv, Buffers, Device
<1>1. printed' = printed /\ Shown' = Shown
  BY DEF ReadStop, ReadBegin, ReadString, ReadLast, ReadFailed, Taken, dvars, Shown
<1>2. ASSUME ReadStop(t) PROVE In!Stop
  <2>1. /\ Source(t, "end") /\ UNCHANGED <<taken, failed>> /\ ~ loop /\ todo <= 0
        /\ pc[t] = "c_lock"
    BY <1>0, <1>2 DEF ReadStop, Source, dvars
  <2>2. Phase = "reading" /\ Phase' = "draining" /\ UNCHANGED <<arg, control>>
    BY <2>1, SourcePhase
  <2>3. control > 0 \/ (arg # 0 /\ Len(taken) + failed = In!Quota(arg))
    <3>1. ~ Ended(Sources) /\ Reading = 0
      BY <2>1, OneReading
    <3> QED BY <1>0, <2>1, <3>1 DEF RInv, Counted, In!Quota
  <2> QED BY <1>1, <2>1, <2>2, <2>3, Zenon DEF In!Stop, Phase, Shown
<1>3. ASSUME ReadBegin(t) PROVE UNCHANGED <<arg, taken, failed, Shown, control > 0, Phase>>
  <2>1. todo' \in Int
    BY <1>0, <1>3 DEF ReadBegin
  <2>2. Source(t, "r_read") /\ UNCHANGED <<taken, failed>>
    BY <1>3, <2>1 DEF ReadBegin, Source, dvars
  <2>3. Phase' = Phase /\ UNCHANGED <<arg, control>>
    BY <2>2, SourcePhase
  <2> QED BY <1>1, <2>2, <2>3, Zenon
<1>4. ASSUME NEW s \in Item, ReadString(t), Taken(s)
      PROVE  s \in [id : 1 .. MaxItems, shift : {32}] /\ In!Take(s)
  <2>1. Source(t, "c_lock") /\ failed' = failed /\ taken' = Append(taken, s)
    BY <1>0, <1>4 DEF ReadString, Taken, Source
  <2>2. Phase = "reading" /\ Phase' = "reading" /\ UNCHANGED <<arg, control>>
    BY <2>1, SourcePhase
  <2>3. s \in Feed
    BY <1>0, <1>4, TakenFrom
  <2>4. s \in [id : 1 .. MaxItems, shift : {32}] /\ s # Terminator
    BY <2>3, ItemTypes, Originals DEF Feed
  <2> QED BY <1>1, <2>1, <2>2, <2>4, Zenon DEF In!Take, Phase, Shown
<1>5. ASSUME ReadLast(t) PROVE In!Take(Terminator)
  <2>1. Source(t, "end") /\ failed' = failed /\ taken' = Append(taken, Terminator)
    BY <1>0, <1>5 DEF ReadLast, Taken, Source
  <2>2. Phase = "reading" /\ Phase' = "draining" /\ UNCHANGED <<arg, control>>
    BY <2>1, SourcePhase
  <2> QED BY <1>1, <2>1, <2>2, Zenon DEF In!Take, Phase, Shown
<1>6. ASSUME ReadFailed(t) PROVE In!Miss
  <2>1. Source(t, "c_lock") /\ failed' = failed + 1 /\ taken' = taken
    BY <1>0, <1>6 DEF ReadFailed, Source
  <2>2. Phase = "reading" /\ Phase' = "reading" /\ UNCHANGED <<arg, control>>
    BY <2>1, SourcePhase
  <2> QED BY <1>1, <2>1, <2>2, Zenon DEF In!Miss, Phase, Shown
<1>7. ReadString(t) => \E s \in Item : Taken(s)
  BY DEF ReadString
<1> QED BY <1>2, <1>3, <1>4, <1>5, <1>6, <1>7, Zenon DEF In!ReceiverNext

(* What a print_data thread prints is shown. *)
LEMMA ReceiverShows ==
  ASSUME RInv, NEW t \in Sinks, PrintOut(t)
  PROVE  In!ReceiverNext
<1>0. PInv /\ Device /\ ReadConserved /\ item[t] \in Cased /\ item[t].id \in Within
  BY ReaderPrints DEF RInv
<1>1. /\ pc[t] = "s_out" /\ printed' = Append(printed, item[t])
      /\ UNCHANGED <<taken, failed, arg, control>>
      /\ pc'[Main] = pc[Main] /\ \A u \in Sources : pc'[u] = pc[u]
  BY <1>0, Kinds, Zenon DEF PrintOut, Goto, PInv, Labels, hvars
<1>2. Phase' = Phase /\ Phase # "closed"
  <2>1. ~ Exited
    BY <1>0, <1>1, Zenon DEF PInv, Stages, Ended, AfterS, Exited
  <2>2. Exited' = Exited
    BY <1>1, Zenon DEF Exited
  <2>3. Phase \in {"draining", "reading"}
    BY <2>1 DEF Phase
  <2> QED BY <1>1, <2>2, <2>3, Zenon DEF Phase
<1> DEFINE s == Original(item[t])
<1>3. s \in Fresh /\ s.id = item[t].id
  BY <1>0, Originals
<1> HIDE DEF s
<1>4. s \in Range(taken) /\ s \notin Shown /\ s # Terminator
  <2>1. s.id \in Ids(taken) /\ s.id \notin Ids(printed)
    BY <1>0, <1>3 DEF ReadConserved
  <2> QED BY <1>0, <1>3, <2>1, ShownIds, ItemTypes
<1>5. Shown' = Shown \cup {s}
  <2>1. printed \in Seq(Cased)
    BY <1>0 DEF Device
  <2>2. /\ DOMAIN printed' = DOMAIN printed \cup {Len(printed) + 1}
        /\ \A k \in DOMAIN printed : printed'[k] = printed[k]
        /\ printed'[Len(printed) + 1] = item[t]
    BY <1>1, <2>1
  <2> QED BY <2>2, Zenon DEF Shown, s
<1>6. In!Show(s)
  <2>1. s \in In!Range(taken)
    BY <1>4 DEF In!Range, Range
  <2> QED BY <1>1, <1>2, <1>4, <1>5, <2>1, Zenon DEF In!Show, Phase, Shown
<1>7. s \in [id : 1 .. MaxItems, shift : {32}]
  BY <1>3, Originals
<1> QED BY <1>6, <1>7, Zenon DEF In!ReceiverNext

(* main closes the device when everything is shown, unless SIGINT came. *)
LEMMA ReceiverCloses ==
  ASSUME RInv, dev_close
  PROVE  In!ReceiverNext
<1>0. PInv /\ Quiet /\ Device /\ ReadConserved /\ control \in Nat
  BY DEF RInv, PInv, Buffers
<1>1. /\ pc[Main] = "finish" /\ UNCHANGED <<taken, failed, printed, arg, control>>
      /\ pc'[Main] = "exit"
  BY <1>0, Kinds, Zenon DEF dev_close, MainAt, Goto, PInv, Labels, dvars, hvars
<1>2. Phase = "draining" /\ Phase' = "closed" /\ Shown' = Shown
  <2>1. Ended(Sources)
    BY <1>0, <1>1 DEF PInv, Stages, AfterC, AfterRSet, AfterE, AfterESet, AfterS
  <2>2. ~ Exited /\ Exited'
    BY <1>1 DEF Exited
  <2> QED BY <1>1, <2>1, <2>2, Zenon DEF Phase, Shown, Ended
<1>3. control > 0 \/ In!Range(taken) \subseteq Shown \cup {Terminator}
  <2> SUFFICES ASSUME ~ (control > 0), NEW x \in Range(taken), x # Terminator PROVE x \in Shown
    BY Zenon DEF In!Range, Range
  <2>1. control = 0
    BY <1>0
  <2>2. Within = {}
    BY <1>0, <1>1, <2>1, AllOut DEF AfterS
  <2>3. x \in Fresh
    BY <1>0 DEF Device, Feed, Range
  <2>4. Ids(printed) = Ids(taken)
    BY <1>0, <2>2 DEF ReadConserved
  <2> QED BY <1>0, <2>3, <2>4, ShownIds
<1>4. In!Close
  BY <1>1, <1>2, <1>3, Zenon DEF In!Close, Phase, Shown
<1> QED BY <1>4 DEF In!ReceiverNext

(* When main starts no read_dev thread, for a negative argument or after   *)
(* SIGINT, the reading is over at once.                                    *)
LEMMA ReceiverShared ==
  ASSUME RInv, Shared, UNCHANGED dvars
  PROVE  In!ReceiverNext \/ UNCHANGED <<arg, taken, failed, Shown, control > 0, Phase>>
<1>0. PInv /\ Quiet /\ Device /\ Counted
  BY DEF RInv
<1>1. /\ UNCHANGED <<arg, control, loop, todo, taken, failed, printed>>
      /\ pc'[Main] = "exit" <=> pc[Main] = "exit"
      /\ MainChoose \/ \A t \in Sources : pc'[t] = "end" <=> pc[t] = "end"
  BY <1>0, SharedEffects DEF dvars
<1>2. Shown' = Shown /\ Exited' = Exited
  BY <1>1, Zenon DEF Shown, Exited
<1>3. ASSUME Ended(Sources)' <=> Ended(Sources)
      PROVE  UNCHANGED <<arg, taken, failed, Shown, control > 0, Phase>>
  <2>1. Phase' = Phase
    BY <1>2, <1>3, Zenon DEF Phase, Ended
  <2> QED BY <1>1, <1>2, <2>1, Zenon
<1>4. ASSUME MainChoose, Ended(Sources)', ~ Ended(Sources) PROVE In!Stop
  <2>1. pc[Main] = "setup" /\ \A t \in Sources : pc[t] = "none"
    BY <1>0, <1>4 DEF MainChoose, MainAt, Device
  <2>2. ~ Exited
    BY <2>1 DEF Exited
  <2>3. Phase = "reading" /\ Phase' = "draining"
    BY <1>2, <1>4, <2>2, Zenon DEF Phase, Ended
  <2>4. control > 0 \/ (arg # 0 /\ Len(taken) + failed = In!Quota(arg))
    <3> SUFFICES ASSUME control = 0 PROVE arg # 0 /\ Len(taken) + failed = In!Quota(arg)
      BY <1>0 DEF PInv, Buffers
    <3>1. arg < 0 /\ todo = arg
      BY <1>0, <1>4, <2>1, Created DEF Quiet
    <3>2. arg \in Int /\ Len(taken) \in Nat /\ failed \in Nat
      BY <1>0 DEF PInv, Buffers, Device
    <3>3. Reading = 0
      BY <2>1, Zenon DEF Reading
    <3> QED BY <1>0, <1>4, <3>1, <3>2, <3>3 DEF Counted, In!Quota
  <2> QED BY <1>1, <1>2, <2>3, <2>4, Zenon DEF In!Stop, Phase, Shown
<1>5. (Ended(Sources)' <=> Ended(Sources)) \/ (MainChoose /\ ~ Ended(Sources) /\ Ended(Sources)')
  <2>1. MainChoose => ~ Ended(Sources)
    BY <1>0, PipelineAssumption DEF MainChoose, MainAt, Device, Ended
  <2>2. MainChoose \/ (Ended(Sources)' <=> Ended(Sources))
    BY <1>1, Zenon DEF Ended
  <2> QED BY <2>1, <2>2
<1> QED BY <1>3, <1>4, <1>5, Zenon DEF In!ReceiverNext

(* SIGINT cuts the Receiver short. *)
LEMMA ReceiverSignal ==
  ASSUME RInv, catcher_SIGINT, UNCHANGED dvars
  PROVE  In!ReceiverNext \/ UNCHANGED <<arg, taken, failed, Shown, control > 0, Phase>>
<1>1. UNCHANGED <<taken, failed, printed, pc, arg>>
  BY Zenon DEF catcher_SIGINT, Caught, HandlerR, HandlerE, dvars
<1>2. Shown' = Shown /\ Phase' = Phase
  BY <1>1, Zenon DEF Shown, Phase, Exited
<1>3. ASSUME Caught PROVE In!Cut
  <2>1. pc[Main] # "exit" /\ control' > 0
    BY <1>3 DEF Caught, RInv, PInv, Buffers
  <2>2. Phase # "closed"
    BY <2>1 DEF Phase, Exited
  <2> QED BY <1>1, <1>2, <2>1, <2>2, Zenon DEF In!Cut, Phase, Shown
<1>4. ASSUME HandlerR \/ HandlerE
      PROVE  UNCHANGED <<arg, taken, failed, Shown, control > 0, Phase>>
  <2>1. control' = control
    BY <1>4 DEF HandlerR, HandlerE
  <2> QED BY <1>1, <1>2, <2>1, Zenon
<1> QED BY <1>3, <1>4, Zenon DEF catcher_SIGINT, In!ReceiverNext

(* Every step of the Reader is a step of the Receiver, or none. *)
LEMMA ReceiverStep ==
  ASSUME RInv, [ReaderNext]_<<pvars, dvars>>
  PROVE  In!ReceiverNext \/ UNCHANGED <<arg, taken, failed, Shown, control > 0, Phase>>
<1>1. ASSUME UNCHANGED <<pvars, dvars>>
      PROVE  UNCHANGED <<arg, taken, failed, Shown, control > 0, Phase>>
  <2>1. UNCHANGED <<arg, taken, failed, printed, control, pc>>
    BY <1>1 DEF pvars, hvars, dvars
  <2> QED BY <2>1, Zenon DEF Shown, Phase, Exited
<1> QED
  BY <1>1, ReaderSteps, ReceiverReads, ReceiverShows, ReceiverCloses, ReceiverShared,
     ReceiverSignal, Zenon

(* However many elaborate_data and print_data threads run and whenever     *)
(* SIGINT comes, the Reader is a Receiver: it takes nothing after the      *)
(* terminator or beyond the number of reads it was told to do, prints      *)
(* nothing it has not read and nothing twice, and a Reader that was not    *)
(* interrupted has printed all it has read when it closes the device.      *)
THEOREM ReaderIsReceiver == ReaderSpec => ImplementsReceiver
<1>1. RInv /\ [ReaderNext]_<<pvars, dvars>> =>
        In!ReceiverNext \/ UNCHANGED <<arg, taken, failed, Shown, control > 0, Phase>>
  BY ReceiverStep
<1> QED
  BY <1>1, ReaderInvariance, ReceiverStarts, PTL
  DEF ReaderSpec, ImplementsReceiver, In!ReceiverSpec, Shown, Phase
=============================================================================
