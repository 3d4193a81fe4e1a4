-------------------------- MODULE SchedulerProofs --------------------------
(***************************************************************************)
(* Proofs about the kernel of module Scheduler, for every design: the type *)
(* invariant, and that no stale continuous assign is ever lost track of.   *)
(***************************************************************************)
EXTENDS Scheduler, SequenceTheorems, TLAPS

-----------------------------------------------------------------------------
(* What the helpers return.                                                *)

\* A right-hand side evaluates to a value.
LEMMA RhsType ==
  ASSUME NEW i \in 1 .. NCA, NEW s \in [Sigs -> Val]
  PROVE  Rhs(i, s) \in Val
  <1>1. [r \in CAReads[i] |-> s[r]] \in [CAReads[i] -> Val]
    BY DesignAssumption
  <1> QED BY <1>1, RhsAssumption DEF Rhs

\* Queueing a process keeps the event queue a map from times to processes.
LEMMA ScheduleType ==
  ASSUME NEW q \in [Time -> Seq(Procs)], NEW t \in Time, NEW p \in Procs
  PROVE  Schedule(q, t, p) \in [Time -> Seq(Procs)]
  <1>1. Append(q[t], p) \in Seq(Procs)
    BY AppendProperties
  <1> QED BY <1>1 DEF Schedule

\* run() launches processes of the design.
LEMMA LaunchType ==
  /\ Len(Launch) \in Nat
  /\ \A k \in 1 .. Len(Launch) : Launch[k] \in Elems(Launch)
  /\ Elems(Launch) \subseteq Procs
  <1>1. Launch \in Seq(Nat)
    BY DesignAssumption, ConcatProperties DEF Launch
  <1>2. Len(Launch) \in Nat /\ DOMAIN Launch = 1 .. Len(Launch)
    BY <1>1, LenProperties
  <1> QED BY <1>2 DEF Elems, Procs

\* The continuous-assign loop starts in its domain.
LEMMA StartCAType ==
  ASSUME NEW d \in SUBSET Sigs, NEW all \in BOOLEAN, NEW ret \in Returns, StartCA(d, all, ret)
  PROVE  CaOK' /\ phase' \in Phases
  <1>1. 1 \in 1 .. NCA + 1 /\ 1 \in 1 .. DeltaLimit
    BY DesignAssumption
  <1> QED BY <1>1 DEF StartCA, CAPass, CaOK, Phases

\* So does the active region.
LEMMA StartRegionType ==
  ASSUME NEW b \in Seq(Procs), NEW w \in SUBSET Procs, StartRegion(b, w)
  PROVE  RegionOK' /\ phase' \in Phases
  BY DEF StartRegion, RegionOK, Snapshot, Phases

\* The empty batch is a sequence of processes.
LEMMA EmptyBatch == <<>> \in Seq(Procs)
  BY EmptySeq

\* Detection finds processes and remembers signals of the design.
LEMMA CollectType ==
  ASSUME NEW dirty \in SUBSET Sigs, NEW others, NEW pv \in Snapshot,
         NEW changed \in SUBSET Sigs, NEW fired \in SUBSET Seqs
  PROVE  /\ CollectTriggered(dirty, pv, changed, fired) => DetectOK'
         /\ Triggered(dirty, others, pv, changed, fired) \in SUBSET Procs
  <1>1. CollectTriggered(dirty, pv, changed, fired) => DetectOK'
    BY DEF CollectTriggered, DetectOK, SeqsHit, EdgeNames
  <1>2. Triggered(dirty, others, pv, changed, fired) \in SUBSET Procs
    BY DEF Triggered, CombosHit, SeqsHit, Procs
  <1> QED BY <1>1, <1>2

\* What an activation returns is an outcome.
LEMMA ActivationType ==
  ASSUME TypeOK, NEW p \in Procs
  PROVE  Activation(p) \in Outcome
  <1>1. Exhausted \in Outcome
    <2>1. <<>> \in Seq(Sigs \X Val)
      BY EmptySeq
    <2>2. 0 \in 0 .. MaxDelay /\ 0 \in Pc
      BY DesignAssumption DEF Pc
    <2> QED BY <2>1, <2>2 DEF Exhausted, Outcome, Edge
  <1>2. CASE pcs[p] = Dead
    BY <1>1, <1>2 DEF Activation
  <1>3. CASE pcs[p] # Dead
    <2>1. pcs[p] \in Pc /\ sigs \in [Sigs -> Val]
      BY <1>3 DEF TypeOK, KernelOK
    <2> QED BY <1>3, <2>1, ExecAssumption DEF Activation
  <1> QED BY <1>2, <1>3

\* The process chosen to run is a process of the design.
LEMMA NextProcType ==
  ASSUME TypeOK, NEW p, NextProc(p)
  PROVE  p \in Procs
  BY HeadTailProperties DEF TypeOK, RegionOK, NextProc

-----------------------------------------------------------------------------
(* Type correctness, one group of variables at a time.                     *)

\* A group of variables that a step leaves alone stays in its domain.
LEMMA Kept ==
  /\ KernelOK /\ UNCHANGED kernel => KernelOK'
  /\ DetectOK /\ UNCHANGED detect => DetectOK'
  /\ ExternOK /\ UNCHANGED extern => ExternOK'
  /\ RegionOK /\ UNCHANGED region => RegionOK'
  /\ LoopOK /\ UNCHANGED loop => LoopOK'
  /\ CtlOK /\ UNCHANGED ctl => CtlOK'
  /\ CaOK /\ UNCHANGED ca => CaOK'
  /\ HistOK /\ UNCHANGED hist => HistOK'
  <1>1. KernelOK /\ UNCHANGED kernel => KernelOK'
    BY DEF KernelOK, kernel
  <1>2. DetectOK /\ UNCHANGED detect => DetectOK'
    BY DEF DetectOK, detect
  <1>3. ExternOK /\ UNCHANGED extern => ExternOK'
    BY DEF ExternOK, extern
  <1>4. RegionOK /\ UNCHANGED region => RegionOK'
    BY DEF RegionOK, region
  <1>5. LoopOK /\ UNCHANGED loop => LoopOK'
    BY DEF LoopOK, loop
  <1>6. CtlOK /\ UNCHANGED ctl => CtlOK'
    BY DEF CtlOK, ctl
  <1>7. CaOK /\ UNCHANGED ca => CaOK'
    BY DEF CaOK
  <1>8. HistOK /\ UNCHANGED hist => HistOK'
    BY DEF HistOK, hist
  <1> QED BY <1>1, <1>2, <1>3, <1>4, <1>5, <1>6, <1>7, <1>8

\* _run_continuous_assigns and _run_dirty_continuous_assigns.
LEMMA TypeAssigns ==
  ASSUME TypeOK, CAEval \/ CAPassEnd
  PROVE  TypeOK'
  <1>1. CASE CAEval
    <2>1. /\ ca.pos \in 1 .. NCA
          /\ CALhs[ca.pos] \in Sigs
          /\ Rhs(ca.pos, sigs) \in Val
      BY <1>1, DesignAssumption, RhsType DEF CAEval, TypeOK, CaOK, KernelOK
    <2>2. KernelOK'
      BY <1>1, <2>1 DEF CAEval, TypeOK, KernelOK
    <2>3. CaOK'
      BY <1>1, <2>1, DesignAssumption DEF CAEval, MarkOutputs, TypeOK, CaOK
    <2> QED BY <1>1, <2>2, <2>3, Kept DEF CAEval, TypeOK
  <1>2. CASE CAPassEnd
    <2>1. CaOK'
      BY <1>2, DesignAssumption DEF CAPassEnd, CAPass, TypeOK, CaOK
    <2>2. CtlOK'
      BY <1>2 DEF CAPassEnd, TypeOK, CaOK, CtlOK, Returns, Phases
    <2>3. LoopOK'
      BY <1>2 DEF CAPassEnd, TypeOK, CaOK, LoopOK
    <2>4. HistOK'
      BY <1>2 DEF CAPassEnd, TypeOK, CaOK, HistOK
    <2> QED BY <1>2, <2>1, <2>2, <2>3, <2>4, Kept DEF CAPassEnd, TypeOK
  <1> QED BY <1>1, <1>2

\* _execute_process and _schedule_suspend.
LEMMA TypeExecute ==
  ASSUME TypeOK, NEW p \in Procs, Execute(p)
  PROVE  TypeOK'
  <1> DEFINE r == Activation(p)
  <1>1. r \in Outcome
    BY ActivationType
  <1>2. KernelOK'
    <2>1. sigs' \in [Sigs -> Val]
      BY <1>1 DEF Execute, TypeOK, KernelOK, Outcome, Written
    <2>2. nba' \in Seq(Sigs \X Val)
      BY <1>1, ConcatProperties DEF Execute, TypeOK, KernelOK, Outcome
    <2>3. queue' \in [Time -> Seq(Procs)]
      <3>1. time \in Time /\ time + r.delay \in Time
        BY <1>1, DesignAssumption DEF TypeOK, KernelOK, Outcome, Time, Horizon
      <3>2. /\ queue \in [Time -> Seq(Procs)]
            /\ Schedule(queue, time, p) \in [Time -> Seq(Procs)]
            /\ Schedule(queue, time + r.delay, p) \in [Time -> Seq(Procs)]
        BY <3>1, ScheduleType DEF TypeOK, KernelOK
      <3> QED BY <3>2 DEF Execute, Suspend, ResumeTime
    <2>4. waiting' \in Seq([proc : Procs, on : [Sigs -> Edge]])
      <3>1. [proc |-> p, on |-> r.on] \in [proc : Procs, on : [Sigs -> Edge]]
        BY <1>1 DEF Outcome
      <3> QED BY <3>1, AppendProperties DEF Execute, Suspend, TypeOK, KernelOK
    <2>5. pcs' \in [Procs -> Pc \cup {Dead}]
      BY <1>1, DesignAssumption DEF Execute, Suspend, TypeOK, KernelOK, Outcome, Pc
    <2>6. pstate' \in [Procs -> {"IDLE", "ACTIVE", "DONE"}]
      BY DEF Execute, Suspend, TypeOK, KernelOK
    <2> QED BY <2>1, <2>2, <2>3, <2>4, <2>5, <2>6 DEF Execute, TypeOK, KernelOK
  <1>3. RegionOK'
    <2>1. batch' \in Seq(Procs)
      BY HeadTailProperties DEF Execute, TypeOK, RegionOK
    <2>2. orig' \in Snapshot
      BY <1>1 DEF Execute, TypeOK, RegionOK, KernelOK, Snapshot
    <2>3. OwnWrites(p, r) \in SUBSET Sigs
      BY DesignAssumption DEF OwnWrites, Written
    <2>4. ownNow' \in SUBSET (Sigs \X Procs)
      BY <2>3 DEF Execute, TypeOK, RegionOK
    <2> QED BY <2>1, <2>2, <2>4 DEF Execute, TypeOK, RegionOK
  <1>4. HistOK'
    BY DEF Execute, Suspend, TypeOK, HistOK
  <1> QED BY <1>2, <1>3, <1>4, Kept DEF Execute, TypeOK

\* The end of the active region, and the second assign loop of settle().
LEMMA TypeRegion ==
  ASSUME TypeOK, RegionEnd \/ Resettle
  PROVE  TypeOK'
  <1>1. CASE RegionEnd
    <2>1. Changed(orig) \in SUBSET Sigs
      BY DEF Changed
    <2>2. CaOK' /\ phase' \in Phases
      BY <1>1, <2>1, StartCAType DEF RegionEnd, Returns
    <2>3. CtlOK'
      BY <1>1, <2>2 DEF RegionEnd, TypeOK, CtlOK
    <2>4. DetectOK'
      BY <1>1 DEF RegionEnd, TypeOK, DetectOK, RegionOK
    <2> QED BY <1>1, <2>2, <2>3, <2>4, Kept DEF RegionEnd, TypeOK
  <1>2. CASE Resettle
    <2>1. CaOK' /\ phase' \in Phases
      BY <1>2, StartCAType DEF Resettle, Returns, TypeOK, CaOK
    <2>2. CtlOK'
      BY <1>2, <2>1 DEF Resettle, TypeOK, CtlOK
    <2> QED BY <1>2, <2>1, <2>2, Kept DEF Resettle, TypeOK
  <1> QED BY <1>1, <1>2

\* The delta loop.
LEMMA TypeDelta ==
  ASSUME TypeOK,
         DeltaBegin \/ ApplyNba \/ NbaDone \/ DeltaLimitError \/ Collect \/ DeltaDone
  PROVE  TypeOK'
  <1>1. CASE DeltaBegin
    <2>1. LoopOK'
      BY <1>1, DesignAssumption DEF TypeOK, LoopOK, DeltaBegin
    <2>2. CtlOK'
      BY <1>1 DEF TypeOK, CtlOK, DeltaBegin, Phases
    <2> QED BY <1>1, <2>1, <2>2, Kept DEF TypeOK, DeltaBegin
  <1>2. CASE ApplyNba
    <2>1. Head(nba) \in Sigs \X Val /\ Tail(nba) \in Seq(Sigs \X Val)
      BY <1>2, HeadTailProperties DEF ApplyNba, TypeOK, KernelOK
    <2>2. KernelOK'
      BY <1>2, <2>1 DEF ApplyNba, TypeOK, KernelOK
    <2>3. LoopOK'
      BY <1>2, <2>1 DEF ApplyNba, TypeOK, LoopOK
    <2> QED BY <1>2, <2>2, <2>3, Kept DEF ApplyNba, TypeOK
  <1>3. CASE NbaDone
    <2>1. CaOK' /\ phase' \in Phases
      BY <1>3, StartCAType DEF NbaDone, Returns, TypeOK, LoopOK
    <2>2. CtlOK'
      BY <1>3, <2>1 DEF NbaDone, TypeOK, CtlOK
    <2> QED BY <1>3, <2>1, <2>2, Kept DEF NbaDone, TypeOK
  <1>4. CASE DeltaLimitError
    <2>1. CtlOK'
      BY <1>4 DEF DeltaLimitError, TypeOK, CtlOK, Phases
    <2> QED BY <1>4, <2>1, Kept DEF DeltaLimitError, TypeOK
  <1>5. CASE Collect
    <2> DEFINE dirty == act \cup ca.dirty
               trig == Triggered(dirty, ca.dirty, prev, edgeChanged, trigSeq)
    <2>1. /\ dirty \in SUBSET Sigs /\ prev \in Snapshot
          /\ edgeChanged \in SUBSET Sigs /\ trigSeq \in SUBSET Seqs
      BY DEF TypeOK, CaOK, LoopOK, DetectOK
    <2>2. CollectTriggered(dirty, prev, edgeChanged, trigSeq)
      BY <1>5 DEF Collect
    <2>3. DetectOK' /\ trig \in SUBSET Procs
      BY <2>1, <2>2, CollectType
    <2>4. RegionOK' /\ phase' \in Phases
      <3>1. CASE StartRegion(<<>>, trig)
        BY <3>1, <2>3, StartRegionType, EmptyBatch
      <3>2. CASE phase' = "delta" /\ UNCHANGED region
        BY <3>2, Kept DEF TypeOK, Phases
      <3> QED BY <1>5, <3>1, <3>2 DEF Collect
    <2>5. CtlOK'
      BY <1>5, <2>4 DEF Collect, TypeOK, CtlOK
    <2>6. LoopOK'
      BY <1>5 DEF Collect, TypeOK, LoopOK
    <2> QED BY <1>5, <2>3, <2>4, <2>5, <2>6, Kept DEF Collect, TypeOK
  <1>6. CASE DeltaDone
    <2>1. CtlOK'
      BY <1>6 DEF DeltaDone, TypeOK, CtlOK, Phases
    <2>2. ExternOK'
      BY <1>6 DEF DeltaDone, TypeOK, ExternOK, KernelOK, Snapshot
    <2> QED BY <1>6, <2>1, <2>2, Kept DEF DeltaDone, TypeOK
  <1> QED BY <1>1, <1>2, <1>3, <1>4, <1>5, <1>6

\* drive_signal writes a value and remembers a snapshot.
LEMMA DriveType ==
  ASSUME TypeOK, NEW s \in Sigs, NEW v \in {0, 1}, DriveSignal(s, v)
  PROVE  /\ sigs' \in [Sigs -> Val]
         /\ pending' \in SUBSET Sigs
         /\ settleSnap' \in [Sigs -> Val]
  BY DEF DriveSignal, TypeOK, KernelOK, ExternOK, Val

\* The start of a time step: its events leave the queue for the batch.
LEMMA TypeStepBegin ==
  ASSUME TypeOK, NEW t \in 0 .. MaxRun, StepBegin(t),
         call' \in ApiCalls \cup {"none"}, calls' \in 0 .. MaxCalls
  PROVE  TypeOK'
  <1>1. t \in Time /\ queue[t] \in Seq(Procs) /\ <<>> \in Seq(Procs)
    BY DesignAssumption, EmptyBatch DEF Time, Horizon, TypeOK, KernelOK
  <1>2. KernelOK'
    BY <1>1 DEF StepBegin, TypeOK, KernelOK
  <1>3. DetectOK'
    BY DEF StepBegin, TypeOK, KernelOK, DetectOK, Snapshot
  <1>4. RegionOK' /\ phase' \in Phases
    BY <1>1, StartRegionType DEF StepBegin
  <1>5. CtlOK'
    BY <1>4 DEF StepBegin, TypeOK, CtlOK
  <1>6. LoopOK'
    BY DesignAssumption DEF StepBegin, TypeOK, LoopOK
  <1> QED BY <1>2, <1>3, <1>4, <1>5, <1>6, Kept DEF StepBegin, TypeOK

\* The rest of a time step: event waits, callback, end.
LEMMA TypeStep ==
  ASSUME TypeOK,
         WakeOne \/ WakeDone \/ CallbackQuiet \/ CallbackDrive \/ StepEnd
  PROVE  TypeOK'
  <1>1. CASE WakeOne
    <2> DEFINE W == [proc : Procs, on : [Sigs -> Edge]]
    <2>1. PICK i \in DOMAIN waiting :
             /\ queue' = Schedule(queue, time, waiting[i].proc)
             /\ waiting' = SubSeq(waiting, 1, i - 1) \o SubSeq(waiting, i + 1, Len(waiting))
      BY <1>1 DEF WakeOne
    <2>2. waiting \in Seq(W) /\ i \in 1 .. Len(waiting) /\ Len(waiting) \in Nat
      BY LenProperties DEF TypeOK, KernelOK
    <2>3. \A k \in 1 .. Len(waiting) : waiting[k] \in W
      BY <2>2, ElementOfSeq
    <2>4. waiting[i].proc \in Procs /\ time \in Time
      BY <2>2, <2>3, DesignAssumption DEF TypeOK, KernelOK, Time, Horizon
    <2>5. queue' \in [Time -> Seq(Procs)]
      BY <2>1, <2>4, ScheduleType DEF TypeOK, KernelOK
    <2>6. SubSeq(waiting, 1, i - 1) \in Seq(W)
      BY <2>2, <2>3, SubSeqProperties
    <2>7. SubSeq(waiting, i + 1, Len(waiting)) \in Seq(W)
      BY <2>2, <2>3, SubSeqProperties
    <2>8. waiting' \in Seq(W)
      BY <2>1, <2>6, <2>7, ConcatProperties
    <2>9. KernelOK'
      BY <1>1, <2>5, <2>8 DEF WakeOne, TypeOK, KernelOK
    <2> QED BY <1>1, <2>9, Kept DEF WakeOne, TypeOK
  <1>2. CASE WakeDone
    <2>1. CtlOK'
      BY <1>2 DEF WakeDone, TypeOK, CtlOK, Phases
    <2> QED BY <1>2, <2>1, Kept DEF WakeDone, TypeOK
  <1>3. CASE CallbackQuiet
    <2>1. CtlOK'
      BY <1>3 DEF CallbackQuiet, TypeOK, CtlOK, Phases
    <2> QED BY <1>3, <2>1, Kept DEF CallbackQuiet, TypeOK
  <1>4. CASE CallbackDrive
    <2>1. PICK s \in CallbackInputs, v \in {0, 1} :
             /\ DriveSignal(s, v)
             /\ StartCA({s} \cap {t \in Sigs : v # sigs[t]}, FALSE, "stepend")
      BY <1>4 DEF CallbackDrive
    <2>2. s \in Sigs /\ "stepend" \in Returns
      BY DesignAssumption DEF Returns
    <2>3. CaOK' /\ phase' \in Phases
      BY <2>1, <2>2, StartCAType
    <2>4. sigs' \in [Sigs -> Val] /\ pending' \in SUBSET Sigs /\ settleSnap' \in [Sigs -> Val]
      BY <2>1, <2>2, DriveType
    <2>5. KernelOK'
      BY <1>4, <2>4 DEF CallbackDrive, TypeOK, KernelOK
    <2>6. ExternOK'
      BY <1>4, <2>4 DEF CallbackDrive, TypeOK, ExternOK
    <2>7. CtlOK'
      BY <1>4, <2>3 DEF CallbackDrive, TypeOK, CtlOK
    <2>8. calls' \in 0 .. MaxCalls
      BY <1>4, DesignAssumption DEF CallbackDrive, TypeOK
    <2> QED BY <1>4, <2>3, <2>5, <2>6, <2>7, <2>8, Kept DEF CallbackDrive, TypeOK
  <1>5. CASE StepEnd
    <2>1. queue' \in [Time -> Seq(Procs)]
      BY <1>5, EmptyBatch DEF StepEnd, QueueAfterStep, TypeOK, KernelOK
    <2>2. KernelOK'
      BY <1>5, <2>1 DEF StepEnd, TypeOK, KernelOK
    <2>3. ExternOK'
      BY <1>5 DEF StepEnd, TypeOK, ExternOK, KernelOK, Snapshot
    <2>4. CtlOK'
      BY <1>5 DEF StepEnd, TypeOK, CtlOK, Phases
    <2> QED BY <1>5, <2>2, <2>3, <2>4, Kept DEF StepEnd, TypeOK
  <1> QED BY <1>1, <1>2, <1>3, <1>4, <1>5

\* run(): launch, external drives, event loop.
LEMMA TypeRun ==
  ASSUME TypeOK,
         RunLaunch \/ ExternalDrives \/ ExternalCollect \/ RunNext \/ RunReturn
  PROVE  TypeOK'
  <1>1. CASE RunLaunch
    <2>1. lpos \in 1 .. Len(Launch) /\ Len(Launch) \in Nat
      BY <1>1, LaunchType DEF RunLaunch, TypeOK, CtlOK
    <2>2. Launch[lpos] \in Procs /\ 0 \in Time
      BY <2>1, LaunchType, DesignAssumption DEF Time, Horizon
    <2>3. queue' \in [Time -> Seq(Procs)]
      BY <1>1, <2>2, ScheduleType DEF RunLaunch, TypeOK, KernelOK
    <2>4. KernelOK'
      BY <1>1, <2>3 DEF RunLaunch, TypeOK, KernelOK
    <2>5. CtlOK'
      BY <1>1, <2>1 DEF RunLaunch, TypeOK, CtlOK
    <2> QED BY <1>1, <2>4, <2>5, Kept DEF RunLaunch, TypeOK
  <1>2. CASE ExternalDrives
    <2>1. Changed(lastRun) \in SUBSET Sigs /\ "extcollect" \in Returns
      BY DEF Changed, Returns
    <2>2. CaOK' /\ phase' \in Phases
      <3>1. CASE Changed(lastRun) = {}
        BY <1>2, <3>1, Kept DEF ExternalDrives, TypeOK, Phases
      <3>2. CASE Changed(lastRun) # {}
        BY <1>2, <2>1, <3>2, StartCAType DEF ExternalDrives
      <3> QED BY <3>1, <3>2
    <2>3. CtlOK'
      BY <1>2, <2>2 DEF ExternalDrives, TypeOK, CtlOK
    <2> QED BY <1>2, <2>2, <2>3, Kept DEF ExternalDrives, TypeOK
  <1>3. CASE ExternalCollect
    <2> DEFINE dirty == Changed(lastRun)
               trig == Triggered(dirty, dirty, lastRun, {}, {})
    <2>1. dirty \in SUBSET Sigs /\ lastRun \in Snapshot
      BY DEF Changed, TypeOK, ExternOK
    <2>2. /\ CollectTriggered(dirty, lastRun, {}, {}) => DetectOK'
          /\ trig \in SUBSET Procs
      BY <2>1, CollectType
    <2>3. DetectOK' /\ RegionOK' /\ phase' \in Phases
      <3>1. CASE dirty = {}
        BY <1>3, <3>1, Kept DEF ExternalCollect, TypeOK, Phases
      <3>2. CASE dirty # {} /\ trig # {}
        <4>1. DetectOK' /\ StartRegion(<<>>, trig)
          BY <1>3, <2>2, <3>2 DEF ExternalCollect
        <4> QED BY <4>1, <2>2, StartRegionType, EmptyBatch
      <3>3. CASE dirty # {} /\ trig = {}
        BY <1>3, <2>2, <3>3, Kept DEF ExternalCollect, TypeOK, Phases
      <3> QED BY <3>1, <3>2, <3>3
    <2>4. CtlOK'
      BY <1>3, <2>3 DEF ExternalCollect, TypeOK, CtlOK
    <2>5. LoopOK'
      BY <1>3, DesignAssumption DEF ExternalCollect, TypeOK, LoopOK
    <2> QED BY <1>3, <2>3, <2>4, <2>5, Kept DEF ExternalCollect, TypeOK
  <1>4. CASE RunNext
    <2>1. PICK t \in 0 .. maxTime : StepBegin(t)
      BY <1>4 DEF RunNext
    <2>2. t \in 0 .. MaxRun
      BY DesignAssumption DEF TypeOK, CtlOK
    <2>3. call' \in ApiCalls \cup {"none"} /\ calls' \in 0 .. MaxCalls
      BY <1>4 DEF RunNext, TypeOK, CtlOK
    <2> QED BY <2>1, <2>2, <2>3, TypeStepBegin
  <1>5. CASE RunReturn
    <2>1. CtlOK'
      BY <1>5 DEF RunReturn, TypeOK, CtlOK, Phases
    <2>2. ExternOK'
      BY <1>5 DEF RunReturn, TypeOK, ExternOK, KernelOK, Snapshot
    <2> QED BY <1>5, <2>1, <2>2, Kept DEF RunReturn, TypeOK
  <1> QED BY <1>1, <1>2, <1>3, <1>4, <1>5

\* The bootstrap of the first run() or settle().
LEMMA TypeBoot ==
  ASSUME TypeOK, BootDrives \/ FullCA \/ BootCombos \/ BootReaders \/ SettleBoot
  PROVE  TypeOK'
  <1>1. CASE BootDrives
    <2>1. pending \in SUBSET Sigs /\ "fullca" \in Returns
      BY DEF TypeOK, ExternOK, Returns
    <2>2. CaOK' /\ phase' \in Phases
      <3>1. CASE booted \/ pending = {}
        <4>1. phase' = "fullca" /\ ca' = CAPass({}, 1, FALSE, "idle")
          BY <1>1, <3>1 DEF BootDrives
        <4>2. CaOK'
          BY <4>1, DesignAssumption DEF CAPass, CaOK, Returns
        <4> QED BY <4>1, <4>2 DEF Phases
      <3>2. CASE ~(booted \/ pending = {})
        BY <1>1, <2>1, <3>2, StartCAType DEF BootDrives
      <3> QED BY <3>1, <3>2
    <2>3. CtlOK'
      BY <1>1, <2>2 DEF BootDrives, TypeOK, CtlOK
    <2>4. ExternOK'
      BY <1>1 DEF BootDrives, TypeOK, ExternOK
    <2>5. LoopOK'
      BY <1>1, DesignAssumption DEF BootDrives, TypeOK, LoopOK
    <2> QED BY <1>1, <2>2, <2>3, <2>4, <2>5, Kept DEF BootDrives, TypeOK
  <1>2. CASE FullCA
    <2>1. CaOK' /\ phase' \in Phases
      BY <1>2, StartCAType DEF FullCA, Returns
    <2>2. CtlOK'
      BY <1>2, <2>1 DEF FullCA, TypeOK, CtlOK
    <2>3. LoopOK'
      BY <1>2 DEF FullCA, TypeOK, LoopOK, CaOK
    <2> QED BY <1>2, <2>1, <2>2, <2>3, Kept DEF FullCA, TypeOK
  <1>3. CASE BootCombos
    <2>1. StartCombos \in SUBSET Procs
      BY DesignAssumption DEF Procs
    <2>2. RegionOK' /\ phase' \in Phases
      <3>1. CASE StartCombos # {}
        BY <1>3, <2>1, <3>1, StartRegionType, EmptyBatch DEF BootCombos
      <3>2. CASE StartCombos = {}
        BY <1>3, <3>2, Kept DEF BootCombos, TypeOK, Phases
      <3> QED BY <3>1, <3>2
    <2>3. CtlOK'
      BY <1>3, <2>2 DEF BootCombos, TypeOK, CtlOK
    <2>4. ExternOK'
      BY <1>3 DEF BootCombos, TypeOK, ExternOK
    <2>5. CaOK'
      BY <1>3, DesignAssumption DEF BootCombos, CAPass, CaOK, Returns
    <2> QED BY <1>3, <2>2, <2>3, <2>4, <2>5, Kept DEF BootCombos, TypeOK
  <1>4. CASE BootReaders
    <2> DEFINE wake == CombosHit(drv, drv) \ StartCombos
    <2>1. /\ drv \in SUBSET Sigs /\ sigs \in Snapshot
          /\ edgeChanged \in SUBSET Sigs /\ trigSeq \in SUBSET Seqs
      BY DEF TypeOK, KernelOK, LoopOK, DetectOK, Snapshot
    <2>2. CollectTriggered(drv, sigs, edgeChanged, trigSeq) => DetectOK'
      BY <2>1, CollectType
    <2>3. wake \in SUBSET Procs
      BY DEF CombosHit, Procs
    <2>4. DetectOK' /\ RegionOK' /\ phase' \in Phases
      <3>1. CASE call = "run" /\ drv # {} /\ wake # {}
        <4>1. DetectOK' /\ StartRegion(<<>>, wake)
          BY <1>4, <2>2, <3>1 DEF BootReaders
        <4> QED BY <4>1, <2>3, StartRegionType, EmptyBatch
      <3>2. CASE call = "run" /\ drv # {} /\ wake = {}
        BY <1>4, <2>2, <3>2, Kept DEF BootReaders, TypeOK, Phases
      <3>3. CASE ~(call = "run" /\ drv # {})
        BY <1>4, <3>3, Kept DEF BootReaders, TypeOK, Phases
      <3> QED BY <3>1, <3>2, <3>3
    <2>5. CtlOK'
      BY <1>4, <2>4 DEF BootReaders, TypeOK, CtlOK
    <2>6. LoopOK'
      BY <1>4 DEF BootReaders, TypeOK, LoopOK, CaOK
    <2> QED BY <1>4, <2>4, <2>5, <2>6, Kept DEF BootReaders, TypeOK
  <1>5. CASE SettleBoot
    <2>1. CtlOK'
      BY <1>5 DEF SettleBoot, TypeOK, CtlOK, Phases
    <2>2. LoopOK'
      BY <1>5 DEF SettleBoot, TypeOK, LoopOK, CaOK
    <2> QED BY <1>5, <2>1, <2>2, Kept DEF SettleBoot, TypeOK
  <1> QED BY <1>1, <1>2, <1>3, <1>4, <1>5

\* settle(), after its bootstrap.
LEMMA TypeSettle ==
  ASSUME TypeOK, SettleDrives \/ SettleCollect
  PROVE  TypeOK'
  <1>1. CASE SettleDrives
    <2>1. pending \cup drv \in SUBSET Sigs /\ "settlecollect" \in Returns
      BY DEF TypeOK, ExternOK, LoopOK, Returns
    <2>2. CaOK' /\ phase' \in Phases
      <3>1. CASE pending = {}
        BY <1>1, <3>1, Kept DEF SettleDrives, TypeOK, Phases
      <3>2. CASE pending # {}
        BY <1>1, <2>1, <3>2, StartCAType DEF SettleDrives
      <3> QED BY <3>1, <3>2
    <2>3. DetectOK'
      BY <1>1 DEF SettleDrives, TypeOK, DetectOK, KernelOK, ExternOK, Snapshot, detect
    <2>4. ExternOK'
      BY <1>1 DEF SettleDrives, TypeOK, ExternOK
    <2>5. CtlOK'
      BY <1>1, <2>2 DEF SettleDrives, TypeOK, CtlOK
    <2> QED BY <1>1, <2>2, <2>3, <2>4, <2>5, Kept DEF SettleDrives, TypeOK
  <1>2. CASE SettleCollect
    <2> DEFINE all == Triggered(ca.dirty, ca.dirty, prev, edgeChanged, trigSeq)
               trig == all \ (IF starting /\ Combos # {} THEN StartCombos ELSE {})
    <2>1. /\ ca.dirty \in SUBSET Sigs /\ prev \in Snapshot
          /\ edgeChanged \in SUBSET Sigs /\ trigSeq \in SUBSET Seqs
      BY DEF TypeOK, CaOK, DetectOK
    <2>2. CollectTriggered(ca.dirty, prev, edgeChanged, trigSeq)
      BY <1>2 DEF SettleCollect
    <2>3. DetectOK' /\ all \in SUBSET Procs
      BY <2>1, <2>2, CollectType
    <2>4. trig \in SUBSET Procs
      BY <2>3
    <2>5. RegionOK' /\ phase' \in Phases /\ ExternOK'
      <3>1. CASE trig # {}
        <4>1. StartRegion(<<>>, trig) /\ UNCHANGED <<lastRun, pending, settleSnap, booted>>
          BY <1>2, <3>1 DEF SettleCollect
        <4>2. ExternOK'
          BY <4>1 DEF TypeOK, ExternOK
        <4> QED BY <4>1, <4>2, <2>4, StartRegionType, EmptyBatch
      <3>2. CASE trig = {}
        <4>1. phase' = "idle" /\ lastRun' = sigs /\ UNCHANGED <<region, pending, settleSnap, booted>>
          BY <1>2, <3>2 DEF SettleCollect
        <4>2. ExternOK'
          BY <4>1 DEF TypeOK, ExternOK, KernelOK, Snapshot
        <4> QED BY <4>1, <4>2, Kept DEF TypeOK, Phases
      <3> QED BY <3>1, <3>2
    <2>6. CtlOK'
      BY <1>2, <2>5 DEF SettleCollect, TypeOK, CtlOK
    <2>7. LoopOK'
      BY <1>2, DesignAssumption DEF SettleCollect, TypeOK, LoopOK
    <2> QED BY <1>2, <2>3, <2>5, <2>6, <2>7, Kept DEF SettleCollect, TypeOK
  <1> QED BY <1>1, <1>2

\* The calls of the testbench.
LEMMA TypeTestbench ==
  ASSUME TypeOK, Testbench
  PROVE  TypeOK'
  <1>0. ASSUME NEW op, Call(op)
        PROVE  calls' \in 0 .. MaxCalls
    BY <1>0, DesignAssumption DEF Call, TypeOK
  <1>1. CASE CallDrive
    <2>1. PICK s \in Inputs, v \in {0, 1} : DriveSignal(s, v)
      BY <1>1 DEF CallDrive
    <2>2. s \in Sigs
      BY DesignAssumption
    <2>3. sigs' \in [Sigs -> Val] /\ pending' \in SUBSET Sigs /\ settleSnap' \in [Sigs -> Val]
      BY <2>1, <2>2, DriveType
    <2>4. KernelOK'
      BY <1>1, <2>3 DEF CallDrive, TypeOK, KernelOK
    <2>5. ExternOK'
      BY <1>1, <2>3 DEF CallDrive, TypeOK, ExternOK
    <2>6. CtlOK'
      BY <1>1 DEF CallDrive, TypeOK, CtlOK, ApiCalls
    <2>7. HistOK'
      BY <1>1 DEF CallDrive, TypeOK, HistOK, KernelOK, Snapshot
    <2> QED BY <1>0, <1>1, <2>4, <2>5, <2>6, <2>7, Kept DEF CallDrive, TypeOK
  <1>2. CASE CallSchedule
    <2>1. PICK p \in Toggles, t \in time .. MaxRun : queue' = Schedule(queue, t, p)
      BY <1>2 DEF CallSchedule
    <2>2. p \in Procs /\ t \in Time
      BY DesignAssumption DEF Procs, Time, Horizon, TypeOK, KernelOK
    <2>3. queue' \in [Time -> Seq(Procs)]
      BY <2>1, <2>2, ScheduleType DEF TypeOK, KernelOK
    <2>4. KernelOK'
      BY <1>2, <2>3 DEF CallSchedule, TypeOK, KernelOK
    <2>5. CtlOK'
      BY <1>2 DEF CallSchedule, TypeOK, CtlOK, ApiCalls
    <2> QED BY <1>0, <1>2, <2>4, <2>5, Kept DEF CallSchedule, TypeOK
  <1>3. CASE CallRun
    <2>1. CtlOK'
      BY <1>3, LaunchType, DesignAssumption DEF CallRun, TypeOK, CtlOK, KernelOK, ApiCalls, Phases
    <2>2. HistOK'
      BY <1>3 DEF CallRun, TypeOK, HistOK
    <2> QED BY <1>0, <1>3, <2>1, <2>2, Kept DEF CallRun, TypeOK
  <1>4. CASE CallRunStep
    <2>1. PICK t \in 0 .. MaxRun : StepBegin(t)
      BY <1>4 DEF CallRunStep
    <2>2. call' \in ApiCalls \cup {"none"} /\ calls' \in 0 .. MaxCalls
      BY <1>0, <1>4 DEF CallRunStep, ApiCalls
    <2> QED BY <2>1, <2>2, TypeStepBegin
  <1>5. CASE CallSettle
    <2>1. pending \in SUBSET Sigs /\ "settleboot" \in Returns
      BY DEF TypeOK, ExternOK, Returns
    <2>2. CaOK' /\ phase' \in Phases
      <3>1. CASE StartCA(pending, FALSE, "settleboot")
        BY <2>1, <3>1, StartCAType
      <3>2. CASE phase' \in {"settle", "settleboot"} /\ UNCHANGED ca
        BY <3>2, Kept DEF TypeOK, Phases
      <3> QED BY <1>5, <3>1, <3>2 DEF CallSettle
    <2>3. ExternOK'
      BY <1>5 DEF CallSettle, TypeOK, ExternOK
    <2>4. LoopOK'
      BY <1>5, DesignAssumption DEF CallSettle, TypeOK, LoopOK
    <2>5. CtlOK'
      BY <1>5, <2>2 DEF CallSettle, TypeOK, CtlOK, ExternOK, ApiCalls
    <2>6. HistOK'
      BY <1>5 DEF CallSettle, TypeOK, HistOK
    <2> QED BY <1>0, <1>5, <2>2, <2>3, <2>4, <2>5, <2>6, Kept DEF CallSettle, TypeOK
  <1> QED BY <1>1, <1>2, <1>3, <1>4, <1>5 DEF Testbench

\* Initially every attribute is in its domain.
LEMMA TypeInit == ASSUME Init PROVE TypeOK
  <1>1. KernelOK
    <2>1. <<>> \in Seq(Sigs \X Val) /\ <<>> \in Seq([proc : Procs, on : [Sigs -> Edge]])
      BY EmptySeq
    <2>2. queue \in [Time -> Seq(Procs)]
      BY EmptyBatch DEF Init
    <2>3. time \in 0 .. MaxRun /\ sigs \in [Sigs -> Val] /\ pcs \in [Procs -> Pc \cup {Dead}]
      BY DesignAssumption DEF Init, Pc
    <2>4. pstate \in [Procs -> {"IDLE", "ACTIVE", "DONE"}] /\ finish \in BOOLEAN
      BY DEF Init
    <2> QED BY <2>1, <2>2, <2>3, <2>4 DEF Init, KernelOK
  <1>2. DetectOK
    BY DEF Init, DetectOK, Snapshot
  <1>3. ExternOK
    BY DesignAssumption DEF Init, ExternOK, Snapshot
  <1>4. RegionOK
    BY EmptyBatch DEF Init, RegionOK, Snapshot
  <1>5. LoopOK
    BY DesignAssumption DEF Init, LoopOK
  <1>6. CtlOK
    <2>1. maxTime \in 0 .. MaxRun /\ lpos \in 1 .. Len(Launch) + 1
      BY DesignAssumption, LaunchType DEF Init
    <2> QED BY <2>1 DEF Init, CtlOK, Phases
  <1>7. CaOK
    BY DesignAssumption DEF Init, CaOK, CAPass, Returns
  <1>8. HistOK
    <2>1. fires \in [Seqs -> 0 .. 2]
      BY DEF Init
    <2> QED BY <2>1 DEF Init, HistOK, Snapshot
  <1>9. calls \in 0 .. MaxCalls
    BY DesignAssumption DEF Init
  <1> QED BY <1>1, <1>2, <1>3, <1>4, <1>5, <1>6, <1>7, <1>8, <1>9 DEF TypeOK

\* Every step of the kernel or the testbench keeps the domains.
LEMMA TypeNext == ASSUME TypeOK, [Next]_vars PROVE TypeOK'
  <1>1. CASE Kernel
    BY <1>1, TypeAssigns, TypeExecute, TypeRegion, TypeDelta, TypeStep, TypeRun, TypeBoot, TypeSettle
    DEF Kernel
  <1>2. CASE Testbench
    BY <1>2, TypeTestbench
  <1>3. CASE UNCHANGED vars
    BY <1>3, Kept DEF TypeOK, vars
  <1> QED BY <1>1, <1>2, <1>3 DEF Next, Done

\* Type correctness of the simulation kernel, for every design and bound.
THEOREM TypeCorrect == Spec => []TypeOK
  <1>1. Init => TypeOK
    BY TypeInit
  <1>2. TypeOK /\ [Next]_vars => TypeOK'
    BY TypeNext
  <1> QED BY <1>1, <1>2, PTL DEF Spec

-----------------------------------------------------------------------------
(* No continuous assign is forgotten.                                      *)

Busy == {"exec", "nba", "ca"}

\* The value of a right-hand side depends on the signals it reads alone.
LEMMA RhsAgree ==
  ASSUME NEW i \in 1 .. NCA, NEW s \in [Sigs -> Val], NEW u \in [Sigs -> Val],
         \A r \in CAReads[i] : s[r] = u[r]
  PROVE  Rhs(i, s) = Rhs(i, u)
  <1>1. [r \in CAReads[i] |-> s[r]] = [r \in CAReads[i] |-> u[r]]
    OBVIOUS
  <1> QED BY <1>1 DEF Rhs

\* The assign shows its right-hand side, or is one the kernel will come back to.
InHand(i) ==
    \/ phase # "exec" /\ CAConsistent(i)
    \/ phase = "exec" /\ RegionStart[CALhs[i]] = Rhs(i, RegionStart)
    \/ phase = "nba" /\ CAReads[i] \cap nbaDirty # {}
    \/ /\ phase = "ca"
       /\ ca.all \/ CAReads[i] \cap ca.dirty # {}
       /\ i >= ca.pos \/ ca.chg

\* So is every assign that reads nothing in P.  NoAssignForgotten is the case
\* of the pending drives.
AllBut(P) == ~caOverflow => \A i \in 1 .. NCA : CAReads[i] \cap P # {} \/ InHand(i)

\* The case of the pending drives, before and after a step.
LEMMA ExceptPending ==
  ASSUME NEW P
  PROVE  /\ P = pending => (NoAssignForgotten <=> AllBut(P))
         /\ P = pending' => (NoAssignForgotten' <=> AllBut(P)')
  BY DEF NoAssignForgotten, AllBut, InHand

\* A step between two quiet phases forgets no assign.
LEMMA QuietStep ==
  ASSUME NEW P, AllBut(P), phase \notin Busy, phase' \notin Busy,
         UNCHANGED <<sigs, caOverflow>>
  PROVE  AllBut(P)'
  BY DEF AllBut, InHand, CAConsistent, Rhs, Busy

\* Nor does starting the assign loop on the drives it consumes.
LEMMA AssignsStart ==
  ASSUME NEW P, NEW Q, NEW d, NEW all, NEW ret, TypeOK,
         AllBut(P), phase \notin Busy, StartCA(d, all, ret),
         UNCHANGED <<sigs, caOverflow>>, P \subseteq Q \cup d
  PROVE  AllBut(Q)'
  <1> SUFFICES ASSUME ~caOverflow, NEW i \in 1 .. NCA
               PROVE  \/ CAReads[i] \cap Q # {}
                      \/ CAConsistent(i)'
                      \/ /\ all \/ CAReads[i] \cap d # {}
                         /\ i >= 1
    BY DEF AllBut, InHand, StartCA, CAPass
  <1>1. CAReads[i] \cap P # {} \/ CAConsistent(i)
    BY DEF AllBut, InHand, Busy
  <1>2. i >= 1
    BY DesignAssumption
  <1> QED BY <1>1, <1>2 DEF CAConsistent, Rhs

\* Nor does entering an active region.
LEMMA RegionStarts ==
  ASSUME NEW P, NEW b, NEW w, TypeOK,
         AllBut(P), phase \notin Busy, StartRegion(b, w),
         UNCHANGED <<sigs, caOverflow>>
  PROVE  AllBut(P)'
  <1>1. RegionStart' = sigs
    BY DEF RegionStart, StartRegion, TypeOK, KernelOK
  <1> QED BY <1>1 DEF AllBut, InHand, StartRegion, CAConsistent, Busy

\* Evaluating an assign makes it show its value; what reads its output is in
\* the grown dirty set, and another pass is due.
LEMMA AssignsEval ==
  ASSUME NEW P, TypeOK, AllBut(P), CAEval
  PROVE  AllBut(P)'
  <1> DEFINE k == ca.pos
             v == Rhs(k, sigs)
             hit == (ca.all \/ CAReads[k] \cap ca.dirty # {}) /\ v # sigs[CALhs[k]]
  <1>1. /\ phase = "ca" /\ phase' = "ca" /\ caOverflow' = caOverflow
        /\ ca'.dirty = IF hit THEN ca.dirty \cup {CALhs[k]} ELSE ca.dirty
        /\ ca'.pos = k + 1 /\ ca'.chg = (ca.chg \/ hit) /\ ca'.all = ca.all
        /\ sigs' = IF hit THEN [sigs EXCEPT ![CALhs[k]] = v] ELSE sigs
    BY DEF CAEval, MarkOutputs, ctl, hist
  <1>2. k \in 1 .. NCA /\ CALhs[k] \in Sigs /\ v \in Val /\ sigs \in [Sigs -> Val]
    BY DesignAssumption, RhsType DEF CAEval, TypeOK, CaOK, KernelOK
  <1> SUFFICES ASSUME ~caOverflow, NEW i \in 1 .. NCA
               PROVE  \/ CAReads[i] \cap P # {}
                      \/ CAConsistent(i)'
                      \/ /\ ca.all \/ CAReads[i] \cap ca'.dirty # {}
                         /\ i >= k + 1 \/ ca.chg \/ hit
    BY <1>1 DEF AllBut, InHand
  <1>3. \/ CAReads[i] \cap P # {}
        \/ CAConsistent(i)
        \/ /\ ca.all \/ CAReads[i] \cap ca.dirty # {}
           /\ i >= k \/ ca.chg
    BY <1>1 DEF AllBut, InHand
  <1>4. CASE ~hit
    <2>1. CAConsistent(i)' <=> CAConsistent(i)
      BY <1>1, <1>4 DEF CAConsistent
    <2>2. i = k /\ (ca.all \/ CAReads[i] \cap ca.dirty # {}) => CAConsistent(i)
      BY <1>4 DEF CAConsistent
    <2>3. i >= k => i = k \/ i >= k + 1
      BY <1>2, DesignAssumption
    <2> QED BY <1>1, <1>3, <1>4, <2>1, <2>2, <2>3
  <1>5. CASE hit
    <2>1. CASE CALhs[k] \in CAReads[i]
      BY <1>1, <1>5, <2>1
    <2>2. CASE CALhs[k] \notin CAReads[i]
      <3>1. sigs' \in [Sigs -> Val] /\ \A r \in CAReads[i] : sigs'[r] = sigs[r]
        BY <1>1, <1>2, <1>5, <2>2, DesignAssumption
      <3>2. Rhs(i, sigs') = Rhs(i, sigs)
        BY <1>2, <3>1, RhsAgree
      <3>3. CASE i = k
        BY <1>1, <1>2, <1>5, <3>2, <3>3 DEF CAConsistent, Rhs
      <3>4. CASE i # k
        <4>1. CALhs[i] # CALhs[k] /\ CALhs[i] \in Sigs
          BY <1>2, <3>4, DriverAssumption, DesignAssumption
        <4>2. sigs'[CALhs[i]] = sigs[CALhs[i]]
          BY <1>1, <1>2, <1>5, <4>1
        <4>3. CAConsistent(i) => CAConsistent(i)'
          BY <3>2, <4>2 DEF CAConsistent, Rhs
        <4> QED BY <1>1, <1>3, <1>5, <4>3
      <3> QED BY <3>3, <3>4
    <2> QED BY <2>1, <2>2
  <1> QED BY <1>4, <1>5

\* The loop stops when a pass changed nothing, or at the limit.
LEMMA AssignsEnd ==
  ASSUME NEW P, TypeOK, AllBut(P), CAPassEnd
  PROVE  AllBut(P)'
  <1> DEFINE again == ca.chg /\ ca.n < DeltaLimit
  <1>1. /\ phase = "ca" /\ ca.pos > NCA /\ UNCHANGED sigs
        /\ caOverflow' = (caOverflow \/ (ca.chg /\ ~again))
    BY DEF CAPassEnd, kernel
  <1>2. CASE again
    <2>1. /\ phase' = "ca" /\ ca'.dirty = ca.dirty /\ ca'.all = ca.all /\ ca'.pos = 1
      BY <1>1, <1>2 DEF CAPassEnd, CAPass
    <2>2. \A i \in 1 .. NCA : i >= 1
      BY DesignAssumption
    <2> QED BY <1>1, <1>2, <2>1, <2>2 DEF AllBut, InHand, CAConsistent
  <1>3. CASE ~again /\ ca.chg
    BY <1>1, <1>3 DEF AllBut, InHand
  <1>4. CASE ~ca.chg
    <2>1. phase' \notin Busy
      BY <1>4 DEF CAPassEnd, Busy, TypeOK, CaOK, Returns
    <2>2. \A i \in 1 .. NCA : ~(i >= ca.pos)
      BY <1>1, DesignAssumption DEF TypeOK, CaOK
    <2> QED BY <1>1, <1>4, <2>1, <2>2 DEF AllBut, InHand, CAConsistent, Busy
  <1> QED BY <1>2, <1>3, <1>4

\* An activation writes no net, and leaves the region's starting point.
LEMMA ExecuteForgetsNone ==
  ASSUME NEW P, TypeOK, AllBut(P), OneDriver, NEW p \in Procs, Execute(p)
  PROVE  AllBut(P)' /\ OneDriver'
  <1> DEFINE r == Activation(p)
  <1>1. r \in Outcome
    BY ActivationType
  <1>2. /\ \A w \in Wires : r.wr[w] = NoVal
        /\ \A k \in 1 .. Len(r.nba) : r.nba[k][1] \notin Wires
    <2>1. CASE pcs[p] = Dead
      <3>1. \A w \in Wires : w \in Sigs
        BY DesignAssumption DEF Wires
      <3>2. Len(<<>>) = 0
        BY EmptySeq
      <3>3. 1 .. 0 = {}
        OBVIOUS
      <3> QED BY <2>1, <3>1, <3>2, <3>3 DEF Activation, Exhausted
    <2>2. CASE pcs[p] # Dead
      <3>1. pcs[p] \in Pc /\ sigs \in [Sigs -> Val]
        BY <2>2 DEF TypeOK, KernelOK
      <3> QED BY <2>2, <3>1, DriverAssumption DEF Activation
    <2> QED BY <2>1, <2>2
  <1>3. /\ phase = "exec" /\ phase' = "exec" /\ UNCHANGED caOverflow
        /\ sigs' = [s \in Sigs |-> IF s \in Written(r) THEN r.wr[s] ELSE sigs[s]]
        /\ orig' = [s \in Sigs |-> IF s \in Written(r) /\ orig[s] = NoVal
                                   THEN sigs[s] ELSE orig[s]]
        /\ nba' = nba \o r.nba
    BY DEF Execute, ctl
  <1>4. RegionStart' = RegionStart
    <2>1. \A s \in Sigs : sigs[s] # NoVal
      BY DEF TypeOK, KernelOK, Val, NoVal
    <2> QED BY <1>3, <2>1 DEF RegionStart
  <1>5. AllBut(P)'
    BY <1>3, <1>4 DEF AllBut, InHand
  <1>6. \A w \in Wires : orig'[w] = NoVal
    BY <1>2, <1>3, DesignAssumption DEF OneDriver, Wires, Written
  <1>7. \A k \in 1 .. Len(nba') : nba'[k][1] \notin Wires
    <2>1. nba \in Seq(Sigs \X Val) /\ r.nba \in Seq(Sigs \X Val)
      BY <1>1 DEF TypeOK, KernelOK, Outcome
    <2>2. /\ Len(nba) \in Nat /\ Len(r.nba) \in Nat
          /\ Len(nba') = Len(nba) + Len(r.nba)
          /\ \A k \in 1 .. Len(nba) + Len(r.nba) :
                nba'[k] = IF k <= Len(nba) THEN nba[k] ELSE r.nba[k - Len(nba)]
      BY <1>3, <2>1, ConcatProperties, LenProperties
    <2> SUFFICES ASSUME NEW k \in 1 .. Len(nba') PROVE nba'[k][1] \notin Wires
      OBVIOUS
    <2>3. CASE k <= Len(nba)
      <3>1. k \in 1 .. Len(nba) /\ nba'[k] = nba[k]
        BY <2>2, <2>3
      <3> QED BY <3>1 DEF OneDriver
    <2>4. CASE ~(k <= Len(nba))
      <3>1. k - Len(nba) \in 1 .. Len(r.nba) /\ nba'[k] = r.nba[k - Len(nba)]
        BY <2>2, <2>4
      <3> QED BY <1>2, <3>1
    <2> QED BY <2>3, <2>4
  <1> QED BY <1>5, <1>6, <1>7 DEF OneDriver

\* The dirty set of a region holds what its activations changed.
LEMMA RegionEndForgetsNone ==
  ASSUME NEW P, TypeOK, AllBut(P), OneDriver, RegionEnd
  PROVE  AllBut(P)'
  <1>1. /\ phase = "exec" /\ phase' = "ca" /\ UNCHANGED <<sigs, caOverflow>>
        /\ ca'.dirty = Changed(orig) /\ ca'.pos = 1
    BY DEF RegionEnd, StartCA, CAPass, kernel, hist
  <1>2. sigs \in [Sigs -> Val] /\ RegionStart \in [Sigs -> Val] /\ orig \in Snapshot
    BY DEF TypeOK, KernelOK, RegionOK, Snapshot, RegionStart
  <1> SUFFICES ASSUME ~caOverflow, NEW i \in 1 .. NCA,
                      CAReads[i] \cap P = {}, CAReads[i] \cap Changed(orig) = {}
               PROVE  CAConsistent(i)
    <2>1. \A i \in 1 .. NCA : i >= 1
      BY DesignAssumption
    <2> QED BY <1>1, <2>1 DEF AllBut, InHand, CAConsistent
  <1>3. RegionStart[CALhs[i]] = Rhs(i, RegionStart)
    BY <1>1 DEF AllBut, InHand
  <1>4. CALhs[i] \in Sigs /\ RegionStart[CALhs[i]] = sigs[CALhs[i]]
    BY DesignAssumption DEF OneDriver, Wires, RegionStart
  <1>5. \A s \in CAReads[i] : RegionStart[s] = sigs[s]
    <2> SUFFICES ASSUME NEW s \in CAReads[i] PROVE RegionStart[s] = sigs[s]
      OBVIOUS
    <2>1. s \in Sigs /\ s \notin Changed(orig)
      BY DesignAssumption
    <2> QED BY <2>1 DEF Changed, RegionStart
  <1>6. Rhs(i, RegionStart) = Rhs(i, sigs)
    BY <1>2, <1>5, RhsAgree
  <1> QED BY <1>3, <1>4, <1>6 DEF CAConsistent

\* A non-blocking update that changes a signal marks it.
LEMMA NbaForgetsNone ==
  ASSUME NEW P, TypeOK, AllBut(P), OneDriver, DeltaBegin \/ ApplyNba \/ NbaDone
  PROVE  AllBut(P)' /\ OneDriver'
  <1>1. CASE DeltaBegin
    <2>1. AllBut(P)'
      BY <1>1 DEF DeltaBegin, AllBut, InHand, CAConsistent, kernel, hist
    <2>2. OneDriver'
      BY <1>1 DEF DeltaBegin, OneDriver, kernel, region
    <2> QED BY <2>1, <2>2
  <1>2. CASE ApplyNba
    <2> DEFINE s == Head(nba)[1]
               v == Head(nba)[2]
    <2>1. /\ phase = "nba" /\ phase' = "nba" /\ nba # <<>> /\ nba' = Tail(nba)
          /\ UNCHANGED <<caOverflow, orig>>
          /\ sigs' = [sigs EXCEPT ![s] = v]
          /\ nbaDirty' = IF v # sigs[s] THEN nbaDirty \cup {s} ELSE nbaDirty
      BY <1>2 DEF ApplyNba, ctl, hist, region
    <2>2. nba \in Seq(Sigs \X Val) /\ sigs \in [Sigs -> Val]
      BY DEF TypeOK, KernelOK
    <2>3. /\ Head(nba) \in Sigs \X Val /\ Head(nba) = nba[1] /\ Len(nba) \in Nat \ {0}
          /\ Len(Tail(nba)) = Len(nba) - 1
          /\ \A k \in 1 .. Len(Tail(nba)) : Tail(nba)[k] = nba[k + 1]
      BY <2>1, <2>2, HeadTailProperties, EmptySeq
    <2>4. s \in Sigs /\ v \in Val /\ s \notin Wires
      BY <2>3 DEF OneDriver
    <2>5. OneDriver'
      <3>1. \A k \in 1 .. Len(nba') : nba'[k][1] \notin Wires
        BY <2>1, <2>3 DEF OneDriver
      <3> QED BY <2>1, <3>1 DEF OneDriver
    <2>6. AllBut(P)'
      <3> SUFFICES ASSUME ~caOverflow, NEW i \in 1 .. NCA,
                          CAReads[i] \cap P = {}, CAReads[i] \cap nbaDirty' = {}
                   PROVE  CAConsistent(i)'
        BY <2>1 DEF AllBut, InHand
      <3>1. CAConsistent(i)
        BY <2>1 DEF AllBut, InHand
      <3>2. sigs' \in [Sigs -> Val] /\ \A q \in CAReads[i] : sigs'[q] = sigs[q]
        BY <2>1, <2>2, <2>4, DesignAssumption
      <3>3. Rhs(i, sigs') = Rhs(i, sigs)
        BY <2>2, <3>2, RhsAgree
      <3>4. sigs'[CALhs[i]] = sigs[CALhs[i]]
        BY <2>1, <2>2, <2>4, DesignAssumption DEF Wires
      <3> QED BY <3>1, <3>3, <3>4 DEF CAConsistent, Rhs
    <2> QED BY <2>5, <2>6
  <1>3. CASE NbaDone
    <2>1. AllBut(P)'
      <3>1. \A i \in 1 .. NCA : i >= 1
        BY DesignAssumption
      <3>2. /\ phase = "nba" /\ phase' = "ca" /\ UNCHANGED <<sigs, caOverflow>>
            /\ ca'.dirty = nbaDirty /\ ca'.pos = 1
        BY <1>3 DEF NbaDone, StartCA, CAPass, kernel, hist
      <3> QED BY <3>1, <3>2 DEF AllBut, InHand, CAConsistent
    <2>2. OneDriver'
      BY <1>3 DEF NbaDone, OneDriver, kernel, region
    <2> QED BY <2>1, <2>2
  <1> QED BY <1>1, <1>2, <1>3

\* A drive marks its signal pending.
LEMMA DriveForgetsNone ==
  ASSUME TypeOK, NoAssignForgotten, phase \notin Busy,
         NEW s \in (Inputs \cup CallbackInputs), NEW v \in {0, 1}, DriveSignal(s, v),
         caOverflow' = caOverflow, phase' # "exec"
  PROVE  NoAssignForgotten'
  <1> SUFFICES ASSUME ~caOverflow, NEW i \in 1 .. NCA, CAReads[i] \cap pending' = {}
               PROVE  CAConsistent(i)'
    BY DEF NoAssignForgotten
  <1>1. /\ s \in Sigs /\ s \notin Wires /\ sigs \in [Sigs -> Val] /\ v \in Val
        /\ CALhs[i] \in Sigs /\ CALhs[i] \in Wires
    BY DesignAssumption, DriverAssumption DEF TypeOK, KernelOK, Val, Wires
  <1>2. sigs' = [sigs EXCEPT ![s] = v] /\ pending' = pending \cup {s}
    BY DEF DriveSignal
  <1>3. CAConsistent(i)
    BY <1>2 DEF NoAssignForgotten, Busy
  <1>4. sigs' \in [Sigs -> Val] /\ \A q \in CAReads[i] : sigs'[q] = sigs[q]
    BY <1>1, <1>2, DesignAssumption
  <1>5. Rhs(i, sigs') = Rhs(i, sigs)
    BY <1>1, <1>4, RhsAgree
  <1>6. sigs'[CALhs[i]] = sigs[CALhs[i]]
    BY <1>1, <1>2
  <1> QED BY <1>3, <1>5, <1>6 DEF CAConsistent, Rhs

\* The inductive invariant of the continuous assigns.
AssignInv == TypeOK /\ NoAssignForgotten /\ OneDriver

\* Entering an active region clears the record of what it wrote.
LEMMA RegionKeepsDrivers ==
  ASSUME NEW b, NEW w, OneDriver, StartRegion(b, w), UNCHANGED nba
  PROVE  OneDriver'
  BY DesignAssumption DEF OneDriver, StartRegion, Wires

\* elaborate() leaves every assign consistent.
LEMMA AssignInit == ASSUME Init PROVE AssignInv
  <1>1. NoAssignForgotten
    BY DriverAssumption DEF Init, NoAssignForgotten, CAConsistent
  <1>2. OneDriver
    <2>1. Len(<<>>) = 0 /\ 1 .. 0 = {}
      BY EmptySeq
    <2> QED BY <2>1, DesignAssumption DEF Init, OneDriver, Wires
  <1> QED BY <1>1, <1>2, TypeInit DEF AssignInv

\* Steps that neither write a signal nor start a loop.
LEMMA QuietKernel ==
  ASSUME \/ DeltaLimitError \/ DeltaDone \/ WakeOne \/ WakeDone \/ CallbackQuiet \/ StepEnd
         \/ RunLaunch \/ RunReturn \/ SettleBoot \/ CallSchedule \/ CallRun
  PROVE  /\ phase \notin Busy /\ phase' \notin Busy
         /\ UNCHANGED <<sigs, caOverflow, orig, nba, pending>>
  <1>1. CASE DeltaLimitError
    BY <1>1 DEF DeltaLimitError, Busy, kernel, region, hist, extern
  <1>2. CASE DeltaDone
    BY <1>2 DEF DeltaDone, Busy, kernel, region, hist
  <1>3. CASE WakeOne
    BY <1>3 DEF WakeOne, Busy, region, hist, extern, ctl
  <1>4. CASE WakeDone
    BY <1>4 DEF WakeDone, Busy, kernel, region, hist, extern
  <1>5. CASE CallbackQuiet
    BY <1>5 DEF CallbackQuiet, Busy, kernel, region, hist, extern
  <1>6. CASE StepEnd
    BY <1>6 DEF StepEnd, Busy, region, hist
  <1>7. CASE RunLaunch
    BY <1>7 DEF RunLaunch, Busy, region, hist, extern
  <1>8. CASE RunReturn
    BY <1>8 DEF RunReturn, Busy, kernel, region, hist
  <1>9. CASE SettleBoot
    BY <1>9 DEF SettleBoot, Busy, kernel, region, hist, extern
  <1>10. CASE CallSchedule
    BY <1>10 DEF CallSchedule, Call, Busy, region, hist, extern
  <1>11. CASE CallRun
    BY <1>11 DEF CallRun, Call, Busy, kernel, region, extern
  <1> QED BY <1>1, <1>2, <1>3, <1>4, <1>5, <1>6, <1>7, <1>8, <1>9, <1>10, <1>11

\* Steps that start the assign loop, or find that they need not.
LEMMA AssignStarters ==
  ASSUME TypeOK,
         \/ Resettle \/ ExternalDrives \/ BootDrives \/ FullCA \/ SettleDrives \/ CallSettle
  PROVE  /\ phase \notin Busy /\ UNCHANGED <<sigs, caOverflow, orig, nba>>
         /\ \/ phase' \notin Busy /\ pending \subseteq pending'
            \/ \E d \in SUBSET Sigs, all \in BOOLEAN, ret \in Returns :
                  StartCA(d, all, ret) /\ pending \subseteq pending' \cup d
  <1>1. phase \notin Busy /\ UNCHANGED <<sigs, caOverflow, orig, nba>>
    <2>1. CASE Resettle
      BY <2>1 DEF Resettle, Busy, kernel, region, hist
    <2>2. CASE ExternalDrives
      BY <2>2 DEF ExternalDrives, Busy, kernel, region, hist
    <2>3. CASE BootDrives
      BY <2>3 DEF BootDrives, Busy, kernel, region, hist
    <2>4. CASE FullCA
      BY <2>4 DEF FullCA, Busy, kernel, region, hist
    <2>5. CASE SettleDrives
      BY <2>5 DEF SettleDrives, Busy, kernel, region, hist
    <2>6. CASE CallSettle
      BY <2>6 DEF CallSettle, Call, Busy, kernel, region
    <2> QED BY <2>1, <2>2, <2>3, <2>4, <2>5, <2>6
  <1>2. \/ phase' \notin Busy /\ pending \subseteq pending'
        \/ \E d \in SUBSET Sigs, all \in BOOLEAN, ret \in Returns :
              StartCA(d, all, ret) /\ pending \subseteq pending' \cup d
    <2>0. /\ "fullca" \in Returns /\ "settlecollect" \in Returns /\ "settleboot" \in Returns
          /\ "extcollect" \in Returns /\ "delta" \in Returns /\ "next" \in Returns
          /\ "bootcombos" \in Returns
          /\ pending \in SUBSET Sigs /\ pending \cup drv \in SUBSET Sigs /\ ca.dirty \in SUBSET Sigs
      BY DEF Returns, TypeOK, ExternOK, LoopOK, CaOK
    <2>1. CASE Resettle
      BY <2>0, <2>1 DEF Resettle, extern
    <2>2. CASE ExternalDrives
      <3>1. Changed(lastRun) \in SUBSET Sigs
        BY DEF Changed
      <3> QED BY <2>0, <2>2, <3>1 DEF ExternalDrives, extern, Busy
    <2>3. CASE BootDrives
      BY <2>0, <2>3 DEF BootDrives, Busy
    <2>4. CASE FullCA
      <3>1. StartCA({}, TRUE, IF booted THEN "next" ELSE "bootcombos") /\ pending' = pending
        BY <2>4 DEF FullCA, extern
      <3>2. (IF booted THEN "next" ELSE "bootcombos") \in Returns
        BY <2>0
      <3> QED BY <3>1, <3>2
    <2>5. CASE SettleDrives
      BY <2>0, <2>5 DEF SettleDrives, Busy
    <2>6. CASE CallSettle
      BY <2>0, <2>6 DEF CallSettle, Busy
    <2> QED BY <2>1, <2>2, <2>3, <2>4, <2>5, <2>6
  <1> QED BY <1>1, <1>2

\* Steps that enter an active region, or find nothing to run.
LEMMA RegionStarters ==
  ASSUME TypeOK,
         \/ Collect \/ ExternalCollect \/ BootCombos \/ BootReaders \/ RunNext
         \/ SettleCollect \/ CallRunStep
  PROVE  /\ phase \notin Busy /\ UNCHANGED <<sigs, caOverflow, pending, nba>>
         /\ \/ phase' \notin Busy /\ UNCHANGED region
            \/ \E b \in Seq(Procs), w \in SUBSET Procs : StartRegion(b, w)
  <1>1. phase \notin Busy /\ UNCHANGED <<sigs, caOverflow, pending, nba>>
    <2>1. CASE Collect
      BY <2>1 DEF Collect, Busy, kernel, hist, extern
    <2>2. CASE ExternalCollect
      BY <2>2 DEF ExternalCollect, Busy, kernel, hist, extern
    <2>3. CASE BootCombos
      BY <2>3 DEF BootCombos, Busy, kernel, hist
    <2>4. CASE BootReaders
      BY <2>4 DEF BootReaders, Busy, kernel, hist, extern
    <2>5. CASE RunNext
      BY <2>5 DEF RunNext, StepBegin, Busy, hist, extern
    <2>6. CASE SettleCollect
      BY <2>6 DEF SettleCollect, Busy, kernel, hist
    <2>7. CASE CallRunStep
      BY <2>7 DEF CallRunStep, StepBegin, Call, Busy, hist, extern
    <2> QED BY <2>1, <2>2, <2>3, <2>4, <2>5, <2>6, <2>7
  <1>2. \/ phase' \notin Busy /\ UNCHANGED region
        \/ \E b \in Seq(Procs), w \in SUBSET Procs : StartRegion(b, w)
    <2>1. CASE Collect
      <3> DEFINE trig == Triggered(act \cup ca.dirty, ca.dirty, prev, edgeChanged, trigSeq)
      <3>1. trig \in SUBSET Procs
        BY CollectType DEF TypeOK, LoopOK, CaOK, DetectOK
      <3>2. StartRegion(<<>>, trig) \/ (phase' = "delta" /\ UNCHANGED region)
        BY <2>1 DEF Collect
      <3> QED BY <3>1, <3>2, EmptyBatch DEF Busy
    <2>2. CASE ExternalCollect
      <3> DEFINE trig == Triggered(Changed(lastRun), Changed(lastRun), lastRun, {}, {})
      <3>1. trig \in SUBSET Procs
        BY CollectType DEF TypeOK, ExternOK, Changed
      <3>2. StartRegion(<<>>, trig) \/ (phase' \in {"boot", "wake"} /\ UNCHANGED region)
        BY <2>2 DEF ExternalCollect
      <3> QED BY <3>1, <3>2, EmptyBatch DEF Busy
    <2>3. CASE BootCombos
      <3>1. StartCombos \in SUBSET Procs
        BY DesignAssumption DEF Procs
      <3> QED BY <2>3, <3>1, EmptyBatch DEF BootCombos, Busy
    <2>4. CASE BootReaders
      <3>1. CombosHit(drv, drv) \ StartCombos \in SUBSET Procs
        BY DEF CombosHit, Procs
      <3> QED BY <2>4, <3>1, EmptyBatch DEF BootReaders, Busy
    <2>5. CASE RunNext
      <3>1. PICK t \in 0 .. maxTime : StepBegin(t)
        BY <2>5 DEF RunNext
      <3>2. queue[t] \in Seq(Procs) /\ {} \in SUBSET Procs
        BY DesignAssumption DEF TypeOK, KernelOK, CtlOK, Time, Horizon
      <3> QED BY <3>1, <3>2 DEF StepBegin
    <2>6. CASE SettleCollect
      <3> DEFINE trig == Triggered(ca.dirty, ca.dirty, prev, edgeChanged, trigSeq)
                           \ (IF starting /\ Combos # {} THEN StartCombos ELSE {})
      <3>1. trig \in SUBSET Procs
        BY CollectType DEF TypeOK, CaOK, DetectOK
      <3>2. StartRegion(<<>>, trig) \/ (phase' = "idle" /\ UNCHANGED region)
        BY <2>6 DEF SettleCollect
      <3> QED BY <3>1, <3>2, EmptyBatch DEF Busy
    <2>7. CASE CallRunStep
      <3>1. PICK t \in 0 .. MaxRun : StepBegin(t)
        BY <2>7 DEF CallRunStep
      <3>2. queue[t] \in Seq(Procs) /\ {} \in SUBSET Procs
        BY DesignAssumption DEF TypeOK, KernelOK, Time, Horizon
      <3> QED BY <3>1, <3>2 DEF StepBegin
    <2> QED BY <2>1, <2>2, <2>3, <2>4, <2>5, <2>6, <2>7
  <1> QED BY <1>1, <1>2

\* Drives of the testbench and of the callback.
LEMMA Drives ==
  ASSUME AssignInv, CallDrive \/ CallbackDrive
  PROVE  NoAssignForgotten' /\ OneDriver'
  <1> USE DEF AssignInv
  <1>1. CASE CallDrive
    <2>1. PICK s \in Inputs, v \in {0, 1} : DriveSignal(s, v)
      BY <1>1 DEF CallDrive
    <2>2. phase = "idle" /\ phase' = "idle" /\ UNCHANGED <<caOverflow, orig, nba>>
      BY <1>1 DEF CallDrive, Call, region
    <2>3. NoAssignForgotten'
      BY <2>1, <2>2, DriveForgetsNone DEF Busy
    <2> QED BY <2>2, <2>3 DEF OneDriver
  <1>2. CASE CallbackDrive
    <2>1. PICK s \in CallbackInputs, v \in {0, 1} : DriveSignal(s, v)
      BY <1>2 DEF CallbackDrive
    <2>2. phase = "callback" /\ phase' = "ca" /\ UNCHANGED <<caOverflow, orig, nba>>
      BY <1>2 DEF CallbackDrive, StartCA, region, hist
    <2>3. NoAssignForgotten'
      BY <2>1, <2>2, DriveForgetsNone DEF Busy
    <2> QED BY <2>2, <2>3 DEF OneDriver
  <1> QED BY <1>1, <1>2

\* No step but a drive forgets an assign, whatever set of signals is excepted.
LEMMA StepForgetsNone ==
  ASSUME NEW P, TypeOK, OneDriver, AllBut(P), [Next]_vars, ~CallDrive, ~CallbackDrive
  PROVE  AllBut(P)' /\ OneDriver'
  <1>1. CASE CAEval
    <2>1. OneDriver'
      BY <1>1 DEF OneDriver, CAEval, region
    <2> QED BY <1>1, <2>1, AssignsEval
  <1>2. CASE CAPassEnd
    <2>1. OneDriver'
      BY <1>2 DEF OneDriver, CAPassEnd, region, kernel
    <2> QED BY <1>2, <2>1, AssignsEnd
  <1>3. ASSUME NEW p \in Procs, Execute(p)
        PROVE  AllBut(P)' /\ OneDriver'
    BY <1>3, ExecuteForgetsNone
  <1>4. CASE RegionEnd
    <2>1. OneDriver'
      BY <1>4 DEF OneDriver, RegionEnd, region, kernel
    <2> QED BY <1>4, <2>1, RegionEndForgetsNone
  <1>5. CASE DeltaBegin \/ ApplyNba \/ NbaDone
    BY <1>5, NbaForgetsNone
  <1>6. CASE \/ DeltaLimitError \/ DeltaDone \/ WakeOne \/ WakeDone \/ CallbackQuiet \/ StepEnd
             \/ RunLaunch \/ RunReturn \/ SettleBoot \/ CallSchedule \/ CallRun
    BY <1>6, QuietKernel, QuietStep DEF OneDriver
  <1>7. CASE \/ Resettle \/ ExternalDrives \/ BootDrives \/ FullCA \/ SettleDrives \/ CallSettle
    <2>1. OneDriver' /\ phase \notin Busy /\ UNCHANGED <<sigs, caOverflow>>
      BY <1>7, AssignStarters DEF OneDriver
    <2>2. CASE phase' \notin Busy
      BY <2>1, <2>2, QuietStep
    <2>3. ASSUME NEW d, NEW all, NEW ret, StartCA(d, all, ret)
          PROVE  AllBut(P)'
      BY <2>1, <2>3, AssignsStart
    <2> QED BY <1>7, <2>1, <2>2, <2>3, AssignStarters
  <1>8. CASE \/ Collect \/ ExternalCollect \/ BootCombos \/ BootReaders \/ RunNext
             \/ SettleCollect \/ CallRunStep
    <2>1. phase \notin Busy /\ UNCHANGED <<sigs, caOverflow, nba>>
      BY <1>8, RegionStarters
    <2>2. CASE phase' \notin Busy /\ UNCHANGED region
      BY <2>1, <2>2, QuietStep DEF OneDriver, region
    <2>3. ASSUME NEW b \in Seq(Procs), NEW w \in SUBSET Procs, StartRegion(b, w)
          PROVE  AllBut(P)' /\ OneDriver'
      BY <2>1, <2>3, RegionStarts, RegionKeepsDrivers
    <2> QED BY <1>8, <2>2, <2>3, RegionStarters
  <1>9. CASE UNCHANGED vars
    <2>1. OneDriver'
      BY <1>9 DEF OneDriver, vars, region, kernel
    <2>2. AllBut(P)'
      BY <1>9 DEF AllBut, InHand, CAConsistent, RegionStart, vars, region, kernel, loop, ctl, hist
    <2> QED BY <2>1, <2>2
  <1> QED
    BY <1>1, <1>2, <1>3, <1>4, <1>5, <1>6, <1>7, <1>8, <1>9 DEF Next, Kernel, Testbench, Done

\* A step consumes the drives that it starts the assign loop on, and forgets
\* no other.
LEMMA PendingConsumed ==
  ASSUME [Next]_vars, ~CallDrive, ~CallbackDrive
  PROVE  \/ pending' = pending
         \/ BootDrives \/ SettleDrives
  BY DEF Next, Kernel, Testbench, Done, vars, extern, CAEval, CAPassEnd, Execute, RegionEnd, Resettle,
         DeltaBegin, ApplyNba, NbaDone, DeltaLimitError, Collect, DeltaDone, WakeOne, WakeDone,
         CallbackQuiet, StepEnd, RunLaunch, ExternalDrives, ExternalCollect, FullCA, BootCombos,
         BootReaders, RunNext, StepBegin, RunReturn, SettleBoot, SettleCollect, CallSchedule,
         CallRun, CallRunStep, CallSettle

\* Every step keeps the inductive invariant.
LEMMA AssignNext == ASSUME AssignInv, [Next]_vars PROVE AssignInv'
  <1>1. TypeOK'
    BY TypeNext DEF AssignInv
  <1>2. PICK P : P = pending
    OBVIOUS
  <1>3. AllBut(P) /\ OneDriver /\ TypeOK
    BY <1>2, ExceptPending DEF AssignInv
  <1>4. CASE CallDrive \/ CallbackDrive
    BY <1>1, <1>4, Drives DEF AssignInv
  <1>5. CASE ~CallDrive /\ ~CallbackDrive
    <2>1. AllBut(P)' /\ OneDriver'
      BY <1>3, <1>5, StepForgetsNone
    <2>2. CASE pending' = pending
      BY <1>1, <1>2, <2>1, <2>2, ExceptPending DEF AssignInv
    <2>3. CASE BootDrives \/ SettleDrives
      <3>1. phase \notin Busy /\ UNCHANGED <<sigs, caOverflow>>
        BY <1>3, <2>3, AssignStarters
      <3>2. PICK Q : Q = pending'
        OBVIOUS
      <3>3. CASE phase' \notin Busy /\ pending \subseteq pending'
        BY <1>1, <1>2, <2>1, <3>3 DEF AllBut, InHand, NoAssignForgotten, AssignInv
      <3>4. ASSUME NEW d \in SUBSET Sigs, NEW all \in BOOLEAN, NEW ret \in Returns,
                   StartCA(d, all, ret), pending \subseteq pending' \cup d
            PROVE  NoAssignForgotten'
        BY <1>2, <1>3, <3>1, <3>2, <3>4, AssignsStart, ExceptPending
      <3> QED BY <1>1, <1>3, <2>1, <2>3, <3>3, <3>4, AssignStarters DEF AssignInv
    <2> QED BY <1>5, <2>2, <2>3, PendingConsumed
  <1> QED BY <1>4, <1>5

\* The kernel never loses track of a stale continuous assign: at every point
\* of every API call it reads a pending drive, or a dirty set still holds one
\* of its inputs, or the loop has it ahead.
THEOREM AssignsTracked == Spec => []NoAssignForgotten
  <1>1. Init => AssignInv
    BY AssignInit
  <1>2. AssignInv /\ [Next]_vars => AssignInv'
    BY AssignNext
  <1>3. AssignInv => NoAssignForgotten
    BY DEF AssignInv
  <1> QED BY <1>1, <1>2, <1>3, PTL DEF Spec
=============================================================================
