------------------------- MODULE SchedulerStepProofs -------------------------
(***************************************************************************)
(* Proofs about what a time step of Scheduler leaves behind: every edge    *)
(* has run its blocks, every thread is due exactly once, nothing is left   *)
(* over, time does not go back; and about what its calls leave behind:     *)
(* every combinational block shows the value of its code, and every edge   *)
(* that the testbench drove has run its blocks once.                       *)
(***************************************************************************)
EXTENDS SchedulerProofs, FiniteSetTheorems

----------------------------------------------------------------------------
(* No edge of a time step is left without its block.                       *)

\* The edge of s between the step's snapshot and the values in now, for which
\* block p waits and has not run.
Unserved(p, s, now) ==
    Edges[p][s] # "none" /\ Edges[p][s] = EdgeDirection(prev[s], now[s]) /\ p \notin trigSeq

\* The signals that the next detection will look at.
Tracked ==
    CASE phase = "ca" /\ ca.ret = "delta"   -> ca.dirty
      [] phase = "ca" /\ ca.ret = "collect" -> act \cup ca.dirty
      [] phase = "collect"                  -> act \cup ca.dirty
      [] phase = "delta"                    -> act
      [] phase = "nba"                      -> act \cup nbaDirty
      [] OTHER                              -> {}

\* The phases of a delta loop, up to the check of the event waits.
Looping ==
    \/ phase \in {"exec", "resettle", "delta", "nba", "collect", "wake"}
    \/ phase = "ca" /\ ca.ret \in {"delta", "collect", "resettle"}
Now == IF phase = "exec" THEN RegionStart ELSE sigs

\* Inside a step, an edge not served yet is one the next detection looks at;
\* in an active region the same holds of the signals at its start.
EdgeInv ==
    /\ Looping /\ stage \in {"step", "ext"} =>
          \A p \in Seqs, s \in Sigs : Unserved(p, s, Now) => s \in Tracked
    /\ phase = "resettle" \/ (phase = "ca" /\ ca.ret = "resettle") => stage = "settle"
    /\ phase = "wake" => stage \in {"step", "ext"}

\* _edge_direction finds an edge in a change only, and no level.
LEMMA DirectionOfChange ==
  ASSUME NEW old \in Val \cup {NoVal}, NEW new \in Val, EdgeDirection(old, new) # "none"
  PROVE  old # NoVal /\ old # new /\ EdgeDirection(old, new) \in {"posedge", "negedge"}
  BY DEF EdgeDirection, Val, NoVal, X

\* Outside the delta loop there is nothing to show.
LEMMA EdgesQuiet ==
  ASSUME Looping' => FALSE
  PROVE  EdgeInv'
  BY DEF EdgeInv, Looping

\* A detection serves every edge of the signals it looks at.
LEMMA Detected ==
  ASSUME TypeOK, NEW dirty \in SUBSET Sigs, NEW pv \in Snapshot, NEW changed \in SUBSET Sigs,
         NEW fired \in SUBSET Seqs, CollectTriggered(dirty, pv, changed, fired),
         NEW p \in Seqs, NEW s \in Sigs,
         Edges[p][s] # "none", Edges[p][s] = EdgeDirection(pv[s], sigs[s]), s \in dirty
  PROVE  p \in trigSeq'
  <1>1. pv[s] \in Val \cup {NoVal} /\ sigs[s] \in Val
    BY DEF Snapshot, TypeOK, KernelOK
  <1>2. Edges[p][s] \in {"posedge", "negedge"}
    BY <1>1, DirectionOfChange
  <1>3. s \in EdgeNames
    BY <1>2 DEF EdgeNames
  <1>4. p \in SeqsHit(changed \cup (dirty \cap EdgeNames), pv)
    BY <1>3 DEF SeqsHit
  <1> QED BY <1>4 DEF CollectTriggered

\* The assign loop adds what it changes to its dirty set.
LEMMA EdgesAssigns ==
  ASSUME TypeOK, EdgeInv, CAEval \/ CAPassEnd
  PROVE  EdgeInv'
  <1>1. CASE CAEval
    <2> DEFINE i == ca.pos
               v == Rhs(i, sigs)
               hit == (ca.all \/ CAReads[i] \cap ca.dirty # {}) /\ v # sigs[CALhs[i]]
    <2>1. /\ phase = "ca" /\ phase' = "ca" /\ UNCHANGED <<prev, trigSeq, stage, act>>
          /\ ca'.ret = ca.ret
          /\ ca'.dirty = IF hit THEN ca.dirty \cup {CALhs[i]} ELSE ca.dirty
          /\ sigs' = IF hit THEN [sigs EXCEPT ![CALhs[i]] = v] ELSE sigs
      BY <1>1 DEF CAEval, detect, ctl, loop, MarkOutputs
    <2> HIDE DEF hit, v
    <2>2. \A s \in Sigs : sigs'[s] = sigs[s] \/ s \in ca'.dirty
      BY <2>1 DEF TypeOK, KernelOK
    <2>3. ca.dirty \subseteq ca'.dirty
      BY <2>1
    <2>4. SUFFICES ASSUME ca.ret \in {"delta", "collect"}, stage \in {"step", "ext"},
                          NEW p \in Seqs, NEW s \in Sigs, Unserved(p, s, sigs)', s \notin ca'.dirty
                   PROVE  s \in Tracked'
      <3>1. Now' = sigs'
        BY <2>1 DEF Now
      <3>2. ca.ret \in {"delta", "collect"} => ca'.dirty \subseteq Tracked'
        BY <2>1 DEF Tracked
      <3>3. ca.ret = "resettle" => stage = "settle"
        BY <2>1 DEF EdgeInv
      <3> QED BY <2>1, <2>4, <3>1, <3>2, <3>3 DEF EdgeInv, Looping, Unserved
    <2>5. Unserved(p, s, sigs)
      BY <2>1, <2>2, <2>4 DEF Unserved
    <2>6. s \in Tracked
      BY <2>1, <2>4, <2>5 DEF EdgeInv, Looping, Now
    <2> QED BY <2>1, <2>3, <2>4, <2>6 DEF Tracked
  <1>2. CASE CAPassEnd
    <2>1. /\ phase = "ca" /\ UNCHANGED <<prev, trigSeq, stage, sigs, nbaDirty>>
          /\ \/ phase' = "ca" /\ ca'.ret = ca.ret /\ ca'.dirty = ca.dirty /\ act' = act
             \/ phase' = ca.ret /\ ca' = ca /\ act' = IF ca.ret = "delta" THEN acc \cup ca.dirty ELSE act
      BY <1>2 DEF CAPassEnd, CAPass, detect, kernel
    <2>2. ca.ret \in Returns
      BY DEF TypeOK, CaOK
    <2>3. CASE phase' = "ca" /\ ca'.ret = ca.ret /\ ca'.dirty = ca.dirty /\ act' = act
      BY <2>1, <2>3 DEF EdgeInv, Looping, Unserved, Now, Tracked
    <2>4. CASE phase' = ca.ret /\ ca' = ca /\ act' = IF ca.ret = "delta" THEN acc \cup ca.dirty ELSE act
      <3>1. CASE ca.ret \in {"delta", "collect"}
        BY <2>1, <2>4, <3>1 DEF EdgeInv, Looping, Unserved, Now, Tracked
      <3>2. CASE ca.ret = "resettle"
        BY <2>1, <2>4, <3>2 DEF EdgeInv, Looping
      <3>3. CASE ca.ret \notin {"delta", "collect", "resettle"}
        BY <2>2, <2>4, <3>3 DEF EdgeInv, Looping, Returns
      <3> QED BY <3>1, <3>2, <3>3
    <2> QED BY <2>1, <2>3, <2>4
  <1> QED BY <1>1, <1>2

\* An activation leaves the signals of the region's start as they were, and
\* the region's end looks at all that differ from them.
LEMMA EdgesRegion ==
  ASSUME TypeOK, EdgeInv, (\E p \in Procs : Execute(p)) \/ RegionEnd \/ Resettle
  PROVE  EdgeInv'
  <1>1. CASE \E p \in Procs : Execute(p)
    <2>1. PICK p \in Procs : Execute(p)
      BY <1>1
    <2>2. PICK r : /\ sigs' = [s \in Sigs |-> IF s \in Written(r) THEN r.wr[s] ELSE sigs[s]]
                   /\ orig' = [s \in Sigs |-> IF s \in Written(r) /\ orig[s] = NoVal
                                              THEN sigs[s] ELSE orig[s]]
      BY <2>1 DEF Execute
    <2>3. RegionStart' = RegionStart
      <3>1. \A s \in Sigs : sigs[s] # NoVal
        BY DEF TypeOK, KernelOK, Val, NoVal
      <3>2. \A s \in Sigs : RegionStart'[s] = RegionStart[s]
        BY <2>2, <3>1 DEF RegionStart
      <3> QED BY <3>2 DEF RegionStart
    <2>4. phase = "exec" /\ phase' = "exec" /\ UNCHANGED <<prev, trigSeq, stage>>
      BY <2>1 DEF Execute, detect, ctl
    <2> QED BY <2>3, <2>4 DEF EdgeInv, Looping, Unserved, Now, Tracked
  <1>2. CASE RegionEnd
    <2>1. /\ phase = "exec" /\ phase' = "ca" /\ UNCHANGED <<prev, trigSeq, stage, sigs>>
          /\ ca'.dirty = Changed(orig)
          /\ ca'.ret = CASE stage = "start" -> "bootdrives" [] stage = "settle" -> "resettle"
                         [] OTHER -> "delta"
      BY <1>2 DEF RegionEnd, StartCA, CAPass, kernel
    <2>2. \A s \in Sigs : RegionStart[s] = sigs[s] \/ s \in Changed(orig)
      BY DEF RegionStart, Changed
    <2>3. SUFFICES ASSUME stage \in {"step", "ext"}, NEW p \in Seqs, NEW s \in Sigs,
                          Unserved(p, s, sigs)
                   PROVE  s \in Changed(orig)
      BY <2>1 DEF EdgeInv, Looping, Unserved, Now, Tracked
    <2>4. ~Unserved(p, s, RegionStart)
      BY <2>1, <2>3 DEF EdgeInv, Looping, Now, Tracked
    <2> QED BY <2>2, <2>3, <2>4 DEF Unserved
  <1>3. CASE Resettle
    <2>1. stage = "settle" /\ stage' = stage /\ phase' = "ca" /\ ca'.ret = "delta"
      BY <1>3 DEF Resettle, EdgeInv, StartCA, CAPass
    <2> QED BY <2>1 DEF EdgeInv
  <1> QED BY <1>1, <1>2, <1>3

\* What the NBAs change is looked at, and after the detection no edge is open.
LEMMA EdgesDelta ==
  ASSUME TypeOK, EdgeInv,
         DeltaBegin \/ ApplyNba \/ NbaDone \/ DeltaLimitError \/ Collect \/ DeltaDone
  PROVE  EdgeInv'
  <1>1. CASE DeltaBegin
    BY <1>1 DEF DeltaBegin, kernel, detect, EdgeInv, Looping, Unserved, Now, Tracked
  <1>2. CASE ApplyNba
    <2>1. /\ phase = "nba" /\ phase' = "nba" /\ UNCHANGED <<prev, trigSeq, stage, act>>
          /\ nba \in Seq(Sigs \X Val) /\ nba # <<>>
          /\ sigs' = [sigs EXCEPT ![Head(nba)[1]] = Head(nba)[2]]
          /\ nbaDirty' = IF Head(nba)[2] # sigs[Head(nba)[1]] THEN nbaDirty \cup {Head(nba)[1]}
                         ELSE nbaDirty
      BY <1>2 DEF ApplyNba, detect, ctl, TypeOK, KernelOK
    <2>2. \A s \in Sigs : sigs'[s] = sigs[s] \/ s \in nbaDirty'
      BY <2>1 DEF TypeOK, KernelOK
    <2>3. nbaDirty \subseteq nbaDirty'
      BY <2>1
    <2> QED BY <2>1, <2>2, <2>3 DEF EdgeInv, Looping, Unserved, Now, Tracked
  <1>3. CASE NbaDone
    BY <1>3 DEF NbaDone, StartCA, CAPass, kernel, detect, loop, EdgeInv, Looping, Unserved, Now, Tracked
  <1>4. CASE DeltaLimitError
    BY <1>4, EdgesQuiet DEF DeltaLimitError, Looping
  <1>5. CASE Collect
    <2> DEFINE dirty == act \cup ca.dirty
    <2>1. /\ phase = "collect" /\ UNCHANGED <<stage, sigs, prev>>
          /\ CollectTriggered(dirty, prev, edgeChanged, trigSeq)
          /\ \/ phase' = "exec" /\ orig' = [s \in Sigs |-> NoVal]
             \/ phase' = "delta"
      BY <1>5 DEF Collect, CollectTriggered, StartRegion, kernel
    <2>2. dirty \in SUBSET Sigs /\ prev \in Snapshot /\ edgeChanged \in SUBSET Sigs /\ trigSeq \in SUBSET Seqs
      BY DEF TypeOK, LoopOK, CaOK, DetectOK
    <2>3. trigSeq \subseteq trigSeq'
      BY <2>1 DEF CollectTriggered
    <2>4. phase' = "exec" => RegionStart' = sigs
      BY <2>1 DEF RegionStart, TypeOK, KernelOK
    <2>5. Now' = sigs
      BY <2>1, <2>4 DEF Now
    <2>6. SUFFICES ASSUME stage \in {"step", "ext"}, NEW p \in Seqs, NEW s \in Sigs,
                          Unserved(p, s, sigs), p \notin trigSeq'
                   PROVE  FALSE
      BY <2>1, <2>3, <2>5 DEF EdgeInv, Looping, Unserved
    <2>7. s \in dirty
      BY <2>1, <2>6 DEF EdgeInv, Looping, Now, Tracked
    <2> HIDE DEF dirty
    <2> QED BY <2>1, <2>2, <2>6, <2>7, Detected DEF Unserved
  <1>6. CASE DeltaDone
    <2>1. phase = "delta" /\ act = {} /\ UNCHANGED <<stage, sigs, prev, trigSeq>>
          /\ phase' \in {"wake", "next", "settle", "idle"} /\ (phase' = "wake" => stage \in {"step", "ext"})
      BY <1>6 DEF DeltaDone, MoreDeltas, kernel, detect
    <2> QED BY <2>1 DEF EdgeInv, Looping, Unserved, Now, Tracked
  <1> QED BY <1>1, <1>2, <1>3, <1>4, <1>5, <1>6

\* A time step starts from its own snapshot.
LEMMA EdgesStepBegin ==
  ASSUME TypeOK, NEW t, StepBegin(t)
  PROVE  EdgeInv'
  <1>1. /\ phase' = "exec" /\ prev' = sigs /\ RegionStart' = sigs
    BY DEF StepBegin, StartRegion, RegionStart, TypeOK, KernelOK
  <1>2. \A s \in Sigs : EdgeDirection(sigs[s], sigs[s]) = "none"
    BY DirectionOfChange DEF TypeOK, KernelOK
  <1> QED BY <1>1, <1>2 DEF EdgeInv, Looping, Unserved, Now

\* run() looks for edges of the drives since the last run() in all signals.
LEMMA EdgesExternal ==
  ASSUME TypeOK, EdgeInv, ExternalCollect
  PROVE  EdgeInv'
  <1> DEFINE dirty == Changed(lastRun)
  <1>1. CASE dirty = {}
    BY <1>1, EdgesQuiet DEF ExternalCollect, Looping
  <1>2. CASE dirty # {}
    <2>1. /\ CollectTriggered(dirty, lastRun, {}, {}) /\ prev' = lastRun /\ sigs' = sigs /\ stage' = "ext"
          /\ \/ phase' = "exec" /\ orig' = [s \in Sigs |-> NoVal]
             \/ phase' = "wake"
      BY <1>2 DEF ExternalCollect, CollectTriggered, StartRegion, kernel
    <2>2. Now' = sigs
      BY <2>1 DEF Now, RegionStart, TypeOK, KernelOK
    <2>3. SUFFICES ASSUME NEW p \in Seqs, NEW s \in Sigs, Edges[p][s] # "none",
                          Edges[p][s] = EdgeDirection(lastRun[s], sigs[s]), p \notin trigSeq'
                   PROVE  FALSE
      BY <2>1, <2>2 DEF EdgeInv, Looping, Unserved
    <2>4. lastRun[s] \in Val \cup {NoVal} /\ sigs[s] \in Val /\ lastRun \in Snapshot
      BY DEF TypeOK, KernelOK, ExternOK, Snapshot
    <2>5. s \in dirty
      BY <2>3, <2>4, DirectionOfChange DEF Changed
    <2>6. dirty \in SUBSET Sigs
      BY DEF Changed
    <2> HIDE DEF dirty
    <2> QED BY <2>1, <2>3, <2>4, <2>5, <2>6, Detected
  <1> QED BY <1>1, <1>2

\* Every step keeps the invariant.
LEMMA EdgesNext ==
  ASSUME TypeOK, EdgeInv, [Next]_vars
  PROVE  EdgeInv'
  <1>1. CASE WakeOne
    BY <1>1 DEF WakeOne, detect, ctl, EdgeInv, Looping, Unserved, Now, Tracked
  <1>2. CASE RunNext \/ CallRunStep
    BY <1>2, EdgesStepBegin DEF RunNext, CallRunStep
  <1>3. CASE BootCombos \/ BootReaders \/ SettleCollect
    <2>1. stage' \in {"start", "boot", "settle"} /\ phase' \in {"bootdrives", "exec", "delta", "idle"}
      BY <1>3 DEF BootCombos, BootReaders, SettleCollect, StartRegion
    <2> QED BY <2>1 DEF EdgeInv
  <1>4. CASE \/ WakeDone \/ CallbackQuiet \/ StepEnd \/ RunLaunch \/ RunReturn \/ SettleBoot
             \/ CallSchedule \/ CallDrive \/ CallRun
    <2>1. phase' \in {"callback", "boot", "stepend", "next", "idle", "launch", "bootcombos"}
      BY <1>4 DEF WakeDone, CallbackQuiet, StepEnd, RunLaunch, RunReturn, SettleBoot, CallSchedule,
                  CallDrive, CallRun, Call
    <2> QED BY <2>1, EdgesQuiet DEF Looping
  <1>5. CASE \/ CallbackDrive \/ ExternalDrives \/ BootDrives \/ FullCA \/ SettleDrives \/ CallSettle
    <2>1. \/ phase' \in {"boot", "fullca", "idle", "settle", "settleboot"}
          \/ /\ phase' = "ca"
             /\ ca'.ret \in {"stepend", "extcollect", "fullca", "next", "bootcombos", "settlecollect",
                             "settleboot"}
      BY <1>5 DEF CallbackDrive, ExternalDrives, BootDrives, FullCA, SettleDrives, CallSettle, Call,
                  StartCA, CAPass
    <2> QED BY <2>1, EdgesQuiet DEF Looping
  <1>6. CASE UNCHANGED vars
    BY <1>6 DEF vars, kernel, detect, ctl, loop, region, EdgeInv, Looping, Unserved, Now, Tracked,
                RegionStart
  <1> QED
    BY <1>1, <1>2, <1>3, <1>4, <1>5, <1>6, EdgesAssigns, EdgesRegion, EdgesDelta, EdgesExternal
    DEF Next, Kernel, Testbench, Done

\* Every edge that a time step, or the drives before a run(), leave behind has
\* triggered its sequential blocks when event waits are checked, whichever
\* delta cycle it appeared in.
THEOREM EdgesServedHolds == Spec => []EdgesServed
  <1>1. Init => TypeOK /\ EdgeInv
    BY TypeInit DEF Init, EdgeInv, Looping, CAPass
  <1>2. TypeOK /\ EdgeInv /\ [Next]_vars => (TypeOK /\ EdgeInv)'
    BY TypeNext, EdgesNext
  <1>3. TypeOK /\ EdgeInv => EdgesServed
    BY DEF EdgeInv, Looping, Unserved, Now, Tracked, EdgesServed, Served
  <1> QED BY <1>1, <1>2, <1>3, PTL DEF Spec

----------------------------------------------------------------------------
(* A thread is due exactly once.                                           *)

Threads == Elems(Launch)

\* p is a value of the function f, and at one place only.
Occurs(f, p) == \E i \in DOMAIN f : f[i] = p
OnceIn(f, p) == \A i, j \in DOMAIN f : f[i] = p /\ f[j] = p => i = j

\* The processes that wait for an event, in registration order.
Waiters(w) == [i \in DOMAIN w |-> w[i].proc]

\* g is f without the entry at place i: those behind it move up.
Without(g, f, n, i) ==
    /\ DOMAIN f = 1 .. n /\ DOMAIN g = 1 .. n - 1
    /\ \A k \in 1 .. n - 1 : g[k] = IF k < i THEN f[k] ELSE f[k + 1]

\* What is at place i is gone, the rest is as it was.
LEMMA WithoutOccurs ==
  ASSUME NEW n \in Nat \ {0}, NEW i \in 1 .. n, NEW f, NEW g, Without(g, f, n, i), NEW p
  PROVE  /\ p # f[i] => (Occurs(g, p) <=> Occurs(f, p))
         /\ OnceIn(f, p) => OnceIn(g, p)
         /\ Occurs(f, f[i])
         /\ OnceIn(f, p) /\ p = f[i] => ~Occurs(g, p)
  <1> USE DEF Without
  <1>1. \A k \in 1 .. n - 1 : \E j \in 1 .. n :
           j # i /\ g[k] = f[j] /\ j = IF k < i THEN k ELSE k + 1
    OBVIOUS
  <1>2. \A j \in 1 .. n : j = i \/ \E k \in 1 .. n - 1 : g[k] = f[j]
    <2>1. ASSUME NEW j \in 1 .. n, j < i
          PROVE  j \in 1 .. n - 1 /\ g[j] = f[j]
      BY <2>1
    <2>2. ASSUME NEW j \in 1 .. n, j > i
          PROVE  \E k \in 1 .. n - 1 : g[k] = f[j]
      <3>1. PICK k \in 1 .. n - 1 : k + 1 = j /\ ~(k < i)
        <4>1. j - 1 \in 1 .. n - 1 /\ (j - 1) + 1 = j /\ ~(j - 1 < i)
          BY <2>2
        <4> QED BY <4>1
      <3> QED BY <3>1
    <2>3. \A j \in 1 .. n : j < i \/ j > i \/ j = i
      OBVIOUS
    <2> QED BY <2>1, <2>2, <2>3
  <1>3. ASSUME p # f[i], Occurs(f, p)
        PROVE  Occurs(g, p)
    <2>1. PICK j \in 1 .. n : f[j] = p
      BY <1>3 DEF Occurs
    <2>2. PICK k \in 1 .. n - 1 : g[k] = f[j]
      BY <1>2, <1>3, <2>1
    <2> QED BY <2>1, <2>2 DEF Occurs
  <1>4. ASSUME Occurs(g, p)
        PROVE  \E j \in 1 .. n : j # i /\ f[j] = p
    BY <1>1, <1>4 DEF Occurs
  <1>5. OnceIn(f, p) => OnceIn(g, p)
    <2>1. SUFFICES ASSUME OnceIn(f, p), NEW k \in 1 .. n - 1, NEW m \in 1 .. n - 1, g[k] = p, g[m] = p
                   PROVE  k = m
      BY DEF OnceIn
    <2>2. PICK j \in 1 .. n : f[j] = p /\ j = IF k < i THEN k ELSE k + 1
      BY <1>1, <2>1
    <2>3. PICK l \in 1 .. n : f[l] = p /\ l = IF m < i THEN m ELSE m + 1
      BY <1>1, <2>1
    <2>4. j = l
      BY <2>1, <2>2, <2>3 DEF OnceIn
    <2> QED BY <2>2, <2>3, <2>4
  <1>6. Occurs(f, f[i])
    BY DEF Occurs
  <1>7. p # f[i] /\ Occurs(g, p) => Occurs(f, p)
    BY <1>4 DEF Occurs
  <1>8. OnceIn(f, p) /\ p = f[i] => ~Occurs(g, p)
    BY <1>4 DEF OnceIn
  <1> QED BY <1>3, <1>5, <1>6, <1>7, <1>8

\* So when the first entry is taken ...
LEMMA TailOccurs ==
  ASSUME NEW S, NEW s \in Seq(S), s # <<>>, NEW p
  PROVE  /\ p # Head(s) => (Occurs(Tail(s), p) <=> Occurs(s, p))
         /\ OnceIn(s, p) => OnceIn(Tail(s), p)
         /\ Occurs(s, Head(s))
         /\ OnceIn(s, p) /\ p = Head(s) => ~Occurs(Tail(s), p)
  <1>1. PICK n \in Nat \ {0} : n = Len(s)
    BY EmptySeq, LenProperties
  <1>2. PICK l : l = Tail(s)
    OBVIOUS
  <1>3. s[1] = Head(s) /\ 1 \in 1 .. n
    BY <1>1
  <1>4. Without(l, s, n, 1)
    BY <1>1, <1>2 DEF Without
  <1>5. /\ p # s[1] => (Occurs(l, p) <=> Occurs(s, p))
        /\ OnceIn(s, p) => OnceIn(l, p)
        /\ Occurs(s, s[1])
        /\ OnceIn(s, p) /\ p = s[1] => ~Occurs(l, p)
    BY <1>3, <1>4, WithoutOccurs
  <1> QED BY <1>2, <1>3, <1>5

\* The entry at place i is taken out of the sequence w.
Removed(w, i) == SubSeq(w, 1, i - 1) \o SubSeq(w, i + 1, Len(w))

\* The place where an entry of the shorter sequence was.
LEMMA OldPlace ==
  ASSUME NEW n \in Nat \ {0}, NEW i \in 1 .. n, NEW k \in 1 .. n - 1
  PROVE  /\ k < i => k \in 1 .. n /\ k \in 1 .. i - 1
         /\ ~(k < i) => /\ k - (i - 1) \in 1 .. n - i /\ ~(k <= i - 1)
                        /\ i + (k - (i - 1)) = k + 1 /\ k + 1 \in 1 .. n
  OBVIOUS

\* What is in front of place i, and what is behind it.
LEMMA Parts ==
  ASSUME NEW W, NEW w \in Seq(W), NEW i \in 1 .. Len(w)
  PROVE  /\ SubSeq(w, 1, i - 1) \in Seq(W) /\ Len(SubSeq(w, 1, i - 1)) = i - 1
         /\ \A k \in 1 .. i - 1 : SubSeq(w, 1, i - 1)[k] = w[k]
         /\ SubSeq(w, i + 1, Len(w)) \in Seq(W) /\ Len(SubSeq(w, i + 1, Len(w))) = Len(w) - i
         /\ \A k \in 1 .. Len(w) - i : SubSeq(w, i + 1, Len(w))[k] = w[i + k]
  <1>1. Len(w) \in Nat /\ \A k \in 1 .. Len(w) : w[k] \in W
    BY LenProperties, ElementOfSeq
  <1>2. 1 \in Int /\ i - 1 \in Int /\ \A k \in 1 .. i - 1 : w[k] \in W
    BY <1>1
  <1>3. i + 1 \in Int /\ Len(w) \in Int /\ \A k \in i + 1 .. Len(w) : w[k] \in W
    BY <1>1
  <1>4. SubSeq(w, 1, i - 1) \in Seq(W) /\ Len(SubSeq(w, 1, i - 1)) = i - 1
    BY <1>1, <1>2, SubSeqProperties
  <1>5. \A k \in 1 .. i - 1 : SubSeq(w, 1, i - 1)[k] = w[k]
    BY <1>1, <1>2, SubSeqProperties
  <1>6. SubSeq(w, i + 1, Len(w)) \in Seq(W) /\ Len(SubSeq(w, i + 1, Len(w))) = Len(w) - i
    BY <1>1, <1>3, SubSeqProperties
  <1>7. \A k \in 1 .. Len(w) - i : SubSeq(w, i + 1, Len(w))[k] = w[i + k]
    BY <1>1, <1>3, SubSeqProperties
  <1> QED BY <1>4, <1>5, <1>6, <1>7

\* So is the sequence with the entry taken out.
LEMMA RemovedParts ==
  ASSUME NEW W, NEW w \in Seq(W), NEW i \in 1 .. Len(w)
  PROVE  /\ Removed(w, i) \in Seq(W) /\ DOMAIN Removed(w, i) = 1 .. Len(w) - 1
         /\ \A k \in 1 .. Len(w) - 1 : Removed(w, i)[k] = IF k < i THEN w[k] ELSE w[k + 1]
  <1>1. PICK n \in Nat \ {0} : n = Len(w)
    BY LenProperties
  <1>2. PICK a : a = SubSeq(w, 1, i - 1)
    OBVIOUS
  <1>3. PICK b : b = SubSeq(w, i + 1, n)
    OBVIOUS
  <1>4. PICK v : v = Removed(w, i)
    OBVIOUS
  <1>5. /\ a \in Seq(W) /\ Len(a) = i - 1 /\ \A k \in 1 .. i - 1 : a[k] = w[k]
        /\ b \in Seq(W) /\ Len(b) = n - i /\ \A k \in 1 .. n - i : b[k] = w[i + k]
    BY <1>1, <1>2, <1>3, Parts
  <1>6. v = a \o b
    BY <1>1, <1>2, <1>3, <1>4 DEF Removed
  <1>7. /\ v \in Seq(W) /\ Len(v) = Len(a) + Len(b)
        /\ \A k \in 1 .. Len(a) + Len(b) : v[k] = IF k <= Len(a) THEN a[k] ELSE b[k - Len(a)]
    BY <1>5, <1>6, ConcatProperties
  <1>8. Len(a) + Len(b) = n - 1
    BY <1>1, <1>5
  <1>9. ASSUME NEW k \in 1 .. n - 1
        PROVE  v[k] = IF k < i THEN w[k] ELSE w[k + 1]
    <2>1. v[k] = IF k <= i - 1 THEN a[k] ELSE b[k - (i - 1)]
      BY <1>5, <1>7, <1>8
    <2>2. CASE k < i
      <3>1. k \in 1 .. i - 1 /\ k <= i - 1
        BY <1>1, <2>2
      <3> QED BY <1>5, <2>1, <2>2, <3>1
    <2>3. CASE ~(k < i)
      <3>1. k - (i - 1) \in 1 .. n - i /\ ~(k <= i - 1) /\ i + (k - (i - 1)) = k + 1
        BY <1>1, <2>3, OldPlace
      <3>2. b[k - (i - 1)] = w[i + (k - (i - 1))]
        BY <1>5, <3>1
      <3> QED BY <2>1, <2>3, <3>1, <3>2
    <2> QED BY <2>2, <2>3
  <1>10. DOMAIN v = 1 .. n - 1
    BY <1>7, <1>8, LenProperties
  <1> QED BY <1>1, <1>4, <1>7, <1>9, <1>10

\* An event wait ends: its process no longer waits, the others still do.
LEMMA RemovedWaits ==
  ASSUME NEW W, NEW w \in Seq(W), NEW i \in 1 .. Len(w), NEW p
  PROVE  /\ p # w[i].proc =>
               (Occurs(Waiters(Removed(w, i)), p) <=> Occurs(Waiters(w), p))
         /\ OnceIn(Waiters(w), p) => OnceIn(Waiters(Removed(w, i)), p)
         /\ Occurs(Waiters(w), w[i].proc)
         /\ OnceIn(Waiters(w), p) /\ p = w[i].proc => ~Occurs(Waiters(Removed(w, i)), p)
  <1>1. PICK n \in Nat \ {0} : n = Len(w)
    BY LenProperties
  <1>2. PICK v : v = Removed(w, i)
    OBVIOUS
  <1>3. DOMAIN w = 1 .. n
    BY <1>1, LenProperties
  <1>4. DOMAIN v = 1 .. n - 1 /\ \A k \in 1 .. n - 1 : v[k] = IF k < i THEN w[k] ELSE w[k + 1]
    BY <1>1, <1>2, RemovedParts
  <1>5. Without(Waiters(v), Waiters(w), n, i)
    <2>1. DOMAIN Waiters(v) = 1 .. n - 1 /\ \A k \in 1 .. n - 1 : Waiters(v)[k] = v[k].proc
      BY <1>4 DEF Waiters
    <2>2. DOMAIN Waiters(w) = 1 .. n /\ \A k \in 1 .. n : Waiters(w)[k] = w[k].proc
      BY <1>3 DEF Waiters
    <2>3. ASSUME NEW k \in 1 .. n - 1
          PROVE  Waiters(v)[k] = IF k < i THEN Waiters(w)[k] ELSE Waiters(w)[k + 1]
      <3>1. k \in 1 .. n /\ k + 1 \in 1 .. n
        BY <1>1
      <3> QED BY <1>4, <2>1, <2>2, <3>1
    <2> QED BY <2>1, <2>2, <2>3 DEF Without
  <1>6. Waiters(w)[i] = w[i].proc /\ i \in 1 .. n
    BY <1>1, <1>3 DEF Waiters
  <1>7. \A f, g : Without(g, f, n, i) =>
           /\ p # f[i] => (Occurs(g, p) <=> Occurs(f, p))
           /\ OnceIn(f, p) => OnceIn(g, p)
           /\ Occurs(f, f[i])
           /\ OnceIn(f, p) /\ p = f[i] => ~Occurs(g, p)
    BY <1>6, WithoutOccurs
  <1> QED BY <1>2, <1>5, <1>6, <1>7

\* x is added behind the n entries of f.
WithLast(g, f, n, x) ==
    /\ DOMAIN f = 1 .. n /\ DOMAIN g = 1 .. n + 1 /\ g[n + 1] = x
    /\ \A k \in 1 .. n : g[k] = f[k]

\* One more entry at the end.
LEMMA WithLastOccurs ==
  ASSUME NEW n \in Nat, NEW f, NEW g, NEW x, WithLast(g, f, n, x), NEW p
  PROVE  /\ Occurs(g, p) <=> Occurs(f, p) \/ p = x
         /\ OnceIn(f, p) /\ (p = x => ~Occurs(f, p)) => OnceIn(g, p)
  <1>1. \A k \in 1 .. n + 1 : k \in 1 .. n \/ k = n + 1
    OBVIOUS
  <1>2. \A k \in 1 .. n : k \in 1 .. n + 1
    OBVIOUS
  <1>3. n + 1 \in 1 .. n + 1
    OBVIOUS
  <1>4. Occurs(g, p) <=> Occurs(f, p) \/ p = x
    BY <1>1, <1>2, <1>3 DEF Occurs, WithLast
  <1>5. OnceIn(f, p) /\ (p = x => ~Occurs(f, p)) => OnceIn(g, p)
    BY <1>1 DEF OnceIn, Occurs, WithLast
  <1> QED BY <1>4, <1>5

\* A process is queued behind the others of its time ...
LEMMA AppendOccurs ==
  ASSUME NEW S, NEW s \in Seq(S), NEW x \in S, NEW p
  PROVE  /\ Occurs(Append(s, x), p) <=> Occurs(s, p) \/ p = x
         /\ OnceIn(s, p) /\ (p = x => ~Occurs(s, p)) => OnceIn(Append(s, x), p)
  <1>1. Len(s) \in Nat /\ WithLast(Append(s, x), s, Len(s), x)
    BY LenProperties, AppendProperties DEF WithLast
  <1> QED BY <1>1, WithLastOccurs

\* ... or waits behind the others for an event.
LEMMA AppendWaits ==
  ASSUME NEW W, NEW w \in Seq(W), NEW e \in W, NEW p
  PROVE  /\ Occurs(Waiters(Append(w, e)), p) <=> Occurs(Waiters(w), p) \/ p = e.proc
         /\ OnceIn(Waiters(w), p) /\ (p = e.proc => ~Occurs(Waiters(w), p))
               => OnceIn(Waiters(Append(w, e)), p)
  <1>1. PICK n \in Nat : n = Len(w)
    BY LenProperties
  <1>2. PICK v : v = Append(w, e)
    OBVIOUS
  <1>3. WithLast(v, w, n, e)
    BY <1>1, <1>2, LenProperties, AppendProperties DEF WithLast
  <1>4. WithLast(Waiters(v), Waiters(w), n, e.proc)
    <2>1. \A k \in 1 .. n : k \in 1 .. n + 1
      OBVIOUS
    <2>2. n + 1 \in 1 .. n + 1
      OBVIOUS
    <2> QED BY <1>3, <2>1, <2>2 DEF Waiters, WithLast
  <1> QED BY <1>2, <1>4, WithLastOccurs

\* The event queue.
InQueue(q, p) == \E t \in Time : Occurs(q[t], p)
OnceQueued(q, p) ==
    /\ \A t \in Time : OnceIn(q[t], p)
    /\ \A t, u \in Time : Occurs(q[t], p) /\ Occurs(q[u], p) => t = u

\* Scheduling x changes where x is due and nothing else.
LEMMA ScheduleOccurs ==
  ASSUME NEW q \in [Time -> Seq(Procs)], NEW t \in Time, NEW x \in Procs, NEW p,
         NEW r, r = Schedule(q, t, x)
  PROVE  /\ p # x => /\ \A u \in Time : Occurs(r[u], p) <=> Occurs(q[u], p)
                     /\ InQueue(r, p) <=> InQueue(q, p)
                     /\ OnceQueued(q, p) => OnceQueued(r, p)
         /\ p = x => Occurs(r[t], p) /\ InQueue(r, p) /\ (~InQueue(q, p) => OnceQueued(r, p))
  <1>1. r[t] = Append(q[t], x) /\ \A u \in Time : u # t => r[u] = q[u]
    BY DEF Schedule
  <1>2. q[t] \in Seq(Procs)
    OBVIOUS
  <1>3. /\ Occurs(r[t], p) <=> Occurs(q[t], p) \/ p = x
        /\ OnceIn(q[t], p) /\ (p = x => ~Occurs(q[t], p)) => OnceIn(r[t], p)
    BY <1>1, <1>2, AppendOccurs
  <1>4. \A u \in Time : ~Occurs(q[u], p) => OnceIn(q[u], p)
    BY DEF Occurs, OnceIn
  <1>5. CASE p # x
    <2>1. \A u \in Time : (Occurs(r[u], p) <=> Occurs(q[u], p)) /\ (OnceIn(q[u], p) => OnceIn(r[u], p))
      BY <1>1, <1>3, <1>5
    <2> QED BY <1>5, <2>1 DEF InQueue, OnceQueued
  <1>6. CASE p = x
    <2>1. Occurs(r[t], p) /\ InQueue(r, p)
      BY <1>3, <1>6 DEF InQueue
    <2>2. ASSUME ~InQueue(q, p)
          PROVE  OnceQueued(r, p)
      <3>1. \A u \in Time : ~Occurs(q[u], p)
        BY <2>2 DEF InQueue
      <3>2. \A u \in Time : OnceIn(r[u], p) /\ (Occurs(r[u], p) => u = t)
        BY <1>1, <1>3, <1>4, <3>1
      <3> QED BY <3>2 DEF OnceQueued
    <2> QED BY <1>6, <2>1, <2>2
  <1> QED BY <1>5, <1>6

\* Where p is due, and that it is due at one place only.
Due(q, w, b, p) == InQueue(q, p) \/ Occurs(Waiters(w), p) \/ Occurs(b, p)
Once(q, w, b, p) ==
    /\ OnceQueued(q, p) /\ OnceIn(Waiters(w), p) /\ OnceIn(b, p)
    /\ ~(InQueue(q, p) /\ Occurs(Waiters(w), p))
    /\ ~(InQueue(q, p) /\ Occurs(b, p))
    /\ ~(Occurs(Waiters(w), p) /\ Occurs(b, p))

\* A thread that is due before it ever ran was launched by the run() in
\* progress, at time 0.
Launched(p) ==
    /\ call = "run" /\ phase # "idle" /\ ~Occurs(Waiters(waiting), p)
    /\ InQueue(queue, p) => Occurs(queue[0], p)
    /\ phase = "launch" => \E k \in 1 .. lpos - 1 : Launch[k] = p

\* The state of a thread agrees with where it is due.
Resumable(p) ==
    /\ Once(queue, waiting, batch, p)
    /\ pstate[p] = "DONE" => ~Due(queue, waiting, batch, p)
    /\ p \in lost => pstate[p] = "ACTIVE" /\ ~Due(queue, waiting, batch, p)
    /\ pstate[p] = "ACTIVE" /\ ~finish /\ p \notin lost => Due(queue, waiting, batch, p)
    /\ pstate[p] = "IDLE" /\ Due(queue, waiting, batch, p) => Launched(p)

ThreadInv == \A p \in Threads : Resumable(p)

\* settle() is in progress; its delta loop has the phases of a step's.
Settling ==
    \/ phase \in {"settle", "settleboot", "settlecollect", "resettle"}
    \/ phase = "ca" /\ ca.ret \in {"settleboot", "settlecollect", "resettle"}
    \/ Looping /\ stage = "settle"

\* Which call the phase belongs to, and when processes are left to run.
PhaseInv ==
    /\ Settling => call = "settle"
    /\ phase = "ca" => ca.ret # "idle"
    /\ phase # "exec" => batch = <<>>
    /\ woken \cap Threads = {}
    /\ phase = "launch" => call = "run"

\* A detection never wakes a thread.
LEMMA TriggeredNoThread ==
  /\ StartCombos \cap Threads = {}
  /\ \A dirty, others, pv, changed, fired : Triggered(dirty, others, pv, changed, fired) \cap Threads = {}
  /\ \A dirty, others : CombosHit(dirty, others) \cap Threads = {}
  <1>1. (Combos \cup Seqs) \cap Threads = {} /\ StartCombos \subseteq Combos
    BY ProcessAssumption, DesignAssumption DEF Threads
  <1> QED BY <1>1 DEF Triggered, CombosHit, SeqsHit

\* The assign loop returns to the phase that started it.
LEMMA PhaseAssigns ==
  ASSUME TypeOK, PhaseInv, CAEval \/ CAPassEnd
  PROVE  PhaseInv'
  <1>1. CASE CAEval
    BY <1>1 DEF CAEval, region, ctl, PhaseInv, Settling, Looping
  <1>2. CASE CAPassEnd
    <2>1. /\ phase = "ca" /\ UNCHANGED <<batch, woken, call, stage>>
          /\ \/ phase' = "ca" /\ ca'.ret = ca.ret
             \/ phase' = ca.ret /\ ca' = ca
      BY <1>2 DEF CAPassEnd, CAPass, region
    <2>2. ca.ret \in Returns
      BY DEF TypeOK, CaOK
    <2> QED BY <2>1, <2>2 DEF PhaseInv, Settling, Looping, Returns
  <1> QED BY <1>1, <1>2

\* So does the delta loop.
LEMMA PhaseLoop ==
  ASSUME TypeOK, PhaseInv,
         \/ \E p \in Procs : Execute(p)
         \/ RegionEnd \/ Resettle \/ DeltaBegin \/ ApplyNba \/ NbaDone \/ DeltaLimitError
         \/ Collect \/ DeltaDone \/ WakeOne \/ WakeDone \/ CallbackQuiet \/ CallbackDrive \/ StepEnd
  PROVE  PhaseInv'
  <1>1. CASE \E p \in Procs : Execute(p)
    <2>1. phase = "exec" /\ UNCHANGED <<phase, call, stage, ca>> /\ woken' \subseteq woken
      BY <1>1 DEF Execute, ctl
    <2> QED BY <2>1 DEF PhaseInv, Settling, Looping
  <1>2. CASE RegionEnd \/ Resettle \/ NbaDone
    BY <1>2 DEF RegionEnd, Resettle, NbaDone, StartCA, CAPass, region, PhaseInv, Settling, Looping
  <1>3. CASE DeltaBegin \/ ApplyNba \/ DeltaLimitError \/ DeltaDone \/ CallbackQuiet \/ WakeOne \/ WakeDone
    BY <1>3 DEF DeltaBegin, ApplyNba, DeltaLimitError, DeltaDone, CallbackQuiet, WakeOne, WakeDone,
                region, ctl, PhaseInv, Settling, Looping
  <1>4. CASE Collect
    <2>1. /\ phase = "collect" /\ UNCHANGED <<call, stage, ca>>
          /\ \/ phase' = "exec" /\ woken' \cap Threads = {}
             \/ phase' = "delta" /\ UNCHANGED <<batch, woken>>
      BY <1>4, TriggeredNoThread DEF Collect, StartRegion, region
    <2> QED BY <2>1 DEF PhaseInv, Settling, Looping
  <1>5. CASE CallbackDrive
    BY <1>5 DEF CallbackDrive, StartCA, CAPass, region, PhaseInv, Settling, Looping
  <1>6. CASE StepEnd
    BY <1>6 DEF StepEnd, region, PhaseInv, Settling, Looping
  <1> QED BY <1>1, <1>2, <1>3, <1>4, <1>5, <1>6

\* run() and settle() go through their phases.
LEMMA PhaseCalls ==
  ASSUME TypeOK, PhaseInv,
         \/ RunLaunch \/ ExternalDrives \/ ExternalCollect \/ BootDrives \/ FullCA
         \/ BootCombos \/ BootReaders \/ RunNext \/ RunReturn
         \/ SettleBoot \/ SettleDrives \/ SettleCollect
  PROVE  PhaseInv'
  <1>1. CASE RunLaunch \/ RunReturn \/ SettleBoot
    BY <1>1 DEF RunLaunch, RunReturn, SettleBoot, region, PhaseInv, Settling, Looping
  <1>2. CASE ExternalDrives \/ BootDrives \/ FullCA \/ SettleDrives
    BY <1>2 DEF ExternalDrives, BootDrives, FullCA, SettleDrives, StartCA, CAPass, region,
                PhaseInv, Settling, Looping
  <1>3. CASE ExternalCollect
    <2>1. /\ phase = "extcollect" /\ UNCHANGED <<call, ca>>
          /\ \/ phase' = "exec" /\ woken' \cap Threads = {} /\ stage' = "ext"
             \/ phase' \in {"boot", "wake"} /\ UNCHANGED <<batch, woken>> /\ (phase' = "wake" => stage' = "ext")
      BY <1>3, TriggeredNoThread DEF ExternalCollect, StartRegion, region
    <2> QED BY <2>1 DEF PhaseInv, Settling, Looping
  <1>4. CASE BootCombos
    <2>1. /\ phase = "bootcombos" /\ UNCHANGED call /\ stage' = "start"
          /\ \/ phase' = "exec" /\ woken' \cap Threads = {}
             \/ phase' = "bootdrives" /\ UNCHANGED <<batch, woken>>
      BY <1>4, TriggeredNoThread DEF BootCombos, StartRegion, region
    <2> QED BY <2>1 DEF PhaseInv, Settling, Looping
  <1>5. CASE BootReaders
    <2>1. (CombosHit(drv, drv) \ StartCombos) \cap Threads = {}
      BY TriggeredNoThread
    <2>2. /\ phase = "bootdrives" /\ UNCHANGED <<call, ca>> /\ stage' = "boot"
          /\ \/ phase' = "exec" /\ woken' \cap Threads = {}
             \/ phase' = "delta" /\ UNCHANGED <<batch, woken>>
      BY <1>5, <2>1 DEF BootReaders, StartRegion, region
    <2> QED BY <2>2 DEF PhaseInv, Settling, Looping
  <1>6. CASE RunNext
    BY <1>6 DEF RunNext, StepBegin, StartRegion, PhaseInv, Settling, Looping
  <1>7. CASE SettleCollect
    <2>1. /\ phase = "settlecollect" /\ UNCHANGED <<call, ca>>
          /\ \/ phase' = "exec" /\ woken' \cap Threads = {}
             \/ phase' = "idle" /\ UNCHANGED <<batch, woken>>
      BY <1>7, TriggeredNoThread DEF SettleCollect, StartRegion, region
    <2> QED BY <2>1 DEF PhaseInv, Settling, Looping
  <1> QED BY <1>1, <1>2, <1>3, <1>4, <1>5, <1>6, <1>7

\* Every step keeps the phases coherent.
LEMMA PhaseNext ==
  ASSUME TypeOK, PhaseInv, [Next]_vars
  PROVE  PhaseInv'
  <1>1. CASE CallDrive \/ CallSchedule \/ CallRun
    BY <1>1 DEF CallDrive, CallSchedule, CallRun, Call, region, PhaseInv, Settling, Looping
  <1>2. CASE CallRunStep
    BY <1>2 DEF CallRunStep, StepBegin, StartRegion, PhaseInv, Settling, Looping
  <1>3. CASE CallSettle
    BY <1>3 DEF CallSettle, Call, StartCA, CAPass, region, PhaseInv, Settling, Looping
  <1>4. CASE UNCHANGED vars
    BY <1>4 DEF vars, ctl, region, PhaseInv, Settling, Looping
  <1> QED
    BY <1>1, <1>2, <1>3, <1>4, PhaseAssigns, PhaseLoop, PhaseCalls DEF Next, Kernel, Testbench, Done

\* A thread stays resumable when where it is due does not change ...
SamePlaces(p) ==
    /\ InQueue(queue', p) <=> InQueue(queue, p)
    /\ Occurs(queue'[0], p) <=> Occurs(queue[0], p)
    /\ Occurs(Waiters(waiting'), p) <=> Occurs(Waiters(waiting), p)
    /\ Occurs(batch', p) <=> Occurs(batch, p)
    /\ OnceQueued(queue, p) => OnceQueued(queue', p)
    /\ OnceIn(Waiters(waiting), p) => OnceIn(Waiters(waiting'), p)
    /\ OnceIn(batch, p) => OnceIn(batch', p)

\* ... and the run() that launched it goes on, or did not launch it.
SameLaunch ==
    \/ phase = "idle" \/ call # "run"
    \/ call' = call /\ phase' \notin {"idle", "launch"}
    \/ call' = call /\ phase = "launch" /\ phase' = "launch" /\ lpos' = lpos + 1

\* Then the invariant of the thread is kept.
LEMMA Unmoved ==
  ASSUME TypeOK, NEW p, Resumable(p), SamePlaces(p), SameLaunch, pstate'[p] = pstate[p],
         p \in lost' <=> p \in lost, finish => finish'
  PROVE  Resumable(p)'
  <1>1. Once(queue, waiting, batch, p)'
    BY DEF Resumable, Once, SamePlaces
  <1>2. Due(queue, waiting, batch, p)' <=> Due(queue, waiting, batch, p)
    BY DEF Due, SamePlaces
  <1>3. Launched(p) => Launched(p)' \/ phase = "idle" \/ call # "run"
    <2>1. \A n \in Nat : \A k \in 1 .. n - 1 : k \in 1 .. n + 1 - 1
      OBVIOUS
    <2>2. lpos \in Nat
      BY LaunchType DEF TypeOK, CtlOK
    <2> QED BY <2>1, <2>2 DEF Launched, SamePlaces, SameLaunch
  <1>4. Launched(p) => phase # "idle" /\ call = "run"
    BY DEF Launched
  <1> QED BY <1>1, <1>2, <1>3, <1>4 DEF Resumable

\* No thread moves in most steps.
LEMMA Quiet ==
  ASSUME TypeOK, ThreadInv, UNCHANGED <<queue, waiting, batch, pstate, lost>>, finish' = finish, SameLaunch
  PROVE  ThreadInv'
  <1>1. \A p \in Threads : SamePlaces(p)
    BY DEF SamePlaces
  <1> QED BY <1>1, Unmoved DEF ThreadInv

\* What becomes of an activated process: it is recorded nowhere, in the event
\* queue, or among the event waits.
LEMMA SuspendEffect ==
  ASSUME TypeOK, NEW x \in Procs, Execute(x)
  PROVE  /\ \/ queue' = queue /\ waiting' = waiting
               /\ (x \in Threads => pstate'[x] = "DONE" \/ finish' \/ x \in lost')
            \/ \E t \in Time : queue' = Schedule(queue, t, x) /\ waiting' = waiting
                               /\ x \notin lost' /\ (x \in Threads => pstate'[x] = "ACTIVE")
            \/ \E on \in [Sigs -> Edge] : waiting' = Append(waiting, [proc |-> x, on |-> on])
                               /\ queue' = queue
                               /\ x \notin lost' /\ (x \in Threads => pstate'[x] = "ACTIVE")
         /\ x \in Threads => pstate'[x] # "IDLE" /\ (pstate'[x] = "DONE" => queue' = queue /\ waiting' = waiting)
         /\ x \in lost' => pstate'[x] = "ACTIVE" /\ queue' = queue /\ waiting' = waiting
         /\ \A p \in Procs : p # x => pstate'[p] = pstate[p] /\ (p \in lost' <=> p \in lost)
         /\ finish => finish'
  <1> DEFINE r == Activation(x)
  <1>1. r \in Outcome
    BY ActivationType
  <1> HIDE DEF r
  <1>2. Suspend(x, r) /\ finish' = (finish \/ r.stop = "finish")
    BY DEF Execute, r
  <1>3. pstate \in [Procs -> {"IDLE", "ACTIVE", "DONE"}]
    BY DEF TypeOK, KernelOK
  <1>4. time \in Time /\ ResumeTime(r) \in Time
    BY <1>1, DesignAssumption DEF TypeOK, KernelOK, Outcome, Time, Horizon, ResumeTime
  <1>5. r.on \in [Sigs -> Edge] /\ r.delay \in Nat
        /\ r.stop \in {"end", "delay", "event", "wait", "raise", "finish"}
    BY <1>1, DesignAssumption DEF Outcome
  <1>6. x \in Threads => x \in Coroutines
    BY DEF Threads, Coroutines
  <1>7. \A p \in Procs : p # x => pstate'[p] = pstate[p] /\ (p \in lost' <=> p \in lost)
    BY <1>2, <1>3 DEF Suspend
  <1>8. pstate'[x] = IF r.stop = "end" /\ x \in Elems(Initials) THEN "DONE"
                     ELSE IF x \in Coroutines \/ r.stop # "end" THEN "ACTIVE" ELSE "IDLE"
    BY <1>2, <1>3 DEF Suspend
  <1> DEFINE waits == r.stop = "event" /\ \E s \in Sigs : r.on[s] # "none"
             again == \/ r.stop = "event" /\ ~waits
                      \/ r.stop = "end" /\ x \in Coroutines \ Elems(Initials)
             timed == r.stop = "delay" \/ (r.stop = "raise" /\ r.delay > 0)
             nowhere == r.stop = "wait" \/ (r.stop = "raise" /\ r.delay = 0)
  <1>9. /\ queue' = IF timed THEN Schedule(queue, ResumeTime(r), x)
                     ELSE IF again THEN Schedule(queue, time, x) ELSE queue
        /\ waiting' = IF waits THEN Append(waiting, [proc |-> x, on |-> r.on]) ELSE waiting
        /\ x \in lost' <=> nowhere
    BY <1>2 DEF Suspend
  <1>10. /\ timed => ~again /\ ~waits /\ ~nowhere /\ r.stop # "end"
         /\ again => ~waits /\ ~nowhere /\ (r.stop = "end" => x \notin Elems(Initials))
         /\ waits => ~nowhere /\ r.stop # "end"
         /\ nowhere => r.stop # "end"
    OBVIOUS
  <1>11. again => r.stop \in {"event", "end"} /\ (r.stop = "end" => x \in Coroutines)
    OBVIOUS
  <1>12. ~timed /\ ~again /\ ~waits /\ ~nowhere =>
              \/ r.stop = "finish"
              \/ r.stop = "end" /\ x \notin Coroutines \ Elems(Initials)
    BY <1>5
  <1> HIDE DEF waits, again, timed, nowhere
  <1>13. CASE timed
    BY <1>4, <1>6, <1>7, <1>8, <1>9, <1>10, <1>13, <1>2
  <1>14. CASE again
    BY <1>4, <1>6, <1>7, <1>8, <1>9, <1>10, <1>11, <1>14, <1>2
  <1>15. CASE waits
    BY <1>5, <1>6, <1>7, <1>8, <1>9, <1>10, <1>15, <1>2
  <1>16. CASE nowhere
    BY <1>6, <1>7, <1>8, <1>9, <1>10, <1>16, <1>2
  <1>17. CASE ~timed /\ ~again /\ ~waits /\ ~nowhere
    BY <1>5, <1>6, <1>7, <1>8, <1>9, <1>12, <1>17, <1>2
  <1> QED BY <1>13, <1>14, <1>15, <1>16, <1>17

\* The waiting list holds records; 0 is a time.
LEMMA ThreadTypes ==
  ASSUME TypeOK
  PROVE  /\ queue \in [Time -> Seq(Procs)] /\ batch \in Seq(Procs) /\ 0 \in Time
         /\ waiting \in Seq([proc : Procs, on : [Sigs -> Edge]])
         /\ Threads \subseteq Procs
  BY LaunchType, DesignAssumption DEF TypeOK, KernelOK, RegionOK, Time, Horizon, Threads

\* A process that starts to wait is the last of the event waits.
LEMMA WaitJoins ==
  ASSUME TypeOK, NEW x \in Procs, NEW on \in [Sigs -> Edge], NEW p
  PROVE  /\ Occurs(Waiters(Append(waiting, [proc |-> x, on |-> on])), p)
               <=> Occurs(Waiters(waiting), p) \/ p = x
         /\ OnceIn(Waiters(waiting), p) /\ (p = x => ~Occurs(Waiters(waiting), p))
               => OnceIn(Waiters(Append(waiting, [proc |-> x, on |-> on])), p)
  <1> DEFINE e == [proc |-> x, on |-> on]
  <1>1. e \in [proc : Procs, on : [Sigs -> Edge]] /\ e.proc = x
    OBVIOUS
  <1> HIDE DEF e
  <1>2. waiting \in Seq([proc : Procs, on : [Sigs -> Edge]])
    BY ThreadTypes
  <1>3. PICK W : W = [proc : Procs, on : [Sigs -> Edge]]
    OBVIOUS
  <1>4. waiting \in Seq(W) /\ e \in W
    BY <1>1, <1>2, <1>3
  <1>5. /\ Occurs(Waiters(Append(waiting, e)), p) <=> Occurs(Waiters(waiting), p) \/ p = e.proc
        /\ OnceIn(Waiters(waiting), p) /\ (p = e.proc => ~Occurs(Waiters(waiting), p))
              => OnceIn(Waiters(Append(waiting, e)), p)
    BY <1>4, AppendWaits
  <1>6. e.proc = x
    BY <1>1
  <1> QED BY <1>5, <1>6 DEF e

\* An activation leaves the threads that it does not run where they are.
LEMMA OthersUnmoved ==
  ASSUME TypeOK, NEW x \in Procs, Execute(x), NEW p, p # x
  PROVE  SamePlaces(p)
  <1>1. /\ InQueue(queue', p) <=> InQueue(queue, p)
        /\ Occurs(queue'[0], p) <=> Occurs(queue[0], p)
        /\ OnceQueued(queue, p) => OnceQueued(queue', p)
    <2>1. CASE queue' = queue
      BY <2>1
    <2>2. ASSUME NEW t \in Time, queue' = Schedule(queue, t, x)
          PROVE  /\ InQueue(queue', p) <=> InQueue(queue, p)
                 /\ Occurs(queue'[0], p) <=> Occurs(queue[0], p)
                 /\ OnceQueued(queue, p) => OnceQueued(queue', p)
      BY <2>2, ThreadTypes, ScheduleOccurs
    <2> QED BY <2>1, <2>2, SuspendEffect
  <1>2. /\ Occurs(Waiters(waiting'), p) <=> Occurs(Waiters(waiting), p)
        /\ OnceIn(Waiters(waiting), p) => OnceIn(Waiters(waiting'), p)
    <2>1. CASE waiting' = waiting
      BY <2>1
    <2>2. ASSUME NEW on \in [Sigs -> Edge], waiting' = Append(waiting, [proc |-> x, on |-> on])
          PROVE  /\ Occurs(Waiters(waiting'), p) <=> Occurs(Waiters(waiting), p)
                 /\ OnceIn(Waiters(waiting), p) => OnceIn(Waiters(waiting'), p)
      BY <2>2, WaitJoins
    <2> QED BY <2>1, <2>2, SuspendEffect
  <1>3. /\ Occurs(batch', p) <=> Occurs(batch, p)
        /\ OnceIn(batch, p) => OnceIn(batch', p)
    <2>1. CASE batch = <<>>
      BY <2>1 DEF Execute
    <2>2. CASE batch # <<>>
      <3>1. batch' = Tail(batch) /\ p # Head(batch)
        BY <2>2 DEF Execute, NextProc
      <3> QED BY <2>2, <3>1, ThreadTypes, TailOccurs
    <2> QED BY <2>1, <2>2
  <1> QED BY <1>1, <1>2, <1>3 DEF SamePlaces

\* The thread that ran left the batch for the event queue or the event
\* waits, or has ended, or is lost.
LEMMA ThreadsExecute ==
  ASSUME TypeOK, PhaseInv, ThreadInv, NEW x \in Procs, Execute(x)
  PROVE  ThreadInv'
  <1> SUFFICES ASSUME NEW p \in Threads
               PROVE  Resumable(p)'
    BY DEF ThreadInv, Threads
  <1>1. Resumable(p) /\ p \in Procs
    BY ThreadTypes DEF ThreadInv
  <1>2. CASE p # x
    <2>1. SameLaunch
      BY DEF Execute, ctl, SameLaunch
    <2>2. pstate'[p] = pstate[p] /\ (p \in lost' <=> p \in lost) /\ (finish => finish')
      BY <1>1, <1>2, SuspendEffect
    <2> QED BY <1>1, <1>2, <2>1, <2>2, OthersUnmoved, Unmoved
  <1>3. CASE p = x
    <2>1. batch # <<>> /\ p = Head(batch) /\ batch' = Tail(batch)
      BY <1>3 DEF Execute, NextProc, PhaseInv
    <2>2. Occurs(batch, p) /\ Once(queue, waiting, batch, p)
      BY <1>1, <2>1, ThreadTypes, TailOccurs DEF Resumable
    <2>3. ~InQueue(queue, p) /\ ~Occurs(Waiters(waiting), p) /\ OnceQueued(queue, p)
          /\ OnceIn(Waiters(waiting), p)
      BY <2>2 DEF Once
    <2>4. OnceIn(batch', p) /\ ~Occurs(batch', p)
      BY <2>1, <2>2, ThreadTypes, TailOccurs DEF Once
    <2>5. pstate'[p] # "IDLE" /\ (pstate'[p] = "DONE" => queue' = queue /\ waiting' = waiting)
      BY <1>3, SuspendEffect
    <2>6. CASE queue' = queue /\ waiting' = waiting /\ (pstate'[p] = "DONE" \/ finish' \/ p \in lost')
      <3>1. p \in lost' => pstate'[p] = "ACTIVE"
        BY <1>3, SuspendEffect
      <3>2. ~Due(queue, waiting, batch, p)'
        BY <2>3, <2>4, <2>6 DEF Due
      <3>3. Once(queue, waiting, batch, p)'
        BY <2>3, <2>4, <2>6 DEF Once
      <3> QED BY <2>6, <3>1, <3>2, <3>3 DEF Resumable
    <2>7. ASSUME NEW t \in Time, queue' = Schedule(queue, t, x), waiting' = waiting, pstate'[p] = "ACTIVE",
                 p \notin lost'
          PROVE  Resumable(p)'
      <3>1. InQueue(queue', p) /\ OnceQueued(queue', p)
        BY <1>3, <2>3, <2>7, ThreadTypes, ScheduleOccurs
      <3> QED BY <2>3, <2>4, <2>7, <3>1 DEF Resumable, Once, Due
    <2>8. ASSUME NEW on \in [Sigs -> Edge], waiting' = Append(waiting, [proc |-> x, on |-> on]),
                 queue' = queue, pstate'[p] = "ACTIVE", p \notin lost'
          PROVE  Resumable(p)'
      <3>1. Occurs(Waiters(waiting'), p) /\ OnceIn(Waiters(waiting'), p)
        BY <1>3, <2>3, <2>8, WaitJoins
      <3> QED BY <2>3, <2>4, <2>8, <3>1 DEF Resumable, Once, Due
    <2> QED BY <1>3, <2>6, <2>7, <2>8, SuspendEffect
  <1> QED BY <1>2, <1>3

\* A time step takes the events of the earliest time, a launched thread's
\* among them.
LEMMA ThreadsStepBegin ==
  ASSUME TypeOK, ThreadInv, batch = <<>>, NEW t \in Time, PeekTime(t), StepBegin(t),
         phase = "idle" \/ call' = call
  PROVE  ThreadInv'
  <1> SUFFICES ASSUME NEW p \in Threads
               PROVE  Resumable(p)'
    BY DEF ThreadInv, Threads
  <1>1. Resumable(p)
    BY DEF ThreadInv
  <1>2. /\ batch' = queue[t] /\ phase' = "exec"
        /\ waiting' = waiting /\ pstate' = pstate /\ finish' = finish /\ lost' = lost
    BY DEF StepBegin, StartRegion, hist
  <1>3. queue'[t] = <<>> /\ \A u \in Time : u # t => queue'[u] = queue[u]
    BY ThreadTypes DEF StepBegin
  <1>4. ~Occurs(batch, p) /\ ~Occurs(queue'[t], p) /\ OnceIn(queue'[t], p)
    BY <1>3 DEF Occurs, OnceIn
  <1>5. InQueue(queue', p) <=> \E u \in Time : u # t /\ Occurs(queue[u], p)
    BY <1>3, <1>4 DEF InQueue
  <1>6. InQueue(queue, p) <=> InQueue(queue', p) \/ Occurs(batch', p)
    BY <1>2, <1>5 DEF InQueue
  <1>7. OnceQueued(queue, p)
    BY <1>1 DEF Resumable, Once
  <1>8. ~(InQueue(queue', p) /\ Occurs(batch', p)) /\ OnceIn(batch', p)
    BY <1>2, <1>5, <1>7 DEF OnceQueued
  <1>9. OnceQueued(queue', p)
    BY <1>3, <1>4, <1>7 DEF OnceQueued
  <1>10. Once(queue, waiting, batch, p)'
    BY <1>1, <1>2, <1>6, <1>8, <1>9 DEF Resumable, Once
  <1>11. Due(queue, waiting, batch, p)' <=> Due(queue, waiting, batch, p)
    BY <1>2, <1>4, <1>6 DEF Due
  <1>12. Launched(p) => Launched(p)'
    <2>1. SUFFICES ASSUME Launched(p), InQueue(queue', p)
                   PROVE  FALSE
      BY <1>2 DEF Launched
    <2>2. Occurs(queue[0], p) /\ queue[0] # <<>>
      BY <1>6, <2>1 DEF Launched, Occurs
    <2>3. t = 0
      BY <2>2, ThreadTypes DEF PeekTime, Time
    <2> QED BY <1>2, <1>8, <2>1, <2>2, <2>3
  <1> QED BY <1>1, <1>2, <1>10, <1>11, <1>12 DEF Resumable

\* A woken thread is queued once, at the time of the step.
LEMMA ThreadsWake ==
  ASSUME TypeOK, ThreadInv, WakeOne
  PROVE  ThreadInv'
  <1>1. PICK i \in DOMAIN waiting :
           queue' = Schedule(queue, time, waiting[i].proc) /\ waiting' = Removed(waiting, i)
    BY DEF WakeOne, Removed
  <1>2. /\ phase = "wake" /\ phase' = "wake" /\ call' = call /\ lpos' = lpos
        /\ batch' = batch /\ pstate' = pstate /\ finish' = finish /\ lost' = lost
    BY DEF WakeOne, ctl, region, hist
  <1>3. i \in 1 .. Len(waiting) /\ waiting[i] \in [proc : Procs, on : [Sigs -> Edge]]
    <2>1. PICK W : W = [proc : Procs, on : [Sigs -> Edge]]
      OBVIOUS
    <2>2. waiting \in Seq(W)
      BY <2>1, ThreadTypes
    <2>3. DOMAIN waiting = 1 .. Len(waiting)
      BY <2>2, LenProperties
    <2> QED BY <2>1, <2>2, <2>3, ElementOfSeq
  <1>4. PICK x \in Procs : x = waiting[i].proc
    BY <1>3
  <1>5. time \in Time /\ queue' = Schedule(queue, time, x)
    BY <1>1, <1>4, DesignAssumption DEF TypeOK, KernelOK, Time, Horizon
  <1>6. ASSUME NEW p
        PROVE  /\ p # x => (Occurs(Waiters(waiting'), p) <=> Occurs(Waiters(waiting), p))
               /\ OnceIn(Waiters(waiting), p) => OnceIn(Waiters(waiting'), p)
               /\ Occurs(Waiters(waiting), x)
               /\ OnceIn(Waiters(waiting), p) /\ p = x => ~Occurs(Waiters(waiting'), p)
    <2>1. PICK W : W = [proc : Procs, on : [Sigs -> Edge]]
      OBVIOUS
    <2>2. waiting \in Seq(W)
      BY <2>1, ThreadTypes
    <2> QED BY <1>1, <1>3, <1>4, <2>2, RemovedWaits
  <1>7. SUFFICES ASSUME NEW p \in Threads
                 PROVE  Resumable(p)'
    BY DEF ThreadInv, Threads
  <1>8. Resumable(p)
    BY <1>7 DEF ThreadInv
  <1>9. CASE p # x
    <2>1. /\ InQueue(queue', p) <=> InQueue(queue, p)
          /\ Occurs(queue'[0], p) <=> Occurs(queue[0], p)
          /\ OnceQueued(queue, p) => OnceQueued(queue', p)
      BY <1>5, <1>9, ThreadTypes, ScheduleOccurs
    <2>2. SamePlaces(p)
      BY <1>2, <1>6, <1>9, <2>1 DEF SamePlaces
    <2>3. SameLaunch
      BY <1>2 DEF SameLaunch
    <2> QED BY <1>2, <1>8, <2>2, <2>3, Unmoved
  <1>10. CASE p = x
    <2>1. Occurs(Waiters(waiting), p) /\ ~InQueue(queue, p) /\ ~Occurs(batch, p)
      BY <1>6, <1>8, <1>10 DEF Resumable, Once
    <2>2. pstate[p] # "DONE" /\ pstate[p] # "IDLE" /\ p \notin lost
      BY <1>8, <2>1 DEF Resumable, Due, Launched
    <2>3. InQueue(queue', p) /\ OnceQueued(queue', p)
      BY <1>5, <1>10, <2>1, ThreadTypes, ScheduleOccurs
    <2>4. ~Occurs(Waiters(waiting'), p) /\ OnceIn(Waiters(waiting'), p) /\ OnceIn(batch', p)
      <3>1. OnceIn(Waiters(waiting), p) /\ OnceIn(batch, p)
        BY <1>8 DEF Resumable, Once
      <3> QED BY <1>2, <1>6, <1>10, <3>1
    <2> QED BY <1>2, <2>1, <2>2, <2>3, <2>4 DEF Resumable, Once, Due
  <1> QED BY <1>9, <1>10

\* $finish drops the queue with the threads in it; otherwise the step's end
\* moves none.
LEMMA ThreadsStepEnd ==
  ASSUME TypeOK, PhaseInv, ThreadInv, StepEnd
  PROVE  ThreadInv'
  <1>1. UNCHANGED <<waiting, batch, pstate, finish, call, lost>> /\ phase' \in {"next", "idle"}
        /\ (phase' = "idle" => finish \/ call # "run")
        /\ queue' = IF finish THEN [t \in Time |-> <<>>] ELSE queue
    BY DEF StepEnd, region, hist, QueueAfterStep
  <1>2. CASE ~finish
    BY <1>1, <1>2, Quiet DEF SameLaunch
  <1>3. CASE finish
    <2> SUFFICES ASSUME NEW p \in Threads
                 PROVE  Resumable(p)'
      BY DEF ThreadInv, Threads
    <2>1. Resumable(p)
      BY DEF ThreadInv
    <2>2. \A t \in Time : queue'[t] = <<>>
      BY <1>1, <1>3
    <2>3. ~InQueue(queue', p) /\ OnceQueued(queue', p)
      BY <2>2 DEF InQueue, OnceQueued, Occurs, OnceIn
    <2>4. ~Occurs(batch, p)
      <3>1. batch = <<>>
        BY DEF PhaseInv, StepEnd
      <3> QED BY <3>1 DEF Occurs
    <2>5. Once(queue, waiting, batch, p)'
      BY <1>1, <2>1, <2>3 DEF Resumable, Once
    <2>6. Due(queue, waiting, batch, p)' => Occurs(Waiters(waiting), p)
      BY <1>1, <2>3, <2>4 DEF Due
    <2>7. Due(queue, waiting, batch, p)' =>
              pstate'[p] # "DONE" /\ pstate'[p] # "IDLE" /\ p \notin lost'
      BY <1>1, <2>1, <2>6 DEF Resumable, Due, Launched
    <2> QED BY <1>1, <1>3, <2>1, <2>5, <2>7 DEF Resumable
  <1> QED BY <1>2, <1>3

\* run() queues a thread that never ran, and queues it once.
LEMMA ThreadsLaunch ==
  ASSUME TypeOK, PhaseInv, ThreadInv, RunLaunch
  PROVE  ThreadInv'
  <1> DEFINE x == Launch[lpos]
  <1>1. /\ phase = "launch" /\ phase' = "launch" /\ lpos' = lpos + 1 /\ call' = call
        /\ queue' = IF pstate[x] = "IDLE" THEN Schedule(queue, 0, x) ELSE queue
        /\ UNCHANGED <<waiting, batch, pstate, finish, lost>>
    BY DEF RunLaunch, Launchable, region, hist
  <1>2. SameLaunch
    BY <1>1 DEF SameLaunch
  <1>3. CASE pstate[x] # "IDLE"
    BY <1>1, <1>2, <1>3, Quiet
  <1>4. CASE pstate[x] = "IDLE"
    <2>1. Len(Launch) \in Nat /\ lpos \in 1 .. Len(Launch) /\ DOMAIN Launch = 1 .. Len(Launch)
      <3>1. Launch \in Seq(Nat)
        BY DesignAssumption, ConcatProperties DEF Launch
      <3> QED BY <3>1, LaunchType, LenProperties DEF TypeOK, CtlOK, RunLaunch
    <2>2. x \in Threads /\ x \in Procs
      BY <2>1, LaunchType DEF Threads
    <2>3. queue' = Schedule(queue, 0, x)
      BY <1>1, <1>4
    <2>4. ~Due(queue, waiting, batch, x)
      <3>1. SUFFICES ASSUME NEW k \in 1 .. lpos - 1, Launch[k] = x
                     PROVE  FALSE
        BY <1>1, <1>4, <2>2 DEF ThreadInv, Resumable, Launched
      <3>2. k \in DOMAIN Launch /\ lpos \in DOMAIN Launch /\ k # lpos
        BY <2>1, <3>1
      <3> QED BY <3>1, <3>2, ProcessAssumption
    <2> HIDE DEF x
    <2>5. SUFFICES ASSUME NEW p \in Threads
                   PROVE  Resumable(p)'
      BY DEF ThreadInv, Threads
    <2>6. Resumable(p)
      BY <2>5 DEF ThreadInv
    <2>7. CASE p # x
      <3>1. SamePlaces(p)
        BY <1>1, <2>2, <2>3, <2>7, ThreadTypes, ScheduleOccurs DEF SamePlaces
      <3> QED BY <1>1, <1>2, <2>6, <3>1, Unmoved
    <2>8. CASE p = x
      <3>1. ~InQueue(queue, p) /\ ~Occurs(Waiters(waiting), p) /\ ~Occurs(batch, p)
        BY <2>4, <2>8 DEF Due
      <3>2. InQueue(queue', p) /\ OnceQueued(queue', p) /\ Occurs(queue'[0], p)
        BY <2>2, <2>3, <2>8, <3>1, ThreadTypes, ScheduleOccurs
      <3>3. OnceIn(Waiters(waiting'), p) /\ OnceIn(batch', p)
        BY <1>1, <2>6 DEF Resumable, Once
      <3>4. Launched(p)'
        <4>1. call' = "run"
          BY <1>1 DEF PhaseInv
        <4>2. lpos \in 1 .. lpos' - 1 /\ Launch[lpos] = p
          BY <1>1, <2>1, <2>8 DEF x
        <4> QED BY <1>1, <3>1, <3>2, <4>1, <4>2 DEF Launched
      <3>5. pstate'[p] = "IDLE" /\ p \notin lost'
        BY <1>1, <1>4, <2>6, <2>8 DEF Resumable
      <3> QED BY <1>1, <3>1, <3>2, <3>3, <3>4, <3>5 DEF Resumable, Once
    <2> QED BY <2>7, <2>8
  <1> QED BY <1>3, <1>4

\* The testbench queues its toggles, not threads.
LEMMA ThreadsSchedule ==
  ASSUME TypeOK, ThreadInv, CallSchedule
  PROVE  ThreadInv'
  <1>1. PICK x \in Toggles, t \in time .. MaxRun : queue' = Schedule(queue, t, x)
    BY DEF CallSchedule
  <1>2. t \in Time /\ x \in Procs
    BY DesignAssumption DEF TypeOK, KernelOK, Time, Horizon, Procs
  <1>3. phase = "idle" /\ UNCHANGED <<waiting, batch, pstate, finish, lost>>
    BY DEF CallSchedule, Call, region, hist
  <1>4. ASSUME NEW p \in Threads
        PROVE  Resumable(p)'
    <2>1. p # x
      BY ProcessAssumption DEF Threads
    <2>2. SamePlaces(p)
      BY <1>1, <1>2, <1>3, <2>1, ThreadTypes, ScheduleOccurs DEF SamePlaces
    <2> QED BY <1>3, <2>2, Unmoved DEF ThreadInv, SameLaunch
  <1> QED BY <1>4 DEF ThreadInv, Threads

\* run() returns when nothing is queued at time 0: what it launched has run.
LEMMA ThreadsReturn ==
  ASSUME TypeOK, PhaseInv, ThreadInv, RunReturn
  PROVE  ThreadInv'
  <1>1. UNCHANGED <<queue, waiting, batch, pstate, finish, lost>> /\ phase = "next"
    BY DEF RunReturn, kernel, region, hist
  <1>2. queue[0] = <<>> /\ batch = <<>>
    BY <1>1 DEF RunReturn, PhaseInv, TypeOK, CtlOK
  <1>3. \A p \in Threads : ~(pstate[p] = "IDLE" /\ Due(queue, waiting, batch, p))
    BY <1>2 DEF ThreadInv, Resumable, Launched, Due, Occurs
  <1> QED BY <1>1, <1>3 DEF ThreadInv, Resumable, Threads

\* Every step keeps the threads' invariant.
LEMMA ThreadsNext ==
  ASSUME TypeOK, PhaseInv, ThreadInv, [Next]_vars
  PROVE  ThreadInv'
  <1>1. CASE CAEval
    BY <1>1, Quiet DEF CAEval, region, ctl, hist, SameLaunch
  <1>2. CASE CAPassEnd
    <2>1. phase = "ca" /\ phase' \in {"ca", ca.ret} /\ ca.ret \in Returns \ {"idle"}
      BY <1>2 DEF CAPassEnd, PhaseInv, TypeOK, CaOK
    <2>2. SameLaunch
      BY <1>2, <2>1 DEF CAPassEnd, Returns, SameLaunch
    <2> QED BY <1>2, <2>2, Quiet DEF CAPassEnd, kernel, region, hist
  <1>3. CASE RegionEnd \/ Resettle \/ DeltaBegin \/ NbaDone \/ DeltaLimitError \/ WakeDone \/ CallbackQuiet
    BY <1>3, Quiet DEF RegionEnd, Resettle, DeltaBegin, NbaDone, DeltaLimitError, WakeDone,
                       CallbackQuiet, StartCA, kernel, region, hist, SameLaunch
  <1>4. CASE ApplyNba \/ CallbackDrive
    BY <1>4, Quiet DEF ApplyNba, CallbackDrive, StartCA, region, ctl, hist, SameLaunch
  <1>5. CASE Collect \/ ExternalCollect \/ BootCombos \/ BootReaders
    <2>1. batch = <<>> /\ batch' = <<>>
      BY <1>5 DEF Collect, ExternalCollect, BootCombos, BootReaders, StartRegion, region, PhaseInv
    <2>2. SameLaunch
      BY <1>5 DEF Collect, ExternalCollect, BootCombos, BootReaders, StartRegion, SameLaunch
    <2> QED BY <1>5, <2>1, <2>2, Quiet DEF Collect, ExternalCollect, BootCombos, BootReaders, kernel, hist
  <1>6. CASE ExternalDrives \/ BootDrives \/ FullCA \/ SettleBoot
    BY <1>6, Quiet DEF ExternalDrives, BootDrives, FullCA, SettleBoot, StartCA, kernel, region, hist,
                       SameLaunch
  <1>7. CASE DeltaDone
    <2>1. SameLaunch
      BY <1>7 DEF DeltaDone, SameLaunch, PhaseInv, Settling, Looping
    <2> QED BY <1>7, <2>1, Quiet DEF DeltaDone, kernel, region, hist
  <1>8. CASE SettleDrives
    BY <1>8, Quiet DEF SettleDrives, kernel, region, hist, SameLaunch, PhaseInv, Settling
  <1>9. CASE SettleCollect
    <2>1. batch' = batch /\ call = "settle"
      BY <1>9 DEF SettleCollect, StartRegion, region, PhaseInv, Settling
    <2> QED BY <1>9, <2>1, Quiet DEF SettleCollect, kernel, hist, SameLaunch
  <1>10. CASE CallDrive \/ CallRun \/ CallSettle
    BY <1>10, Quiet DEF CallDrive, CallRun, CallSettle, Call, kernel, region, hist, SameLaunch
  <1>11. CASE RunNext
    <2>1. PICK t \in 0 .. maxTime : PeekTime(t) /\ StepBegin(t)
      BY <1>11 DEF RunNext
    <2>2. t \in Time
      BY DesignAssumption DEF TypeOK, CtlOK, Time, Horizon
    <2>3. batch = <<>> /\ call' = call
      BY <1>11 DEF RunNext, PhaseInv
    <2> QED BY <2>1, <2>2, <2>3, ThreadsStepBegin
  <1>12. CASE CallRunStep
    <2>1. PICK t \in 0 .. MaxRun : PeekTime(t) /\ StepBegin(t)
      BY <1>12 DEF CallRunStep
    <2>2. t \in Time
      BY DesignAssumption DEF Time, Horizon
    <2>3. batch = <<>> /\ phase = "idle"
      BY <1>12 DEF CallRunStep, Call, PhaseInv
    <2> QED BY <2>1, <2>2, <2>3, ThreadsStepBegin
  <1>13. CASE UNCHANGED vars
    BY <1>13 DEF vars, kernel, ctl, region, hist, ThreadInv, Resumable, Launched, Threads
  <1> QED
    BY <1>1, <1>2, <1>3, <1>4, <1>5, <1>6, <1>7, <1>8, <1>9, <1>10, <1>11, <1>12, <1>13,
       ThreadsExecute, ThreadsWake, ThreadsStepEnd, ThreadsLaunch, ThreadsSchedule, ThreadsReturn
    DEF Next, Kernel, Testbench, Done

\* Initially no thread is due.
LEMMA ThreadsInit ==
  ASSUME Init
  PROVE  TypeOK /\ PhaseInv /\ ThreadInv
  <1>1. PhaseInv
    BY DEF Init, PhaseInv, Settling, Looping, CAPass
  <1>2. \A p : /\ ~InQueue(queue, p) /\ OnceQueued(queue, p)
              /\ ~Occurs(Waiters(waiting), p) /\ OnceIn(Waiters(waiting), p)
              /\ ~Occurs(batch, p) /\ OnceIn(batch, p)
    BY DEF Init, InQueue, OnceQueued, Occurs, OnceIn, Waiters
  <1>3. \A p \in Threads : pstate[p] = "IDLE" /\ p \notin lost
    BY TypeInit, ThreadTypes DEF Init
  <1> QED BY <1>1, <1>2, <1>3, TypeInit DEF ThreadInv, Resumable, Once, Due

\* The count of the places where a thread is due.
LEMMA DuesOnce ==
  ASSUME TypeOK, NEW p, Once(queue, waiting, batch, p)
  PROVE  Dues(p) = IF Due(queue, waiting, batch, p) THEN 1 ELSE 0
  <1> DEFINE places == UNION {{<<t, i>> : i \in {j \in DOMAIN queue[t] : queue[t][j] = p}} : t \in Time}
             waits == {i \in DOMAIN waiting : waiting[i].proc = p}
             popped == {i \in DOMAIN batch : batch[i] = p}
  <1>1. Cardinality(places) = IF InQueue(queue, p) THEN 1 ELSE 0
    <2>1. CASE InQueue(queue, p)
      <3>1. PICK t \in Time : Occurs(queue[t], p)
        BY <2>1 DEF InQueue
      <3>2. PICK i \in DOMAIN queue[t] : queue[t][i] = p
        BY <3>1 DEF Occurs
      <3>3. \A u \in Time : \A j \in DOMAIN queue[u] : queue[u][j] = p => u = t /\ j = i
        BY <3>2 DEF Once, OnceQueued, OnceIn, Occurs
      <3>4. places = {<<t, i>>}
        BY <3>2, <3>3
      <3> QED BY <2>1, <3>4, FS_Singleton
    <2>2. CASE ~InQueue(queue, p)
      <3>1. places = {}
        BY <2>2 DEF InQueue, Occurs
      <3> QED BY <2>2, <3>1, FS_EmptySet
    <2> QED BY <2>1, <2>2
  <1>2. Cardinality(waits) = IF Occurs(Waiters(waiting), p) THEN 1 ELSE 0
    <2>1. CASE Occurs(Waiters(waiting), p)
      <3>1. PICK i \in waits : TRUE
        BY <2>1 DEF Occurs, Waiters
      <3>2. waits = {i}
        BY <3>1 DEF Once, OnceIn, Waiters
      <3> QED BY <2>1, <3>2, FS_Singleton
    <2>2. CASE ~Occurs(Waiters(waiting), p)
      <3>1. waits = {}
        BY <2>2 DEF Occurs, Waiters
      <3> QED BY <2>2, <3>1, FS_EmptySet
    <2> QED BY <2>1, <2>2
  <1>3. Cardinality(popped) = IF Occurs(batch, p) THEN 1 ELSE 0
    <2>1. CASE Occurs(batch, p)
      <3>1. PICK i \in popped : TRUE
        BY <2>1 DEF Occurs
      <3>2. popped = {i}
        BY <3>1 DEF Once, OnceIn
      <3> QED BY <2>1, <3>2, FS_Singleton
    <2>2. CASE ~Occurs(batch, p)
      <3>1. popped = {}
        BY <2>2 DEF Occurs
      <3> QED BY <2>2, <3>1, FS_EmptySet
    <2> QED BY <2>1, <2>2
  <1>4. Dues(p) = Cardinality(places) + Cardinality(waits) + Cardinality(popped)
    BY DEF Dues
  <1> HIDE DEF places, waits, popped
  <1> QED BY <1>1, <1>2, <1>3, <1>4 DEF Once, Due

\* A thread suspended by a delay or an event list is resumed from one place --
\* the event queue, the event waits or the popped batch -- however its delays,
\* waits, wake-ups and the calls of the testbench interleave.  A thread that
\* ended is resumed no more, nor is one whose suspension has neither delay nor
\* events: a wait(cond) on a false condition is never taken up again.
THEOREM ThreadsDueOnceHolds == Spec => []ThreadsDueOnce
  <1>1. Init => TypeOK /\ PhaseInv /\ ThreadInv
    BY ThreadsInit
  <1>2. TypeOK /\ PhaseInv /\ ThreadInv /\ [Next]_vars => (TypeOK /\ PhaseInv /\ ThreadInv)'
    BY TypeNext, PhaseNext, ThreadsNext
  <1>3. TypeOK /\ PhaseInv /\ ThreadInv => ThreadsDueOnce
    BY DuesOnce DEF ThreadInv, Resumable, ThreadsDueOnce, Threads
  <1> QED BY <1>1, <1>2, <1>3, PTL DEF Spec

----------------------------------------------------------------------------
(* A time step completes.                                                  *)

\* Processes are left to run in an active region only, popped ones in that of
\* a time step; the bootstrap's first region does not go on to a delta loop.
RegionsInv ==
    /\ woken # {} => phase = "exec"
    /\ batch # <<>> => phase = "exec" /\ stage = "step"
    /\ phase = "ca" /\ ca.ret = "delta" => stage # "start"
    /\ phase = "resettle" \/ (phase = "ca" /\ ca.ret = "resettle") => stage = "settle"

\* NBAs wait, and dirty signals are held, inside a delta loop only.
NbaInv ==
    nba # <<>> => \/ phase \in {"exec", "delta", "nba", "resettle", "bootdrives", "error"}
                  \/ phase = "ca" /\ ca.ret \in {"delta", "resettle", "bootdrives"}
DirtyInv ==
    act # {} => /\ stage # "start"
                /\ \/ phase \in {"exec", "delta", "nba", "resettle", "collect", "error"}
                   \/ phase = "ca" /\ ca.ret \in {"delta", "resettle", "collect"}

CompleteInv == RegionsInv /\ NbaInv /\ DirtyInv

\* The assign loop and the regions keep it.
LEMMA CompleteRegion ==
  ASSUME TypeOK, CompleteInv,
         \/ CAEval \/ CAPassEnd \/ RegionEnd \/ Resettle
         \/ \E p \in Procs : Execute(p)
  PROVE  CompleteInv'
  <1>1. CASE CAEval
    BY <1>1 DEF CAEval, region, loop, ctl, CompleteInv, RegionsInv, NbaInv, DirtyInv
  <1>2. CASE CAPassEnd
    <2>1. /\ phase = "ca" /\ UNCHANGED <<batch, woken, stage, nba>>
          /\ \/ phase' = "ca" /\ ca'.ret = ca.ret /\ act' = act
             \/ phase' = ca.ret /\ ca' = ca /\ (ca.ret # "delta" => act' = act)
      BY <1>2 DEF CAPassEnd, CAPass, region, kernel
    <2>2. ca.ret \in Returns
      BY DEF TypeOK, CaOK
    <2> QED BY <2>1, <2>2 DEF CompleteInv, RegionsInv, NbaInv, DirtyInv, Returns
  <1>3. CASE RegionEnd
    <2>1. /\ phase = "exec" /\ phase' = "ca" /\ UNCHANGED <<batch, woken, stage, nba, act>>
          /\ batch = <<>> /\ woken = {}
          /\ ca'.ret = CASE stage = "start" -> "bootdrives" [] stage = "settle" -> "resettle"
                         [] OTHER -> "delta"
      BY <1>3 DEF RegionEnd, StartCA, CAPass, region, loop, kernel
    <2> QED BY <2>1 DEF CompleteInv, RegionsInv, NbaInv, DirtyInv
  <1>4. CASE Resettle
    BY <1>4 DEF Resettle, StartCA, CAPass, region, loop, kernel, CompleteInv, RegionsInv, NbaInv, DirtyInv
  <1>5. CASE \E p \in Procs : Execute(p)
    <2>1. phase = "exec" /\ UNCHANGED <<phase, stage, act, ca>> /\ (batch' # <<>> => batch # <<>>)
      BY <1>5 DEF Execute, ctl, loop
    <2> QED BY <2>1 DEF CompleteInv, RegionsInv, NbaInv, DirtyInv
  <1> QED BY <1>1, <1>2, <1>3, <1>4, <1>5

\* So do the delta loop and the end of a step.
LEMMA CompleteLoop ==
  ASSUME TypeOK, CompleteInv,
         \/ DeltaBegin \/ ApplyNba \/ NbaDone \/ DeltaLimitError \/ Collect \/ DeltaDone
         \/ WakeOne \/ WakeDone \/ CallbackQuiet \/ CallbackDrive \/ StepEnd
  PROVE  CompleteInv'
  <1>1. CASE DeltaBegin \/ NbaDone \/ DeltaLimitError
    BY <1>1 DEF DeltaBegin, NbaDone, DeltaLimitError, StartCA, CAPass, region, loop, kernel,
                CompleteInv, RegionsInv, NbaInv, DirtyInv
  <1>2. CASE ApplyNba
    BY <1>2 DEF ApplyNba, region, ctl, CompleteInv, RegionsInv, NbaInv, DirtyInv
  <1>3. CASE Collect
    <2>1. /\ phase = "collect" /\ UNCHANGED <<stage, ca, nba>> /\ nba = <<>>
          /\ \/ phase' = "exec" /\ act' = act /\ batch' = <<>>
             \/ phase' = "delta" /\ act' = {} /\ UNCHANGED <<batch, woken>>
      BY <1>3 DEF Collect, StartRegion, region, kernel, CompleteInv, NbaInv
    <2> QED BY <2>1 DEF CompleteInv, RegionsInv, NbaInv, DirtyInv
  <1>4. CASE DeltaDone
    BY <1>4 DEF DeltaDone, MoreDeltas, region, loop, kernel, CompleteInv, RegionsInv, NbaInv, DirtyInv
  <1>5. CASE WakeOne
    BY <1>5 DEF WakeOne, region, loop, ctl, CompleteInv, RegionsInv, NbaInv, DirtyInv
  <1>6. CASE WakeDone \/ CallbackQuiet
    BY <1>6 DEF WakeDone, CallbackQuiet, region, loop, kernel, CompleteInv, RegionsInv, NbaInv, DirtyInv
  <1>7. CASE CallbackDrive
    BY <1>7 DEF CallbackDrive, StartCA, CAPass, region, loop, CompleteInv, RegionsInv, NbaInv, DirtyInv
  <1>8. CASE StepEnd
    BY <1>8 DEF StepEnd, region, loop, CompleteInv, RegionsInv, NbaInv, DirtyInv
  <1> QED BY <1>1, <1>2, <1>3, <1>4, <1>5, <1>6, <1>7, <1>8

\* And the calls.
LEMMA CompleteCalls ==
  ASSUME TypeOK, CompleteInv,
         \/ RunLaunch \/ ExternalDrives \/ ExternalCollect \/ BootDrives \/ FullCA
         \/ BootCombos \/ BootReaders \/ RunNext \/ RunReturn
         \/ SettleBoot \/ SettleDrives \/ SettleCollect
         \/ Testbench
  PROVE  CompleteInv'
  <1> USE DEF CompleteInv, RegionsInv, NbaInv, DirtyInv
  <1>1. CASE RunLaunch
    BY <1>1 DEF RunLaunch, region, loop
  <1>2. CASE ExternalDrives \/ FullCA \/ RunReturn \/ SettleBoot
    BY <1>2 DEF ExternalDrives, FullCA, RunReturn, SettleBoot, StartCA, CAPass, region, loop, kernel
  <1>3. CASE BootDrives \/ SettleDrives
    BY <1>3 DEF BootDrives, SettleDrives, StartCA, CAPass, region, loop, kernel
  <1>4. CASE ExternalCollect
    <2>1. /\ phase = "extcollect" /\ UNCHANGED nba /\ act' = {}
          /\ \/ phase' = "exec" /\ batch' = <<>>
             \/ phase' \in {"boot", "wake"} /\ UNCHANGED <<batch, woken>>
      BY <1>4 DEF ExternalCollect, StartRegion, region, kernel
    <2> QED BY <2>1
  <1>5. CASE BootCombos
    <2>1. /\ phase = "bootcombos" /\ UNCHANGED <<nba, act>>
          /\ \/ phase' = "exec" /\ batch' = <<>>
             \/ phase' = "bootdrives" /\ UNCHANGED <<batch, woken>>
      BY <1>5 DEF BootCombos, StartRegion, region, loop, kernel
    <2> QED BY <2>1
  <1>6. CASE BootReaders
    <2>1. /\ phase = "bootdrives" /\ UNCHANGED nba /\ stage' = "boot"
          /\ \/ phase' = "exec" /\ batch' = <<>> /\ act' = act
             \/ phase' = "delta" /\ UNCHANGED <<batch, woken>>
      BY <1>6 DEF BootReaders, StartRegion, region, kernel
    <2> QED BY <2>1
  <1>7. CASE RunNext \/ CallRunStep
    <2>1. phase \in {"next", "idle"} /\ phase' = "exec" /\ stage' = "step" /\ act' = {} /\ nba' = nba
          /\ woken' = {}
      BY <1>7 DEF RunNext, CallRunStep, Call, StepBegin, StartRegion
    <2> QED BY <2>1
  <1>8. CASE SettleCollect
    <2>1. /\ phase = "settlecollect" /\ UNCHANGED nba /\ act' = {}
          /\ \/ phase' = "exec" /\ batch' = <<>>
             \/ phase' = "idle" /\ UNCHANGED <<batch, woken>>
      BY <1>8 DEF SettleCollect, StartRegion, region, kernel
    <2> QED BY <2>1
  <1>9. CASE CallDrive \/ CallSchedule \/ CallRun
    BY <1>9 DEF CallDrive, CallSchedule, CallRun, Call, region, loop, kernel
  <1>10. CASE CallSettle
    BY <1>10 DEF CallSettle, Call, StartCA, CAPass, region, kernel
  <1> QED BY <1>1, <1>2, <1>3, <1>4, <1>5, <1>6, <1>7, <1>8, <1>9, <1>10 DEF Testbench

\* Every step keeps it.
LEMMA CompleteNext ==
  ASSUME TypeOK, CompleteInv, [Next]_vars
  PROVE  CompleteInv'
  <1>1. CASE UNCHANGED vars
    BY <1>1 DEF vars, kernel, ctl, region, loop, CompleteInv, RegionsInv, NbaInv, DirtyInv
  <1> QED BY <1>1, CompleteRegion, CompleteLoop, CompleteCalls DEF Next, Kernel, Done

\* Only threads call $finish: an always block that does so in a settle(), or
\* for drives made before a run(), ends no time step, and the queue is kept.
FinishInThreads ==
    \A p \in Procs \ Threads, c \in Pc : \A s \in [Sigs -> Val] : Exec(p, c, s).stop # "finish"

\* A time step is in progress.
InStep ==
    /\ stage = "step"
    /\ \/ phase \in {"exec", "delta", "nba", "collect", "wake", "callback", "stepend", "error"}
       \/ phase = "ca" /\ ca.ret \in {"delta", "collect", "stepend"}

\* The phases of a step and of run(), which does not go past max_time.
CallInv ==
    /\ phase \in {"callback", "stepend"} \/ (phase = "ca" /\ ca.ret = "stepend") => stage = "step"
    /\ phase = "wake" => stage \in {"step", "ext"}
    /\ \/ phase \in {"launch", "extcollect"}
       \/ phase = "ca" /\ ca.ret = "extcollect"
       \/ Looping /\ stage = "ext"
       => call = "run"
    /\ call = "run" /\ phase # "idle" => time <= maxTime

\* After a $finish, and outside its step, no thread is queued but those that
\* the run() in progress launched or woke, and they are due at once.
FinishInv ==
    finish /\ ~InStep =>
        \A p \in Threads, t \in Time :
            Occurs(queue[t], p) => t <= time /\ call = "run" /\ phase # "idle"

\* The phases stay coherent.
LEMMA CallLoop ==
  ASSUME TypeOK, CallInv,
         \/ CAEval \/ CAPassEnd \/ RegionEnd \/ Resettle
         \/ \E p \in Procs : Execute(p)
         \/ DeltaBegin \/ ApplyNba \/ NbaDone \/ DeltaLimitError \/ Collect \/ DeltaDone
         \/ WakeOne \/ WakeDone \/ CallbackQuiet \/ CallbackDrive \/ StepEnd
  PROVE  CallInv'
  <1> USE DEF CallInv, Looping
  <1>1. CASE CAEval
    BY <1>1 DEF CAEval, ctl
  <1>2. CASE CAPassEnd
    <2>1. /\ phase = "ca" /\ UNCHANGED <<stage, call, time, maxTime>>
          /\ \/ phase' = "ca" /\ ca'.ret = ca.ret
             \/ phase' = ca.ret /\ ca' = ca
      BY <1>2 DEF CAPassEnd, CAPass, kernel
    <2>2. ca.ret \in Returns
      BY DEF TypeOK, CaOK
    <2> QED BY <2>1, <2>2 DEF Returns
  <1>3. CASE RegionEnd \/ Resettle \/ DeltaBegin \/ NbaDone \/ DeltaLimitError
    BY <1>3 DEF RegionEnd, Resettle, DeltaBegin, NbaDone, DeltaLimitError, StartCA, CAPass, kernel
  <1>4. CASE \E p \in Procs : Execute(p)
    <2>1. phase = "exec" /\ UNCHANGED <<phase, stage, call, time, maxTime>>
      BY <1>4 DEF Execute, ctl
    <2> QED BY <2>1
  <1>5. CASE ApplyNba \/ WakeOne
    BY <1>5 DEF ApplyNba, WakeOne, ctl
  <1>6. CASE Collect
    <2>1. phase = "collect" /\ phase' \in {"exec", "delta"} /\ UNCHANGED <<stage, call, time, maxTime>>
      BY <1>6 DEF Collect, StartRegion, kernel
    <2> QED BY <2>1
  <1>7. CASE DeltaDone \/ WakeDone \/ CallbackQuiet
    BY <1>7 DEF DeltaDone, WakeDone, CallbackQuiet, kernel
  <1>8. CASE CallbackDrive \/ StepEnd
    BY <1>8 DEF CallbackDrive, StepEnd, StartCA, CAPass
  <1> QED BY <1>1, <1>2, <1>3, <1>4, <1>5, <1>6, <1>7, <1>8

\* In every call.
LEMMA CallNext ==
  ASSUME TypeOK, CallInv, [Next]_vars
  PROVE  CallInv'
  <1>1. CASE RunLaunch \/ ExternalDrives \/ RunReturn \/ SettleBoot
    BY <1>1 DEF RunLaunch, ExternalDrives, RunReturn, SettleBoot, StartCA, CAPass, kernel, CallInv, Looping
  <1>2. CASE BootDrives \/ FullCA \/ SettleDrives
    BY <1>2 DEF BootDrives, FullCA, SettleDrives, StartCA, CAPass, kernel, CallInv, Looping
  <1>3. CASE ExternalCollect \/ BootCombos \/ BootReaders \/ SettleCollect
    <2>1. /\ UNCHANGED <<call, time, maxTime>> /\ phase # "idle"
          /\ \/ phase = "extcollect" /\ phase' \in {"boot", "exec", "wake"} /\ (phase' = "wake" => stage' = "ext")
             \/ phase' \in {"bootdrives", "exec", "delta", "idle"} /\ stage' \in {"start", "boot", "settle"}
      BY <1>3 DEF ExternalCollect, BootCombos, BootReaders, SettleCollect, StartRegion, kernel
    <2> QED BY <2>1 DEF CallInv, Looping
  <1>4. CASE RunNext
    <2>1. phase' = "exec" /\ stage' = "step" /\ time' \in 0 .. maxTime /\ UNCHANGED maxTime
      BY <1>4 DEF RunNext, StepBegin, StartRegion
    <2>2. maxTime \in Nat
      BY DEF TypeOK, CtlOK
    <2> QED BY <2>1, <2>2 DEF CallInv, Looping
  <1>5. CASE CallRunStep
    BY <1>5 DEF CallRunStep, StepBegin, StartRegion, CallInv, Looping
  <1>6. CASE CallRun
    <2>1. call' = "run" /\ phase' = "launch" /\ maxTime' \in time .. MaxRun /\ time' = time
      BY <1>6 DEF CallRun, kernel
    <2>2. time \in Nat /\ MaxRun \in Nat
      BY DesignAssumption DEF TypeOK, KernelOK
    <2> QED BY <2>1, <2>2 DEF CallInv, Looping
  <1>7. CASE CallDrive \/ CallSchedule \/ CallSettle
    BY <1>7 DEF CallDrive, CallSchedule, CallSettle, Call, StartCA, CAPass, CallInv, Looping
  <1>8. CASE UNCHANGED vars
    BY <1>8 DEF vars, kernel, ctl, CallInv, Looping
  <1> QED
    BY <1>1, <1>2, <1>3, <1>4, <1>5, <1>6, <1>7, <1>8, CallLoop DEF Next, Kernel, Testbench, Done

\* Most steps neither queue a thread nor end a time step.
LEMMA FinishQuiet ==
  ASSUME FinishInv, UNCHANGED <<queue, time>>, finish' = finish, InStep => InStep',
         phase = "idle" \/ call # "run" \/ (call' = call /\ phase' # "idle")
  PROVE  FinishInv'
  BY DEF FinishInv, Threads

\* Outside a step only processes that are no threads and call no $finish run.
LEMMA FinishExecute ==
  ASSUME TypeOK, PhaseInv, CompleteInv, FinishInv, FinishInThreads, NEW x \in Procs, Execute(x)
  PROVE  FinishInv'
  <1>1. phase = "exec" /\ UNCHANGED <<phase, stage, call, time>>
    BY DEF Execute, ctl
  <1>2. CASE stage = "step"
    BY <1>1, <1>2 DEF FinishInv, InStep
  <1>3. CASE stage # "step"
    <2>1. x \notin Threads
      <3>1. batch = <<>> /\ woken \cap Threads = {}
        BY <1>3 DEF CompleteInv, RegionsInv, PhaseInv
      <3> QED BY <3>1 DEF Execute, NextProc
    <2>2. finish' = finish
      <3>1. Activation(x).stop # "finish"
        <4>1. CASE pcs[x] = Dead
          BY <4>1 DEF Activation, Exhausted
        <4>2. CASE pcs[x] # Dead
          <5>1. pcs[x] \in Pc /\ sigs \in [Sigs -> Val]
            BY <4>2 DEF TypeOK, KernelOK
          <5> QED BY <2>1, <4>2, <5>1 DEF Activation, FinishInThreads
        <4> QED BY <4>1, <4>2
      <3>2. finish \in BOOLEAN
        BY DEF TypeOK, KernelOK
      <3> DEFINE r == Activation(x)
      <3>3. finish' = (finish \/ r.stop = "finish")
        BY DEF Execute
      <3> HIDE DEF r
      <3>4. r.stop # "finish"
        BY <3>1 DEF r
      <3> QED BY <3>2, <3>3, <3>4
    <2>3. ASSUME NEW p \in Threads, NEW t \in Time
          PROVE  Occurs(queue'[t], p) <=> Occurs(queue[t], p)
      <3>1. CASE queue' = queue
        BY <3>1
      <3>2. ASSUME NEW u \in Time, queue' = Schedule(queue, u, x)
            PROVE  Occurs(queue'[t], p) <=> Occurs(queue[t], p)
        <4>1. p # x
          BY <2>1
        <4> QED BY <3>2, <4>1, ThreadTypes, ScheduleOccurs
      <3> QED BY <3>1, <3>2, SuspendEffect
    <2>4. ~InStep
      BY <1>3 DEF InStep
    <2> QED BY <1>1, <2>2, <2>3, <2>4 DEF FinishInv, Threads
  <1> QED BY <1>2, <1>3

\* The threads of a run() that follow a $finish are due at once.
LEMMA FinishRun ==
  ASSUME TypeOK, CallInv, FinishInv, WakeOne \/ RunLaunch \/ RunReturn
  PROVE  FinishInv'
  <1>1. CASE WakeOne
    <2>1. PICK i \in DOMAIN waiting : queue' = Schedule(queue, time, waiting[i].proc)
      BY <1>1 DEF WakeOne
    <2>2. phase = "wake" /\ UNCHANGED <<phase, stage, call, time, finish>>
      BY <1>1 DEF WakeOne, ctl
    <2>3. CASE stage = "step"
      BY <2>2, <2>3 DEF FinishInv, InStep
    <2>4. CASE stage # "step"
      <3>1. call = "run" /\ ~InStep
        BY <2>2, <2>4 DEF CallInv, Looping, InStep
      <3>2. \A t \in Time : t # time => queue'[t] = queue[t]
        BY <2>1, ThreadTypes DEF Schedule
      <3>3. time \in Nat
        BY DEF TypeOK, KernelOK
      <3>4. ASSUME NEW p \in Threads, NEW t \in Time, finish, Occurs(queue'[t], p)
            PROVE  t <= time
        <4>1. CASE t = time
          BY <3>3, <4>1
        <4>2. CASE t # time
          BY <3>1, <3>2, <3>4, <4>2 DEF FinishInv
        <4> QED BY <4>1, <4>2
      <3> QED BY <2>2, <3>1, <3>4 DEF FinishInv, Threads
    <2> QED BY <2>3, <2>4
  <1>2. CASE RunLaunch
    <2>1. /\ phase = "launch" /\ UNCHANGED <<phase, stage, call, time, finish>> /\ call = "run"
          /\ queue' = queue \/ queue' = Schedule(queue, 0, Launch[lpos])
      BY <1>2 DEF RunLaunch, CallInv
    <2>2. \A t \in Time : t # 0 => queue'[t] = queue[t]
      BY <2>1, ThreadTypes DEF Schedule
    <2>3. time \in Nat /\ ~InStep
      BY <2>1 DEF TypeOK, KernelOK, InStep
    <2>4. ASSUME NEW p \in Threads, NEW t \in Time, finish, Occurs(queue'[t], p)
          PROVE  t <= time
      <3>1. CASE t = 0
        BY <2>3, <3>1
      <3>2. CASE t # 0
        BY <2>2, <2>3, <2>4, <3>2 DEF FinishInv
      <3> QED BY <3>1, <3>2
    <2> QED BY <2>1, <2>4 DEF FinishInv, Threads
  <1>3. CASE RunReturn
    <2>1. /\ phase = "next" /\ UNCHANGED <<queue, time, finish>>
          /\ \A t \in 0 .. maxTime : queue[t] = <<>>
      BY <1>3 DEF RunReturn, kernel
    <2>2. time \in Nat /\ maxTime \in Nat /\ ~InStep
      BY <2>1 DEF TypeOK, KernelOK, CtlOK, InStep
    <2>3. ASSUME NEW p \in Threads, NEW t \in Time, finish, Occurs(queue[t], p)
          PROVE  FALSE
      <3>1. t <= time /\ time <= maxTime
        BY <2>1, <2>2, <2>3 DEF FinishInv, CallInv
      <3>2. t \in Nat
        BY DEF Time
      <3>3. queue[t] = <<>>
        BY <2>1, <2>2, <3>1, <3>2
      <3> QED BY <2>3, <3>3 DEF Occurs
    <2> QED BY <2>1, <2>3 DEF FinishInv, Threads
  <1> QED BY <1>1, <1>2, <1>3

\* Every step keeps what a $finish leaves queued.
LEMMA FinishNext ==
  ASSUME TypeOK, PhaseInv, CompleteInv, CallInv, FinishInv, FinishInThreads, [Next]_vars
  PROVE  FinishInv'
  <1>1. CASE CAEval
    BY <1>1, FinishQuiet DEF CAEval, ctl, InStep
  <1>2. CASE CAPassEnd
    <2>1. /\ phase = "ca" /\ UNCHANGED <<stage, call, time, queue, finish>>
          /\ \/ phase' = "ca" /\ ca'.ret = ca.ret
             \/ phase' = ca.ret /\ ca' = ca
      BY <1>2 DEF CAPassEnd, CAPass, kernel
    <2>2. ca.ret # "idle"
      BY <2>1 DEF PhaseInv
    <2>3. InStep => InStep'
      BY <2>1 DEF InStep
    <2> QED BY <2>1, <2>2, <2>3, FinishQuiet
  <1>3. CASE RegionEnd \/ Resettle \/ DeltaBegin \/ NbaDone \/ DeltaLimitError
    BY <1>3, FinishQuiet DEF RegionEnd, Resettle, DeltaBegin, NbaDone, DeltaLimitError, StartCA, CAPass,
                             kernel, InStep
  <1>4. CASE ApplyNba
    BY <1>4, FinishQuiet DEF ApplyNba, ctl, InStep
  <1>5. CASE Collect
    <2>1. phase = "collect" /\ phase' \in {"exec", "delta"} /\ UNCHANGED <<stage, call, time, queue, finish>>
      BY <1>5 DEF Collect, StartRegion, kernel
    <2> QED BY <2>1, FinishQuiet DEF InStep
  <1>6. CASE DeltaDone
    <2>1. UNCHANGED <<stage, call, time, queue, finish>> /\ phase = "delta"
      BY <1>6 DEF DeltaDone, kernel
    <2>2. phase' # "idle" \/ call # "run"
      BY <1>6 DEF DeltaDone, PhaseInv, Settling, Looping
    <2>3. InStep => InStep'
      BY <1>6, <2>1 DEF DeltaDone, InStep
    <2> QED BY <2>1, <2>2, <2>3, FinishQuiet
  <1>7. CASE WakeDone \/ CallbackQuiet
    BY <1>7, FinishQuiet DEF WakeDone, CallbackQuiet, kernel, InStep
  <1>8. CASE CallbackDrive
    BY <1>8, FinishQuiet DEF CallbackDrive, StartCA, CAPass, InStep
  <1>9. CASE StepEnd
    <2>1. finish' = finish /\ queue' = IF finish THEN [t \in Time |-> <<>>] ELSE queue
      BY <1>9 DEF StepEnd, QueueAfterStep
    <2> QED BY <2>1 DEF FinishInv, Occurs
  <1>10. CASE RunNext \/ CallRunStep
    <2>1. InStep'
      BY <1>10 DEF RunNext, CallRunStep, StepBegin, StartRegion, InStep
    <2> QED BY <2>1 DEF FinishInv
  <1>11. CASE \/ ExternalDrives \/ ExternalCollect \/ BootDrives \/ FullCA \/ BootCombos \/ BootReaders
              \/ SettleBoot
    <2>1. /\ UNCHANGED <<call, time, queue, finish>> /\ phase' # "idle"
          /\ phase \in {"launch", "extcollect", "boot", "fullca", "bootcombos", "bootdrives", "settleboot"}
      BY <1>11 DEF ExternalDrives, ExternalCollect, BootDrives, FullCA, BootCombos, BootReaders, SettleBoot,
                   StartCA, StartRegion, kernel
    <2> QED BY <2>1, FinishQuiet DEF InStep
  <1>12. CASE SettleDrives \/ SettleCollect
    <2>1. UNCHANGED <<call, time, queue, finish>> /\ phase \in {"settle", "settlecollect"}
      BY <1>12 DEF SettleDrives, SettleCollect, kernel
    <2>2. call # "run"
      BY <2>1 DEF PhaseInv, Settling
    <2> QED BY <2>1, <2>2, FinishQuiet DEF InStep
  <1>13. CASE CallDrive \/ CallRun \/ CallSettle
    <2>1. UNCHANGED <<time, queue, finish>> /\ phase = "idle"
      BY <1>13 DEF CallDrive, CallRun, CallSettle, Call, kernel
    <2> QED BY <2>1, FinishQuiet DEF InStep
  <1>14. CASE CallSchedule
    <2>1. PICK x \in Toggles, u \in time .. MaxRun : queue' = Schedule(queue, u, x)
      BY <1>14 DEF CallSchedule
    <2>2. u \in Time /\ x \in Procs
      BY DesignAssumption DEF TypeOK, KernelOK, Time, Horizon, Procs
    <2>3. phase = "idle" /\ finish' = finish /\ ~InStep
      BY <1>14 DEF CallSchedule, Call, InStep
    <2>4. ASSUME NEW p \in Threads, NEW t \in Time
          PROVE  Occurs(queue'[t], p) <=> Occurs(queue[t], p)
      <3>1. p # x
        BY ProcessAssumption DEF Threads
      <3> QED BY <2>1, <2>2, <3>1, ThreadTypes, ScheduleOccurs
    <2> QED BY <2>3, <2>4 DEF FinishInv, Threads
  <1>15. CASE UNCHANGED vars
    BY <1>15 DEF vars, kernel, ctl, FinishInv, InStep, Threads
  <1> QED
    BY <1>1, <1>2, <1>3, <1>4, <1>5, <1>6, <1>7, <1>8, <1>9, <1>10, <1>11, <1>12, <1>13, <1>14, <1>15,
       FinishExecute, FinishRun
    DEF Next, Kernel, Testbench, Done

\* Between calls no NBA, no popped or triggered process and no dirty signal is
\* left over, whichever process called $finish.
NothingLeftOver == phase = "idle" => nba = <<>> /\ batch = <<>> /\ woken = {} /\ act = {}

\* What a call starts it completes, for every design.
THEOREM NothingLeftOverHolds == Spec => []NothingLeftOver
  <1>1. Init => TypeOK /\ CompleteInv
    BY ThreadsInit DEF Init, CompleteInv, RegionsInv, NbaInv, DirtyInv, CAPass
  <1>2. TypeOK /\ CompleteInv /\ [Next]_vars => (TypeOK /\ CompleteInv)'
    BY TypeNext, CompleteNext
  <1>3. TypeOK /\ CompleteInv => NothingLeftOver
    BY DEF NothingLeftOver, CompleteInv, RegionsInv, NbaInv, DirtyInv
  <1> QED BY <1>1, <1>2, <1>3, PTL DEF Spec

\* No NBA, no triggered process and no dirty signal outlives the call that
\* made it, and when a thread has called $finish no thread is queued any more:
\* the time step it ran in is completed, and the simulation over.
THEOREM StepsCompleteHolds ==
  ASSUME FinishInThreads
  PROVE  Spec => []StepsComplete
  <1> DEFINE Inv == TypeOK /\ PhaseInv /\ CompleteInv /\ CallInv /\ FinishInv
  <1>1. Init => Inv
    BY ThreadsInit DEF Init, CompleteInv, RegionsInv, NbaInv, DirtyInv, CallInv, Looping, CAPass, FinishInv
  <1>2. Inv /\ [Next]_vars => Inv'
    BY TypeNext, PhaseNext, CompleteNext, CallNext, FinishNext
  <1>3. Inv => StepsComplete
    <2>1. SUFFICES ASSUME Inv, phase = "idle"
                   PROVE  /\ nba = <<>> /\ batch = <<>> /\ woken = {} /\ act = {}
                          /\ finish => \A t \in Time : Elems(queue[t]) \cap Elems(Launch) = {}
      BY DEF StepsComplete
    <2>2. nba = <<>> /\ batch = <<>> /\ woken = {} /\ act = {}
      BY <2>1 DEF CompleteInv, RegionsInv, NbaInv, DirtyInv
    <2>3. finish => \A p \in Threads, t \in Time : ~Occurs(queue[t], p)
      BY <2>1 DEF FinishInv, InStep
    <2> QED BY <2>2, <2>3 DEF Occurs, Elems, Threads
  <1> QED BY <1>1, <1>2, <1>3, PTL DEF Spec

----------------------------------------------------------------------------
(* Simulation time.                                                        *)

\* What is queued in the past is queued at 0, a thread that never ran with it.
PastInv ==
    \A t \in Time : t < time /\ queue[t] # <<>> =>
        t = 0 /\ \E p \in Threads : pstate[p] = "IDLE" /\ Occurs(queue[0], p)

\* Nothing is queued in the past but by run(), and a thread that never ran
\* stays as it is while it is queued.
LEMMA PastKept ==
  ASSUME TypeOK, PastInv, UNCHANGED <<time, pstate>>,
         queue' = queue \/ \E t \in Time, x \in Procs : t >= time /\ queue' = Schedule(queue, t, x)
  PROVE  PastInv'
  <1>1. CASE queue' = queue
    BY <1>1 DEF PastInv, Threads
  <1>2. ASSUME NEW t \in Time, NEW x \in Procs, t >= time, queue' = Schedule(queue, t, x)
        PROVE  PastInv'
    <2>1. time \in Nat /\ \A u \in Time : u \in Nat
      BY DEF TypeOK, KernelOK, Time
    <2>2. \A u \in Time : u < time => queue'[u] = queue[u]
      BY <1>2, <2>1, ThreadTypes DEF Schedule
    <2>3. \A p : Occurs(queue[0], p) => Occurs(queue'[0], p)
      <3>1. \A p : Occurs(queue[0], p) => p # x \/ p = x
        OBVIOUS
      <3>2. Occurs(queue'[0], x) \/ queue'[0] = queue[0]
        <4>1. Occurs(queue'[t], x)
          BY <1>2, ThreadTypes, ScheduleOccurs
        <4>2. t # 0 => queue'[0] = queue[0]
          BY <1>2, ThreadTypes DEF Schedule
        <4> QED BY <4>1, <4>2
      <3>3. \A p : p # x => (Occurs(queue'[0], p) <=> Occurs(queue[0], p))
        BY <1>2, ThreadTypes, ScheduleOccurs
      <3> QED BY <3>1, <3>2, <3>3
    <2> QED BY <1>2, <2>2, <2>3 DEF PastInv, Threads
  <1> QED BY <1>1, <1>2

\* A thread that is queued is not the one that runs.
LEMMA PastExecute ==
  ASSUME TypeOK, PhaseInv, ThreadInv, PastInv, NEW x \in Procs, Execute(x)
  PROVE  PastInv'
  <1>1. time' = time /\ time \in Nat /\ time \in Time
    BY DesignAssumption DEF Execute, TypeOK, KernelOK, Time, Horizon
  <1>2. \A t \in Time : t < time => queue'[t] = queue[t]
    <2>1. PICK d \in Nat : ResumeTime(Activation(x)) = time + d
      <3>1. Activation(x).delay \in Nat
        BY ActivationType, DesignAssumption DEF Outcome
      <3> QED BY <3>1 DEF ResumeTime
    <2>2. \/ queue' = queue
          \/ queue' = Schedule(queue, time, x)
          \/ queue' = Schedule(queue, time + d, x)
      BY <2>1 DEF Execute, Suspend
    <2>3. ASSUME NEW t \in Time, t < time
          PROVE  t # time /\ t # time + d
      BY <1>1, <2>1, <2>3 DEF Time
    <2> QED BY <2>2, <2>3, ThreadTypes DEF Schedule
  <1>3. ASSUME NEW p \in Threads, pstate[p] = "IDLE", Occurs(queue[0], p), NEW t \in Time, t < time
        PROVE  pstate'[p] = "IDLE" /\ Occurs(queue'[0], p)
    <2>1. InQueue(queue, p)
      BY <1>3, ThreadTypes DEF InQueue
    <2>2. p # x
      <3>1. SUFFICES ASSUME p = x
                     PROVE  FALSE
        OBVIOUS
      <3>2. batch # <<>> /\ p = Head(batch)
        BY <3>1 DEF Execute, NextProc, PhaseInv
      <3>3. Occurs(batch, p)
        BY <3>2, ThreadTypes, TailOccurs
      <3> QED BY <2>1, <3>3 DEF ThreadInv, Resumable, Once
    <2>3. SamePlaces(p) /\ pstate'[p] = pstate[p]
      BY <2>2, ThreadTypes, OthersUnmoved, SuspendEffect
    <2> QED BY <1>3, <2>3 DEF SamePlaces
  <1> QED BY <1>1, <1>2, <1>3 DEF PastInv, Threads

\* run() queues at time 0, whatever the time, threads that never ran.
LEMMA PastLaunch ==
  ASSUME TypeOK, PastInv, RunLaunch
  PROVE  PastInv'
  <1> DEFINE x == Launch[lpos]
  <1>1. UNCHANGED <<time, pstate>> /\ queue' = IF pstate[x] = "IDLE" THEN Schedule(queue, 0, x) ELSE queue
    BY DEF RunLaunch, Launchable
  <1>2. CASE pstate[x] # "IDLE"
    BY <1>1, <1>2, PastKept
  <1>3. CASE pstate[x] = "IDLE"
    <2>1. x \in Threads /\ x \in Procs
      BY LaunchType DEF RunLaunch, TypeOK, CtlOK, Threads
    <2> HIDE DEF x
    <2>2. Occurs(queue'[0], x)
      BY <1>1, <1>3, <2>1, ThreadTypes, ScheduleOccurs
    <2>3. \A t \in Time : t # 0 => queue'[t] = queue[t]
      BY <1>1, <1>3, ThreadTypes DEF Schedule
    <2> QED BY <1>1, <1>3, <2>1, <2>2, <2>3 DEF PastInv, Threads
  <1> QED BY <1>2, <1>3

\* A time step starts with the earliest event.
LEMMA PastStepBegin ==
  ASSUME TypeOK, NEW t \in Time, PeekTime(t), StepBegin(t)
  PROVE  PastInv'
  <1>1. time' = t /\ \A u \in Time : u < t => queue'[u] = queue[u] /\ queue[u] = <<>>
    BY ThreadTypes DEF StepBegin, PeekTime, Time
  <1> QED BY <1>1 DEF PastInv

\* Every step keeps it, and lets time go back to such a thread only.
LEMMA PastNext ==
  ASSUME TypeOK, PhaseInv, ThreadInv, PastInv, [Next]_vars
  PROVE  /\ PastInv'
         /\ time' >= time \/ \E i \in DOMAIN queue[0] : pstate[queue[0][i]] = "IDLE"
  <1>1. time \in Nat
    BY DEF TypeOK, KernelOK
  <1>2. CASE RunNext \/ CallRunStep
    <2>1. PICK t \in Time : PeekTime(t) /\ StepBegin(t)
      <3>1. \A t \in 0 .. maxTime : t \in Time
        BY DesignAssumption DEF TypeOK, CtlOK, Time, Horizon
      <3>2. \A t \in 0 .. MaxRun : t \in Time
        BY DesignAssumption DEF Time, Horizon
      <3> QED BY <1>2, <3>1, <3>2 DEF RunNext, CallRunStep
    <2>2. time' = t /\ queue[t] # <<>> /\ t \in Nat
      BY <2>1 DEF StepBegin, PeekTime, Time
    <2>3. t < time => \E i \in DOMAIN queue[0] : pstate[queue[0][i]] = "IDLE"
      BY <2>2 DEF PastInv, Occurs
    <2> QED BY <1>1, <2>1, <2>2, <2>3, PastStepBegin
  <1>3. ASSUME NEW x \in Procs, Execute(x)
        PROVE  PastInv' /\ time' = time
    BY <1>3, PastExecute DEF Execute
  <1>4. CASE RunLaunch
    BY <1>1, <1>4, PastLaunch DEF RunLaunch
  <1>5. CASE WakeOne
    <2>1. PICK i \in DOMAIN waiting : queue' = Schedule(queue, time, waiting[i].proc)
      BY <1>5 DEF WakeOne
    <2>2. waiting[i].proc \in Procs
      <3>1. PICK W : W = [proc : Procs, on : [Sigs -> Edge]]
        OBVIOUS
      <3>2. waiting \in Seq(W)
        BY <3>1, ThreadTypes
      <3>3. waiting[i] \in W
        BY <3>2, LenProperties, ElementOfSeq
      <3> QED BY <3>1, <3>3
    <2>3. time \in Time /\ time >= time
      BY <1>1, DesignAssumption DEF TypeOK, KernelOK, Time, Horizon
    <2> QED BY <1>5, <2>1, <2>2, <2>3, PastKept DEF WakeOne
  <1>6. CASE CallSchedule
    <2>1. PICK x \in Toggles, t \in time .. MaxRun : queue' = Schedule(queue, t, x)
      BY <1>6 DEF CallSchedule
    <2>2. t \in Time /\ t >= time /\ x \in Procs
      BY <1>1, DesignAssumption DEF Time, Horizon, Procs
    <2> QED BY <1>1, <1>6, <2>1, <2>2, PastKept DEF CallSchedule
  <1>7. CASE StepEnd
    <2>1. UNCHANGED <<time, pstate>> /\ queue' = IF finish THEN [t \in Time |-> <<>>] ELSE queue
      BY <1>7 DEF StepEnd, QueueAfterStep
    <2>2. CASE finish
      BY <1>1, <2>1, <2>2 DEF PastInv
    <2>3. CASE ~finish
      BY <1>1, <2>1, <2>3, PastKept
    <2> QED BY <2>2, <2>3
  <1>8. CASE UNCHANGED <<time, pstate, queue>>
    BY <1>1, <1>8, PastKept
  <1>9. \/ RunNext \/ CallRunStep \/ (\E x \in Procs : Execute(x)) \/ RunLaunch \/ WakeOne \/ CallSchedule
        \/ StepEnd \/ UNCHANGED <<time, pstate, queue>>
    <2>1. CASE CAEval \/ CAPassEnd \/ RegionEnd \/ Resettle \/ DeltaBegin \/ ApplyNba \/ NbaDone \/ DeltaLimitError
      BY <2>1 DEF CAEval, CAPassEnd, RegionEnd, Resettle, DeltaBegin, ApplyNba, NbaDone, DeltaLimitError, kernel
    <2>2. CASE \/ Collect \/ DeltaDone \/ WakeDone \/ CallbackQuiet \/ CallbackDrive \/ ExternalDrives
               \/ ExternalCollect \/ BootDrives \/ FullCA \/ BootCombos
      BY <2>2 DEF Collect, DeltaDone, WakeDone, CallbackQuiet, CallbackDrive, ExternalDrives,
                  ExternalCollect, BootDrives, FullCA, BootCombos, kernel
    <2>3. CASE \/ BootReaders \/ RunReturn \/ SettleBoot \/ SettleDrives \/ SettleCollect
               \/ CallDrive \/ CallRun \/ CallSettle
      BY <2>3 DEF BootReaders, RunReturn, SettleBoot, SettleDrives, SettleCollect, CallDrive, CallRun,
                  CallSettle, kernel
    <2>4. CASE UNCHANGED vars
      BY <2>4 DEF vars, kernel
    <2> QED BY <2>1, <2>2, <2>3, <2>4 DEF Next, Kernel, Testbench, Done
  <1> QED BY <1>1, <1>2, <1>3, <1>4, <1>5, <1>6, <1>7, <1>8, <1>9

\* Time never goes back, but for a thread that run() launches at time 0 after
\* run_step() calls that did not.
THEOREM TimeForwardHolds == Spec => TimeForward
  <1>1. Init => TypeOK /\ PhaseInv /\ ThreadInv /\ PastInv
    BY ThreadsInit DEF Init, PastInv
  <1>2. TypeOK /\ PhaseInv /\ ThreadInv /\ PastInv /\ [Next]_vars
          => (TypeOK /\ PhaseInv /\ ThreadInv /\ PastInv)'
    BY TypeNext, PhaseNext, ThreadsNext, PastNext
  <1>3. TypeOK /\ PhaseInv /\ ThreadInv /\ PastInv /\ [Next]_vars
          => [time' >= time \/ \E i \in DOMAIN queue[0] : pstate[queue[0][i]] = "IDLE"]_vars
    BY PastNext
  <1> QED BY <1>1, <1>2, <1>3, PTL DEF Spec, TimeForward

----------------------------------------------------------------------------
(* No activation of a combinational block is missed.                       *)

\* The signals p may write.
Outs(p) == {x \in Sigs : \E c \in Pc : \E s \in [Sigs -> Val] : Exec(p, c, s).wr[x] # NoVal}

\* What the rules say of a combinational block p.
Lawful(p) ==
    /\ p \in Combos /\ p \notin Seqs \cup Toggles
    /\ Outs(p) \cap (Sens[p] \cup Inputs \cup Wires) = {}
    /\ \A q \in Procs : q # p => Outs(p) \cap Outs(q) = {}
    /\ \A q \in Procs, c \in Pc : \A s \in [Sigs -> Val] :
          \A k \in 1 .. Len(Exec(q, c, s).nba) : Exec(q, c, s).nba[k][1] \notin Outs(p)
    /\ \A q1, q2 \in Combos \cup Seqs : Outs(q1) \cap Outs(q2) \cap Sens[p] # {} => q1 = q2
    /\ \A s, u \in [Sigs -> Val] :
          (\A x \in Sens[p] : s[x] = u[x]) => Exec(p, 0, s).wr = Exec(p, 0, u).wr
    /\ \A s \in [Sigs -> Val] : Exec(p, 0, s).stop \in {"end", "finish"}

\* So of all of them.
Rules == \A p \in PureCombos : Lawful(p)

\* A block is a process, reads signals, and its code starts at 0.
LEMMA PureTypes ==
  /\ 0 \in Pc /\ 0 # Dead
  /\ \A p \in PureCombos : p \in StartCombos /\ p \in Combos /\ p \in Procs /\ Sens[p] \subseteq Sigs
                           /\ SelfSens[p] = {}
  /\ \A p : Outs(p) \subseteq Sigs
  /\ Combos \cup Seqs \subseteq Procs
  /\ NoVal \notin Val
  <1>1. 0 \in Pc /\ 0 # Dead
    BY DesignAssumption DEF Pc, Dead
  <1>2. \A p \in PureCombos : p \in StartCombos /\ p \in Combos /\ p \in Procs /\ Sens[p] \subseteq Sigs
                              /\ SelfSens[p] = {}
    BY DesignAssumption DEF PureCombos, Procs
  <1> QED BY <1>1, <1>2 DEF Outs, Procs, Val, NoVal

\* The rules of the language make every pure block lawful.
LEMMA RulesHold ==
  ASSUME NEW out, CombRules(out)
  PROVE  Rules
  <1> SUFFICES ASSUME NEW p \in PureCombos PROVE Lawful(p)
    BY DEF Rules
  <1>0. p \in Combos /\ p \in Procs /\ Combos \cup Seqs \subseteq Procs /\ 0 \in Pc /\ Sens[p] \subseteq Sigs
    BY PureTypes
  <1>1. /\ p \notin Seqs \cup Toggles
        /\ out[p] \cap (Sens[p] \cup Inputs) = {}
        /\ \A q \in Procs \ {p} : out[p] \cap out[q] = {}
        /\ \A q1, q2 \in Combos \cup Seqs : out[q1] \cap out[q2] \cap Sens[p] # {} => q1 = q2
    BY DEF CombRules
  <1>2. \A q \in Procs : Outs(q) \subseteq out[q]
    <2> SUFFICES ASSUME NEW q \in Procs, NEW x \in Outs(q) PROVE x \in out[q]
      OBVIOUS
    <2>1. PICK c \in Pc, s \in [Sigs -> Val] : x \in Sigs /\ Exec(q, c, s).wr[x] # NoVal
      BY DEF Outs
    <2>2. Written(Exec(q, c, s)) \subseteq out[q]
      BY DEF CombRules
    <2> QED BY <2>1, <2>2 DEF Written
  <1>3. Outs(p) \cap Wires = {}
    BY <1>0, DriverAssumption DEF Outs
  <1>4. \A q \in Procs, c \in Pc : \A s \in [Sigs -> Val] :
           \A k \in 1 .. Len(Exec(q, c, s).nba) : Exec(q, c, s).nba[k][1] \notin out[p]
    BY DEF CombRules
  <1>5. ASSUME NEW s \in [Sigs -> Val], NEW u \in [Sigs -> Val], \A x \in Sens[p] : s[x] = u[x]
        PROVE  Exec(p, 0, s).wr = Exec(p, 0, u).wr
    <2> DEFINE known(v) == [x \in Sigs |-> IF x \in Sens[p] THEN v[x] ELSE 0]
    <2>1. known(s) = known(u)
      BY <1>5
    <2>2. \A v \in [Sigs -> Val] : Exec(p, 0, v).wr = Exec(p, 0, known(v)).wr
      BY DEF CombRules
    <2> HIDE DEF known
    <2> QED BY <2>1, <2>2
  <1>6. \A s \in [Sigs -> Val] : Exec(p, 0, s).stop \in {"end", "finish"}
    BY DEF CombRules
  <1>7. Outs(p) \cap (Sens[p] \cup Inputs \cup Wires) = {}
    BY <1>0, <1>1, <1>2, <1>3
  <1>8. \A q \in Procs : q # p => Outs(p) \cap Outs(q) = {}
    BY <1>0, <1>1, <1>2
  <1>9. \A q1, q2 \in Combos \cup Seqs : Outs(q1) \cap Outs(q2) \cap Sens[p] # {} => q1 = q2
    BY <1>0, <1>1, <1>2
  <1>10. \A q \in Procs, c \in Pc : \A s \in [Sigs -> Val] :
            \A k \in 1 .. Len(Exec(q, c, s).nba) : Exec(q, c, s).nba[k][1] \notin Outs(p)
    BY <1>0, <1>2, <1>4
  <1> QED BY <1>0, <1>1, <1>5, <1>6, <1>7, <1>8, <1>9, <1>10 DEF Lawful

\* Whether a block is fresh depends on what it reads and what it writes.
LEMMA FreshAgree ==
  ASSUME NEW p \in PureCombos, Lawful(p), NEW s \in [Sigs -> Val], NEW u \in [Sigs -> Val],
         \A x \in Sens[p] : s[x] = u[x], \A x \in Outs(p) : s[x] = u[x], Fresh(p, s)
  PROVE  Fresh(p, u)
  <1>1. Exec(p, 0, s).wr = Exec(p, 0, u).wr
    BY DEF Lawful
  <1>2. \A x \in Written(Exec(p, 0, s)) : Exec(p, 0, s).wr[x] = s[x] /\ x \in Outs(p)
    BY PureTypes DEF Fresh, Written, Outs
  <1>3. Written(Exec(p, 0, u)) = Written(Exec(p, 0, s))
    BY <1>1 DEF Written
  <1> QED BY <1>1, <1>2, <1>3 DEF Fresh

\* An activation writes outputs of its process only, by NBAs too.
LEMMA ActivationWrites ==
  ASSUME TypeOK, NEW q \in Procs
  PROVE  /\ Written(Activation(q)) \subseteq Outs(q)
         /\ \A p \in PureCombos : Lawful(p) =>
               \A k \in 1 .. Len(Activation(q).nba) : Activation(q).nba[k][1] \notin Outs(p)
  <1>1. CASE pcs[q] = Dead
    <2>1. Activation(q).nba = <<>> /\ \A x \in Sigs : Activation(q).wr[x] = NoVal
      BY <1>1 DEF Activation, Exhausted
    <2>2. Len(<<>>) = 0 /\ 1 .. 0 = {}
      BY EmptySeq
    <2> QED BY <2>1, <2>2 DEF Written
  <1>2. CASE pcs[q] # Dead
    <2>1. pcs[q] \in Pc /\ sigs \in [Sigs -> Val] /\ Activation(q) = Exec(q, pcs[q], sigs)
      BY <1>2 DEF TypeOK, KernelOK, Activation
    <2> QED BY <2>1 DEF Written, Outs, Lawful
  <1> QED BY <1>1, <1>2

\* A block that has run is fresh.
LEMMA RunMakesFresh ==
  ASSUME TypeOK, NEW p \in PureCombos, Lawful(p), pcs[p] = 0, Execute(p), TypeOK'
  PROVE  Fresh(p, sigs')
  <1> DEFINE r == Exec(p, 0, sigs)
  <1>1. Activation(p) = r /\ Written(r) \subseteq Outs(p) /\ p \in Procs
    BY PureTypes, ActivationWrites DEF Activation
  <1>2. sigs' = [s \in Sigs |-> IF s \in Written(r) THEN r.wr[s] ELSE sigs[s]]
    BY <1>1 DEF Execute
  <1>3. \A x \in Sens[p] : sigs'[x] = sigs[x]
    BY <1>1, <1>2, PureTypes DEF Lawful
  <1>4. Exec(p, 0, sigs').wr = r.wr
    BY <1>3 DEF Lawful, TypeOK, KernelOK
  <1>5. Written(Exec(p, 0, sigs')) = Written(r) /\ \A x \in Written(r) : x \in Sigs
    BY <1>4 DEF Written
  <1> QED BY <1>2, <1>4, <1>5 DEF Fresh

\* The processes of P are never queued and never wait: only a detection runs
\* them.
Away(P) ==
    \A p \in P : /\ ~InQueue(queue, p) /\ ~Occurs(Waiters(waiting), p) /\ ~Occurs(batch, p)
                 /\ pcs[p] = 0

\* The code of a block that neither delays nor waits.
Stays(p) ==
    /\ p \in Procs /\ p \notin Coroutines \cup Toggles
    /\ \A s \in [Sigs -> Val] : Exec(p, 0, s).stop \in {"end", "finish"}

\* When it runs it ends, and goes nowhere.
LEMMA EndsInPlace ==
  ASSUME TypeOK, NEW P, Away(P), NEW p \in P, Stays(p), Execute(p)
  PROVE  /\ batch = <<>> /\ p \in woken
         /\ queue' = queue /\ waiting' = waiting /\ pcs'[p] = 0
  <1>1. pcs[p] = 0 /\ p \in Procs /\ p \notin Coroutines /\ ~Occurs(batch, p)
    BY DEF Away, Stays
  <1>2. batch = <<>> /\ p \in woken
    <2>1. batch # <<>> => Occurs(batch, Head(batch))
      BY ThreadTypes, TailOccurs
    <2> QED BY <1>1, <2>1 DEF Execute, NextProc
  <1>3. Activation(p).stop \in {"end", "finish"}
    BY <1>1, PureTypes DEF Activation, Stays, TypeOK, KernelOK
  <1>4. Suspend(p, Activation(p)) /\ pcs \in [Procs -> Pc \cup {Dead}]
    BY DEF Execute, TypeOK, KernelOK
  <1>5. queue' = queue /\ waiting' = waiting /\ pcs'[p] = 0
    BY <1>1, <1>3, <1>4 DEF Suspend
  <1> QED BY <1>2, <1>5

\* Another process that runs does not move it.
LEMMA AwayExecute ==
  ASSUME TypeOK, NEW P, Away(P), \A p \in P : Stays(p), NEW x \in Procs, Execute(x)
  PROVE  Away(P)'
  <1> SUFFICES ASSUME NEW p \in P
               PROVE  /\ ~InQueue(queue', p) /\ ~Occurs(Waiters(waiting'), p) /\ ~Occurs(batch', p)
                      /\ pcs'[p] = 0
    BY DEF Away
  <1>1. /\ ~InQueue(queue, p) /\ ~Occurs(Waiters(waiting), p) /\ ~Occurs(batch, p) /\ pcs[p] = 0
    BY DEF Away
  <1>2. CASE p = x
    <2>1. batch = <<>> /\ queue' = queue /\ waiting' = waiting /\ pcs'[p] = 0
      BY <1>2, EndsInPlace
    <2> QED BY <1>1, <2>1 DEF Execute
  <1>3. CASE p # x
    <2>1. SamePlaces(p)
      BY <1>3, OthersUnmoved
    <2>2. pcs'[p] = pcs[p]
      BY <1>3 DEF Execute, Suspend, TypeOK, KernelOK, Stays
    <2> QED BY <1>1, <2>1, <2>2 DEF SamePlaces
  <1> QED BY <1>2, <1>3

\* The events of a time step are other processes.
LEMMA AwayStepBegin ==
  ASSUME TypeOK, NEW P, Away(P), NEW t \in Time, StepBegin(t)
  PROVE  Away(P)'
  <1>1. batch' = queue[t] /\ UNCHANGED <<waiting, pcs>> /\ queue' = [queue EXCEPT ![t] = <<>>]
    BY DEF StepBegin, StartRegion
  <1>2. queue'[t] = <<>> /\ \A u \in Time : u # t => queue'[u] = queue[u]
    BY <1>1, ThreadTypes
  <1>3. ASSUME NEW p, ~InQueue(queue, p)
        PROVE  ~InQueue(queue', p) /\ ~Occurs(batch', p)
    <2>1. ~Occurs(<<>>, p)
      BY DEF Occurs
    <2> QED BY <1>1, <1>2, <1>3, <2>1 DEF InQueue
  <1> QED BY <1>1, <1>3 DEF Away

\* The processes that move are threads, toggles or waiting already.
LEMMA AwayMoves ==
  ASSUME TypeOK, NEW P, Away(P), \A p \in P : Stays(p),
         WakeOne \/ StepEnd \/ RunLaunch \/ CallSchedule
  PROVE  Away(P)'
  <1>1. UNCHANGED <<batch, pcs>>
    BY DEF WakeOne, StepEnd, RunLaunch, CallSchedule, region
  <1> SUFFICES ASSUME NEW p \in P
               PROVE  ~InQueue(queue', p) /\ ~Occurs(Waiters(waiting'), p)
    BY <1>1 DEF Away
  <1>2. ~InQueue(queue, p) /\ ~Occurs(Waiters(waiting), p) /\ p \notin Coroutines \cup Toggles
    BY DEF Away, Stays
  <1>3. ASSUME NEW x \in Procs, NEW t \in Time, queue' = Schedule(queue, t, x), x # p
        PROVE  ~InQueue(queue', p)
    BY <1>2, <1>3, ThreadTypes, ScheduleOccurs
  <1>4. CASE WakeOne
    <2>1. PICK i \in DOMAIN waiting :
             queue' = Schedule(queue, time, waiting[i].proc) /\ waiting' = Removed(waiting, i)
      BY <1>4 DEF WakeOne, Removed
    <2>2. PICK W : W = [proc : Procs, on : [Sigs -> Edge]]
      OBVIOUS
    <2>3. waiting \in Seq(W) /\ i \in 1 .. Len(waiting) /\ time \in Time
      BY <2>2, ThreadTypes, LenProperties, DesignAssumption DEF TypeOK, KernelOK, Time, Horizon
    <2>4. waiting[i] \in W
      BY <2>3, ElementOfSeq
    <2>8. waiting[i].proc \in Procs
      BY <2>2, <2>4
    <2>5. Occurs(Waiters(waiting), waiting[i].proc)
      BY <2>3, RemovedWaits
    <2>6. p # waiting[i].proc
      BY <1>2, <2>5
    <2>7. ~Occurs(Waiters(waiting'), p)
      BY <1>2, <2>1, <2>3, <2>6, RemovedWaits
    <2> QED BY <1>3, <2>1, <2>3, <2>6, <2>7, <2>8
  <1>5. CASE StepEnd
    <2>1. waiting' = waiting /\ (queue' = queue \/ queue' = [t \in Time |-> <<>>])
      BY <1>5 DEF StepEnd, QueueAfterStep
    <2>2. \A t \in Time : ~Occurs([u \in Time |-> <<>>][t], p)
      BY DEF Occurs
    <2> QED BY <1>2, <2>1, <2>2 DEF InQueue
  <1>6. CASE RunLaunch
    <2>1. waiting' = waiting
      BY <1>6 DEF RunLaunch
    <2>2. lpos \in 1 .. Len(Launch) /\ Len(Launch) \in Nat
      BY <1>6, LaunchType DEF RunLaunch, TypeOK, CtlOK
    <2>3. Launch[lpos] \in Elems(Launch) /\ Launch[lpos] \in Procs
      BY <2>2, LaunchType
    <2>4. Launch[lpos] # p
      BY <1>2, <2>3 DEF Coroutines
    <2>5. queue' = queue \/ queue' = Schedule(queue, 0, Launch[lpos])
      BY <1>6 DEF RunLaunch
    <2> QED BY <1>2, <1>3, <2>1, <2>3, <2>4, <2>5, ThreadTypes
  <1>7. CASE CallSchedule
    <2>1. PICK x \in Toggles, t \in time .. MaxRun : queue' = Schedule(queue, t, x)
      BY <1>7 DEF CallSchedule
    <2>2. x \in Procs /\ t \in Time /\ waiting' = waiting
      BY <1>7, DesignAssumption DEF Procs, Time, Horizon, TypeOK, KernelOK, CallSchedule
    <2> QED BY <1>2, <1>3, <2>1, <2>2
  <1> QED BY <1>4, <1>5, <1>6, <1>7

\* No step moves it.
LEMMA AwayNext ==
  ASSUME TypeOK, NEW P, Away(P), \A p \in P : Stays(p), [Next]_vars
  PROVE  Away(P)'
  <1>1. CASE UNCHANGED <<queue, waiting, batch, pcs>>
    BY <1>1 DEF Away
  <1>2. ASSUME NEW w, StartRegion(<<>>, w), UNCHANGED <<queue, waiting, pcs>>
        PROVE  Away(P)'
    <2>1. batch' = <<>> /\ \A p : ~Occurs(<<>>, p)
      BY <1>2 DEF StartRegion, Occurs
    <2> QED BY <1>2, <2>1 DEF Away
  <1>3. CASE RunNext \/ CallRunStep
    <2>1. PICK t \in Time : StepBegin(t)
      BY <1>3, DesignAssumption DEF RunNext, CallRunStep, Time, Horizon, TypeOK, CtlOK
    <2> QED BY <2>1, AwayStepBegin
  <1>4. CASE Collect \/ ExternalCollect \/ BootCombos \/ BootReaders \/ SettleCollect
    <2>1. UNCHANGED <<queue, waiting, pcs>>
      BY <1>4 DEF Collect, ExternalCollect, BootCombos, BootReaders, SettleCollect, kernel
    <2>2. (\E w : StartRegion(<<>>, w)) \/ UNCHANGED region
      BY <1>4 DEF Collect, ExternalCollect, BootCombos, BootReaders, SettleCollect
    <2> QED BY <1>1, <1>2, <2>1, <2>2 DEF region
  <1>5. CASE \/ CAEval \/ CAPassEnd \/ RegionEnd \/ Resettle \/ DeltaBegin \/ ApplyNba \/ NbaDone
             \/ DeltaLimitError \/ DeltaDone \/ WakeDone \/ CallbackQuiet \/ CallbackDrive
             \/ ExternalDrives \/ BootDrives \/ FullCA \/ RunReturn \/ SettleBoot \/ SettleDrives
             \/ CallDrive \/ CallRun \/ CallSettle \/ UNCHANGED vars
    BY <1>1, <1>5 DEF CAEval, CAPassEnd, RegionEnd, Resettle, DeltaBegin, ApplyNba, NbaDone,
         DeltaLimitError, DeltaDone, WakeDone, CallbackQuiet, CallbackDrive, ExternalDrives, BootDrives,
         FullCA, RunReturn, SettleBoot, SettleDrives, CallDrive, CallRun, CallSettle, vars, kernel, region
  <1> QED BY <1>3, <1>4, <1>5, AwayExecute, AwayMoves DEF Next, Kernel, Testbench, Done

\* No NBA will write what it writes, and no change of its own keeps it asleep.
AloneInv ==
    \A p \in PureCombos : /\ \A k \in 1 .. Len(nba) : nba[k][1] \notin Outs(p)
                          /\ \A e \in own \cup ownNow : e[2] # p

\* What it reads is written once in a region: not again by the blocks to come.
WrittenInv ==
    /\ woken \subseteq Combos \cup Seqs
    /\ batch # <<>> => woken = {}
    /\ phase = "exec" =>
          \A p \in PureCombos : \A x \in Sens[p], q \in woken : orig[x] # NoVal => x \notin Outs(q)

PlaceInv == Away(PureCombos) /\ AloneInv /\ WrittenInv

\* A pure block stays in its place.
LEMMA PureStays == Rules => \A p \in PureCombos : Stays(p)
  BY PureTypes, ProcessAssumption, DesignAssumption DEF Rules, Lawful, Stays, Coroutines

\* Nobody else writes what a pure block writes, and no block twice what it reads.
LEMMA PlaceExecute ==
  ASSUME TypeOK, PlaceInv, Rules, NEW x \in Procs, Execute(x)
  PROVE  AloneInv' /\ WrittenInv'
  <1> DEFINE r == Activation(x)
  <1>1. r \in Outcome /\ Written(r) \subseteq Outs(x)
    BY ActivationType, ActivationWrites
  <1>2. \A p \in PureCombos : Lawful(p) /\ p \in Procs
    BY PureTypes DEF Rules
  <1>3. ASSUME NEW p \in PureCombos
        PROVE  \A k \in 1 .. Len(nba') : nba'[k][1] \notin Outs(p)
    <2>1. nba \in Seq(Sigs \X Val) /\ r.nba \in Seq(Sigs \X Val) /\ nba' = nba \o r.nba
      BY <1>1 DEF TypeOK, KernelOK, Outcome, Execute
    <2>2. /\ Len(nba) \in Nat /\ Len(r.nba) \in Nat
          /\ Len(nba') = Len(nba) + Len(r.nba)
          /\ \A k \in 1 .. Len(nba) + Len(r.nba) :
                nba'[k] = IF k <= Len(nba) THEN nba[k] ELSE r.nba[k - Len(nba)]
      BY <2>1, ConcatProperties, LenProperties
    <2>3. /\ \A k \in 1 .. Len(nba) : nba[k][1] \notin Outs(p)
          /\ \A k \in 1 .. Len(r.nba) : r.nba[k][1] \notin Outs(p)
      BY <1>2, ActivationWrites DEF PlaceInv, AloneInv
    <2> HIDE DEF r
    <2> SUFFICES ASSUME NEW k \in 1 .. Len(nba') PROVE nba'[k][1] \notin Outs(p)
      OBVIOUS
    <2>4. CASE k <= Len(nba)
      <3>1. k \in 1 .. Len(nba) /\ nba'[k] = nba[k]
        BY <2>2, <2>4
      <3> QED BY <2>3, <3>1
    <2>5. CASE ~(k <= Len(nba))
      <3>1. k - Len(nba) \in 1 .. Len(r.nba) /\ nba'[k] = r.nba[k - Len(nba)]
        BY <2>2, <2>5
      <3> QED BY <2>3, <3>1
    <2> QED BY <2>4, <2>5
  <1>4. ASSUME NEW p \in PureCombos, NEW e \in own' \cup ownNow'
        PROVE  e[2] # p
    <2>1. own' = own /\ ownNow' \subseteq ownNow \cup (OwnWrites(x, r) \X {x})
      BY DEF Execute, detect
    <2>2. x = p => OwnWrites(x, r) = {}
      BY PureTypes DEF OwnWrites
    <2> QED BY <2>1, <2>2 DEF PlaceInv, AloneInv
  <1>5. WrittenInv'
    <2>1. /\ phase' = phase /\ phase = "exec" /\ woken' \subseteq woken
          /\ batch = <<>> => batch' = <<>> /\ woken' = woken \ {x} /\ x \in woken
          /\ batch # <<>> => woken' = {}
      BY DEF Execute, ctl, NextProc, PlaceInv, WrittenInv
    <2>2. \A s \in Sigs : orig'[s] # NoVal => orig[s] # NoVal \/ s \in Outs(x)
      BY <1>1 DEF Execute
    <2>3. ASSUME NEW p \in PureCombos, NEW s \in Sens[p], NEW q \in woken', orig'[s] # NoVal,
                 s \in Outs(q)
          PROVE  FALSE
      <3>1. q \in woken /\ x \in woken /\ q # x /\ s \in Sigs
        BY <2>1, <2>3, PureTypes
      <3>2. s \in Outs(x)
        BY <2>1, <2>2, <2>3, <3>1 DEF PlaceInv, WrittenInv
      <3>3. q \in Combos \cup Seqs /\ x \in Combos \cup Seqs
        BY <3>1 DEF PlaceInv, WrittenInv
      <3> QED BY <1>2, <2>3, <3>1, <3>2, <3>3 DEF Lawful
    <2> QED BY <2>1, <2>3 DEF WrittenInv, PlaceInv
  <1> QED BY <1>3, <1>4, <1>5 DEF AloneInv

\* Most steps end no region.
LEMMA PlaceKept ==
  ASSUME PlaceInv, UNCHANGED <<batch, woken, nba>>,
         own' \cup ownNow' \subseteq own \cup ownNow, phase' # "exec"
  PROVE  AloneInv' /\ WrittenInv'
  BY DEF PlaceInv, AloneInv, WrittenInv

\* Nothing has been written in a region of triggered blocks that begins.
LEMMA PlaceRegion ==
  ASSUME PlaceInv, nba' = nba, own' \subseteq own,
         NEW w \in SUBSET (Combos \cup Seqs), StartRegion(<<>>, w)
  PROVE  AloneInv' /\ WrittenInv'
  <1>1. batch' = <<>> /\ woken' = w /\ ownNow' = {} /\ \A x \in Sigs : orig'[x] = NoVal
    BY DEF StartRegion
  <1>2. AloneInv'
    BY <1>1 DEF PlaceInv, AloneInv
  <1>3. WrittenInv'
    BY <1>1, PureTypes DEF WrittenInv
  <1> QED BY <1>2, <1>3

\* A detection finds always blocks.
LEMMA TriggeredBlocks ==
  /\ StartCombos \subseteq Combos \cup Seqs
  /\ \A dirty, others, pv, changed, fired :
        Triggered(dirty, others, pv, changed, fired) \subseteq Combos \cup Seqs
  /\ \A dirty, others : CombosHit(dirty, others) \subseteq Combos
  BY DesignAssumption DEF Triggered, CombosHit, SeqsHit

\* A time step has no triggered blocks yet.
LEMMA PlaceStepBegin ==
  ASSUME PlaceInv, NEW t, StepBegin(t)
  PROVE  AloneInv' /\ WrittenInv'
  <1>1. woken' = {} /\ ownNow' = {} /\ UNCHANGED <<nba, own>>
    BY DEF StepBegin, StartRegion
  <1> QED BY <1>1 DEF PlaceInv, AloneInv, WrittenInv

\* A non-blocking update leaves the queue of updates.
LEMMA PlaceNba ==
  ASSUME TypeOK, PlaceInv, ApplyNba
  PROVE  AloneInv' /\ WrittenInv'
  <1>1. /\ UNCHANGED <<batch, woken, own, ownNow>> /\ phase' = phase
        /\ phase = "nba" /\ nba' = Tail(nba) /\ nba # <<>> /\ nba \in Seq(Sigs \X Val)
    BY DEF ApplyNba, detect, region, ctl, TypeOK, KernelOK
  <1>2. /\ Len(nba) \in Nat \ {0} /\ Len(Tail(nba)) = Len(nba) - 1
        /\ \A k \in 1 .. Len(Tail(nba)) : Tail(nba)[k] = nba[k + 1]
    BY <1>1, HeadTailProperties, EmptySeq
  <1>3. \A k \in 1 .. Len(nba') : k + 1 \in 1 .. Len(nba) /\ nba'[k] = nba[k + 1]
    BY <1>1, <1>2
  <1>4. AloneInv'
    BY <1>1, <1>3 DEF PlaceInv, AloneInv
  <1> QED BY <1>1, <1>4 DEF PlaceInv, WrittenInv

\* Every step keeps the places of the pure blocks.
LEMMA PlaceNext ==
  ASSUME TypeOK, PlaceInv, Rules, [Next]_vars
  PROVE  PlaceInv'
  <1> SUFFICES AloneInv' /\ WrittenInv'
    BY PureStays, AwayNext DEF PlaceInv
  <1>1. CASE \/ CAEval \/ CAPassEnd \/ RegionEnd \/ Resettle \/ DeltaBegin \/ NbaDone
             \/ DeltaLimitError \/ DeltaDone \/ WakeDone \/ CallbackQuiet \/ CallbackDrive
             \/ WakeOne \/ StepEnd \/ RunLaunch \/ CallSchedule
    <2>1. /\ UNCHANGED <<batch, woken, nba>>
          /\ own' \cup ownNow' \subseteq own \cup ownNow
      BY <1>1 DEF CAEval, CAPassEnd, RegionEnd, Resettle, DeltaBegin, NbaDone, DeltaLimitError,
                  DeltaDone, WakeDone, CallbackQuiet, CallbackDrive, WakeOne, StepEnd, RunLaunch,
                  CallSchedule, kernel, region, detect
    <2>2. ca.ret # "exec"
      BY DEF TypeOK, CaOK, Returns
    <2>3. phase' # "exec"
      BY <1>1, <2>2 DEF CAEval, CAPassEnd, RegionEnd, Resettle, DeltaBegin, NbaDone, DeltaLimitError,
                  DeltaDone, WakeDone, CallbackQuiet, CallbackDrive, WakeOne, StepEnd, RunLaunch,
                  CallSchedule, Call, StartCA, ctl
    <2> QED BY <2>1, <2>3, PlaceKept
  <1>2. CASE \/ ExternalDrives \/ BootDrives \/ FullCA \/ RunReturn \/ SettleBoot \/ SettleDrives
             \/ CallDrive \/ CallRun \/ CallSettle
    <2>1. /\ UNCHANGED <<batch, woken, nba, own, ownNow>>
      BY <1>2 DEF ExternalDrives, BootDrives, FullCA, RunReturn, SettleBoot, SettleDrives, CallDrive,
                  CallRun, CallSettle, kernel, region, detect
    <2>2. phase' # "exec"
      BY <1>2 DEF ExternalDrives, BootDrives, FullCA, RunReturn, SettleBoot, SettleDrives, CallDrive,
                  CallRun, CallSettle, StartCA, Call
    <2> QED BY <2>1, <2>2, PlaceKept
  <1>3. ASSUME NEW w, w \subseteq Combos \cup Seqs, UNCHANGED kernel, own' = {} \/ own' = own,
               StartRegion(<<>>, w) \/ (phase' # "exec" /\ UNCHANGED region)
        PROVE  AloneInv' /\ WrittenInv'
    <2>1. nba' = nba /\ own' \subseteq own
      BY <1>3 DEF kernel
    <2>2. CASE StartRegion(<<>>, w)
      BY <1>3, <2>1, <2>2, PlaceRegion
    <2>3. CASE phase' # "exec" /\ UNCHANGED region
      BY <2>1, <2>3, PlaceKept DEF region
    <2> QED BY <1>3, <2>2, <2>3
  <1>4. CASE Collect
    <2>1. PICK w : w = Triggered(act \cup ca.dirty, ca.dirty, prev, edgeChanged, trigSeq)
      OBVIOUS
    <2>2. StartRegion(<<>>, w) \/ (phase' # "exec" /\ UNCHANGED region)
      BY <1>4, <2>1 DEF Collect
    <2>3. UNCHANGED kernel /\ own' = {} /\ w \subseteq Combos \cup Seqs
      BY <1>4, <2>1, TriggeredBlocks DEF Collect, CollectTriggered
    <2> QED BY <1>3, <2>2, <2>3
  <1>5. CASE ExternalCollect
    <2>1. PICK w : w = Triggered(Changed(lastRun), Changed(lastRun), lastRun, {}, {})
      OBVIOUS
    <2>2. StartRegion(<<>>, w) \/ (phase' # "exec" /\ UNCHANGED region)
      BY <1>5, <2>1 DEF ExternalCollect
    <2>3. UNCHANGED kernel /\ (own' = {} \/ own' = own) /\ w \subseteq Combos \cup Seqs
      BY <1>5, <2>1, TriggeredBlocks DEF ExternalCollect, CollectTriggered, detect
    <2> QED BY <1>3, <2>2, <2>3
  <1>6. CASE BootCombos
    <2>1. StartRegion(<<>>, StartCombos) \/ (phase' # "exec" /\ UNCHANGED region)
      BY <1>6 DEF BootCombos
    <2>2. UNCHANGED kernel /\ own' = own /\ StartCombos \subseteq Combos \cup Seqs
      BY <1>6, TriggeredBlocks DEF BootCombos, detect
    <2> QED BY <1>3, <2>1, <2>2
  <1>7. CASE BootReaders
    <2>1. PICK w : w = CombosHit(drv, drv) \ StartCombos
      OBVIOUS
    <2>2. StartRegion(<<>>, w) \/ (phase' # "exec" /\ UNCHANGED region)
      BY <1>7, <2>1 DEF BootReaders
    <2>3. UNCHANGED kernel /\ (own' = {} \/ own' = own) /\ w \subseteq Combos \cup Seqs
      BY <1>7, <2>1, TriggeredBlocks DEF BootReaders, CollectTriggered, detect
    <2> QED BY <1>3, <2>2, <2>3
  <1>8. CASE SettleCollect
    <2>1. PICK w : w = Triggered(ca.dirty, ca.dirty, prev, edgeChanged, trigSeq)
                         \ (IF starting /\ Combos # {} THEN StartCombos ELSE {})
      OBVIOUS
    <2>2. StartRegion(<<>>, w) \/ (phase' # "exec" /\ UNCHANGED region)
      BY <1>8, <2>1 DEF SettleCollect
    <2>3. UNCHANGED kernel /\ own' = {} /\ w \subseteq Combos \cup Seqs
      BY <1>8, <2>1, TriggeredBlocks DEF SettleCollect, CollectTriggered
    <2> QED BY <1>3, <2>2, <2>3
  <1>9. CASE RunNext \/ CallRunStep
    <2>1. PICK t : StepBegin(t)
      BY <1>9 DEF RunNext, CallRunStep
    <2> QED BY <2>1, PlaceStepBegin
  <1>10. CASE UNCHANGED vars
    BY <1>10 DEF vars, kernel, detect, region, ctl, PlaceInv, AloneInv, WrittenInv
  <1> QED
    BY <1>1, <1>2, <1>4, <1>5, <1>6, <1>7, <1>8, <1>9, <1>10, PlaceExecute, PlaceNba
    DEF Next, Kernel, Testbench, Done

\* A run() that takes drives for edges needs the end of a run() to compare
\* with; before the bootstrap no time step is taken.
Full == \A s \in Sigs : lastRun[s] # NoVal
Orderly ==
    phase = "idle" /\ calls' # calls =>
        /\ call' = "run_step" => booted
        /\ call' = "run" /\ booted => pending = {} \/ Full

\* The first settle() is in progress, and its bootstrap.
Starting == call = "settle" /\ starting /\ Combos # {}
Booting ==
    \/ phase \in {"settleboot", "bootcombos", "bootdrives"}
    \/ phase = "ca" /\ ca.ret \in {"settleboot", "bootdrives"}
    \/ phase = "exec" /\ stage = "start"
    \/ Looping /\ stage = "boot"

\* The external drives of a run() are being propagated.
Externally == phase = "extcollect" \/ (phase = "ca" /\ ca.ret = "extcollect")

\* Before the bootstrap no call has ended but drives, and no run() has got
\* further than its start.
FirstInv ==
    ~booted =>
        /\ ~Full
        /\ \/ phase = "idle" /\ call \notin {"settle", "run"}
           \/ /\ call = "run"
              /\ \/ phase \in {"launch", "boot", "fullca", "bootcombos"}
                 \/ phase = "ca" /\ ca.ret \in {"fullca", "bootcombos"}

\* The snapshot of the last run() is whole or there is none.
SnapInv ==
    /\ Full \/ \A s \in Sigs : lastRun[s] = NoVal
    /\ Externally => Full
    /\ Starting /\ phase # "idle" => ~Full

\* A settle() or run() leaves no drive behind.
OwedInv ==
    /\ call \in {"settle", "run"} => ~owed
    /\ call = "run" /\ ~Full /\ (booted \/ phase \notin {"launch", "boot"}) => pending = {}

\* Who is in the bootstrap.
StartInv ==
    /\ call = "settle" /\ Booting => Starting
    /\ Looping /\ stage = "start" => phase = "exec"
    /\ phase \in {"boot", "fullca", "next"} => call = "run"
    /\ phase = "ca" /\ ca.ret \in {"fullca", "bootcombos", "next"} => call = "run"
    /\ phase = "ca" => ca.ret # "stepend" /\ (ca.ret = "fullca" => ~booted)

BootInv == FirstInv /\ SnapInv /\ OwedInv /\ StartInv

\* The snapshot is renewed as the call ends.
LEMMA LastRunMoves ==
  ASSUME [Next]_vars
  PROVE  \/ lastRun' = lastRun
         \/ /\ lastRun' = sigs /\ sigs' = sigs /\ phase' = "idle" /\ booted' = booted
            /\ UNCHANGED <<call, owed, starting, pending>>
            /\ phase \in {"next", "stepend", "delta", "settlecollect"}
  <1>1. CASE RunReturn \/ StepEnd \/ DeltaDone \/ SettleCollect
    BY <1>1 DEF RunReturn, StepEnd, DeltaDone, SettleCollect, kernel, hist
  <1>2. CASE ~(RunReturn \/ StepEnd \/ DeltaDone \/ SettleCollect)
    BY <1>2 DEF Next, Kernel, Testbench, Done, vars, extern, CAEval, CAPassEnd, Execute, RegionEnd,
         Resettle, DeltaBegin, ApplyNba, NbaDone, DeltaLimitError, Collect, WakeOne, WakeDone,
         CallbackQuiet, CallbackDrive, RunLaunch, ExternalDrives, ExternalCollect, BootDrives, FullCA,
         BootCombos, BootReaders, RunNext, StepBegin, SettleBoot, SettleDrives, CallDrive,
         CallSchedule, CallRun, CallRunStep, CallSettle
  <1> QED BY <1>1, <1>2

\* A snapshot of the signals is whole.
LEMMA SnapshotWhole ==
  ASSUME TypeOK, Sigs # {}
  PROVE  /\ lastRun' = sigs => Full'
         /\ lastRun' = lastRun => (Full' <=> Full)
         /\ Full => lastRun \in [Sigs -> Val]
         /\ (\A s \in Sigs : lastRun[s] = NoVal) => ~Full
  BY DEF Full, TypeOK, KernelOK, ExternOK, Snapshot, Val, NoVal

\* The steps of the loops.
LEMMA BootLoop ==
  ASSUME TypeOK, Sigs # {}, CallbackInputs = {}, PhaseInv, CallInv, BootInv,
         \/ CAEval \/ CAPassEnd \/ RegionEnd \/ Resettle
         \/ \E p \in Procs : Execute(p)
         \/ DeltaBegin \/ ApplyNba \/ NbaDone \/ DeltaLimitError \/ Collect
         \/ WakeOne \/ WakeDone \/ CallbackQuiet \/ CallbackDrive
  PROVE  BootInv'
  <1> USE DEF BootInv, FirstInv, SnapInv, OwedInv, StartInv, Starting, Booting, Looping, Externally
  <1>1. CASE CAEval
    <2>1. phase = "ca" /\ UNCHANGED <<phase, call, booted, owed, starting, pending, lastRun, stage>>
          /\ ca'.ret = ca.ret
      BY <1>1 DEF CAEval, ctl, extern, hist
    <2> QED BY <2>1, SnapshotWhole
  <1>2. CASE CAPassEnd
    <2>1. /\ phase = "ca" /\ UNCHANGED <<call, booted, owed, starting, pending, lastRun, stage>>
          /\ \/ phase' = "ca" /\ ca'.ret = ca.ret
             \/ phase' = ca.ret /\ ca' = ca
      BY <1>2 DEF CAPassEnd, CAPass, extern
    <2>2. ca.ret \in Returns \ {"idle"}
      BY <2>1 DEF TypeOK, CaOK, PhaseInv
    <2> QED BY <2>1, <2>2, SnapshotWhole DEF Returns
  <1>3. CASE RegionEnd \/ Resettle \/ DeltaBegin \/ NbaDone \/ DeltaLimitError
    <2>1. UNCHANGED <<call, booted, owed, starting, pending, lastRun, stage>>
      BY <1>3 DEF RegionEnd, Resettle, DeltaBegin, NbaDone, DeltaLimitError, extern, hist
    <2>2. /\ phase \in {"exec", "resettle", "delta", "nba"}
          /\ \/ phase' \in {"nba", "error"} /\ phase = "delta"
             \/ /\ phase' = "ca" /\ ca'.ret \in {"bootdrives", "resettle", "delta", "collect"}
                /\ ca'.ret = "bootdrives" <=> phase = "exec" /\ stage = "start"
      BY <1>3 DEF RegionEnd, Resettle, DeltaBegin, NbaDone, DeltaLimitError, StartCA, CAPass
    <2> QED BY <2>1, <2>2, SnapshotWhole
  <1>4. CASE (\E p \in Procs : Execute(p)) \/ ApplyNba \/ WakeOne
    <2>1. phase \in {"exec", "nba", "wake"}
          /\ UNCHANGED <<phase, call, booted, owed, starting, pending, lastRun, stage>>
      BY <1>4 DEF Execute, ApplyNba, WakeOne, ctl, extern, hist
    <2> QED BY <2>1, SnapshotWhole
  <1>5. CASE Collect
    <2>1. phase = "collect" /\ phase' \in {"exec", "delta"}
          /\ UNCHANGED <<call, booted, owed, starting, pending, lastRun, stage>>
      BY <1>5 DEF Collect, StartRegion, extern, hist
    <2> QED BY <2>1, SnapshotWhole
  <1>6. CASE WakeDone \/ CallbackQuiet
    <2>1. UNCHANGED <<call, booted, owed, starting, pending, lastRun, stage>>
      BY <1>6 DEF WakeDone, CallbackQuiet, extern, hist
    <2>2. phase = "wake" /\ stage # "step" => call = "run"
      BY DEF CallInv
    <2>3. \/ phase = "wake" /\ phase' = "callback"
          \/ phase = "wake" /\ phase' = "boot" /\ call = "run"
          \/ phase = "callback" /\ phase' = "stepend"
      BY <1>6, <2>2 DEF WakeDone, CallbackQuiet
    <2> QED BY <2>1, <2>3, SnapshotWhole
  <1>7. CASE CallbackDrive
    BY <1>7 DEF CallbackDrive
  <1> QED BY <1>1, <1>2, <1>3, <1>4, <1>5, <1>6, <1>7

\* The ends of the loops.
LEMMA BootEnds ==
  ASSUME TypeOK, Sigs # {}, PhaseInv, CallInv, BootInv,
         DeltaDone \/ StepEnd \/ RunReturn \/ SettleCollect
  PROVE  BootInv'
  <1> USE DEF BootInv, FirstInv, SnapInv, OwedInv, StartInv, Starting, Booting, Looping, Externally
  <1>1. UNCHANGED <<call, booted, owed, starting, pending>>
    BY DEF DeltaDone, StepEnd, RunReturn, SettleCollect, hist
  <1>2. CASE DeltaDone
    <2>1. /\ phase = "delta" /\ stage' = stage
          /\ \/ phase' = "wake" /\ lastRun' = lastRun /\ stage \in {"step", "ext"}
             \/ phase' = "next" /\ lastRun' = lastRun /\ call = "run" /\ stage = "boot"
             \/ phase' = "settle" /\ lastRun' = lastRun /\ call = "settle" /\ stage = "boot"
             \/ phase' = "idle" /\ lastRun' = sigs
      BY <1>2 DEF DeltaDone
    <2> QED BY <1>1, <2>1, SnapshotWhole
  <1>3. CASE StepEnd
    <2>1. /\ phase = "stepend" /\ stage' = stage
          /\ \/ phase' = "next" /\ lastRun' = lastRun /\ call = "run"
             \/ phase' = "idle" /\ lastRun' = sigs
      BY <1>3 DEF StepEnd
    <2> QED BY <1>1, <2>1, SnapshotWhole
  <1>4. CASE RunReturn
    <2>1. phase = "next" /\ stage' = stage /\ phase' = "idle" /\ lastRun' = sigs
      BY <1>4 DEF RunReturn
    <2> QED BY <1>1, <2>1, SnapshotWhole
  <1>5. CASE SettleCollect
    <2>1. /\ phase = "settlecollect" /\ stage' = "settle"
          /\ \/ phase' = "exec" /\ lastRun' = lastRun
             \/ phase' = "idle" /\ lastRun' = sigs
      BY <1>5 DEF SettleCollect, StartRegion
    <2> QED BY <1>1, <2>1, SnapshotWhole
  <1> QED BY <1>2, <1>3, <1>4, <1>5

\* The steps of run() outside its loops.
LEMMA BootRun ==
  ASSUME TypeOK, Sigs # {}, PhaseInv, CallInv, BootInv,
         \/ RunLaunch \/ ExternalDrives \/ ExternalCollect \/ BootDrives \/ FullCA \/ BootCombos
         \/ BootReaders \/ RunNext
  PROVE  BootInv'
  <1> USE DEF BootInv, FirstInv, SnapInv, OwedInv, StartInv, Starting, Booting, Looping, Externally
  <1>1. UNCHANGED <<call, owed, starting, lastRun>>
    BY DEF RunLaunch, ExternalDrives, ExternalCollect, BootDrives, FullCA, BootCombos, BootReaders,
           RunNext, StepBegin, hist, extern
  <1>2. CASE RunLaunch
    <2>1. phase = "launch" /\ UNCHANGED <<phase, booted, pending, stage>>
      BY <1>2 DEF RunLaunch, extern
    <2> QED BY <1>1, <2>1, SnapshotWhole
  <1>3. CASE ExternalDrives
    <2>1. /\ phase = "launch" /\ UNCHANGED <<booted, pending, stage>>
          /\ \/ phase' = "boot"
             \/ phase' = "ca" /\ ca'.ret = "extcollect" /\ Changed(lastRun) # {}
      BY <1>3 DEF ExternalDrives, extern, StartCA, CAPass
    <2>2. Changed(lastRun) # {} => Full
      BY DEF Changed
    <2>3. call = "run"
      BY <2>1 DEF PhaseInv
    <2> QED BY <1>1, <2>1, <2>2, <2>3, SnapshotWhole
  <1>4. CASE ExternalCollect
    <2>1. /\ phase = "extcollect" /\ UNCHANGED <<booted, pending>>
          /\ \/ phase' = "boot" /\ stage' = stage
             \/ phase' \in {"exec", "wake"} /\ stage' = "ext"
      BY <1>4 DEF ExternalCollect, extern, StartRegion
    <2>2. call = "run"
      BY <2>1 DEF CallInv
    <2> QED BY <1>1, <2>1, <2>2, SnapshotWhole
  <1>5. CASE BootDrives
    <2>1. /\ phase = "boot" /\ UNCHANGED <<booted, stage>>
          /\ pending' = IF booted THEN pending ELSE {}
          /\ \/ phase' = "fullca"
             \/ phase' = "ca" /\ ca'.ret = "fullca" /\ ~booted
      BY <1>5 DEF BootDrives, StartCA, CAPass
    <2> QED BY <1>1, <2>1, SnapshotWhole
  <1>6. CASE FullCA
    <2>1. /\ phase = "fullca" /\ UNCHANGED <<booted, stage, pending>>
          /\ phase' = "ca" /\ ca'.ret = IF booted THEN "next" ELSE "bootcombos"
      BY <1>6 DEF FullCA, StartCA, CAPass, extern
    <2> QED BY <1>1, <2>1, SnapshotWhole
  <1>7. CASE BootCombos
    <2>1. /\ phase = "bootcombos" /\ booted' = TRUE /\ stage' = "start" /\ pending' = pending
          /\ phase' \in {"exec", "bootdrives"}
      BY <1>7 DEF BootCombos, StartRegion
    <2> QED BY <1>1, <2>1, SnapshotWhole
  <1>8. CASE BootReaders
    <2>1. /\ phase = "bootdrives" /\ stage' = "boot" /\ UNCHANGED <<booted, pending>>
          /\ phase' \in {"exec", "delta"}
      BY <1>8 DEF BootReaders, StartRegion, extern
    <2> QED BY <1>1, <2>1, SnapshotWhole
  <1>9. CASE RunNext
    <2>1. phase = "next" /\ phase' = "exec" /\ stage' = "step" /\ UNCHANGED <<booted, pending>>
      BY <1>9 DEF RunNext, StepBegin, StartRegion, extern
    <2> QED BY <1>1, <2>1, SnapshotWhole
  <1> QED BY <1>2, <1>3, <1>4, <1>5, <1>6, <1>7, <1>8, <1>9

\* The start of settle(), and the calls.
LEMMA BootCalls ==
  ASSUME TypeOK, Sigs # {}, PhaseInv, CallInv, BootInv, Orderly,
         SettleBoot \/ SettleDrives \/ Testbench \/ UNCHANGED vars
  PROVE  BootInv'
  <1> USE DEF BootInv, FirstInv, SnapInv, OwedInv, StartInv, Starting, Booting, Looping, Externally
  <1>1. lastRun' = lastRun
    BY DEF SettleBoot, SettleDrives, Testbench, CallDrive, CallSchedule, CallRun, CallRunStep, StepBegin,
           CallSettle, vars, extern
  <1>2. CASE SettleBoot \/ SettleDrives
    <2>1. /\ UNCHANGED <<call, owed, starting, booted, stage>>
          /\ \/ phase = "settleboot" /\ phase' = "bootcombos" /\ pending' = pending
             \/ phase = "settle" /\ phase' = "idle"
             \/ phase = "settle" /\ phase' = "ca" /\ ca'.ret = "settlecollect"
      BY <1>2 DEF SettleBoot, SettleDrives, StartCA, CAPass, hist, extern
    <2>2. call = "settle" /\ (phase = "settle" => booted)
      BY <2>1 DEF PhaseInv, Settling
    <2> QED BY <1>1, <2>1, <2>2, SnapshotWhole
  <1>3. CASE CallDrive \/ CallSchedule
    <2>1. phase = "idle" /\ phase' = "idle" /\ call' \in {"drive", "schedule"} /\ booted' = booted
      BY <1>3 DEF CallDrive, CallSchedule, Call, extern
    <2> QED BY <1>1, <2>1, SnapshotWhole
  <1>4. CASE CallRun
    <2>1. /\ phase = "idle" /\ phase' = "launch" /\ call' = "run" /\ owed' = FALSE
          /\ UNCHANGED <<booted, pending, stage>> /\ calls' # calls
      BY <1>4 DEF CallRun, Call, extern, TypeOK
    <2> QED BY <1>1, <2>1, SnapshotWhole DEF Orderly
  <1>5. CASE CallRunStep
    <2>1. /\ phase = "idle" /\ phase' = "exec" /\ stage' = "step" /\ call' = "run_step"
          /\ UNCHANGED <<booted, pending>> /\ calls' # calls
      BY <1>5 DEF CallRunStep, Call, StepBegin, StartRegion, extern, TypeOK
    <2> QED BY <1>1, <2>1, SnapshotWhole DEF Orderly
  <1>6. CASE CallSettle
    <2>1. /\ phase = "idle" /\ call' = "settle" /\ owed' = FALSE /\ booted' = TRUE
          /\ starting' = ~booted /\ stage' = stage /\ pending' = pending
          /\ \/ phase' = "settle"
             \/ phase' = "settleboot" /\ ~booted /\ Combos # {}
             \/ phase' = "ca" /\ ca'.ret = "settleboot" /\ ~booted /\ Combos # {}
      BY <1>6 DEF CallSettle, Call, StartCA, CAPass
    <2> QED BY <1>1, <2>1, SnapshotWhole
  <1>7. CASE UNCHANGED vars
    <2>1. /\ UNCHANGED <<phase, call, starting, owed, stage, booted, pending, lastRun, ca>>
      BY <1>7 DEF vars, ctl, hist, extern
    <2> QED BY <2>1, SnapshotWhole
  <1> QED BY <1>2, <1>3, <1>4, <1>5, <1>6, <1>7 DEF Testbench

\* In every call.
LEMMA BootNext ==
  ASSUME TypeOK, Sigs # {}, CallbackInputs = {}, PhaseInv, CallInv, BootInv, Orderly, [Next]_vars
  PROVE  BootInv'
  BY BootLoop, BootEnds, BootRun, BootCalls DEF Next, Kernel, Done

\* What can happen when no loop is running.
LEMMA FromPhase ==
  ASSUME [Next]_vars
  PROVE  /\ phase = "idle" => Testbench \/ UNCHANGED vars
         /\ phase = "launch" => RunLaunch \/ ExternalDrives \/ UNCHANGED vars
         /\ phase = "boot" => BootDrives \/ UNCHANGED vars
         /\ phase = "settle" => SettleDrives \/ UNCHANGED vars
  <1>1. \/ phase \notin {"idle", "launch", "boot", "settle"} \/ Testbench \/ UNCHANGED vars
        \/ RunLaunch \/ ExternalDrives \/ BootDrives \/ SettleDrives
    BY DEF Next, Kernel, Done, CAEval, CAPassEnd, Execute, RegionEnd, Resettle, DeltaBegin, ApplyNba,
           NbaDone, DeltaLimitError, Collect, DeltaDone, WakeOne, WakeDone, CallbackQuiet,
           CallbackDrive, StepEnd, ExternalCollect, FullCA, BootCombos, BootReaders, RunNext,
           RunReturn, SettleBoot, SettleCollect
  <1>2. Testbench => phase = "idle"
    BY DEF Testbench, CallDrive, CallSchedule, CallRun, CallRunStep, CallSettle, Call
  <1>3. RunLaunch \/ ExternalDrives => phase = "launch"
    BY DEF RunLaunch, ExternalDrives
  <1>4. (BootDrives => phase = "boot") /\ (SettleDrives => phase = "settle")
    BY DEF BootDrives, SettleDrives
  <1> QED BY <1>1, <1>2, <1>3, <1>4

\* Drives are waiting to be consumed; otherwise no assign is forgotten at all.
Waiting ==
    \/ phase = "idle" /\ owed
    \/ phase = "launch" \/ (phase = "boot" /\ ~booted)
    \/ phase = "settle" /\ ~Starting
FollowInv == ~Waiting => AllBut({})

\* No call is in progress, or it has not looked at the drives yet.
AtRest == phase \in {"idle", "launch"} \/ (phase = "settle" /\ ~Starting)
External == Externally \/ (phase = "launch" /\ Full)

\* The snapshot of the last run() is a settled state.
Settled(s) ==
    /\ \A i \in 1 .. NCA : s[CALhs[i]] = Rhs(i, s)
    /\ \A p \in PureCombos : Fresh(p, s) /\ \A x \in Outs(p) : s[x] = sigs[x]

\* Only drives have come since.
Driven == \A x \in Sigs : lastRun[x] # sigs[x] => x \in pending \cap Inputs

\* So it is, while the drives have not been looked at.
LastInv ==
    ~caOverflow /\ Full /\ (AtRest \/ External) =>
        /\ Settled(lastRun)
        /\ AtRest => Driven
        /\ phase = "idle" /\ ~owed => \A x \in Sigs : lastRun[x] = sigs[x]

\* The signals differ from the snapshot where an assign has to be evaluated.
LEMMA DrivesFollowed ==
  ASSUME TypeOK, Sigs # {}, LastInv, phase = "launch", Full, ~caOverflow, NEW i \in 1 .. NCA,
         CAReads[i] \cap Changed(lastRun) = {}
  PROVE  CAConsistent(i)
  <1>1. lastRun \in [Sigs -> Val] /\ sigs \in [Sigs -> Val] /\ CALhs[i] \in Sigs /\ CALhs[i] \in Wires
    BY SnapshotWhole, DesignAssumption DEF TypeOK, KernelOK, Wires
  <1>2. Settled(lastRun) /\ Driven
    BY DEF LastInv, AtRest
  <1>3. \A x \in CAReads[i] : lastRun[x] = sigs[x]
    <2>1. \A x \in CAReads[i] : x \in Sigs /\ x \notin Changed(lastRun)
      BY DesignAssumption
    <2> QED BY <2>1 DEF Changed, Full
  <1>4. Rhs(i, lastRun) = Rhs(i, sigs)
    BY <1>1, <1>3, RhsAgree
  <1>5. lastRun[CALhs[i]] = sigs[CALhs[i]]
    BY <1>1, <1>2, DriverAssumption DEF Driven
  <1> QED BY <1>2, <1>4, <1>5 DEF CAConsistent, Settled

\* A run() takes the drives over with nothing forgotten.
LEMMA FollowExternal ==
  ASSUME TypeOK, Sigs # {}, BootInv, PhaseInv, LastInv, ExternalDrives, ~Waiting', pending' # {}
  PROVE  AllBut({})'
  <1>1. /\ phase = "launch" /\ call = "run"
        /\ UNCHANGED <<sigs, caOverflow, pending, booted, call, starting, owed, lastRun>>
        /\ \/ Changed(lastRun) = {} /\ phase' = "boot"
           \/ StartCA(Changed(lastRun), FALSE, "extcollect")
    BY DEF ExternalDrives, kernel, hist, extern, PhaseInv
  <1>2. Changed(lastRun) # {} => Full
    BY DEF Changed, BootInv, SnapInv
  <1>3. Full
    <2>1. CASE phase' = "boot"
      <3>1. booted
        BY <1>1, <2>1 DEF Waiting
      <3> QED BY <1>1, <3>1 DEF BootInv, OwedInv
    <2>2. CASE Changed(lastRun) # {}
      BY <1>2, <2>2
    <2> QED BY <1>1, <2>1, <2>2 DEF ExternalDrives
  <1>4. ~caOverflow => \A i \in 1 .. NCA : CAReads[i] \cap Changed(lastRun) # {} \/ CAConsistent(i)
    BY <1>1, <1>3, DrivesFollowed
  <1>5. CASE phase' = "boot" /\ Changed(lastRun) = {}
    BY <1>1, <1>4, <1>5 DEF AllBut, InHand, CAConsistent
  <1>6. CASE StartCA(Changed(lastRun), FALSE, "extcollect")
    <2>1. \A i \in 1 .. NCA : i >= 1
      BY DesignAssumption
    <2> QED BY <1>1, <1>4, <1>6, <2>1 DEF AllBut, InHand, CAConsistent, StartCA, CAPass
  <1> QED BY <1>1, <1>5, <1>6

\* Drives are consumed by the step that starts the assign loop on them.
LEMMA FollowNext ==
  ASSUME AssignInv, AssignInv', Sigs # {}, CallbackInputs = {}, Disciplined = TRUE,
         PhaseInv, BootInv, LastInv, FollowInv, [Next]_vars
  PROVE  FollowInv'
  <1> SUFFICES ASSUME ~Waiting' PROVE AllBut({})'
    BY DEF FollowInv
  <1>0. TypeOK /\ OneDriver
    BY DEF AssignInv
  <1>1. CASE pending' = {}
    BY <1>1, ExceptPending DEF AssignInv
  <1>2. ~CallDrive /\ ~CallbackDrive
    BY DEF CallDrive, Call, CallbackDrive, Waiting
  <1>3. CASE ~Waiting
    BY <1>0, <1>2, <1>3, StepForgetsNone DEF FollowInv
  <1>4. CASE UNCHANGED vars
    BY <1>0, <1>2, <1>4, <1>3 DEF vars, ctl, hist, extern, Waiting, Starting
  <1>5. CASE phase = "idle" /\ owed /\ Testbench /\ pending' # {}
    <2>1. CASE CallSchedule
      BY <1>5, <2>1 DEF CallSchedule, Call, hist, Waiting
    <2>2. CASE CallRun
      BY <1>5, <2>2 DEF CallRun, Waiting
    <2>3. CASE CallRunStep
      BY <1>5, <2>3 DEF CallRunStep
    <2>4. CASE CallSettle
      <3>1. /\ pending' = pending /\ starting' = ~booted /\ UNCHANGED <<sigs, caOverflow>>
            /\ \/ phase' = "settle" /\ (booted \/ Combos = {})
               \/ StartCA(pending, FALSE, "settleboot")
               \/ pending = {}
        BY <2>4 DEF CallSettle, kernel
      <3>2. StartCA(pending, FALSE, "settleboot")
        BY <1>5, <3>1 DEF Waiting, Starting
      <3>3. PICK P : P = pending
        OBVIOUS
      <3>4. AllBut(P)
        BY <3>3, ExceptPending DEF AssignInv
      <3>5. phase \notin Busy /\ P \subseteq {} \cup pending
        BY <1>5, <3>3 DEF Busy
      <3> QED BY <1>0, <3>1, <3>2, <3>4, <3>5, AssignsStart
    <2> QED BY <1>2, <1>5, <2>1, <2>2, <2>3, <2>4 DEF Testbench
  <1>6. CASE phase = "launch" /\ pending' # {}
    <2>1. CASE RunLaunch
      BY <2>1 DEF RunLaunch, Waiting
    <2>2. CASE ExternalDrives
      BY <1>0, <1>6, <2>2, FollowExternal
    <2> QED BY <1>4, <1>6, <2>1, <2>2, FromPhase
  <1>7. CASE (phase = "boot" /\ ~booted) \/ phase = "settle"
    <2>1. pending' = {} \/ UNCHANGED vars
      BY <1>7, FromPhase DEF BootDrives, SettleDrives
    <2> QED BY <1>1, <1>4, <2>1
  <1> QED BY <1>1, <1>3, <1>4, <1>5, <1>6, <1>7, FromPhase DEF Waiting

\* At first nothing has been driven.
LEMMA FollowInit == ASSUME Init PROVE FollowInv
  <1>1. \A i \in 1 .. NCA : CAConsistent(i) /\ phase # "exec"
    BY DriverAssumption DEF Init, CAConsistent
  <1> QED BY <1>1 DEF FollowInv, AllBut, InHand

\* The full pass of a later run(), and the pass over the drives that the first
\* settle() has propagated already.
Stable == phase = "ca" /\ (ca.ret = "next" \/ (ca.ret = "settlecollect" /\ Starting))

\* No assign changes in it.
StableInv == ~caOverflow /\ Stable => \A i \in 1 .. NCA : CAConsistent(i)

\* How it is reached.
LEMMA IntoStable ==
  ASSUME TypeOK, [Next]_vars, Stable'
  PROVE  \/ Stable /\ (CAEval \/ CAPassEnd \/ UNCHANGED vars)
         \/ FullCA /\ booted
         \/ SettleDrives /\ Starting
  <1>1. \/ phase' # "ca" \/ CAEval \/ CAPassEnd \/ UNCHANGED vars
        \/ RegionEnd \/ Resettle \/ NbaDone \/ CallbackDrive \/ ExternalDrives \/ BootDrives \/ CallSettle
        \/ FullCA \/ SettleDrives
    <2>1. CASE \/ \E p \in Procs : Execute(p)
               \/ DeltaBegin \/ ApplyNba \/ DeltaLimitError \/ Collect \/ DeltaDone
               \/ WakeOne \/ WakeDone \/ CallbackQuiet \/ StepEnd
      BY <2>1 DEF Execute, DeltaBegin, ApplyNba, DeltaLimitError, Collect, DeltaDone, WakeOne, WakeDone,
                  CallbackQuiet, StepEnd, StartRegion, ctl
    <2>2. CASE \/ RunLaunch \/ ExternalCollect \/ BootCombos \/ BootReaders \/ RunNext \/ RunReturn
               \/ SettleBoot \/ SettleCollect \/ CallDrive \/ CallSchedule \/ CallRun \/ CallRunStep
      BY <2>2 DEF RunLaunch, ExternalCollect, BootCombos, BootReaders, RunNext, StepBegin, RunReturn,
                  SettleBoot, SettleCollect, CallDrive, CallSchedule, CallRun, CallRunStep, Call,
                  StartRegion
    <2> QED BY <2>1, <2>2 DEF Next, Kernel, Testbench, Done
  <1>2. CASE RegionEnd \/ Resettle \/ NbaDone \/ CallbackDrive \/ ExternalDrives \/ BootDrives \/ CallSettle
    <2>1. phase' = "ca" => ca'.ret \in {"bootdrives", "resettle", "delta", "collect", "stepend",
                                        "extcollect", "fullca", "settleboot"}
      BY <1>2 DEF RegionEnd, Resettle, NbaDone, CallbackDrive, ExternalDrives, BootDrives, CallSettle,
                  StartCA, CAPass
    <2> QED BY <2>1 DEF Stable
  <1>3. CASE CAEval \/ CAPassEnd \/ UNCHANGED vars
    <2>1. \/ phase' = phase /\ ca'.ret = ca.ret /\ UNCHANGED <<call, starting>>
          \/ phase' # "ca"
      BY <1>3 DEF CAEval, CAPassEnd, CAPass, vars, ctl, TypeOK, CaOK, Returns
    <2> QED BY <1>3, <2>1 DEF Stable, Starting
  <1>4. CASE FullCA
    BY <1>4 DEF FullCA, StartCA, CAPass, Stable
  <1>5. CASE SettleDrives
    <2>1. UNCHANGED <<call, starting>> /\ (phase' = "ca" => ca'.ret = "settlecollect")
      BY <1>5 DEF SettleDrives, StartCA, CAPass
    <2> QED BY <1>5, <2>1 DEF Stable, Starting
  <1> QED BY <1>1, <1>2, <1>3, <1>4, <1>5 DEF Stable

\* Every step keeps it.
LEMMA StableNext ==
  ASSUME TypeOK, FollowInv, StableInv, [Next]_vars
  PROVE  StableInv'
  <1> SUFFICES ASSUME Stable', ~caOverflow' PROVE \A i \in 1 .. NCA : CAConsistent(i)'
    BY DEF StableInv
  <1>1. CASE Stable /\ CAEval
    <2>1. ~caOverflow /\ ca.pos \in 1 .. NCA
      BY <1>1, DesignAssumption DEF CAEval, hist, TypeOK, CaOK
    <2>2. CAConsistent(ca.pos) /\ \A i \in 1 .. NCA : CAConsistent(i)
      BY <1>1, <2>1 DEF StableInv
    <2>3. sigs' = sigs
      BY <1>1, <2>2 DEF CAEval, CAConsistent
    <2> QED BY <2>2, <2>3 DEF CAConsistent
  <1>2. CASE Stable /\ (CAPassEnd \/ UNCHANGED vars)
    <2>1. sigs' = sigs /\ (caOverflow => caOverflow')
      <3>1. CAPassEnd => sigs' = sigs /\ (caOverflow => caOverflow')
        BY DEF CAPassEnd, kernel, TypeOK, HistOK, CaOK
      <3>2. UNCHANGED vars => sigs' = sigs /\ caOverflow' = caOverflow
        BY DEF vars, hist, kernel
      <3> QED BY <1>2, <3>1, <3>2
    <2> QED BY <1>2, <2>1 DEF StableInv, CAConsistent
  <1>3. CASE (FullCA /\ booted) \/ (SettleDrives /\ Starting)
    <2>1. UNCHANGED <<caOverflow, sigs>> /\ phase \in {"fullca", "settle"} /\ ~Waiting
      BY <1>3 DEF FullCA, SettleDrives, hist, kernel, Waiting
    <2> QED BY <2>1 DEF FollowInv, AllBut, InHand, CAConsistent
  <1> QED BY <1>1, <1>2, <1>3, IntoStable

\* The block reads one of the signals.
Reads(p, d) == Sens[p] \cap d # {}

\* The signals that the next detection will look at.
Look ==
    CASE phase = "ca" /\ ca.ret = "delta"                               -> ca.dirty \cup acc
      [] phase = "ca" /\ ca.ret = "collect"                             -> act \cup ca.dirty
      [] phase = "ca" /\ ca.ret \in {"resettle", "bootdrives"}          -> ca.dirty
      [] phase = "ca" /\ ca.ret = "settlecollect" /\ ~Starting          -> ca.dirty
      [] phase = "settlecollect" /\ ~Starting                           -> ca.dirty
      [] phase \in {"resettle", "bootdrives"}                           -> ca.dirty
      [] phase = "collect"                                              -> act \cup ca.dirty
      [] phase = "delta"                                                -> act
      [] phase = "nba"                                                  -> act \cup nbaDirty
      [] (phase = "idle" /\ owed) \/ (phase = "settle" /\ ~Starting)    -> pending
      [] OTHER                                                          -> {}

\* The bootstrap has still to run every always_comb block.
NotYet ==
    \/ ~booted \/ phase \in {"settleboot", "bootcombos"}
    \/ phase = "ca" /\ ca.ret \in {"settleboot", "bootcombos"}

\* Inside a region, the block will run; or reads what the region before it
\* changed; or was fresh when the region began and has not run; or has run.
InRegion(p) ==
    \/ p \in woken
    \/ stage = "boot" /\ Reads(p, acc)
    \/ (\A x \in Outs(p) : orig[x] = NoVal) /\ Fresh(p, RegionStart)
    \/ batch = <<>> /\ (Fresh(p, sigs) \/ Reads(p, Changed(orig)))

\* The blocks have run once and the drives have been taken over.
Watched == ~caOverflow /\ phase # "error" /\ ~NotYet /\ ~External

\* A block that does not show its code's value reads a signal that the next
\* detection will look at.
FreshInv ==
    Watched =>
        \A p \in PureCombos :
            IF phase = "exec" THEN InRegion(p) ELSE Fresh(p, sigs) \/ Reads(p, Look)

\* A detection finds the pure blocks that read what is dirty.
LEMMA PureHit ==
  ASSUME AloneInv, NEW p \in PureCombos, NEW dirty, NEW others
  PROVE  p \in CombosHit(dirty, others) <=> Reads(p, dirty)
  <1>1. \A s : <<s, p>> \notin own
    <2> SUFFICES ASSUME NEW s, <<s, p>> \in own PROVE FALSE
      OBVIOUS
    <2>1. <<s, p>>[2] # p
      BY DEF AloneInv
    <2> QED BY <2>1
  <1> QED BY <1>1, PureTypes DEF CombosHit, Reads

\* How the drives come to be ahead.
LEMMA IntoRest ==
  ASSUME TypeOK, PhaseInv, BootInv, [Next]_vars, AtRest' \/ External'
  PROVE  \/ RunReturn \/ StepEnd
         \/ (DeltaDone \/ SettleCollect) /\ phase' = "idle"
         \/ SettleDrives /\ phase' = "idle"
         \/ (AtRest \/ External) /\ (CAEval \/ CAPassEnd) /\ ~AtRest'
         \/ RunLaunch \/ ExternalDrives \/ CallDrive \/ CallSchedule \/ CallRun
         \/ CallSettle /\ phase' = "settle"
         \/ UNCHANGED vars
  <1> USE DEF AtRest, External, Externally, Starting
  <1>1. CASE \/ RegionEnd \/ Resettle \/ DeltaBegin \/ NbaDone \/ DeltaLimitError \/ CallbackDrive
             \/ BootDrives \/ FullCA \/ CallSettle \/ SettleDrives
    BY <1>1 DEF RegionEnd, Resettle, DeltaBegin, NbaDone, DeltaLimitError, CallbackDrive, BootDrives,
                FullCA, CallSettle, SettleDrives, StartCA, CAPass
  <1>2. CASE \/ \E p \in Procs : Execute(p)
             \/ ApplyNba \/ Collect \/ WakeOne \/ WakeDone \/ CallbackQuiet
    BY <1>2 DEF Execute, ApplyNba, Collect, WakeOne, WakeDone, CallbackQuiet, StartRegion, ctl
  <1>3. CASE \/ ExternalCollect \/ BootCombos \/ BootReaders \/ RunNext \/ CallRunStep
             \/ SettleBoot \/ SettleCollect
    BY <1>3 DEF ExternalCollect, BootCombos, BootReaders, RunNext, CallRunStep, StepBegin, SettleBoot,
                SettleCollect, StartRegion
  <1>4. CASE DeltaDone
    <2>1. phase' = "settle" => call = "settle" /\ stage = "boot" /\ phase = "delta"
      BY <1>4 DEF DeltaDone
    <2>2. phase' = "settle" => Starting
      BY <2>1 DEF BootInv, StartInv, Booting, Looping
    <2>3. phase' \in {"wake", "next", "settle", "idle"} /\ UNCHANGED <<call, starting>>
      BY <1>4 DEF DeltaDone
    <2> QED BY <1>4, <2>2, <2>3
  <1>5. CASE CAEval \/ CAPassEnd
    <2>1. /\ phase = "ca"
          /\ \/ phase' = "ca" /\ ca'.ret = ca.ret
             \/ phase' = ca.ret /\ ca' = ca
      BY <1>5 DEF CAEval, CAPassEnd, CAPass, ctl
    <2>2. ca.ret \in Returns \ {"idle"}
      BY <2>1 DEF TypeOK, CaOK, PhaseInv
    <2> QED BY <1>5, <2>1, <2>2 DEF Returns
  <1> QED BY <1>1, <1>2, <1>3, <1>4, <1>5 DEF Next, Kernel, Testbench, Done

\* A call ends in a settled state.
LEMMA LastEnds ==
  ASSUME TypeOK, AloneInv, PhaseInv, BootInv, FollowInv, FreshInv,
         RunReturn \/ StepEnd \/ DeltaDone \/ SettleCollect, phase' = "idle"
  PROVE  LastInv'
  <1>1. lastRun' = sigs /\ sigs' = sigs /\ caOverflow' = caOverflow
    <2>1. CASE RunReturn \/ StepEnd
      BY <2>1 DEF RunReturn, StepEnd, kernel, hist
    <2>2. CASE DeltaDone
      BY <2>2 DEF DeltaDone, kernel, hist
    <2>3. CASE SettleCollect
      BY <2>3 DEF SettleCollect, StartRegion, kernel, hist
    <2> QED BY <2>1, <2>2, <2>3
  <1>2. /\ phase \in {"next", "stepend", "delta", "settlecollect"}
        /\ phase = "delta" => act = {}
        /\ phase = "settlecollect" => SettleCollect
    BY DEF RunReturn, StepEnd, DeltaDone, SettleCollect, MoreDeltas
  <1> SUFFICES ASSUME ~caOverflow PROVE Settled(sigs)
    BY <1>1 DEF LastInv, Settled, Driven
  <1>3. \A i \in 1 .. NCA : CAConsistent(i)
    BY <1>2 DEF FollowInv, Waiting, AllBut, InHand
  <1>4. \A p \in PureCombos : Fresh(p, sigs) \/ Reads(p, Look)
    <2>1. booted
      BY <1>2 DEF BootInv, FirstInv
    <2>2. phase \notin {"error", "exec"} /\ ~NotYet /\ ~External
      BY <1>2, <2>1 DEF NotYet, External, Externally
    <2> QED BY <2>2 DEF FreshInv, Watched
  <1>5. ASSUME NEW p \in PureCombos PROVE ~Reads(p, Look)
    <2>1. CASE phase \in {"next", "stepend", "delta"}
      <3>1. Look = {}
        BY <1>2, <2>1 DEF Look
      <3> QED BY <3>1 DEF Reads
    <2>2. CASE phase = "settlecollect" /\ Starting
      <3>1. Look = {}
        BY <2>2 DEF Look
      <3> QED BY <3>1 DEF Reads
    <2>3. CASE phase = "settlecollect" /\ ~Starting
      <3>1. Look = ca.dirty
        BY <2>3 DEF Look
      <3>2. call = "settle"
        BY <2>3 DEF PhaseInv, Settling
      <3>3. p \notin Triggered(ca.dirty, ca.dirty, prev, edgeChanged, trigSeq)
        BY <1>2, <2>3, <3>2 DEF SettleCollect, Starting, StartRegion
      <3>4. p \notin CombosHit(ca.dirty, ca.dirty)
        BY <3>3 DEF Triggered
      <3> QED BY <3>1, <3>4, PureHit
    <2> QED BY <1>2, <2>1, <2>2, <2>3
  <1> QED BY <1>3, <1>4, <1>5 DEF Settled, CAConsistent

\* Between the calls, drives alone change the signals.
LEMMA LastNext ==
  ASSUME TypeOK, Sigs # {}, Rules, AloneInv, PhaseInv, BootInv, FollowInv, FreshInv, LastInv, [Next]_vars
  PROVE  LastInv'
  <1>1. CASE (RunReturn \/ StepEnd \/ DeltaDone \/ SettleCollect) /\ phase' = "idle"
    BY <1>1, LastEnds
  <1>2. StepEnd /\ phase' # "idle" => phase' = "next"
    BY DEF StepEnd
  <1>3. RunReturn => phase' = "idle"
    BY DEF RunReturn
  <1>4. \A p \in PureCombos : Lawful(p)
    BY DEF Rules
  <1>5. ASSUME UNCHANGED <<lastRun, caOverflow, sigs, pending>>,
               AtRest' => AtRest, External' => AtRest \/ External,
               phase' = "idle" /\ ~owed' => (phase = "idle" /\ ~owed) \/ (AtRest /\ pending = {})
        PROVE  LastInv'
    BY <1>5 DEF LastInv, Full, Settled, Driven
  <1>6. CASE SettleDrives /\ phase' = "idle"
    <2>1. /\ phase = "settle" /\ pending = {} /\ UNCHANGED <<lastRun, caOverflow, sigs, pending>>
          /\ UNCHANGED <<call, starting>>
      BY <1>6 DEF SettleDrives, StartCA, kernel, hist
    <2>2. CASE Starting
      <3>1. ~Full'
        BY <2>1, <2>2, SnapshotWhole DEF BootInv, SnapInv
      <3> QED BY <3>1 DEF LastInv
    <2>3. CASE ~Starting
      BY <1>5, <1>6, <2>1, <2>3 DEF AtRest, External, Externally
    <2> QED BY <2>2, <2>3
  <1>7. CASE (AtRest \/ External) /\ (CAEval \/ CAPassEnd) /\ ~AtRest'
    <2>1. /\ lastRun' = lastRun /\ phase = "ca"
          /\ \A x \in Sigs : x \notin Wires => sigs'[x] = sigs[x]
          /\ caOverflow => caOverflow'
      <3>1. CASE CAEval
        <4>1. sigs' = sigs \/ \E v : sigs' = [sigs EXCEPT ![CALhs[ca.pos]] = v]
          BY <3>1 DEF CAEval
        <4>2. CALhs[ca.pos] \in Wires
          BY <3>1, DesignAssumption DEF CAEval, Wires, TypeOK, CaOK
        <4> QED BY <3>1, <4>1, <4>2 DEF CAEval, extern, hist, TypeOK, KernelOK
      <3>2. CASE CAPassEnd
        BY <3>2 DEF CAPassEnd, extern, kernel, TypeOK, HistOK, CaOK
      <3> QED BY <1>7, <3>1, <3>2
    <2>2. phase' # "idle"
      BY <1>7 DEF AtRest
    <2>3. \A p \in PureCombos : \A x \in Outs(p) : sigs'[x] = sigs[x]
      BY <1>4, <2>1, PureTypes DEF Lawful
    <2> QED BY <1>7, <2>1, <2>2, <2>3 DEF LastInv, Settled, Full
  <1>8. CASE RunLaunch \/ ExternalDrives
    <2>1. /\ UNCHANGED <<lastRun, caOverflow, sigs, pending>> /\ phase = "launch" /\ phase' # "idle"
      BY <1>8 DEF RunLaunch, ExternalDrives, StartCA, extern, kernel, hist
    <2> QED BY <1>5, <2>1 DEF AtRest
  <1>9. CASE CallSchedule \/ CallRun \/ (CallSettle /\ phase' = "settle")
    <2>1. /\ UNCHANGED <<lastRun, caOverflow, sigs, pending>> /\ phase = "idle"
          /\ phase' = "idle" => owed' = owed
      BY <1>9 DEF CallSchedule, CallRun, CallSettle, Call, extern, kernel, hist
    <2> QED BY <1>5, <2>1 DEF AtRest
  <1>10. CASE CallDrive
    <2>1. PICK s \in Inputs, v \in {0, 1} : DriveSignal(s, v)
      BY <1>10 DEF CallDrive
    <2>2. /\ UNCHANGED <<lastRun, caOverflow>> /\ phase = "idle" /\ phase' = "idle" /\ owed' = TRUE
      BY <1>10 DEF CallDrive, Call
    <2>3. /\ \A x \in Sigs \ {s} : sigs'[x] = sigs[x]
          /\ pending' = pending \cup {s}
      BY <2>1 DEF DriveSignal, TypeOK, KernelOK
    <2>4. \A p \in PureCombos : \A x \in Outs(p) : sigs'[x] = sigs[x]
      BY <1>4, <2>3, PureTypes DEF Lawful
    <2> QED BY <2>2, <2>3, <2>4 DEF LastInv, AtRest, Full, Settled, Driven
  <1>11. CASE UNCHANGED vars
    <2>1. /\ UNCHANGED <<lastRun, caOverflow, sigs, pending, phase, owed, call, starting, ca>>
      BY <1>11 DEF vars, kernel, extern, hist, ctl
    <2> QED BY <1>5, <2>1 DEF AtRest, External, Externally, Starting, Full
  <1>12. CASE ~(AtRest' \/ External')
    BY <1>12 DEF LastInv
  <1> QED BY <1>1, <1>2, <1>3, <1>6, <1>7, <1>8, <1>9, <1>10, <1>11, <1>12, IntoRest
          DEF AtRest, External, Externally

\* A step that changes no signal and forgets none that changed.
LEMMA FreshKept ==
  ASSUME FreshInv, UNCHANGED sigs,
         Watched' => Watched /\ phase # "exec" /\ phase' # "exec" /\ Look \subseteq Look'
  PROVE  FreshInv'
  BY DEF FreshInv, Reads

\* A step that changes one signal, and looks at it next.
LEMMA FreshChange ==
  ASSUME TypeOK, TypeOK', Rules, FreshInv, NEW s, NEW v, sigs' = [sigs EXCEPT ![s] = v],
         \A p \in PureCombos : s \notin Outs(p),
         Watched' => /\ Watched /\ phase # "exec" /\ phase' # "exec"
                     /\ Look \subseteq Look' /\ s \in Look'
  PROVE  FreshInv'
  <1> SUFFICES ASSUME Watched', NEW p \in PureCombos
               PROVE  Fresh(p, sigs') \/ Reads(p, Look')
    BY DEF FreshInv
  <1>1. CASE s \in Sens[p]
    BY <1>1 DEF Reads
  <1>2. CASE s \notin Sens[p]
    <2>1. Lawful(p) /\ sigs \in [Sigs -> Val] /\ sigs' \in [Sigs -> Val]
      BY DEF Rules, TypeOK, KernelOK
    <2>2. \A x \in Sigs : x # s => sigs[x] = sigs'[x]
      BY <2>1
    <2>3. \A x \in Sens[p] \cup Outs(p) : sigs[x] = sigs'[x]
      BY <1>2, <2>2, PureTypes
    <2>4. Fresh(p, sigs) => Fresh(p, sigs')
      BY <2>1, <2>3, FreshAgree
    <2> QED BY <2>4 DEF FreshInv, Reads
  <1> QED BY <1>1, <1>2

\* A region begins with every block fresh or about to run.
LEMMA FreshRegion ==
  ASSUME TypeOK, NEW b, NEW w, StartRegion(b, w), UNCHANGED sigs,
         Watched' => \A p \in PureCombos :
                        Fresh(p, sigs) \/ p \in w \/ (stage' = "boot" /\ Reads(p, acc'))
  PROVE  FreshInv'
  <1>1. phase' = "exec" /\ woken' = w /\ \A x \in Sigs : orig'[x] = NoVal
    BY DEF StartRegion
  <1>2. RegionStart' = sigs
    BY <1>1 DEF RegionStart, TypeOK, KernelOK
  <1> QED BY <1>1, <1>2, PureTypes DEF FreshInv, InRegion

\* The assign loop: what it writes is looked at next, unless it writes nothing.
LEMMA FreshAssigns ==
  ASSUME TypeOK, TypeOK', Rules, PhaseInv, BootInv, StableInv, FreshInv, CAEval \/ CAPassEnd
  PROVE  FreshInv'
  <1>1. CASE CAEval
    <2> DEFINE k == ca.pos
    <2>1. /\ phase = "ca" /\ phase' = "ca" /\ ca'.ret = ca.ret
          /\ UNCHANGED <<caOverflow, booted, call, starting, act, acc, nbaDirty, pending, owed, lastRun>>
      BY <1>1 DEF CAEval, ctl, hist, extern, loop
    <2>2. k \in 1 .. NCA /\ CALhs[k] \in Sigs /\ CALhs[k] \in Wires
      BY <1>1, DesignAssumption DEF CAEval, TypeOK, CaOK, Wires
    <2>3. \/ sigs' = sigs /\ ca'.dirty = ca.dirty
          \/ /\ ~CAConsistent(k)
             /\ ca'.dirty = ca.dirty \cup {CALhs[k]}
             /\ sigs' = [sigs EXCEPT ![CALhs[k]] = Rhs(k, sigs)]
      BY <1>1 DEF CAEval, MarkOutputs, CAConsistent
    <2>4. Watched' => Watched
      BY <2>1 DEF Watched, NotYet, External, Externally
    <2>5. Look \subseteq Look'
      BY <2>1, <2>3 DEF Look, Starting
    <2>6. CASE sigs' = sigs /\ ca'.dirty = ca.dirty
      BY <2>1, <2>4, <2>5, <2>6, FreshKept
    <2>7. CASE /\ ~CAConsistent(k)
               /\ ca'.dirty = ca.dirty \cup {CALhs[k]}
               /\ sigs' = [sigs EXCEPT ![CALhs[k]] = Rhs(k, sigs)]
      <3>1. ~caOverflow => ~Stable
        BY <2>2, <2>7 DEF StableInv
      <3>2. Watched => ca.ret \in {"delta", "collect", "resettle", "bootdrives"}
                       \/ (ca.ret = "settlecollect" /\ ~Starting)
        <4>1. ca.ret \in Returns \ {"idle", "stepend"} /\ (ca.ret = "fullca" => ~booted)
          BY <2>1 DEF PhaseInv, BootInv, StartInv, TypeOK, CaOK
        <4> QED BY <2>1, <3>1, <4>1 DEF Watched, NotYet, External, Externally, Stable, Returns
      <3>3. Watched => CALhs[k] \in Look'
        BY <2>1, <2>7, <3>2 DEF Look, Starting
      <3>4. \A p \in PureCombos : CALhs[k] \notin Outs(p)
        BY <2>2 DEF Rules, Lawful
      <3> QED BY <2>1, <2>4, <2>5, <2>7, <3>3, <3>4, FreshChange
    <2> QED BY <2>3, <2>6, <2>7
  <1>2. CASE CAPassEnd
    <2>1. /\ phase = "ca" /\ ca'.ret = ca.ret /\ ca'.dirty = ca.dirty
          /\ UNCHANGED <<sigs, booted, call, starting, pending, owed, lastRun>>
          /\ caOverflow => caOverflow'
          /\ \/ phase' = "ca" /\ UNCHANGED <<act, acc>>
             \/ phase' = ca.ret /\ ca.ret # "delta" /\ UNCHANGED <<act, acc>>
             \/ phase' = ca.ret /\ ca.ret = "delta" /\ act' = acc \cup ca.dirty
      BY <1>2 DEF CAPassEnd, CAPass, extern, kernel, TypeOK, HistOK, CaOK
    <2>2. ca.ret \in Returns \ {"idle", "stepend"}
      BY <2>1 DEF PhaseInv, BootInv, StartInv, TypeOK, CaOK
    <2>3. Watched' => Watched
      BY <2>1, <2>2 DEF Watched, NotYet, External, Externally, Full
    <2>4. Look \subseteq Look'
      BY <2>1, <2>2 DEF Look, Starting, Returns
    <2>5. phase' # "exec"
      BY <2>1, <2>2 DEF Returns
    <2> QED BY <2>1, <2>3, <2>4, <2>5, FreshKept
  <1> QED BY <1>1, <1>2

\* What another process writes in its activation.
LEMMA OthersWrite ==
  ASSUME TypeOK, TypeOK', PlaceInv, Rules, NEW p \in PureCombos, NEW x \in Procs, Execute(x), x # p
  PROVE  /\ \A s \in Outs(p) : sigs'[s] = sigs[s] /\ orig'[s] = orig[s]
         /\ RegionStart' = RegionStart
         /\ batch = <<>> => \A s \in Sens[p] :
               \/ sigs'[s] = sigs[s] /\ orig'[s] = orig[s]
               \/ orig'[s] = sigs[s] /\ sigs[s] # NoVal
  <1> DEFINE r == Activation(x)
  <1>1. /\ sigs' = [s \in Sigs |-> IF s \in Written(r) THEN r.wr[s] ELSE sigs[s]]
        /\ orig' = [s \in Sigs |-> IF s \in Written(r) /\ orig[s] = NoVal THEN sigs[s] ELSE orig[s]]
    BY DEF Execute
  <1>2. Written(r) \subseteq Outs(x) /\ Lawful(p) /\ p \in Procs
    BY ActivationWrites, PureTypes DEF Rules
  <1>3. \A s \in Sigs : sigs[s] # NoVal
    <2>1. sigs \in [Sigs -> Val]
      BY DEF TypeOK, KernelOK
    <2> QED BY <2>1, PureTypes
  <1>4. \A s \in Outs(p) : s \in Sigs /\ s \notin Written(r)
    BY <1>2, PureTypes DEF Lawful
  <1>5. RegionStart' = RegionStart
    BY <1>1, <1>3 DEF RegionStart
  <1>6. ASSUME batch = <<>>, NEW s \in Sens[p], s \in Written(r)
        PROVE  orig[s] = NoVal
    <2>1. x \in woken /\ phase = "exec"
      BY <1>6 DEF Execute, NextProc
    <2> QED BY <1>2, <1>6, <2>1 DEF PlaceInv, WrittenInv
  <1>7. \A s \in Sens[p] : s \in Sigs
    BY PureTypes
  <1> QED BY <1>1, <1>3, <1>4, <1>5, <1>6, <1>7

\* An activation keeps every other block fresh, or its changes are recorded.
LEMMA FreshExecute ==
  ASSUME TypeOK, TypeOK', PlaceInv, Rules, FreshInv, NEW x \in Procs, Execute(x)
  PROVE  FreshInv'
  <1>1. /\ phase = "exec" /\ phase' = "exec"
        /\ UNCHANGED <<stage, acc, caOverflow, booted, ca, lastRun>>
        /\ batch = <<>> => batch' = <<>>
        /\ woken \ {x} \subseteq woken'
    BY DEF Execute, ctl, loop, hist, extern
  <1>2. Watched' => Watched
    BY <1>1 DEF Watched, NotYet, External, Externally
  <1> SUFFICES ASSUME Watched', NEW p \in PureCombos PROVE InRegion(p)'
    BY <1>1 DEF FreshInv
  <1>3. InRegion(p) /\ Lawful(p)
    BY <1>1, <1>2 DEF FreshInv, Rules
  <1>4. CASE x = p
    <2>1. batch = <<>> /\ pcs[p] = 0
      BY <1>4, PureStays, EndsInPlace DEF PlaceInv, Away
    <2>2. Fresh(p, sigs')
      BY <1>3, <1>4, <2>1, RunMakesFresh
    <2> QED BY <1>1, <2>1, <2>2 DEF InRegion
  <1>5. CASE x # p
    <2>1. /\ \A s \in Outs(p) : sigs'[s] = sigs[s] /\ orig'[s] = orig[s]
          /\ RegionStart' = RegionStart
          /\ batch = <<>> => \A s \in Sens[p] :
                \/ sigs'[s] = sigs[s] /\ orig'[s] = orig[s]
                \/ orig'[s] = sigs[s] /\ sigs[s] # NoVal
      BY <1>5, OthersWrite
    <2>2. CASE p \in woken
      BY <1>1, <1>5, <2>2 DEF InRegion
    <2>3. CASE stage = "boot" /\ Reads(p, acc)
      BY <1>1, <2>3 DEF InRegion, Reads
    <2>4. CASE (\A s \in Outs(p) : orig[s] = NoVal) /\ Fresh(p, RegionStart)
      BY <2>1, <2>4 DEF InRegion
    <2>5. CASE batch = <<>> /\ Reads(p, Changed(orig))
      <3>1. PICK s \in Sens[p] : orig[s] # NoVal /\ orig[s] # sigs[s] /\ s \in Sigs
        BY <2>5 DEF Reads, Changed
      <3>2. x \in woken /\ phase = "exec"
        BY <1>1, <2>5 DEF Execute, NextProc
      <3>3. s \notin Outs(x)
        BY <3>1, <3>2 DEF PlaceInv, WrittenInv
      <3>4. s \notin Written(Activation(x))
        BY <3>3, ActivationWrites
      <3>5. sigs'[s] = sigs[s] /\ orig'[s] = orig[s]
        BY <3>1, <3>4 DEF Execute
      <3>6. Reads(p, Changed(orig)')
        BY <3>1, <3>5 DEF Reads, Changed
      <3> QED BY <1>1, <2>5, <3>6 DEF InRegion
    <2>6. CASE batch = <<>> /\ Fresh(p, sigs)
      <3>1. CASE \A s \in Sens[p] : sigs'[s] = sigs[s]
        <4>1. Fresh(p, sigs')
          BY <1>3, <2>1, <2>6, <3>1, FreshAgree DEF TypeOK, KernelOK
        <4> QED BY <1>1, <2>6, <4>1 DEF InRegion
      <3>2. CASE \E s \in Sens[p] : sigs'[s] # sigs[s]
        <4>1. PICK s \in Sens[p] : sigs'[s] # sigs[s]
          BY <3>2
        <4>2. s \in Sigs /\ orig'[s] = sigs[s] /\ sigs[s] # NoVal
          BY <2>1, <2>6, <4>1, PureTypes
        <4>3. Reads(p, Changed(orig)')
          BY <4>1, <4>2 DEF Reads, Changed
        <4> QED BY <1>1, <2>6, <4>3 DEF InRegion
      <3> QED BY <3>1, <3>2
    <2> QED BY <1>3, <2>2, <2>3, <2>4, <2>5, <2>6 DEF InRegion
  <1> QED BY <1>4, <1>5

\* What the region changed is looked at next.
LEMMA FreshRegionEnd ==
  ASSUME TypeOK, Rules, FreshInv, RegionEnd
  PROVE  FreshInv'
  <1>1. /\ phase = "exec" /\ phase' = "ca" /\ batch = <<>> /\ woken = {}
        /\ UNCHANGED <<sigs, acc, caOverflow, booted, lastRun>>
        /\ ca'.dirty = Changed(orig)
        /\ ca'.ret \in {"bootdrives", "resettle", "delta"} /\ (stage = "boot" => ca'.ret = "delta")
    BY DEF RegionEnd, StartCA, CAPass, kernel, loop, hist, extern
  <1>2. Watched' => Watched
    BY <1>1 DEF Watched, NotYet, External, Externally
  <1>3. Changed(orig) \subseteq Look' /\ (stage = "boot" => acc \subseteq Look')
    BY <1>1 DEF Look
  <1> SUFFICES ASSUME Watched', NEW p \in PureCombos, ~Reads(p, Look') PROVE Fresh(p, sigs)
    BY <1>1 DEF FreshInv
  <1>4. InRegion(p) /\ ~Reads(p, Changed(orig)) /\ ~(stage = "boot" /\ Reads(p, acc))
    BY <1>1, <1>2, <1>3 DEF FreshInv, Reads
  <1>5. CASE (\A x \in Outs(p) : orig[x] = NoVal) /\ Fresh(p, RegionStart)
    <2>1. \A x \in Sens[p] : x \in Sigs /\ x \notin Changed(orig)
      BY <1>4, PureTypes DEF Reads
    <2>2. \A x \in Sens[p] : RegionStart[x] = sigs[x]
      BY <2>1 DEF RegionStart, Changed
    <2>3. \A x \in Outs(p) : RegionStart[x] = sigs[x]
      BY <1>5, PureTypes DEF RegionStart
    <2>4. RegionStart \in [Sigs -> Val] /\ sigs \in [Sigs -> Val] /\ Lawful(p)
      BY DEF TypeOK, KernelOK, RegionOK, Snapshot, RegionStart, Rules
    <2> QED BY <1>5, <2>2, <2>3, <2>4, FreshAgree
  <1> QED BY <1>1, <1>4, <1>5 DEF InRegion

\* The steps that pass on what is to be looked at.
LEMMA FreshLoop ==
  ASSUME TypeOK, TypeOK', Rules, AloneInv, FreshInv,
         \/ Resettle \/ DeltaBegin \/ ApplyNba \/ NbaDone \/ DeltaLimitError \/ DeltaDone
         \/ WakeOne \/ WakeDone \/ CallbackQuiet \/ StepEnd
  PROVE  FreshInv'
  <1>1. CASE ApplyNba
    <2> DEFINE s == Head(nba)[1]
    <2>1. /\ phase = "nba" /\ phase' = "nba" /\ UNCHANGED <<act, caOverflow, booted, lastRun>>
          /\ sigs' = [sigs EXCEPT ![s] = Head(nba)[2]]
          /\ nbaDirty' = IF Head(nba)[2] # sigs[s] THEN nbaDirty \cup {s} ELSE nbaDirty
          /\ nba # <<>> /\ nba \in Seq(Sigs \X Val) /\ sigs \in [Sigs -> Val]
      BY <1>1 DEF ApplyNba, ctl, hist, extern, TypeOK, KernelOK
    <2>2. Head(nba) = nba[1] /\ 1 \in 1 .. Len(nba)
      BY <2>1, HeadTailProperties, EmptySeq
    <2>3. \A p \in PureCombos : s \notin Outs(p)
      BY <2>2 DEF AloneInv
    <2>4. Watched' => Watched
      BY <2>1 DEF Watched, NotYet, External, Externally
    <2>5. Look = act \cup nbaDirty /\ Look' = act \cup nbaDirty'
      BY <2>1 DEF Look
    <2>6. CASE Head(nba)[2] = sigs[s]
      <3>1. sigs' = sigs
        BY <2>1, <2>6
      <3> QED BY <2>1, <2>4, <2>5, <3>1, FreshKept
    <2>7. CASE Head(nba)[2] # sigs[s]
      <3>1. Look \subseteq Look' /\ s \in Look'
        BY <2>1, <2>5, <2>7
      <3> QED BY <2>1, <2>3, <2>4, <3>1, FreshChange
    <2> QED BY <2>6, <2>7
  <1>2. CASE Resettle \/ DeltaBegin \/ NbaDone
    <2>1. /\ phase \in {"resettle", "delta", "nba"}
          /\ UNCHANGED <<sigs, acc, act, caOverflow, booted, lastRun>>
          /\ \/ phase = "resettle" /\ phase' = "ca" /\ ca'.ret = "delta" /\ ca'.dirty = ca.dirty
             \/ phase = "delta" /\ phase' = "nba"
             \/ phase = "nba" /\ phase' = "ca" /\ ca'.ret = "collect" /\ ca'.dirty = nbaDirty
      BY <1>2 DEF Resettle, DeltaBegin, NbaDone, StartCA, CAPass, kernel, loop, hist, extern
    <2>2. Watched' => Watched
      BY <2>1 DEF Watched, NotYet, External, Externally
    <2>3. Look \subseteq Look'
      BY <2>1 DEF Look
    <2> QED BY <2>1, <2>2, <2>3, FreshKept
  <1>3. CASE DeltaLimitError
    BY <1>3 DEF DeltaLimitError, FreshInv, Watched
  <1>4. CASE DeltaDone
    <2>1. /\ phase = "delta" /\ phase' \in {"wake", "next", "settle", "idle"} /\ act = {}
          /\ UNCHANGED <<sigs, caOverflow, booted>>
      BY <1>4 DEF DeltaDone, MoreDeltas, kernel, hist
    <2>2. (Watched' => Watched) /\ Look = {}
      BY <2>1 DEF Watched, NotYet, External, Externally, Look
    <2> QED BY <2>1, <2>2, FreshKept
  <1>5. CASE WakeOne \/ WakeDone \/ CallbackQuiet \/ StepEnd
    <2>1. /\ phase \in {"wake", "callback", "stepend"}
          /\ phase' \in {"wake", "callback", "boot", "stepend", "next", "idle"}
          /\ UNCHANGED <<sigs, caOverflow, booted>>
      BY <1>5 DEF WakeOne, WakeDone, CallbackQuiet, StepEnd, kernel, hist, extern, ctl
    <2>2. (Watched' => Watched) /\ Look = {}
      BY <2>1 DEF Watched, NotYet, External, Externally, Look
    <2> QED BY <2>1, <2>2, FreshKept
  <1> QED BY <1>1, <1>2, <1>3, <1>4, <1>5

\* The drives of a run() come from a settled state.
LEMMA FreshExternal ==
  ASSUME TypeOK, Sigs # {}, Rules, Full, Settled(lastRun), NEW p \in PureCombos,
         ~Reads(p, Changed(lastRun))
  PROVE  Fresh(p, sigs)
  <1>1. lastRun \in [Sigs -> Val] /\ sigs \in [Sigs -> Val] /\ Lawful(p)
    BY SnapshotWhole DEF TypeOK, KernelOK, Rules
  <1>2. \A x \in Sens[p] : lastRun[x] = sigs[x]
    BY PureTypes DEF Reads, Changed, Full
  <1>3. Fresh(p, lastRun) /\ \A x \in Outs(p) : lastRun[x] = sigs[x]
    BY DEF Settled
  <1> QED BY <1>1, <1>2, <1>3, FreshAgree

\* The steps of run() outside its loops.
LEMMA FreshRun ==
  ASSUME TypeOK, Sigs # {}, Rules, AloneInv, PhaseInv, BootInv, LastInv, FreshInv,
         \/ RunLaunch \/ ExternalDrives \/ ExternalCollect \/ BootDrives \/ FullCA \/ RunNext \/ RunReturn
  PROVE  FreshInv'
  <1>1. UNCHANGED <<sigs, caOverflow, booted>>
    BY DEF RunLaunch, ExternalDrives, ExternalCollect, BootDrives, FullCA, RunNext, StepBegin, RunReturn,
           kernel, hist, extern
  <1>2. CASE RunLaunch
    <2>1. phase = "launch" /\ phase' = "launch" /\ lastRun' = lastRun
      BY <1>2 DEF RunLaunch, extern
    <2>2. (Watched' => Watched) /\ Look = {}
      BY <1>1, <2>1 DEF Watched, NotYet, External, Externally, Look, Full
    <2> QED BY <1>1, <2>1, <2>2, FreshKept
  <1>3. CASE ExternalDrives
    <2>1. /\ phase = "launch" /\ call = "run" /\ lastRun' = lastRun
          /\ \/ phase' = "boot" /\ Changed(lastRun) = {}
             \/ phase' = "ca" /\ ca'.ret = "extcollect"
      BY <1>3 DEF ExternalDrives, StartCA, CAPass, extern, PhaseInv
    <2>2. CASE phase' = "ca" /\ ca'.ret = "extcollect"
      BY <2>2 DEF FreshInv, Watched, External, Externally
    <2>3. CASE phase' = "boot" /\ Changed(lastRun) = {} /\ Full
      <3>1. ~caOverflow => \A p \in PureCombos : Fresh(p, sigs)
        <4>1. \A p \in PureCombos : ~Reads(p, {})
          BY DEF Reads
        <4>2. ~caOverflow => Settled(lastRun)
          BY <2>1, <2>3 DEF LastInv, AtRest
        <4> QED BY <2>3, <4>1, <4>2, FreshExternal
      <3> QED BY <1>1, <2>3, <3>1 DEF FreshInv, Watched
    <2>4. CASE phase' = "boot" /\ ~Full
      <3>1. (Watched' => Watched) /\ Look = {}
        BY <1>1, <2>1, <2>4 DEF Watched, NotYet, External, Externally, Look
      <3> QED BY <1>1, <2>1, <2>4, <3>1, FreshKept
    <2> QED BY <2>1, <2>2, <2>3, <2>4
  <1>4. CASE ExternalCollect
    <2> DEFINE trig == Triggered(Changed(lastRun), Changed(lastRun), lastRun, {}, {})
    <2>1. /\ phase = "extcollect"
          /\ \/ StartRegion(<<>>, trig)
             \/ phase' \in {"boot", "wake"} /\ (Changed(lastRun) = {} \/ trig = {})
      BY <1>4 DEF ExternalCollect
    <2>2. Full /\ (~caOverflow => Settled(lastRun))
      BY <2>1 DEF BootInv, SnapInv, Externally, LastInv, External
    <2>3. ~caOverflow => \A p \in PureCombos : Fresh(p, sigs) \/ Reads(p, Changed(lastRun))
      BY <2>2, FreshExternal
    <2>4. \A p \in PureCombos : Reads(p, Changed(lastRun)) => p \in trig /\ Changed(lastRun) # {}
      BY PureHit DEF Triggered, Reads
    <2> HIDE DEF trig
    <2>5. CASE StartRegion(<<>>, trig)
      BY <1>1, <2>3, <2>4, <2>5, FreshRegion DEF Watched
    <2>6. CASE phase' \in {"boot", "wake"} /\ (Changed(lastRun) = {} \/ trig = {})
      BY <1>1, <2>3, <2>4, <2>6 DEF FreshInv, Watched
    <2> QED BY <2>1, <2>5, <2>6
  <1>5. CASE BootDrives \/ FullCA \/ RunReturn
    <2>1. /\ phase \in {"boot", "fullca", "next"} /\ phase' \in {"fullca", "ca", "idle"}
          /\ phase' = "ca" => ca'.ret \in {"fullca", "bootcombos", "next"}
          /\ phase' = "ca" /\ ca'.ret = "bootcombos" => ~booted
      BY <1>5 DEF BootDrives, FullCA, RunReturn, StartCA, CAPass
    <2>2. (Watched' => Watched) /\ Look = {}
      BY <1>1, <2>1 DEF Watched, NotYet, External, Externally, Look
    <2> QED BY <1>1, <2>1, <2>2, FreshKept
  <1>6. CASE RunNext
    <2>1. phase = "next" /\ phase' = "exec" /\ \E t : StartRegion(queue[t], {})
      BY <1>6 DEF RunNext, StepBegin, StartRegion
    <2>2. (Watched' => Watched) /\ Look = {}
      BY <1>1, <2>1 DEF Watched, NotYet, External, Externally, Look
    <2>3. Watched' => \A p \in PureCombos : Fresh(p, sigs)
      BY <2>1, <2>2 DEF FreshInv, Reads
    <2> QED BY <1>1, <2>1, <2>3, FreshRegion
  <1> QED BY <1>2, <1>3, <1>4, <1>5, <1>6

\* A detection wakes the blocks that read what is to be looked at.
LEMMA FreshCollect ==
  ASSUME TypeOK, AloneInv, PhaseInv, FreshInv, Collect \/ SettleCollect
  PROVE  FreshInv'
  <1>1. UNCHANGED <<sigs, caOverflow, booted>>
    BY DEF Collect, SettleCollect, kernel, hist, extern
  <1>2. ASSUME NEW w, phase \in {"collect", "settlecollect"},
               StartRegion(<<>>, w) \/ (phase' \in {"delta", "idle"} /\ w = {}),
               \A p \in PureCombos : Reads(p, Look) => p \in w
        PROVE  FreshInv'
    <2>1. Watched' => Watched
      BY <1>1, <1>2 DEF Watched, NotYet, External, Externally, StartRegion
    <2>2. Watched' => \A p \in PureCombos : Fresh(p, sigs) \/ p \in w
      BY <1>2, <2>1 DEF FreshInv
    <2>3. CASE StartRegion(<<>>, w)
      BY <1>1, <2>2, <2>3, FreshRegion
    <2>4. CASE phase' \in {"delta", "idle"} /\ w = {}
      BY <1>1, <2>2, <2>4 DEF FreshInv
    <2> QED BY <1>2, <2>3, <2>4
  <1>3. CASE Collect
    <2> DEFINE trig == Triggered(act \cup ca.dirty, ca.dirty, prev, edgeChanged, trigSeq)
    <2>1. phase = "collect" /\ (StartRegion(<<>>, trig) \/ (phase' = "delta" /\ trig = {}))
      BY <1>3 DEF Collect
    <2>2. Look = act \cup ca.dirty
      BY <2>1 DEF Look
    <2>3. \A p \in PureCombos : Reads(p, Look) => p \in trig
      BY <2>2, PureHit DEF Triggered
    <2> HIDE DEF trig
    <2> QED BY <1>2, <2>1, <2>3
  <1>4. CASE SettleCollect
    <2> DEFINE hit  == Triggered(ca.dirty, ca.dirty, prev, edgeChanged, trigSeq)
               trig == hit \ (IF starting /\ Combos # {} THEN StartCombos ELSE {})
    <2>1. phase = "settlecollect" /\ (StartRegion(<<>>, trig) \/ (phase' = "idle" /\ trig = {}))
      BY <1>4 DEF SettleCollect
    <2>2. call = "settle"
      BY <2>1 DEF PhaseInv, Settling
    <2>3. \A p \in PureCombos : Reads(p, Look) => p \in trig
      <3>1. CASE Starting
        <4>1. Look = {}
          BY <2>1, <3>1 DEF Look
        <4> QED BY <4>1 DEF Reads
      <3>2. CASE ~Starting
        <4>1. Look = ca.dirty
          BY <2>1, <3>2 DEF Look
        <4>2. trig = hit
          BY <2>2, <3>2 DEF Starting
        <4>3. \A p \in PureCombos : Reads(p, Look) => p \in hit
          BY <4>1, PureHit DEF Triggered
        <4> HIDE DEF hit, trig
        <4> QED BY <4>2, <4>3
      <3> QED BY <3>1, <3>2
    <2> HIDE DEF hit, trig
    <2> QED BY <1>2, <2>1, <2>3
  <1> QED BY <1>3, <1>4

\* The bootstrap runs every block, and then looks at what they changed.
LEMMA FreshBoot ==
  ASSUME TypeOK, PhaseInv, FreshInv,
         BootCombos \/ BootReaders \/ SettleBoot \/ SettleDrives
  PROVE  FreshInv'
  <1>1. UNCHANGED <<sigs, caOverflow>>
    BY DEF BootCombos, BootReaders, SettleBoot, SettleDrives, kernel, hist
  <1>2. CASE BootCombos
    <2>1. StartRegion(<<>>, StartCombos) \/ (phase' = "bootdrives" /\ StartCombos = {})
      BY <1>2 DEF BootCombos
    <2>2. \A p \in PureCombos : p \in StartCombos
      BY PureTypes
    <2>3. CASE StartRegion(<<>>, StartCombos)
      BY <1>1, <2>2, <2>3, FreshRegion
    <2>4. CASE StartCombos = {}
      BY <2>2, <2>4 DEF FreshInv
    <2> QED BY <2>1, <2>3, <2>4
  <1>3. CASE BootReaders
    <2>1. /\ phase = "bootdrives" /\ booted' = booted /\ stage' = "boot"
          /\ \/ acc' = ca.dirty /\ \E w : StartRegion(<<>>, w)
             \/ act' = ca.dirty /\ phase' = "delta"
      BY <1>3 DEF BootReaders, extern
    <2>2. (Watched' => Watched) /\ Look = ca.dirty
      BY <1>1, <2>1 DEF Watched, NotYet, External, Externally, Look, StartRegion
    <2>3. Watched' => \A p \in PureCombos : Fresh(p, sigs) \/ Reads(p, ca.dirty)
      BY <2>1, <2>2 DEF FreshInv
    <2>4. CASE acc' = ca.dirty /\ \E w : StartRegion(<<>>, w)
      BY <1>1, <2>1, <2>3, <2>4, FreshRegion
    <2>5. CASE act' = ca.dirty /\ phase' = "delta"
      <3>1. Look' = ca.dirty
        BY <2>5 DEF Look
      <3> QED BY <1>1, <2>1, <2>2, <2>5, <3>1, FreshKept
    <2> QED BY <2>1, <2>4, <2>5
  <1>4. CASE SettleBoot
    BY <1>4 DEF SettleBoot, FreshInv, Watched, NotYet
  <1>5. CASE SettleDrives
    <2>1. /\ phase = "settle" /\ UNCHANGED <<booted, call, starting>>
          /\ \/ phase' = "idle" /\ pending = {}
             \/ phase' = "ca" /\ ca'.ret = "settlecollect" /\ ca'.dirty = pending \cup drv
      BY <1>5 DEF SettleDrives, StartCA, CAPass
    <2>2. Watched' => Watched
      BY <1>1, <2>1 DEF Watched, NotYet, External, Externally
    <2>3. Look \subseteq pending /\ (Starting => Look = {})
      BY <2>1 DEF Look
    <2>4. Look \subseteq Look'
      BY <2>1, <2>3 DEF Look, Starting
    <2> QED BY <1>1, <2>1, <2>2, <2>4, FreshKept
  <1> QED BY <1>2, <1>3, <1>4, <1>5

\* A call looks at the drives made since the last one.
LEMMA FreshCalls ==
  ASSUME TypeOK, TypeOK', Rules, Disciplined = TRUE, Orderly, BootInv, FreshInv,
         Testbench \/ UNCHANGED vars
  PROVE  FreshInv'
  <1>1. CASE CallDrive
    <2>1. PICK s \in Inputs, v \in {0, 1} : DriveSignal(s, v)
      BY <1>1 DEF CallDrive
    <2>2. sigs' = [sigs EXCEPT ![s] = v] /\ pending' = pending \cup {s}
      BY <2>1 DEF DriveSignal
    <2>3. /\ phase = "idle" /\ phase' = "idle" /\ owed' = TRUE
          /\ UNCHANGED <<caOverflow, booted>>
      BY <1>1 DEF CallDrive, Call
    <2>4. Watched' => Watched
      BY <2>3 DEF Watched, NotYet, External, Externally
    <2>5. Look \subseteq pending /\ Look' = pending'
      BY <2>3 DEF Look
    <2>6. \A p \in PureCombos : s \notin Outs(p)
      BY DEF Rules, Lawful
    <2> QED BY <2>2, <2>3, <2>4, <2>5, <2>6, FreshChange
  <1>2. CASE CallSchedule \/ UNCHANGED vars
    <2>1. /\ UNCHANGED <<sigs, caOverflow, booted, phase, owed, pending, lastRun>>
          /\ (phase # "idle" => UNCHANGED vars)
      BY <1>2 DEF CallSchedule, Call, hist, extern, vars, kernel, ctl
    <2>2. CASE phase = "idle"
      <3>1. (Watched' => Watched) /\ Look \subseteq Look'
        BY <2>1, <2>2 DEF Watched, NotYet, External, Externally, Look
      <3> QED BY <2>1, <2>2, <3>1, FreshKept
    <2>3. CASE UNCHANGED vars
      <3>1. /\ Watched' <=> Watched
            /\ Look' = Look /\ \A p : InRegion(p)' <=> InRegion(p)
        BY <2>3 DEF vars, kernel, extern, region, loop, ctl, hist, Watched, NotYet, External, Externally,
                    Full, Look, Starting, InRegion, Reads, RegionStart, Changed
      <3> QED BY <2>1, <3>1 DEF FreshInv
    <2> QED BY <2>1, <2>2, <2>3
  <1>3. CASE CallRun
    <2>1. /\ phase = "idle" /\ phase' = "launch" /\ call' = "run" /\ calls' # calls
          /\ UNCHANGED <<sigs, caOverflow, booted, lastRun, pending>>
      BY <1>3 DEF CallRun, Call, kernel, extern, TypeOK
    <2>2. Watched' => Watched /\ pending = {}
      BY <2>1 DEF Watched, NotYet, External, Externally, Orderly, Full
    <2>3. Look \subseteq pending
      BY <2>1 DEF Look
    <2> QED BY <2>1, <2>2, <2>3, FreshKept
  <1>4. CASE CallRunStep
    <2>1. /\ phase = "idle" /\ ~owed /\ UNCHANGED <<sigs, caOverflow, booted, lastRun>>
          /\ \E t : StartRegion(queue[t], {})
      BY <1>4 DEF CallRunStep, Call, StepBegin, hist, extern
    <2>2. Look = {}
      BY <2>1 DEF Look
    <2>3. Watched' => Watched
      BY <2>1 DEF Watched, NotYet, External, Externally, StartRegion
    <2>4. Watched' => \A p \in PureCombos : Fresh(p, sigs)
      BY <2>1, <2>2, <2>3 DEF FreshInv, Reads
    <2> QED BY <2>1, <2>4, FreshRegion
  <1>5. CASE CallSettle
    <2>1. /\ phase = "idle" /\ UNCHANGED <<sigs, caOverflow, pending>>
          /\ starting' = ~booted /\ booted' = TRUE
          /\ \/ phase' = "settle" /\ (booted \/ Combos = {})
             \/ phase' = "settleboot"
             \/ phase' = "ca" /\ ca'.ret = "settleboot"
      BY <1>5 DEF CallSettle, Call, StartCA, CAPass, kernel
    <2>2. CASE phase' = "settleboot" \/ (phase' = "ca" /\ ca'.ret = "settleboot")
      BY <2>2 DEF FreshInv, Watched, NotYet
    <2>3. CASE Combos = {}
      BY <2>3, PureTypes DEF FreshInv
    <2>4. CASE phase' = "settle" /\ booted
      <3>1. Watched' => Watched
        BY <2>1, <2>4 DEF Watched, NotYet, External, Externally
      <3>2. Look \subseteq pending /\ Look' = pending
        BY <2>1, <2>4 DEF Look, Starting
      <3> QED BY <2>1, <2>4, <3>1, <3>2, FreshKept
    <2> QED BY <2>1, <2>2, <2>3, <2>4
  <1> QED BY <1>1, <1>2, <1>3, <1>4, <1>5 DEF Testbench

\* The inductive invariant.
SettledInv ==
    /\ AssignInv /\ PhaseInv /\ CallInv
    /\ PlaceInv /\ BootInv /\ FollowInv /\ StableInv /\ LastInv /\ FreshInv

\* Every step keeps it.
LEMMA SettledNext ==
  ASSUME Rules, Sigs # {}, CallbackInputs = {}, Disciplined = TRUE, SettledInv, Orderly, [Next]_vars
  PROVE  SettledInv'
  <1> USE DEF SettledInv
  <1>1. AssignInv' /\ TypeOK /\ TypeOK'
    BY AssignNext DEF AssignInv
  <1>2. PhaseInv' /\ CallInv' /\ PlaceInv'
    BY <1>1, PhaseNext, CallNext, PlaceNext
  <1>3. BootInv'
    BY <1>1, BootNext
  <1>4. FollowInv'
    BY <1>1, FollowNext
  <1>5. StableInv'
    BY <1>1, StableNext
  <1>6. LastInv'
    BY <1>1, LastNext DEF PlaceInv
  <1>7. FreshInv'
    <2>1. CASE \/ CAEval \/ CAPassEnd \/ RegionEnd \/ \E p \in Procs : Execute(p)
      BY <1>1, <2>1, FreshAssigns, FreshExecute, FreshRegionEnd
    <2>2. CASE \/ Resettle \/ DeltaBegin \/ ApplyNba \/ NbaDone \/ DeltaLimitError \/ DeltaDone
               \/ WakeOne \/ WakeDone \/ CallbackQuiet \/ StepEnd
      BY <1>1, <2>2, FreshLoop DEF PlaceInv
    <2>3. CASE RunLaunch \/ ExternalDrives \/ ExternalCollect \/ BootDrives \/ FullCA \/ RunNext \/ RunReturn
      BY <1>1, <2>3, FreshRun DEF PlaceInv
    <2>4. CASE \/ Collect \/ SettleCollect \/ BootCombos \/ BootReaders \/ SettleBoot \/ SettleDrives
               \/ Testbench \/ UNCHANGED vars
      BY <1>1, <2>4, FreshCollect, FreshBoot, FreshCalls DEF PlaceInv
    <2>5. ~CallbackDrive
      BY DEF CallbackDrive
    <2> QED BY <2>1, <2>2, <2>3, <2>4, <2>5 DEF Next, Kernel, Done
  <1> QED BY <1>1, <1>2, <1>3, <1>4, <1>5, <1>6, <1>7

\* At first no call has been made.
LEMMA SettledInit ==
  ASSUME Init, Sigs # {}
  PROVE  SettledInv
  <1>1. AssignInv /\ PhaseInv /\ TypeOK
    BY AssignInit, ThreadsInit
  <1>2. CallInv
    BY DEF Init, CallInv, Looping, CAPass
  <1>3. ~booted /\ phase = "idle" /\ call = "none" /\ ~owed /\ \A s \in Sigs : lastRun[s] = NoVal
    BY DEF Init
  <1>4. ~Full
    BY <1>3 DEF Full
  <1>5. PlaceInv
    <2>1. \A p : ~InQueue(queue, p) /\ ~Occurs(Waiters(waiting), p) /\ ~Occurs(batch, p)
      BY DEF Init, InQueue, Occurs, Waiters
    <2>2. \A p \in PureCombos : pcs[p] = 0
      BY PureTypes DEF Init
    <2>3. Away(PureCombos)
      BY <2>1, <2>2 DEF Away
    <2>4. Len(<<>>) = 0 /\ 1 .. 0 = {}
      BY EmptySeq
    <2>5. AloneInv /\ WrittenInv
      BY <2>4 DEF Init, AloneInv, WrittenInv
    <2> QED BY <2>3, <2>5 DEF PlaceInv
  <1>6. BootInv
    BY <1>3, <1>4 DEF BootInv, FirstInv, SnapInv, OwedInv, StartInv, Starting, Booting, Looping, Externally
  <1>7. FollowInv /\ StableInv
    BY <1>3, FollowInit DEF StableInv, Stable
  <1>8. LastInv /\ FreshInv
    BY <1>3, <1>4 DEF LastInv, FreshInv, Watched, NotYet
  <1> QED BY <1>1, <1>2, <1>5, <1>6, <1>7, <1>8 DEF SettledInv

\* When settle() or run() returns, every always_comb block that does not read
\* its own outputs shows the value of its code: neither _collect_triggered nor
\* _bootstrap_combos nor a snapshot (_prev_signals, _settle_snapshot,
\* _last_run_signals) misses a change of what it reads.  So it is in every
\* design that keeps the rules for these blocks, under a testbench that
\* settles its drives before a run_step() or a run() with no earlier run() to
\* compare with, bootstraps before its first time step, and drives nothing in
\* the on_time_step callback.
THEOREM CombosSettledHolds ==
  ASSUME NEW out, CombRules(out), CallbackInputs = {}, Disciplined = TRUE
  PROVE  Spec /\ [][Orderly]_vars => []CombosSettled
  <1>1. Rules
    BY RulesHold
  <1>2. CASE Sigs = {}
    <2>1. CombosSettled
      BY <1>2 DEF CombosSettled, Fresh, Written
    <2> QED BY <2>1, PTL
  <1>3. CASE Sigs # {}
    <2>1. Init => SettledInv
      BY <1>3, SettledInit
    <2>2. SettledInv /\ [Next]_vars /\ [Orderly]_vars => SettledInv'
      <3>1. UNCHANGED vars => Orderly
        BY DEF vars, Orderly
      <3> QED BY <1>1, <1>3, <3>1, SettledNext
    <2>3. SettledInv => CombosSettled
      <3> SUFFICES ASSUME SettledInv, AfterSettling, ~caOverflow, NEW p \in PureCombos
                   PROVE  Fresh(p, sigs)
        BY DEF CombosSettled
      <3>1. phase = "idle" /\ booted /\ ~owed
        BY DEF AfterSettling, SettledInv, BootInv, FirstInv, OwedInv
      <3>2. Watched /\ Look = {}
        BY <3>1 DEF Watched, NotYet, External, Externally, Look
      <3> QED BY <3>1, <3>2 DEF SettledInv, FreshInv, Reads
    <2> QED BY <2>1, <2>2, <2>3, PTL DEF Spec
  <1> QED BY <1>2, <1>3

----------------------------------------------------------------------------
(* A driven edge runs its block, and once.                                 *)

\* The blocks clocked by the testbench's drives alone.
DrivenBlocks == {p \in Seqs : DrivenOnly(p)}

\* An edge that p waits for lies between the values in snap and in now.
Shows(snap, now, p) ==
    \E s \in Sigs : Edges[p][s] # "none" /\ Edges[p][s] = EdgeDirection(snap[s], now[s])

\* It is one of an input.
LEMMA ShowsInputs ==
  ASSUME NEW p \in DrivenBlocks, NEW a, NEW b, NEW u, NEW v,
         \A x \in Inputs : a[x] = b[x] /\ u[x] = v[x]
  PROVE  Shows(a, u, p) <=> Shows(b, v, p)
  <1>1. \A s \in Sigs : Edges[p][s] # "none" => s \in Inputs
    BY DEF DrivenBlocks, DrivenOnly
  <1>2. \A s \in Inputs : EdgeDirection(a[s], u[s]) = EdgeDirection(b[s], v[s])
    OBVIOUS
  <1> QED BY <1>1, <1>2 DEF Shows

\* A snapshot without a value, or with the present one, shows no edge.
Level(snap) == \A x \in Inputs : snap[x] \in {NoVal, sigs[x]}

LEMMA LevelNoEdge ==
  ASSUME TypeOK, NEW p \in DrivenBlocks, NEW a, Level(a)
  PROVE  ~Shows(a, sigs, p)
  <1>1. \A s \in Sigs : Edges[p][s] # "none" => s \in Inputs
    BY DEF DrivenBlocks, DrivenOnly
  <1>2. \A v \in Val : EdgeDirection(v, v) = "none" /\ EdgeDirection(NoVal, v) = "none"
    BY DEF EdgeDirection, Val, NoVal, X
  <1>3. \A s \in Sigs : sigs[s] \in Val
    BY DEF TypeOK, KernelOK
  <1> QED BY <1>1, <1>2, <1>3 DEF Shows, Level

\* A block of the design's that it concerns.
LEMMA DrivenStays ==
  ASSUME DriveRules
  PROVE  \A p \in DrivenBlocks : Stays(p) /\ p \in Seqs /\ p \notin Combos
  BY ProcessAssumption, PureTypes DEF DriveRules, DrivenBlocks, Stays, Coroutines

\* No NBA will write an input.
NbaQuiet == \A k \in 1 .. Len(nba) : nba[k][1] \notin Inputs

\* Nor does an activation.
LEMMA ActivationQuiet ==
  ASSUME TypeOK, DriveRules, NEW q \in Procs
  PROVE  /\ Written(Activation(q)) \cap Inputs = {}
         /\ \A k \in 1 .. Len(Activation(q).nba) : Activation(q).nba[k][1] \notin Inputs
  <1>1. CASE pcs[q] = Dead
    <2>1. Activation(q).nba = <<>> /\ \A x \in Sigs : Activation(q).wr[x] = NoVal
      BY <1>1 DEF Activation, Exhausted
    <2>2. Len(<<>>) = 0 /\ 1 .. 0 = {}
      BY EmptySeq
    <2> QED BY <2>1, <2>2 DEF Written
  <1>2. CASE pcs[q] # Dead
    <2>1. pcs[q] \in Pc /\ sigs \in [Sigs -> Val] /\ Activation(q) = Exec(q, pcs[q], sigs)
      BY <1>2 DEF TypeOK, KernelOK, Activation
    <2> QED BY <2>1 DEF DriveRules
  <1> QED BY <1>1, <1>2

\* So only drive_signal() changes an input.
LEMMA InputsKept ==
  ASSUME TypeOK, DriveRules, CallbackInputs = {}, NbaQuiet, [Next]_vars, ~CallDrive
  PROVE  NbaQuiet' /\ \A x \in Inputs : sigs'[x] = sigs[x]
  <1>1. ASSUME NEW q \in Procs, Execute(q)
        PROVE  NbaQuiet' /\ \A x \in Inputs : sigs'[x] = sigs[x]
    <2> DEFINE r == Activation(q)
    <2>1. r \in Outcome /\ Written(r) \cap Inputs = {} /\ \A k \in 1 .. Len(r.nba) : r.nba[k][1] \notin Inputs
      BY ActivationType, ActivationQuiet
    <2>2. /\ sigs' = [s \in Sigs |-> IF s \in Written(r) THEN r.wr[s] ELSE sigs[s]]
          /\ nba' = nba \o r.nba
      BY <1>1 DEF Execute
    <2>3. nba \in Seq(Sigs \X Val) /\ r.nba \in Seq(Sigs \X Val)
      BY <2>1 DEF TypeOK, KernelOK, Outcome
    <2>4. /\ Len(nba) \in Nat /\ Len(r.nba) \in Nat
          /\ Len(nba') = Len(nba) + Len(r.nba)
          /\ \A k \in 1 .. Len(nba) + Len(r.nba) :
                nba'[k] = IF k <= Len(nba) THEN nba[k] ELSE r.nba[k - Len(nba)]
      BY <2>2, <2>3, ConcatProperties, LenProperties
    <2>5. \A x \in Inputs : sigs'[x] = sigs[x]
      BY <2>1, <2>2, DesignAssumption
    <2> HIDE DEF r
    <2>6. ASSUME NEW k \in 1 .. Len(nba') PROVE nba'[k][1] \notin Inputs
      <3>1. CASE k <= Len(nba)
        <4>1. k \in 1 .. Len(nba) /\ nba'[k] = nba[k]
          BY <2>4, <3>1
        <4> QED BY <4>1 DEF NbaQuiet
      <3>2. CASE ~(k <= Len(nba))
        <4>1. k - Len(nba) \in 1 .. Len(r.nba) /\ nba'[k] = r.nba[k - Len(nba)]
          BY <2>4, <3>2
        <4> QED BY <2>1, <4>1
      <3> QED BY <3>1, <3>2
    <2> QED BY <2>5, <2>6 DEF NbaQuiet
  <1>2. CASE ApplyNba
    <2>1. /\ nba' = Tail(nba) /\ nba # <<>> /\ nba \in Seq(Sigs \X Val)
          /\ sigs' = [sigs EXCEPT ![Head(nba)[1]] = Head(nba)[2]]
      BY <1>2 DEF ApplyNba, TypeOK, KernelOK
    <2>2. /\ Len(nba) \in Nat \ {0} /\ Len(Tail(nba)) = Len(nba) - 1 /\ Head(nba) = nba[1]
          /\ \A k \in 1 .. Len(Tail(nba)) : Tail(nba)[k] = nba[k + 1]
      BY <2>1, HeadTailProperties, EmptySeq
    <2>3. \A k \in 1 .. Len(nba') : k + 1 \in 1 .. Len(nba) /\ nba'[k] = nba[k + 1]
      BY <2>1, <2>2
    <2>4. Head(nba)[1] \notin Inputs
      BY <2>2 DEF NbaQuiet
    <2>5. \A x \in Inputs : sigs'[x] = sigs[x]
      BY <2>1, <2>4, DesignAssumption DEF TypeOK, KernelOK
    <2> QED BY <2>3, <2>5 DEF NbaQuiet
  <1>3. CASE CAEval
    <2>1. /\ nba' = nba /\ ca.pos \in 1 .. NCA
          /\ \/ sigs' = sigs
             \/ sigs' = [sigs EXCEPT ![CALhs[ca.pos]] = Rhs(ca.pos, sigs)]
      BY <1>3, DesignAssumption DEF CAEval, TypeOK, CaOK
    <2>2. CALhs[ca.pos] \notin Inputs
      BY <2>1, DriverAssumption DEF Wires
    <2>3. \A x \in Inputs : sigs'[x] = sigs[x]
      BY <2>1, <2>2, DesignAssumption DEF TypeOK, KernelOK
    <2> QED BY <2>1, <2>3 DEF NbaQuiet
  <1>4. CASE \/ CAPassEnd \/ RegionEnd \/ Resettle \/ DeltaBegin \/ NbaDone \/ DeltaLimitError \/ Collect
             \/ DeltaDone \/ WakeOne \/ WakeDone \/ CallbackQuiet \/ StepEnd \/ RunLaunch
             \/ ExternalDrives \/ ExternalCollect \/ BootDrives \/ FullCA \/ BootCombos \/ BootReaders
             \/ RunNext \/ RunReturn \/ SettleBoot \/ SettleDrives \/ SettleCollect
             \/ CallSchedule \/ CallRun \/ CallRunStep \/ CallSettle \/ UNCHANGED vars
    <2>1. UNCHANGED <<sigs, nba>>
      BY <1>4 DEF CAPassEnd, RegionEnd, Resettle, DeltaBegin, NbaDone, DeltaLimitError, Collect,
           DeltaDone, WakeOne, WakeDone, CallbackQuiet, StepEnd, RunLaunch, ExternalDrives,
           ExternalCollect, BootDrives, FullCA, BootCombos, BootReaders, RunNext, StepBegin, RunReturn,
           SettleBoot, SettleDrives, SettleCollect, CallSchedule, CallRun, CallRunStep, CallSettle,
           vars, kernel
    <2> QED BY <2>1 DEF NbaQuiet
  <1>5. ~CallbackDrive
    BY DEF CallbackDrive
  <1> QED BY <1>1, <1>2, <1>3, <1>4, <1>5 DEF Next, Kernel, Testbench, Done

\* The drives of a settle() are in the hands of its detection.
Collecting == phase = "settlecollect" \/ (phase = "ca" /\ ca.ret = "settlecollect")
\* They have not reached it.
Asking == call = "settle" /\ (phase = "settle" \/ Booting)
\* A detection may follow that compares with the snapshot of the loop.
Detecting == Booting \/ Looping \/ (phase = "ca" /\ ca.ret = "bootcombos")

\* The loops stay in these stages, up to an error.
LEMMA LoopSteps ==
  ASSUME TypeOK, PhaseInv, CallInv, BootInv,
         \/ CAEval \/ CAPassEnd \/ RegionEnd \/ Resettle
         \/ \E p \in Procs : Execute(p)
         \/ DeltaBegin \/ ApplyNba \/ NbaDone \/ DeltaLimitError \/ Collect
         \/ WakeOne \/ WakeDone \/ CallbackQuiet
  PROVE  /\ UNCHANGED <<pending, settleSnap, lastRun, booted, owed, base, call, starting, prev>>
         /\ phase \notin {"idle", "launch", "settle", "error"} /\ phase' \notin {"idle", "launch", "settle"}
         /\ Externally' <=> Externally
         /\ Collecting' <=> Collecting
         /\ phase' # "error" => (Asking' <=> Asking)
         /\ Asking' => Asking
         /\ Detecting' => Detecting
  <1> USE DEF Externally, Collecting, Asking, Detecting, Booting, Looping
  <1>1. CASE CAEval
    <2>1. phase = "ca" /\ UNCHANGED <<phase, stage>> /\ ca'.ret = ca.ret
          /\ UNCHANGED <<pending, settleSnap, lastRun, booted, owed, base, call, starting, prev>>
      BY <1>1 DEF CAEval, ctl, extern, hist, detect
    <2> QED BY <2>1
  <1>2. CASE CAPassEnd
    <2>1. /\ phase = "ca" /\ stage' = stage
          /\ UNCHANGED <<pending, settleSnap, lastRun, booted, owed, base, call, starting, prev>>
          /\ \/ phase' = "ca" /\ ca'.ret = ca.ret
             \/ phase' = ca.ret /\ ca' = ca
      BY <1>2 DEF CAPassEnd, CAPass, extern, detect
    <2>2. ca.ret \in Returns \ {"idle", "stepend"}
      BY <2>1 DEF TypeOK, CaOK, PhaseInv, BootInv, StartInv
    <2>3. ca.ret = "bootcombos" => call # "settle"
      BY <2>1 DEF BootInv, StartInv
    <2> QED BY <2>1, <2>2, <2>3 DEF Returns
  <1>3. CASE RegionEnd \/ Resettle \/ DeltaBegin \/ NbaDone \/ DeltaLimitError
    <2>1. UNCHANGED <<pending, settleSnap, lastRun, booted, owed, base, call, starting, prev, stage>>
      BY <1>3 DEF RegionEnd, Resettle, DeltaBegin, NbaDone, DeltaLimitError, extern, hist, detect
    <2>2. /\ phase \in {"exec", "resettle", "delta", "nba"}
          /\ \/ phase' \in {"nba", "error"} /\ phase = "delta"
             \/ /\ phase' = "ca" /\ ca'.ret \in {"bootdrives", "resettle", "delta", "collect"}
                /\ ca'.ret = "bootdrives" <=> phase = "exec" /\ stage = "start"
      BY <1>3 DEF RegionEnd, Resettle, DeltaBegin, NbaDone, DeltaLimitError, StartCA, CAPass
    <2>3. phase = "exec" \/ stage # "start"
      BY <2>2 DEF BootInv, StartInv
    <2> QED BY <2>1, <2>2, <2>3
  <1>4. CASE (\E p \in Procs : Execute(p)) \/ ApplyNba \/ WakeOne
    <2>1. phase \in {"exec", "nba", "wake"} /\ UNCHANGED <<phase, stage>>
          /\ UNCHANGED <<pending, settleSnap, lastRun, booted, owed, base, call, starting, prev>>
      BY <1>4 DEF Execute, ApplyNba, WakeOne, ctl, extern, hist, detect
    <2> QED BY <2>1
  <1>5. CASE Collect
    <2>1. phase = "collect" /\ phase' \in {"exec", "delta"} /\ stage' = stage
          /\ UNCHANGED <<pending, settleSnap, lastRun, booted, owed, base, call, starting, prev>>
      BY <1>5 DEF Collect, CollectTriggered, StartRegion, extern, hist
    <2>2. stage # "start"
      BY <2>1 DEF BootInv, StartInv
    <2> QED BY <2>1, <2>2
  <1>6. CASE WakeDone \/ CallbackQuiet
    <2>1. UNCHANGED <<pending, settleSnap, lastRun, booted, owed, base, call, starting, prev, stage>>
      BY <1>6 DEF WakeDone, CallbackQuiet, extern, hist, detect
    <2>2. \/ phase = "wake" /\ phase' \in {"callback", "boot"}
          \/ phase = "callback" /\ phase' = "stepend"
      BY <1>6 DEF WakeDone, CallbackQuiet
    <2>3. phase = "wake" => stage \in {"step", "ext"}
      BY DEF CallInv
    <2> QED BY <2>1, <2>2, <2>3
  <1> QED BY <1>1, <1>2, <1>3, <1>4, <1>5, <1>6

\* The testbench: before the bootstrap it takes no time step, and it either
\* never settles, or settles its drives before a run() too.
Keeping(settles) ==
    phase = "idle" /\ calls' # calls =>
        /\ call' = "run_step" => booted
        /\ ~settles => call' # "settle"
        /\ settles /\ call' = "run" => pending = {}

\* A testbench that never settles leaves its drives to the next run(), which
\* compares with the last one.
RunsInv ==
    /\ call # "settle"
    /\ phase = "idle" /\ ~owed => Level(lastRun)
    /\ phase = "idle" /\ booted => Full

\* One that settles has drives pending for that call alone.
SettlesInv ==
    /\ phase = "idle" => (owed <=> pending # {})
    /\ pending # {} /\ phase \notin {"idle", "error"} => Asking
    /\ pending = {} /\ (phase \in {"idle", "launch"} \/ Asking) => Level(lastRun)

TestInv(settles) ==
    /\ phase # "idle" => ~owed
    /\ IF settles THEN SettlesInv ELSE RunsInv

\* The rules that CombosSettled needs of it follow.
LEMMA KeepingOrderly ==
  ASSUME NEW settles \in BOOLEAN, TestInv(settles), Keeping(settles)
  PROVE  Orderly
  BY DEF TestInv, RunsInv, Keeping, Orderly

\* The loops leave the drives and the snapshots alone.
LEMMA TestLoop ==
  ASSUME TypeOK, Sigs # {}, PhaseInv, CallInv, BootInv, NEW settles \in BOOLEAN, TestInv(settles),
         \A x \in Inputs : sigs'[x] = sigs[x],
         \/ CAEval \/ CAPassEnd \/ RegionEnd \/ Resettle
         \/ \E p \in Procs : Execute(p)
         \/ DeltaBegin \/ ApplyNba \/ NbaDone \/ DeltaLimitError \/ Collect
         \/ WakeOne \/ WakeDone \/ CallbackQuiet
  PROVE  TestInv(settles)'
  <1>1. /\ UNCHANGED <<pending, lastRun, booted, owed, call>>
        /\ phase \notin {"idle", "error"} /\ phase' \notin {"idle", "launch"}
        /\ phase' # "error" => (Asking' <=> Asking)
        /\ Asking' => Asking
    BY LoopSteps
  <1>2. Level(lastRun) => Level(lastRun)'
    BY <1>1 DEF Level
  <1> QED BY <1>1, <1>2 DEF TestInv, RunsInv, SettlesInv

\* A call that returns renews the snapshot, or has none to renew.
LEMMA TestEnds ==
  ASSUME TypeOK, Sigs # {}, PhaseInv, CallInv, BootInv, NEW settles \in BOOLEAN, TestInv(settles),
         DeltaDone \/ StepEnd \/ RunReturn \/ SettleCollect \/ SettleDrives
  PROVE  TestInv(settles)'
  <1> USE DEF TestInv, Asking, Booting, Looping
  <1>1. UNCHANGED <<sigs, call, owed, booted>> /\ phase \notin {"idle", "error"}
    BY DEF DeltaDone, StepEnd, RunReturn, SettleCollect, SettleDrives, kernel, hist, extern
  <1>2. lastRun' = sigs => Level(lastRun)' /\ Full'
    BY <1>1, SnapshotWhole DEF Level
  <1>3. lastRun' = lastRun => (Level(lastRun)' <=> Level(lastRun))
    BY <1>1 DEF Level
  <1>4. CASE DeltaDone
    <2>1. /\ phase = "delta" /\ UNCHANGED <<stage, pending>>
          /\ \/ phase' = "wake" /\ lastRun' = lastRun /\ stage \in {"step", "ext"}
             \/ phase' = "next" /\ lastRun' = lastRun /\ call = "run" /\ stage = "boot"
             \/ phase' = "settle" /\ lastRun' = lastRun /\ call = "settle" /\ stage = "boot"
             \/ phase' = "idle" /\ lastRun' = sigs /\ stage = "settle"
      BY <1>4 DEF DeltaDone
    <2> QED BY <1>1, <1>2, <1>3, <2>1 DEF RunsInv, SettlesInv
  <1>5. CASE StepEnd \/ RunReturn
    <2>1. /\ phase \in {"stepend", "next"} /\ UNCHANGED <<stage, pending>>
          /\ \/ phase' = "next" /\ lastRun' = lastRun
             \/ phase' = "idle" /\ lastRun' = sigs
      BY <1>5 DEF StepEnd, RunReturn
    <2> QED BY <1>1, <1>2, <1>3, <2>1 DEF RunsInv, SettlesInv
  <1>6. CASE SettleCollect
    <2>1. /\ phase = "settlecollect" /\ stage' = "settle" /\ pending' = pending
          /\ \/ phase' = "exec" /\ lastRun' = lastRun
             \/ phase' = "idle" /\ lastRun' = sigs
      BY <1>6 DEF SettleCollect, StartRegion
    <2> QED BY <1>1, <1>2, <1>3, <2>1 DEF RunsInv, SettlesInv
  <1>7. CASE SettleDrives
    <2>1. /\ phase = "settle" /\ stage' = stage /\ pending' = {} /\ lastRun' = lastRun
          /\ \/ phase' = "idle" /\ pending = {}
             \/ phase' = "ca" /\ ca'.ret = "settlecollect"
      BY <1>7 DEF SettleDrives, StartCA, CAPass
    <2>2. call = "settle"
      BY <2>1 DEF PhaseInv, Settling
    <2> QED BY <1>1, <1>3, <2>1, <2>2 DEF RunsInv, SettlesInv
  <1> QED BY <1>4, <1>5, <1>6, <1>7

\* run() goes on with the drives it found.
LEMMA TestRun ==
  ASSUME TypeOK, Sigs # {}, PhaseInv, CallInv, BootInv, NEW settles \in BOOLEAN, TestInv(settles),
         \/ RunLaunch \/ ExternalDrives \/ ExternalCollect \/ BootDrives \/ FullCA \/ BootCombos
         \/ BootReaders \/ RunNext \/ SettleBoot
  PROVE  TestInv(settles)'
  <1> USE DEF TestInv, Asking, Booting, Looping, RunsInv, SettlesInv
  <1>1. UNCHANGED <<sigs, call, owed, lastRun>>
    BY DEF RunLaunch, ExternalDrives, ExternalCollect, BootDrives, FullCA, BootCombos, BootReaders,
           RunNext, StepBegin, SettleBoot, kernel, hist, extern
  <1>2. Level(lastRun)' <=> Level(lastRun)
    BY <1>1 DEF Level
  <1>3. CASE RunLaunch \/ ExternalDrives
    <2>1. /\ phase = "launch" /\ pending' = pending
          /\ phase' \in {"launch", "boot", "ca"} /\ (phase' = "ca" => ca'.ret = "extcollect")
      BY <1>3 DEF RunLaunch, ExternalDrives, StartCA, CAPass, extern
    <2>2. call = "run"
      BY <2>1 DEF PhaseInv
    <2> QED BY <1>1, <1>2, <2>1, <2>2
  <1>4. CASE ExternalCollect
    <2>1. /\ phase = "extcollect" /\ pending' = pending
          /\ phase' \in {"boot", "exec", "wake"}
      BY <1>4 DEF ExternalCollect, StartRegion, extern
    <2>2. call = "run"
      BY <2>1 DEF CallInv
    <2> QED BY <1>1, <1>2, <2>1, <2>2
  <1>5. CASE BootDrives \/ FullCA \/ RunNext
    <2>1. /\ phase \in {"boot", "fullca", "next"} /\ pending' \in {pending, {}}
          /\ phase' \in {"fullca", "ca", "exec"}
      BY <1>5 DEF BootDrives, FullCA, RunNext, StepBegin, StartRegion, StartCA, extern
    <2>2. call = "run"
      BY <2>1 DEF BootInv, StartInv
    <2> QED BY <1>1, <1>2, <2>1, <2>2
  <1>6. CASE BootCombos \/ BootReaders \/ SettleBoot
    <2>1. /\ phase \in {"bootcombos", "bootdrives", "settleboot"} /\ pending' = pending
          /\ \/ phase' \in {"bootdrives", "bootcombos"}
             \/ phase' = "exec" /\ stage' \in {"start", "boot"}
             \/ phase' = "delta" /\ stage' = "boot"
      BY <1>6 DEF BootCombos, BootReaders, SettleBoot, StartRegion, extern
    <2> QED BY <1>1, <1>2, <2>1
  <1> QED BY <1>3, <1>4, <1>5, <1>6

\* The testbench drives and calls by its rules.
LEMMA TestCalls ==
  ASSUME TypeOK, Sigs # {}, Disciplined = TRUE, NEW settles \in BOOLEAN, TestInv(settles), Keeping(settles),
         Testbench \/ UNCHANGED vars
  PROVE  TestInv(settles)'
  <1> USE DEF TestInv, Asking, Booting, Looping, RunsInv, SettlesInv
  <1>1. lastRun' = lastRun
    BY DEF Testbench, CallDrive, CallSchedule, CallRun, CallRunStep, StepBegin, CallSettle, vars, extern
  <1>2. sigs' = sigs => (Level(lastRun)' <=> Level(lastRun))
    BY <1>1 DEF Level
  <1>3. Full' <=> Full
    BY <1>1 DEF Full
  <1>4. CASE CallDrive
    <2>1. /\ phase = "idle" /\ phase' = "idle" /\ call' = "drive" /\ owed' = TRUE /\ booted' = booted
          /\ pending' # {}
      BY <1>4 DEF CallDrive, Call, DriveSignal
    <2> QED BY <1>3, <2>1
  <1>5. CASE CallSchedule
    <2>1. /\ phase = "idle" /\ phase' = "idle" /\ call' = "schedule"
          /\ UNCHANGED <<owed, booted, pending, sigs>>
      BY <1>5 DEF CallSchedule, Call, extern, hist
    <2> QED BY <1>2, <1>3, <2>1
  <1>6. CASE CallRun
    <2>1. /\ phase = "idle" /\ phase' = "launch" /\ call' = "run" /\ owed' = FALSE
          /\ UNCHANGED <<booted, pending, sigs>> /\ calls' # calls
      BY <1>6 DEF CallRun, Call, extern, kernel, TypeOK
    <2> QED BY <1>2, <1>3, <2>1 DEF Keeping
  <1>7. CASE CallRunStep
    <2>1. /\ phase = "idle" /\ ~owed /\ phase' = "exec" /\ stage' = "step" /\ call' = "run_step"
          /\ UNCHANGED <<owed, booted, pending, sigs>>
      BY <1>7 DEF CallRunStep, Call, StepBegin, StartRegion, extern, hist
    <2> QED BY <1>2, <1>3, <2>1
  <1>8. CASE CallSettle
    <2>1. /\ phase = "idle" /\ call' = "settle" /\ owed' = FALSE
          /\ UNCHANGED <<pending, sigs>> /\ calls' # calls
          /\ \/ phase' \in {"settle", "settleboot"}
             \/ phase' = "ca" /\ ca'.ret = "settleboot"
      BY <1>8 DEF CallSettle, Call, StartCA, CAPass, kernel, TypeOK
    <2> QED BY <1>2, <1>3, <2>1 DEF Keeping
  <1>9. CASE UNCHANGED vars
    <2>1. UNCHANGED <<phase, call, owed, stage, booted, pending, sigs, ca>>
      BY <1>9 DEF vars, ctl, hist, extern, kernel
    <2> QED BY <1>2, <1>3, <2>1
  <1> QED BY <1>4, <1>5, <1>6, <1>7, <1>8, <1>9 DEF Testbench

\* Every step of such a testbench keeps it so.
LEMMA TestNext ==
  ASSUME TypeOK, Sigs # {}, DriveRules, CallbackInputs = {}, Disciplined = TRUE, PhaseInv, CallInv, BootInv,
         NbaQuiet, NEW settles \in BOOLEAN, TestInv(settles), Keeping(settles), [Next]_vars
  PROVE  TestInv(settles)'
  <1>1. CASE \/ CAEval \/ CAPassEnd \/ RegionEnd \/ Resettle
             \/ \E p \in Procs : Execute(p)
             \/ DeltaBegin \/ ApplyNba \/ NbaDone \/ DeltaLimitError \/ Collect
             \/ WakeOne \/ WakeDone \/ CallbackQuiet
    <2>1. ~CallDrive
      <3>1. phase # "idle"
        BY <1>1, LoopSteps
      <3> QED BY <3>1 DEF CallDrive, Call
    <2> QED BY <1>1, <2>1, InputsKept, TestLoop
  <1>2. CASE DeltaDone \/ StepEnd \/ RunReturn \/ SettleCollect \/ SettleDrives
    BY <1>2, TestEnds
  <1>3. CASE \/ RunLaunch \/ ExternalDrives \/ ExternalCollect \/ BootDrives \/ FullCA \/ BootCombos
             \/ BootReaders \/ RunNext \/ SettleBoot
    BY <1>3, TestRun
  <1>4. CASE Testbench \/ UNCHANGED vars
    BY <1>4, TestCalls
  <1>5. ~CallbackDrive
    BY DEF CallbackDrive
  <1> QED BY <1>1, <1>2, <1>3, <1>4, <1>5 DEF Next, Kernel, Done

\* The snapshot that the drives still to be detected will be compared with.
Nothing == [s \in Sigs |-> NoVal]
Against(settles) ==
    CASE phase = "launch" \/ Externally \/ (phase = "idle" /\ ~settles) -> lastRun
      [] phase = "idle" /\ settles /\ booted /\ pending # {}            -> settleSnap
      [] phase = "settle" /\ ~starting /\ pending # {}                  -> settleSnap
      [] Collecting                                                     -> prev
      [] OTHER                                                          -> Nothing

\* An edge that a detection of this loop would find has run its block; what
\* the detection of a settle() is given holds every input that was driven.
DetectInv ==
    /\ Detecting => \A p \in DrivenBlocks : Shows(prev, sigs, p) => p \in trigSeq
    /\ Collecting => trigSeq = {} /\ \A x \in Inputs : prev[x] # sigs[x] => x \in ca.dirty
    /\ pending # {} => \A x \in Inputs : settleSnap[x] # sigs[x] => x \in pending

\* Before the bootstrap a drive is no edge; after it the first drive since the
\* last settle() or run() took the snapshot that all are compared with.
BaseInv(settles) ==
    /\ ~booted => \A x \in Inputs : base[x] = NoVal /\ prev[x] = NoVal
    /\ phase = "idle" /\ owed /\ booted => \A x \in Inputs : Against(settles)[x] = base[x]

\* A driven edge is one that the block has run for, or will in this region, or
\* that a detection is still to find: exactly one of these, and only then.
One(b) == IF b THEN 1 ELSE 0
Balance(settles) ==
    \A p \in DrivenBlocks :
        fires[p] + One(p \in woken) + One(Shows(Against(settles), sigs, p)) = One(Shows(base, sigs, p))

\* The snapshots have values of the signals, or none.
LEMMA AgainstType ==
  ASSUME TypeOK, NEW settles \in BOOLEAN
  PROVE  Against(settles) \in Snapshot /\ (Against(settles) = Nothing => Level(Against(settles)))
  <1>1. lastRun \in Snapshot /\ settleSnap \in Snapshot /\ prev \in Snapshot /\ Nothing \in Snapshot
    BY DEF TypeOK, ExternOK, DetectOK, Snapshot, Nothing
  <1>2. Level(Nothing)
    BY DesignAssumption DEF Level, Nothing
  <1> QED BY <1>1, <1>2 DEF Against

\* The equation holds on where a step neither runs a block nor detects.
LEMMA BalanceKept ==
  ASSUME TypeOK, NEW settles \in BOOLEAN, Balance(settles),
         \A x \in Inputs : sigs'[x] = sigs[x],
         UNCHANGED <<base, fires>>,
         woken' \cap DrivenBlocks = woken \cap DrivenBlocks,
         \/ Against(settles)' = Against(settles)
         \/ Level(Against(settles)) /\ \A x \in Inputs : Against(settles)'[x] \in {NoVal, sigs[x]}
  PROVE  Balance(settles)'
  <1> DEFINE a == Against(settles)
             b == Against(settles)'
  <1>1. ASSUME NEW p \in DrivenBlocks
        PROVE  /\ Shows(b, sigs', p) <=> Shows(a, sigs, p)
               /\ Shows(base', sigs', p) <=> Shows(base, sigs, p)
    <2>1. Shows(b, sigs', p) <=> Shows(b, sigs, p)
      <3> HIDE DEF b
      <3> QED BY ShowsInputs
    <2>2. Shows(base', sigs', p) <=> Shows(base, sigs, p)
      BY ShowsInputs
    <2>3. CASE b = a
      BY <2>1, <2>2, <2>3
    <2>4. CASE Level(a) /\ \A x \in Inputs : b[x] \in {NoVal, sigs[x]}
      <3> HIDE DEF a, b
      <3>1. Level(b) /\ Level(a)
        BY <2>4 DEF Level
      <3>2. ~Shows(a, sigs, p) /\ ~Shows(b, sigs, p)
        BY <3>1, LevelNoEdge
      <3> QED BY <2>1, <2>2, <3>2
    <2> QED BY <2>3, <2>4
  <1> HIDE DEF a, b
  <1>2. \A p \in DrivenBlocks : (p \in woken' <=> p \in woken) /\ fires'[p] = fires[p]
    OBVIOUS
  <1>3. ASSUME NEW p \in DrivenBlocks
        PROVE  fires'[p] + One(p \in woken') + One(Shows(b, sigs', p)) = One(Shows(base', sigs', p))
    <2>1. fires[p] + One(p \in woken) + One(Shows(a, sigs, p)) = One(Shows(base, sigs, p))
      BY DEF Balance, a
    <2> QED BY <1>1, <1>2, <2>1 DEF One
  <1> QED BY <1>3 DEF Balance, b

\* Inside the loops the snapshot stays.
LEMMA AgainstLoop ==
  ASSUME TypeOK, PhaseInv, CallInv, BootInv, NEW settles \in BOOLEAN,
         \/ CAEval \/ CAPassEnd \/ RegionEnd \/ Resettle
         \/ \E p \in Procs : Execute(p)
         \/ DeltaBegin \/ ApplyNba \/ NbaDone \/ DeltaLimitError \/ Collect
         \/ WakeOne \/ WakeDone \/ CallbackQuiet
  PROVE  Against(settles)' = Against(settles)
  <1>1. /\ UNCHANGED <<pending, settleSnap, lastRun, booted, starting, prev>>
        /\ phase \notin {"idle", "launch", "settle"} /\ phase' \notin {"idle", "launch", "settle"}
        /\ Externally' <=> Externally
        /\ Collecting' <=> Collecting
    BY LoopSteps
  <1>2. Nothing' = Nothing
    BY DEF Nothing
  <1> QED BY <1>1, <1>2 DEF Against

\* A block that runs was woken, and is woken no more.
LEMMA BalanceExecute ==
  ASSUME TypeOK, DriveRules, PhaseInv, CallInv, BootInv, Away(DrivenBlocks),
         NEW settles \in BOOLEAN, Balance(settles), \A x \in Inputs : sigs'[x] = sigs[x],
         NEW q \in Procs, Execute(q)
  PROVE  Balance(settles)'
  <1>1. Against(settles)' = Against(settles) /\ base' = base
    BY AgainstLoop DEF Execute
  <1>2. CASE q \in DrivenBlocks
    <2>1. q \in Seqs /\ batch = <<>> /\ q \in woken
      BY <1>2, DrivenStays, EndsInPlace
    <2>2. woken' = woken \ {q} /\ fires' = [fires EXCEPT ![q] = IF @ < 2 THEN @ + 1 ELSE @]
      BY <2>1 DEF Execute
    <2>3. fires \in [Seqs -> 0 .. 2]
      BY DEF TypeOK, HistOK
    <2>4. ASSUME NEW p \in DrivenBlocks
          PROVE  fires'[p] + One(p \in woken') + One(Shows(Against(settles)', sigs', p)) = One(Shows(base', sigs', p))
      <3>1. /\ Shows(Against(settles), sigs', p) <=> Shows(Against(settles), sigs, p)
            /\ Shows(base, sigs', p) <=> Shows(base, sigs, p)
        BY ShowsInputs
      <3>2. fires[p] + One(p \in woken) + One(Shows(Against(settles), sigs, p)) = One(Shows(base, sigs, p))
        BY DEF Balance
      <3>3. p \in Seqs /\ fires[p] \in 0 .. 2
        BY <2>3, DrivenStays
      <3>4. fires'[p] + One(p \in woken') = fires[p] + One(p \in woken)
        <4>1. CASE p = q
          <5>1. fires[p] < 2
            BY <2>1, <3>2, <3>3, <4>1 DEF One
          <5> QED BY <2>1, <2>2, <2>3, <3>3, <4>1, <5>1 DEF One
        <4>2. CASE p # q
          <5>1. fires'[p] = fires[p] /\ (p \in woken' <=> p \in woken)
            BY <2>2, <2>3, <3>3, <4>2
          <5> QED BY <5>1 DEF One
        <4> QED BY <4>1, <4>2
      <3>5. Against(settles)' = Against(settles) /\ base' = base
        BY <1>1
      <3> QED BY <3>1, <3>2, <3>4, <3>5 DEF One
    <2> QED BY <2>4 DEF Balance
  <1>3. CASE q \notin DrivenBlocks
    <2>1. woken' \cap DrivenBlocks = woken \cap DrivenBlocks
      BY <1>3 DEF Execute
    <2>2. fires \in [Seqs -> 0 .. 2]
      BY DEF TypeOK, HistOK
    <2>3. \A p \in DrivenBlocks : fires'[p] = fires[p]
      BY <1>3, <2>2, DrivenStays DEF Execute
    <2>4. ASSUME NEW p \in DrivenBlocks
          PROVE  fires'[p] + One(p \in woken') + One(Shows(Against(settles)', sigs', p)) = One(Shows(base', sigs', p))
      <3>1. /\ Shows(Against(settles), sigs', p) <=> Shows(Against(settles), sigs, p)
            /\ Shows(base, sigs', p) <=> Shows(base, sigs, p)
        BY ShowsInputs
      <3>2. fires[p] + One(p \in woken) + One(Shows(Against(settles), sigs, p)) = One(Shows(base, sigs, p))
        BY DEF Balance
      <3>3. (p \in woken' <=> p \in woken) /\ fires'[p] = fires[p]
        BY <2>1, <2>3
      <3>4. Against(settles)' = Against(settles) /\ base' = base
        BY <1>1
      <3> QED BY <3>1, <3>2, <3>3, <3>4 DEF One
    <2> QED BY <2>4 DEF Balance
  <1> QED BY <1>2, <1>3

\* In the loops no block is woken again for an edge that it has run for.
LEMMA BalanceLoop ==
  ASSUME TypeOK, DriveRules, PhaseInv, CallInv, CompleteInv, BootInv, Away(DrivenBlocks), DetectInv,
         NEW settles \in BOOLEAN, Balance(settles), \A x \in Inputs : sigs'[x] = sigs[x],
         \/ CAEval \/ CAPassEnd \/ RegionEnd \/ Resettle
         \/ \E p \in Procs : Execute(p)
         \/ DeltaBegin \/ ApplyNba \/ NbaDone \/ DeltaLimitError \/ Collect
         \/ WakeOne \/ WakeDone \/ CallbackQuiet
  PROVE  Balance(settles)'
  <1>1. Against(settles)' = Against(settles)
    BY AgainstLoop
  <1>2. CASE ~Collect /\ ~\E p \in Procs : Execute(p)
    <2>1. UNCHANGED <<base, fires, woken>>
      BY <1>2 DEF CAEval, CAPassEnd, RegionEnd, Resettle, DeltaBegin, ApplyNba, NbaDone, DeltaLimitError,
           WakeOne, WakeDone, CallbackQuiet, region, hist
    <2> QED BY <1>1, <2>1, BalanceKept
  <1>3. CASE Collect
    <2>1. phase = "collect" /\ woken = {} /\ UNCHANGED <<base, fires>>
      BY <1>3 DEF Collect, CompleteInv, RegionsInv, hist
    <2>2. woken' = {} \/ woken' = Triggered(act \cup ca.dirty, ca.dirty, prev, edgeChanged, trigSeq)
      BY <1>3, <2>1 DEF Collect, StartRegion, region
    <2>3. ASSUME NEW p \in DrivenBlocks
          PROVE  p \notin Triggered(act \cup ca.dirty, ca.dirty, prev, edgeChanged, trigSeq)
      <3>1. Shows(prev, sigs, p) => p \in trigSeq
        BY <2>1 DEF DetectInv, Detecting, Looping
      <3>2. p \in SeqsHit(edgeChanged \cup ((act \cup ca.dirty) \cap EdgeNames), prev) => Shows(prev, sigs, p)
        <4>1. edgeChanged \subseteq Sigs /\ EdgeNames \subseteq Sigs
          BY DEF TypeOK, DetectOK, EdgeNames
        <4> QED BY <4>1 DEF SeqsHit, Shows
      <3> QED BY <3>1, <3>2, DrivenStays DEF Triggered, CombosHit
    <2>4. woken' \cap DrivenBlocks = woken \cap DrivenBlocks
      BY <2>1, <2>2, <2>3
    <2> QED BY <1>1, <2>1, <2>4, BalanceKept
  <1>4. CASE \E p \in Procs : Execute(p)
    BY <1>4, BalanceExecute
  <1> QED BY <1>2, <1>3, <1>4

\* A detection wakes just the blocks whose edge shows in the snapshot, when it
\* looks at every input that changed and none of them has run.
LEMMA DetectsShown ==
  ASSUME TypeOK, DriveRules, NEW p \in DrivenBlocks, NEW snap \in Snapshot,
         NEW dirty \in SUBSET Sigs, NEW others, NEW changed \in SUBSET Sigs,
         \A x \in Inputs : snap[x] \notin {NoVal, sigs[x]} => x \in dirty
  PROVE  /\ p \in SeqsHit(changed \cup (dirty \cap EdgeNames), snap) <=> Shows(snap, sigs, p)
         /\ p \in Triggered(dirty, others, snap, changed, {}) <=> Shows(snap, sigs, p)
  <1>1. p \in Seqs /\ p \notin Combos
    BY DrivenStays
  <1>2. p \in SeqsHit(changed \cup (dirty \cap EdgeNames), snap) => Shows(snap, sigs, p)
    BY DEF SeqsHit, Shows
  <1>3. Shows(snap, sigs, p) => p \in SeqsHit(changed \cup (dirty \cap EdgeNames), snap)
    <2> SUFFICES ASSUME NEW s \in Sigs, Edges[p][s] # "none", Edges[p][s] = EdgeDirection(snap[s], sigs[s])
                 PROVE  p \in SeqsHit(changed \cup (dirty \cap EdgeNames), snap)
      BY DEF Shows
    <2>1. s \in Inputs /\ snap[s] \in Val \cup {NoVal} /\ sigs[s] \in Val
      BY DEF DrivenBlocks, DrivenOnly, Snapshot, TypeOK, KernelOK
    <2>2. snap[s] # NoVal /\ snap[s] # sigs[s] /\ Edges[p][s] \in {"posedge", "negedge"}
      BY <2>1, DirectionOfChange
    <2>3. s \in dirty \cap EdgeNames
      BY <1>1, <2>1, <2>2 DEF EdgeNames
    <2> QED BY <1>1, <2>3 DEF SeqsHit
  <1> QED BY <1>1, <1>2, <1>3 DEF Triggered, CombosHit

\* The edges that were to be found are the blocks' to run for.
LEMMA BalanceFound ==
  ASSUME TypeOK, NEW settles \in BOOLEAN, Balance(settles), woken = {},
         UNCHANGED <<sigs, base, fires>>,
         \A p \in DrivenBlocks : p \in woken' <=> Shows(Against(settles), sigs, p),
         \A x \in Inputs : Against(settles)'[x] \in {NoVal, sigs[x]}
  PROVE  Balance(settles)'
  <1> DEFINE b == Against(settles)'
  <1>1. Level(b)
    BY DEF Level
  <1> HIDE DEF b
  <1>2. ASSUME NEW p \in DrivenBlocks
        PROVE  fires'[p] + One(p \in woken') + One(Shows(b, sigs', p)) = One(Shows(base', sigs', p))
    <2>1. ~Shows(b, sigs, p)
      BY <1>1, LevelNoEdge
    <2>2. fires[p] + One(p \in woken) + One(Shows(Against(settles), sigs, p)) = One(Shows(base, sigs, p))
      BY DEF Balance
    <2>3. p \in woken' <=> Shows(Against(settles), sigs, p)
      OBVIOUS
    <2>4. fires[p] + 0 + One(Shows(Against(settles), sigs, p)) = One(Shows(base, sigs, p))
      BY <2>2 DEF One
    <2>5. fires[p] \in Nat
      <3>1. fires \in [Seqs -> 0 .. 2] /\ p \in Seqs
        BY DEF TypeOK, HistOK, DrivenBlocks
      <3> QED BY <3>1
    <2> QED BY <2>1, <2>3, <2>4, <2>5 DEF One
  <1> QED BY <1>2 DEF Balance, b

\* So they are at the ends of the loops.
LEMMA BalanceEnds ==
  ASSUME TypeOK, Sigs # {}, DriveRules, PhaseInv, CallInv, CompleteInv, BootInv, DetectInv,
         NEW settles \in BOOLEAN, TestInv(settles), Balance(settles),
         DeltaDone \/ StepEnd \/ RunReturn \/ SettleCollect \/ SettleDrives
  PROVE  Balance(settles)'
  <1>1. UNCHANGED <<sigs, base, fires, booted, starting>>
    BY DEF DeltaDone, StepEnd, RunReturn, SettleCollect, SettleDrives, kernel, hist, extern
  <1>2. Nothing' = Nothing /\ \A x \in Inputs : Nothing[x] = NoVal
    BY DesignAssumption DEF Nothing
  <1>3. CASE DeltaDone \/ StepEnd \/ RunReturn
    <2>1. /\ phase \in {"delta", "stepend", "next"} /\ UNCHANGED <<pending, woken>>
          /\ \/ phase' \in {"wake", "next"}
             \/ phase' = "settle" /\ phase = "delta" /\ stage = "boot" /\ call = "settle"
             \/ phase' = "idle" /\ lastRun' = sigs
      BY <1>3 DEF DeltaDone, StepEnd, RunReturn, region
    <2>2. Against(settles) = Nothing
      BY <2>1 DEF Against, Externally, Collecting
    <2>3. phase' = "settle" => starting
      BY <2>1 DEF BootInv, StartInv, Booting, Looping, Starting
    <2>4. phase' = "idle" /\ settles => pending = {}
      <3>1. CASE phase \in {"stepend", "next"}
        BY <3>1 DEF TestInv, SettlesInv, Asking, Booting, Looping
      <3>2. CASE phase = "delta" /\ phase' = "idle"
        <4>1. stage = "settle"
          BY <1>3, <3>2 DEF DeltaDone, StepEnd, RunReturn
        <4> QED BY <3>2, <4>1 DEF TestInv, SettlesInv, Asking, Booting
      <3> QED BY <2>1, <3>1, <3>2
    <2>5. Against(settles)' = Nothing \/ Against(settles)' = sigs
      BY <1>1, <1>2, <2>1, <2>3, <2>4 DEF Against, Externally, Collecting
    <2>6. \A x \in Inputs : Against(settles)'[x] \in {NoVal, sigs[x]}
      BY <1>2, <2>5
    <2>7. Level(Against(settles))
      BY <1>2, <2>2 DEF Level
    <2> QED BY <1>1, <2>1, <2>6, <2>7, BalanceKept
  <1>4. CASE SettleCollect
    <2>1. /\ phase = "settlecollect" /\ woken = {} /\ trigSeq = {} /\ pending' = pending
          /\ \A x \in Inputs : prev[x] # sigs[x] => x \in ca.dirty
      BY <1>4 DEF SettleCollect, CompleteInv, RegionsInv, DetectInv, Collecting
    <2>2. Against(settles) = prev
      BY <2>1 DEF Against, Externally, Collecting
    <2> DEFINE trig == Triggered(ca.dirty, ca.dirty, prev, edgeChanged, trigSeq)
                          \ (IF starting /\ Combos # {} THEN StartCombos ELSE {})
    <2>3. /\ woken' = trig
          /\ \/ phase' = "exec"
             \/ phase' = "idle" /\ lastRun' = sigs
      BY <1>4, <2>1 DEF SettleCollect, StartRegion, region
    <2>4. \A p \in DrivenBlocks : p \in trig <=> Shows(prev, sigs, p)
      <3>1. prev \in Snapshot /\ ca.dirty \in SUBSET Sigs /\ edgeChanged \in SUBSET Sigs
        BY DEF TypeOK, DetectOK, CaOK
      <3>2. \A p \in DrivenBlocks : p \notin StartCombos
        BY DrivenStays, DesignAssumption
      <3> QED BY <2>1, <3>1, <3>2, DetectsShown
    <2>5. settles => pending = {}
      BY <2>1 DEF TestInv, SettlesInv, Asking, Booting, Looping
    <2>6. Against(settles)' = Nothing \/ Against(settles)' = sigs
      <3>1. phase' = "exec" => Against(settles)' = Nothing
        BY <1>2 DEF Against, Externally, Collecting
      <3>2. phase' = "idle" /\ settles => Against(settles)' = Nothing
        BY <1>2, <2>1, <2>5 DEF Against, Externally, Collecting
      <3>3. phase' = "idle" /\ ~settles => Against(settles)' = lastRun'
        BY DEF Against, Externally, Collecting
      <3> QED BY <2>3, <3>1, <3>2, <3>3
    <2>7. \A x \in Inputs : Against(settles)'[x] \in {NoVal, sigs[x]}
      BY <1>2, <2>6
    <2> HIDE DEF trig
    <2> QED BY <1>1, <2>1, <2>2, <2>3, <2>4, <2>7, BalanceFound
  <1>5. CASE SettleDrives
    <2>1. /\ phase = "settle" /\ pending' = {} /\ woken' = woken
          /\ \/ phase' = "idle" /\ pending = {}
             \/ /\ phase' = "ca" /\ ca'.ret = "settlecollect" /\ pending # {}
                /\ prev' = IF starting THEN sigs ELSE settleSnap
      BY <1>5 DEF SettleDrives, StartCA, CAPass, region
    <2>2. settles
      BY <2>1 DEF TestInv, RunsInv, PhaseInv, Settling
    <2>3. CASE phase' = "idle"
      <3>1. Against(settles) = Nothing /\ Against(settles)' = Nothing
        BY <1>2, <2>1, <2>2, <2>3 DEF Against, Externally, Collecting
      <3> QED BY <1>1, <2>1, <3>1, BalanceKept
    <2>4. CASE phase' = "ca" /\ ~starting
      <3>1. Against(settles) = settleSnap /\ Against(settles)' = prev' /\ prev' = settleSnap
        BY <2>1, <2>4 DEF Against, Externally, Collecting
      <3> QED BY <1>1, <2>1, <3>1, BalanceKept
    <2>5. CASE phase' = "ca" /\ starting
      <3>1. Against(settles) = Nothing /\ Against(settles)' = prev' /\ prev' = sigs
        BY <2>1, <2>5 DEF Against, Externally, Collecting
      <3>2. Level(Against(settles)) /\ \A x \in Inputs : Against(settles)'[x] \in {NoVal, sigs[x]}
        BY <1>2, <3>1 DEF Level
      <3> QED BY <1>1, <2>1, <3>2, BalanceKept
    <2> QED BY <2>1, <2>3, <2>4, <2>5
  <1> QED BY <1>3, <1>4, <1>5

\* In the steps of run() outside its loops the drives since the last run()
\* are found once, or are no edges.
LEMMA BalanceRun ==
  ASSUME TypeOK, Sigs # {}, DriveRules, PhaseInv, CallInv, CompleteInv, BootInv,
         NEW settles \in BOOLEAN, Balance(settles),
         \/ RunLaunch \/ ExternalDrives \/ ExternalCollect \/ BootDrives \/ FullCA \/ BootCombos
         \/ BootReaders \/ RunNext \/ SettleBoot
  PROVE  Balance(settles)'
  <1>1. UNCHANGED <<sigs, base, fires, starting, lastRun>>
    BY DEF RunLaunch, ExternalDrives, ExternalCollect, BootDrives, FullCA, BootCombos, BootReaders,
           RunNext, StepBegin, SettleBoot, kernel, hist, extern
  <1>2. Nothing' = Nothing /\ \A x \in Inputs : Nothing[x] = NoVal
    BY DesignAssumption DEF Nothing
  <1>3. Changed(lastRun) = {} => Level(lastRun)
    BY DesignAssumption DEF Changed, Level
  <1>4. CASE RunLaunch
    <2>1. phase = "launch" /\ UNCHANGED <<phase, woken>>
      BY <1>4 DEF RunLaunch, region
    <2>2. Against(settles) = lastRun /\ Against(settles)' = lastRun
      BY <1>1, <2>1 DEF Against, Externally, Collecting
    <2> QED BY <1>1, <2>1, <2>2, BalanceKept
  <1>5. CASE ExternalDrives
    <2>1. /\ phase = "launch" /\ woken' = woken
          /\ \/ phase' = "boot" /\ Changed(lastRun) = {}
             \/ phase' = "ca" /\ ca'.ret = "extcollect"
      BY <1>5 DEF ExternalDrives, StartCA, CAPass, region
    <2>2. Against(settles) = lastRun
      BY <2>1 DEF Against, Externally, Collecting
    <2>3. CASE phase' = "boot"
      <3>1. Against(settles)' = Nothing
        BY <1>2, <2>3 DEF Against, Externally, Collecting
      <3>2. Level(Against(settles)) /\ \A x \in Inputs : Against(settles)'[x] \in {NoVal, sigs[x]}
        BY <1>2, <1>3, <2>1, <2>2, <2>3, <3>1
      <3> QED BY <1>1, <2>1, <3>2, BalanceKept
    <2>4. CASE phase' = "ca"
      <3>1. Against(settles)' = lastRun
        BY <1>1, <2>1, <2>4 DEF Against, Externally, Collecting
      <3> QED BY <1>1, <2>1, <2>2, <3>1, BalanceKept
    <2> QED BY <2>1, <2>3, <2>4
  <1>6. CASE ExternalCollect
    <2> DEFINE dirty == Changed(lastRun)
               trig == Triggered(dirty, dirty, lastRun, {}, {})
    <2>1. phase = "extcollect" /\ woken = {} /\ phase' \in {"boot", "exec", "wake"}
      BY <1>6 DEF ExternalCollect, StartRegion, CompleteInv, RegionsInv
    <2>2. Against(settles) = lastRun
      BY <2>1 DEF Against, Externally, Collecting
    <2>3. Against(settles)' = Nothing
      BY <1>2, <2>1 DEF Against, Externally, Collecting
    <2>4. \A x \in Inputs : Against(settles)'[x] \in {NoVal, sigs[x]}
      BY <1>2, <2>3
    <2>5. CASE dirty = {}
      <3>1. woken' = woken
        BY <1>6, <2>5 DEF ExternalCollect, region
      <3>2. Level(Against(settles))
        BY <1>3, <2>2, <2>5
      <3> QED BY <1>1, <2>4, <3>1, <3>2, BalanceKept
    <2>6. CASE dirty # {}
      <3>1. woken' = trig
        BY <1>6, <2>1, <2>6 DEF ExternalCollect, StartRegion, region
      <3>2. \A p \in DrivenBlocks : p \in trig <=> Shows(lastRun, sigs, p)
        <4>1. lastRun \in Snapshot /\ dirty \in SUBSET Sigs
          BY DEF TypeOK, ExternOK, Changed
        <4>2. \A x \in Inputs : lastRun[x] \notin {NoVal, sigs[x]} => x \in dirty
          BY DesignAssumption DEF Changed
        <4> HIDE DEF dirty
        <4> QED BY <4>1, <4>2, DetectsShown
      <3> HIDE DEF trig
      <3> QED BY <1>1, <2>1, <2>2, <2>4, <3>1, <3>2, BalanceFound
    <2> QED BY <2>5, <2>6
  <1>7. CASE BootDrives \/ FullCA \/ RunNext \/ BootCombos \/ BootReaders \/ SettleBoot
    <2>1. /\ phase \in {"boot", "fullca", "next", "bootcombos", "bootdrives", "settleboot"}
          /\ \/ phase' \in {"fullca", "exec", "bootcombos", "bootdrives", "delta"}
             \/ phase' = "ca" /\ ca'.ret \in {"fullca", "next", "bootcombos"}
      BY <1>7 DEF BootDrives, FullCA, RunNext, StepBegin, BootCombos, BootReaders, SettleBoot, StartRegion,
           StartCA, CAPass
    <2>2. Against(settles) = Nothing /\ Against(settles)' = Nothing
      BY <1>2, <2>1 DEF Against, Externally, Collecting
    <2>3. woken = {}
      BY <2>1 DEF CompleteInv, RegionsInv
    <2>4. woken' \subseteq Combos
      <3>1. CASE BootDrives \/ FullCA \/ RunNext \/ SettleBoot
        BY <2>3, <3>1 DEF BootDrives, FullCA, RunNext, StepBegin, StartRegion, SettleBoot, region
      <3>2. CASE BootCombos
        <4>1. woken' = StartCombos \/ woken' = woken
          BY <3>2 DEF BootCombos, StartRegion, region
        <4> QED BY <2>3, <4>1, DesignAssumption
      <3>3. CASE BootReaders
        <4>1. woken' = CombosHit(drv, drv) \ StartCombos \/ woken' = woken
          BY <3>3 DEF BootReaders, StartRegion, region
        <4> QED BY <2>3, <4>1 DEF CombosHit
      <3> QED BY <1>7, <3>1, <3>2, <3>3
    <2>5. woken' \cap DrivenBlocks = woken \cap DrivenBlocks
      BY <2>3, <2>4, DrivenStays
    <2> QED BY <1>1, <2>2, <2>5, BalanceKept
  <1> QED BY <1>4, <1>5, <1>6, <1>7

\* A drive may make an edge or unmake it: in both snapshots alike.
LEMMA BalanceDrive ==
  ASSUME TypeOK, Sigs # {}, DriveRules, CompleteInv, BootInv,
         NEW settles \in BOOLEAN, TestInv(settles), BaseInv(settles), Balance(settles), CallDrive
  PROVE  Balance(settles)' /\ BaseInv(settles)'
  <1>1. /\ phase = "idle" /\ phase' = "idle" /\ call' = "drive" /\ owed' = TRUE /\ woken = {}
        /\ pending' # {} /\ UNCHANGED <<booted, woken, lastRun, prev>>
        /\ settleSnap' = IF pending = {} THEN sigs ELSE settleSnap
        /\ IF booted /\ ~owed THEN base' = sigs /\ fires' = [p \in Seqs |-> 0]
           ELSE UNCHANGED <<base, fires>>
    BY DEF CallDrive, Call, DriveSignal, CompleteInv, RegionsInv, region, detect
  <1>2. /\ Against(settles) = IF ~settles THEN lastRun
                              ELSE IF booted /\ pending # {} THEN settleSnap ELSE Nothing
        /\ Against(settles)' = IF ~settles THEN lastRun
                               ELSE IF booted THEN settleSnap' ELSE Nothing
    <2>1. Nothing' = Nothing
      BY DEF Nothing
    <2> QED BY <1>1, <2>1 DEF Against, Externally, Collecting
  <1>3. \A x \in Inputs : Nothing[x] = NoVal
    BY DesignAssumption DEF Nothing
  <1> DEFINE b == Against(settles)'
  \* The block's count is that of the drives before.
  <1>4. CASE booted
    <2>1. \A x \in Inputs : b[x] = base'[x]
      <3>1. CASE ~owed /\ ~settles
        <4>1. Level(lastRun) /\ Full
          BY <1>1, <1>4, <3>1 DEF TestInv, RunsInv
        <4>2. \A x \in Inputs : lastRun[x] = sigs[x]
          BY <4>1, DesignAssumption DEF Level, Full
        <4> QED BY <1>1, <1>2, <1>4, <3>1, <4>2
      <3>2. CASE ~owed /\ settles
        <4>1. pending = {}
          BY <1>1, <3>2 DEF TestInv, SettlesInv
        <4> QED BY <1>1, <1>2, <1>4, <3>2, <4>1
      <3>3. CASE owed
        <4>1. \A x \in Inputs : Against(settles)[x] = base[x]
          BY <1>1, <1>4, <3>3 DEF BaseInv
        <4>2. settles => pending # {}
          BY <1>1, <3>3 DEF TestInv, SettlesInv
        <4> QED BY <1>1, <1>2, <1>4, <3>3, <4>1, <4>2
      <3> QED BY <3>1, <3>2, <3>3
    <2>2. \A p \in DrivenBlocks : fires'[p] = 0
      <3>1. CASE ~owed
        BY <1>1, <1>4, <3>1, DrivenStays
      <3>2. CASE owed
        <4> SUFFICES ASSUME NEW p \in DrivenBlocks PROVE fires[p] = 0
          BY <1>1, <3>2
        <4>1. \A x \in Inputs : Against(settles)[x] = base[x]
          BY <1>1, <1>4, <3>2 DEF BaseInv
        <4>2. Shows(Against(settles), sigs, p) <=> Shows(base, sigs, p)
          BY <4>1, ShowsInputs
        <4>3. fires[p] + One(p \in woken) + One(Shows(Against(settles), sigs, p)) = One(Shows(base, sigs, p))
          BY DEF Balance
        <4>4. fires[p] \in 0 .. 2
          BY DrivenStays DEF TypeOK, HistOK
        <4> QED BY <1>1, <4>2, <4>3, <4>4 DEF One
      <3> QED BY <3>1, <3>2
    <2> HIDE DEF b
    <2>3. \A p \in DrivenBlocks : Shows(b, sigs', p) <=> Shows(base', sigs', p)
      BY <2>1, ShowsInputs
    <2>4. \A p \in DrivenBlocks :
             fires'[p] + One(p \in woken') + One(Shows(b, sigs', p)) = One(Shows(base', sigs', p))
      BY <1>1, <2>2, <2>3 DEF One
    <2> QED BY <1>1, <1>4, <2>1, <2>4 DEF Balance, BaseInv, b
  <1>5. CASE ~booted
    <2>1. base' = base /\ fires' = fires /\ \A x \in Inputs : base[x] = NoVal /\ prev[x] = NoVal
      BY <1>1, <1>5 DEF BaseInv
    <2>2. \A x \in Inputs : Against(settles)[x] = NoVal /\ b[x] = NoVal
      <3>1. \A s \in Sigs : lastRun[s] = NoVal
        BY <1>5 DEF BootInv, FirstInv, SnapInv
      <3> QED BY <1>2, <1>3, <1>5, <3>1, DesignAssumption
    <2> HIDE DEF b
    <2>3. \A p \in DrivenBlocks : ~Shows(b, sigs', p) /\ ~Shows(base', sigs', p)
                                  /\ ~Shows(base, sigs, p) /\ ~Shows(Against(settles), sigs, p)
      <3>1. \A v : EdgeDirection(NoVal, v) = "none"
        BY DEF EdgeDirection, NoVal, X
      <3> QED BY <2>1, <2>2, <3>1 DEF Shows, DrivenBlocks, DrivenOnly
    <2>4. \A p \in DrivenBlocks :
             fires'[p] + One(p \in woken') + One(Shows(b, sigs', p)) = One(Shows(base', sigs', p))
      BY <1>1, <2>1, <2>3 DEF Balance, One
    <2> QED BY <1>1, <1>5, <2>1, <2>4 DEF Balance, BaseInv, b
  <1> QED BY <1>4, <1>5

\* A call takes the drives on, or there are none.
LEMMA BalanceCalls ==
  ASSUME TypeOK, Sigs # {}, Disciplined = TRUE, CompleteInv, BootInv,
         NEW settles \in BOOLEAN, TestInv(settles), Keeping(settles), Balance(settles),
         CallSchedule \/ CallRun \/ CallRunStep \/ CallSettle \/ UNCHANGED vars
  PROVE  Balance(settles)'
  <1>1. UNCHANGED <<sigs, base, fires, lastRun, settleSnap, pending>>
    BY DEF CallSchedule, CallRun, CallRunStep, StepBegin, CallSettle, vars, kernel, extern, hist
  <1>2. Nothing' = Nothing /\ \A x \in Inputs : Nothing[x] = NoVal
    BY DesignAssumption DEF Nothing
  <1>3. CASE CallSchedule \/ UNCHANGED vars
    <2>1. UNCHANGED <<phase, starting, booted, prev, ca, woken>>
      BY <1>3 DEF CallSchedule, vars, ctl, extern, detect, region
    <2>2. Against(settles)' = Against(settles)
      BY <1>1, <1>2, <2>1 DEF Against, Externally, Collecting
    <2> QED BY <1>1, <2>1, <2>2, BalanceKept
  <1>4. CASE CallRun
    <2>1. phase = "idle" /\ phase' = "launch" /\ call' = "run" /\ calls' # calls /\ woken' = woken
      BY <1>4 DEF CallRun, Call, TypeOK, region
    <2>2. Against(settles)' = lastRun
      BY <1>1, <2>1 DEF Against, Externally, Collecting
    <2>3. CASE ~settles
      <3>1. Against(settles) = lastRun
        BY <2>1, <2>3 DEF Against, Externally, Collecting
      <3> QED BY <1>1, <2>1, <2>2, <3>1, BalanceKept
    <2>4. CASE settles
      <3>1. pending = {}
        BY <2>1, <2>4 DEF Keeping
      <3>2. Against(settles) = Nothing /\ Level(lastRun)
        BY <2>1, <2>4, <3>1 DEF Against, Externally, Collecting, TestInv, SettlesInv
      <3>3. Level(Against(settles)) /\ \A x \in Inputs : Against(settles)'[x] \in {NoVal, sigs[x]}
        BY <1>2, <2>2, <3>2 DEF Level
      <3> QED BY <1>1, <2>1, <3>3, BalanceKept
    <2> QED BY <2>3, <2>4
  <1>5. CASE CallRunStep
    <2>1. phase = "idle" /\ ~owed /\ phase' = "exec" /\ woken' = {} /\ woken = {}
      BY <1>5 DEF CallRunStep, Call, StepBegin, StartRegion, CompleteInv, RegionsInv
    <2>2. Against(settles)' = Nothing
      BY <1>2, <2>1 DEF Against, Externally, Collecting
    <2>3. Against(settles) = Nothing \/ (Against(settles) = lastRun /\ Level(lastRun))
      <3>1. CASE ~settles
        BY <2>1, <3>1 DEF Against, Externally, Collecting, TestInv, RunsInv
      <3>2. CASE settles
        BY <2>1, <3>2 DEF Against, Externally, Collecting, TestInv, SettlesInv
      <3> QED BY <3>1, <3>2
    <2>4. Level(Against(settles)) /\ \A x \in Inputs : Against(settles)'[x] \in {NoVal, sigs[x]}
      BY <1>2, <2>2, <2>3 DEF Level
    <2> QED BY <1>1, <2>1, <2>4, BalanceKept
  <1>6. CASE CallSettle
    <2>1. /\ phase = "idle" /\ call' = "settle" /\ calls' # calls /\ woken' = woken /\ starting' = ~booted
          /\ \/ phase' = "settle"
             \/ phase' = "settleboot" /\ ~booted
             \/ phase' = "ca" /\ ca'.ret = "settleboot" /\ ~booted
      BY <1>6 DEF CallSettle, Call, StartCA, CAPass, TypeOK, region
    <2>2. settles
      BY <2>1 DEF Keeping
    <2>3. CASE booted /\ pending # {}
      <3>1. Against(settles) = settleSnap /\ Against(settles)' = settleSnap
        BY <1>1, <2>1, <2>2, <2>3 DEF Against, Externally, Collecting
      <3> QED BY <1>1, <2>1, <3>1, BalanceKept
    <2>4. CASE ~(booted /\ pending # {})
      <3>1. Against(settles) = Nothing
        BY <2>1, <2>2, <2>4 DEF Against, Externally, Collecting
      <3>2. Against(settles)' = Nothing
        BY <1>1, <1>2, <2>1, <2>2, <2>4 DEF Against, Externally, Collecting
      <3> QED BY <1>1, <2>1, <3>1, <3>2, BalanceKept
    <2> QED BY <2>3, <2>4
  <1> QED BY <1>3, <1>4, <1>5, <1>6

\* What a detection left to its loop stays with it.
LEMMA DetectLoop ==
  ASSUME TypeOK, PhaseInv, CallInv, BootInv, DetectInv, \A x \in Inputs : sigs'[x] = sigs[x],
         \/ CAEval \/ CAPassEnd \/ RegionEnd \/ Resettle
         \/ \E p \in Procs : Execute(p)
         \/ DeltaBegin \/ ApplyNba \/ NbaDone \/ DeltaLimitError \/ Collect
         \/ WakeOne \/ WakeDone \/ CallbackQuiet
  PROVE  DetectInv'
  <1>1. /\ UNCHANGED <<pending, settleSnap, prev>>
        /\ Collecting' <=> Collecting
        /\ Detecting' => Detecting
    BY LoopSteps
  <1>2. trigSeq \subseteq trigSeq'
    BY DEF CAEval, CAPassEnd, RegionEnd, Resettle, Execute, DeltaBegin, ApplyNba, NbaDone,
       DeltaLimitError, Collect, CollectTriggered, WakeOne, WakeDone, CallbackQuiet, detect
  <1>3. Detecting' => \A p \in DrivenBlocks : Shows(prev, sigs, p)' => p \in trigSeq'
    <2>1. \A p \in DrivenBlocks : Shows(prev', sigs', p) <=> Shows(prev, sigs, p)
      BY <1>1, ShowsInputs
    <2>2. \A p \in DrivenBlocks : Shows(prev, sigs, p)' <=> Shows(prev', sigs', p)
      BY DEF Shows
    <2> QED BY <1>1, <1>2, <2>1, <2>2 DEF DetectInv
  <1>4. Collecting' => trigSeq' = {} /\ \A x \in Inputs : prev'[x] # sigs'[x] => x \in ca'.dirty
    <2>1. CASE CAEval
      <3>1. trigSeq' = trigSeq /\ ca.dirty \subseteq ca'.dirty
        BY <2>1 DEF CAEval, MarkOutputs, detect
      <3> QED BY <1>1, <3>1 DEF DetectInv
    <2>2. CASE CAPassEnd
      <3>1. trigSeq' = trigSeq /\ ca'.dirty = ca.dirty
        BY <2>2 DEF CAPassEnd, CAPass, detect
      <3> QED BY <1>1, <3>1 DEF DetectInv
    <2>3. CASE ~(CAEval \/ CAPassEnd)
      <3>1. ~Collecting
        BY <2>3 DEF RegionEnd, Resettle, Execute, DeltaBegin, ApplyNba, NbaDone,
           DeltaLimitError, Collect, WakeOne, WakeDone, CallbackQuiet, Collecting
      <3> QED BY <1>1, <3>1
    <2> QED BY <2>1, <2>2, <2>3
  <1> QED BY <1>1, <1>3, <1>4 DEF DetectInv

\* A loop begins with a new snapshot or a detection.
LEMMA DetectStarts ==
  ASSUME TypeOK, DriveRules, BootInv, DetectInv,
         NEW settles \in BOOLEAN, BaseInv(settles), Keeping(settles),
         \/ DeltaDone \/ StepEnd \/ RunReturn \/ SettleCollect \/ SettleDrives
         \/ RunLaunch \/ ExternalDrives \/ ExternalCollect \/ BootDrives \/ FullCA \/ BootCombos
         \/ BootReaders \/ RunNext \/ SettleBoot
         \/ CallSchedule \/ CallRun \/ CallRunStep \/ CallSettle \/ UNCHANGED vars
  PROVE  DetectInv'
  <1> USE DEF Detecting, Booting, Looping, Collecting
  <1>1. sigs' = sigs
    BY DEF DeltaDone, StepEnd, RunReturn, SettleCollect, SettleDrives, RunLaunch, ExternalDrives,
       ExternalCollect, BootDrives, FullCA, BootCombos, BootReaders, RunNext, StepBegin, SettleBoot,
       CallSchedule, CallRun, CallRunStep, CallSettle, vars, kernel
  <1>2. \A p \in DrivenBlocks : ~Shows(sigs, sigs, p)
    BY LevelNoEdge DEF Level
  <1>3. ~booted => \A p \in DrivenBlocks : ~Shows(prev, sigs, p)
    <2>1. ~booted => Level(prev)
      BY DEF BaseInv, Level
    <2> QED BY <2>1, LevelNoEdge
  <1>4. pending' # {} => pending' = pending /\ settleSnap' \in {settleSnap, sigs}
    BY DEF DeltaDone, StepEnd, RunReturn, SettleCollect, SettleDrives, RunLaunch, ExternalDrives,
       ExternalCollect, BootDrives, FullCA, BootCombos, BootReaders, RunNext, StepBegin, SettleBoot,
       CallSchedule, CallRun, CallRunStep, CallSettle, vars, extern
  <1>5. pending' # {} => \A x \in Inputs : settleSnap'[x] # sigs'[x] => x \in pending'
    BY <1>1, <1>4 DEF DetectInv
  <1>6. CASE RunNext \/ CallRunStep
    <2>1. phase' = "exec" /\ prev' = sigs
      BY <1>6 DEF RunNext, CallRunStep, StepBegin, StartRegion
    <2> QED BY <1>1, <1>2, <1>5, <2>1 DEF DetectInv, Shows
  <1>7. CASE BootReaders
    <2>1. phase = "bootdrives" /\ phase' \in {"exec", "delta"} /\ prev' \in {prev, sigs} /\ trigSeq \subseteq trigSeq'
      BY <1>7 DEF BootReaders, StartRegion, CollectTriggered, detect
    <2> QED BY <1>1, <1>2, <1>5, <2>1 DEF DetectInv, Shows
  <1>8. CASE SettleDrives
    <2>1. \/ phase' = "idle"
          \/ /\ phase' = "ca" /\ ca'.ret = "settlecollect" /\ ca'.dirty = pending \cup drv /\ trigSeq' = {}
             /\ prev' \in {sigs, settleSnap} /\ pending # {}
      BY <1>8 DEF SettleDrives, StartCA, CAPass
    <2> QED BY <1>1, <1>5, <2>1 DEF DetectInv
  <1>9. CASE SettleCollect
    <2>1. phase = "settlecollect" /\ phase' \in {"exec", "idle"} /\ prev' = prev
          /\ trigSeq' = trigSeq \cup SeqsHit(edgeChanged \cup (ca.dirty \cap EdgeNames), prev)
      BY <1>9 DEF SettleCollect, StartRegion, CollectTriggered
    <2>2. \A p \in DrivenBlocks :
             p \in SeqsHit(edgeChanged \cup (ca.dirty \cap EdgeNames), prev) <=> Shows(prev, sigs, p)
      <3>1. prev \in Snapshot /\ ca.dirty \in SUBSET Sigs /\ edgeChanged \in SUBSET Sigs
        BY DEF TypeOK, DetectOK, CaOK
      <3>2. \A x \in Inputs : prev[x] # sigs[x] => x \in ca.dirty
        BY <2>1 DEF DetectInv
      <3> QED BY <3>1, <3>2, DetectsShown
    <2>3. \A p \in DrivenBlocks : Shows(prev, sigs, p)' => p \in trigSeq'
      BY <1>1, <2>1, <2>2 DEF Shows
    <2> QED BY <1>5, <2>1, <2>3 DEF DetectInv
  <1>10. CASE ExternalCollect
    <2>1. \/ phase' = "boot"
          \/ /\ phase' \in {"exec", "wake"} /\ prev' = lastRun
             /\ trigSeq' = {} \cup SeqsHit({} \cup (Changed(lastRun) \cap EdgeNames), lastRun)
      BY <1>10 DEF ExternalCollect, StartRegion, CollectTriggered
    <2>2. \A p \in DrivenBlocks :
             p \in SeqsHit({} \cup (Changed(lastRun) \cap EdgeNames), lastRun) <=> Shows(lastRun, sigs, p)
      <3>1. lastRun \in Snapshot /\ Changed(lastRun) \in SUBSET Sigs
        BY DEF TypeOK, ExternOK, Changed
      <3>2. \A x \in Inputs : lastRun[x] \notin {NoVal, sigs[x]} => x \in Changed(lastRun)
        BY DesignAssumption DEF Changed
      <3> QED BY <3>1, <3>2, DetectsShown
    <2>3. phase' # "boot" => \A p \in DrivenBlocks : Shows(prev, sigs, p)' => p \in trigSeq'
      BY <1>1, <2>1, <2>2 DEF Shows
    <2> QED BY <1>5, <2>1, <2>3 DEF DetectInv
  <1>11. CASE \/ DeltaDone \/ BootCombos \/ SettleBoot \/ UNCHANGED vars
    <2>1. UNCHANGED <<prev, trigSeq>> /\ (Detecting' => Detecting) /\ (Collecting' => Collecting /\ ca' = ca)
      <3>1. CASE DeltaDone
        <4>1. /\ phase = "delta" /\ UNCHANGED <<prev, trigSeq, stage>>
              /\ phase' \in {"wake", "next", "settle", "idle"}
          BY <3>1 DEF DeltaDone, detect
        <4> QED BY <4>1
      <3>2. CASE BootCombos \/ SettleBoot
        <4>1. phase \in {"bootcombos", "settleboot"} /\ phase' \in {"exec", "bootdrives", "bootcombos"}
              /\ UNCHANGED <<prev, trigSeq>>
          BY <3>2 DEF BootCombos, SettleBoot, StartRegion, detect
        <4> QED BY <4>1
      <3>3. CASE UNCHANGED vars
        BY <3>3 DEF vars, ctl, detect
      <3> QED BY <1>11, <3>1, <3>2, <3>3
    <2> QED BY <1>1, <1>5, <2>1 DEF DetectInv, Shows
  <1>12. CASE StepEnd \/ RunReturn \/ RunLaunch \/ ExternalDrives \/ BootDrives \/ CallSchedule \/ CallRun
    <2>1. \/ phase' \in {"next", "idle", "launch", "boot", "fullca"}
          \/ phase' = "ca" /\ ca'.ret \in {"extcollect", "fullca"}
      BY <1>12 DEF StepEnd, RunReturn, RunLaunch, ExternalDrives, BootDrives, CallSchedule, Call, CallRun,
         StartCA, CAPass
    <2> QED BY <1>5, <2>1 DEF DetectInv
  <1>13. CASE FullCA \/ CallSettle
    <2>1. UNCHANGED <<prev, trigSeq>>
      BY <1>13 DEF FullCA, CallSettle, detect
    <2>2. /\ \/ phase' \in {"settle", "settleboot"}
             \/ phase' = "ca" /\ ca'.ret \in {"next", "bootcombos", "settleboot"}
          /\ Detecting' => ~booted
      BY <1>13 DEF FullCA, CallSettle, StartCA, CAPass
    <2> QED BY <1>1, <1>3, <1>5, <2>1, <2>2 DEF DetectInv, Shows
  <1> QED BY <1>6, <1>7, <1>8, <1>9, <1>10, <1>11, <1>12, <1>13

\* A drive is on record for the next settle().
LEMMA DetectDrive ==
  ASSUME TypeOK, DetectInv, CallDrive
  PROVE  DetectInv'
  <1>1. phase' = "idle"
    BY DEF CallDrive, Call
  <1>2. PICK s \in Inputs, v \in {0, 1} : DriveSignal(s, v)
    BY DEF CallDrive
  <1>3. /\ pending' = pending \cup {s} /\ \A x \in Inputs : x # s => sigs'[x] = sigs[x]
        /\ settleSnap' = IF pending = {} THEN sigs ELSE settleSnap
    BY <1>2, DesignAssumption DEF DriveSignal, TypeOK, KernelOK
  <1>4. \A x \in Inputs : settleSnap'[x] # sigs'[x] => x \in pending'
    BY <1>3 DEF DetectInv
  <1> QED BY <1>1, <1>4 DEF DetectInv, Detecting, Booting, Looping, Collecting

\* The record of the drives is that of the snapshot, in every call.
LEMMA BaseNext ==
  ASSUME TypeOK, Sigs # {}, DriveRules, CompleteInv, BootInv, NEW settles \in BOOLEAN,
         TestInv(settles), Keeping(settles), BaseInv(settles), Balance(settles), [Next]_vars
  PROVE  BaseInv(settles)'
  <1>1. CASE CallDrive
    BY <1>1, BalanceDrive
  <1>2. CASE ~CallDrive
    <2>1. base' = base
      BY <1>2 DEF Next, Kernel, Testbench, Done, vars, hist, CAEval, CAPassEnd, Execute, RegionEnd,
         Resettle, DeltaBegin, ApplyNba, NbaDone, DeltaLimitError, Collect, DeltaDone, WakeOne, WakeDone,
         CallbackQuiet, CallbackDrive, StepEnd, RunLaunch, ExternalDrives, ExternalCollect, BootDrives,
         FullCA, BootCombos, BootReaders, RunNext, RunReturn, StepBegin, SettleBoot, SettleDrives,
         SettleCollect, CallSchedule, CallRun, CallRunStep, CallSettle
    <2>5. booted => booted'
      <3>1. booted' = booted \/ booted' = TRUE
        <4>1. CASE BootCombos \/ CallSettle
          BY <4>1 DEF BootCombos, CallSettle
        <4>2. CASE ~(BootCombos \/ CallSettle)
          BY <1>2, <4>2 DEF Next, Kernel, Testbench, Done, vars, extern, CAEval, CAPassEnd, Execute, RegionEnd,
         Resettle, DeltaBegin, ApplyNba, NbaDone, DeltaLimitError, Collect, DeltaDone, WakeOne, WakeDone,
         CallbackQuiet, CallbackDrive, StepEnd, RunLaunch, ExternalDrives, ExternalCollect, BootDrives,
         FullCA, BootReaders, RunNext, RunReturn, StepBegin, SettleBoot, SettleDrives,
         SettleCollect, CallSchedule, CallRun, CallRunStep
        <4> QED BY <4>1, <4>2
      <3> QED BY <3>1
    <2>2. ~booted => prev' = prev
      <3>1. CASE ExternalCollect \/ BootReaders \/ RunNext \/ SettleDrives
        <4>1. phase \in {"extcollect", "bootdrives", "next", "settle"}
          BY <3>1 DEF ExternalCollect, BootReaders, RunNext, SettleDrives
        <4> QED BY <4>1 DEF BootInv, FirstInv
      <3>2. CASE CallRunStep
        <4>1. phase = "idle" /\ call' = "run_step" /\ calls' # calls
          BY <3>2 DEF CallRunStep, Call, TypeOK
        <4> QED BY <4>1 DEF Keeping
      <3>3. CASE Collect \/ SettleCollect
        BY <3>3 DEF Collect, SettleCollect, CollectTriggered
      <3>4. CASE ~(ExternalCollect \/ BootReaders \/ RunNext \/ SettleDrives \/ CallRunStep \/ Collect \/ SettleCollect)
        BY <1>2, <3>4 DEF Next, Kernel, Testbench, Done, vars, detect, CAEval, CAPassEnd, Execute, RegionEnd,
         Resettle, DeltaBegin, ApplyNba, NbaDone, DeltaLimitError, DeltaDone, WakeOne, WakeDone,
         CallbackQuiet, CallbackDrive, StepEnd, RunLaunch, ExternalDrives, BootDrives,
         FullCA, BootCombos, RunReturn, SettleBoot, CallSchedule, CallRun, CallSettle
      <3> QED BY <3>1, <3>2, <3>3, <3>4
    <2>3. phase' = "idle" /\ owed' => /\ phase = "idle" /\ owed
                                      /\ CallSchedule \/ UNCHANGED vars
      <3>1. CASE phase # "idle"
        <4>1. ~Testbench /\ ~owed
          BY <3>1 DEF Testbench, CallDrive, CallSchedule, CallRun, CallRunStep, CallSettle, Call, TestInv
        <4>2. owed' = owed
          BY <4>1 DEF Next, Kernel, Done, vars, hist, CAEval, CAPassEnd, Execute, RegionEnd,
           Resettle, DeltaBegin, ApplyNba, NbaDone, DeltaLimitError, Collect, DeltaDone, WakeOne, WakeDone,
           CallbackQuiet, CallbackDrive, StepEnd, RunLaunch, ExternalDrives, ExternalCollect, BootDrives,
           FullCA, BootCombos, BootReaders, RunNext, RunReturn, StepBegin, SettleBoot, SettleDrives,
           SettleCollect
        <4> QED BY <4>1, <4>2
      <3>2. CASE phase = "idle"
        <4>1. CallSchedule \/ CallRun \/ CallRunStep \/ CallSettle \/ UNCHANGED vars
          BY <1>2, <3>2, FromPhase DEF Testbench
        <4>2. CallRun \/ CallRunStep \/ CallSettle => phase' # "idle"
          BY DEF CallRun, CallRunStep, StepBegin, StartRegion, CallSettle, StartCA
        <4>3. CallSchedule \/ UNCHANGED vars => owed' = owed
          BY DEF CallSchedule, vars, hist
        <4> QED BY <3>2, <4>1, <4>2, <4>3
      <3> QED BY <3>1, <3>2
    <2>4. ASSUME CallSchedule \/ UNCHANGED vars PROVE Against(settles)' = Against(settles) /\ booted' = booted
      <3>1. UNCHANGED <<phase, starting, booted, prev, ca, pending, settleSnap, lastRun>>
        BY <2>4 DEF CallSchedule, vars, ctl, extern, detect
      <3>2. Nothing' = Nothing
        BY DEF Nothing
      <3> QED BY <3>1, <3>2 DEF Against, Externally, Collecting
    <2> QED BY <2>1, <2>2, <2>3, <2>4, <2>5 DEF BaseInv
  <1> QED BY <1>1, <1>2

\* The inductive invariant.
DrivenInv(settles) ==
    /\ TypeOK /\ PhaseInv /\ CallInv /\ CompleteInv /\ BootInv
    /\ Away(DrivenBlocks) /\ NbaQuiet
    /\ TestInv(settles) /\ DetectInv /\ BaseInv(settles) /\ Balance(settles)

\* At first nothing has been driven.
LEMMA DrivenInit ==
  ASSUME Init, Sigs # {}, DriveRules, NEW settles \in BOOLEAN
  PROVE  DrivenInv(settles)
  <1>1. TypeOK /\ PhaseInv /\ CallInv /\ BootInv
    BY SettledInit DEF SettledInv, AssignInv
  <1>2. CompleteInv
    BY DEF Init, CompleteInv, RegionsInv, NbaInv, DirtyInv
  <1>3. ~booted /\ phase = "idle" /\ call = "none" /\ ~owed /\ pending = {} /\ woken = {}
        /\ \A s \in Sigs : lastRun[s] = NoVal /\ base[s] = NoVal /\ prev[s] = NoVal
        /\ \A p \in Seqs : fires[p] = 0
    BY DEF Init
  <1>4. Away(DrivenBlocks)
    <2>1. \A p : ~InQueue(queue, p) /\ ~Occurs(Waiters(waiting), p) /\ ~Occurs(batch, p)
      BY DEF Init, InQueue, Occurs, Waiters
    <2>2. \A p \in DrivenBlocks : pcs[p] = 0
      BY DrivenStays DEF Init, Stays
    <2> QED BY <2>1, <2>2 DEF Away
  <1>5. NbaQuiet
    <2>1. Len(<<>>) = 0 /\ 1 .. 0 = {}
      BY EmptySeq
    <2> QED BY <2>1 DEF Init, NbaQuiet
  <1>6. \A x \in Inputs : lastRun[x] = NoVal /\ base[x] = NoVal /\ prev[x] = NoVal
    BY <1>3, DesignAssumption
  <1>7. TestInv(settles)
    BY <1>3, <1>6 DEF TestInv, RunsInv, SettlesInv, Level
  <1>8. DetectInv
    BY <1>3 DEF DetectInv, Detecting, Booting, Looping, Collecting
  <1>9. BaseInv(settles)
    BY <1>3, <1>6 DEF BaseInv
  <1>10. Balance(settles)
    <2>1. Level(base)
      BY <1>6 DEF Level
    <2>2. Level(Against(settles))
      <3>1. Against(settles) = lastRun \/ Against(settles) = Nothing
        BY <1>3 DEF Against, Externally, Collecting
      <3> QED BY <1>1, <1>6, <3>1, AgainstType DEF Level
    <2>3. \A p \in DrivenBlocks : ~Shows(base, sigs, p) /\ ~Shows(Against(settles), sigs, p)
      BY <1>1, <2>1, <2>2, LevelNoEdge
    <2>4. \A p \in DrivenBlocks : fires[p] = 0 /\ p \notin woken
      BY <1>3 DEF DrivenBlocks
    <2> QED BY <2>3, <2>4 DEF Balance, One
  <1> QED BY <1>1, <1>2, <1>4, <1>5, <1>7, <1>8, <1>9, <1>10 DEF DrivenInv

\* Every step of a testbench of either kind keeps it.
LEMMA DrivenNext ==
  ASSUME Sigs # {}, DriveRules, CallbackInputs = {}, Disciplined = TRUE,
         NEW settles \in BOOLEAN, DrivenInv(settles), Keeping(settles), [Next]_vars
  PROVE  DrivenInv(settles)'
  <1> USE DEF DrivenInv
  <1>1. TypeOK' /\ PhaseInv' /\ CallInv' /\ CompleteInv'
    BY TypeNext, PhaseNext, CallNext, CompleteNext
  <1>2. BootInv'
    BY KeepingOrderly, BootNext
  <1>3. Away(DrivenBlocks)'
    BY DrivenStays, AwayNext
  <1>4. TestInv(settles)'
    BY TestNext
  <1>5. BaseInv(settles)'
    BY BaseNext
  <1>6. CASE CallDrive
    <2>1. NbaQuiet'
      BY <1>6 DEF CallDrive, NbaQuiet
    <2>2. DetectInv' /\ Balance(settles)'
      BY <1>6, DetectDrive, BalanceDrive
    <2> QED BY <1>1, <1>2, <1>3, <1>4, <1>5, <2>1, <2>2
  <1>7. CASE ~CallDrive
    <2>1. NbaQuiet' /\ \A x \in Inputs : sigs'[x] = sigs[x]
      BY <1>7, InputsKept
    <2>2. DetectInv' /\ Balance(settles)'
      <3>1. CASE \/ CAEval \/ CAPassEnd \/ RegionEnd \/ Resettle
                 \/ \E p \in Procs : Execute(p)
                 \/ DeltaBegin \/ ApplyNba \/ NbaDone \/ DeltaLimitError \/ Collect
                 \/ WakeOne \/ WakeDone \/ CallbackQuiet
        BY <2>1, <3>1, DetectLoop, BalanceLoop
      <3>2. CASE DeltaDone \/ StepEnd \/ RunReturn \/ SettleCollect \/ SettleDrives
        BY <3>2, DetectStarts, BalanceEnds
      <3>3. CASE \/ RunLaunch \/ ExternalDrives \/ ExternalCollect \/ BootDrives \/ FullCA \/ BootCombos
                 \/ BootReaders \/ RunNext \/ SettleBoot
        BY <3>3, DetectStarts, BalanceRun
      <3>4. CASE CallSchedule \/ CallRun \/ CallRunStep \/ CallSettle \/ UNCHANGED vars
        BY <3>4, DetectStarts, BalanceCalls
      <3>5. ~CallbackDrive
        BY DEF CallbackDrive
      <3> QED BY <1>7, <3>1, <3>2, <3>3, <3>4, <3>5 DEF Next, Kernel, Testbench, Done
    <2> QED BY <1>1, <1>2, <1>3, <1>4, <1>5, <2>1, <2>2
  <1> QED BY <1>6, <1>7

\* As settle() or run() returns, a block has run for just the edge driven.
LEMMA DrivenOnce ==
  ASSUME NEW settles \in BOOLEAN, DrivenInv(settles), AfterSettling, NEW p \in DrivenBlocks
  PROVE  fires[p] = IF DrivenEdge(p) THEN 1 ELSE 0
  <1> USE DEF DrivenInv
  <1>1. phase = "idle" /\ ~owed /\ woken = {}
    BY DEF AfterSettling, BootInv, OwedInv, CompleteInv, RegionsInv
  <1>2. Level(Against(settles))
    <2>1. CASE ~settles
      <3>1. Against(settles) = lastRun /\ Level(lastRun)
        BY <1>1, <2>1 DEF Against, Externally, Collecting, TestInv, RunsInv
      <3> QED BY <3>1
    <2>2. CASE settles
      <3>1. pending = {}
        BY <1>1, <2>2 DEF TestInv, SettlesInv
      <3>2. Against(settles) = Nothing
        BY <1>1, <2>2, <3>1 DEF Against, Externally, Collecting
      <3> QED BY <3>2, AgainstType
    <2> QED BY <2>1, <2>2
  <1>3. ~Shows(Against(settles), sigs, p)
    BY <1>2, LevelNoEdge
  <1>4. Shows(base, sigs, p) <=> DrivenEdge(p)
    BY DEF Shows, DrivenEdge
  <1>5. fires[p] + One(p \in woken) + One(Shows(Against(settles), sigs, p)) = One(Shows(base, sigs, p))
    BY DEF Balance
  <1>6. fires[p] \in Nat
    <2>1. fires \in [Seqs -> 0 .. 2] /\ p \in Seqs
      BY DEF TypeOK, HistOK, DrivenBlocks
    <2> QED BY <2>1
  <1> QED BY <1>1, <1>3, <1>4, <1>5, <1>6 DEF One

\* Of a testbench of either kind the invariant holds throughout.
LEMMA DrivenHolds ==
  ASSUME Sigs # {}, DriveRules, CallbackInputs = {}, Disciplined = TRUE, NEW settles \in BOOLEAN
  PROVE  Spec /\ [][Keeping(settles)]_vars => []DrivenInv(settles)
  <1>1. Init => DrivenInv(settles)
    BY DrivenInit
  <1>2. DrivenInv(settles) /\ [Next]_vars /\ [Keeping(settles)]_vars => DrivenInv(settles)'
    <2>1. UNCHANGED vars => Keeping(settles)
      BY DEF vars, Keeping
    <2> QED BY <2>1, DrivenNext
  <1> QED BY <1>1, <1>2, PTL DEF Spec

\* An edge that the testbench drives between two settle() or run() calls has
\* run every block clocked by it when the next of them returns: settle() finds
\* it against _settle_snapshot, run() against _last_run_signals, and neither
\* the bootstrap nor a time step in between renews the snapshot without a
\* detection.  So it is in every design where the testbench alone writes its
\* inputs, under a testbench that either settles its drives before each run()
\* or run_step(), or never calls settle() and drives before a run() only;
\* that takes no time step before the bootstrap; and drives nothing in the
\* on_time_step callback.
THEOREM DrivenEdgeNotLostHolds ==
  ASSUME DriveRules, CallbackInputs = {}, Disciplined = TRUE, NEW settles \in BOOLEAN
  PROVE  Spec /\ [][Keeping(settles)]_vars => []DrivenEdgeNotLost
  <1>1. CASE Sigs = {}
    <2>1. DrivenEdgeNotLost
      BY <1>1 DEF DrivenEdgeNotLost, DrivenEdge
    <2> QED BY <2>1, PTL
  <1>2. CASE Sigs # {}
    <2>1. DrivenInv(settles) => DrivenEdgeNotLost
      BY DrivenOnce DEF DrivenEdgeNotLost, DrivenBlocks
    <2>2. Spec /\ [][Keeping(settles)]_vars => []DrivenInv(settles)
      BY <1>2, DrivenHolds
    <2> QED BY <2>1, <2>2, PTL
  <1> QED BY <1>1, <1>2

\* And it has run them once: no block runs for an edge that was not driven,
\* nor again for one that an earlier call has consumed.
THEOREM DrivenEdgeNotDoubledHolds ==
  ASSUME Sigs # {}, DriveRules, CallbackInputs = {}, Disciplined = TRUE, NEW settles \in BOOLEAN
  PROVE  Spec /\ [][Keeping(settles)]_vars => []DrivenEdgeNotDoubled
  <1>1. DrivenInv(settles) => DrivenEdgeNotDoubled
    BY DrivenOnce DEF DrivenEdgeNotDoubled, DrivenBlocks
  <1>2. Spec /\ [][Keeping(settles)]_vars => []DrivenInv(settles)
    BY DrivenHolds
  <1> QED BY <1>1, <1>2, PTL
=============================================================================
