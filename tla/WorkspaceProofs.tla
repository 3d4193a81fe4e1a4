-------------------------- MODULE WorkspaceProofs --------------------------
(***************************************************************************)
(* What the language server shows and what it knows of the saved files,    *)
(* for any number of files, any texts and any number of notifications.     *)
(***************************************************************************)
EXTENDS Workspace, SequenceTheorems, TLAPS

(* The timers of a file wake up in the order they were started, so the     *)
(* last one to submit its check is the one of the last change.             *)
TimersOf(f) == {tm \in timers : tm.file = f}
TimersOrdered ==
    /\ verible => timers = {}
    /\ \A a \in timers : a.id <= messages
    /\ \A a, b \in timers : a.id = b.id => a = b
    /\ \A a, b \in timers : a.file = b.file /\ a.at # "armed" => a.id <= b.id
    /\ \A a \in timers, f \in Files : a.id = debounce[f] => a.file = f
    /\ \A f \in Files : debounce[f] <= messages

(* The last check or save of an open file is about its buffer: it is the   *)
(* youngest timer, or else the last task queued, or else done or under way.*)
Concerns(task, f) == task.kind \in {"check", "save"} /\ task.file = f
Youngest(tm) == \A o \in TimersOf(tm.file) : o.id <= tm.id
Last(q, k, f) ==
    k \in DOMAIN q /\ Concerns(q[k], f) /\ \A j \in DOMAIN q : j > k => ~Concerns(q[j], f)
Queued(q, f) == \E k \in DOMAIN q : Concerns(q[k], f)

LastTimer(f) == \A tm \in TimersOf(f) : Youngest(tm) => tm.text = buf[f]
LastTask(f) ==
    \A k \in DOMAIN queue : Last(queue, k, f) =>
        queue[k].text = buf[f] /\ (queue[k].kind = "save" => disk[f] = buf[f])

JobOn(kind, f) == job.kind = kind /\ job.file = f
RightVerdict(f) == diags[f] \in {Verdict(buf[f])} \cup (IF verible THEN {"silent"} ELSE {})
UpToDate(f) == shown[f] = Published(f, diags[f], stale[f], semantic)
LastJob(f) ==
    /\ JobOn("parse", f) => job.text = buf[f] /\ disk[f] = buf[f] /\ diags[f] \in RunVerible(buf[f])
    /\ ~JobOn("parse", f) => RightVerdict(f) /\ (JobOn("merge", f) \/ UpToDate(f))

FileShown(f) ==
    /\ LastTimer(f)
    /\ TimersOf(f) = {} => LastTask(f)
    /\ TimersOf(f) = {} /\ ~Queued(queue, f) => LastJob(f)
ShownInv == \A f \in Files : buf[f] # None => FileShown(f)

(* While no save races, what the worker has read is what the files hold.   *)
CacheTrue == \A f \in Files, h \in Texts : cache[f][h] \in {None, h}
SavesCurrent == \A e \in Range(queue) : e.kind = "save" => e.text = disk[e.file]
ReadTo(n) == \A g \in Files : g < n => job.read[g] = disk[g]
JobCurrent ==
    /\ job.kind = "parse" => job.text = disk[job.file]
    /\ job.kind = "merge" => job.text = disk[job.file] /\ job.now = disk[job.file]
    /\ job.kind = "full" => ReadTo(job.next)
    /\ job.kind = "miss" => ReadTo(job.next) /\ job.hash = disk[job.next]
    /\ job.kind = "commit" => job.read = disk /\ job.hash = disk
ReadsTrue == CacheTrue /\ SavesCurrent /\ JobCurrent /\ hashes = design

(* And what the design or the index lacks is still to be done, unless a    *)
(* full parse gave up.                                                     *)
Has(kind) == \E e \in Range(queue) : e.kind = kind
SaveQueued(f) == \E e \in Range(queue) : e.kind = "save" /\ e.file = f
SavePending(f) == JobOn("parse", f) \/ JobOn("merge", f) \/ SaveQueued(f)
FullPending == job.kind \in {"full", "miss", "commit"} \/ Has("full")
DesignCovered ==
    \A f \in Files : design[f] = disk[f] \/ disk[f] \in Broken \/ SavePending(f) \/ FullPending
IndexCovered == index = design \/ Has("index") \/ FullPending
ModelCovered == DesignCovered /\ IndexCovered

ModelInv == ~raced => ReadsTrue /\ (~gaveUp => ModelCovered)
-----------------------------------------------------------------------------
\* A task put at the end of the queue is behind all the others.
LEMMA QueueAppend ==
    ASSUME NEW q \in Seq(Tasks), NEW e \in Tasks
    PROVE  /\ Append(q, e) \in Seq(Tasks)
           /\ DOMAIN q = 1 .. Len(q) /\ Len(q) \in Nat
           /\ DOMAIN Append(q, e) = 1 .. Len(q) + 1
           /\ \A k \in DOMAIN q : q[k] \in Tasks /\ Append(q, e)[k] = q[k]
           /\ Append(q, e)[Len(q) + 1] = e
BY AppendProperties, LenProperties, ElementOfSeq

\* The worker takes the task at the front; the others move up by one.
LEMMA QueueTake ==
    ASSUME NEW q \in Seq(Tasks), q # <<>>
    PROVE  /\ Tail(q) \in Seq(Tasks) /\ Head(q) \in Tasks
           /\ DOMAIN q = 1 .. Len(q) /\ Len(q) \in Nat \ {0}
           /\ DOMAIN Tail(q) = 1 .. Len(q) - 1
           /\ q[1] = Head(q)
           /\ \A k \in DOMAIN Tail(q) : k + 1 \in DOMAIN q /\ Tail(q)[k] = q[k + 1]
           /\ \A k \in DOMAIN q : k # 1 => k - 1 \in DOMAIN Tail(q) /\ Tail(q)[k - 1] = q[k]
<1>1. Len(q) \in Nat \ {0} /\ DOMAIN q = 1 .. Len(q) /\ Head(q) = q[1] /\ Head(q) \in Tasks
  BY HeadTailProperties, LenProperties, EmptySeq
<1>2. Tail(q) \in Seq(Tasks) /\ Len(Tail(q)) = Len(q) - 1
      /\ \A i \in 1 .. Len(Tail(q)) : Tail(q)[i] = q[i + 1]
  BY HeadTailProperties
<1>3. DOMAIN Tail(q) = 1 .. Len(q) - 1
  BY <1>2, LenProperties
<1> QED
  BY <1>1, <1>2, <1>3
-----------------------------------------------------------------------------
\* What an action leaves alone keeps its type.
LEMMA Kept ==
    /\ EditorOK /\ UNCHANGED editor => EditorOK'
    /\ CheckingOK /\ UNCHANGED checking => CheckingOK'
    /\ ParsedOK /\ UNCHANGED parsed => ParsedOK'
BY DEF EditorOK, CheckingOK, ParsedOK, editor, checking, parsed

\* A server that has just started is well typed.
LEMMA FreshServer ==
    /\ <<FullTier>> \in Seq(Tasks) /\ Idle \in Jobs
    /\ NoDesign \in [Files -> Entry] /\ NothingShown \in [Files -> Marks]
<1>1. <<FullTier>> \in Seq(Tasks)
  BY DEF Tasks
<1> QED
  BY <1>1 DEF NoDesign, NothingShown, Entry, Jobs, Marks

\* The initial states are well typed.
LEMMA TypeInit == Init => TypeOK
<1> SUFFICES ASSUME Init PROVE TypeOK
  OBVIOUS
<1>1. EditorOK
  BY FreshServer, WorkspaceAssumption DEF Init, EditorOK
<1>2. CheckingOK
  BY WorkspaceAssumption DEF Init, CheckingOK
<1>3. ParsedOK
  BY FreshServer DEF Init, ParsedOK
<1>4. cache \in [Files -> [Texts -> Entry]]
  BY DEF Init, Entry
<1> QED
  BY <1>1, <1>2, <1>3, <1>4, FreshServer DEF Init, TypeOK

\* A notification of the editor, or a restart of the server, is well typed.
LEMMA TypeEditor == ASSUME TypeOK, Editor PROVE TypeOK'
<1> USE WorkspaceAssumption DEF TypeOK, history
<1>1. ASSUME NEW f \in Files, NEW t \in Texts, OnDidChange(f, t) PROVE TypeOK'
  <2>1. Check(f, t) \in Tasks
    BY DEF Check, Tasks
  <2>2. messages' \in 1 .. MaxMessages
    BY <1>1 DEF OnDidChange, EditorOK
  <2>3. EditorOK'
    BY <1>1, <2>2 DEF OnDidChange, EditorOK, Entry
  <2>4. ParsedOK' /\ UNCHANGED <<cache, job, raced, gaveUp>>
    BY <1>1, Kept DEF OnDidChange
  <2>5. CASE verible
    <3>1. queue' \in Seq(Tasks)
      BY <1>1, <2>1, <2>5, QueueAppend DEF OnDidChange, SubmitCheck
    <3>2. CheckingOK'
      BY <1>1, <2>5, Kept DEF OnDidChange, SubmitCheck, checking
    <3> QED
      BY <2>3, <2>4, <3>1, <3>2
  <2>6. CASE ~verible
    <3>1. debounce' \in [Files -> 0 .. MaxMessages]
      BY <1>1, <2>2, <2>6 DEF OnDidChange, ScheduleLarkCheck, CheckingOK
    <3>2. NewTimer(f, t) \in Timers
      BY <2>2 DEF NewTimer, Timers
    <3>3. CheckingOK' /\ UNCHANGED queue
      BY <1>1, <2>6, <3>1, <3>2 DEF OnDidChange, ScheduleLarkCheck, Uncancelled, CheckingOK
    <3> QED
      BY <2>3, <2>4, <3>3
  <2> QED
    BY <2>5, <2>6
<1>2. ASSUME NEW f \in Files, Save(f) PROVE TypeOK'
  <2>1. buf[f] \in Texts
    BY <1>2 DEF Save, EditorOK, Entry
  <2>2. queue' \in Seq(Tasks)
    <3>1. SaveTier(f, buf[f]) \in Tasks
      BY <2>1 DEF SaveTier, Tasks
    <3> QED
      BY <1>2, <3>1, QueueAppend DEF Save
  <2>3. raced' \in BOOLEAN
    BY <1>2 DEF Save
  <2>4. EditorOK'
    BY <1>2, <2>1 DEF Save, EditorOK
  <2> QED
    BY <1>2, <2>2, <2>3, <2>4, Kept DEF Save
<1>3. ASSUME NEW f \in Files, Close(f) PROVE TypeOK'
  <2>1. EditorOK'
    BY <1>3 DEF Close, EditorOK, Entry
  <2>2. CheckingOK'
    BY <1>3 DEF Close, Uncancelled, CheckingOK
  <2> QED
    BY <1>3, <2>1, <2>2, Kept DEF Close
<1>4. CASE Reparse
  <2>1. queue' \in Seq(Tasks)
    BY <1>4, QueueAppend DEF Reparse, Tasks
  <2>2. EditorOK'
    BY <1>4 DEF Reparse, EditorOK
  <2> QED
    BY <1>4, <2>1, <2>2, Kept DEF Reparse
<1>5. CASE Restart
  <2>1. EditorOK'
    BY <1>5, FreshServer DEF Restart, EditorOK
  <2>2. CheckingOK'
    BY <1>5 DEF Restart, CheckingOK
  <2>3. ParsedOK'
    BY <1>5, FreshServer DEF Restart, ParsedOK
  <2> QED
    BY <1>5, <2>1, <2>2, <2>3, FreshServer DEF Restart
<1>6. ASSUME NEW f \in Files, Open(f) PROVE TypeOK'
  BY <1>1, <1>6 DEF Open, EditorOK
<1>7. ASSUME NEW f \in Files, NEW t \in Texts, Change(f, t) PROVE TypeOK'
  BY <1>1, <1>7 DEF Change
<1> QED
  BY <1>2, <1>3, <1>4, <1>5, <1>6, <1>7 DEF Editor

\* So is a step of a timer thread.
LEMMA TypeTimer == ASSUME TypeOK, TimerThread PROVE TypeOK'
<1> USE DEF TypeOK, history
<1> PICK tm \in timers : TimerWakes(tm) \/ FirePops(tm) \/ FireSubmits(tm)
  BY DEF TimerThread
<1>1. /\ tm \in Timers
      /\ [tm EXCEPT !.at = "woken"] \in Timers /\ [tm EXCEPT !.at = "popped"] \in Timers
  BY DEF CheckingOK, Timers
<1>2. CASE TimerWakes(tm)
  <2>1. CheckingOK'
    BY <1>1, <1>2 DEF TimerWakes, CheckingOK
  <2> QED
    BY <1>2, <2>1, Kept DEF TimerWakes
<1>3. CASE FirePops(tm)
  <2>1. debounce' \in [Files -> 0 .. MaxMessages]
    <3>1. 0 \in 0 .. MaxMessages /\ debounce' = [debounce EXCEPT ![tm.file] = 0]
      BY <1>3, WorkspaceAssumption DEF FirePops
    <3> HIDE DEF FirePops
    <3> QED
      BY <3>1 DEF CheckingOK
  <2>2. timers' \subseteq Timers
    BY <1>1, <1>3 DEF FirePops, CheckingOK
  <2> QED
    BY <1>3, <2>1, <2>2, Kept DEF FirePops, CheckingOK
<1>4. CASE FireSubmits(tm)
  <2>1. Check(tm.file, tm.text) \in Tasks
    BY <1>1 DEF Check, Tasks, Timers
  <2>2. queue' \in Seq(Tasks)
    BY <1>4, <2>1, QueueAppend DEF FireSubmits
  <2>3. CheckingOK'
    BY <1>4 DEF FireSubmits, CheckingOK
  <2> QED
    BY <1>4, <2>2, <2>3, Kept DEF FireSubmits
<1> QED
  BY <1>2, <1>3, <1>4

\* The tasks and the jobs, by kind.
LEMMA TaskKinds ==
    ASSUME NEW e \in Tasks
    PROVE  /\ e.kind \in {"check", "save", "full", "index"}
           /\ e.kind \in {"check", "save"} => e.file \in Files /\ e.text \in Texts
BY DEF Tasks, FullTier, IndexTier

LEMMA JobKinds ==
    ASSUME NEW j \in Jobs
    PROVE  /\ j = Idle <=> j.kind = "idle"
           /\ j.kind = "parse" => j \in [kind : {"parse"}, file : Files, text : Texts]
           /\ j.kind = "merge" => j \in [kind : {"merge"}, file : Files, text : Texts, now : Texts]
           /\ j.kind = "full" =>
                j \in [kind : {"full"}, next : 1 .. NFiles + 1, read : [Files -> Entry]]
           /\ j.kind = "miss" =>
                j \in [kind : {"miss"}, next : Files, read : [Files -> Entry], hash : Texts]
           /\ j.kind = "commit" =>
                j \in [kind : {"commit"}, read : [Files -> Entry], hash : [Files -> Texts]]
BY DEF Jobs, Idle

\* What is published of a file is two marks.
LEMMA PublishedType ==
    ASSUME NEW f, NEW d, NEW st, NEW sem PROVE Published(f, d, st, sem) \in Marks
BY DEF Published, Marks

\* What a tool says of a text.
LEMMA VerdictTypes ==
    ASSUME NEW t
    PROVE  /\ Verdict(t) \in {"clean", "error"}
           /\ RunVerible(t) \subseteq {"clean", "error", "silent"}
BY DEF Verdict, RunVerible

\* So is a step of the worker that is about one file ...
LEMMA TypeOneFile ==
    ASSUME TypeOK, RunCheck \/ SaveLint \/ SaveParse \/ SaveFails \/ SaveMerge
    PROVE  TypeOK'
<1> USE DEF TypeOK, history
<1>1. CASE RunCheck
  <2>1. Head(queue) \in Tasks /\ Tail(queue) \in Seq(Tasks) /\ Head(queue).kind = "check"
    BY <1>1, QueueTake DEF RunCheck, Takes
  <2> DEFINE f == Head(queue).file
             t == Head(queue).text
  <2>2. f \in Files
    BY <2>1, TaskKinds
  <2> HIDE DEF f, t
  <2>3. PICK r \in IF verible THEN RunVerible(t) ELSE {Verdict(t)} :
           /\ diags' = [diags EXCEPT ![f] = r]
           /\ shown' = [shown EXCEPT ![f] = Published(f, r, stale[f], semantic)]
    BY <1>1 DEF RunCheck, f, t
  <2>4. r \in {"clean", "error", "silent"} /\ Published(f, r, stale[f], semantic) \in Marks
    BY <2>3, VerdictTypes, PublishedType
  <2>5. ParsedOK'
    BY <1>1, <2>2, <2>3, <2>4 DEF RunCheck, ParsedOK
  <2> QED
    BY <1>1, <2>1, <2>5, Kept DEF RunCheck
<1>2. CASE SaveLint
  <2>1. Head(queue) \in Tasks /\ Tail(queue) \in Seq(Tasks) /\ Head(queue).kind = "save"
    BY <1>2, QueueTake DEF SaveLint, Takes
  <2> DEFINE f == Head(queue).file
             t == Head(queue).text
  <2>2. f \in Files /\ t \in Texts
    BY <2>1, TaskKinds
  <2> HIDE DEF f, t
  <2>3. PICK r \in RunVerible(t), tagged \in BOOLEAN :
           /\ diags' = [diags EXCEPT ![f] = r]
           /\ stale' = [stale EXCEPT ![f] = @ \/ (r = "error" /\ tagged)]
           /\ IF r = "error" /\ tagged
              THEN /\ job' = Idle
                   /\ shown' = [shown EXCEPT ![f] = Published(f, r, TRUE, semantic)]
              ELSE /\ job' = [kind |-> "parse", file |-> f, text |-> t]
                   /\ UNCHANGED shown
    BY <1>2 DEF SaveLint, f, t
  <2>4. r \in {"clean", "error", "silent"} /\ Published(f, r, TRUE, semantic) \in Marks
    BY <2>3, VerdictTypes, PublishedType
  <2>5. job' \in Jobs /\ shown' \in [Files -> Marks]
    <3>1. [kind |-> "parse", file |-> f, text |-> t] \in Jobs
      BY <2>2 DEF Jobs
    <3> QED
      BY <2>3, <2>4, <3>1, FreshServer DEF ParsedOK
  <2>6. stale' \in [Files -> BOOLEAN]
    BY <2>2, <2>3 DEF ParsedOK
  <2>7. ParsedOK'
    BY <1>2, <2>2, <2>3, <2>4, <2>5, <2>6 DEF SaveLint, ParsedOK
  <2> QED
    BY <1>2, <2>1, <2>5, <2>7, Kept DEF SaveLint
<1>3. CASE SaveParse
  <2>1. job' \in Jobs
    BY <1>3, JobKinds DEF SaveParse, EditorOK, Jobs
  <2> QED
    BY <1>3, <2>1, Kept DEF SaveParse
<1>4. CASE SaveFails
  <2>1. job.file \in Files
    BY <1>4, JobKinds DEF SaveFails
  <2>2. diags' \in [Files -> {"absent", "clean", "error", "silent"}] /\ stale' \in [Files -> BOOLEAN]
    BY <1>4, <2>1 DEF SaveFails, ParsedOK
  <2>3. shown' \in [Files -> Marks]
    <3>1. Published(job.file, diags'[job.file], stale'[job.file], semantic) \in Marks
      BY PublishedType
    <3> QED
      BY <1>4, <3>1 DEF SaveFails, ParsedOK
  <2>4. ParsedOK'
    BY <1>4, <2>2, <2>3 DEF SaveFails, ParsedOK
  <2> QED
    BY <1>4, <2>4, Kept, FreshServer DEF SaveFails
<1>5. CASE SaveMerge
  <2>1. job.file \in Files /\ job.text \in Texts /\ job.now \in Texts
    BY <1>5, JobKinds DEF SaveMerge
  <2>2. Published(job.file, diags[job.file], FALSE, semantic) \in Marks
    BY PublishedType
  <2>3. ParsedOK'
    BY <1>5, <2>1, <2>2 DEF SaveMerge, ParsedOK, Entry
  <2>4. StartFull \in Jobs /\ IndexTier \in Tasks
    BY FreshServer, WorkspaceAssumption DEF StartFull, Jobs, Tasks
  <2>5. job' \in Jobs /\ queue' \in Seq(Tasks)
    BY <1>5, <2>4, FreshServer, QueueAppend DEF SaveMerge
  <2> QED
    BY <1>5, <2>3, <2>5, Kept DEF SaveMerge
<1> QED
  BY <1>1, <1>2, <1>3, <1>4, <1>5

\* ... and one that is about all of them.
LEMMA TypeAllFiles ==
    ASSUME TypeOK, RebuildIndex \/ TakeFull \/ FullLookup \/ FullParse \/ FullHash \/ FullCommit
    PROVE  TypeOK'
<1> USE WorkspaceAssumption DEF TypeOK, history
<1>1. CASE RebuildIndex
  <2>1. Tail(queue) \in Seq(Tasks)
    BY <1>1, QueueTake DEF RebuildIndex, Takes
  <2>2. ParsedOK'
    BY <1>1 DEF RebuildIndex, ParsedOK
  <2> QED
    BY <1>1, <2>1, <2>2, Kept DEF RebuildIndex
<1>2. CASE TakeFull
  <2>1. Tail(queue) \in Seq(Tasks) /\ StartFull \in Jobs
    BY <1>2, QueueTake, FreshServer DEF TakeFull, Takes, StartFull, Jobs
  <2> QED
    BY <1>2, <2>1, Kept DEF TakeFull
<1>3. CASE FullLookup
  <2>1. job \in [kind : {"full"}, next : 1 .. NFiles + 1, read : [Files -> Entry]]
    BY <1>3, JobKinds DEF FullLookup
  <2> DEFINE f == job.next
             hit == cache[f][disk[f]]
  <2>2. f \in Files /\ disk[f] \in Texts /\ hit \in Entry
    BY <1>3, <2>1 DEF FullLookup, Files, EditorOK
  <2>3. job' \in Jobs
    <3>1. CASE hit # None
      <4>1. job' = [job EXCEPT !.next = f + 1, !.read[f] = hit]
        BY <1>3, <3>1 DEF FullLookup
      <4>2. f + 1 \in 1 .. NFiles + 1
        BY <2>2 DEF Files
      <4>3. job' \in [kind : {"full"}, next : 1 .. NFiles + 1, read : [Files -> Entry]]
        BY <2>1, <2>2, <4>1, <4>2
      <4> QED
        BY <4>3 DEF Jobs
    <3>2. CASE hit = None
      <4>1. job' = [kind |-> "miss", next |-> f, read |-> job.read, hash |-> disk[f]]
        BY <1>3, <3>2 DEF FullLookup
      <4> QED
        BY <2>1, <2>2, <4>1 DEF Jobs
    <3> QED
      BY <3>1, <3>2
  <2> QED
    BY <1>3, <2>3, Kept DEF FullLookup
<1>4. CASE FullParse
  <2>1. job \in [kind : {"miss"}, next : Files, read : [Files -> Entry], hash : Texts]
    BY <1>4, JobKinds DEF FullParse
  <2> DEFINE f == job.next
             now == disk[f]
  <2>2. f \in Files /\ now \in Texts /\ f + 1 \in 1 .. NFiles + 1
    BY <2>1 DEF Files, EditorOK
  <2>3. CASE now \in Broken
    BY <1>4, <2>3, Kept, FreshServer DEF FullParse
  <2>4. CASE now \notin Broken
    <3>1. /\ cache' = [cache EXCEPT ![f][job.hash] = now]
          /\ job' = [kind |-> "full", next |-> f + 1, read |-> [job.read EXCEPT ![f] = now]]
          /\ UNCHANGED gaveUp
      BY <1>4, <2>4 DEF FullParse
    <3>2. cache' \in [Files -> [Texts -> Entry]]
      BY <2>1, <2>2, <3>1 DEF Entry
    <3>3. job' \in [kind : {"full"}, next : 1 .. NFiles + 1, read : [Files -> Entry]]
      BY <2>1, <2>2, <3>1 DEF Entry
    <3>4. job' \in Jobs
      BY <3>3 DEF Jobs
    <3> QED
      BY <1>4, <3>1, <3>2, <3>4, Kept DEF FullParse
  <2> QED
    BY <2>3, <2>4
<1>5. CASE FullHash
  <2>1. job' \in Jobs
    BY <1>5, JobKinds DEF FullHash, Jobs, EditorOK
  <2> QED
    BY <1>5, <2>1, Kept DEF FullHash
<1>6. CASE FullCommit
  <2>1. job.read \in [Files -> Entry] /\ job.hash \in [Files -> Entry]
    BY <1>6, JobKinds DEF FullCommit, Entry
  <2>2. shown' \in [Files -> Marks]
    <3>1. \A f \in Files : Published(f, diags[f], FALSE, semantic') \in Marks
      BY PublishedType
    <3> QED
      BY <1>6, <3>1 DEF FullCommit, ParsedOK
  <2>3. ParsedOK'
    BY <1>6, <2>1, <2>2 DEF FullCommit, ParsedOK
  <2> QED
    BY <1>6, <2>3, Kept, FreshServer DEF FullCommit
<1> QED
  BY <1>1, <1>2, <1>3, <1>4, <1>5, <1>6

\* Every step of the server and its editor is well typed.
LEMMA TypeStep == TypeOK /\ [Next]_vars => TypeOK'
<1>1. TypeOK /\ UNCHANGED vars => TypeOK'
  BY Kept DEF TypeOK, vars, editor, checking, parsed
<1> QED
  BY <1>1, TypeEditor, TypeTimer, TypeOneFile, TypeAllFiles DEF Next, Worker
-----------------------------------------------------------------------------
\* Timers keep their order: a new one is younger than all, and only the oldest
\* of a file wakes up.
LEMMA OrderStep ==
    ASSUME TypeOK, TimersOrdered, [Next]_vars PROVE TimersOrdered'
<1> USE DEF TypeOK, EditorOK, CheckingOK, TimersOrdered
<1>1. ASSUME NEW f \in Files, NEW t \in Texts, OnDidChange(f, t) PROVE TimersOrdered'
  <2>1. messages' = messages + 1 /\ UNCHANGED verible
    BY <1>1 DEF OnDidChange
  <2>2. CASE verible
    BY <1>1, <2>1, <2>2 DEF OnDidChange, SubmitCheck
  <2>3. CASE ~verible
    <3> DEFINE new == NewTimer(f, t)
    <3>1. new.id = messages + 1 /\ new.file = f /\ new.at = "armed"
      BY <2>1 DEF NewTimer
    <3> HIDE DEF new
    <3>2. timers' \subseteq timers \cup {new} /\ debounce' = [debounce EXCEPT ![f] = messages + 1]
      BY <1>1, <2>1, <2>3 DEF OnDidChange, ScheduleLarkCheck, Uncancelled, new
    <3>3. messages \in Int /\ \A a \in timers : a.id \in Int /\ a.id <= messages /\ a.id < messages + 1
      BY WorkspaceAssumption DEF Timers
    <3> HIDE DEF TypeOK, EditorOK, CheckingOK
    <3>4. \A a, b \in timers' : a.id = b.id => a = b
      BY <3>1, <3>2, <3>3
    <3>5. \A a, b \in timers' : a.file = b.file /\ a.at # "armed" => a.id <= b.id
      BY <3>1, <3>2, <3>3
    <3>6. \A a \in timers', g \in Files : a.id = debounce'[g] => a.file = g
      <4> SUFFICES ASSUME NEW a \in timers', NEW g \in Files, a.id = debounce'[g] PROVE a.file = g
        OBVIOUS
      <4>1. debounce'[g] = IF g = f THEN messages + 1 ELSE debounce[g]
        BY <3>2 DEF CheckingOK, TypeOK
      <4>2. debounce[g] \in Int /\ debounce[g] <= messages
        BY WorkspaceAssumption DEF CheckingOK, TypeOK
      <4> QED
        BY <3>1, <3>2, <3>3, <4>1, <4>2
    <3>7. \A a \in timers' : a.id <= messages'
      BY <2>1, <3>1, <3>2, <3>3
    <3>8. \A g \in Files : debounce'[g] <= messages'
      BY <2>1, <3>2, <3>3, WorkspaceAssumption DEF CheckingOK, TypeOK
    <3> QED
      BY <2>1, <2>3, <3>4, <3>5, <3>6, <3>7, <3>8
  <2> QED
    BY <2>2, <2>3
<1>2. ASSUME NEW f \in Files, Save(f) \/ Close(f) PROVE TimersOrdered'
  <2>1. \A a \in timers : a.id \in Nat \ {0} /\ a.id <= messages
    BY WorkspaceAssumption DEF Timers
  <2>2. timers' \subseteq timers /\ messages' = messages + 1 /\ UNCHANGED verible
        /\ debounce' \in {debounce, [debounce EXCEPT ![f] = 0]}
    BY <1>2 DEF Save, Close, Uncancelled, checking
  <2> QED
    BY <2>1, <2>2
<1>3. CASE Reparse \/ Restart
  BY <1>3, WorkspaceAssumption DEF Reparse, Restart, checking, Timers
<1>4. CASE TimerThread
  <2> PICK tm \in timers : TimerWakes(tm) \/ FirePops(tm) \/ FireSubmits(tm)
    BY <1>4 DEF TimerThread
  <2>1. \A a \in timers : a.id \in Nat \ {0} /\ a.id <= messages
    BY WorkspaceAssumption DEF Timers
  <2>2. UNCHANGED <<messages, verible>>
    BY DEF TimerWakes, FirePops, FireSubmits, editor
  <2>3. CASE FireSubmits(tm)
    BY <2>1, <2>2, <2>3 DEF FireSubmits
  <2>4. ASSUME NEW w \in {"woken", "popped"}, timers' = (timers \ {tm}) \cup {[tm EXCEPT !.at = w]},
               debounce' \in {debounce, [debounce EXCEPT ![tm.file] = 0]},
               \A o \in timers : o.file = tm.file => tm.id <= o.id
        PROVE  TimersOrdered'
    <3> DEFINE new == [tm EXCEPT !.at = w]
    <3>1. new.id = tm.id /\ new.file = tm.file /\ tm.file \in Files
      BY DEF Timers
    <3> HIDE DEF new
    <3>2. timers' = (timers \ {tm}) \cup {new}
      BY <2>4 DEF new
    <3>3. \A a, b \in timers' : a.id = b.id => a = b
      BY <3>1, <3>2
    <3>4. \A a, b \in timers' : a.file = b.file /\ a.at # "armed" => a.id <= b.id
      BY <2>1, <2>4, <3>1, <3>2
    <3>5. \A a \in timers', g \in Files : a.id = debounce'[g] => a.file = g
      BY <2>1, <2>4, <3>1, <3>2
    <3>6. \A a \in timers' : a.id <= messages'
      BY <2>2, <3>1, <3>2
    <3>7. \A f \in Files : debounce'[f] \in {0, debounce[f]}
      <4>1. debounce \in [Files -> 0 .. MaxMessages]
        OBVIOUS
      <4> HIDE DEF TypeOK, EditorOK, CheckingOK, TimersOrdered
      <4> QED
        BY <2>4, <4>1
    <3>8. \A f \in Files : debounce'[f] <= messages'
      <4>1. 0 <= messages /\ messages' = messages /\ \A f \in Files : debounce[f] <= messages
        BY <2>2, WorkspaceAssumption
      <4> HIDE DEF TypeOK, EditorOK, CheckingOK, TimersOrdered
      <4> QED
        BY <3>7, <4>1
    <3> QED
      BY <2>2, <3>3, <3>4, <3>5, <3>6, <3>8
  <2>5. CASE TimerWakes(tm)
    BY <2>4, <2>5 DEF TimerWakes
  <2>6. CASE FirePops(tm)
    BY <2>4, <2>6 DEF FirePops
  <2> QED
    BY <2>3, <2>5, <2>6
<1>5. CASE Worker \/ UNCHANGED vars
  <2>1. UNCHANGED <<messages, verible, timers, debounce>>
    BY <1>5 DEF Worker, RunCheck, SaveLint, SaveParse, SaveFails, SaveMerge, RebuildIndex,
                TakeFull, FullLookup, FullParse, FullHash, FullCommit, editor, checking, vars
  <2> QED
    BY <2>1
<1>6. CASE Editor
  BY <1>1, <1>2, <1>3, <1>6, WorkspaceAssumption DEF Editor, Open, Change
<1> QED
  BY <1>4, <1>5, <1>6 DEF Next
-----------------------------------------------------------------------------
\* q2 has the same last task of f as q.
SameLast(q, q2, f) ==
    /\ Queued(q2, f) <=> Queued(q, f)
    /\ \A k : Last(q2, k, f) => Last(q, k, f) /\ q2[k] = q[k]
EndsWith(q2, e, f) == Queued(q2, f) /\ \A k : Last(q2, k, f) => q2[k] = e

\* A task about another file does not change which task of f is the last one.
LEMMA OtherAppended ==
    ASSUME NEW q \in Seq(Tasks), NEW e \in Tasks, NEW f, ~Concerns(e, f)
    PROVE  SameLast(q, Append(q, e), f)
BY QueueAppend DEF SameLast, Queued, Last

\* A task about f, put at the end, is the last one.
LEMMA OwnAppended ==
    ASSUME NEW q \in Seq(Tasks), NEW e \in Tasks, NEW f, Concerns(e, f)
    PROVE  EndsWith(Append(q, e), e, f)
<1>1. Len(q) + 1 \in DOMAIN Append(q, e) /\ Append(q, e)[Len(q) + 1] = e
  BY QueueAppend
<1>2. \A k \in DOMAIN Append(q, e) : k # Len(q) + 1 => Len(q) + 1 > k
  BY QueueAppend
<1> QED
  BY <1>1, <1>2 DEF EndsWith, Queued, Last

\* Taking a task leaves the last one where it was, unless it was that one.
LEMMA Taken ==
    ASSUME NEW q \in Seq(Tasks), q # <<>>, NEW f
    PROVE  /\ \A k : Last(Tail(q), k, f) => Last(q, k + 1, f) /\ Tail(q)[k] = q[k + 1]
           /\ ~Queued(Tail(q), f) /\ Concerns(Head(q), f) => Last(q, 1, f)
           /\ ~Queued(Tail(q), f) /\ ~Concerns(Head(q), f) => ~Queued(q, f)
<1> USE QueueTake
<1>1. ASSUME NEW k, Last(Tail(q), k, f) PROVE Last(q, k + 1, f) /\ Tail(q)[k] = q[k + 1]
  <2>1. k \in DOMAIN Tail(q) /\ k \in Int /\ k + 1 \in DOMAIN q /\ Tail(q)[k] = q[k + 1]
    BY <1>1 DEF Last
  <2>2. ASSUME NEW j \in DOMAIN q, j > k + 1 PROVE ~Concerns(q[j], f)
    <3>1. j - 1 \in DOMAIN Tail(q) /\ Tail(q)[j - 1] = q[j] /\ j - 1 > k
      BY <2>1, <2>2
    <3> QED
      BY <1>1, <3>1 DEF Last
  <2> QED
    BY <1>1, <2>1, <2>2 DEF Last
<1>2. ASSUME ~Queued(Tail(q), f), NEW j \in DOMAIN q, j # 1 PROVE ~Concerns(q[j], f)
  BY <1>2 DEF Queued
<1>3. 1 \in DOMAIN q /\ q[1] = Head(q)
  OBVIOUS
<1>4. ~Queued(Tail(q), f) /\ Concerns(Head(q), f) => Last(q, 1, f)
  BY <1>2, <1>3 DEF Last
<1>5. ~Queued(Tail(q), f) /\ ~Concerns(Head(q), f) => ~Queued(q, f)
  BY <1>2, <1>3 DEF Queued
<1> QED
  BY <1>1, <1>4, <1>5

\* A step that appends nothing about an open file and changes neither its
\* buffer nor its timers leaves it shown right if the last job stays right.
LEMMA FileKept ==
    ASSUME NEW f \in Files, FileShown(f), buf'[f] = buf[f], TimersOf(f)' = TimersOf(f),
           disk'[f] \in {disk[f], buf[f]},
           \A k : Last(queue', k, f) => \E m : Last(queue, m, f) /\ queue'[k] = queue[m],
           TimersOf(f) = {} /\ ~Queued(queue', f) => LastJob(f)'
    PROVE  FileShown(f)'
<1>1. LastTimer(f)'
  BY DEF FileShown, LastTimer, Youngest, TimersOf
<1>2. TimersOf(f) = {} => LastTask(f)'
  BY DEF FileShown, LastTask, Last
<1> QED
  BY <1>1, <1>2 DEF FileShown

\* The editor: a change brings a younger timer or a later check, a save brings
\* the file up to the buffer.
LEMMA ShownEditor == ASSUME TypeOK, TimersOrdered, ShownInv, Editor PROVE ShownInv'
<1>1. ASSUME NEW g \in Files, NEW t \in Texts, OnDidChange(g, t),
             NEW f \in Files, buf'[f] # None
      PROVE  FileShown(f)'
  <2>1. /\ buf' = [buf EXCEPT ![g] = t] /\ messages' = messages + 1
        /\ UNCHANGED <<disk, verible, job, diags, stale, semantic, shown>>
    BY <1>1 DEF OnDidChange, parsed
  <2>2. Check(g, t) \in Tasks /\ queue \in Seq(Tasks)
    BY DEF Check, Tasks, TypeOK
  <2>3. CASE f = g /\ verible
    <3>1. timers' = {} /\ queue' = Append(queue, Check(f, t)) /\ buf'[f] = t
      BY <1>1, <2>1, <2>3 DEF OnDidChange, SubmitCheck, TimersOrdered, TypeOK, EditorOK
    <3>2. Concerns(Check(f, t), f) /\ Check(f, t).text = t /\ Check(f, t).kind # "save"
      BY DEF Concerns, Check
    <3>3. EndsWith(queue', Check(f, t), f)
      BY <2>2, <2>3, <3>1, <3>2, OwnAppended
    <3>4. LastTimer(f)' /\ LastTask(f)'
      BY <3>1, <3>2, <3>3 DEF LastTimer, TimersOf, LastTask, EndsWith
    <3> QED
      BY <3>3, <3>4 DEF FileShown, EndsWith
  <2>4. CASE f = g /\ ~verible
    <3> DEFINE new == NewTimer(f, t)
    <3>1. timers' = Uncancelled(f) \cup {new} /\ buf'[f] = t
      BY <1>1, <2>1, <2>4 DEF OnDidChange, ScheduleLarkCheck, TypeOK, EditorOK
    <3>2. new.id = messages + 1 /\ new.file = f /\ new.text = t
      BY <2>1 DEF NewTimer
    <3> HIDE DEF new
    <3>3. \A a \in timers : ~(messages + 1 <= a.id)
      BY WorkspaceAssumption DEF TimersOrdered, TypeOK, CheckingOK, EditorOK, Timers
    <3>4. new \in TimersOf(f)'
      BY <3>1, <3>2 DEF TimersOf
    <3>5. ASSUME NEW tm \in TimersOf(f)', Youngest(tm)' PROVE tm = new
      <4>1. tm.file = f /\ new.id <= tm.id /\ tm \in timers \cup {new}
        BY <3>1, <3>4, <3>5 DEF Youngest, TimersOf, Uncancelled
      <4> QED
        BY <3>2, <3>3, <4>1
    <3>6. LastTimer(f)'
      BY <3>1, <3>2, <3>5 DEF LastTimer
    <3> QED
      BY <3>4, <3>6 DEF FileShown
  <2>5. CASE f # g
    <3>1. buf'[f] = buf[f] /\ FileShown(f)
      BY <1>1, <2>1, <2>5 DEF ShownInv, TypeOK, EditorOK
    <3>2. TimersOf(f)' = TimersOf(f)
      <4>1. CASE verible
        BY <1>1, <4>1 DEF OnDidChange, SubmitCheck, TimersOf
      <4>2. CASE ~verible
        <5>1. timers' = Uncancelled(g) \cup {NewTimer(g, t)} /\ NewTimer(g, t).file = g
          BY <1>1, <4>2 DEF OnDidChange, ScheduleLarkCheck, NewTimer
        <5> QED
          BY <2>5, <5>1 DEF Uncancelled, TimersOf, TimersOrdered
      <4> QED
        BY <4>1, <4>2
    <3>3. ~Concerns(Check(g, t), f)
      BY <2>5 DEF Concerns, Check
    <3>4. queue' \in {queue, Append(queue, Check(g, t))}
      BY <1>1 DEF OnDidChange, SubmitCheck, ScheduleLarkCheck
    <3>5. SameLast(queue, queue', f)
      <4>1. CASE queue' = queue
        BY <4>1 DEF SameLast
      <4>2. CASE queue' = Append(queue, Check(g, t))
        BY <2>2, <3>3, <4>2, OtherAppended
      <4> QED
        BY <3>4, <4>1, <4>2
    <3>6. LastJob(f)' <=> LastJob(f)
      BY <2>1, <3>1 DEF LastJob, JobOn, RightVerdict, UpToDate, RunVerible
    <3> QED
      BY <2>1, <3>1, <3>2, <3>5, <3>6, FileKept DEF FileShown, SameLast
  <2> QED
    BY <2>3, <2>4, <2>5
<1>2. ASSUME NEW g \in Files, Save(g), NEW f \in Files, buf'[f] # None
      PROVE  FileShown(f)'
  <2>1. /\ UNCHANGED <<buf, timers, verible, job, diags, stale, semantic, shown>>
        /\ disk' = [disk EXCEPT ![g] = buf[g]]
        /\ queue' \in {queue, Append(queue, SaveTier(g, buf[g]))}
        /\ queue \in Seq(Tasks) /\ buf[g] \in Texts
    BY <1>2 DEF Save, parsed, checking, TypeOK, EditorOK, Entry
  <2>2. SaveTier(g, buf[g]) \in Tasks /\ FileShown(f)
    BY <1>2, <2>1 DEF SaveTier, Tasks, ShownInv
  <2>3. TimersOf(f)' = TimersOf(f) /\ disk'[f] = (IF f = g THEN buf[f] ELSE disk[f])
    BY <2>1 DEF TimersOf, TypeOK, EditorOK
  <2>4. LastJob(f) => LastJob(f)'
    BY <2>1, <2>3 DEF LastJob, JobOn, RightVerdict, UpToDate, RunVerible
  <2>5. CASE f = g /\ queue' # queue
    <3>1. /\ Concerns(SaveTier(f, buf[f]), f)
          /\ SaveTier(f, buf[f]).text = buf[f]
      BY DEF Concerns, SaveTier
    <3>2. EndsWith(queue', SaveTier(f, buf[f]), f)
      BY <2>1, <2>2, <2>5, <3>1, OwnAppended
    <3>3. LastTask(f)'
      BY <2>1, <2>3, <2>5, <3>1, <3>2 DEF LastTask, EndsWith
    <3>4. LastTimer(f)'
      BY <2>1, <2>2, <2>3 DEF FileShown, LastTimer, Youngest, TimersOf
    <3> QED
      BY <3>2, <3>3, <3>4 DEF FileShown, EndsWith
  <2>6. CASE f # g \/ queue' = queue
    <3>1. f # g => ~Concerns(SaveTier(g, buf[g]), f)
      BY DEF Concerns, SaveTier
    <3>2. SameLast(queue, queue', f)
      <4>1. CASE queue' = queue
        BY <4>1 DEF SameLast
      <4>2. CASE f # g /\ queue' = Append(queue, SaveTier(g, buf[g]))
        BY <2>1, <2>2, <3>1, <4>2, OtherAppended
      <4> QED
        BY <2>1, <2>6, <4>1, <4>2
    <3>3. buf'[f] = buf[f] /\ disk'[f] \in {disk[f], buf[f]}
      BY <2>1, <2>3
    <3> QED
      BY <2>2, <2>3, <2>4, <3>2, <3>3, FileKept DEF FileShown, SameLast
  <2> QED
    BY <2>5, <2>6
<1>3. ASSUME NEW g \in Files, Close(g), NEW f \in Files, buf'[f] # None
      PROVE  FileShown(f)'
  <2>1. /\ UNCHANGED <<disk, queue, verible, job, diags, stale, semantic, shown>>
        /\ timers' = Uncancelled(g) /\ buf' = [buf EXCEPT ![g] = None]
    BY <1>3 DEF Close, parsed
  <2>2. f # g /\ buf'[f] = buf[f] /\ FileShown(f)
    BY <1>3, <2>1 DEF TypeOK, EditorOK, ShownInv
  <2>3. TimersOf(f)' = TimersOf(f)
    BY <2>1, <2>2 DEF Uncancelled, TimersOf, TimersOrdered
  <2>4. LastJob(f)' <=> LastJob(f)
    BY <2>1, <2>2 DEF LastJob, JobOn, RightVerdict, UpToDate, RunVerible
  <2> QED
    BY <2>1, <2>2, <2>3, <2>4, FileKept DEF FileShown
<1>4. ASSUME Reparse, NEW f \in Files, buf'[f] # None PROVE FileShown(f)'
  <2>1. /\ UNCHANGED <<buf, timers, disk, verible, job, diags, stale, semantic, shown>>
        /\ queue' = Append(queue, FullTier) /\ queue \in Seq(Tasks) /\ FullTier \in Tasks
    BY <1>4 DEF Reparse, parsed, checking, TypeOK, Tasks
  <2>2. ~Concerns(FullTier, f) /\ FileShown(f) /\ TimersOf(f)' = TimersOf(f)
    BY <1>4, <2>1 DEF Concerns, FullTier, ShownInv, TimersOf
  <2>3. LastJob(f)' <=> LastJob(f)
    BY <2>1 DEF LastJob, JobOn, RightVerdict, UpToDate, RunVerible
  <2>4. SameLast(queue, queue', f)
    BY <2>1, <2>2, OtherAppended
  <2> QED
    BY <2>1, <2>2, <2>3, <2>4, FileKept DEF FileShown, SameLast
<1>5. ASSUME Restart, NEW f \in Files PROVE buf'[f] = None
  BY <1>5 DEF Restart, NoDesign
<1>6. ASSUME NEW g \in Edited, Open(g), NEW f \in Files, buf'[f] # None PROVE FileShown(f)'
  BY <1>1, <1>6, WorkspaceAssumption DEF Open, TypeOK, EditorOK
<1>7. ASSUME NEW g \in Edited, NEW t \in Texts, Change(g, t), NEW f \in Files, buf'[f] # None
      PROVE  FileShown(f)'
  BY <1>1, <1>7, WorkspaceAssumption DEF Change
<1> QED
  BY <1>2, <1>3, <1>4, <1>5, <1>6, <1>7, WorkspaceAssumption DEF Editor, ShownInv

\* The timer threads: the check of the youngest timer is submitted last.
LEMMA ShownTimer == ASSUME TypeOK, TimersOrdered, ShownInv, TimerThread PROVE ShownInv'
<1> PICK tm \in timers : TimerWakes(tm) \/ FirePops(tm) \/ FireSubmits(tm)
  BY DEF TimerThread
<1> SUFFICES ASSUME NEW f \in Files, buf'[f] # None PROVE FileShown(f)'
  BY DEF ShownInv
<1>1. UNCHANGED <<buf, disk, verible, job, diags, stale, semantic, shown>>
  BY DEF TimerWakes, FirePops, FireSubmits, editor, parsed
<1>2. FileShown(f)
  BY <1>1 DEF ShownInv
<1>3. LastJob(f)' <=> LastJob(f)
  BY <1>1 DEF LastJob, JobOn, RightVerdict, UpToDate, RunVerible
<1>4. ASSUME NEW w, timers' = (timers \ {tm}) \cup {[tm EXCEPT !.at = w]}, UNCHANGED queue
      PROVE  FileShown(f)'
  <2> DEFINE new == [tm EXCEPT !.at = w]
  <2>1. new.id = tm.id /\ new.file = tm.file /\ new.text = tm.text
    BY DEF TypeOK, CheckingOK, Timers
  <2> HIDE DEF new
  <2>2. timers' = (timers \ {tm}) \cup {new}
    BY <1>4 DEF new
  <2>3. TimersOf(f)' = {} <=> TimersOf(f) = {}
    BY <2>1, <2>2 DEF TimersOf
  <2>4. LastTimer(f)'
    <3> SUFFICES ASSUME NEW a \in TimersOf(f)', Youngest(a)' PROVE a.text = buf[f]
      BY <1>1 DEF LastTimer
    <3>1. PICK b \in TimersOf(f) : b.id = a.id /\ b.text = a.text /\ b.file = f /\ a.file = f
      BY <2>1, <2>2 DEF TimersOf
    <3>2. ASSUME NEW o \in TimersOf(f) PROVE o.id <= b.id
      <4>1. PICK o2 \in TimersOf(f)' : o2.id = o.id
        BY <2>1, <2>2 DEF TimersOf
      <4> QED
        BY <3>1, <4>1 DEF Youngest
    <3> QED
      BY <1>2, <3>1, <3>2 DEF FileShown, LastTimer, Youngest
  <2>5. TimersOf(f) = {} => LastTask(f)'
    BY <1>1, <1>2, <1>4 DEF FileShown, LastTask
  <2> QED
    BY <1>2, <1>3, <1>4, <2>3, <2>4, <2>5 DEF FileShown
<1>5. CASE TimerWakes(tm)
  BY <1>4, <1>5 DEF TimerWakes
<1>6. CASE FirePops(tm)
  BY <1>4, <1>6 DEF FirePops
<1>7. CASE FireSubmits(tm)
  <2> DEFINE e == Check(tm.file, tm.text)
  <2>1. timers' = timers \ {tm} /\ queue' = Append(queue, e) /\ queue \in Seq(Tasks)
    BY <1>7 DEF FireSubmits, TypeOK
  <2>2. e \in Tasks /\ e.kind = "check" /\ e.file = tm.file /\ e.text = tm.text
    BY DEF TypeOK, CheckingOK, Timers, Check, Tasks
  <2> HIDE DEF e
  <2>3. CASE tm.file # f
    <3>1. TimersOf(f)' = TimersOf(f) /\ ~Concerns(e, f)
      BY <2>1, <2>2, <2>3 DEF TimersOf, Concerns
    <3>2. SameLast(queue, queue', f)
      BY <2>1, <2>2, <3>1, OtherAppended
    <3>3. buf'[f] = buf[f] /\ disk'[f] = disk[f]
      BY <1>1
    <3>4. TimersOf(f) = {} /\ ~Queued(queue', f) => LastJob(f)'
      BY <1>2, <1>3, <3>2 DEF FileShown, SameLast
    <3> QED
      BY <1>2, <3>1, <3>2, <3>3, <3>4, FileKept DEF SameLast
  <2>4. CASE tm.file = f
    <3>1. Concerns(e, f) /\ TimersOf(f)' = TimersOf(f) \ {tm} /\ tm \in TimersOf(f)
      BY <2>1, <2>2, <2>4 DEF TimersOf, Concerns
    <3>2. EndsWith(queue', e, f)
      BY <2>1, <2>2, <3>1, OwnAppended
    <3>3. \A o \in TimersOf(f) : tm.id <= o.id
      BY <1>7, <2>4 DEF FireSubmits, TimersOrdered, TimersOf
    <3>4. LastTimer(f)'
      <4> SUFFICES ASSUME NEW a \in TimersOf(f)', Youngest(a)' PROVE a.text = buf[f]
        BY <1>1 DEF LastTimer
      <4>1. a \in TimersOf(f) /\ a.file = f /\ tm.id <= a.id
        BY <3>1, <3>3 DEF TimersOf
      <4>2. \A o \in TimersOf(f) : o.id <= a.id
        BY <3>1, <4>1 DEF Youngest
      <4> QED
        BY <1>2, <4>1, <4>2 DEF FileShown, LastTimer, Youngest
    <3>5. TimersOf(f)' = {} => LastTask(f)'
      <4> SUFFICES ASSUME TimersOf(f)' = {} PROVE LastTask(f)'
        OBVIOUS
      <4>1. \A o \in TimersOf(f) : o = tm
        BY <3>1
      <4>2. \A o \in TimersOf(f) : o.id <= tm.id
        BY <3>3, <4>1
      <4>3. tm.text = buf[f]
        BY <1>2, <2>4, <3>1, <4>2 DEF FileShown, LastTimer, Youngest
      <4> QED
        BY <1>1, <2>2, <3>2, <4>3 DEF LastTask, EndsWith
    <3> QED
      BY <3>2, <3>4, <3>5 DEF FileShown, EndsWith
  <2> QED
    BY <2>3, <2>4
<1> QED
  BY <1>5, <1>6, <1>7

\* A task taken from the queue of an open file leaves it shown right if the
\* job does, whether the task was its last one or about another file.
LEMMA FileTaken ==
    ASSUME NEW f \in Files, FileShown(f), queue \in Seq(Tasks), queue # <<>>,
           queue' = Tail(queue), UNCHANGED <<buf, disk, timers>>,
           TimersOf(f) = {} /\ Concerns(Head(queue), f) /\ Last(queue, 1, f) => LastJob(f)',
           TimersOf(f) = {} /\ ~Concerns(Head(queue), f) /\ LastJob(f) => LastJob(f)'
    PROVE  FileShown(f)'
<1>1. TimersOf(f)' = TimersOf(f) /\ buf'[f] = buf[f] /\ disk'[f] = disk[f]
  BY DEF TimersOf
<1>2. \A k : Last(queue', k, f) => \E m : Last(queue, m, f) /\ queue'[k] = queue[m]
  BY Taken
<1>3. TimersOf(f) = {} /\ ~Queued(queue', f) => LastJob(f)'
  BY Taken DEF FileShown
<1> QED
  BY <1>1, <1>2, <1>3, FileKept

\* The worker: the verdict on the last text is right when its check is done,
\* or its save once the parse has failed or the file is merged.
LEMMA ShownOneFile ==
    ASSUME TypeOK, ShownInv, RunCheck \/ SaveLint \/ SaveParse \/ SaveFails \/ SaveMerge
    PROVE  ShownInv'
<1> SUFFICES ASSUME NEW f \in Files, buf'[f] # None PROVE FileShown(f)'
  BY DEF ShownInv
<1>1. UNCHANGED <<buf, disk, timers, verible, semantic>> /\ queue \in Seq(Tasks) /\ job \in Jobs
  BY DEF RunCheck, SaveLint, SaveParse, SaveFails, SaveMerge, editor, checking, parsed, TypeOK
<1>2. FileShown(f) /\ TimersOf(f)' = TimersOf(f) /\ buf'[f] = buf[f] /\ disk'[f] = disk[f]
  BY <1>1 DEF ShownInv, TimersOf
<1>3. diags[f] \in {"absent", "clean", "error", "silent"} /\ disk[f] \in Texts
  BY DEF TypeOK, ParsedOK, EditorOK
<1>4. CASE RunCheck
  <2> DEFINE g == Head(queue).file
             t == Head(queue).text
  <2>1. queue # <<>> /\ queue' = Tail(queue) /\ job = Idle /\ job' = Idle /\ Idle.kind = "idle"
        /\ Head(queue).kind = "check" /\ UNCHANGED stale
    BY <1>4 DEF RunCheck, Takes, Idle
  <2>2. g \in Files /\ queue[1] = Head(queue)
    BY <1>1, <2>1, QueueTake, TaskKinds
  <2>3. PICK r \in IF verible THEN RunVerible(t) ELSE {Verdict(t)} :
           /\ diags' = [diags EXCEPT ![g] = r]
           /\ shown' = [shown EXCEPT ![g] = Published(g, r, stale[g], semantic)]
    BY <1>4 DEF RunCheck
  <2>4. ASSUME f = g, Last(queue, 1, f), TimersOf(f) = {} PROVE LastJob(f)'
    <3>1. t = buf[f]
      BY <1>2, <2>2, <2>4 DEF FileShown, LastTask, Last
    <3>2. diags'[f] = r /\ shown'[f] = Published(f, r, stale[f], semantic)
      BY <2>3, <2>4 DEF TypeOK, ParsedOK
    <3>3. r \in {Verdict(buf[f])} \cup (IF verible THEN {"silent"} ELSE {})
      BY <2>3, <3>1 DEF RunVerible
    <3> QED
      BY <1>1, <2>1, <3>2, <3>3 DEF LastJob, JobOn, RightVerdict, UpToDate
  <2>5. ASSUME f # g, LastJob(f) PROVE LastJob(f)'
    <3>1. diags'[f] = diags[f] /\ shown'[f] = shown[f]
      BY <2>3, <2>5 DEF TypeOK, ParsedOK
    <3> QED
      BY <1>1, <1>2, <2>1, <2>5, <3>1 DEF LastJob, JobOn, RightVerdict, UpToDate
  <2>6. Concerns(Head(queue), f) <=> f = g
    BY <2>1 DEF Concerns
  <2> QED
    BY <1>1, <1>2, <2>1, <2>4, <2>5, <2>6, FileTaken
<1>5. CASE SaveLint
  <2> DEFINE g == Head(queue).file
             t == Head(queue).text
  <2>1. queue # <<>> /\ queue' = Tail(queue) /\ job = Idle /\ Idle.kind = "idle"
        /\ Head(queue).kind = "save"
    BY <1>5 DEF SaveLint, Takes, Idle
  <2>2. g \in Files /\ queue[1] = Head(queue)
    BY <1>1, <2>1, QueueTake, TaskKinds
  <2>3. PICK r \in RunVerible(t), tagged \in BOOLEAN :
           /\ diags' = [diags EXCEPT ![g] = r]
           /\ stale' = [stale EXCEPT ![g] = @ \/ (r = "error" /\ tagged)]
           /\ IF r = "error" /\ tagged
              THEN /\ job' = Idle
                   /\ shown' = [shown EXCEPT ![g] = Published(g, r, TRUE, semantic)]
              ELSE /\ job' = [kind |-> "parse", file |-> g, text |-> t]
                   /\ UNCHANGED shown
    BY <1>5 DEF SaveLint
  <2>4. ASSUME f = g, Last(queue, 1, f), TimersOf(f) = {} PROVE LastJob(f)'
    <3>1. t = buf[f] /\ disk[f] = buf[f]
      BY <1>2, <2>1, <2>2, <2>4 DEF FileShown, LastTask, Last
    <3>2. diags'[f] = r /\ r \in RunVerible(buf[f])
      BY <2>3, <2>4, <3>1 DEF TypeOK, ParsedOK
    <3>3. CASE r = "error" /\ tagged
      <4>1. job' = Idle /\ shown'[f] = Published(f, r, TRUE, semantic) /\ stale'[f] = TRUE
        BY <2>3, <2>4, <3>3 DEF TypeOK, ParsedOK
      <4>2. r = Verdict(buf[f])
        BY <3>2, <3>3 DEF RunVerible, Verdict
      <4> QED
        BY <1>1, <2>1, <3>2, <4>1, <4>2 DEF LastJob, JobOn, RightVerdict, UpToDate
    <3>4. CASE ~(r = "error" /\ tagged)
      <4>1. job' = [kind |-> "parse", file |-> f, text |-> buf[f]]
        BY <2>3, <2>4, <3>1, <3>4
      <4>2. JobOn("parse", f)' /\ job'.text = buf[f]
        BY <4>1 DEF JobOn
      <4> QED
        BY <1>1, <3>1, <3>2, <4>2 DEF LastJob, RunVerible
    <3> QED
      BY <3>3, <3>4
  <2>5. ASSUME f # g, LastJob(f) PROVE LastJob(f)'
    <3>1. diags'[f] = diags[f] /\ shown'[f] = shown[f] /\ stale'[f] = stale[f]
      BY <2>3, <2>5 DEF TypeOK, ParsedOK
    <3>2. ~JobOn("parse", f)' /\ ~JobOn("parse", f) /\ ~JobOn("merge", f)
      <4>1. job' = Idle \/ job' = [kind |-> "parse", file |-> g, text |-> t]
        BY <2>3
      <4> QED
        BY <2>1, <2>5, <4>1 DEF JobOn
    <3> QED
      BY <1>1, <2>5, <3>1, <3>2 DEF LastJob, RightVerdict, UpToDate
  <2>6. Concerns(Head(queue), f) <=> f = g
    BY <2>1 DEF Concerns
  <2> QED
    BY <1>1, <1>2, <2>1, <2>4, <2>5, <2>6, FileTaken
<1>6. CASE SaveParse
  <2>1. /\ UNCHANGED <<queue, diags, stale, shown>> /\ job.kind = "parse" /\ disk[job.file] \notin Broken
        /\ job'.kind = "merge" /\ job'.file = job.file
    BY <1>6 DEF SaveParse, parsed
  <2>2. LastJob(f) => LastJob(f)'
    <3>1. CASE job.file = f
      <4> SUFFICES ASSUME LastJob(f) PROVE LastJob(f)'
        OBVIOUS
      <4>1. diags[f] \in RunVerible(buf[f]) /\ buf[f] \notin Broken
        BY <2>1, <3>1 DEF LastJob, JobOn
      <4>2. RightVerdict(f)'
        BY <1>1, <2>1, <4>1 DEF RightVerdict, RunVerible, Verdict
      <4> QED
        BY <2>1, <3>1, <4>2 DEF LastJob, JobOn
    <3>2. CASE job.file # f
      BY <1>1, <2>1, <3>2 DEF LastJob, JobOn, RightVerdict, UpToDate
    <3> QED
      BY <3>1, <3>2
  <2> QED
    BY <1>2, <2>1, <2>2, FileKept DEF FileShown
<1>7. CASE SaveFails
  <2> DEFINE rejected == ~verible /\ Verdict(job.text) = "error"
  <2>1. /\ UNCHANGED queue /\ job.kind = "parse" /\ disk[job.file] \in Broken /\ job' = Idle
        /\ diags' = [diags EXCEPT ![job.file] = IF rejected THEN "error" ELSE @]
        /\ stale' = [stale EXCEPT ![job.file] = @ \/ rejected]
        /\ shown' = [shown EXCEPT ![job.file] =
                        Published(job.file, diags'[job.file], stale'[job.file], semantic)]
    BY <1>7 DEF SaveFails
  <2>2. ~JobOn("parse", f)' /\ ~JobOn("merge", f)'
    BY <2>1 DEF JobOn, Idle
  <2>3. LastJob(f) => LastJob(f)'
    <3>1. CASE job.file = f
      <4> SUFFICES ASSUME LastJob(f) PROVE LastJob(f)'
        OBVIOUS
      <4>1. diags[f] \in RunVerible(buf[f]) /\ buf[f] \in Broken /\ job.text = buf[f]
        BY <2>1, <3>1 DEF LastJob, JobOn
      <4>2. diags'[f] = (IF rejected THEN "error" ELSE diags[f])
        BY <2>1, <3>1 DEF TypeOK, ParsedOK
      <4>3. UpToDate(f)'
        BY <1>1, <2>1, <3>1 DEF UpToDate, TypeOK, ParsedOK
      <4>4. RightVerdict(f)'
        BY <1>1, <4>1, <4>2 DEF RightVerdict, RunVerible, Verdict
      <4> QED
        BY <2>2, <4>3, <4>4 DEF LastJob
    <3>2. CASE job.file # f
      <4>1. diags'[f] = diags[f] /\ stale'[f] = stale[f] /\ shown'[f] = shown[f]
        BY <2>1, <3>2 DEF TypeOK, ParsedOK
      <4> QED
        BY <1>1, <2>1, <2>2, <3>2, <4>1 DEF LastJob, JobOn, RightVerdict, UpToDate
    <3> QED
      BY <3>1, <3>2
  <2> QED
    BY <1>2, <2>1, <2>3, FileKept DEF FileShown
<1>8. CASE SaveMerge
  <2>1. /\ UNCHANGED diags /\ job.kind = "merge" /\ stale' = [stale EXCEPT ![job.file] = FALSE]
        /\ shown' = [shown EXCEPT ![job.file] = Published(job.file, diags[job.file], FALSE, semantic)]
        /\ job' \in {StartFull, Idle} /\ queue' \in {queue, Append(queue, IndexTier)}
    BY <1>8 DEF SaveMerge
  <2>2. ~JobOn("parse", f)' /\ ~JobOn("merge", f)' /\ ~JobOn("parse", f)
    BY <2>1 DEF JobOn, Idle, StartFull
  <2>3. LastJob(f) => LastJob(f)'
    <3>1. LastJob(f) => RightVerdict(f)'
      BY <1>1, <1>2, <2>1, <2>2 DEF LastJob, RightVerdict
    <3>2. CASE job.file = f
      <4>1. UpToDate(f)'
        BY <1>1, <2>1, <3>2 DEF UpToDate, TypeOK, ParsedOK
      <4> QED
        BY <2>2, <3>1, <4>1 DEF LastJob
    <3>3. CASE job.file # f
      <4>1. LastJob(f) => UpToDate(f)'
        BY <1>1, <2>1, <2>2, <3>3 DEF LastJob, JobOn, UpToDate, TypeOK, ParsedOK
      <4> QED
        BY <2>2, <3>1, <4>1 DEF LastJob
    <3> QED
      BY <3>2, <3>3
  <2>4. SameLast(queue, queue', f)
    <3>1. IndexTier \in Tasks /\ ~Concerns(IndexTier, f)
      BY DEF Tasks, IndexTier, Concerns
    <3>2. CASE queue' = queue
      BY <3>2 DEF SameLast
    <3>3. CASE queue' = Append(queue, IndexTier)
      BY <1>1, <3>1, <3>3, OtherAppended
    <3> QED
      BY <2>1, <3>2, <3>3
  <2> QED
    BY <1>2, <2>3, <2>4, FileKept DEF FileShown, SameLast
<1> QED
  BY <1>4, <1>5, <1>6, <1>7, <1>8

\* The full parse shows of every file what is known of it.
LEMMA ShownAllFiles ==
    ASSUME TypeOK, ShownInv, RebuildIndex \/ TakeFull \/ FullLookup \/ FullParse \/ FullHash \/ FullCommit
    PROVE  ShownInv'
<1> SUFFICES ASSUME NEW f \in Files, buf'[f] # None PROVE FileShown(f)'
  BY DEF ShownInv
<1>1. UNCHANGED <<buf, disk, timers, verible, diags>> /\ queue \in Seq(Tasks)
  BY DEF RebuildIndex, TakeFull, FullLookup, FullParse, FullHash, FullCommit,
         editor, checking, parsed, TypeOK
<1>2. FileShown(f) /\ TimersOf(f)' = TimersOf(f) /\ buf'[f] = buf[f] /\ disk'[f] = disk[f]
  BY <1>1 DEF ShownInv, TimersOf
<1>3. CASE RebuildIndex \/ TakeFull
  <2>1. /\ queue # <<>> /\ queue' = Tail(queue) /\ Head(queue).kind \in {"index", "full"}
        /\ job' \in {Idle, StartFull} /\ UNCHANGED <<shown, stale, semantic>> /\ job = Idle
    BY <1>3 DEF RebuildIndex, TakeFull, Takes, parsed
  <2>2. ~Concerns(Head(queue), f)
    BY <2>1 DEF Concerns
  <2>3. ~JobOn("parse", f)' /\ ~JobOn("merge", f)' /\ ~JobOn("parse", f) /\ ~JobOn("merge", f)
    BY <2>1 DEF JobOn, Idle, StartFull
  <2>4. LastJob(f) => LastJob(f)'
    BY <1>1, <2>1, <2>3 DEF LastJob, RightVerdict, UpToDate
  <2> QED
    BY <1>1, <1>2, <2>1, <2>2, <2>4, FileTaken
<1>4. CASE FullLookup \/ FullParse \/ FullHash
  <2>1. UNCHANGED <<queue, shown, stale, semantic>> /\ job.kind \in {"full", "miss"}
    BY <1>4 DEF FullLookup, FullParse, FullHash, parsed
  <2>2. job'.kind \in {"idle", "full", "miss", "commit"}
    <3>1. CASE FullLookup
      <4>1. job \in [kind : {"full"}, next : 1 .. NFiles + 1, read : [Files -> Entry]]
        BY <3>1, JobKinds DEF FullLookup, TypeOK
      <4> QED
        BY <3>1, <4>1 DEF FullLookup
    <3>2. CASE FullParse
      BY <3>2 DEF FullParse, Idle
    <3>3. CASE FullHash
      BY <3>3 DEF FullHash
    <3> QED
      BY <1>4, <3>1, <3>2, <3>3
  <2>3. LastJob(f) => LastJob(f)'
    BY <1>1, <2>1, <2>2 DEF LastJob, JobOn, RightVerdict, UpToDate
  <2> QED
    BY <1>2, <2>1, <2>3, FileKept DEF FileShown
<1>5. CASE FullCommit
  <2>1. /\ UNCHANGED queue /\ job.kind = "commit" /\ job' = Idle
        /\ stale' = [g \in Files |-> FALSE]
        /\ shown' = [g \in Files |-> IF diags[g] # "absent" \/ g \in semantic'
                                     THEN Published(g, diags[g], FALSE, semantic') ELSE shown[g]]
    BY <1>5 DEF FullCommit
  <2>2. ~JobOn("parse", f)' /\ ~JobOn("parse", f)
    BY <2>1 DEF JobOn, Idle
  <2>3. ASSUME LastJob(f) PROVE LastJob(f)'
    <3>1. RightVerdict(f)
      BY <2>2, <2>3 DEF LastJob
    <3>2. diags[f] # "absent" /\ RightVerdict(f)'
      BY <1>1, <3>1 DEF RightVerdict, Verdict
    <3>3. UpToDate(f)'
      BY <1>1, <2>1, <3>2 DEF UpToDate
    <3> QED
      BY <2>2, <3>2, <3>3 DEF LastJob
  <2> QED
    BY <1>2, <2>1, <2>3, FileKept DEF FileShown
<1> QED
  BY <1>3, <1>4, <1>5

\* Every step keeps what is shown of the open files right or under way.
LEMMA ShownStep == TypeOK /\ TimersOrdered /\ ShownInv /\ [Next]_vars => ShownInv'
<1>1. ASSUME ShownInv, UNCHANGED vars PROVE ShownInv'
  BY <1>1 DEF vars, ShownInv, FileShown, LastTimer, LastTask, LastJob, TimersOf, Youngest, Queued,
              Last, JobOn, RightVerdict, UpToDate, RunVerible
<1> QED
  BY <1>1, ShownEditor, ShownTimer, ShownOneFile, ShownAllFiles DEF Next, Worker

\* It starts with no file open.
LEMMA ShownInit == Init => TimersOrdered /\ ShownInv
BY WorkspaceAssumption DEF Init, TimersOrdered, ShownInv, NoDesign

\* A settled server has neither timers nor tasks: what is shown is up to date.
LEMMA ShownSettled == TypeOK /\ ShownInv => ShownCurrent
<1> SUFFICES ASSUME TypeOK, ShownInv, Settled, NEW f \in Files, buf[f] # None
             PROVE  RightVerdict(f) /\ UpToDate(f)
  BY DEF ShownCurrent, RightVerdict, UpToDate
<1>1. TimersOf(f) = {} /\ ~Queued(queue, f) /\ ~JobOn("parse", f) /\ ~JobOn("merge", f)
  BY DEF Settled, TimersOf, Queued, JobOn, Idle
<1> QED
  BY <1>1 DEF ShownInv, FileShown, LastJob

\* Types of the language server (workspace.py), for any files and any session.
THEOREM WorkspaceTypeOK == Spec => []TypeOK
BY TypeInit, TypeStep, PTL DEF Spec

\* Once the threads are done, the diagnostics shown of an open file are those of
\* its buffer (_publish_diagnostics_for), whatever checks, saves, full parses and
\* cancelled timers came before, with Verible or with Lark.
THEOREM ShownCurrentHolds == Spec => []ShownCurrent
<1>1. Init => TypeOK /\ TimersOrdered /\ ShownInv
  BY TypeInit, ShownInit
<1>2. (TypeOK /\ TimersOrdered /\ ShownInv) /\ [Next]_vars
        => (TypeOK /\ TimersOrdered /\ ShownInv)'
  BY TypeStep, OrderStep, ShownStep
<1> QED
  BY <1>1, <1>2, ShownSettled, PTL DEF Spec
-----------------------------------------------------------------------------
\* The tasks of a queue, as a set.
LEMMA RangeAppend ==
    ASSUME NEW q \in Seq(Tasks), NEW e \in Tasks
    PROVE  Range(Append(q, e)) = Range(q) \cup {e} /\ Range(q) \subseteq Tasks
<1>1. \A k \in DOMAIN Append(q, e) : k \in DOMAIN q \/ k = Len(q) + 1
  BY QueueAppend
<1>2. \A k \in DOMAIN q : k \in DOMAIN Append(q, e)
  BY QueueAppend
<1>3. Len(q) + 1 \in DOMAIN Append(q, e)
  BY QueueAppend
<1> QED
  BY <1>1, <1>2, <1>3, QueueAppend DEF Range

LEMMA RangeTake ==
    ASSUME NEW q \in Seq(Tasks), q # <<>>
    PROVE  Range(q) = {Head(q)} \cup Range(Tail(q)) /\ Range(q) \subseteq Tasks
<1>1. 1 \in DOMAIN q /\ q[1] = Head(q) /\ Head(q) \in Tasks
  BY QueueTake
<1>2. \A k \in DOMAIN Tail(q) : k + 1 \in DOMAIN q /\ Tail(q)[k] = q[k + 1]
  BY QueueTake
<1>3. \A k \in DOMAIN q : k # 1 => k - 1 \in DOMAIN Tail(q) /\ Tail(q)[k - 1] = q[k]
  BY QueueTake
<1>4. \A k \in DOMAIN q : q[k] \in Tasks
  BY ElementOfSeq, LenProperties
<1> QED
  BY <1>1, <1>2, <1>3, <1>4 DEF Range

LEMMA RangeOne == ASSUME NEW e \in Tasks PROVE Range(<<e>>) = {e}
<1>1. <<e>> \in Seq(Tasks) /\ Len(<<e>>) = 1 /\ <<e>>[1] = e
  OBVIOUS
<1>2. DOMAIN <<e>> = 1 .. 1
  BY <1>1, LenProperties
<1> QED
  BY <1>1, <1>2 DEF Range

\* A step that only adds tasks other than saves, or only takes a check.
LEMMA ModelKept ==
    ASSUME ReadsTrue, UNCHANGED <<disk, cache, job, design, index, hashes, gaveUp>>,
           Range(queue) \ Range(queue)' \subseteq {e \in Tasks : e.kind = "check"},
           \A e \in Range(queue)' \ Range(queue) : e.kind # "save"
    PROVE  ReadsTrue' /\ (ModelCovered => ModelCovered')
<1>1. ReadsTrue'
  BY DEF ReadsTrue, CacheTrue, SavesCurrent, JobCurrent, ReadTo
<1>2. \A e \in Range(queue) : e.kind # "check" => e \in Range(queue)'
  OBVIOUS
<1>3. /\ Has("full") => Has("full")'
      /\ Has("index") => Has("index")'
      /\ \A f : SaveQueued(f) => SaveQueued(f)'
  BY <1>2 DEF Has, SaveQueued
<1>4. ModelCovered => ModelCovered'
  BY <1>3 DEF ModelCovered, DesignCovered, IndexCovered, SavePending, FullPending, JobOn
<1> QED
  BY <1>1, <1>4

\* The editor and the timers: a save that overtakes nothing writes a file that
\* no task and no read of the worker depends on.
LEMMA ModelEditor ==
    ASSUME TypeOK, ModelInv, Editor \/ TimerThread PROVE ModelInv'
<1> USE DEF ModelInv
<1>1. ASSUME NEW f \in Files, NEW t \in Texts, OnDidChange(f, t) PROVE ModelInv'
  <2>1. Check(f, t) \in Tasks /\ Check(f, t).kind = "check" /\ queue \in Seq(Tasks)
    BY DEF Check, Tasks, TypeOK
  <2>2. UNCHANGED <<disk, cache, job, design, index, hashes, raced, gaveUp>>
    BY <1>1 DEF OnDidChange, parsed, history
  <2>3. CASE UNCHANGED queue
    BY <2>2, <2>3, ModelKept
  <2>4. CASE queue' = Append(queue, Check(f, t))
    <3>1. Range(queue)' = Range(queue) \cup {Check(f, t)}
      BY <2>1, <2>4, RangeAppend
    <3> QED
      BY <2>1, <2>2, <3>1, ModelKept
  <2> QED
    BY <1>1, <2>3, <2>4 DEF OnDidChange, SubmitCheck, ScheduleLarkCheck
<1>2. ASSUME NEW g \in Files, Save(g) PROVE ModelInv'
  <2> SUFFICES ASSUME ~raced' PROVE ReadsTrue' /\ (~gaveUp' => ModelCovered')
    OBVIOUS
  <2>1. ~raced /\ ~Overtakes(g) /\ disk' = [disk EXCEPT ![g] = buf[g]] /\ buf[g] \in Texts
        /\ UNCHANGED <<cache, job, design, index, hashes, gaveUp>>
        /\ queue' = IF SkipSave(g) THEN queue ELSE Append(queue, SaveTier(g, buf[g]))
    BY <1>2 DEF Save, parsed, TypeOK, EditorOK, Entry
  <2>2. ReadsTrue /\ (~gaveUp => ModelCovered) /\ job = Idle /\ queue \in Seq(Tasks)
    BY <2>1 DEF Overtakes, TypeOK
  <2>3. \A e \in Range(queue) : e.kind = "save" => e.file # g
    BY <2>1, <2>2 DEF Overtakes, Range
  <2> DEFINE new == SaveTier(g, buf[g])
  <2>4. new \in Tasks /\ new.kind = "save" /\ new.file = g /\ new.text = buf[g]
    BY <2>1 DEF SaveTier, Tasks
  <2> HIDE DEF new
  <2>5. Range(queue)' = IF SkipSave(g) THEN Range(queue) ELSE Range(queue) \cup {new}
    BY <2>1, <2>2, <2>4, RangeAppend DEF new
  <2>6. disk'[g] = buf[g] /\ \A f \in Files : f # g => disk'[f] = disk[f]
    BY <2>1 DEF TypeOK, EditorOK
  <2>7. SavesCurrent'
    <3> SUFFICES ASSUME NEW e \in Range(queue)', e.kind = "save" PROVE e.text = disk'[e.file]
      BY DEF SavesCurrent
    <3>1. CASE e \in Range(queue)
      <4>1. e.file \in Files /\ e.file # g
        BY <2>2, <2>3, <3>1, RangeAppend, TaskKinds, <2>4
      <4> QED
        BY <2>2, <2>6, <3>1, <4>1 DEF ReadsTrue, SavesCurrent
    <3>2. CASE e = new
      BY <2>4, <2>6, <3>2
    <3> QED
      BY <2>5, <3>1, <3>2
  <2>8. ReadsTrue'
    <3>1. JobCurrent'
      BY <2>1, <2>2 DEF JobCurrent, Idle
    <3> QED
      BY <2>1, <2>2, <2>7, <3>1 DEF ReadsTrue, CacheTrue
  <2>9. ASSUME ModelCovered PROVE ModelCovered'
    <3>1. Range(queue) \subseteq Range(queue)'
      BY <2>5
    <3>2. (FullPending => FullPending') /\ (Has("index") => Has("index")')
      BY <2>1, <3>1 DEF FullPending, Has
    <3>0. ASSUME NEW f \in Files PROVE SavePending(f) => SavePending(f)'
      BY <2>1, <3>1 DEF SavePending, SaveQueued, JobOn
    <3>3. design[g] = disk'[g] \/ SavePending(g)'
      <4>1. CASE SkipSave(g)
        BY <2>2, <2>1, <2>6, <4>1 DEF SkipSave, ReadsTrue
      <4>2. CASE ~SkipSave(g)
        BY <2>4, <2>5, <4>2 DEF SavePending, SaveQueued
      <4> QED
        BY <4>1, <4>2
    <3>4. ASSUME NEW f \in Files
          PROVE  design'[f] = disk'[f] \/ disk'[f] \in Broken \/ SavePending(f)' \/ FullPending'
      <4>1. CASE f = g
        BY <2>1, <3>3, <4>1
      <4>2. CASE f # g
        BY <2>1, <2>6, <2>9, <3>2, <3>0, <4>2 DEF ModelCovered, DesignCovered
      <4> QED
        BY <4>1, <4>2
    <3>5. DesignCovered'
      BY <3>4 DEF DesignCovered
    <3>6. IndexCovered'
      BY <2>1, <2>9, <3>2 DEF ModelCovered, IndexCovered
    <3> QED
      BY <3>5, <3>6 DEF ModelCovered
  <2> QED
    BY <2>1, <2>2, <2>8, <2>9
<1>3. ASSUME NEW f \in Files, Close(f) PROVE ModelInv'
  <2>1. UNCHANGED <<disk, cache, job, design, index, hashes, raced, gaveUp, queue>>
    BY <1>3 DEF Close, parsed, history
  <2> QED
    BY <2>1, ModelKept
<1>4. CASE Reparse
  <2>1. UNCHANGED <<disk, cache, job, design, index, hashes, raced, gaveUp>>
    BY <1>4 DEF Reparse, parsed, history
  <2>2. Range(queue)' = Range(queue) \cup {FullTier} /\ FullTier.kind # "save"
    BY <1>4, RangeAppend DEF Reparse, TypeOK, Tasks, FullTier
  <2> QED
    BY <2>1, <2>2, ModelKept
<1>5. CASE Restart
  <2> SUFFICES ASSUME ~raced' PROVE ReadsTrue' /\ ModelCovered'
    OBVIOUS
  <2>1. CacheTrue /\ UNCHANGED cache /\ job' = Idle /\ queue' = <<FullTier>>
        /\ hashes' = NoDesign /\ design' = NoDesign
    BY <1>5 DEF Restart, ReadsTrue
  <2>2. Range(queue)' = {FullTier}
    BY <2>1, RangeOne DEF Tasks
  <2>4. ReadsTrue'
    BY <2>1, <2>2 DEF ReadsTrue, CacheTrue, SavesCurrent, JobCurrent, Idle, FullTier
  <2>5. FullPending'
    BY <2>2 DEF FullPending, Has, FullTier
  <2> QED
    BY <2>4, <2>5 DEF ModelCovered, DesignCovered, IndexCovered
<1>6. CASE TimerThread
  <2> PICK tm \in timers : TimerWakes(tm) \/ FirePops(tm) \/ FireSubmits(tm)
    BY <1>6 DEF TimerThread
  <2>1. UNCHANGED <<disk, cache, job, design, index, hashes, raced, gaveUp>>
    BY DEF TimerWakes, FirePops, FireSubmits, editor, parsed, history
  <2>2. CASE UNCHANGED queue
    BY <2>1, <2>2, ModelKept
  <2>3. CASE FireSubmits(tm)
    <3> DEFINE e == Check(tm.file, tm.text)
    <3>1. e \in Tasks /\ e.kind = "check" /\ queue' = Append(queue, e) /\ queue \in Seq(Tasks)
      BY <2>3 DEF FireSubmits, Check, Tasks, TypeOK, CheckingOK, Timers
    <3> HIDE DEF e
    <3>2. Range(queue)' = Range(queue) \cup {e}
      BY <3>1, RangeAppend
    <3> QED
      BY <2>1, <3>1, <3>2, ModelKept
  <2> QED
    BY <2>2, <2>3 DEF TimerWakes, FirePops
<1>7. CASE Editor
  BY <1>1, <1>2, <1>3, <1>4, <1>5, <1>7, WorkspaceAssumption
     DEF Editor, Open, Change, TypeOK, EditorOK
<1> QED
  BY <1>6, <1>7

\* A task taken by the worker leaves the saves that are still queued current.
LEMMA SavesTaken ==
    ASSUME NEW q \in Seq(Tasks), q # <<>>, queue = q, queue' = Tail(q), SavesCurrent, UNCHANGED disk
    PROVE  /\ SavesCurrent'
           /\ \A kind : kind # Head(q).kind => (Has(kind) <=> Has(kind)')
           /\ Head(q).kind # "save" => \A f : SaveQueued(f) <=> SaveQueued(f)'
           /\ \A f : f # Head(q).file => (SaveQueued(f) <=> SaveQueued(f)')
           /\ Head(q).kind = "save" => Head(q).text = disk[Head(q).file]
BY RangeTake DEF SavesCurrent, Has, SaveQueued

\* The worker on one file: what it has read is still what the file holds, and
\* it drops the file only when the file does not parse.
LEMMA ModelOneFile ==
    ASSUME TypeOK, ModelInv, RunCheck \/ SaveLint \/ SaveParse \/ SaveFails \/ SaveMerge
    PROVE  ModelInv'
<1> SUFFICES ASSUME ~raced' PROVE ReadsTrue' /\ (~gaveUp' => ModelCovered')
  BY DEF ModelInv
<1>1. UNCHANGED <<disk, cache, raced, gaveUp>> /\ queue \in Seq(Tasks) /\ job \in Jobs
  BY DEF RunCheck, SaveLint, SaveParse, SaveFails, SaveMerge, editor, history, TypeOK
<1>2. ReadsTrue /\ (~gaveUp => ModelCovered) /\ CacheTrue' /\ SavesCurrent
  BY <1>1 DEF ModelInv, ReadsTrue, CacheTrue
<1>3. CASE RunCheck
  <2>1. queue # <<>> /\ queue' = Tail(queue) /\ Head(queue).kind = "check"
        /\ UNCHANGED <<job, design, index, hashes>>
    BY <1>3 DEF RunCheck, Takes
  <2>2. Range(queue) = {Head(queue)} \cup Range(queue)' /\ Head(queue) \in Tasks
    BY <1>1, <2>1, RangeTake, QueueTake
  <2> QED
    BY <1>1, <1>2, <2>1, <2>2, ModelKept
<1>4. CASE SaveLint
  <2> DEFINE g == Head(queue).file
             t == Head(queue).text
  <2>1. /\ queue # <<>> /\ queue' = Tail(queue) /\ Head(queue).kind = "save" /\ job = Idle
        /\ UNCHANGED <<design, index, hashes>>
    BY <1>4 DEF SaveLint, Takes
  <2>2. /\ SavesCurrent' /\ t = disk[g]
        /\ Has("full") => Has("full")'
        /\ Has("index") => Has("index")'
        /\ \A f : f # g => (SaveQueued(f) <=> SaveQueued(f)')
    BY <1>1, <1>2, <2>1, SavesTaken
  <2>3. \/ job' = Idle /\ t \in Broken
        \/ job' = [kind |-> "parse", file |-> g, text |-> t]
    BY <1>4 DEF SaveLint, RunVerible, Verdict
  <2> HIDE DEF g, t
  <2>4. JobCurrent'
    BY <1>1, <2>2, <2>3 DEF JobCurrent, Idle
  <2>5. ASSUME ModelCovered PROVE ModelCovered'
    <3>1. job.kind = "idle"
      BY <2>1 DEF Idle
    <3>2. FullPending => FullPending'
      BY <2>2, <3>1 DEF FullPending
    <3>3. DesignCovered'
      <4> SUFFICES ASSUME NEW f \in Files
                   PROVE  design'[f] = disk'[f] \/ disk'[f] \in Broken \/ SavePending(f)' \/ FullPending'
        BY DEF DesignCovered
      <4>1. CASE f = g
        BY <1>1, <2>2, <2>3, <4>1 DEF SavePending, JobOn
      <4>2. CASE f # g
        <5>1. SavePending(f) => SavePending(f)'
          BY <2>2, <3>1, <4>2 DEF SavePending, JobOn
        <5> QED
          BY <1>1, <2>1, <2>5, <3>2, <5>1 DEF ModelCovered, DesignCovered
      <4> QED
        BY <4>1, <4>2
    <3> QED
      BY <2>1, <2>2, <2>5, <3>2, <3>3 DEF ModelCovered, IndexCovered
  <2> QED
    BY <1>1, <1>2, <2>1, <2>2, <2>4, <2>5 DEF ReadsTrue
<1>5. CASE SaveParse
  <2>1. /\ UNCHANGED <<queue, design, index, hashes>> /\ job.kind = "parse"
        /\ job' = [kind |-> "merge", file |-> job.file, text |-> job.text, now |-> disk[job.file]]
    BY <1>5 DEF SaveParse, parsed
  <2>2. job'.kind = "merge" /\ job'.file = job.file /\ job'.text = job.text /\ job'.now = disk[job.file]
    BY <2>1
  <2>3. JobCurrent' /\ SavesCurrent'
    BY <1>1, <1>2, <2>1, <2>2 DEF JobCurrent, ReadsTrue, SavesCurrent
  <2>4. ASSUME ModelCovered PROVE ModelCovered'
    <3>1. FullPending => FullPending'
      BY <2>1 DEF FullPending, Has
    <3>2. \A f : SavePending(f) => SavePending(f)'
      BY <2>1, <2>2 DEF SavePending, JobOn, SaveQueued
    <3> QED
      BY <1>1, <2>1, <2>4, <3>1, <3>2 DEF ModelCovered, DesignCovered, IndexCovered, Has
  <2> QED
    BY <1>1, <1>2, <2>1, <2>3, <2>4 DEF ReadsTrue
<1>6. CASE SaveFails
  <2>1. /\ UNCHANGED <<queue, design, index, hashes>> /\ job.kind = "parse" /\ job' = Idle
        /\ disk[job.file] \in Broken
    BY <1>6 DEF SaveFails
  <2>2. JobCurrent' /\ SavesCurrent'
    BY <1>1, <1>2, <2>1 DEF JobCurrent, Idle, SavesCurrent
  <2>3. ASSUME ModelCovered PROVE ModelCovered'
    <3>1. FullPending => FullPending'
      BY <2>1 DEF FullPending, Has
    <3>2. \A f : f # job.file /\ SavePending(f) => SavePending(f)'
      BY <2>1 DEF SavePending, JobOn, SaveQueued
    <3> QED
      BY <1>1, <2>1, <2>3, <3>1, <3>2 DEF ModelCovered, DesignCovered, IndexCovered, Has
  <2> QED
    BY <1>1, <1>2, <2>1, <2>2, <2>3 DEF ReadsTrue
<1>7. CASE SaveMerge
  <2> DEFINE g == job.file
  <2>1. job.kind = "merge" /\ g \in Files /\ job.text = disk[g] /\ job.now = disk[g]
    BY <1>1, <1>2, <1>7, JobKinds DEF SaveMerge, ReadsTrue, JobCurrent
  <2>2. /\ UNCHANGED index /\ hashes' = [hashes EXCEPT ![g] = job.text]
        /\ design' = [design EXCEPT ![g] = job.now]
        /\ \/ job' = StartFull /\ UNCHANGED queue
           \/ job' = Idle /\ queue' = Append(queue, IndexTier)
    BY <1>7 DEF SaveMerge
  <2> HIDE DEF g
  <2>3. hashes' = design' /\ design'[g] = disk[g] /\ \A f \in Files : f # g => design'[f] = design[f]
    BY <1>2, <2>1, <2>2 DEF ReadsTrue, TypeOK, ParsedOK
  <2>4. Range(queue) \subseteq Range(queue)' /\ Range(queue)' \subseteq Range(queue) \cup {IndexTier}
    BY <1>1, <2>2, RangeAppend DEF Tasks
  <2>5. JobCurrent' /\ SavesCurrent'
    <3>1. JobCurrent'
      BY <2>2 DEF JobCurrent, Idle, StartFull, ReadTo, Files
    <3>2. SavesCurrent'
      BY <1>1, <1>2, <2>4 DEF SavesCurrent, IndexTier
    <3> QED
      BY <3>1, <3>2
  <2>6. FullPending' \/ Has("index")'
    <3>1. CASE job' = StartFull
      BY <3>1 DEF FullPending, StartFull
    <3>2. CASE queue' = Append(queue, IndexTier)
      <4>1. IndexTier \in Range(queue)'
        BY <1>1, <3>2, RangeAppend DEF Tasks
      <4> QED
        BY <4>1 DEF Has, IndexTier
    <3> QED
      BY <2>2, <3>1, <3>2
  <2>7. ASSUME ModelCovered PROVE DesignCovered'
    <3>1. FullPending => FullPending'
      BY <2>1, <2>4 DEF FullPending, Has
    <3>2. \A f : f # g /\ SavePending(f) => SavePending(f)'
      BY <2>1, <2>4 DEF SavePending, JobOn, SaveQueued, g
    <3> QED
      BY <1>1, <2>3, <2>7, <3>1, <3>2 DEF ModelCovered, DesignCovered
  <2> QED
    BY <1>1, <1>2, <2>3, <2>5, <2>6, <2>7 DEF ReadsTrue, ModelCovered, IndexCovered
<1> QED
  BY <1>3, <1>4, <1>5, <1>6, <1>7

\* The full parse: what it has read of each file is what the file holds, since
\* the cache is true and no save came in between.
LEMMA ModelAllFiles ==
    ASSUME TypeOK, ModelInv, RebuildIndex \/ TakeFull \/ FullLookup \/ FullParse \/ FullHash \/ FullCommit
    PROVE  ModelInv'
<1> SUFFICES ASSUME ~raced' PROVE ReadsTrue' /\ (~gaveUp' => ModelCovered')
  BY DEF ModelInv
<1>1. UNCHANGED <<disk, raced>> /\ queue \in Seq(Tasks) /\ job \in Jobs /\ disk \in [Files -> Texts]
  BY DEF RebuildIndex, TakeFull, FullLookup, FullParse, FullHash, FullCommit, editor, history,
         TypeOK, EditorOK
<1>2. ReadsTrue /\ (~gaveUp => ModelCovered) /\ SavesCurrent
  BY <1>1 DEF ModelInv, ReadsTrue
<1>3. CASE RebuildIndex
  <2>1. /\ queue # <<>> /\ queue' = Tail(queue) /\ Head(queue).kind = "index" /\ index' = design
        /\ UNCHANGED <<cache, job, design, hashes, gaveUp>>
    BY <1>3 DEF RebuildIndex, Takes, history
  <2>2. SavesCurrent' /\ (Has("full") => Has("full")') /\ \A f : SaveQueued(f) => SaveQueued(f)'
    BY <1>1, <1>2, <2>1, SavesTaken
  <2>3. JobCurrent' /\ CacheTrue'
    BY <1>1, <1>2, <2>1 DEF ReadsTrue, JobCurrent, ReadTo, CacheTrue
  <2>4. ModelCovered => ModelCovered'
    BY <1>1, <2>1, <2>2
       DEF ModelCovered, DesignCovered, IndexCovered, SavePending, FullPending, JobOn
  <2> QED
    BY <1>2, <2>1, <2>2, <2>3, <2>4 DEF ReadsTrue
<1>4. CASE TakeFull
  <2>1. /\ queue # <<>> /\ queue' = Tail(queue) /\ job' = StartFull
        /\ UNCHANGED <<cache, design, hashes, index>>
    BY <1>4 DEF TakeFull, Takes, parsed
  <2>2. SavesCurrent' /\ FullPending'
    BY <1>1, <1>2, <2>1, SavesTaken DEF FullPending, StartFull
  <2>3. JobCurrent' /\ CacheTrue'
    BY <1>1, <1>2, <2>1 DEF ReadsTrue, JobCurrent, StartFull, ReadTo, CacheTrue, Files
  <2> QED
    BY <1>2, <2>1, <2>2, <2>3 DEF ReadsTrue, ModelCovered, DesignCovered, IndexCovered
<1>5. CASE FullLookup
  <2> DEFINE f == job.next
             hit == cache[f][disk[f]]
  <2>1. /\ job \in [kind : {"full"}, next : 1 .. NFiles + 1, read : [Files -> Entry]]
        /\ f \in Files /\ UNCHANGED <<cache, design, hashes, index, queue>>
    BY <1>1, <1>5, JobKinds DEF FullLookup, Files, parsed
  <2>2. (\A g \in Files : g < f => job.read[g] = disk[g]) /\ hit \in {None, disk[f]} /\ disk[f] \in Texts
    BY <1>1, <1>2, <2>1 DEF ReadsTrue, JobCurrent, ReadTo, CacheTrue
  <2>3. /\ \A g \in Files : g < job'.next => job'.read[g] = disk[g]
        /\ \/ job'.kind = "full"
           \/ job'.kind = "miss" /\ job'.hash = disk[job'.next]
    <3>1. CASE hit # None
      <4>1. job' = [job EXCEPT !.next = f + 1, !.read[f] = hit]
        BY <1>5, <3>1 DEF FullLookup
      <4>2. job'.kind = "full" /\ job'.next = f + 1 /\ job'.read = [job.read EXCEPT ![f] = hit]
        BY <2>1, <4>1
      <4>3. \A g \in Files : g < f + 1 => g < f \/ g = f
        BY <2>1 DEF Files
      <4> QED
        BY <2>1, <2>2, <3>1, <4>2, <4>3
    <3>2. CASE hit = None
      <4>1. job' = [kind |-> "miss", next |-> f, read |-> job.read, hash |-> disk[f]]
        BY <1>5, <3>2 DEF FullLookup
      <4>2. job'.kind = "miss" /\ job'.next = f /\ job'.read = job.read /\ job'.hash = disk[f]
        BY <4>1
      <4> QED
        BY <2>2, <4>2
    <3> QED
      BY <3>1, <3>2
  <2>4. JobCurrent' /\ CacheTrue' /\ SavesCurrent' /\ FullPending'
    BY <1>1, <1>2, <2>1, <2>3
       DEF JobCurrent, ReadTo, ReadsTrue, CacheTrue, SavesCurrent, FullPending
  <2> QED
    BY <1>2, <2>1, <2>4 DEF ReadsTrue, ModelCovered, DesignCovered, IndexCovered
<1>6. CASE FullParse
  <2> DEFINE f == job.next
             now == disk[f]
  <2>1. /\ job \in [kind : {"miss"}, next : Files, read : [Files -> Entry], hash : Texts]
        /\ UNCHANGED <<design, hashes, index, queue>>
    BY <1>1, <1>6, JobKinds DEF FullParse, parsed
  <2>2. SavesCurrent'
    BY <1>1, <1>2, <2>1 DEF SavesCurrent
  <2>3. CASE now \in Broken
    <3>1. job' = Idle /\ gaveUp' = TRUE /\ UNCHANGED cache
      BY <1>6, <2>3 DEF FullParse
    <3>2. JobCurrent' /\ CacheTrue'
      BY <1>1, <1>2, <3>1 DEF ReadsTrue, JobCurrent, Idle, CacheTrue
    <3> QED
      BY <1>2, <2>1, <2>2, <3>1, <3>2 DEF ReadsTrue
  <2>4. CASE now \notin Broken
    <3>1. /\ cache' = [cache EXCEPT ![f][job.hash] = now]
          /\ job' = [kind |-> "full", next |-> f + 1, read |-> [job.read EXCEPT ![f] = now]]
      BY <1>6, <2>4 DEF FullParse
    <3>2. (\A g \in Files : g < f => job.read[g] = disk[g]) /\ job.hash = now
      BY <1>2, <2>1 DEF ReadsTrue, JobCurrent, ReadTo
    <3>3. job'.kind = "full" /\ job'.next = f + 1 /\ job'.read = [job.read EXCEPT ![f] = now]
      BY <3>1
    <3>4. \A g \in Files : g < f + 1 => g < f \/ g = f
      BY <2>1 DEF Files
    <3>5. JobCurrent'
      BY <1>1, <2>1, <3>2, <3>3, <3>4 DEF JobCurrent, ReadTo
    <3>6. CacheTrue'
      BY <1>2, <2>1, <3>1, <3>2 DEF ReadsTrue, CacheTrue, TypeOK
    <3>7. FullPending'
      BY <3>3 DEF FullPending
    <3> QED
      BY <1>2, <2>1, <2>2, <3>5, <3>6, <3>7 DEF ReadsTrue, ModelCovered, DesignCovered, IndexCovered
  <2> QED
    BY <2>3, <2>4
<1>7. CASE FullHash
  <2>1. /\ job \in [kind : {"full"}, next : 1 .. NFiles + 1, read : [Files -> Entry]]
        /\ job.next > NFiles /\ job' = [kind |-> "commit", read |-> job.read, hash |-> disk]
        /\ UNCHANGED <<cache, design, hashes, index, queue>>
    BY <1>1, <1>7, JobKinds DEF FullHash, parsed
  <2>2. \A g \in Files : job.read[g] = disk[g]
    BY <1>2, <2>1, WorkspaceAssumption DEF ReadsTrue, JobCurrent, ReadTo, Files
  <2>3. job.read = disk
    BY <1>1, <2>1, <2>2
  <2>4. job'.kind = "commit" /\ job'.read = disk /\ job'.hash = disk
    BY <2>1, <2>3
  <2>5. JobCurrent' /\ CacheTrue' /\ SavesCurrent' /\ FullPending'
    BY <1>1, <1>2, <2>1, <2>4 DEF JobCurrent, ReadsTrue, CacheTrue, SavesCurrent, FullPending
  <2> QED
    BY <1>2, <2>1, <2>5 DEF ReadsTrue, ModelCovered, DesignCovered, IndexCovered
<1>8. CASE FullCommit
  <2>1. /\ job' = Idle /\ UNCHANGED <<cache, queue>>
        /\ design' = disk /\ index' = disk /\ hashes' = disk
    BY <1>2, <1>8 DEF FullCommit, ReadsTrue, JobCurrent
  <2>2. JobCurrent' /\ CacheTrue' /\ SavesCurrent'
    BY <1>1, <1>2, <2>1 DEF JobCurrent, Idle, ReadsTrue, CacheTrue, SavesCurrent
  <2> QED
    BY <1>1, <2>1, <2>2 DEF ReadsTrue, ModelCovered, DesignCovered, IndexCovered
<1> QED
  BY <1>3, <1>4, <1>5, <1>6, <1>7, <1>8

\* Every step keeps what the server knows of the saved files true or in hand.
LEMMA ModelStep == TypeOK /\ ModelInv /\ [Next]_vars => ModelInv'
<1>1. ASSUME ModelInv, UNCHANGED vars PROVE ModelInv'
  BY <1>1, ModelKept DEF ModelInv, vars
<1> QED
  BY <1>1, ModelEditor, ModelOneFile, ModelAllFiles DEF Next, Worker

\* It starts with a full parse queued and nothing known.
LEMMA ModelInit == Init => ModelInv
<1> SUFFICES ASSUME Init PROVE ReadsTrue /\ ModelCovered
  BY DEF ModelInv
<1>1. Range(queue) = {FullTier} /\ FullTier.kind = "full"
  BY RangeOne DEF Init, Tasks, FullTier
<1>2. FullPending
  BY <1>1 DEF FullPending, Has
<1> QED
  BY <1>1, <1>2 DEF Init, Idle, ReadsTrue, CacheTrue, SavesCurrent, JobCurrent, ModelCovered,
                    DesignCovered, IndexCovered

\* A settled server has nothing in hand: what it knows is what the files hold.
LEMMA ModelSettled == TypeOK /\ ModelInv => SavedModelUnraced
<1> SUFFICES ASSUME TypeOK, ModelInv, ~raced, ~gaveUp, Settled, \A f \in Files : disk[f] \notin Broken
             PROVE  design = disk /\ index = disk
  BY DEF SavedModelUnraced, SavedModel
<1>1. job.kind = "idle" /\ Range(queue) = {}
  BY DEF Settled, Idle, Range
<1>2. ~FullPending /\ ~Has("index") /\ \A f : ~SavePending(f)
  BY <1>1 DEF FullPending, Has, SavePending, SaveQueued, JobOn
<1>3. \A f \in Files : design[f] = disk[f]
  BY <1>2 DEF ModelInv, ModelCovered, DesignCovered
<1>4. design = disk
  BY <1>3 DEF TypeOK, EditorOK, ParsedOK
<1> QED
  BY <1>2, <1>4 DEF ModelInv, ModelCovered, IndexCovered

\* Once the threads are done and every file parses, the design and the index are
\* those of the files (_run_save_tier, _run_full_parse, the parse cache), across
\* restarts, if no save overtook another and no full parse was given up.
THEOREM SavedModelHolds == Spec => []SavedModelUnraced
<1>1. Init => TypeOK /\ ModelInv
  BY TypeInit, ModelInit
<1>2. (TypeOK /\ ModelInv) /\ [Next]_vars => (TypeOK /\ ModelInv)'
  BY TypeStep, ModelStep
<1> QED
  BY <1>1, <1>2, ModelSettled, PTL DEF Spec
=============================================================================
