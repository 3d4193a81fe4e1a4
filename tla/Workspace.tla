----------------------------- MODULE Workspace -----------------------------
(***************************************************************************)
(* The language server's Workspace (veriforge_lsp/workspace.py) and the    *)
(* parse cache of veriforge/project.py.  Four kinds of threads meet here:  *)
(* the editor's notifications, handled one by one on the asyncio thread;   *)
(* one timer thread per debounced syntax check; the single worker of the   *)
(* executor, which takes its tasks in order; and the editor itself, which  *)
(* writes the files the worker reads.  Only the worker writes the state    *)
(* under _lock, so its steps are cut where it reads a file or where the    *)
(* asyncio thread reads _file_hashes, and nowhere else.                    *)
(* A text stands for its content and its SHA-256.                          *)
(***************************************************************************)
EXTENDS Naturals, Sequences, FiniteSets

CONSTANTS
    NFiles,               \* the Verilog files under root, in sorted order
    Texts,                \* contents a file can have
    Broken,               \* the contents with a syntax error
    Signature,            \* [Texts -> ...], ports and parameters of the modules
    Warns(_, _),          \* does lint_design(design) warn about the file?
    None,                 \* an absent entry of a dictionary
    Disks,                \* what the files may hold to begin with
    Edited,               \* the files the user works on
    MaxMessages,          \* bound on the editor's notifications
    MaxRestarts           \* bound on restarts of the server

Files == 1 .. NFiles

ASSUME WorkspaceAssumption ==
    /\ NFiles \in Nat \ {0} /\ MaxMessages \in Nat /\ MaxRestarts \in Nat
    /\ Edited \subseteq Files /\ Broken \subseteq Texts /\ None \notin Texts
    /\ Texts \subseteq DOMAIN Signature /\ Disks \subseteq [Files -> Texts]

VARIABLES
    disk,                 \* [Files -> Texts]
    cache,                \* the parse cache: [Files -> [hash -> parsed text or None]]
    messages, restarts,   \* what the bounds count
    verible,              \* is verible-verilog-lint installed?
    buf,                  \* _open_texts
    timers,               \* the timer threads alive
    debounce,             \* _lark_debounce: file -> id of a timer
    queue,                \* the executor's tasks
    job,                  \* what the worker is doing
    design, index,        \* the text each file's part was parsed from
    hashes,               \* _file_hashes
    stale,                \* _file_is_stale
    diags,                \* _verible_diags, as a verdict
    semantic,             \* the files with entries in _semantic_diags
    shown,                \* the diagnostics last published for each file
    raced,                \* history: a save came before an earlier one was dealt with
    gaveUp                \* history: the last full parse met a file that does not parse

editor == <<disk, messages, restarts, verible, buf>>
checking == <<timers, debounce>>
parsed == <<design, index, hashes, stale, diags, semantic, shown>>
history == <<raced, gaveUp>>
vars == <<disk, cache, messages, restarts, verible, buf, timers, debounce, queue,
          job, design, index, hashes, stale, diags, semantic, shown, raced, gaveUp>>

Idle == [kind |-> "idle"]
Entry == Texts \cup {None}
NoDesign == [f \in Files |-> None]
NothingShown == [f \in Files |-> [err |-> FALSE, warn |-> FALSE]]

Check(f, t) == [kind |-> "check", file |-> f, text |-> t]
SaveTier(f, t) == [kind |-> "save", file |-> f, text |-> t]
FullTier == [kind |-> "full"]
IndexTier == [kind |-> "index"]
Tasks == [kind : {"check", "save"}, file : Files, text : Texts] \cup {FullTier, IndexTier}
Jobs ==
    {Idle} \cup [kind : {"parse"}, file : Files, text : Texts]
        \cup [kind : {"merge"}, file : Files, text : Texts, now : Texts]
        \cup [kind : {"full"}, next : 1 .. NFiles + 1, read : [Files -> Entry]]
        \cup [kind : {"miss"}, next : Files, read : [Files -> Entry], hash : Texts]
        \cup [kind : {"commit"}, read : [Files -> Entry], hash : [Files -> Texts]]

----------------------------------------------------------------------------
(* What the tools say of a text.                                           *)

\* _lark_syntax_check.
Verdict(t) == IF t \in Broken THEN "error" ELSE "clean"

\* run_verible: no diagnostics when it is not installed; when it times out or
\* crashes the list is empty too, which is kept apart here as "silent".
RunVerible(t) == IF verible THEN {Verdict(t), "silent"} ELSE {"clean"}

\* _publish_diagnostics_for.
Published(f, dg, st, sem) == [err |-> dg = "error", warn |-> f \in sem /\ ~st]

----------------------------------------------------------------------------
(* The asyncio thread.                                                     *)

\* _schedule_lark_check: cancel() stops a timer that has not woken up yet.
NewTimer(f, t) == [id |-> messages', file |-> f, text |-> t, at |-> "armed"]
Uncancelled(f) == {tm \in timers : ~(tm.id = debounce[f] /\ tm.at = "armed")}
ScheduleLarkCheck(f, t) ==
    /\ timers' = Uncancelled(f) \cup {NewTimer(f, t)}
    /\ debounce' = [debounce EXCEPT ![f] = messages']
    /\ UNCHANGED queue

SubmitCheck(f, t) ==
    /\ queue' = Append(queue, Check(f, t))
    /\ UNCHANGED <<timers, debounce>>

\* on_did_change, and did_open, which ends in it.
OnDidChange(f, t) ==
    /\ messages < MaxMessages /\ messages' = messages + 1
    /\ buf' = [buf EXCEPT ![f] = t]
    /\ IF verible THEN SubmitCheck(f, t) ELSE ScheduleLarkCheck(f, t)
    /\ UNCHANGED <<disk, cache, restarts, verible, job, parsed, history>>

Open(f) == buf[f] = None /\ OnDidChange(f, disk[f])
Change(f, t) == buf[f] \notin {None, t} /\ OnDidChange(f, t)

\* The editor writes the buffer and on_did_save compares its hash with the
\* one recorded by the last parse: a save that comes between the reading of a
\* file and the recording may be taken for one already dealt with.
SkipSave(f) == hashes[f] = buf[f]
Overtakes(f) == job # Idle \/ \E k \in DOMAIN queue : queue[k].kind = "save" /\ queue[k].file = f
Save(f) ==
    /\ buf[f] # None
    /\ messages < MaxMessages /\ messages' = messages + 1
    /\ disk' = [disk EXCEPT ![f] = buf[f]]
    /\ queue' = IF SkipSave(f) THEN queue ELSE Append(queue, SaveTier(f, buf[f]))
    /\ raced' = (raced \/ Overtakes(f))
    /\ UNCHANGED <<cache, restarts, verible, buf, checking, job, parsed, gaveUp>>

\* on_did_close.
Close(f) ==
    /\ buf[f] # None
    /\ messages < MaxMessages /\ messages' = messages + 1
    /\ buf' = [buf EXCEPT ![f] = None]
    /\ timers' = Uncancelled(f)
    /\ debounce' = [debounce EXCEPT ![f] = 0]
    /\ UNCHANGED <<disk, cache, restarts, verible, queue, job, parsed, history>>

\* The command verilog.reparse: parse_workspace_async.
Reparse ==
    /\ messages < MaxMessages /\ messages' = messages + 1
    /\ queue' = Append(queue, FullTier)
    /\ UNCHANGED <<disk, cache, restarts, verible, buf, checking, job, parsed, history>>

----------------------------------------------------------------------------
(* The timer threads: Timer.run wakes up, finds it is not cancelled and    *)
(* calls _fire.  Assumed: a thread that has woken up submits its check     *)
(* within the debounce delay of the timer started after it.                *)

TimerWakes(tm) ==
    /\ tm.at = "armed"
    /\ \A o \in timers : o.file = tm.file => tm.id <= o.id
    /\ timers' = (timers \ {tm}) \cup {[tm EXCEPT !.at = "woken"]}
    /\ UNCHANGED <<editor, cache, debounce, queue, job, parsed, history>>

\* Fault: the timer starts over, the file's entry being gone.
FireRearms(tm) ==
    /\ tm.at = "woken"
    /\ timers' = (timers \ {tm}) \cup {[tm EXCEPT !.at = "armed"]}
    /\ debounce' = [debounce EXCEPT ![tm.file] = 0]
    /\ UNCHANGED <<editor, cache, queue, job, parsed, history>>

\* _fire drops the entry of the file, whichever timer it names by now ...
FirePops(tm) ==
    /\ tm.at = "woken"
    /\ timers' = (timers \ {tm}) \cup {[tm EXCEPT !.at = "popped"]}
    /\ debounce' = [debounce EXCEPT ![tm.file] = 0]
    /\ UNCHANGED <<editor, cache, queue, job, parsed, history>>

\* Fault: the text is looked up when the timer fires.
FireSubmitsLate(tm) ==
    /\ tm.at = "popped"
    /\ timers' = timers \ {tm}
    /\ queue' = Append(queue, Check(tm.file, buf[tm.file]))
    /\ UNCHANGED <<editor, cache, debounce, job, parsed, history>>

\* ... and submits the check of the text its timer was started with.
FireSubmits(tm) ==
    /\ tm.at = "popped"
    /\ timers' = timers \ {tm}
    /\ queue' = Append(queue, Check(tm.file, tm.text))
    /\ UNCHANGED <<editor, cache, debounce, job, parsed, history>>

----------------------------------------------------------------------------
(* The worker thread.  A task that ends leaves the worker idle.            *)

Takes(kind) == job = Idle /\ queue # <<>> /\ Head(queue).kind = kind

\* _run_lark_tier and _run_verible_tier.
RunCheck ==
    /\ Takes("check")
    /\ LET f == Head(queue).file
           t == Head(queue).text
       IN \E r \in IF verible THEN RunVerible(t) ELSE {Verdict(t)} :
              /\ diags' = [diags EXCEPT ![f] = r]
              /\ shown' = [shown EXCEPT ![f] = Published(f, r, stale[f], semantic)]
    /\ queue' = Tail(queue)
    /\ UNCHANGED <<editor, cache, checking, job, design, index, hashes, stale, semantic, history>>

\* _run_save_tier, first part: Verible looks at the saved text.  A syntax error
\* ends the save only if its line carries a rule name that says "syntax".
SaveLint ==
    /\ Takes("save")
    /\ LET f == Head(queue).file
           t == Head(queue).text
       IN \E r \in RunVerible(t), tagged \in BOOLEAN :
              /\ diags' = [diags EXCEPT ![f] = r]
              /\ stale' = [stale EXCEPT ![f] = @ \/ (r = "error" /\ tagged)]
              /\ IF r = "error" /\ tagged
                 THEN /\ job' = Idle
                      /\ shown' = [shown EXCEPT ![f] = Published(f, r, TRUE, semantic)]
                 ELSE /\ job' = [kind |-> "parse", file |-> f, text |-> t]
                      /\ UNCHANGED shown
    /\ queue' = Tail(queue)
    /\ UNCHANGED <<editor, cache, checking, design, index, hashes, semantic, history>>

\* parse_files([path]) reads the file as it is by now.
SaveParse ==
    /\ job.kind = "parse" /\ disk[job.file] \notin Broken
    /\ job' = [kind |-> "merge", file |-> job.file, text |-> job.text, now |-> disk[job.file]]
    /\ UNCHANGED <<editor, cache, checking, queue, parsed, history>>

\* Fault: no second opinion when the parse fails.
SaveFailsSilently ==
    /\ job.kind = "parse" /\ disk[job.file] \in Broken
    /\ job' = Idle
    /\ UNCHANGED <<editor, cache, checking, queue, parsed, history>>

\* It raises: without Verible, Lark checks the saved text.
SaveFails ==
    /\ job.kind = "parse" /\ disk[job.file] \in Broken
    /\ LET f == job.file
           rejected == ~verible /\ Verdict(job.text) = "error"
       IN /\ diags' = [diags EXCEPT ![f] = IF rejected THEN "error" ELSE @]
          /\ stale' = [stale EXCEPT ![f] = @ \/ rejected]
          /\ shown' = [shown EXCEPT ![f] = Published(f, diags'[f], stale'[f], semantic)]
    /\ job' = Idle
    /\ UNCHANGED <<editor, cache, checking, queue, design, index, hashes, semantic, history>>

\* The file's modules replace those of the design (_merge_file_into_design); a
\* changed interface calls for a full parse, any other change for a new index.
StartFull == [kind |-> "full", next |-> 1, read |-> NoDesign]
InterfaceChanged(f, now) == design[f] = None \/ Signature[now] # Signature[design[f]]

\* Fault: the index is left as it is when no interface changed.
SaveMergeQuiet ==
    /\ job.kind = "merge"
    /\ LET f == job.file
       IN /\ hashes' = [hashes EXCEPT ![f] = job.text]
          /\ stale' = [stale EXCEPT ![f] = FALSE]
          /\ design' = [design EXCEPT ![f] = job.now]
          /\ shown' = [shown EXCEPT ![f] = Published(f, diags[f], FALSE, semantic)]
          /\ job' = IF InterfaceChanged(f, job.now) THEN StartFull ELSE Idle
    /\ UNCHANGED <<editor, cache, checking, queue, index, diags, semantic, history>>

SaveMerge ==
    /\ job.kind = "merge"
    /\ LET f == job.file
       IN /\ hashes' = [hashes EXCEPT ![f] = job.text]
          /\ stale' = [stale EXCEPT ![f] = FALSE]
          /\ design' = [design EXCEPT ![f] = job.now]
          /\ shown' = [shown EXCEPT ![f] = Published(f, diags[f], FALSE, semantic)]
          /\ IF InterfaceChanged(f, job.now)
             THEN job' = StartFull /\ UNCHANGED queue
             ELSE job' = Idle /\ queue' = Append(queue, IndexTier)
    /\ UNCHANGED <<editor, cache, checking, index, diags, semantic, history>>

\* _rebuild_index.
RebuildIndex ==
    /\ Takes("index")
    /\ index' = design
    /\ queue' = Tail(queue)
    /\ UNCHANGED <<editor, cache, checking, job, design, hashes, stale, diags, semantic, shown, history>>

\* _run_full_parse: parse_directory goes through the files, ...
TakeFull ==
    /\ Takes("full")
    /\ job' = StartFull
    /\ queue' = Tail(queue)
    /\ UNCHANGED <<editor, cache, checking, parsed, history>>

\* ... looks each one up in the cache under the hash of its bytes, ...
FullLookup ==
    /\ job.kind = "full" /\ job.next <= NFiles
    /\ LET f == job.next
           hit == cache[f][disk[f]]
       IN job' = IF hit # None
                 THEN [job EXCEPT !.next = f + 1, !.read[f] = hit]
                 ELSE [kind |-> "miss", next |-> f, read |-> job.read, hash |-> disk[f]]
    /\ UNCHANGED <<editor, cache, checking, queue, parsed, history>>

\* ... and on a miss reads it again, parses it and saves the result under
\* that hash.  One file that does not parse ends the full parse.
FullParse ==
    /\ job.kind = "miss"
    /\ LET f == job.next
           now == disk[f]
       IN IF now \in Broken
          THEN job' = Idle /\ gaveUp' = TRUE /\ UNCHANGED cache
          ELSE /\ cache' = [cache EXCEPT ![f][job.hash] = now]
               /\ UNCHANGED gaveUp
               /\ job' = [kind |-> "full", next |-> f + 1, read |-> [job.read EXCEPT ![f] = now]]
    /\ UNCHANGED <<editor, checking, queue, parsed, raced>>

\* The hashes are taken from the files once more, after the analysis.
FullHash ==
    /\ job.kind = "full" /\ job.next > NFiles
    /\ job' = [kind |-> "commit", read |-> job.read, hash |-> disk]
    /\ UNCHANGED <<editor, cache, checking, queue, parsed, history>>

\* The swap under _lock, and _publish_all_diagnostics.
FullCommit ==
    /\ job.kind = "commit"
    /\ design' = job.read /\ index' = job.read
    /\ hashes' = job.hash
    /\ stale' = [f \in Files |-> FALSE]
    /\ semantic' = {f \in Files : Warns(job.read, f)}
    /\ shown' = [f \in Files |-> IF diags[f] # "absent" \/ f \in semantic'
                                 THEN Published(f, diags[f], FALSE, semantic') ELSE shown[f]]
    /\ job' = Idle /\ gaveUp' = FALSE
    /\ UNCHANGED <<editor, cache, checking, queue, diags, raced>>

Worker ==
    \/ RunCheck \/ SaveLint \/ SaveParse \/ SaveFails \/ SaveMerge \/ RebuildIndex
    \/ TakeFull \/ FullLookup \/ FullParse \/ FullHash \/ FullCommit

----------------------------------------------------------------------------

Init ==
    /\ disk \in Disks
    /\ cache = [f \in Files |-> [h \in Texts |-> None]]
    /\ messages = 0 /\ restarts = 0 /\ verible \in BOOLEAN
    /\ raced = FALSE /\ gaveUp = FALSE
    /\ buf = NoDesign
    /\ timers = {} /\ debounce = [f \in Files |-> 0]
    /\ queue = <<FullTier>> /\ job = Idle
    /\ design = NoDesign /\ index = NoDesign /\ hashes = NoDesign
    /\ stale = [f \in Files |-> FALSE]
    /\ diags = [f \in Files |-> "absent"] /\ semantic = {}
    /\ shown = NothingShown

\* The server is stopped or dies, whatever it is doing, and a new process runs
\* __init__ and on_initialized: the files and the cache survive.
Restart ==
    /\ restarts < MaxRestarts /\ restarts' = restarts + 1
    /\ buf' = NoDesign
    /\ timers' = {} /\ debounce' = [f \in Files |-> 0]
    /\ queue' = <<FullTier>> /\ job' = Idle
    /\ design' = NoDesign /\ index' = NoDesign /\ hashes' = NoDesign
    /\ stale' = [f \in Files |-> FALSE]
    /\ diags' = [f \in Files |-> "absent"] /\ semantic' = {}
    /\ shown' = NothingShown /\ gaveUp' = FALSE
    /\ UNCHANGED <<disk, cache, messages, verible, raced>>

Editor ==
    \/ \E f \in Edited : Open(f) \/ Save(f) \/ Close(f) \/ \E t \in Texts : Change(f, t)
    \/ Reparse
    \/ Restart

TimerThread == \E tm \in timers : TimerWakes(tm) \/ FirePops(tm) \/ FireSubmits(tm)

Next == Editor \/ TimerThread \/ Worker
Spec == Init /\ [][Next]_vars /\ WF_vars(Worker) /\ WF_vars(TimerThread)

----------------------------------------------------------------------------

Timers == [id : 1 .. MaxMessages, file : Files, text : Texts, at : {"armed", "woken", "popped"}]
Marks == [err : BOOLEAN, warn : BOOLEAN]

EditorOK ==
    /\ disk \in [Files -> Texts] /\ buf \in [Files -> Entry] /\ verible \in BOOLEAN
    /\ messages \in 0 .. MaxMessages /\ restarts \in 0 .. MaxRestarts
CheckingOK == timers \subseteq Timers /\ debounce \in [Files -> 0 .. MaxMessages]
ParsedOK ==
    /\ design \in [Files -> Entry] /\ index \in [Files -> Entry] /\ hashes \in [Files -> Entry]
    /\ stale \in [Files -> BOOLEAN] /\ semantic \subseteq Files
    /\ diags \in [Files -> {"absent", "clean", "error", "silent"}]
    /\ shown \in [Files -> Marks]

TypeOK ==
    /\ EditorOK /\ CheckingOK /\ ParsedOK
    /\ cache \in [Files -> [Texts -> Entry]]
    /\ queue \in Seq(Tasks) /\ job \in Jobs
    /\ raced \in BOOLEAN /\ gaveUp \in BOOLEAN

Settled == job = Idle /\ queue = <<>> /\ timers = {}

\* Once the threads are done, what the editor shows of an open file is about
\* the text in its buffer, however checks, saves and full parses interleaved
\* (a Verible that failed says nothing).
ShownCurrent ==
    Settled => \A f \in Files : buf[f] # None =>
        /\ diags[f] \in {Verdict(buf[f])} \cup (IF verible THEN {"silent"} ELSE {})
        /\ shown[f] = Published(f, diags[f], stale[f], semantic)

\* Tier 2 is the "semantic model for saved files": once the threads are done
\* and every file parses, the design and the index are those of the files.
SavedModel ==
    Settled /\ (\A f \in Files : disk[f] \notin Broken) => design = disk /\ index = disk

\* ... which holds when no save overtakes another of the same file or comes
\* while the worker is inside a parse, and the last full parse went through:
\* one that gave up is not repeated when the file at fault is put right with a
\* text whose hash or interface is the one recorded.
SavedModelUnraced == ~raced /\ ~gaveUp => SavedModel

\* No open buffer stays with a wrong verdict for good: its last text is checked
\* in the end, with Verible or Lark.
BufferChecked ==
    []<>(\A f \in Edited : buf[f] = None \/ diags[f] \in {Verdict(buf[f]), "silent"})
=============================================================================
