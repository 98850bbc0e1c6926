------------------------------ MODULE TraceLog ------------------------------
(***************************************************************************)
(* TraceCollector (core/observability/collector.py), called by one         *)
(* session's LoopEngine, and JsonlTraceStore (jsonl_store.py), which       *)
(* rewrites the session's traces.jsonl in a thread.                        *)
(*                                                                         *)
(* A span is known by its position in the run.  The collector keeps the    *)
(* run in memory until end_run saves it; what the engine still closes in   *)
(* memory after that (the finalize span) is never saved.  The engine's     *)
(* react tasks may overlap, and all of them record in the one turn that is *)
(* current, the last that any of them began; while end_run holds the       *)
(* collector's lock nothing is recorded.                                   *)
(* A line of the file is a run; its length in bytes is its spans.          *)
(***************************************************************************)
EXTENDS Naturals, SequencesExt, FiniteSetsExt

CONSTANTS MaxRuns,            \* bounds the runs
          MaxSpans,           \* MaxSpans[r]: bounds the spans of run r
          MaxFileBytes,       \* max_file_bytes
          MaxFaults           \* bounds re-created sessions, crashes, readers, failed I/O

ASSUME TraceAssumption ==
  MaxRuns \in Nat \ {0} /\ MaxSpans \in [1..MaxRuns -> Nat] /\ MaxFileBytes \in Nat \ {0} /\ MaxFaults \in Nat

VARIABLES
  run,       \* the engine's _run_id; 0 is None
  turn,      \* the engine's _current_turn_id, which all its reacts share; 0 is None
  spans,     \* the spans of the collector's _current
  status,    \* the status of _current
  acts,      \* _turn_act_span: turn -> its act span
  saving,    \* end_run waits for the store, the collector's lock held
  runs,      \* runs begun so far
  size,      \* size[r]: bytes of the line of a saved run
  writer,    \* writer[r]: the thread that writes run r to the file
  file,      \* traces.jsonl: its complete lines, and whether a torn line follows
  written,   \* history: runs in the order their threads finished
  cut,       \* history: runs dropped because the file was too long
  disturbed, \* history: the newest run that a fault may have cost the file; with it
             \* it may have cost any older one
  faults     \* bounds the faults

vars == <<run, turn, spans, status, acts, saving, runs, size, writer, file, written, cut,
          disturbed, faults>>
collectorVars == <<run, turn, spans, status, acts, saving, runs>>
storeVars == <<size, writer, file, written, cut, disturbed>>

Runs  == 1..MaxRuns
\* Reasoning stands for compression too, which is recorded in the same way.
Works == {"reasoning", "act", "tool"}
Statuses == {"ok", "error", "cancelled"}
NoWriter == [pc |-> "none", lines |-> <<>>, at |-> "live"]
NoFile   == [lines |-> <<>>, torn |-> FALSE]

Init ==
  /\ run = 0 /\ turn = 0 /\ spans = <<>> /\ status = "none" /\ acts = <<>>
  /\ saving = FALSE /\ runs = 0
  /\ size = [r \in Runs |-> 0]
  /\ writer = [r \in Runs |-> NoWriter]
  /\ file = NoFile /\ written = <<>> /\ cut = {}
  /\ disturbed = 0 /\ faults = 0

-----------------------------------------------------------------------------
(* The collector.  The run itself is the parent 0 of its top spans.        *)

\* now_span: a span of the group of a turn, or of the run (group 0), with the turn of
\* the react that records it.
NewSpan(kind, parent, group, own, open) ==
  [kind |-> kind, parent |-> parent, group |-> group, own |-> own, open |-> open]

\* begin_span, as the engine uses it: a span of the run.
OpenTop(kind) == NewSpan(kind, 0, 0, 0, TRUE)

\* end_span: the span is replaced, in place, by its closed copy.
Closed(ss, i) == [ss EXCEPT ![i].open = FALSE]

\* _find_loop_span_id, 0 when the run has no open loop span.
OpenLoop(ss) ==
  LET open == {i \in DOMAIN ss : ss[i].kind = "loop" /\ ss[i].open}
  IN  IF open = {} THEN 0 ELSE Min(open)

\* A message starts a run when none is open: bootstrap, which is empty, and
\* the loop span that stays open until the run is closed.
BeginRun ==
  /\ run = 0 /\ ~saving /\ runs < MaxRuns
  /\ runs' = runs + 1 /\ run' = runs + 1
  /\ spans' = Append(Closed(<<OpenTop("bootstrap")>>, 1), OpenTop("loop"))
  /\ status' = "running" /\ acts' = <<>>
  /\ UNCHANGED <<turn, saving, faults, storeVars>>

\* begin_turn: a turn's own span opens its group; nothing ever calls end_turn.
BeginTurn ==
  /\ run # 0 /\ ~saving /\ Len(spans) < MaxSpans[run]
  /\ LET id == Len(spans) + 1
     IN  /\ spans' = Append(spans, NewSpan("turn", OpenLoop(spans), id, id, TRUE))
         /\ turn' = id
  /\ UNCHANGED <<run, status, acts, saving, runs, faults, storeVars>>

\* Mutant: one act span is remembered for the whole run.
ParentOf_LastAct(kind) ==
  LET found == {i \in DOMAIN spans : spans[i].kind = "act"}
  IN  IF kind = "tool" /\ found # {} THEN Max(found) ELSE turn

\* The parent of a work span: a tool hangs under the act span of the current turn.
ParentOf(kind) ==
  IF kind = "tool" /\ turn \in DOMAIN acts THEN acts[turn] ELSE turn

\* _append_turn_span: a span that is not closed is closed as it is appended.
InTurn(kind, own) == Append(spans, NewSpan(kind, ParentOf(kind), turn, own, FALSE))

\* The turns begun in this run; a react of an earlier run, for which 0 stands, may
\* still be at work.
Reacts == {i \in DOMAIN spans : spans[i].kind = "turn"} \cup {0}

\* record_llm_span (record_compress_span), record_act_span, record_tool_span, called by
\* the react of any turn with the current one: an act span is remembered for the tools.
Record(kind, own) ==
  /\ turn # 0 /\ ~saving /\ Len(spans) < MaxSpans[run]
  /\ spans' = InTurn(kind, own)
  /\ acts' = IF kind = "act"
               THEN [t \in DOMAIN acts \cup {turn} |-> IF t = turn THEN Len(spans) + 1 ELSE acts[t]]
               ELSE acts
  /\ UNCHANGED <<run, turn, status, saving, runs, faults, storeVars>>

\* Mutant: an aborted run keeps its loop span open.
CloseRun_KeepsLoop(st) ==
  /\ run # 0 /\ ~saving
  /\ LET loop == OpenLoop(spans)
     IN  spans' = Append(IF st = "ok" THEN Closed(spans, loop) ELSE spans, OpenTop("finalize"))
  /\ status' = st /\ saving' = TRUE
  /\ size' = [size EXCEPT ![run] = Len(spans')]
  /\ writer' = [writer EXCEPT ![run].pc = "read"]
  /\ UNCHANGED <<run, turn, acts, runs, file, written, cut, disturbed, faults>>

\* A fault that may have cost these runs, and what is older than the newest of them.
Disturb(rs) == disturbed' = Max(rs \cup {disturbed})

\* The engine closes the run, at the end of its step or aborted: the loop span
\* is closed, a finalize span opened, and end_run hands the run to the store.
CloseRun(st) ==
  /\ run # 0 /\ ~saving
  /\ LET loop == OpenLoop(spans)
     IN  spans' = Append(IF loop = 0 THEN spans ELSE Closed(spans, loop),
                         OpenTop("finalize"))
  /\ status' = st /\ saving' = TRUE
  /\ size' = [size EXCEPT ![run] = Len(spans')]
  /\ writer' = [writer EXCEPT ![run].pc = "read"]
  /\ Disturb(IF \E r \in Runs : writer[r].pc # "none" THEN {run} ELSE {})
  /\ UNCHANGED <<run, turn, acts, runs, file, written, cut, faults>>

\* save_run returned: end_span closes finalize in memory, and the run is
\* forgotten; what the collector still holds of it is never saved again.
RunSaved ==
  /\ saving /\ writer[run].pc = "none"
  /\ saving' = FALSE /\ run' = 0 /\ turn' = 0
  /\ spans' = <<>> /\ status' = "none" /\ acts' = <<>>
  /\ UNCHANGED <<runs, faults, storeVars>>

-----------------------------------------------------------------------------
(* JsonlTraceStore: read, append, cut, write, all in one thread per save.  *)

Bytes(lines) == FoldSeq(LAMBDA r, n : size[r] + n, 0, lines)

\* Mutant: the first bytes are kept instead of the last.
Kept_Oldest(lines) ==
  IF Bytes(lines) <= MaxFileBytes THEN lines
  ELSE LET to == {i \in 0..Len(lines) : Bytes(SubSeq(lines, 1, i)) < MaxFileBytes}
       IN  SubSeq(lines, 1, Max(to))

\* The longest run of newest lines that is shorter than the limit: the last
\* max_file_bytes bytes, up to and with their first newline, are dropped, so a
\* line that fits exactly goes as well, and so does a newest line that is too long.
Kept(lines) ==
  IF Bytes(lines) <= MaxFileBytes THEN lines
  ELSE LET from == {i \in 1..Len(lines) + 1 : Bytes(SubSeq(lines, i, Len(lines))) < MaxFileBytes}
       IN  SubSeq(lines, Min(from), Len(lines))

\* An older line of the run, if there is one, is dropped.
Without(lines, r) == IF r \in Range(lines) THEN SelectSeq(lines, LAMBDA q : q # r) ELSE lines

\* The thread goes on with these lines and its own.
Rewrite(r, lines) ==
  LET all == Append(Without(lines, r), r)
  IN  /\ writer' = [writer EXCEPT ![r] = [pc |-> "write", lines |-> Kept(all), at |-> "live"]]
      /\ cut' = cut \cup (Range(all) \ Range(Kept(all)))

\* Mutant: the thread does not read what the file already has.
ReadFile_Overwrites(r) ==
  /\ writer[r].pc = "read"
  /\ Rewrite(r, <<>>)
  /\ UNCHANGED <<collectorVars, size, file, written, disturbed, faults>>

\* The thread reads the file: torn lines, and an older line of the run, go.
ReadFile(r) ==
  /\ writer[r].pc = "read"
  /\ Rewrite(r, file.lines)
  /\ UNCHANGED <<collectorVars, size, file, written, disturbed, faults>>

\* An OSError is logged, and the file taken to be empty.
ReadFails(r) ==
  /\ writer[r].pc = "read" /\ faults < MaxFaults
  /\ Rewrite(r, <<>>)
  /\ Disturb({r - 1}) /\ faults' = faults + 1
  /\ UNCHANGED <<collectorVars, size, file, written>>

\* write_text truncates the file; a part of the text may be out already.
OpenFile(r) ==
  /\ writer[r].pc = "write"
  /\ \E k \in 0..Len(writer[r].lines), torn \in BOOLEAN :
       /\ torn => k < Len(writer[r].lines)
       /\ file' = [lines |-> SubSeq(writer[r].lines, 1, k), torn |-> torn]
  /\ writer' = [writer EXCEPT ![r].pc = "writing"]
  /\ UNCHANGED <<collectorVars, size, written, cut, disturbed, faults>>

\* The rest of the text: into the file that was opened, wherever it is by now.
CloseFile(r) ==
  /\ writer[r].pc = "writing"
  /\ file' = IF writer[r].at = "live" THEN [lines |-> writer[r].lines, torn |-> FALSE] ELSE file
  /\ written' = Append(written, r)
  /\ writer' = [writer EXCEPT ![r] = NoWriter]
  /\ UNCHANGED <<collectorVars, size, cut, disturbed, faults>>

\* An OSError, before the file was truncated or after: it stays as it is, and to its
\* caller the run is saved.
WriteFails(r) ==
  /\ writer[r].pc \in {"write", "writing"} /\ faults < MaxFaults
  /\ written' = Append(written, r)
  /\ writer' = [writer EXCEPT ![r] = NoWriter]
  /\ Disturb({r}) /\ faults' = faults + 1
  /\ UNCHANGED <<collectorVars, size, file, cut>>

\* _read_all_runs: the runs a reader finds; a torn line is passed over.
Found == Range(file.lines)

\* _archive_v1_if_needed: a file with no line of version 2 or later is renamed.
\* A torn line has no version, so a file that is just being written may go, and
\* takes its writer along, to where nobody reads.
OpenStore ==
  IF file.lines = <<>> /\ file.torn
    THEN /\ file' = NoFile
         /\ writer' = [r \in Runs |-> IF writer[r].pc = "writing"
                                        THEN [writer[r] EXCEPT !.at = "archive"] ELSE writer[r]]
         /\ Disturb({r \in Runs : writer[r].pc = "writing"})
    ELSE UNCHANGED <<file, writer, disturbed>>

\* The debug server opens a store of its own to list the session's runs.
DebugReads ==
  /\ faults < MaxFaults /\ faults' = faults + 1
  /\ OpenStore
  /\ UNCHANGED <<collectorVars, size, written, cut>>

\* The session is destroyed, its engine cancelled wherever it is, and created
\* again: a new collector, store and lock.  A thread that writes goes on.
Recreate ==
  /\ faults < MaxFaults /\ faults' = faults + 1
  /\ OpenStore
  /\ run' = 0 /\ turn' = 0 /\ spans' = <<>> /\ status' = "none" /\ acts' = <<>>
  /\ saving' = FALSE
  /\ UNCHANGED <<runs, size, written, cut>>

\* The process dies, in the middle of a write perhaps, and starts again.
Crash ==
  /\ faults < MaxFaults /\ faults' = faults + 1
  /\ run' = 0 /\ turn' = 0 /\ spans' = <<>> /\ status' = "none" /\ acts' = <<>>
  /\ saving' = FALSE
  /\ Disturb({r \in Runs : writer[r].pc = "writing"})
  /\ writer' = [r \in Runs |-> NoWriter]
  /\ file' = IF file.lines = <<>> /\ file.torn THEN NoFile ELSE file
  /\ UNCHANGED <<runs, size, written, cut>>

Done == run = 0 /\ runs = MaxRuns /\ (\A r \in Runs : writer[r].pc = "none") /\ UNCHANGED vars

Engine ==
  \/ BeginRun \/ BeginTurn \/ RunSaved
  \/ \E kind \in Works, own \in Reacts : Record(kind, own)
  \/ \E st \in Statuses : CloseRun(st)
Thread(r) == ReadFile(r) \/ ReadFails(r) \/ OpenFile(r) \/ CloseFile(r) \/ WriteFails(r)
Next == Engine \/ (\E r \in Runs : Thread(r)) \/ DebugReads \/ Recreate \/ Crash \/ Done

Spec == Init /\ [][Next]_vars

-----------------------------------------------------------------------------
\* What the collector and the engine keep of the run: a turn is one of its turn spans.
TypeOK ==
  /\ run \in 0..MaxRuns /\ runs \in 0..MaxRuns /\ saving \in BOOLEAN
  /\ spans \in Seq([kind : Works \cup {"bootstrap", "loop", "turn", "finalize"},
                    parent : Nat, group : Nat, own : Nat, open : BOOLEAN])
  /\ turn # 0 => turn \in DOMAIN spans /\ spans[turn].kind = "turn"
  /\ status \in Statuses \cup {"none", "running"}

Before(kind, i) == {j \in 1..i - 1 : spans[j].kind = kind}
ActsBefore(i) == {j \in Before("act", i) : spans[j].group = spans[i].group}

\* Where a span hangs.  A turn: under the run's loop.  Work: in the newest turn begun
\* before it, there a tool under the last act, and under the turn what has no act above.
WellPlaced(i) ==
  LET s == spans[i] IN
  /\ s.kind = "turn" => s.parent \in Before("loop", i)
  /\ s.kind \in Works =>
       /\ Before("turn", i) # {} /\ s.group = Max(Before("turn", i))
       /\ s.parent = IF s.kind = "tool" /\ ActsBefore(i) # {} THEN Max(ActsBefore(i)) ELSE s.group
       /\ s.own <= s.group
  /\ s.kind \in {"bootstrap", "loop", "finalize"} => s.parent = 0

\* What is saved is one tree, whatever the reacts of the engine interleave: a turn's
\* spans are those recorded between it and the next turn, and its acts and tools are
\* its own (types.py 114-118).  Whose they are is another matter: the engine passes the
\* current turn of all its reacts (engine.py 772, 802, 862, 918), and what the react of
\* an older turn still records hangs under the newer one.
SpanTree == saving => \A i \in DOMAIN spans : WellPlaced(i)

\* A saved run is over: it has a final status, its loop is closed, and the
\* only spans still open are turns and the finalize span around the save.
SavedRunIsOver ==
  saving => /\ status \in Statuses
            /\ \A i \in DOMAIN spans : spans[i].open => spans[i].kind \in {"turn", "finalize"}

Writing == \E r \in Runs : writer[r].pc = "writing"

\* A run that was written can be found until the size limit drops it, unless a later
\* fault may have cost it: a failed read or write (jsonl_store.py 204-208, 232-235), a
\* write that a crash interrupted, two threads that wrote at once, a file renamed while
\* it was written.  What is begun after the last of these is safe again.
NothingVanishes ==
  ~Writing => \A i \in DOMAIN written : written[i] > disturbed => written[i] \in Found \cup cut

\* Of the runs that no fault has touched the file holds the newest, in the order they
\* were begun, behind what else it has.  Only older ones are dropped (jsonl_store.py
\* 24), but by a newest one that is as long as the limit, and drops itself with them.
FileHoldsNewest ==
  ~Writing =>
    /\ \A i, j \in DOMAIN written :
         disturbed < written[i] /\ written[i] < written[j] /\ written[i] \in Found
           => written[j] \in Found
    /\ \A i, j \in DOMAIN file.lines :
         i < j /\ disturbed < file.lines[i] => file.lines[i] < file.lines[j]
    /\ \A i \in DOMAIN written :
         disturbed < written[i] /\ (\A j \in DOMAIN written : written[j] <= written[i])
           => written[i] \in Found \/ size[written[i]] >= MaxFileBytes
=============================================================================
