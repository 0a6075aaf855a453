----------------------------- MODULE ModuleCall -----------------------------
(***************************************************************************)
(* A background module call on its node: jobs/module-call.py, the command  *)
(* of a durable job, talks MCP over pipes to a module's adapter            *)
(* (server.py), which answers by itself or asks a broker.  The adapters'   *)
(* answers are those of the eight modules; what a tool does is left open.  *)
(*                                                                         *)
(* The wrapper is sequential; the adapter, its reader thread (the queue    *)
(* `lines`) and the deadlines are not in step with it.                     *)
(***************************************************************************)
EXTENDS Naturals, Sequences

CONSTANT MaxLines   \* bound on the lines waiting in the queue

VARIABLES
    module,    \* whose adapter it is
    pc,        \* where the wrapper is
    adapter,   \* the adapter process: none, idle, busy, stuck, dead
    inbox,     \* requests in the adapter's stdin, in order
    lines,     \* what the reader thread put into the queue
    ran,       \* what became of the tool call on the node (history)
    result,    \* result.json
    code       \* exit code of the wrapper

vars == <<module, pc, adapter, inbox, lines, ran, result, code>>

\* python-compute, image-render, image-processing, browser-retrieval and
\* artifact-storage have brokers, which are pinged by initialize.
Brokered == {"compute", "render", "process", "browser", "store"}
Modules == Brokered \cup {"text", "corpus", "ocr"}

Pcs == {"starting", "initialize", "initializing", "call", "calling", "closing",
        "writing", "exiting", "exited"}

\* A line: the answer to request `id`, or what else the reader may find.
Answer(id, kind) == [id |-> id, kind |-> kind]
Kinds == {"result", "toolError", "rpcError"}
Lines == {Answer(i, k) : i \in {"initialize", "call"}, k \in Kinds}
         \cup {Answer("none", k) : k \in {"noise", "overflow", "eof"}}

Outcome == {"none", "result", "toolError"}

TypeOK ==
    /\ module \in Modules
    /\ pc \in Pcs
    /\ adapter \in {"none", "idle", "busy", "stuck", "dead"}
    /\ inbox \in Seq({"initialize", "call"})
    /\ lines \in Seq(Lines)
    /\ ran \in {"no", "done", "failed"}
    /\ result \in Outcome
    /\ code \in {"none", "0", "3"}

Init ==
    /\ module \in Modules
    /\ pc = "starting" /\ adapter = "none"
    /\ inbox = <<>> /\ lines = <<>>
    /\ ran = "no" /\ result = "none" /\ code = "none"

-----------------------------------------------------------------------------
(* The adapters.                                                           *)

\* What handling a request comes to.  bad: a run or a render that did not complete, which
\* is a result of the tool.  raised: an exception; broker_call() raises when it gets no
\* reply, an invalid one or one that says `ok: false`.
Outcomes(id) ==
    {"good"} \cup (IF id = "call" \/ module \in Brokered THEN {"raised"} ELSE {})
             \cup (IF id = "call" /\ module \in {"compute", "render"} THEN {"bad"} ELSE {})

\* Only tools/call reports a failure as tool content; a bad run is content like any other.
ComputeAnswer(id, o) ==
    Answer(id, IF o # "raised" THEN "result" ELSE IF id = "call" THEN "toolError" ELSE "rpcError")

ProcessAnswer(id, o) == ComputeAnswer(id, o)
BrowserAnswer(id, o) == ComputeAnswer(id, o)
StoreAnswer(id, o)   == ComputeAnswer(id, o)
OcrAnswer(id, o)     == ComputeAnswer(id, o)

\* image-render marks a result whose own `ok` is false.
RenderAnswer(id, o) == IF o = "bad" THEN Answer(id, "toolError") ELSE ComputeAnswer(id, o)

TextAnswer_NoFlag(id, o) == Answer(id, "result")
\* text-tools and corpus-search report every failure as tool content, whatever failed.
TextAnswer(id, o)   == Answer(id, IF o = "raised" THEN "toolError" ELSE "result")
CorpusAnswer(id, o) == TextAnswer(id, o)

AnswerOf(id, o) ==
    CASE module = "compute" -> ComputeAnswer(id, o) [] module = "process" -> ProcessAnswer(id, o)
      [] module = "browser" -> BrowserAnswer(id, o) [] module = "store" -> StoreAnswer(id, o)
      [] module = "ocr" -> OcrAnswer(id, o)         [] module = "render" -> RenderAnswer(id, o)
      [] module = "text" -> TextAnswer(id, o)       [] module = "corpus" -> CorpusAnswer(id, o)

Adapter == <<adapter, inbox, lines, ran>>
Wrapper == <<pc, result, code>>

Emit(line) == Len(lines) < MaxLines /\ lines' = Append(lines, line)

\* for line in sys.stdin
AdapterReads ==
    /\ adapter = "idle" /\ inbox # <<>>
    /\ adapter' = "busy"
    /\ UNCHANGED <<module, inbox, lines, ran, Wrapper>>

\* The request in hand is answered.
AdapterAnswers ==
    /\ adapter = "busy"
    /\ LET id == Head(inbox) IN
       \E o \in Outcomes(id) :
           /\ Emit(AnswerOf(id, o))
           /\ ran' = IF id = "call" THEN (IF o = "raised" THEN "failed" ELSE "done") ELSE ran
    /\ inbox' = Tail(inbox)
    /\ adapter' = "idle"
    /\ UNCHANGED <<module, Wrapper>>

\* Something that is no answer on its stdout.
AdapterNoise ==
    /\ adapter = "busy"
    /\ Emit(Answer("none", "noise"))
    /\ UNCHANGED <<module, adapter, inbox, ran, Wrapper>>

\* It writes more than maxOutputBytes: the reader thread gives up on the pipe, and the
\* adapter blocks on it.
AdapterFloods ==
    /\ adapter = "busy"
    /\ Emit(Answer("none", "overflow"))
    /\ adapter' = "stuck"
    /\ UNCHANGED <<module, inbox, ran, Wrapper>>

\* A tool that does not return.
AdapterHangs ==
    /\ adapter = "busy"
    /\ adapter' = "stuck"
    /\ UNCHANGED <<module, inbox, lines, ran, Wrapper>>

\* It dies; the tool may or may not have done its work.
AdapterDies ==
    /\ adapter \in {"idle", "busy", "stuck"} /\ pc # "closing"
    /\ adapter' = "dead"
    /\ Emit(Answer("none", "eof"))
    /\ ran' \in IF adapter # "idle" /\ inbox # <<>> /\ Head(inbox) = "call" /\ ran = "no"
                THEN {"no", "done"} ELSE {ran}
    /\ UNCHANGED <<module, inbox, Wrapper>>

-----------------------------------------------------------------------------
(* The wrapper.                                                            *)

Fails == pc' = "closing" /\ result' = "toolError"

\* Popen of the entrypoint.
Start ==
    /\ pc = "starting"
    /\ \/ pc' = "initialize" /\ adapter' = "idle" /\ UNCHANGED result
       \/ pc' = "writing" /\ result' = "toolError" /\ UNCHANGED adapter
    /\ UNCHANGED <<module, inbox, lines, ran, code>>

\* send(): a dead adapter's pipe is broken.
Send(id, from, to) ==
    /\ pc = from
    /\ IF adapter = "dead" THEN Fails /\ UNCHANGED inbox
       ELSE pc' = to /\ inbox' = Append(inbox, id) /\ UNCHANGED result
    /\ UNCHANGED <<module, adapter, lines, ran, code>>

SendInitialize == Send("initialize", "initialize", "initializing")
SendCall == Send("call", "call", "calling")

\* response(): lines that answer another request are skipped.
Skip ==
    /\ pc \in {"initializing", "calling"} /\ lines # <<>>
    /\ \/ Head(lines).kind = "noise"
       \/ Head(lines).kind \in Kinds
          /\ Head(lines).id # (IF pc = "calling" THEN "call" ELSE "initialize")
    /\ lines' = Tail(lines)
    /\ UNCHANGED <<module, adapter, inbox, ran, Wrapper>>

\* response(): end of file and overflow are exceptions.
Broken ==
    /\ pc \in {"initializing", "calling"} /\ lines # <<>>
    /\ Head(lines).kind \in {"eof", "overflow"}
    /\ lines' = Tail(lines) /\ Fails
    /\ UNCHANGED <<module, adapter, inbox, ran, code>>

\* Only an `error` member fails the initialization.
Initialized ==
    /\ pc = "initializing" /\ lines # <<>> /\ Head(lines).id = "initialize"
    /\ lines' = Tail(lines)
    /\ IF Head(lines).kind = "rpcError" THEN Fails ELSE pc' = "call" /\ UNCHANGED result
    /\ UNCHANGED <<module, adapter, inbox, ran, code>>

Answered ==
    /\ pc = "calling" /\ lines # <<>> /\ Head(lines).id = "call"
    /\ lines' = Tail(lines)
    /\ result' = IF Head(lines).kind = "result" THEN "result" ELSE "toolError"
    /\ pc' = "closing"
    /\ UNCHANGED <<module, adapter, inbox, ran, code>>

Timeout_OfStartOnly ==
    /\ pc = "initializing"
    /\ Fails
    /\ UNCHANGED <<module, adapter, inbox, lines, ran, code>>
\* response(): startupMs or callMs have passed, whatever was read meanwhile.
Timeout ==
    /\ pc \in {"initializing", "calling"}
    /\ Fails
    /\ UNCHANGED <<module, adapter, inbox, lines, ran, code>>

\* close(): an adapter that reads sees the end of its stdin and exits; after five seconds
\* any other is killed.  A call it was busy with may have been done by then.
Close ==
    /\ pc = "closing"
    /\ adapter' = "dead"
    /\ pc' = "writing"
    /\ ran' \in IF adapter = "busy" /\ Head(inbox) = "call" /\ ran = "no"
                THEN {"no", "done", "failed"} ELSE {ran}
    /\ UNCHANGED <<module, inbox, lines, result, code>>

\* write_result(), after which the exit code tells the runner how the job ended.
WriteResult ==
    /\ pc = "writing"
    /\ pc' = "exiting"
    /\ UNCHANGED <<module, Adapter, result, code>>

Exit ==
    /\ pc = "exiting"
    /\ code' = IF result = "result" THEN "0" ELSE "3"
    /\ pc' = "exited"
    /\ UNCHANGED <<module, Adapter, result>>

Wrap ==
    \/ Start \/ SendInitialize \/ SendCall \/ Skip \/ Broken \/ Initialized \/ Answered
    \/ Timeout \/ Close \/ WriteResult \/ Exit

Next ==
    \/ Wrap
    \/ AdapterReads \/ AdapterAnswers \/ AdapterNoise \/ AdapterFloods
    \/ AdapterHangs \/ AdapterDies

Spec == Init /\ [][Next]_vars

\* The wrapper runs and its deadlines pass; nothing is assumed of the adapter.
Fairness == WF_vars(Wrap) /\ WF_vars(Timeout)

FairSpec == Spec /\ Fairness

-----------------------------------------------------------------------------
(* Properties.                                                             *)

\* A job that exits with 0 has run its tool to the end and holds that answer, not the one
\* to the initialization; and no adapter outlives its wrapper.
ResultIsTrue ==
    /\ code = "0" => ran = "done"
    /\ pc = "exited" => adapter \in {"none", "dead"} /\ result # "none"

\* Whatever the adapter does (hang, die, flood, answer late), the job ends with a result.
CallSettles == <>(pc = "exited")
=============================================================================
