-------------------------- MODULE ModuleCallProofs --------------------------
(***************************************************************************)
(* Proofs about ModuleCall for every module and any number of lines in the *)
(* queue: a job that succeeds has run its tool, and answers for that.      *)
(***************************************************************************)
EXTENDS ModuleCall, SequenceTheorems, TLAPS

-----------------------------------------------------------------------------
(* The inductive invariant.                                                *)

Before == {"starting", "initialize", "initializing", "call"}
After == {"closing", "writing", "exiting", "exited"}

\* The call is sent once, after the initialization.
Asked == inbox \in {<<>>, <<"call">>, <<"initialize">>, <<"initialize", "call">>}

CallAsked == inbox \in {<<"call">>, <<"initialize", "call">>}

\* A tool has become something once, and then it is not asked any more.
RanOnce ==
    /\ pc \in Before => ~CallAsked /\ ran = "no"
    /\ CallAsked /\ ran # "no" => adapter = "dead"
    /\ pc \in {"starting", "initialize"} => inbox = <<>>
    /\ adapter = "busy" => inbox # <<>>

IsResult(line) == line.id = "call" /\ line.kind = "result"

\* Answers in the queue, and the one that was taken, are those of a call that was done.
ResultsAreTrue ==
    /\ \A i \in 1..Len(lines) : IsResult(lines[i]) => ran = "done"
    /\ result = "result" => ran = "done"

Ended ==
    /\ pc \in After <=> result # "none"
    /\ pc \in After \ {"closing"} => adapter \in {"none", "dead"}
    /\ pc = "starting" => adapter = "none"
    /\ code = "0" => result = "result"

IInv == TypeOK /\ Asked /\ RanOnce /\ ResultsAreTrue /\ Ended

-----------------------------------------------------------------------------
(* The adapters.                                                           *)

\* Whatever the module, an adapter says `result` to a call only if the tool came back.
LEMMA AdaptersTellTruth ==
    ASSUME TypeOK, NEW id \in {"initialize", "call"}, NEW o \in Outcomes(id)
    PROVE  /\ AnswerOf(id, o) \in Lines
           /\ AnswerOf(id, o).id = id
           /\ IsResult(AnswerOf(id, o)) => id = "call" /\ o # "raised"
<1>1. PICK kind \in Kinds :
          /\ AnswerOf(id, o) = Answer(id, kind)
          /\ o = "raised" => kind # "result"
  <2>1. module \in {"compute", "process", "browser", "store", "ocr", "render", "text", "corpus"}
    BY DEF TypeOK, Modules, Brokered
  <2> QED
    BY <2>1 DEF AnswerOf, ComputeAnswer, ProcessAnswer, BrowserAnswer, StoreAnswer, OcrAnswer,
                RenderAnswer, TextAnswer, CorpusAnswer, Kinds
<1>2. Answer(id, kind) \in Lines
  BY <1>1 DEF Lines
<1> QED
  BY <1>1, <1>2 DEF Answer, IsResult

LEMMA EmitKeeps ==
    ASSUME TypeOK, ResultsAreTrue, NEW line \in Lines, Emit(line),
           IsResult(line) => ran' = "done", ran = "done" => ran' = "done", UNCHANGED result
    PROVE  lines' \in Seq(Lines) /\ ResultsAreTrue'
<1>1. lines' = Append(lines, line) /\ lines \in Seq(Lines)
  BY DEF Emit, TypeOK
<1>2. lines' \in Seq(Lines) /\ Len(lines') = Len(lines) + 1 /\ Len(lines) \in Nat
      /\ \A i \in 1..Len(lines') : lines'[i] = IF i <= Len(lines) THEN lines[i] ELSE line
  BY <1>1
<1>3. \A i \in 1..Len(lines') : IsResult(lines'[i]) => ran' = "done"
  BY <1>2 DEF ResultsAreTrue
<1> QED
  BY <1>2, <1>3 DEF ResultsAreTrue

\* The queue loses its head.
LEMMA TailKeeps ==
    ASSUME TypeOK, ResultsAreTrue, lines # <<>>, lines' = Tail(lines), UNCHANGED ran
    PROVE  /\ Head(lines) \in Lines
           /\ lines' \in Seq(Lines)
           /\ \A i \in 1..Len(lines') : IsResult(lines'[i]) => ran' = "done"
           /\ IsResult(Head(lines)) => ran = "done"
<1>1. lines \in Seq(Lines) /\ Len(lines) \in Nat \ {0} /\ Head(lines) = lines[1]
  BY DEF TypeOK
<1>2. /\ lines' \in Seq(Lines) /\ Len(lines') = Len(lines) - 1
      /\ \A i \in 1..Len(lines') : lines'[i] = lines[i + 1]
  BY <1>1
<1>3. \A i \in 1..Len(lines') : IsResult(lines'[i]) => ran' = "done"
  BY <1>1, <1>2 DEF ResultsAreTrue
<1> QED
  BY <1>1, <1>2, <1>3 DEF ResultsAreTrue

LEMMA OtherLines == \A kind \in {"noise", "overflow", "eof"} :
                        Answer("none", kind) \in Lines /\ ~IsResult(Answer("none", kind))
BY DEF Lines, Answer, IsResult

LEMMA Inboxes ==
    /\ <<>> # <<"call">> /\ <<>> # <<"initialize">> /\ <<>> # <<"initialize", "call">>
    /\ <<"call">> # <<"initialize">> /\ <<"call">> # <<"initialize", "call">>
    /\ <<"initialize">> # <<"initialize", "call">>
    /\ Head(<<"call">>) = "call" /\ Head(<<"initialize">>) = "initialize"
    /\ Head(<<"initialize", "call">>) = "initialize"
    /\ Tail(<<"call">>) = <<>> /\ Tail(<<"initialize">>) = <<>>
    /\ Tail(<<"initialize", "call">>) = <<"call">>
    /\ Append(<<>>, "initialize") = <<"initialize">> /\ Append(<<>>, "call") = <<"call">>
    /\ Append(<<"initialize">>, "call") = <<"initialize", "call">>
    /\ \A s \in {<<>>, <<"call">>, <<"initialize">>, <<"initialize", "call">>} :
           s \in Seq({"initialize", "call"})
<1>1. <<>> # <<"call">> /\ <<>> # <<"initialize">> /\ <<>> # <<"initialize", "call">>
  OBVIOUS
<1>2. <<"call">> # <<"initialize">> /\ <<"call">> # <<"initialize", "call">>
  OBVIOUS
<1>3. <<"initialize">> # <<"initialize", "call">>
  OBVIOUS
<1>4. Head(<<"call">>) = "call" /\ Head(<<"initialize">>) = "initialize"
      /\ Head(<<"initialize", "call">>) = "initialize"
  OBVIOUS
<1>5. Tail(<<"call">>) = <<>> /\ Tail(<<"initialize">>) = <<>>
  OBVIOUS
<1>6. Tail(<<"initialize", "call">>) = <<"call">>
  OBVIOUS
<1>7. Append(<<>>, "initialize") = <<"initialize">> /\ Append(<<>>, "call") = <<"call">>
  OBVIOUS
<1>8. Append(<<"initialize">>, "call") = <<"initialize", "call">>
  <2> DEFINE S == {"initialize", "call"}
             a == Append(<<"initialize">>, "call")
             b == <<"initialize", "call">>
  <2>1. a \in Seq(S) /\ Len(a) = 2 /\ a[1] = "initialize" /\ a[2] = "call"
    <3>1. <<"initialize">> \in Seq(S) /\ Len(<<"initialize">>) = 1
      OBVIOUS
    <3> QED
      BY <3>1, AppendProperties
  <2>2. b \in Seq(S) /\ Len(b) = 2 /\ b[1] = "initialize" /\ b[2] = "call"
    OBVIOUS
  <2>3. \A i \in 1..Len(a) : a[i] = b[i]
    BY <2>1, <2>2
  <2> HIDE DEF a, b, S
  <2>4. a = b
    BY <2>1, <2>2, <2>3, SeqEqual
  <2> QED
    BY <2>4 DEF a, b
<1>9. \A s \in {<<>>, <<"call">>, <<"initialize">>, <<"initialize", "call">>} :
           s \in Seq({"initialize", "call"})
  <2>1. <<>> \in Seq({"initialize", "call"}) /\ <<"call">> \in Seq({"initialize", "call"})
    OBVIOUS
  <2>2. <<"initialize">> \in Seq({"initialize", "call"})
    OBVIOUS
  <2>3. <<"initialize", "call">> \in Seq({"initialize", "call"})
    OBVIOUS
  <2> QED
    BY <2>1, <2>2, <2>3
<1> QED
  BY <1>1, <1>2, <1>3, <1>4, <1>5, <1>6, <1>7, <1>8, <1>9

-----------------------------------------------------------------------------
(* The steps.                                                              *)

LEMMA AnswersKeep ==
    ASSUME IInv, AdapterAnswers
    PROVE  IInv'
<1>1. inbox # <<>> /\ adapter = "busy" /\ adapter' = "idle" /\ inbox' = Tail(inbox)
      /\ UNCHANGED <<module, pc, result, code>>
  BY DEF AdapterAnswers, IInv, RanOnce, Wrapper
<1>2. inbox \in {<<"call">>, <<"initialize">>, <<"initialize", "call">>}
  BY <1>1 DEF IInv, Asked
<1>3. PICK id \in {"initialize", "call"} : id = Head(inbox)
  BY <1>2, Inboxes
<1>4. PICK o \in Outcomes(id) :
          /\ Emit(AnswerOf(id, o))
          /\ ran' = IF id = "call" THEN (IF o = "raised" THEN "failed" ELSE "done") ELSE ran
  BY <1>3 DEF AdapterAnswers
<1>5. id = "call" <=> inbox = <<"call">>
  BY <1>2, <1>3, Inboxes
<1>6. id = "call" => ran = "no" /\ pc \notin Before
  BY <1>1, <1>5 DEF IInv, RanOnce, CallAsked
<1>7. lines' \in Seq(Lines) /\ ResultsAreTrue'
  <2>1. AnswerOf(id, o) \in Lines /\ (IsResult(AnswerOf(id, o)) => ran' = "done")
    BY <1>4, AdaptersTellTruth DEF IInv
  <2>2. ran = "done" => ran' = "done"
    BY <1>4, <1>6
  <2> QED
    BY <1>1, <1>4, <2>1, <2>2, EmitKeeps DEF IInv
<1>8. inbox' \in {<<>>, <<"call">>} /\ (CallAsked' <=> inbox = <<"initialize", "call">>)
  BY <1>1, <1>2, Inboxes DEF CallAsked
<1>9. RanOnce'
  <2>1. CallAsked' => CallAsked /\ ran' = ran /\ id # "call"
    BY <1>4, <1>5, <1>8, Inboxes DEF CallAsked
  <2>2. pc \in Before => ran' = "no"
    BY <1>4, <1>6 DEF IInv, RanOnce
  <2>3. pc \notin {"starting", "initialize"}
    BY <1>1 DEF IInv, RanOnce
  <2> QED
    BY <1>1, <2>1, <2>2, <2>3 DEF IInv, RanOnce
<1>10. TypeOK'
  <2>1. inbox' \in Seq({"initialize", "call"})
    BY <1>8, Inboxes
  <2>2. ran' \in {"no", "done", "failed"}
    BY <1>4 DEF IInv, TypeOK
  <2> QED
    BY <1>1, <1>7, <2>1, <2>2 DEF IInv, TypeOK
<1>11. Asked' /\ Ended'
  BY <1>1, <1>8 DEF IInv, Asked, Ended
<1> QED
  BY <1>7, <1>9, <1>10, <1>11 DEF IInv

LEMMA AdapterKeeps ==
    ASSUME IInv,
           AdapterReads \/ AdapterNoise \/ AdapterFloods \/ AdapterHangs \/ AdapterDies
    PROVE  IInv'
<1>1. CASE AdapterReads \/ AdapterHangs
  <2>1. /\ UNCHANGED <<module, inbox, lines, ran, pc, result, code>>
        /\ adapter \in {"idle", "busy"} /\ adapter' \in {"busy", "stuck"}
        /\ adapter' = "busy" => inbox # <<>>
    BY <1>1 DEF AdapterReads, AdapterHangs, Wrapper
  <2> QED
    BY <2>1 DEF IInv, TypeOK, Asked, CallAsked, RanOnce, ResultsAreTrue, Ended
<1>2. CASE AdapterNoise \/ AdapterFloods
  <2>1. /\ UNCHANGED <<module, inbox, ran, pc, result, code>>
        /\ adapter = "busy" /\ adapter' \in {"busy", "stuck"}
        /\ \E line \in Lines : ~IsResult(line) /\ Emit(line)
    BY <1>2, OtherLines DEF AdapterNoise, AdapterFloods, Wrapper
  <2>2. lines' \in Seq(Lines) /\ ResultsAreTrue'
    BY <2>1, EmitKeeps DEF IInv
  <2> QED
    BY <2>1, <2>2 DEF IInv, TypeOK, Asked, CallAsked, RanOnce, Ended
<1>3. CASE AdapterDies
  <2>1. /\ UNCHANGED <<module, inbox, pc, result, code>>
        /\ adapter \in {"idle", "busy", "stuck"} /\ adapter' = "dead"
        /\ Emit(Answer("none", "eof"))
    BY <1>3 DEF AdapterDies, Wrapper
  <2>2. /\ ran' \in {"no", "done", "failed"} /\ (ran = "done" => ran' = "done")
        /\ pc \in Before => ran' = "no"
    <3>1. CASE ran' = ran
      BY <3>1 DEF IInv, TypeOK, RanOnce
    <3>2. CASE /\ inbox # <<>> /\ Head(inbox) = "call" /\ ran = "no"
               /\ ran' \in {"no", "done"}
      <4>1. CallAsked
        BY <3>2, Inboxes DEF IInv, Asked, CallAsked
      <4> QED
        BY <3>2, <4>1 DEF IInv, RanOnce
    <3> QED
      BY <1>3, <3>1, <3>2 DEF AdapterDies
  <2>3. lines' \in Seq(Lines) /\ ResultsAreTrue'
    BY <2>1, <2>2, EmitKeeps, OtherLines DEF IInv
  <2> QED
    BY <2>1, <2>2, <2>3 DEF IInv, TypeOK, Asked, CallAsked, RanOnce, Ended
<1> QED
  BY <1>1, <1>2, <1>3

LEMMA SendKeeps ==
    ASSUME IInv, Start \/ SendInitialize \/ SendCall
    PROVE  IInv'
<1>1. CASE Start
  <2>1. pc = "starting" /\ adapter = "none" /\ inbox = <<>> /\ ~CallAsked /\ ran = "no"
        /\ UNCHANGED <<module, inbox, lines, ran, code>>
    BY <1>1 DEF Start, IInv, Ended, RanOnce, Before
  <2>2. \/ pc' = "initialize" /\ adapter' = "idle" /\ result' = result
        \/ pc' = "writing" /\ result' = "toolError" /\ adapter' = "none"
    BY <1>1, <2>1 DEF Start
  <2>3. TypeOK' /\ Asked' /\ ResultsAreTrue'
    BY <2>1, <2>2 DEF IInv, TypeOK, Pcs, Outcome, Asked, ResultsAreTrue
  <2>4. RanOnce'
    BY <2>1, <2>2 DEF IInv, RanOnce, CallAsked, Before
  <2>5. Ended'
    BY <2>1, <2>2 DEF IInv, Ended, After
  <2> QED
    BY <2>3, <2>4, <2>5 DEF IInv
<1>2. CASE (SendInitialize \/ SendCall) /\ adapter = "dead"
  <2>1. /\ pc \in {"initialize", "call"} /\ pc' = "closing" /\ result' = "toolError"
        /\ UNCHANGED <<module, adapter, inbox, lines, ran, code>>
    BY <1>2 DEF SendInitialize, SendCall, Send, Fails
  <2>2. TypeOK' /\ Asked' /\ ResultsAreTrue'
    BY <2>1 DEF IInv, TypeOK, Pcs, Outcome, Asked, ResultsAreTrue
  <2>3. RanOnce' /\ Ended'
    BY <1>2, <2>1 DEF IInv, RanOnce, CallAsked, Before, After, Ended
  <2> QED
    BY <2>2, <2>3 DEF IInv
<1>3. CASE SendInitialize /\ adapter # "dead"
  <2>1. /\ pc = "initialize" /\ pc' = "initializing" /\ inbox = <<>> /\ inbox' = <<"initialize">>
        /\ UNCHANGED <<module, adapter, lines, ran, result, code>>
    BY <1>3, Inboxes DEF SendInitialize, Send, IInv, RanOnce
  <2>2. TypeOK' /\ Asked' /\ ResultsAreTrue'
    BY <2>1, Inboxes DEF IInv, TypeOK, Pcs, Asked, ResultsAreTrue
  <2>3. RanOnce' /\ Ended'
    BY <2>1, Inboxes DEF IInv, RanOnce, CallAsked, Before, After, Ended
  <2> QED
    BY <2>2, <2>3 DEF IInv
<1>4. CASE SendCall /\ adapter # "dead"
  <2>1. /\ pc = "call" /\ pc' = "calling" /\ ran = "no" /\ inbox' = Append(inbox, "call")
        /\ inbox \in {<<>>, <<"initialize">>}
        /\ UNCHANGED <<module, adapter, lines, ran, result, code>>
    BY <1>4 DEF SendCall, Send, IInv, RanOnce, Before, Asked, CallAsked
  <2>2. inbox' \in {<<"call">>, <<"initialize", "call">>}
    BY <2>1, Inboxes
  <2>3. TypeOK' /\ Asked' /\ ResultsAreTrue'
    BY <2>1, <2>2, Inboxes DEF IInv, TypeOK, Pcs, Asked, ResultsAreTrue
  <2>4. RanOnce' /\ Ended'
    BY <2>1, <2>2, Inboxes DEF IInv, RanOnce, CallAsked, Before, After, Ended
  <2> QED
    BY <2>3, <2>4 DEF IInv
<1> QED
  BY <1>1, <1>2, <1>3, <1>4

LEMMA ReceiveKeeps ==
    ASSUME IInv, Skip \/ Broken \/ Initialized \/ Answered \/ Timeout
    PROVE  IInv'
<1>1. /\ UNCHANGED <<module, adapter, inbox, ran, code>> /\ pc \in {"initializing", "calling"}
  BY DEF Skip, Broken, Initialized, Answered, Timeout, Wrapper
<1>2. /\ lines' \in Seq(Lines)
      /\ \A i \in 1..Len(lines') : IsResult(lines'[i]) => ran' = "done"
  <2>1. CASE lines # <<>> /\ lines' = Tail(lines)
    BY <1>1, <2>1, TailKeeps DEF IInv
  <2>2. CASE lines' = lines
    BY <1>1, <2>2 DEF IInv, TypeOK, ResultsAreTrue
  <2> QED
    BY <2>1, <2>2 DEF Skip, Broken, Initialized, Answered, Timeout
<1>3. CASE Answered
  <2>1. /\ pc' = "closing" /\ result' \in {"result", "toolError"}
        /\ result' = "result" => ran = "done"
    <3>1. lines # <<>> /\ Head(lines).id = "call" /\ lines' = Tail(lines)
      BY <1>3 DEF Answered
    <3>2. IsResult(Head(lines)) => ran = "done"
      BY <1>1, <3>1, TailKeeps DEF IInv
    <3> QED
      BY <1>3, <3>1, <3>2 DEF Answered, IsResult
  <2> QED
    BY <1>1, <1>2, <2>1 DEF IInv, TypeOK, Pcs, Outcome, Asked, CallAsked, RanOnce, ResultsAreTrue,
                            Ended, Before, After
<1>4. CASE Fails
  BY <1>1, <1>2, <1>4 DEF Fails, IInv, TypeOK, Pcs, Outcome, Asked, CallAsked, RanOnce,
                          ResultsAreTrue, Ended, Before, After
<1>5. CASE result' = result /\ pc' \in {pc, "call"} /\ (pc' = "call" => pc = "initializing")
  BY <1>1, <1>2, <1>5 DEF IInv, TypeOK, Pcs, Outcome, Asked, CallAsked, RanOnce,
                          ResultsAreTrue, Ended, Before, After
<1> QED
  BY <1>1, <1>3, <1>4, <1>5 DEF Skip, Broken, Initialized, Timeout, Wrapper

LEMMA CloseKeeps ==
    ASSUME IInv, Close \/ WriteResult \/ Exit
    PROVE  IInv'
<1>1. CASE Close
  <2>1. /\ pc = "closing" /\ pc' = "writing" /\ adapter' = "dead"
        /\ UNCHANGED <<module, inbox, lines, result, code>>
        /\ ran' \in {"no", "done", "failed"} /\ (ran = "done" => ran' = "done")
    BY <1>1 DEF Close, IInv, TypeOK
  <2>2. TypeOK' /\ Asked' /\ ResultsAreTrue'
    BY <2>1 DEF IInv, TypeOK, Pcs, Asked, ResultsAreTrue
  <2>3. RanOnce' /\ Ended'
    BY <2>1 DEF IInv, RanOnce, Before, After, Ended
  <2> QED
    BY <2>2, <2>3 DEF IInv
<1>2. CASE WriteResult \/ Exit
  <2>1. /\ pc \in {"writing", "exiting"} /\ pc' \in {"exiting", "exited"}
        /\ code' \in {code, "0", "3"} /\ (code' # code => (code' = "0" => result = "result"))
        /\ UNCHANGED <<module, adapter, inbox, lines, ran, result>>
    BY <1>2 DEF WriteResult, Exit, Adapter
  <2>2. TypeOK' /\ Asked' /\ ResultsAreTrue'
    BY <2>1 DEF IInv, TypeOK, Pcs, Asked, ResultsAreTrue
  <2>3. RanOnce' /\ Ended'
    BY <2>1 DEF IInv, RanOnce, CallAsked, Before, After, Ended
  <2> QED
    BY <2>2, <2>3 DEF IInv
<1> QED
  BY <1>1, <1>2

-----------------------------------------------------------------------------
(* The theorems.                                                           *)

LEMMA InitInv == Init => IInv
<1> SUFFICES ASSUME Init
             PROVE  IInv
  OBVIOUS
<1>1. TypeOK
  <2>1. inbox \in Seq({"initialize", "call"}) /\ lines \in Seq(Lines)
    BY DEF Init
  <2> QED
    BY <2>1 DEF Init, TypeOK, Pcs, Outcome
<1>2. Asked /\ RanOnce
  BY Inboxes DEF Init, Asked, RanOnce, CallAsked
<1>3. ResultsAreTrue /\ Ended
  BY DEF Init, ResultsAreTrue, Ended, After
<1> QED
  BY <1>1, <1>2, <1>3 DEF IInv

LEMMA NextInv == IInv /\ [Next]_vars => IInv'
<1> SUFFICES ASSUME IInv, [Next]_vars
             PROVE  IInv'
  OBVIOUS
<1>1. CASE Next
  BY <1>1, AnswersKeep, AdapterKeeps, SendKeeps, ReceiveKeeps, CloseKeeps DEF Next, Wrap
<1>2. CASE UNCHANGED vars
  BY <1>2 DEF vars, IInv, TypeOK, Asked, CallAsked, RanOnce, ResultsAreTrue, Ended
<1> QED
  BY <1>1, <1>2

\* For every module and any number of waiting lines: the call is sent once, and whatever
\* says `result` for it speaks of a tool that came back.
THEOREM Invariance == Spec => []IInv
BY InitInv, NextInv, PTL DEF Spec

\* What the exit code tells the job runner is true, and no adapter outlives its wrapper.
THEOREM ResultsAreTrueAlways == Spec => []ResultIsTrue
<1>1. IInv => ResultIsTrue
  BY DEF IInv, ResultsAreTrue, Ended, After, ResultIsTrue
<1> QED
  BY <1>1, Invariance, PTL
=============================================================================
