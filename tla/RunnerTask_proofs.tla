------------------------- MODULE RunnerTask_proofs -------------------------
(***************************************************************************)
(* What a task's row may say when the pump has finished, for channels of   *)
(* any capacity and any amount of output.                                  *)
(***************************************************************************)
EXTENDS RunnerTask, SequenceTheorems, TLAPS

Finalized == {"complete", "save", "publish", "end"}

\* Deliver has saved the row before there is a pump, and the row is completed
\* by the pump's completer only.
Order ==
    /\ deliver \in {"new", "saved"} => pump = "none"
    /\ deliver = "new" => row = "none" /\ cancel = "idle"
    /\ pump \in Finalized <=> why # "none"
    /\ row = "COMPLETED" => pump \in {"publish", "end"}

\* What the completer is about to save, and what it has saved: the response as
\* it was when the pump decided that the task is over.
Response ==
    /\ why = "silence" => ShowsPrompt(responseSlice)
    /\ row = "COMPLETED" => answer = responseSlice
    /\ ~failed /\ why = "silence" /\ pump \in {"publish", "end"} => row \in Terminal

IInv == TypeOK /\ Order /\ Response

-----------------------------------------------------------------------------
\* responseSlice is a sequence of chunks, no longer than what follows the mark.
LEMMA SliceType ==
    ASSUME TypeOK
    PROVE  /\ responseSlice \in Seq(Chunks)
           /\ offset # -1 => Len(responseSlice) = Len(buf) - offset
<1>1. buf \in Seq(Chunks) /\ Len(buf) \in Nat /\ offset \in -1..Len(buf)
    BY LenProperties DEF TypeOK
<1>2. CASE offset = -1
    BY <1>1, <1>2 DEF responseSlice
<1>3. CASE offset # -1
  <2>1. offset \in 0..Len(buf)
    BY <1>1, <1>3
  <2>2. \A i \in offset+1..Len(buf) : buf[i] \in Chunks
    BY <1>1, <2>1, ElementOfSeq
  <2>3. /\ SubSeq(buf, offset + 1, Len(buf)) \in Seq(Chunks)
        /\ Len(SubSeq(buf, offset + 1, Len(buf))) = Len(buf) - offset
    BY <1>1, <2>1, <2>2
  <2> QED
    BY <1>3, <2>3 DEF responseSlice
<1> QED
    BY <1>2, <1>3

\* A response with a prompt is not empty.
LEMMA PromptIsSomething == ShowsPrompt(responseSlice) => responseSlice # <<>>
BY DEF ShowsPrompt

LEMMA InitIInv == Init => IInv
<1> SUFFICES ASSUME Init PROVE IInv
    OBVIOUS
<1>0. failed \in BOOLEAN /\ marked \in BOOLEAN /\ knocked \in BOOLEAN /\ done \in BOOLEAN
    BY DEF Init
<1>1. TypeOK
  <2>1. /\ row = "none" /\ answer = <<>> /\ buf = <<>> /\ ch = <<>> /\ deliver = "new"
        /\ pump = "none" /\ why = "none" /\ offset = -1 /\ pty = "open" /\ wrote = 0 /\ cancel = "idle"
    BY DEF Init
  <2> QED
    BY <1>0, <2>1, BoundsAssumption DEF TypeOK
<1>2. Order /\ Response
    BY DEF Init, Order, Response, Finalized
<1> QED
    BY <1>1, <1>2 DEF IInv

\* The silence window and the end of the session both go through finalize.
LEMMA FinalizeStep ==
    ASSUME IInv, NEW reason \in {"silence", "exit"}, Finalize(reason), pump = "run",
           reason = "silence" => ShowsPrompt(responseSlice)
    PROVE  IInv'
<1>1. /\ UNCHANGED <<row, answer, failed, deliver, marked, buf, offset, ch, pty, knocked, wrote, done, cancel>>
      /\ why' = reason /\ pump' = IF responseSlice = <<>> THEN "publish" ELSE "complete"
    BY DEF Finalize, taskVars, ptyVars
<1>2. TypeOK'
    BY <1>1 DEF IInv, TypeOK
<1>3. Order'
    BY <1>1 DEF IInv, Order, Finalized
<1>4. responseSlice' = responseSlice
    BY <1>1 DEF responseSlice
<1>5. Response'
    BY <1>1, <1>4, PromptIsSomething DEF IInv, Order, Response, ShowsPrompt
<1> QED
    BY <1>2, <1>3, <1>5 DEF IInv

\* Steps that leave row and pump alone keep the invariant with the types.
LEMMA Aside ==
    ASSUME IInv, TypeOK', UNCHANGED <<row, answer, failed, pump, why, buf, offset>>,
           deliver' \in {"new", "saved"} => deliver' = deliver,
           cancel' = cancel \/ deliver # "new"
    PROVE  IInv'
<1>1. Order'
    BY DEF IInv, Order
<1>2. responseSlice' = responseSlice
    BY DEF responseSlice
<1>3. Response'
    BY <1>2 DEF IInv, Response, ShowsPrompt
<1> QED
    BY <1>1, <1>3 DEF IInv

\* Every step keeps the invariant.
LEMMA IInvStep == IInv /\ [Next]_vars => IInv'
<1> SUFFICES ASSUME IInv, [Next]_vars PROVE IInv'
    OBVIOUS
<1>a. TypeOK /\ Order /\ Response
    BY DEF IInv
<1>1. CASE DeliverSave
  <2>0. failed' \in BOOLEAN
    BY <1>a, <1>1 DEF DeliverSave, StoreError, TypeOK
  <2>1. TypeOK'
    <3>1. /\ UNCHANGED <<answer, marked, pump, why, buf, offset, ch, pty, knocked, wrote, done, cancel>>
          /\ row' \in {row, "WORKING"} /\ deliver' \in {"saved", "error"}
      BY <1>1 DEF DeliverSave, StoreError, pumpVars, ptyVars
    <3> QED
      BY <1>a, <2>0, <3>1 DEF TypeOK
  <2>2. Order'
    BY <1>a, <1>1 DEF DeliverSave, StoreError, Order, pumpVars, Finalized
  <2>3. Response'
    BY <1>a, <1>1, <2>2 DEF DeliverSave, StoreError, Order, Response, pumpVars, Finalized
  <2> QED
    BY <2>1, <2>2, <2>3 DEF IInv
<1>2. CASE DeliverSpawn
  <2>1. TypeOK'
    BY <1>a, <1>2 DEF DeliverSpawn, TypeOK, taskVars, ptyVars
  <2>2. Order'
    BY <1>a, <1>2 DEF DeliverSpawn, Order, Finalized, taskVars
  <2>3. responseSlice' = responseSlice
    BY <1>2 DEF DeliverSpawn, responseSlice
  <2>4. Response'
    BY <1>a, <1>2, <2>3 DEF DeliverSpawn, Order, Response, ShowsPrompt, Finalized, taskVars
  <2> QED
    BY <2>1, <2>2, <2>4 DEF IInv
<1>3. CASE Delivering
  <2>1. TypeOK'
    BY <1>a, <1>3, ZenonT(60)
       DEF Delivering, DeliverWrite, DeliverSubmit, DeliverMark, TypeOK, taskVars, pumpVars, ptyVars
  <2>2. /\ UNCHANGED <<row, answer, failed, pump, why, buf, offset>>
        /\ deliver' \in {"new", "saved"} => deliver' = deliver
        /\ cancel' = cancel
    BY <1>3 DEF Delivering, DeliverWrite, DeliverSubmit, DeliverMark, taskVars, pumpVars
  <2> QED
    BY <2>1, <2>2, Aside
<1>4. ASSUME NEW c \in Chunks, AgentWrites(c) PROVE IInv'
  <2>1. wrote' \in 0..MaxChunks
    BY <1>a, <1>4, BoundsAssumption DEF AgentWrites, TypeOK
  <2>2. ch' \in Seq(Chunks) /\ Len(ch') <= Depth
    BY <1>a, <1>4, BoundsAssumption DEF AgentWrites, TypeOK
  <2>3. UNCHANGED <<row, answer, failed, deliver, marked, pump, why, buf, offset, pty, knocked, done, cancel>>
    BY <1>4 DEF AgentWrites, taskVars, pumpVars
  <2>4. TypeOK'
    BY <1>a, <2>1, <2>2, <2>3 DEF TypeOK
  <2> QED
    BY <2>3, <2>4, Aside
<1>5. CASE SessionEnds
  <2>1. TypeOK'
    BY <1>a, <1>5 DEF SessionEnds, TypeOK, taskVars, pumpVars
  <2> QED
    BY <1>5, <2>1, Aside DEF SessionEnds, taskVars, pumpVars
<1>6. CASE PumpSubscribe
  <2>1. TypeOK'
    BY <1>a, <1>6 DEF PumpSubscribe, TypeOK, taskVars, ptyVars
  <2>2. Order'
    BY <1>a, <1>6 DEF PumpSubscribe, Order, Finalized, taskVars
  <2>3. Response'
    BY <1>a, <1>6, <2>2 DEF PumpSubscribe, Order, Response, Finalized, taskVars
  <2> QED
    BY <2>1, <2>2, <2>3 DEF IInv
<1>7. CASE PumpMark
  <2>1. UNCHANGED <<row, answer, failed, deliver, marked, pump, why, buf, ch, pty, knocked, wrote, done, cancel>>
    BY <1>7 DEF PumpMark, taskVars, ptyVars
  <2>2. TypeOK'
    BY <1>a, <1>7, <2>1, LenProperties DEF PumpMark, TypeOK
  <2>3. Order'
    BY <1>a, <2>1 DEF Order
  <2>4. Response'
    BY <1>a, <1>7, <2>1 DEF PumpMark, Order, Response, Finalized
  <2> QED
    BY <2>2, <2>3, <2>4 DEF IInv
<1>8. CASE PumpChunk
  <2>1. UNCHANGED <<row, answer, failed, deliver, marked, pump, why, offset, pty, knocked, wrote, done, cancel>>
    BY <1>8 DEF PumpChunk, taskVars
  <2>2. Head(ch) \in Chunks /\ Tail(ch) \in Seq(Chunks) /\ Len(Tail(ch)) = Len(ch) - 1
    BY <1>a, <1>8, HeadTailProperties DEF PumpChunk, TypeOK
  <2>3. buf' \in Seq(Chunks) /\ Len(buf') = Len(buf) + 1
    BY <1>a, <1>8, <2>2, AppendProperties DEF PumpChunk, TypeOK
  <2>4. ch' \in Seq(Chunks) /\ Len(ch') <= Depth /\ offset' \in -1..Len(buf')
    BY <1>a, <1>8, <2>1, <2>2, <2>3, LenProperties, BoundsAssumption DEF PumpChunk, TypeOK
  <2>5. TypeOK'
    BY <1>a, <2>1, <2>3, <2>4 DEF TypeOK
  <2>6. Order'
    BY <1>a, <2>1 DEF Order
  <2>7. Response'
    BY <1>a, <1>8, <2>1 DEF PumpChunk, Order, Response, Finalized
  <2> QED
    BY <2>5, <2>6, <2>7 DEF IInv
<1>9. CASE PumpSilence
    BY <1>9, FinalizeStep DEF PumpSilence
<1>10. CASE PumpDone
    BY <1>10, FinalizeStep DEF PumpDone
<1>11. CASE CompleterGet
  <2>1. /\ UNCHANGED <<row, answer, deliver, marked, why, buf, offset, ch, pty, knocked, wrote, done, cancel>>
        /\ pump = "complete"
        /\ \/ pump' = "save" /\ failed' = failed
           \/ pump' = "publish" /\ failed' = TRUE
    BY <1>11 DEF CompleterGet, StoreError, taskVars, ptyVars
  <2>0. failed' \in BOOLEAN
    BY <1>a, <2>1 DEF TypeOK
  <2>01. pump' \in {"save", "publish"} /\ row' \in {row, "COMPLETED"} /\ answer' \in {answer, responseSlice}
    BY <2>1
  <2>2. TypeOK'
    <3>1. UNCHANGED <<row, answer, deliver, marked, why, buf, offset, ch, pty, knocked, wrote, done, cancel>>
      BY <2>1
    <3> QED
      BY <1>a, <2>0, <2>01, <3>1 DEF TypeOK
  <2>3. Order'
    BY <1>a, <2>1 DEF Order, Finalized
  <2>4. responseSlice' = responseSlice
    BY <2>1 DEF responseSlice
  <2>5. Response'
    BY <1>a, <2>1, <2>4 DEF Order, Response, ShowsPrompt
  <2> QED
    BY <2>2, <2>3, <2>5 DEF IInv
<1>12. CASE CompleterSave
  <2>1. /\ UNCHANGED <<deliver, marked, why, buf, offset, ch, pty, knocked, wrote, done, cancel>>
        /\ pump = "save" /\ pump' = "publish"
        /\ \/ row' = "COMPLETED" /\ answer' = responseSlice /\ failed' = failed
           \/ failed' = TRUE /\ UNCHANGED <<row, answer>>
    BY <1>12 DEF CompleterSave, StoreError, ptyVars
  <2>0. failed' \in BOOLEAN
    BY <1>a, <2>1 DEF TypeOK
  <2>01. pump' \in {"save", "publish"} /\ row' \in {row, "COMPLETED"} /\ answer' \in {answer, responseSlice}
    BY <2>1
  <2>2. TypeOK'
    <3>1. /\ UNCHANGED <<deliver, marked, why, buf, offset, ch, pty, knocked, wrote, done, cancel>>
          /\ responseSlice \in Seq(Chunks)
      BY <1>a, <2>1, SliceType
    <3> QED
      BY <1>a, <2>0, <2>01, <3>1 DEF TypeOK
  <2>3. Order'
    BY <1>a, <2>1 DEF Order, Finalized
  <2>4. responseSlice' = responseSlice
    BY <2>1 DEF responseSlice
  <2>5. Response'
    BY <1>a, <2>1, <2>4 DEF Order, Response, ShowsPrompt, Terminal
  <2> QED
    BY <2>2, <2>3, <2>5 DEF IInv
<1>13. CASE PumpPublish
  <2>1. /\ UNCHANGED <<row, answer, failed, deliver, marked, why, buf, offset, ch, pty, knocked, wrote, cancel>>
        /\ pump = "publish" /\ pump' = "end" /\ done' = TRUE
    BY <1>13 DEF PumpPublish, taskVars, ptyVars
  <2>2. TypeOK'
    BY <1>a, <2>1 DEF TypeOK
  <2>3. Order'
    BY <1>a, <2>1 DEF Order, Finalized
  <2>4. responseSlice' = responseSlice
    BY <2>1 DEF responseSlice
  <2>5. Response'
    BY <1>a, <2>1, <2>4 DEF Response, ShowsPrompt
  <2> QED
    BY <2>2, <2>3, <2>5 DEF IInv
<1>14. CASE CancelGet \/ CancelPublish
  <2>1. TypeOK'
    BY <1>a, <1>14 DEF CancelGet, CancelPublish, TypeOK, taskVars, pumpVars, ptyVars
  <2>2. deliver # "new"
    BY <1>a, <1>14 DEF CancelGet, CancelPublish, Order
  <2> QED
    BY <1>14, <2>1, <2>2, Aside DEF CancelGet, CancelPublish, taskVars, pumpVars
<1>15. CASE CancelSave
  <2>1. /\ UNCHANGED <<deliver, marked, pump, why, buf, offset, ch, pty, knocked, wrote, done>>
        /\ \/ row' = "CANCELED" /\ answer' = <<>> /\ cancel' = "saved" /\ failed' = failed
           \/ cancel' = "error" /\ failed' = TRUE /\ row' = row /\ answer' = answer
        /\ cancel = "got"
    BY <1>15 DEF CancelSave, StoreError, pumpVars, ptyVars
  <2>0. failed' \in BOOLEAN
    BY <1>a, <2>1 DEF TypeOK
  <2>2. TypeOK'
    <3>1. /\ UNCHANGED <<deliver, marked, pump, why, buf, offset, ch, pty, knocked, wrote, done>>
          /\ row' \in {row, "CANCELED"} /\ cancel' \in {"saved", "error"}
      BY <2>1
    <3>2. answer' \in Seq(Chunks)
      <4>1. answer' = answer \/ answer' = <<>>
        BY <2>1
      <4>2. <<>> \in Seq(Chunks) /\ answer \in Seq(Chunks)
        BY <1>a DEF TypeOK
      <4> QED
        BY <4>1, <4>2
    <3> QED
      BY <1>a, <2>0, <3>1, <3>2 DEF TypeOK
  <2>3. deliver # "new"
    BY <1>a, <2>1 DEF Order
  <2>4. Order'
    BY <1>a, <2>1, <2>3 DEF Order, Finalized
  <2>5. responseSlice' = responseSlice
    BY <2>1 DEF responseSlice
  <2>6. Response'
    BY <1>a, <2>1, <2>5 DEF Response, ShowsPrompt, Terminal
  <2> QED
    BY <2>2, <2>4, <2>6 DEF IInv
<1>16. CASE UNCHANGED vars
  <2>1. TypeOK'
    BY <1>a, <1>16 DEF TypeOK, vars, taskVars, pumpVars, ptyVars
  <2> QED
    BY <1>16, <2>1, Aside DEF vars, taskVars, pumpVars
<1> QED
    BY <1>1, <1>2, <1>3, <1>4, <1>5, <1>6, <1>7, <1>8, <1>9, <1>10, <1>11, <1>12, <1>13,
       <1>14, <1>15, <1>16 DEF Next, Pumping

LEMMA IInvHolds == Spec => []IInv
BY InitIInv, IInvStep, PTL DEF Spec

-----------------------------------------------------------------------------
(* The results                                                             *)

\* The variables keep their types: the pump's channel never exceeds its
\* capacity and the mark never lies beyond what the pump has read.
THEOREM TypesKept == Spec => []TypeOK
<1>1. IInv => TypeOK
    BY DEF IInv
<1> QED
    BY IInvHolds, <1>1, PTL

\* An answer the silence window completed shows the prompt and holds nothing
\* the pump had read before the mark, whatever a concurrent cancel does.
THEOREM AnswersPromptTerminated == Spec => []AnswerIsPromptTerminated
<1>1. IInv => AnswerIsPromptTerminated
  <2> SUFFICES ASSUME IInv, row = "COMPLETED"
               PROVE  /\ why = "silence" => ShowsPrompt(answer)
                      /\ offset # -1 => Len(answer) <= Len(buf) - offset
    BY DEF AnswerIsPromptTerminated
  <2>1. answer = responseSlice /\ TypeOK
    BY DEF IInv, Response
  <2>2. why = "silence" => ShowsPrompt(answer)
    BY <2>1 DEF IInv, Response
  <2>3. offset # -1 => Len(answer) <= Len(buf) - offset
    BY <2>1, SliceType, LenProperties DEF TypeOK
  <2> QED
    BY <2>2, <2>3
<1> QED
    BY IInvHolds, <1>1, PTL

\* When the done event of a silence-finalized task is out, the row is terminal
\* unless the repository failed: tasks/get after done sees the result.
THEOREM DoneIsTerminal == Spec => []DoneMeansTerminal
<1>1. IInv => DoneMeansTerminal
    BY DEF IInv, Response, DoneMeansTerminal
<1> QED
    BY IInvHolds, <1>1, PTL
-----------------------------------------------------------------------------
(* A terminal state of the row need not be its last one (TerminalIsFinal   *)
(* fails): the completer and a cancel both look first and save later.  How *)
(* often can a client see a terminal state change?                         *)

\* The row says CANCELED only if the cancel has saved it.
Cancels == row = "CANCELED" => cancel \in {"saved", "canceled"}

\* Nobody who may still save the row is left: Deliver, the pump's completer
\* and the cancel are past their saves.
NoWriterLeft ==
    /\ deliver # "new"
    /\ pump \in {"publish", "end"}
    /\ cancel \in {"refused", "saved", "canceled", "error"}

\* A step that overwrites a terminal state was the last one to write the row.
OverwrittenOnce ==
    /\ row \in Terminal /\ row' # row => NoWriterLeft'
    /\ NoWriterLeft => row' = row /\ answer' = answer /\ NoWriterLeft'

\* Who writes the row, and when.
LEMMA Writers ==
    ASSUME IInv, [Next]_vars
    PROVE  \/ row' = row /\ answer' = answer
           \/ deliver = "new" /\ DeliverSave
           \/ pump = "save" /\ CompleterSave
           \/ cancel = "got" /\ CancelSave
BY DEF Next, Delivering, Pumping, DeliverSave, DeliverSpawn, DeliverWrite, DeliverSubmit,
       DeliverMark, AgentWrites, SessionEnds, PumpSubscribe, PumpMark, PumpChunk, PumpSilence,
       PumpDone, Finalize, CompleterGet, StoreError, CompleterSave, PumpPublish, CancelGet,
       CancelSave, CancelPublish, taskVars, vars

\* The cancel's progress goes one way.
LEMMA CancelProgress ==
    ASSUME [Next]_vars, cancel \in {"refused", "saved", "canceled", "error"}
    PROVE  /\ cancel' \in {"refused", "saved", "canceled", "error"}
           /\ cancel \in {"saved", "canceled"} => cancel' \in {"saved", "canceled"}
BY DEF Next, Delivering, Pumping, DeliverSave, DeliverSpawn, DeliverWrite, DeliverSubmit,
       DeliverMark, AgentWrites, SessionEnds, PumpSubscribe, PumpMark, PumpChunk, PumpSilence,
       PumpDone, Finalize, CompleterGet, CompleterSave, PumpPublish, CancelGet,
       CancelSave, CancelPublish, vars

\* So does Deliver's, and the pump's once it has come to publish.
LEMMA PumpProgress ==
    ASSUME IInv, [Next]_vars, pump \in {"publish", "end"}, deliver # "new"
    PROVE  pump' \in {"publish", "end"} /\ deliver' # "new"
<1>1. deliver # "saved"
    BY DEF IInv, Order
<1> QED
    BY <1>1
    DEF Next, Delivering, Pumping, DeliverSave, DeliverSpawn, DeliverWrite, DeliverSubmit,
        DeliverMark, AgentWrites, SessionEnds, PumpSubscribe, PumpMark, PumpChunk, PumpSilence,
        PumpDone, CompleterGet, CompleterSave, PumpPublish, CancelGet,
        CancelSave, CancelPublish, pumpVars, vars

\* A canceled row was written by the cancel.
LEMMA CancelsStep == IInv /\ Cancels /\ [Next]_vars => Cancels'
<1> SUFFICES ASSUME IInv, Cancels, [Next]_vars, row' = "CANCELED"
             PROVE  cancel' \in {"saved", "canceled"}
    BY DEF Cancels
<1>1. CASE row' = row
    BY <1>1, CancelProgress DEF Cancels
<1>2. CASE DeliverSave
  <2>1. row = "none"
    BY <1>2 DEF IInv, Order, DeliverSave
  <2> QED
    BY <1>2, <2>1 DEF DeliverSave, StoreError
<1>3. CASE CompleterSave
    BY <1>3, <1>1 DEF CompleterSave, StoreError
<1>4. CASE CancelSave
    BY <1>4, <1>1 DEF CancelSave, StoreError
<1> QED
    BY <1>1, <1>2, <1>3, <1>4, Writers

(* When a terminal row is overwritten, by a completer that does not look   *)
(* or by a cancel that looked too early, every writer of the row is        *)
(* through: a client sees a terminal state change once at most, and what   *)
(* it changed to, with its answer, is final.                               *)
THEOREM TerminalChangesOnce == Spec => [][OverwrittenOnce]_vars
<1>1. Init => Cancels
    BY DEF Init, Cancels
<1>2. IInv /\ Cancels /\ [Next]_vars => [OverwrittenOnce]_vars
  <2> SUFFICES ASSUME IInv, Cancels, [Next]_vars PROVE OverwrittenOnce
    OBVIOUS
  <2>1. ASSUME row \in Terminal, row' # row PROVE NoWriterLeft'
    <3>1. row \in {"COMPLETED", "CANCELED"} /\ deliver # "new"
      BY <2>1 DEF IInv, TypeOK, Order, Terminal
    <3>2. CASE CompleterSave
      <4>1. row' = "COMPLETED" /\ pump' = "publish" /\ cancel' = cancel /\ deliver' = deliver
        BY <2>1, <3>2 DEF CompleterSave, StoreError
      <4> QED
        BY <2>1, <3>1, <4>1 DEF Cancels, NoWriterLeft
    <3>3. CASE CancelSave
      <4>1. row' = "CANCELED" /\ cancel' = "saved" /\ pump' = pump /\ deliver' = deliver
        BY <2>1, <3>3 DEF CancelSave, StoreError, pumpVars
      <4> QED
        BY <2>1, <3>1, <4>1 DEF IInv, Order, NoWriterLeft
    <3> QED
      BY <2>1, <3>1, <3>2, <3>3, Writers
  <2>2. ASSUME NoWriterLeft PROVE row' = row /\ answer' = answer /\ NoWriterLeft'
    BY <2>2, Writers, CancelProgress, PumpProgress DEF NoWriterLeft
  <2> QED
    BY <2>1, <2>2 DEF OverwrittenOnce
<1> QED
    BY <1>1, <1>2, CancelsStep, IInvHolds, PTL DEF Spec

=============================================================================
