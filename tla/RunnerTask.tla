---------------------------- MODULE RunnerTask ----------------------------
(***************************************************************************)
(* One A2A task on a runner: runnerDeliverer.Deliver persists it, starts   *)
(* pumpPTYToBroker, waits until the pump listens to the PTY, writes the    *)
(* knock and marks the boundary in the byte stream; the pump decides when  *)
(* the agent has answered, has the completer save the answer and publishes *)
(* done; a client may cancel the task at any time.  Every access to the    *)
(* task's row, the PTY and the pump's channels is a step of its own.       *)
(*                                                                         *)
(* The PTY is what PtySession provides: chunks in order, dropped when the  *)
(* pump's channel is full, Done when the session ends.  A chunk is its     *)
(* origin (the start-up banner or an answer to the knock) and whether it   *)
(* shows the prompt cursor.                                                *)
(***************************************************************************)
EXTENDS Integers, Sequences

CONSTANTS
    Depth,      \* capacity of the pump's channel (64 in the code)
    MaxChunks   \* bound: chunks the agent writes

ASSUME BoundsAssumption == Depth \in Nat \ {0} /\ MaxChunks \in Nat

VARIABLES
    row,      \* the task's row: "none" or its state
    answer,   \* the response in the row's OutputBlob
    failed,   \* history: a call of the task repository returned an error
    deliver,  \* progress of Deliver
    marked,   \* mark.SendNow is closed
    pump,     \* progress of the pump goroutine
    why,      \* history: what made the pump finalize
    buf,      \* responseBuf, as a sequence of chunks
    offset,   \* sendOffset, -1 before the mark
    ch,       \* sub.Ch
    pty,      \* "open" or "closed" (sub.Done closed)
    knocked,  \* the knock was submitted to the agent
    wrote,    \* chunks the agent has written
    done,     \* a done event was published
    cancel    \* progress of handleCancelTask

taskVars == <<row, answer, failed>>
ptyVars == <<ch, pty, knocked, wrote>>
pumpVars == <<pump, why, buf, offset>>
vars == <<taskVars, deliver, marked, pumpVars, ptyVars, done, cancel>>

Chunks == [from : {"banner", "reply"}, cursor : BOOLEAN]
\* IsTerminal
Terminal == {"COMPLETED", "FAILED", "CANCELED", "REJECTED"}

\* A call of the repository that returns an error and changes nothing.
StoreError == failed' = TRUE /\ UNCHANGED <<row, answer>>

Init ==
    /\ row = "none" /\ answer = <<>> /\ failed = FALSE
    /\ deliver = "new" /\ marked = FALSE
    /\ pump = "none" /\ why = "none" /\ buf = <<>> /\ offset = -1
    /\ ch = <<>> /\ pty = "open" /\ knocked = FALSE /\ wrote = 0
    /\ done = FALSE
    /\ cancel = "idle"

-----------------------------------------------------------------------------
(* runnerDeliverer.Deliver                                                 *)

\* Tasks().Save of the WORKING row; an error ends the call.
DeliverSave ==
    /\ deliver = "new"
    /\ \/ /\ row' = "WORKING" /\ UNCHANGED <<answer, failed>>
          /\ deliver' = "saved"
       \/ /\ StoreError
          /\ deliver' = "error"
    /\ UNCHANGED <<marked, pumpVars, ptyVars, done, cancel>>

\* go PumpPTYToBroker, then <-mark.Subscribed
DeliverSpawn ==
    /\ deliver = "saved"
    /\ pump' = "start"
    /\ deliver' = "waiting"
    /\ UNCHANGED <<taskVars, marked, why, buf, offset, ptyVars, done, cancel>>

Subscribed == pump \notin {"none", "start", "deaf"}

\* The knock marker; a failed write ends the call and leaves the row.
DeliverWrite ==
    /\ deliver = "waiting" /\ Subscribed
    /\ deliver' = IF pty = "open" THEN "written" ELSE "error"
    /\ UNCHANGED <<taskVars, marked, pumpVars, ptyVars, done, cancel>>

\* The carriage return: from here on the agent may answer.
DeliverSubmit ==
    /\ deliver = "written"
    /\ deliver' = IF pty = "open" THEN "submitted" ELSE "error"
    /\ knocked' = (pty = "open")
    /\ UNCHANGED <<taskVars, marked, pumpVars, ch, pty, wrote, done, cancel>>

\* MarkSendNow
DeliverMark ==
    /\ deliver = "submitted"
    /\ marked' = TRUE
    /\ deliver' = "ok"
    /\ UNCHANGED <<taskVars, pumpVars, ptyVars, done, cancel>>

-----------------------------------------------------------------------------
(* The agent behind the PTY.                                               *)

\* Mutant: a full channel does not drop the chunk.
BadAgentWrites(c) ==
    /\ pty = "open" /\ wrote < MaxChunks
    /\ c.from = "reply" <=> knocked
    /\ wrote' = wrote + 1
    /\ ch' = IF Subscribed /\ pump # "end" THEN Append(ch, c) ELSE ch
    /\ UNCHANGED <<taskVars, deliver, marked, pumpVars, pty, knocked, done, cancel>>

\* fanout: a non-blocking send, the chunk is dropped when sub.Ch is full.
AgentWrites(c) ==
    /\ pty = "open" /\ wrote < MaxChunks
    /\ c.from = "reply" <=> knocked
    /\ wrote' = wrote + 1
    /\ ch' = IF Subscribed /\ pump # "end" /\ Len(ch) < Depth THEN Append(ch, c) ELSE ch
    /\ UNCHANGED <<taskVars, deliver, marked, pumpVars, pty, knocked, done, cancel>>

SessionEnds ==
    /\ pty = "open"
    /\ pty' = "closed"
    /\ UNCHANGED <<taskVars, deliver, marked, pumpVars, ch, knocked, wrote, done, cancel>>

-----------------------------------------------------------------------------
(* pumpPTYToBroker                                                         *)

\* Subscribe fails on a closed session: return, Subscribed is never closed.
PumpSubscribe ==
    /\ pump = "start"
    /\ pump' = IF pty = "open" THEN "run" ELSE "deaf"
    /\ UNCHANGED <<taskVars, deliver, marked, why, buf, offset, ptyVars, done, cancel>>

PumpMark ==
    /\ pump = "run" /\ marked /\ offset = -1
    /\ offset' = Len(buf)
    /\ UNCHANGED <<taskVars, deliver, marked, pump, why, buf, ptyVars, done, cancel>>

PumpChunk ==
    /\ pump = "run" /\ ch # <<>>
    /\ buf' = Append(buf, Head(ch))
    /\ ch' = Tail(ch)
    /\ UNCHANGED <<taskVars, deliver, marked, pump, why, offset, pty, knocked, wrote, done, cancel>>

responseSlice == IF offset = -1 THEN buf ELSE SubSeq(buf, offset + 1, Len(buf))
ShowsPrompt(chunks) == \E i \in DOMAIN chunks : chunks[i].cursor

\* finalize: an empty response is not handed to the completer.
Finalize(reason) ==
    /\ why' = reason
    /\ pump' = IF responseSlice = <<>> THEN "publish" ELSE "complete"
    /\ UNCHANGED <<taskVars, deliver, marked, buf, offset, ptyVars, done, cancel>>

\* Mutant: the silence window alone ends the response (#385).
BadPumpSilence ==
    /\ pump = "run" /\ buf # <<>>
    /\ Finalize("silence")

\* The silence window elapsed (armed by the first chunk); without the prompt
\* cursor in the response the timer is only started again.
PumpSilence ==
    /\ pump = "run" /\ buf # <<>> /\ ShowsPrompt(responseSlice)
    /\ Finalize("silence")

\* Mutant: the end of the session is held to the prompt gate as well.
BadPumpDone ==
    /\ pump = "run" /\ pty = "closed" /\ ShowsPrompt(responseSlice)
    /\ Finalize("exit")

PumpDone ==
    /\ pump = "run" /\ pty = "closed"
    /\ Finalize("exit")

\* The completer's Get; a task it cannot read is left alone.
CompleterGet ==
    /\ pump = "complete"
    /\ \/ pump' = "save" /\ UNCHANGED taskVars
       \/ pump' = "publish" /\ StoreError
    /\ UNCHANGED <<deliver, marked, why, buf, offset, ptyVars, done, cancel>>

\* COMPLETED is written over whatever state the row is in; errors are dropped.
CompleterSave ==
    /\ pump = "save"
    /\ \/ row' = "COMPLETED" /\ answer' = responseSlice /\ UNCHANGED failed
       \/ StoreError
    /\ pump' = "publish"
    /\ UNCHANGED <<deliver, marked, why, buf, offset, ptyVars, done, cancel>>

\* Mutant: the done event does not wait for the completer.
BadPumpPublish ==
    /\ pump \in {"complete", "publish"}
    /\ done' = TRUE
    /\ pump' = "end"
    /\ UNCHANGED <<taskVars, deliver, marked, why, buf, offset, ptyVars, cancel>>

PumpPublish ==
    /\ pump = "publish"
    /\ done' = TRUE
    /\ pump' = "end"
    /\ UNCHANGED <<taskVars, deliver, marked, why, buf, offset, ptyVars, cancel>>

-----------------------------------------------------------------------------
(* handleCancelTask: Get, IsTerminal, TransitionTask, Save, Publish.       *)

CancelGet ==
    /\ cancel = "idle" /\ row # "none"
    /\ cancel' = IF row \in Terminal THEN "refused" ELSE "got"
    /\ UNCHANGED <<taskVars, deliver, marked, pumpVars, ptyVars, done>>

\* The whole record is saved as it was read, in a state that had no answer yet:
\* one the completer has saved since is lost with its state.
CancelSave ==
    /\ cancel = "got"
    /\ \/ row' = "CANCELED" /\ answer' = <<>> /\ cancel' = "saved" /\ UNCHANGED failed
       \/ cancel' = "error" /\ StoreError
    /\ UNCHANGED <<deliver, marked, pumpVars, ptyVars, done>>

CancelPublish ==
    /\ cancel = "saved"
    /\ done' = TRUE
    /\ cancel' = "canceled"
    /\ UNCHANGED <<taskVars, deliver, marked, pumpVars, ptyVars>>

-----------------------------------------------------------------------------
Delivering == DeliverWrite \/ DeliverSubmit \/ DeliverMark
Pumping == \/ PumpSubscribe \/ PumpMark \/ PumpChunk \/ PumpSilence \/ PumpDone
           \/ CompleterGet \/ CompleterSave \/ PumpPublish

Next ==
    \/ DeliverSave \/ DeliverSpawn \/ Delivering
    \/ \E c \in Chunks : AgentWrites(c)
    \/ SessionEnds
    \/ Pumping
    \/ CancelGet \/ CancelSave \/ CancelPublish

Spec == Init /\ [][Next]_vars

(***************************************************************************)
(* Goroutines that can go on do so.  The agent need not write, the session *)
(* need not end, nobody need cancel.                                       *)
(***************************************************************************)
Fairness == WF_vars(DeliverSpawn) /\ WF_vars(Delivering) /\ WF_vars(Pumping)

FairSpec == Spec /\ Fairness

-----------------------------------------------------------------------------
\* Every variable has its type.
TypeOK ==
    /\ row \in {"none", "WORKING", "COMPLETED", "CANCELED"}
    /\ answer \in Seq(Chunks) /\ buf \in Seq(Chunks) /\ ch \in Seq(Chunks)
    /\ Len(ch) <= Depth
    /\ deliver \in {"new", "saved", "waiting", "written", "submitted", "ok", "error"}
    /\ pump \in {"none", "start", "deaf", "run", "complete", "save", "publish", "end"}
    /\ why \in {"none", "silence", "exit"}
    /\ offset \in -1..Len(buf)
    /\ pty \in {"open", "closed"}
    /\ failed \in BOOLEAN /\ marked \in BOOLEAN /\ knocked \in BOOLEAN /\ done \in BOOLEAN
    /\ wrote \in 0..MaxChunks
    /\ cancel \in {"idle", "refused", "got", "saved", "canceled", "error"}

(***************************************************************************)
(* An answer that silence completed shows the prompt cursor, and it is the *)
(* output after the mark: what was read before the mark stays out of it.   *)
(***************************************************************************)
AnswerIsPromptTerminated ==
    row = "COMPLETED" =>
        /\ why = "silence" => ShowsPrompt(answer)
        /\ offset # -1 => Len(answer) <= Len(buf) - offset

(***************************************************************************)
(* Once the session has ended the pump publishes done and ends, with or    *)
(* without a prompt: "fast-exiting agents finalize cleanly".               *)
(***************************************************************************)
SessionEndFinishesTask == pty = "closed" /\ pump = "run" ~> done /\ pump = "end"

(***************************************************************************)
(* state_machine.go: "COMPLETED -> (terminal)", "CANCELED -> (terminal)":  *)
(* a terminal state of the row is its last one.                            *)
(***************************************************************************)
TerminalIsFinal == [][(row \in Terminal) => row' = row]_vars

(***************************************************************************)
(* a2a_publisher.go: "Slicing at sendOffset is structural: everything      *)
(* before the mark is banner; everything after is response".               *)
(***************************************************************************)
AnswerHasNoBanner ==
    marked /\ offset # -1 => \A i \in DOMAIN answer : answer[i].from = "reply"

(***************************************************************************)
(* "Fire the completer (persists agent response + flips state) and the     *)
(* broker's done event": unless the store failed, the row is terminal when *)
(* the silence window has ended the task, so a client that answers the     *)
(* done event with tasks/get finds the finished task.                      *)
(***************************************************************************)
DoneMeansTerminal ==
    ~failed /\ why = "silence" /\ pump = "end" => row \in Terminal

\* Deliver "returns the Task in state working" or an error: it does not hang.
DeliverReturns == deliver = "waiting" ~> deliver \in {"ok", "error"}

(***************************************************************************)
(* "Returns the Task in state working; silence-finalize will flip it to    *)
(* completed via the completer": when the pump of a delivered task that    *)
(* read an answer is over, the row is terminal.                            *)
(***************************************************************************)
AnsweredIsFinal ==
    pump = "end" /\ (\E i \in DOMAIN buf : buf[i].from = "reply") /\ deliver = "ok"
        => row \in Terminal
=============================================================================
