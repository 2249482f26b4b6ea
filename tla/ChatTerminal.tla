------------------------------ MODULE ChatTerminal ------------------------------
(***************************************************************************)
(* dactl chat, the terminal client of dac-apiserver: a goroutine reads the *)
(* event stream of an answer into a channel of chunks, and errors into     *)
(* another; the interface selects between the two, puts the chunks back    *)
(* together into lines, and decides line by line what is displayed.        *)
(*                                                                         *)
(* A text is a sequence of tokens: "nl" ends a line, and the first token   *)
(* of a line is its kind, for all that the filters look at.  Widths,       *)
(* styles, carriage returns and white space are left out; quitting ends    *)
(* the process, and with it the model.                                     *)
(***************************************************************************)
EXTENDS Naturals, SequencesExt

CONSTANTS
    Deltas,     \* the texts a chunk may carry
    ChanCap,    \* capacity of the channel of chunks
    MaxChunks,  \* bound on the chunks of an answer
    MaxFaults   \* bound on requests and streams that fail

\* retry: of replanning; task 1, task: "[1]: ..." and the others of a plan;
\* step: "step 1", "next: ..."; word: begins with one of these words, as in
\* "stepwise"; result: "based on ...", of an intermediate step.
Token == {"nl", "retry", "answer", "task 1", "task", "step", "word", "result", "text"}

ASSUME TerminalAssumption ==
    /\ Deltas \subseteq Seq(Token)
    /\ ChanCap \in Nat \ {0} /\ {MaxChunks, MaxFaults} \subseteq Nat

VARIABLES
    state,    \* of the chatModel
    err,      \* an error is displayed
    m,        \* what else the chatModel holds of the last question
    reader,   \* the goroutine of the last request
    chunkCh, errCh,
    sent,     \* the chunks that came over the wire (history)
    shown,    \* how many of them were handled (history)
    faults

channels == <<reader, chunkCh, errCh>>
model == <<state, err, m>>
vars == <<model, channels, sent, shown, faults>>

initialModel ==
    [content |-> <<>>, lineBuffer |-> <<>>, streamLine |-> <<>>,
     inAnswer |-> FALSE, tasksShown |-> FALSE]

Init ==
    /\ state = "idle" /\ err = FALSE /\ m = initialModel
    /\ reader = "off" /\ chunkCh = <<>> /\ errCh = <<>>
    /\ sent = <<>> /\ shown = 0 /\ faults = 0

Fault == faults < MaxFaults /\ faults' = faults + 1

-----------------------------------------------------------------------------
\* The filters, by the kind of a line.
Kind(line) == IF line = <<>> THEN "blank" ELSE Head(line)

isRetryOrPlanningLine(line) == Kind(line) = "retry"
isAnswerLine(line) == Kind(line) = "answer"
isTaskLine(line) == Kind(line) \in {"task 1", "task"}
isTaskPlanningLine(line) == Kind(line) \in {"retry", "answer", "task 1", "task", "step", "word"}
looksLikeIntermediateResult(line) == Kind(line) = "result"
\* Of a line that is not complete yet.
looksLikeTaskPlanning(line) == Kind(line) \in {"retry", "answer", "task 1", "task", "step"}

Hide(chat) == [chat EXCEPT !.streamLine = <<>>]
Write(chat, line) == [Hide(chat) EXCEPT !.content = Append(@, line)]

\* The answer begins; what follows the colon is its first line.
handleAnswerLine(chat, line) ==
    LET inAnswer == [chat EXCEPT !.inAnswer = TRUE]
    IN  IF Tail(line) = <<>> THEN Hide(inAnswer) ELSE Write(inAnswer, Tail(line))

\* Tasks are displayed up to the first one numbered 1.
handleTaskLine(chat, line) ==
    [(IF chat.tasksShown THEN Hide(chat) ELSE Write(chat, line))
        EXCEPT !.tasksShown = @ \/ Kind(line) = "task 1"]

processLine(chat, line) ==
    IF isRetryOrPlanningLine(line) THEN Hide(chat)
    ELSE IF isAnswerLine(line) THEN handleAnswerLine(chat, line)
    ELSE IF chat.inAnswer THEN Write(chat, line)
    ELSE IF isTaskLine(line) THEN handleTaskLine(chat, line)
    ELSE IF isTaskPlanningLine(line) \/ line = <<>> \/ looksLikeIntermediateResult(line) THEN Hide(chat)
    ELSE Write(chat, line)

\* Variant: only the first line a chunk completes is processed.
FeedKeepingLine(chat, token) ==
    IF token = "nl" THEN processLine(chat, chat.lineBuffer)
    ELSE [chat EXCEPT !.lineBuffer = Append(@, token)]

Feed(chat, token) ==
    IF token = "nl" THEN [processLine(chat, chat.lineBuffer) EXCEPT !.lineBuffer = <<>>]
    ELSE [chat EXCEPT !.lineBuffer = Append(@, token)]

\* The lines a chunk completes are processed; the rest is displayed for now.
handleChunk(chat, delta) ==
    LET fed == FoldLeft(Feed, chat, delta)
        hidden == ~fed.inAnswer /\ looksLikeTaskPlanning(fed.lineBuffer)
    IN  IF delta = <<>> THEN chat
        ELSE [fed EXCEPT !.streamLine = IF hidden THEN <<>> ELSE fed.lineBuffer]

\* What is left in the buffer is the last line, and filtered in a way of its own.
LastLineWritten(chat) ==
    LET rest == chat.lineBuffer
        ended == [chat EXCEPT !.lineBuffer = <<>>, !.streamLine = <<>>]
    IN  IF rest # <<>> /\ (chat.inAnswer \/ ~isTaskPlanningLine(rest))
        THEN [ended EXCEPT !.content = Append(@, rest)]
        ELSE ended

-----------------------------------------------------------------------------
\* The interface.

\* An error once displayed stays.
startStreaming == state' = "streaming" /\ m' = initialModel /\ UNCHANGED err

\* Variant: the interface goes on waiting.
finishWaiting == m' = LastLineWritten(m) /\ UNCHANGED <<state, err>>

finishStream == state' = "idle" /\ m' = LastLineWritten(m) /\ UNCHANGED err

streamErr == state' = "idle" /\ err' = TRUE /\ UNCHANGED m

\* The user's question; the channels of its answer are new ones.
Ask ==
    /\ state = "idle"
    /\ startStreaming
    /\ reader' = "off" /\ chunkCh' = <<>> /\ errCh' = <<>>
    /\ sent' = <<>> /\ shown' = 0
    /\ UNCHANGED faults

initStream ==
    /\ state = "streaming" /\ reader = "off"
    /\ reader' = "reading"
    /\ UNCHANGED <<model, chunkCh, errCh, sent, shown, faults>>

RequestFails ==
    /\ state = "streaming" /\ reader = "off"
    /\ Fault
    /\ streamErr
    /\ UNCHANGED <<channels, sent, shown>>

\* Variant: as soon as the goroutine has begun to return.
DoneWhenClosing ==
    \/ chunkCh = <<>> /\ reader \in {"closing", "closed chunks", "returned"}
    \/ reader \in {"closing", "returned"} /\ errCh = <<>>

\* Either channel is closed.
Done ==
    \/ chunkCh = <<>> /\ reader \in {"closed chunks", "returned"}
    \/ reader = "returned" /\ errCh = <<>>

\* The select takes any of what is ready: a closed errCh is, though chunks are
\* waiting in chunkCh, and so is a closed chunkCh, though an error is waiting.
waitForChunk ==
    /\ state = "streaming" /\ reader # "off"
    /\ \/ /\ chunkCh # <<>>
          /\ m' = handleChunk(m, Head(chunkCh)) /\ UNCHANGED <<state, err>>
          /\ chunkCh' = Tail(chunkCh) /\ shown' = shown + 1
          /\ UNCHANGED errCh
       \/ /\ errCh # <<>>
          /\ streamErr /\ errCh' = Tail(errCh)
          /\ UNCHANGED <<chunkCh, shown>>
       \/ /\ Done
          /\ finishStream
          /\ UNCHANGED <<chunkCh, errCh, shown>>
    /\ UNCHANGED <<reader, sent, faults>>

-----------------------------------------------------------------------------
\* The goroutine.
Scan ==
    /\ reader = "reading" /\ Len(sent) < MaxChunks /\ Len(chunkCh) < ChanCap
    /\ \E delta \in Deltas :
         chunkCh' = Append(chunkCh, delta) /\ sent' = Append(sent, delta)
    /\ UNCHANGED <<model, reader, errCh, shown, faults>>

\* [DONE], or the end of the stream without it.
ScanEnd ==
    /\ reader = "reading" /\ reader' = "closing"
    /\ UNCHANGED <<model, chunkCh, errCh, sent, shown, faults>>

\* The stream breaks or is not understood, or for five seconds nobody takes a
\* chunk out of the full channel.
parseFails ==
    /\ reader = "reading" /\ Fault
    /\ reader' = "closing" /\ errCh' = <<"error">>
    /\ \/ UNCHANGED sent
       \/ /\ Len(chunkCh) = ChanCap /\ Len(sent) < MaxChunks
          /\ \E delta \in Deltas : sent' = Append(sent, delta)
    /\ UNCHANGED <<model, chunkCh, shown>>

\* The channels are closed one after the other.
Close ==
    /\ \/ reader = "closing" /\ reader' = "closed chunks"
       \/ reader = "closed chunks" /\ reader' = "returned"
    /\ UNCHANGED <<model, chunkCh, errCh, sent, shown, faults>>

ReaderStep == Scan \/ ScanEnd \/ Close
InterfaceStep == initStream \/ waitForChunk

Next == Ask \/ InterfaceStep \/ ReaderStep \/ RequestFails \/ parseFails

\* Goroutine and interface run; an answer has an end.
Spec == Init /\ [][Next]_vars /\ WF_vars(ReaderStep) /\ WF_vars(InterfaceStep)

-----------------------------------------------------------------------------
\* What should be displayed of a text.
Ends(text) ==
    LET IsEnd(i) == text[i] = "nl"
    IN  SelectSeq([i \in DOMAIN text |-> i], IsEnd)
LinesOf(text) ==
    LET ends == Ends(text)
    IN  [i \in DOMAIN ends |-> SubSeq(text, IF i = 1 THEN 1 ELSE ends[i - 1] + 1, ends[i] - 1)]
RestOf(text) == SubSeq(text, IF Ends(text) = <<>> THEN 1 ELSE Last(Ends(text)) + 1, Len(text))

\* All of the answer but what is of replanning; before it, plain text and the
\* tasks up to the first one numbered 1.
Displayed(lines) ==
    LET InAnswer(i) == \E j \in 1 .. i : Kind(lines[j]) = "answer"
        Before(i) == {Kind(lines[j]) : j \in 1 .. i - 1}
        Visible(i) ==
            \/ InAnswer(i) /\ Kind(lines[i]) # "retry" /\ lines[i] # <<"answer">>
            \/ Kind(lines[i]) = "text"
            \/ Kind(lines[i]) \in {"task 1", "task"} /\ "task 1" \notin Before(i)
        Shown == SelectSeq([i \in DOMAIN lines |-> i], Visible)
        Text(i) == IF Kind(lines[i]) = "answer" THEN Tail(lines[i]) ELSE lines[i]
    IN  [k \in DOMAIN Shown |-> Text(Shown[k])]

\* The last line has no end: of that, the filters for whole lines do not hold.
Remainder(lines, rest) ==
    IF rest = <<>> THEN <<>>
    ELSE IF (\E i \in DOMAIN lines : Kind(lines[i]) = "answer") \/ Kind(rest) \in {"text", "result"}
    THEN <<rest>> ELSE <<>>

(* What is displayed depends on the text of the chunks handled so far and    *)
(* not on how it was cut into chunks, nor on what an earlier answer, broken  *)
(* off in the middle of a line, left in the buffer.                          *)
DisplayIsOfLines ==
    LET text == FlattenSeq(SubSeq(sent, 1, shown))
        lines == LinesOf(text)
    IN  \/ m.content = Displayed(lines) /\ m.lineBuffer = RestOf(text)
        \/ /\ state = "idle" /\ m.lineBuffer = <<>>
           /\ m.content = Displayed(lines) \o Remainder(lines, RestOf(text))

\* What the interface has turned away from without a word.
SilentOnlyAtTheEnd ==
    state = "idle" /\ ~err /\ shown < Len(sent)
    => reader = "returned" \/ (reader = "closed chunks" /\ errCh # <<>>)

(* Chunks are handled in their order and none is skipped.  Some may be lost  *)
(* at the end of an answer, but no earlier: without a word the interface     *)
(* turns away from chunks only when the goroutine has closed both channels,  *)
(* or left an error that is not displayed either.                            *)
LostOnlyAtTheEnd ==
    /\ SubSeq(sent, shown + 1, shown + Len(chunkCh)) = chunkCh
    /\ SilentOnlyAtTheEnd

(* The inductive invariant behind it.  Until the goroutine returns every     *)
(* chunk that came is handled or waits in the channel; a chunk that was not  *)
(* put there leaves an error, which the interface takes or passes over.      *)
ChannelTypes ==
    /\ state \in {"idle", "streaming"} /\ err \in BOOLEAN
    /\ reader \in {"off", "reading", "closing", "closed chunks", "returned"}
    /\ sent \in Seq(Deltas) /\ chunkCh \in Seq(Deltas)
    /\ shown \in Nat /\ shown + Len(chunkCh) <= Len(sent)

IInv ==
    /\ ChannelTypes
    /\ \A i \in 1 .. Len(chunkCh) : chunkCh[i] = sent[shown + i]
    /\ reader \in {"off", "reading"} => errCh = <<>> /\ Len(sent) = shown + Len(chunkCh)
    /\ reader = "reading" => state = "streaming"
    /\ state = "streaming" /\ Len(sent) > shown + Len(chunkCh) => errCh # <<>>
    /\ SilentOnlyAtTheEnd

(* The interface takes the next question sooner or later, whatever became of *)
(* the stream and of the goroutine, and in whichever order they are noticed. *)
TerminalReady == []<>(state = "idle")
=============================================================================
