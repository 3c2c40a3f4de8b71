------------------------------ MODULE Terminal ------------------------------
(***************************************************************************)
(* The two buffers between the IDE and the Lisp threads (CharBuf), and the *)
(* document that a Lisp thread asks the IDE to open.                       *)
(*                                                                         *)
(* The thread of the user interface puts typed text into TerminalInputBuf  *)
(* (ProcessLispSource) and, when it is idle, takes what is in              *)
(* TerminalOutputBuf and opens the document that was asked for.  Lisp      *)
(* threads read the one (consoleUnderflow) and write the other             *)
(* (CoCormanLispClient::OutputText).                                       *)
(*                                                                         *)
(* Characters are numbered: the ith that was typed is i, the ith that      *)
(* thread t writes is <<t, i>>.  The semaphore of a CharBuf makes each     *)
(* operation on it one step.  fBufEmpty only ends a wait of 100 ms early,  *)
(* and a step that ends the wait at any time stands for both.              *)
(***************************************************************************)
EXTENDS Integers, Sequences

CONSTANTS
    Readers, Writers, Openers,  \* Lisp threads, by what they do
    InSize, OutSize,            \* sizes of the two buffers
    LineSize,                   \* size of the buffer of the input stream
    Returns,                    \* the typed characters that are carriage returns
    Zeros,                      \* the written characters that are zero
    Documents, None,
    MaxTyped, MaxSaid           \* bounds on the characters typed, and written by each

Threads == Readers \cup Writers \cup Openers

ASSUME BuffersAssumption == InSize \in Nat \ {0} /\ OutSize \in Nat \ {0} /\ LineSize \in Nat
ASSUME DocumentsAssumption == None \notin Documents
ASSUME BoundsAssumption == MaxTyped \in Nat /\ MaxSaid \in Nat

VARIABLES
    inBuf,      \* TerminalInputBuf
    outBuf,     \* TerminalOutputBuf
    available,  \* the event fCharsAvailable of TerminalInputBuf
    posted,     \* a message waits for the thread of the user interface
    main,       \* what that thread does
    unsent,     \* the text that ProcessLispSource has still to add
    pc,         \* what each Lisp thread does
    text,       \* what it has still to write
    asked,      \* the document it has asked for
    doc,        \* and the one it was given
    toOpen,     \* m_fileToOpen
    lastDoc,    \* m_lastDocOpened
    typed, said,    \* characters typed; characters each thread has begun to write
    taken, shown    \* characters read by Lisp; characters in the worksheet

vars == <<inBuf, outBuf, available, posted, main, unsent, pc, text, asked, doc, toOpen,
          lastDoc, typed, said, taken, shown>>

Lesser(m, n) == IF m < n THEN m ELSE n
FirstOf(s, n) == SubSeq(s, 1, n)
RestOf(s, n) == SubSeq(s, n + 1, Len(s))

(* One byte of a buffer is left for the zero that getChars stores. *)
Fitting(buf, size, chars) == Lesser((size - 1) - Len(buf), Len(chars))

(* strcpy: what follows a zero is lost. *)
UpToZero(s) ==
    FirstOf(s, CHOOSE n \in 0 .. Len(s) :
                  /\ \A i \in 1 .. n : s[i] \notin Zeros
                  /\ n < Len(s) => s[n + 1] \in Zeros)

Init ==
    /\ inBuf = <<>> /\ outBuf = <<>>
    /\ available = FALSE
    /\ posted = FALSE
    /\ main = "loop"
    /\ unsent = <<>>
    /\ pc = [t \in Threads |-> "lisp"]
    /\ text = [t \in Threads |-> <<>>]
    /\ asked = [t \in Threads |-> None]
    /\ doc = [t \in Threads |-> None]
    /\ toOpen = None /\ lastDoc = None
    /\ typed = 0
    /\ said = [t \in Threads |-> 0]
    /\ taken = <<>> /\ shown = <<>>

Runs(t, at) == pc[t] = at
Goes(t, to) == pc' = [pc EXCEPT ![t] = to]

(***************************************************************************)
(* The thread of the user interface.                                       *)
(***************************************************************************)
input == <<inBuf, available, unsent, typed, taken>>
output == <<outBuf, text, said, shown>>
document == <<asked, doc, toOpen, lastDoc>>

(* Text is typed, or a file is executed; a carriage return comes with the  *)
(* line feed after it.                                                     *)
CallProcessSource ==
    /\ main = "loop"
    /\ \E n \in 1 .. MaxTyped - typed :
          /\ typed + n \notin Returns
          /\ unsent' = [i \in 1 .. n |-> typed + i]
          /\ typed' = typed + n
    /\ main' = "send"
    /\ UNCHANGED <<inBuf, available, posted, pc, taken, output, document>>

(* Fault variant: what does not fit is taken for added. *)
AddInputForgets ==
    /\ main = "send"
    /\ LET n == Fitting(inBuf, InSize, unsent)
       IN  /\ inBuf' = inBuf \o FirstOf(unsent, n)
           /\ unsent' = <<>>
           /\ main' = "loop"
           /\ available' = (available \/ n > 0)
    /\ UNCHANGED <<posted, pc, typed, taken, output, document>>

(* addChars: as much as fits; with no room, wait a while. *)
AddInput ==
    /\ main = "send"
    /\ LET n == Fitting(inBuf, InSize, unsent)
       IN  /\ inBuf' = inBuf \o FirstOf(unsent, n)
           /\ unsent' = RestOf(unsent, n)
           /\ main' = IF n = 0 THEN "wait" ELSE IF n < Len(unsent) THEN "send" ELSE "loop"
           /\ available' = (available \/ n > 0)
    /\ UNCHANGED <<posted, pc, typed, taken, output, document>>

EndInputWait ==
    /\ main = "wait"
    /\ main' = "send"
    /\ UNCHANGED <<posted, pc, input, output, document>>

(* The user, or the timer. *)
OtherMessage ==
    /\ ~posted /\ posted' = TRUE
    /\ UNCHANGED <<main, pc, input, output, document>>

(* The messages have been handled: show what is in the output buffer. *)
OnIdle ==
    /\ main = "loop" /\ posted
    /\ posted' = FALSE
    /\ shown' = shown \o UpToZero(outBuf)
    /\ outBuf' = <<>>
    /\ main' = "idle"
    /\ UNCHANGED <<pc, text, said, input, document>>

OpenDocument ==
    /\ main = "idle"
    /\ main' = "loop"
    /\ lastDoc' = IF toOpen = None THEN lastDoc ELSE toOpen
    /\ toOpen' = None
    /\ UNCHANGED <<posted, pc, asked, doc, input, output>>

(***************************************************************************)
(* Lisp threads that write.                                                *)
(***************************************************************************)
CallOutputText(t) ==
    /\ t \in Writers /\ Runs(t, "lisp")
    /\ \E n \in 1 .. MaxSaid - said[t] :
          /\ text' = [text EXCEPT ![t] = [i \in 1 .. n |-> <<t, said[t] + i>>]]
          /\ said' = [said EXCEPT ![t] = @ + n]
    /\ Goes(t, "out")
    /\ UNCHANGED <<outBuf, shown, posted, main, input, document>>

(* Fault variant: no message is posted when characters are added. *)
AddOutputQuietly(t) ==
    /\ Runs(t, "out")
    /\ LET n == Fitting(outBuf, OutSize, text[t])
       IN  /\ outBuf' = outBuf \o FirstOf(text[t], n)
           /\ text' = [text EXCEPT ![t] = RestOf(@, n)]
           /\ Goes(t, IF n = 0 THEN "outWait" ELSE IF n < Len(text[t]) THEN "out" ELSE "lisp")
    /\ UNCHANGED <<posted, said, shown, main, input, document>>

(* Add as much as fits, and see that the other thread becomes idle. *)
AddOutput(t) ==
    /\ Runs(t, "out")
    /\ LET n == Fitting(outBuf, OutSize, text[t])
       IN  /\ outBuf' = outBuf \o FirstOf(text[t], n)
           /\ text' = [text EXCEPT ![t] = RestOf(@, n)]
           /\ posted' = (posted \/ n > 0)
           /\ Goes(t, IF n = 0 THEN "outWait" ELSE IF n < Len(text[t]) THEN "out" ELSE "lisp")
    /\ UNCHANGED <<said, shown, main, input, document>>

EndOutputWait(t) ==
    /\ Runs(t, "outWait")
    /\ Goes(t, "out")
    /\ UNCHANGED <<posted, main, input, output, document>>

(***************************************************************************)
(* Lisp threads that read.                                                 *)
(***************************************************************************)
CallUnderflow(t) ==
    /\ t \in Readers /\ Runs(t, "lisp")
    /\ Goes(t, "look")
    /\ UNCHANGED <<posted, main, input, output, document>>

(* numchars, without the semaphore. *)
LookForInput(t) ==
    /\ Runs(t, "look")
    /\ Goes(t, IF inBuf = <<>> THEN "await" ELSE "take")
    /\ UNCHANGED <<posted, main, input, output, document>>

(* Fault variant: the event is trusted. *)
AwaitInputOnce(t) ==
    /\ Runs(t, "await") /\ available
    /\ available' = FALSE
    /\ Goes(t, "take")
    /\ UNCHANGED <<posted, main, inBuf, unsent, typed, taken, output, document>>

(* The event is reset for the thread that it wakes. *)
AwaitInput(t) ==
    /\ Runs(t, "await") /\ available
    /\ available' = FALSE
    /\ Goes(t, "look")
    /\ UNCHANGED <<posted, main, inBuf, unsent, typed, taken, output, document>>

(* No characters, or none but carriage returns, which are removed, are the *)
(* end of the file to Lisp.                                                *)
TakeInput(t) ==
    /\ Runs(t, "take")
    /\ LET n == Lesser(Len(inBuf), LineSize)
       IN  /\ taken' = taken \o FirstOf(inBuf, n)
           /\ inBuf' = RestOf(inBuf, n)
           /\ Goes(t, IF \A i \in 1 .. n : inBuf[i] \in Returns THEN "end of file"
                                                               ELSE "lisp")
    /\ UNCHANGED <<available, unsent, typed, posted, main, output, document>>

(* Console_Chars_Available waits for the event, which resets it. *)
CharsAvailable(t) ==
    /\ t \in Readers /\ Runs(t, "lisp")
    /\ available' = FALSE
    /\ UNCHANGED <<posted, main, pc, inBuf, unsent, typed, taken, output, document>>

(***************************************************************************)
(* Lisp threads that open a document.                                      *)
(***************************************************************************)
CallOpenEditWindow(t) ==
    /\ t \in Openers /\ Runs(t, "lisp")
    /\ \E d \in Documents : asked' = [asked EXCEPT ![t] = d]
    /\ doc' = [doc EXCEPT ![t] = None]
    /\ Goes(t, "turn")
    /\ UNCHANGED <<toOpen, lastDoc, posted, main, input, output>>

AwaitTurn(t) ==
    /\ Runs(t, "turn") /\ toOpen = None
    /\ Goes(t, "ask")
    /\ UNCHANGED <<posted, main, input, output, document>>

SetDocumentToOpen(t) ==
    /\ Runs(t, "ask")
    /\ toOpen' = asked[t]
    /\ posted' = TRUE
    /\ Goes(t, "open")
    /\ UNCHANGED <<asked, doc, lastDoc, main, input, output>>

(* Fault variant: the document is taken before it is there. *)
AwaitOpenedEarly(t) ==
    /\ Runs(t, "open")
    /\ doc' = [doc EXCEPT ![t] = lastDoc]
    /\ Goes(t, "lisp")
    /\ UNCHANGED <<asked, toOpen, lastDoc, posted, main, input, output>>

AwaitOpened(t) ==
    /\ Runs(t, "open") /\ toOpen = None
    /\ doc' = [doc EXCEPT ![t] = lastDoc]
    /\ Goes(t, "lisp")
    /\ UNCHANGED <<asked, toOpen, lastDoc, posted, main, input, output>>

Choose(t) ==
    CallOutputText(t) \/ CallUnderflow(t) \/ CharsAvailable(t) \/ CallOpenEditWindow(t)

Continue(t) ==
    \/ AddOutput(t) \/ EndOutputWait(t)
    \/ LookForInput(t) \/ AwaitInput(t) \/ TakeInput(t)
    \/ AwaitTurn(t) \/ SetDocumentToOpen(t) \/ AwaitOpened(t)

Send == AddInput \/ EndInputWait
Idle == OnIdle \/ OpenDocument

Next ==
    \/ CallProcessSource \/ Send \/ OtherMessage \/ Idle
    \/ \E t \in Threads : Choose(t) \/ Continue(t)

Spec == Init /\ [][Next]_vars

(* The threads are scheduled, and the message loop handles what is posted. *)
FairSpec == Spec /\ WF_vars(Send) /\ WF_vars(Idle) /\ \A t \in Threads : WF_vars(Continue(t))

(***************************************************************************)
(* Properties.                                                             *)
(***************************************************************************)
TypeOK ==
    /\ inBuf \in Seq(Nat) /\ unsent \in Seq(Nat) /\ taken \in Seq(Nat)
    /\ outBuf \in Seq(Threads \X Nat) /\ shown \in Seq(Threads \X Nat)
    /\ text \in [Threads -> Seq(Threads \X Nat)]
    /\ typed \in Nat /\ said \in [Threads -> Nat]
    /\ main \in {"loop", "send", "wait", "idle"}
    /\ Len(inBuf) < InSize /\ Len(outBuf) < OutSize

(* What was typed is read once, in order and without gaps: read, in the    *)
(* buffer, or still to be added (CharBuf.cpp, ProcessLispSource).          *)
InputIntact ==
    LET s == taken \o (inBuf \o unsent)
    IN  Len(s) = typed /\ \A i \in 1 .. Len(s) : s[i] = i

(* What a thread writes appears once and in its order, whatever other      *)
(* threads write in between: the part that has left it is in the worksheet *)
(* or the buffer (CoCormanLispClient::OutputText, OnIdle).                 *)
OutputIntact ==
    LET s == shown \o outBuf
    IN  /\ \A i, j \in 1 .. Len(s) : i < j /\ s[i][1] = s[j][1] => s[i][2] < s[j][2]
        /\ \A t \in Threads :
              /\ \A k \in 1 .. Len(text[t]) :
                    text[t][k] = <<t, said[t] - Len(text[t]) + k>>
              /\ \A k \in 1 .. said[t] - Len(text[t]) :
                    \E i \in 1 .. Len(s) : s[i] = <<t, k>>
              /\ \A i \in 1 .. Len(s) :
                    s[i][1] = t => s[i][2] \in 1 .. said[t] - Len(text[t])

(* No character is lost, doubled or out of place between the IDE and Lisp, *)
(* however the buffers fill and however their steps interleave.            *)
TextIntact == InputIntact /\ OutputIntact

(* A reader that saw characters takes some that are left when carriage     *)
(* returns are removed: the end of the input is never reported to Lisp     *)
(* (consoleUnderflow), however the buffer cuts lines.                      *)
NoFalseEnd == \A t \in Threads : pc[t] # "end of file"

(* OpenEditWindow returns the window of the document that it was asked for,*)
(* not of one that was opened before or for another thread.                *)
OpenedAsAsked == \A t \in Openers : doc[t] \in {None, asked[t]}

Busy(t) ==
    \/ pc[t] \in {"out", "outWait", "turn", "ask", "open"}
    \/ pc[t] \in {"look", "await", "take"} /\ inBuf # <<>>

(* As long as the thread of the user interface gets back to its message    *)
(* loop, a thread that writes or opens a document is done some time, and   *)
(* one that waits for input wakes up when there is some: no event and no   *)
(* message is lost.                                                        *)
Served == []<>(main = "loop") => \A t \in Threads : Busy(t) ~> ~Busy(t)

=============================================================================
