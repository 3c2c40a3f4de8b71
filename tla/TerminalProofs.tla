--------------------------- MODULE TerminalProofs ---------------------------
(***************************************************************************)
(* Proofs about Terminal, for any numbers of threads, sizes of the buffers *)
(* and lengths of the texts.                                               *)
(***************************************************************************)
EXTENDS Terminal, SequenceTheorems, TLAPS

Said == Threads \X Nat

(* The text that the thread of the user interface has to add is there only *)
(* while it adds it.                                                       *)
InputInv ==
    /\ inBuf \in Seq(Nat) /\ unsent \in Seq(Nat) /\ taken \in Seq(Nat) /\ typed \in Nat
    /\ Len(inBuf) < InSize
    /\ main \in {"loop", "send", "wait", "idle"}
    /\ main \in {"loop", "idle"} => unsent = <<>>
    /\ InputIntact

(* So is the text of a Lisp thread, which has not left more than it began  *)
(* to write.                                                               *)
OutputInv ==
    /\ outBuf \in Seq(Said) /\ shown \in Seq(Said)
    /\ text \in [Threads -> Seq(Said)] /\ said \in [Threads -> Nat]
    /\ Len(outBuf) < OutSize
    /\ DOMAIN pc = Threads
    /\ \A t \in Threads : /\ Len(text[t]) <= said[t]
                          /\ pc[t] \notin {"out", "outWait"} => text[t] = <<>>
    /\ OutputIntact

(* The two parts of a sequence.                                            *)
LEMMA PartsOf ==
    ASSUME NEW S, NEW s \in Seq(S), NEW n \in 0 .. Len(s)
    PROVE  /\ FirstOf(s, n) \in Seq(S) /\ RestOf(s, n) \in Seq(S)
           /\ Len(FirstOf(s, n)) = n /\ Len(RestOf(s, n)) = Len(s) - n
           /\ \A i \in 1 .. n : FirstOf(s, n)[i] = s[i]
           /\ \A i \in 1 .. Len(s) - n : RestOf(s, n)[i] = s[n + i]
           /\ FirstOf(s, n) \o RestOf(s, n) = s
<1>1. Len(s) \in Nat /\ \A i \in 1 .. Len(s) : s[i] \in S
  BY ElementOfSeq, LenProperties
<1>2. /\ FirstOf(s, n) \in Seq(S) /\ Len(FirstOf(s, n)) = n
      /\ \A i \in 1 .. n : FirstOf(s, n)[i] = s[i]
  <2>1. \A i \in 1 .. n : s[i] \in S
    BY <1>1
  <2>2. /\ SubSeq(s, 1, n) \in Seq(S)
        /\ Len(SubSeq(s, 1, n)) = IF 1 <= n THEN n - 1 + 1 ELSE 0
        /\ \A i \in 1 .. n - 1 + 1 : SubSeq(s, 1, n)[i] = s[1 + i - 1]
    BY <1>1, <2>1, SubSeqProperties
  <2> QED BY <1>1, <2>2 DEF FirstOf
<1>3. /\ RestOf(s, n) \in Seq(S) /\ Len(RestOf(s, n)) = Len(s) - n
      /\ \A i \in 1 .. Len(s) - n : RestOf(s, n)[i] = s[n + i]
  <2>1. \A i \in n + 1 .. Len(s) : s[i] \in S
    BY <1>1
  <2>2. /\ SubSeq(s, n + 1, Len(s)) \in Seq(S)
        /\ Len(SubSeq(s, n + 1, Len(s)))
              = IF n + 1 <= Len(s) THEN Len(s) - (n + 1) + 1 ELSE 0
        /\ \A i \in 1 .. Len(s) - (n + 1) + 1 :
              SubSeq(s, n + 1, Len(s))[i] = s[(n + 1) + i - 1]
    BY <1>1, <2>1, SubSeqProperties
  <2> QED BY <1>1, <2>2 DEF RestOf
<1>4. SubSeq(s, 1, n) \o SubSeq(s, n + 1, Len(s)) = SubSeq(s, 1, Len(s))
  <2>1. 1 \in 1 .. Len(s) + 1 /\ n \in 1 - 1 .. Len(s) /\ Len(s) \in n .. Len(s)
    BY <1>1
  <2> QED BY <2>1, ConcatAdjacentSubSeq
<1>5. SubSeq(s, 1, Len(s)) = s
  BY SubSeqFull
<1> QED BY <1>2, <1>3, <1>4, <1>5 DEF FirstOf, RestOf

(* Brackets in a concatenation can be moved.                               *)
Grouped(a, b, c) == (a \o b) \o c = a \o (b \o c)

LEMMA Regroup == \A a, b, c \in Seq(Nat) : Grouped(a, b, c)
BY ConcatAssociative, SMTT(60) DEF Grouped

(* addChars: the same text, some of it now in the buffer.                   *)
SameIn(a, b, c, n) == a \o ((b \o FirstOf(c, n)) \o RestOf(c, n)) = a \o (b \o c)

LEMMA MovedIn ==
    \A a, b, c \in Seq(Nat) : \A n \in 0 .. Len(c) : SameIn(a, b, c, n)
<1> SUFFICES ASSUME NEW a \in Seq(Nat), NEW b \in Seq(Nat), NEW c \in Seq(Nat), NEW n \in 0 .. Len(c)
             PROVE  SameIn(a, b, c, n)
  OBVIOUS
<1>1. FirstOf(c, n) \in Seq(Nat) /\ RestOf(c, n) \in Seq(Nat) /\ FirstOf(c, n) \o RestOf(c, n) = c
  BY PartsOf
<1>2. Grouped(b, FirstOf(c, n), RestOf(c, n))
  BY <1>1, Regroup
<1> QED BY <1>1, <1>2 DEF Grouped, SameIn

(* getChars: the same text, some of it no longer in the buffer.             *)
SameOut(a, b, c, n) == (a \o FirstOf(b, n)) \o (RestOf(b, n) \o c) = a \o (b \o c)

LEMMA MovedOut ==
    \A a, b, c \in Seq(Nat) : \A n \in 0 .. Len(b) : SameOut(a, b, c, n)
<1> SUFFICES ASSUME NEW a \in Seq(Nat), NEW b \in Seq(Nat), NEW c \in Seq(Nat), NEW n \in 0 .. Len(b)
             PROVE  SameOut(a, b, c, n)
  OBVIOUS
<1> DEFINE f == FirstOf(b, n)
           r == RestOf(b, n)
<1>1. f \in Seq(Nat) /\ r \in Seq(Nat) /\ f \o r = b
  BY PartsOf
<1>2. r \o c \in Seq(Nat)
  BY <1>1, ConcatProperties
<1> HIDE DEF f, r
<1>3. Grouped(a, f, r \o c)
  BY <1>1, <1>2, Regroup
<1>4. Grouped(f, r, c)
  BY <1>1, Regroup
<1>5. (a \o f) \o (r \o c) = a \o (b \o c)
  BY <1>1, <1>3, <1>4 DEF Grouped
<1> QED BY <1>5 DEF SameOut, f, r

(* addChars takes no more than there is and leaves room for one byte.      *)
LEMMA FittingFits ==
    ASSUME NEW S, NEW buf \in Seq(S), NEW size \in Nat, NEW chars \in Seq(S), Len(buf) < size
    PROVE  /\ Fitting(buf, size, chars) \in 0 .. Len(chars)
           /\ Len(buf) + Fitting(buf, size, chars) < size
<1>1. Len(buf) \in Nat /\ Len(chars) \in Nat
  BY LenProperties
<1> QED BY <1>1 DEF Fitting, Lesser

(* strcpy copies the whole buffer when no written character is zero.        *)
LEMMA AllUpToZero ==
    ASSUME Zeros = {}, NEW S, NEW s \in Seq(S)
    PROVE  UpToZero(s) = s
<1>1. Len(s) \in Nat
  BY LenProperties
<1> DEFINE P(n) == /\ \A i \in 1 .. n : s[i] \notin Zeros
                   /\ n < Len(s) => s[n + 1] \in Zeros
<1>2. Len(s) \in 0 .. Len(s) /\ P(Len(s))
  BY <1>1
<1>3. \A n \in 0 .. Len(s) : P(n) => n = Len(s)
  BY <1>1
<1>4. (CHOOSE n \in 0 .. Len(s) : P(n)) = Len(s)
  BY <1>2, <1>3
<1>5. UpToZero(s) = FirstOf(s, Len(s))
  BY <1>4 DEF UpToZero
<1> QED BY <1>5, SubSeqFull DEF FirstOf

(***************************************************************************)
(* The input.                                                              *)
(***************************************************************************)
(* The numbered text.                                                      *)
Numbered(s, n) == Len(s) = n /\ \A i \in 1 .. Len(s) : s[i] = i

(* What is typed next continues the numbers.                               *)
LEMMA NumberedOn ==
    ASSUME NEW a \in Seq(Nat), NEW b \in Seq(Nat), NEW c \in Seq(Nat), NEW m \in Nat, NEW n \in Nat,
           Numbered(a \o (b \o <<>>), m),
           Len(c) = n, \A i \in 1 .. n : c[i] = m + i
    PROVE  Numbered(a \o (b \o c), m + n)
<1>1. b \o <<>> = b
  BY ConcatEmptySeq
<1>2. a \o b \in Seq(Nat) /\ Numbered(a \o b, m)
  BY <1>1, ConcatProperties
<1>3. (a \o b) \o c = a \o (b \o c)
  BY ConcatAssociative, SMTT(60)
<1>4. ASSUME NEW s \in Seq(Nat), Numbered(s, m)
      PROVE  Numbered(s \o c, m + n)
  <2>1. Len(s) = m /\ \A i \in 1 .. m : s[i] = i
    BY <1>4 DEF Numbered
  <2>2. /\ Len(s \o c) = Len(s) + Len(c)
        /\ \A i \in 1 .. Len(s) + Len(c) :
              (s \o c)[i] = IF i <= Len(s) THEN s[i] ELSE c[i - Len(s)]
    BY <1>4, ConcatProperties
  <2>3. /\ Len(s \o c) = m + n
        /\ \A i \in 1 .. m + n : (s \o c)[i] = IF i <= m THEN s[i] ELSE c[i - m]
    BY <2>1, <2>2
  <2> QED BY <2>1, <2>3 DEF Numbered
<1> QED BY <1>2, <1>3, <1>4

(* InputIntact says that the text is numbered.                             *)
LEMMA InputNumbered == InputIntact <=> Numbered(taken \o (inBuf \o unsent), typed)
BY DEF InputIntact, Numbered

(* Typing keeps the invariant of the input.                                *)
LEMMA CallProcessSourceKeepsInput == InputInv /\ CallProcessSource => InputInv'
<1> SUFFICES ASSUME InputInv, CallProcessSource PROVE InputInv'
  OBVIOUS
<1> USE DEF InputInv
<1>1. PICK n \in 1 .. MaxTyped - typed : /\ unsent' = [i \in 1 .. n |-> typed + i]
                                         /\ typed' = typed + n
  BY DEF CallProcessSource
<1>2. /\ unsent = <<>> /\ main' = "send" /\ inBuf' = inBuf /\ taken' = taken
  BY DEF CallProcessSource
<1>3. n \in Nat /\ MaxTyped \in Nat
  BY BoundsAssumption
<1>4. unsent' \in Seq(Nat) /\ Len(unsent') = n /\ \A i \in 1 .. n : unsent'[i] = typed + i
  BY <1>1, <1>3
<1>5. Numbered(taken \o (inBuf \o <<>>), typed)
  BY <1>2, InputNumbered
<1>6. Numbered(taken \o (inBuf \o unsent'), typed + n)
  BY <1>3, <1>4, <1>5, NumberedOn
<1>7. InputIntact'
  BY <1>1, <1>2, <1>6 DEF InputIntact, Numbered
<1> QED BY <1>1, <1>2, <1>3, <1>4, <1>7

(* So does moving what was typed into the buffer.                          *)
LEMMA AddInputKeepsInput == InputInv /\ AddInput => InputInv'
<1> SUFFICES ASSUME InputInv, AddInput PROVE InputInv'
  OBVIOUS
<1>0. /\ inBuf \in Seq(Nat) /\ unsent \in Seq(Nat) /\ taken \in Seq(Nat) /\ typed \in Nat
      /\ Len(inBuf) < InSize /\ InputIntact
      /\ main \in {"loop", "send", "wait", "idle"}
      /\ main \in {"loop", "idle"} => unsent = <<>>
  BY DEF InputInv
<1> DEFINE n == Fitting(inBuf, InSize, unsent)
<1>1. /\ inBuf' = inBuf \o FirstOf(unsent, n) /\ unsent' = RestOf(unsent, n)
      /\ main' = IF n = 0 THEN "wait" ELSE IF n < Len(unsent) THEN "send" ELSE "loop"
      /\ taken' = taken /\ typed' = typed
  BY DEF AddInput
<1>2. n \in 0 .. Len(unsent) /\ Len(inBuf) + n < InSize
  BY <1>0, FittingFits, BuffersAssumption
<1> HIDE DEF n
<1>3. /\ FirstOf(unsent, n) \in Seq(Nat) /\ RestOf(unsent, n) \in Seq(Nat)
      /\ Len(FirstOf(unsent, n)) = n /\ Len(RestOf(unsent, n)) = Len(unsent) - n
  BY <1>0, <1>2, PartsOf
<1>4. inBuf' \in Seq(Nat) /\ Len(inBuf') < InSize
  BY <1>0, <1>1, <1>2, <1>3, ConcatProperties
<1>5. main' = "loop" => unsent' = <<>>
  BY <1>0, <1>1, <1>2, <1>3, EmptySeq
<1>6. taken' \o (inBuf' \o unsent') = taken \o (inBuf \o unsent)
  <2>1. taken \o ((inBuf \o FirstOf(unsent, n)) \o RestOf(unsent, n)) = taken \o (inBuf \o unsent)
    <3>1. SameIn(taken, inBuf, unsent, n)
      BY <1>0, <1>2, MovedIn
    <3> QED BY <3>1 DEF SameIn
  <2> QED BY <1>1, <2>1, Zenon
<1>7. InputIntact'
  BY <1>0, <1>1, <1>6 DEF InputIntact
<1> QED BY <1>0, <1>1, <1>3, <1>4, <1>5, <1>7 DEF InputInv

(* So does reading from the buffer.                                        *)
LEMMA TakeInputKeepsInput ==
    ASSUME NEW t \in Threads, InputInv, TakeInput(t)
    PROVE  InputInv'
<1>0. /\ inBuf \in Seq(Nat) /\ unsent \in Seq(Nat) /\ taken \in Seq(Nat) /\ typed \in Nat
      /\ Len(inBuf) < InSize /\ InputIntact
      /\ main \in {"loop", "send", "wait", "idle"}
      /\ main \in {"loop", "idle"} => unsent = <<>>
  BY DEF InputInv
<1> DEFINE n == Lesser(Len(inBuf), LineSize)
<1>1. /\ taken' = taken \o FirstOf(inBuf, n) /\ inBuf' = RestOf(inBuf, n)
      /\ unsent' = unsent /\ main' = main /\ typed' = typed
  BY DEF TakeInput
<1>2. Len(inBuf) \in Nat /\ n \in 0 .. Len(inBuf)
  BY <1>0, BuffersAssumption, LenProperties DEF Lesser
<1> HIDE DEF n
<1>3. /\ FirstOf(inBuf, n) \in Seq(Nat) /\ RestOf(inBuf, n) \in Seq(Nat)
      /\ Len(RestOf(inBuf, n)) = Len(inBuf) - n
  BY <1>0, <1>2, PartsOf
<1>4. taken' \in Seq(Nat) /\ Len(inBuf') < InSize
  BY <1>0, <1>1, <1>2, <1>3, ConcatProperties, BuffersAssumption
<1>5. taken' \o (inBuf' \o unsent') = taken \o (inBuf \o unsent)
  <2>1. (taken \o FirstOf(inBuf, n)) \o (RestOf(inBuf, n) \o unsent) = taken \o (inBuf \o unsent)
    <3>1. SameOut(taken, inBuf, unsent, n)
      BY <1>0, <1>2, MovedOut
    <3> QED BY <3>1 DEF SameOut
  <2> QED BY <1>1, <2>1, Zenon
<1>6. InputIntact'
  BY <1>0, <1>1, <1>5 DEF InputIntact
<1> QED BY <1>0, <1>1, <1>3, <1>4, <1>6 DEF InputInv

(* The other steps leave the input alone.                                   *)
LEMMA OthersKeepInput ==
    ASSUME InputInv, UNCHANGED <<inBuf, unsent, typed, taken>>,
           \/ main' = main
           \/ main \in {"loop", "idle"} /\ main' \in {"loop", "idle"}
           \/ main = "wait" /\ main' = "send"
    PROVE  InputInv'
<1>1. main' \in {"loop", "send", "wait", "idle"} /\ (main' \in {"loop", "idle"} => unsent' = <<>>)
  BY DEF InputInv
<1>2. InputIntact'
  BY DEF InputInv, InputIntact
<1> QED BY <1>1, <1>2 DEF InputInv

(* The invariant of the input is inductive.                                *)
LEMMA InputSteps == InputInv /\ [Next]_vars => InputInv'
<1> SUFFICES ASSUME InputInv, [Next]_vars PROVE InputInv'
  OBVIOUS
<1> USE DEF input
<1>1. CASE CallProcessSource
  BY <1>1, CallProcessSourceKeepsInput
<1>2. CASE AddInput
  BY <1>2, AddInputKeepsInput
<1>3. CASE EndInputWait
  BY <1>3, OthersKeepInput DEF EndInputWait
<1>4. CASE OtherMessage
  BY <1>4, OthersKeepInput DEF OtherMessage
<1>5. CASE OnIdle
  BY <1>5, OthersKeepInput DEF OnIdle
<1>6. CASE OpenDocument
  BY <1>6, OthersKeepInput DEF OpenDocument
<1>7. ASSUME NEW t \in Threads, Choose(t)
      PROVE  InputInv'
  BY <1>7, OthersKeepInput
     DEF Choose, CallOutputText, CallUnderflow, CharsAvailable, CallOpenEditWindow
<1>8. ASSUME NEW t \in Threads, Continue(t)
      PROVE  InputInv'
  <2>1. CASE TakeInput(t)
    BY <2>1, TakeInputKeepsInput
  <2>2. CASE ~TakeInput(t)
    BY <1>8, <2>2, OthersKeepInput
       DEF Continue, AddOutput, EndOutputWait, LookForInput, AwaitInput, AwaitTurn,
           SetDocumentToOpen, AwaitOpened
  <2> QED BY <2>1, <2>2
<1>9. CASE UNCHANGED vars
  BY <1>9, OthersKeepInput DEF vars
<1> QED BY <1>1, <1>2, <1>3, <1>4, <1>5, <1>6, <1>7, <1>8, <1>9 DEF Next, Send, Idle

(***************************************************************************)
(* The output.                                                             *)
(***************************************************************************)
(* What each thread has left: all but the text it still has to add.        *)
Left == [t \in Threads |-> said[t] - Len(text[t])]

(* The text s holds what the threads have left.                            *)
Holds(s, left) ==
    /\ \A i, j \in 1 .. Len(s) : i < j /\ s[i][1] = s[j][1] => s[i][2] < s[j][2]
    /\ \A t \in Threads : \A k \in 1 .. left[t] : \E i \in 1 .. Len(s) : s[i] = <<t, k>>
    /\ \A t \in Threads : \A i \in 1 .. Len(s) : s[i][1] = t => s[i][2] \in 1 .. left[t]

Following(t) == \A k \in 1 .. Len(text[t]) : text[t][k] = <<t, Left[t] + k>>

(* The two parts of OutputIntact: what has left the threads, and what      *)
(* follows.                                                                *)
LEMMA OutputParts ==
    OutputIntact <=> Holds(shown \o outBuf, Left) /\ \A t \in Threads : Following(t)
BY DEF OutputIntact, Holds, Following, Left

(* What is added to s is what follows in the text of t.                     *)
LEMMA HoldsFurther ==
    ASSUME NEW t \in Threads, NEW s \in Seq(Said), NEW f \in Seq(Said),
           NEW old \in [Threads -> Nat], NEW new \in [Threads -> Nat],
           Holds(s, old), \A i \in 1 .. Len(f) : f[i] = <<t, old[t] + i>>,
           new[t] = old[t] + Len(f), \A u \in Threads \ {t} : new[u] = old[u]
    PROVE  Holds(s \o f, new)
<1> DEFINE s2 == s \o f
           b == old[t]
           m == Len(s)
           n == Len(f)
<1>1. b \in Nat /\ m \in Nat /\ n \in Nat
  BY LenProperties
<1>2. Len(s2) = m + n /\ \A i \in 1 .. m + n : s2[i] = IF i <= m THEN s[i] ELSE f[i - m]
  BY ConcatProperties
<1>3. \A i \in 1 .. m : s2[i] = s[i]
  BY <1>1, <1>2
<1>4. \A i \in m + 1 .. m + n : s2[i] = <<t, b + (i - m)>>
  BY <1>1, <1>2
<1>5. new[t] = b + n
  OBVIOUS
<1>6. /\ \A i, j \in 1 .. m : i < j /\ s[i][1] = s[j][1] => s[i][2] < s[j][2]
      /\ \A u \in Threads : \A k \in 1 .. old[u] : \E i \in 1 .. m : s[i] = <<u, k>>
      /\ \A u \in Threads : \A i \in 1 .. m : s[i][1] = u => s[i][2] \in 1 .. old[u]
  BY DEF Holds
<1>7. \A i \in 1 .. m : s[i][1] = t => s[i][2] \in 1 .. b
  BY <1>6
<1>8. \A u \in Threads : old[u] \in Nat
  OBVIOUS
<1> HIDE DEF b, m, n, s2
<1>9. ASSUME NEW i \in 1 .. m + n, NEW j \in 1 .. m + n, i < j, s2[i][1] = s2[j][1]
      PROVE  s2[i][2] < s2[j][2]
  <2>1. CASE j \in 1 .. m
    <3>1. i \in 1 .. m
      BY <1>1, <1>9, <2>1
    <3>2. s2[i] = s[i] /\ s2[j] = s[j]
      BY <1>3, <2>1, <3>1
    <3> QED BY <1>6, <1>9, <2>1, <3>1, <3>2
  <2>2. CASE i \in m + 1 .. m + n
    <3>1. j \in m + 1 .. m + n
      BY <1>1, <1>9, <2>2
    <3>2. s2[i][2] = b + (i - m) /\ s2[j][2] = b + (j - m)
      BY <1>4, <2>2, <3>1
    <3> QED BY <1>1, <1>9, <3>2
  <2>3. CASE j \in m + 1 .. m + n /\ i \in 1 .. m
    <3>1. s2[j] = <<t, b + (j - m)>> /\ s2[i] = s[i]
      BY <1>3, <1>4, <2>3
    <3>2. s[i][2] \in 1 .. b
      BY <1>7, <1>9, <2>3, <3>1
    <3>3. s2[j][2] = b + (j - m) /\ j - m >= 1
      BY <1>1, <2>3, <3>1
    <3> QED BY <1>1, <3>1, <3>2, <3>3
  <2> QED BY <1>1, <2>1, <2>2, <2>3
<1>10. ASSUME NEW u \in Threads, NEW k \in 1 .. new[u]
       PROVE  \E i \in 1 .. m + n : s2[i] = <<u, k>>
  <2>1. CASE k \in 1 .. old[u]
    <3>1. PICK i \in 1 .. m : s[i] = <<u, k>>
      BY <1>6, <2>1
    <3>2. s2[i] = <<u, k>> /\ i \in 1 .. m + n
      BY <1>1, <1>3, <3>1
    <3> QED BY <3>2
  <2>2. CASE u = t /\ k \in b + 1 .. b + n
    <3>1. m + (k - b) \in m + 1 .. m + n /\ b + ((m + (k - b)) - m) = k
      BY <1>1, <2>2
    <3>2. s2[m + (k - b)] = <<t, b + ((m + (k - b)) - m)>>
      BY <1>4, <3>1
    <3>3. m + (k - b) \in 1 .. m + n
      BY <1>1, <3>1
    <3> QED BY <2>2, <3>1, <3>2, <3>3
  <2>3. u = t => old[u] = b
    BY DEF b
  <2>4. u # t => k \in 1 .. old[u]
    OBVIOUS
  <2>5. u = t => k \in 1 .. b + n
    BY <1>5
  <2> QED BY <1>1, <2>1, <2>2, <2>3, <2>4, <2>5
<1>11. ASSUME NEW u \in Threads, NEW i \in 1 .. m + n, s2[i][1] = u
       PROVE  s2[i][2] \in 1 .. new[u]
  <2>1. CASE i \in 1 .. m
    <3>1. s2[i][2] \in 1 .. old[u]
      BY <1>3, <1>6, <1>11, <2>1
    <3>2. old[u] <= new[u] /\ new[u] \in Nat
      <4>1. new[t] >= old[t]
        BY <1>1, <1>5 DEF b
      <4>2. u # t => new[u] = old[u]
        OBVIOUS
      <4> QED BY <1>8, <4>1, <4>2
    <3> QED BY <1>8, <3>1, <3>2
  <2>2. CASE i \in m + 1 .. m + n
    <3>1. s2[i][1] = t /\ s2[i][2] = b + (i - m)
      BY <1>4, <2>2
    <3>2. b + (i - m) \in 1 .. b + n
      BY <1>1, <2>2
    <3> QED BY <1>5, <1>11, <3>1, <3>2
  <2> QED BY <1>1, <2>1, <2>2
<1>12. Holds(s2, new)
  BY <1>2, <1>9, <1>10, <1>11 DEF Holds
<1> QED BY <1>12 DEF s2

(* What a thread has begun to write has left it or is still its text.      *)
LEMMA LeftTypes ==
    ASSUME OutputInv
    PROVE  /\ Left \in [Threads -> Nat]
           /\ \A t \in Threads : /\ text[t] \in Seq(Said) /\ Len(text[t]) \in Nat
                                 /\ said[t] \in Nat /\ said[t] = Left[t] + Len(text[t])
<1> SUFFICES ASSUME NEW t \in Threads
             PROVE  /\ text[t] \in Seq(Said) /\ Len(text[t]) \in Nat
                    /\ said[t] \in Nat /\ said[t] - Len(text[t]) \in Nat
  BY DEF Left
<1>1. text[t] \in Seq(Said) /\ said[t] \in Nat /\ Len(text[t]) <= said[t]
  BY DEF OutputInv
<1>2. Len(text[t]) \in Nat
  BY <1>1, LenProperties
<1> QED BY <1>1, <1>2

(* What OutputInv needs of a step.                                          *)
LEMMA OutputInvNext ==
    ASSUME outBuf' \in Seq(Said), shown' \in Seq(Said), Len(outBuf') < OutSize,
           DOMAIN text' = Threads, DOMAIN said' = Threads, DOMAIN pc' = Threads,
           text' = [t \in Threads |-> text'[t]], said' = [t \in Threads |-> said'[t]],
           Holds(shown \o outBuf, Left)',
           \A t \in Threads : /\ text'[t] \in Seq(Said) /\ said'[t] \in Nat
                              /\ Len(text'[t]) <= said'[t]
                              /\ pc'[t] \notin {"out", "outWait"} => text'[t] = <<>>
                              /\ Following(t)'
    PROVE  OutputInv'
<1>1. text' \in [Threads -> Seq(Said)] /\ said' \in [Threads -> Nat]
  OBVIOUS
<1>2. OutputIntact'
  BY DEF OutputIntact, Holds, Following, Left
<1> QED BY <1>1, <1>2 DEF OutputInv

(* A thread that begins to write keeps the invariant of the output.        *)
LEMMA CallOutputTextKeepsOutput ==
    ASSUME NEW t \in Threads, OutputInv, CallOutputText(t)
    PROVE  OutputInv'
<1>1. PICK n \in 1 .. MaxSaid - said[t] :
         /\ text' = [text EXCEPT ![t] = [i \in 1 .. n |-> <<t, said[t] + i>>]]
         /\ said' = [said EXCEPT ![t] = @ + n]
  BY DEF CallOutputText
<1>2. /\ outBuf' = outBuf /\ shown' = shown
      /\ pc[t] = "lisp" /\ pc' = [pc EXCEPT ![t] = "out"]
  BY DEF CallOutputText, Runs, Goes
<1>3. /\ text[t] = <<>> /\ DOMAIN text = Threads /\ DOMAIN said = Threads /\ DOMAIN pc = Threads
  BY <1>2 DEF OutputInv
<1>4. said[t] \in Nat /\ n \in Nat
  BY LeftTypes, BoundsAssumption
<1>5. /\ text'[t] \in Seq(Said) /\ Len(text'[t]) = n
      /\ \A k \in 1 .. n : text'[t][k] = <<t, said[t] + k>>
  <2>1. text'[t] = [i \in 1 .. n |-> <<t, said[t] + i>>]
    BY <1>1, <1>3
  <2> QED BY <2>1, <1>4 DEF Said
<1>6. said'[t] = said[t] + n
  BY <1>1, <1>3
<1>7. \A u \in Threads \ {t} : text'[u] = text[u] /\ said'[u] = said[u] /\ pc'[u] = pc[u]
  BY <1>1, <1>2, <1>3
<1>8. pc'[t] = "out"
  BY <1>2, <1>3
<1>9. Left' = Left
  <2>1. said'[t] - Len(text'[t]) = said[t] - Len(text[t])
    BY <1>3, <1>4, <1>5, <1>6, EmptySeq
  <2>2. \A u \in Threads : said'[u] - Len(text'[u]) = said[u] - Len(text[u])
    BY <1>7, <2>1
  <2> QED BY <2>2 DEF Left
<1>10. Left[t] = said[t]
  BY <1>3, <1>4, EmptySeq DEF Left
<1>11. ASSUME NEW u \in Threads
       PROVE  /\ text'[u] \in Seq(Said) /\ said'[u] \in Nat
              /\ Len(text'[u]) <= said'[u]
              /\ pc'[u] \notin {"out", "outWait"} => text'[u] = <<>>
              /\ Following(u)'
  <2>1. CASE u = t
    BY <1>4, <1>5, <1>6, <1>8, <1>9, <1>10, <2>1 DEF Following
  <2>2. CASE u # t
    BY <1>7, <1>9, <2>2, OutputParts DEF OutputInv, Following
  <2> QED BY <2>1, <2>2
<1>12. Holds(shown \o outBuf, Left)'
  BY ZenonT(40), <1>2, <1>9, OutputParts DEF Holds, OutputInv
<1>13. /\ DOMAIN text' = Threads /\ DOMAIN said' = Threads /\ DOMAIN pc' = Threads
       /\ text' = [u \in Threads |-> text'[u]] /\ said' = [u \in Threads |-> said'[u]]
  BY <1>1, <1>2, <1>3
<1>14. outBuf' \in Seq(Said) /\ shown' \in Seq(Said) /\ Len(outBuf') < OutSize
  BY <1>2 DEF OutputInv
<1> QED BY <1>11, <1>12, <1>13, <1>14, OutputInvNext

(* So does moving what it writes into the buffer.                          *)
LEMMA AddOutputKeepsOutput ==
    ASSUME NEW t \in Threads, OutputInv, AddOutput(t)
    PROVE  OutputInv'
<1> DEFINE n == Fitting(outBuf, OutSize, text[t])
           f == FirstOf(text[t], n)
           r == RestOf(text[t], n)
<1>1. /\ outBuf' = outBuf \o f /\ text' = [text EXCEPT ![t] = RestOf(@, n)]
      /\ pc' = [pc EXCEPT ![t] = IF n = 0 THEN "outWait"
                                          ELSE IF n < Len(text[t]) THEN "out" ELSE "lisp"]
      /\ said' = said /\ shown' = shown
  BY DEF AddOutput, Goes
<1>2. /\ outBuf \in Seq(Said) /\ shown \in Seq(Said) /\ Len(outBuf) < OutSize
      /\ DOMAIN text = Threads /\ DOMAIN said = Threads /\ DOMAIN pc = Threads
  BY DEF OutputInv
<1>3. /\ text[t] \in Seq(Said) /\ Len(text[t]) \in Nat /\ said[t] \in Nat
      /\ said[t] = Left[t] + Len(text[t]) /\ Left[t] \in Nat /\ Left \in [Threads -> Nat]
  BY LeftTypes
<1>4. n \in 0 .. Len(text[t]) /\ Len(outBuf) + n < OutSize
  BY <1>2, <1>3, FittingFits, BuffersAssumption
<1>5. /\ text'[t] = r /\ said'[t] = said[t]
      /\ pc'[t] = IF n = 0 THEN "outWait" ELSE IF n < Len(text[t]) THEN "out" ELSE "lisp"
      /\ \A u \in Threads \ {t} : text'[u] = text[u] /\ said'[u] = said[u] /\ pc'[u] = pc[u]
  BY <1>1, <1>2
<1>6. /\ DOMAIN text' = Threads /\ DOMAIN said' = Threads /\ DOMAIN pc' = Threads
      /\ text' = [u \in Threads |-> text'[u]] /\ said' = [u \in Threads |-> said'[u]]
  <2>1. text' = [u \in Threads |-> text'[u]]
    BY <1>1, <1>2
  <2>2. said' = [u \in Threads |-> said'[u]]
    BY <1>1 DEF OutputInv
  <2> QED BY <1>1, <1>2, <2>1, <2>2
<1> HIDE DEF n
<1>7. /\ f \in Seq(Said) /\ r \in Seq(Said) /\ Len(f) = n /\ Len(r) = Len(text[t]) - n
      /\ \A i \in 1 .. n : f[i] = text[t][i]
      /\ \A i \in 1 .. Len(text[t]) - n : r[i] = text[t][n + i]
  <2> SUFFICES ASSUME NEW s \in Seq(Said), s = text[t], NEW m \in 0 .. Len(s), m = n
               PROVE  /\ FirstOf(s, m) \in Seq(Said) /\ RestOf(s, m) \in Seq(Said)
                      /\ Len(FirstOf(s, m)) = m /\ Len(RestOf(s, m)) = Len(s) - m
                      /\ \A i \in 1 .. m : FirstOf(s, m)[i] = s[i]
                      /\ \A i \in 1 .. Len(s) - m : RestOf(s, m)[i] = s[m + i]
    BY <1>3, <1>4
  <2> QED BY ZenonT(40), PartsOf
<1> HIDE DEF f, r
<1>8. outBuf' \in Seq(Said) /\ Len(outBuf') < OutSize
  BY <1>1, <1>2, <1>4, <1>7, ConcatProperties
<1>9. /\ Left'[t] = Left[t] + n
      /\ \A u \in Threads \ {t} : Left'[u] = Left[u]
      /\ Left' \in [Threads -> Nat]
  <2>1. Left' = [u \in Threads |-> said'[u] - Len(text'[u])]
    BY DEF Left
  <2>2. said'[t] - Len(text'[t]) = Left[t] + n
    BY <1>3, <1>4, <1>5, <1>7
  <2>3. \A u \in Threads \ {t} : said'[u] - Len(text'[u]) = Left[u]
    BY <1>5 DEF Left
  <2>4. Left'[t] = Left[t] + n /\ \A u \in Threads \ {t} : Left'[u] = Left[u]
    BY <2>1, <2>2, <2>3
  <2>5. \A u \in Threads : Left'[u] \in Nat
    BY <1>3, <1>4, <2>4
  <2> QED BY <2>1, <2>4, <2>5
<1>10. \A k \in 1 .. Len(text[t]) : text[t][k] = <<t, Left[t] + k>>
  BY OutputParts DEF OutputInv, Following
<1>11. ASSUME NEW u \in Threads
       PROVE  /\ text'[u] \in Seq(Said) /\ said'[u] \in Nat
              /\ Len(text'[u]) <= said'[u]
              /\ pc'[u] \notin {"out", "outWait"} => text'[u] = <<>>
              /\ Following(u)'
  <2>1. CASE u = t
    <3>1. pc'[t] = "lisp" => r = <<>>
      BY <1>3, <1>4, <1>5, <1>7, EmptySeq
    <3>2. Len(r) <= said'[t]
      BY <1>3, <1>4, <1>5, <1>7
    <3>3. ASSUME NEW k \in 1 .. Len(r)
          PROVE  r[k] = <<t, Left'[t] + k>>
      <4>1. n + k \in 1 .. Len(text[t]) /\ r[k] = text[t][n + k]
        BY SMTT(30), <1>3, <1>4, <1>7
      <4>2. text[t][n + k] = <<t, Left[t] + (n + k)>>
        BY <1>10, <4>1
      <4>3. Left[t] + (n + k) = Left'[t] + k
        BY <1>3, <1>4, <1>9
      <4> QED BY <4>1, <4>2, <4>3
    <3>4. Following(t)'
      BY <1>5, <3>3 DEF Following
    <3> QED BY <1>3, <1>5, <1>7, <2>1, <3>1, <3>2, <3>4
  <2>2. CASE u # t
    <3>1. Following(u)'
      BY SMTT(30), <1>5, <1>9, <2>2, OutputParts DEF OutputInv, Following
    <3> QED BY <1>5, <2>2, <3>1 DEF OutputInv
  <2> QED BY <2>1, <2>2
<1>12. Holds(shown \o outBuf, Left)'
  <2>1. shown \o outBuf \in Seq(Said) /\ Holds(shown \o outBuf, Left)
    BY <1>2, OutputParts, ConcatProperties DEF OutputInv
  <2>2. \A i \in 1 .. Len(f) : f[i] = <<t, Left[t] + i>>
    <3>1. \A i \in 1 .. n : f[i] = text[t][i] /\ i \in 1 .. Len(text[t])
      BY <1>3, <1>4, <1>7
    <3> QED BY <1>7, <1>10, <3>1
  <2>3. Holds((shown \o outBuf) \o f, Left')
    BY ZenonT(40), <1>3, <1>7, <1>9, <2>1, <2>2, HoldsFurther
  <2>4. (shown \o outBuf) \o f = shown \o (outBuf \o f)
    BY <1>2, <1>7, ConcatAssociative, SMTT(60)
  <2>5. Holds(shown' \o outBuf', Left')
    BY <1>1, <2>3, <2>4
  <2> QED BY <2>5 DEF Holds
<1> QED BY <1>1, <1>2, <1>6, <1>8, <1>11, <1>12, OutputInvNext

(* A step that leaves what has been written as it is.                       *)
LEMMA OthersKeepOutput ==
    ASSUME OutputInv, text' = text, said' = said, DOMAIN pc' = Threads,
           \A t \in Threads : pc'[t] \notin {"out", "outWait"} => text[t] = <<>>,
           outBuf' \in Seq(Said), shown' \in Seq(Said), Len(outBuf') < OutSize,
           shown' \o outBuf' = shown \o outBuf
    PROVE  OutputInv'
<1>1. Left' = Left
  BY DEF Left
<1>2. Holds(shown \o outBuf, Left) /\ \A t \in Threads : Following(t)
  BY OutputParts DEF OutputInv
<1>3. Holds(shown' \o outBuf', Left')
  BY <1>1, <1>2
<1>4. /\ text' = [t \in Threads |-> text'[t]] /\ said' = [t \in Threads |-> said'[t]]
      /\ DOMAIN text' = Threads /\ DOMAIN said' = Threads
  BY DEF OutputInv
<1>5. \A t \in Threads : Following(t)'
  BY <1>1, <1>2 DEF Following
<1>6. Holds(shown \o outBuf, Left)'
  BY <1>3 DEF Holds
<1>7. \A t \in Threads : /\ text'[t] \in Seq(Said) /\ said'[t] \in Nat
                         /\ Len(text'[t]) <= said'[t]
                         /\ pc'[t] \notin {"out", "outWait"} => text'[t] = <<>>
  BY DEF OutputInv
<1> QED BY <1>4, <1>5, <1>6, <1>7, OutputInvNext

(* So does showing what is in the buffer, when no character is zero.       *)
LEMMA OnIdleKeepsOutput ==
    ASSUME Zeros = {}, OutputInv, OnIdle
    PROVE  OutputInv'
<1>1. /\ outBuf \in Seq(Said) /\ shown \in Seq(Said)
      /\ DOMAIN pc = Threads
      /\ \A t \in Threads : pc[t] \notin {"out", "outWait"} => text[t] = <<>>
  BY DEF OutputInv
<1>2. /\ shown' = shown \o UpToZero(outBuf) /\ outBuf' = <<>>
      /\ text' = text /\ said' = said /\ pc' = pc
  BY DEF OnIdle
<1>3. UpToZero(outBuf) = outBuf
  BY <1>1, AllUpToZero
<1>4. shown \o outBuf \in Seq(Said) /\ (shown \o outBuf) \o <<>> = shown \o outBuf
  BY <1>1, ConcatProperties, ConcatEmptySeq
<1>5. outBuf' \in Seq(Said) /\ Len(outBuf') < OutSize /\ shown' \in Seq(Said)
  BY <1>2, <1>3, <1>4, EmptySeq, BuffersAssumption
<1>6. shown' \o outBuf' = shown \o outBuf
  BY <1>2, <1>3, <1>4
<1> QED BY <1>1, <1>2, <1>5, <1>6, OthersKeepOutput

(* Steps of a thread that neither writes nor has text to add, and steps     *)
(* that leave the threads alone.                                            *)
LEMMA QuietSteps ==
    ASSUME OutputInv, UNCHANGED <<outBuf, text, said, shown>>,
           \/ pc' = pc
           \/ \E t \in Threads, to \in {"out", "look", "await", "take", "lisp", "end of file",
                                        "turn", "ask", "open"} :
                 /\ pc' = [pc EXCEPT ![t] = to]
                 /\ to = "out" \/ pc[t] \notin {"out", "outWait"}
    PROVE  OutputInv'
<1>1. /\ outBuf \in Seq(Said) /\ shown \in Seq(Said) /\ Len(outBuf) < OutSize
      /\ DOMAIN pc = Threads
      /\ \A t \in Threads : pc[t] \notin {"out", "outWait"} => text[t] = <<>>
  BY DEF OutputInv
<1>2. /\ DOMAIN pc' = Threads
      /\ \A t \in Threads : pc'[t] \notin {"out", "outWait"} => text[t] = <<>>
  BY <1>1
<1> QED BY <1>1, <1>2, OthersKeepOutput

(* The invariant of the output is inductive.                               *)
LEMMA OutputSteps ==
    ASSUME Zeros = {}, OutputInv, [Next]_vars
    PROVE  OutputInv'
<1> USE DEF output
<1>1. CASE CallProcessSource \/ Send \/ OtherMessage \/ OpenDocument
  BY <1>1, QuietSteps DEF CallProcessSource, Send, AddInput, EndInputWait, OtherMessage, OpenDocument
<1>2. CASE OnIdle
  BY <1>2, OnIdleKeepsOutput
<1>3. ASSUME NEW t \in Threads, Choose(t)
      PROVE  OutputInv'
  <2>1. CASE CallOutputText(t)
    BY <2>1, CallOutputTextKeepsOutput
  <2>2. CASE CallUnderflow(t)
    BY <2>2, QuietSteps DEF CallUnderflow, Runs, Goes
  <2>3. CASE CharsAvailable(t)
    BY <2>3, QuietSteps DEF CharsAvailable
  <2>4. CASE CallOpenEditWindow(t)
    BY <2>4, QuietSteps DEF CallOpenEditWindow, Runs, Goes
  <2> QED BY <1>3, <2>1, <2>2, <2>3, <2>4 DEF Choose
<1>4. ASSUME NEW t \in Threads, Continue(t)
      PROVE  OutputInv'
  <2>1. CASE AddOutput(t)
    BY <2>1, AddOutputKeepsOutput
  <2>2. CASE EndOutputWait(t)
    BY <2>2, QuietSteps DEF EndOutputWait, Runs, Goes
  <2>3. CASE LookForInput(t)
    BY <2>3, QuietSteps DEF LookForInput, Runs, Goes
  <2>4. CASE AwaitInput(t)
    BY <2>4, QuietSteps DEF AwaitInput, Runs, Goes
  <2>5. CASE TakeInput(t)
    BY <2>5, QuietSteps DEF TakeInput, Runs, Goes
  <2>6. CASE AwaitTurn(t)
    BY <2>6, QuietSteps DEF AwaitTurn, Runs, Goes
  <2>7. CASE SetDocumentToOpen(t)
    BY <2>7, QuietSteps DEF SetDocumentToOpen, Runs, Goes
  <2>8. CASE AwaitOpened(t)
    BY <2>8, QuietSteps DEF AwaitOpened, Runs, Goes
  <2> QED BY <1>4, <2>1, <2>2, <2>3, <2>4, <2>5, <2>6, <2>7, <2>8 DEF Continue
<1>5. CASE UNCHANGED vars
  BY <1>5, QuietSteps DEF vars
<1> QED BY <1>1, <1>2, <1>3, <1>4, <1>5 DEF Next, Idle

(***************************************************************************)
(* The theorem.                                                            *)
(***************************************************************************)
LEMMA InitInv == Init => InputInv /\ OutputInv
<1> SUFFICES ASSUME Init PROVE InputInv /\ OutputInv
  OBVIOUS
<1> USE DEF Init
<1>1. InputIntact
  BY DEF InputIntact
<1>2. InputInv
  BY <1>1, BuffersAssumption DEF InputInv
<1>3. OutputIntact
  BY DEF OutputIntact
<1>4. OutputInv
  BY <1>3, BuffersAssumption DEF OutputInv
<1> QED BY <1>2, <1>4

(* For any numbers of threads, sizes of buffers and lengths of texts, no    *)
(* character is lost, doubled or out of place between the IDE and Lisp, as  *)
(* long as none of them is zero.                                            *)
THEOREM TextAlwaysIntact ==
    ASSUME Zeros = {}
    PROVE  Spec => []TextIntact
<1>1. InputInv /\ OutputInv /\ [Next]_vars => (InputInv /\ OutputInv)'
  BY InputSteps, OutputSteps
<1>2. InputInv /\ OutputInv => TextIntact
  BY DEF InputInv, OutputInv, TextIntact
<1> QED BY InitInv, <1>1, <1>2, PTL DEF Spec

(***************************************************************************)
(* The document that was asked for.                                        *)
(***************************************************************************)
(* While a thread waits for its document, the document is still to be      *)
(* opened or is the last one that was.                                     *)
OpenInv ==
    /\ DOMAIN pc = Threads /\ DOMAIN asked = Threads /\ DOMAIN doc = Threads
    /\ \A t \in Threads \ Openers : pc[t] \notin {"turn", "ask", "open"}
    /\ \A t \in Openers :
          /\ pc[t] \in {"turn", "ask", "open"} => asked[t] \in Documents
          /\ pc[t] = "open" => toOpen = asked[t] \/ (toOpen = None /\ lastDoc = asked[t])
    /\ OpenedAsAsked

(* A step that has nothing to do with documents.                            *)
LEMMA OthersKeepOpen ==
    ASSUME OpenInv, UNCHANGED document,
           \/ pc' = pc
           \/ \E t \in Threads, to \in {"out", "outWait", "look", "await", "take", "lisp", "end of file"} :
                 pc' = [pc EXCEPT ![t] = to]
    PROVE  OpenInv'
BY DEF OpenInv, OpenedAsAsked, document, Threads

(* The invariant of the documents is inductive when one thread opens them. *)
LEMMA OpenSteps ==
    ASSUME \A t, u \in Openers : t = u, OpenInv, [Next]_vars
    PROVE  OpenInv'
<1> USE DEF Runs, Goes
<1>1. CASE CallProcessSource \/ Send \/ OtherMessage \/ OnIdle
  BY <1>1, OthersKeepOpen
     DEF CallProcessSource, Send, AddInput, EndInputWait, OtherMessage, OnIdle, document
<1>2. CASE OpenDocument
  BY <1>2, DocumentsAssumption DEF OpenDocument, OpenInv, OpenedAsAsked
<1>3. ASSUME NEW t \in Threads, Choose(t)
      PROVE  OpenInv'
  <2>1. CASE CallOpenEditWindow(t)
    BY <2>1 DEF CallOpenEditWindow, OpenInv, OpenedAsAsked, Threads
  <2>2. CASE CallOutputText(t) \/ CallUnderflow(t) \/ CharsAvailable(t)
    BY <2>2, OthersKeepOpen DEF CallOutputText, CallUnderflow, CharsAvailable, document
  <2> QED BY <1>3, <2>1, <2>2 DEF Choose
<1>4. ASSUME NEW t \in Threads, Continue(t)
      PROVE  OpenInv'
  <2>1. CASE AddOutput(t)
    BY <2>1, OthersKeepOpen DEF AddOutput, document
  <2>2. CASE EndOutputWait(t) \/ LookForInput(t)
    BY <2>2, OthersKeepOpen DEF EndOutputWait, LookForInput, document
  <2>3. CASE AwaitInput(t) \/ TakeInput(t)
    BY <2>3, OthersKeepOpen DEF AwaitInput, TakeInput, document
  <2>4. CASE AwaitTurn(t)
    BY <2>4 DEF AwaitTurn, OpenInv, OpenedAsAsked, document
  <2>5. CASE SetDocumentToOpen(t)
    BY <2>5 DEF SetDocumentToOpen, OpenInv, OpenedAsAsked, Threads
  <2>6. CASE AwaitOpened(t)
    BY <2>6, DocumentsAssumption DEF AwaitOpened, OpenInv, OpenedAsAsked, Threads
  <2> QED BY <1>4, <2>1, <2>2, <2>3, <2>4, <2>5, <2>6 DEF Continue
<1>5. CASE UNCHANGED vars
  BY <1>5, OthersKeepOpen DEF vars, document
<1> QED BY <1>1, <1>2, <1>3, <1>4, <1>5 DEF Next, Idle

(* When one thread opens documents, it is given the window of the one it    *)
(* asked for, whatever was opened before (OpenEditWindow).                  *)
THEOREM RightDocument ==
    ASSUME \A t, u \in Openers : t = u
    PROVE  Spec => []OpenedAsAsked
<1>1. Init => OpenInv
  BY DEF Init, OpenInv, OpenedAsAsked, Threads
<1>2. OpenInv /\ [Next]_vars => OpenInv'
  BY OpenSteps
<1>3. OpenInv => OpenedAsAsked
  BY DEF OpenInv
<1> QED BY <1>1, <1>2, <1>3, PTL DEF Spec

(***************************************************************************)
(* The end of the input.                                                   *)
(***************************************************************************)
(* A carriage return is followed by another character, and no whole number *)
(* of lines leaves one character of a full buffer: 32767 and 4096 in the   *)
(* program.                                                                *)
LinesFit ==
    /\ Returns \subseteq Nat /\ \A c \in Returns : c + 1 \notin Returns
    /\ LineSize > 1
    /\ \A k \in Nat : k * LineSize + 1 # InSize - 1

(* What is in the buffer was cut from a full one by whole lines.           *)
CutByLines == \E k \in Nat : k * LineSize + Len(inBuf) = InSize - 1

(* A thread that is about to take characters finds some.  The text ends    *)
(* with no carriage return, and what is in the buffer does only when it    *)
(* has been full.                                                          *)
EndInv ==
    /\ DOMAIN pc = Threads
    /\ \A t \in Threads : pc[t] \in {"look", "await", "take"} => t \in Readers
    /\ \A t \in Threads : pc[t] = "take" => inBuf # <<>>
    /\ typed # 0 => typed \notin Returns
    /\ inBuf # <<>> /\ unsent # <<>> /\ Len(taken) + Len(inBuf) \in Returns => CutByLines
    /\ NoFalseEnd

(* How long the text is, and what is in the buffer.                        *)
LEMMA InputParts ==
    ASSUME InputInv
    PROVE  /\ Len(taken) \in Nat /\ Len(inBuf) \in Nat /\ Len(unsent) \in Nat
           /\ Len(taken) + Len(inBuf) + Len(unsent) = typed
           /\ \A i \in 1 .. Len(inBuf) : inBuf[i] = Len(taken) + i
<1>1. /\ taken \in Seq(Nat) /\ inBuf \in Seq(Nat) /\ unsent \in Seq(Nat)
      /\ Numbered(taken \o (inBuf \o unsent), typed)
  BY InputNumbered DEF InputInv
<1>2. Len(taken) \in Nat /\ Len(inBuf) \in Nat /\ Len(unsent) \in Nat
  BY <1>1, LenProperties
<1>3. /\ inBuf \o unsent \in Seq(Nat)
      /\ Len(inBuf \o unsent) = Len(inBuf) + Len(unsent)
      /\ \A i \in 1 .. Len(inBuf) + Len(unsent) :
            (inBuf \o unsent)[i] = IF i <= Len(inBuf) THEN inBuf[i] ELSE unsent[i - Len(inBuf)]
  BY <1>1, ConcatProperties
<1> DEFINE b == inBuf \o unsent
<1> HIDE DEF b
<1>4. /\ Len(taken \o b) = Len(taken) + Len(b)
      /\ \A i \in 1 .. Len(taken) + Len(b) :
            (taken \o b)[i] = IF i <= Len(taken) THEN taken[i] ELSE b[i - Len(taken)]
  BY <1>1, <1>3, ConcatProperties DEF b
<1>5. Len(b) = Len(inBuf) + Len(unsent) /\ \A i \in 1 .. Len(inBuf) : b[i] = inBuf[i]
  BY <1>2, <1>3 DEF b
<1>6. Numbered(taken \o b, typed)
  BY <1>1 DEF b
<1>7. ASSUME NEW i \in 1 .. Len(inBuf)
      PROVE  inBuf[i] = Len(taken) + i
  <2>1. /\ Len(taken) + i \in 1 .. Len(taken) + Len(b) /\ ~(Len(taken) + i <= Len(taken))
        /\ (Len(taken) + i) - Len(taken) = i
    BY <1>2, <1>5
  <2>2. (taken \o b)[Len(taken) + i] = b[i]
    BY <1>4, <2>1
  <2> QED BY <1>4, <1>5, <1>6, <2>1, <2>2 DEF Numbered
<1> QED BY <1>2, <1>4, <1>5, <1>6, <1>7 DEF Numbered

(* The text that is typed ends with no carriage return.                    *)
LEMMA CallProcessSourceKeepsEnd ==
    ASSUME InputInv, EndInv, CallProcessSource
    PROVE  EndInv'
<1>1. /\ Len(taken) \in Nat /\ Len(inBuf) \in Nat /\ unsent = <<>> /\ typed \in Nat
      /\ Len(taken) + Len(inBuf) = typed
  BY InputParts DEF InputInv, CallProcessSource
<1>2. /\ pc' = pc /\ inBuf' = inBuf /\ taken' = taken
      /\ typed' \notin Returns
  BY DEF CallProcessSource
<1>3. inBuf # <<>> => Len(taken) + Len(inBuf) \notin Returns
  <2>1. inBuf # <<>> => Len(inBuf) > 0
    BY <1>1, EmptySeq DEF InputInv
  <2> QED BY <1>1, <2>1 DEF EndInv
<1> QED BY <1>2, <1>3 DEF EndInv, NoFalseEnd

(* Text is left over only when the buffer is full.                         *)
LEMMA AddInputKeepsEnd ==
    ASSUME LinesFit, InputInv, EndInv, AddInput
    PROVE  EndInv'
<1> DEFINE n == Fitting(inBuf, InSize, unsent)
<1>1. /\ inBuf' = inBuf \o FirstOf(unsent, n) /\ unsent' = RestOf(unsent, n)
      /\ pc' = pc /\ taken' = taken /\ typed' = typed
  BY DEF AddInput
<1>2. /\ inBuf \in Seq(Nat) /\ unsent \in Seq(Nat) /\ Len(inBuf) < InSize
      /\ Len(inBuf) \in Nat /\ Len(unsent) \in Nat
  BY LenProperties DEF InputInv
<1>3. n \in 0 .. Len(unsent) /\ (n < Len(unsent) => Len(inBuf) + n = InSize - 1)
  <2>1. n \in 0 .. Len(unsent)
    BY <1>2, FittingFits, BuffersAssumption
  <2> QED BY <1>2, <2>1, BuffersAssumption DEF Fitting, Lesser
<1> HIDE DEF n
<1>4. /\ FirstOf(unsent, n) \in Seq(Nat) /\ Len(FirstOf(unsent, n)) = n
      /\ RestOf(unsent, n) \in Seq(Nat) /\ Len(RestOf(unsent, n)) = Len(unsent) - n
  BY <1>2, <1>3, PartsOf
<1>5. inBuf' \in Seq(Nat) /\ Len(inBuf') = Len(inBuf) + n
  BY <1>1, <1>2, <1>4, ConcatProperties
<1>6. inBuf # <<>> => inBuf' # <<>>
  BY <1>2, <1>3, <1>5, EmptySeq
<1>7. unsent' # <<>> => CutByLines'
  <2>1. unsent' # <<>> => Len(inBuf') = InSize - 1
    BY <1>1, <1>2, <1>3, <1>4, <1>5, EmptySeq
  <2>2. 0 \in Nat /\ 0 * LineSize + (InSize - 1) = InSize - 1
    BY BuffersAssumption
  <2> QED BY <2>1, <2>2 DEF CutByLines
<1> QED BY <1>1, <1>6, <1>7 DEF EndInv, NoFalseEnd

(* A line that is taken has a character that is no carriage return, and    *)
(* leaves what was cut by lines cut by lines.                              *)
LEMMA TakeInputKeepsEnd ==
    ASSUME \A t, u \in Readers : t = u, LinesFit, InputInv, EndInv,
           NEW t \in Threads, TakeInput(t)
    PROVE  EndInv'
<1> DEFINE n == Lesser(Len(inBuf), LineSize)
           ends == \A i \in 1 .. n : inBuf[i] \in Returns
<1>1. /\ taken' = taken \o FirstOf(inBuf, n) /\ inBuf' = RestOf(inBuf, n)
      /\ pc[t] = "take" /\ pc' = [pc EXCEPT ![t] = IF ends THEN "end of file" ELSE "lisp"]
      /\ unsent' = unsent /\ typed' = typed
  BY DEF TakeInput, Runs, Goes
<1>2. /\ inBuf \in Seq(Nat) /\ taken \in Seq(Nat) /\ unsent \in Seq(Nat) /\ typed \in Nat
      /\ Len(inBuf) \in Nat /\ Len(taken) \in Nat /\ Len(unsent) \in Nat
      /\ Len(taken) + Len(inBuf) + Len(unsent) = typed
      /\ \A i \in 1 .. Len(inBuf) : inBuf[i] = Len(taken) + i
  BY InputParts DEF InputInv
<1>3. LineSize \in Nat /\ LineSize > 1 /\ InSize \in Nat
  BY BuffersAssumption DEF LinesFit
<1>4. inBuf # <<>> /\ Len(inBuf) > 0
  <2>1. inBuf # <<>>
    BY <1>1 DEF EndInv
  <2> QED BY <1>2, <2>1, EmptySeq
<1>5. /\ n \in 1 .. Len(inBuf) /\ (n < Len(inBuf) => n = LineSize)
      /\ (n = 1 => Len(inBuf) = 1)
  BY <1>2, <1>3, <1>4 DEF Lesser
<1> HIDE DEF n
<1>6. /\ FirstOf(inBuf, n) \in Seq(Nat) /\ Len(FirstOf(inBuf, n)) = n
      /\ RestOf(inBuf, n) \in Seq(Nat) /\ Len(RestOf(inBuf, n)) = Len(inBuf) - n
  BY <1>2, <1>5, PartsOf
<1>7. /\ Len(inBuf') = Len(inBuf) - n /\ Len(taken') = Len(taken) + n
      /\ inBuf' \in Seq(Nat)
  <2>1. Len(taken \o FirstOf(inBuf, n)) = Len(taken) + Len(FirstOf(inBuf, n))
    BY <1>2, <1>6, ConcatProperties
  <2> QED BY <1>1, <1>6, <2>1
<1>8. ~ends
  <2> SUFFICES ASSUME ends PROVE FALSE
    OBVIOUS
  <2>1. inBuf[1] = Len(taken) + 1 /\ inBuf[1] \in Returns
    BY <1>2, <1>5
  <2>2. n = 1
    <3> SUFFICES ASSUME n # 1 PROVE FALSE
      OBVIOUS
    <3>1. 2 \in 1 .. n /\ 2 \in 1 .. Len(inBuf)
      BY <1>2, <1>5
    <3>2. inBuf[2] = Len(taken) + 2 /\ inBuf[2] \in Returns
      BY <1>2, <3>1
    <3>3. (Len(taken) + 1) + 1 = Len(taken) + 2
      BY <1>2
    <3> QED BY <2>1, <3>2, <3>3 DEF LinesFit
  <2>3. Len(inBuf) = 1 /\ Len(taken) + Len(inBuf) \in Returns
    BY <1>5, <2>1, <2>2
  <2>4. CASE unsent = <<>>
    BY <1>2, <2>3, <2>4, EmptySeq DEF EndInv
  <2>5. CASE unsent # <<>>
    <3>1. CutByLines
      BY <1>4, <2>3, <2>5 DEF EndInv
    <3> QED BY <2>3, <3>1 DEF CutByLines, LinesFit
  <2> QED BY <2>4, <2>5
<1> HIDE DEF ends
<1>9. \A u \in Threads : pc'[u] # "take"
  BY <1>1, <1>8 DEF EndInv
<1>10. ASSUME inBuf' # <<>>, unsent' # <<>>, Len(taken') + Len(inBuf') \in Returns
       PROVE  CutByLines'
  <2>1. n = LineSize /\ Len(taken) + Len(inBuf) \in Returns
    BY <1>2, <1>5, <1>7, <1>10, EmptySeq
  <2>2. PICK k \in Nat : k * LineSize + Len(inBuf) = InSize - 1
    BY <1>1, <1>2, <1>4, <1>10, <2>1, EmptySeq DEF EndInv, CutByLines
  <2>3. (k + 1) * LineSize + Len(inBuf') = InSize - 1
    <3>1. (k + 1) * LineSize = k * LineSize + LineSize /\ k * LineSize \in Nat
      BY <1>3
    <3> QED BY <1>2, <1>3, <1>7, <2>1, <2>2, <3>1
  <2> QED BY <2>3 DEF CutByLines
<1>11. /\ DOMAIN pc' = Threads /\ NoFalseEnd'
       /\ \A u \in Threads : pc'[u] \in {"look", "await", "take"} => u \in Readers
  BY <1>1, <1>8 DEF EndInv, NoFalseEnd
<1> QED BY <1>1, <1>9, <1>10, <1>11 DEF EndInv

(* A step that leaves the text where it is.                                *)
LEMMA OthersKeepEnd ==
    ASSUME EndInv, UNCHANGED <<inBuf, unsent, typed, taken>>,
           \/ pc' = pc
           \/ \E t \in Threads, to \in {"out", "outWait", "look", "await", "take", "lisp",
                                        "turn", "ask", "open"} :
                 /\ pc' = [pc EXCEPT ![t] = to]
                 /\ to \in {"look", "await", "take"} => t \in Readers
                 /\ to = "take" => inBuf # <<>>
    PROVE  EndInv'
<1>1. CutByLines' <=> CutByLines
  BY DEF CutByLines
<1>2. /\ DOMAIN pc' = Threads /\ NoFalseEnd'
      /\ \A t \in Threads : pc'[t] \in {"look", "await", "take"} => t \in Readers
      /\ \A t \in Threads : pc'[t] = "take" => inBuf # <<>>
  BY DEF EndInv, NoFalseEnd
<1> QED BY <1>1, <1>2 DEF EndInv

(* The invariant is inductive when one thread reads.                       *)
LEMMA EndSteps ==
    ASSUME \A t, u \in Readers : t = u, LinesFit, InputInv, EndInv, [Next]_vars
    PROVE  EndInv'
<1> USE DEF input, Runs, Goes
<1>1. CASE CallProcessSource
  BY <1>1, CallProcessSourceKeepsEnd
<1>2. CASE AddInput
  BY <1>2, AddInputKeepsEnd
<1>3. CASE EndInputWait \/ OtherMessage \/ Idle
  BY <1>3, OthersKeepEnd DEF EndInputWait, OtherMessage, Idle, OnIdle, OpenDocument
<1>4. ASSUME NEW t \in Threads, Choose(t)
      PROVE  EndInv'
  BY <1>4, OthersKeepEnd
     DEF Choose, CallOutputText, CallUnderflow, CharsAvailable, CallOpenEditWindow
<1>5. ASSUME NEW t \in Threads, Continue(t)
      PROVE  EndInv'
  <2>1. CASE TakeInput(t)
    BY <2>1, TakeInputKeepsEnd
  <2>2. CASE LookForInput(t)
    BY <2>2, OthersKeepEnd DEF LookForInput, EndInv
  <2>3. CASE AwaitInput(t)
    BY <2>3, OthersKeepEnd DEF AwaitInput, EndInv
  <2>4. CASE AddOutput(t)
    BY <2>4, OthersKeepEnd DEF AddOutput
  <2>5. CASE EndOutputWait(t) \/ AwaitTurn(t)
    BY <2>5, OthersKeepEnd DEF EndOutputWait, AwaitTurn
  <2>6. CASE SetDocumentToOpen(t) \/ AwaitOpened(t)
    BY <2>6, OthersKeepEnd DEF SetDocumentToOpen, AwaitOpened
  <2> QED BY <1>5, <2>1, <2>2, <2>3, <2>4, <2>5, <2>6 DEF Continue
<1>6. CASE UNCHANGED vars
  BY <1>6, OthersKeepEnd DEF vars
<1> QED BY <1>1, <1>2, <1>3, <1>4, <1>5, <1>6 DEF Next, Send

(* When one thread reads, and the buffers have sizes like those of the      *)
(* program, Lisp never sees an end of the input that is none: a reader      *)
(* that saw characters finds them, and more than a carriage return          *)
(* (consoleUnderflow, ProcessLispSource).                                  *)
THEOREM EndNeverFalse ==
    ASSUME \A t, u \in Readers : t = u, LinesFit
    PROVE  Spec => []NoFalseEnd
<1>1. Init => InputInv /\ EndInv
  BY InitInv DEF Init, EndInv, NoFalseEnd
<1>2. InputInv /\ EndInv /\ [Next]_vars => (InputInv /\ EndInv)'
  BY InputSteps, EndSteps
<1>3. InputInv /\ EndInv => NoFalseEnd
  BY DEF EndInv
<1> QED BY <1>1, <1>2, <1>3, PTL DEF Spec

=============================================================================
