---------------------------- MODULE ReturnProofs ----------------------------
(***************************************************************************)
(* What is proved of LispThreads about what threads give back, for any     *)
(* threads and any nesting of hooks, as long as no thread is aborted or    *)
(* terminated and no image is written or loaded: the locks that they       *)
(* enter, and the suspensions of others.                                   *)
(*                                                                         *)
(* Both need a count.  A thread has entered GCCriticalSection exactly as   *)
(* often as what is left on its stack will leave it (ExactInv), where      *)
(* LispThreadsProofs shows no less than that.  Nobody is suspended more    *)
(* often than the stacks of others have labels that will resume it         *)
(* (SuspInv): the "resume" of a collection is one from its SuspendThread   *)
(* on, five labels above, so that the labels of a stack are counted from   *)
(* the bottom, where the steps on top leave them in their place.           *)
(***************************************************************************)
EXTENDS LispThreadsProofs

-----------------------------------------------------------------------------
(* Locks that are given back.                                              *)

(* Every thread that is to be created is: RunSecondaryThread has no early   *)
(* return.                                                                 *)
ThreadsStart == \A w \in Workloads : "createFails" \notin w

(* From the i-th label of s on, c[i] entries of GCCriticalSection are given *)
(* back; w is what the whole of s gives back.                              *)
Counts(s, c, w) ==
    /\ c \in [1 .. Len(s) + 1 -> Int]
    /\ c[1] = w /\ c[Len(s) + 1] = 0
    /\ \A i \in 1 .. Len(s) : c[i] = c[i + 1] + Weight(s[i])
Weighs(s, w) == s \in Seq(Label) /\ \E c : Counts(s, c, w)

(* How often thread t has entered it.                                      *)
Held(t) == IF locks["GC"].owner = t THEN locks["GC"].count ELSE 0

(* A thread has entered GCCriticalSection as often as it will leave it.    *)
ExactInv ==
    /\ locks["GC"].owner = NoThread => locks["GC"].count = 0
    /\ \A t \in Threads : Weighs(stack[t], Held(t))

(* A balanced body gives back the difference.                              *)
LEMMA WeighsBalanced ==
    ASSUME NEW t, NEW L, NEW w \in Nat, NEW v \in Nat, Balanced(t, L, w, v)
    PROVE  Weighs(L, w - v)
<1>1. PICK d : Path(t, L, d) /\ d[1] = w /\ d[Len(L) + 1] = v
  BY DEF Balanced
<1> DEFINE n == Len(L)
           c == [i \in 1 .. n + 1 |-> d[i] - v]
<1>2. L \in Seq(Label) /\ n \in Nat
  BY LenProperties DEF Balanced
<1>3. d \in [1 .. n + 1 -> Nat] /\ \A i \in 1 .. n : d[i] = d[i + 1] + Weight(L[i])
  BY <1>1 DEF Path, Fits
<1>4. c \in [1 .. n + 1 -> Int] /\ \A i \in 1 .. n + 1 : c[i] = d[i] - v
  BY <1>3
<1>5. c[1] = w - v /\ c[n + 1] = 0
  BY <1>1, <1>2, <1>4
<1> HIDE DEF c
<1>6. ASSUME NEW i \in 1 .. n
      PROVE  c[i] = c[i + 1] + Weight(L[i])
  <2>1. i \in 1 .. n + 1 /\ i + 1 \in 1 .. n + 1
    BY <1>2
  <2>2. Weight(L[i]) \in Int
    BY DEF Weight
  <2> QED BY <1>3, <1>4, <2>1, <2>2
<1> QED BY <1>2, <1>4, <1>5, <1>6 DEF Weighs, Counts

(* Nothing gives back nothing.                                             *)
LEMMA WeighsNothing == Weighs(<<>>, 0)
BY BalancedEmpty, WeighsBalanced

(* A label gives back its weight.                                          *)
LEMMA WeighsLabel ==
    ASSUME NEW l \in Label
    PROVE  Weighs(<<l>>, Weight(l))
<1> DEFINE c == [i \in 1 .. 2 |-> IF i = 1 THEN Weight(l) ELSE 0]
<1>1. <<l>> \in Seq(Label) /\ Len(<<l>>) = 1 /\ <<l>>[1] = l /\ Weight(l) \in Int
  BY DEF Weight
<1>2. c \in [1 .. 2 -> Int] /\ c[1] = Weight(l) /\ c[2] = 0
  BY <1>1
<1> HIDE DEF c
<1>3. Counts(<<l>>, c, Weight(l))
  BY <1>1, <1>2 DEF Counts
<1> QED BY <1>1, <1>3 DEF Weighs

(* Two sequences of labels give back the sum.                              *)
LEMMA WeighsBoth ==
    ASSUME NEW A, NEW B, NEW a, NEW b, Weighs(A, a), Weighs(B, b)
    PROVE  a \in Int /\ b \in Int /\ Weighs(A \o B, a + b)
<1>1. PICK c : Counts(A, c, a)
  BY DEF Weighs
<1>2. PICK d : Counts(B, d, b)
  BY DEF Weighs
<1> DEFINE n == Len(A)
           m == Len(B)
           r == A \o B
           e == [i \in 1 .. n + m + 1 |-> IF i <= n THEN c[i] + b ELSE d[i - n]]
<1>3. /\ A \in Seq(Label) /\ B \in Seq(Label) /\ n \in Nat /\ m \in Nat
      /\ r \in Seq(Label) /\ Len(r) = n + m
      /\ \A i \in 1 .. n : r[i] = A[i]
      /\ \A i \in 1 .. m : r[n + i] = B[i]
  BY ConcatProperties, LenProperties DEF Weighs
<1>4. /\ c \in [1 .. n + 1 -> Int] /\ d \in [1 .. m + 1 -> Int]
      /\ c[1] = a /\ c[n + 1] = 0 /\ d[1] = b /\ d[m + 1] = 0
      /\ \A i \in 1 .. n : c[i] = c[i + 1] + Weight(A[i])
      /\ \A i \in 1 .. m : d[i] = d[i + 1] + Weight(B[i])
  BY <1>1, <1>2 DEF Counts
<1>5. a \in Int /\ b \in Int
  <2>1. 1 \in 1 .. n + 1 /\ 1 \in 1 .. m + 1
    BY <1>3
  <2> QED BY <1>4, <2>1
<1>0. \A l : Weight(l) \in Int
  BY DEF Weight
<1>6. \A i \in 1 .. n : e[i] = c[i] + b
  BY <1>3, <1>5
<1>7. \A i \in 1 .. m + 1 : e[n + i] = d[i]
  <2> TAKE i \in 1 .. m + 1
  <2>1. n + i \in 1 .. n + m + 1 /\ ~(n + i <= n) /\ (n + i) - n = i
    BY <1>3
  <2> QED BY <2>1
<1>8. e \in [1 .. Len(r) + 1 -> Int]
  <2>1. ASSUME NEW i \in 1 .. n + m + 1
        PROVE  (IF i <= n THEN c[i] + b ELSE d[i - n]) \in Int
    <3>1. CASE i <= n
      <4>1. i \in 1 .. n + 1
        BY <3>1, <1>3
      <4>2. c[i] \in Int
        BY <4>1, <1>4
      <4> QED BY <3>1, <4>2, <1>5
    <3>2. CASE ~(i <= n)
      <4>1. i - n \in 1 .. m + 1
        BY <3>2, <1>3
      <4> QED BY <4>1, <3>2, <1>4
    <3> QED BY <3>1, <3>2
  <2> QED BY <2>1, <1>3
<1> HIDE DEF e
<1>9. e[n + 1] = b /\ e[Len(r) + 1] = 0
  <2>1. e[n + 1] = d[1] /\ e[n + (m + 1)] = d[m + 1]
    BY <1>3, <1>7
  <2>2. n + (m + 1) = Len(r) + 1
    BY <1>3
  <2> QED BY <1>4, <2>1, <2>2
<1>10. e[1] = a + b
  <2>1. CASE n = 0
    <3>1. c[1] = 0 /\ e[1] = b
      BY <1>4, <1>9, <2>1
    <3> QED BY <1>4, <1>5, <3>1
  <2>2. CASE n # 0
    <3>1. 1 \in 1 .. n
      BY <1>3, <2>2
    <3> QED BY <1>4, <1>6, <3>1
  <2> QED BY <2>1, <2>2
<1>11. ASSUME NEW i \in 1 .. Len(r)
       PROVE  e[i] = e[i + 1] + Weight(r[i])
  <2>1. CASE i < n
    <3>1. i \in 1 .. n /\ i + 1 \in 1 .. n /\ i \in 1 .. n + 1 /\ i + 1 \in 1 .. n + 1
      BY <2>1, <1>3
    <3>2. e[i] = c[i] + b /\ e[i + 1] = c[i + 1] + b /\ r[i] = A[i]
      BY <3>1, <1>3, <1>6
    <3>3. c[i] = c[i + 1] + Weight(A[i]) /\ c[i + 1] \in Int
      BY <3>1, <1>4
    <3> QED BY <3>2, <3>3, <1>5, <1>0
  <2>2. CASE i = n
    <3>1. e[i] = c[n] + b /\ e[i + 1] = b /\ r[i] = A[n] /\ c[n] = c[n + 1] + Weight(A[n])
      BY <2>2, <1>3, <1>4, <1>6, <1>9
    <3> QED BY <3>1, <1>4, <1>5, <1>0
  <2>3. CASE i > n
    <3> DEFINE j == i - n
    <3>1. j \in 1 .. m /\ j + 1 \in 1 .. m + 1 /\ j \in 1 .. m + 1
          /\ i = n + j /\ i + 1 = n + (j + 1)
      BY <2>3, <1>3
    <3> HIDE DEF j
    <3>2. e[i] = d[j] /\ e[i + 1] = d[j + 1] /\ r[i] = B[j]
      BY <3>1, <1>3, <1>7
    <3> QED BY <3>1, <3>2, <1>4
  <2> QED BY <2>1, <2>2, <2>3, <1>3
<1> QED BY <1>3, <1>5, <1>8, <1>9, <1>10, <1>11 DEF Weighs, Counts

(* Without its first label a stack gives back less by its weight.          *)
LEMMA WeighsTail ==
    ASSUME NEW s, NEW w, Weighs(s, w), s # <<>>
    PROVE  w \in Int /\ Tail(s) \in Seq(Label) /\ Weighs(Tail(s), w - Weight(Head(s)))
<1>1. PICK c : Counts(s, c, w)
  BY DEF Weighs
<1> DEFINE n == Len(s)
           r == Tail(s)
           e == [i \in 1 .. n |-> c[i + 1]]
<1>2. s \in Seq(Label) /\ n \in Nat /\ n >= 1
  BY EmptySeq, LenProperties DEF Weighs
<1>3. r \in Seq(Label) /\ Len(r) = n - 1 /\ \A i \in 1 .. n - 1 : r[i] = s[i + 1]
  BY <1>2, HeadTailProperties
<1>4. /\ c \in [1 .. n + 1 -> Int] /\ c[1] = w /\ c[n + 1] = 0
      /\ \A i \in 1 .. n : c[i] = c[i + 1] + Weight(s[i])
  BY <1>1 DEF Counts
<1>5. /\ e \in [1 .. n -> Int] /\ \A i \in 1 .. n : e[i] = c[i + 1]
  <2>1. \A i \in 1 .. n : c[i + 1] \in Int
    BY <1>2, <1>4
  <2> QED BY <2>1
<1> HIDE DEF e, r
<1>6. e[1] = w - Weight(Head(s)) /\ w \in Int
  <2>1. 1 \in 1 .. n /\ 1 \in 1 .. n + 1 /\ 1 + 1 \in 1 .. n + 1
    BY <1>2
  <2>2. Head(s) = s[1] /\ Weight(s[1]) \in Int
    BY <1>2 DEF Weight
  <2>3. w = c[1 + 1] + Weight(s[1]) /\ c[1 + 1] \in Int /\ e[1] = c[1 + 1]
    BY <1>4, <1>5, <2>1
  <2> QED BY <2>2, <2>3
<1>7. e[n] = 0
  BY <1>2, <1>4, <1>5
<1>8. ASSUME NEW i \in 1 .. n - 1
      PROVE  e[i] = e[i + 1] + Weight(r[i])
  <2>1. i \in 1 .. n /\ i + 1 \in 1 .. n
    BY <1>2
  <2> QED BY <1>3, <1>4, <1>5, <2>1
<1>9. Len(r) + 1 = n
  BY <1>2, <1>3
<1>10. Counts(r, e, w - Weight(Head(s)))
  BY <1>3, <1>5, <1>6, <1>7, <1>8, <1>9 DEF Counts
<1> QED BY <1>3, <1>6, <1>10 DEF Weighs, r

(* What is replaced on top of it.                                          *)
LEMMA WeighsReplaced ==
    ASSUME NEW s, NEW w, Weighs(s, w), s # <<>>, NEW B, NEW b, Weighs(B, b)
    PROVE  Weighs(B \o Tail(s), (w - Weight(Head(s))) + b)
<1>1. w \in Int /\ Weighs(Tail(s), w - Weight(Head(s)))
  BY WeighsTail
<1>2. b \in Int /\ w - Weight(Head(s)) \in Int /\ Weighs(B \o Tail(s), b + (w - Weight(Head(s))))
  BY <1>1, WeighsBoth
<1>3. b + (w - Weight(Head(s))) = (w - Weight(Head(s))) + b
  BY <1>2
<1> QED BY <1>2, <1>3

(* The step of t puts B in the place of its label: what the stack gives     *)
(* back changes as the lock does.                                          *)
Turns(t) ==
    \/ stack'[t] = stack[t] /\ locks'["GC"] = locks["GC"]
    \/ \E B, b :
          /\ stack'[t] = B \o Tail(stack[t]) /\ Weighs(B, b)
          /\ \/ locks'["GC"] = locks["GC"] /\ b = Weight(At(t))
             \/ /\ At(t) \in Entering /\ b = 0
                /\ CanEnter(t, "GC") /\ locks'["GC"] = Entered(t, locks["GC"])
             \/ /\ At(t) = "leave" /\ b = 0
                /\ locks'["GC"] = Left(t, locks["GC"])

(* Steps that leave the lock alone.                                        *)
LEMMA TurnsDoing ==
    ASSUME Typed, NEW t \in Threads, NEW B, Do(t, B), Weighs(B, Weight(At(t))), OtherLocks
    PROVE  Turns(t)
<1>1. stack'[t] = B \o Tail(stack[t])
  BY DEF Do, Typed
<1> QED BY <1>1 DEF Turns, OtherLocks

(* A step without weight is done.                                          *)
LEMMA TurnsDone ==
    ASSUME Typed, NEW t \in Threads, Done(t), Weight(At(t)) = 0, OtherLocks
    PROVE  Turns(t)
BY WeighsNothing, TurnsDoing DEF Done

(* A step is followed by one of the same weight.                           *)
LEMMA TurnsTo ==
    ASSUME Typed, NEW t \in Threads, NEW m \in Label, Do(t, <<m>>), Weight(m) = Weight(At(t)),
           OtherLocks
    PROVE  Turns(t)
<1>1. Weighs(<<m>>, Weight(At(t)))
  BY WeighsLabel
<1> QED BY <1>1, TurnsDoing

(* The lock is entered or left.                                            *)
LEMMA TurnsLock ==
    ASSUME Typed, NEW t \in Threads, Done(t),
           \/ At(t) \in Entering /\ Enter(t, "GC")
           \/ At(t) = "leave" /\ Leave(t, "GC")
    PROVE  Turns(t)
<1>1. stack'[t] = <<>> \o Tail(stack[t])
  BY DEF Done, Do, Typed
<1>2. /\ Enter(t, "GC") => CanEnter(t, "GC") /\ locks'["GC"] = Entered(t, locks["GC"])
      /\ Leave(t, "GC") => locks'["GC"] = Left(t, locks["GC"])
  <2>1. "GC" \in LockNames
    BY DEF LockNames
  <2>2. CASE Enter(t, "GC")
    BY <2>1, <2>2 DEF Enter, Leave, Typed
  <2>3. CASE Leave(t, "GC")
    BY <2>1, <2>3 DEF Enter, Leave, Typed
  <2> QED BY <2>2, <2>3
<1> QED BY <1>1, <1>2, WeighsNothing DEF Turns

(* Stopping and resuming the other threads.                                *)
LEMMA StopTurns ==
    ASSUME Plain, Typed, ShapeInv, WorldInv, SoundInv, NEW t \in Threads, StopStep(t)
    PROVE  Turns(t)
<1> USE DEF Runs
<1>1. CASE BeginSuspend(t) \/ BeginResume(t)
  <2>1. PICK m \in {"suspending", "resuming"} :
          Do(t, <<m>>) /\ Enter(t, "TQ") /\ At(t) \in {"suspend", "resume"}
    BY <1>1 DEF BeginSuspend, BeginResume, BeginLoop
  <2>2. m \in Label /\ Weight(m) = 0 /\ Weight(At(t)) = 0
    BY <2>1 DEF Label, Weight
  <2> QED BY <2>1, <2>2, EnteringOther, TurnsTo
<1>2. CASE EndSuspend(t) \/ EndResume(t)
  <2>1. Done(t) /\ Leave(t, "TQ") /\ At(t) \in {"suspending", "resuming"}
    BY <1>2 DEF EndSuspend, EndResume, EndLoop
  <2>2. Weight(At(t)) = 0
    BY <2>1 DEF Weight
  <2> QED BY <2>1, <2>2, LeavingOther, TurnsDone
<1>3. CASE SuspendOther(t) \/ ResumeOther(t)
  BY <1>3 DEF SuspendOther, ResumeOther, Turns
<1>4. CASE EnsureSafeStates(t)
  <2>1. At(t) = "ensureSafe" /\ UNCHANGED locks /\ (Do(t, <<"safe">>) \/ Done(t))
    BY <1>4 DEF EnsureSafeStates
  <2>2. "safe" \in Label /\ Weight("safe") = 0 /\ Weight(At(t)) = 0
    BY <2>1 DEF Label, Weight
  <2> QED BY <2>1, <2>2, SameLocks, TurnsTo, TurnsDone
<1>5. CASE CheckSafe(t)
  <2>1. At(t) = "safe" /\ Weight(At(t)) = 0
    BY <1>5 DEF CheckSafe, Weight
  <2>2. CASE Done(t) /\ UNCHANGED locks
    BY <2>1, <2>2, SameLocks, TurnsDone
  <2>3. CASE Do(t, <<"waking", "safe">>) /\ Enter(t, "TQ")
    <3>1. Balanced(t, <<"waking", "safe">>, 0, 0)
      BY BalancedPair DEF Quiet, Label, ClientLabels
    <3>2. Weighs(<<"waking", "safe">>, 0)
      BY <3>1, WeighsBalanced
    <3> QED BY <2>1, <2>3, <3>2, EnteringOther, TurnsDoing
  <2>4. CASE UNCHANGED <<stack, locks>>
    BY <2>4 DEF Turns
  <2> QED BY <1>5, <2>2, <2>3, <2>4 DEF CheckSafe
<1>6. CASE WakingDone(t)
  <2>1. At(t) = "waking" /\ Leave(t, "TQ") /\ Done(t)
    BY <1>6 DEF WakingDone, WorldInv
  <2>2. Weight(At(t)) = 0
    BY <2>1 DEF Weight
  <2> QED BY <2>1, <2>2, LeavingOther, TurnsDone
<1> QED BY <1>1, <1>2, <1>3, <1>4, <1>5, <1>6 DEF StopStep

(* Lisp code, allocations, collections and hooks.                          *)
LEMMA CodeTurns ==
    ASSUME Plain, Typed, ShapeInv, SoundInv, NEW t \in Threads, CodeStep(t)
    PROVE  Turns(t)
<1> USE DEF Runs
<1>0. \A B : Balanced(t, B, 0, 0) => Weighs(B, 0)
  BY WeighsBalanced
<1>1. CASE CallFromLisp(t)
  <2>1. PICK op \in {"alloc", "gc", "critical", "save", "load"} :
          Do(t, Body(op) \o <<"lisp">>)
    BY <1>1 DEF CallFromLisp
  <2>2. At(t) = "lisp" /\ UNCHANGED locks /\ Weight(At(t)) = 0
    BY <1>1 DEF CallFromLisp, Weight
  <2>3. Weighs(Body(op) \o <<"lisp">>, 0)
    BY <1>0, BodyBalanced, BalancedLisp, Concatenated
  <2> QED BY <2>1, <2>2, <2>3, SameLocks, TurnsDoing
<1>2. CASE LeaveLisp(t)
  BY <1>2, SameLocks, TurnsDone DEF LeaveLisp, Weight
<1>3. CASE CallFromClient(t)
  <2>1. At(t) = "foreign" /\ UNCHANGED locks /\ Weight(At(t)) = 0 /\ Do(t, BlessThread)
    <3>1. "abort" \notin ops
      BY DEF Plain, Typed, PlainOps
    <3> QED BY <1>3, <3>1 DEF CallFromClient, Weight
  <2>2. t \in Foreigners
    BY <2>1, Client DEF SoundInv, At, ClientLabels
  <2>3. Weighs(BlessThread, 0)
    BY <1>0, <2>2, BalancedBless
  <2> QED BY <2>1, <2>3, SameLocks, TurnsDoing
<1>4. CASE EnterLock(t)
  <2>1. PICK l \in DOMAIN EnterLabels :
          At(t) = l /\ Enter(t, EnterLabels[l]) /\ Done(t)
    BY <1>4 DEF EnterLock
  <2>2. CASE l \in {"alloc", "enter"}
    BY <2>1, <2>2, TurnsLock DEF EnterLabels, Entering
  <2>3. CASE l \in {"enterCS", "lock"}
    <3>1. Weight(At(t)) = 0 /\ EnterLabels[l] \in {"TQ", "CS"}
      BY <2>1, <2>3 DEF Weight, EnterLabels
    <3> QED BY <2>1, <3>1, EnteringOther, TurnsDone
  <2> QED BY <2>1, <2>2, <2>3 DEF EnterLabels
<1>5. CASE LeaveLock(t)
  <2>1. PICK l \in DOMAIN LeaveLabels :
          At(t) = l /\ Leave(t, LeaveLabels[l]) /\ Done(t)
    BY <1>5 DEF LeaveLock
  <2>2. CASE l = "leave"
    BY <2>1, <2>2, TurnsLock DEF LeaveLabels
  <2>3. CASE l \in {"leaveCS", "unlock"}
    <3>1. Weight(At(t)) = 0 /\ LeaveLabels[l] \in {"TQ", "CS"}
      BY <2>1, <2>3 DEF Weight, LeaveLabels
    <3> QED BY <2>1, <3>1, LeavingOther, TurnsDone
  <2> QED BY <2>1, <2>2, <2>3 DEF LeaveLabels
<1>6. CASE TakeBlock(t)
  <2>1. At(t) = "take" /\ UNCHANGED locks /\ Weight(At(t)) = 1
    BY <1>6 DEF TakeBlock, Weight
  <2>2. PICK B \in {<<"leave">>, GarbageCollect \o <<"bump">>} : Do(t, B)
    BY <1>6 DEF TakeBlock
  <2>3. Weighs(B, 1)
    <3>1. Balanced(t, <<"leave">>, 1, 0) /\ Balanced(t, <<"bump">>, 1, 0)
      BY BalancedOne
    <3>2. Balanced(t, GarbageCollect \o <<"bump">>, 1, 0)
      BY <3>1, BalancedCollection, Lifted, Concatenated
    <3>3. Weighs(B, 1 - 0)
      BY <3>1, <3>2, WeighsBalanced
    <3> QED BY <3>3
  <2> QED BY <2>1, <2>2, <2>3, SameLocks, TurnsDoing
<1>7. CASE Bump(t)
  <2>1. At(t) = "bump" /\ UNCHANGED locks /\ Do(t, <<"leave">>)
    BY <1>7 DEF Bump
  <2>2. "leave" \in Label /\ Weight("leave") = Weight(At(t))
    BY <2>1 DEF Label, Weight
  <2> QED BY <2>1, <2>2, SameLocks, TurnsTo
<1>8. CASE EnterCollection(t)
  <2>1. At(t) = "gc" /\ Enter(t, "GC") /\ Done(t)
    BY <1>8 DEF EnterCollection, Plain
  <2> QED BY <2>1, TurnsLock DEF Entering
<1>9. CASE Collect(t)
  BY <1>9, SameLocks, TurnsDone DEF Collect, Weight
<1>10. CASE RunHooks(t)
  <2>1. At(t) = "hooks" /\ UNCHANGED locks /\ Weight(At(t)) = 0
    BY <1>10 DEF RunHooks, Weight
  <2>2. CASE Done(t)
    BY <2>1, <2>2, SameLocks, TurnsDone
  <2>3. CASE \E op \in {"alloc", "gc", "critical"} : Do(t, Body(op))
    <3>1. PICK op \in {"alloc", "gc", "critical"} : Do(t, Body(op))
      BY <2>3
    <3>2. Weighs(Body(op), 0)
      BY <1>0, BodyBalanced
    <3> QED BY <2>1, <3>1, <3>2, SameLocks, TurnsDoing
  <2> QED BY <1>10, <2>2, <2>3 DEF RunHooks
<1> QED BY <1>1, <1>2, <1>3, <1>4, <1>5, <1>6, <1>7, <1>8, <1>9, <1>10 DEF CodeStep

(* Creating and blessing threads.                                          *)
LEMMA ThreadTurns ==
    ASSUME Plain, Typed, ShapeInv, SoundInv, NEW t \in Threads, ThreadStep(t)
    PROVE  Turns(t)
<1> USE DEF Runs
<1>1. CASE CallRunSecondaryThread(t)
  <2>1. At(t) = "lisp" /\ UNCHANGED locks /\ Do(t, RunSecondaryThread \o <<"lisp">>)
        /\ Weight(At(t)) = 0
    BY <1>1 DEF CallRunSecondaryThread, Weight
  <2>2. Balanced(t, RunSecondaryThread \o <<"lisp">>, 0, 0)
    BY BalancedCreation, BalancedLisp, Concatenated
  <2>3. Weighs(RunSecondaryThread \o <<"lisp">>, 0)
    BY <2>2, WeighsBalanced
  <2> QED BY <2>1, <2>3, SameLocks, TurnsDoing
<1>2. CASE ReadNum(t)
  <2>1. PICK m \in {"incStore", "decStore"} : Do(t, <<m>>)
    BY <1>2 DEF ReadNum
  <2>2. At(t) \in {"inc", "dec"} /\ UNCHANGED locks
    BY <1>2 DEF ReadNum
  <2>3. m \in Label /\ Weight(m) = 0 /\ Weight(At(t)) = 0
    BY <2>2 DEF Label, Weight
  <2> QED BY <2>1, <2>2, <2>3, SameLocks, TurnsTo
<1>3. CASE LockList(t)
  <2>1. PICK m \in {"inserting", "removing"} : Do(t, <<m>>)
    BY <1>3 DEF LockList
  <2>2. At(t) \in {"insert", "remove"} /\ Enter(t, "TQ")
    BY <1>3 DEF LockList
  <2>3. m \in Label /\ Weight(m) = 0 /\ Weight(At(t)) = 0
    BY <2>2 DEF Label, Weight
  <2> QED BY <2>1, <2>2, <2>3, EnteringOther, TurnsTo
<1>4. CASE \/ StoreNum(t) \/ ResumeNewThread(t) \/ FindRecord(t) \/ AwaitEvent(t)
           \/ ReadThreadID(t) \/ NewQV(t)
  <2>1. Done(t) /\ UNCHANGED locks
        /\ At(t) \in {"incStore", "decStore", "resumeNew", "find", "await", "threadID", "newQV"}
    BY <1>4 DEF StoreNum, ResumeNewThread, FindRecord, AwaitEvent, ReadThreadID, NewQV
  <2>2. Weight(At(t)) = 0
    BY <2>1 DEF Weight
  <2> QED BY <2>1, <2>2, SameLocks, TurnsDone
<1> QED BY <1>1, <1>2, <1>3, <1>4 DEF ThreadStep

(* The list, and the start of a thread: nobody fails to start one.         *)
LEMMA ListTurns ==
    ASSUME Plain, ThreadsStart, Typed, ShapeInv, CreateInv, SoundInv,
           NEW t \in Threads, ListStep(t)
    PROVE  Turns(t)
<1> USE DEF Runs
<1>1. CASE Insert(t) \/ Remove(t)
  <2>1. Done(t) /\ Leave(t, "TQ") /\ At(t) \in {"inserting", "removing"}
    BY <1>1 DEF Insert, Remove
  <2>2. Weight(At(t)) = 0
    BY <2>1 DEF Weight
  <2> QED BY <2>1, <2>2, LeavingOther, TurnsDone
<1>2. CASE BeginThread(t)
  <2>1. "createFails" \notin ops
    BY DEF ThreadsStart, Typed
  <2>2. At(t) = "begin" /\ UNCHANGED locks
        /\ stack' = [stack EXCEPT ![loc[t].other] = SecondaryThreadProc, ![t] = Tail(stack[t])]
    BY <1>2, <2>1 DEF BeginThread
  <2>3. stack'[t] = Tail(stack[t])
    BY <2>2 DEF Typed
  <2>4. Tail(stack[t]) \in Seq(Label)
    BY Tops, HeadTailProperties
  <2>5. stack'[t] = <<>> \o Tail(stack[t]) /\ Weight(At(t)) = 0
    BY <2>2, <2>3, <2>4, ConcatEmptySeq DEF Weight
  <2> QED BY <2>2, <2>5, WeighsNothing DEF Turns
<1> QED BY <1>1, <1>2 DEF ListStep

(* What a thread has entered changes as its stack does.                    *)
LEMMA TurnsExact ==
    ASSUME Typed, ShapeInv, SoundInv, ExactInv, NEW t \in Threads, Turns(t)
    PROVE  /\ Weighs(stack'[t], Held(t)')
           /\ \A u \in Threads \ {t} : Held(u)' = Held(u)
           /\ locks'["GC"].owner = NoThread => locks'["GC"].count = 0
<1> DEFINE l == locks["GC"]
           s == stack[t]
<1>1. /\ Weighs(s, Held(t)) /\ s # <<>> /\ Head(s) = At(t)
      /\ l.owner = NoThread => l.count = 0
  BY Tops DEF ExactInv, At
<1>2. l \in Lock /\ l.count \in Nat /\ NoThread \notin Threads
  BY ThreadsAssumption DEF SoundInv, Lock
<1>3. CASE stack'[t] = s /\ locks'["GC"] = l
  BY <1>1, <1>3 DEF Held
<1>4. ASSUME NEW B, NEW b, stack'[t] = B \o Tail(s), Weighs(B, b),
             locks'["GC"] = l, b = Weight(At(t))
      PROVE  /\ Weighs(stack'[t], Held(t)')
             /\ \A u \in Threads \ {t} : Held(u)' = Held(u)
             /\ locks'["GC"].owner = NoThread => locks'["GC"].count = 0
  <2>1. Held(t)' = Held(t) /\ Held(t) \in Int /\ b \in Int
    BY <1>2, <1>4 DEF Held, Weight
  <2>2. (Held(t) - b) + b = Held(t)
    BY <2>1
  <2>3. Weighs(B \o Tail(s), (Held(t) - Weight(Head(s))) + b)
    BY <1>1, <1>4, WeighsReplaced
  <2>4. Weighs(stack'[t], Held(t)')
    BY <1>1, <1>4, <2>1, <2>2, <2>3
  <2> QED BY <1>1, <1>4, <2>4 DEF Held
<1>5. ASSUME NEW B, NEW b, stack'[t] = B \o Tail(s), Weighs(B, b), b = 0,
             At(t) \in Entering, CanEnter(t, "GC"), locks'["GC"] = Entered(t, l)
      PROVE  /\ Weighs(stack'[t], Held(t)')
             /\ \A u \in Threads \ {t} : Held(u)' = Held(u)
             /\ locks'["GC"].owner = NoThread => locks'["GC"].count = 0
  <2>1. Held(t)' = Held(t) + 1 /\ Held(t) \in Int
    BY <1>1, <1>2, <1>5 DEF Held, Entered, CanEnter
  <2>2. (Held(t) - Weight(Head(s))) + b = Held(t) + 1
    BY <1>1, <1>5, <2>1 DEF Weight, Entering
  <2>3. Weighs(B \o Tail(s), (Held(t) - Weight(Head(s))) + b)
    BY <1>1, <1>5, WeighsReplaced
  <2>4. Weighs(stack'[t], Held(t)')
    BY <1>5, <2>1, <2>2, <2>3
  <2>5. \A u \in Threads \ {t} : Held(u)' = Held(u)
    BY <1>2, <1>5 DEF Held, Entered, CanEnter
  <2> QED BY <1>2, <1>5, <2>4, <2>5 DEF Entered
<1>6. ASSUME NEW B, NEW b, stack'[t] = B \o Tail(s), Weighs(B, b), b = 0,
             At(t) = "leave", locks'["GC"] = Left(t, l)
      PROVE  /\ Weighs(stack'[t], Held(t)')
             /\ \A u \in Threads \ {t} : Held(u)' = Held(u)
             /\ locks'["GC"].owner = NoThread => locks'["GC"].count = 0
  <2>0. l.owner = t /\ l.count >= 1
    <3>1. Sound(t, s, l)
      BY DEF SoundInv
    <3>2. l.owner = t
      BY <1>1, <1>2, <1>6, <3>1, Owner
    <3> QED BY <1>2, <3>2 DEF Lock
  <2>1. Held(t)' = Held(t) - 1 /\ Held(t) \in Int
    BY <1>2, <1>6, <2>0 DEF Held, Left, Unlocked
  <2>2. (Held(t) - Weight(Head(s))) + b = Held(t) - 1
    BY <1>1, <1>6, <2>1 DEF Weight
  <2>3. Weighs(B \o Tail(s), (Held(t) - Weight(Head(s))) + b)
    BY <1>1, <1>6, WeighsReplaced
  <2>4. Weighs(stack'[t], Held(t)')
    BY <1>6, <2>1, <2>2, <2>3
  <2>5. \A u \in Threads \ {t} : Held(u)' = Held(u)
    BY <1>2, <1>6, <2>0 DEF Held, Left, Unlocked
  <2>6. locks'["GC"].owner = NoThread => locks'["GC"].count = 0
    BY <1>2, <1>6, <2>0 DEF Left, Unlocked
  <2> QED BY <2>4, <2>5, <2>6
<1> QED BY <1>1, <1>3, <1>4, <1>5, <1>6 DEF Turns, Held

(* What the thread of a function that has not started gives back.          *)
LEMMA WeighsProc == Weighs(SecondaryThreadProc, 0)
<1> SUFFICES ASSUME NEW t PROVE Balanced(t, SecondaryThreadProc, 0, 0)
  BY WeighsBalanced
<1>1. Balanced(t, <<"find">>, 0, 0)
  BY BalancedQuiet DEF Quiet, Label, ClientLabels
<1>2. Balanced(t, (<<"find">> \o Allocation) \o <<"lisp">>, 0, 0)
  BY <1>1, BalancedAllocation, BalancedLisp, Concatenated
<1> QED BY <1>2, BalancedExit, Concatenated DEF SecondaryThreadProc

(* A stack of one label without weight gives back nothing.                 *)
LEMMA WeighsOne ==
    ASSUME NEW l, NEW w, Weight(l) = 0, Weighs(<<l>>, w)
    PROVE  w = 0
<1>1. PICK c : Counts(<<l>>, c, w)
  BY DEF Weighs
<1>2. Len(<<l>>) = 1 /\ <<l>>[1] = l
  OBVIOUS
<1> QED BY <1>1, <1>2 DEF Counts

(* A label put before three others.                                        *)
LEMMA PutBefore3 ==
    ASSUME NEW a, NEW b, NEW c, NEW d
    PROVE  <<a>> \o <<b, c, d>> = <<a, b, c, d>>
<1> DEFINE S == {a, b, c, d}
           L == <<a>> \o <<b, c, d>>
<1>1. <<a>> \in Seq(S) /\ <<b, c, d>> \in Seq(S) /\ <<a, b, c, d>> \in Seq(S)
  OBVIOUS
<1>2. /\ L \in Seq(S) /\ Len(L) = 4 /\ Len(<<a, b, c, d>>) = 4
      /\ \A i \in 1 .. 4 : L[i] = IF i <= 1 THEN <<a>>[i] ELSE <<b, c, d>>[i - 1]
  BY <1>1, ConcatProperties
<1>3. \A i \in 1 .. 4 : L[i] = <<a, b, c, d>>[i]
  BY <1>2
<1> QED BY <1>1, <1>2, <1>3, SeqEqual

(* Nor does who is in Lisp code with nothing else left to do.               *)
LEMMA WeighsBottom ==
    ASSUME NEW t, NEW w, Weighs(Bottom(t), w)
    PROVE  w = 0
<1> DEFINE L == Bottom(t)
<1>1. PICK c : Counts(L, c, w)
  BY DEF Weighs
<1>2. CASE Ending(t) = <<>>
  <2>1. L = <<"lisp">>
    BY <1>2, PutBefore0 DEF Bottom
  <2>2. Weight("lisp") = 0
    BY DEF Weight
  <2> QED BY <2>1, <2>2, WeighsOne
<1>3. CASE Ending(t) = <<"remove", "dec", "ended">>
  <2> DEFINE M == <<"lisp", "remove", "dec", "ended">>
  <2>1. L = M
    BY <1>3, PutBefore3 DEF Bottom
  <2>2. Len(M) = 4 /\ M[1] = "lisp" /\ M[2] = "remove" /\ M[3] = "dec" /\ M[4] = "ended"
    OBVIOUS
  <2> HIDE DEF L, M
  <2>3. c \in [1 .. 5 -> Int] /\ c[1] = w /\ c[5] = 0
        /\ \A i \in 1 .. 4 : c[i] = c[i + 1] + Weight(M[i])
    BY <1>1, <2>1, <2>2 DEF Counts
  <2>4. \A i \in 1 .. 5 : c[i] \in Int
    BY <2>3
  <2>5. /\ c[1] = c[2] + Weight(M[1]) /\ c[2] = c[3] + Weight(M[2])
        /\ c[3] = c[4] + Weight(M[3]) /\ c[4] = c[5] + Weight(M[4])
    BY <2>3
  <2>6. Weight(M[1]) = 0 /\ Weight(M[2]) = 0 /\ Weight(M[3]) = 0 /\ Weight(M[4]) = 0
    BY <2>2 DEF Weight
  <2> QED BY <2>3, <2>4, <2>5, <2>6
<1>4. CASE Ending(t) = <<"enter", "unbless", "remove", "dec", "leave", "foreign">>
  <2> DEFINE M == <<"lisp", "enter", "unbless", "remove", "dec", "leave", "foreign">>
  <2>1. L = M
    BY <1>4, PutBefore6 DEF Bottom
  <2>2. Len(M) = 7 /\ M[1] = "lisp" /\ M[2] = "enter" /\ M[3] = "unbless"
        /\ M[4] = "remove" /\ M[5] = "dec" /\ M[6] = "leave" /\ M[7] = "foreign"
    OBVIOUS
  <2> HIDE DEF L, M
  <2>3. c \in [1 .. 8 -> Int] /\ c[1] = w /\ c[8] = 0
        /\ \A i \in 1 .. 7 : c[i] = c[i + 1] + Weight(M[i])
    BY <1>1, <2>1, <2>2 DEF Counts
  <2>4. \A i \in 1 .. 8 : c[i] \in Int
    BY <2>3
  <2>5. /\ c[1] = c[2] + Weight(M[1]) /\ c[2] = c[3] + Weight(M[2])
        /\ c[3] = c[4] + Weight(M[3]) /\ c[4] = c[5] + Weight(M[4])
        /\ c[5] = c[6] + Weight(M[5]) /\ c[6] = c[7] + Weight(M[6])
        /\ c[7] = c[8] + Weight(M[7])
    BY <2>3
  <2>6. /\ Weight(M[1]) = 0 /\ Weight(M[2]) = -1 /\ Weight(M[3]) = 0 /\ Weight(M[4]) = 0
        /\ Weight(M[5]) = 0 /\ Weight(M[6]) = 1 /\ Weight(M[7]) = 0
    BY <2>2 DEF Weight
  <2> QED BY <2>3, <2>4, <2>5, <2>6
<1> QED BY <1>2, <1>3, <1>4 DEF Ending

(* Every step keeps the counts exact.                                      *)
LEMMA ExactStep ==
    ASSUME Plain, ThreadsStart, Inv, SoundInv, ExactInv, NEW t \in Threads, PlainStep(t)
    PROVE  ExactInv'
<1>1. Typed /\ ShapeInv /\ CreateInv /\ WorldInv
  BY DEF Inv
<1>2. Turns(t)
  <2>1. CASE StillStep(t)
    BY <1>1, <2>1, StillShape DEF Rested, Turns
  <2> QED BY <1>1, <2>1, StopTurns, CodeTurns, ThreadTurns, ListTurns DEF PlainStep
<1>3. /\ Weighs(stack'[t], Held(t)')
      /\ \A u \in Threads \ {t} : Held(u)' = Held(u)
      /\ locks'["GC"].owner = NoThread => locks'["GC"].count = 0
  BY <1>1, <1>2, TurnsExact
<1>4. Changes(t)
  BY <1>1, StepIs
<1>5. ASSUME NEW u \in Threads \ {t}
      PROVE  Weighs(stack'[u], Held(u)')
  <2>1. CASE stack'[u] = stack[u]
    BY <1>3, <2>1 DEF ExactInv
  <2>2. CASE At(t) = "begin" /\ u = loc[t].other /\ stack'[u] = SecondaryThreadProc
    <3>1. t \in list
      BY <1>1, <2>2, Tops DEF BlessingHeads
    <3>2. stack[u] = <<"none">>
      BY <1>1, <2>2, <3>1 DEF CreateInv, Starting, Creating
    <3>3. Held(u) = 0
      <4>1. Weighs(<<"none">>, Held(u)) /\ Weight("none") = 0
        BY <3>2 DEF ExactInv, Weight
      <4> QED BY <4>1, WeighsOne
    <3> QED BY <1>3, <2>2, <3>3, WeighsProc
  <2> QED BY <1>4, <2>1, <2>2 DEF Changes
<1> QED BY <1>3, <1>5 DEF ExactInv

(* Who is back in Lisp code, in client code or has ended gives back no      *)
(* more.                                                                   *)
LEMMA IdleHoldsNone ==
    ASSUME Inv, ExactInv, NEW t \in Threads, At(t) \in Idle
    PROVE  Held(t) = 0
<1> DEFINE s == stack[t]
<1>1. Weighs(s, Held(t)) /\ Typed /\ ShapeInv
  BY DEF ExactInv, Inv
<1>2. \/ s = Bottom(t) \/ s = <<"ended">> \/ s = <<"none">> \/ s = <<"foreign">>
  <2>1. CASE t \in list
    <3>1. Inside(t, s)
      BY <1>1, <2>1, Tops
    <3>2. Works(t, s) \/ Waits(t, s)
      BY <3>1, InsideIs DEF At, Idle, Work, CreationHeads
    <3>3. CASE Works(t, s)
      <4>1. At(t) = "lisp"
        BY <3>3, WorksHead DEF At, Idle, Work
      <4> QED BY <3>3, <4>1, WorksBottom DEF At
    <3> QED BY <3>2, <3>3 DEF Waits
  <2>2. CASE t \notin list
    <3>1. Outside(t, s) /\ Head(s) \in Idle
      BY <1>1, <2>2, Tops DEF At
    <3>2. Head(s) \notin BlessingHeads
      BY <3>1 DEF Idle, BlessingHeads
    <3>3. Gone(t, s) \/ Waits(t, s)
      BY <3>1, <3>2, BlessesIs DEF Outside
    <3>4. CASE Gone(t, s)
      <4>1. Head(<<"dec", "ended">>) = "dec" /\ Head(<<"decStore", "ended">>) = "decStore"
        BY Tuple2
      <4> QED BY <3>1, <3>4, <4>1 DEF Gone, Idle
    <3> QED BY <3>3, <3>4 DEF Waits
  <2> QED BY <2>1, <2>2
<1>3. CASE s = <<"ended">> \/ s = <<"none">> \/ s = <<"foreign">>
  BY <1>1, <1>3, WeighsOne DEF Weight
<1>4. CASE s = Bottom(t)
  BY <1>1, <1>4, WeighsBottom
<1> QED BY <1>2, <1>3, <1>4

-----------------------------------------------------------------------------
(* Every reachable state.                                                  *)

(* The three invariants together.                                          *)
LocksInv == Inv /\ SoundInv /\ ExactInv

(* At first nobody has entered the lock, nor will leave it.                *)
LEMMA LocksInit == Init => LocksInv
<1> SUFFICES ASSUME Init PROVE LocksInv
  OBVIOUS
<1>1. Inv /\ SoundInv
  BY InitInv, SoundInit DEF CountedInv
<1>2. locks["GC"] = Unlocked
  BY DEF Init, LockNames
<1>3. ASSUME NEW t \in Threads
      PROVE  Weighs(stack[t], Held(t))
  <2>1. Held(t) = 0
    BY <1>2 DEF Held, Unlocked
  <2>2. Weighs(<<"foreign">>, 0) /\ Weighs(<<"none">>, 0)
    <3>1. "foreign" \in Label /\ "none" \in Label /\ Weight("foreign") = 0 /\ Weight("none") = 0
      BY DEF Label, Weight
    <3>2. Weighs(<<"foreign">>, Weight("foreign")) /\ Weighs(<<"none">>, Weight("none"))
      BY <3>1, WeighsLabel
    <3> QED BY <3>1, <3>2
  <2> QED BY <2>1, <2>2 DEF Init
<1>4. ExactInv
  BY <1>2, <1>3 DEF ExactInv, Unlocked
<1> QED BY <1>1, <1>4 DEF LocksInv

(* Every step keeps them.                                                  *)
LEMMA LocksStep ==
    ASSUME Plain, ThreadsStart, LocksInv, [Next]_vars
    PROVE  LocksInv'
<1>0. Inv /\ SoundInv /\ ExactInv /\ Typed /\ ShapeInv
  BY DEF LocksInv, Inv
<1>1. Inv' /\ SoundInv'
  BY <1>0, InvStep, SoundStep DEF Plain
<1>2. CASE UNCHANGED vars
  <2>1. ExactInv'
    BY <1>0, <1>2 DEF vars, ExactInv, Held
  <2> QED BY <1>1, <2>1 DEF LocksInv
<1>3. CASE RunLispThread
  <2>1. stack[Primary] = <<"none">>
    <3>1. Primary \in Threads /\ At(Primary) = "none"
      BY <1>3 DEF RunLispThread, Runs, Threads
    <3>2. Waits(Primary, stack[Primary])
      BY <1>0, <3>1, Tops, InsideIs, OutsideIs DEF At
    <3> QED BY <3>2, ThreadsAssumption DEF Waits
  <2>2. stack' = [stack EXCEPT ![Primary] = <<"lisp">>] /\ locks' = locks
    BY <1>3 DEF RunLispThread
  <2>3. ASSUME NEW t \in Threads
        PROVE  Weighs(stack'[t], Held(t)')
    <3>1. Held(t)' = Held(t) /\ Weighs(stack[t], Held(t))
      BY <1>0, <2>2 DEF Held, ExactInv
    <3>2. CASE t = Primary
      <4>1. Weight("none") = 0 /\ Weight("lisp") = 0 /\ "lisp" \in Label
        BY DEF Weight, Label
      <4>2. Held(t) = 0
        BY <2>1, <3>1, <3>2, <4>1, WeighsOne
      <4>3. Weighs(<<"lisp">>, 0)
        BY <4>1, WeighsLabel
      <4>4. stack'[t] = <<"lisp">>
        BY <1>0, <2>2, <3>2 DEF Typed
      <4> QED BY <3>1, <4>2, <4>3, <4>4
    <3>3. CASE t # Primary
      <4>1. stack'[t] = stack[t]
        BY <2>2, <3>3, <1>0 DEF Typed
      <4> QED BY <3>1, <4>1
    <3> QED BY <3>2, <3>3
  <2>4. ExactInv'
    BY <1>0, <2>2, <2>3 DEF ExactInv
  <2> QED BY <1>1, <2>4 DEF LocksInv
<1>4. ASSUME NEW t \in Threads, PlainStep(t)
      PROVE  LocksInv'
  BY <1>0, <1>1, <1>4, ExactStep DEF LocksInv
<1>5. RunLispThread \/ (\E t \in Threads : PlainStep(t)) \/ UNCHANGED vars
  BY <1>0, OnlyPlain
<1> QED BY <1>2, <1>3, <1>4, <1>5

(* A thread that is back in Lisp code, in client code or has ended owns     *)
(* neither GCCriticalSection nor the lock of the thread list, whatever it   *)
(* called before: allocations that collect, hooks that allocate, creations. *)
THEOREM LocksComeBack ==
    ASSUME Plain, ThreadsStart
    PROVE  Spec => []LocksReturned
<1>1. LocksInv => LocksReturned
  <2> SUFFICES ASSUME LocksInv, NEW t \in Threads, At(t) \in Idle
               PROVE  locks["GC"].owner # t /\ locks["TQ"].owner # t
    BY DEF LocksReturned
  <2>1. Inv /\ ExactInv /\ ListInv /\ locks["GC"] \in Lock /\ t # NoThread
    BY ThreadsAssumption DEF LocksInv, Inv, SoundInv
  <2>2. locks["GC"].owner # t
    <3>1. Held(t) = 0
      BY <2>1, IdleHoldsNone
    <3> QED BY <2>1, <3>1 DEF Held, Lock
  <2>3. locks["TQ"].owner # t
    <3>1. At(t) \notin Listing
      BY DEF Idle, Listing
    <3>2. locks["TQ"] # [owner |-> t, count |-> 1]
      BY <2>1, <3>1 DEF ListInv
    <3>3. CASE locks["TQ"] = Unlocked
      BY <2>1, <3>3 DEF Unlocked
    <3>4. ASSUME NEW u \in Threads, locks["TQ"] = [owner |-> u, count |-> 1]
          PROVE  locks["TQ"].owner # t
      BY <3>2, <3>4
    <3> QED BY <2>1, <3>3, <3>4 DEF ListInv
  <2> QED BY <2>2, <2>3
<1>2. Init => LocksInv
  BY LocksInit
<1>3. LocksInv /\ [Next]_vars => LocksInv'
  BY LocksStep
<1> QED BY <1>1, <1>2, <1>3, PTL DEF Spec

-----------------------------------------------------------------------------
(* Suspensions that are given back.                                        *)

(* The i-th label of a stack, counted from the bottom, where steps leave it *)
(* in its place.                                                           *)
Low(s, i) == IF i \in 1 .. Len(s) THEN s[Len(s) + 1 - i] ELSE "none"

(* With local variables l and label m on its stack a thread will suspend u, *)
(* or suspend it again.                                                    *)
Awaits(l, m, u) ==
    \/ m = "suspend"
    \/ m = "suspending" /\ u \in l.todo
    \/ m = "waking" /\ l.other = u

(* The i-th label will resume u from a suspension: a resumption of a        *)
(* collection five labels above which is its suspension, or what is left of *)
(* a loop, or the start of a thread.                                        *)
Owed(s, l, i, u) ==
    \/ Low(s, i) = "resume" /\ ~ Awaits(l, Low(s, i + 5), u)
    \/ Low(s, i) = "resuming" /\ u \in l.todo
    \/ i = Len(s) /\ Low(s, i) = "resumeNew" /\ l.other = u
Debts(u) == {p \in (Threads \ {u}) \X (Nat \ {0}) : Owed(stack[p[1]], loc[p[1]], p[2], u)}

(* No thread is suspended more often than others will resume it, and only   *)
(* those of the list are.                                                   *)
SuspInv == \A u \in Threads :
    /\ IsFiniteSet(Debts(u)) /\ susp[u] <= Cardinality(Debts(u))
    /\ u \notin list => susp[u] = 0

Walking == {"suspending", "waking", "resuming"}
Halting == {"suspend", "suspending", "waking"}
Special == Walking \cup {"suspend", "ensureSafe", "safe", "resume"}

(* Who suspends the others or looks at them will resume them; loops are on  *)
(* top.                                                                    *)
Orderly(s) == \A k \in 1 .. Len(s) :
    /\ Low(s, k) \in Walking => k = Len(s)
    /\ Low(s, k) \in Halting => k > 5 /\ Low(s, k - 5) = "resume"
    /\ Low(s, k) \in {"ensureSafe", "safe"} => k > 4 /\ Low(s, k - 4) = "resume"
OrderlyInv == \A t \in Threads : Orderly(stack[t])

(* A body: whole collections and other labels.                              *)
Tidy(B) ==
    /\ B \in Seq(Label)
    /\ \A k \in 1 .. Len(B) :
        /\ Low(B, k) \notin Walking \cup {"safe"}
        /\ Low(B, k) = "suspend" => k > 5 /\ Low(B, k - 5) = "resume"
        /\ Low(B, k) = "ensureSafe" => k > 4 /\ Low(B, k - 4) = "resume"
        /\ Low(B, k) = "resume" => k + 5 <= Len(B) /\ Low(B, k + 5) = "suspend"

(* Labels of two sequences.                                                 *)
LEMMA LowBoth ==
    ASSUME NEW B \in Seq(Label), NEW R \in Seq(Label)
    PROVE  /\ B \o R \in Seq(Label) /\ Len(B \o R) = Len(R) + Len(B)
           /\ Len(B) \in Nat /\ Len(R) \in Nat
           /\ \A i \in 1 .. Len(R) : Low(B \o R, i) = Low(R, i)
           /\ \A j \in 1 .. Len(B) : Low(B \o R, Len(R) + j) = Low(B, j)
<1> DEFINE b == Len(B)
           r == Len(R)
           x == B \o R
<1>1. /\ b \in Nat /\ r \in Nat /\ x \in Seq(Label) /\ Len(x) = b + r
      /\ \A i \in 1 .. b : x[i] = B[i]
      /\ \A i \in 1 .. r : x[b + i] = R[i]
  BY ConcatProperties, LenProperties
<1>2. ASSUME NEW i \in 1 .. r
      PROVE  Low(x, i) = Low(R, i)
  <2>1. i \in 1 .. Len(x) /\ r + 1 - i \in 1 .. r /\ Len(x) + 1 - i = b + (r + 1 - i)
    BY <1>1
  <2>2. Low(x, i) = x[b + (r + 1 - i)] /\ Low(R, i) = R[r + 1 - i]
    BY <2>1 DEF Low
  <2> QED BY <1>1, <2>1, <2>2
<1>3. ASSUME NEW j \in 1 .. b
      PROVE  Low(x, r + j) = Low(B, j)
  <2>1. r + j \in 1 .. Len(x) /\ b + 1 - j \in 1 .. b /\ Len(x) + 1 - (r + j) = b + 1 - j
    BY <1>1
  <2>2. Low(x, r + j) = x[b + 1 - j] /\ Low(B, j) = B[b + 1 - j]
    BY <2>1 DEF Low
  <2> QED BY <1>1, <2>1, <2>2
<1> QED BY <1>1, <1>2, <1>3

(* Labels without the one on top.                                           *)
LEMMA LowTail ==
    ASSUME NEW s \in Seq(Label), s # <<>>
    PROVE  /\ Tail(s) \in Seq(Label) /\ Len(s) \in Nat \ {0} /\ Len(Tail(s)) = Len(s) - 1
           /\ \A i \in 1 .. Len(s) - 1 : Low(Tail(s), i) = Low(s, i)
           /\ Low(s, Len(s)) = Head(s)
           /\ \A i : i \notin 1 .. Len(s) => Low(s, i) = "none"
<1> DEFINE n == Len(s)
           r == Tail(s)
<1>1. n \in Nat \ {0} /\ r \in Seq(Label) /\ Len(r) = n - 1
      /\ \A i \in 1 .. n - 1 : r[i] = s[i + 1]
  BY EmptySeq, LenProperties, HeadTailProperties
<1>2. ASSUME NEW i \in 1 .. n - 1
      PROVE  Low(r, i) = Low(s, i)
  <2>1. i \in 1 .. n /\ n - i \in 1 .. n - 1 /\ (n - 1) + 1 - i = n - i /\ n + 1 - i = (n - i) + 1
    BY <1>1
  <2>2. Low(r, i) = r[n - i] /\ Low(s, i) = s[(n - i) + 1]
    BY <1>1, <2>1 DEF Low
  <2> QED BY <1>1, <2>1, <2>2
<1>3. Low(s, n) = Head(s)
  <2>1. n \in 1 .. n /\ n + 1 - n = 1 /\ Head(s) = s[1]
    BY <1>1
  <2> QED BY <2>1 DEF Low
<1>4. \A i : i \notin 1 .. n => Low(s, i) = "none"
  BY DEF Low
<1> QED BY <1>1, <1>2, <1>3, <1>4

(* A body in the place of the label on top.                                 *)
LEMMA LowPut ==
    ASSUME NEW s \in Seq(Label), s # <<>>, NEW B \in Seq(Label)
    PROVE  LET x == B \o Tail(s) IN
           /\ x \in Seq(Label) /\ Len(s) \in Nat \ {0} /\ Len(B) \in Nat
           /\ Len(x) = (Len(s) - 1) + Len(B)
           /\ \A i \in 1 .. Len(s) - 1 : Low(x, i) = Low(s, i)
           /\ \A j \in 1 .. Len(B) : Low(x, (Len(s) - 1) + j) = Low(B, j)
           /\ Low(s, Len(s)) = Head(s)
           /\ \A i : i \notin 1 .. Len(s) => Low(s, i) = "none"
           /\ \A i : i \notin 1 .. Len(x) => Low(x, i) = "none"
<1> DEFINE x == B \o Tail(s)
<1>1. /\ Tail(s) \in Seq(Label) /\ Len(s) \in Nat \ {0} /\ Len(Tail(s)) = Len(s) - 1
      /\ \A i \in 1 .. Len(s) - 1 : Low(Tail(s), i) = Low(s, i)
      /\ Low(s, Len(s)) = Head(s)
      /\ \A i : i \notin 1 .. Len(s) => Low(s, i) = "none"
  BY LowTail
<1>2. /\ x \in Seq(Label) /\ Len(x) = Len(Tail(s)) + Len(B) /\ Len(B) \in Nat
      /\ \A i \in 1 .. Len(Tail(s)) : Low(x, i) = Low(Tail(s), i)
      /\ \A j \in 1 .. Len(B) : Low(x, Len(Tail(s)) + j) = Low(B, j)
  BY <1>1, LowBoth
<1>3. \A i : i \notin 1 .. Len(x) => Low(x, i) = "none"
  BY DEF Low
<1> HIDE DEF Low
<1> QED BY <1>1, <1>2, <1>3

(* Two bodies one after the other.                                          *)
LEMMA TidyBoth ==
    ASSUME NEW A, NEW B, Tidy(A), Tidy(B)
    PROVE  Tidy(A \o B)
<1> DEFINE a == Len(A)
           b == Len(B)
           x == A \o B
<1>1. A \in Seq(Label) /\ B \in Seq(Label)
  BY DEF Tidy
<1>2. /\ x \in Seq(Label) /\ Len(x) = b + a /\ a \in Nat /\ b \in Nat
      /\ \A i \in 1 .. b : Low(x, i) = Low(B, i)
      /\ \A j \in 1 .. a : Low(x, b + j) = Low(A, j)
  BY <1>1, LowBoth
<1> HIDE DEF x
<1>3. ASSUME NEW k \in 1 .. Len(x)
      PROVE  /\ Low(x, k) \notin Walking \cup {"safe"}
             /\ Low(x, k) = "suspend" => k > 5 /\ Low(x, k - 5) = "resume"
             /\ Low(x, k) = "ensureSafe" => k > 4 /\ Low(x, k - 4) = "resume"
             /\ Low(x, k) = "resume" => k + 5 <= Len(x) /\ Low(x, k + 5) = "suspend"
  <2>1. CASE k <= b
    <3>1. k \in 1 .. b /\ Low(x, k) = Low(B, k)
      BY <1>2, <2>1
    <3>2. /\ Low(B, k) \notin Walking \cup {"safe"}
          /\ Low(B, k) = "suspend" => k > 5 /\ Low(B, k - 5) = "resume"
          /\ Low(B, k) = "ensureSafe" => k > 4 /\ Low(B, k - 4) = "resume"
          /\ Low(B, k) = "resume" => k + 5 <= b /\ Low(B, k + 5) = "suspend"
      BY <3>1 DEF Tidy
    <3>3. /\ k > 5 => Low(x, k - 5) = Low(B, k - 5)
          /\ k > 4 => Low(x, k - 4) = Low(B, k - 4)
          /\ k + 5 <= b => Low(x, k + 5) = Low(B, k + 5) /\ k + 5 <= Len(x)
      BY <1>2, <3>1
    <3> QED BY <3>1, <3>2, <3>3
  <2>2. CASE k > b
    <3> DEFINE j == k - b
    <3>1. j \in 1 .. a /\ k = b + j
      BY <1>2, <2>2
    <3> HIDE DEF j
    <3>2. Low(x, k) = Low(A, j)
      BY <1>2, <3>1
    <3>3. /\ Low(A, j) \notin Walking \cup {"safe"}
          /\ Low(A, j) = "suspend" => j > 5 /\ Low(A, j - 5) = "resume"
          /\ Low(A, j) = "ensureSafe" => j > 4 /\ Low(A, j - 4) = "resume"
          /\ Low(A, j) = "resume" => j + 5 <= a /\ Low(A, j + 5) = "suspend"
      BY <3>1 DEF Tidy
    <3>4. j > 5 => k > 5 /\ Low(x, k - 5) = Low(A, j - 5)
      <4>1. j > 5 => j - 5 \in 1 .. a /\ k - 5 = b + (j - 5) /\ k > 5
        BY <1>2, <3>1
      <4> QED BY <1>2, <4>1
    <3>5. j > 4 => k > 4 /\ Low(x, k - 4) = Low(A, j - 4)
      <4>1. j > 4 => j - 4 \in 1 .. a /\ k - 4 = b + (j - 4) /\ k > 4
        BY <1>2, <3>1
      <4> QED BY <1>2, <4>1
    <3>6. j + 5 <= a => k + 5 <= Len(x) /\ Low(x, k + 5) = Low(A, j + 5)
      <4>1. j + 5 <= a => j + 5 \in 1 .. a /\ k + 5 = b + (j + 5) /\ k + 5 <= Len(x)
        BY <1>2, <3>1
      <4> QED BY <1>2, <4>1
    <3> QED BY <3>2, <3>3, <3>4, <3>5, <3>6
  <2> QED BY <1>2, <2>1, <2>2
<1> QED BY <1>2, <1>3 DEF Tidy, x

(* Labels that have nothing to do with stopping.                            *)
Bare(B) == B \in Seq(Label) /\ \A i \in 1 .. Len(B) : B[i] \notin Special

(* They are a body, a stack, and owe nothing but to a thread that starts.    *)
LEMMA BareIs ==
    ASSUME NEW B, Bare(B)
    PROVE  /\ \A i : Low(B, i) \notin Special
           /\ Tidy(B) /\ Orderly(B)
           /\ \A l, i, u : Owed(B, l, i, u) => i = Len(B) /\ Low(B, i) = "resumeNew"
<1>1. \A i : Low(B, i) \notin Special
  <2>1. Len(B) \in Nat
    BY LenProperties DEF Bare
  <2>2. "none" \notin Special
    BY DEF Special, Walking
  <2>3. \A i \in 1 .. Len(B) : Len(B) + 1 - i \in 1 .. Len(B)
    BY <2>1
  <2> QED BY <2>2, <2>3 DEF Low, Bare
<1> QED BY <1>1 DEF Tidy, Orderly, Owed, Special, Walking, Halting, Bare

(* A collection is a body.                                                  *)
LEMMA TidyCollection == Tidy(GarbageCollect)
<1> DEFINE B == GarbageCollect
<1>1. B \in Seq(Label) /\ Len(B) = 7
  BY DEF GarbageCollect, Label
<1>2. /\ B[1] = "gc" /\ B[2] = "suspend" /\ B[3] = "ensureSafe" /\ B[4] = "collect"
      /\ B[5] = "hooks" /\ B[6] = "leave" /\ B[7] = "resume"
  BY DEF GarbageCollect
<1> HIDE DEF B
<1>3. /\ Low(B, 1) = "resume" /\ Low(B, 2) = "leave" /\ Low(B, 3) = "hooks"
      /\ Low(B, 4) = "collect" /\ Low(B, 5) = "ensureSafe" /\ Low(B, 6) = "suspend"
      /\ Low(B, 7) = "gc"
  BY <1>1, <1>2 DEF Low
<1>4. ASSUME NEW k \in 1 .. 7
      PROVE  /\ Low(B, k) \notin Walking \cup {"safe"}
             /\ Low(B, k) = "suspend" => k > 5 /\ Low(B, k - 5) = "resume"
             /\ Low(B, k) = "ensureSafe" => k > 4 /\ Low(B, k - 4) = "resume"
             /\ Low(B, k) = "resume" => k + 5 <= 7 /\ Low(B, k + 5) = "suspend"
  <2>1. k = 1 \/ k = 2 \/ k = 3 \/ k = 4 \/ k = 5 \/ k = 6 \/ k = 7
    OBVIOUS
  <2> QED BY <1>3, <2>1 DEF Walking
<1> QED BY <1>1, <1>4 DEF Tidy, B

(* The bodies of what Lisp code calls, and others.                          *)
LEMMA TidyBodies ==
    /\ Tidy(<<>>) /\ Tidy(<<"leave">>) /\ Tidy(<<"lisp">>) /\ Tidy(<<"bump">>)
    /\ Tidy(GarbageCollect \o <<"bump">>) /\ Tidy(BlessThread)
    /\ Tidy(RunSecondaryThread \o <<"lisp">>)
    /\ \A op \in {"alloc", "gc", "critical"} : Tidy(Body(op)) /\ Tidy(Body(op) \o <<"lisp">>)
<1>1. Tidy(<<>>) /\ Tidy(<<"leave">>) /\ Tidy(<<"lisp">>) /\ Tidy(<<"bump">>)
  <2>1. Bare(<<>>) /\ Bare(<<"leave">>) /\ Bare(<<"lisp">>) /\ Bare(<<"bump">>)
    BY DEF Bare, Label, Special, Walking
  <2> QED BY <2>1, BareIs
<1>2. Tidy(GarbageCollect \o <<"bump">>)
  BY <1>1, TidyCollection, TidyBoth
<1>3. Tidy(BlessThread)
  <2>1. Bare(<<"enter", "newQV", "inc", "insert">>) /\ Bare(Allocation)
        /\ Bare(<<"leave", "lisp", "enter", "unbless", "remove", "dec", "leave", "foreign">>)
    BY DEF Bare, Label, Special, Walking, Allocation
  <2> QED BY <2>1, BareIs, TidyBoth DEF BlessThread
<1>4. Tidy(RunSecondaryThread \o <<"lisp">>)
  <2>1. Bare(RunSecondaryThread)
    BY DEF Bare, Label, Special, Walking, RunSecondaryThread
  <2> QED BY <1>1, <2>1, BareIs, TidyBoth
<1>5. Tidy(Allocation) /\ Tidy(<<"enterCS", "leaveCS">>)
  <2>1. Bare(Allocation) /\ Bare(<<"enterCS", "leaveCS">>)
    BY DEF Bare, Label, Special, Walking, Allocation
  <2> QED BY <2>1, BareIs
<1>6. \A op \in {"alloc", "gc", "critical"} : Tidy(Body(op))
  BY <1>5, TidyCollection DEF Body
<1> QED BY <1>1, <1>2, <1>3, <1>4, <1>6, TidyBoth

(* Resumptions below the label on top whose suspension is not below it.     *)
Deep(s, i) ==
    /\ i < Len(s) /\ Low(s, i) = "resume"
    /\ i + 5 < Len(s) => Low(s, i + 5) # "suspend"

(* What the label on top owes.                                              *)
TopOwes(l, h, u) ==
    \/ h = "resume"
    \/ h = "resuming" /\ u \in l.todo
    \/ h = "resumeNew" /\ l.other = u

(* What is owed depends on the local variables only through the label on    *)
(* top.                                                                    *)
LEMMA OwedIs ==
    ASSUME NEW s \in Seq(Label), s # <<>>, Orderly(s), NEW l, NEW u, NEW i \in Nat \ {0}
    PROVE  Owed(s, l, i, u) <=>
              \/ Deep(s, i) /\ (i + 5 = Len(s) => ~ Awaits(l, Head(s), u))
              \/ i = Len(s) /\ TopOwes(l, Head(s), u)
<1> DEFINE n == Len(s)
           h == Head(s)
<1>1. /\ n \in Nat \ {0} /\ Low(s, n) = h
      /\ \A k : k \notin 1 .. n => Low(s, k) = "none"
  BY LowTail
<1>2. \A k \in 1 .. n - 1 : Low(s, k) \notin Walking
  BY <1>1 DEF Orderly
<1> HIDE DEF n, h, Low
<1>3. CASE i > n
  <2>1. Low(s, i) = "none" /\ i # n /\ ~ (i < n)
    BY <1>1, <1>3
  <2> QED BY <2>1 DEF Owed, Deep, n
<1>4. CASE i = n
  <2>1. Low(s, i + 5) = "none" /\ Low(s, i) = h /\ ~ (i < n)
    BY <1>1, <1>4
  <2>2. ~ Awaits(l, "none", u)
    BY DEF Awaits
  <2> QED BY <1>4, <2>1, <2>2 DEF Owed, Deep, TopOwes, n, h
<1>5. CASE i < n
  <2>1. Low(s, i) \notin Walking /\ i # n
    BY <1>1, <1>2, <1>5
  <2>2. Owed(s, l, i, u) <=> Low(s, i) = "resume" /\ ~ Awaits(l, Low(s, i + 5), u)
    BY <2>1 DEF Owed, Walking, n
  <2>3. CASE i + 5 = n
    BY <1>1, <1>5, <2>1, <2>2, <2>3 DEF Deep, n, h
  <2>4. CASE i + 5 < n
    <3>1. i + 5 \in 1 .. n - 1
      BY <1>1, <2>4
    <3>2. Low(s, i + 5) \notin Walking
      BY <1>2, <3>1
    <3>3. Awaits(l, Low(s, i + 5), u) <=> Low(s, i + 5) = "suspend"
      BY <3>2 DEF Awaits, Walking
    <3>4. i + 5 # n
      BY <1>1, <2>4
    <3> QED BY <1>5, <2>1, <2>2, <2>4, <3>3, <3>4 DEF Deep, n
  <2>5. CASE i + 5 > n
    <3>1. Low(s, i + 5) = "none" /\ i + 5 # n /\ ~ (i + 5 < n)
      BY <1>1, <2>5
    <3>2. ~ Awaits(l, "none", u)
      BY DEF Awaits
    <3> QED BY <1>5, <2>1, <2>2, <3>1, <3>2 DEF Deep, n
  <2> QED BY <1>1, <2>3, <2>4, <2>5
<1> QED BY <1>1, <1>3, <1>4, <1>5

(* A body is put in the place of the label on top.                          *)
LEMMA PutOrderly ==
    ASSUME NEW s \in Seq(Label), s # <<>>, Orderly(s), NEW B, Tidy(B)
    PROVE  LET x == B \o Tail(s) IN
           x \in Seq(Label) /\ Orderly(x)
<1> DEFINE n == Len(s)
           b == Len(B)
           x == B \o Tail(s)
<1>1. /\ x \in Seq(Label) /\ n \in Nat \ {0} /\ b \in Nat /\ Len(x) = (n - 1) + b
      /\ \A i \in 1 .. n - 1 : Low(x, i) = Low(s, i)
      /\ \A j \in 1 .. b : Low(x, (n - 1) + j) = Low(B, j)
  <2>1. B \in Seq(Label)
    BY DEF Tidy
  <2> QED BY <2>1, LowPut
<1> HIDE DEF x
<1>2. ASSUME NEW k \in 1 .. Len(x)
      PROVE  /\ Low(x, k) \in Walking => k = Len(x)
             /\ Low(x, k) \in Halting => k > 5 /\ Low(x, k - 5) = "resume"
             /\ Low(x, k) \in {"ensureSafe", "safe"} => k > 4 /\ Low(x, k - 4) = "resume"
  <2> HIDE DEF n, b, Low
  <2>1. CASE k < n
    <3>1. k \in 1 .. n - 1 /\ k \in 1 .. n /\ k # n
      BY <1>1, <2>1
    <3>2. /\ Low(s, k) \notin Walking
          /\ Low(s, k) \in Halting => k > 5 /\ Low(s, k - 5) = "resume"
          /\ Low(s, k) \in {"ensureSafe", "safe"} => k > 4 /\ Low(s, k - 4) = "resume"
      BY <3>1 DEF Orderly, n
    <3>3. /\ Low(x, k) = Low(s, k)
          /\ k > 5 => Low(x, k - 5) = Low(s, k - 5)
          /\ k > 4 => Low(x, k - 4) = Low(s, k - 4)
      BY <1>1, <3>1
    <3> QED BY <3>2, <3>3
  <2>2. CASE k >= n
    <3> DEFINE j == k - (n - 1)
    <3>1. j \in 1 .. b /\ k = (n - 1) + j
      BY <1>1, <2>2
    <3> HIDE DEF j
    <3>2. Low(x, k) = Low(B, j)
      BY <1>1, <3>1
    <3>3. /\ Low(B, j) \notin Walking \cup {"safe"}
          /\ Low(B, j) = "suspend" => j > 5 /\ Low(B, j - 5) = "resume"
          /\ Low(B, j) = "ensureSafe" => j > 4 /\ Low(B, j - 4) = "resume"
      BY <3>1 DEF Tidy, b
    <3>4. j > 5 => k > 5 /\ Low(x, k - 5) = Low(B, j - 5)
      <4>1. j > 5 => j - 5 \in 1 .. b /\ k - 5 = (n - 1) + (j - 5) /\ k > 5
        BY <1>1, <3>1
      <4> QED BY <1>1, <4>1
    <3>5. j > 4 => k > 4 /\ Low(x, k - 4) = Low(B, j - 4)
      <4>1. j > 4 => j - 4 \in 1 .. b /\ k - 4 = (n - 1) + (j - 4) /\ k > 4
        BY <1>1, <3>1
      <4> QED BY <1>1, <4>1
    <3> QED BY <3>2, <3>3, <3>4, <3>5 DEF Halting, Walking
  <2> QED BY <1>1, <2>1, <2>2
<1> QED BY <1>1, <1>2 DEF Orderly, x

(* It owes nothing by itself; what is below it owes what it did before.     *)
LEMMA PutOwes ==
    ASSUME NEW s \in Seq(Label), s # <<>>, Orderly(s), NEW B, Tidy(B),
           NEW l, NEW u, NEW i \in Nat \ {0}
    PROVE  LET x == B \o Tail(s) IN
           Owed(x, l, i, u) <=>
              \/ Deep(s, i)
              \/ i = Len(x) /\ Low(x, i) = "resumeNew" /\ l.other = u
<1> DEFINE n == Len(s)
           b == Len(B)
           x == B \o Tail(s)
<1>1. /\ n \in Nat \ {0} /\ b \in Nat /\ Len(x) = (n - 1) + b
      /\ \A k \in 1 .. n - 1 : Low(x, k) = Low(s, k)
      /\ \A j \in 1 .. b : Low(x, (n - 1) + j) = Low(B, j)
      /\ \A k : k \notin 1 .. Len(x) => Low(x, k) = "none"
  <2>1. B \in Seq(Label)
    BY DEF Tidy
  <2> QED BY <2>1, LowPut
<1> HIDE DEF x
<1>2. \A k \in 1 .. n - 1 : Low(s, k) \notin Walking
  BY <1>1 DEF Orderly
<1>3. \A j \in 1 .. b : /\ Low(B, j) \notin Walking
                        /\ Low(B, j) = "suspend" => j > 5
                        /\ Low(B, j) = "resume" => j + 5 <= b /\ Low(B, j + 5) = "suspend"
  BY DEF Tidy
<1> HIDE DEF n, b, Low
<1>4. \A k : Low(x, k) \notin Walking
  <2> SUFFICES ASSUME NEW k \in 1 .. Len(x) PROVE Low(x, k) \notin Walking
    BY <1>1 DEF Walking
  <2>1. CASE k < n
    <3>1. k \in 1 .. n - 1
      BY <1>1, <2>1
    <3> QED BY <1>1, <1>2, <3>1
  <2>2. CASE k >= n
    <3>1. k - (n - 1) \in 1 .. b /\ k = (n - 1) + (k - (n - 1))
      BY <1>1, <2>2
    <3> QED BY <1>1, <1>3, <3>1
  <2> QED BY <1>1, <2>1, <2>2
<1>5. Owed(x, l, i, u) <=>
         \/ Low(x, i) = "resume" /\ Low(x, i + 5) # "suspend"
         \/ i = Len(x) /\ Low(x, i) = "resumeNew" /\ l.other = u
  BY <1>4 DEF Owed, Awaits, Walking
<1>6. Low(x, i) = "resume" /\ Low(x, i + 5) # "suspend" <=> Deep(s, i)
  <2>1. CASE i >= n
    <3>1. ~ Deep(s, i)
      BY <1>1, <2>1 DEF Deep, n
    <3>2. CASE i \notin 1 .. Len(x)
      BY <1>1, <3>1, <3>2
    <3>3. CASE i \in 1 .. Len(x)
      <4> DEFINE j == i - (n - 1)
      <4>1. j \in 1 .. b /\ i = (n - 1) + j /\ i + 5 = (n - 1) + (j + 5)
        BY <1>1, <2>1, <3>3
      <4> HIDE DEF j
      <4>2. Low(x, i) = Low(B, j)
        BY <1>1, <4>1
      <4>3. ASSUME Low(B, j) = "resume" PROVE Low(x, i + 5) = "suspend"
        <5>1. j + 5 \in 1 .. b /\ Low(B, j + 5) = "suspend"
          BY <1>1, <1>3, <4>1, <4>3
        <5> QED BY <1>1, <4>1, <5>1
      <4> QED BY <3>1, <4>2, <4>3
    <3> QED BY <3>2, <3>3
  <2>2. CASE i < n
    <3>1. i \in 1 .. n - 1 /\ Low(x, i) = Low(s, i)
      BY <1>1, <2>2
    <3>2. CASE i + 5 < n
      <4>1. i + 5 \in 1 .. n - 1 /\ Low(x, i + 5) = Low(s, i + 5)
        BY <1>1, <3>1, <3>2
      <4> QED BY <2>2, <3>1, <3>2, <4>1 DEF Deep, n
    <3>3. CASE i + 5 >= n
      <4>1. ~ (i + 5 < n)
        BY <1>1, <3>1, <3>3
      <4>2. Low(x, i + 5) # "suspend"
        <5>1. CASE i + 5 \notin 1 .. Len(x)
          BY <1>1, <5>1
        <5>2. CASE i + 5 \in 1 .. Len(x)
          <6> DEFINE j == (i + 5) - (n - 1)
          <6>1. j \in 1 .. b /\ i + 5 = (n - 1) + j /\ ~ (j > 5)
            BY <1>1, <3>1, <3>3, <5>2
          <6> HIDE DEF j
          <6>2. Low(x, i + 5) = Low(B, j)
            BY <1>1, <6>1
          <6> QED BY <1>3, <6>1, <6>2
        <5> QED BY <5>1, <5>2
      <4> QED BY <2>2, <3>1, <4>1, <4>2 DEF Deep, n
    <3> QED BY <1>1, <3>1, <3>2, <3>3
  <2> QED BY <1>1, <2>1, <2>2
<1> QED BY <1>5, <1>6 DEF x

(* The label on top becomes another.                                        *)
LEMMA LowRelabel ==
    ASSUME NEW s \in Seq(Label), s # <<>>, NEW m \in Label
    PROVE  LET x == <<m>> \o Tail(s) IN
           /\ x \in Seq(Label) /\ x # <<>> /\ Len(x) = Len(s) /\ Head(x) = m
           /\ \A i \in Nat \ {0} : Deep(x, i) <=> Deep(s, i)
           /\ \A i \in 1 .. Len(s) - 1 : Low(x, i) = Low(s, i)
           /\ Low(x, Len(s)) = m
<1> DEFINE B == <<m>>
           x == B \o Tail(s)
<1>1. B \in Seq(Label) /\ Len(B) = 1 /\ Low(B, 1) = m
  BY DEF Low
<1> HIDE DEF B
<1>2. /\ x \in Seq(Label) /\ Len(s) \in Nat \ {0} /\ Len(x) = (Len(s) - 1) + 1
      /\ \A i \in 1 .. Len(s) - 1 : Low(x, i) = Low(s, i)
      /\ Low(x, (Len(s) - 1) + 1) = m
  <2>1. /\ x \in Seq(Label) /\ Len(s) \in Nat \ {0} /\ Len(x) = (Len(s) - 1) + Len(B)
        /\ \A i \in 1 .. Len(s) - 1 : Low(x, i) = Low(s, i)
        /\ \A j \in 1 .. Len(B) : Low(x, (Len(s) - 1) + j) = Low(B, j)
    BY <1>1, LowPut
  <2> QED BY <1>1, <2>1
<1> HIDE DEF x
<1>3. Len(x) = Len(s) /\ Low(x, Len(s)) = m
  BY <1>2
<1>4. x # <<>>
  BY <1>2, <1>3, EmptySeq
<1>5. Head(x) = m
  BY <1>2, <1>3, <1>4, LowTail
<1>6. ASSUME NEW i \in Nat \ {0}
      PROVE  Deep(x, i) <=> Deep(s, i)
  <2>1. /\ i < Len(s) => Low(x, i) = Low(s, i)
        /\ i + 5 < Len(s) => Low(x, i + 5) = Low(s, i + 5)
    BY <1>2
  <2> QED BY <1>3, <2>1 DEF Deep
<1> QED BY <1>2, <1>3, <1>4, <1>5, <1>6 DEF x, B

(* Two labels in its place.                                                 *)
LEMMA LowWake ==
    ASSUME NEW s \in Seq(Label), s # <<>>
    PROVE  LET x == <<"waking", "safe">> \o Tail(s) IN
           /\ x \in Seq(Label) /\ x # <<>> /\ Len(s) \in Nat \ {0} /\ Len(x) = Len(s) + 1
           /\ Head(x) = "waking"
           /\ \A i \in Nat \ {0} : Deep(x, i) <=> Deep(s, i)
           /\ \A i \in 1 .. Len(s) - 1 : Low(x, i) = Low(s, i)
           /\ Low(x, Len(s)) = "safe" /\ Low(x, Len(s) + 1) = "waking"
<1> DEFINE B == <<"waking", "safe">>
           x == B \o Tail(s)
<1>1. B \in Seq(Label) /\ Len(B) = 2 /\ Low(B, 1) = "safe" /\ Low(B, 2) = "waking"
  BY DEF Label, Low
<1> HIDE DEF B
<1>2. /\ x \in Seq(Label) /\ Len(s) \in Nat \ {0} /\ Len(x) = (Len(s) - 1) + 2
      /\ \A i \in 1 .. Len(s) - 1 : Low(x, i) = Low(s, i)
      /\ Low(x, (Len(s) - 1) + 1) = "safe" /\ Low(x, (Len(s) - 1) + 2) = "waking"
  <2>1. /\ x \in Seq(Label) /\ Len(s) \in Nat \ {0} /\ Len(x) = (Len(s) - 1) + Len(B)
        /\ \A i \in 1 .. Len(s) - 1 : Low(x, i) = Low(s, i)
        /\ \A j \in 1 .. Len(B) : Low(x, (Len(s) - 1) + j) = Low(B, j)
    BY <1>1, LowPut
  <2> QED BY <1>1, <2>1
<1> HIDE DEF x
<1>3. Len(x) = Len(s) + 1 /\ Low(x, Len(s)) = "safe" /\ Low(x, Len(s) + 1) = "waking"
  <2>1. (Len(s) - 1) + 1 = Len(s) /\ (Len(s) - 1) + 2 = Len(s) + 1
    BY <1>2
  <2> QED BY <1>2, <2>1
<1>4. x # <<>>
  BY <1>2, <1>3, EmptySeq
<1>5. Head(x) = "waking"
  BY <1>2, <1>3, <1>4, LowTail
<1>6. ASSUME NEW i \in Nat \ {0}
      PROVE  Deep(x, i) <=> Deep(s, i)
  <2>1. /\ i < Len(s) => Low(x, i) = Low(s, i)
        /\ i + 5 < Len(s) => Low(x, i + 5) = Low(s, i + 5)
    BY <1>2
  <2>2. i < Len(s) + 1 => i < Len(s) \/ i = Len(s)
    BY <1>2
  <2>3. i + 5 < Len(s) + 1 => i + 5 < Len(s) \/ i + 5 = Len(s)
    BY <1>2
  <2> QED BY <1>2, <1>3, <2>1, <2>2, <2>3 DEF Deep
<1> QED BY <1>2, <1>3, <1>4, <1>5, <1>6 DEF x, B

-----------------------------------------------------------------------------
(* Counting.                                                                *)

(* One more, or one less.                                                   *)
LEMMA Recounted ==
    ASSUME NEW D, IsFiniteSet(D), NEW n \in Nat, n <= Cardinality(D), NEW p
    PROVE  /\ IsFiniteSet(D \cup {p}) /\ IsFiniteSet(D \ {p})
           /\ n <= Cardinality(D \cup {p})
           /\ p \notin D => n + 1 <= Cardinality(D \cup {p}) /\ n <= Cardinality(D \ {p})
           /\ Resumed(n) <= Cardinality(D \ {p})
<1>1. Cardinality(D) \in Nat
  BY FS_CardinalityType
<1>2. /\ IsFiniteSet(D \cup {p})
      /\ Cardinality(D \cup {p}) = IF p \in D THEN Cardinality(D) ELSE Cardinality(D) + 1
  BY FS_AddElement
<1>3. /\ IsFiniteSet(D \ {p})
      /\ Cardinality(D \ {p}) = IF p \in D THEN Cardinality(D) - 1 ELSE Cardinality(D)
  BY FS_RemoveElement
<1>4. Resumed(n) <= Cardinality(D \ {p})
  <2>1. Cardinality(D \ {p}) \in Nat
    BY <1>3, FS_CardinalityType
  <2> QED BY <1>1, <1>3, <2>1 DEF Resumed
<1> QED BY <1>1, <1>2, <1>3, <1>4

(* Nobody's debts to u change.                                              *)
LEMMA DebtsSame ==
    ASSUME NEW u \in Threads,
           \A v \in Threads \ {u} : \A i \in Nat \ {0} :
              Owed(stack'[v], loc'[v], i, u) <=> Owed(stack[v], loc[v], i, u)
    PROVE  Debts(u)' = Debts(u)
<1> DEFINE P == (Threads \ {u}) \X (Nat \ {0})
<1>1. \A p \in P : p[1] \in Threads \ {u} /\ p[2] \in Nat \ {0}
  OBVIOUS
<1>2. \A p \in P : Owed(stack'[p[1]], loc'[p[1]], p[2], u) <=> Owed(stack[p[1]], loc[p[1]], p[2], u)
  BY <1>1
<1> QED BY <1>2 DEF Debts

(* Only one debt of t to u does.                                            *)
LEMMA DebtsChange ==
    ASSUME NEW t \in Threads, NEW u \in Threads \ {t}, NEW k \in Nat \ {0},
           \A v \in Threads \ {t} : \A i \in Nat \ {0} :
              Owed(stack'[v], loc'[v], i, u) <=> Owed(stack[v], loc[v], i, u),
           \A i \in (Nat \ {0}) \ {k} :
              Owed(stack'[t], loc'[t], i, u) <=> Owed(stack[t], loc[t], i, u)
    PROVE  /\ Owed(stack'[t], loc'[t], k, u) => Debts(u)' = Debts(u) \cup {<<t, k>>}
           /\ ~ Owed(stack'[t], loc'[t], k, u) => Debts(u)' = Debts(u) \ {<<t, k>>}
           /\ <<t, k>> \in Debts(u) <=> Owed(stack[t], loc[t], k, u)
<1> DEFINE P == (Threads \ {u}) \X (Nat \ {0})
           O(p) == Owed(stack[p[1]], loc[p[1]], p[2], u)
           N(p) == Owed(stack'[p[1]], loc'[p[1]], p[2], u)
<1>1. \A p \in P : p[1] \in Threads \ {u} /\ p[2] \in Nat \ {0} /\ p = <<p[1], p[2]>>
  OBVIOUS
<1>2. <<t, k>> \in P /\ <<t, k>>[1] = t /\ <<t, k>>[2] = k
  OBVIOUS
<1>3. Debts(u) = {p \in P : O(p)} /\ Debts(u)' = {p \in P : N(p)}
  BY DEF Debts
<1>4. ASSUME NEW p \in P, p # <<t, k>>
      PROVE  N(p) <=> O(p)
  <2>1. p[1] \in Threads \ {u} /\ p[2] \in Nat \ {0} /\ (p[1] # t \/ p[2] # k)
    BY <1>1, <1>4
  <2> QED BY <2>1
<1>5. /\ O(<<t, k>>) <=> Owed(stack[t], loc[t], k, u)
      /\ N(<<t, k>>) <=> Owed(stack'[t], loc'[t], k, u)
  BY <1>2
<1> HIDE DEF P, O, N
<1> QED BY <1>2, <1>3, <1>4, <1>5

-----------------------------------------------------------------------------
(* What a step does to the debts of the thread that takes it.               *)

(* Of what t owes to u only one thing changes, as the suspend count of u    *)
(* does.                                                                   *)
Pays(t, u) == \E k \in Nat \ {0} :
    /\ \A i \in (Nat \ {0}) \ {k} :
          Owed(stack'[t], loc'[t], i, u) <=> Owed(stack[t], loc[t], i, u)
    /\ \/ susp'[u] = Resumed(susp[u])
       \/ /\ Owed(stack[t], loc[t], k, u) => Owed(stack'[t], loc'[t], k, u)
          /\ susp'[u] = susp[u]
       \/ /\ ~ Owed(stack[t], loc[t], k, u) /\ Owed(stack'[t], loc'[t], k, u)
          /\ susp'[u] = susp[u] + 1 /\ u \in list

Settles(t) == /\ Orderly(stack'[t]) /\ susp'[t] = 0
              /\ \A u \in Threads \ {t} : Pays(t, u)

(* Nothing changes for u.                                                   *)
LEMMA PaysSame ==
    ASSUME NEW t \in Threads, NEW u \in Threads, susp'[u] = susp[u],
           \A i \in Nat \ {0} :
              Owed(stack'[t], loc'[t], i, u) <=> Owed(stack[t], loc[t], i, u)
    PROVE  Pays(t, u)
<1>1. 1 \in Nat \ {0}
  OBVIOUS
<1> QED BY <1>1 DEF Pays

(* What a thread owes before its step.                                      *)
LEMMA NowOwes ==
    ASSUME ShapeInv, OrderlyInv, NEW t \in Threads, NEW u, NEW i \in Nat \ {0}
    PROVE  Owed(stack[t], loc[t], i, u) <=>
              \/ /\ Deep(stack[t], i)
                 /\ i + 5 = Len(stack[t]) => ~ Awaits(loc[t], At(t), u)
              \/ i = Len(stack[t]) /\ TopOwes(loc[t], At(t), u)
<1>1. stack[t] \in Seq(Label) /\ stack[t] # <<>> /\ Orderly(stack[t]) /\ At(t) = Head(stack[t])
  BY Tops DEF OrderlyInv, At
<1> QED BY <1>1, OwedIs

(* The labels that matter to other threads when they are on top.            *)
Owing == {"suspend", "suspending", "waking", "resume", "resuming", "resumeNew"}

(* A body in the place of a label owes what is below it.                    *)
LEMMA PutLeaves ==
    ASSUME Typed, ShapeInv, OrderlyInv, NEW t \in Threads, NEW B, Tidy(B),
           stack'[t] = B \o Tail(stack[t]), Head(stack'[t]) # "resumeNew"
    PROVE  /\ Orderly(stack'[t])
           /\ \A i \in Nat \ {0} : \A u : Owed(stack'[t], loc'[t], i, u) <=> Deep(stack[t], i)
<1> DEFINE s == stack[t]
           x == stack'[t]
<1>1. s \in Seq(Label) /\ s # <<>> /\ Orderly(s)
  BY Tops DEF OrderlyInv
<1>2. x \in Seq(Label) /\ Orderly(x)
  BY <1>1, PutOrderly
<1>3. ASSUME NEW i \in Nat \ {0}, NEW u
      PROVE  Owed(x, loc'[t], i, u) <=> Deep(s, i)
  <2>1. Owed(x, loc'[t], i, u) <=>
           Deep(s, i) \/ (i = Len(x) /\ Low(x, i) = "resumeNew" /\ loc'[t].other = u)
    <3> HIDE DEF s
    <3>1. \A l : LET y == B \o Tail(s) IN
             Owed(y, l, i, u) <=>
                Deep(s, i) \/ (i = Len(y) /\ Low(y, i) = "resumeNew" /\ l.other = u)
      BY <1>1, PutOwes
    <3>2. x = B \o Tail(s)
      BY DEF s
    <3> HIDE DEF x
    <3> QED BY <3>1, <3>2
  <2>2. ASSUME i = Len(x) PROVE Low(x, i) # "resumeNew"
    <3>1. x # <<>>
      BY <2>2
    <3>2. Low(x, Len(x)) = Head(x)
      BY <1>2, <3>1, LowTail
    <3> QED BY <2>2, <3>2
  <2> QED BY <2>1, <2>2
<1> QED BY <1>2, <1>3

(* Nothing changes when the label on top is of another kind.                *)
LEMMA PutSettles ==
    ASSUME Typed, ShapeInv, OrderlyInv, NEW t \in Threads, NEW B, Tidy(B),
           stack'[t] = B \o Tail(stack[t]), Head(stack'[t]) # "resumeNew",
           \/ At(t) \notin Owing
           \/ At(t) \in {"suspending", "resuming"} /\ loc[t].todo = {},
           susp' = susp, susp[t] = 0
    PROVE  Settles(t)
<1>1. \A u : ~ Awaits(loc[t], At(t), u) /\ ~ TopOwes(loc[t], At(t), u)
  BY DEF Awaits, TopOwes, Owing
<1>2. /\ Orderly(stack'[t])
      /\ \A i \in Nat \ {0} : \A u : Owed(stack'[t], loc'[t], i, u) <=> Deep(stack[t], i)
  BY PutLeaves
<1>3. \A i \in Nat \ {0} : \A u : Owed(stack[t], loc[t], i, u) <=> Deep(stack[t], i)
  BY <1>1, NowOwes
<1> QED BY <1>2, <1>3, PaysSame DEF Settles

(* Lisp code, allocations and hooks.                                        *)
LEMMA CodeSettles ==
    ASSUME Plain, Typed, ShapeInv, OrderlyInv, NEW t \in Threads, CodeStep(t)
    PROVE  Settles(t)
<1>1. Moved(t) /\ Changes(t) /\ susp' = susp
  BY CodeShape, CodeChanges
<1>2. At(t) \notin Owing \cup {"begin"}
  BY DEF CodeStep, CallFromLisp, LeaveLisp, CallFromClient, EnterLock, LeaveLock, TakeBlock,
         Bump, EnterCollection, Collect, RunHooks, Runs, EnterLabels, LeaveLabels, Owing
<1>3. \E B : Tidy(B) /\ Do(t, B)
  <2>1. ops \subseteq PlainOps
    BY DEF Plain, Typed
  <2>2. CASE CallFromLisp(t)
    <3>1. PICK op \in {"alloc", "gc", "critical"} : Do(t, Body(op) \o <<"lisp">>)
      BY <2>1, <2>2 DEF CallFromLisp, PlainOps
    <3> QED BY <3>1, TidyBodies
  <2>3. CASE CallFromClient(t)
    <3>1. Do(t, BlessThread)
      BY <2>1, <2>3 DEF CallFromClient, PlainOps
    <3> QED BY <3>1, TidyBodies
  <2>4. CASE \/ LeaveLisp(t) \/ EnterLock(t) \/ LeaveLock(t) \/ EnterCollection(t)
             \/ Collect(t)
    <3>1. Do(t, <<>>)
      BY <2>4 DEF LeaveLisp, EnterLock, LeaveLock, EnterCollection, Collect, Done, Plain
    <3> QED BY <3>1, TidyBodies
  <2>5. CASE TakeBlock(t) \/ Bump(t)
    <3>1. Do(t, <<"leave">>) \/ Do(t, GarbageCollect \o <<"bump">>)
      BY <2>5 DEF TakeBlock, Bump
    <3> QED BY <3>1, TidyBodies
  <2>6. CASE RunHooks(t)
    <3>1. Do(t, <<>>) \/ \E op \in {"alloc", "gc", "critical"} : Do(t, Body(op))
      BY <2>6 DEF RunHooks, Done
    <3> QED BY <3>1, TidyBodies
  <2> QED BY <2>2, <2>3, <2>4, <2>5, <2>6 DEF CodeStep
<1>4. PICK B : Tidy(B) /\ Do(t, B)
  BY <1>3
<1>5. stack'[t] = B \o Tail(stack[t])
  BY <1>4 DEF Do, Typed
<1>6. Head(stack'[t]) # "resumeNew"
  BY <1>1, <1>2 DEF Moved, Follow, Below
<1>7. susp[t] = 0
  BY <1>1 DEF Changes
<1> QED BY <1>1, <1>2, <1>4, <1>5, <1>6, <1>7, PutSettles

(* Creating and blessing threads.                                           *)
LEMMA ThreadSettles ==
    ASSUME Plain, Typed, ShapeInv, OrderlyInv, NEW t \in Threads, ThreadStep(t)
    PROVE  Settles(t)
<1> DEFINE s == stack[t]
<1>1. Moved(t) /\ Changes(t)
  BY ThreadShape, ThreadChanges
<1>2. At(t) # "begin" /\ susp[t] = 0 /\ Head(stack'[t]) # "resumeNew"
  <2>1. At(t) # "begin"
    BY DEF ThreadStep, CallRunSecondaryThread, ReadNum, StoreNum, LockList, ResumeNewThread,
           FindRecord, AwaitEvent, ReadThreadID, NewQV, Runs
  <2> QED BY <1>1, <2>1 DEF Moved, Follow, Below, Changes
<1>3. CASE ResumeNewThread(t)
  <2> DEFINE w == loc[t].other
             n == Len(s)
  <2>1. At(t) = "resumeNew" /\ Do(t, <<>>) /\ susp' = [susp EXCEPT ![w] = Resumed(@)]
    BY <1>3 DEF ResumeNewThread, Runs, Done, ResumeThread
  <2>2. stack'[t] = <<>> \o Tail(s)
    BY <2>1 DEF Do, Typed
  <2>3. /\ Orderly(stack'[t])
        /\ \A i \in Nat \ {0} : \A u : Owed(stack'[t], loc'[t], i, u) <=> Deep(s, i)
    BY <1>2, <2>2, PutLeaves, TidyBodies
  <2>4. \A u : /\ ~ Awaits(loc[t], At(t), u)
               /\ TopOwes(loc[t], At(t), u) <=> w = u
    BY <2>1 DEF Awaits, TopOwes
  <2>5. \A i \in Nat \ {0} : \A u : Owed(s, loc[t], i, u) <=> Deep(s, i) \/ (i = n /\ w = u)
    BY <2>4, NowOwes
  <2>6. n \in Nat \ {0}
    BY Tops, LowTail
  <2> HIDE DEF w, n
  <2>7. ASSUME NEW u \in Threads \ {t}
        PROVE  Pays(t, u)
    <3>1. CASE u = w
      <4>1. susp'[u] = Resumed(susp[u])
        BY <2>1, <3>1 DEF Typed
      <4>2. \A i \in (Nat \ {0}) \ {n} : Owed(stack'[t], loc'[t], i, u) <=> Owed(s, loc[t], i, u)
        BY <2>3, <2>5
      <4> QED BY <2>6, <4>1, <4>2 DEF Pays
    <3>2. CASE u # w
      <4>1. susp'[u] = susp[u]
        BY <2>1, <3>2 DEF Typed
      <4> QED BY <2>3, <2>5, <3>2, <4>1, PaysSame
    <3> QED BY <3>1, <3>2
  <2>8. susp'[t] = 0
    BY <1>2, <2>1 DEF Typed, Resumed
  <2> QED BY <2>3, <2>7, <2>8 DEF Settles
<1>4. CASE ~ ResumeNewThread(t)
  <2>1. At(t) \notin Owing /\ susp' = susp
    BY <1>4 DEF ThreadStep, CallRunSecondaryThread, ReadNum, StoreNum, LockList,
           FindRecord, AwaitEvent, ReadThreadID, NewQV, Runs, Owing
  <2>2. \E B : Tidy(B) /\ Do(t, B)
    <3>1. CASE CallRunSecondaryThread(t)
      BY <3>1, TidyBodies DEF CallRunSecondaryThread
    <3>2. CASE ReadNum(t) \/ LockList(t)
      <4>1. PICK m \in {"incStore", "decStore", "inserting", "removing"} : Do(t, <<m>>)
        BY <3>2 DEF ReadNum, LockList
      <4>2. Bare(<<m>>)
        BY DEF Bare, Label, Special, Walking
      <4> QED BY <4>1, <4>2, BareIs
    <3>3. CASE StoreNum(t) \/ FindRecord(t) \/ AwaitEvent(t) \/ ReadThreadID(t) \/ NewQV(t)
      <4>1. Do(t, <<>>)
        BY <3>3 DEF StoreNum, FindRecord, AwaitEvent, ReadThreadID, NewQV, Done
      <4> QED BY <4>1, TidyBodies
    <3> QED BY <1>4, <3>1, <3>2, <3>3 DEF ThreadStep
  <2>3. PICK B : Tidy(B) /\ Do(t, B)
    BY <2>2
  <2>4. stack'[t] = B \o Tail(s)
    BY <2>3 DEF Do, Typed
  <2> QED BY <1>2, <2>1, <2>3, <2>4, PutSettles
<1> QED BY <1>3, <1>4

(* Two such sequences.                                                      *)
LEMMA BareBoth ==
    ASSUME NEW A, NEW B, Bare(A), Bare(B)
    PROVE  Bare(A \o B)
<1>1. /\ A \o B \in Seq(Label) /\ Len(A \o B) = Len(A) + Len(B)
      /\ Len(A) \in Nat /\ Len(B) \in Nat
      /\ \A i \in 1 .. Len(A) + Len(B) :
            (A \o B)[i] = IF i <= Len(A) THEN A[i] ELSE B[i - Len(A)]
  BY ConcatProperties, LenProperties DEF Bare
<1>2. ASSUME NEW i \in 1 .. Len(A) + Len(B)
      PROVE  (A \o B)[i] \notin Special
  <2>1. CASE i <= Len(A)
    <3>1. i \in 1 .. Len(A)
      BY <1>1, <2>1
    <3> QED BY <1>1, <2>1, <3>1 DEF Bare
  <2>2. CASE ~ (i <= Len(A))
    <3>1. i - Len(A) \in 1 .. Len(B)
      BY <1>1, <2>2
    <3> QED BY <1>1, <2>2, <3>1 DEF Bare
  <2> QED BY <2>1, <2>2
<1> QED BY <1>1, <1>2 DEF Bare

(* A thread that is about to start another, or comes back to Lisp code, the *)
(* function of a thread and threads that have not started.                  *)
LEMMA BareStacks ==
    /\ Bare(<<"none">>) /\ Bare(<<"lisp">>) /\ Bare(SecondaryThreadProc)
    /\ \A t : Bare(Bottom(t))
    /\ \A t, s : Creates(t, s) /\ Head(s) = "begin" => Bare(s)
<1> USE DEF Bare, Label, Special, Walking
<1>1. Bare(<<"none">>) /\ Bare(<<"lisp">>) /\ Bare(<<"find">>) /\ Bare(<<"alloc", "take">>)
  OBVIOUS
<1>2. Bare(<<"remove", "dec", "ended">>) /\ Bare(<<>>)
  OBVIOUS
<1>3. Bare(<<"enter", "unbless", "remove", "dec", "leave", "foreign">>)
  OBVIOUS
<1>4. Bare(<<"begin", "resumeNew", "await", "leave", "threadID">>)
  OBVIOUS
<1> HIDE DEF Bare, Label, Special, Walking
<1>5. Bare(SecondaryThreadProc)
  BY <1>1, <1>2, BareBoth DEF SecondaryThreadProc, Allocation, ExitThread
<1>6. ASSUME NEW t
      PROVE  Bare(Bottom(t))
  <2>1. Bare(Ending(t))
    BY <1>2, <1>3 DEF Ending
  <2> QED BY <1>1, <2>1, BareBoth DEF Bottom
<1>7. ASSUME NEW t, NEW s, Creates(t, s), Head(s) = "begin"
      PROVE  Bare(s)
  <2>1. PICK C \in Creations : s = C \o Bottom(t)
    BY <1>7 DEF Creates
  <2>2. Head(s) = C[1]
    BY <2>1, EndingIs, CreationIs, HeadOfConcat
  <2>3. C = <<"begin", "resumeNew", "await", "leave", "threadID">>
    <3>1. C[1] = "begin"
      BY <1>7, <2>2
    <3> QED BY <3>1 DEF Creations
  <2> QED BY <1>4, <1>6, <2>1, <2>3, BareBoth
<1> QED BY <1>1, <1>5, <1>6, <1>7

(* The list, and the start of a thread.                                     *)
LEMMA ListSettles ==
    ASSUME Plain, Typed, ShapeInv, CreateInv, OrderlyInv, NEW t \in Threads, ListStep(t)
    PROVE  Settles(t)
<1> DEFINE s == stack[t]
           x == stack'[t]
           w == loc[t].other
<1>1. Moved(t) /\ Changes(t) /\ loc' = loc
  BY ListShape, ListChanges
<1>2. susp[t] = 0
  BY <1>1 DEF Changes
<1>3. CASE Insert(t) \/ Remove(t)
  <2>1. Do(t, <<>>) /\ susp' = susp /\ At(t) \in {"inserting", "removing"}
    BY <1>3 DEF Insert, Remove, Runs, Done
  <2>2. x = <<>> \o Tail(s)
    BY <2>1 DEF Do, Typed
  <2>3. Head(x) # "resumeNew" /\ At(t) \notin Owing
    BY <1>1, <2>1 DEF Moved, Follow, Owing
  <2> QED BY <1>2, <2>1, <2>2, <2>3, PutSettles, TidyBodies
<1>4. CASE BeginThread(t)
  <2>1. At(t) = "begin"
    BY <1>4 DEF BeginThread, Runs
  <2>2. t \in list /\ Inside(t, s) /\ s \in Seq(Label) /\ s # <<>>
    BY <2>1, Tops DEF BlessingHeads
  <2>3. Creates(t, s) /\ Head(s) = "begin"
    BY <2>1, <2>2, InsideIs DEF At, CreationHeads
  <2>4. w \in Threads /\ w \in list /\ w # t
    <3>1. Starting(t)
      BY <2>1, <2>2 DEF Starting, Creating
    <3>2. w \in Secondaries /\ stack[w] = <<"none">> /\ w \in list
      BY <2>1, <3>1 DEF CreateInv, Starting, Before
    <3>3. w # t
      <4>1. Head(<<"none">>) = "none"
        BY Tuple1
      <4> QED BY <2>1, <3>2, <4>1 DEF At
    <3> QED BY <3>2, <3>3 DEF Threads
  <2>5. \A i \in Nat \ {0} : \A u : ~ Owed(s, loc[t], i, u)
    <3>1. Low(s, Len(s)) = "begin"
      BY <2>2, <2>3, LowTail
    <3>2. Bare(s)
      BY <2>3, BareStacks
    <3>3. \A l, i, u : Owed(s, l, i, u) => i = Len(s) /\ Low(s, i) = "resumeNew"
      BY <3>2, BareIs
    <3> QED BY <3>1, <3>3
  <2> HIDE DEF w
  <2>6. CASE /\ susp' = [susp EXCEPT ![w] = @ + 1]
             /\ stack' = [stack EXCEPT ![w] = SecondaryThreadProc, ![t] = Tail(stack[t])]
    <3>1. x = Tail(s) /\ Creates(t, x) /\ Head(x) = "resumeNew"
      <4>1. x = Tail(s)
        BY <2>4, <2>6 DEF Typed
      <4>2. Creates(t, Tail(s)) /\ Head(Tail(s)) = "resumeNew"
        <5>1. "begin" \in CreationHeads \ {"inc", "insert", "threadID"}
          BY DEF CreationHeads
        <5> HIDE DEF s
        <5> QED BY <2>3, <5>1, CreatesIs
      <4> QED BY <4>1, <4>2
    <3>2. x \in Seq(Label) /\ x # <<>>
      BY <3>1, CreatesIs
    <3> DEFINE k == Len(x)
    <3>3. k \in Nat \ {0} /\ Low(x, k) = "resumeNew"
      BY <3>1, <3>2, LowTail
    <3>4. Orderly(s) /\ x = <<>> \o Tail(s)
      BY <3>1, <3>2, ConcatEmptySeq DEF OrderlyInv
    <3>5. Orderly(x)
      BY <2>2, <3>4, PutOrderly, TidyBodies
    <3>6. ASSUME NEW i \in Nat \ {0}, NEW u
          PROVE  Owed(x, loc'[t], i, u) <=> i = k /\ w = u
      <4>1. \A l : LET y == <<>> \o Tail(s) IN
               Owed(y, l, i, u) <=>
                  Deep(s, i) \/ (i = Len(y) /\ Low(y, i) = "resumeNew" /\ l.other = u)
        BY <2>2, <3>4, PutOwes, TidyBodies
      <4>2. ~ Deep(s, i)
        <5>1. Low(s, i) # "resume"
          <6>1. Bare(s)
            BY <2>3, BareStacks
          <6>2. Low(s, i) \notin Special
            BY <6>1, BareIs
          <6> QED BY <6>2 DEF Special
        <5> QED BY <5>1 DEF Deep
      <4>3. loc'[t].other = w
        BY <1>1 DEF w
      <4> HIDE DEF x, s
      <4> QED BY <3>3, <3>4, <4>1, <4>2, <4>3
    <3> HIDE DEF x, s, k
    <3>7. ASSUME NEW u \in Threads \ {t}
          PROVE  Pays(t, u)
      <4>1. CASE u = w
        <5>1. susp'[u] = susp[u] + 1 /\ u \in list
          BY <2>4, <2>6, <4>1 DEF Typed
        <5> QED BY <2>5, <3>3, <3>6, <4>1, <5>1 DEF Pays, x, s
      <4>2. CASE u # w
        <5>1. susp'[u] = susp[u]
          BY <2>6, <4>2 DEF Typed
        <5> QED BY <2>5, <3>6, <4>2, <5>1, PaysSame DEF x, s
      <4> QED BY <4>1, <4>2
    <3>8. susp'[t] = 0
      BY <1>2, <2>4, <2>6 DEF Typed
    <3> QED BY <3>5, <3>7, <3>8 DEF Settles, x
  <2>7. CASE susp' = susp /\ stack' = [stack EXCEPT ![t] = SubSeq(@, 6, Len(@))]
    <3>1. x = Bottom(t) /\ Head(x) = "lisp"
      <4>1. x = SubSeq(s, 6, Len(s))
        BY <2>7 DEF Typed
      <4>2. x = Bottom(t)
        BY <2>3, <4>1, CreatesIs
      <4> QED BY <4>2, WorksBottom
    <3>2. Bare(x) /\ x \in Seq(Label) /\ x # <<>>
      BY <2>3, <3>1, BareStacks, EndingIs, WorksBottom, WorksHead
    <3>3. Orderly(x) /\ \A i \in Nat \ {0} : \A u : ~ Owed(x, loc'[t], i, u)
      <4>1. Low(x, Len(x)) = "lisp"
        BY <3>1, <3>2, LowTail
      <4> QED BY <3>2, <4>1, BareIs
    <3> QED BY <1>2, <2>5, <2>7, <3>3, PaysSame DEF Settles
  <2> QED BY <1>4, <2>6, <2>7 DEF BeginThread, SuspendThread, Plain, w
<1> QED BY <1>3, <1>4 DEF ListStep

(* The label on top becomes the next one of the same function.              *)
LEMMA RelabelOwes ==
    ASSUME Typed, ShapeInv, OrderlyInv, NEW t \in Threads, NEW m, Do(t, <<m>>),
           <<At(t), m>> \in {<<"suspend", "suspending">>, <<"resume", "resuming">>,
                             <<"ensureSafe", "safe">>}
    PROVE  /\ Orderly(stack'[t])
           /\ \A i \in Nat \ {0} : \A u :
                 Owed(stack'[t], loc'[t], i, u) <=>
                    \/ Deep(stack[t], i) /\ (i + 5 = Len(stack[t]) => ~ Awaits(loc'[t], m, u))
                    \/ i = Len(stack[t]) /\ TopOwes(loc'[t], m, u)
<1> DEFINE s == stack[t]
           x == stack'[t]
           n == Len(s)
<1>1. s \in Seq(Label) /\ s # <<>> /\ Orderly(s) /\ Head(s) = At(t) /\ m \in Label
  BY Tops DEF OrderlyInv, At, Label
<1>2. x = <<m>> \o Tail(s)
  BY DEF Do, Typed
<1>3. \/ At(t) = "suspend" /\ m = "suspending"
      \/ At(t) = "resume" /\ m = "resuming"
      \/ At(t) = "ensureSafe" /\ m = "safe"
  OBVIOUS
<1> HIDE DEF s, x
<1>4. /\ x \in Seq(Label) /\ x # <<>> /\ Len(x) = n /\ Head(x) = m
      /\ \A i \in Nat \ {0} : Deep(x, i) <=> Deep(s, i)
      /\ \A i \in 1 .. n - 1 : Low(x, i) = Low(s, i)
      /\ Low(x, n) = m
  BY <1>1, <1>2, LowRelabel
<1>5. n \in Nat \ {0} /\ Low(s, n) = At(t)
  BY <1>1, LowTail
<1> HIDE DEF n
<1>6. Orderly(x)
  <2> SUFFICES ASSUME NEW k \in 1 .. n
               PROVE  /\ Low(x, k) \in Walking => k = n
                      /\ Low(x, k) \in Halting => k > 5 /\ Low(x, k - 5) = "resume"
                      /\ Low(x, k) \in {"ensureSafe", "safe"} => k > 4 /\ Low(x, k - 4) = "resume"
    BY <1>4 DEF Orderly
  <2>1. /\ Low(s, k) \in Walking => k = n
        /\ Low(s, k) \in Halting => k > 5 /\ Low(s, k - 5) = "resume"
        /\ Low(s, k) \in {"ensureSafe", "safe"} => k > 4 /\ Low(s, k - 4) = "resume"
    BY <1>1 DEF Orderly, n
  <2>2. /\ k > 5 => Low(x, k - 5) = Low(s, k - 5)
        /\ k > 4 => Low(x, k - 4) = Low(s, k - 4)
    BY <1>4, <1>5
  <2>3. CASE k < n
    <3>1. Low(x, k) = Low(s, k)
      BY <1>4, <1>5, <2>3
    <3> QED BY <2>1, <2>2, <3>1
  <2>4. CASE k = n
    BY <1>3, <1>4, <1>5, <2>1, <2>2, <2>4 DEF Walking, Halting
  <2> QED BY <1>5, <2>3, <2>4
<1>7. ASSUME NEW i \in Nat \ {0}, NEW u
      PROVE  Owed(x, loc'[t], i, u) <=>
                \/ Deep(s, i) /\ (i + 5 = n => ~ Awaits(loc'[t], m, u))
                \/ i = n /\ TopOwes(loc'[t], m, u)
  <2>1. \A l : Owed(x, l, i, u) <=>
                  \/ Deep(x, i) /\ (i + 5 = Len(x) => ~ Awaits(l, Head(x), u))
                  \/ i = Len(x) /\ TopOwes(l, Head(x), u)
    BY <1>4, <1>6, OwedIs
  <2> QED BY <1>4, <2>1
<1> QED BY <1>6, <1>7 DEF s, x, n

(* The stack is as before.                                                  *)
LEMMA StillOwes ==
    ASSUME Typed, ShapeInv, OrderlyInv, NEW t \in Threads, stack' = stack
    PROVE  /\ Orderly(stack'[t])
           /\ \A i \in Nat \ {0} : \A u :
                 Owed(stack'[t], loc'[t], i, u) <=>
                    \/ /\ Deep(stack[t], i)
                       /\ i + 5 = Len(stack[t]) => ~ Awaits(loc'[t], At(t), u)
                    \/ i = Len(stack[t]) /\ TopOwes(loc'[t], At(t), u)
<1> DEFINE s == stack[t]
<1>1. s \in Seq(Label) /\ s # <<>> /\ Orderly(s) /\ Head(s) = At(t) /\ stack'[t] = s
  BY Tops DEF OrderlyInv, At
<1> HIDE DEF s
<1>2. ASSUME NEW i \in Nat \ {0}, NEW u
      PROVE  \A l : Owed(s, l, i, u) <=>
                       \/ Deep(s, i) /\ (i + 5 = Len(s) => ~ Awaits(l, Head(s), u))
                       \/ i = Len(s) /\ TopOwes(l, Head(s), u)
  BY <1>1, OwedIs
<1> QED BY <1>1, <1>2 DEF s

(* ensureSafeState wakes a thread.                                          *)
LEMMA WakeOwes ==
    ASSUME Typed, ShapeInv, OrderlyInv, NEW t \in Threads, At(t) = "safe",
           Do(t, <<"waking", "safe">>)
    PROVE  /\ Orderly(stack'[t])
           /\ Len(stack[t]) - 4 \in Nat \ {0}
           /\ \A i \in Nat \ {0} : \A u :
                 Owed(stack'[t], loc'[t], i, u) <=>
                    /\ Deep(stack[t], i)
                    /\ i = Len(stack[t]) - 4 => loc'[t].other # u
<1> DEFINE s == stack[t]
           x == stack'[t]
           n == Len(s)
<1>1. s \in Seq(Label) /\ s # <<>> /\ Orderly(s) /\ Head(s) = "safe"
  BY Tops DEF OrderlyInv, At
<1>2. x = <<"waking", "safe">> \o Tail(s)
  BY DEF Do, Typed
<1> HIDE DEF s, x
<1>3. /\ x \in Seq(Label) /\ x # <<>> /\ n \in Nat \ {0} /\ Len(x) = n + 1
      /\ Head(x) = "waking"
      /\ \A i \in Nat \ {0} : Deep(x, i) <=> Deep(s, i)
      /\ \A i \in 1 .. n - 1 : Low(x, i) = Low(s, i)
      /\ Low(x, n) = "safe" /\ Low(x, n + 1) = "waking"
  BY <1>1, <1>2, LowWake
<1>4. Low(s, n) = "safe"
  BY <1>1, LowTail
<1>5. n > 4 /\ Low(s, n - 4) = "resume"
  BY <1>1, <1>3, <1>4 DEF Orderly
<1> HIDE DEF n
<1>6. Orderly(x)
  <2> SUFFICES ASSUME NEW k \in 1 .. n + 1
               PROVE  /\ Low(x, k) \in Walking => k = n + 1
                      /\ Low(x, k) \in Halting => k > 5 /\ Low(x, k - 5) = "resume"
                      /\ Low(x, k) \in {"ensureSafe", "safe"} => k > 4 /\ Low(x, k - 4) = "resume"
    BY <1>3 DEF Orderly
  <2>1. CASE k < n
    <3>1. /\ Low(s, k) \in Walking => k = n
          /\ Low(s, k) \in Halting => k > 5 /\ Low(s, k - 5) = "resume"
          /\ Low(s, k) \in {"ensureSafe", "safe"} => k > 4 /\ Low(s, k - 4) = "resume"
      BY <1>1, <1>3, <2>1 DEF Orderly, n
    <3>2. /\ Low(x, k) = Low(s, k)
          /\ k > 5 => Low(x, k - 5) = Low(s, k - 5)
          /\ k > 4 => Low(x, k - 4) = Low(s, k - 4)
      BY <1>3, <2>1
    <3> QED BY <1>3, <2>1, <3>1, <3>2
  <2>2. n - 4 \in 1 .. n - 1 /\ Low(x, n - 4) = "resume"
    BY <1>3, <1>5
  <2>3. CASE k = n
    BY <1>3, <1>5, <2>2, <2>3 DEF Walking, Halting
  <2>4. CASE k = n + 1
    <3>1. k - 5 = n - 4 /\ k > 5
      BY <1>3, <1>5, <2>4
    <3> QED BY <1>3, <2>2, <2>4, <3>1 DEF Walking, Halting
  <2> QED BY <1>3, <2>1, <2>3, <2>4
<1>7. ASSUME NEW i \in Nat \ {0}, NEW u
      PROVE  Owed(x, loc'[t], i, u) <=> Deep(s, i) /\ (i = n - 4 => loc'[t].other # u)
  <2>1. \A l : Owed(x, l, i, u) <=>
                  \/ Deep(x, i) /\ (i + 5 = Len(x) => ~ Awaits(l, Head(x), u))
                  \/ i = Len(x) /\ TopOwes(l, Head(x), u)
    BY <1>3, <1>6, OwedIs
  <2>2. \A l : /\ Awaits(l, "waking", u) <=> l.other = u
               /\ ~ TopOwes(l, "waking", u)
    BY DEF Awaits, TopOwes
  <2>3. i + 5 = n + 1 <=> i = n - 4
    BY <1>3
  <2> QED BY <1>3, <2>1, <2>2, <2>3
<1>8. n - 4 \in Nat \ {0}
  BY <1>3, <1>5
<1> QED BY <1>6, <1>7, <1>8 DEF s, x, n

(* Where the resumption of a collection is that has begun to suspend.       *)
LEMMA HaltingDeep ==
    ASSUME ShapeInv, OrderlyInv, NEW t \in Threads, At(t) \in Halting
    PROVE  Len(stack[t]) - 5 \in Nat \ {0} /\ Deep(stack[t], Len(stack[t]) - 5)
<1> DEFINE s == stack[t]
           n == Len(s)
<1>1. s \in Seq(Label) /\ s # <<>> /\ Orderly(s) /\ Head(s) = At(t)
  BY Tops DEF OrderlyInv, At
<1>2. n \in Nat \ {0} /\ Low(s, n) = At(t)
  BY <1>1, LowTail
<1>3. n > 5 /\ Low(s, n - 5) = "resume"
  BY <1>1, <1>2 DEF Orderly
<1> HIDE DEF s, n
<1>4. n - 5 \in Nat \ {0} /\ n - 5 < n /\ ~ ((n - 5) + 5 < n)
  BY <1>2, <1>3
<1> QED BY <1>3, <1>4 DEF Deep, s, n

(* Stopping and resuming the other threads.                                 *)
LEMMA StopSettles ==
    ASSUME Plain, Typed, ShapeInv, WorldInv, OrderlyInv, SuspInv, NEW t \in Threads, StopStep(t)
    PROVE  Settles(t)
<1> DEFINE s == stack[t]
           x == stack'[t]
           l == loc[t]
           r == loc'[t]
           n == Len(s)
           todo == list \ {t}
<1>1. susp[t] = 0 /\ n \in Nat \ {0} /\ loc[t] \in Locals
  <2>1. s \in Seq(Label) /\ s # <<>>
    BY Tops
  <2> QED BY <2>1, LowTail, StopChanges DEF Changes, Typed
<1>2. \A i \in Nat \ {0} : \A u :
         Owed(s, l, i, u) <=>
            \/ Deep(s, i) /\ (i + 5 = n => ~ Awaits(l, At(t), u))
            \/ i = n /\ TopOwes(l, At(t), u)
  BY NowOwes
<1>3. At(t) \in Halting => n - 5 \in Nat \ {0} /\ Deep(s, n - 5)
  BY HaltingDeep
<1>4. \A i \in Nat \ {0} : i + 5 = n <=> i = n - 5
  BY <1>1
<1>5. CASE BeginSuspend(t)
  <2>1. /\ At(t) = "suspend" /\ Do(t, <<"suspending">>) /\ susp' = susp
        /\ loc' = [loc EXCEPT ![t].todo = todo]
    BY <1>5 DEF BeginSuspend, BeginLoop, Runs
  <2>2. r.todo = todo
    BY <2>1 DEF Typed, Locals
  <2>3. <<At(t), "suspending">> = <<"suspend", "suspending">>
    BY <2>1
  <2>4. /\ Orderly(x)
        /\ \A i \in Nat \ {0} : \A u :
              Owed(x, r, i, u) <=>
                 \/ Deep(s, i) /\ (i + 5 = n => ~ Awaits(r, "suspending", u))
                 \/ i = n /\ TopOwes(r, "suspending", u)
    BY <2>1, <2>3, RelabelOwes
  <2>5. \A u : /\ Awaits(l, At(t), u) /\ ~ TopOwes(l, At(t), u)
               /\ Awaits(r, "suspending", u) <=> u \in todo
               /\ ~ TopOwes(r, "suspending", u)
    BY <2>1, <2>2 DEF Awaits, TopOwes
  <2>6. n - 5 \in Nat \ {0}
    BY <1>3, <2>1 DEF Halting
  <2> HIDE DEF s, x, l, r, n
  <2>7. ASSUME NEW u \in Threads \ {t}
        PROVE  Pays(t, u)
    <3>1. CASE u \in list
      <4>1. \A i \in Nat \ {0} : Owed(x, r, i, u) <=> Owed(s, l, i, u)
        BY <1>2, <2>4, <2>5, <3>1
      <4> QED BY <2>1, <4>1, PaysSame DEF s, x, l, r
    <3>2. CASE u \notin list
      <4>1. susp'[u] = Resumed(susp[u])
        BY <2>1, <3>2 DEF SuspInv, Resumed
      <4>2. \A i \in (Nat \ {0}) \ {n - 5} : Owed(x, r, i, u) <=> Owed(s, l, i, u)
        BY <1>2, <1>4, <2>4, <2>5
      <4> QED BY <2>6, <4>1, <4>2 DEF Pays, s, x, l, r
    <3> QED BY <3>1, <3>2
  <2> QED BY <1>1, <2>1, <2>4, <2>7 DEF Settles, x
<1>6. CASE SuspendOther(t)
  <2>1. PICK v \in l.todo : /\ At(t) = "suspending" /\ stack' = stack
                            /\ susp' = [susp EXCEPT ![v] = @ + 1]
                            /\ loc' = [loc EXCEPT ![t].todo = @ \ {v}]
    BY <1>6 DEF SuspendOther, Runs, SuspendThread, Visited, Plain
  <2>2. r.todo = l.todo \ {v}
    BY <1>1, <2>1 DEF Typed, Locals
  <2>3. v \in list /\ v # t
    BY <2>1 DEF WorldInv
  <2>4. /\ Orderly(x)
        /\ \A i \in Nat \ {0} : \A u :
              Owed(x, r, i, u) <=>
                 \/ Deep(s, i) /\ (i + 5 = n => ~ Awaits(r, At(t), u))
                 \/ i = n /\ TopOwes(r, At(t), u)
    BY <2>1, StillOwes
  <2>5. \A u : /\ Awaits(l, At(t), u) <=> u \in l.todo
               /\ Awaits(r, At(t), u) <=> u \in l.todo /\ u # v
               /\ ~ TopOwes(l, At(t), u) /\ ~ TopOwes(r, At(t), u)
    BY <2>1, <2>2 DEF Awaits, TopOwes
  <2>6. n - 5 \in Nat \ {0} /\ Deep(s, n - 5)
    BY <1>3, <2>1 DEF Halting
  <2>7. susp'[t] = 0 /\ v \in Threads
    BY <1>1, <2>1, <2>3 DEF Typed, list
  <2> HIDE DEF s, x, l, r, n
  <2>8. ASSUME NEW u \in Threads \ {t}
        PROVE  Pays(t, u)
    <3>1. CASE u = v
      <4>1. susp'[u] = susp[u] + 1 /\ u \in list
        BY <2>1, <2>3, <2>7, <3>1 DEF Typed
      <4>2. \A i \in (Nat \ {0}) \ {n - 5} : Owed(x, r, i, u) <=> Owed(s, l, i, u)
        BY <1>2, <1>4, <2>4, <2>5
      <4>3. ~ Owed(s, l, n - 5, u) /\ Owed(x, r, n - 5, u)
        BY <1>1, <1>2, <1>4, <2>1, <2>4, <2>5, <2>6, <3>1
      <4> QED BY <2>6, <4>1, <4>2, <4>3 DEF Pays, s, x, l, r
    <3>2. CASE u # v
      <4>1. susp'[u] = susp[u]
        BY <2>1, <3>2 DEF Typed
      <4>2. \A i \in Nat \ {0} : Owed(x, r, i, u) <=> Owed(s, l, i, u)
        BY <1>2, <2>4, <2>5, <3>2
      <4> QED BY <4>1, <4>2, PaysSame DEF s, x, l, r
    <3> QED BY <3>1, <3>2
  <2> QED BY <2>4, <2>7, <2>8 DEF Settles, x
<1>7. CASE EndSuspend(t) \/ EndResume(t)
  <2>1. /\ At(t) \in {"suspending", "resuming"} /\ Do(t, <<>>) /\ susp' = susp
        /\ loc[t].todo = {}
    BY <1>7 DEF EndSuspend, EndResume, EndLoop, Runs, Done
  <2>2. x = <<>> \o Tail(s)
    BY <2>1 DEF Do, Typed
  <2>3. Head(x) # "resumeNew"
    <3>1. Moved(t) \/ Rested
      BY <2>1, StopShape
    <3> QED BY <2>1, <3>1 DEF Moved, Rested, Follow, Below, At
  <2> QED BY <1>1, <2>1, <2>2, <2>3, PutSettles, TidyBodies
<1>8. CASE EnsureSafeStates(t)
  <2>1. At(t) = "ensureSafe" /\ susp' = susp /\ (Do(t, <<"safe">>) \/ Do(t, <<>>))
    BY <1>8 DEF EnsureSafeStates, Runs, Done
  <2>2. \A u : ~ Awaits(l, At(t), u) /\ ~ TopOwes(l, At(t), u)
               /\ ~ Awaits(r, "safe", u) /\ ~ TopOwes(r, "safe", u)
    BY <2>1 DEF Awaits, TopOwes
  <2>3. CASE Do(t, <<"safe">>)
    <3>1. <<At(t), "safe">> = <<"ensureSafe", "safe">>
      BY <2>1
    <3>2. /\ Orderly(x)
          /\ \A i \in Nat \ {0} : \A u :
                Owed(x, r, i, u) <=>
                   \/ Deep(s, i) /\ (i + 5 = n => ~ Awaits(r, "safe", u))
                   \/ i = n /\ TopOwes(r, "safe", u)
      BY <2>3, <3>1, RelabelOwes
    <3> HIDE DEF s, x, l, r, n
    <3>3. \A i \in Nat \ {0} : \A u : Owed(x, r, i, u) <=> Owed(s, l, i, u)
      BY <1>2, <2>2, <3>2
    <3> QED BY <1>1, <2>1, <3>2, <3>3, PaysSame DEF Settles, s, x, l, r
  <2>4. CASE Do(t, <<>>)
    <3>1. x = <<>> \o Tail(s)
      BY <2>4 DEF Do, Typed
    <3>2. Head(x) # "resumeNew" /\ At(t) \notin Owing
      <4>1. Moved(t) \/ Rested
        BY <2>1, StopShape
      <4> QED BY <2>1, <4>1 DEF Moved, Rested, Follow, At, Owing
    <3> QED BY <1>1, <2>1, <3>1, <3>2, PutSettles, TidyBodies
  <2> QED BY <2>1, <2>3, <2>4
<1>9. CASE CheckSafe(t)
  <2>1. At(t) = "safe"
    BY <1>9 DEF CheckSafe, Runs
  <2>2. \A u : ~ Awaits(l, At(t), u) /\ ~ TopOwes(l, At(t), u)
               /\ ~ Awaits(r, At(t), u) /\ ~ TopOwes(r, At(t), u)
    BY <2>1 DEF Awaits, TopOwes
  <2>3. CASE Do(t, <<>>) /\ susp' = susp
    <3>1. x = <<>> \o Tail(s)
      BY <2>3 DEF Do, Typed
    <3>2. Head(x) # "resumeNew" /\ At(t) \notin Owing
      <4>1. Moved(t) \/ Rested
        BY <2>1, StopShape
      <4> QED BY <2>1, <4>1 DEF Moved, Rested, Follow, At, Owing
    <3> QED BY <1>1, <2>3, <3>1, <3>2, PutSettles, TidyBodies
  <2>4. CASE UNCHANGED <<stack, susp>>
    <3>1. /\ Orderly(x)
          /\ \A i \in Nat \ {0} : \A u :
                Owed(x, r, i, u) <=>
                   \/ Deep(s, i) /\ (i + 5 = n => ~ Awaits(r, At(t), u))
                   \/ i = n /\ TopOwes(r, At(t), u)
      BY <2>4, StillOwes
    <3> HIDE DEF s, x, l, r, n
    <3>2. \A i \in Nat \ {0} : \A u : Owed(x, r, i, u) <=> Owed(s, l, i, u)
      BY <1>2, <2>2, <3>1
    <3> QED BY <1>1, <2>4, <3>1, <3>2, PaysSame DEF Settles, s, x, l, r
  <2>5. CASE \E v \in l.todo : /\ Do(t, <<"waking", "safe">>)
                               /\ susp' = [susp EXCEPT ![v] = Resumed(@)]
                               /\ loc' = [loc EXCEPT ![t].other = v]
    <3>1. PICK v \in l.todo : /\ Do(t, <<"waking", "safe">>)
                              /\ susp' = [susp EXCEPT ![v] = Resumed(@)]
                              /\ loc' = [loc EXCEPT ![t].other = v]
      BY <2>5
    <3>2. r.other = v
      BY <1>1, <3>1 DEF Typed, Locals
    <3>3. /\ Orderly(x) /\ n - 4 \in Nat \ {0}
          /\ \A i \in Nat \ {0} : \A u :
                Owed(x, r, i, u) <=> Deep(s, i) /\ (i = n - 4 => r.other # u)
      BY <2>1, <3>1, WakeOwes
    <3>4. susp'[t] = 0
      BY <1>1, <3>1 DEF Typed, Resumed
    <3> HIDE DEF s, x, l, r, n
    <3>5. ASSUME NEW u \in Threads \ {t}
          PROVE  Pays(t, u)
      <4>1. CASE u = v
        <5>1. susp'[u] = Resumed(susp[u])
          BY <3>1, <4>1 DEF Typed
        <5>2. \A i \in (Nat \ {0}) \ {n - 4} : Owed(x, r, i, u) <=> Owed(s, l, i, u)
          BY <1>2, <2>2, <3>3
        <5> QED BY <3>3, <5>1, <5>2 DEF Pays, s, x, l, r
      <4>2. CASE u # v
        <5>1. susp'[u] = susp[u]
          BY <3>1, <4>2 DEF Typed
        <5>2. \A i \in Nat \ {0} : Owed(x, r, i, u) <=> Owed(s, l, i, u)
          BY <1>2, <2>2, <3>2, <3>3, <4>2
        <5> QED BY <5>1, <5>2, PaysSame DEF s, x, l, r
      <4> QED BY <4>1, <4>2
    <3> QED BY <3>3, <3>4, <3>5 DEF Settles, x
  <2> QED BY <1>9, <2>3, <2>4, <2>5 DEF CheckSafe, Done, ResumeThread
<1>10. CASE WakingDone(t)
  <2> DEFINE v == l.other
  <2>1. At(t) = "waking" /\ v \in list /\ v # t
    <3>1. At(t) = "waking"
      BY <1>10 DEF WakingDone, Runs
    <3> QED BY <3>1 DEF WorldInv
  <2>2. Do(t, <<>>) /\ susp' = [susp EXCEPT ![v] = @ + 1]
    BY <1>10, <2>1 DEF WakingDone, SuspendThread, Plain, Done
  <2>3. x = <<>> \o Tail(s)
    BY <2>2 DEF Do, Typed
  <2>4. Head(x) # "resumeNew"
    <3>1. Moved(t) \/ Rested
      BY <2>1, StopShape
    <3> QED BY <2>1, <3>1 DEF Moved, Rested, Follow, Below, At
  <2>5. /\ Orderly(x)
        /\ \A i \in Nat \ {0} : \A u : Owed(x, r, i, u) <=> Deep(s, i)
    BY <2>3, <2>4, PutLeaves, TidyBodies
  <2>6. \A u : /\ Awaits(l, At(t), u) <=> v = u
               /\ ~ TopOwes(l, At(t), u)
    BY <2>1 DEF Awaits, TopOwes
  <2>7. n - 5 \in Nat \ {0} /\ Deep(s, n - 5)
    BY <1>3, <2>1 DEF Halting
  <2>8. susp'[t] = 0 /\ v \in Threads
    BY <1>1, <2>1, <2>2 DEF Typed, list
  <2> HIDE DEF s, x, l, r, n, v
  <2>9. ASSUME NEW u \in Threads \ {t}
        PROVE  Pays(t, u)
    <3>1. CASE u = v
      <4>1. susp'[u] = susp[u] + 1 /\ u \in list
        BY <2>1, <2>2, <2>8, <3>1 DEF Typed
      <4>2. \A i \in (Nat \ {0}) \ {n - 5} : Owed(x, r, i, u) <=> Owed(s, l, i, u)
        BY <1>2, <1>4, <2>5, <2>6
      <4>3. ~ Owed(s, l, n - 5, u) /\ Owed(x, r, n - 5, u)
        BY <1>1, <1>2, <1>4, <2>5, <2>6, <2>7, <3>1
      <4> QED BY <2>7, <4>1, <4>2, <4>3 DEF Pays, s, x, l, r
    <3>2. CASE u # v
      <4>1. susp'[u] = susp[u]
        BY <2>2, <3>2 DEF Typed
      <4>2. \A i \in Nat \ {0} : Owed(x, r, i, u) <=> Owed(s, l, i, u)
        BY <1>2, <2>5, <2>6, <3>2
      <4> QED BY <4>1, <4>2, PaysSame DEF s, x, l, r
    <3> QED BY <3>1, <3>2
  <2> QED BY <2>5, <2>8, <2>9 DEF Settles, x
<1>11. CASE BeginResume(t)
  <2>1. /\ At(t) = "resume" /\ Do(t, <<"resuming">>) /\ susp' = susp
        /\ loc' = [loc EXCEPT ![t].todo = todo]
    BY <1>11 DEF BeginResume, BeginLoop, Runs
  <2>2. r.todo = todo
    BY <2>1 DEF Typed, Locals
  <2>3. <<At(t), "resuming">> = <<"resume", "resuming">>
    BY <2>1
  <2>4. /\ Orderly(x)
        /\ \A i \in Nat \ {0} : \A u :
              Owed(x, r, i, u) <=>
                 \/ Deep(s, i) /\ (i + 5 = n => ~ Awaits(r, "resuming", u))
                 \/ i = n /\ TopOwes(r, "resuming", u)
    BY <2>1, <2>3, RelabelOwes
  <2>5. \A u : /\ ~ Awaits(l, At(t), u) /\ TopOwes(l, At(t), u)
               /\ ~ Awaits(r, "resuming", u)
               /\ TopOwes(r, "resuming", u) <=> u \in todo
    BY <2>1, <2>2 DEF Awaits, TopOwes
  <2> HIDE DEF s, x, l, r, n
  <2>6. ASSUME NEW u \in Threads \ {t}
        PROVE  Pays(t, u)
    <3>1. CASE u \in list
      <4>1. \A i \in Nat \ {0} : Owed(x, r, i, u) <=> Owed(s, l, i, u)
        BY <1>2, <2>4, <2>5, <3>1
      <4> QED BY <2>1, <4>1, PaysSame DEF s, x, l, r
    <3>2. CASE u \notin list
      <4>1. susp'[u] = Resumed(susp[u])
        BY <2>1, <3>2 DEF SuspInv, Resumed
      <4>2. \A i \in (Nat \ {0}) \ {n} : Owed(x, r, i, u) <=> Owed(s, l, i, u)
        BY <1>2, <2>4, <2>5
      <4> QED BY <1>1, <4>1, <4>2 DEF Pays, s, x, l, r
    <3> QED BY <3>1, <3>2
  <2> QED BY <1>1, <2>1, <2>4, <2>6 DEF Settles, x
<1>12. CASE ResumeOther(t)
  <2>1. PICK v \in l.todo : /\ At(t) = "resuming" /\ stack' = stack
                            /\ susp' = [susp EXCEPT ![v] = Resumed(@)]
                            /\ loc' = [loc EXCEPT ![t].todo = @ \ {v}]
    BY <1>12 DEF ResumeOther, Runs, ResumeThread, Visited
  <2>2. r.todo = l.todo \ {v}
    BY <1>1, <2>1 DEF Typed, Locals
  <2>3. /\ Orderly(x)
        /\ \A i \in Nat \ {0} : \A u :
              Owed(x, r, i, u) <=>
                 \/ Deep(s, i) /\ (i + 5 = n => ~ Awaits(r, At(t), u))
                 \/ i = n /\ TopOwes(r, At(t), u)
    BY <2>1, StillOwes
  <2>4. \A u : /\ ~ Awaits(l, At(t), u) /\ ~ Awaits(r, At(t), u)
               /\ TopOwes(l, At(t), u) <=> u \in l.todo
               /\ TopOwes(r, At(t), u) <=> u \in l.todo /\ u # v
    BY <2>1, <2>2 DEF Awaits, TopOwes
  <2>5. susp'[t] = 0
    BY <1>1, <2>1 DEF Typed, Resumed
  <2> HIDE DEF s, x, l, r, n
  <2>6. ASSUME NEW u \in Threads \ {t}
        PROVE  Pays(t, u)
    <3>1. CASE u = v
      <4>1. susp'[u] = Resumed(susp[u])
        BY <2>1, <3>1 DEF Typed
      <4>2. \A i \in (Nat \ {0}) \ {n} : Owed(x, r, i, u) <=> Owed(s, l, i, u)
        BY <1>2, <2>3, <2>4
      <4> QED BY <1>1, <4>1, <4>2 DEF Pays, s, x, l, r
    <3>2. CASE u # v
      <4>1. susp'[u] = susp[u]
        BY <2>1, <3>2 DEF Typed
      <4>2. \A i \in Nat \ {0} : Owed(x, r, i, u) <=> Owed(s, l, i, u)
        BY <1>2, <2>3, <2>4, <3>2
      <4> QED BY <4>1, <4>2, PaysSame DEF s, x, l, r
    <3> QED BY <3>1, <3>2
  <2> QED BY <2>3, <2>5, <2>6 DEF Settles, x
<1> QED BY <1>5, <1>6, <1>7, <1>8, <1>9, <1>10, <1>11, <1>12 DEF StopStep

(* Who looks at the suspensions of u sees that they are covered again.      *)
LEMMA PaysCover ==
    ASSUME SuspInv, NEW t \in Threads, NEW u \in Threads \ {t}, Pays(t, u), susp[u] \in Nat,
           \A v \in Threads \ {t} : \A i \in Nat \ {0} :
              Owed(stack'[v], loc'[v], i, u) <=> Owed(stack[v], loc[v], i, u)
    PROVE  /\ IsFiniteSet(Debts(u)') /\ susp'[u] <= Cardinality(Debts(u)')
           /\ u \notin list => susp'[u] = 0
<1> DEFINE D == Debts(u)
           E == Debts(u)'
           c == susp[u]
<1>1. IsFiniteSet(D) /\ c <= Cardinality(D) /\ (u \notin list => c = 0)
  BY DEF SuspInv
<1>2. PICK k \in Nat \ {0} :
         /\ \A i \in (Nat \ {0}) \ {k} :
               Owed(stack'[t], loc'[t], i, u) <=> Owed(stack[t], loc[t], i, u)
         /\ \/ susp'[u] = Resumed(c)
            \/ /\ Owed(stack[t], loc[t], k, u) => Owed(stack'[t], loc'[t], k, u)
               /\ susp'[u] = c
            \/ /\ ~ Owed(stack[t], loc[t], k, u) /\ Owed(stack'[t], loc'[t], k, u)
               /\ susp'[u] = c + 1 /\ u \in list
  BY DEF Pays
<1> DEFINE p == <<t, k>>
           before == Owed(stack[t], loc[t], k, u)
           after == Owed(stack'[t], loc'[t], k, u)
<1>3. /\ after => E = D \cup {p}
      /\ ~ after => E = D \ {p}
      /\ p \in D <=> before
  BY <1>2, DebtsChange
<1> HIDE DEF D, E, c, p, before, after
<1>4. /\ IsFiniteSet(D \cup {p}) /\ IsFiniteSet(D \ {p})
      /\ c <= Cardinality(D \cup {p})
      /\ p \notin D => c + 1 <= Cardinality(D \cup {p}) /\ c <= Cardinality(D \ {p})
      /\ Resumed(c) <= Cardinality(D \ {p})
  BY <1>1, Recounted DEF c
<1>5. /\ Cardinality(D \cup {p}) \in Nat /\ c \in Nat
  BY <1>1, <1>4, FS_CardinalityType DEF c
<1>6. Resumed(c) \in Nat /\ Resumed(c) <= c
  BY <1>5 DEF Resumed
<1>7. IsFiniteSet(E)
  BY <1>3, <1>4
<1>8. susp'[u] <= Cardinality(E)
  <2>1. CASE susp'[u] = Resumed(c)
    <3>1. CASE after
      <4>1. Resumed(c) <= Cardinality(D \cup {p})
        BY <1>4, <1>5, <1>6
      <4> QED BY <1>3, <2>1, <3>1, <4>1
    <3>2. CASE ~ after
      BY <1>3, <1>4, <2>1, <3>2
    <3> QED BY <3>1, <3>2
  <2>2. CASE (before => after) /\ susp'[u] = c
    BY <1>3, <1>4, <2>2
  <2>3. CASE ~ before /\ after /\ susp'[u] = c + 1
    BY <1>3, <1>4, <2>3
  <2> QED BY <1>2, <2>1, <2>2, <2>3 DEF before, after
<1>9. u \notin list => susp'[u] = 0
  BY <1>1, <1>2, <1>5 DEF Resumed
<1> QED BY <1>7, <1>8, <1>9 DEF E

-----------------------------------------------------------------------------
(* The invariant.                                                           *)

(* A stack of such labels owes nothing.                                     *)
LEMMA OwesNothing ==
    ASSUME NEW s, Bare(s), Head(s) # "resumeNew"
    PROVE  Orderly(s) /\ \A l, i, u : ~ Owed(s, l, i, u)
<1>1. Orderly(s) /\ \A l, i, u : Owed(s, l, i, u) => i = Len(s) /\ Low(s, i) = "resumeNew"
  BY BareIs
<1>2. s # <<>> => Low(s, Len(s)) = Head(s)
  BY LowTail DEF Bare
<1>3. s = <<>> => Low(s, Len(s)) = "none"
  BY DEF Low
<1> QED BY <1>1, <1>2, <1>3

(* That of a thread that waits or comes back to Lisp code.                  *)
LEMMA RestOwes ==
    ASSUME NEW s \in {<<"none">>, <<"foreign">>, <<"lisp">>}
    PROVE  Orderly(s) /\ \A l, i, u : ~ Owed(s, l, i, u)
<1>1. Bare(<<"none">>) /\ Bare(<<"foreign">>) /\ Bare(<<"lisp">>)
  BY DEF Bare, Label, Special, Walking
<1>2. Head(s) # "resumeNew"
  BY Tuple1
<1> QED BY <1>1, <1>2, OwesNothing

(* What others owe stays.                                                   *)
LEMMA OthersOwe ==
    ASSUME ShapeInv, CreateInv, OrderlyInv, NEW t \in Threads, Changes(t),
           NEW v \in Threads \ {t}
    PROVE  /\ Orderly(stack'[v])
           /\ \A i, u : Owed(stack'[v], loc'[v], i, u) <=> Owed(stack[v], loc[v], i, u)
<1>1. loc'[v] = loc[v]
  BY DEF Changes
<1>2. CASE stack'[v] = stack[v]
  BY <1>1, <1>2 DEF OrderlyInv
<1>3. CASE stack'[v] # stack[v]
  <2>1. stack[v] = <<"none">> /\ stack'[v] = SecondaryThreadProc /\ Head(stack'[v]) = "find"
    BY <1>3, OthersStay DEF Changes
  <2>2. Orderly(stack'[v]) /\ \A l, i, u : ~ Owed(stack'[v], l, i, u)
    BY <2>1, BareStacks, OwesNothing
  <2> QED BY <2>1, <2>2, RestOwes
<1> QED BY <1>2, <1>3

(* A thread that settles keeps it.                                          *)
LEMMA SettlesKeeps ==
    ASSUME Typed, ShapeInv, CreateInv, OrderlyInv, SuspInv, NEW t \in Threads,
           Changes(t), Lists(t), Settles(t)
    PROVE  OrderlyInv' /\ SuspInv'
<1>1. \A v \in Threads \ {t} :
         /\ Orderly(stack'[v])
         /\ \A i, u : Owed(stack'[v], loc'[v], i, u) <=> Owed(stack[v], loc[v], i, u)
  BY OthersOwe
<1>2. OrderlyInv'
  BY <1>1 DEF OrderlyInv, Settles
<1>3. ASSUME NEW u \in Threads
      PROVE  /\ IsFiniteSet(Debts(u)') /\ susp'[u] <= Cardinality(Debts(u)')
             /\ u \notin list' => susp'[u] = 0
  <2>1. CASE u = t
    <3>1. Debts(u)' = Debts(u)
      BY <1>1, <2>1, DebtsSame
    <3>2. susp'[u] = 0
      BY <2>1 DEF Settles
    <3>3. IsFiniteSet(Debts(u)) /\ Cardinality(Debts(u)) \in Nat
      BY FS_CardinalityType DEF SuspInv
    <3> HIDE DEF Debts
    <3> QED BY <3>1, <3>2, <3>3
  <2>2. CASE u # t
    <3>1. Pays(t, u) /\ susp[u] \in Nat
      BY <2>2 DEF Settles, Typed
    <3>2. /\ IsFiniteSet(Debts(u)') /\ susp'[u] <= Cardinality(Debts(u)')
          /\ u \notin list => susp'[u] = 0
      BY <1>1, <2>2, <3>1, PaysCover
    <3>3. u \in list => u \in list'
      BY <2>2 DEF Lists
    <3> QED BY <3>2, <3>3
  <2> QED BY <2>1, <2>2
<1> QED BY <1>2, <1>3 DEF SuspInv

(* Nothing changes for others.                                              *)
LEMMA StillKeeps ==
    ASSUME OrderlyInv, SuspInv, susp' = susp, list \subseteq list',
           \A v \in Threads : Orderly(stack'[v]),
           \A u \in Threads : \A v \in Threads \ {u} : \A i \in Nat \ {0} :
              Owed(stack'[v], loc'[v], i, u) <=> Owed(stack[v], loc[v], i, u)
    PROVE  OrderlyInv' /\ SuspInv'
<1>1. ASSUME NEW u \in Threads
      PROVE  Debts(u)' = Debts(u)
  BY DebtsSame
<1>2. OrderlyInv'
  BY DEF OrderlyInv
<1> HIDE DEF Debts, list
<1> QED BY <1>1, <1>2 DEF SuspInv

(* At first nobody is suspended, nor will be resumed.                       *)
OwedInv == Inv /\ OrderlyInv /\ SuspInv

LEMMA OwedInit == Init => OwedInv
<1> SUFFICES ASSUME Init PROVE OwedInv
  OBVIOUS
<1>1. Inv
  BY InitInv DEF CountedInv
<1>2. \A t \in Threads : stack[t] \in {<<"none">>, <<"foreign">>} /\ susp[t] = 0
  BY DEF Init
<1>3. \A t \in Threads : Orderly(stack[t]) /\ \A l, i, u : ~ Owed(stack[t], l, i, u)
  BY <1>2, RestOwes
<1>4. ASSUME NEW u \in Threads
      PROVE  Debts(u) = {}
  <2>1. \A p \in (Threads \ {u}) \X (Nat \ {0}) : p[1] \in Threads
    OBVIOUS
  <2> QED BY <1>3, <2>1 DEF Debts
<1>5. ASSUME NEW u \in Threads
      PROVE  IsFiniteSet(Debts(u)) /\ susp[u] <= Cardinality(Debts(u)) /\ susp[u] = 0
  <2>1. IsFiniteSet({}) /\ Cardinality({}) = 0
    BY FS_EmptySet
  <2> QED BY <1>2, <1>4, <2>1
<1>6. SuspInv
  BY <1>5 DEF SuspInv
<1> QED BY <1>1, <1>3, <1>6 DEF OwedInv, OrderlyInv

(* Every step keeps them.                                                   *)
LEMMA OwedStep ==
    ASSUME Plain, OwedInv, [Next]_vars
    PROVE  OwedInv'
<1>0. /\ Inv /\ OrderlyInv /\ SuspInv /\ Typed /\ ShapeInv /\ CreateInv /\ WorldInv
  BY DEF OwedInv, Inv
<1>1. Inv'
  BY <1>0, InvStep
<1>2. CASE UNCHANGED vars
  <2>1. UNCHANGED <<stack, loc, susp>> /\ list' = list
    BY <1>2, SameList DEF vars
  <2>2. OrderlyInv' /\ SuspInv'
    BY <1>0, <2>1, StillKeeps DEF OrderlyInv
  <2> QED BY <1>1, <2>2 DEF OwedInv
<1>3. CASE RunLispThread
  <2>1. Primary \in Threads /\ stack[Primary] = <<"none">>
    <3>1. Primary \in Threads /\ At(Primary) = "none"
      BY <1>3 DEF RunLispThread, Runs, Threads
    <3>2. Waits(Primary, stack[Primary])
      BY <1>0, <3>1, Tops, InsideIs, OutsideIs DEF At
    <3> QED BY <3>1, <3>2, ThreadsAssumption DEF Waits
  <2>2. /\ stack' = [stack EXCEPT ![Primary] = <<"lisp">>] /\ UNCHANGED <<loc, susp>>
        /\ rec' = [rec EXCEPT ![Primary] = [@ EXCEPT !.listed = TRUE, !.handle = TRUE,
                                                      !.qv = "scanned"]]
    BY <1>3 DEF RunLispThread
  <2>3. list \subseteq list'
    <3>1. rec \in [Threads -> Record]
      BY <1>0 DEF Typed
    <3>2. \A v \in Threads : rec[v].listed => rec'[v].listed
      BY <2>1, <2>2, <3>1 DEF Record
    <3> QED BY <3>2 DEF list
  <2>4. ASSUME NEW v \in Threads
        PROVE  /\ Orderly(stack'[v])
               /\ \A i, u : Owed(stack'[v], loc'[v], i, u) <=> Owed(stack[v], loc[v], i, u)
    <3>1. CASE v = Primary
      <4>1. stack'[v] = <<"lisp">> /\ stack[v] = <<"none">>
        BY <1>0, <2>1, <2>2, <3>1 DEF Typed
      <4> QED BY <4>1, RestOwes
    <3>2. CASE v # Primary
      <4>1. stack'[v] = stack[v] /\ loc'[v] = loc[v]
        BY <1>0, <2>2, <3>2 DEF Typed
      <4> QED BY <1>0, <4>1 DEF OrderlyInv
    <3> QED BY <3>1, <3>2
  <2>5. OrderlyInv' /\ SuspInv'
    BY <1>0, <2>2, <2>3, <2>4, StillKeeps
  <2> QED BY <1>1, <2>5 DEF OwedInv
<1>4. ASSUME NEW t \in Threads, PlainStep(t)
      PROVE  OwedInv'
  <2>1. Changes(t) /\ Lists(t)
    BY <1>0, <1>4, StepIs
  <2>2. CASE StillStep(t)
    <3>1. UNCHANGED <<stack, loc, susp>> /\ list' = list
      BY <1>0, <2>2, StillChanges, StillShape
    <3>2. OrderlyInv' /\ SuspInv'
      BY <1>0, <3>1, StillKeeps DEF OrderlyInv
    <3> QED BY <1>1, <3>2 DEF OwedInv
  <2>3. CASE StopStep(t) \/ CodeStep(t) \/ ThreadStep(t) \/ ListStep(t)
    <3>1. Settles(t)
      BY <1>0, <2>3, StopSettles, CodeSettles, ThreadSettles, ListSettles
    <3>2. OrderlyInv' /\ SuspInv'
      BY <1>0, <2>1, <3>1, SettlesKeeps
    <3> QED BY <1>1, <3>2 DEF OwedInv
  <2> QED BY <1>4, <2>2, <2>3 DEF PlainStep
<1>5. RunLispThread \/ (\E t \in Threads : PlainStep(t)) \/ UNCHANGED vars
  BY <1>0, OnlyPlain
<1> QED BY <1>2, <1>3, <1>4, <1>5

(* Of every suspended thread another thread has a resumption still to do:   *)
(* the rest of its collection, what is left of its ResumeOtherThreads, or   *)
(* the ResumeThread of the one that created it.  Suspensions of several     *)
(* collections add up, those that ensureSafeStates repeats are the ones it  *)
(* undid, and threads that are inserted, start or end meanwhile are neither *)
(* forgotten nor resumed in place of others.                                *)
THEOREM SuspensionsEnd ==
    ASSUME Plain
    PROVE  Spec => []SuspendedHasResumer
<1>1. OwedInv => SuspendedHasResumer
  <2> SUFFICES ASSUME OwedInv, NEW u \in Threads, susp[u] > 0
               PROVE  \E t \in Threads \ {u} :
                         Labels(t) \cap {"resume", "resuming", "resumeNew", "redirect",
                                         "throwExit"} # {}
    BY DEF SuspendedHasResumer
  <2>1. Debts(u) # {}
    <3>1. susp[u] <= Cardinality(Debts(u)) /\ susp[u] \in Nat
      BY DEF OwedInv, SuspInv, Inv, Typed
    <3>2. Cardinality(Debts(u)) # 0
      <4> HIDE DEF Debts
      <4>1. ASSUME Cardinality(Debts(u)) = 0 PROVE FALSE
        BY <3>1, <4>1
      <4> QED BY <4>1
    <3> HIDE DEF Debts
    <3>3. Cardinality({}) = 0
      BY FS_EmptySet
    <3> QED BY <3>2, <3>3
  <2>2. PICK p \in (Threads \ {u}) \X (Nat \ {0}) : Owed(stack[p[1]], loc[p[1]], p[2], u)
    BY <2>1 DEF Debts
  <2> DEFINE t == p[1]
             l == Low(stack[t], p[2])
  <2>3. t \in Threads \ {u} /\ l \in {"resume", "resuming", "resumeNew"}
    BY <2>2 DEF Owed
  <2>4. l \in Labels(t)
    <3>1. stack[t] \in Seq(Label)
      BY <2>3, Tops DEF OwedInv, Inv
    <3>2. Len(stack[t]) \in Nat /\ DOMAIN stack[t] = 1 .. Len(stack[t])
      BY <3>1, LenProperties
    <3>3. p[2] \in 1 .. Len(stack[t])
      BY <2>3 DEF Low
    <3>4. /\ Len(stack[t]) + 1 - p[2] \in DOMAIN stack[t]
          /\ l = stack[t][Len(stack[t]) + 1 - p[2]]
      BY <3>2, <3>3 DEF Low
    <3> HIDE DEF t, l
    <3> QED BY <3>4 DEF Labels
  <2> QED BY <2>3, <2>4
<1>2. Init => OwedInv
  BY OwedInit
<1>3. OwedInv /\ [Next]_vars => OwedInv'
  BY OwedStep
<1> QED BY <1>1, <1>2, <1>3, PTL DEF Spec
=============================================================================
