------------------------- MODULE LispThreadsProofs -------------------------
(***************************************************************************)
(* What is proved of LispThreads about who may run: the heap lock here,    *)
(* and stopping the world in the second part.  For any threads, any        *)
(* workload and any nesting of hooks only the owner of GCCriticalSection   *)
(* takes blocks from the heaps or moves objects: one thread at a time.     *)
(*                                                                         *)
(* That a thread is between an entry and a leave of the lock is a fact of  *)
(* what is left on its stack.  Each label has a weight: what it gives back *)
(* of the lock, or takes.  A body is balanced from w to v when a thread    *)
(* that holds the lock w times before it holds it v times after it, and no *)
(* label of it is reached with less than it needs.  The invariant SoundInv *)
(* says that every stack is such a body, followed by the label of code     *)
(* that never returns, and that a thread whose stack has to give the lock  *)
(* back w times owns it at least w times.  Threads that are thrown out of  *)
(* their code own it more often than they owe: the lock then stays taken,  *)
(* but nobody takes a block without it.                                    *)
(***************************************************************************)
EXTENDS LispThreads, SequenceTheorems, FiniteSetTheorems, TLAPS

(* The labels of the steps. *)
Label == {"alloc", "take", "bump", "leave", "gc", "suspend", "suspending",
          "ensureSafe", "safe", "waking", "lost", "collect", "hooks",
          "resume", "resuming", "inc", "incStore", "dec", "decStore",
          "insert", "inserting", "remove", "removing", "enter", "begin",
          "resumeNew", "await", "threadID", "find", "lisp", "ended", "none",
          "newQV", "unbless", "foreign", "primary", "suspendPrimary",
          "redirect", "suspendOther", "throwExit", "lock", "unlock",
          "enterCS", "leaveCS", "load"}

(* What a step gives back of the lock. *)
Weight(l) == IF l \in {"take", "bump", "leave"} THEN 1
             ELSE IF l \in {"alloc", "enter", "gc"} THEN -1 ELSE 0

(* The labels that only threads of the client come to. *)
ClientLabels == {"foreign", "primary", "redirect"}

(* The labels that stay at the bottom of the stack. *)
Terminal(t) == {"ended", "none"}
               \cup (IF t = Primary THEN {"lisp"} ELSE {})
               \cup (IF t \in Foreigners THEN {"foreign"} ELSE {})

(* The thread comes to label l with the lock held before times. *)
Fits(t, l, before, after) ==
    /\ l \in ClientLabels => t \in Foreigners
    /\ before = after + Weight(l)
    /\ l = "collect" => before >= 1

(* c[i] entries of the lock have to be given back from the i-th label on.   *)
(* The early returns of RunSecondaryThread and readHeap skip labels: what   *)
(* has to be given back after them is no more than before, since they keep  *)
(* the lock.                                                                *)
Path(t, L, c) ==
    /\ c \in [1 .. Len(L) + 1 -> Nat]
    /\ \A i \in 1 .. Len(L) :
        /\ Fits(t, L[i], c[i], c[i + 1])
        /\ L[i] = "begin" => i + 5 <= Len(L) + 1 /\ c[i + 5] <= c[i]
        /\ L[i] = "load" => i + 4 <= Len(L) + 1 /\ c[i + 4] <= c[i]

(* The body L takes the entries of the lock from w to v. *)
Balanced(t, L, w, v) ==
    /\ L \in Seq(Label)
    /\ \E c : Path(t, L, c) /\ c[1] = w /\ c[Len(L) + 1] = v

(* A thread that has n entries to give back owns the lock. *)
Owes(t, n, l) == n > 0 => l.owner = t /\ l.count >= n

(* The stack s of thread t agrees with the state l of the lock. *)
Sound(t, s, l) ==
    \E L, z, w :
        /\ s = L \o <<z>>
        /\ z \in Terminal(t)
        /\ Balanced(t, L, w, 0)
        /\ Owes(t, w, l)

(* An owned lock was entered. *)
Lock == {l \in [owner : Threads \cup {NoThread}, count : Nat] :
            l.owner # NoThread => l.count >= 1}

(* The inductive invariant. *)
SoundInv ==
    /\ DOMAIN stack = Threads
    /\ DOMAIN locks = LockNames
    /\ locks["GC"] \in Lock
    /\ \A t \in Threads : Sound(t, stack[t], locks["GC"])

-----------------------------------------------------------------------------
(* A tuple of n labels that is written out is a sequence of labels.        *)
LEMMA Explicit ==
    ASSUME NEW n \in Nat, NEW L, L = [i \in 1 .. n |-> L[i]],
           \A i \in 1 .. n : L[i] \in Label
    PROVE  L \in Seq(Label) /\ Len(L) = n
<1>1. L \in [1 .. n -> Label] OBVIOUS
<1>2. L \in Seq(Label) BY <1>1, SeqDef
<1> QED BY <1>1, <1>2, LenProperties

(* Two balanced bodies run one after the other are balanced.               *)
LEMMA Concatenated ==
    ASSUME NEW t, NEW L, NEW M, NEW w, NEW u, NEW v,
           Balanced(t, L, w, u), Balanced(t, M, u, v)
    PROVE  Balanced(t, L \o M, w, v)
<1>1. PICK c : Path(t, L, c) /\ c[1] = w /\ c[Len(L) + 1] = u
  BY DEF Balanced
<1>2. PICK d : Path(t, M, d) /\ d[1] = u /\ d[Len(M) + 1] = v
  BY DEF Balanced
<1> DEFINE n == Len(L)
           m == Len(M)
           r == L \o M
           e == [i \in 1 .. n + m + 1 |-> IF i <= n THEN c[i] ELSE d[i - n]]
<1>3. /\ L \in Seq(Label) /\ M \in Seq(Label) /\ n \in Nat /\ m \in Nat
      /\ r \in Seq(Label) /\ Len(r) = n + m
      /\ \A i \in 1 .. n : r[i] = L[i]
      /\ \A i \in 1 .. m : r[n + i] = M[i]
  BY ConcatProperties, LenProperties DEF Balanced
<1>4. c \in [1 .. n + 1 -> Nat] /\ d \in [1 .. m + 1 -> Nat]
  BY <1>1, <1>2 DEF Path
<1>5. \A i \in 1 .. n + 1 : e[i] = c[i]
  BY <1>1, <1>2, <1>3
<1>6. \A i \in 1 .. m + 1 : e[n + i] = d[i]
  <2> TAKE i \in 1 .. m + 1
  <2>1. n + i \in 1 .. n + m + 1 /\ ~(n + i <= n) /\ (n + i) - n = i
    BY <1>3
  <2> QED BY <2>1
<1>7. e \in [1 .. Len(r) + 1 -> Nat]
  <2>1. ASSUME NEW i \in 1 .. n + m + 1
        PROVE  (IF i <= n THEN c[i] ELSE d[i - n]) \in Nat
    <3>1. CASE i <= n BY <3>1, <1>3, <1>4
    <3>2. CASE ~(i <= n)
      <4>1. i - n \in 1 .. m + 1 BY <3>2, <1>3
      <4> QED BY <4>1, <3>2, <1>4
    <3> QED BY <3>1, <3>2
  <2> QED BY <2>1, <1>3
<1>8. e[1] = w /\ e[Len(r) + 1] = v
  BY <1>1, <1>2, <1>3, <1>5, <1>6
<1> HIDE DEF e
<1>9. ASSUME NEW i \in 1 .. Len(r)
      PROVE  /\ Fits(t, r[i], e[i], e[i + 1])
             /\ r[i] = "begin" => i + 5 <= Len(r) + 1 /\ e[i + 5] <= e[i]
             /\ r[i] = "load" => i + 4 <= Len(r) + 1 /\ e[i + 4] <= e[i]
  <2>1. CASE i <= n
    <3>1. /\ i \in 1 .. n /\ r[i] = L[i]
          /\ \A j \in {0, 1, 4, 5} : i + j <= n + 1 => e[i + j] = c[i + j]
      BY <2>1, <1>3, <1>5
    <3>2. e[i] = c[i] /\ e[i + 1] = c[i + 1] BY <3>1, <1>3, <1>5
    <3> QED BY <3>1, <3>2, <1>1, <1>3, <1>5 DEF Path
  <2>2. CASE ~(i <= n)
    <3> DEFINE j == i - n
    <3>1. /\ j \in 1 .. m /\ i = n + j /\ r[i] = M[j]
      BY <2>2, <1>3
    <3>2. /\ Fits(t, M[j], d[j], d[j + 1])
          /\ M[j] = "begin" => j + 5 <= m + 1 /\ d[j + 5] <= d[j]
          /\ M[j] = "load" => j + 4 <= m + 1 /\ d[j + 4] <= d[j]
      BY <3>1, <1>2 DEF Path
    <3>3. \A k \in 0 .. 5 : j + k <= m + 1 => e[i + k] = d[j + k]
      <4> TAKE k \in 0 .. 5
      <4> HAVE j + k <= m + 1
      <4>1. j + k \in 1 .. m + 1 /\ i + k = n + (j + k) BY <3>1, <1>3
      <4> QED BY <4>1, <1>6
    <3>4. e[i] = d[j] /\ e[i + 1] = d[j + 1]
      <4>1. i + 0 = i /\ j + 0 = j BY <3>1, <1>3
      <4> QED BY <3>3, <3>1, <4>1, <1>3
    <3> HIDE DEF j
    <3>5. M[j] = "begin" => i + 5 <= Len(r) + 1 /\ e[i + 5] <= e[i]
      BY <3>1, <3>2, <3>3, <3>4, <1>3
    <3>6. M[j] = "load" => i + 4 <= Len(r) + 1 /\ e[i + 4] <= e[i]
      BY <3>1, <3>2, <3>3, <3>4, <1>3
    <3> QED BY <3>1, <3>2, <3>4, <3>5, <3>6
  <2> QED BY <2>1, <2>2
<1> QED BY <1>3, <1>7, <1>8, <1>9 DEF Balanced, Path

(* A balanced body can be run by a thread that holds the lock k times      *)
(* more.                                                                   *)
LEMMA Shifted ==
    ASSUME NEW t, NEW L, NEW w \in Nat, NEW v \in Nat, NEW k \in Nat,
           Balanced(t, L, w, v)
    PROVE  Balanced(t, L, w + k, v + k)
<1>1. PICK c : Path(t, L, c) /\ c[1] = w /\ c[Len(L) + 1] = v
  BY DEF Balanced
<1> DEFINE e == [i \in 1 .. Len(L) + 1 |-> c[i] + k]
<1>2. L \in Seq(Label) /\ Len(L) \in Nat
  BY LenProperties DEF Balanced
<1>3. c \in [1 .. Len(L) + 1 -> Nat] BY <1>1 DEF Path
<1>4. /\ e \in [1 .. Len(L) + 1 -> Nat]
      /\ \A i \in 1 .. Len(L) + 1 : e[i] = c[i] + k /\ c[i] \in Nat
  BY <1>2, <1>3
<1> HIDE DEF e
<1>5. ASSUME NEW i \in 1 .. Len(L)
      PROVE  /\ Fits(t, L[i], e[i], e[i + 1])
             /\ L[i] = "begin" => i + 5 <= Len(L) + 1 /\ e[i + 5] <= e[i]
             /\ L[i] = "load" => i + 4 <= Len(L) + 1 /\ e[i + 4] <= e[i]
  <2>1. /\ Fits(t, L[i], c[i], c[i + 1])
        /\ L[i] = "begin" => i + 5 <= Len(L) + 1 /\ c[i + 5] <= c[i]
        /\ L[i] = "load" => i + 4 <= Len(L) + 1 /\ c[i + 4] <= c[i]
    BY <1>1 DEF Path
  <2>2. /\ e[i] = c[i] + k /\ e[i + 1] = c[i + 1] + k
        /\ c[i] \in Nat /\ c[i + 1] \in Nat
    BY <1>2, <1>4
  <2>3. Fits(t, L[i], e[i], e[i + 1]) BY <2>1, <2>2 DEF Fits, Weight
  <2>4. L[i] = "begin" => i + 5 <= Len(L) + 1 /\ e[i + 5] <= e[i]
    BY <2>1, <2>2, <1>2, <1>4
  <2>5. L[i] = "load" => i + 4 <= Len(L) + 1 /\ e[i + 4] <= e[i]
    BY <2>1, <2>2, <1>2, <1>4
  <2> QED BY <2>3, <2>4, <2>5
<1>6. e[1] = w + k /\ e[Len(L) + 1] = v + k BY <1>1, <1>2, <1>4
<1> QED BY <1>2, <1>4, <1>5, <1>6 DEF Balanced, Path

(* What is left of a body once its first k labels are gone.                *)
LEMMA Skipped ==
    ASSUME NEW t, NEW L, NEW c, NEW k \in 0 .. 5, L \in Seq(Label),
           Path(t, L, c), k <= Len(L)
    PROVE  Balanced(t, SubSeq(L, k + 1, Len(L)), c[k + 1], c[Len(L) + 1])
<1> DEFINE n == Len(L)
           r == SubSeq(L, k + 1, n)
           e == [i \in 1 .. n - k + 1 |-> c[i + k]]
<1>1. /\ n \in Nat /\ c \in [1 .. n + 1 -> Nat]
  BY LenProperties DEF Path
<1>2. /\ r \in Seq(Label) /\ Len(r) = n - k
      /\ \A i \in 1 .. n - k : r[i] = L[i + k]
  <2>1. \A i \in k + 1 .. n : L[i] \in Label BY <1>1, ElementOfSeq
  <2>2. /\ r \in Seq(Label) /\ Len(r) = (IF k + 1 <= n THEN n - (k + 1) + 1 ELSE 0)
        /\ \A i \in 1 .. n - (k + 1) + 1 : r[i] = L[(k + 1) + i - 1]
    BY <2>1, <1>1, SubSeqProperties
  <2>3. \A i \in 1 .. n - k : r[i] = L[i + k]
    <3> TAKE i \in 1 .. n - k
    <3>1. i \in 1 .. n - (k + 1) + 1 /\ (k + 1) + i - 1 = i + k BY <1>1
    <3> QED BY <3>1, <2>2
  <2> QED BY <2>2, <2>3, <1>1
<1>3. /\ e \in [1 .. Len(r) + 1 -> Nat]
      /\ \A i \in 1 .. n - k + 1 : e[i] = c[i + k]
      /\ e[1] = c[k + 1] /\ e[Len(r) + 1] = c[n + 1]
  BY <1>1, <1>2
<1> HIDE DEF e, r
<1>4. ASSUME NEW i \in 1 .. Len(r)
      PROVE  /\ Fits(t, r[i], e[i], e[i + 1])
             /\ r[i] = "begin" => i + 5 <= Len(r) + 1 /\ e[i + 5] <= e[i]
             /\ r[i] = "load" => i + 4 <= Len(r) + 1 /\ e[i + 4] <= e[i]
  <2> DEFINE j == i + k
  <2>1. j \in 1 .. n /\ r[i] = L[j] BY <1>1, <1>2
  <2>2. /\ Fits(t, L[j], c[j], c[j + 1])
        /\ L[j] = "begin" => j + 5 <= n + 1 /\ c[j + 5] <= c[j]
        /\ L[j] = "load" => j + 4 <= n + 1 /\ c[j + 4] <= c[j]
    BY <2>1 DEF Path
  <2>3. \A x \in 0 .. 5 : i + x <= n - k + 1 => e[i + x] = c[j + x]
    <3> TAKE x \in 0 .. 5
    <3> HAVE i + x <= n - k + 1
    <3>1. i + x \in 1 .. n - k + 1 BY <1>1, <1>2
    <3>2. (i + x) + k = j + x BY <1>1, <1>2
    <3> QED BY <3>1, <3>2, <1>3
  <2>4. e[i] = c[j] /\ e[i + 1] = c[j + 1]
    <3>1. i + 0 = i /\ j + 0 = j BY <1>1, <1>2
    <3> QED BY <2>3, <3>1, <1>1, <1>2
  <2>5. j = i + k OBVIOUS
  <2> HIDE DEF j
  <2>6. r[i] = "begin" => i + 5 <= Len(r) + 1 /\ e[i + 5] <= e[i]
    BY <2>1, <2>2, <2>3, <2>4, <2>5, <1>1, <1>2
  <2>7. r[i] = "load" => i + 4 <= Len(r) + 1 /\ e[i + 4] <= e[i]
    BY <2>1, <2>2, <2>3, <2>4, <2>5, <1>1, <1>2
  <2> QED BY <2>1, <2>2, <2>4, <2>6, <2>7
<1> QED BY <1>2, <1>3, <1>4 DEF Balanced, Path, r

(* A body that ends in a label without weight is balanced without it.      *)
LEMMA Front ==
    ASSUME NEW t, NEW L, Balanced(t, L, 0, 0), L # <<>>,
           \A i \in 1 .. Len(L) : L[i] \notin {"begin", "load"},
           Weight(L[Len(L)]) = 0
    PROVE  \E M : /\ L = M \o <<L[Len(L)]>>
                  /\ Balanced(t, M, 0, 0)
<1> DEFINE n == Len(L)
           M == SubSeq(L, 1, n - 1)
<1>1. L \in Seq(Label) /\ n \in Nat /\ n >= 1
  BY LenProperties, EmptySeq DEF Balanced
<1>2. PICK c : Path(t, L, c) /\ c[1] = 0 /\ c[n + 1] = 0
  BY DEF Balanced
<1>3. L = M \o <<L[n]>>
  <2>1. L = SubSeq(L, 1, n) BY <1>1, SubSeqFull
  <2>2. 1 \in 1 .. Len(L) /\ n \in 1 .. Len(L) BY <1>1
  <2>3. SubSeq(L, 1, n) = SubSeq(L, 1, n - 1) \o <<L[n]>>
    BY <2>2, <1>1, SubSeqRecursiveSecond
  <2> QED BY <2>1, <2>3
<1>4. /\ M \in Seq(Label) /\ Len(M) = n - 1
      /\ \A i \in 1 .. n - 1 : M[i] = L[i]
  <2>1. \A i \in 1 .. n - 1 : L[i] \in Label BY <1>1, ElementOfSeq
  <2> DEFINE k == n - 1
  <2>2. k \in Int /\ 1 \in Int BY <1>1
  <2> HIDE DEF k
  <2>3. /\ SubSeq(L, 1, k) \in Seq(Label)
        /\ Len(SubSeq(L, 1, k)) = IF 1 <= k THEN k - 1 + 1 ELSE 0
        /\ \A i \in 1 .. k - 1 + 1 : SubSeq(L, 1, k)[i] = L[1 + i - 1]
    <3>1. \A i \in 1 .. k : L[i] \in Label BY <2>1 DEF k
    <3> QED BY <3>1, <2>2, SubSeqProperties
  <2>4. ASSUME NEW i \in 1 .. n - 1 PROVE M[i] = L[i]
    <3>1. i \in 1 .. k - 1 + 1 /\ 1 + i - 1 = i BY <1>1 DEF k
    <3> QED BY <3>1, <2>3 DEF k
  <2>5. Len(M) = n - 1
    <3>1. k \in Nat /\ (k >= 1 => k - 1 + 1 = k) BY <1>1 DEF k
    <3>2. Len(SubSeq(L, 1, k)) = k BY <3>1, <2>3
    <3> QED BY <3>2 DEF k
  <2> QED BY <2>3, <2>4, <2>5 DEF k
<1> DEFINE e == [i \in 1 .. n |-> c[i]]
<1>5. /\ e \in [1 .. Len(M) + 1 -> Nat] /\ \A i \in 1 .. n : e[i] = c[i]
      /\ c \in [1 .. n + 1 -> Nat]
  BY <1>1, <1>2, <1>4 DEF Path
<1> HIDE DEF M, e
<1>6. c[n] = 0
  <2>1. Fits(t, L[n], c[n], c[n + 1]) BY <1>1, <1>2 DEF Path
  <2> QED BY <2>1, <1>2 DEF Fits
<1>7. ASSUME NEW i \in 1 .. Len(M)
      PROVE  Fits(t, M[i], e[i], e[i + 1]) /\ M[i] \notin {"begin", "load"}
  <2>1. /\ i \in 1 .. n /\ M[i] = L[i] /\ e[i] = c[i] /\ e[i + 1] = c[i + 1]
    BY <1>1, <1>4, <1>5
  <2> QED BY <2>1, <1>2 DEF Path
<1>8. e[1] = 0 /\ e[Len(M) + 1] = 0 BY <1>1, <1>2, <1>4, <1>5, <1>6
<1>9. Balanced(t, M, 0, 0)
  BY <1>4, <1>5, <1>7, <1>8 DEF Balanced, Path
<1> QED BY <1>3, <1>9

-----------------------------------------------------------------------------
(* The labels that neither touch the lock nor say anything of it. *)
Quiet == Label \ ({"alloc", "enter", "gc", "take", "bump", "leave", "collect",
                   "begin", "load"} \cup ClientLabels)

(* A label that does not touch the lock is balanced by itself.             *)
LEMMA BalancedQuiet ==
    ASSUME NEW t, NEW l \in Quiet
    PROVE  Balanced(t, <<l>>, 0, 0)
<1> DEFINE c == [i \in 1 .. 2 |-> 0]
<1>1. <<l>> \in Seq(Label) /\ Len(<<l>>) = 1 /\ <<l>>[1] = l BY DEF Quiet
<1>2. Weight(l) = 0 BY DEF Quiet, Weight
<1>3. Path(t, <<l>>, c) BY <1>1, <1>2 DEF Path, Fits, Quiet
<1> QED BY <1>1, <1>3 DEF Balanced

(* Nothing left to do is balanced.                                         *)
LEMMA BalancedEmpty == \A t : Balanced(t, <<>>, 0, 0)
<1> SUFFICES ASSUME NEW t PROVE Balanced(t, <<>>, 0, 0) OBVIOUS
<1> DEFINE c == [i \in 1 .. 1 |-> 0]
<1>1. <<>> \in Seq(Label) /\ Len(<<>>) = 0 OBVIOUS
<1>2. Path(t, <<>>, c) BY <1>1 DEF Path
<1> QED BY <1>1, <1>2 DEF Balanced

(* Two such labels are balanced.                                           *)
LEMMA BalancedPair ==
    ASSUME NEW t, NEW l \in Quiet, NEW m \in Quiet
    PROVE  Balanced(t, <<l, m>>, 0, 0)
<1> DEFINE c == [i \in 1 .. 3 |-> 0]
<1>1. /\ <<l, m>> \in Seq(Label) /\ Len(<<l, m>>) = 2
      /\ <<l, m>>[1] = l /\ <<l, m>>[2] = m
  BY DEF Quiet
<1>2. Weight(l) = 0 /\ Weight(m) = 0 BY DEF Quiet, Weight
<1>3. ASSUME NEW i \in 1 .. 2
      PROVE Fits(t, <<l, m>>[i], c[i], c[i + 1]) /\ <<l, m>>[i] \notin {"begin", "load"}
  <2>1. i = 1 \/ i = 2 OBVIOUS
  <2> QED BY <2>1, <1>1, <1>2 DEF Fits, Quiet
<1>4. Path(t, <<l, m>>, c) BY <1>1, <1>3 DEF Path
<1> QED BY <1>1, <1>4 DEF Balanced

(* The label leaves the lock: <<"leave">>, "bump". *)
LEMMA BalancedOne ==
    ASSUME NEW t, NEW l \in {"leave", "bump"}
    PROVE  Balanced(t, <<l>>, 1, 0)
<1> DEFINE c == [i \in 1 .. 2 |-> IF i = 1 THEN 1 ELSE 0]
<1>1. <<l>> \in Seq(Label) /\ Len(<<l>>) = 1 /\ <<l>>[1] = l BY DEF Label
<1>2. Weight(l) = 1 BY DEF Weight
<1>3. Path(t, <<l>>, c) BY <1>1, <1>2 DEF Path, Fits, ClientLabels
<1> QED BY <1>1, <1>3 DEF Balanced

(* AllocLocalVector and the others enter the lock once and leave it once.  *)
LEMMA BalancedAllocation == \A t : Balanced(t, Allocation, 0, 0)
<1> SUFFICES ASSUME NEW t PROVE Balanced(t, Allocation, 0, 0) OBVIOUS
<1> DEFINE L == Allocation
           c == [i \in 1 .. 3 |-> IF i = 2 THEN 1 ELSE 0]
<1>1. L = [i \in 1 .. 2 |-> L[i]] BY DEF Allocation
<1>2. ASSUME NEW i \in 1 .. 2
      PROVE  /\ Fits(t, L[i], c[i], c[i + 1])
             /\ L[i] \in Label \ {"begin", "load"}
  <2>1. i = 1 \/ i = 2 OBVIOUS
  <2> QED BY <2>1 DEF Allocation, Fits, Weight, ClientLabels, Label
<1>3. L \in Seq(Label) /\ Len(L) = 2 BY <1>1, <1>2, Explicit
<1>4. Path(t, L, c) BY <1>2, <1>3 DEF Path
<1> QED BY <1>3, <1>4 DEF Balanced

(* garbageCollect enters the lock before it collects and leaves it once.   *)
LEMMA BalancedCollection == \A t : Balanced(t, GarbageCollect, 0, 0)
<1> SUFFICES ASSUME NEW t PROVE Balanced(t, GarbageCollect, 0, 0) OBVIOUS
<1> DEFINE L == GarbageCollect
           c == [i \in 1 .. 8 |-> IF i \in 2 .. 6 THEN 1 ELSE 0]
<1>1. L = [i \in 1 .. 7 |-> L[i]] BY DEF GarbageCollect
<1>2. ASSUME NEW i \in 1 .. 7
      PROVE  /\ Fits(t, L[i], c[i], c[i + 1])
             /\ L[i] \in Label \ {"begin", "load"}
  <2>1. i \in {1, 2, 3, 4, 5, 6, 7} OBVIOUS
  <2> QED BY <2>1 DEF GarbageCollect, Fits, Weight, ClientLabels, Label
<1>3. L \in Seq(Label) /\ Len(L) = 7 BY <1>1, <1>2, Explicit
<1>4. Path(t, L, c) BY <1>2, <1>3 DEF Path
<1> QED BY <1>3, <1>4 DEF Balanced

(* RunSecondaryThread enters and leaves the lock once. When the thread     *)
(* cannot be created it returns with the lock taken: more than it owes.    *)
LEMMA BalancedCreation == \A t : Balanced(t, RunSecondaryThread, 0, 0)
<1> SUFFICES ASSUME NEW t PROVE Balanced(t, RunSecondaryThread, 0, 0) OBVIOUS
<1> DEFINE L == RunSecondaryThread
           c == [i \in 1 .. 9 |-> IF i \in 4 .. 7 THEN 1 ELSE 0]
<1>1. L = [i \in 1 .. 8 |-> L[i]] BY DEF RunSecondaryThread
<1>2. ASSUME NEW i \in 1 .. 8
      PROVE  /\ Fits(t, L[i], c[i], c[i + 1])
             /\ L[i] \in Label \ {"load"}
             /\ L[i] = "begin" => i = 4
  <2>1. i \in {1, 2, 3, 4, 5, 6, 7, 8} OBVIOUS
  <2> QED BY <2>1 DEF RunSecondaryThread, Fits, Weight, ClientLabels, Label
<1>3. L \in Seq(Label) /\ Len(L) = 8 BY <1>1, <1>2, Explicit
<1>4. Path(t, L, c) BY <1>2, <1>3 DEF Path
<1> QED BY <1>3, <1>4 DEF Balanced

(* The end of a thread does not touch the lock.                            *)
LEMMA BalancedExit == \A t : Balanced(t, ExitThread, 0, 0)
<1> SUFFICES ASSUME NEW t PROVE Balanced(t, ExitThread, 0, 0) OBVIOUS
<1> DEFINE L == ExitThread
           c == [i \in 1 .. 4 |-> 0]
<1>1. L = [i \in 1 .. 3 |-> L[i]] BY DEF ExitThread
<1>2. ASSUME NEW i \in 1 .. 3
      PROVE  /\ Fits(t, L[i], c[i], c[i + 1])
             /\ L[i] \in Label \ {"begin", "load"}
  <2>1. i \in {1, 2, 3} OBVIOUS
  <2> QED BY <2>1 DEF ExitThread, Fits, Weight, ClientLabels, Label
<1>3. L \in Seq(Label) /\ Len(L) = 3 BY <1>1, <1>2, Explicit
<1>4. Path(t, L, c) BY <1>2, <1>3 DEF Path
<1> QED BY <1>3, <1>4 DEF Balanced

(* AbortLispThread, which client threads call, enters and leaves the lock  *)
(* once.                                                                   *)
LEMMA BalancedAbort == \A t \in Foreigners : Balanced(t, AbortLispThread, 0, 0)
<1> SUFFICES ASSUME NEW t \in Foreigners PROVE Balanced(t, AbortLispThread, 0, 0) OBVIOUS
<1> DEFINE L == AbortLispThread
           c == [i \in 1 .. 8 |-> IF i \in 2 .. 6 THEN 1 ELSE 0]
<1>1. L = [i \in 1 .. 7 |-> L[i]] BY DEF AbortLispThread
<1>2. ASSUME NEW i \in 1 .. 7
      PROVE  /\ Fits(t, L[i], c[i], c[i + 1])
             /\ L[i] \in Label \ {"begin", "load"}
  <2>1. i \in {1, 2, 3, 4, 5, 6, 7} OBVIOUS
  <2> QED BY <2>1 DEF AbortLispThread, Fits, Weight, Label
<1>3. L \in Seq(Label) /\ Len(L) = 7 BY <1>1, <1>2, Explicit
<1>4. Path(t, L, c) BY <1>2, <1>3 DEF Path
<1> QED BY <1>3, <1>4 DEF Balanced

(* BlessThread and UnblessThread, called by client threads, enter and      *)
(* leave the lock once each, and allocate under it.                        *)
LEMMA BalancedBless == \A t \in Foreigners : Balanced(t, BlessThread, 0, 0)
<1> SUFFICES ASSUME NEW t \in Foreigners PROVE Balanced(t, BlessThread, 0, 0) OBVIOUS
<1> DEFINE L == <<"enter", "newQV", "inc", "insert">>
           c == [i \in 1 .. 5 |-> IF i = 1 THEN 0 ELSE 1]
           M == <<"leave", "lisp", "enter", "unbless", "remove", "dec", "leave",
                  "foreign">>
           d == [i \in 1 .. 9 |-> IF i \in {1, 4, 5, 6, 7} THEN 1 ELSE 0]
<1>1. Balanced(t, L, 0, 1)
  <2>1. L = [i \in 1 .. 4 |-> L[i]] OBVIOUS
  <2>2. ASSUME NEW i \in 1 .. 4
        PROVE  /\ Fits(t, L[i], c[i], c[i + 1])
               /\ L[i] \in Label \ {"begin", "load"}
    <3>1. i \in {1, 2, 3, 4} OBVIOUS
    <3> QED BY <3>1 DEF Fits, Weight, Label
  <2>3. L \in Seq(Label) /\ Len(L) = 4 BY <2>1, <2>2, Explicit
  <2>4. Path(t, L, c) BY <2>2, <2>3 DEF Path
  <2> QED BY <2>3, <2>4 DEF Balanced
<1>2. Balanced(t, M, 1, 0)
  <2>1. M = [i \in 1 .. 8 |-> M[i]] OBVIOUS
  <2>2. ASSUME NEW i \in 1 .. 8
        PROVE  /\ Fits(t, M[i], d[i], d[i + 1])
               /\ M[i] \in Label \ {"begin", "load"}
    <3>1. i \in {1, 2, 3, 4, 5, 6, 7, 8} OBVIOUS
    <3> QED BY <3>1 DEF Fits, Weight, Label
  <2>3. M \in Seq(Label) /\ Len(M) = 8 BY <2>1, <2>2, Explicit
  <2>4. Path(t, M, d) BY <2>2, <2>3 DEF Path
  <2> QED BY <2>3, <2>4 DEF Balanced
<1>3. Balanced(t, Allocation, 0 + 1, 0 + 1) BY BalancedAllocation, Shifted
<1>4. Balanced(t, L \o Allocation, 0, 1) BY <1>1, <1>3, Concatenated
<1>5. Balanced(t, (L \o Allocation) \o M, 0, 0) BY <1>2, <1>4, Concatenated
<1> QED BY <1>5 DEF BlessThread

(* writeHeap enters and leaves the lock once, and collects before.         *)
LEMMA BalancedWrite == \A t : Balanced(t, WriteHeap, 0, 0)
<1> SUFFICES ASSUME NEW t PROVE Balanced(t, WriteHeap, 0, 0) OBVIOUS
<1> DEFINE L == <<"enter", "resume", "leave">>
           c == [i \in 1 .. 4 |-> IF i \in 2 .. 3 THEN 1 ELSE 0]
<1>1. Balanced(t, <<"suspend">>, 0, 0)
  BY BalancedQuiet DEF Quiet, Label, ClientLabels
<1>2. Balanced(t, L, 0, 0)
  <2>1. L = [i \in 1 .. 3 |-> L[i]] OBVIOUS
  <2>2. ASSUME NEW i \in 1 .. 3
        PROVE  /\ Fits(t, L[i], c[i], c[i + 1])
               /\ L[i] \in Label \ {"begin", "load"}
    <3>1. i \in {1, 2, 3} OBVIOUS
    <3> QED BY <3>1 DEF Fits, Weight, ClientLabels, Label
  <2>3. L \in Seq(Label) /\ Len(L) = 3 BY <2>1, <2>2, Explicit
  <2>4. Path(t, L, c) BY <2>2, <2>3 DEF Path
  <2> QED BY <2>3, <2>4 DEF Balanced
<1>3. Balanced(t, <<"suspend">> \o GarbageCollect, 0, 0)
  BY <1>1, BalancedCollection, Concatenated
<1>4. Balanced(t, (<<"suspend">> \o GarbageCollect) \o L, 0, 0)
  BY <1>2, <1>3, Concatenated
<1> QED BY <1>4 DEF WriteHeap

(* readHeap enters and leaves the lock once; on a bad image it throws with *)
(* the lock taken.                                                         *)
LEMMA BalancedRead == \A t : Balanced(t, ReadHeap, 0, 0)
<1> SUFFICES ASSUME NEW t PROVE Balanced(t, ReadHeap, 0, 0) OBVIOUS
<1> DEFINE L == <<"enter", "suspend", "load", "resume", "leave", "unlock">>
           c == [i \in 1 .. 7 |-> IF i \in 2 .. 5 THEN 1 ELSE 0]
<1>1. Balanced(t, <<"lock">>, 0, 0)
  BY BalancedQuiet DEF Quiet, Label, ClientLabels
<1>2. Balanced(t, L, 0, 0)
  <2>1. L = [i \in 1 .. 6 |-> L[i]] OBVIOUS
  <2>2. ASSUME NEW i \in 1 .. 6
        PROVE  /\ Fits(t, L[i], c[i], c[i + 1])
               /\ L[i] \in Label \ {"begin"}
               /\ L[i] = "load" => i = 3
    <3>1. i \in {1, 2, 3, 4, 5, 6} OBVIOUS
    <3> QED BY <3>1 DEF Fits, Weight, ClientLabels, Label
  <2>3. L \in Seq(Label) /\ Len(L) = 6 BY <2>1, <2>2, Explicit
  <2>4. Path(t, L, c) BY <2>2, <2>3 DEF Path
  <2> QED BY <2>3, <2>4 DEF Balanced
<1>3. Balanced(t, <<"lock">> \o GarbageCollect, 0, 0)
  BY <1>1, BalancedCollection, Concatenated
<1>4. Balanced(t, (<<"lock">> \o GarbageCollect) \o L, 0, 0)
  BY <1>2, <1>3, Concatenated
<1> QED BY <1>4 DEF ReadHeap

(* Lisp code by itself does not touch the lock.                            *)
LEMMA BalancedLisp == \A t : Balanced(t, <<"lisp">>, 0, 0)
BY BalancedQuiet DEF Quiet, Label, ClientLabels

-----------------------------------------------------------------------------
(* A stack that holds a terminal label only is sound.                      *)
LEMMA SoundSingle ==
    ASSUME NEW t, NEW z \in Terminal(t), NEW l
    PROVE  Sound(t, <<z>>, l)
<1>1. <<>> \o <<z>> = <<z>> OBVIOUS
<1>2. Balanced(t, <<>>, 0, 0) BY BalancedEmpty
<1>3. Owes(t, 0, l) BY DEF Owes
<1> QED BY <1>1, <1>2, <1>3 DEF Sound

(* A balanced body that ends in a terminal label is a sound stack.         *)
LEMMA SoundFront ==
    ASSUME NEW t, NEW L, NEW l, Balanced(t, L, 0, 0), L # <<>>,
           \A i \in 1 .. Len(L) : L[i] \notin {"begin", "load"},
           L[Len(L)] \in Terminal(t)
    PROVE  Sound(t, L, l)
<1>1. Weight(L[Len(L)]) = 0 BY DEF Terminal, Weight
<1>2. PICK M : L = M \o <<L[Len(L)]>> /\ Balanced(t, M, 0, 0)
  BY <1>1, Front
<1>3. Owes(t, 0, l) BY DEF Owes
<1> QED BY <1>2, <1>3 DEF Sound

(* The stack s of thread t is the labels of L and a terminal one; the       *)
(* first label of s is that of L, if it has any.                            *)
Parts(t, s, l, L, z, w) ==
    /\ s = L \o <<z>> /\ z \in Terminal(t) /\ z \in Label
    /\ L \in Seq(Label) /\ w \in Nat
    /\ Balanced(t, L, w, 0) /\ Owes(t, w, l)
    /\ L = <<>> => Head(s) = z /\ Tail(s) = <<>>
    /\ L # <<>> => Head(s) = L[1] /\ Tail(s) = SubSeq(L, 2, Len(L)) \o <<z>>

(* A sound stack can be taken apart.                                       *)
LEMMA Shape ==
    ASSUME NEW t, NEW s, NEW l, Sound(t, s, l)
    PROVE  \E L, z, w : Parts(t, s, l, L, z, w)
<1>1. PICK L, z, w :
        /\ s = L \o <<z>>
        /\ z \in Terminal(t)
        /\ Balanced(t, L, w, 0)
        /\ Owes(t, w, l)
  BY DEF Sound
<1>2. PICK c : Path(t, L, c) /\ c[1] = w /\ c[Len(L) + 1] = 0
  BY <1>1 DEF Balanced
<1>3. L \in Seq(Label) /\ z \in Label BY <1>1 DEF Balanced, Terminal, Label
<1>4. ASSUME L = <<>> PROVE Head(s) = z /\ Tail(s) = <<>>
  <2>1. s = <<z>> BY <1>1, <1>3, <1>4
  <2> QED BY <2>1
<1>5. ASSUME L # <<>>
      PROVE  Head(s) = L[1] /\ Tail(s) = SubSeq(L, 2, Len(L)) \o <<z>>
  <2>1. Tail(L) = SubSeq(L, 2, Len(L)) BY <1>3, <1>5, TailIsSubSeq
  <2>2. Head(s) = L[1] /\ Tail(s) = Tail(L) \o <<z>> BY <1>1, <1>3, <1>5
  <2> QED BY <2>1, <2>2
<1>6. w \in Nat BY <1>2, <1>3, LenProperties DEF Path
<1>7. Parts(t, s, l, L, z, w)
  BY <1>1, <1>3, <1>4, <1>5, <1>6 DEF Parts
<1> QED BY <1>7

(* The first label of a body takes the balance of the body to that of the  *)
(* rest.                                                                   *)
LEMMA Rest ==
    ASSUME NEW t, NEW L, NEW w, Balanced(t, L, w, 0), L # <<>>
    PROVE  \E v \in Nat :
              /\ Balanced(t, SubSeq(L, 2, Len(L)), v, 0)
              /\ Fits(t, L[1], w, v)
<1>1. PICK c : Path(t, L, c) /\ c[1] = w /\ c[Len(L) + 1] = 0
  BY DEF Balanced
<1>2. L \in Seq(Label) /\ Len(L) \in Nat /\ Len(L) >= 1
  BY EmptySeq, LenProperties DEF Balanced
<1>3. c[2] \in Nat /\ Fits(t, L[1], c[1], c[2])
  <2>1. 1 \in 1 .. Len(L) /\ 2 \in 1 .. Len(L) + 1 /\ 1 + 1 = 2 BY <1>2
  <2> QED BY <1>1, <2>1 DEF Path
<1>4. Balanced(t, SubSeq(L, 1 + 1, Len(L)), c[1 + 1], c[Len(L) + 1])
  BY <1>1, <1>2, Skipped
<1> QED BY <1>1, <1>3, <1>4

(* A body that is balanced from zero is balanced from any number.          *)
LEMMA Lifted ==
    ASSUME NEW t, NEW L, NEW v \in Nat, Balanced(t, L, 0, 0)
    PROVE  Balanced(t, L, v, v)
<1>1. Balanced(t, L, 0 + v, 0 + v)
  <2>1. 0 \in Nat OBVIOUS
  <2> QED BY <2>1, Shifted
<1> QED BY <1>1

(* Brackets around a body, a rest and a terminal label can be moved.       *)
LEMMA Associated ==
    ASSUME NEW B \in Seq(Label), NEW L \in Seq(Label), NEW z \in Label
    PROVE  B \o (L \o <<z>>) = (B \o L) \o <<z>>
<1>1. <<z>> \in Seq(Label) OBVIOUS
<1> QED BY <1>1, ConcatAssociative

(* The label on top is replaced by a body of the same weight.              *)
LEMMA Replaced ==
    ASSUME NEW t, NEW s, NEW l, Sound(t, s, l), Head(s) \notin Terminal(t),
           NEW B, Balanced(t, B, Weight(Head(s)), 0), Weight(Head(s)) \in Nat
    PROVE  Sound(t, B \o Tail(s), l)
<1>1. PICK L, z, w : Parts(t, s, l, L, z, w)
  BY Shape
<1>2. L # <<>> BY <1>1 DEF Parts
<1> DEFINE R == SubSeq(L, 2, Len(L))
<1>3. PICK v \in Nat : Balanced(t, R, v, 0) /\ Fits(t, L[1], w, v)
  BY <1>1, <1>2, Rest DEF Parts
<1>4. Balanced(t, B, Weight(Head(s)) + v, 0 + v) BY <1>3, Shifted
<1>5. w = Weight(Head(s)) + v /\ 0 + v = v
  BY <1>1, <1>2, <1>3 DEF Fits, Parts, Weight
<1>6. Balanced(t, B \o R, w, 0) BY <1>3, <1>4, <1>5, Concatenated
<1>7. B \o Tail(s) = (B \o R) \o <<z>>
  BY SMTT(30), <1>1, <1>2, <1>3, Associated DEF Balanced, Parts
<1> QED BY <1>1, <1>6, <1>7 DEF Parts, Sound

(* A call: the body is put before the stack.                                *)
LEMMA Called ==
    ASSUME NEW t, NEW s, NEW l, Sound(t, s, l), NEW B, Balanced(t, B, 0, 0)
    PROVE  Sound(t, B \o s, l)
<1>1. PICK L, z, w : Parts(t, s, l, L, z, w) BY Shape
<1>2. Balanced(t, B, w, w) BY <1>1, Lifted DEF Parts
<1>4. Balanced(t, B \o L, w, 0)
  BY <1>1, <1>2, Concatenated DEF Parts
<1>5. B \o s = (B \o L) \o <<z>> BY <1>1, Associated DEF Balanced, Parts
<1> QED BY <1>1, <1>4, <1>5 DEF Parts, Sound

(* A call from Lisp pops "lisp" and pushes it back after the body.          *)
LEMMA Returning ==
    ASSUME NEW t, NEW s, NEW l, Sound(t, s, l), NEW B, Balanced(t, B, 0, 0)
    PROVE  Sound(t, (B \o <<Head(s)>>) \o Tail(s), l)
<1>1. PICK L, z, w : Parts(t, s, l, L, z, w) BY Shape
<1>2. /\ s \in Seq(Label) /\ s # <<>>
  BY <1>1 DEF Parts
<1>3. Head(s) \in Label /\ Tail(s) \in Seq(Label) /\ s = <<Head(s)>> \o Tail(s)
  BY <1>2
<1>4. <<Head(s)>> \in Seq(Label) /\ B \in Seq(Label) BY <1>3 DEF Balanced
<1>5. (B \o <<Head(s)>>) \o Tail(s) = B \o (<<Head(s)>> \o Tail(s))
  BY <1>3, <1>4, ConcatAssociative
<1> QED BY <1>3, <1>5, Called

(* A client's thread replaces its terminal label.                           *)
LEMMA Restarted ==
    ASSUME NEW t, NEW s, NEW l, Sound(t, s, l), Weight(Head(s)) = 0,
           NEW B, Balanced(t, B, 0, 0), B # <<>>,
           \A i \in 1 .. Len(B) : B[i] \notin {"begin", "load"},
           B[Len(B)] \in Terminal(t)
    PROVE  Sound(t, B \o Tail(s), l)
<1>1. PICK L, z, w : Parts(t, s, l, L, z, w) BY Shape
<1>2. CASE L = <<>>
  <2>1. B \o Tail(s) = B BY <1>1, <1>2 DEF Balanced, Parts
  <2> QED BY <2>1, SoundFront
<1>3. CASE L # <<>>
  <2> DEFINE R == SubSeq(L, 2, Len(L))
  <2>1. PICK v \in Nat : Balanced(t, R, v, 0) /\ Fits(t, L[1], w, v)
    BY <1>1, <1>3, Rest DEF Parts
  <2>2. Balanced(t, B, v, v) BY <2>1, Lifted
  <2>3. w = v BY <1>1, <1>3, <2>1 DEF Fits, Parts
  <2>4. Balanced(t, B \o R, w, 0) BY <2>1, <2>2, <2>3, Concatenated
  <2>5. B \o Tail(s) = (B \o R) \o <<z>>
    <3>1. B \in Seq(Label) /\ R \in Seq(Label) BY <2>1 DEF Balanced
    <3>2. z \in Label /\ Tail(s) = R \o <<z>> BY <1>1, <1>3 DEF Parts
    <3> QED BY ZenonT(40), <3>1, <3>2, Associated
  <2> QED BY <1>1, <2>4, <2>5 DEF Parts, Sound
<1> QED BY <1>2, <1>3

(* BeginThread and LoadImage may jump over the next labels of their bodies. *)
LEMMA Jumped ==
    ASSUME NEW t, NEW s, NEW l, Sound(t, s, l), NEW k \in {4, 5},
           Head(s) = IF k = 5 THEN "begin" ELSE "load", l \in Lock
    PROVE  Sound(t, SubSeq(s, k + 1, Len(s)), l)
<1>1. PICK L, z, w : Parts(t, s, l, L, z, w) BY Shape
<1>2. L # <<>> BY <1>1 DEF Parts, Terminal
<1>3. PICK c : Path(t, L, c) /\ c[1] = w /\ c[Len(L) + 1] = 0
  BY <1>1 DEF Balanced, Parts
<1> DEFINE n == Len(L)
           R == SubSeq(L, k + 1, n)
<1>4. L \in Seq(Label) /\ n \in Nat /\ n >= 1
  BY <1>1, <1>2, EmptySeq, LenProperties DEF Parts
<1>5. c[k + 1] <= w /\ k + 1 <= n + 1 /\ c[k + 1] \in Nat
  <2>1. 1 \in 1 .. n /\ Head(s) = L[1] /\ 1 + 5 = 6 /\ 1 + 4 = 5
    BY <1>1, <1>2, <1>4 DEF Parts
  <2>2. CASE k = 5
    <3>1. c[6] <= c[1] /\ 6 <= n + 1 BY <2>1, <2>2, <1>3 DEF Path
    <3> QED BY <3>1, <2>2, <1>3, <1>4 DEF Path
  <2>3. CASE k = 4
    <3>1. c[5] <= c[1] /\ 5 <= n + 1 BY <2>1, <2>3, <1>3 DEF Path
    <3> QED BY <3>1, <2>3, <1>3, <1>4 DEF Path
  <2> QED BY <2>2, <2>3
<1>6. Balanced(t, R, c[k + 1], 0)
  BY <1>3, <1>4, <1>5, Skipped
<1>7. Owes(t, c[k + 1], l)
  BY <1>1, <1>5 DEF Owes, Parts, Lock
<1>8. SubSeq(s, k + 1, Len(s)) = R \o <<z>>
  <2>1. /\ s \in Seq(Label) /\ Len(s) = n + 1 /\ z \in Label
        /\ \A i \in 1 .. n : s[i] = L[i]
        /\ s[n + 1] = z
    BY <1>1, <1>4 DEF Parts
  <2>2. k + 1 \in 1 .. Len(s) /\ Len(s) \in k + 1 .. Len(s) /\ Len(s) - 1 = n
    BY <2>1, <1>4, <1>5
  <2>3. SubSeq(s, k + 1, Len(s)) = SubSeq(s, k + 1, n) \o <<z>>
    BY <2>1, <2>2, SubSeqRecursiveSecond
  <2>4. SubSeq(s, k + 1, n) = R
    <3>1. CASE k + 1 <= n
      <4>1. k + 1 \in 1 .. n /\ n \in 1 .. n BY <3>1, <1>4
      <4>2. s = L \o <<z>> /\ <<z>> \in Seq(Label) BY <1>1 DEF Parts
      <4> QED BY <4>1, <4>2, <1>4, SubSeqOfConcat1
    <3>2. CASE n < k + 1
      <4>1. k + 1 \in Int /\ n \in Int BY <1>4
      <4> QED BY <3>2, <4>1, SubSeqEmpty
    <3> QED BY <3>1, <3>2, <1>4
  <2> QED BY <2>3, <2>4
<1> QED BY <1>1, <1>6, <1>7, <1>8 DEF Parts, Sound

(* What the label on top says of the lock.                                  *)
LEMMA Owner ==
    ASSUME NEW t, NEW s, NEW l, Sound(t, s, l), l \in Lock,
           Head(s) \in {"take", "bump", "leave", "collect"}
    PROVE  l.owner = t
<1>1. PICK L, z, w : Parts(t, s, l, L, z, w) BY Shape
<1>2. L # <<>> /\ Head(s) = L[1] BY <1>1 DEF Parts, Terminal
<1>3. PICK v \in Nat : Fits(t, L[1], w, v) BY <1>1, <1>2, Rest DEF Parts
<1>4. w >= 1 BY <1>2, <1>3, <1>1 DEF Fits, Weight, Parts
<1> QED BY <1>1, <1>4 DEF Owes, Parts

(* The labels of client code are met by threads of the client only.         *)
LEMMA Client ==
    ASSUME NEW t, NEW s, NEW l, Sound(t, s, l), Head(s) \in ClientLabels
    PROVE  t \in Foreigners
<1>1. PICK L, z, w : Parts(t, s, l, L, z, w) BY Shape
<1>2. CASE L = <<>> BY <1>1, <1>2 DEF Parts, Terminal, ClientLabels
<1>3. CASE L # <<>>
  <2>1. PICK v \in Nat : Fits(t, L[1], w, v) BY <1>1, <1>3, Rest DEF Parts
  <2> QED BY <1>1, <1>3, <2>1 DEF Parts, Fits
<1> QED BY <1>2, <1>3

-----------------------------------------------------------------------------
(* Entering the lock pays for the label on top of the stack.               *)
LEMMA EnterPops ==
    ASSUME NEW t \in Threads, NEW s, NEW l \in Lock, Sound(t, s, l),
           l.owner \in {t, NoThread}, Head(s) \in {"alloc", "enter", "gc"}
    PROVE  Entered(t, l) \in Lock /\ Sound(t, Tail(s), Entered(t, l))
<1>1. PICK L, z, w : Parts(t, s, l, L, z, w) BY Shape
<1>2. L # <<>> /\ Head(s) = L[1] BY <1>1 DEF Parts, Terminal
<1> DEFINE R == SubSeq(L, 2, Len(L))
<1>3. PICK v \in Nat : Balanced(t, R, v, 0) /\ Fits(t, L[1], w, v)
  BY <1>1, <1>2, Rest DEF Parts
<1>4. v = w + 1 /\ w \in Nat BY <1>1, <1>2, <1>3 DEF Fits, Weight, Parts
<1>5. Entered(t, l) \in Lock /\ Owes(t, v, Entered(t, l))
  <2>1. l.count \in Nat /\ l.owner \in Threads \cup {NoThread} BY DEF Lock
  <2>2. w > 0 => l.owner = t /\ l.count >= w BY <1>1 DEF Owes, Parts
  <2> QED BY <2>1, <2>2, <1>4 DEF Entered, Owes, Lock
<1>6. Tail(s) = R \o <<z>> BY <1>1, <1>2 DEF Parts
<1> QED BY <1>1, <1>3, <1>5, <1>6 DEF Parts, Sound

(* Who leaves the lock owns it, and what the stack still owes is held      *)
(* after.                                                                  *)
LEMMA LeavePops ==
    ASSUME NEW t \in Threads, NEW s, NEW l \in Lock, Sound(t, s, l),
           Head(s) = "leave"
    PROVE  Left(t, l) \in Lock /\ Sound(t, Tail(s), Left(t, l)) /\ l.owner = t
<1>1. PICK L, z, w : Parts(t, s, l, L, z, w) BY Shape
<1>2. L # <<>> /\ Head(s) = L[1] BY <1>1 DEF Parts, Terminal
<1> DEFINE R == SubSeq(L, 2, Len(L))
<1>3. PICK v \in Nat : Balanced(t, R, v, 0) /\ Fits(t, L[1], w, v)
  BY <1>1, <1>2, Rest DEF Parts
<1>4. w = v + 1 /\ w \in Nat BY <1>1, <1>2, <1>3 DEF Fits, Weight, Parts
<1>5. /\ l.count \in Nat /\ l.owner = t /\ l.count >= w
  BY <1>1, <1>4 DEF Owes, Parts, Lock
<1>6. Left(t, l) \in Lock /\ Owes(t, v, Left(t, l))
  <2>1. CASE l.count = 1
    BY <2>1, <1>4, <1>5 DEF Left, Unlocked, Owes, Lock
  <2>2. CASE l.count # 1
    <3>1. Left(t, l) = [l EXCEPT !.count = @ - 1] BY <2>2, <1>5 DEF Left
    <3>2. l.count - 1 \in Nat /\ l.count - 1 >= 1 BY <2>2, <1>4, <1>5
    <3>3. /\ Left(t, l) \in [owner : Threads \cup {NoThread}, count : Nat]
          /\ Left(t, l).count = l.count - 1 /\ Left(t, l).owner = t
      BY <3>1, <3>2, <1>5 DEF Lock
    <3> QED BY <3>2, <3>3, <1>4, <1>5 DEF Owes, Lock
  <2> QED BY <2>1, <2>2
<1>7. Tail(s) = R \o <<z>> BY <1>1, <1>2 DEF Parts
<1> QED BY <1>1, <1>3, <1>5, <1>6, <1>7 DEF Parts, Sound

(* Nobody else holds the lock: the stacks of the others owe nothing.        *)
LEMMA Bystander ==
    ASSUME NEW t \in Threads, NEW u \in Threads, u # t, NEW s, NEW l, NEW m,
           l.owner \in {t, NoThread}, Sound(u, s, l)
    PROVE  Sound(u, s, m)
<1>1. PICK L, z, w : Parts(u, s, l, L, z, w) BY Shape
<1>2. w = 0 BY <1>1, ThreadsAssumption DEF Owes, Parts
<1>3. Owes(u, w, m) BY <1>2 DEF Owes
<1> QED BY <1>1, <1>3 DEF Parts, Sound

-----------------------------------------------------------------------------
(* A step leaves GCCriticalSection alone. *)
OtherLocks == DOMAIN locks' = LockNames /\ locks'["GC"] = locks["GC"]

(* Entering another lock leaves GCCriticalSection alone.                   *)
LEMMA EnteringOther ==
    ASSUME SoundInv, NEW t, NEW k \in {"TQ", "CS"}, Enter(t, k)
    PROVE  OtherLocks
BY DEF SoundInv, Enter, OtherLocks, LockNames

(* So does leaving one.                                                    *)
LEMMA LeavingOther ==
    ASSUME SoundInv, NEW t, NEW k \in {"TQ", "CS"}, Leave(t, k)
    PROVE  OtherLocks
BY DEF SoundInv, Leave, OtherLocks, LockNames

(* So does a step that touches no lock.                                    *)
LEMMA SameLocks ==
    ASSUME SoundInv, UNCHANGED locks
    PROVE  OtherLocks
BY DEF SoundInv, OtherLocks

(* One stack changes. *)
LEMMA OneStack ==
    ASSUME SoundInv, OtherLocks, NEW t \in Threads, NEW s,
           stack' = [stack EXCEPT ![t] = s], Sound(t, s, locks["GC"])
    PROVE  SoundInv'
BY DEF SoundInv, OtherLocks

(* At most one other stack is replaced too.                                 *)
LEMMA TwoStacks ==
    ASSUME SoundInv, OtherLocks, NEW t \in Threads, NEW u, NEW s, NEW r,
           stack' = [stack EXCEPT ![u] = r, ![t] = s],
           Sound(t, s, locks["GC"]),
           u \in Threads => Sound(u, r, locks["GC"])
    PROVE  SoundInv'
BY DEF SoundInv, OtherLocks

(* The invariant survives a step that changes no stack.                    *)
LEMMA NoStack ==
    ASSUME SoundInv, OtherLocks, UNCHANGED stack
    PROVE  SoundInv'
BY DEF SoundInv, OtherLocks

(* It survives a step that replaces a label by a body of the same weight.  *)
LEMMA Doing ==
    ASSUME SoundInv, OtherLocks, NEW t \in Threads, NEW B, Do(t, B),
           At(t) \notin Terminal(t), Weight(At(t)) \in Nat,
           Balanced(t, B, Weight(At(t)), 0)
    PROVE  SoundInv'
<1>1. Sound(t, stack[t], locks["GC"]) BY DEF SoundInv
<1>2. Sound(t, B \o Tail(stack[t]), locks["GC"])
  BY <1>1, Replaced DEF At
<1>3. stack' = [stack EXCEPT ![t] = B \o Tail(stack[t])] BY DEF Do, SoundInv
<1> QED BY <1>2, <1>3, OneStack

(* The labels without weight that end no stack. *)
QuietLabels == Label \ ({"alloc", "enter", "gc", "take", "bump", "leave",
                         "lisp", "ended", "none", "foreign"})

(* It survives a step that replaces a label without weight by a balanced   *)
(* body.                                                                   *)
LEMMA DoingQuietly ==
    ASSUME SoundInv, OtherLocks, NEW t \in Threads, NEW B, Do(t, B),
           At(t) \in QuietLabels, Balanced(t, B, 0, 0)
    PROVE  SoundInv'
<1>1. At(t) \notin Terminal(t) /\ Weight(At(t)) = 0
  BY DEF QuietLabels, Terminal, Weight
<1> QED BY <1>1, Doing

(* It survives a step that takes such a label off the stack.               *)
LEMMA Finishing ==
    ASSUME SoundInv, OtherLocks, NEW t \in Threads, Done(t),
           At(t) \in QuietLabels
    PROVE  SoundInv'
BY BalancedEmpty, DoingQuietly DEF Done

(* It survives a step that replaces such a label by another.               *)
LEMMA Labelling ==
    ASSUME SoundInv, OtherLocks, NEW t \in Threads, NEW l \in Quiet,
           Do(t, <<l>>), At(t) \in QuietLabels
    PROVE  SoundInv'
BY BalancedQuiet, DoingQuietly

(* It survives a call from Lisp code of a function whose body is balanced. *)
LEMMA CallingFromLisp ==
    ASSUME SoundInv, UNCHANGED locks, NEW t \in Threads, NEW B,
           Balanced(t, B, 0, 0), At(t) = "lisp", Do(t, B \o <<"lisp">>)
    PROVE  SoundInv'
<1>1. Sound(t, stack[t], locks["GC"]) BY DEF SoundInv
<1>2. Sound(t, (B \o <<"lisp">>) \o Tail(stack[t]), locks["GC"])
  BY <1>1, Returning DEF At
<1>3. stack' = [stack EXCEPT ![t] = (B \o <<"lisp">>) \o Tail(stack[t])]
  BY DEF Do, SoundInv
<1> QED BY <1>2, <1>3, OneStack, SameLocks

(* The functions that Lisp code calls have balanced bodies.                *)
LEMMA BodyBalanced ==
    ASSUME NEW t, NEW op \in {"alloc", "gc", "critical", "save", "load"}
    PROVE  Balanced(t, Body(op), 0, 0)
<1>1. CASE op = "alloc" BY <1>1, BalancedAllocation DEF Body
<1>2. CASE op = "gc" BY <1>2, BalancedCollection DEF Body
<1>3. CASE op = "critical"
  BY <1>3, BalancedPair DEF Body, Quiet, Label, ClientLabels
<1>4. CASE op = "save" BY <1>4, BalancedWrite DEF Body
<1>5. CASE op = "load" BY <1>5, BalancedRead DEF Body
<1> QED BY <1>1, <1>2, <1>3, <1>4, <1>5

(* The invariant survives entering GCCriticalSection.                      *)
LEMMA EnteringGC ==
    ASSUME SoundInv, NEW t \in Threads, Enter(t, "GC"), Done(t),
           At(t) \in {"alloc", "enter", "gc"}
    PROVE  SoundInv'
<1> DEFINE l == locks["GC"]
<1>1. l \in Lock /\ l.owner \in {t, NoThread} /\ Sound(t, stack[t], l)
  BY DEF SoundInv, Enter, CanEnter
<1>2. Entered(t, l) \in Lock /\ Sound(t, Tail(stack[t]), Entered(t, l))
  BY <1>1, EnterPops DEF At
<1>3. \A u \in Threads \ {t} : Sound(u, stack[u], Entered(t, l))
  BY <1>1, Bystander DEF SoundInv
<1>4. locks'["GC"] = Entered(t, l) /\ DOMAIN locks' = LockNames
  BY DEF Enter, SoundInv, LockNames
<1>5. stack' = [stack EXCEPT ![t] = Tail(stack[t])]
  <2>1. Tail(stack[t]) \in Seq(Label)
    BY <1>1, <1>2 DEF Sound, Balanced, Terminal, Label
  <2> QED BY <2>1 DEF Done, Do, SoundInv
<1> QED BY <1>2, <1>3, <1>4, <1>5 DEF SoundInv

(* It survives leaving GCCriticalSection.                                  *)
LEMMA LeavingGC ==
    ASSUME SoundInv, NEW t \in Threads, Leave(t, "GC"), Done(t),
           At(t) = "leave"
    PROVE  SoundInv'
<1> DEFINE l == locks["GC"]
<1>1. l \in Lock /\ Sound(t, stack[t], l)
  BY DEF SoundInv
<1>2. Left(t, l) \in Lock /\ Sound(t, Tail(stack[t]), Left(t, l)) /\ l.owner = t
  BY <1>1, LeavePops DEF At
<1>3. \A u \in Threads \ {t} : Sound(u, stack[u], Left(t, l))
  BY <1>1, <1>2, Bystander DEF SoundInv
<1>4. locks'["GC"] = Left(t, l) /\ DOMAIN locks' = LockNames
  BY DEF Leave, SoundInv, LockNames
<1>5. stack' = [stack EXCEPT ![t] = Tail(stack[t])]
  <2>1. Tail(stack[t]) \in Seq(Label)
    BY <1>1, <1>2 DEF Sound, Balanced, Terminal, Label
  <2> QED BY <2>1 DEF Done, Do, SoundInv
<1> QED BY <1>2, <1>3, <1>4, <1>5 DEF SoundInv

-----------------------------------------------------------------------------
(* The invariant holds in the initial states.                              *)
LEMMA SoundInit == Init => SoundInv
<1> SUFFICES ASSUME Init PROVE SoundInv OBVIOUS
<1>1. DOMAIN stack = Threads /\ DOMAIN locks = LockNames BY DEF Init
<1>2. locks["GC"] \in Lock BY DEF Init, Lock, LockNames, Unlocked
<1>3. ASSUME NEW t \in Threads PROVE Sound(t, stack[t], locks["GC"])
  <2>1. CASE t \in Foreigners
    <3>1. stack[t] = <<"foreign">> BY <2>1 DEF Init
    <3> QED BY <2>1, <3>1, SoundSingle DEF Terminal
  <2>2. CASE t \notin Foreigners
    <3>1. stack[t] = <<"none">> BY <2>2 DEF Init
    <3> QED BY <3>1, SoundSingle DEF Terminal
  <2> QED BY <2>1, <2>2
<1> QED BY <1>1, <1>2, <1>3 DEF SoundInv

(* A label that does not touch the lock is taken off the stack.            *)
LEMMA Popped ==
    ASSUME NEW t, NEW s, NEW l, Sound(t, s, l), Head(s) \in QuietLabels
    PROVE  Sound(t, Tail(s), l)
<1>1. Head(s) \notin Terminal(t) /\ Weight(Head(s)) = 0
  BY DEF QuietLabels, Terminal, Weight
<1>2. PICK L, z, w : Parts(t, s, l, L, z, w) BY Shape
<1>3. L # <<>> BY <1>1, <1>2 DEF Parts
<1>4. Tail(s) \in Seq(Label)
  <2>1. s \in Seq(Label) /\ s # <<>> BY <1>2 DEF Parts
  <2> QED BY <2>1
<1>5. Sound(t, <<>> \o Tail(s), l)
  <2>1. Weight(Head(s)) \in Nat /\ Balanced(t, <<>>, Weight(Head(s)), 0)
    BY <1>1, BalancedEmpty
  <2> QED BY <1>1, <2>1, Replaced
<1> QED BY <1>4, <1>5

(* A body without an early return. *)
Straight(L) == \A i \in 1 .. Len(L) : L[i] \notin {"begin", "load"}

(* BlessThread and UnblessThread have no early return and end in client    *)
(* code.                                                                   *)
LEMMA BlessStraight ==
    BlessThread # <<>> /\ Straight(BlessThread) /\ BlessThread[Len(BlessThread)] = "foreign"
BY DEF BlessThread, Allocation, Straight

(* So does AbortLispThread.                                                *)
LEMMA AbortStraight ==
    /\ AbortLispThread # <<>> /\ Straight(AbortLispThread)
    /\ AbortLispThread[Len(AbortLispThread)] = "foreign"
BY DEF AbortLispThread, Straight

(* A thread that is made to throw EXIT_THREAD_TAG owes nothing.            *)
LEMMA ExitSound == ASSUME NEW t, NEW l PROVE Sound(t, ExitThread, l)
<1>1. /\ ExitThread # <<>> /\ Straight(ExitThread)
      /\ ExitThread[Len(ExitThread)] = "ended"
  BY DEF ExitThread, Straight
<1> QED BY <1>1, BalancedExit, SoundFront DEF Straight, Terminal

(* A thread that starts owes nothing.                                      *)
LEMMA ProcSound == ASSUME NEW t, NEW l PROVE Sound(t, SecondaryThreadProc, l)
<1>1. Balanced(t, <<"find">>, 0, 0)
  BY BalancedQuiet DEF Quiet, Label, ClientLabels
<1>2. Balanced(t, <<"find">> \o Allocation, 0, 0)
  BY <1>1, BalancedAllocation, Concatenated
<1>3. Balanced(t, (<<"find">> \o Allocation) \o <<"lisp">>, 0, 0)
  BY <1>2, BalancedLisp, Concatenated
<1>4. Balanced(t, SecondaryThreadProc, 0, 0)
  BY <1>3, BalancedExit, Concatenated DEF SecondaryThreadProc
<1>5. /\ SecondaryThreadProc # <<>> /\ Straight(SecondaryThreadProc)
      /\ SecondaryThreadProc[Len(SecondaryThreadProc)] = "ended"
  BY DEF SecondaryThreadProc, ExitThread, Allocation, Straight
<1> QED BY <1>4, <1>5, SoundFront DEF Straight, Terminal

-----------------------------------------------------------------------------
(* The steps that a thread chooses.                                         *)
LEMMA ChoiceSound ==
    ASSUME SoundInv, NEW t \in Threads, Choose(t)
    PROVE  SoundInv'
<1>0. Sound(t, stack[t], locks["GC"]) BY DEF SoundInv
<1>1. CASE CallFromLisp(t)
  <2>1. PICK op \in {"alloc", "gc", "critical", "save", "load"} :
          Do(t, Body(op) \o <<"lisp">>)
    BY <1>1 DEF CallFromLisp
  <2>2. At(t) = "lisp" /\ UNCHANGED locks BY <1>1 DEF CallFromLisp, Runs
  <2> QED BY <2>1, <2>2, BodyBalanced, CallingFromLisp
<1>2. CASE CallRunSecondaryThread(t)
  BY <1>2, BalancedCreation, CallingFromLisp DEF CallRunSecondaryThread, Runs
<1>3. CASE CallTerminateLispThread(t)
  <2>1. Balanced(t, TerminateLispThread, 0, 0)
    BY BalancedPair DEF TerminateLispThread, Quiet, Label, ClientLabels
  <2> QED BY <1>3, <2>1, CallingFromLisp DEF CallTerminateLispThread, Runs
<1>4. CASE LeaveLisp(t)
  <2>1. At(t) = "lisp" /\ t # Primary /\ Done(t) /\ UNCHANGED locks
    BY <1>4, ThreadsAssumption DEF LeaveLisp, Runs
  <2>2. At(t) \notin Terminal(t) /\ Weight(At(t)) = 0
    BY <2>1 DEF Terminal, Weight
  <2> QED BY <2>1, <2>2, BalancedEmpty, SameLocks, Doing DEF Done
<1>5. CASE CallFromClient(t)
  <2>1. At(t) = "foreign" /\ UNCHANGED locks
    BY <1>5 DEF CallFromClient, Runs
  <2>2. t \in Foreigners /\ Weight(At(t)) = 0
    BY <1>0, <2>1, Client DEF At, ClientLabels, Weight
  <2>3. PICK B \in {BlessThread, AbortLispThread} : Do(t, B)
    BY <1>5 DEF CallFromClient
  <2>4. /\ Balanced(t, B, 0, 0) /\ B # <<>> /\ Straight(B)
        /\ B[Len(B)] = "foreign"
    BY <2>2, BalancedBless, BalancedAbort, BlessStraight, AbortStraight
  <2>5. Sound(t, B \o Tail(stack[t]), locks["GC"])
    BY <1>0, <2>2, <2>4, Restarted DEF At, Straight, Terminal
  <2> QED BY <2>1, <2>3, <2>5, OneStack, SameLocks DEF Do
<1>6. CASE BeginUnsafe(t)
  BY <1>6, NoStack, SameLocks DEF BeginUnsafe
<1> QED BY <1>1, <1>2, <1>3, <1>4, <1>5, <1>6 DEF Choose

(* The steps of locks, allocation and collection.                           *)
LEMMA LockStepSound ==
    ASSUME SoundInv, ~Bootstrapping, NEW t \in Threads,
           \/ EnterLock(t) \/ LeaveLock(t) \/ TakeBlock(t) \/ Bump(t)
           \/ EnterCollection(t)
    PROVE  SoundInv'
<1>1. CASE EnterLock(t)
  <2>1. PICK l \in DOMAIN EnterLabels :
          At(t) = l /\ Enter(t, EnterLabels[l]) /\ Done(t)
    BY <1>1 DEF EnterLock, Runs
  <2>2. CASE l \in {"alloc", "enter"}
    BY <2>1, <2>2, EnteringGC DEF EnterLabels
  <2>3. CASE l \in {"enterCS", "lock"}
    <3>1. At(t) \in QuietLabels /\ EnterLabels[l] \in {"TQ", "CS"}
      BY <2>1, <2>3 DEF QuietLabels, Label, EnterLabels
    <3> QED BY <2>1, <3>1, EnteringOther, Finishing
  <2> QED BY <2>1, <2>2, <2>3 DEF EnterLabels
<1>2. CASE LeaveLock(t)
  <2>1. PICK l \in DOMAIN LeaveLabels :
          At(t) = l /\ Leave(t, LeaveLabels[l]) /\ Done(t)
    BY <1>2 DEF LeaveLock, Runs
  <2>2. CASE l = "leave"
    BY <2>1, <2>2, LeavingGC DEF LeaveLabels
  <2>3. CASE l \in {"leaveCS", "unlock"}
    <3>1. At(t) \in QuietLabels /\ LeaveLabels[l] \in {"TQ", "CS"}
      BY <2>1, <2>3 DEF QuietLabels, Label, LeaveLabels
    <3> QED BY <2>1, <3>1, LeavingOther, Finishing
  <2> QED BY <2>1, <2>2, <2>3 DEF LeaveLabels
<1>3. CASE TakeBlock(t)
  <2>1. At(t) = "take" /\ UNCHANGED locks BY <1>3 DEF TakeBlock, Runs
  <2>2. At(t) \notin Terminal(t) /\ Weight(At(t)) = 1
    BY <2>1 DEF Terminal, Weight
  <2>3. PICK B \in {<<"leave">>, GarbageCollect \o <<"bump">>} : Do(t, B)
    BY <1>3 DEF TakeBlock
  <2>4. Balanced(t, B, 1, 0)
    <3>1. Balanced(t, <<"leave">>, 1, 0) /\ Balanced(t, <<"bump">>, 1, 0)
      BY BalancedOne
    <3>2. Balanced(t, GarbageCollect, 1, 1) BY BalancedCollection, Lifted
    <3>3. Balanced(t, GarbageCollect \o <<"bump">>, 1, 0)
      BY <3>1, <3>2, Concatenated
    <3> QED BY <3>1, <3>3
  <2> QED BY <2>1, <2>2, <2>3, <2>4, SameLocks, Doing
<1>4. CASE Bump(t)
  <2>1. At(t) = "bump" /\ UNCHANGED locks /\ Do(t, <<"leave">>)
    BY <1>4 DEF Bump, Runs
  <2>2. At(t) \notin Terminal(t) /\ Weight(At(t)) = 1
    BY <2>1 DEF Terminal, Weight
  <2>3. Balanced(t, <<"leave">>, 1, 0) BY BalancedOne
  <2> QED BY <2>1, <2>2, <2>3, SameLocks, Doing
<1>5. CASE EnterCollection(t)
  BY <1>5, EnteringGC DEF EnterCollection, Runs
<1> QED BY <1>1, <1>2, <1>3, <1>4, <1>5

(* The steps that stop and resume the other threads.                        *)
LEMMA StopStepSound ==
    ASSUME SoundInv, NEW t \in Threads,
           \/ BeginSuspend(t) \/ SuspendOther(t) \/ EndSuspend(t)
           \/ EnsureSafeStates(t) \/ CheckSafe(t) \/ WakingDone(t)
           \/ Collect(t) \/ RunHooks(t)
           \/ BeginResume(t) \/ ResumeOther(t) \/ EndResume(t)
           \/ RetrySuspend(t) \/ EndUnsafe(t)
    PROVE  SoundInv'
<1>1. CASE BeginSuspend(t) \/ BeginResume(t)
  <2>1. PICK m \in {"suspending", "resuming"} :
          Do(t, <<m>>) /\ Enter(t, "TQ") /\ At(t) \in {"suspend", "resume"}
    BY <1>1 DEF BeginSuspend, BeginResume, BeginLoop, Runs
  <2>2. At(t) \in QuietLabels /\ m \in Quiet
    BY <2>1 DEF QuietLabels, Quiet, Label, ClientLabels
  <2>3. OtherLocks BY <2>1, EnteringOther
  <2> QED BY <2>1, <2>2, <2>3, Labelling
<1>2. CASE EndSuspend(t) \/ EndResume(t)
  <2>1. Done(t) /\ Leave(t, "TQ") /\ At(t) \in {"suspending", "resuming"}
    BY <1>2 DEF EndSuspend, EndResume, EndLoop, Runs
  <2>2. At(t) \in QuietLabels BY <2>1 DEF QuietLabels, Label
  <2> QED BY <2>1, <2>2, LeavingOther, Finishing
<1>3. CASE SuspendOther(t) \/ ResumeOther(t) \/ RetrySuspend(t) \/ EndUnsafe(t)
  BY <1>3, NoStack, SameLocks
  DEF SuspendOther, ResumeOther, RetrySuspend, EndUnsafe, vars
<1>4. CASE EnsureSafeStates(t)
  <2>1. /\ At(t) \in QuietLabels /\ OtherLocks
        /\ Do(t, <<"safe">>) \/ Done(t)
    BY <1>4, SameLocks DEF EnsureSafeStates, Runs, QuietLabels, Label
  <2>2. "safe" \in Quiet BY DEF Quiet, Label, ClientLabels
  <2> QED BY <2>1, <2>2, Finishing, Labelling
<1>5. CASE CheckSafe(t)
  <2>1. At(t) \in QuietLabels
    BY <1>5 DEF CheckSafe, Runs, QuietLabels, Label
  <2>2. \/ Done(t) /\ UNCHANGED locks
        \/ Do(t, <<"waking", "safe">>) /\ Enter(t, "TQ")
        \/ UNCHANGED <<stack, locks>>
    BY <1>5 DEF CheckSafe
  <2>3. Balanced(t, <<"waking", "safe">>, 0, 0)
    BY BalancedPair DEF Quiet, Label, ClientLabels
  <2>4. OtherLocks BY <2>2, EnteringOther, SameLocks
  <2> QED BY <2>1, <2>2, <2>3, <2>4, Finishing, DoingQuietly, NoStack
<1>6. CASE WakingDone(t)
  <2>1. /\ At(t) \in QuietLabels /\ Leave(t, "TQ")
        /\ Done(t) \/ Do(t, <<"lost">>)
    BY <1>6 DEF WakingDone, Runs, QuietLabels, Label
  <2>2. "lost" \in Quiet BY DEF Quiet, Label, ClientLabels
  <2>3. OtherLocks BY <2>1, LeavingOther
  <2> QED BY <2>1, <2>2, <2>3, Finishing, Labelling
<1>7. CASE Collect(t)
  BY <1>7, SameLocks, Finishing DEF Collect, Runs, QuietLabels, Label
<1>8. CASE RunHooks(t)
  <2>1. At(t) \in QuietLabels /\ OtherLocks
    BY <1>8, SameLocks DEF RunHooks, Runs, QuietLabels, Label
  <2>2. CASE Done(t) BY <2>1, <2>2, Finishing
  <2>3. CASE \E op \in {"alloc", "gc", "critical"} : Do(t, Body(op))
    BY <2>1, <2>3, BodyBalanced, DoingQuietly
  <2> QED BY <1>8, <2>2, <2>3 DEF RunHooks
<1> QED BY <1>1, <1>2, <1>3, <1>4, <1>5, <1>6, <1>7, <1>8

(* The steps that create, bless and remove threads.                         *)
LEMMA ThreadStepSound ==
    ASSUME SoundInv, NEW t \in Threads,
           \/ ReadNum(t) \/ StoreNum(t)
           \/ LockList(t) \/ Insert(t) \/ Remove(t)
           \/ BeginThread(t) \/ ResumeNewThread(t) \/ FindRecord(t)
           \/ AwaitEvent(t) \/ ReadThreadID(t)
           \/ NewQV(t) \/ Unbless(t)
    PROVE  SoundInv'
<1>0. Sound(t, stack[t], locks["GC"]) BY DEF SoundInv
<1>1. CASE ReadNum(t)
  <2>1. PICK m \in {"incStore", "decStore"} : Do(t, <<m>>)
    BY <1>1 DEF ReadNum
  <2>2. /\ At(t) \in QuietLabels /\ m \in Quiet /\ OtherLocks
    BY <1>1, SameLocks DEF ReadNum, Runs, QuietLabels, Quiet, Label, ClientLabels
  <2> QED BY <2>1, <2>2, Labelling
<1>2. CASE LockList(t)
  <2>1. PICK m \in {"inserting", "removing"} : Do(t, <<m>>)
    BY <1>2 DEF LockList
  <2>2. At(t) \in QuietLabels /\ m \in Quiet /\ Enter(t, "TQ")
    BY <1>2 DEF LockList, Runs, QuietLabels, Quiet, Label, ClientLabels
  <2>3. OtherLocks BY <2>2, EnteringOther
  <2> QED BY <2>1, <2>2, <2>3, Labelling
<1>3. CASE Insert(t) \/ Remove(t)
  <2>1. Done(t) /\ At(t) \in QuietLabels /\ Leave(t, "TQ")
    BY <1>3 DEF Insert, Remove, Runs, QuietLabels, Label
  <2> QED BY <2>1, LeavingOther, Finishing
<1>4. CASE \/ StoreNum(t) \/ ResumeNewThread(t) \/ FindRecord(t) \/ AwaitEvent(t)
           \/ ReadThreadID(t) \/ NewQV(t)
  <2>1. Done(t) /\ At(t) \in QuietLabels /\ OtherLocks
    BY <1>4, SameLocks
    DEF StoreNum, ResumeNewThread, FindRecord, AwaitEvent, ReadThreadID, NewQV,
        Runs, QuietLabels, Label
  <2> QED BY <2>1, Finishing
<1>5. CASE Unbless(t)
  <2>1. /\ Done(t) \/ UNCHANGED stack
        /\ At(t) \in QuietLabels /\ OtherLocks
    BY <1>5, SameLocks DEF Unbless, Runs, QuietLabels, Label
  <2> QED BY <2>1, Finishing, NoStack
<1>6. CASE BeginThread(t)
  <2> DEFINE s == loc[t].other
  <2>1. At(t) = "begin" /\ OtherLocks /\ At(t) \in QuietLabels
    BY <1>6, SameLocks DEF BeginThread, Runs, QuietLabels, Label
  <2>2. CASE stack' = [stack EXCEPT ![s] = SecondaryThreadProc,
                                    ![t] = Tail(stack[t])]
    <3>1. Sound(s, SecondaryThreadProc, locks["GC"]) BY ProcSound
    <3>2. Sound(t, Tail(stack[t]), locks["GC"])
      BY <1>0, <2>1, Popped DEF At
    <3> QED BY <2>1, <2>2, <3>1, <3>2, TwoStacks
  <2>3. CASE stack' = [stack EXCEPT ![t] = SubSeq(@, 6, Len(@))]
    <3>1. Sound(t, SubSeq(stack[t], 5 + 1, Len(stack[t])), locks["GC"])
      BY <1>0, <2>1, Jumped DEF At, SoundInv
    <3>2. stack' = [stack EXCEPT ![t] = SubSeq(stack[t], 5 + 1, Len(stack[t]))]
      BY <2>3 DEF SoundInv
    <3> QED BY <2>1, <3>1, <3>2, OneStack
  <2> QED BY <1>6, <2>2, <2>3 DEF BeginThread
<1> QED BY <1>1, <1>2, <1>3, <1>4, <1>5, <1>6

(* The steps that force another thread to throw, and the load of an image.  *)
LEMMA ForcedStepSound ==
    ASSUME SoundInv, NEW t \in Threads,
           \/ FindPrimary(t) \/ SuspendPrimary(t) \/ Redirect(t)
           \/ SuspendTarget(t) \/ ThrowExit(t)
           \/ LoadImage(t)
    PROVE  SoundInv'
<1>0. Sound(t, stack[t], locks["GC"]) BY DEF SoundInv
<1>1. CASE SuspendPrimary(t) \/ SuspendTarget(t)
  <2>1. Done(t) /\ At(t) \in QuietLabels /\ OtherLocks
    BY <1>1, SameLocks
    DEF SuspendPrimary, SuspendTarget, Runs, QuietLabels, Label
  <2> QED BY <2>1, Finishing
<1>2. CASE FindPrimary(t)
  <2>1. At(t) = "primary" /\ At(t) \in QuietLabels /\ OtherLocks
    BY <1>2, SameLocks DEF FindPrimary, Runs, QuietLabels, Label
  <2>2. Sound(t, <<"foreign">>, locks["GC"])
    <3>1. t \in Foreigners BY <1>0, <2>1, Client DEF At, ClientLabels
    <3> QED BY <3>1, SoundSingle DEF Terminal
  <2>3. Done(t) \/ stack' = [stack EXCEPT ![t] = <<"foreign">>]
    BY <1>2 DEF FindPrimary
  <2> QED BY <2>1, <2>2, <2>3, Finishing, OneStack
<1>3. CASE Redirect(t)
  <2>1. At(t) \in QuietLabels
    BY <1>3 DEF Redirect, Runs, QuietLabels, Label
  <2>2. CASE /\ stack' = [stack EXCEPT ![Primary] = <<"lisp">>,
                                       ![t] = Tail(stack[t])]
             /\ Leave(Primary, "CS")
    <3>1. OtherLocks BY <2>2, LeavingOther
    <3>2. Sound(Primary, <<"lisp">>, locks["GC"]) BY SoundSingle DEF Terminal
    <3>3. Sound(t, Tail(stack[t]), locks["GC"])
      BY <1>0, <2>1, Popped DEF At
    <3> QED BY <2>2, <3>1, <3>2, <3>3, TwoStacks
  <2>3. CASE Done(t) /\ UNCHANGED locks
    BY <2>1, <2>3, SameLocks, Finishing
  <2> QED BY <1>3, <2>2, <2>3 DEF Redirect
<1>4. CASE ThrowExit(t)
  <2> DEFINE u == loc[t].other
  <2>1. At(t) \in QuietLabels
    BY <1>4 DEF ThrowExit, Runs, QuietLabels, Label
  <2>2. CASE /\ stack' = [stack EXCEPT ![u] = ExitThread,
                                       ![t] = Tail(stack[t])]
             /\ Leave(u, "CS")
    <3>1. OtherLocks BY <2>2, LeavingOther
    <3>2. Sound(u, ExitThread, locks["GC"]) BY ExitSound
    <3>3. Sound(t, Tail(stack[t]), locks["GC"])
      BY <1>0, <2>1, Popped DEF At
    <3> QED BY <2>2, <3>1, <3>2, <3>3, TwoStacks
  <2>3. CASE Done(t) /\ UNCHANGED locks
    BY <2>1, <2>3, SameLocks, Finishing
  <2> QED BY <1>4, <2>2, <2>3 DEF ThrowExit
<1>5. CASE LoadImage(t)
  <2>1. At(t) = "load" /\ OtherLocks /\ At(t) \in QuietLabels
    BY <1>5, SameLocks DEF LoadImage, Runs, QuietLabels, Label
  <2>2. CASE Done(t) BY <2>1, <2>2, Finishing
  <2>3. CASE stack' = [stack EXCEPT ![t] = SubSeq(@, 5, Len(@))]
    <3>1. Sound(t, SubSeq(stack[t], 4 + 1, Len(stack[t])), locks["GC"])
      BY <1>0, <2>1, Jumped DEF At, SoundInv
    <3>2. stack' = [stack EXCEPT ![t] = SubSeq(stack[t], 4 + 1, Len(stack[t]))]
      BY <2>3 DEF SoundInv
    <3> QED BY <2>1, <3>1, <3>2, OneStack
  <2> QED BY <1>5, <2>2, <2>3 DEF LoadImage
<1> QED BY <1>1, <1>2, <1>3, <1>4, <1>5

(* The invariant is inductive, unless the heap is being bootstrapped.      *)
LEMMA SoundStep ==
    ASSUME ~Bootstrapping, SoundInv, [Next]_vars
    PROVE  SoundInv'
<1>1. CASE RunLispThread
  <2>1. Sound(Primary, <<"lisp">>, locks["GC"]) BY SoundSingle DEF Terminal
  <2> QED BY <1>1, <2>1, SameLocks, OneStack DEF RunLispThread, Threads
<1>2. CASE \E t \in Threads : Choose(t)
  BY <1>2, ChoiceSound
<1>3. CASE \E t \in Threads : Continue(t) \/ RetrySuspend(t) \/ EndUnsafe(t)
  <2>1. PICK t \in Threads : Continue(t) \/ RetrySuspend(t) \/ EndUnsafe(t)
    BY <1>3
  <2> QED
    BY <2>1, LockStepSound, StopStepSound, ThreadStepSound, ForcedStepSound
    DEF Continue
<1>4. CASE UNCHANGED vars
  BY <1>4, SameLocks, NoStack DEF vars
<1> QED BY <1>1, <1>2, <1>3, <1>4 DEF Next

(* Who takes a block or moves objects owns the lock.                       *)
LEMMA TakerOwns ==
    ASSUME SoundInv, NEW t \in Threads, At(t) \in {"take", "bump", "collect"}
    PROVE  locks["GC"].owner = t
BY Owner DEF SoundInv, At

-----------------------------------------------------------------------------
(* Whatever the threads do, and however they are aborted or terminated, a   *)
(* block of the heaps is compared with the end of its heap and taken by the *)
(* owner of GCCriticalSection: the collection that the allocation starts    *)
(* itself, and the hooks it runs, leave the lock as often as they enter it. *)
(* Not while the heap is bootstrapped: garbageCollect then leaves a lock    *)
(* that it did not enter.                                                   *)
THEOREM HeapLockHeld ==
    ASSUME ~Bootstrapping
    PROVE  Spec => []TakesUnderLock
<1>1. SoundInv => TakesUnderLock BY TakerOwns DEF TakesUnderLock
<1>2. SoundInv /\ [Next]_vars => SoundInv' BY SoundStep
<1> QED BY <1>1, <1>2, SoundInit, PTL DEF Spec

(* So no two threads take blocks or move objects at the same time.          *)
THEOREM HeapsExclusive ==
    ASSUME ~Bootstrapping
    PROVE  Spec => []HeapExclusive
<1>1. SoundInv => HeapExclusive BY TakerOwns DEF HeapExclusive
<1>2. SoundInv /\ [Next]_vars => SoundInv' BY SoundStep
<1> QED BY <1>1, <1>2, SoundInit, PTL DEF Spec

-----------------------------------------------------------------------------
(* Stopping the world, for any threads and any nesting of hooks, as long as *)
(* no thread is aborted or terminated and no image is written or loaded:    *)
(* while objects move, every other thread of the list is suspended and      *)
(* outside its atomic units, and the list does not lose a record that a     *)
(* loop has still to visit.                                                 *)
(*                                                                          *)
(* The argument has two layers.  The first is about stacks: ShapeInv says   *)
(* what a thread can have left to do, so that the label on top decides      *)
(* which labels can follow it (Follow). The second only speaks of labels    *)
(* on top: who holds which lock (OwnerInv, ListInv), what a creation still  *)
(* has to find (CreateInv), which threads are suspended (WorldInv), which   *)
(* are safe (SafeInv), how many are counted (CountInv, CoverInv), and whose *)
(* copies of the symbol values are up to date (FreshInv).                   *)

(* Every operation but those that force another thread to throw and those  *)
(* that write or load an image.                                            *)
PlainOps == {"alloc", "gc", "atomic", "critical", "create", "createFails",
             "exit", "bless", "unbless", "hook"}

ForcedLabels == {"primary", "suspendPrimary", "redirect", "suspendOther",
                 "throwExit", "load", "lock", "unlock", "lost"}

(* Labels of Lisp code and of what it calls, creation of threads aside. *)
Work == {"alloc", "take", "bump", "leave", "gc", "suspend", "suspending",
         "ensureSafe", "safe", "waking", "collect", "hooks", "resume",
         "resuming", "enterCS", "leaveCS", "find", "lisp"}

(* The labels that may be left after label l. *)
Below(l) ==
    IF l = "alloc" THEN {"take"}
    ELSE IF l \in {"take", "bump", "leaveCS"} THEN {"lisp", "leave"}
    ELSE IF l = "leave" THEN {"lisp", "leave", "resume"}
    ELSE IF l = "gc" THEN {"suspend"}
    ELSE IF l \in {"suspend", "suspending"} THEN {"ensureSafe"}
    ELSE IF l \in {"ensureSafe", "safe"} THEN {"collect"}
    ELSE IF l = "waking" THEN {"safe"}
    ELSE IF l = "collect" THEN {"hooks"}
    ELSE IF l = "hooks" THEN {"leave"}
    ELSE IF l \in {"resume", "resuming"} THEN {"lisp", "bump", "leave"}
    ELSE IF l = "enterCS" THEN {"leaveCS"}
    ELSE IF l = "find" THEN {"alloc"}
    ELSE {}

(* What is left to do down to Lisp code. *)
Chain(M) ==
    /\ M \in Seq(Work) /\ M # <<>>
    /\ M[Len(M)] = "lisp"
    /\ \A i \in 1 .. Len(M) - 1 : M[i + 1] \in Below(M[i])

(* What a thread does after its Lisp code. *)
Ending(t) ==
    IF t = Primary THEN <<>>
    ELSE IF t \in Secondaries THEN <<"remove", "dec", "ended">>
    ELSE <<"enter", "unbless", "remove", "dec", "leave", "foreign">>
Bottom(t) == <<"lisp">> \o Ending(t)

(* What is left of RunSecondaryThread, and of BlessThread before the thread *)
(* is in the list.                                                         *)
Creations == {
    <<"inc", "insert", "enter", "begin", "resumeNew", "await", "leave", "threadID">>,
    <<"incStore", "insert", "enter", "begin", "resumeNew", "await", "leave", "threadID">>,
    <<"insert", "enter", "begin", "resumeNew", "await", "leave", "threadID">>,
    <<"inserting", "enter", "begin", "resumeNew", "await", "leave", "threadID">>,
    <<"enter", "begin", "resumeNew", "await", "leave", "threadID">>,
    <<"begin", "resumeNew", "await", "leave", "threadID">>,
    <<"resumeNew", "await", "leave", "threadID">>,
    <<"await", "leave", "threadID">>,
    <<"leave", "threadID">>,
    <<"threadID">>}
Blessings == {
    <<"enter", "newQV", "inc", "insert">>, <<"newQV", "inc", "insert">>,
    <<"inc", "insert">>, <<"incStore", "insert">>, <<"insert">>, <<"inserting">>}
Blessed(t) == Allocation \o (<<"leave">> \o Bottom(t))

(* The thread is in Lisp code or in what it calls. *)
Works(t, s) == \E M : Chain(M) /\ s = M \o Ending(t)
Creates(t, s) == \E C \in Creations : s = C \o Bottom(t)
Blesses(t, s) == t \in Foreigners /\ \E C \in Blessings : s = C \o Blessed(t)
Quits(t, s) ==
    \/ t \in Secondaries /\ s \in {<<"remove", "dec", "ended">>,
                                   <<"removing", "dec", "ended">>}
    \/ t \in Foreigners
       /\ s \in {<<"enter", "unbless", "remove", "dec", "leave", "foreign">>,
                 <<"unbless", "remove", "dec", "leave", "foreign">>}
Gone(t, s) ==
    t \in Secondaries /\ s \in {<<"dec", "ended">>, <<"decStore", "ended">>, <<"ended">>}
Waits(t, s) == s = IF t \in Foreigners THEN <<"foreign">> ELSE <<"none">>

(* The stacks of threads in the list, and of others. *)
Inside(t, s) ==
    \/ Works(t, s) \/ Creates(t, s) \/ Quits(t, s)
    \/ t \in Secondaries /\ Waits(t, s)
Outside(t, s) == Blesses(t, s) \/ Gone(t, s) \/ Waits(t, s)

-----------------------------------------------------------------------------
(* Chains.                                                                 *)

(* What is left of a chain once its first label is gone.                   *)
LEMMA ChainPop ==
    ASSUME NEW M, Chain(M), M[1] # "lisp"
    PROVE  Chain(Tail(M)) /\ Tail(M)[1] \in Below(M[1])
<1>1. M \in Seq(Work) /\ M # <<>> /\ Len(M) \in Nat /\ Len(M) >= 1
  BY EmptySeq DEF Chain
<1>2. Len(M) # 1
  BY DEF Chain
<1>3. /\ Tail(M) \in Seq(Work) /\ Len(Tail(M)) = Len(M) - 1
      /\ \A i \in 1 .. Len(M) - 1 : Tail(M)[i] = M[i + 1]
  BY <1>1, HeadTailProperties
<1>4. Tail(M) # <<>> /\ Tail(M)[Len(Tail(M))] = "lisp"
  <2> DEFINE n == Len(M)
  <2>0. n \in Nat /\ n >= 1 /\ n # 1
    BY <1>1, <1>2
  <2>1. Len(M) - 1 \in 1 .. Len(M) - 1 /\ (Len(M) - 1) + 1 = Len(M)
    <3> HIDE DEF n
    <3>1. n - 1 \in 1 .. n - 1 /\ (n - 1) + 1 = n
      BY <2>0
    <3> QED BY <3>1 DEF n
  <2>2. Tail(M)[Len(M) - 1] = M[Len(M)]
    BY <1>3, <2>1
  <2>3. Tail(M)[Len(Tail(M))] = "lisp"
    BY <1>3, <2>2 DEF Chain
  <2>4. Len(Tail(M)) # 0
    BY <1>3, <2>1
  <2>5. Tail(M) # <<>>
    BY <2>4, <1>3, EmptySeq
  <2> QED BY <2>3, <2>5
<1>5. ASSUME NEW i \in 1 .. Len(Tail(M)) - 1
      PROVE  Tail(M)[i + 1] \in Below(Tail(M)[i])
  <2>1. Tail(M)[i + 1] = M[(i + 1) + 1] /\ Tail(M)[i] = M[i + 1] /\ i + 1 \in 1 .. Len(M) - 1
    BY <1>1, <1>2, <1>3
  <2> QED BY <2>1 DEF Chain
<1>6. Tail(M)[1] \in Below(M[1])
  <2>1. 1 \in 1 .. Len(M) - 1 /\ Tail(M)[1] = M[1 + 1]
    BY <1>1, <1>2, <1>3
  <2> QED BY <2>1 DEF Chain
<1> QED BY <1>3, <1>4, <1>5, <1>6 DEF Chain

(* Labels that may follow each other.                                      *)
Linked(B) ==
    /\ B \in Seq(Work) /\ B # <<>>
    /\ \A i \in 1 .. Len(B) - 1 : B[i + 1] \in Below(B[i])

(* They can be put before a chain.                                         *)
LEMMA ChainPush ==
    ASSUME NEW M, Chain(M), NEW B, Linked(B), M[1] \in Below(B[Len(B)])
    PROVE  Chain(B \o M) /\ (B \o M)[1] = B[1]
<1> DEFINE n == Len(B)
           m == Len(M)
           r == B \o M
<1>1. /\ B \in Seq(Work) /\ M \in Seq(Work) /\ n \in Nat /\ m \in Nat /\ n >= 1 /\ m >= 1
  BY EmptySeq DEF Chain, Linked
<1>2. /\ r \in Seq(Work) /\ Len(r) = n + m
      /\ \A i \in 1 .. n : r[i] = B[i]
      /\ \A i \in 1 .. m : r[n + i] = M[i]
  BY <1>1, ConcatProperties
<1>3. r # <<>> /\ r[Len(r)] = "lisp" /\ r[1] = B[1]
  BY <1>1, <1>2 DEF Chain
<1> HIDE DEF r
<1>4. ASSUME NEW i \in 1 .. Len(r) - 1
      PROVE  r[i + 1] \in Below(r[i])
  <2>1. CASE i < n
    <3>1. r[i] = B[i] /\ r[i + 1] = B[i + 1] /\ i \in 1 .. n - 1
      BY <2>1, <1>1, <1>2
    <3> QED BY <3>1 DEF Linked
  <2>2. CASE i = n
    <3>1. r[i] = B[n] /\ r[i + 1] = M[1]
      BY <2>2, <1>1, <1>2
    <3> QED BY <3>1
  <2>3. CASE i > n
    <3> DEFINE j == i - n
    <3>1. j \in 1 .. m - 1 /\ i = n + j /\ i + 1 = n + (j + 1) /\ j + 1 \in 1 .. m
      BY <2>3, <1>1, <1>2
    <3> HIDE DEF j
    <3>2. r[i] = M[j] /\ r[i + 1] = M[j + 1]
      <4>1. j \in 1 .. m
        BY <3>1, <1>1
      <4> QED BY <3>1, <4>1, <1>2
    <3> QED BY <3>1, <3>2 DEF Chain
  <2> QED BY <2>1, <2>2, <2>3, <1>1, <1>2
<1>5. Chain(r)
  BY <1>2, <1>3, <1>4 DEF Chain
<1> QED BY <1>3, <1>5 DEF r

(* Lisp code ends a chain.                                                 *)
LEMMA ChainEnd ==
    ASSUME NEW M, Chain(M), M[1] = "lisp"
    PROVE  M = <<"lisp">>
<1>1. M \in Seq(Work) /\ M # <<>> /\ Len(M) \in Nat /\ Len(M) >= 1
  BY EmptySeq DEF Chain
<1>2. Len(M) = 1
  <2>1. SUFFICES ASSUME Len(M) # 1
                 PROVE  FALSE
    OBVIOUS
  <2> DEFINE n == Len(M)
  <2>2. 1 \in 1 .. n - 1
    <3>1. n \in Nat /\ n >= 1 /\ n # 1
      BY <1>1, <2>1
    <3> HIDE DEF n
    <3> QED BY <3>1
  <2>3. M[1 + 1] \in Below(M[1])
    BY <2>2 DEF Chain
  <2> QED BY <2>3 DEF Below
<1> QED BY <1>1, <1>2

(* Lisp code by itself is one.                                             *)
LEMMA ChainLisp == Chain(<<"lisp">>)
BY DEF Chain, Work

-----------------------------------------------------------------------------
(* Stacks.                                                                 *)

(* What a thread does after its Lisp code is a sequence of labels.          *)
LEMMA EndingIs == \A t : Ending(t) \in Seq(Label) /\ Bottom(t) \in Seq(Label)
<1> SUFFICES ASSUME NEW t PROVE Ending(t) \in Seq(Label) /\ Bottom(t) \in Seq(Label)
  OBVIOUS
<1>1. Ending(t) \in Seq(Label)
  <2>1. /\ <<"remove", "dec", "ended">> \in Seq(Label)
        /\ <<"enter", "unbless", "remove", "dec", "leave", "foreign">> \in Seq(Label)
        /\ <<>> \in Seq(Label)
    BY DEF Label
  <2> QED BY <2>1 DEF Ending
<1>2. <<"lisp">> \in Seq(Label)
  BY DEF Label
<1> QED BY <1>1, <1>2, ConcatProperties DEF Bottom

(* The first label of a sequence is that of its first part, and what       *)
(* follows is the rest of that part and the other.                         *)
LEMMA HeadOfConcat ==
    ASSUME NEW C \in Seq(Label), C # <<>>, NEW X \in Seq(Label)
    PROVE  /\ C \o X \in Seq(Label) /\ C \o X # <<>>
           /\ Head(C \o X) = C[1]
           /\ Tail(C \o X) = Tail(C) \o X
           /\ Tail(C) \in Seq(Label)
<1>1. Tail(C) \in Seq(Label)
  BY HeadTailProperties
<1>2. C \o X \in Seq(Label)
  BY ConcatProperties
<1>3. C \o X # <<>>
  BY ConcatEqualIffEmpty
<1>4. Head(C \o X) = C[1]
  OBVIOUS
<1>5. Tail(C \o X) = Tail(C) \o X
  OBVIOUS
<1> QED BY <1>1, <1>2, <1>3, <1>4, <1>5

(* A chain is a sequence of labels.                                        *)
LEMMA ChainIs ==
    ASSUME NEW M, Chain(M)
    PROVE  M \in Seq(Label) /\ M # <<>> /\ M[1] \in Work
<1>1. M \in Seq(Work) /\ M # <<>> /\ Work \subseteq Label
  BY DEF Chain, Work, Label
<1>2. Len(M) \in Nat \ {0}
  BY <1>1, EmptySeq
<1>3. 1 \in 1 .. Len(M)
  BY <1>2
<1> QED BY <1>1, <1>3, SeqMonotonic, ElementOfSeq

(* The label on top of a thread that works is one of Work.                 *)
LEMMA WorksHead ==
    ASSUME NEW t, NEW s, Works(t, s)
    PROVE  Head(s) \in Work /\ s \in Seq(Label) /\ s # <<>>
<1>1. PICK M : Chain(M) /\ s = M \o Ending(t)
  BY DEF Works
<1> QED BY <1>1, ChainIs, EndingIs, HeadOfConcat

(* What is left when it is done.                                           *)
LEMMA WorksPop ==
    ASSUME NEW t, NEW s, Works(t, s), Head(s) # "lisp"
    PROVE  Works(t, Tail(s)) /\ Head(Tail(s)) \in Below(Head(s))
<1>1. PICK M : Chain(M) /\ s = M \o Ending(t)
  BY DEF Works
<1>2. Head(s) = M[1] /\ Tail(s) = Tail(M) \o Ending(t)
  BY <1>1, ChainIs, EndingIs, HeadOfConcat
<1>3. Chain(Tail(M)) /\ Tail(M)[1] \in Below(M[1])
  BY <1>1, <1>2, ChainPop
<1>4. Head(Tail(M) \o Ending(t)) = Tail(M)[1]
  BY <1>3, ChainIs, EndingIs, HeadOfConcat
<1> QED BY <1>2, <1>3, <1>4 DEF Works

(* Brackets can be moved.                                                  *)
LEMMA Bracketed ==
    \A A, B, C \in Seq(Label) : A \o (B \o C) = (A \o B) \o C
BY ConcatAssociative

(* What it calls is put on top of what is left.                            *)
LEMMA WorksPush ==
    ASSUME NEW t, NEW s, Works(t, s), NEW B, Linked(B), Head(s) \in Below(B[Len(B)])
    PROVE  Works(t, B \o s) /\ Head(B \o s) = B[1]
<1>1. PICK M : Chain(M) /\ s = M \o Ending(t)
  BY DEF Works
<1>2. Head(s) = M[1] /\ M \in Seq(Label) /\ Ending(t) \in Seq(Label)
  BY <1>1, ChainIs, EndingIs, HeadOfConcat
<1>3. Chain(B \o M) /\ (B \o M)[1] = B[1]
  BY <1>1, <1>2, ChainPush
<1>4. B \in Seq(Label)
  <2>1. Work \subseteq Label
    BY DEF Work, Label
  <2>2. B \in Seq(Work)
    BY DEF Linked
  <2> HIDE DEF Work
  <2> QED BY <2>1, <2>2, SeqMonotonic
<1>5. B \o s = (B \o M) \o Ending(t)
  <2> DEFINE X == Ending(t)
  <2>1. X \in Seq(Label) /\ s = M \o X
    BY <1>1, <1>2
  <2> HIDE DEF X
  <2>2. B \o (M \o X) = (B \o M) \o X
    BY ZenonT(60), <1>2, <1>4, <2>1, Bracketed
  <2> QED BY <2>1, <2>2 DEF X
<1>6. Head((B \o M) \o Ending(t)) = (B \o M)[1]
  BY <1>3, ChainIs, EndingIs, HeadOfConcat
<1> QED BY <1>3, <1>5, <1>6 DEF Works

(* Lisp code is the last of its work.                                      *)
LEMMA WorksBottom ==
    ASSUME NEW t
    PROVE  /\ Works(t, Bottom(t)) /\ Head(Bottom(t)) = "lisp" /\ Tail(Bottom(t)) = Ending(t)
           /\ \A s : Works(t, s) /\ Head(s) = "lisp" => s = Bottom(t)
<1>1. Works(t, Bottom(t))
  BY ChainLisp DEF Works, Bottom
<1>2. Head(Bottom(t)) = "lisp" /\ Tail(Bottom(t)) = Ending(t)
  <2> DEFINE X == Ending(t)
  <2>1. X \in Seq(Label)
    BY EndingIs
  <2> HIDE DEF X
  <2>2. Head(<<"lisp">> \o X) = "lisp" /\ Tail(<<"lisp">> \o X) = X
    BY <2>1
  <2> QED BY <2>2 DEF Bottom, X
<1>3. ASSUME NEW s, Works(t, s), Head(s) = "lisp"
      PROVE  s = Bottom(t)
  <2>1. PICK M : Chain(M) /\ s = M \o Ending(t)
    BY <1>3 DEF Works
  <2>2. M[1] = "lisp"
    BY <1>3, <2>1, ChainIs, EndingIs, HeadOfConcat
  <2> QED BY <2>1, <2>2, ChainEnd DEF Bottom
<1> QED BY <1>1, <1>2, <1>3

(* A label put before others. *)
LEMMA PutBefore6 ==
    ASSUME NEW a, NEW b, NEW c, NEW d, NEW e, NEW f, NEW g
    PROVE  <<a>> \o <<b, c, d, e, f, g>> = <<a, b, c, d, e, f, g>>
<1> DEFINE S == {a, b, c, d, e, f, g}
           L == <<a>> \o <<b, c, d, e, f, g>>
<1>1. <<a>> \in Seq(S) /\ <<b, c, d, e, f, g>> \in Seq(S) /\ <<a, b, c, d, e, f, g>> \in Seq(S)
  OBVIOUS
<1>2. /\ L \in Seq(S) /\ Len(L) = 7 /\ Len(<<a, b, c, d, e, f, g>>) = 7
      /\ \A i \in 1 .. 7 : L[i] = IF i <= 1 THEN <<a>>[i] ELSE <<b, c, d, e, f, g>>[i - 1]
  BY <1>1, ConcatProperties
<1>3. \A i \in 1 .. 7 : L[i] = <<a, b, c, d, e, f, g>>[i]
  BY <1>2
<1> QED BY <1>1, <1>2, <1>3, SeqEqual

(* The same, before none. *)
LEMMA PutBefore0 == \A a : <<a>> \o <<>> = <<a>>
OBVIOUS

(* The same, before seven others. *)
LEMMA PutBefore7 ==
    ASSUME NEW a, NEW b, NEW c, NEW d, NEW e, NEW f, NEW g, NEW h
    PROVE  <<a>> \o <<b, c, d, e, f, g, h>> = <<a, b, c, d, e, f, g, h>>
<1> DEFINE S == {a, b, c, d, e, f, g, h}
           L == <<a>> \o <<b, c, d, e, f, g, h>>
<1>1. <<a>> \in Seq(S) /\ <<b, c, d, e, f, g, h>> \in Seq(S) /\ <<a, b, c, d, e, f, g, h>> \in Seq(S)
  OBVIOUS
<1>2. /\ L \in Seq(S) /\ Len(L) = 8 /\ Len(<<a, b, c, d, e, f, g, h>>) = 8
      /\ \A i \in 1 .. 8 : L[i] = IF i <= 1 THEN <<a>>[i] ELSE <<b, c, d, e, f, g, h>>[i - 1]
  BY <1>1, ConcatProperties
<1>3. \A i \in 1 .. 8 : L[i] = <<a, b, c, d, e, f, g, h>>[i]
  BY <1>2
<1> QED BY <1>1, <1>2, <1>3, SeqEqual

(* The same, before one. *)
LEMMA PutBefore1 ==
    ASSUME NEW a, NEW b
    PROVE  <<a>> \o <<b>> = <<a, b>>
<1> DEFINE S == {a, b}
           L == <<a>> \o <<b>>
<1>1. <<a>> \in Seq(S) /\ <<b>> \in Seq(S) /\ <<a, b>> \in Seq(S)
  OBVIOUS
<1>2. /\ L \in Seq(S) /\ Len(L) = 2 /\ Len(<<a, b>>) = 2
      /\ \A i \in 1 .. 2 : L[i] = IF i <= 1 THEN <<a>>[i] ELSE <<b>>[i - 1]
  BY <1>1, ConcatProperties
<1>3. \A i \in 1 .. 2 : L[i] = <<a, b>>[i]
  BY <1>2
<1> QED BY <1>1, <1>2, <1>3, SeqEqual

(* What is left of a tuple without its first element.                       *)
LEMMA Tuple1 ==
    \A a : /\ Tail(<<a>>) = <<>>
          /\ <<a>>[1] = a /\ <<a>> # <<>> /\ Len(<<a>>) = 1
OBVIOUS

(* The same for 2 elements.                                                *)
LEMMA Tuple2 ==
    \A a, b : /\ Tail(<<a, b>>) = <<b>>
             /\ <<a, b>>[1] = a /\ <<a, b>> # <<>> /\ Len(<<a, b>>) = 2
OBVIOUS

(* The same for 3 elements.                                                *)
LEMMA Tuple3 ==
    \A a, b, c : /\ Tail(<<a, b, c>>) = <<b, c>>
                /\ <<a, b, c>>[1] = a /\ <<a, b, c>> # <<>> /\ Len(<<a, b, c>>) = 3
OBVIOUS

(* The same for 4 elements.                                                *)
LEMMA Tuple4 ==
    \A a, b, c, d : /\ Tail(<<a, b, c, d>>) = <<b, c, d>>
                   /\ <<a, b, c, d>>[1] = a /\ <<a, b, c, d>> # <<>> /\ Len(<<a, b, c, d>>) = 4
OBVIOUS

(* The same for 5 elements.                                                *)
LEMMA Tuple5 ==
    \A a, b, c, d, e : /\ Tail(<<a, b, c, d, e>>) = <<b, c, d, e>>
                      /\ <<a, b, c, d, e>>[1] = a /\ <<a, b, c, d, e>> # <<>> /\ Len(<<a, b, c, d, e>>) = 5
OBVIOUS

(* The same for 6 elements.                                                *)
LEMMA Tuple6 ==
    \A a, b, c, d, e, f : /\ Tail(<<a, b, c, d, e, f>>) = <<b, c, d, e, f>>
                         /\ <<a, b, c, d, e, f>>[1] = a /\ <<a, b, c, d, e, f>> # <<>> /\ Len(<<a, b, c, d, e, f>>) = 6
OBVIOUS

(* The same for 7 elements.                                                *)
LEMMA Tuple7 ==
    \A a, b, c, d, e, f, g : /\ Tail(<<a, b, c, d, e, f, g>>) = <<b, c, d, e, f, g>>
                            /\ <<a, b, c, d, e, f, g>>[1] = a /\ <<a, b, c, d, e, f, g>> # <<>> /\ Len(<<a, b, c, d, e, f, g>>) = 7
OBVIOUS

(* The same for 8 elements.                                                *)
LEMMA Tuple8 ==
    \A a, b, c, d, e, f, g, h : /\ Tail(<<a, b, c, d, e, f, g, h>>) = <<b, c, d, e, f, g, h>>
                               /\ <<a, b, c, d, e, f, g, h>>[1] = a /\ <<a, b, c, d, e, f, g, h>> # <<>> /\ Len(<<a, b, c, d, e, f, g, h>>) = 8
OBVIOUS

(* The same, before two. *)
LEMMA PutBefore2 ==
    ASSUME NEW a, NEW b, NEW c
    PROVE  <<a>> \o <<b, c>> = <<a, b, c>>
<1> DEFINE S == {a, b, c}
           L == <<a>> \o <<b, c>>
<1>1. <<a>> \in Seq(S) /\ <<b, c>> \in Seq(S) /\ <<a, b, c>> \in Seq(S)
  OBVIOUS
<1>2. /\ L \in Seq(S) /\ Len(L) = 3 /\ Len(<<a, b, c>>) = 3
      /\ \A i \in 1 .. 3 : L[i] = IF i <= 1 THEN <<a>>[i] ELSE <<b, c>>[i - 1]
  BY <1>1, ConcatProperties
<1>3. \A i \in 1 .. 3 : L[i] = <<a, b, c>>[i]
  BY <1>2
<1> QED BY <1>1, <1>2, <1>3, SeqEqual

(* How a creation goes on. *)
LEMMA CreationIs ==
    ASSUME NEW C \in Creations
    PROVE  /\ C \in Seq(Label) /\ C # <<>>
           /\ C[1] \in {"inc", "incStore", "insert", "inserting", "enter", "begin",
                        "resumeNew", "await", "leave", "threadID"}
           /\ C[1] = "inc" => <<"incStore">> \o Tail(C) \in Creations
           /\ C[1] = "incStore" => Tail(C) \in Creations /\ Tail(C)[1] = "insert"
           /\ C[1] = "insert" => <<"inserting">> \o Tail(C) \in Creations
           /\ C[1] = "inserting" => Tail(C) \in Creations /\ Tail(C)[1] = "enter"
           /\ C[1] = "enter" => Tail(C) \in Creations /\ Tail(C)[1] = "begin"
           /\ C[1] = "begin" => Tail(C) \in Creations /\ Tail(C)[1] = "resumeNew" /\ Len(C) = 5
           /\ C[1] = "resumeNew" => Tail(C) \in Creations /\ Tail(C)[1] = "await"
           /\ C[1] = "await" => Tail(C) \in Creations /\ Tail(C)[1] = "leave"
           /\ C[1] = "leave" => Tail(C) \in Creations /\ Tail(C)[1] = "threadID"
           /\ C[1] = "threadID" => Tail(C) = <<>>
<1>1. CASE C = <<"inc", "insert", "enter", "begin", "resumeNew", "await", "leave", "threadID">>
  <2>1. <<"inc", "insert", "enter", "begin", "resumeNew", "await", "leave", "threadID">> \in Seq(Label)
    BY DEF Label
  <2>2. Tail(C) = <<"insert", "enter", "begin", "resumeNew", "await", "leave", "threadID">> /\ C # <<>> /\ C[1] = "inc" /\ Len(C) = 8
    BY <1>1, Tuple8
  <2>3. <<"insert", "enter", "begin", "resumeNew", "await", "leave", "threadID">>[1] = "insert"
    BY Tuple7
  <2>4. <<"incStore">> \o <<"insert", "enter", "begin", "resumeNew", "await", "leave", "threadID">> = <<"incStore", "insert", "enter", "begin", "resumeNew", "await", "leave", "threadID">>
    BY PutBefore7
  <2> QED BY <1>1, <2>1, <2>2, <2>3, <2>4 DEF Creations
<1>2. CASE C = <<"incStore", "insert", "enter", "begin", "resumeNew", "await", "leave", "threadID">>
  <2>1. <<"incStore", "insert", "enter", "begin", "resumeNew", "await", "leave", "threadID">> \in Seq(Label)
    BY DEF Label
  <2>2. Tail(C) = <<"insert", "enter", "begin", "resumeNew", "await", "leave", "threadID">> /\ C # <<>> /\ C[1] = "incStore" /\ Len(C) = 8
    BY <1>2, Tuple8
  <2>3. <<"insert", "enter", "begin", "resumeNew", "await", "leave", "threadID">>[1] = "insert"
    BY Tuple7
  <2> QED BY <1>2, <2>1, <2>2, <2>3 DEF Creations
<1>3. CASE C = <<"insert", "enter", "begin", "resumeNew", "await", "leave", "threadID">>
  <2>1. <<"insert", "enter", "begin", "resumeNew", "await", "leave", "threadID">> \in Seq(Label)
    BY DEF Label
  <2>2. Tail(C) = <<"enter", "begin", "resumeNew", "await", "leave", "threadID">> /\ C # <<>> /\ C[1] = "insert" /\ Len(C) = 7
    BY <1>3, Tuple7
  <2>3. <<"enter", "begin", "resumeNew", "await", "leave", "threadID">>[1] = "enter"
    BY Tuple6
  <2>4. <<"inserting">> \o <<"enter", "begin", "resumeNew", "await", "leave", "threadID">> = <<"inserting", "enter", "begin", "resumeNew", "await", "leave", "threadID">>
    BY PutBefore6
  <2> QED BY <1>3, <2>1, <2>2, <2>3, <2>4 DEF Creations
<1>4. CASE C = <<"inserting", "enter", "begin", "resumeNew", "await", "leave", "threadID">>
  <2>1. <<"inserting", "enter", "begin", "resumeNew", "await", "leave", "threadID">> \in Seq(Label)
    BY DEF Label
  <2>2. Tail(C) = <<"enter", "begin", "resumeNew", "await", "leave", "threadID">> /\ C # <<>> /\ C[1] = "inserting" /\ Len(C) = 7
    BY <1>4, Tuple7
  <2>3. <<"enter", "begin", "resumeNew", "await", "leave", "threadID">>[1] = "enter"
    BY Tuple6
  <2> QED BY <1>4, <2>1, <2>2, <2>3 DEF Creations
<1>5. CASE C = <<"enter", "begin", "resumeNew", "await", "leave", "threadID">>
  <2>1. <<"enter", "begin", "resumeNew", "await", "leave", "threadID">> \in Seq(Label)
    BY DEF Label
  <2>2. Tail(C) = <<"begin", "resumeNew", "await", "leave", "threadID">> /\ C # <<>> /\ C[1] = "enter" /\ Len(C) = 6
    BY <1>5, Tuple6
  <2>3. <<"begin", "resumeNew", "await", "leave", "threadID">>[1] = "begin"
    BY Tuple5
  <2> QED BY <1>5, <2>1, <2>2, <2>3 DEF Creations
<1>6. CASE C = <<"begin", "resumeNew", "await", "leave", "threadID">>
  <2>1. <<"begin", "resumeNew", "await", "leave", "threadID">> \in Seq(Label)
    BY DEF Label
  <2>2. Tail(C) = <<"resumeNew", "await", "leave", "threadID">> /\ C # <<>> /\ C[1] = "begin" /\ Len(C) = 5
    BY <1>6, Tuple5
  <2>3. <<"resumeNew", "await", "leave", "threadID">>[1] = "resumeNew"
    BY Tuple4
  <2> QED BY <1>6, <2>1, <2>2, <2>3 DEF Creations
<1>7. CASE C = <<"resumeNew", "await", "leave", "threadID">>
  <2>1. <<"resumeNew", "await", "leave", "threadID">> \in Seq(Label)
    BY DEF Label
  <2>2. Tail(C) = <<"await", "leave", "threadID">> /\ C # <<>> /\ C[1] = "resumeNew" /\ Len(C) = 4
    BY <1>7, Tuple4
  <2>3. <<"await", "leave", "threadID">>[1] = "await"
    BY Tuple3
  <2> QED BY <1>7, <2>1, <2>2, <2>3 DEF Creations
<1>8. CASE C = <<"await", "leave", "threadID">>
  <2>1. <<"await", "leave", "threadID">> \in Seq(Label)
    BY DEF Label
  <2>2. Tail(C) = <<"leave", "threadID">> /\ C # <<>> /\ C[1] = "await" /\ Len(C) = 3
    BY <1>8, Tuple3
  <2>3. <<"leave", "threadID">>[1] = "leave"
    BY Tuple2
  <2> QED BY <1>8, <2>1, <2>2, <2>3 DEF Creations
<1>9. CASE C = <<"leave", "threadID">>
  <2>1. <<"leave", "threadID">> \in Seq(Label)
    BY DEF Label
  <2>2. Tail(C) = <<"threadID">> /\ C # <<>> /\ C[1] = "leave" /\ Len(C) = 2
    BY <1>9, Tuple2
  <2>3. <<"threadID">>[1] = "threadID"
    BY Tuple1
  <2> QED BY <1>9, <2>1, <2>2, <2>3 DEF Creations
<1>10. CASE C = <<"threadID">>
  <2>1. <<"threadID">> \in Seq(Label)
    BY DEF Label
  <2>2. Tail(C) = <<>> /\ C # <<>> /\ C[1] = "threadID" /\ Len(C) = 1
    BY <1>10, Tuple1
  <2> QED BY <1>10, <2>1, <2>2 DEF Creations
<1> QED BY <1>1, <1>2, <1>3, <1>4, <1>5, <1>6, <1>7, <1>8, <1>9, <1>10 DEF Creations

(* How a blessing goes on, until the thread is in the list. *)
LEMMA BlessingIs ==
    ASSUME NEW C \in Blessings
    PROVE  /\ C \in Seq(Label) /\ C # <<>>
           /\ C[1] \in {"inc", "incStore", "insert", "inserting", "enter", "newQV"}
           /\ C[1] = "enter" => Tail(C) \in Blessings /\ Tail(C)[1] = "newQV"
           /\ C[1] = "newQV" => Tail(C) \in Blessings /\ Tail(C)[1] = "inc"
           /\ C[1] = "inc" => <<"incStore">> \o Tail(C) \in Blessings
           /\ C[1] = "incStore" => Tail(C) \in Blessings /\ Tail(C)[1] = "insert"
           /\ C[1] = "insert" => <<"inserting">> \o Tail(C) \in Blessings
           /\ C[1] = "inserting" => Tail(C) = <<>>
<1>1. CASE C = <<"enter", "newQV", "inc", "insert">>
  <2>1. <<"enter", "newQV", "inc", "insert">> \in Seq(Label)
    BY DEF Label
  <2>2. Tail(C) = <<"newQV", "inc", "insert">> /\ C # <<>> /\ C[1] = "enter" /\ Len(C) = 4
    BY <1>1, Tuple4
  <2>3. <<"newQV", "inc", "insert">>[1] = "newQV"
    BY Tuple3
  <2> QED BY <1>1, <2>1, <2>2, <2>3 DEF Blessings
<1>2. CASE C = <<"newQV", "inc", "insert">>
  <2>1. <<"newQV", "inc", "insert">> \in Seq(Label)
    BY DEF Label
  <2>2. Tail(C) = <<"inc", "insert">> /\ C # <<>> /\ C[1] = "newQV" /\ Len(C) = 3
    BY <1>2, Tuple3
  <2>3. <<"inc", "insert">>[1] = "inc"
    BY Tuple2
  <2> QED BY <1>2, <2>1, <2>2, <2>3 DEF Blessings
<1>3. CASE C = <<"inc", "insert">>
  <2>1. <<"inc", "insert">> \in Seq(Label)
    BY DEF Label
  <2>2. Tail(C) = <<"insert">> /\ C # <<>> /\ C[1] = "inc" /\ Len(C) = 2
    BY <1>3, Tuple2
  <2>3. <<"insert">>[1] = "insert"
    BY Tuple1
  <2>4. <<"incStore">> \o <<"insert">> = <<"incStore", "insert">>
    BY PutBefore1
  <2> QED BY <1>3, <2>1, <2>2, <2>3, <2>4 DEF Blessings
<1>4. CASE C = <<"incStore", "insert">>
  <2>1. <<"incStore", "insert">> \in Seq(Label)
    BY DEF Label
  <2>2. Tail(C) = <<"insert">> /\ C # <<>> /\ C[1] = "incStore" /\ Len(C) = 2
    BY <1>4, Tuple2
  <2>3. <<"insert">>[1] = "insert"
    BY Tuple1
  <2> QED BY <1>4, <2>1, <2>2, <2>3 DEF Blessings
<1>5. CASE C = <<"insert">>
  <2>1. <<"insert">> \in Seq(Label)
    BY DEF Label
  <2>2. Tail(C) = <<>> /\ C # <<>> /\ C[1] = "insert" /\ Len(C) = 1
    BY <1>5, Tuple1
  <2>3. <<"inserting">> \o <<>> = <<"inserting">>
    BY PutBefore0
  <2> QED BY <1>5, <2>1, <2>2, <2>3 DEF Blessings
<1>6. CASE C = <<"inserting">>
  <2>1. <<"inserting">> \in Seq(Label)
    BY DEF Label
  <2>2. Tail(C) = <<>> /\ C # <<>> /\ C[1] = "inserting" /\ Len(C) = 1
    BY <1>6, Tuple1
  <2> QED BY <1>6, <2>1, <2>2 DEF Blessings
<1> QED BY <1>1, <1>2, <1>3, <1>4, <1>5, <1>6 DEF Blessings

(* The labels that a thread comes to after label l. *)
Follow(l) ==
    IF l = "lisp" THEN {"alloc", "gc", "enterCS", "inc", "remove", "enter"}
    ELSE IF l = "take" THEN {"leave", "gc"}
    ELSE IF l = "bump" THEN {"leave"}
    ELSE IF l = "leave" THEN {"lisp", "leave", "resume", "threadID"}
    ELSE IF l = "suspend" THEN {"suspending"}
    ELSE IF l = "ensureSafe" THEN {"safe", "collect"}
    ELSE IF l = "safe" THEN {"waking", "collect"}
    ELSE IF l = "hooks" THEN {"leave", "alloc", "gc", "enterCS"}
    ELSE IF l = "resume" THEN {"resuming"}
    ELSE IF l = "inc" THEN {"incStore"}
    ELSE IF l = "incStore" THEN {"insert"}
    ELSE IF l = "insert" THEN {"inserting"}
    ELSE IF l = "inserting" THEN {"enter", "alloc"}
    ELSE IF l = "enter" THEN {"begin", "newQV", "unbless"}
    ELSE IF l = "begin" THEN {"resumeNew", "lisp"}
    ELSE IF l = "resumeNew" THEN {"await"}
    ELSE IF l = "await" THEN {"leave"}
    ELSE IF l = "threadID" THEN {"lisp"}
    ELSE IF l = "newQV" THEN {"inc"}
    ELSE IF l = "remove" THEN {"removing"}
    ELSE IF l = "removing" THEN {"dec"}
    ELSE IF l = "dec" THEN {"decStore"}
    ELSE IF l = "decStore" THEN {"ended"}
    ELSE IF l = "none" THEN {"lisp", "find"}
    ELSE IF l = "foreign" THEN {"enter"}
    ELSE Below(l)

(* A label put before a sequence of labels.                                *)
LEMMA Prefixed ==
    ASSUME NEW l \in Label, NEW X \in Seq(Label)
    PROVE  /\ <<l>> \o X \in Seq(Label) /\ <<l>> \o X # <<>>
           /\ Head(<<l>> \o X) = l /\ Tail(<<l>> \o X) = X
<1>1. <<l>> \in Seq(Label) /\ <<l>> # <<>> /\ <<l>>[1] = l /\ Tail(<<l>>) = <<>>
  BY Tuple1
<1>2. <<>> \o X = X
  BY ConcatEmptySeq
<1> QED BY <1>1, <1>2, HeadOfConcat

(* What is left of a sequence without its first five labels.               *)
LEMMA JumpOver ==
    ASSUME NEW C \in Seq(Label), NEW X \in Seq(Label), Len(C) = 5, X # <<>>
    PROVE  SubSeq(C \o X, 6, Len(C \o X)) = X
<1>1. Len(X) \in Nat /\ Len(X) >= 1
  BY EmptySeq
<1> DEFINE n == Len(X)
           m == 5 + n
<1>2. Len(C \o X) = m
  <2>1. Len(C \o X) = Len(C) + Len(X)
    BY ConcatProperties
  <2> QED BY <2>1
<1>3. /\ 6 \in Len(C) + 1 .. Len(C) + Len(X)
      /\ m \in Len(C) + 1 .. Len(C) + Len(X)
      /\ 6 - Len(C) = 1 /\ m - Len(C) = n
  <2>1. n \in Nat /\ n >= 1
    BY <1>1
  <2> HIDE DEF n
  <2>2. /\ 6 \in 5 + 1 .. 5 + n /\ m \in 5 + 1 .. 5 + n
        /\ 6 - 5 = 1 /\ m - 5 = n
    BY <2>1
  <2> QED BY <2>2 DEF n
<1> HIDE DEF m, n
<1>4. SubSeq(C \o X, 6, m) = SubSeq(X, 6 - Len(C), m - Len(C))
  BY <1>3, SubSeqOfConcat2
<1>5. SubSeq(C \o X, 6, m) = SubSeq(X, 1, n)
  BY <1>3, <1>4
<1>6. SubSeq(X, 1, n) = X
  BY SubSeqFull DEF n
<1> QED BY <1>2, <1>5, <1>6

CreationHeads == {"inc", "incStore", "insert", "inserting", "enter", "begin",
                  "resumeNew", "await", "leave", "threadID"}

(* How the stack of a thread that creates another goes on.                 *)
LEMMA CreatesIs ==
    ASSUME NEW t, NEW s, Creates(t, s)
    PROVE  /\ s \in Seq(Label) /\ s # <<>>
           /\ Head(s) \in CreationHeads
           /\ Head(s) = "inc" => Creates(t, <<"incStore">> \o Tail(s))
           /\ Head(s) = "insert" => Creates(t, <<"inserting">> \o Tail(s))
           /\ Head(s) \in CreationHeads \ {"inc", "insert", "threadID"}
              => Creates(t, Tail(s)) /\ Head(Tail(s)) \in Follow(Head(s))
           /\ Head(s) \in {"inserting"} => Head(Tail(s)) = "enter"
           /\ Head(s) = "begin" => Head(Tail(s)) = "resumeNew"
           /\ Head(s) = "begin" => SubSeq(s, 6, Len(s)) = Bottom(t)
           /\ Head(s) = "threadID" => Tail(s) = Bottom(t)
<1>1. PICK C \in Creations : s = C \o Bottom(t)
  BY DEF Creates
<1> DEFINE X == Bottom(t)
<1>2. X \in Seq(Label) /\ C \in Seq(Label) /\ C # <<>>
  BY EndingIs, CreationIs
<1> HIDE DEF X
<1>3. /\ s \in Seq(Label) /\ s # <<>>
      /\ Head(s) = C[1] /\ Tail(s) = Tail(C) \o X /\ Tail(C) \in Seq(Label)
  BY <1>1, <1>2, HeadOfConcat DEF X
<1>4. Head(s) \in CreationHeads
  BY <1>3, CreationIs DEF CreationHeads
<1>5. ASSUME NEW l \in Label, <<l>> \o Tail(C) \in Creations
      PROVE  Creates(t, <<l>> \o Tail(s))
  <2>1. <<l>> \in Seq(Label)
    OBVIOUS
  <2>2. <<l>> \o (Tail(C) \o X) = (<<l>> \o Tail(C)) \o X
    BY ZenonT(60), <2>1, <1>2, <1>3, Bracketed
  <2> QED BY <1>3, <1>5, <2>2 DEF Creates, X
<1>6. "incStore" \in Label /\ "inserting" \in Label
  BY DEF Label
<1>7. ASSUME Tail(C) \in Creations
      PROVE  Creates(t, Tail(s)) /\ Head(Tail(s)) = Tail(C)[1]
  <2>1. Tail(C) # <<>>
    BY <1>7, CreationIs
  <2> QED BY <1>2, <1>3, <1>7, <2>1, HeadOfConcat DEF Creates, X
<1>8. Head(s) = "inc" => Creates(t, <<"incStore">> \o Tail(s))
  BY <1>3, <1>5, <1>6, CreationIs
<1>9. Head(s) = "insert" => Creates(t, <<"inserting">> \o Tail(s))
  BY <1>3, <1>5, <1>6, CreationIs
<1>10. Head(s) \in CreationHeads \ {"inc", "insert", "threadID"}
       => Creates(t, Tail(s)) /\ Head(Tail(s)) \in Follow(Head(s))
  <2>1. Head(s) \in CreationHeads \ {"inc", "insert", "threadID"}
        => Tail(C) \in Creations /\ Tail(C)[1] \in Follow(C[1])
    BY <1>3, CreationIs DEF CreationHeads, Follow
  <2> QED BY <2>1, <1>3, <1>7
<1>11. /\ Head(s) = "inserting" => Head(Tail(s)) = "enter"
       /\ Head(s) = "begin" => Head(Tail(s)) = "resumeNew"
  BY <1>3, <1>7, CreationIs
<1>12. ASSUME Head(s) = "begin"
       PROVE  SubSeq(s, 6, Len(s)) = X
  <2>1. Len(C) = 5
    BY <1>3, <1>12, CreationIs
  <2>2. X # <<>>
    BY ConcatEqualIffEmpty, EndingIs, Tuple1 DEF X, Bottom
  <2> QED BY <1>1, <1>2, <2>1, <2>2, JumpOver DEF X
<1>13. Head(s) = "threadID" => Tail(s) = X
  BY <1>2, <1>3, CreationIs, ConcatEmptySeq
<1> QED BY <1>3, <1>4, <1>8, <1>9, <1>10, <1>11, <1>12, <1>13 DEF X

BlessingHeads == {"inc", "incStore", "insert", "inserting", "enter", "newQV"}

(* How the stack of a thread that blesses itself goes on; it is listed in   *)
(* the last step.                                                          *)
LEMMA BlessesIs ==
    ASSUME NEW t, NEW s, Blesses(t, s)
    PROVE  /\ s \in Seq(Label) /\ s # <<>>
           /\ Head(s) \in BlessingHeads
           /\ Head(s) = "inc" => Blesses(t, <<"incStore">> \o Tail(s))
           /\ Head(s) = "insert" => Blesses(t, <<"inserting">> \o Tail(s))
           /\ Head(s) \in {"enter", "newQV", "incStore"}
              => Blesses(t, Tail(s)) /\ Head(Tail(s)) \in Follow(Head(s))
           /\ Head(s) = "enter" => Head(Tail(s)) = "newQV"
           /\ Head(s) = "inserting" => Tail(s) = Blessed(t)
<1>1. PICK C \in Blessings : s = C \o Blessed(t)
  BY DEF Blesses
<1> DEFINE X == Blessed(t)
<1>2. X \in Seq(Label) /\ C \in Seq(Label) /\ C # <<>>
  <2>1. Allocation \in Seq(Label) /\ <<"leave">> \in Seq(Label)
    BY DEF Allocation, Label
  <2>2. <<"leave">> \o Bottom(t) \in Seq(Label)
    BY <2>1, EndingIs, ConcatProperties
  <2>3. X \in Seq(Label)
    BY <2>1, <2>2, ConcatProperties DEF Blessed
  <2> QED BY <2>3, BlessingIs
<1> HIDE DEF X
<1>3. /\ s \in Seq(Label) /\ s # <<>>
      /\ Head(s) = C[1] /\ Tail(s) = Tail(C) \o X /\ Tail(C) \in Seq(Label)
  BY <1>1, <1>2, HeadOfConcat DEF X
<1>4. Head(s) \in BlessingHeads
  BY <1>3, BlessingIs DEF BlessingHeads
<1>5. ASSUME NEW l \in Label, <<l>> \o Tail(C) \in Blessings
      PROVE  Blesses(t, <<l>> \o Tail(s))
  <2>1. <<l>> \in Seq(Label)
    OBVIOUS
  <2>2. <<l>> \o (Tail(C) \o X) = (<<l>> \o Tail(C)) \o X
    BY ZenonT(60), <2>1, <1>2, <1>3, Bracketed
  <2> QED BY <1>3, <1>5, <2>2 DEF Blesses, X
<1>6. "incStore" \in Label /\ "inserting" \in Label
  BY DEF Label
<1>7. ASSUME Tail(C) \in Blessings
      PROVE  Blesses(t, Tail(s)) /\ Head(Tail(s)) = Tail(C)[1]
  <2>1. Tail(C) # <<>>
    BY <1>7, BlessingIs
  <2> QED BY <1>2, <1>3, <1>7, <2>1, HeadOfConcat DEF Blesses, X
<1>8. Head(s) = "inc" => Blesses(t, <<"incStore">> \o Tail(s))
  BY <1>3, <1>5, <1>6, BlessingIs
<1>9. Head(s) = "insert" => Blesses(t, <<"inserting">> \o Tail(s))
  BY <1>3, <1>5, <1>6, BlessingIs
<1>10. /\ Head(s) \in {"enter", "newQV", "incStore"}
          => Blesses(t, Tail(s)) /\ Head(Tail(s)) \in Follow(Head(s))
       /\ Head(s) = "enter" => Head(Tail(s)) = "newQV"
  <2>1. Head(s) \in {"enter", "newQV", "incStore"}
        => Tail(C) \in Blessings /\ Tail(C)[1] \in Follow(C[1])
    BY <1>3, BlessingIs DEF Follow
  <2>2. Head(s) = "enter" => Tail(C) \in Blessings /\ Tail(C)[1] = "newQV"
    BY <1>3, BlessingIs
  <2> QED BY <2>1, <2>2, <1>3, <1>7
<1>11. Head(s) = "inserting" => Tail(s) = X
  BY <1>2, <1>3, BlessingIs, ConcatEmptySeq
<1> QED BY <1>3, <1>4, <1>8, <1>9, <1>10, <1>11 DEF X

(* How the stack of a thread that leaves Lisp code for good goes on.        *)
LEMMA QuitsIs ==
    ASSUME NEW t, NEW s, Quits(t, s)
    PROVE  /\ s \in Seq(Label) /\ s # <<>>
           /\ \/ t \in Secondaries /\ Head(s) \in {"remove", "removing"}
              \/ t \in Foreigners /\ Head(s) \in {"enter", "unbless"}
           /\ Head(s) = "enter" => Quits(t, Tail(s)) /\ Head(Tail(s)) = "unbless"
           /\ Head(s) = "remove" => Quits(t, <<"removing">> \o Tail(s))
           /\ Head(s) = "removing" => Gone(t, Tail(s)) /\ Head(Tail(s)) = "dec"
<1>1. CASE t \in Secondaries /\ s = <<"remove", "dec", "ended">>
  <2>1. <<"remove", "dec", "ended">> \in Seq(Label)
    BY DEF Label
  <2>2. s # <<>> /\ Head(s) = "remove" /\ Tail(s) = <<"dec", "ended">>
    BY <1>1, Tuple3
  <2>3. <<"removing">> \o <<"dec", "ended">> = <<"removing", "dec", "ended">>
    BY PutBefore2
  <2> QED BY <1>1, <2>1, <2>2, <2>3 DEF Quits
<1>2. CASE t \in Secondaries /\ s = <<"removing", "dec", "ended">>
  <2>1. <<"removing", "dec", "ended">> \in Seq(Label)
    BY DEF Label
  <2>2. s # <<>> /\ Head(s) = "removing" /\ Tail(s) = <<"dec", "ended">>
    BY <1>2, Tuple3
  <2>3. Head(<<"dec", "ended">>) = "dec"
    BY Tuple2
  <2> QED BY <1>2, <2>1, <2>2, <2>3 DEF Gone
<1>3. CASE t \in Foreigners /\ s = <<"enter", "unbless", "remove", "dec", "leave", "foreign">>
  <2>1. <<"enter", "unbless", "remove", "dec", "leave", "foreign">> \in Seq(Label)
    BY DEF Label
  <2>2. s # <<>> /\ Head(s) = "enter" /\ Tail(s) = <<"unbless", "remove", "dec", "leave", "foreign">>
    BY <1>3, Tuple6
  <2>3. Head(<<"unbless", "remove", "dec", "leave", "foreign">>) = "unbless"
    BY Tuple5
  <2> QED BY <1>3, <2>1, <2>2, <2>3 DEF Quits
<1>4. CASE t \in Foreigners /\ s = <<"unbless", "remove", "dec", "leave", "foreign">>
  <2>1. <<"unbless", "remove", "dec", "leave", "foreign">> \in Seq(Label)
    BY DEF Label
  <2>2. s # <<>> /\ Head(s) = "unbless"
    BY <1>4, Tuple5
  <2> QED BY <1>4, <2>1, <2>2
<1> QED BY <1>1, <1>2, <1>3, <1>4 DEF Quits

(* How the stack of a thread that is no longer listed goes on.              *)
LEMMA GoneIs ==
    ASSUME NEW t, NEW s, Gone(t, s)
    PROVE  /\ s \in Seq(Label) /\ s # <<>> /\ t \in Secondaries
           /\ Head(s) \in {"dec", "decStore", "ended"}
           /\ Head(s) = "dec" => Gone(t, <<"decStore">> \o Tail(s))
           /\ Head(s) = "decStore" => Gone(t, Tail(s)) /\ Head(Tail(s)) = "ended"
<1>1. CASE s = <<"dec", "ended">>
  <2>1. <<"dec", "ended">> \in Seq(Label)
    BY DEF Label
  <2>2. s # <<>> /\ Head(s) = "dec" /\ Tail(s) = <<"ended">>
    BY <1>1, Tuple2
  <2>3. <<"decStore">> \o <<"ended">> = <<"decStore", "ended">>
    BY PutBefore1
  <2> QED BY <1>1, <2>1, <2>2, <2>3 DEF Gone
<1>2. CASE s = <<"decStore", "ended">>
  <2>1. <<"decStore", "ended">> \in Seq(Label)
    BY DEF Label
  <2>2. s # <<>> /\ Head(s) = "decStore" /\ Tail(s) = <<"ended">>
    BY <1>2, Tuple2
  <2>3. Head(<<"ended">>) = "ended"
    BY Tuple1
  <2> QED BY <1>2, <2>1, <2>2, <2>3 DEF Gone
<1>3. CASE s = <<"ended">>
  <2>1. <<"ended">> \in Seq(Label)
    BY DEF Label
  <2>2. s # <<>> /\ Head(s) = "ended"
    BY <1>3, Tuple1
  <2> QED BY <1>3, <2>1, <2>2 DEF Gone
<1> QED BY <1>1, <1>2, <1>3 DEF Gone

(* A thread that has not started, or of the client.                         *)
LEMMA WaitsIs ==
    ASSUME NEW t, NEW s, Waits(t, s)
    PROVE  /\ s \in Seq(Label) /\ s # <<>> /\ Tail(s) = <<>>
           /\ Head(s) = IF t \in Foreigners THEN "foreign" ELSE "none"
<1>1. <<"foreign">> \in Seq(Label) /\ <<"none">> \in Seq(Label)
  BY DEF Label
<1> QED BY <1>1, Tuple1 DEF Waits

-----------------------------------------------------------------------------
(* The label on top tells what a thread of the list does.                   *)
LEMMA InsideIs ==
    ASSUME NEW t \in Threads, NEW s, Inside(t, s)
    PROVE  /\ s \in Seq(Label) /\ s # <<>>
           /\ Head(s) \in Work \cup CreationHeads \cup {"unbless", "remove", "removing", "none"}
           /\ Head(s) \in Work \ {"leave"} => Works(t, s)
           /\ Head(s) = "leave" => Works(t, s) \/ Creates(t, s)
           /\ Head(s) \in CreationHeads \ {"enter", "leave"} => Creates(t, s)
           /\ Head(s) = "enter" => Creates(t, s) \/ Quits(t, s)
           /\ Head(s) \in {"unbless", "remove", "removing"} => Quits(t, s)
           /\ Head(s) = "none" => Waits(t, s) /\ t \in Secondaries
<1>1. Work \cap CreationHeads = {"leave"} /\ "none" \notin Work \cup CreationHeads
      /\ {"unbless", "remove", "removing"} \cap (Work \cup CreationHeads \cup {"none"}) = {}
      /\ "enter" \in CreationHeads /\ "enter" \notin Work
  BY DEF Work, CreationHeads
<1>2. CASE Works(t, s)
  <2>1. Head(s) \in Work /\ s \in Seq(Label) /\ s # <<>>
    BY <1>2, WorksHead
  <2> HIDE DEF Work, CreationHeads
  <2> QED BY <1>1, <1>2, <2>1
<1>3. CASE Creates(t, s)
  <2>1. Head(s) \in CreationHeads /\ s \in Seq(Label) /\ s # <<>>
    BY <1>3, CreatesIs
  <2> HIDE DEF Work, CreationHeads
  <2> QED BY <1>1, <1>3, <2>1
<1>4. CASE Quits(t, s)
  <2>1. Head(s) \in {"remove", "removing", "enter", "unbless"} /\ s \in Seq(Label) /\ s # <<>>
    BY <1>4, QuitsIs
  <2> HIDE DEF Work, CreationHeads
  <2> QED BY <1>1, <1>4, <2>1
<1>5. CASE t \in Secondaries /\ Waits(t, s)
  <2>1. Head(s) = "none" /\ s \in Seq(Label) /\ s # <<>>
    BY <1>5, WaitsIs, ThreadsAssumption
  <2> HIDE DEF Work, CreationHeads
  <2> QED BY <1>1, <1>5, <2>1
<1> QED BY <1>2, <1>3, <1>4, <1>5 DEF Inside

(* And one outside of it.                                                   *)
LEMMA OutsideIs ==
    ASSUME NEW t \in Threads, NEW s, Outside(t, s)
    PROVE  /\ s \in Seq(Label) /\ s # <<>>
           /\ Head(s) \in BlessingHeads \cup {"dec", "decStore", "ended", "none", "foreign"}
           /\ Head(s) \in BlessingHeads => Blesses(t, s)
           /\ Head(s) \in {"dec", "decStore", "ended"} => Gone(t, s)
           /\ Head(s) \in {"none", "foreign"} => Waits(t, s)
           /\ Head(s) = "foreign" => t \in Foreigners
<1>1. BlessingHeads \cap {"dec", "decStore", "ended", "none", "foreign"} = {}
  BY DEF BlessingHeads
<1>2. CASE Blesses(t, s)
  BY <1>1, <1>2, BlessesIs
<1>3. CASE Gone(t, s)
  BY <1>1, <1>3, GoneIs
<1>4. CASE Waits(t, s)
  BY <1>1, <1>4, WaitsIs
<1> QED BY <1>2, <1>3, <1>4 DEF Outside

-----------------------------------------------------------------------------
(* The labels whose steps only go on with what is left.                     *)
PopLabels == (Work \ {"lisp", "take", "bump", "suspend", "resume"})
             \cup (CreationHeads \ {"inc", "insert"})

(* A thread of the list stays in it.                                        *)
LEMMA PopInside ==
    ASSUME NEW t \in Threads, NEW s, Inside(t, s), Head(s) \in PopLabels
    PROVE  Inside(t, Tail(s)) /\ Head(Tail(s)) \in Follow(Head(s))
<1>1. CASE Works(t, s)
  <2>1. Head(s) \in Work \ {"lisp", "take", "bump", "suspend", "resume"}
    BY <1>1, WorksHead DEF PopLabels, CreationHeads, Work
  <2>2. Works(t, Tail(s)) /\ Head(Tail(s)) \in Below(Head(s))
    BY <1>1, <2>1, WorksPop
  <2>3. Below(Head(s)) \subseteq Follow(Head(s))
    BY <2>1 DEF Below, Follow, Work
  <2> QED BY <2>2, <2>3 DEF Inside
<1>2. CASE Creates(t, s)
  <2>1. Head(s) \in CreationHeads \ {"inc", "insert"}
    BY <1>2, CreatesIs DEF PopLabels, CreationHeads, Work
  <2>2. CASE Head(s) # "threadID"
    BY <1>2, <2>1, <2>2, CreatesIs DEF Inside
  <2>3. CASE Head(s) = "threadID"
    <3>1. Tail(s) = Bottom(t)
      BY <1>2, <2>3, CreatesIs
    <3>2. Works(t, Tail(s)) /\ Head(Tail(s)) = "lisp"
      BY <3>1, WorksBottom
    <3>3. "lisp" \in Follow(Head(s))
      BY <2>3 DEF Follow
    <3> QED BY <3>2, <3>3 DEF Inside
  <2> QED BY <2>2, <2>3
<1>3. CASE Quits(t, s)
  <2>1. Head(s) = "enter"
    BY <1>3, QuitsIs DEF PopLabels, CreationHeads, Work
  <2> QED BY <1>3, <2>1, QuitsIs DEF Inside, Follow
<1>4. CASE Waits(t, s)
  BY <1>4, WaitsIs DEF PopLabels, CreationHeads, Work
<1> QED BY <1>1, <1>2, <1>3, <1>4 DEF Inside

(* One outside of it stays outside, but for the last step of a blessing.     *)
LEMMA PopOutside ==
    ASSUME NEW t \in Threads, NEW s, Outside(t, s)
    PROVE  /\ Head(s) \in {"enter", "newQV", "incStore", "decStore"}
              => Outside(t, Tail(s)) /\ Head(Tail(s)) \in Follow(Head(s))
           /\ Head(s) = "inserting"
              => Inside(t, Tail(s)) /\ Head(Tail(s)) = "alloc"
<1>1. ASSUME Head(s) \in {"enter", "newQV", "incStore"}
      PROVE  Outside(t, Tail(s)) /\ Head(Tail(s)) \in Follow(Head(s))
  <2>1. Blesses(t, s)
    BY <1>1, OutsideIs DEF BlessingHeads
  <2> QED BY <1>1, <2>1, BlessesIs DEF Outside
<1>2. ASSUME Head(s) = "decStore"
      PROVE  Outside(t, Tail(s)) /\ Head(Tail(s)) \in Follow(Head(s))
  <2>1. Gone(t, s)
    BY <1>2, OutsideIs
  <2> QED BY <1>2, <2>1, GoneIs DEF Outside, Follow
<1>3. ASSUME Head(s) = "inserting"
      PROVE  Inside(t, Tail(s)) /\ Head(Tail(s)) = "alloc"
  <2>1. Tail(s) = Blessed(t)
    BY <1>3, OutsideIs, BlessesIs DEF BlessingHeads
  <2>2. Works(t, Bottom(t)) /\ Head(Bottom(t)) = "lisp"
    BY WorksBottom
  <2>3. Linked(<<"leave">>)
    BY DEF Linked, Work
  <2>4. Linked(Allocation)
    BY DEF Linked, Work, Below, Allocation
  <2>5. Works(t, <<"leave">> \o Bottom(t)) /\ Head(<<"leave">> \o Bottom(t)) = "leave"
    BY <2>2, <2>3, WorksPush DEF Below
  <2>6. "leave" \in Below(Allocation[Len(Allocation)]) /\ Allocation[1] = "alloc"
    BY DEF Below, Allocation
  <2>7. Works(t, Blessed(t)) /\ Head(Blessed(t)) = "alloc"
    BY <2>4, <2>5, <2>6, WorksPush DEF Blessed
  <2> QED BY <2>1, <2>7 DEF Inside
<1> QED BY <1>1, <1>2, <1>3

(* The thread is taken off the list.                                        *)
LEMMA PopRemoving ==
    ASSUME NEW t \in Threads, NEW s, Inside(t, s), Head(s) = "removing"
    PROVE  Outside(t, Tail(s)) /\ Head(Tail(s)) = "dec" /\ t \in Secondaries
<1>1. Quits(t, s)
  BY InsideIs
<1> QED BY <1>1, QuitsIs DEF Outside

(* Another label takes the place of the first.                              *)
LEMMA RelabelInside ==
    ASSUME NEW t \in Threads, NEW s, Inside(t, s), NEW m,
           <<Head(s), m>> \in {<<"suspend", "suspending">>, <<"resume", "resuming">>,
                               <<"take", "leave">>, <<"bump", "leave">>,
                               <<"ensureSafe", "safe">>, <<"inc", "incStore">>,
                               <<"insert", "inserting">>, <<"remove", "removing">>}
    PROVE  Inside(t, <<m>> \o Tail(s)) /\ Head(<<m>> \o Tail(s)) = m
<1>0. s \in Seq(Label) /\ s # <<>> /\ Tail(s) \in Seq(Label)
  BY InsideIs, HeadTailProperties
<1>1. m \in Label
  BY DEF Label
<1>2. Head(<<m>> \o Tail(s)) = m
  BY <1>0, <1>1, Prefixed
<1>3. CASE Head(s) \in {"suspend", "resume", "take", "bump", "ensureSafe"}
  <2>1. Works(t, s) /\ Head(s) # "lisp"
    BY <1>3, InsideIs DEF Work
  <2>2. Works(t, Tail(s)) /\ Head(Tail(s)) \in Below(Head(s))
    BY <2>1, WorksPop
  <2>3. Below(Head(s)) \subseteq Below(m) /\ m \in Work
    BY <1>3 DEF Below, Work
  <2>4. Linked(<<m>>)
    BY <2>3 DEF Linked
  <2>5. <<m>>[Len(<<m>>)] = m
    OBVIOUS
  <2>6. Works(t, <<m>> \o Tail(s))
    BY <2>2, <2>3, <2>4, <2>5, WorksPush
  <2> QED BY <1>2, <2>6 DEF Inside
<1>4. CASE Head(s) \in {"inc", "insert"}
  <2>1. Creates(t, s)
    BY <1>4, InsideIs DEF CreationHeads
  <2>2. Creates(t, <<m>> \o Tail(s))
    BY <1>4, <2>1, CreatesIs
  <2> QED BY <1>2, <2>2 DEF Inside
<1>5. CASE Head(s) = "remove"
  <2>1. Quits(t, s)
    BY <1>5, InsideIs
  <2>2. Quits(t, <<m>> \o Tail(s))
    BY <1>5, <2>1, QuitsIs
  <2> QED BY <1>2, <2>2 DEF Inside
<1> QED BY <1>3, <1>4, <1>5

(* The same outside of the list.                                            *)
LEMMA RelabelOutside ==
    ASSUME NEW t \in Threads, NEW s, Outside(t, s), NEW m,
           <<Head(s), m>> \in {<<"inc", "incStore">>, <<"insert", "inserting">>,
                               <<"dec", "decStore">>}
    PROVE  Outside(t, <<m>> \o Tail(s)) /\ Head(<<m>> \o Tail(s)) = m
<1>0. s \in Seq(Label) /\ s # <<>> /\ Tail(s) \in Seq(Label)
  BY OutsideIs, HeadTailProperties
<1>1. m \in Label
  BY DEF Label
<1>2. Head(<<m>> \o Tail(s)) = m
  BY <1>0, <1>1, Prefixed
<1>3. CASE Head(s) \in {"inc", "insert"}
  <2>1. Blesses(t, s)
    BY <1>3, OutsideIs DEF BlessingHeads
  <2>2. Blesses(t, <<m>> \o Tail(s))
    BY <1>3, <2>1, BlessesIs
  <2> QED BY <1>2, <2>2 DEF Outside
<1>4. CASE Head(s) = "dec"
  <2>1. Gone(t, s)
    BY <1>4, OutsideIs
  <2>2. Gone(t, <<m>> \o Tail(s))
    BY <1>4, <2>1, GoneIs
  <2> QED BY <1>2, <2>2 DEF Outside
<1> QED BY <1>3, <1>4

(* The bodies of what Lisp code and the hooks call.                         *)
CalledOps == {"alloc", "gc", "critical"}

(* What each operation pushes: a linked body that comes back to Lisp code.  *)
LEMMA BodyIs ==
    ASSUME NEW op \in CalledOps
    PROVE  /\ Linked(Body(op)) /\ Body(op) \in Seq(Label)
           /\ Body(op)[1] \in {"alloc", "gc", "enterCS"}
           /\ {"lisp", "leave"} \subseteq Below(Body(op)[Len(Body(op))])
<1>1. CASE op = "alloc"
  BY <1>1 DEF Body, Allocation, Linked, Work, Below, Label
<1>2. CASE op = "gc"
  <2> DEFINE B == <<"gc", "suspend", "ensureSafe", "collect", "hooks", "leave", "resume">>
  <2>1. B \in Seq(Work) /\ B # <<>> /\ B \in Seq(Label) /\ Len(B) = 7
    BY DEF Work, Label
  <2>2. \A i \in 1 .. Len(B) - 1 : B[i + 1] \in Below(B[i])
    <3> SUFFICES ASSUME NEW i \in 1 .. 6 PROVE B[i + 1] \in Below(B[i])
      BY <2>1
    <3>1. i \in {1, 2, 3, 4, 5, 6}
      OBVIOUS
    <3> QED BY <3>1 DEF Below
  <2>3. B[1] = "gc" /\ B[7] = "resume"
    OBVIOUS
  <2>4. {"lisp", "leave"} \subseteq Below("resume")
    BY DEF Below
  <2>5. Body(op) = B
    BY <1>2 DEF Body, GarbageCollect
  <2> HIDE DEF B
  <2> QED BY <2>1, <2>2, <2>3, <2>4, <2>5 DEF Linked
<1>3. CASE op = "critical"
  BY <1>3 DEF Body, Linked, Work, Below, Label
<1> QED BY <1>1, <1>2, <1>3 DEF CalledOps

(* Lisp code calls one of them.                                             *)
LEMMA CallInside ==
    ASSUME NEW t \in Threads, NEW s, Inside(t, s), Head(s) = "lisp", NEW op \in CalledOps
    PROVE  /\ Inside(t, (Body(op) \o <<"lisp">>) \o Tail(s))
           /\ Head((Body(op) \o <<"lisp">>) \o Tail(s)) \in Follow("lisp")
           /\ Head((Body(op) \o <<"lisp">>) \o Tail(s)) \in {"alloc", "gc", "enterCS"}
<1>1. Works(t, s)
  BY InsideIs DEF Work
<1>2. s = Bottom(t) /\ Tail(s) = Ending(t)
  BY <1>1, WorksBottom
<1> DEFINE B == Body(op)
           X == Ending(t)
<1>3. X \in Seq(Label) /\ B \in Seq(Label) /\ <<"lisp">> \in Seq(Label)
  BY EndingIs, BodyIs DEF Label
<1>4. Works(t, B \o s) /\ Head(B \o s) = B[1]
  BY <1>1, BodyIs, WorksPush
<1>5. B[1] \in Follow("lisp") /\ B[1] \in {"alloc", "gc", "enterCS"}
  BY BodyIs DEF Follow
<1> HIDE DEF B, X
<1>6. (B \o <<"lisp">>) \o X = B \o (<<"lisp">> \o X)
  BY ZenonT(60), <1>3, Bracketed
<1>7. (B \o <<"lisp">>) \o Tail(s) = B \o s
  BY <1>2, <1>6 DEF X, Bottom
<1> QED BY <1>4, <1>5, <1>7 DEF Inside, B

(* The hooks of a collection call one of them.                              *)
LEMMA HookInside ==
    ASSUME NEW t \in Threads, NEW s, Inside(t, s), Head(s) = "hooks", NEW op \in CalledOps
    PROVE  /\ Inside(t, Body(op) \o Tail(s))
           /\ Head(Body(op) \o Tail(s)) \in Follow("hooks")
<1>1. Works(t, s)
  BY InsideIs DEF Work
<1>2. Works(t, Tail(s)) /\ Head(Tail(s)) = "leave"
  BY <1>1, WorksPop DEF Below
<1>3. Works(t, Body(op) \o Tail(s)) /\ Head(Body(op) \o Tail(s)) = Body(op)[1]
  BY <1>2, BodyIs, WorksPush
<1>4. Body(op)[1] \in Follow("hooks")
  BY BodyIs DEF Follow
<1> QED BY <1>3, <1>4 DEF Inside

(* An allocation finds its heap full.                                       *)
LEMMA CollectInside ==
    ASSUME NEW t \in Threads, NEW s, Inside(t, s), Head(s) = "take"
    PROVE  /\ Inside(t, (GarbageCollect \o <<"bump">>) \o Tail(s))
           /\ Head((GarbageCollect \o <<"bump">>) \o Tail(s)) = "gc"
<1>1. Works(t, s)
  BY InsideIs DEF Work
<1>2. Works(t, Tail(s)) /\ Head(Tail(s)) \in {"lisp", "leave"}
  BY <1>1, WorksPop DEF Below
<1>3. Linked(<<"bump">>) /\ Below("bump") = {"lisp", "leave"} /\ <<"bump">>[Len(<<"bump">>)] = "bump"
  BY DEF Linked, Work, Below
<1>4. Works(t, <<"bump">> \o Tail(s)) /\ Head(<<"bump">> \o Tail(s)) = "bump"
  BY <1>2, <1>3, WorksPush
<1> DEFINE B == GarbageCollect
           X == Tail(s)
<1>5. /\ Linked(B) /\ B \in Seq(Label) /\ "bump" \in Below(B[Len(B)])
      /\ B[1] = "gc"
  <2>1. "gc" \in CalledOps /\ Body("gc") = B
    BY DEF CalledOps, Body
  <2>2. B[1] = "gc" /\ B[Len(B)] = "resume"
    BY DEF GarbageCollect
  <2> QED BY <2>1, <2>2, BodyIs DEF Below
<1>6. Works(t, B \o (<<"bump">> \o X)) /\ Head(B \o (<<"bump">> \o X)) = "gc"
  BY <1>4, <1>5, WorksPush
<1>7. X \in Seq(Label) /\ <<"bump">> \in Seq(Label)
  <2>1. <<"bump">> \in Seq(Label)
    BY DEF Label
  <2> QED BY <2>1, <1>2, WorksHead
<1> HIDE DEF B, X
<1>8. B \o (<<"bump">> \o X) = (B \o <<"bump">>) \o X
  BY ZenonT(60), <1>5, <1>7, Bracketed
<1> QED BY <1>6, <1>8 DEF Inside, B, X

(* A thread that is in an atomic unit is woken.                             *)
LEMMA WakeInside ==
    ASSUME NEW t \in Threads, NEW s, Inside(t, s), Head(s) = "safe"
    PROVE  /\ Inside(t, <<"waking", "safe">> \o Tail(s))
           /\ Head(<<"waking", "safe">> \o Tail(s)) = "waking"
<1>1. Works(t, s)
  BY InsideIs DEF Work
<1>2. Works(t, Tail(s)) /\ Head(Tail(s)) = "collect"
  BY <1>1, WorksPop DEF Below
<1> DEFINE B == <<"waking", "safe">>
<1>3. B \in Seq(Work) /\ B # <<>> /\ Len(B) = 2 /\ B[1] = "waking" /\ B[2] = "safe"
  BY DEF Work
<1>4. "safe" \in Below("waking") /\ "collect" \in Below("safe")
  BY DEF Below
<1> HIDE DEF B
<1>5. Linked(B)
  <2>1. ASSUME NEW i \in 1 .. Len(B) - 1 PROVE B[i + 1] \in Below(B[i])
    <3>1. i = 1 /\ i + 1 = 2
      BY <1>3
    <3> QED BY <3>1, <1>3, <1>4
  <2> QED BY <2>1, <1>3 DEF Linked
<1>6. Works(t, B \o Tail(s)) /\ Head(B \o Tail(s)) = "waking"
  BY <1>2, <1>3, <1>4, <1>5, WorksPush
<1> QED BY <1>6 DEF Inside, B

(* Lisp code creates a thread.                                              *)
LEMMA CreateInside ==
    ASSUME NEW t \in Threads, NEW s, Inside(t, s), Head(s) = "lisp"
    PROVE  /\ Creates(t, (RunSecondaryThread \o <<"lisp">>) \o Tail(s))
           /\ Head((RunSecondaryThread \o <<"lisp">>) \o Tail(s)) = "inc"
<1>1. s = Bottom(t) /\ Tail(s) = Ending(t)
  BY InsideIs, WorksBottom DEF Work
<1> DEFINE C == RunSecondaryThread
           X == Ending(t)
<1>2. C \in Creations /\ C \in Seq(Label) /\ C # <<>> /\ C[1] = "inc"
  <2>1. C \in Creations
    BY DEF Creations, RunSecondaryThread
  <2>2. C[1] = "inc"
    BY DEF RunSecondaryThread
  <2> HIDE DEF C
  <2> QED BY <2>1, <2>2, CreationIs
<1>3. X \in Seq(Label) /\ <<"lisp">> \in Seq(Label) /\ Bottom(t) \in Seq(Label)
  BY EndingIs DEF Label
<1> HIDE DEF C, X
<1>4. (C \o <<"lisp">>) \o X = C \o (<<"lisp">> \o X)
  BY ZenonT(60), <1>2, <1>3, Bracketed
<1>5. (C \o <<"lisp">>) \o Tail(s) = C \o Bottom(t)
  BY <1>1, <1>4 DEF X, Bottom
<1>6. Head(C \o Bottom(t)) = "inc"
  BY <1>2, <1>3, HeadOfConcat
<1> QED BY <1>2, <1>5, <1>6 DEF Creates, C

(* The code of a thread returns, or a thread of the client leaves.          *)
LEMMA LeaveInside ==
    ASSUME NEW t \in Threads, NEW s, Inside(t, s), Head(s) = "lisp"
    PROVE  /\ t \in Secondaries => Inside(t, Tail(s)) /\ Head(Tail(s)) = "remove"
           /\ t \in Foreigners => /\ Inside(t, Tail(s)) /\ Head(Tail(s)) = "enter"
                                 /\ Head(Tail(Tail(s))) = "unbless"
<1>1. Tail(s) = Ending(t)
  BY InsideIs, WorksBottom DEF Work
<1>2. ASSUME t \in Secondaries
      PROVE  Inside(t, Tail(s)) /\ Head(Tail(s)) = "remove"
  <2>1. t # Primary
    BY <1>2, ThreadsAssumption
  <2>2. Tail(s) = <<"remove", "dec", "ended">>
    BY <1>1, <1>2, <2>1 DEF Ending
  <2>3. Head(<<"remove", "dec", "ended">>) = "remove"
    BY Tuple3
  <2> QED BY <1>2, <2>2, <2>3 DEF Inside, Quits
<1>3. ASSUME t \in Foreigners
      PROVE  Inside(t, Tail(s)) /\ Head(Tail(s)) = "enter" /\ Head(Tail(Tail(s))) = "unbless"
  <2>1. t # Primary /\ t \notin Secondaries
    BY <1>3, ThreadsAssumption
  <2>2. Tail(s) = <<"enter", "unbless", "remove", "dec", "leave", "foreign">>
    BY <1>1, <1>3, <2>1 DEF Ending
  <2>3. /\ Head(<<"enter", "unbless", "remove", "dec", "leave", "foreign">>) = "enter"
        /\ Tail(<<"enter", "unbless", "remove", "dec", "leave", "foreign">>)
              = <<"unbless", "remove", "dec", "leave", "foreign">>
        /\ Head(<<"unbless", "remove", "dec", "leave", "foreign">>) = "unbless"
    BY Tuple5, Tuple6
  <2> QED BY <1>3, <2>2, <2>3 DEF Inside, Quits
<1> QED BY <1>2, <1>3

(* A thread of the client blesses itself.                                   *)
LEMMA BlessOutside ==
    ASSUME NEW t \in Foreigners, NEW s, Waits(t, s)
    PROVE  Blesses(t, BlessThread \o Tail(s)) /\ Head(BlessThread \o Tail(s)) = "enter"
<1> DEFINE C == <<"enter", "newQV", "inc", "insert">>
           A == Allocation
           Y == <<"leave", "lisp", "enter", "unbless", "remove", "dec", "leave", "foreign">>
<1>1. C \in Seq(Label) /\ A \in Seq(Label) /\ Y \in Seq(Label) /\ C # <<>> /\ C[1] = "enter"
  BY DEF Label, Allocation
<1>2. C \in Blessings
  BY DEF Blessings
<1>3. Y = <<"leave">> \o Bottom(t)
  <2>1. t # Primary /\ t \notin Secondaries
    BY ThreadsAssumption
  <2>2. Ending(t) = <<"enter", "unbless", "remove", "dec", "leave", "foreign">>
    BY <2>1 DEF Ending
  <2>3. Bottom(t) = <<"lisp", "enter", "unbless", "remove", "dec", "leave", "foreign">>
    BY <2>2, PutBefore6 DEF Bottom
  <2>4. <<"leave">> \o <<"lisp", "enter", "unbless", "remove", "dec", "leave", "foreign">> = Y
    BY PutBefore7
  <2> QED BY <2>3, <2>4
<1>4. BlessThread = (C \o A) \o Y
  BY DEF BlessThread
<1> HIDE DEF C, A, Y
<1>5. (C \o A) \o Y = C \o (A \o Y)
  BY ZenonT(60), <1>1, Bracketed
<1>6. A \o Y = Blessed(t) /\ A \o Y \in Seq(Label)
  BY <1>1, <1>3, ConcatProperties DEF Blessed, A
<1>7. Head(C \o (A \o Y)) = "enter" /\ C \o (A \o Y) \in Seq(Label)
  BY <1>1, <1>6, HeadOfConcat
<1>8. BlessThread \o Tail(s) = BlessThread
  BY <1>4, <1>5, <1>7, WaitsIs, ConcatEmptySeq
<1> QED BY <1>2, <1>4, <1>5, <1>6, <1>7, <1>8 DEF Blesses

(* The code of a new thread starts.                                         *)
LEMMA ProcInside ==
    ASSUME NEW t \in Secondaries
    PROVE  Inside(t, SecondaryThreadProc) /\ Head(SecondaryThreadProc) = "find"
<1> DEFINE F == <<"find">>
           A == Allocation
           L == <<"lisp">>
           X == ExitThread
<1>1. F \in Seq(Label) /\ A \in Seq(Label) /\ L \in Seq(Label) /\ X \in Seq(Label)
  BY DEF Label, Allocation, ExitThread
<1>2. SecondaryThreadProc = ((F \o A) \o L) \o X
  BY DEF SecondaryThreadProc
<1>3. Bottom(t) = L \o X
  <2>1. t # Primary
    BY ThreadsAssumption
  <2> QED BY <2>1 DEF Bottom, Ending, ExitThread
<1>4. Linked(F) /\ F[Len(F)] = "find" /\ F[1] = "find"
  BY DEF Linked, Work
<1>5. Linked(A) /\ A[Len(A)] = "take" /\ A[1] = "alloc"
  BY DEF Linked, Work, Allocation, Below
<1> HIDE DEF F, A, L, X
<1>6. ((F \o A) \o L) \o X = F \o (A \o (L \o X))
  <2> DEFINE W == F \o A
             Y == L \o X
  <2>1. W \in Seq(Label) /\ Y \in Seq(Label)
    BY <1>1, ConcatProperties
  <2>2. \A V \in Seq(Label) : V \o (L \o X) = (V \o L) \o X
    BY ZenonT(60), <1>1, Bracketed
  <2>3. \A V \in Seq(Label) : F \o (A \o V) = (F \o A) \o V
    BY ZenonT(60), <1>1, Bracketed
  <2>4. W \o Y = (W \o L) \o X
    BY <2>1, <2>2
  <2>5. F \o (A \o Y) = W \o Y
    BY <2>1, <2>3
  <2> QED BY <2>4, <2>5
<1>7. Works(t, Bottom(t)) /\ Head(Bottom(t)) = "lisp"
  BY WorksBottom
<1>8. Works(t, A \o (L \o X)) /\ Head(A \o (L \o X)) = "alloc"
  BY <1>3, <1>5, <1>7, WorksPush DEF Below
<1>9. Works(t, F \o (A \o (L \o X))) /\ Head(F \o (A \o (L \o X))) = "find"
  BY <1>4, <1>8, WorksPush DEF Below
<1> QED BY <1>2, <1>6, <1>9 DEF Inside

(* The initialization of the primary thread.                                *)
LEMMA PrimaryInside == Inside(Primary, <<"lisp">>) /\ Head(<<"lisp">>) = "lisp"
<1>1. Ending(Primary) = <<>>
  BY DEF Ending
<1>2. Bottom(Primary) = <<"lisp">>
  BY <1>1, PutBefore0 DEF Bottom
<1> QED BY <1>2, WorksBottom DEF Inside

-----------------------------------------------------------------------------
(* The state.                                                              *)
Record == [listed : BOOLEAN, handle : BOOLEAN,
           qv : {"none", "copied", "scanned", "stale"},
           event : BOOLEAN, reloaded : {FALSE}]
Locals == [todo : SUBSET Threads, other : Threads \cup {NoThread}, tmp : Int]
LockState == [owner : Threads \cup {NoThread}, count : Int]

(* The types that the argument needs; no image was loaded.                  *)
Typed ==
    /\ DOMAIN stack = Threads
    /\ locks \in [LockNames -> LockState]
    /\ susp \in [Threads -> Nat]
    /\ unsafe \subseteq Threads
    /\ rec \in [Threads -> Record]
    /\ loc \in [Threads -> Locals]
    /\ num \in Int
    /\ ops \in Workloads

Placed(t, s) == IF t \in list THEN Inside(t, s) ELSE Outside(t, s)
ShapeInv == \A t \in Threads : Placed(t, stack[t])

(* The steps of thread t, but for those that force another to throw and     *)
(* those of images.                                                        *)
StopStep(t) ==
    \/ BeginSuspend(t) \/ SuspendOther(t) \/ EndSuspend(t)
    \/ EnsureSafeStates(t) \/ CheckSafe(t) \/ WakingDone(t)
    \/ BeginResume(t) \/ ResumeOther(t) \/ EndResume(t)
StillStep(t) == BeginUnsafe(t) \/ EndUnsafe(t) \/ RetrySuspend(t) \/ Unbless(t)
CodeStep(t) ==
    \/ CallFromLisp(t) \/ LeaveLisp(t) \/ CallFromClient(t)
    \/ EnterLock(t) \/ LeaveLock(t) \/ TakeBlock(t) \/ Bump(t) \/ EnterCollection(t)
    \/ Collect(t) \/ RunHooks(t)
ThreadStep(t) ==
    \/ CallRunSecondaryThread(t)
    \/ ReadNum(t) \/ StoreNum(t) \/ LockList(t)
    \/ ResumeNewThread(t) \/ FindRecord(t) \/ AwaitEvent(t) \/ ReadThreadID(t)
    \/ NewQV(t)
ListStep(t) == Insert(t) \/ Remove(t) \/ BeginThread(t)
PlainStep(t) == StopStep(t) \/ StillStep(t) \/ CodeStep(t) \/ ThreadStep(t) \/ ListStep(t)

(* What the theorems assume of the program and of the system.               *)
Plain == Workloads \subseteq SUBSET PlainOps /\ SuspendWorks /\ ~Bootstrapping

(* The labels on top.                                                       *)
LEMMA Tops ==
    ASSUME ShapeInv, NEW t \in Threads
    PROVE  /\ stack[t] \in Seq(Label) /\ stack[t] # <<>> /\ At(t) \in Label \ ForcedLabels
           /\ t \in list => /\ Inside(t, stack[t])
                            /\ At(t) \in Work \cup CreationHeads
                                         \cup {"unbless", "remove", "removing", "none"}
           /\ t \notin list => /\ Outside(t, stack[t])
                               /\ At(t) \in BlessingHeads
                                            \cup {"dec", "decStore", "ended", "none", "foreign"}
<1>1. Placed(t, stack[t])
  BY DEF ShapeInv
<1>2. Work \cup CreationHeads \cup {"unbless", "remove", "removing", "none"}
      \subseteq Label \ ForcedLabels
  BY DEF Work, CreationHeads, Label, ForcedLabels
<1>3. BlessingHeads \cup {"dec", "decStore", "ended", "none", "foreign"}
      \subseteq Label \ ForcedLabels
  BY DEF BlessingHeads, Label, ForcedLabels
<1>4. CASE t \in list
  <2>1. Inside(t, stack[t])
    BY <1>1, <1>4 DEF Placed
  <2> QED BY <1>2, <1>4, <2>1, InsideIs DEF At
<1>5. CASE t \notin list
  <2>1. Outside(t, stack[t])
    BY <1>1, <1>5 DEF Placed
  <2> QED BY <1>3, <1>5, <2>1, OutsideIs DEF At
<1> QED BY <1>4, <1>5

(* No other steps are taken.                                                *)
LEMMA OnlyPlain ==
    ASSUME Plain, Typed, ShapeInv, Next
    PROVE  RunLispThread \/ \E t \in Threads : PlainStep(t)
<1>1. CASE RunLispThread
  BY <1>1
<1>2. CASE \E t \in Threads : Choose(t) \/ Continue(t) \/ RetrySuspend(t) \/ EndUnsafe(t)
  <2>1. PICK t \in Threads : Choose(t) \/ Continue(t) \/ RetrySuspend(t) \/ EndUnsafe(t)
    BY <1>2
  <2>2. At(t) \notin ForcedLabels
    BY Tops
  <2>3. ~ CallTerminateLispThread(t)
    <3>1. "terminate" \notin ops
      BY DEF Plain, Typed, PlainOps
    <3> QED BY <3>1 DEF CallTerminateLispThread
  <2>4. ~ FindPrimary(t) /\ ~ SuspendPrimary(t) /\ ~ Redirect(t)
        /\ ~ SuspendTarget(t) /\ ~ ThrowExit(t) /\ ~ LoadImage(t)
    BY <2>2 DEF FindPrimary, SuspendPrimary, Redirect, SuspendTarget, ThrowExit, LoadImage,
                Runs, ForcedLabels
  <2> QED BY <2>1, <2>3, <2>4
          DEF Choose, Continue, PlainStep, StopStep, StillStep, CodeStep, ThreadStep, ListStep
<1> QED BY <1>1, <1>2 DEF Next

(* The thread comes to a label that may follow.                             *)
Moved(t) == Head(stack'[t]) \in Follow(At(t))
Rested == UNCHANGED <<stack, locks>>

(* Only the stack of t changes, and the list does not.                      *)
LEMMA Moving ==
    ASSUME Typed, ShapeInv, NEW t \in Threads, NEW x,
           stack' = [stack EXCEPT ![t] = x], list' = list,
           Placed(t, x), Head(x) \in Follow(At(t))
    PROVE  ShapeInv' /\ Moved(t)
<1>1. stack'[t] = x /\ \A u \in Threads \ {t} : stack'[u] = stack[u]
  BY DEF Typed
<1>2. \A u \in Threads : Placed(u, stack'[u])
  BY <1>1 DEF ShapeInv
<1>3. \A u, s : Placed(u, s)' <=> Placed(u, s)
  BY DEF Placed
<1> QED BY <1>1, <1>2 DEF Moved, ShapeInv, Placed

(* A step is done.                                                          *)
LEMMA Finished ==
    ASSUME Typed, ShapeInv, NEW t \in Threads, Done(t), list' = list,
           At(t) \in (PopLabels \cup {"newQV", "decStore"}) \ {"inserting"}
    PROVE  ShapeInv' /\ Moved(t)
<1> DEFINE s == stack[t]
<1>1. s \in Seq(Label) /\ s # <<>>
  BY Tops
<1>2. Tail(s) \in Seq(Label)
  BY <1>1, HeadTailProperties
<1>3. stack' = [stack EXCEPT ![t] = Tail(s)]
  <2>1. <<>> \o Tail(s) = Tail(s)
    BY <1>2, ConcatEmptySeq
  <2> QED BY <2>1 DEF Done, Do, Typed
<1>4. CASE t \in list
  <2>1. Inside(t, s)
    BY <1>4, Tops
  <2>2. Head(s) \in PopLabels
    BY <1>4, Tops DEF At, Work, CreationHeads
  <2>3. Inside(t, Tail(s)) /\ Head(Tail(s)) \in Follow(Head(s))
    BY <2>1, <2>2, PopInside
  <2> QED BY <1>3, <1>4, <2>3, Moving DEF Placed, At
<1>5. CASE t \notin list
  <2>1. Outside(t, s)
    BY <1>5, Tops
  <2>2. Head(s) \in {"enter", "newQV", "incStore", "decStore"}
    BY <1>5, Tops DEF At, BlessingHeads, PopLabels, Work, CreationHeads
  <2>3. Outside(t, Tail(s)) /\ Head(Tail(s)) \in Follow(Head(s))
    BY <2>1, <2>2, PopOutside
  <2> QED BY <1>3, <1>5, <2>3, Moving DEF Placed, At
<1> QED BY <1>4, <1>5

(* A step is followed by another one of the same body.                      *)
LEMMA Relabelled ==
    ASSUME Typed, ShapeInv, NEW t \in Threads, NEW m, Do(t, <<m>>), list' = list,
           <<At(t), m>> \in {<<"suspend", "suspending">>, <<"resume", "resuming">>,
                             <<"take", "leave">>, <<"bump", "leave">>,
                             <<"ensureSafe", "safe">>, <<"inc", "incStore">>,
                             <<"insert", "inserting">>, <<"remove", "removing">>,
                             <<"dec", "decStore">>}
    PROVE  ShapeInv' /\ Moved(t)
<1> DEFINE s == stack[t]
<1>1. stack' = [stack EXCEPT ![t] = <<m>> \o Tail(s)]
  BY DEF Do, Typed
<1>2. m \in Follow(At(t))
  BY DEF Follow
<1>3. CASE t \in list
  <2>1. Inside(t, s) /\ At(t) # "dec"
    BY <1>3, Tops DEF Work, CreationHeads
  <2>2. Inside(t, <<m>> \o Tail(s)) /\ Head(<<m>> \o Tail(s)) = m
    BY <2>1, RelabelInside DEF At
  <2> QED BY <1>1, <1>2, <1>3, <2>2, Moving DEF Placed
<1>4. CASE t \notin list
  <2>1. Outside(t, s) /\ At(t) \in {"inc", "insert", "dec"}
    BY <1>4, Tops DEF BlessingHeads
  <2>2. Outside(t, <<m>> \o Tail(s)) /\ Head(<<m>> \o Tail(s)) = m
    BY <2>1, RelabelOutside DEF At
  <2> QED BY <1>1, <1>2, <1>4, <2>2, Moving DEF Placed
<1> QED BY <1>3, <1>4

(* The list is what the records say.                                        *)
LEMMA SameList == UNCHANGED rec => list' = list
BY DEF list

(* An update of another field of a record leaves the list as it is.         *)
LEMMA SameListed ==
    ASSUME Typed,
           \/ \E o, b : rec' = [rec EXCEPT ![o].handle = b]
           \/ \E o, b : rec' = [rec EXCEPT ![o].event = b]
           \/ \E o, b : rec' = [rec EXCEPT ![o].qv = b]
           \/ \E o, b, c : rec' = [rec EXCEPT ![o].handle = b, ![o].qv = c]
    PROVE  list' = list
<1> SUFFICES ASSUME NEW v \in Threads PROVE rec'[v].listed = rec[v].listed
  BY DEF list
<1>0. rec \in [Threads -> Record] /\ rec[v] \in Record
  BY DEF Typed
<1>1. ASSUME NEW o, NEW b, rec' = [rec EXCEPT ![o].handle = b]
      PROVE  rec'[v].listed = rec[v].listed
  <2>1. rec'[v] = IF v = o THEN [rec[v] EXCEPT !.handle = b] ELSE rec[v]
    BY <1>0, <1>1
  <2> QED BY <1>0, <2>1 DEF Record
<1>2. ASSUME NEW o, NEW b, rec' = [rec EXCEPT ![o].event = b]
      PROVE  rec'[v].listed = rec[v].listed
  <2>1. rec'[v] = IF v = o THEN [rec[v] EXCEPT !.event = b] ELSE rec[v]
    BY <1>0, <1>2
  <2> QED BY <1>0, <2>1 DEF Record
<1>3. ASSUME NEW o, NEW b, rec' = [rec EXCEPT ![o].qv = b]
      PROVE  rec'[v].listed = rec[v].listed
  <2>1. rec'[v] = IF v = o THEN [rec[v] EXCEPT !.qv = b] ELSE rec[v]
    BY <1>0, <1>3
  <2> QED BY <1>0, <2>1 DEF Record
<1>4. ASSUME NEW o, NEW b, NEW c, rec' = [rec EXCEPT ![o].handle = b, ![o].qv = c]
      PROVE  rec'[v].listed = rec[v].listed
  <2>1. rec'[v] = IF v = o THEN [[rec[v] EXCEPT !.handle = b] EXCEPT !.qv = c] ELSE rec[v]
    BY <1>0, <1>4
  <2> QED BY <1>0, <2>1 DEF Record
<1> QED BY <1>1, <1>2, <1>3, <1>4

(* The steps of Lisp code, of allocations and of hooks.                     *)
LEMMA CodeShape ==
    ASSUME Plain, Typed, ShapeInv, NEW t \in Threads, CodeStep(t)
    PROVE  ShapeInv' /\ Moved(t) /\ list' = list
<1> DEFINE s == stack[t]
<1>0. list' = list
  <2>1. CASE Collect(t)
    <3>1. \A u \in Threads : rec'[u].listed = rec[u].listed
      BY <2>1 DEF Collect, Typed, Record
    <3> QED BY <3>1 DEF list
  <2>2. CASE ~ Collect(t)
    BY <2>2, SameList
    DEF CodeStep, CallFromLisp, LeaveLisp, CallFromClient, EnterLock, LeaveLock, TakeBlock,
        Bump, EnterCollection, RunHooks
  <2> QED BY <2>1, <2>2
<1>00. ops \subseteq PlainOps
  BY DEF Plain, Typed
<1>1. CASE CallFromLisp(t)
  <2>1. PICK op \in CalledOps : Do(t, Body(op) \o <<"lisp">>)
    BY <1>1, <1>00 DEF CallFromLisp, CalledOps, PlainOps
  <2>2. At(t) = "lisp" /\ t \in list /\ Inside(t, s)
    BY <1>1, Tops DEF CallFromLisp, Runs, BlessingHeads
  <2>3. /\ Inside(t, (Body(op) \o <<"lisp">>) \o Tail(s))
        /\ Head((Body(op) \o <<"lisp">>) \o Tail(s)) \in Follow("lisp")
    BY <2>2, CallInside DEF At
  <2>4. stack' = [stack EXCEPT ![t] = (Body(op) \o <<"lisp">>) \o Tail(s)]
    BY <2>1 DEF Do, Typed
  <2> QED BY <1>0, <2>2, <2>3, <2>4, Moving DEF Placed
<1>2. CASE LeaveLisp(t)
  <2>1. At(t) = "lisp" /\ t \in list /\ Inside(t, s) /\ s \in Seq(Label) /\ s # <<>>
    BY <1>2, Tops DEF LeaveLisp, Runs, BlessingHeads
  <2>2. t \in Secondaries \/ t \in Foreigners
    BY <1>2 DEF LeaveLisp
  <2>3. Inside(t, Tail(s)) /\ Head(Tail(s)) \in {"remove", "enter"}
    BY <2>1, <2>2, LeaveInside DEF At
  <2>4. stack' = [stack EXCEPT ![t] = Tail(s)]
    <3>1. Tail(s) \in Seq(Label)
      BY <2>1, HeadTailProperties
    <3>2. <<>> \o Tail(s) = Tail(s)
      BY <3>1, ConcatEmptySeq
    <3> QED BY <1>2, <3>2 DEF LeaveLisp, Done, Do, Typed
  <2>5. Head(Tail(s)) \in Follow(At(t))
    BY <2>1, <2>3 DEF Follow
  <2> QED BY <1>0, <2>1, <2>3, <2>4, <2>5, Moving DEF Placed
<1>3. CASE CallFromClient(t)
  <2>1. Do(t, BlessThread) /\ At(t) = "foreign"
    BY <1>3, <1>00 DEF CallFromClient, Runs, PlainOps
  <2>2. t \notin list /\ Outside(t, s)
    BY <2>1, Tops DEF Work, CreationHeads
  <2>3. Waits(t, s) /\ t \in Foreigners
    BY <2>1, <2>2, OutsideIs DEF At
  <2>4. Blesses(t, BlessThread \o Tail(s)) /\ Head(BlessThread \o Tail(s)) = "enter"
    BY <2>3, BlessOutside
  <2>5. stack' = [stack EXCEPT ![t] = BlessThread \o Tail(s)]
    BY <2>1 DEF Do, Typed
  <2>6. Placed(t, BlessThread \o Tail(s)) /\ "enter" \in Follow(At(t))
    BY <2>1, <2>2, <2>4 DEF Placed, Outside, Follow
  <2> QED BY <1>0, <2>4, <2>5, <2>6, Moving
<1>4. CASE EnterLock(t)
  <2>1. Done(t) /\ At(t) \in {"alloc", "enter", "enterCS", "lock"}
    BY <1>4 DEF EnterLock, EnterLabels, Runs
  <2>2. At(t) # "lock"
    BY Tops DEF ForcedLabels
  <2>3. At(t) \in PopLabels \ {"inserting"}
    BY <2>1, <2>2 DEF PopLabels, Work, CreationHeads
  <2> QED BY <1>0, <2>1, <2>3, Finished
<1>5. CASE LeaveLock(t)
  <2>1. Done(t) /\ At(t) \in {"leave", "leaveCS", "unlock"}
    BY <1>5 DEF LeaveLock, LeaveLabels, Runs
  <2>2. At(t) # "unlock"
    BY Tops DEF ForcedLabels
  <2>3. At(t) \in PopLabels \ {"inserting"}
    BY <2>1, <2>2 DEF PopLabels, Work, CreationHeads
  <2> QED BY <1>0, <2>1, <2>3, Finished
<1>6. CASE TakeBlock(t)
  <2>1. At(t) = "take"
    BY <1>6 DEF TakeBlock, Runs
  <2>2. CASE Do(t, <<"leave">>)
    <3>1. <<At(t), "leave">> = <<"take", "leave">>
      BY <2>1
    <3> QED BY <1>0, <2>2, <3>1, Relabelled
  <2>3. CASE Do(t, GarbageCollect \o <<"bump">>)
    <3>1. t \in list /\ Inside(t, s)
      BY <2>1, Tops DEF BlessingHeads
    <3>2. /\ Inside(t, (GarbageCollect \o <<"bump">>) \o Tail(s))
          /\ Head((GarbageCollect \o <<"bump">>) \o Tail(s)) = "gc"
      BY <2>1, <3>1, CollectInside DEF At
    <3>3. stack' = [stack EXCEPT ![t] = (GarbageCollect \o <<"bump">>) \o Tail(s)]
      BY <2>3 DEF Do, Typed
    <3>4. "gc" \in Follow(At(t))
      BY <2>1 DEF Follow
    <3> QED BY <1>0, <3>1, <3>2, <3>3, <3>4, Moving DEF Placed
  <2> QED BY <1>6, <2>2, <2>3 DEF TakeBlock
<1>7. CASE Bump(t)
  <2>1. At(t) = "bump" /\ Do(t, <<"leave">>)
    BY <1>7 DEF Bump, Runs
  <2>2. <<At(t), "leave">> = <<"bump", "leave">>
    BY <2>1
  <2> QED BY <1>0, <2>1, <2>2, Relabelled
<1>8. CASE EnterCollection(t)
  <2>1. At(t) = "gc" /\ Done(t)
    BY <1>8 DEF EnterCollection, Runs, Plain
  <2>2. At(t) \in PopLabels \ {"inserting"}
    BY <2>1 DEF PopLabels, Work
  <2> QED BY <1>0, <2>1, <2>2, Finished
<1>9. CASE Collect(t)
  <2>1. At(t) = "collect" /\ Done(t)
    BY <1>9 DEF Collect, Runs
  <2>2. At(t) \in PopLabels \ {"inserting"}
    BY <2>1 DEF PopLabels, Work
  <2> QED BY <1>0, <2>1, <2>2, Finished
<1>10. CASE RunHooks(t)
  <2>1. At(t) = "hooks"
    BY <1>10 DEF RunHooks, Runs
  <2>2. CASE Done(t)
    <3>1. At(t) \in PopLabels \ {"inserting"}
      BY <2>1 DEF PopLabels, Work
    <3> QED BY <1>0, <2>2, <3>1, Finished
  <2>3. CASE \E op \in CalledOps : Do(t, Body(op))
    <3>1. PICK op \in CalledOps : Do(t, Body(op))
      BY <2>3
    <3>2. t \in list /\ Inside(t, s)
      BY <2>1, Tops DEF BlessingHeads
    <3>3. Inside(t, Body(op) \o Tail(s)) /\ Head(Body(op) \o Tail(s)) \in Follow("hooks")
      BY <2>1, <3>2, HookInside DEF At
    <3>4. stack' = [stack EXCEPT ![t] = Body(op) \o Tail(s)]
      BY <3>1 DEF Do, Typed
    <3> QED BY <1>0, <2>1, <3>2, <3>3, <3>4, Moving DEF Placed
  <2> QED BY <1>10, <2>2, <2>3 DEF RunHooks, CalledOps
<1> QED BY <1>0, <1>1, <1>2, <1>3, <1>4, <1>5, <1>6, <1>7, <1>8, <1>9, <1>10 DEF CodeStep

(* The steps that stop and resume the other threads.                        *)
LEMMA StopShape ==
    ASSUME Typed, ShapeInv, NEW t \in Threads, StopStep(t),
           At(t) = "waking" => loc[t].other \in list
    PROVE  /\ ShapeInv' /\ list' = list
           /\ Moved(t) \/ Rested
<1> DEFINE s == stack[t]
<1>0. list' = list
  BY SameList
  DEF StopStep, BeginSuspend, BeginResume, BeginLoop, EndSuspend, EndResume, EndLoop,
      SuspendOther, ResumeOther, EnsureSafeStates, CheckSafe, WakingDone
<1>1. CASE BeginSuspend(t) \/ BeginResume(t)
  <2>1. PICK m : Do(t, <<m>>) /\ <<At(t), m>> \in {<<"suspend", "suspending">>,
                                                   <<"resume", "resuming">>}
    BY <1>1 DEF BeginSuspend, BeginResume, BeginLoop, Runs
  <2> QED BY <1>0, <2>1, Relabelled
<1>2. CASE EndSuspend(t) \/ EndResume(t)
  <2>1. Done(t) /\ At(t) \in {"suspending", "resuming"}
    BY <1>2 DEF EndSuspend, EndResume, EndLoop, Runs
  <2>2. At(t) \in PopLabels \ {"inserting"}
    BY <2>1 DEF PopLabels, Work
  <2> QED BY <1>0, <2>1, <2>2, Finished
<1>3. CASE EnsureSafeStates(t)
  <2>1. At(t) = "ensureSafe" /\ (Do(t, <<"safe">>) \/ Done(t))
    BY <1>3 DEF EnsureSafeStates, Runs
  <2>2. At(t) \in PopLabels \ {"inserting"} /\ <<At(t), "safe">> = <<"ensureSafe", "safe">>
    BY <2>1 DEF PopLabels, Work
  <2> QED BY <1>0, <2>1, <2>2, Finished, Relabelled
<1>4. CASE CheckSafe(t)
  <2>1. At(t) = "safe"
    BY <1>4 DEF CheckSafe, Runs
  <2>2. At(t) \in PopLabels \ {"inserting"}
    BY <2>1 DEF PopLabels, Work
  <2>3. CASE Done(t)
    BY <1>0, <2>2, <2>3, Finished
  <2>4. CASE Do(t, <<"waking", "safe">>)
    <3>1. t \in list /\ Inside(t, s)
      BY <2>1, Tops DEF BlessingHeads
    <3>2. /\ Inside(t, <<"waking", "safe">> \o Tail(s))
          /\ Head(<<"waking", "safe">> \o Tail(s)) = "waking"
      BY <2>1, <3>1, WakeInside DEF At
    <3>3. stack' = [stack EXCEPT ![t] = <<"waking", "safe">> \o Tail(s)]
      BY <2>4 DEF Do, Typed
    <3>4. "waking" \in Follow(At(t))
      BY <2>1 DEF Follow
    <3> QED BY <1>0, <3>1, <3>2, <3>3, <3>4, Moving DEF Placed
  <2>5. CASE UNCHANGED <<stack, locks>>
    BY <1>0, <2>5 DEF ShapeInv, Placed, Rested
  <2> QED BY <1>4, <2>3, <2>4, <2>5 DEF CheckSafe
<1>5. CASE SuspendOther(t) \/ ResumeOther(t)
  <2>1. UNCHANGED <<stack, locks>>
    BY <1>5 DEF SuspendOther, ResumeOther
  <2> QED BY <1>0, <2>1 DEF ShapeInv, Placed, Rested
<1>6. CASE WakingDone(t)
  <2>1. Done(t) /\ At(t) = "waking"
    BY <1>6 DEF WakingDone, Runs
  <2>2. At(t) \in PopLabels \ {"inserting"}
    BY <2>1 DEF PopLabels, Work
  <2> QED BY <1>0, <2>1, <2>2, Finished
<1> QED BY <1>0, <1>1, <1>2, <1>3, <1>4, <1>5, <1>6 DEF StopStep

(* The steps that change neither the stacks nor the list.                   *)
LEMMA StillShape ==
    ASSUME Typed, ShapeInv, NEW t \in Threads, StillStep(t)
    PROVE  ShapeInv' /\ list' = list /\ Rested
<1>1. ~ rec[t].reloaded
  BY DEF Typed, Record
<1>2. UNCHANGED <<stack, rec, locks>>
  BY <1>1 DEF StillStep, BeginUnsafe, EndUnsafe, RetrySuspend, Unbless, vars
<1> QED BY <1>2, SameList DEF ShapeInv, Placed, Rested

(* The steps of creation and blessing that do not change the list.          *)
LEMMA ThreadShape ==
    ASSUME Typed, ShapeInv, NEW t \in Threads, ThreadStep(t)
    PROVE  ShapeInv' /\ Moved(t) /\ list' = list
<1> DEFINE s == stack[t]
<1>0. list' = list
  <2>1. CASE NewQV(t)
    <3>1. t \notin list
      BY <2>1, Tops DEF NewQV, Runs, Work, CreationHeads
    <3>2. rec' = [rec EXCEPT ![t] = [NewRecord EXCEPT !.handle = TRUE, !.qv = "copied"]]
      BY <2>1 DEF NewQV
    <3>3. \A u \in Threads : rec'[u].listed <=> rec[u].listed
      BY <3>1, <3>2 DEF NewRecord, Typed, list
    <3> QED BY <3>3 DEF list
  <2>2. CASE CallRunSecondaryThread(t)
    <3>1. PICK u \in Secondaries : rec' = [rec EXCEPT ![u].qv = "copied"]
      BY <2>2 DEF CallRunSecondaryThread
    <3> QED BY <3>1, SameListed
  <2>3. CASE ResumeNewThread(t) \/ FindRecord(t) \/ AwaitEvent(t)
    <3>1. \/ \E o, b : rec' = [rec EXCEPT ![o].handle = b]
          \/ \E o, b : rec' = [rec EXCEPT ![o].event = b]
      BY <2>3 DEF ResumeNewThread, FindRecord, AwaitEvent
    <3> QED BY <3>1, SameListed
  <2>4. CASE ReadNum(t) \/ StoreNum(t) \/ LockList(t) \/ ReadThreadID(t)
    BY <2>4, SameList DEF ReadNum, StoreNum, LockList, ReadThreadID
  <2> QED BY <2>1, <2>2, <2>3, <2>4 DEF ThreadStep
<1>1. CASE CallRunSecondaryThread(t)
  <2>1. Do(t, RunSecondaryThread \o <<"lisp">>) /\ At(t) = "lisp"
    BY <1>1 DEF CallRunSecondaryThread, Runs
  <2>2. t \in list /\ Inside(t, s)
    BY <2>1, Tops DEF BlessingHeads
  <2>3. /\ Creates(t, (RunSecondaryThread \o <<"lisp">>) \o Tail(s))
        /\ Head((RunSecondaryThread \o <<"lisp">>) \o Tail(s)) = "inc"
    BY <2>1, <2>2, CreateInside DEF At
  <2>4. stack' = [stack EXCEPT ![t] = (RunSecondaryThread \o <<"lisp">>) \o Tail(s)]
    BY <2>1 DEF Do, Typed
  <2>5. "inc" \in Follow(At(t))
    BY <2>1 DEF Follow
  <2>6. Placed(t, (RunSecondaryThread \o <<"lisp">>) \o Tail(s))
    BY <2>2, <2>3 DEF Placed, Inside
  <2> QED BY <1>0, <2>3, <2>4, <2>5, <2>6, Moving
<1>2. CASE ReadNum(t) \/ LockList(t)
  <2>1. PICK m : Do(t, <<m>>) /\ <<At(t), m>> \in {<<"inc", "incStore">>, <<"dec", "decStore">>,
                                <<"insert", "inserting">>, <<"remove", "removing">>}
    BY <1>2 DEF ReadNum, LockList, Runs
  <2> QED BY <1>0, <2>1, Relabelled
<1>3. CASE \/ StoreNum(t) \/ ResumeNewThread(t) \/ FindRecord(t) \/ AwaitEvent(t)
           \/ ReadThreadID(t) \/ NewQV(t)
  <2>1. Done(t) /\ At(t) \in {"incStore", "decStore", "resumeNew", "find", "await",
                              "threadID", "newQV"}
    BY <1>3 DEF StoreNum, ResumeNewThread, FindRecord, AwaitEvent, ReadThreadID, NewQV, Runs
  <2>2. At(t) \in (PopLabels \cup {"newQV", "decStore"}) \ {"inserting"}
    BY <2>1 DEF PopLabels, Work, CreationHeads
  <2> QED BY <1>0, <2>1, <2>2, Finished
<1> QED BY <1>0, <1>1, <1>2, <1>3 DEF ThreadStep

-----------------------------------------------------------------------------
(* The thread creates another: what it still has to do mentions it.         *)
Before == {"inc", "incStore", "insert", "inserting"}
Creating(t) ==
    /\ t \in list
    /\ \/ At(t) \in Before \cup {"begin", "resumeNew", "await"}
       \/ At(t) = "enter" /\ Head(Tail(stack[t])) = "begin"
Starting(t) == Creating(t) /\ At(t) \notin {"resumeNew", "await"}

(* A thread that is being created has a record and no steps; it is in the   *)
(* list once it was inserted; only one thread creates it.  A thread that    *)
(* blesses itself inserts its own record.                                   *)
CreateInv ==
    /\ \A t \in Threads : Creating(t) => loc[t].other \in Secondaries
    /\ \A t \in Threads : Starting(t) =>
          /\ stack[loc[t].other] = <<"none">>
          /\ rec[loc[t].other].qv # "none"
          /\ loc[t].other \in list <=> At(t) \notin Before
    /\ \A t, u \in Threads :
          Starting(t) /\ Starting(u) /\ loc[t].other = loc[u].other => t = u
    /\ \A t \in Threads \ list : At(t) \in Before => loc[t].other = t

(* The steps that change the list, or start a thread.                       *)
LEMMA ListShape ==
    ASSUME Plain, Typed, ShapeInv, CreateInv, NEW t \in Threads, ListStep(t)
    PROVE  /\ ShapeInv' /\ Moved(t)
           /\ \/ At(t) = "inserting" /\ list' = list \cup {loc[t].other}
              \/ At(t) = "removing" /\ list' = list \ {t} /\ t \in Secondaries
              \/ At(t) = "begin" /\ list' = list
<1> DEFINE s == stack[t]
<1>0. s \in Seq(Label) /\ s # <<>> /\ Tail(s) \in Seq(Label) /\ <<>> \o Tail(s) = Tail(s)
  <2>1. s \in Seq(Label) /\ s # <<>>
    BY Tops
  <2>2. Tail(s) \in Seq(Label)
    BY <2>1, HeadTailProperties
  <2> QED BY <2>1, <2>2, ConcatEmptySeq
<1>1. ASSUME Insert(t)
      PROVE  ShapeInv' /\ Moved(t) /\ At(t) = "inserting" /\ list' = list \cup {loc[t].other}
  <2> DEFINE r == loc[t].other
  <2>1. /\ At(t) = "inserting"
        /\ rec' = [rec EXCEPT ![r].listed = TRUE,
                              ![r].qv = IF r = t THEN Scanned(@) ELSE @]
        /\ Done(t)
    BY <1>1 DEF Insert, Runs
  <2>2. stack' = [stack EXCEPT ![t] = Tail(s)]
    BY <1>0, <2>1 DEF Done, Do, Typed
  <2>3. r \in Threads /\ (t \in list => r \in Secondaries /\ stack[r] = <<"none">> /\ r # t)
        /\ (t \notin list => r = t)
    <3>1. CASE t \in list
      <4>1. Starting(t)
        BY <2>1, <3>1 DEF Starting, Creating, Before
      <4>2. r \in Secondaries /\ stack[r] = <<"none">>
        BY <4>1 DEF CreateInv, Starting
      <4>3. Head(<<"none">>) = "none"
        BY Tuple1
      <4>4. r # t
        BY <2>1, <4>2, <4>3 DEF At
      <4> QED BY <3>1, <4>2, <4>4 DEF Threads
    <3>2. CASE t \notin list
      BY <2>1, <3>2 DEF CreateInv, Before
    <3> QED BY <3>1, <3>2
  <2> HIDE DEF r
  <2>4. list' = list \cup {r}
    <3>1. rec'[r].listed
      BY <2>1, <2>3 DEF Typed, Record
    <3>2. \A u \in Threads \ {r} : rec'[u].listed = rec[u].listed
      BY <2>1, <2>3 DEF Typed, Record
    <3> QED BY <2>3, <3>1, <3>2 DEF list
  <2>5. stack'[t] = Tail(s) /\ \A u \in Threads \ {t} : stack'[u] = stack[u]
    BY <2>2 DEF Typed
  <2>6. Inside(t, Tail(s)) /\ Head(Tail(s)) \in Follow(At(t))
    <3>1. CASE t \in list
      <4>1. Inside(t, s)
        BY <3>1, Tops
      <4>2. Head(s) \in PopLabels
        BY <2>1 DEF At, PopLabels, CreationHeads
      <4> QED BY <4>1, <4>2, PopInside DEF At
    <3>2. CASE t \notin list
      <4>1. Outside(t, s)
        BY <3>2, Tops
      <4> QED BY <2>1, <4>1, PopOutside DEF At, Follow
    <3> QED BY <3>1, <3>2
  <2>7. ASSUME NEW u \in Threads
        PROVE  IF u \in list' THEN Inside(u, stack'[u]) ELSE Outside(u, stack'[u])
    <3>1. CASE u = t
      BY <2>3, <2>4, <2>5, <2>6, <3>1
    <3>2. CASE u # t /\ u = r
      <4>1. u \in Secondaries /\ stack'[u] = <<"none">> /\ u \in list'
        BY <2>3, <2>4, <2>5, <3>2
      <4>2. u \notin Foreigners
        BY <4>1, ThreadsAssumption
      <4> QED BY <4>1, <4>2 DEF Inside, Waits
    <3>3. CASE u # t /\ u # r
      BY <2>4, <2>5, <3>3 DEF ShapeInv, Placed
    <3> QED BY <3>1, <3>2, <3>3
  <2>8. ShapeInv'
    BY <2>7 DEF ShapeInv, Placed
  <2> QED BY <2>1, <2>4, <2>5, <2>6, <2>8 DEF Moved, r
<1>2. ASSUME Remove(t)
      PROVE  ShapeInv' /\ Moved(t) /\ At(t) = "removing" /\ list' = list \ {t} /\ t \in Secondaries
  <2>1. At(t) = "removing" /\ rec' = [rec EXCEPT ![t] = NewRecord] /\ Done(t)
    BY <1>2 DEF Remove, Runs
  <2>2. stack' = [stack EXCEPT ![t] = Tail(s)]
    BY <1>0, <2>1 DEF Done, Do, Typed
  <2>3. Inside(t, s)
    BY <2>1, Tops DEF BlessingHeads
  <2>4. Outside(t, Tail(s)) /\ Head(Tail(s)) = "dec" /\ t \in Secondaries
    BY <2>1, <2>3, PopRemoving DEF At
  <2>5. list' = list \ {t}
    BY <2>1 DEF Typed, list, NewRecord
  <2>6. stack'[t] = Tail(s) /\ \A u \in Threads \ {t} : stack'[u] = stack[u]
    BY <2>2 DEF Typed
  <2>7. ASSUME NEW u \in Threads
        PROVE  IF u \in list' THEN Inside(u, stack'[u]) ELSE Outside(u, stack'[u])
    BY <2>4, <2>5, <2>6 DEF ShapeInv, Placed
  <2>8. ShapeInv'
    BY <2>7 DEF ShapeInv, Placed
  <2> QED BY <2>1, <2>4, <2>5, <2>6, <2>8 DEF Moved, Follow
<1>3. ASSUME BeginThread(t)
      PROVE  ShapeInv' /\ Moved(t) /\ At(t) = "begin" /\ list' = list
  <2> DEFINE r == loc[t].other
  <2>1. At(t) = "begin"
    BY <1>3 DEF BeginThread, Runs
  <2>2. t \in list /\ Inside(t, s)
    BY <2>1, Tops DEF BlessingHeads
  <2>3. Starting(t)
    BY <2>1, <2>2 DEF Starting, Creating
  <2>4. r \in Secondaries /\ stack[r] = <<"none">> /\ r \in list /\ r \in Threads
    BY <2>1, <2>3 DEF CreateInv, Starting, Before, Threads
  <2>5. r # t
    <3>1. Head(<<"none">>) = "none"
      BY Tuple1
    <3> QED BY <2>1, <2>4, <3>1 DEF At
  <2>6. Creates(t, s)
    BY <2>1, <2>2, InsideIs DEF At, CreationHeads
  <2>7. list' = list
    <3>1. \/ rec' = [rec EXCEPT ![r].handle = SuspendWorks, ![r].qv = Scanned(@)]
          \/ rec' = [rec EXCEPT ![r].qv = Scanned(@)]
      BY <1>3 DEF BeginThread
    <3> QED BY <3>1, SameListed
  <2>8. CASE stack' = [stack EXCEPT ![r] = SecondaryThreadProc, ![t] = Tail(stack[t])]
    <3>1. /\ stack'[t] = Tail(s) /\ stack'[r] = SecondaryThreadProc
          /\ \A u \in Threads \ {t, r} : stack'[u] = stack[u]
      BY <2>4, <2>5, <2>8 DEF Typed
    <3>2. Inside(t, Tail(s)) /\ Head(Tail(s)) \in Follow(At(t))
      <4>1. Head(s) \in PopLabels
        BY <2>1 DEF At, PopLabels, CreationHeads
      <4> QED BY <2>2, <4>1, PopInside DEF At
    <3>3. Inside(r, SecondaryThreadProc)
      BY <2>4, ProcInside
    <3>4. ASSUME NEW u \in Threads
          PROVE  IF u \in list' THEN Inside(u, stack'[u]) ELSE Outside(u, stack'[u])
      BY <2>2, <2>4, <2>7, <3>1, <3>2, <3>3 DEF ShapeInv, Placed
    <3>5. ShapeInv'
      BY <3>4 DEF ShapeInv, Placed
    <3> QED BY <2>1, <2>7, <3>1, <3>2, <3>5 DEF Moved
  <2>9. CASE stack' = [stack EXCEPT ![t] = SubSeq(@, 6, Len(@))]
    <3>1. stack' = [stack EXCEPT ![t] = SubSeq(s, 6, Len(s))]
      BY <2>9 DEF Typed
    <3>2. SubSeq(s, 6, Len(s)) = Bottom(t)
      BY <2>1, <2>6, CreatesIs DEF At
    <3>3. Inside(t, Bottom(t)) /\ Head(Bottom(t)) \in Follow(At(t))
      BY <2>1, WorksBottom DEF Inside, Follow
    <3>4. ShapeInv' /\ Moved(t)
      BY <2>2, <2>7, <3>1, <3>2, <3>3, Moving DEF Placed
    <3> QED BY <2>1, <2>7, <3>4
  <2> QED BY <1>3, <2>8, <2>9 DEF BeginThread
<1> QED BY <1>1, <1>2, <1>3 DEF ListStep

-----------------------------------------------------------------------------
(* What a step changes.                                                     *)
Changes(t) ==
    /\ ~ exited /\ susp[t] = 0
    /\ \A u \in Threads \ {t} :
          \/ stack'[u] = stack[u]
          \/ At(t) = "begin" /\ u = loc[t].other /\ stack'[u] = SecondaryThreadProc
    /\ \A u \in Threads \ {t} : loc'[u] = loc[u]
    /\ susp' = susp \/ At(t) \in {"suspending", "safe", "waking", "resuming", "begin", "resumeNew"}
    /\ unsafe' \subseteq unsafe \cup {t}
    /\ unsafe' \subseteq unsafe \/ (At(t) \in UnsafeLabels /\ UNCHANGED <<stack, susp, loc>>)
    /\ num' = num \/ At(t) \in {"incStore", "decStore"}
    /\ ops' = ops
    /\ stack' = stack \/ At(t) \notin {"none", "ended"}

(* What the steps of a stop change.                                         *)
LEMMA StopChanges ==
    ASSUME Typed, NEW t \in Threads, StopStep(t)
    PROVE  Changes(t) /\ UNCHANGED <<rec, unsafe, num>>
<1>1. Runs(t, At(t)) /\ UNCHANGED <<rec, unsafe, num, ops>>
  BY DEF StopStep, BeginSuspend, BeginResume, BeginLoop, EndSuspend, EndResume, EndLoop,
         SuspendOther, ResumeOther, EnsureSafeStates, CheckSafe, WakingDone, Runs
<1>2. At(t) \in {"suspend", "resume", "suspending", "resuming", "ensureSafe", "safe", "waking"}
  BY DEF StopStep, BeginSuspend, BeginResume, BeginLoop, EndSuspend, EndResume, EndLoop,
         SuspendOther, ResumeOther, EnsureSafeStates, CheckSafe, WakingDone, Runs
<1>3. \A u \in Threads \ {t} : stack'[u] = stack[u]
  <2>1. UNCHANGED stack \/ \E B : Do(t, B)
    BY DEF StopStep, BeginSuspend, BeginResume, BeginLoop, EndSuspend, EndResume, EndLoop,
           SuspendOther, ResumeOther, EnsureSafeStates, CheckSafe, WakingDone, Done
  <2> QED BY <2>1 DEF Do, Typed
<1>4. \A u \in Threads \ {t} : loc'[u] = loc[u]
  <2>1. \/ UNCHANGED loc
        \/ \E x : loc' = [loc EXCEPT ![t].todo = x]
        \/ \E x : loc' = [loc EXCEPT ![t].other = x]
    BY DEF StopStep, BeginSuspend, BeginResume, BeginLoop, EndSuspend, EndResume, EndLoop,
           SuspendOther, ResumeOther, EnsureSafeStates, CheckSafe, WakingDone, Visited
  <2> QED BY <2>1 DEF Typed
<1>5. susp' = susp \/ At(t) \in {"suspending", "safe", "waking", "resuming"}
  BY DEF StopStep, BeginSuspend, BeginResume, BeginLoop, EndSuspend, EndResume, EndLoop,
         SuspendOther, ResumeOther, EnsureSafeStates, CheckSafe, WakingDone, Runs
<1> QED BY <1>1, <1>2, <1>3, <1>4, <1>5 DEF Changes, Runs

(* What Lisp code and what it calls change.                                 *)
LEMMA CodeChanges ==
    ASSUME Plain, Typed, NEW t \in Threads, CodeStep(t)
    PROVE  Changes(t) /\ UNCHANGED <<susp, unsafe, loc, num>>
<1>1. Runs(t, At(t)) /\ UNCHANGED <<susp, unsafe, loc, num, ops>>
  BY DEF CodeStep, CallFromLisp, LeaveLisp, CallFromClient, EnterLock, LeaveLock, TakeBlock,
         Bump, EnterCollection, Collect, RunHooks, Runs
<1>2. At(t) \notin {"none", "ended"}
  BY DEF CodeStep, CallFromLisp, LeaveLisp, CallFromClient, EnterLock, LeaveLock, TakeBlock,
         Bump, EnterCollection, Collect, RunHooks, Runs, EnterLabels, LeaveLabels
<1>3. \A u \in Threads \ {t} : stack'[u] = stack[u]
  <2>1. \E B : Do(t, B)
    BY DEF CodeStep, CallFromLisp, LeaveLisp, CallFromClient, EnterLock, LeaveLock, TakeBlock,
           Bump, EnterCollection, Collect, RunHooks, Done, Plain
  <2> QED BY <2>1 DEF Do, Typed
<1> QED BY <1>1, <1>2, <1>3 DEF Changes, Runs

(* What the steps that count or create a thread change.                     *)
LEMMA ThreadChanges ==
    ASSUME Typed, NEW t \in Threads, ThreadStep(t)
    PROVE  Changes(t) /\ unsafe' = unsafe
<1>1. Runs(t, At(t)) /\ UNCHANGED <<unsafe, ops>>
  BY DEF ThreadStep, CallRunSecondaryThread, ReadNum, StoreNum, LockList, ResumeNewThread,
         FindRecord, AwaitEvent, ReadThreadID, NewQV, Runs
<1>2. /\ At(t) \notin {"none", "ended"}
      /\ num' = num \/ At(t) \in {"incStore", "decStore"}
      /\ susp' = susp \/ At(t) = "resumeNew"
  BY DEF ThreadStep, CallRunSecondaryThread, ReadNum, StoreNum, LockList, ResumeNewThread,
         FindRecord, AwaitEvent, ReadThreadID, NewQV, Runs
<1>3. \A u \in Threads \ {t} : stack'[u] = stack[u]
  <2>1. \E B : Do(t, B)
    BY DEF ThreadStep, CallRunSecondaryThread, ReadNum, StoreNum, LockList, ResumeNewThread,
           FindRecord, AwaitEvent, ReadThreadID, NewQV, Done
  <2> QED BY <2>1 DEF Do, Typed
<1>4. \A u \in Threads \ {t} : loc'[u] = loc[u]
  <2>1. \/ UNCHANGED loc
        \/ \E x : loc' = [loc EXCEPT ![t].tmp = x]
        \/ \E x : loc' = [loc EXCEPT ![t].other = x]
    BY DEF ThreadStep, CallRunSecondaryThread, ReadNum, StoreNum, LockList, ResumeNewThread,
           FindRecord, AwaitEvent, ReadThreadID, NewQV
  <2> QED BY <2>1 DEF Typed
<1> QED BY <1>1, <1>2, <1>3, <1>4 DEF Changes, Runs

(* What the steps that change the list, or start a thread, change.          *)
LEMMA ListChanges ==
    ASSUME Typed, NEW t \in Threads, ListStep(t)
    PROVE  Changes(t) /\ UNCHANGED <<unsafe, loc, num>>
<1>1. /\ Runs(t, At(t)) /\ UNCHANGED <<unsafe, loc, num, ops>>
      /\ At(t) \in {"inserting", "removing", "begin"}
      /\ susp' = susp \/ At(t) = "begin"
  BY DEF ListStep, Insert, Remove, BeginThread, Runs
<1>2. ASSUME NEW u \in Threads \ {t}
      PROVE  \/ stack'[u] = stack[u]
             \/ At(t) = "begin" /\ u = loc[t].other /\ stack'[u] = SecondaryThreadProc
  <2>1. CASE \E B : Do(t, B)
    BY <2>1 DEF Do, Typed
  <2>2. CASE /\ At(t) = "begin"
             /\ \E x : stack' = [stack EXCEPT ![loc[t].other] = SecondaryThreadProc, ![t] = x]
    BY <2>2 DEF Typed
  <2>3. CASE \E x : stack' = [stack EXCEPT ![t] = x]
    BY <2>3 DEF Typed
  <2>4. \/ \E B : Do(t, B)
        \/ /\ At(t) = "begin"
           /\ \E x : stack' = [stack EXCEPT ![loc[t].other] = SecondaryThreadProc, ![t] = x]
        \/ \E x : stack' = [stack EXCEPT ![t] = x]
    <3>1. CASE Insert(t) \/ Remove(t)
      BY <3>1 DEF Insert, Remove, Done
    <3>2. CASE BeginThread(t)
      BY <3>2 DEF BeginThread, Runs
    <3> QED BY <3>1, <3>2 DEF ListStep
  <2> QED BY <2>1, <2>2, <2>3, <2>4
<1> QED BY <1>1, <1>2 DEF Changes, Runs

(* What the steps that leave the thread where it is change.                 *)
LEMMA StillChanges ==
    ASSUME Typed, NEW t \in Threads, StillStep(t)
    PROVE  Changes(t) /\ UNCHANGED <<stack, rec, susp, loc, num>>
<1>1. ~ rec[t].reloaded
  BY DEF Typed, Record
<1>2. CASE BeginUnsafe(t)
  BY <1>2 DEF BeginUnsafe, Changes, Runs
<1>3. CASE EndUnsafe(t)
  BY <1>3 DEF EndUnsafe, Changes
<1>4. CASE RetrySuspend(t)
  BY <1>4 DEF RetrySuspend, Changes, Runs, vars
<1>5. CASE Unbless(t)
  BY <1>1, <1>5 DEF Unbless, Changes, Runs
<1> QED BY <1>2, <1>3, <1>4, <1>5 DEF StillStep

-----------------------------------------------------------------------------
(* The types.                                                              *)

(* A lock that is entered or left is one.                                   *)
LEMMA LocksTyped ==
    ASSUME Typed, NEW t \in Threads, NEW k \in LockNames,
           UNCHANGED locks \/ Enter(t, k) \/ Leave(t, k)
    PROVE  locks' \in [LockNames -> LockState]
<1>0. locks \in [LockNames -> LockState] /\ locks[k] \in LockState
  BY DEF Typed
<1>1. CASE Enter(t, k)
  <2>1. Entered(t, locks[k]) \in LockState
    BY <1>0 DEF Entered, LockState
  <2> QED BY <1>0, <1>1, <2>1 DEF Enter
<1>2. CASE Leave(t, k)
  <2>1. Left(t, locks[k]) \in LockState
    BY <1>0 DEF Left, LockState, Unlocked
  <2> QED BY <1>0, <1>2, <2>1 DEF Leave
<1> QED BY <1>0, <1>1, <1>2

(* So is the count of a thread that is suspended or resumed.                *)
LEMMA SuspTyped ==
    ASSUME Typed, SuspendWorks, NEW u,
           UNCHANGED susp \/ SuspendThread(u) \/ ResumeThread(u)
    PROVE  /\ susp' \in [Threads -> Nat]
           /\ \A v \in Threads \ {u} : susp'[v] = susp[v]
           /\ SuspendThread(u) /\ u \in Threads => susp'[u] > 0
<1>0. susp \in [Threads -> Nat]
  BY DEF Typed
<1>1. CASE UNCHANGED susp /\ ~ SuspendThread(u)
  BY <1>0, <1>1
<1>2. CASE SuspendThread(u)
  <2>1. susp' = [susp EXCEPT ![u] = @ + 1]
    BY <1>2 DEF SuspendThread
  <2>2. \A v \in Threads : susp'[v] = IF v = u THEN susp[v] + 1 ELSE susp[v]
    BY <1>0, <2>1
  <2>3. DOMAIN susp' = Threads /\ susp' = [v \in Threads |-> susp'[v]]
    BY <1>0, <2>1
  <2> QED BY <1>0, <2>2, <2>3
<1>3. CASE ResumeThread(u) /\ ~ SuspendThread(u)
  <2>1. susp' = [susp EXCEPT ![u] = Resumed(@)]
    BY <1>3 DEF ResumeThread
  <2>2. \A v \in Threads : susp'[v] = IF v = u THEN Resumed(susp[v]) ELSE susp[v]
    BY <1>0, <2>1
  <2>3. DOMAIN susp' = Threads /\ susp' = [v \in Threads |-> susp'[v]]
    BY <1>0, <2>1
  <2>4. \A v \in Threads : Resumed(susp[v]) \in Nat
    BY <1>0 DEF Resumed
  <2> QED BY <1>0, <1>3, <2>2, <2>3, <2>4
<1> QED BY <1>1, <1>2, <1>3

(* So are the local variables.                                              *)
LEMMA LocTyped ==
    ASSUME Typed, NEW t \in Threads,
           \/ UNCHANGED loc
           \/ \E x \in SUBSET Threads : loc' = [loc EXCEPT ![t].todo = x]
           \/ \E x \in Threads : loc' = [loc EXCEPT ![t].other = x]
           \/ \E x \in Int : loc' = [loc EXCEPT ![t].tmp = x]
    PROVE  loc' \in [Threads -> Locals]
BY DEF Typed, Locals

(* So are the records; the values of none are dropped but by removing it.    *)
Kept == \A v \in Threads : rec[v].qv # "none" => rec'[v].qv # "none"

(* A field of one record is replaced: the others stay.                      *)
LEMMA RecReplaced ==
    ASSUME Typed, NEW o \in Threads, NEW r \in Record, rec' = [rec EXCEPT ![o] = r],
           rec[o].qv # "none" => r.qv # "none"
    PROVE  rec' \in [Threads -> Record] /\ Kept
BY DEF Typed, Kept

(* The changes of the records one by one.                                   *)
LEMMA RecTyped ==
    ASSUME Typed, NEW o \in Threads,
           \/ UNCHANGED rec
           \/ \E b \in BOOLEAN : rec' = [rec EXCEPT ![o].handle = b]
           \/ \E b \in BOOLEAN : rec' = [rec EXCEPT ![o].event = b]
           \/ \E b \in BOOLEAN : rec' = [rec EXCEPT ![o].handle = b, ![o].qv = Scanned(@)]
           \/ rec' = [rec EXCEPT ![o].qv = Scanned(@)]
           \/ rec' = [rec EXCEPT ![o].qv = "copied"]
           \/ \E b \in BOOLEAN :
                rec' = [rec EXCEPT ![o].listed = TRUE, ![o].qv = IF b THEN Scanned(@) ELSE @]
           \/ \E r \in Record : r.qv # "none" /\ rec' = [rec EXCEPT ![o] = r]
    PROVE  rec' \in [Threads -> Record] /\ Kept
<1>0. rec \in [Threads -> Record] /\ rec[o] \in Record
  BY DEF Typed
<1>1. CASE UNCHANGED rec
  BY <1>0, <1>1 DEF Kept
<1>2. CASE \E b \in BOOLEAN : rec' = [rec EXCEPT ![o].handle = b]
  <2>0. PICK b \in BOOLEAN : rec' = [rec EXCEPT ![o].handle = b]
    BY <1>2
  <2>1. [rec[o] EXCEPT !.handle = b] \in Record /\ (rec[o].qv # "none" => [rec[o] EXCEPT !.handle = b].qv # "none")
    BY <1>0 DEF Record
  <2>2. rec' = [rec EXCEPT ![o] = [rec[o] EXCEPT !.handle = b]]
    BY <1>0, <2>0
  <2> QED BY <1>0, <2>1, <2>2, RecReplaced DEF Kept
<1>3. CASE \E b \in BOOLEAN : rec' = [rec EXCEPT ![o].event = b]
  <2>0. PICK b \in BOOLEAN : rec' = [rec EXCEPT ![o].event = b]
    BY <1>3
  <2>1. [rec[o] EXCEPT !.event = b] \in Record /\ (rec[o].qv # "none" => [rec[o] EXCEPT !.event = b].qv # "none")
    BY <1>0 DEF Record
  <2>2. rec' = [rec EXCEPT ![o] = [rec[o] EXCEPT !.event = b]]
    BY <1>0, <2>0
  <2> QED BY <1>0, <2>1, <2>2, RecReplaced DEF Kept
<1>4. CASE \E b \in BOOLEAN : rec' = [rec EXCEPT ![o].handle = b, ![o].qv = Scanned(@)]
  <2>0. PICK b \in BOOLEAN : rec' = [rec EXCEPT ![o].handle = b, ![o].qv = Scanned(@)]
    BY <1>4
  <2>1. [rec[o] EXCEPT !.handle = b, !.qv = Scanned(rec[o].qv)] \in Record /\ (rec[o].qv # "none" => [rec[o] EXCEPT !.handle = b, !.qv = Scanned(rec[o].qv)].qv # "none")
    BY <1>0 DEF Record, Scanned
  <2>2. rec' = [rec EXCEPT ![o] = [rec[o] EXCEPT !.handle = b, !.qv = Scanned(rec[o].qv)]]
    BY <1>0, <2>0
  <2> QED BY <1>0, <2>1, <2>2, RecReplaced DEF Kept
<1>5. CASE rec' = [rec EXCEPT ![o].qv = Scanned(@)]
  <2>1. [rec[o] EXCEPT !.qv = Scanned(rec[o].qv)] \in Record /\ (rec[o].qv # "none" => [rec[o] EXCEPT !.qv = Scanned(rec[o].qv)].qv # "none")
    BY <1>0 DEF Record, Scanned
  <2>2. rec' = [rec EXCEPT ![o] = [rec[o] EXCEPT !.qv = Scanned(rec[o].qv)]]
    BY <1>0, <1>5
  <2> QED BY <1>0, <2>1, <2>2, RecReplaced DEF Kept
<1>6. CASE rec' = [rec EXCEPT ![o].qv = "copied"]
  <2>1. [rec[o] EXCEPT !.qv = "copied"] \in Record /\ (rec[o].qv # "none" => [rec[o] EXCEPT !.qv = "copied"].qv # "none")
    BY <1>0 DEF Record
  <2>2. rec' = [rec EXCEPT ![o] = [rec[o] EXCEPT !.qv = "copied"]]
    BY <1>0, <1>6
  <2> QED BY <1>0, <2>1, <2>2, RecReplaced DEF Kept
<1>7. CASE \E b \in BOOLEAN : rec' = [rec EXCEPT ![o].listed = TRUE, ![o].qv = IF b THEN Scanned(@) ELSE @]
  <2>0. PICK b \in BOOLEAN : rec' = [rec EXCEPT ![o].listed = TRUE, ![o].qv = IF b THEN Scanned(@) ELSE @]
    BY <1>7
  <2>1. [rec[o] EXCEPT !.listed = TRUE, !.qv = IF b THEN Scanned(rec[o].qv) ELSE rec[o].qv] \in Record /\ (rec[o].qv # "none" => [rec[o] EXCEPT !.listed = TRUE, !.qv = IF b THEN Scanned(rec[o].qv) ELSE rec[o].qv].qv # "none")
    BY <1>0 DEF Record, Scanned
  <2>2. rec' = [rec EXCEPT ![o] = [rec[o] EXCEPT !.listed = TRUE, !.qv = IF b THEN Scanned(rec[o].qv) ELSE rec[o].qv]]
    BY <1>0, <2>0
  <2> QED BY <1>0, <2>1, <2>2, RecReplaced DEF Kept
<1>8. CASE \E r \in Record : r.qv # "none" /\ rec' = [rec EXCEPT ![o] = r]
  BY <1>8, RecReplaced
<1> QED BY <1>1, <1>2, <1>3, <1>4, <1>5, <1>6, <1>7, <1>8

(* The steps that stop and resume the other threads.                        *)
LEMMA StopTyped ==
    ASSUME Plain, Typed, NEW t \in Threads, StopStep(t)
    PROVE  Typed'
<1>1. UNCHANGED <<rec, unsafe, num, ops>>
  BY DEF StopStep, BeginSuspend, BeginResume, BeginLoop, EndSuspend, EndResume, EndLoop,
         SuspendOther, ResumeOther, EnsureSafeStates, CheckSafe, WakingDone
<1>2. DOMAIN stack' = Threads
  <2>1. UNCHANGED stack \/ \E B : Do(t, B)
    BY DEF StopStep, BeginSuspend, BeginResume, BeginLoop, EndSuspend, EndResume, EndLoop,
           SuspendOther, ResumeOther, EnsureSafeStates, CheckSafe, WakingDone, Done
  <2> QED BY <2>1 DEF Do, Typed
<1>3. locks' \in [LockNames -> LockState]
  <2>1. UNCHANGED locks \/ Enter(t, "TQ") \/ Leave(t, "TQ")
    BY DEF StopStep, BeginSuspend, BeginResume, BeginLoop, EndSuspend, EndResume, EndLoop,
           SuspendOther, ResumeOther, EnsureSafeStates, CheckSafe, WakingDone
  <2> QED BY <2>1, LocksTyped DEF LockNames
<1>4. susp' \in [Threads -> Nat]
  <2>1. \E u : UNCHANGED susp \/ SuspendThread(u) \/ ResumeThread(u)
    BY DEF StopStep, BeginSuspend, BeginResume, BeginLoop, EndSuspend, EndResume, EndLoop,
           SuspendOther, ResumeOther, EnsureSafeStates, CheckSafe, WakingDone
  <2> QED BY <2>1, SuspTyped DEF Plain
<1>5. loc' \in [Threads -> Locals]
  <2>0. list \subseteq Threads /\ loc[t].todo \subseteq Threads
    BY DEF list, Typed, Locals
  <2>1. \/ UNCHANGED loc
        \/ loc' = [loc EXCEPT ![t].todo = list \ {t}]
        \/ \E u \in loc[t].todo : Visited(t, u) \/ loc' = [loc EXCEPT ![t].other = u]
    BY DEF StopStep, BeginSuspend, BeginResume, BeginLoop, EndSuspend, EndResume, EndLoop,
           SuspendOther, ResumeOther, EnsureSafeStates, CheckSafe, WakingDone
  <2>2. ASSUME NEW u, Visited(t, u)
        PROVE  loc' = [loc EXCEPT ![t].todo = loc[t].todo \ {u}]
    BY <2>2 DEF Visited, Typed
  <2>3. \/ UNCHANGED loc
        \/ \E x \in SUBSET Threads : loc' = [loc EXCEPT ![t].todo = x]
        \/ \E x \in Threads : loc' = [loc EXCEPT ![t].other = x]
    BY <2>0, <2>1, <2>2
  <2> QED BY <2>3, LocTyped
<1> QED BY <1>1, <1>2, <1>3, <1>4, <1>5 DEF Typed

(* The steps that change neither the stacks nor the list.                   *)
LEMMA StillTyped ==
    ASSUME Plain, Typed, NEW t \in Threads, StillStep(t)
    PROVE  Typed'
<1>1. UNCHANGED <<stack, rec, susp, loc, num>> /\ ops' = ops /\ unsafe' \subseteq Threads
  BY StillChanges DEF Changes, Typed
<1>2. locks' = locks
  BY DEF StillStep, BeginUnsafe, EndUnsafe, RetrySuspend, Unbless, vars
<1> QED BY <1>1, <1>2 DEF Typed

(* The steps of Lisp code, of allocations and of hooks.                     *)
LEMMA CodeTyped ==
    ASSUME Plain, Typed, NEW t \in Threads, CodeStep(t)
    PROVE  Typed' /\ Kept
<1>1. UNCHANGED <<susp, unsafe, loc, num>> /\ ops' = ops
  BY CodeChanges DEF Changes
<1>2. DOMAIN stack' = Threads
  <2>1. \E B : Do(t, B)
    BY DEF CodeStep, CallFromLisp, LeaveLisp, CallFromClient, EnterLock, LeaveLock, TakeBlock,
           Bump, EnterCollection, Collect, RunHooks, Done, Plain
  <2> QED BY <2>1 DEF Do, Typed
<1>3. locks' \in [LockNames -> LockState]
  <2>1. \E k \in LockNames : UNCHANGED locks \/ Enter(t, k) \/ Leave(t, k)
    <3>1. CASE EnterLock(t)
      BY <3>1 DEF EnterLock, EnterLabels, LockNames
    <3>2. CASE LeaveLock(t)
      BY <3>2 DEF LeaveLock, LeaveLabels, LockNames
    <3>3. CASE EnterCollection(t)
      BY <3>3 DEF EnterCollection, LockNames, Plain
    <3>4. CASE ~ EnterLock(t) /\ ~ LeaveLock(t) /\ ~ EnterCollection(t)
      BY <3>4 DEF CodeStep, CallFromLisp, LeaveLisp, CallFromClient, TakeBlock, Bump, Collect,
                  RunHooks, LockNames
    <3> QED BY <3>1, <3>2, <3>3, <3>4
  <2> QED BY <2>1, LocksTyped
<1>4. rec' \in [Threads -> Record] /\ Kept
  <2>1. CASE Collect(t)
    <3> DEFINE r == [u \in Threads |-> IF rec[u].qv = "copied"
                                       THEN [rec[u] EXCEPT !.qv = "stale"] ELSE rec[u]]
    <3>1. rec' = r
      BY <2>1 DEF Collect
    <3>2. ASSUME NEW u \in Threads
          PROVE  r[u] \in Record /\ (rec[u].qv # "none" => r[u].qv # "none")
      <4>1. rec[u] \in Record
        BY DEF Typed
      <4> QED BY <4>1 DEF Record
    <3>3. r \in [Threads -> Record]
      BY <3>2
    <3> QED BY <3>1, <3>2, <3>3 DEF Kept
  <2>2. CASE ~ Collect(t)
    <3>1. UNCHANGED rec
      BY <2>2 DEF CodeStep, CallFromLisp, LeaveLisp, CallFromClient, EnterLock, LeaveLock,
                  TakeBlock, Bump, EnterCollection, RunHooks
    <3> QED BY <3>1 DEF Typed, Kept
  <2> QED BY <2>1, <2>2
<1> QED BY <1>1, <1>2, <1>3, <1>4 DEF Typed

(* The steps of creation and blessing that do not change the list.          *)
LEMMA ThreadTyped ==
    ASSUME Plain, Typed, ShapeInv, CreateInv, NEW t \in Threads, ThreadStep(t)
    PROVE  Typed' /\ Kept
<1>1. unsafe' = unsafe /\ ops' = ops
  BY ThreadChanges DEF Changes
<1>2. DOMAIN stack' = Threads
  <2>1. \E B : Do(t, B)
    BY DEF ThreadStep, CallRunSecondaryThread, ReadNum, StoreNum, LockList, ResumeNewThread,
           FindRecord, AwaitEvent, ReadThreadID, NewQV, Done
  <2> QED BY <2>1 DEF Do, Typed
<1>3. locks' \in [LockNames -> LockState]
  <2>1. UNCHANGED locks \/ Enter(t, "TQ")
    BY DEF ThreadStep, CallRunSecondaryThread, ReadNum, StoreNum, LockList, ResumeNewThread,
           FindRecord, AwaitEvent, ReadThreadID, NewQV
  <2> QED BY <2>1, LocksTyped DEF LockNames
<1>4. susp' \in [Threads -> Nat]
  <2>1. \E u : UNCHANGED susp \/ ResumeThread(u)
    BY DEF ThreadStep, CallRunSecondaryThread, ReadNum, StoreNum, LockList, ResumeNewThread,
           FindRecord, AwaitEvent, ReadThreadID, NewQV
  <2> QED BY <2>1, SuspTyped DEF Plain
<1>5. loc' \in [Threads -> Locals]
  <2>1. \/ UNCHANGED loc
        \/ \E x \in Threads : loc' = [loc EXCEPT ![t].other = x]
        \/ \E x \in Int : loc' = [loc EXCEPT ![t].tmp = x]
    BY DEF ThreadStep, CallRunSecondaryThread, ReadNum, StoreNum, LockList, ResumeNewThread,
           FindRecord, AwaitEvent, ReadThreadID, NewQV, Threads, Typed
  <2> QED BY <2>1, LocTyped
<1>6. num' \in Int
  BY DEF ThreadStep, CallRunSecondaryThread, ReadNum, StoreNum, LockList, ResumeNewThread,
         FindRecord, AwaitEvent, ReadThreadID, NewQV, Typed, Locals
<1>7. rec' \in [Threads -> Record] /\ Kept
  <2>1. CASE CallRunSecondaryThread(t)
    <3>1. \E u \in Threads : rec' = [rec EXCEPT ![u].qv = "copied"]
      BY <2>1 DEF CallRunSecondaryThread, Threads
    <3> QED BY <3>1, RecTyped
  <2>2. CASE ResumeNewThread(t) \/ AwaitEvent(t)
    <3>1. At(t) \in {"resumeNew", "await"}
      BY <2>2 DEF ResumeNewThread, AwaitEvent, Runs
    <3>2. t \in list
      BY <3>1, Tops DEF BlessingHeads
    <3>3. loc[t].other \in Threads
      BY <3>1, <3>2 DEF CreateInv, Creating, Threads
    <3>4. \E b \in BOOLEAN : \/ rec' = [rec EXCEPT ![loc[t].other].handle = b]
                             \/ rec' = [rec EXCEPT ![loc[t].other].event = b]
      BY <2>2 DEF ResumeNewThread, AwaitEvent
    <3> QED BY <3>3, <3>4, RecTyped
  <2>3. CASE FindRecord(t)
    <3>1. rec[t].handle \in BOOLEAN /\ rec' = [rec EXCEPT ![t].event = rec[t].handle]
      BY <2>3 DEF FindRecord, Typed, Record
    <3> QED BY <3>1, RecTyped
  <2>4. CASE NewQV(t)
    <3> DEFINE r == [NewRecord EXCEPT !.handle = TRUE, !.qv = "copied"]
    <3>1. r \in Record /\ r.qv # "none"
      BY DEF NewRecord, Record
    <3>2. rec' = [rec EXCEPT ![t] = r]
      BY <2>4 DEF NewQV
    <3> HIDE DEF r
    <3> QED BY <3>1, <3>2, RecTyped
  <2>5. CASE ReadNum(t) \/ StoreNum(t) \/ LockList(t) \/ ReadThreadID(t)
    <3>1. UNCHANGED rec
      BY <2>5 DEF ReadNum, StoreNum, LockList, ReadThreadID
    <3> QED BY <3>1 DEF Typed, Kept
  <2> QED BY <2>1, <2>2, <2>3, <2>4, <2>5 DEF ThreadStep
<1> QED BY <1>1, <1>2, <1>3, <1>4, <1>5, <1>6, <1>7 DEF Typed

(* The steps that change the list, or start a thread.                       *)
LEMMA ListTyped ==
    ASSUME Plain, Typed, ShapeInv, CreateInv, NEW t \in Threads, ListStep(t)
    PROVE  /\ Typed'
           /\ \A v \in Threads : rec[v].qv # "none" /\ (At(t) = "removing" => v # t)
                                 => rec'[v].qv # "none"
<1>1. UNCHANGED <<unsafe, loc, num>> /\ ops' = ops
  BY ListChanges DEF Changes
<1>2. DOMAIN stack' = Threads
  <2>1. CASE Insert(t) \/ Remove(t)
    BY <2>1 DEF Insert, Remove, Done, Do, Typed
  <2>2. CASE BeginThread(t)
    BY <2>2 DEF BeginThread, Typed
  <2> QED BY <2>1, <2>2 DEF ListStep
<1>3. locks' \in [LockNames -> LockState]
  <2>1. UNCHANGED locks \/ Leave(t, "TQ")
    BY DEF ListStep, Insert, Remove, BeginThread
  <2> QED BY <2>1, LocksTyped DEF LockNames
<1>4. susp' \in [Threads -> Nat]
  <2>1. \E u : UNCHANGED susp \/ SuspendThread(u)
    BY DEF ListStep, Insert, Remove, BeginThread
  <2> QED BY <2>1, SuspTyped DEF Plain
<1>5. CASE Insert(t)
  <2> DEFINE r == loc[t].other
  <2>1. At(t) = "inserting"
    BY <1>5 DEF Insert, Runs
  <2>2. r \in Threads
    <3>1. CASE t \in list
      BY <2>1, <3>1 DEF CreateInv, Creating, Before, Threads
    <3>2. CASE t \notin list
      BY <2>1, <3>2 DEF CreateInv, Before
    <3> QED BY <3>1, <3>2
  <2>3. \E b \in BOOLEAN :
          rec' = [rec EXCEPT ![r].listed = TRUE, ![r].qv = IF b THEN Scanned(@) ELSE @]
    <3>1. rec' = [rec EXCEPT ![r].listed = TRUE,
                             ![r].qv = IF r = t THEN Scanned(@) ELSE @]
      BY <1>5 DEF Insert
    <3> QED BY <3>1
  <2> HIDE DEF r
  <2>4. rec' \in [Threads -> Record] /\ Kept
    BY <2>2, <2>3, RecTyped
  <2> QED BY <1>1, <1>2, <1>3, <1>4, <2>1, <2>4 DEF Typed, Kept
<1>6. CASE Remove(t)
  <2>1. At(t) = "removing" /\ rec' = [rec EXCEPT ![t] = NewRecord] /\ NewRecord \in Record
    BY <1>6 DEF Remove, Runs, NewRecord, Record
  <2>2. /\ rec' \in [Threads -> Record]
        /\ \A v \in Threads \ {t} : rec'[v] = rec[v]
    BY <2>1 DEF Typed
  <2> QED BY <1>1, <1>2, <1>3, <1>4, <2>1, <2>2 DEF Typed
<1>7. CASE BeginThread(t)
  <2> DEFINE r == loc[t].other
  <2>1. At(t) = "begin"
    BY <1>7 DEF BeginThread, Runs
  <2>2. t \in list
    BY <2>1, Tops DEF BlessingHeads
  <2>3. r \in Threads
    BY <2>1, <2>2 DEF CreateInv, Creating, Threads
  <2>4. \/ \E b \in BOOLEAN : rec' = [rec EXCEPT ![r].handle = b, ![r].qv = Scanned(@)]
        \/ rec' = [rec EXCEPT ![r].qv = Scanned(@)]
    BY <1>7 DEF BeginThread, Plain
  <2> HIDE DEF r
  <2>5. rec' \in [Threads -> Record] /\ Kept
    BY <2>3, <2>4, RecTyped
  <2> QED BY <1>1, <1>2, <1>3, <1>4, <2>1, <2>5 DEF Typed, Kept
<1> QED BY <1>5, <1>6, <1>7 DEF ListStep

-----------------------------------------------------------------------------
(* Locks.                                                                  *)

(* The labels at which a thread holds the lock of the list, and those that  *)
(* enter GCCriticalSection.                                                *)
Listing == {"suspending", "waking", "inserting", "removing", "resuming"}
Entering == {"alloc", "enter", "gc"}

(* What a step of t does to the lock of the list and to the other.          *)
ListLock(t) ==
    \/ /\ locks'["TQ"] = locks["TQ"]
       /\ stack' = stack \/ (At(t) \notin Listing /\ Head(stack'[t]) \notin Listing)
    \/ /\ At(t) \notin Listing /\ Head(stack'[t]) \in Listing
       /\ CanEnter(t, "TQ") /\ locks'["TQ"] = Entered(t, locks["TQ"])
    \/ /\ At(t) \in Listing /\ Head(stack'[t]) \notin Listing
       /\ locks'["TQ"] = Left(t, locks["TQ"])
HeapLock(t) ==
    \/ /\ locks'["GC"] = locks["GC"]
       /\ stack' = stack \/ At(t) \notin Entering
    \/ /\ At(t) \in Entering
       /\ CanEnter(t, "GC") /\ locks'["GC"] = Entered(t, locks["GC"])
    \/ At(t) = "leave" /\ locks'["GC"] = Left(t, locks["GC"])

(* The other locks stay as they are.                                        *)
LEMMA OneLock ==
    ASSUME Typed, NEW t \in Threads, NEW k \in LockNames, Enter(t, k) \/ Leave(t, k)
    PROVE  /\ \A j \in LockNames \ {k} : locks'[j] = locks[j]
           /\ Enter(t, k) => CanEnter(t, k) /\ locks'[k] = Entered(t, locks[k])
           /\ Leave(t, k) => locks'[k] = Left(t, locks[k])
BY DEF Enter, Leave, Typed

(* Which labels are followed by one of these.                               *)
LEMMA ListingFollows ==
    ASSUME NEW l, NEW m \in Follow(l),
           l \notin {"suspend", "resume", "insert", "remove", "safe"}
    PROVE  m \notin Listing
BY DEF Follow, Below, Listing

(* From these labels a thread comes to walk or to change the list.          *)
LEMMA ListingComes ==
    ASSUME NEW l \in {"suspend", "resume", "insert", "remove"}, NEW m \in Follow(l)
    PROVE  m \in Listing
BY DEF Follow, Listing

(* The loop that looks at every thread ends with the collection.            *)
LEMMA SafeEnds ==
    ASSUME Typed, ShapeInv, NEW t \in Threads, At(t) = "safe", Done(t)
    PROVE  Head(stack'[t]) = "collect"
<1> DEFINE s == stack[t]
<1>1. Works(t, s)
  <2>1. Inside(t, s)
    BY Tops DEF BlessingHeads
  <2> QED BY <2>1, InsideIs DEF At, Work
<1>2. Works(t, Tail(s)) /\ Head(Tail(s)) \in Below("safe")
  BY <1>1, WorksPop DEF At
<1>3. stack'[t] = <<>> \o Tail(s)
  BY DEF Done, Do, Typed
<1>4. <<>> \o Tail(s) = Tail(s)
  BY <1>2, WorksHead, ConcatEmptySeq
<1> QED BY <1>2, <1>3, <1>4 DEF Below

(* ensureSafeState comes to wait for the thread it woke.                    *)
LEMMA SafeWakes ==
    ASSUME Typed, ShapeInv, NEW t \in Threads, Do(t, <<"waking", "safe">>)
    PROVE  Head(stack'[t]) = "waking"
<1>1. stack[t] \in Seq(Label) /\ stack[t] # <<>>
  BY Tops
<1>2. Tail(stack[t]) \in Seq(Label) /\ <<"waking", "safe">> \in Seq(Label)
      /\ <<"waking", "safe">> # <<>> /\ <<"waking", "safe">>[1] = "waking"
  BY <1>1, HeadTailProperties DEF Label
<1>3. stack'[t] = <<"waking", "safe">> \o Tail(stack[t])
  BY DEF Do, Typed
<1> QED BY <1>2, <1>3, HeadOfConcat

(* The steps that stop and resume the other threads.                        *)
LEMMA StopLocks ==
    ASSUME Typed, ShapeInv, NEW t \in Threads, StopStep(t),
           At(t) = "waking" => loc[t].other \in list
    PROVE  ListLock(t) /\ HeapLock(t)
<1>0. Moved(t) \/ Rested
  BY StopShape
<1>1. At(t) \in {"suspend", "resume", "suspending", "resuming", "ensureSafe", "safe", "waking"}
  BY DEF StopStep, BeginSuspend, BeginResume, BeginLoop, EndSuspend, EndResume, EndLoop,
         SuspendOther, ResumeOther, EnsureSafeStates, CheckSafe, WakingDone, Runs
<1>2. At(t) \notin Entering
  BY <1>1 DEF Entering
<1>3. locks'["GC"] = locks["GC"]
  <2>1. UNCHANGED locks \/ Enter(t, "TQ") \/ Leave(t, "TQ")
    BY DEF StopStep, BeginSuspend, BeginResume, BeginLoop, EndSuspend, EndResume, EndLoop,
           SuspendOther, ResumeOther, EnsureSafeStates, CheckSafe, WakingDone
  <2> QED BY <2>1, OneLock DEF LockNames
<1>4. CASE Rested
  BY <1>3, <1>4 DEF Rested, ListLock, HeapLock
<1>5. CASE Moved(t) /\ ~ Rested
  <2>1. CASE BeginSuspend(t) \/ BeginResume(t)
    <3>1. At(t) \in {"suspend", "resume"} /\ Enter(t, "TQ")
      BY <2>1 DEF BeginSuspend, BeginResume, BeginLoop, Runs
    <3>2. At(t) \notin Listing
      BY <3>1 DEF Listing
    <3>3. Head(stack'[t]) \in Listing
      BY <1>5, <3>1, ListingComes DEF Moved
    <3>4. CanEnter(t, "TQ") /\ locks'["TQ"] = Entered(t, locks["TQ"])
      BY <3>1, OneLock DEF LockNames
    <3> QED BY <1>2, <1>3, <3>2, <3>3, <3>4 DEF ListLock, HeapLock
  <2>2. CASE EndSuspend(t) \/ EndResume(t) \/ WakingDone(t)
    <3>1. At(t) \in {"suspending", "resuming", "waking"} /\ Leave(t, "TQ")
      BY <2>2 DEF EndSuspend, EndResume, EndLoop, WakingDone, Runs
    <3>2. At(t) \in Listing
      BY <3>1 DEF Listing
    <3>3. Head(stack'[t]) \notin Listing
      BY <1>5, <3>1, ListingFollows DEF Moved
    <3>4. locks'["TQ"] = Left(t, locks["TQ"])
      BY <3>1, OneLock DEF LockNames
    <3> QED BY <1>2, <1>3, <3>2, <3>3, <3>4 DEF ListLock, HeapLock
  <2>3. CASE EnsureSafeStates(t)
    <3>1. At(t) = "ensureSafe" /\ locks' = locks
      BY <2>3 DEF EnsureSafeStates, Runs
    <3>2. At(t) \notin Listing
      BY <3>1 DEF Listing
    <3>3. Head(stack'[t]) \notin Listing
      BY <1>5, <3>1, ListingFollows DEF Moved
    <3> QED BY <1>2, <1>3, <3>1, <3>2, <3>3 DEF ListLock, HeapLock
  <2>4. CASE CheckSafe(t)
    <3>1. At(t) = "safe" /\ At(t) \notin Listing
      BY <2>4 DEF CheckSafe, Runs, Listing
    <3>2. CASE Done(t) /\ locks' = locks
      <4>1. Head(stack'[t]) \notin Listing
        BY <3>1, <3>2, SafeEnds DEF Listing
      <4> QED BY <1>2, <1>3, <3>1, <3>2, <4>1 DEF ListLock, HeapLock
    <3>3. CASE Do(t, <<"waking", "safe">>) /\ Enter(t, "TQ")
      <4>1. Head(stack'[t]) \in Listing
        BY <3>3, SafeWakes DEF Listing
      <4>2. CanEnter(t, "TQ") /\ locks'["TQ"] = Entered(t, locks["TQ"])
        BY <3>3, OneLock DEF LockNames
      <4> QED BY <1>2, <1>3, <3>1, <4>1, <4>2 DEF ListLock, HeapLock
    <3> QED BY <1>5, <2>4, <3>2, <3>3 DEF CheckSafe, Rested
  <2>5. CASE SuspendOther(t) \/ ResumeOther(t)
    BY <1>5, <2>5 DEF SuspendOther, ResumeOther, Rested
  <2> QED BY <2>1, <2>2, <2>3, <2>4, <2>5 DEF StopStep
<1> QED BY <1>0, <1>4, <1>5

(* The steps that change neither the stacks nor the list.                   *)
LEMMA StillLocks ==
    ASSUME Typed, ShapeInv, NEW t \in Threads, StillStep(t)
    PROVE  ListLock(t) /\ HeapLock(t)
BY StillShape DEF Rested, ListLock, HeapLock

(* The steps of Lisp code, of allocations and of hooks.                     *)
LEMMA CodeLocks ==
    ASSUME Plain, Typed, ShapeInv, NEW t \in Threads, CodeStep(t)
    PROVE  ListLock(t) /\ HeapLock(t)
<1>1. Moved(t)
  BY CodeShape
<1>2. At(t) \in {"lisp", "foreign", "alloc", "enter", "enterCS", "lock", "leave", "leaveCS",
                 "unlock", "take", "bump", "gc", "collect", "hooks"}
  BY DEF CodeStep, CallFromLisp, LeaveLisp, CallFromClient, EnterLock, LeaveLock, TakeBlock,
         Bump, EnterCollection, Collect, RunHooks, Runs, EnterLabels, LeaveLabels
<1>3. At(t) \notin {"lock", "unlock"}
  BY Tops DEF ForcedLabels
<1>4. At(t) \notin Listing /\ Head(stack'[t]) \notin Listing
  BY <1>1, <1>2, ListingFollows DEF Moved, Listing
<1>5. CASE EnterLock(t)
  <2>1. PICK l \in DOMAIN EnterLabels : Runs(t, l) /\ Enter(t, EnterLabels[l])
    BY <1>5 DEF EnterLock
  <2>2. At(t) = l /\ l \in {"alloc", "enter", "enterCS"}
    BY <1>3, <2>1 DEF Runs, EnterLabels
  <2>3. CASE l = "enterCS"
    <3>1. Enter(t, "CS") /\ At(t) \notin Entering
      BY <2>1, <2>2, <2>3 DEF EnterLabels, Entering
    <3>2. locks'["TQ"] = locks["TQ"] /\ locks'["GC"] = locks["GC"]
      BY <3>1, OneLock DEF LockNames
    <3> QED BY <1>4, <3>1, <3>2 DEF ListLock, HeapLock
  <2>4. CASE l \in {"alloc", "enter"}
    <3>1. Enter(t, "GC") /\ At(t) \in Entering
      BY <2>1, <2>2, <2>4 DEF EnterLabels, Entering
    <3>2. locks'["TQ"] = locks["TQ"] /\ CanEnter(t, "GC")
          /\ locks'["GC"] = Entered(t, locks["GC"])
      BY <3>1, OneLock DEF LockNames
    <3> QED BY <1>4, <3>1, <3>2 DEF ListLock, HeapLock
  <2> QED BY <2>2, <2>3, <2>4
<1>6. CASE LeaveLock(t)
  <2>1. PICK l \in DOMAIN LeaveLabels : Runs(t, l) /\ Leave(t, LeaveLabels[l])
    BY <1>6 DEF LeaveLock
  <2>2. At(t) = l /\ l \in {"leave", "leaveCS"}
    BY <1>3, <2>1 DEF Runs, LeaveLabels
  <2>3. CASE l = "leaveCS"
    <3>1. Leave(t, "CS") /\ At(t) \notin Entering
      BY <2>1, <2>2, <2>3 DEF LeaveLabels, Entering
    <3>2. locks'["TQ"] = locks["TQ"] /\ locks'["GC"] = locks["GC"]
      BY <3>1, OneLock DEF LockNames
    <3> QED BY <1>4, <3>1, <3>2 DEF ListLock, HeapLock
  <2>4. CASE l = "leave"
    <3>1. Leave(t, "GC")
      BY <2>1, <2>2, <2>4 DEF LeaveLabels
    <3>2. locks'["TQ"] = locks["TQ"] /\ locks'["GC"] = Left(t, locks["GC"])
      BY <3>1, OneLock DEF LockNames
    <3> QED BY <1>4, <2>2, <2>4, <3>2 DEF ListLock, HeapLock
  <2> QED BY <2>2, <2>3, <2>4
<1>7. CASE EnterCollection(t)
  <2>1. Enter(t, "GC") /\ At(t) = "gc"
    BY <1>7 DEF EnterCollection, Runs, Plain
  <2>2. locks'["TQ"] = locks["TQ"] /\ CanEnter(t, "GC")
        /\ locks'["GC"] = Entered(t, locks["GC"])
    BY <2>1, OneLock DEF LockNames
  <2> QED BY <1>4, <2>1, <2>2 DEF ListLock, HeapLock, Entering
<1>8. CASE \/ CallFromLisp(t) \/ LeaveLisp(t) \/ CallFromClient(t) \/ TakeBlock(t)
           \/ Bump(t) \/ Collect(t) \/ RunHooks(t)
  <2>1. locks' = locks /\ At(t) \in {"lisp", "foreign", "take", "bump", "collect", "hooks"}
    BY <1>8 DEF CallFromLisp, LeaveLisp, CallFromClient, TakeBlock, Bump, Collect, RunHooks, Runs
  <2>2. At(t) \notin Entering
    BY <2>1 DEF Entering
  <2> QED BY <1>4, <2>1, <2>2 DEF ListLock, HeapLock
<1> QED BY <1>5, <1>6, <1>7, <1>8 DEF CodeStep

(* The steps of creation and blessing that do not change the list.          *)
LEMMA ThreadLocks ==
    ASSUME Typed, ShapeInv, NEW t \in Threads, ThreadStep(t)
    PROVE  ListLock(t) /\ HeapLock(t)
<1>1. Moved(t)
  BY ThreadShape
<1>2. CASE LockList(t)
  <2>1. At(t) \in {"insert", "remove"} /\ Enter(t, "TQ")
    BY <1>2 DEF LockList, Runs
  <2>2. At(t) \notin Listing /\ At(t) \notin Entering
    BY <2>1 DEF Listing, Entering
  <2>3. Head(stack'[t]) \in Listing
    BY <1>1, <2>1, ListingComes DEF Moved
  <2>4. locks'["GC"] = locks["GC"] /\ CanEnter(t, "TQ")
        /\ locks'["TQ"] = Entered(t, locks["TQ"])
    BY <2>1, OneLock DEF LockNames
  <2> QED BY <2>2, <2>3, <2>4 DEF ListLock, HeapLock
<1>3. CASE ~ LockList(t)
  <2>1. /\ locks' = locks
        /\ At(t) \in {"lisp", "inc", "dec", "incStore", "decStore", "resumeNew", "find",
                      "await", "threadID", "newQV"}
    BY <1>3 DEF ThreadStep, CallRunSecondaryThread, ReadNum, StoreNum, ResumeNewThread,
                FindRecord, AwaitEvent, ReadThreadID, NewQV, Runs
  <2>2. At(t) \notin Listing /\ At(t) \notin Entering
    BY <2>1 DEF Listing, Entering
  <2>3. Head(stack'[t]) \notin Listing
    BY <1>1, <2>1, ListingFollows DEF Moved
  <2> QED BY <2>1, <2>2, <2>3 DEF ListLock, HeapLock
<1> QED BY <1>2, <1>3

(* The steps that change the list, or start a thread.                       *)
LEMMA ListLocks ==
    ASSUME Plain, Typed, ShapeInv, CreateInv, NEW t \in Threads, ListStep(t)
    PROVE  ListLock(t) /\ HeapLock(t)
<1>1. Moved(t)
  BY ListShape
<1>2. CASE Insert(t) \/ Remove(t)
  <2>1. At(t) \in {"inserting", "removing"} /\ Leave(t, "TQ")
    BY <1>2 DEF Insert, Remove, Runs
  <2>2. At(t) \in Listing /\ At(t) \notin Entering
    BY <2>1 DEF Listing, Entering
  <2>3. Head(stack'[t]) \notin Listing
    BY <1>1, <2>1, ListingFollows DEF Moved
  <2>4. locks'["GC"] = locks["GC"] /\ locks'["TQ"] = Left(t, locks["TQ"])
    BY <2>1, OneLock DEF LockNames
  <2> QED BY <2>2, <2>3, <2>4 DEF ListLock, HeapLock
<1>3. CASE BeginThread(t)
  <2>1. At(t) = "begin" /\ locks' = locks
    BY <1>3 DEF BeginThread, Runs
  <2>2. At(t) \notin Listing /\ At(t) \notin Entering
    BY <2>1 DEF Listing, Entering
  <2>3. Head(stack'[t]) \notin Listing
    BY <1>1, <2>1, ListingFollows DEF Moved
  <2> QED BY <2>1, <2>2, <2>3 DEF ListLock, HeapLock
<1> QED BY <1>2, <1>3 DEF ListStep

-----------------------------------------------------------------------------
(* The invariant.                                                          *)

(* Who stops the world, starts a thread or blesses itself owns              *)
(* GCCriticalSection.                                                      *)
Owning == {"suspend", "suspending", "ensureSafe", "safe", "waking", "collect",
           "begin", "resumeNew", "newQV"}
Excludes(t) == At(t) \in Owning \/ (t \notin list /\ At(t) \in Before)
OwnerInv == \A t \in Threads : Excludes(t) => locks["GC"].owner = t

(* Who walks or changes the list, but for the loop that looks whether the   *)
(* others are safe, owns its lock.                                          *)
ListInv ==
    /\ \A t \in Threads : At(t) \in Listing <=> locks["TQ"] = [owner |-> t, count |-> 1]
    /\ \/ locks["TQ"] = Unlocked
       \/ \E t \in Threads : locks["TQ"] = [owner |-> t, count |-> 1]

(* Before the primary thread is initialized there are no others.            *)
PrimaryInv ==
    Primary \notin list =>
        list = {} /\ num = 0 /\ \A t \in Threads : Waits(t, stack[t])

(* Which threads are suspended while the world is stopped.                  *)
WorldInv == \A t \in Threads :
    /\ At(t) \in {"suspending", "safe", "waking"} => loc[t].todo \subseteq list \ {t}
    /\ At(t) = "resuming" => loc[t].todo \subseteq list
    /\ At(t) = "suspending" => \A u \in list \ {t} : u \in loc[t].todo \/ susp[u] > 0
    /\ At(t) \in {"ensureSafe", "safe", "collect"} => \A u \in list \ {t} : susp[u] > 0
    /\ At(t) = "waking" =>
          /\ loc[t].other \in loc[t].todo
          /\ \A u \in list \ {t, loc[t].other} : susp[u] > 0

(* What a step of t does to the list.                                       *)
Lists(t) ==
    \/ list' = list /\ (stack' = stack \/ At(t) \notin {"inserting", "removing"})
    \/ At(t) = "inserting" /\ Moved(t) /\ list' = list \cup {loc[t].other}
    \/ At(t) = "removing" /\ Moved(t) /\ list' = list \ {t} /\ t \in Secondaries

Keeps(t) == \A v \in Threads : rec[v].qv # "none" /\ (At(t) = "removing" => v # t)
                               => rec'[v].qv # "none"

(* All that a step changes.                                                 *)
LEMMA StepIs ==
    ASSUME Plain, Typed, ShapeInv, CreateInv, WorldInv, NEW t \in Threads, PlainStep(t)
    PROVE  /\ Typed' /\ ShapeInv' /\ Changes(t) /\ Lists(t) /\ Keeps(t)
           /\ ListLock(t) /\ HeapLock(t)
           /\ Moved(t) \/ Rested
<1>1. CASE StopStep(t)
  <2>1. At(t) = "waking" => loc[t].other \in list
    BY DEF WorldInv
  <2>2. Typed' /\ ListLock(t) /\ HeapLock(t) /\ ShapeInv' /\ list' = list /\ (Moved(t) \/ Rested)
    BY <1>1, <2>1, StopTyped, StopLocks, StopShape
  <2>3. Changes(t) /\ UNCHANGED rec
    BY <1>1, StopChanges
  <2>4. At(t) \notin {"inserting", "removing"}
    BY <1>1 DEF StopStep, BeginSuspend, BeginResume, BeginLoop, EndSuspend, EndResume, EndLoop,
            SuspendOther, ResumeOther, EnsureSafeStates, CheckSafe, WakingDone, Runs
  <2> QED BY <2>2, <2>3, <2>4 DEF Lists, Keeps
<1>2. CASE StillStep(t)
  <2>1. Typed' /\ ListLock(t) /\ HeapLock(t) /\ ShapeInv' /\ list' = list /\ Rested
    BY <1>2, StillTyped, StillLocks, StillShape
  <2>2. Changes(t) /\ UNCHANGED rec
    BY <1>2, StillChanges
  <2> QED BY <2>1, <2>2 DEF Lists, Keeps, Rested
<1>3. CASE CodeStep(t)
  <2>1. Typed' /\ Kept /\ ListLock(t) /\ HeapLock(t) /\ ShapeInv' /\ list' = list /\ Moved(t)
    BY <1>3, CodeTyped, CodeLocks, CodeShape
  <2>2. Changes(t)
    BY <1>3, CodeChanges
  <2>3. At(t) \notin {"inserting", "removing"}
    BY <1>3 DEF CodeStep, CallFromLisp, LeaveLisp, CallFromClient, EnterLock, LeaveLock,
            TakeBlock, Bump, EnterCollection, Collect, RunHooks, Runs, EnterLabels, LeaveLabels
  <2> QED BY <2>1, <2>2, <2>3 DEF Lists, Keeps, Kept
<1>4. CASE ThreadStep(t)
  <2>1. Typed' /\ Kept /\ ListLock(t) /\ HeapLock(t) /\ ShapeInv' /\ list' = list /\ Moved(t)
    BY <1>4, ThreadTyped, ThreadLocks, ThreadShape
  <2>2. Changes(t)
    BY <1>4, ThreadChanges
  <2>3. At(t) \notin {"inserting", "removing"}
    BY <1>4 DEF ThreadStep, CallRunSecondaryThread, ReadNum, StoreNum, LockList,
            ResumeNewThread, FindRecord, AwaitEvent, ReadThreadID, NewQV, Runs
  <2> QED BY <2>1, <2>2, <2>3 DEF Lists, Keeps, Kept
<1>5. CASE ListStep(t)
  <2>1. Typed' /\ Keeps(t) /\ ListLock(t) /\ HeapLock(t) /\ ShapeInv' /\ Moved(t)
    BY <1>5, ListTyped, ListLocks, ListShape DEF Keeps
  <2>2. Changes(t)
    BY <1>5, ListChanges
  <2>3. Lists(t)
    BY <1>5, ListShape DEF Lists
  <2> QED BY <2>1, <2>2, <2>3
<1> QED BY <1>1, <1>2, <1>3, <1>4, <1>5 DEF PlainStep

(* A thread that does not take the step stays where it is, unless the step  *)
(* starts it.                                                              *)
LEMMA OthersStay ==
    ASSUME ShapeInv, CreateInv, NEW t \in Threads, Changes(t), NEW u \in Threads \ {t}
    PROVE  /\ loc'[u] = loc[u]
           /\ \/ stack'[u] = stack[u]
              \/ /\ At(t) = "begin" /\ t \in list /\ u = loc[t].other
                 /\ stack[u] = <<"none">> /\ At(u) = "none" /\ Head(stack'[u]) = "find"
<1>1. CASE stack'[u] = stack[u]
  BY <1>1 DEF Changes
<1>2. CASE At(t) = "begin" /\ u = loc[t].other /\ stack'[u] = SecondaryThreadProc
  <2>1. t \in list
    BY <1>2, Tops DEF BlessingHeads
  <2>2. Starting(t)
    BY <1>2, <2>1 DEF Starting, Creating
  <2>3. u \in Secondaries /\ stack[u] = <<"none">>
    BY <1>2, <2>2 DEF CreateInv, Starting
  <2>4. Head(stack'[u]) = "find" /\ At(u) = "none"
    BY <1>2, <2>3, ProcInside, Tuple1 DEF At
  <2> QED BY <1>2, <2>1, <2>3, <2>4 DEF Changes
<1> QED BY <1>1, <1>2 DEF Changes

(* What comes before the labels that own a lock.                            *)
LEMMA OwningFollows ==
    ASSUME NEW l, NEW m \in Follow(l)
    PROVE  /\ m \in Owning => l \in Owning \cup Entering
           /\ m \in Before => l \in Before \cup {"lisp", "newQV"}
           /\ m \in Before => l # "inserting"
BY DEF Follow, Below, Owning, Before, Entering

(* Who excludes collections goes on owning GCCriticalSection.               *)
LEMMA OwnerStep ==
    ASSUME Typed, ShapeInv, CreateInv, OwnerInv, NEW t \in Threads,
           Typed', Changes(t), Lists(t), HeapLock(t), Moved(t) \/ Rested
    PROVE  OwnerInv'
<1>0. SUFFICES ASSUME NEW u \in Threads, Excludes(u)'
               PROVE  locks'["GC"].owner = u
  BY DEF OwnerInv
<1>00. Excludes(u)' <=> Head(stack'[u]) \in Owning \/ (u \notin list' /\ Head(stack'[u]) \in Before)
  BY DEF Excludes, At
<1>1. CASE u # t
  <2>1. stack'[u] = stack[u]
    BY <1>0, <1>00, <1>1, OthersStay DEF Owning, Before
  <2>2. u \notin list' => u \notin list
    BY <1>1 DEF Lists
  <2>3. locks["GC"].owner = u
    BY <1>0, <1>00, <2>1, <2>2 DEF OwnerInv, Excludes, At
  <2>4. u # NoThread
    BY ThreadsAssumption
  <2> QED BY <1>1, <2>3, <2>4 DEF HeapLock, CanEnter, Left
<1>2. CASE u = t /\ stack' = stack
  <2>1. At(t) \notin {"removing"}
    BY <1>0, <1>00, <1>2 DEF At, Owning, Before
  <2>2. t \notin list' => t \notin list
    BY <2>1 DEF Lists
  <2>3. locks["GC"].owner = t /\ At(t) \in Owning \cup Before
    BY <1>0, <1>00, <1>2, <2>2 DEF OwnerInv, Excludes, At
  <2>4. At(t) \notin Entering /\ At(t) # "leave"
    BY <2>3 DEF Owning, Before, Entering
  <2> QED BY <1>2, <2>3, <2>4 DEF HeapLock
<1>3. CASE u = t /\ stack' # stack
  <2>1. Head(stack'[t]) \in Follow(At(t))
    BY <1>3 DEF Moved, Rested
  <2>2. CASE Head(stack'[t]) \in Owning
    <3>1. At(t) \in Owning \cup Entering
      BY <2>1, <2>2, OwningFollows
    <3>2. CASE At(t) \in Entering
      <4>1. locks'["GC"] = Entered(t, locks["GC"])
        BY <1>3, <3>2 DEF HeapLock, Entering
      <4> QED BY <1>3, <4>1 DEF Entered
    <3>3. CASE At(t) \in Owning /\ At(t) \notin Entering
      <4>1. locks'["GC"] = locks["GC"]
        BY <3>3 DEF HeapLock, Owning
      <4> QED BY <1>3, <3>3, <4>1 DEF OwnerInv, Excludes
    <3> QED BY <3>1, <3>2, <3>3
  <2>3. CASE t \notin list' /\ Head(stack'[t]) \in Before
    <3>1. At(t) \in Before \cup {"lisp", "newQV"} /\ At(t) # "inserting"
      BY <2>1, <2>3, OwningFollows
    <3>2. list' = list
      BY <3>1 DEF Lists, Before
    <3>3. At(t) # "lisp"
      BY <2>3, <3>2, Tops DEF BlessingHeads
    <3>4. locks["GC"].owner = t
      BY <2>3, <3>1, <3>2, <3>3 DEF OwnerInv, Excludes, Owning
    <3>5. locks'["GC"] = locks["GC"]
      BY <3>1 DEF HeapLock, Before, Entering
    <3> QED BY <1>3, <3>4, <3>5
  <2> QED BY <1>0, <1>00, <1>3, <2>2, <2>3
<1> QED BY <1>1, <1>2, <1>3

(* The lock of the list is owned by whoever walks or changes it.            *)
LEMMA ListStepInv ==
    ASSUME Typed, ShapeInv, CreateInv, ListInv, NEW t \in Threads, Changes(t), ListLock(t)
    PROVE  ListInv'
<1> DEFINE l == locks["TQ"]
           m == locks'["TQ"]
           Mine(u) == [owner |-> u, count |-> 1]
<1>0. /\ \A u, v : Mine(u) = Mine(v) => u = v
      /\ \A u : Mine(u) # Unlocked /\ Mine(u).owner = u /\ Left(u, Mine(u)) = Unlocked
      /\ \A u : Entered(u, Unlocked) = Mine(u)
  BY DEF Unlocked, Left, Entered
<1>1. \A u \in Threads \ {t} : Head(stack'[u]) \in Listing <=> At(u) \in Listing
  <2> SUFFICES ASSUME NEW u \in Threads \ {t}
               PROVE  Head(stack'[u]) \in Listing <=> At(u) \in Listing
    OBVIOUS
  <2> QED BY OthersStay DEF At, Listing
<1>2. /\ \A u \in Threads : At(u) \in Listing <=> l = Mine(u)
      /\ l = Unlocked \/ \E u \in Threads : l = Mine(u)
  BY DEF ListInv
<1>3. SUFFICES /\ \A u \in Threads : Head(stack'[u]) \in Listing <=> m = Mine(u)
               /\ m = Unlocked \/ \E u \in Threads : m = Mine(u)
  BY DEF ListInv, At
<1>4. CASE m = l /\ (stack' = stack \/ (At(t) \notin Listing /\ Head(stack'[t]) \notin Listing))
  <2>1. Head(stack'[t]) \in Listing <=> At(t) \in Listing
    BY <1>4 DEF At
  <2> HIDE DEF l, m, Mine
  <2> QED BY <1>1, <1>2, <1>4, <2>1
<1>5. CASE /\ At(t) \notin Listing /\ Head(stack'[t]) \in Listing
           /\ CanEnter(t, "TQ") /\ m = Entered(t, l)
  <2>1. l = Unlocked
    <3>1. ASSUME NEW u \in Threads, l = Mine(u)
          PROVE  FALSE
      <4>1. u \in {t, NoThread}
        <5>1. l.owner = u
          BY <1>0, <3>1
        <5> QED BY <1>5, <5>1 DEF CanEnter
      <4>2. u = t
        BY <4>1, ThreadsAssumption
      <4> QED BY <1>2, <1>5, <3>1, <4>2
    <3> QED BY <1>2, <3>1
  <2>2. m = Mine(t)
    BY <1>0, <1>5, <2>1
  <2> HIDE DEF l, m, Mine
  <2> QED BY <1>0, <1>1, <1>2, <1>5, <2>1, <2>2
<1>6. CASE At(t) \in Listing /\ Head(stack'[t]) \notin Listing /\ m = Left(t, l)
  <2>1. l = Mine(t) /\ m = Unlocked
    BY <1>0, <1>2, <1>6
  <2> HIDE DEF l, m, Mine
  <2> QED BY <1>0, <1>1, <1>2, <1>6, <2>1
<1> QED BY <1>4, <1>5, <1>6 DEF ListLock

(* No thread runs before the primary thread is initialized.                 *)
LEMMA PrimaryStep ==
    ASSUME Plain, Typed, ShapeInv, PrimaryInv, NEW t \in Threads, PlainStep(t), Lists(t)
    PROVE  PrimaryInv'
<1>1. CASE Primary \in list
  <2>1. Primary \in list'
    BY <1>1, ThreadsAssumption DEF Lists
  <2> QED BY <2>1 DEF PrimaryInv
<1>2. CASE Primary \notin list
  <2>1. At(t) \in {"none", "foreign"}
    BY <1>2, WaitsIs DEF PrimaryInv, At
  <2>2. ~ StopStep(t)
    BY <2>1
    DEF StopStep, BeginSuspend, BeginResume, BeginLoop, EndSuspend, EndResume, EndLoop,
        SuspendOther, ResumeOther, EnsureSafeStates, CheckSafe, WakingDone, Runs
  <2>3. ~ CodeStep(t)
    <3>1. "abort" \notin ops
      BY DEF Plain, Typed, PlainOps
    <3>2. ~ CallFromClient(t)
      BY <1>2, <3>1 DEF CallFromClient, Initialized, Plain
    <3> QED BY <2>1, <3>2
            DEF CodeStep, CallFromLisp, LeaveLisp, EnterLock, LeaveLock, TakeBlock, Bump,
                EnterCollection, Collect, RunHooks, Runs, EnterLabels, LeaveLabels
  <2>4. ~ ThreadStep(t)
    BY <2>1
    DEF ThreadStep, CallRunSecondaryThread, ReadNum, StoreNum, LockList, ResumeNewThread,
        FindRecord, AwaitEvent, ReadThreadID, NewQV, Runs
  <2>5. ~ ListStep(t)
    BY <2>1 DEF ListStep, Insert, Remove, BeginThread, Runs
  <2>6. StillStep(t)
    BY <2>2, <2>3, <2>4, <2>5 DEF PlainStep
  <2>7. UNCHANGED <<stack, num>> /\ list' = list
    BY <2>6, StillChanges, StillShape
  <2> QED BY <1>2, <2>7 DEF PrimaryInv
<1> QED BY <1>1, <1>2

-----------------------------------------------------------------------------
(* Creation.                                                               *)

(* What a thread does in Lisp code.                                         *)
LEMMA FromLisp ==
    ASSUME Plain, Typed, ShapeInv, NEW t \in Threads, PlainStep(t), At(t) = "lisp",
           ~ CallRunSecondaryThread(t), stack' # stack
    PROVE  \/ Head(stack'[t]) \in {"alloc", "gc", "enterCS"}
           \/ Head(stack'[t]) = "remove" /\ "exit" \in ops
           \/ Head(stack'[t]) = "enter" /\ Head(Tail(stack'[t])) = "unbless"
<1> DEFINE s == stack[t]
<1>0. t \in list /\ Inside(t, s) /\ s \in Seq(Label) /\ s # <<>>
  BY Tops DEF BlessingHeads
<1>1. CallFromLisp(t) \/ LeaveLisp(t)
  <2>1. ~ StopStep(t)
    BY DEF StopStep, BeginSuspend, BeginResume, BeginLoop, EndSuspend, EndResume, EndLoop,
           SuspendOther, ResumeOther, EnsureSafeStates, CheckSafe, WakingDone, Runs
  <2>2. ~ ThreadStep(t)
    BY DEF ThreadStep, ReadNum, StoreNum, LockList, ResumeNewThread, FindRecord, AwaitEvent,
           ReadThreadID, NewQV, Runs
  <2>3. ~ ListStep(t)
    BY DEF ListStep, Insert, Remove, BeginThread, Runs
  <2>4. ~ StillStep(t)
    BY StillShape DEF Rested
  <2> QED BY <2>1, <2>2, <2>3, <2>4
          DEF PlainStep, CodeStep, CallFromClient, EnterLock, LeaveLock, TakeBlock, Bump,
              EnterCollection, Collect, RunHooks, Runs, EnterLabels, LeaveLabels
<1>2. CASE CallFromLisp(t)
  <2>1. ops \subseteq PlainOps
    BY DEF Plain, Typed
  <2>2. PICK op \in CalledOps : Do(t, Body(op) \o <<"lisp">>)
    BY <1>2, <2>1 DEF CallFromLisp, CalledOps, PlainOps
  <2>3. stack'[t] = (Body(op) \o <<"lisp">>) \o Tail(s)
    BY <2>2 DEF Do, Typed
  <2> QED BY <1>0, <2>3, CallInside DEF At
<1>3. CASE LeaveLisp(t)
  <2>1. stack'[t] = Tail(s)
    <3>1. Tail(s) \in Seq(Label)
      BY <1>0, HeadTailProperties
    <3>2. <<>> \o Tail(s) = Tail(s)
      BY <3>1, ConcatEmptySeq
    <3> QED BY <1>3, <3>2 DEF LeaveLisp, Done, Do, Typed
  <2>2. \/ t \in Secondaries /\ "exit" \in ops
        \/ t \in Foreigners
    BY <1>3 DEF LeaveLisp
  <2> QED BY <1>0, <2>1, <2>2, LeaveInside DEF At
<1> QED BY <1>1, <1>2, <1>3

(* Entering GCCriticalSection and changing the list goes on with what is    *)
(* left.                                                                   *)
LEMMA GoesOn ==
    ASSUME Typed, ShapeInv, NEW t \in Threads, PlainStep(t),
           At(t) \in {"enter", "inserting"}, stack' # stack
    PROVE  stack'[t] = Tail(stack[t])
<1>1. ~ StopStep(t)
  BY DEF StopStep, BeginSuspend, BeginResume, BeginLoop, EndSuspend, EndResume, EndLoop,
         SuspendOther, ResumeOther, EnsureSafeStates, CheckSafe, WakingDone, Runs
<1>2. ~ ThreadStep(t)
  BY DEF ThreadStep, CallRunSecondaryThread, ReadNum, StoreNum, LockList, ResumeNewThread,
         FindRecord, AwaitEvent, ReadThreadID, NewQV, Runs
<1>3. ~ StillStep(t)
  BY StillShape DEF Rested
<1>4. EnterLock(t) \/ Insert(t)
  BY <1>1, <1>2, <1>3
  DEF PlainStep, CodeStep, ListStep, CallFromLisp, LeaveLisp, CallFromClient, LeaveLock,
      TakeBlock, Bump, EnterCollection, Collect, RunHooks, Remove, BeginThread, Runs,
      LeaveLabels
<1>5. stack'[t] = <<>> \o Tail(stack[t])
  BY <1>4 DEF EnterLock, Insert, Done, Do, Typed
<1>6. stack[t] \in Seq(Label) /\ stack[t] # <<>>
  BY Tops
<1>7. Tail(stack[t]) \in Seq(Label)
  BY <1>6, HeadTailProperties
<1> QED BY <1>5, <1>7, ConcatEmptySeq

(* A creation begins with the call of RunSecondaryThread, and then goes on. *)
LEMMA CreationBegins ==
    ASSUME Plain, Typed, ShapeInv, CreateInv, NEW t \in Threads, PlainStep(t),
           Lists(t), Moved(t) \/ Rested, Creating(t)', ~ CallRunSecondaryThread(t)
    PROVE  /\ Creating(t)
           /\ Starting(t)' => Starting(t) /\ (At(t) = "begin" => stack' = stack)
<1> DEFINE h == Head(stack'[t])
<1>0. /\ t \in list' /\ At(t)' = h
      /\ \/ h \in Before \cup {"begin", "resumeNew", "await"}
         \/ h = "enter" /\ Head(Tail(stack'[t])) = "begin"
      /\ Starting(t)' => h \notin {"resumeNew", "await"}
  BY DEF Creating, Starting, At
<1>1. CASE stack' = stack
  <2>1. list' = list
    <3>1. ~ Moved(t)
      BY <1>0, <1>1 DEF Moved, At, Follow, Before
    <3> QED BY <1>1, <3>1 DEF Lists
  <2> QED BY <1>0, <1>1, <2>1 DEF Creating, Starting, At
<1>2. CASE stack' # stack
  <2>1. h \in Follow(At(t))
    BY <1>2 DEF Moved, Rested
  <2>2. At(t) # "lisp"
    BY <1>0, <1>2, FromLisp DEF Before
  <2>3. At(t) \in Before \cup {"newQV", "enter", "begin", "resumeNew", "foreign"}
    BY <1>0, <2>1, <2>2 DEF Follow, Below, Before
  <2>4. At(t) # "inserting" => t \in list
    BY <1>0, <2>3 DEF Lists, Before
  <2>5. At(t) \notin {"newQV", "foreign"}
    BY <2>4, Tops DEF Work, CreationHeads
  <2>6. CASE At(t) = "inserting"
    <3>1. t \in list
      <4>1. ASSUME t \notin list PROVE FALSE
        <5>1. Outside(t, stack[t])
          BY <4>1, Tops
        <5>2. Head(Tail(stack[t])) = "alloc"
          BY <2>6, <5>1, PopOutside DEF At
        <5>3. h = "alloc"
          BY <1>2, <2>6, <5>2, GoesOn
        <5> QED BY <1>0, <5>3 DEF Before
      <4> QED BY <4>1
    <3> QED BY <2>6, <3>1 DEF Creating, Starting, Before
  <2>7. CASE At(t) = "enter"
    <3>1. t \in list /\ stack'[t] = Tail(stack[t])
      BY <1>2, <2>4, <2>7, GoesOn
    <3>2. h = "begin"
      BY <1>0, <2>1, <2>7 DEF Follow, Before
    <3> QED BY <2>7, <3>1, <3>2 DEF Creating, Starting
  <2>8. CASE At(t) \in (Before \ {"inserting"}) \cup {"begin", "resumeNew"}
    <3>1. Creating(t)
      BY <2>4, <2>8 DEF Creating, Before
    <3>2. At(t) \in {"begin", "resumeNew"} => ~ Starting(t)'
      BY <1>0, <2>1 DEF Follow, Before
    <3> QED BY <2>8, <3>1, <3>2 DEF Starting, Before
  <2> QED BY <2>3, <2>5, <2>6, <2>7, <2>8
<1> QED BY <1>1, <1>2

(* The thread that is created stays the same.                               *)
LEMMA CreatedStays ==
    ASSUME Typed, NEW t \in Threads, PlainStep(t), At(t) \notin {"lisp", "safe", "newQV"}
    PROVE  loc'[t].other = loc[t].other
<1>1. \/ UNCHANGED loc
      \/ \E x : loc' = [loc EXCEPT ![t].todo = x]
      \/ \E x : loc' = [loc EXCEPT ![t].tmp = x]
  <2>1. CASE StopStep(t)
    BY <2>1
    DEF StopStep, BeginSuspend, BeginResume, BeginLoop, EndSuspend, EndResume, EndLoop,
        SuspendOther, ResumeOther, EnsureSafeStates, CheckSafe, WakingDone, Visited, Runs
  <2>2. CASE StillStep(t)
    BY <2>2, StillChanges
  <2>3. CASE CodeStep(t)
    BY <2>3
    DEF CodeStep, CallFromLisp, LeaveLisp, CallFromClient, EnterLock, LeaveLock, TakeBlock,
        Bump, EnterCollection, Collect, RunHooks
  <2>4. CASE ThreadStep(t)
    BY <2>4
    DEF ThreadStep, CallRunSecondaryThread, ReadNum, StoreNum, LockList, ResumeNewThread,
        FindRecord, AwaitEvent, ReadThreadID, NewQV, Runs
  <2>5. CASE ListStep(t)
    BY <2>5, ListChanges
  <2> QED BY <2>1, <2>2, <2>3, <2>4, <2>5 DEF PlainStep
<1> QED BY <1>1 DEF Typed, Locals

(* A thread that does not take the step and creates another did so before,  *)
(* and the other one stays as it is.                                        *)
LEMMA OthersCreate ==
    ASSUME Typed, ShapeInv, CreateInv, NEW t \in Threads, Changes(t), Lists(t),
           NEW u \in Threads \ {t}
    PROVE  /\ Creating(u)' => Creating(u)
           /\ Starting(u)' => Starting(u)
           /\ u \notin list' /\ At(u)' \in Before => u \notin list /\ At(u) \in Before
           /\ At(u)' \in Before <=> At(u) \in Before
           /\ loc'[u] = loc[u]
<1>0. loc'[u] = loc[u]
  BY OthersStay
<1>1. CASE stack'[u] # stack[u]
  <2>1. Head(stack'[u]) = "find" /\ At(u) = "none"
    BY <1>1, OthersStay
  <2> QED BY <1>0, <2>1 DEF Creating, Starting, At, Before
<1>2. CASE stack'[u] = stack[u]
  <2>1. At(u)' = At(u)
    BY <1>2 DEF At
  <2>2. u \in list => u \in list'
    BY DEF Lists
  <2>3. ASSUME u \in list', u \notin list
        PROVE  stack[u] = <<"none">>
    <3>1. At(t) = "inserting" /\ u = loc[t].other
      BY <2>3 DEF Lists
    <3>2. t \in list
      BY <3>1 DEF CreateInv, Before
    <3>3. Starting(t)
      BY <3>1, <3>2 DEF Starting, Creating, Before
    <3> QED BY <3>1, <3>3 DEF CreateInv
  <2>4. stack[u] = <<"none">> => At(u) = "none"
    BY Tuple1 DEF At
  <2>5. Creating(u)' => Creating(u)
    BY <1>2, <2>1, <2>3, <2>4 DEF Creating, Before
  <2> QED BY <1>0, <1>2, <2>1, <2>2, <2>5 DEF Starting
<1> QED BY <1>1, <1>2

(* What a thread that starts another one finds stays as it is, while other  *)
(* threads take steps.                                                     *)
LEMMA StartStays ==
    ASSUME Typed, ShapeInv, CreateInv, NEW t \in Threads, Changes(t), Lists(t), Keeps(t),
           Moved(t) \/ Rested,
           NEW u \in Threads \ {t}, Starting(u)
    PROVE  /\ stack'[loc[u].other] = <<"none">>
           /\ rec'[loc[u].other].qv # "none"
           /\ loc[u].other \in list' <=> loc[u].other \in list
<1> DEFINE o == loc[u].other
<1>0. o \in Secondaries /\ o \in Threads /\ stack[o] = <<"none">> /\ rec[o].qv # "none"
  BY DEF CreateInv, Starting, Threads
<1>1. At(o) = "none"
  BY <1>0, Tuple1 DEF At
<1>2. ASSUME Starting(t)
      PROVE  o # loc[t].other
  BY <1>2 DEF CreateInv
<1> HIDE DEF o
<1>3. stack'[o] = <<"none">>
  <2>1. CASE o = t
    <3>1. stack' = stack
      BY <1>1, <2>1 DEF Changes
    <3> QED BY <1>0, <3>1
  <2>2. CASE o # t
    <3>1. ASSUME stack'[o] # stack[o]
          PROVE  FALSE
      <4>1. At(t) = "begin" /\ t \in list /\ o = loc[t].other
        BY <1>0, <2>2, <3>1, OthersStay
      <4>2. Starting(t)
        BY <4>1 DEF Starting, Creating
      <4> QED BY <1>2, <4>1, <4>2
    <3> QED BY <1>0, <3>1
  <2> QED BY <2>1, <2>2
<1>4. rec'[o].qv # "none"
  BY <1>0, <1>1 DEF Keeps
<1>5. o \in list' <=> o \in list
  <2>1. ASSUME At(t) = "inserting", o = loc[t].other
        PROVE  FALSE
    <3>1. CASE t \in list
      <4>1. Starting(t)
        BY <2>1, <3>1 DEF Starting, Creating, Before
      <4> QED BY <1>2, <2>1, <4>1
    <3>2. CASE t \notin list
      <4>1. o = t
        BY <2>1, <3>2 DEF CreateInv, Before
      <4> QED BY <1>1, <2>1, <4>1
    <3> QED BY <3>1, <3>2
  <2>2. At(t) = "removing" => o # t
    BY <1>1
  <2> QED BY <2>1, <2>2 DEF Lists
<1> QED BY <1>3, <1>4, <1>5 DEF o

(* A thread that creates another one comes nearer to its start.             *)
LEMMA StartGoesOn ==
    ASSUME Plain, Typed, ShapeInv, CreateInv, NEW t \in Threads, PlainStep(t),
           Changes(t), Lists(t), Keeps(t), Moved(t) \/ Rested,
           Starting(t), Starting(t)'
    PROVE  /\ stack'[loc[t].other] = <<"none">>
           /\ rec'[loc[t].other].qv # "none"
           /\ loc[t].other \in list' <=> Head(stack'[t]) \notin Before
<1> DEFINE o == loc[t].other
<1>0. /\ o \in Secondaries /\ o \in Threads /\ stack[o] = <<"none">> /\ rec[o].qv # "none"
      /\ o \in list <=> At(t) \notin Before
      /\ At(t) \in Before \cup {"begin", "enter"}
  BY DEF CreateInv, Starting, Threads, Creating
<1>1. o # t
  <2>1. At(o) = "none"
    BY <1>0, Tuple1 DEF At
  <2> QED BY <1>0, <2>1 DEF Before
<1>2. ASSUME stack' # stack
      PROVE  At(t) # "begin" /\ Head(stack'[t]) \in Follow(At(t))
  <2>1. Head(stack'[t]) \in Follow(At(t))
    BY <1>2 DEF Moved, Rested
  <2>2. At(t) = "begin" => Head(stack'[t]) \in {"resumeNew", "lisp"}
    BY <2>1 DEF Follow
  <2>3. Head(stack'[t]) \notin {"resumeNew", "lisp"}
    BY DEF Starting, Creating, At, Before
  <2> QED BY <2>1, <2>2, <2>3
<1>3. stack'[o] = <<"none">>
  BY <1>0, <1>1, <1>2, OthersStay
<1>4. rec'[o].qv # "none"
  BY <1>0, <1>1 DEF Keeps
<1>5. CASE stack' = stack
  <2>1. list' = list
    <3>1. ~ Moved(t)
      BY <1>0, <1>5 DEF Moved, At, Follow, Before
    <3> QED BY <1>5, <3>1 DEF Lists
  <2> QED BY <1>0, <1>3, <1>4, <1>5, <2>1 DEF At
<1>6. CASE stack' # stack /\ At(t) = "inserting"
  <2>1. list' = list \cup {o}
    BY <1>6 DEF Lists
  <2>2. Head(stack'[t]) \notin Before
    BY <1>2, <1>6 DEF Follow, Before
  <2> QED BY <1>3, <1>4, <2>1, <2>2
<1>7. CASE stack' # stack /\ At(t) # "inserting"
  <2>1. list' = list
    BY <1>0, <1>7 DEF Lists, Before
  <2>2. At(t) \in Before <=> Head(stack'[t]) \in Before
    BY <1>0, <1>2, <1>7 DEF Follow, Before
  <2> QED BY <1>0, <1>3, <1>4, <2>1, <2>2
<1> QED BY <1>5, <1>6, <1>7

(* RunSecondaryThread takes a thread that has neither steps nor a record.   *)
LEMMA StartBegins ==
    ASSUME Plain, Typed, ShapeInv, CreateInv, NEW t \in Threads,
           CallRunSecondaryThread(t)
    PROVE  /\ Head(stack'[t]) = "inc"
           /\ loc'[t].other \in Secondaries
           /\ rec[loc'[t].other].qv = "none"
           /\ stack'[loc'[t].other] = <<"none">>
           /\ rec'[loc'[t].other].qv # "none"
           /\ loc'[t].other \notin list'
<1>1. PICK o \in Secondaries :
        /\ stack[o] = <<"none">> /\ rec[o] = NewRecord
        /\ rec' = [rec EXCEPT ![o].qv = "copied"]
        /\ loc' = [loc EXCEPT ![t].other = o]
  BY DEF CallRunSecondaryThread
<1>2. At(t) = "lisp" /\ Do(t, RunSecondaryThread \o <<"lisp">>)
  BY DEF CallRunSecondaryThread, Runs
<1>3. o # t /\ o \in Threads
  <2>1. At(o) = "none"
    BY <1>1, Tuple1 DEF At
  <2> QED BY <1>2, <2>1 DEF Threads
<1>4. loc'[t].other = o
  BY <1>1 DEF Typed, Locals
<1>5. stack'[o] = <<"none">>
  BY <1>1, <1>2, <1>3 DEF Do, Typed
<1>6. rec'[o].qv = "copied" /\ ~ rec'[o].listed
  BY <1>1, <1>3 DEF Typed, Record, NewRecord
<1>7. Head(stack'[t]) = "inc"
  <2>1. t \in list /\ Inside(t, stack[t])
    BY <1>2, Tops DEF BlessingHeads
  <2>2. stack'[t] = (RunSecondaryThread \o <<"lisp">>) \o Tail(stack[t])
    BY <1>2 DEF Do, Typed
  <2> QED BY <1>2, <2>1, <2>2, CreateInside DEF At
<1>8. rec[o].qv = "none" /\ o \notin list'
  BY <1>1, <1>6 DEF NewRecord, list
<1> QED BY <1>1, <1>4, <1>5, <1>6, <1>7, <1>8

(* A thread of the client that blesses itself inserts its own record.       *)
LEMMA BlessGoesOn ==
    ASSUME Plain, Typed, ShapeInv, CreateInv, NEW t \in Threads, PlainStep(t),
           Lists(t), Moved(t) \/ Rested, t \notin list', Head(stack'[t]) \in Before
    PROVE  loc'[t].other = t
<1>1. CASE stack' = stack
  <2>1. list' = list \/ At(t) = "inserting"
    <3>1. At(t) \in Before
      BY <1>1 DEF At
    <3> QED BY <3>1 DEF Lists, Before
  <2>2. t \notin list /\ At(t) \in Before
    BY <1>1, <2>1 DEF Lists, At
  <2> QED BY <2>2, CreatedStays DEF CreateInv, Before
<1>2. CASE stack' # stack
  <2>1. Head(stack'[t]) \in Follow(At(t))
    BY <1>2 DEF Moved, Rested
  <2>2. At(t) \in Before \cup {"lisp", "newQV"} /\ At(t) # "inserting"
    BY <2>1, OwningFollows
  <2>3. list' = list
    BY <2>2 DEF Lists, Before
  <2>4. At(t) # "lisp"
    BY <2>3, Tops DEF BlessingHeads
  <2>5. CASE At(t) = "newQV"
    <3>1. NewQV(t)
      <4>1. ~ StillStep(t)
        BY <1>2, StillShape DEF Rested
      <4> QED BY <2>5, <4>1
        DEF PlainStep, StopStep, BeginSuspend, BeginResume, BeginLoop, EndSuspend, EndResume,
            EndLoop, SuspendOther, ResumeOther, EnsureSafeStates, CheckSafe, WakingDone,
            CodeStep, CallFromLisp, LeaveLisp, CallFromClient, EnterLock, LeaveLock,
            TakeBlock, Bump, EnterCollection, Collect, RunHooks, EnterLabels, LeaveLabels,
            ThreadStep, CallRunSecondaryThread, ReadNum, StoreNum, LockList,
            ResumeNewThread, FindRecord, AwaitEvent, ReadThreadID,
            ListStep, Insert, Remove, BeginThread, Runs
    <3> QED BY <3>1 DEF NewQV, Typed, Locals
  <2>6. CASE At(t) \in Before
    BY <2>3, <2>6, CreatedStays DEF CreateInv, Before
  <2> QED BY <2>2, <2>4, <2>5, <2>6
<1> QED BY <1>1, <1>2

(* What a creation has still to find stays true, for its thread and others. *)
LEMMA CreateStep ==
    ASSUME Plain, Typed, ShapeInv, CreateInv, NEW t \in Threads, PlainStep(t),
           Changes(t), Lists(t), Keeps(t), Moved(t) \/ Rested
    PROVE  CreateInv'
<1>1. ASSUME NEW u \in Threads, Creating(u)'
      PROVE  loc'[u].other \in Secondaries
  <2>1. CASE u # t
    <3>1. Creating(u) /\ loc'[u] = loc[u]
      BY <1>1, <2>1, OthersCreate
    <3> QED BY <3>1 DEF CreateInv
  <2>2. CASE u = t /\ CallRunSecondaryThread(t)
    BY <2>2, StartBegins
  <2>3. CASE u = t /\ ~ CallRunSecondaryThread(t)
    <3>1. Creating(t)
      BY <1>1, <2>3, CreationBegins
    <3>2. At(t) \notin {"lisp", "safe", "newQV"}
      BY <3>1 DEF Creating, Before
    <3> QED BY <2>3, <3>1, <3>2, CreatedStays DEF CreateInv
  <2> QED BY <2>1, <2>2, <2>3
<1>2. ASSUME Starting(t)', ~ CallRunSecondaryThread(t)
      PROVE  Starting(t) /\ loc'[t].other = loc[t].other
  <2>1. Starting(t)
    BY <1>2, CreationBegins DEF Starting
  <2>2. At(t) \notin {"lisp", "safe", "newQV"}
    BY <2>1 DEF Starting, Creating, Before
  <2> QED BY <2>1, <2>2, CreatedStays
<1>3. ASSUME NEW u \in Threads, Starting(u)'
      PROVE  /\ stack'[loc'[u].other] = <<"none">>
             /\ rec'[loc'[u].other].qv # "none"
             /\ loc'[u].other \in list' <=> Head(stack'[u]) \notin Before
  <2>1. CASE u # t
    <3>1. Starting(u) /\ loc'[u] = loc[u] /\ (At(u)' \in Before <=> At(u) \in Before)
      BY <1>3, <2>1, OthersCreate
    <3>2. loc[u].other \in list <=> At(u) \notin Before
      BY <3>1 DEF CreateInv
    <3> QED BY <2>1, <3>1, <3>2, StartStays DEF At
  <2>2. CASE u = t /\ CallRunSecondaryThread(t)
    BY <2>2, StartBegins DEF Before
  <2>3. CASE u = t /\ ~ CallRunSecondaryThread(t)
    BY <1>2, <1>3, <2>3, StartGoesOn
  <2> QED BY <2>1, <2>2, <2>3
<1>4. ASSUME NEW u \in Threads \ {t}, Starting(u)', Starting(t)'
      PROVE  loc'[u].other # loc'[t].other
  <2>1. Starting(u) /\ loc'[u] = loc[u]
    BY <1>4, OthersCreate
  <2>2. CASE CallRunSecondaryThread(t)
    <3>1. rec[loc'[t].other].qv = "none"
      BY <2>2, StartBegins
    <3>2. rec[loc[u].other].qv # "none"
      BY <2>1 DEF CreateInv
    <3> QED BY <2>1, <3>1, <3>2
  <2>3. CASE ~ CallRunSecondaryThread(t)
    BY <1>2, <1>4, <2>1, <2>3 DEF CreateInv
  <2> QED BY <2>2, <2>3
<1>5. ASSUME NEW u \in Threads, NEW v \in Threads, Starting(u)', Starting(v)',
             loc'[u].other = loc'[v].other
      PROVE  u = v
  <2>1. CASE u = t \/ v = t
    BY <1>4, <1>5, <2>1
  <2>2. CASE u # t /\ v # t
    <3>1. Starting(u) /\ loc'[u] = loc[u] /\ Starting(v) /\ loc'[v] = loc[v]
      BY <1>5, <2>2, OthersCreate
    <3> QED BY <1>5, <3>1 DEF CreateInv
  <2> QED BY <2>1, <2>2
<1>6. ASSUME NEW u \in Threads \ list', At(u)' \in Before
      PROVE  loc'[u].other = u
  <2>1. CASE u # t
    <3>1. u \notin list /\ At(u) \in Before /\ loc'[u] = loc[u]
      BY <1>6, <2>1, OthersCreate
    <3> QED BY <3>1 DEF CreateInv
  <2>2. CASE u = t
    BY <1>6, <2>2, BlessGoesOn DEF At
  <2> QED BY <2>1, <2>2
<1>7. \A u \in Threads : At(u)' = Head(stack'[u])
  BY DEF At
<1>8. /\ \A u \in Threads : Creating(u)' => loc'[u].other \in Secondaries
      /\ \A u \in Threads : Starting(u)' =>
            /\ stack'[loc'[u].other] = <<"none">>
            /\ rec'[loc'[u].other].qv # "none"
            /\ loc'[u].other \in list' <=> At(u)' \notin Before
      /\ \A u, v \in Threads :
            Starting(u)' /\ Starting(v)' /\ loc'[u].other = loc'[v].other => u = v
      /\ \A u \in Threads \ list' : At(u)' \in Before => loc'[u].other = u
  BY <1>1, <1>3, <1>5, <1>6, <1>7
<1> QED BY <1>8 DEF CreateInv

-----------------------------------------------------------------------------
(* The world is stopped.                                                   *)
Stopping == {"suspending", "ensureSafe", "safe", "collect", "waking"}

(* While a thread stops the world no other changes the list or the counts   *)
(* of suspensions: those of the list are suspended, or kept out by the       *)
(* locks.                                                                  *)
LEMMA Undisturbed ==
    ASSUME Typed, ShapeInv, OwnerInv, ListInv, WorldInv,
           NEW t \in Threads, Changes(t), Lists(t), NEW u \in Threads \ {t}
    PROVE  /\ At(u) \in Stopping => list' = list /\ susp' = susp
           /\ At(u) = "resuming" => list' = list
<1>1. At(u) \in Listing => At(t) \notin Listing
  <2> SUFFICES ASSUME At(u) \in Listing, At(t) \in Listing PROVE FALSE
    OBVIOUS
  <2>1. [owner |-> u, count |-> 1] = [owner |-> t, count |-> 1]
    BY DEF ListInv
  <2> QED BY <2>1
<1>2. At(u) \in Owning => ~ Excludes(t)
  BY DEF OwnerInv, Excludes
<1>3. ASSUME At(u) \in {"suspending", "waking", "resuming"}
      PROVE  list' = list
  <2>1. At(t) \notin Listing
    BY <1>1, <1>3 DEF Listing
  <2> QED BY <2>1 DEF Lists, Listing
<1>4. ASSUME At(u) \in {"suspending", "waking"}
      PROVE  susp' = susp
  <2>1. At(t) \notin Listing
    BY <1>1, <1>4 DEF Listing
  <2>2. At(t) \notin Owning
    BY <1>2, <1>4 DEF Owning, Excludes
  <2> QED BY <2>1, <2>2 DEF Changes, Listing, Owning
<1>5. ASSUME At(u) \in {"ensureSafe", "safe", "collect"}
      PROVE  list' = list /\ susp' = susp
  <2>1. t \notin list
    <3>1. t \in list => susp[t] > 0
      BY <1>5 DEF WorldInv
    <3>2. susp[t] = 0
      BY DEF Changes
    <3> QED BY <3>1, <3>2
  <2>2. At(t) \in BlessingHeads \cup {"dec", "decStore", "ended", "none", "foreign"}
    BY <2>1, Tops
  <2>3. At(t) \notin Before
    BY <1>2, <1>5, <2>1 DEF Owning, Excludes
  <2>4. list' = list
    BY <2>2, <2>3 DEF Lists, BlessingHeads, Before
  <2>5. susp' = susp
    BY <2>2 DEF Changes, BlessingHeads
  <2> QED BY <2>4, <2>5
<1> QED BY <1>3, <1>4, <1>5 DEF Stopping

(* So what it knows of them stays true.                                     *)
World(u) ==
    /\ At(u) \in {"suspending", "safe", "waking"} => loc[u].todo \subseteq list \ {u}
    /\ At(u) = "resuming" => loc[u].todo \subseteq list
    /\ At(u) = "suspending" => \A v \in list \ {u} : v \in loc[u].todo \/ susp[v] > 0
    /\ At(u) \in {"ensureSafe", "safe", "collect"} => \A v \in list \ {u} : susp[v] > 0
    /\ At(u) = "waking" =>
          /\ loc[u].other \in loc[u].todo
          /\ \A v \in list \ {u, loc[u].other} : susp[v] > 0

(* Another thread than the one that takes the step.                         *)
LEMMA WorldOther ==
    ASSUME Typed, ShapeInv, CreateInv, OwnerInv, ListInv, WorldInv,
           NEW t \in Threads, Changes(t), Lists(t), NEW u \in Threads \ {t}
    PROVE  World(u)'
<1>1. loc'[u] = loc[u]
  BY OthersStay
<1>2. CASE stack'[u] # stack[u]
  <2>1. Head(stack'[u]) = "find"
    BY <1>2, OthersStay
  <2> QED BY <2>1 DEF World, At
<1>3. CASE stack'[u] = stack[u]
  <2>1. At(u)' = At(u)
    BY <1>3 DEF At
  <2>2. World(u)
    BY DEF World, WorldInv
  <2>3. CASE At(u) \in Stopping
    <3>1. list' = list /\ susp' = susp
      BY <2>3, Undisturbed
    <3> QED BY <1>1, <2>1, <2>2, <3>1 DEF World
  <2>4. CASE At(u) = "resuming"
    <3>1. list' = list
      BY <2>4, Undisturbed
    <3> QED BY <1>1, <2>1, <2>2, <2>4, <3>1 DEF World
  <2>5. CASE At(u) \notin Stopping \cup {"resuming"}
    BY <2>1, <2>5 DEF World, Stopping
  <2> QED BY <2>3, <2>4, <2>5
<1> QED BY <1>2, <1>3

(* Who comes to the labels of a stop.                                       *)
LEMMA StoppingFollows ==
    ASSUME NEW l, NEW m \in Follow(l), m \in Stopping \cup {"resuming"}
    PROVE  \/ l = "suspend" /\ m = "suspending"
           \/ l = "suspending" /\ m = "ensureSafe"
           \/ l = "ensureSafe" /\ m \in {"safe", "collect"}
           \/ l = "safe" /\ m \in {"waking", "collect"}
           \/ l = "waking" /\ m = "safe"
           \/ l = "resume" /\ m = "resuming"
BY DEF Follow, Below, Stopping

(* A thread at one of these labels that does not do the step of the label    *)
(* stays there.                                                            *)
LEMMA StaysStopped ==
    ASSUME Plain, Typed, ShapeInv, CreateInv, NEW t \in Threads, PlainStep(t), ~ StopStep(t),
           Lists(t), Moved(t) \/ Rested, Head(stack'[t]) \in Stopping \cup {"resuming"}
    PROVE  stack' = stack /\ Head(stack'[t]) = At(t) /\ UNCHANGED <<susp, loc>> /\ list' = list
<1> DEFINE h == Head(stack'[t])
<1>1. stack' = stack
  <2>1. ASSUME stack' # stack
        PROVE  FALSE
    <3>1. h \in Follow(At(t))
      BY <2>1 DEF Moved, Rested
    <3>2. At(t) \in {"suspend", "suspending", "ensureSafe", "safe", "waking", "resume"}
      BY <3>1, StoppingFollows
    <3>3. ~ StillStep(t)
      BY <2>1, StillShape DEF Rested
    <3> QED BY <3>2, <3>3
      DEF PlainStep, CodeStep, CallFromLisp, LeaveLisp, CallFromClient, EnterLock, LeaveLock,
          TakeBlock, Bump, EnterCollection, Collect, RunHooks, EnterLabels, LeaveLabels,
          ThreadStep, CallRunSecondaryThread, ReadNum, StoreNum, LockList,
          ResumeNewThread, FindRecord, AwaitEvent, ReadThreadID, NewQV,
          ListStep, Insert, Remove, BeginThread, Runs
  <2> QED BY <2>1
<1>2. h = At(t)
  BY <1>1 DEF At
<1>3. ~ Moved(t)
  <2>1. At(t) \notin Follow(At(t))
    BY <1>2 DEF Follow, Below, Stopping
  <2> QED BY <1>2, <2>1 DEF Moved
<1>4. UNCHANGED <<susp, loc>>
  <2>1. CASE StillStep(t)
    BY <2>1, StillChanges
  <2>2. CASE CodeStep(t)
    BY <2>2, CodeChanges
  <2>3. CASE ThreadStep(t)
    BY <1>3, <2>3, ThreadShape
  <2>4. CASE ListStep(t)
    BY <1>3, <2>4, ListShape
  <2> QED BY <2>1, <2>2, <2>3, <2>4 DEF PlainStep
<1>5. list' = list
  BY <1>3 DEF Lists
<1> QED BY <1>1, <1>2, <1>4, <1>5

(* The thread itself.                                                       *)
LEMMA WorldSelf ==
    ASSUME Plain, Typed, ShapeInv, CreateInv, WorldInv, NEW t \in Threads, PlainStep(t),
           Lists(t), Moved(t) \/ Rested
    PROVE  World(t)'
<1> DEFINE h == Head(stack'[t])
<1>0. /\ list \subseteq Threads /\ susp \in [Threads -> Nat]
      /\ loc \in [Threads -> Locals] /\ loc[t] \in Locals
      /\ World(t) /\ At(t)' = h
  BY DEF list, Typed, World, WorldInv, At
<1>1. CASE h \notin Stopping \cup {"resuming"}
  BY <1>0, <1>1 DEF World, Stopping
<1>2. CASE h \in Stopping \cup {"resuming"} /\ ~ StopStep(t)
  <2>1. h = At(t) /\ UNCHANGED <<susp, loc>> /\ list' = list
    BY <1>2, StaysStopped
  <2> QED BY <1>0, <2>1 DEF World
<1>3. CASE StopStep(t)
  <2>0. list' = list
    <3>1. At(t) = "waking" => loc[t].other \in list
      BY <1>0 DEF World
    <3> QED BY <1>3, <3>1, StopShape
  <2>00. stack' # stack => h \in Follow(At(t))
    BY DEF Moved, Rested
  <2>000. stack' = stack => h = At(t)
    BY DEF At
  <2>1. CASE BeginSuspend(t) \/ BeginResume(t)
    <3>1. At(t) \in {"suspend", "resume"} /\ loc' = [loc EXCEPT ![t].todo = list \ {t}]
      BY <2>1 DEF BeginSuspend, BeginResume, BeginLoop, Runs
    <3>2. loc'[t].todo = list \ {t}
      BY <1>0, <3>1 DEF Locals
    <3>3. h \in {"suspending", "resuming"} \/ h \notin Stopping \cup {"resuming"}
      BY <2>00, <2>000, <3>1, StoppingFollows DEF Stopping
    <3> QED BY <1>0, <1>1, <2>0, <3>2, <3>3 DEF World
  <2>2. CASE SuspendOther(t)
    <3>1. PICK u \in loc[t].todo : SuspendThread(u) /\ Visited(t, u)
      BY <2>2 DEF SuspendOther
    <3>2. At(t) = "suspending" /\ stack' = stack
      BY <2>2 DEF SuspendOther, Runs
    <3>3. loc[t].todo \subseteq list \ {t} /\ u \in Threads
      BY <1>0, <3>1, <3>2 DEF World
    <3>4. loc'[t].todo = loc[t].todo \ {u}
      BY <1>0, <3>1 DEF Visited, Locals
    <3>5. susp'[u] > 0 /\ \A v \in Threads \ {u} : susp'[v] = susp[v]
      BY <3>1, <3>3, SuspTyped DEF Plain
    <3>6. \A v \in list \ {t} : v \in loc'[t].todo \/ susp'[v] > 0
      BY <1>0, <3>2, <3>4, <3>5 DEF World
    <3> QED BY <1>0, <2>0, <2>000, <3>2, <3>3, <3>4, <3>6 DEF World
  <2>3. CASE EndSuspend(t)
    <3>1. At(t) = "suspending" /\ loc[t].todo = {} /\ susp' = susp /\ loc' = loc
      BY <2>3 DEF EndSuspend, EndLoop, Runs
    <3>2. \A v \in list \ {t} : susp'[v] > 0
      BY <1>0, <3>1 DEF World
    <3>3. h \in {"suspending", "ensureSafe"} \/ h \notin Stopping \cup {"resuming"}
      BY <2>00, <2>000, <3>1, StoppingFollows
    <3> QED BY <1>0, <1>1, <2>0, <3>1, <3>2, <3>3 DEF World
  <2>4. CASE EnsureSafeStates(t)
    <3>1. /\ At(t) = "ensureSafe" /\ susp' = susp
          /\ \/ Do(t, <<"safe">>) /\ loc' = [loc EXCEPT ![t].todo = list \ {t}]
             \/ Done(t) /\ loc' = loc
      BY <2>4 DEF EnsureSafeStates, Runs
    <3>2. \A v \in list \ {t} : susp'[v] > 0
      BY <1>0, <3>1 DEF World
    <3>3. h \in {"ensureSafe", "safe", "collect"} \/ h \notin Stopping \cup {"resuming"}
      BY <2>00, <2>000, <3>1, StoppingFollows
    <3>4. CASE Do(t, <<"safe">>) /\ loc' = [loc EXCEPT ![t].todo = list \ {t}]
      <4>1. loc'[t].todo = list \ {t}
        BY <1>0, <3>4 DEF Locals
      <4> QED BY <1>0, <1>1, <2>0, <3>2, <3>3, <4>1 DEF World
    <3>5. CASE Done(t) /\ loc' = loc
      <4>1. h # "safe"
        <5>1. stack[t] \in Seq(Label) /\ stack[t] # <<>>
          BY Tops
        <5>2. Works(t, stack[t])
          <6>1. Inside(t, stack[t])
            BY <3>1, Tops DEF BlessingHeads
          <6> QED BY <3>1, <6>1, InsideIs DEF At, Work
        <5>3. Head(Tail(stack[t])) = "collect" /\ Tail(stack[t]) \in Seq(Label)
          BY <3>1, <5>2, WorksPop, WorksHead DEF At, Below
        <5>4. stack'[t] = <<>> \o Tail(stack[t])
          BY <3>5 DEF Done, Do, Typed
        <5> QED BY <5>3, <5>4, ConcatEmptySeq
      <4> QED BY <1>0, <1>1, <2>0, <3>2, <3>3, <4>1 DEF World
    <3> QED BY <3>1, <3>4, <3>5
  <2>5. CASE CheckSafe(t)
    <3>1. At(t) = "safe"
      BY <2>5 DEF CheckSafe, Runs
    <3>2. CASE Done(t) /\ UNCHANGED <<locks, susp, loc>>
      <4>1. h = "collect"
        BY <3>1, <3>2, SafeEnds
      <4> QED BY <1>0, <2>0, <3>1, <3>2, <4>1 DEF World
    <3>3. ASSUME NEW u \in loc[t].todo, ResumeThread(u), Do(t, <<"waking", "safe">>),
                 loc' = [loc EXCEPT ![t].other = u]
          PROVE  World(t)'
      <4>1. h = "waking"
        BY <3>3, SafeWakes
      <4>2. loc'[t].other = u /\ loc'[t].todo = loc[t].todo
        BY <1>0, <3>3 DEF Locals
      <4>3. \A v \in Threads \ {u} : susp'[v] = susp[v]
        BY <3>3, SuspTyped DEF Plain
      <4>4. \A v \in list \ {t, u} : susp'[v] > 0
        BY <1>0, <3>1, <4>3 DEF World
      <4> QED BY <1>0, <2>0, <3>1, <4>1, <4>2, <4>4 DEF World
    <3>4. ASSUME NEW u \in loc[t].todo, Visited(t, u), UNCHANGED <<stack, locks, susp>>
          PROVE  World(t)'
      <4>1. loc'[t].todo = loc[t].todo \ {u}
        BY <1>0, <3>4 DEF Visited, Locals
      <4> QED BY <1>0, <2>0, <2>000, <3>1, <3>4, <4>1 DEF World
    <3> QED BY <2>5, <3>2, <3>3, <3>4 DEF CheckSafe
  <2>6. CASE WakingDone(t)
    <3> DEFINE o == loc[t].other
    <3>1. At(t) = "waking" /\ SuspendThread(o) /\ loc' = loc
      BY <2>6 DEF WakingDone, Runs
    <3>2. o \in loc[t].todo /\ loc[t].todo \subseteq list \ {t} /\ o \in Threads
      BY <1>0, <3>1 DEF World
    <3>3. susp'[o] > 0 /\ \A v \in Threads \ {o} : susp'[v] = susp[v]
      BY <3>1, <3>2, SuspTyped DEF Plain
    <3>4. \A v \in list \ {t} : susp'[v] > 0
      BY <1>0, <3>1, <3>3 DEF World
    <3>5. h \in {"waking", "safe"} \/ h \notin Stopping \cup {"resuming"}
      BY <2>00, <2>000, <3>1, StoppingFollows
    <3> QED BY <1>0, <1>1, <2>0, <3>1, <3>2, <3>4, <3>5 DEF World
  <2>7. CASE ResumeOther(t)
    <3>1. PICK u \in loc[t].todo : Visited(t, u)
      BY <2>7 DEF ResumeOther
    <3>2. At(t) = "resuming" /\ stack' = stack
      BY <2>7 DEF ResumeOther, Runs
    <3>3. loc'[t].todo = loc[t].todo \ {u}
      BY <1>0, <3>1 DEF Visited, Locals
    <3> QED BY <1>0, <2>0, <2>000, <3>2, <3>3 DEF World
  <2>8. CASE EndResume(t)
    <3>1. At(t) = "resuming" /\ loc' = loc
      BY <2>8 DEF EndResume, EndLoop, Runs
    <3>2. h = "resuming" \/ h \notin Stopping \cup {"resuming"}
      BY <2>00, <2>000, <3>1, StoppingFollows
    <3> QED BY <1>0, <1>1, <2>0, <3>1, <3>2 DEF World
  <2> QED BY <1>3, <2>1, <2>2, <2>3, <2>4, <2>5, <2>6, <2>7, <2>8 DEF StopStep
<1> QED BY <1>1, <1>2, <1>3

(* Every step keeps what is known of suspended threads.                     *)
LEMMA WorldStep ==
    ASSUME Plain, Typed, ShapeInv, CreateInv, OwnerInv, ListInv, WorldInv,
           NEW t \in Threads, PlainStep(t), Changes(t), Lists(t), Moved(t) \/ Rested
    PROVE  WorldInv'
<1>1. \A u \in Threads : World(u)'
  BY WorldSelf, WorldOther
<1> QED BY <1>1 DEF World, WorldInv

-----------------------------------------------------------------------------
(* How many threads are counted when no thread ends.  Increments that are    *)
(* not atomic are lost, but once there are two threads the number stays     *)
(* above one.  A decrement that loses an increment would break this.        *)
NoExit == \A w \in Workloads : "exit" \notin w
ExitLabels == {"remove", "removing", "dec", "decStore", "ended"}
CountInv ==
    /\ Primary \in list => num >= 1
    /\ \A t \in Threads : At(t) = "incStore" => loc[t].tmp >= 1
    /\ \A t \in Threads :
          At(t) \in {"insert", "inserting"} \/ (t # Primary /\ t \in list) => num >= 2
    /\ \A t \in Threads : At(t) \notin ExitLabels

(* The number changes only where it is stored.                              *)
LEMMA NumChanges ==
    ASSUME Plain, Typed, ShapeInv, CountInv, NEW t \in Threads, PlainStep(t), Changes(t)
    PROVE  num' = num \/ (num' >= 2 /\ loc' = loc)
<1>1. At(t) # "decStore"
  BY DEF CountInv, ExitLabels
<1>2. CASE StoreNum(t)
  <2>1. At(t) = "incStore" /\ num' = loc[t].tmp + 1 /\ loc' = loc
    BY <1>1, <1>2 DEF StoreNum, Runs
  <2>2. loc[t].tmp >= 1 /\ loc[t].tmp \in Int
    BY <2>1 DEF CountInv, Typed, Locals
  <2> QED BY <2>1, <2>2
<1>3. CASE ~ StoreNum(t)
  <2>1. CASE StopStep(t)
    BY <2>1, StopChanges
  <2>2. CASE StillStep(t)
    BY <2>2, StillChanges
  <2>3. CASE CodeStep(t)
    BY <2>3, CodeChanges
  <2>4. CASE ThreadStep(t)
    BY <1>3, <2>4
    DEF ThreadStep, CallRunSecondaryThread, ReadNum, LockList,
        ResumeNewThread, FindRecord, AwaitEvent, ReadThreadID, NewQV
  <2>5. CASE ListStep(t)
    BY <2>5, ListChanges
  <2> QED BY <2>1, <2>2, <2>3, <2>4, <2>5 DEF PlainStep
<1> QED BY <1>2, <1>3

(* At a label of the count, the step is the one that the label stands for.  *)
LEMMA CountSteps ==
    ASSUME Typed, ShapeInv, NEW t \in Threads, PlainStep(t),
           At(t) \in {"inc", "incStore"}, stack' # stack
    PROVE  (At(t) = "inc" /\ ReadNum(t)) \/ (At(t) = "incStore" /\ StoreNum(t))
<1>1. ~ StillStep(t)
  BY StillShape DEF Rested
<1>2. ~ StopStep(t)
  BY DEF StopStep, BeginSuspend, BeginResume, BeginLoop, EndSuspend, EndResume, EndLoop,
         SuspendOther, ResumeOther, EnsureSafeStates, CheckSafe, WakingDone, Runs
<1>3. ~ CodeStep(t)
  BY DEF CodeStep, CallFromLisp, LeaveLisp, CallFromClient, EnterLock, LeaveLock, TakeBlock,
         Bump, EnterCollection, Collect, RunHooks, Runs, EnterLabels, LeaveLabels
<1>4. ~ ListStep(t)
  BY DEF ListStep, Insert, Remove, BeginThread, Runs
<1>5. ThreadStep(t)
  BY <1>1, <1>2, <1>3, <1>4 DEF PlainStep
<1> QED BY <1>5
  DEF ThreadStep, CallRunSecondaryThread, ReadNum, StoreNum, LockList, ResumeNewThread,
      FindRecord, AwaitEvent, ReadThreadID, NewQV, Runs

(* Every step of a program that ends no thread keeps it.                    *)
LEMMA CountStep ==
    ASSUME Plain, NoExit, Typed, ShapeInv, CreateInv, PrimaryInv, CountInv,
           NEW t \in Threads, PlainStep(t), Typed', Changes(t), Lists(t), Moved(t) \/ Rested
    PROVE  CountInv'
<1> DEFINE h == Head(stack'[t])
<1>0. num \in Int /\ num' \in Int /\ loc \in [Threads -> Locals] /\ \A u \in Threads : At(u)' = Head(stack'[u])
  BY DEF Typed, At
<1>1. num' = num \/ (num' >= 2 /\ loc' = loc)
  BY NumChanges
<1>2. ASSUME stack' # stack
      PROVE  h \in Follow(At(t))
  BY <1>2 DEF Moved, Rested
<1>3. Primary \in list => num >= 1 /\ num' >= 1
  <2>1. Primary \in list => num >= 1
    BY DEF CountInv
  <2> QED BY <1>0, <1>1, <2>1
<1>4. At(t) \in {"inc", "insert", "inserting"} => Primary \in list
  <2>1. Primary \notin list => At(t) \in {"none", "foreign"}
    BY WaitsIs DEF PrimaryInv, At
  <2> QED BY <2>1
<1>5. list' = list \/ (At(t) = "inserting" /\ list' = list \cup {loc[t].other})
  BY DEF Lists, CountInv, ExitLabels
<1>6. Primary \in list' => num' >= 1
  <2>1. CASE Primary \in list
    BY <1>3, <2>1
  <2>2. CASE Primary \notin list
    BY <1>4, <1>5, <2>2
  <2> QED BY <2>1, <2>2
<1>7. ASSUME NEW u \in Threads, Head(stack'[u]) = "incStore"
      PROVE  loc'[u].tmp >= 1
  <2>1. CASE u # t
    <3>1. stack'[u] = stack[u] /\ loc'[u] = loc[u]
      BY <1>7, <2>1, OthersStay
    <3> QED BY <1>7, <3>1 DEF CountInv, At
  <2>2. CASE u = t /\ stack' = stack
    <3>1. At(t) = "incStore"
      BY <1>7, <2>2 DEF At
    <3>2. loc'[t].tmp = loc[t].tmp
      <4>1. CASE StoreNum(t)
        BY <4>1 DEF StoreNum
      <4>2. CASE StopStep(t)
        BY <3>1, <4>2
        DEF StopStep, BeginSuspend, BeginResume, BeginLoop, EndSuspend, EndResume,
            EndLoop, SuspendOther, ResumeOther, EnsureSafeStates, CheckSafe, WakingDone, Runs
      <4>3. CASE StillStep(t)
        BY <4>3, StillChanges
      <4>4. CASE CodeStep(t)
        BY <4>4, CodeChanges
      <4>5. CASE ThreadStep(t) /\ ~ StoreNum(t)
        BY <3>1, <4>5
        DEF ThreadStep, CallRunSecondaryThread, ReadNum, LockList, ResumeNewThread,
            FindRecord, AwaitEvent, ReadThreadID, NewQV, Runs
      <4>6. CASE ListStep(t)
        BY <4>6, ListChanges
      <4> QED BY <4>1, <4>2, <4>3, <4>4, <4>5, <4>6 DEF PlainStep
    <3> QED BY <2>2, <3>1, <3>2 DEF CountInv
  <2>3. CASE u = t /\ stack' # stack
    <3>1. At(t) = "inc"
      BY <1>2, <1>7, <2>3 DEF Follow, Below
    <3>2. ReadNum(t)
      BY <2>3, <3>1, CountSteps
    <3>3. loc'[t].tmp = num
      BY <1>0, <3>2 DEF ReadNum, Locals
    <3> QED BY <1>3, <1>4, <2>3, <3>1, <3>3
  <2> QED BY <2>1, <2>2, <2>3
<1>8. ASSUME num >= 2
      PROVE  num' >= 2
  BY <1>1, <1>8
<1>9. ASSUME NEW u \in Threads, Head(stack'[u]) \in {"insert", "inserting"}
      PROVE  num' >= 2
  <2>1. CASE u # t
    <3>1. stack'[u] = stack[u]
      BY <1>9, <2>1, OthersStay
    <3> QED BY <1>8, <1>9, <3>1 DEF CountInv, At
  <2>2. CASE u = t /\ stack' = stack
    BY <1>8, <1>9, <2>2 DEF CountInv, At
  <2>3. CASE u = t /\ stack' # stack
    <3>1. At(t) \in {"incStore", "insert"}
      BY <1>2, <1>9, <2>3 DEF Follow, Below
    <3>2. CASE At(t) = "insert"
      BY <1>8, <3>2 DEF CountInv
    <3>3. CASE At(t) = "incStore"
      <4>1. num' = loc[t].tmp + 1
        BY <2>3, <3>3, CountSteps DEF StoreNum, Runs
      <4>2. loc[t].tmp >= 1 /\ loc[t].tmp \in Int
        BY <3>3 DEF CountInv, Typed, Locals
      <4> QED BY <4>1, <4>2
    <3> QED BY <3>1, <3>2, <3>3
  <2> QED BY <2>1, <2>2, <2>3
<1>10. ASSUME NEW u \in Threads, u # Primary, u \in list'
       PROVE  num' >= 2
  <2>1. CASE u \in list
    BY <1>8, <1>10, <2>1 DEF CountInv
  <2>2. CASE u \notin list
    <3>1. At(t) = "inserting"
      BY <1>5, <1>10, <2>2
    <3> QED BY <1>8, <3>1 DEF CountInv
  <2> QED BY <2>1, <2>2
<1>11. ASSUME NEW u \in Threads
       PROVE  Head(stack'[u]) \notin ExitLabels
  <2>1. CASE u # t
    <3>1. stack'[u] = stack[u] \/ Head(stack'[u]) = "find"
      BY <2>1, OthersStay
    <3> QED BY <3>1 DEF CountInv, At, ExitLabels
  <2>2. CASE u = t /\ stack' = stack
    BY <2>2 DEF CountInv, At
  <2>3. CASE u = t /\ stack' # stack /\ h \in ExitLabels
    <3>1. At(t) = "lisp" /\ h = "remove"
      <4>1. At(t) \notin ExitLabels
        BY DEF CountInv
      <4> QED BY <1>2, <2>3, <4>1 DEF Follow, Below, ExitLabels
    <3>2. "exit" \notin ops
      BY DEF NoExit, Typed
    <3>3. ~ CallRunSecondaryThread(t)
      BY <3>1, StartBegins
    <3> QED BY <2>3, <3>1, <3>2, <3>3, FromLisp
  <2> QED BY <2>1, <2>2, <2>3
<1> QED BY <1>0, <1>6, <1>7, <1>9, <1>10, <1>11 DEF CountInv

-----------------------------------------------------------------------------
(* And safe.                                                               *)
SafeInv == \A t \in Threads :
    /\ At(t) \in {"safe", "waking"} => \A u \in list \ {t} : u \in loc[t].todo \/ u \notin unsafe
    /\ At(t) = "collect" => \A u \in list \ {t} : u \notin unsafe

(* A thread of the list is alone when no more than one is counted.          *)
LEMMA CountedAlone ==
    ASSUME Typed, CountInv, NEW t \in Threads, t \in list, ~ (num > 1)
    PROVE  list \ {t} = {}
<1>1. \A u \in Threads : u \in list => u = Primary
  <2>1. \A u \in Threads : u # Primary /\ u \in list => num >= 2
    BY DEF CountInv
  <2>2. num \in Int
    BY DEF Typed
  <2> QED BY <2>1, <2>2
<1> QED BY <1>1 DEF list

(* The thread itself: it looked at all the others, or there are none.       *)
LEMMA SafeSelf ==
    ASSUME Plain, Typed, ShapeInv, CreateInv, WorldInv, SafeInv, CountInv, NEW t \in Threads,
           PlainStep(t), Changes(t), Lists(t), Moved(t) \/ Rested
    PROVE  /\ Head(stack'[t]) \in {"safe", "waking"}
              => \A u \in list' \ {t} : u \in loc'[t].todo \/ u \notin unsafe'
           /\ Head(stack'[t]) = "collect" => \A u \in list' \ {t} : u \notin unsafe'
<1> DEFINE h == Head(stack'[t])
           T == loc'[t].todo
<1>0. /\ list \subseteq Threads /\ unsafe' \subseteq unsafe \cup {t}
      /\ loc \in [Threads -> Locals] /\ loc[t] \in Locals
      /\ At(t) \in {"safe", "waking"} => \A u \in list \ {t} : u \in loc[t].todo \/ u \notin unsafe
      /\ At(t) = "collect" => \A u \in list \ {t} : u \notin unsafe
  BY DEF list, Typed, Changes, SafeInv
<1>1. CASE h \notin {"safe", "waking", "collect"}
  BY <1>1
<1>2. CASE h \in {"safe", "waking", "collect"} /\ ~ StopStep(t)
  <2>1. h = At(t) /\ UNCHANGED loc /\ list' = list
    BY <1>2, StaysStopped DEF Stopping
  <2> QED BY <1>0, <2>1
<1>3. CASE h \in {"safe", "waking", "collect"} /\ StopStep(t)
  <2>0. unsafe' = unsafe /\ list' = list
    <3>1. At(t) = "waking" => loc[t].other \in list
      BY DEF WorldInv
    <3> QED BY <1>3, <3>1, StopShape, StopChanges
  <2>1. CASE EnsureSafeStates(t)
    <3>1. At(t) = "ensureSafe" /\ t \in list
      BY <2>1, Tops DEF EnsureSafeStates, Runs, BlessingHeads
    <3>2. CASE num > 1
      <4>1. loc' = [loc EXCEPT ![t].todo = list \ {t}] /\ Do(t, <<"safe">>)
        BY <2>1, <3>2 DEF EnsureSafeStates
      <4>2. T = list \ {t}
        BY <1>0, <4>1 DEF Locals
      <4>3. h = "safe"
        <5>1. stack[t] \in Seq(Label) /\ stack[t] # <<>>
          BY Tops
        <5>2. Tail(stack[t]) \in Seq(Label) /\ "safe" \in Label
          BY <5>1, HeadTailProperties DEF Label
        <5>3. stack'[t] = <<"safe">> \o Tail(stack[t])
          BY <4>1 DEF Do, Typed
        <5> QED BY <5>2, <5>3, Prefixed
      <4> QED BY <2>0, <4>2, <4>3
    <3>3. CASE ~ (num > 1)
      <4>1. list \ {t} = {}
        BY <3>1, <3>3, CountedAlone
      <4> QED BY <2>0, <4>1
    <3> QED BY <3>2, <3>3
  <2>2. CASE CheckSafe(t)
    <3>1. At(t) = "safe"
      BY <2>2 DEF CheckSafe, Runs
    <3>2. CASE loc[t].todo = {}
      BY <1>0, <2>0, <3>1, <3>2
    <3>3. ASSUME NEW u \in loc[t].todo, loc' = [loc EXCEPT ![t].other = u],
                 Do(t, <<"waking", "safe">>)
          PROVE  h = "waking" /\ \A v \in list' \ {t} : v \in T \/ v \notin unsafe'
      <4>1. T = loc[t].todo
        BY <1>0, <3>3 DEF Locals
      <4>2. h = "waking"
        BY <3>3, SafeWakes
      <4> QED BY <1>0, <2>0, <3>1, <4>1, <4>2
    <3>4. ASSUME NEW u \in loc[t].todo, ~ IsUnsafe(u), Visited(t, u), UNCHANGED stack
          PROVE  h = "safe" /\ \A v \in list' \ {t} : v \in T \/ v \notin unsafe'
      <4>1. T = loc[t].todo \ {u}
        BY <1>0, <3>4 DEF Visited, Locals
      <4>2. u \notin unsafe
        BY <3>4 DEF IsUnsafe, Plain
      <4>3. h = "safe"
        BY <3>1, <3>4 DEF At
      <4> QED BY <1>0, <2>0, <3>1, <4>1, <4>2, <4>3
    <3>5. CASE \E u \in loc[t].todo :
                 IF IsUnsafe(u)
                 THEN /\ Enter(t, "TQ")
                      /\ ResumeThread(u)
                      /\ loc' = [loc EXCEPT ![t].other = u]
                      /\ Do(t, <<"waking", "safe">>)
                 ELSE Visited(t, u) /\ UNCHANGED <<stack, locks, susp>>
      BY <3>3, <3>4, <3>5
    <3> QED BY <2>2, <3>2, <3>5 DEF CheckSafe
  <2>3. CASE WakingDone(t)
    <3>1. At(t) = "waking" /\ loc' = loc
      BY <2>3 DEF WakingDone, Runs
    <3>2. h # "collect"
      <4>1. stack' = stack => h = At(t)
        BY DEF At
      <4>2. stack' # stack => h \in Follow(At(t))
        BY DEF Moved, Rested
      <4> QED BY <3>1, <4>1, <4>2 DEF Follow, Below
    <3> QED BY <1>0, <2>0, <3>1, <3>2
  <2>4. CASE ~ EnsureSafeStates(t) /\ ~ CheckSafe(t) /\ ~ WakingDone(t)
    <3>1. At(t) \in {"suspend", "suspending", "resume", "resuming"}
      BY <1>3, <2>4 DEF StopStep, BeginSuspend, BeginResume, BeginLoop, EndSuspend, EndResume,
                        EndLoop, SuspendOther, ResumeOther, Runs
    <3>2. stack' = stack => h = At(t)
      BY DEF At
    <3>3. stack' # stack => h \in Follow(At(t))
      BY DEF Moved, Rested
    <3> QED BY <1>3, <3>1, <3>2, <3>3 DEF Follow, Below
  <2> QED BY <2>1, <2>2, <2>3, <2>4
<1> QED BY <1>1, <1>2, <1>3

(* Another thread: who enters an atomic unit is not suspended.              *)
LEMMA SafeOther ==
    ASSUME Typed, ShapeInv, CreateInv, OwnerInv, ListInv, WorldInv, SafeInv,
           NEW t \in Threads, Changes(t), Lists(t), NEW u \in Threads \ {t}
    PROVE  /\ Head(stack'[u]) \in {"safe", "waking"}
              => \A v \in list' \ {u} : v \in loc'[u].todo \/ v \notin unsafe'
           /\ Head(stack'[u]) = "collect" => \A v \in list' \ {u} : v \notin unsafe'
<1>1. loc'[u] = loc[u]
  BY OthersStay
<1>2. CASE stack'[u] # stack[u]
  <2>1. Head(stack'[u]) = "find"
    BY <1>2, OthersStay
  <2> QED BY <2>1
<1>3. CASE stack'[u] = stack[u] /\ At(u) \in {"safe", "waking", "collect"}
  <2>1. list' = list /\ unsafe' \subseteq unsafe \cup {t} /\ susp[t] = 0
    BY <1>3, Undisturbed DEF Stopping, Changes
  <2>2. t \in list => At(u) = "waking" /\ t = loc[u].other /\ t \in loc[u].todo
    BY <1>3, <2>1 DEF WorldInv
  <2>3. At(u) \in {"safe", "waking"} => \A v \in list \ {u} : v \in loc[u].todo \/ v \notin unsafe
    BY DEF SafeInv
  <2>4. At(u) = "collect" => \A v \in list \ {u} : v \notin unsafe
    BY DEF SafeInv
  <2> QED BY <1>1, <1>3, <2>1, <2>2, <2>3, <2>4 DEF At
<1>4. CASE stack'[u] = stack[u] /\ At(u) \notin {"safe", "waking", "collect"}
  BY <1>4 DEF At
<1> QED BY <1>2, <1>3, <1>4

(* Every step keeps what is known of the threads found safe.                *)
LEMMA SafeStep ==
    ASSUME Plain, Typed, ShapeInv, CreateInv, OwnerInv, ListInv, WorldInv, SafeInv, CountInv,
           NEW t \in Threads, PlainStep(t), Changes(t), Lists(t), Moved(t) \/ Rested
    PROVE  SafeInv'
<1>1. \A u \in Threads :
        /\ Head(stack'[u]) \in {"safe", "waking"}
           => \A v \in list' \ {u} : v \in loc'[u].todo \/ v \notin unsafe'
        /\ Head(stack'[u]) = "collect" => \A v \in list' \ {u} : v \notin unsafe'
  BY SafeSelf, SafeOther
<1> QED BY <1>1 DEF SafeInv, At

-----------------------------------------------------------------------------
(* All of it, and what holds when no thread ends.                          *)
Inv == /\ Typed /\ ShapeInv /\ CreateInv /\ OwnerInv /\ ListInv /\ PrimaryInv /\ WorldInv
CountedInv == Inv /\ CountInv /\ SafeInv

(* Labels that the invariant says nothing of.                               *)
Calm == {"none", "foreign", "lisp"}

(* The invariants hold initially.                                          *)
LEMMA InitInv == Init => CountedInv
<1> SUFFICES ASSUME Init PROVE CountedInv
  OBVIOUS
<1>1. list = {}
  BY DEF Init, list, NewRecord
<1>2. Typed
  <2>1. DOMAIN stack = Threads /\ susp \in [Threads -> Nat] /\ unsafe \subseteq Threads
        /\ num \in Int /\ ops \in Workloads
    BY DEF Init
  <2>2. locks \in [LockNames -> LockState]
    BY DEF Init, Unlocked, LockState
  <2>3. rec \in [Threads -> Record]
    BY DEF Init, NewRecord, Record
  <2>4. loc \in [Threads -> Locals]
    BY DEF Init, NewLocals, Locals
  <2> QED BY <2>1, <2>2, <2>3, <2>4 DEF Typed
<1>3. \A t \in Threads : Waits(t, stack[t])
  BY DEF Init, Waits
<1>4. ShapeInv
  BY <1>1, <1>3 DEF ShapeInv, Placed, Outside
<1>5. \A t \in Threads : At(t) \in {"none", "foreign"}
  BY <1>3, WaitsIs DEF At
<1>6. locks["TQ"] = Unlocked
  BY DEF Init, LockNames
<1>7. CreateInv /\ OwnerInv /\ ListInv /\ WorldInv /\ SafeInv
  <2>1. CreateInv
    BY <1>5 DEF CreateInv, Starting, Creating, Before
  <2>2. OwnerInv
    BY <1>5 DEF OwnerInv, Excludes, Owning, Before
  <2>3. ListInv
    <3>1. \A t : [owner |-> t, count |-> 1] # Unlocked
      BY DEF Unlocked
    <3> QED BY <1>5, <1>6, <3>1 DEF ListInv, Listing
  <2>4. WorldInv /\ SafeInv
    BY <1>5 DEF WorldInv, SafeInv
  <2> QED BY <2>1, <2>2, <2>3, <2>4
<1>8. PrimaryInv
  BY <1>1, <1>3 DEF PrimaryInv, Init
<1>9. CountInv
  BY <1>1, <1>5 DEF CountInv, ExitLabels
<1> QED BY <1>2, <1>4, <1>7, <1>8, <1>9 DEF Inv, CountedInv

(* The initialization of the primary thread keeps them.                    *)
LEMMA RunStep ==
    ASSUME Inv, RunLispThread
    PROVE  CountedInv'
<1>0. /\ Typed /\ ShapeInv /\ PrimaryInv /\ ListInv /\ Primary \in Threads
      /\ At(Primary) = "none"
  BY DEF Inv, RunLispThread, Runs, Threads
<1>1. Primary \notin list
  <2>1. ASSUME Primary \in list
        PROVE  FALSE
    <3>1. Inside(Primary, stack[Primary])
      BY <1>0, <2>1, Tops
    <3>2. Primary \in Secondaries
      BY <1>0, <3>1, InsideIs DEF At
    <3> QED BY <3>2, ThreadsAssumption
  <2> QED BY <2>1
<1>2. list = {} /\ num = 0 /\ \A t \in Threads : Waits(t, stack[t])
  BY <1>0, <1>1 DEF PrimaryInv
<1>3. \A t \in Threads : At(t) \in {"none", "foreign"}
  BY <1>2, WaitsIs DEF At
<1>4. /\ stack'[Primary] = <<"lisp">>
      /\ \A t \in Threads \ {Primary} : stack'[t] = stack[t]
  BY <1>0 DEF RunLispThread, Typed
<1>5. \A t \in Threads : At(t)' \in Calm
  BY <1>3, <1>4, PrimaryInside DEF At, Calm
<1>6. rec' \in [Threads -> Record] /\ list' = {Primary}
  <2>1. rec \in [Threads -> Record]
    BY <1>0 DEF Typed
  <2>2. /\ rec'[Primary] \in Record /\ rec'[Primary].listed
        /\ rec' \in [Threads -> Record]
    BY <1>0, <2>1 DEF RunLispThread, Record
  <2>3. \A t \in Threads \ {Primary} : rec'[t] = rec[t]
    BY <2>1 DEF RunLispThread
  <2>4. \A t \in Threads \ {Primary} : ~ rec[t].listed
    BY <1>2 DEF list
  <2> QED BY <1>0, <2>2, <2>3, <2>4 DEF list
<1>7. Typed'
  BY <1>0, <1>6 DEF RunLispThread, Typed
<1>8. ShapeInv'
  <2>1. ASSUME NEW t \in Threads
        PROVE  IF t \in list' THEN Inside(t, stack'[t]) ELSE Outside(t, stack'[t])
    <3>1. CASE t = Primary
      BY <1>4, <1>6, <3>1, PrimaryInside
    <3>2. CASE t # Primary
      BY <1>2, <1>4, <1>6, <3>2 DEF Outside
    <3> QED BY <3>1, <3>2
  <2> QED BY <2>1 DEF ShapeInv, Placed
<1>9. locks' = locks /\ locks["TQ"] = Unlocked
  <2>1. \A t \in Threads : locks["TQ"] # [owner |-> t, count |-> 1]
    BY <1>0, <1>3 DEF ListInv, Listing
  <2> QED BY <1>0, <2>1 DEF ListInv, RunLispThread
<1>10. (CreateInv /\ OwnerInv /\ ListInv /\ WorldInv /\ SafeInv)'
  <2>1. CreateInv'
    BY <1>5 DEF CreateInv, Starting, Creating, Before, Calm
  <2>2. OwnerInv'
    BY <1>5 DEF OwnerInv, Excludes, Owning, Before, Calm
  <2>3. ListInv'
    <3>1. \A t : [owner |-> t, count |-> 1] # Unlocked
      BY DEF Unlocked
    <3> QED BY <1>5, <1>9, <3>1 DEF ListInv, Listing, Calm
  <2>4. WorldInv' /\ SafeInv'
    BY <1>5 DEF WorldInv, SafeInv, Calm
  <2> QED BY <2>1, <2>2, <2>3, <2>4
<1>11. PrimaryInv'
  BY <1>6 DEF PrimaryInv
<1>12. CountInv'
  <2>1. num' = 1
    BY <1>2 DEF RunLispThread
  <2> QED BY <1>5, <1>6, <2>1 DEF CountInv, ExitLabels, Calm
<1> QED BY <1>7, <1>8, <1>10, <1>11, <1>12 DEF Inv, CountedInv

(* Every step keeps the invariant.                                         *)
LEMMA InvStep ==
    ASSUME Plain, Inv, [Next]_vars
    PROVE  Inv'
<1>1. CASE UNCHANGED vars
  <2>1. /\ UNCHANGED <<stack, locks, susp, unsafe, rec, loc, num, ops>> /\ list' = list
    BY <1>1, SameList DEF vars
  <2>2. \A t \in Threads : At(t)' = At(t)
    BY <2>1 DEF At
  <2>3. Typed' /\ ShapeInv' /\ PrimaryInv'
    BY <2>1 DEF Inv, Typed, ShapeInv, PrimaryInv, Placed
  <2>4. CreateInv'
    BY <2>1 DEF Inv, CreateInv, Starting, Creating, At
  <2>5. OwnerInv' /\ ListInv'
    BY <2>1 DEF Inv, OwnerInv, ListInv, Excludes, At
  <2>6. WorldInv'
    BY <2>1, <2>2 DEF Inv, WorldInv
  <2> QED BY <2>3, <2>4, <2>5, <2>6 DEF Inv
<1>2. CASE RunLispThread
  BY <1>2, RunStep DEF CountedInv
<1>3. ASSUME NEW t \in Threads, PlainStep(t)
      PROVE  Inv'
  <2>1. Typed /\ ShapeInv /\ CreateInv /\ OwnerInv /\ ListInv /\ PrimaryInv /\ WorldInv
    BY DEF Inv
  <2>2. /\ Typed' /\ ShapeInv' /\ Changes(t) /\ Lists(t) /\ Keeps(t)
        /\ ListLock(t) /\ HeapLock(t)
        /\ Moved(t) \/ Rested
    BY <1>3, <2>1, StepIs
  <2>3. CreateInv'
    BY <1>3, <2>1, <2>2, CreateStep
  <2>4. OwnerInv' /\ ListInv'
    BY <2>1, <2>2, OwnerStep, ListStepInv
  <2>5. PrimaryInv'
    BY <1>3, <2>1, <2>2, PrimaryStep
  <2>6. WorldInv'
    BY <1>3, <2>1, <2>2, WorldStep
  <2> QED BY <2>2, <2>3, <2>4, <2>5, <2>6 DEF Inv
<1> QED BY <1>1, <1>2, <1>3, OnlyPlain DEF Inv

(* And that of programs that end no thread.                                *)
LEMMA CountedStep ==
    ASSUME Plain, NoExit, CountedInv, [Next]_vars
    PROVE  CountedInv'
<1>1. Inv'
  BY InvStep DEF CountedInv
<1>2. CASE UNCHANGED vars
  <2>1. /\ UNCHANGED <<stack, unsafe, loc, num>> /\ list' = list
    BY <1>2, SameList DEF vars
  <2>2. \A t \in Threads : At(t)' = At(t)
    BY <2>1 DEF At
  <2> QED BY <1>1, <2>1, <2>2 DEF CountedInv, CountInv, SafeInv
<1>3. CASE RunLispThread
  BY <1>3, RunStep DEF CountedInv
<1>4. ASSUME NEW t \in Threads, PlainStep(t)
      PROVE  CountedInv'
  <2>1. /\ Typed /\ ShapeInv /\ CreateInv /\ OwnerInv /\ ListInv /\ PrimaryInv /\ WorldInv
        /\ CountInv /\ SafeInv
    BY DEF CountedInv, Inv
  <2>2. Typed' /\ Changes(t) /\ Lists(t) /\ (Moved(t) \/ Rested)
    BY <1>4, <2>1, StepIs
  <2>3. CountInv'
    BY <1>4, <2>1, <2>2, CountStep
  <2>4. SafeInv'
    BY <1>4, <2>1, <2>2, SafeStep
  <2> QED BY <1>1, <2>3, <2>4 DEF CountedInv
<1> QED BY <1>2, <1>3, <1>4, OnlyPlain DEF CountedInv, Inv

-----------------------------------------------------------------------------
(* The theorems.                                                           *)

(* SuspendOtherThreads, ensureSafeStates and ResumeOtherThreads walk the    *)
(* records they found when they began: every one they still have to visit   *)
(* is in the list.  ensureSafeStates does so without the lock of the list,  *)
(* and wakes threads on the way; threads are inserted under                 *)
(* GCCriticalSection or by threads that are suspended, and the lock that    *)
(* ensureSafeState holds while it sleeps keeps the woken one from leaving.  *)
THEOREM WalkedRecords ==
    ASSUME Plain
    PROVE  Spec => []WalkedRecordsExist
<1>1. Inv => WalkedRecordsExist
  BY DEF Inv, WorldInv, WalkedRecordsExist
<1>2. Init => Inv
  BY InitInv DEF CountedInv
<1>3. Inv /\ [Next]_vars => Inv'
  BY InvStep
<1> QED BY <1>1, <1>2, <1>3, PTL DEF Spec

(* The thread that ensureSafeState wakes is in the list when it is to be    *)
(* suspended again: the loop that waits for it ends.                        *)
THEOREM WokenStays ==
    ASSUME Plain
    PROVE  Spec => []WokenStaysListed
<1>1. Inv => WokenStaysListed
  BY Tops DEF Inv, WokenStaysListed, ForcedLabels
<1>2. Init => Inv
  BY InitInv DEF CountedInv
<1>3. Inv /\ [Next]_vars => Inv'
  BY InvStep
<1> QED BY <1>1, <1>2, <1>3, PTL DEF Spec

(* While the collector moves objects every other thread of the list is      *)
(* suspended and outside its atomic units, prologs and epilogs.  Increments *)
(* of NumLispThreads may be lost: ensureSafeStates still looks at the       *)
(* others when there are any.                                               *)
THEOREM WorldStopped ==
    ASSUME Plain, NoExit
    PROVE  Spec => []StopTheWorld
<1>1. CountedInv => StopTheWorld
  BY DEF CountedInv, Inv, WorldInv, SafeInv, StopTheWorld
<1>2. Init => CountedInv
  BY InitInv
<1>3. CountedInv /\ [Next]_vars => CountedInv'
  BY CountedStep
<1> QED BY <1>1, <1>2, <1>3, PTL DEF Spec

-----------------------------------------------------------------------------
(* The values of a thread that blesses itself.                             *)

(* No thread of the program creates another: clients bring their own.       *)
NoCreate == \A w \in Workloads : "create" \notin w

(* A copy that the collector does not update belongs to a thread that has   *)
(* still to be inserted, and then keeps collections out (OwnerInv).         *)
FreshInv ==
    /\ \A u \in Threads : /\ rec[u].qv # "stale"
                          /\ rec[u].qv = "copied" => u \notin list /\ At(u) \in Before
    /\ \A u \in list : At(u) \notin Before

(* How the copies change.                                                   *)
LEMMA QvChanges ==
    ASSUME Plain, NoCreate, Typed, ShapeInv, CreateInv, OwnerInv, FreshInv,
           NEW t \in Threads, PlainStep(t)
    PROVE  /\ \A v \in Threads : \/ rec'[v].qv = rec[v].qv
                                 \/ rec'[v].qv \in {"none", "scanned"}
                                 \/ v = t /\ NewQV(t) /\ rec'[v].qv = "copied"
           /\ At(t) = "inserting" /\ list' # list => rec'[t].qv # "copied"
<1>0. rec \in [Threads -> Record] /\ \A v \in Threads : rec[v] \in Record
  BY DEF Typed
<1>1. CASE StopStep(t) \/ StillStep(t)
  <2>1. UNCHANGED rec
    BY <1>1, StopChanges, StillChanges
  <2>2. list' = list
    BY <2>1, SameList
  <2> QED BY <2>1, <2>2
<1>2. CASE CodeStep(t)
  <2>1. CASE Collect(t)
    <3>1. At(t) = "collect" /\ locks["GC"].owner = t
      BY <2>1 DEF Collect, Runs, OwnerInv, Excludes, Owning
    <3>2. ASSUME NEW v \in Threads, rec[v].qv = "copied"
          PROVE  FALSE
      <4>1. v \notin list /\ At(v) \in Before
        BY <3>2 DEF FreshInv
      <4>2. locks["GC"].owner = v
        BY <4>1 DEF OwnerInv, Excludes
      <4> QED BY <3>1, <4>1, <4>2 DEF Before
    <3>3. \A v \in Threads : rec'[v] = rec[v]
      BY <2>1, <3>2 DEF Collect
    <3> QED BY <3>1, <3>3
  <2>2. CASE ~ Collect(t)
    <3>1. UNCHANGED rec
      BY <1>2, <2>2 DEF CodeStep, CallFromLisp, LeaveLisp, CallFromClient, EnterLock, LeaveLock,
         TakeBlock, Bump, EnterCollection, RunHooks
    <3>2. list' = list
      BY <3>1, SameList
    <3> QED BY <3>1, <3>2
  <2> QED BY <2>1, <2>2
<1>3. CASE ThreadStep(t)
  <2>0. At(t) # "inserting"
    BY <1>3 DEF ThreadStep, CallRunSecondaryThread, ReadNum, StoreNum, LockList,
       ResumeNewThread, FindRecord, AwaitEvent, ReadThreadID, NewQV, Runs
  <2>1. ~ CallRunSecondaryThread(t)
    BY DEF CallRunSecondaryThread, NoCreate, Typed
  <2>2. CASE NewQV(t)
    <3>1. rec'[t].qv = "copied" /\ \A v \in Threads \ {t} : rec'[v] = rec[v]
      BY <1>0, <2>2 DEF NewQV
    <3> QED BY <2>0, <2>2, <3>1
  <2>3. CASE ResumeNewThread(t)
    <3>1. rec' = [rec EXCEPT ![loc[t].other].handle = TRUE]
      BY <2>3 DEF ResumeNewThread
    <3>2. \A v \in Threads : rec'[v].qv = rec[v].qv
      BY <1>0, <3>1 DEF Record
    <3> QED BY <2>0, <3>2
  <2>4. CASE FindRecord(t)
    <3>1. rec' = [rec EXCEPT ![t].event = rec[t].handle]
      BY <2>4 DEF FindRecord
    <3>2. \A v \in Threads : rec'[v].qv = rec[v].qv
      BY <1>0, <3>1 DEF Record
    <3> QED BY <2>0, <3>2
  <2>5. CASE AwaitEvent(t)
    <3>1. rec' = [rec EXCEPT ![loc[t].other].event = FALSE]
      BY <2>5 DEF AwaitEvent
    <3>2. \A v \in Threads : rec'[v].qv = rec[v].qv
      BY <1>0, <3>1 DEF Record
    <3> QED BY <2>0, <3>2
  <2>6. CASE ~ NewQV(t) /\ ~ ResumeNewThread(t) /\ ~ FindRecord(t) /\ ~ AwaitEvent(t)
    <3>1. UNCHANGED rec
      BY <1>3, <2>1, <2>6 DEF ThreadStep, ReadNum, StoreNum, LockList, ReadThreadID
    <3> QED BY <2>0, <3>1
  <2> QED BY <2>2, <2>3, <2>4, <2>5, <2>6
<1>4. CASE ListStep(t)
  <2>1. CASE Insert(t)
    <3>1. At(t) = "inserting" /\ t \notin list /\ loc[t].other = t
      <4>1. At(t) = "inserting"
        BY <2>1 DEF Insert, Runs
      <4> QED BY <4>1 DEF FreshInv, CreateInv, Before
    <3>2. rec' = [rec EXCEPT ![t].listed = TRUE, ![t].qv = Scanned(@)]
      BY <2>1, <3>1 DEF Insert
    <3>3. rec'[t].qv = Scanned(rec[t].qv) /\ \A v \in Threads \ {t} : rec'[v].qv = rec[v].qv
      BY <1>0, <3>2 DEF Record
    <3>4. rec[t].qv \in {"none", "copied", "scanned"}
      BY <1>0 DEF Record, FreshInv
    <3> QED BY <3>3, <3>4 DEF Scanned
  <2>2. CASE Remove(t)
    <3>1. At(t) = "removing" /\ rec' = [rec EXCEPT ![t] = NewRecord]
      BY <2>2 DEF Remove, Runs
    <3>2. rec'[t].qv = "none" /\ \A v \in Threads \ {t} : rec'[v].qv = rec[v].qv
      BY <1>0, <3>1 DEF NewRecord
    <3> QED BY <3>1, <3>2
  <2>3. CASE BeginThread(t)
    <3> DEFINE s == loc[t].other
    <3>1. /\ At(t) = "begin"
          /\ \/ rec' = [rec EXCEPT ![s].handle = SuspendWorks, ![s].qv = Scanned(@)]
             \/ rec' = [rec EXCEPT ![s].qv = Scanned(@)]
      BY <2>3 DEF BeginThread, Runs
    <3>2. \A v \in Threads : rec'[v].qv = IF v = s THEN Scanned(rec[v].qv) ELSE rec[v].qv
      <4>1. CASE rec' = [rec EXCEPT ![s].handle = SuspendWorks, ![s].qv = Scanned(@)]
        BY <1>0, <4>1 DEF Record
      <4>2. CASE rec' = [rec EXCEPT ![s].qv = Scanned(@)]
        BY <1>0, <4>2 DEF Record
      <4> QED BY <3>1, <4>1, <4>2
    <3> QED BY <3>1, <3>2 DEF Scanned
  <2> QED BY <1>4, <2>1, <2>2, <2>3 DEF ListStep
<1> QED BY <1>1, <1>2, <1>3, <1>4 DEF PlainStep

(* Every step of a program that creates no thread keeps the copies fresh.   *)
LEMMA FreshStep ==
    ASSUME Plain, NoCreate, Typed, ShapeInv, CreateInv, OwnerInv, FreshInv,
           NEW t \in Threads, PlainStep(t), Changes(t), Lists(t), Moved(t) \/ Rested
    PROVE  FreshInv'
<1> DEFINE h == Head(stack'[t])
<1>1. stack' # stack => h \in Follow(At(t))
  BY DEF Moved, Rested
<1>2. stack' = stack => h = At(t)
  BY DEF At
<1>3. At(t) = "inserting" => t \notin list /\ loc[t].other = t
  BY DEF FreshInv, CreateInv, Before
<1>4. \/ list' = list /\ (stack' = stack \/ At(t) # "inserting")
      \/ At(t) = "inserting" /\ list' = list \cup {t} /\ h \in Follow(At(t))
      \/ At(t) = "removing" /\ list' = list \ {t} /\ h \in Follow(At(t))
  BY <1>3 DEF Lists, Moved
<1>5. ASSUME NEW u \in list', Head(stack'[u]) \in Before
      PROVE  FALSE
  <2>0. u \in Threads /\ list \subseteq Threads
    BY DEF list
  <2>1. CASE u # t
    <3>1. u \in list
      BY <1>4, <2>1
    <3>2. stack'[u] = stack[u]
      BY <1>5, <2>0, <2>1, OthersStay DEF Before
    <3> QED BY <1>5, <3>1, <3>2 DEF FreshInv, At
  <2>2. CASE u = t /\ stack' = stack
    <3>1. h \notin Follow(At(t))
      BY <1>2, <1>5, <2>2 DEF Follow, Before
    <3>2. t \in list
      BY <1>4, <2>2, <3>1
    <3> QED BY <1>2, <1>5, <2>2, <3>2 DEF FreshInv
  <2>3. CASE u = t /\ stack' # stack
    <3>1. At(t) \in Before \cup {"lisp", "newQV"} /\ At(t) # "inserting"
      BY <1>1, <1>5, <2>3, OwningFollows
    <3>2. t \in list
      BY <1>4, <1>5, <2>3, <3>1 DEF Before
    <3>3. At(t) = "lisp"
      BY <3>1, <3>2, Tops DEF FreshInv, Work, CreationHeads
    <3>4. ~ CallRunSecondaryThread(t)
      BY DEF CallRunSecondaryThread, NoCreate, Typed
    <3> QED BY <1>5, <2>3, <3>3, <3>4, FromLisp DEF Before
  <2> QED BY <2>1, <2>2, <2>3
<1>6. ASSUME NEW u \in Threads
      PROVE  /\ rec'[u].qv # "stale"
             /\ rec'[u].qv = "copied" => u \notin list' /\ Head(stack'[u]) \in Before
  <2>1. /\ \/ rec'[u].qv = rec[u].qv
           \/ rec'[u].qv \in {"none", "scanned"}
           \/ u = t /\ NewQV(t) /\ rec'[u].qv = "copied"
        /\ At(t) = "inserting" /\ list' # list => rec'[t].qv # "copied"
    BY QvChanges
  <2>2. CASE u = t /\ NewQV(t)
    <3>1. At(t) = "newQV" /\ Done(t)
      BY <2>2 DEF NewQV, Runs
    <3>2. t \notin list /\ list' = list
      BY <1>4, <3>1, Tops DEF Work, CreationHeads
    <3>3. stack[t] \in Seq(Label) /\ stack[t] # <<>> /\ Outside(t, stack[t])
      BY <3>2, Tops
    <3>4. Tail(stack[t]) \in Seq(Label)
      BY <3>3, HeadTailProperties
    <3>5. stack'[t] = Tail(stack[t])
      <4>1. stack'[t] = <<>> \o Tail(stack[t])
        BY <3>1 DEF Done, Do, Typed
      <4> QED BY <3>4, <4>1, ConcatEmptySeq
    <3>6. h \in Follow("newQV")
      BY <3>1, <3>3, <3>5, PopOutside DEF At
    <3>7. h \in Before
      BY <3>6 DEF Follow, Before
    <3>8. rec[t].qv # "stale" /\ rec'[t].qv # "stale"
      BY <2>1, <2>2 DEF FreshInv
    <3> QED BY <2>2, <3>2, <3>7, <3>8
  <2>3. CASE ~ (u = t /\ NewQV(t)) /\ rec'[u].qv = rec[u].qv /\ rec[u].qv = "copied"
    <3>1. u \notin list /\ At(u) \in Before
      BY <2>3 DEF FreshInv
    <3>2. CASE u # t
      <4>1. stack'[u] = stack[u]
        BY <3>1, <3>2, OthersStay DEF Before
      <4> QED BY <1>4, <2>3, <3>1, <3>2, <4>1 DEF At
    <3>3. CASE u = t /\ stack' = stack
      <4>1. h \notin Follow(At(t))
        BY <1>2, <3>1, <3>3 DEF Follow, Before
      <4> QED BY <1>2, <1>4, <2>3, <3>1, <3>3, <4>1
    <3>4. CASE u = t /\ stack' # stack /\ At(t) = "inserting"
      <4>1. list' # list
        BY <1>3, <1>4, <3>1, <3>4
      <4> QED BY <2>1, <2>3, <3>4, <4>1
    <3>5. CASE u = t /\ stack' # stack /\ At(t) # "inserting"
      <4>1. list' = list
        BY <1>4, <3>1, <3>5 DEF Before
      <4>2. h \in Before
        BY <1>1, <3>1, <3>5 DEF Follow, Before
      <4> QED BY <2>3, <3>1, <3>5, <4>1, <4>2
    <3> QED BY <3>2, <3>3, <3>4, <3>5
  <2> QED BY <2>1, <2>2, <2>3 DEF FreshInv
<1> QED BY <1>5, <1>6 DEF FreshInv, At

(* The copy of the symbol values in the record of a thread that blesses     *)
(* itself was updated by every collection since BlessThread made it: the    *)
(* thread owns GCCriticalSection from createNewQV until it is in the list.  *)
THEOREM CopiesFresh ==
    ASSUME Plain, NoCreate
    PROVE  Spec => []ValuesFresh
<1> DEFINE J == Inv /\ FreshInv
<1>1. J => ValuesFresh
  BY DEF FreshInv, ValuesFresh, list
<1>2. Init => J
  <2> SUFFICES ASSUME Init PROVE J
    OBVIOUS
  <2>1. Inv
    BY InitInv DEF CountedInv
  <2>2. FreshInv
    BY DEF Init, FreshInv, list, NewRecord
  <2> QED BY <2>1, <2>2
<1>3. J /\ [Next]_vars => J'
  <2> SUFFICES ASSUME J, [Next]_vars PROVE J'
    OBVIOUS
  <2>1. Inv'
    BY InvStep
  <2>2. CASE UNCHANGED vars
    <3>1. UNCHANGED <<stack, rec>> /\ list' = list
      BY <2>2, SameList DEF vars
    <3> QED BY <2>1, <3>1 DEF FreshInv, At
  <2>3. CASE RunLispThread
    <3>1. rec' = [rec EXCEPT ![Primary] = [@ EXCEPT !.listed = TRUE, !.handle = TRUE,
                                                    !.qv = "scanned"]]
          /\ stack' = [stack EXCEPT ![Primary] = <<"lisp">>]
      BY <2>3 DEF RunLispThread
    <3>2. rec \in [Threads -> Record] /\ DOMAIN stack = Threads
      BY DEF Inv, Typed
    <3>3. /\ rec'[Primary].qv = "scanned" /\ stack'[Primary] = <<"lisp">>
          /\ \A u \in Threads \ {Primary} : rec'[u] = rec[u] /\ stack'[u] = stack[u]
      BY <3>1, <3>2 DEF Record, Threads
    <3>4. Head(stack'[Primary]) = "lisp"
      BY <3>3, PrimaryInside
    <3> QED BY <2>1, <3>3, <3>4 DEF FreshInv, At, list, Before
  <2>4. ASSUME NEW t \in Threads, PlainStep(t)
        PROVE  J'
    <3>1. Typed /\ ShapeInv /\ CreateInv /\ OwnerInv /\ WorldInv /\ FreshInv
      BY DEF Inv
    <3>2. Changes(t) /\ Lists(t) /\ (Moved(t) \/ Rested)
      BY <2>4, <3>1, StepIs
    <3>3. FreshInv'
      BY <2>4, <3>1, <3>2, FreshStep
    <3> QED BY <2>1, <3>3
  <2> QED BY <2>2, <2>3, <2>4, OnlyPlain DEF Inv
<1> QED BY <1>1, <1>2, <1>3, PTL DEF Spec

-----------------------------------------------------------------------------
(* The number of threads where clients bless themselves.                    *)

(* The list holds the primary thread and blessed threads; one thread at a   *)
(* time is between the increment of NumLispThreads and the list, and what   *)
(* it read is still the number.                                             *)
Arriving(t) == At(t) \in {"insert", "inserting"}
CoverInv ==
    /\ \A s \in Secondaries : stack[s] = <<"none">> /\ s \notin list
    /\ \A t \in Threads : ~ Creating(t)
    /\ \A t \in Threads : At(t) = "incStore" => loc[t].tmp = num
    /\ num >= Cardinality(list)
    /\ (\E t \in Threads : Arriving(t)) => num > Cardinality(list)

(* Only secondary threads leave the list or start others.                   *)
LEMMA NoneLeaves ==
    ASSUME Typed, ShapeInv, CoverInv, NEW t \in Threads
    PROVE  At(t) \notin ExitLabels \cup {"begin"}
<1>1. t \in Secondaries => At(t) = "none"
  BY DEF CoverInv, At
<1>2. At(t) # "begin"
  <2>1. At(t) = "begin" => t \in list
    BY Tops DEF BlessingHeads
  <2> QED BY <2>1 DEF CoverInv, Creating
<1>3. At(t) \notin {"remove", "removing"}
  <2>1. ASSUME At(t) \in {"remove", "removing"}
        PROVE  t \in Secondaries
    <3>1. t \in list /\ Inside(t, stack[t])
      BY <2>1, Tops DEF BlessingHeads
    <3>2. Quits(t, stack[t])
      BY <2>1, <3>1, InsideIs DEF At
    <3> QED BY <2>1, <3>2, QuitsIs DEF At
  <2> QED BY <1>1, <2>1
<1>4. At(t) \notin {"dec", "decStore", "ended"}
  <2>1. ASSUME At(t) \in {"dec", "decStore", "ended"}
        PROVE  t \in Secondaries
    <3>1. t \notin list /\ Outside(t, stack[t])
      BY <2>1, Tops DEF Work, CreationHeads
    <3>2. Gone(t, stack[t])
      BY <2>1, <3>1, OutsideIs DEF At
    <3> QED BY <3>2, GoneIs
  <2> QED BY <1>1, <2>1
<1> QED BY <1>2, <1>3, <1>4 DEF ExitLabels

(* The number and the local copy of it, where they are not written.         *)
LEMMA NumStays ==
    ASSUME Typed, ShapeInv, NEW t \in Threads, PlainStep(t), ~ StoreNum(t)
    PROVE  /\ num' = num
           /\ At(t) = "incStore" => loc'[t].tmp = loc[t].tmp
<1>1. CASE StopStep(t)
  BY <1>1
  DEF StopStep, BeginSuspend, BeginResume, BeginLoop, EndSuspend, EndResume,
      EndLoop, SuspendOther, ResumeOther, EnsureSafeStates, CheckSafe, WakingDone, Runs
<1>2. CASE StillStep(t)
  BY <1>2, StillChanges
<1>3. CASE CodeStep(t)
  BY <1>3
  DEF CodeStep, CallFromLisp, LeaveLisp, CallFromClient, EnterLock, LeaveLock, TakeBlock,
      Bump, EnterCollection, Collect, RunHooks
<1>4. CASE ThreadStep(t)
  BY <1>4
  DEF ThreadStep, CallRunSecondaryThread, ReadNum, StoreNum, LockList, ResumeNewThread,
      FindRecord, AwaitEvent, ReadThreadID, NewQV, Runs
<1>5. CASE ListStep(t)
  BY <1>5, ListChanges
<1> QED BY <1>1, <1>2, <1>3, <1>4, <1>5 DEF PlainStep

(* One more thread in the list.                                             *)
LEMMA ListGrows ==
    ASSUME NEW t \in Threads
    PROVE  /\ IsFiniteSet(list) /\ Cardinality(list) \in Nat
           /\ Cardinality(list \cup {t}) <= Cardinality(list) + 1
<1>1. IsFiniteSet(list)
  <2>1. list \subseteq Threads /\ IsFiniteSet(Threads)
    BY ThreadsAssumption DEF list
  <2> QED BY <2>1, FS_Subset
<1>2. Cardinality(list) \in Nat
  BY <1>1, FS_CardinalityType
<1>3. Cardinality(list \cup {t}) = IF t \in list THEN Cardinality(list) ELSE Cardinality(list) + 1
  BY <1>1, FS_AddElement
<1> QED BY <1>1, <1>2, <1>3

(* Every step of a program that creates no thread keeps it.                 *)
LEMMA CoverStep ==
    ASSUME Plain, NoCreate, Typed, ShapeInv, CreateInv, OwnerInv, FreshInv, CoverInv,
           NEW t \in Threads, PlainStep(t), Typed', Changes(t), Lists(t), Moved(t) \/ Rested
    PROVE  CoverInv'
<1> DEFINE h == Head(stack'[t])
           C == Cardinality(list)
<1>0. /\ num \in Int /\ num' \in Int /\ loc \in [Threads -> Locals]
      /\ \A u \in Threads : At(u)' = Head(stack'[u])
  BY DEF Typed, At
<1>1. stack' # stack => h \in Follow(At(t))
  BY DEF Moved, Rested
<1>2. At(t) \notin ExitLabels \cup {"begin"}
  BY NoneLeaves
<1>3. \A u \in Threads \ {t} : stack'[u] = stack[u] /\ loc'[u] = loc[u]
  BY <1>2 DEF Changes
<1>4. At(t) = "inserting" => t \notin list /\ loc[t].other = t
  BY DEF FreshInv, CreateInv, Before
<1>5. \/ list' = list /\ (stack' = stack \/ At(t) # "inserting")
      \/ At(t) = "inserting" /\ list' = list \cup {t} /\ stack' # stack
  <2>1. "inserting" \notin Follow("inserting")
    BY DEF Follow
  <2>2. stack' = stack => h = At(t)
    BY DEF At
  <2> QED BY <1>2, <1>4, <2>1, <2>2 DEF Lists, Moved, ExitLabels
<1>6. \A u, v \in Threads : At(u) \in Before /\ At(v) \in Before => u = v
  BY DEF OwnerInv, FreshInv, Excludes
<1>7. ~ CallRunSecondaryThread(t)
  BY DEF CallRunSecondaryThread, NoCreate, Typed
<1>8. stack' # stack /\ At(t) = "incStore" => num' = num + 1 /\ h = "insert"
  <2>1. stack' # stack /\ At(t) = "incStore" => StoreNum(t)
    BY CountSteps
  <2>2. At(t) = "incStore" => loc[t].tmp = num
    BY DEF CoverInv
  <2>3. StoreNum(t) /\ At(t) = "incStore" => num' = loc[t].tmp + 1
    BY DEF StoreNum, Runs
  <2>4. stack' # stack /\ At(t) = "incStore" => h = "insert"
    BY <1>1 DEF Follow
  <2> QED BY <2>1, <2>2, <2>3, <2>4
<1>9. ~ (stack' # stack /\ At(t) = "incStore") =>
          num' = num /\ (At(t) = "incStore" => loc'[t].tmp = loc[t].tmp)
  <2>1. StoreNum(t) => stack' # stack /\ At(t) = "incStore"
    <3>1. StoreNum(t) => At(t) = "incStore" /\ Done(t)
      BY <1>2 DEF StoreNum, Runs, ExitLabels
    <3>2. ASSUME At(t) = "incStore", Done(t)
          PROVE  stack' # stack
      <4>1. stack[t] \in Seq(Label) /\ stack[t] # <<>>
        BY Tops
      <4>2. stack'[t] = <<>> \o Tail(stack[t])
        BY <3>2 DEF Done, Do, Typed
      <4>3. Tail(stack[t]) \in Seq(Label) /\ Len(Tail(stack[t])) = Len(stack[t]) - 1
            /\ Len(stack[t]) \in Nat
        BY <4>1, HeadTailProperties, LenProperties
      <4>4. stack'[t] = Tail(stack[t])
        BY <4>2, <4>3, ConcatEmptySeq
      <4>5. stack'[t] # stack[t]
        <5>1. Len(Tail(stack[t])) # Len(stack[t])
          BY <4>3
        <5> QED BY <4>4, <5>1
      <4> QED BY <4>5
    <3> QED BY <3>1, <3>2
  <2> QED BY <2>1, NumStays
<1>10. C \in Nat /\ Cardinality(list \cup {t}) <= C + 1 /\ Cardinality(list \cup {t}) \in Nat
  <2>1. IsFiniteSet(list \cup {t})
    BY ListGrows, FS_AddElement
  <2> QED BY <2>1, ListGrows, FS_CardinalityType
<1>11. ASSUME NEW s \in Secondaries
       PROVE  stack'[s] = <<"none">> /\ s \notin list'
  <2>1. stack[s] = <<"none">> /\ s \notin list /\ s \in Threads /\ At(s) = "none"
    BY DEF CoverInv, At, Threads
  <2>2. stack'[s] = stack[s]
    BY <1>3, <2>1 DEF Changes
  <2>3. s \notin list'
    BY <1>5, <2>1
  <2> QED BY <2>1, <2>2, <2>3
<1>12. ASSUME NEW u \in Threads
       PROVE  ~ Creating(u)'
  <2>1. ~ Creating(u)
    BY DEF CoverInv
  <2>2. CASE u = t
    BY <1>7, <2>1, <2>2, CreationBegins
  <2>3. CASE u # t
    BY <2>1, <2>3, OthersCreate
  <2> QED BY <2>2, <2>3
<1>13. ASSUME NEW u \in Threads, Head(stack'[u]) = "incStore"
       PROVE  loc'[u].tmp = num'
  <2>1. CASE u # t
    <3>1. At(u) = "incStore" /\ loc'[u].tmp = num
      BY <1>3, <1>13, <2>1 DEF At, CoverInv
    <3>2. At(t) # "incStore"
      BY <1>6, <2>1, <3>1 DEF Before
    <3> QED BY <1>9, <3>1, <3>2
  <2>2. CASE u = t /\ stack' = stack
    <3>1. At(t) = "incStore"
      BY <1>13, <2>2 DEF At
    <3> QED BY <1>9, <2>2, <3>1 DEF CoverInv
  <2>3. CASE u = t /\ stack' # stack
    <3>1. At(t) = "inc"
      BY <1>1, <1>13, <2>3 DEF Follow, Below
    <3>2. ReadNum(t)
      BY <2>3, <3>1, CountSteps
    <3>3. loc'[t].tmp = num
      BY <1>0, <3>2 DEF ReadNum, Locals
    <3> QED BY <1>9, <2>3, <3>1, <3>3
  <2> QED BY <2>1, <2>2, <2>3
<1>14. num >= C /\ \A u \in Threads : Arriving(u) => num > C
  BY DEF CoverInv
<1>15. CASE stack' # stack /\ At(t) = "incStore"
  <2>1. list' = list /\ num' = num + 1
    BY <1>5, <1>8, <1>15
  <2>2. num' > C
    BY <1>0, <1>10, <1>14, <2>1
  <2> QED BY <1>0, <1>10, <1>11, <1>12, <1>13, <2>1, <2>2 DEF CoverInv
<1>16. CASE stack' # stack /\ At(t) = "inserting"
  <2>1. num' = num
    BY <1>9, <1>16
  <2>2. num > C
    BY <1>14, <1>16 DEF Arriving
  <2>3. list' = list \/ list' = list \cup {t}
    BY <1>5
  <2>4. Cardinality(list') = C \/ Cardinality(list') = Cardinality(list \cup {t})
    BY <2>3, Zenon
  <2>5. Cardinality(list') <= C + 1 /\ Cardinality(list') \in Nat
    BY <1>10, <2>4
  <2>6. ASSUME NEW u \in Threads, Head(stack'[u]) \in {"insert", "inserting"}
        PROVE  FALSE
    <3>1. u # t
      BY <1>1, <1>16, <2>6 DEF Follow
    <3>2. At(u) \in Before
      BY <1>3, <2>6, <3>1 DEF At, Before
    <3> QED BY <1>6, <1>16, <3>1, <3>2 DEF Before
  <2>7. num' >= Cardinality(list')
    BY <1>0, <1>10, <2>1, <2>2, <2>5
  <2> QED BY <1>0, <1>11, <1>12, <1>13, <2>6, <2>7 DEF CoverInv, Arriving
<1>17. CASE ~ (stack' # stack /\ At(t) \in {"incStore", "inserting"})
  <2>1. num' = num /\ list' = list
    BY <1>5, <1>9, <1>17
  <2>2. ASSUME NEW u \in Threads, Head(stack'[u]) \in {"insert", "inserting"}
        PROVE  num > C
    <3>1. CASE u # t
      BY <1>3, <1>14, <2>2, <3>1 DEF At, Arriving
    <3>2. CASE u = t /\ stack' = stack
      BY <1>14, <2>2, <3>2 DEF At, Arriving
    <3>3. CASE u = t /\ stack' # stack
      <4>1. At(t) = "insert"
        BY <1>1, <1>17, <2>2, <3>3 DEF Follow, Below
      <4> QED BY <1>14, <4>1 DEF Arriving
    <3> QED BY <3>1, <3>2, <3>3
  <2> QED BY <1>0, <1>11, <1>12, <1>13, <1>14, <2>1, <2>2 DEF CoverInv, Arriving
<1> QED BY <1>15, <1>16, <1>17

(* NumLispThreads counts every thread of the list where clients bless       *)
(* themselves and no thread creates another: BlessThread increments it and  *)
(* inserts the record without leaving GCCriticalSection, so no increment is *)
(* lost and ensureSafeStates never passes over a thread.                    *)
THEOREM BlessedCounted ==
    ASSUME Plain, NoCreate
    PROVE  Spec => []CountCoversList
<1> DEFINE J == Inv /\ FreshInv /\ CoverInv
<1>1. J => CountCoversList
  BY DEF CoverInv, CountCoversList
<1>2. Init => J
  <2> SUFFICES ASSUME Init PROVE J
    OBVIOUS
  <2>1. Inv
    BY InitInv DEF CountedInv
  <2>2. FreshInv /\ list = {} /\ num = 0
    BY DEF Init, FreshInv, list, NewRecord
  <2>3. \A u \in Threads : At(u) \in {"none", "foreign"}
    BY DEF Init, At
  <2>4. \A s \in Secondaries : s \in Threads /\ s \notin Foreigners
    BY ThreadsAssumption DEF Threads
  <2>5. \A s \in Secondaries : stack[s] = <<"none">>
    BY <2>4 DEF Init
  <2>6. Cardinality(list) = 0
    BY <2>2, FS_EmptySet
  <2>7. CoverInv
    BY <2>2, <2>3, <2>5, <2>6 DEF CoverInv, Creating, Arriving
  <2> QED BY <2>1, <2>2, <2>7
<1>3. J /\ [Next]_vars => J'
  <2> SUFFICES ASSUME J, [Next]_vars PROVE J'
    OBVIOUS
  <2>1. Inv'
    BY InvStep
  <2>2. CASE UNCHANGED vars
    <3>1. UNCHANGED <<stack, rec, loc, num>> /\ list' = list
      BY <2>2, SameList DEF vars
    <3>2. FreshInv'
      BY <3>1 DEF FreshInv, At
    <3>3. CoverInv'
      BY <3>1 DEF CoverInv, Creating, Arriving, At
    <3> QED BY <2>1, <3>2, <3>3
  <2>3. CASE RunLispThread
    <3>1. /\ rec' = [rec EXCEPT ![Primary] = [@ EXCEPT !.listed = TRUE, !.handle = TRUE,
                                                    !.qv = "scanned"]]
          /\ stack' = [stack EXCEPT ![Primary] = <<"lisp">>]
          /\ num' = num + 1 /\ loc' = loc /\ At(Primary) = "none"
      BY <2>3 DEF RunLispThread, Runs
    <3>2. rec \in [Threads -> Record] /\ DOMAIN stack = Threads /\ Primary \in Threads
      BY DEF Inv, Typed, Threads
    <3>3. /\ rec'[Primary].qv = "scanned" /\ stack'[Primary] = <<"lisp">>
          /\ rec'[Primary].listed
          /\ \A u \in Threads \ {Primary} : rec'[u] = rec[u] /\ stack'[u] = stack[u]
      BY <3>1, <3>2 DEF Record, Threads
    <3>4. Head(stack'[Primary]) = "lisp"
      BY <3>3, PrimaryInside
    <3>5. FreshInv'
      BY <3>3, <3>4 DEF FreshInv, At, list, Before
    <3>6. Primary \notin list
      <4>1. Primary \notin Secondaries /\ ShapeInv
        BY ThreadsAssumption DEF Inv
      <4>2. Primary \in list => Inside(Primary, stack[Primary])
        BY <3>2, <4>1 DEF ShapeInv, Placed
      <4>3. Primary \in list => Waits(Primary, stack[Primary]) /\ Primary \in Secondaries
        <5>1. Head(stack[Primary]) = "none"
          BY <3>1 DEF At
        <5> QED BY <3>2, <4>2, <5>1, InsideIs
      <4> QED BY <4>1, <4>3
    <3>7. list = {} /\ num = 0 /\ \A u \in Threads : Waits(u, stack[u])
      BY <3>6 DEF Inv, PrimaryInv
    <3>8. list' = {Primary}
      BY <3>2, <3>3, <3>7 DEF list
    <3>9. Cardinality(list') = 1
      BY <3>8, FS_Singleton
    <3>10. \A u \in Threads : Head(stack'[u]) \in {"lisp", "none", "foreign"}
      BY <3>3, <3>4, <3>7, WaitsIs
    <3>11. \A s \in Secondaries : s \in Threads /\ s # Primary
      BY ThreadsAssumption DEF Threads
    <3>12. CoverInv'
      BY <3>1, <3>3, <3>7, <3>8, <3>9, <3>10, <3>11 DEF CoverInv, Creating, Arriving, At, Before
    <3> QED BY <2>1, <3>5, <3>12
  <2>4. ASSUME NEW t \in Threads, PlainStep(t)
        PROVE  J'
    <3>1. Typed /\ ShapeInv /\ CreateInv /\ OwnerInv /\ WorldInv /\ FreshInv /\ CoverInv
      BY DEF Inv
    <3>2. Changes(t) /\ Lists(t) /\ (Moved(t) \/ Rested)
      BY <2>4, <3>1, StepIs
    <3>3. FreshInv'
      BY <2>4, <3>1, <3>2, FreshStep
    <3>4. CoverInv'
      <4>1. Typed'
        BY <2>1 DEF Inv
      <4> QED BY <2>4, <3>1, <3>2, <4>1, CoverStep
    <3> QED BY <2>1, <3>3, <3>4
  <2> QED BY <2>2, <2>3, <2>4, OnlyPlain DEF Inv
<1> QED BY <1>1, <1>2, <1>3, PTL DEF Spec
============================================================================
