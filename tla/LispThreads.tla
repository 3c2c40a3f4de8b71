---------------------------- MODULE LispThreads ----------------------------
(***************************************************************************)
(* The threads of the kernel and how a collection stops them: the list of  *)
(* thread records (LispThreadQueue.cpp), the creation, blessing, aborting  *)
(* and termination of threads (CormanLispServer.cpp) and the locking of    *)
(* allocation, collection and image files (Gc.cpp).                        *)
(*                                                                         *)
(* Each thread has a stack of labels: the head is the step it takes next   *)
(* and the tail what is left to do, so that the call of a C++ function     *)
(* pushes the labels of its body.  A step is what a thread does between    *)
(* two points at which another can interfere: an acquisition of a lock, a  *)
(* SuspendThread or ResumeThread, a read or write of shared state.  A      *)
(* suspended thread takes no steps.  How full the heaps are, and what a    *)
(* collection copies, is in HeapSpaces: here any allocation may need one.  *)
(***************************************************************************)
EXTENDS Integers, Sequences, FiniteSets

CONSTANTS
    Primary,        \* the primary Lisp thread
    Secondaries,    \* threads that CREATE-THREAD can start
    Foreigners,     \* threads of the client: they bless themselves or abort
    NoThread,
    Workloads,      \* sets of operations: what a program and its clients use
    MaxDepth,       \* bound on the labels of one stack: nesting of hooks
    MaxLeaks,       \* bound on the entries of a lock that were never left
    SuspendWorks,   \* Win32; FALSE: the stubs of include/posix/platform.h
    Bootstrapping   \* g_lisp_bootstrapping

AllOps == {"alloc", "gc", "atomic", "critical", "create", "createFails",
           "exit", "bless", "unbless", "abort", "terminate", "save", "load",
           "loadFails", "hook"}

Threads == {Primary} \cup Secondaries \cup Foreigners

ASSUME ThreadsAssumption ==
    /\ IsFiniteSet(Threads)
    /\ Primary \notin Secondaries \cup Foreigners
    /\ Secondaries \cap Foreigners = {}
    /\ NoThread \notin Threads

ASSUME WorkloadAssumption ==
    /\ Workloads \subseteq SUBSET AllOps
    /\ MaxDepth \in Nat /\ MaxLeaks \in Nat
    /\ SuspendWorks \in BOOLEAN /\ Bootstrapping \in BOOLEAN

VARIABLES
    stack,      \* labels of the steps each thread has still to take
    locks,      \* GCCriticalSection, TQCriticalSection and one of Lisp code
    susp,       \* suspend count of each thread
    unsafe,     \* threads inside a Lisp atomic unit, a prolog or an epilog
    rec,        \* the ThreadRecord of each thread
    loc,        \* local variables of each thread
    num,        \* NumLispThreads
    ops,        \* the operations that this program and its clients use
    exited      \* the process has ended: exit(1), or a fault

vars == <<stack, locks, susp, unsafe, rec, loc, num, ops, exited>>

LockNames == {"GC", "TQ", "CS"}
Unlocked == [owner |-> NoThread, count |-> 0]

(* listed: in ThreadList.  handle: thread # 0.  qv: the thread's copy of    *)
(* the global symbol values; the collector updates it when the thread is in *)
(* the list and marked as started ("scanned").  event: the start event.     *)
(* reloaded: an image was loaded since the thread was blessed.              *)
NewRecord == [listed |-> FALSE, handle |-> FALSE, qv |-> "none",
              event |-> FALSE, reloaded |-> FALSE]

(* todo: records a loop over the list has still to visit.  other: the       *)
(* thread being woken, created or terminated.  tmp: a value of num.         *)
NewLocals == [todo |-> {}, other |-> NoThread, tmp |-> 0]

list == {t \in Threads : rec[t].listed}

At(t) == Head(stack[t])
Runs(t, label) == /\ ~exited
                  /\ susp[t] = 0
                  /\ t \notin unsafe
                  /\ At(t) = label

(* The next step is replaced by others; popped when there are none. *)
Do(t, labels) == stack' = [stack EXCEPT ![t] = labels \o Tail(@)]
Done(t) == Do(t, <<>>)

(* CRITICAL_SECTION is recursive; leaving it without owning it does not     *)
(* release it.                                                              *)
CanEnter(t, k) == locks[k].owner \in {t, NoThread}
Entered(t, l) == [owner |-> t, count |-> l.count + 1]
(* Fault variant: a lock that is not recursive is free at once. *)
LeftAtOnce(t, l) == IF l.owner # t THEN l ELSE Unlocked

Left(t, l) == IF l.owner # t THEN l
              ELSE IF l.count = 1 THEN Unlocked
              ELSE [l EXCEPT !.count = @ - 1]

Enter(t, k) == /\ CanEnter(t, k)
               /\ locks' = [locks EXCEPT ![k] = Entered(t, @)]
Leave(t, k) == locks' = [locks EXCEPT ![k] = Left(t, @)]

SuspendThread(u) ==
    susp' = IF SuspendWorks THEN [susp EXCEPT ![u] = @ + 1] ELSE susp
Resumed(n) == IF n > 0 THEN n - 1 ELSE 0
ResumeThread(u) == susp' = [susp EXCEPT ![u] = Resumed(@)]

(***************************************************************************)
(* Bodies of the operations.                                               *)
(***************************************************************************)
Allocation == <<"alloc", "take">>
(* Fault variant: the threads stay suspended. *)
GarbageCollectNoResume == <<"gc", "suspend", "ensureSafe", "collect", "hooks",
                            "leave">>
GarbageCollect == <<"gc", "suspend", "ensureSafe", "collect", "hooks", "leave",
                    "resume">>
RunSecondaryThread == <<"inc", "insert", "enter", "begin", "resumeNew", "await",
                        "leave", "threadID">>
(* Fault variant: the thread is discounted while it is still in the list. *)
ExitThreadEarly == <<"dec", "remove", "ended">>

ExitThread == <<"remove", "dec", "ended">>
SecondaryThreadProc == <<"find">> \o Allocation \o <<"lisp">> \o ExitThread
(* Fault variant: the values are copied before collections are kept out. *)
BlessThreadLate == <<"newQV", "enter", "inc", "insert">> \o Allocation \o
                   <<"leave", "lisp", "enter", "unbless", "remove", "dec", "leave",
                     "foreign">>

BlessThread == <<"enter", "newQV", "inc", "insert">> \o Allocation \o
               <<"leave", "lisp", "enter", "unbless", "remove", "dec", "leave",
                 "foreign">>
AbortLispThread == <<"enter", "primary", "suspendPrimary", "safe", "redirect",
                     "leave", "foreign">>
TerminateLispThread == <<"suspendOther", "throwExit">>
WriteHeap == <<"suspend">> \o GarbageCollect \o <<"enter", "resume", "leave">>
ReadHeap == <<"lock">> \o GarbageCollect \o
            <<"enter", "suspend", "load", "resume", "leave", "unlock">>

Init ==
    /\ stack = [t \in Threads |-> IF t \in Foreigners THEN <<"foreign">>
                                                      ELSE <<"none">>]
    /\ locks = [k \in LockNames |-> Unlocked]
    /\ susp = [t \in Threads |-> 0]
    /\ unsafe = {}
    /\ rec = [t \in Threads |-> NewRecord]
    /\ loc = [t \in Threads |-> NewLocals]
    /\ num = 0
    /\ ops \in Workloads
    /\ exited = FALSE

(***************************************************************************)
(* What threads choose to do.                                              *)
(***************************************************************************)
RunLispThread ==
    /\ Runs(Primary, "none")
    /\ CanEnter(NoThread, "TQ")
    /\ num' = num + 1
    /\ rec' = [rec EXCEPT ![Primary] = [@ EXCEPT !.listed = TRUE, !.handle = TRUE,
                                                 !.qv = "scanned"]]
    /\ stack' = [stack EXCEPT ![Primary] = <<"lisp">>]
    /\ UNCHANGED <<locks, susp, unsafe, loc, exited, ops>>

(* Operations that Lisp code calls, and the body each pushes. *)
Body(op) == CASE op = "alloc" -> Allocation
              [] op = "gc" -> GarbageCollect
              [] op = "critical" -> <<"enterCS", "leaveCS">>
              [] op = "save" -> WriteHeap
              [] op = "load" -> ReadHeap

FewLeaks(t) == \A k \in {"GC", "TQ"} : locks[k].owner = t => locks[k].count <= MaxLeaks

CallFromLisp(t) ==
    /\ Runs(t, "lisp")
    /\ FewLeaks(t)
    /\ \E op \in ops \cap {"alloc", "gc", "critical", "save", "load"} :
          Do(t, Body(op) \o <<"lisp">>)
    /\ UNCHANGED <<locks, susp, unsafe, rec, loc, num, exited, ops>>

(* createNewQV copies the global values first. *)
CallRunSecondaryThread(t) ==
    /\ "create" \in ops
    /\ Runs(t, "lisp")
    /\ \E s \in Secondaries :
          /\ stack[s] = <<"none">>
          /\ rec[s] = NewRecord
          /\ rec' = [rec EXCEPT ![s].qv = "copied"]
          /\ loc' = [loc EXCEPT ![t].other = s]
    /\ Do(t, RunSecondaryThread \o <<"lisp">>)
    /\ UNCHANGED <<locks, susp, unsafe, num, exited, ops>>

(* GetLispThreadHandle looks the thread up under the lock of the list. *)
CallTerminateLispThread(t) ==
    /\ "terminate" \in ops
    /\ Runs(t, "lisp")
    /\ CanEnter(t, "TQ")
    /\ \E u \in Secondaries \cap list :
          /\ u # t /\ rec[u].handle
          /\ loc' = [loc EXCEPT ![t].other = u]
    /\ Do(t, TerminateLispThread \o <<"lisp">>)
    /\ UNCHANGED <<locks, susp, unsafe, rec, num, exited, ops>>

(* The function of a secondary thread returns; a blessed thread calls       *)
(* UnblessThread.                                                           *)
LeaveLisp(t) ==
    /\ \/ "exit" \in ops /\ t \in Secondaries
       \/ "unbless" \in ops /\ t \in Foreigners
    /\ Runs(t, "lisp")
    /\ Done(t)
    /\ UNCHANGED <<locks, susp, unsafe, rec, loc, num, exited, ops>>

(* BlessThread waits for InitializationEvent; the stub of                    *)
(* WaitForSingleObject does not wait.                                        *)
Initialized == Primary \in list \/ ~SuspendWorks

CallFromClient(t) ==
    /\ Runs(t, "foreign")
    /\ FewLeaks(t)
    /\ \/ "bless" \in ops /\ Initialized /\ Do(t, BlessThread)
       \/ "abort" \in ops /\ Do(t, AbortLispThread)
    /\ UNCHANGED <<locks, susp, unsafe, rec, loc, num, exited, ops>>

(* Lisp code enters an atomic unit (std), any code a prolog or an epilog.   *)
(* The kernel's own prologs are modelled where the list is locked.          *)
UnsafeLabels == {"lisp", "inserting", "removing", "resuming"}

BeginUnsafe(t) ==
    /\ "atomic" \in ops
    /\ \E label \in UnsafeLabels : Runs(t, label)
    /\ unsafe' = unsafe \cup {t}
    /\ UNCHANGED <<stack, locks, susp, rec, loc, num, exited, ops>>

EndUnsafe(t) ==
    /\ ~exited /\ susp[t] = 0 /\ t \in unsafe
    /\ unsafe' = unsafe \ {t}
    /\ UNCHANGED <<stack, locks, susp, rec, loc, num, exited, ops>>

(***************************************************************************)
(* Locks.                                                                  *)
(***************************************************************************)
EnterLabels == [alloc |-> "GC", enter |-> "GC", enterCS |-> "CS", lock |-> "TQ"]
LeaveLabels == [leave |-> "GC", leaveCS |-> "CS", unlock |-> "TQ"]

EnterLock(t) ==
    /\ \E l \in DOMAIN EnterLabels : Runs(t, l) /\ Enter(t, EnterLabels[l])
    /\ Done(t)
    /\ UNCHANGED <<susp, unsafe, rec, loc, num, exited, ops>>

LeaveLock(t) ==
    /\ \E l \in DOMAIN LeaveLabels : Runs(t, l) /\ Leave(t, LeaveLabels[l])
    /\ Done(t)
    /\ UNCHANGED <<susp, unsafe, rec, loc, num, exited, ops>>

(* A loop over the records of the other threads, with the list locked. *)
BeginLoop(t, label, loop) ==
    /\ Runs(t, label)
    /\ Enter(t, "TQ")
    /\ loc' = [loc EXCEPT ![t].todo = list \ {t}]
    /\ Do(t, <<loop>>)
    /\ UNCHANGED <<susp, unsafe, rec, num, exited, ops>>

EndLoop(t, loop) ==
    /\ Runs(t, loop)
    /\ loc[t].todo = {}
    /\ Leave(t, "TQ")
    /\ Done(t)
    /\ UNCHANGED <<susp, unsafe, rec, loc, num, exited, ops>>

Visited(t, u) == loc' = [loc EXCEPT ![t].todo = @ \ {u}]

(***************************************************************************)
(* Allocation and collection.                                              *)
(***************************************************************************)
(* The block is taken under GCCriticalSection, or E1 is full: then it is    *)
(* taken after a collection.                                                *)
TakeBlock(t) ==
    /\ Runs(t, "take")
    /\ \/ Do(t, <<"leave">>)
       \/ Len(stack[t]) < MaxDepth /\ Do(t, GarbageCollect \o <<"bump">>)
    /\ UNCHANGED <<locks, susp, unsafe, rec, loc, num, exited, ops>>

(* Fault variant: after a collection the lock is not left. *)
BumpKeepsLock(t) ==
    /\ Runs(t, "bump")
    /\ Done(t)
    /\ UNCHANGED <<locks, susp, unsafe, rec, loc, num, exited, ops>>

Bump(t) ==
    /\ Runs(t, "bump")
    /\ Do(t, <<"leave">>)
    /\ UNCHANGED <<locks, susp, unsafe, rec, loc, num, exited, ops>>

(* The branch for bootstrapping leaves GCCriticalSection, which it did not  *)
(* enter, and returns.                                                      *)
EnterCollection(t) ==
    /\ Runs(t, "gc")
    /\ IF Bootstrapping
       THEN /\ Leave(t, "GC")
            /\ stack' = [stack EXCEPT ![t] = SubSeq(@, Len(GarbageCollect) + 1, Len(@))]
       ELSE Enter(t, "GC") /\ Done(t)
    /\ UNCHANGED <<susp, unsafe, rec, loc, num, exited, ops>>

(* Fault variant: the loop that resumes stops early. *)
EndResumeEarly(t) ==
    /\ Runs(t, "resuming")
    /\ Leave(t, "TQ")
    /\ Done(t)
    /\ UNCHANGED <<susp, unsafe, rec, loc, num, exited, ops>>

BeginSuspend(t) == BeginLoop(t, "suspend", "suspending")
EndSuspend(t) == EndLoop(t, "suspending")
BeginResume(t) == BeginLoop(t, "resume", "resuming")
EndResume(t) == EndLoop(t, "resuming")

SuspendOther(t) ==
    /\ Runs(t, "suspending")
    /\ \E u \in loc[t].todo :
          /\ rec[u].handle \/ ~SuspendWorks
          /\ SuspendThread(u)
          /\ Visited(t, u)
    /\ UNCHANGED <<stack, locks, unsafe, rec, num, exited, ops>>

(* SuspendThread(0) fails: sleep and retry. *)
RetrySuspend(t) ==
    /\ Runs(t, "suspending")
    /\ \E u \in loc[t].todo : ~rec[u].handle /\ SuspendWorks
    /\ UNCHANGED vars

ResumeOther(t) ==
    /\ Runs(t, "resuming")
    /\ \E u \in loc[t].todo : ResumeThread(u) /\ Visited(t, u)
    /\ UNCHANGED <<stack, locks, unsafe, rec, num, exited, ops>>

(* Fault variant: off by one. *)
EnsureSafeStatesOffByOne(t) ==
    /\ Runs(t, "ensureSafe")
    /\ IF num > 2
       THEN Do(t, <<"safe">>) /\ loc' = [loc EXCEPT ![t].todo = list \ {t}]
       ELSE Done(t) /\ UNCHANGED loc
    /\ UNCHANGED <<locks, susp, unsafe, rec, num, exited, ops>>

EnsureSafeStates(t) ==
    /\ Runs(t, "ensureSafe")
    /\ IF num > 1
       THEN Do(t, <<"safe">>) /\ loc' = [loc EXCEPT ![t].todo = list \ {t}]
       ELSE Done(t) /\ UNCHANGED loc
    /\ UNCHANGED <<locks, susp, unsafe, rec, num, exited, ops>>

(* ensureSafeState: an unsafe thread is resumed for a while, with the list  *)
(* locked, and looked at again.  GetThreadContext of the stubs says nothing.*)
IsUnsafe(u) == SuspendWorks /\ u \in unsafe

(* Fault variants: the list is not locked while the thread is awake; the    *)
(* thread is not woken.                                                     *)
CheckSafeUnlocked(t) ==
    /\ Runs(t, "safe")
    /\ \/ /\ loc[t].todo = {}
          /\ Done(t)
          /\ UNCHANGED <<susp, loc>>
       \/ \E u \in loc[t].todo :
             IF IsUnsafe(u)
             THEN /\ ResumeThread(u)
                  /\ loc' = [loc EXCEPT ![t].other = u]
                  /\ Do(t, <<"waking", "safe">>)
             ELSE Visited(t, u) /\ UNCHANGED <<stack, susp>>
    /\ UNCHANGED <<locks, unsafe, rec, num, exited, ops>>

CheckSafeAsleep(t) ==
    /\ Runs(t, "safe")
    /\ \/ loc[t].todo = {} /\ Done(t) /\ UNCHANGED loc
       \/ \E u \in loc[t].todo :
             /\ IF IsUnsafe(u) THEN UNCHANGED loc ELSE Visited(t, u)
             /\ UNCHANGED stack
    /\ UNCHANGED <<locks, susp, unsafe, rec, num, exited, ops>>

CheckSafe(t) ==
    /\ Runs(t, "safe")
    /\ \/ /\ loc[t].todo = {}
          /\ Done(t)
          /\ UNCHANGED <<locks, susp, loc>>
       \/ \E u \in loc[t].todo :
             IF IsUnsafe(u)
             THEN /\ Enter(t, "TQ")
                  /\ ResumeThread(u)
                  /\ loc' = [loc EXCEPT ![t].other = u]
                  /\ Do(t, <<"waking", "safe">>)
             ELSE Visited(t, u) /\ UNCHANGED <<stack, locks, susp>>
    /\ UNCHANGED <<unsafe, rec, num, exited, ops>>

(* A thread that is no longer in the list is looked at for ever. *)
WakingDone(t) ==
    /\ Runs(t, "waking")
    /\ SuspendThread(loc[t].other)
    /\ Leave(t, "TQ")
    /\ IF loc[t].other \in list THEN Done(t) ELSE Do(t, <<"lost">>)
    /\ UNCHANGED <<unsafe, rec, loc, num, exited, ops>>

(* Objects move; the copies of symbol values that are not in the list are   *)
(* not updated.                                                             *)
Collect(t) ==
    /\ Runs(t, "collect")
    /\ rec' = [u \in Threads |-> IF rec[u].qv = "copied"
                                 THEN [rec[u] EXCEPT !.qv = "stale"] ELSE rec[u]]
    /\ Done(t)
    /\ UNCHANGED <<locks, susp, unsafe, loc, num, exited, ops>>

(* The functions of the GC registry and the finalizers: Lisp code again.    *)
(* One operation of theirs is enough to meet every lock.                    *)
RunHooks(t) ==
    /\ Runs(t, "hooks")
    /\ \/ Done(t)
       \/ /\ "hook" \in ops /\ Len(stack[t]) < MaxDepth
          /\ \E op \in ops \cap {"alloc", "gc", "critical"} : Do(t, Body(op))
    /\ UNCHANGED <<locks, susp, unsafe, rec, loc, num, exited, ops>>

(***************************************************************************)
(* Creating, blessing and removing threads.                                *)
(***************************************************************************)
(* NumLispThreads++ and NumLispThreads-- are not atomic. *)
ReadNum(t) ==
    /\ \/ Runs(t, "inc") /\ Do(t, <<"incStore">>)
       \/ Runs(t, "dec") /\ Do(t, <<"decStore">>)
    /\ loc' = [loc EXCEPT ![t].tmp = num]
    /\ UNCHANGED <<locks, susp, unsafe, rec, num, exited, ops>>

StoreNum(t) ==
    /\ \/ Runs(t, "incStore") /\ num' = loc[t].tmp + 1
       \/ Runs(t, "decStore") /\ num' = loc[t].tmp - 1
    /\ Done(t)
    /\ UNCHANGED <<locks, susp, unsafe, rec, loc, exited, ops>>

(* Fault variant: the list is changed without its lock. *)
LockListUnlocked(t) ==
    /\ \/ Runs(t, "insert") /\ Do(t, <<"inserting">>)
       \/ Runs(t, "remove") /\ Do(t, <<"removing">>)
    /\ UNCHANGED <<locks, susp, unsafe, rec, loc, num, exited, ops>>

LockList(t) ==
    /\ \/ Runs(t, "insert") /\ Do(t, <<"inserting">>)
       \/ Runs(t, "remove") /\ Do(t, <<"removing">>)
    /\ Enter(t, "TQ")
    /\ UNCHANGED <<susp, unsafe, rec, loc, num, exited, ops>>

(* started is set: before the insertion for a blessed thread, after it for  *)
(* one that RunSecondaryThread creates.                                     *)
Scanned(qv) == IF qv = "copied" THEN "scanned" ELSE qv

Insert(t) ==
    /\ Runs(t, "inserting")
    /\ LET r == loc[t].other
       IN  rec' = [rec EXCEPT ![r].listed = TRUE,
                              ![r].qv = IF r = t THEN Scanned(@) ELSE @]
    /\ Leave(t, "TQ")
    /\ Done(t)
    /\ UNCHANGED <<susp, unsafe, loc, num, exited, ops>>

Remove(t) ==
    /\ Runs(t, "removing")
    /\ rec' = [rec EXCEPT ![t] = NewRecord]
    /\ Leave(t, "TQ")
    /\ Done(t)
    /\ UNCHANGED <<susp, unsafe, loc, num, exited, ops>>

(* _beginthreadex with CREATE_SUSPENDED, or its failure: RunSecondaryThread *)
(* then returns at once.  The stub starts the thread before the record has  *)
(* its handle and its ID.                                                   *)
BeginThread(t) ==
    /\ Runs(t, "begin")
    /\ LET s == loc[t].other
       IN  \/ /\ rec' = [rec EXCEPT ![s].handle = SuspendWorks, ![s].qv = Scanned(@)]
              /\ SuspendThread(s)
              /\ stack' = [stack EXCEPT ![s] = SecondaryThreadProc,
                                        ![t] = Tail(stack[t])]
           \/ /\ "createFails" \in ops
              /\ stack' = [stack EXCEPT ![t] = SubSeq(@, 6, Len(@))]
              /\ rec' = [rec EXCEPT ![s].qv = Scanned(@)]
              /\ UNCHANGED susp
    /\ UNCHANGED <<locks, unsafe, loc, num, exited, ops>>

ResumeNewThread(t) ==
    /\ Runs(t, "resumeNew")
    /\ rec' = [rec EXCEPT ![loc[t].other].handle = TRUE]
    /\ ResumeThread(loc[t].other)
    /\ Done(t)
    /\ UNCHANGED <<locks, unsafe, loc, num, exited, ops>>

(* SecondaryThreadProc looks for the record with its ID, fills its TLS and  *)
(* sets the event; without one it reads through a null pointer.             *)
FindRecord(t) ==
    /\ Runs(t, "find")
    /\ rec' = [rec EXCEPT ![t].event = rec[t].handle]
    /\ exited' = ~rec[t].handle
    /\ Done(t)
    /\ UNCHANGED <<locks, susp, unsafe, loc, num, ops>>

AwaitEvent(t) ==
    /\ Runs(t, "await")
    /\ rec[loc[t].other].event \/ ~SuspendWorks
    /\ rec' = [rec EXCEPT ![loc[t].other].event = FALSE]
    /\ Done(t)
    /\ UNCHANGED <<locks, susp, unsafe, loc, num, exited, ops>>

(* RunSecondaryThread reads th->threadID for its result. *)
ReadThreadID(t) ==
    /\ Runs(t, "threadID")
    /\ Done(t)
    /\ UNCHANGED <<locks, susp, unsafe, rec, loc, num, exited, ops>>

(* BlessThread makes a record with a handle and a copy of the values. *)
NewQV(t) ==
    /\ Runs(t, "newQV")
    /\ rec' = [rec EXCEPT ![t] = [NewRecord EXCEPT !.handle = TRUE, !.qv = "copied"]]
    /\ loc' = [loc EXCEPT ![t].other = t]
    /\ Done(t)
    /\ UNCHANGED <<locks, susp, unsafe, num, exited, ops>>

(* UnblessThread clears the TLS first: popDynamicBinding then finds no      *)
(* ThreadQV, which ends the process.  It is not called for the bindings of  *)
(* an image that has been replaced.                                         *)
Unbless(t) ==
    /\ Runs(t, "unbless")
    /\ IF rec[t].reloaded
       THEN Done(t) /\ UNCHANGED exited
       ELSE exited' = TRUE /\ UNCHANGED stack
    /\ UNCHANGED <<locks, susp, unsafe, rec, loc, num, ops>>

(***************************************************************************)
(* Control transfers forced on another thread.                             *)
(***************************************************************************)
(* getPrimaryThread; without one AbortLispThread returns at once. *)
FindPrimary(t) ==
    /\ Runs(t, "primary")
    /\ CanEnter(t, "TQ")
    /\ IF Primary \in list
       THEN Done(t)
       ELSE stack' = [stack EXCEPT ![t] = <<"foreign">>]
    /\ UNCHANGED <<locks, susp, unsafe, rec, loc, num, exited, ops>>

SuspendPrimary(t) ==
    /\ Runs(t, "suspendPrimary")
    /\ SuspendThread(Primary)
    /\ loc' = [loc EXCEPT ![t].todo = {Primary}]
    /\ Done(t)
    /\ UNCHANGED <<locks, unsafe, rec, num, exited, ops>>

(* The primary thread is made to throw, unless it executes foreign code:    *)
(* EnterGCCriticalSection is bracketed as such.  Lisp code that is thrown   *)
(* out of a critical section of its own leaves it (unwind-protect); C++     *)
(* code releases nothing.                                                   *)
Redirect(t) ==
    /\ Runs(t, "redirect")
    /\ IF SuspendWorks /\ At(Primary) # "alloc"
       THEN /\ stack' = [stack EXCEPT ![Primary] = <<"lisp">>,
                                  ![t] = Tail(stack[t])]
            /\ Leave(Primary, "CS")
       ELSE Done(t) /\ UNCHANGED locks
    /\ ResumeThread(Primary)
    /\ UNCHANGED <<unsafe, rec, loc, num, exited, ops>>

(* The handle was read earlier: the thread may be gone. *)
SuspendTarget(t) ==
    /\ Runs(t, "suspendOther")
    /\ IF stack[loc[t].other] = <<"ended">> THEN UNCHANGED susp
       ELSE SuspendThread(loc[t].other)
    /\ Done(t)
    /\ UNCHANGED <<locks, unsafe, rec, loc, num, exited, ops>>

(* EXIT_THREAD_TAG is caught by lispSecondary. *)
ThrowExit(t) ==
    /\ Runs(t, "throwExit")
    /\ LET u == loc[t].other
       IN  /\ IF SuspendWorks /\ stack[u] # <<"ended">>
              THEN /\ stack' = [stack EXCEPT ![u] = ExitThread,
                                             ![t] = Tail(stack[t])]
                   /\ Leave(u, "CS")
                   /\ unsafe' = unsafe \ {u}
              ELSE Done(t) /\ UNCHANGED <<locks, unsafe>>
           /\ ResumeThread(u)
    /\ UNCHANGED <<rec, loc, num, exited, ops>>

(* readHeap replaces the heap, or throws on a bad image. *)
LoadImage(t) ==
    /\ Runs(t, "load")
    /\ \/ /\ rec' = [u \in Threads |-> [rec[u] EXCEPT !.reloaded = rec[u].listed]]
          /\ Done(t)
       \/ /\ "loadFails" \in ops
          /\ stack' = [stack EXCEPT ![t] = SubSeq(@, 5, Len(@))]
          /\ UNCHANGED rec
    /\ UNCHANGED <<locks, susp, unsafe, loc, num, exited, ops>>

(***************************************************************************)
(* The specification.                                                      *)
(***************************************************************************)
Choose(t) ==
    \/ CallFromLisp(t)
    \/ CallRunSecondaryThread(t)
    \/ CallTerminateLispThread(t)
    \/ LeaveLisp(t)
    \/ CallFromClient(t)
    \/ BeginUnsafe(t)

Continue(t) ==
    \/ EnterLock(t) \/ LeaveLock(t)
    \/ TakeBlock(t) \/ Bump(t)
    \/ EnterCollection(t)
    \/ BeginSuspend(t) \/ SuspendOther(t) \/ EndSuspend(t)
    \/ EnsureSafeStates(t) \/ CheckSafe(t) \/ WakingDone(t)
    \/ Collect(t) \/ RunHooks(t)
    \/ BeginResume(t) \/ ResumeOther(t) \/ EndResume(t)
    \/ ReadNum(t) \/ StoreNum(t)
    \/ LockList(t) \/ Insert(t) \/ Remove(t)
    \/ BeginThread(t) \/ ResumeNewThread(t) \/ FindRecord(t) \/ AwaitEvent(t) \/ ReadThreadID(t)
    \/ NewQV(t) \/ Unbless(t)
    \/ FindPrimary(t) \/ SuspendPrimary(t) \/ Redirect(t)
    \/ SuspendTarget(t) \/ ThrowExit(t)
    \/ LoadImage(t)

Next ==
    \/ RunLispThread
    \/ \E t \in Threads : Choose(t) \/ Continue(t) \/ RetrySuspend(t) \/ EndUnsafe(t)

Spec == Init /\ [][Next]_vars

(* Straight-line code of the kernel, prologs and epilogs included, goes on. *)
ListSteps(t) == Insert(t) \/ Remove(t) \/ ResumeOther(t) \/ EndResume(t)

CaughtSafe(t) == WakingDone(t) /\ loc[t].other \notin unsafe

(* The system schedules every thread that can run.  The sleep of            *)
(* ensureSafeState grows each time: the thread it woke gets to the end of   *)
(* its atomic unit, and is in the end caught between two of them.           *)
FairSpec ==
    /\ Spec
    /\ \A t \in Threads : /\ WF_vars(Continue(t))
                          /\ SF_vars(ListSteps(t))
                          /\ SF_vars(EndUnsafe(t))
                          /\ SF_vars(CaughtSafe(t))

(***************************************************************************)
(* Properties.                                                             *)
(***************************************************************************)
Labels(t) == {stack[t][i] : i \in DOMAIN stack[t]}
Idle == {"lisp", "foreign", "none", "ended"}

(* Every variable has its type. *)
TypeOK ==
    /\ \A t \in Threads : stack[t] # <<>> /\ Labels(t) \subseteq STRING
    /\ locks \in [LockNames -> [owner : Threads \cup {NoThread}, count : Nat]]
    /\ susp \in [Threads -> Nat]
    /\ unsafe \subseteq Threads
    /\ rec \in [Threads -> [listed : BOOLEAN, handle : BOOLEAN,
                            qv : {"none", "copied", "scanned", "stale"},
                            event : BOOLEAN, reloaded : BOOLEAN]]
    /\ loc \in [Threads -> [todo : SUBSET Threads, other : Threads \cup {NoThread},
                            tmp : Nat]]
    /\ num \in Nat
    /\ exited \in BOOLEAN

(* While objects move, every other thread of the list is suspended and      *)
(* outside its atomic units, prologs and epilogs: its registers and stack   *)
(* can be updated.                                                          *)
StopTheWorld ==
    \A t \in Threads : At(t) = "collect" =>
        \A u \in list \ {t} : susp[u] > 0 /\ u \notin unsafe

(* One thread at a time takes blocks from the heaps or moves objects, from  *)
(* the comparison with the end of the heap to the update of current.        *)
HeapExclusive ==
    \A t, u \in Threads :
        /\ At(t) \in {"take", "bump", "collect"}
        /\ At(u) \in {"take", "bump", "collect"}
        => t = u

(* The owner of GCCriticalSection is the thread that takes a block: what    *)
(* AllocLargeVector computes is "safe inside critical section".             *)
TakesUnderLock ==
    \A t \in Threads : At(t) \in {"take", "bump"} => locks["GC"].owner = t

(* A thread that is back in Lisp code, in client code or has ended owns     *)
(* neither GCCriticalSection nor the lock of the thread list.               *)
LocksReturned ==
    \A t \in Threads : At(t) \in Idle =>
        locks["GC"].owner # t /\ locks["TQ"].owner # t

(* Whoever is suspended will be resumed: some other thread still has to     *)
(* execute the ResumeThread that matches.                                   *)
SuspendedHasResumer ==
    \A u \in Threads : susp[u] > 0 =>
        \E t \in Threads \ {u} :
            Labels(t) \cap {"resume", "resuming", "resumeNew", "redirect",
                            "throwExit"} # {}

(* The thread that ensureSafeState wakes cannot leave the list before it is *)
(* suspended again: the list is locked.  If it could, the loop would never  *)
(* end.                                                                     *)
WokenStaysListed == \A t \in Threads : At(t) # "lost"

(* The list is not changed by others while a thread walks it, locked or     *)
(* not: the records still to be visited exist.                              *)
WalkedRecordsExist ==
    \A t \in Threads : At(t) \in {"suspending", "safe", "waking", "resuming"} =>
        loc[t].todo \subseteq list

(* The copy of the symbol values in the record of a thread was updated by   *)
(* every collection since it was made.                                      *)
ValuesFresh == \A t \in list : rec[t].qv # "stale"

(* NumLispThreads never counts fewer threads than the list holds; with one  *)
(* counted ensureSafeStates looks at nobody.                                *)
CountCoversList == num >= Cardinality(list)

(* A thread that starts to suspend the others comes to resume them.         *)
StopEnds == \A t \in Threads : At(t) = "suspending" ~> At(t) = "resume"

(* Every suspended thread runs again. *)
SuspendedRuns == \A t \in Threads : susp[t] > 0 ~> susp[t] = 0
=============================================================================
