----------------------------- MODULE HeapSpaces -----------------------------
(***************************************************************************)
(* How full the four heaps of the kernel are (Gc.cpp): the two ephemeral   *)
(* heaps E1 and E2 and the two semispaces L1 and L2 of the permanent heap. *)
(* A heap is bumped from its start; nothing checks its end while the       *)
(* collector copies (promoteBlock), so every copy relies on the sizes      *)
(* chosen at start-up and on growLispHeaps.  Objects are abstracted to     *)
(* their total size: a wave copies any amount up to what its from-space    *)
(* holds.  All amounts are in cells.                                       *)
(*                                                                         *)
(* The caller of an operation here owns GCCriticalSection, so there is one *)
(* actor; the interleavings of several threads are in LispThreads.  What   *)
(* is not sequential is the nesting: the functions the collector calls     *)
(* when it has finished (the GC registry, the finalizers) run Lisp code,   *)
(* which allocates and may collect again, before the allocation that       *)
(* started the collection has been served.                                 *)
(***************************************************************************)
EXTENDS Integers, Sequences

CONSTANTS
    E1Size,          \* EphemeralHeap1Size
    E2Requested,     \* EphemeralHeap2Size as configured
    LispHeapSize,    \* LispHeapSize
    E1Reserve,       \* address space reserved for E1 (EphemeralHeap1SizeMax)
    L1Reserve,       \* address space obtained for L1 by LispHeap::alloc
    L2Reserve,       \* address space obtained for L2 by LispHeap::alloc
    Meg,             \* growth granule, one megabyte
    SmallSizes,      \* sizes _AllocVectorImpl serves from E1 (below 8000h words)
    LocalHeapCells,  \* LocalHeapSize / 8
    LargeSizes,      \* sizes AllocLargeVector serves from L1
    ImageSizes,      \* sizes of the heap section of an image file
    L1First,         \* whether L1 got the lower of the two addresses
    HookBudget,      \* cells the hooks of one outermost collection allocate
                     \* (a collection they ask for counts as one)
    MaxNesting,      \* bound on collections started from inside hooks
    Bootstrapping,   \* g_lisp_bootstrapping
    DecommitUnmaps   \* VirtualFree gives the address range back (munmap)

E2Size == IF E2Requested > E1Size THEN E1Size ELSE E2Requested

ASSUME SizesAssumption ==
    /\ E1Size \in Nat /\ E2Requested \in Nat /\ LispHeapSize \in Nat
    /\ E1Reserve \in Nat /\ L1Reserve \in Nat /\ L2Reserve \in Nat
    /\ E1Size <= E1Reserve
    /\ E1Size + E2Size + LispHeapSize <= L1Reserve
    /\ E1Size + E2Size + LispHeapSize <= L2Reserve
    /\ Meg \in Nat \ {0}

ASSUME RequestsAssumption ==
    /\ SmallSizes \subseteq 1..E1Size
    /\ LocalHeapCells \in 1..E1Size
    /\ LargeSizes \subseteq Nat \ {0} /\ ImageSizes \subseteq Nat
    /\ HookBudget \in Nat /\ MaxNesting \in Nat \ {0}
    /\ L1First \in BOOLEAN /\ Bootstrapping \in BOOLEAN
    /\ DecommitUnmaps \in BOOLEAN

Heaps == {"E1", "E2", "L1", "L2"}
Semispaces == {"L1", "L2"}
Phases == {"running", "bootstrap", "wave1", "wave2", "wave3", "wave4",
           "finish", "hooks", "return", "fault"}
Kinds == {"vector", "large", "gc", "load"}

VARIABLES
    used,       \* current - start of each heap
    size,       \* end - start
    over,       \* overflow - start
    sizeMem,    \* sizeMem: not exchanged by swapLispHeaps, unlike end
    swapped,    \* whether L1 is in the address range L2 had at start-up
    mapped,     \* whether there is memory behind the addresses of L2
    phase,      \* where the innermost collection is
    level,      \* level of the innermost collection
    pending,    \* the operations waiting for a collection, outermost first
    budget,     \* what the hooks may still allocate
    growFailed  \* some call of grow returned -1

vars == <<used, size, over, sizeMem, swapped, mapped, phase, level, pending,
          budget, growFailed>>
capacity == <<size, over, sizeMem, swapped, mapped>>

(***************************************************************************)
(* reserve is a field of the LispHeap object and swapLispHeaps leaves it   *)
(* there, while the memory moves: PhysicalReserve is what was really       *)
(* reserved behind the heap's current start.                               *)
(***************************************************************************)
Reserve == [h \in Heaps |-> CASE h = "E1" -> E1Reserve
                              [] h = "E2" -> E1Size + E2Size
                              [] h = "L1" -> L1Reserve
                              [] h = "L2" -> L2Reserve]

PhysicalReserve(h) ==
    IF swapped /\ h = "L1" THEN L2Reserve
    ELSE IF swapped /\ h = "L2" THEN L1Reserve
    ELSE Reserve[h]

LispSize == E1Size + E2Size + LispHeapSize

Init ==
    /\ used = [h \in Heaps |-> 0]
    /\ size = [h \in Heaps |-> CASE h = "E1" -> E1Size
                                 [] h = "E2" -> E1Size + E2Size
                                 [] OTHER -> LispSize]
    /\ over = [h \in Heaps |-> CASE h = "E1" -> 0
                                 [] h = "E2" -> E2Size
                                 [] OTHER -> LispHeapSize]
    /\ sizeMem = size
    /\ swapped = FALSE
    /\ mapped = TRUE
    /\ phase = "running"
    /\ level = 0
    /\ pending = <<>>
    /\ budget = 0
    /\ growFailed = FALSE

(***************************************************************************)
(* LispHeap::grow and growLispHeaps.                                       *)
(***************************************************************************)
CanGrow(h, bytes) == sizeMem[h] + bytes <= Reserve[h]

RoundToMeg(cells) == ((cells \div Meg) + 1) * Meg

GrownBy(f, grows, bytes) ==
    [h \in Heaps |-> IF h \in grows THEN f[h] + bytes ELSE f[h]]

Grow(grows, bytes) ==
    /\ size' = GrownBy(size, grows, bytes)
    /\ over' = GrownBy(over, grows, bytes)
    /\ sizeMem' = GrownBy(sizeMem, grows, bytes)

(* LispHeap1.grow(b) || LispHeap2.grow(b): L2 is tried only when L1 could,  *)
(* and L1 keeps what it got when L2 cannot.                                 *)
HeapsThatGrow(bytes) ==
    IF ~CanGrow("L1", bytes) THEN {}
    ELSE IF ~CanGrow("L2", bytes) THEN {"L1"}
    ELSE Semispaces

GrowLispHeaps(cells) ==
    LET bytes == RoundToMeg(cells)
    IN  /\ Grow(HeapsThatGrow(bytes), bytes)
        /\ growFailed' = (growFailed \/ HeapsThatGrow(bytes) # Semispaces)
        /\ UNCHANGED <<swapped, mapped>>

(***************************************************************************)
(* Operations of the running Lisp program, or of a hook of the collector.  *)
(***************************************************************************)
MayRequest(n) == phase = "running" \/ (phase = "hooks" /\ n <= budget)

Charge(n) == budget' = IF phase = "hooks" THEN budget - n ELSE budget

(* The call of garbageCollect(lev) made by operation op. *)
CallGarbageCollect(lev, op) ==
    /\ Len(pending) < MaxNesting
    /\ pending' = Append(pending, op)
    /\ level' = lev
    /\ phase' = IF Bootstrapping THEN "bootstrap" ELSE "wave1"
    /\ budget' = (IF phase = "hooks" THEN budget ELSE HookBudget)
                   - (IF phase = "hooks" THEN op.n ELSE 0)
    /\ UNCHANGED <<used, growFailed>>
    /\ UNCHANGED capacity

Bump(h, n) == used' = [used EXCEPT ![h] = @ + n]

AllocSmall(n) ==
    /\ MayRequest(n)
    /\ \/ /\ used["E1"] + n <= size["E1"]
          /\ Bump("E1", n)
          /\ Charge(n)
          /\ UNCHANGED <<phase, level, pending, growFailed>>
          /\ UNCHANGED capacity
       \/ /\ used["E1"] + n > size["E1"]
          /\ CallGarbageCollect(0, [kind |-> "vector", n |-> n])

AllocVector == \E n \in SmallSizes : AllocSmall(n)

LoadLocalHeap == AllocSmall(LocalHeapCells)

AllocLargeVector(n) ==
    /\ MayRequest(n)
    /\ \/ /\ used["L1"] + n <= over["L1"]
          /\ Bump("L1", n)
          /\ Charge(n)
          /\ UNCHANGED <<phase, level, pending, growFailed>>
          /\ UNCHANGED capacity
       \/ /\ used["L1"] + n > over["L1"]
          /\ CallGarbageCollect(2, [kind |-> "large", n |-> n])

(* The Lisp function GC; flushEphemeralHeaps is its level 3. *)
LispGC(lev) ==
    /\ MayRequest(1)
    /\ CallGarbageCollect(lev, [kind |-> "gc", n |-> 1])

ReadHeap(n) ==
    /\ phase = "running"
    /\ CallGarbageCollect(3, [kind |-> "load", n |-> n])

(***************************************************************************)
(* garbageCollect: one action per wave.                                    *)
(***************************************************************************)
(* Fault variant: nothing is grown. *)
BootstrapCollectNothing ==
    /\ phase = "bootstrap"
    /\ phase' = "return"
    /\ UNCHANGED <<used, level, pending, budget, growFailed>>
    /\ UNCHANGED capacity

BootstrapCollect ==
    /\ phase = "bootstrap"
    /\ Grow(IF CanGrow("E1", Meg) THEN {"E1"} ELSE {}, Meg)
    /\ growFailed' = (growFailed \/ ~CanGrow("E1", Meg))
    /\ phase' = "return"
    /\ UNCHANGED <<used, swapped, mapped, level, pending, budget>>

(* Fault variant: current of the from-space is not reset. *)
CopyIntoKeepsFrom(to, from, live, next) ==
    IF used[to] + live <= PhysicalReserve(to)
    THEN used' = [used EXCEPT ![to] = @ + live] /\ phase' = next
    ELSE UNCHANGED used /\ phase' = "fault"

(* Cells live are copied from one heap to another, unless they run past the *)
(* memory that was reserved for it; that faults.                            *)
CopyInto(to, from, live, next) ==
    IF used[to] + live <= PhysicalReserve(to)
    THEN used' = [used EXCEPT ![from] = 0, ![to] = @ + live] /\ phase' = next
    ELSE UNCHANGED used /\ phase' = "fault"

(* Fault variant: E2 is compared with its end and not with its overflow. *)
Wave1UntilEnd ==
    /\ phase = "wave1"
    /\ \E live \in 0..used["E1"] :
          CopyInto("E2", "E1", live,
                   IF used["E2"] + live > size["E2"] \/ level > 0
                   THEN "wave2" ELSE "finish")
    /\ UNCHANGED <<level, pending, budget, growFailed>>
    /\ UNCHANGED capacity

(* E1 into E2. *)
Wave1 ==
    /\ phase = "wave1"
    /\ \E live \in 0..used["E1"] :
          CopyInto("E2", "E1", live,
                   IF used["E2"] + live > over["E2"] \/ level > 0
                   THEN "wave2" ELSE "finish")
    /\ UNCHANGED <<level, pending, budget, growFailed>>
    /\ UNCHANGED capacity

(* Fault variant: wave 2 never grows the permanent heap. *)
NeedsRoomNever == FALSE

NeedsRoom == used["E2"] + used["L1"] >= size["L1"]

(* E2 into L1, which is grown first if it could fill up; the result of      *)
(* growLispHeaps is ignored.                                                *)
Wave2 ==
    /\ phase = "wave2"
    /\ level' = IF level = 0 THEN 1 ELSE level
    /\ IF NeedsRoom THEN GrowLispHeaps(used["E2"])
       ELSE UNCHANGED capacity /\ UNCHANGED growFailed
    /\ \E live \in 0..used["E2"] :
          CopyInto("L1", "E2", live,
                   IF used["L1"] + live > over'["L1"] \/ level' > 1
                   THEN "wave3" ELSE "finish")
    /\ UNCHANGED <<pending, budget>>

Exchanged(f) == [f EXCEPT !["L1"] = f["L2"], !["L2"] = f["L1"]]

(* L1 into L2, after which swapLispHeaps exchanges the two: start, end and  *)
(* overflow change place, sizeMem and reserve do not.  The memory of the    *)
(* new L2 is decommitted; commitAllPages of the next copy only changes      *)
(* protections, which brings no memory back where there is none.            *)
CopyAndSwap(next) ==
    /\ \E live \in 0..used["L1"] :
          IF mapped /\ live <= PhysicalReserve("L2")
          THEN /\ used' = [used EXCEPT !["L1"] = live, !["L2"] = 0]
               /\ size' = Exchanged(size)
               /\ over' = Exchanged(over)
               /\ swapped' = ~swapped
               /\ mapped' = ~DecommitUnmaps
               /\ phase' = next
               /\ UNCHANGED sizeMem
          ELSE phase' = "fault" /\ UNCHANGED used /\ UNCHANGED capacity
    /\ UNCHANGED <<pending, budget, growFailed>>

L1IsHigher(sw) == L1First = sw

(* Fault variant: the second copy of a level 3 collection is left out. *)
Wave3Once ==
    /\ phase = "wave3"
    /\ level' = IF level = 1 THEN 2 ELSE level
    /\ CopyAndSwap("finish")

Wave3 ==
    /\ phase = "wave3"
    /\ level' = IF level = 1 THEN 2 ELSE level
    /\ CopyAndSwap(IF L1IsHigher(~swapped) /\ level > 2 THEN "wave4" ELSE "finish")

Wave4 ==
    /\ phase = "wave4"
    /\ CopyAndSwap("finish")
    /\ UNCHANGED level

(* Fault variant: a permanent heap that stayed full is collected again      *)
(* until there is room.                                                     *)
FinishRetries ==
    /\ phase = "finish"
    /\ phase' = IF level > 0 /\ used["L1"] >= over["L1"] THEN "wave3" ELSE "hooks"
    /\ UNCHANGED <<used, level, pending, budget, growFailed>>
    /\ UNCHANGED capacity

(* A permanent heap that stayed full is grown; the result is ignored. *)
Finish ==
    /\ phase = "finish"
    /\ IF level > 0 /\ used["L1"] >= over["L1"]
       THEN GrowLispHeaps(size["E2"])
       ELSE UNCHANGED capacity /\ UNCHANGED growFailed
    /\ phase' = "hooks"
    /\ UNCHANGED <<used, level, pending, budget>>

(* executeGCRegistryFunctions, finalizeResurrectedObjects, the bignums with *)
(* the collector's statistics and EXECUTE_FINALIZERS have all returned.     *)
HooksDone ==
    /\ phase = "hooks"
    /\ phase' = "return"
    /\ UNCHANGED <<used, level, pending, budget, growFailed>>
    /\ UNCHANGED capacity

(***************************************************************************)
(* What the operation that called garbageCollect does when it returns.     *)
(***************************************************************************)
Caller == pending[Len(pending)]
Resumed == IF Len(pending) = 1 THEN "running" ELSE "hooks"

(* n cells are written at the end of heap h, which faults where there is no *)
(* memory.                                                                  *)
Fill(h, from, n) ==
    IF from + n <= PhysicalReserve(h)
    THEN used' = [used EXCEPT ![h] = from + n] /\ phase' = Resumed
    ELSE UNCHANGED used /\ phase' = "fault"

ReturnToCaller(kind) ==
    /\ phase = "return"
    /\ Caller.kind = kind
    /\ pending' = SubSeq(pending, 1, Len(pending) - 1)
    /\ UNCHANGED <<level, budget>>

(* _AllocVectorImpl and LoadLocalHeap bump without comparing again. *)
VectorReturns ==
    /\ ReturnToCaller("vector")
    /\ Fill("E1", used["E1"], Caller.n)
    /\ UNCHANGED growFailed
    /\ UNCHANGED capacity

(* AllocLargeVector tries again, then grows the heaps, then gives up with   *)
(* an error.                                                                *)
LargeReturns ==
    /\ ReturnToCaller("large")
    /\ \/ /\ used["L1"] + Caller.n <= over["L1"]
          /\ Fill("L1", used["L1"], Caller.n)
          /\ UNCHANGED growFailed
          /\ UNCHANGED capacity
       \/ /\ used["L1"] + Caller.n > over["L1"]
          /\ GrowLispHeaps(Caller.n)
          /\ IF HeapsThatGrow(RoundToMeg(Caller.n)) = Semispaces
                  /\ used["L1"] + Caller.n <= over'["L1"]
             THEN Fill("L1", used["L1"], Caller.n)
             ELSE UNCHANGED used /\ phase' = Resumed

GCReturns ==
    /\ ReturnToCaller("gc")
    /\ phase' = Resumed
    /\ UNCHANGED <<used, growFailed>>
    /\ UNCHANGED capacity

(* readHeap grows the heaps for a large image and overwrites L1 with it. *)
LoadReturns ==
    /\ ReturnToCaller("load")
    /\ IF Caller.n >= sizeMem["L1"] - Meg
       THEN GrowLispHeaps(Caller.n - sizeMem["L1"] + Meg)
       ELSE UNCHANGED capacity /\ UNCHANGED growFailed
    /\ Fill("L1", 0, Caller.n)

Collect ==
    \/ BootstrapCollect
    \/ Wave1
    \/ Wave2
    \/ Wave3
    \/ Wave4
    \/ Finish
    \/ HooksDone
    \/ VectorReturns
    \/ LargeReturns
    \/ GCReturns
    \/ LoadReturns

Next ==
    \/ AllocVector
    \/ LoadLocalHeap
    \/ \E n \in LargeSizes : AllocLargeVector(n)
    \/ \E lev \in 0..3 : LispGC(lev)
    \/ \E n \in ImageSizes : ReadHeap(n)
    \/ Collect

Spec == Init /\ [][Next]_vars
FairSpec == Spec /\ WF_vars(Collect)

(***************************************************************************)
(* Properties.                                                             *)
(***************************************************************************)
Request == [kind : Kinds, n : Nat]

(* Every variable has its type. *)
TypeOK ==
    /\ used \in [Heaps -> Nat]
    /\ size \in [Heaps -> Nat]
    /\ over \in [Heaps -> Nat]
    /\ sizeMem \in [Heaps -> Nat]
    /\ swapped \in BOOLEAN
    /\ mapped \in BOOLEAN
    /\ phase \in Phases
    /\ level \in 0..3
    /\ pending \in Seq(Request)
    /\ budget \in Nat
    /\ growFailed \in BOOLEAN

(* What the hooks allocate, and the request that waits behind them, fit in  *)
(* an empty E1: a second collection is never needed to serve one request.   *)
HooksFit == \A n \in SmallSizes \cup {LocalHeapCells} : HookBudget + n <= E1Size

(* No copy of the collector, and no allocation, runs past the end of a heap *)
(* as long as every growLispHeaps succeeded.                                *)
NoOverrun ==
    /\ used["E1"] <= size["E1"]
    /\ used["E2"] <= size["E2"]
    /\ ~growFailed => \A h \in Semispaces : used[h] <= size[h]

(* While the kernel bootstraps, each call of garbageCollect makes room in   *)
(* E1 for the block that is then taken without another comparison.          *)
BootstrapMakesRoom == ~growFailed => used["E1"] <= size["E1"]

(* When a collection starts, and whenever Lisp code runs, E2 has room for   *)
(* everything that E1 can hold, so that wave 1 cannot overrun it.           *)
E2Headroom ==
    phase \in {"running", "wave1", "hooks", "return"} =>
        used["E2"] + size["E1"] <= size["E2"]

(* A collection that reached the permanent heap leaves it no fuller than    *)
(* its overflow mark, unless growing it failed.                             *)
PermanentHeadroom ==
    phase = "hooks" /\ level > 0 /\ ~growFailed => used["L1"] <= over["L1"]

(* A level 3 collection (flushEphemeralHeaps, before an image is written)   *)
(* leaves the data in the semispace with the lower address.                 *)
LowestAfterFlush == phase = "finish" /\ level = 3 => ~L1IsHigher(swapped)

(* Every request that needs a collection is answered in the end, however    *)
(* its hooks allocate, unless the process has faulted.                      *)
RequestAnswered == phase # "running" ~> phase \in {"running", "fault"}

(* The collector never writes to an address that has no memory behind it    *)
(* while there is still room to grow.                                       *)
NoFault == phase = "fault" => growFailed

(***************************************************************************)
(* The inductive invariant behind NoOverrun, E2Headroom, PermanentHeadroom *)
(* and NoFault.  It needs real collections (~Bootstrapping) and HooksFit.  *)
(***************************************************************************)
EphemeralInv ==
    /\ phase # "bootstrap"
    /\ size["E1"] = E1Size
    /\ size["E2"] = E1Size + E2Size
    /\ over["E2"] = E2Size
    /\ used["E1"] <= E1Size
    /\ used["E2"] <= E1Size + E2Size
    /\ phase \notin {"wave2", "fault"} => used["E2"] <= E2Size
    /\ phase \in {"wave2", "wave3", "wave4", "finish"} => used["E1"] = 0
    /\ phase # "running" => budget <= HookBudget
    /\ phase \in {"hooks", "return"} => used["E1"] + budget <= HookBudget

SemispaceInv ==
    /\ used["L2"] = 0
    /\ \A h \in Semispaces : sizeMem[h] <= Reserve[h]
    /\ ~DecommitUnmaps => mapped
    /\ ~growFailed =>
          /\ size["L1"] = size["L2"]
          /\ over["L1"] = over["L2"]
          /\ \A h \in Semispaces : /\ sizeMem[h] = size[h]
                                   /\ size[h] = over[h] + E1Size + E2Size
          /\ used["L1"] <= size["L1"]
          /\ phase \in {"hooks", "return"} /\ level > 0 => used["L1"] <= over["L1"]
          /\ phase = "fault" => ~mapped

(* Only the outermost operation waits for a small block or an image.        *)
PendingInv ==
    /\ phase = "running" => pending = <<>>
    /\ phase \notin {"running", "fault"} => pending # <<>>
    /\ \A i \in 1..Len(pending) :
          /\ pending[i].kind = "vector" =>
                i = 1 /\ pending[i].n \in SmallSizes \cup {LocalHeapCells}
          /\ pending[i].kind = "load" => i = 1

CapacityInv == TypeOK /\ EphemeralInv /\ SemispaceInv /\ PendingInv
=============================================================================
