------------------------------- MODULE CopyGC -------------------------------
(***************************************************************************)
(* The copying collector (Gc.cpp) seen from the pointers: which objects a  *)
(* wave promotes, which pointers it updates, what becomes of weak pointers *)
(* and finalizers, and what the functions called after a collection may do *)
(* to it.  Every pointer holds the address of an object: the object and    *)
(* the space it was in when the pointer was written.  A pointer is         *)
(* dangling when the object is no longer there.                            *)
(*                                                                         *)
(* An object has one pointer.  A registration of a finalizer is one entry, *)
(* for the list cell and the pair of the code; the order of the lists is   *)
(* left out.  The program has stopped while a wave runs (LispThreads), and *)
(* how much a space holds is in HeapSpaces: here a wave may overflow.      *)
(***************************************************************************)
EXTENDS Integers, Sequences, FiniteSets

CONSTANTS
    Objs,           \* objects that can exist at a time
    Roots,          \* symbol values, bindings, stack slots, registers
    Weaks,          \* weak pointers, all held by the program
    Ids,            \* registrations of finalizers that can exist at a time
    Nil,
    Ops,            \* operations of the program beyond the ordinary ones
    MaxCalls,       \* bound on collections inside one another
    HardwareAssist  \* whether pages are write-protected

(* large: AllocLargeVector puts an object into the permanent heap.          *)
(* setInfo: (setf function-info-list) on a compiled function.  hooks: the   *)
(* GC registry is not empty, so that hooks may fill E1 and collect.         *)
AllOps == {"large", "code", "setInfo", "hooks"}

Spaces == {"E1", "E2", "A", "B"}        \* A is the lower semispace
Addr == [obj : Objs, sp : Spaces]
Pair == [id : Ids, obj : Objs, sp : Spaces]
Entry == [id : Ids, obj : Objs, sp : Spaces, cell : Spaces]

ASSUME CopyAssumption ==
    /\ Nil \notin Addr \cup Objs
    /\ Ops \subseteq AllOps
    /\ MaxCalls \in Nat
    /\ HardwareAssist \in BOOLEAN

VARIABLES
    kind,        \* "free", "cons" (any tagged object) or "code"
    at,          \* the space each object is in
    ref,         \* the pointer in each object
    protected,   \* objects on write-protected pages
    L1,          \* the semispace that is the permanent heap
    root,        \* the pointers in variables
    weak,        \* [at, target] of each weak pointer
    registry,    \* FINALIZATION_REGISTRY
    resurrected, \* resurrectedObjects
    pending,     \* FINALIZATION_PENDING
    calls,       \* calls of garbageCollect that have done their copying
    phase,       \* the wave the innermost call is in, or "lisp"
    level        \* its level

vars == <<kind, at, ref, protected, L1, root, weak, registry, resurrected,
          pending, calls, phase, level>>
heap == <<kind, at, ref, protected, weak>>
finalizers == <<registry, resurrected, pending, calls>>

Pointer(p) == [obj |-> p.obj, sp |-> p.sp]
Values == {root[r] : r \in Roots} \cup {Nil}

Init ==
    /\ kind = [o \in Objs |-> "free"]
    /\ at = [o \in Objs |-> "E1"]
    /\ ref = [o \in Objs |-> Nil]
    /\ protected = {}
    /\ L1 = "A"
    /\ root = [r \in Roots |-> Nil]
    /\ weak = [w \in Weaks |-> [at |-> "E1", target |-> Nil]]
    /\ registry = {}
    /\ resurrected = {}
    /\ pending = {}
    /\ calls = <<>>
    /\ phase = "lisp"
    /\ level = 0

(***************************************************************************)
(* A call of garbageCollect that has finished copying: what it does next   *)
(* and the pairs it has still to do it to.                                 *)
(***************************************************************************)
Frame(pc, list) == [pc |-> pc, list |-> list]
Top == calls[Len(calls)]
(* pc: what it does.  Lisp code runs in the hooks and in a finalizer.       *)
Does(pc) == phase = "lisp" /\ calls # <<>> /\ Top.pc = pc
Replace(frame) == calls' = [calls EXCEPT ![Len(calls)] = frame]

(***************************************************************************)
(* The program, a hook or a finalizer.                                     *)
(***************************************************************************)
LispRuns == /\ phase = "lisp"
            /\ calls = <<>> \/ Does("finalizer") \/ (Does("hooks") /\ "hooks" \in Ops)

Alloc(o, r, v, k, sp) ==
    /\ LispRuns
    /\ kind[o] = "free"
    /\ kind' = [kind EXCEPT ![o] = k]
    /\ at' = [at EXCEPT ![o] = sp]
    /\ ref' = [ref EXCEPT ![o] = v]
    /\ root' = [root EXCEPT ![r] = [obj |-> o, sp |-> sp]]
    /\ UNCHANGED <<protected, L1, weak, phase, level>>
    /\ UNCHANGED finalizers

(* compiledFunctionNode: the code points to constants that exist. *)
AllocCode(o, r, v) == "code" \in Ops /\ Alloc(o, r, v, "code", "E1")

AllocLargeVector(o, r) == "large" \in Ops /\ Alloc(o, r, Nil, "cons", L1)

(* Fault variant: the page stays protected. *)
StoreProtected(r, v) ==
    /\ LispRuns
    /\ root[r] # Nil
    /\ kind[root[r].obj] = "cons" \/ "setInfo" \in Ops
    /\ ref' = [ref EXCEPT ![root[r].obj] = v]
    /\ UNCHANGED <<kind, at, protected, L1, root, weak, phase, level>>
    /\ UNCHANGED finalizers

(* A write to a protected page faults, and the page is unprotected. *)
Store(r, v) ==
    /\ LispRuns
    /\ root[r] # Nil
    /\ kind[root[r].obj] = "cons" \/ "setInfo" \in Ops
    /\ ref' = [ref EXCEPT ![root[r].obj] = v]
    /\ protected' = protected \ {root[r].obj}
    /\ UNCHANGED <<kind, at, L1, root, weak, phase, level>>
    /\ UNCHANGED finalizers

Readable == {Nil} \cup {ref[root[r].obj] : r \in {s \in Roots : root[s] # Nil}}
                  \cup {weak[w].target : w \in Weaks}

Assign(r, v) ==
    /\ LispRuns
    /\ root' = [root EXCEPT ![r] = v]
    /\ UNCHANGED <<L1, phase, level>>
    /\ UNCHANGED heap /\ UNCHANGED finalizers

MakeWeak(w, r) ==
    /\ LispRuns
    /\ weak[w].target = Nil /\ root[r] # Nil
    /\ weak' = [weak EXCEPT ![w] = [at |-> "E1", target |-> root[r]]]
    /\ UNCHANGED <<kind, at, ref, protected, L1, root, phase, level>>
    /\ UNCHANGED finalizers

Held == {p.id : p \in registry \cup resurrected \cup pending
                         \cup UNION {calls[i].list : i \in DOMAIN calls}}

RegisterFinalization(i, r) ==
    /\ LispRuns
    /\ i \notin Held /\ root[r] # Nil
    /\ registry' = registry \cup
          {[id |-> i, obj |-> root[r].obj, sp |-> root[r].sp, cell |-> "E1"]}
    /\ UNCHANGED <<L1, root, resurrected, pending, calls, phase, level>>
    /\ UNCHANGED heap

(***************************************************************************)
(* garbageCollect: promotion.                                              *)
(***************************************************************************)
(* isHeapPointer *)
Points(a, from) == a # Nil /\ a.sp = from

(* The least set that contains start and the objects of space from that its *)
(* members point to: what copyReferencedBlocks promotes.                    *)
Promoted(start, from) ==
    {o \in Objs : \A S \in SUBSET Objs :
        /\ start \subseteq S
        /\ \A p \in S : Points(ref[p], from) => ref[p].obj \in S
        => o \in S}

(* Fault variant: the third wave scans the space that it evacuates. *)
OlderAlways(from) == IF from = "E1" THEN {"E2", L1} ELSE {L1}

(* The older spaces that checkHeapRoots scans. *)
Older(from) == CASE from = "E1" -> {"E2", L1}
                 [] from = "E2" -> {L1}
                 [] OTHER -> {}

(* Fault variant: the pages of E2 are left out. *)
ScannedL1Only(from) ==
    {o \in Objs : kind[o] = "cons" /\ at[o] \in Older(from) \cap {L1}
                                   /\ (from = "E1" => o \notin protected)}

(* scanObjectForRoots skips compiled code, and checkHeapRoots the pages that *)
(* are protected: the first wave meets some, the second has unprotected all. *)
Scanned(from) ==
    {o \in Objs : kind[o] = "cons" /\ at[o] \in Older(from)
                                   /\ (from = "E1" => o \notin protected)}

(* Weak pointers and entries on older pages are scanned like any object. *)
OldPointers(from) ==
    {ref[o] : o \in Scanned(from)}
    \cup {weak[w].target : w \in {v \in Weaks : weak[v].at \in Older(from)}}
    \cup {Pointer(e) : e \in {f \in registry : f.cell \in Older(from)}}

Finalizing == {"execute", "finalizer"}

(* The lists that are roots: nodes that finalizeResurrectedObjects has      *)
(* detached are not.                                                        *)
RootPairs == resurrected \cup pending
                \cup UNION {calls[i].list : i \in {j \in DOMAIN calls : calls[j].pc \in Finalizing}}

RootPointers == {root[r] : r \in Roots} \cup {Pointer(p) : p \in RootPairs}

(* Entries in E2 that an entry in L1 has come to point to, because           *)
(* resurrectFinalizationObjects reverses the list in every wave.            *)
KeptByOlder(from) ==
    IF from = "E2" /\ \E e \in registry : e.cell = L1
    THEN SUBSET {e \in registry : e.cell = from} ELSE {{}}

Strong(from, kept) == RootPointers \cup OldPointers(from) \cup {Pointer(e) : e \in kept}

Live(from, kept) ==
    Promoted({a.obj : a \in {b \in Strong(from, kept) : Points(b, from)}}, from)

Forward(p, from, to) == IF p.sp = from THEN [p EXCEPT !.sp = to] ELSE p
ForwardAll(list, from, to) == {Forward(p, from, to) : p \in list}
Update(a, from, to) == IF a = Nil THEN Nil ELSE Forward(a, from, to)
Cell(e, from, to) == [e EXCEPT !.cell = IF @ = from THEN to ELSE @]

(* Objects: those moved go to to, the others of from are gone.              *)
MoveObjects(from, to, moved) ==
    LET Gone(o) == kind[o] # "free" /\ at[o] = from /\ o \notin moved
        Moves(o) == kind[o] # "free" /\ at[o] = from /\ o \in moved
    IN  /\ kind' = [o \in Objs |-> IF Gone(o) THEN "free" ELSE kind[o]]
        /\ at' = [o \in Objs |-> IF Moves(o) THEN to ELSE IF Gone(o) THEN "E1" ELSE at[o]]
        /\ ref' = [o \in Objs |-> IF Gone(o) THEN Nil
                                  ELSE IF Moves(o) \/ o \in Scanned(from)
                                       THEN Update(ref[o], from, to) ELSE ref[o]]

(* checkWeakPointers: what has not been promoted yet is cleared.            *)
MoveWeak(from, to, forwarded) ==
    weak' = [w \in Weaks |->
               [at |-> IF weak[w].at = from THEN to ELSE weak[w].at,
                target |-> IF Points(weak[w].target, from)
                              /\ weak[w].target.obj \notin forwarded
                           THEN Nil ELSE Update(weak[w].target, from, to)]]

(* resurrectFinalizationObjects and the lists that are roots.               *)
MoveLists(from, to, died) ==
    /\ registry' = {Cell(Forward(e, from, to), from, to) : e \in registry \ died}
    /\ resurrected' = ForwardAll(resurrected, from, to)
          \cup ForwardAll({[id |-> e.id, obj |-> e.obj, sp |-> e.sp] : e \in died}, from, to)
    /\ pending' = ForwardAll(pending, from, to)
    /\ calls' = [i \in DOMAIN calls |->
                   IF calls[i].pc \in Finalizing
                   THEN Frame(calls[i].pc, ForwardAll(calls[i].list, from, to))
                   ELSE calls[i]]

(* One wave: from is evacuated to to.  The objects of dying registrations   *)
(* are promoted after the live ones, one registration per object, and what  *)
(* they point to after the weak pointers have been looked at.               *)
Promote(from, to) ==
    \E kept \in KeptByOlder(from) :
    LET live == Live(from, kept)
        dead == {e \in registry : e.sp = from /\ e.obj \notin live}
    IN  \E died \in SUBSET dead :
        LET forwarded == live \cup {e.obj : e \in died}
        IN  /\ \A e \in dead : \E d \in died : d.obj = e.obj
            /\ \A d, e \in died : d.obj = e.obj => d = e
            /\ MoveObjects(from, to, Promoted(forwarded, from))
            /\ MoveWeak(from, to, forwarded)
            /\ MoveLists(from, to, died)
            /\ root' = [r \in Roots |-> Update(root[r], from, to)]

(***************************************************************************)
(* garbageCollect: the waves.                                              *)
(***************************************************************************)
(* The allocation that found E1 full, or the function GC, called from the   *)
(* program, a finalizer, a hook, or the cons of finalizeResurrectedObjects  *)
(* after hooks have filled E1.                                              *)
GarbageCollect(lev) ==
    /\ LispRuns \/ Does("finalize")
    /\ Does("finalize") => "hooks" \in Ops
    /\ Len(calls) < MaxCalls
    /\ phase' = "wave1"
    /\ level' = lev
    /\ resurrected' = {}
    /\ UNCHANGED <<L1, root, registry, pending, calls>>
    /\ UNCHANGED heap

(* E1 into E2, which may overflow. *)
Wave1 ==
    /\ phase = "wave1"
    /\ Promote("E1", "E2")
    /\ phase' \in IF level > 0 THEN {"wave2"} ELSE {"wave2", "protect"}
    /\ UNCHANGED <<protected, L1, level>>

(* E2 into L1, which may overflow. *)
Wave2 ==
    /\ phase = "wave2"
    /\ level' = IF level = 0 THEN 1 ELSE level
    /\ Promote("E2", L1)
    /\ protected' = {}
    /\ phase' \in IF level > 1 THEN {"wave3"} ELSE {"wave3", "protect"}
    /\ UNCHANGED L1

(* L1 into L2 and exchange; at level 3 again if the data is not in the      *)
(* lower one.                                                               *)
Wave3 ==
    /\ phase = "wave3"
    /\ level' = IF level = 1 THEN 2 ELSE level
    /\ L1' = IF L1 = "A" THEN "B" ELSE "A"
    /\ Promote(L1, L1')
    /\ phase' = IF L1' = "B" /\ level' = 3 THEN "wave3" ELSE "protect"
    /\ UNCHANGED protected

(* Fault variant: protected after every collection. *)
ProtectAlways ==
    /\ phase = "protect"
    /\ protected' = IF HardwareAssist
                    THEN {o \in Objs : kind[o] # "free" /\ at[o] = L1} ELSE protected
    /\ phase' = "lisp"
    /\ level' = 0
    /\ calls' = Append(calls, Frame("hooks", {}))
    /\ UNCHANGED <<kind, at, ref, L1, root, weak, registry, resurrected, pending>>

(* Pages of the permanent heap are protected; those of E2 are unprotected    *)
(* again before the next wave 1.  releaseWeakPointers drops the weak        *)
(* pointers that were cleared from their list.  The hooks come next.        *)
Protect ==
    /\ phase = "protect"
    /\ protected' = IF level > 0 /\ HardwareAssist
                    THEN {o \in Objs : kind[o] # "free" /\ at[o] = L1} ELSE protected
    /\ phase' = "lisp"
    /\ level' = 0
    /\ calls' = Append(calls, Frame("hooks", {}))
    /\ UNCHANGED <<kind, at, ref, L1, root, weak, registry, resurrected, pending>>

(***************************************************************************)
(* garbageCollect: what follows the copying.                               *)
(***************************************************************************)
(* Fault variant: the list is cleared before it is detached. *)
HooksReturnEmpty ==
    /\ Does("hooks")
    /\ Replace(Frame("finalize", {}))
    /\ resurrected' = {}
    /\ UNCHANGED <<L1, root, registry, pending, phase, level>>
    /\ UNCHANGED heap

(* executeGCRegistryFunctions returns; finalizeResurrectedObjects detaches  *)
(* the list.                                                                *)
HooksReturn ==
    /\ Does("hooks")
    /\ Replace(Frame("finalize", resurrected))
    /\ resurrected' = {}
    /\ UNCHANGED <<L1, root, registry, pending, phase, level>>
    /\ UNCHANGED heap

(* finalizeResurrectedObjects: one node. *)
FinalizeNode ==
    /\ Does("finalize")
    /\ \E p \in Top.list :
          /\ pending' = pending \cup {p}
          /\ Replace(Frame("finalize", Top.list \ {p}))
    /\ UNCHANGED <<L1, root, registry, resurrected, phase, level>>
    /\ UNCHANGED heap

(* Fault variant: the list is not taken from the variable. *)
ExecuteFinalizersKeeps ==
    /\ Does("finalize") /\ Top.list = {}
    /\ Replace(Frame("execute", pending))
    /\ UNCHANGED <<L1, root, registry, resurrected, pending, phase, level>>
    /\ UNCHANGED heap

(* %EXECUTE-FINALIZERS takes the pending list. *)
ExecuteFinalizers ==
    /\ Does("finalize") /\ Top.list = {}
    /\ Replace(Frame("execute", pending))
    /\ pending' = {}
    /\ UNCHANGED <<L1, root, registry, resurrected, phase, level>>
    /\ UNCHANGED heap

(* The finalizer gets the object, which it may store in a variable. *)
CallFinalizer ==
    /\ Does("execute") \/ Does("finalizer")
    /\ \E p \in Top.list :
          /\ Replace(Frame("finalizer", Top.list \ {p}))
          /\ \/ UNCHANGED root
             \/ \E r \in Roots : root' = [root EXCEPT ![r] = Pointer(p)]
    /\ UNCHANGED <<L1, registry, resurrected, pending, phase, level>>
    /\ UNCHANGED heap

GarbageCollectReturns ==
    /\ Does("execute") \/ Does("finalizer")
    /\ Top.list = {}
    /\ calls' = SubSeq(calls, 1, Len(calls) - 1)
    /\ UNCHANGED <<L1, root, registry, resurrected, pending, phase, level>>
    /\ UNCHANGED heap

(***************************************************************************)
(* The specification.                                                      *)
(***************************************************************************)
Mutate ==
    \/ \E o \in Objs, r \in Roots, v \in Values :
          Alloc(o, r, v, "cons", "E1") \/ AllocCode(o, r, v)
    \/ \E o \in Objs, r \in Roots : AllocLargeVector(o, r)
    \/ \E r \in Roots, v \in Values : Store(r, v)
    \/ \E r \in Roots, v \in Readable : Assign(r, v)
    \/ \E w \in Weaks, r \in Roots : MakeWeak(w, r)
    \/ \E i \in Ids, r \in Roots : RegisterFinalization(i, r)

Finish ==
    \/ HooksReturn
    \/ FinalizeNode
    \/ ExecuteFinalizers
    \/ CallFinalizer
    \/ GarbageCollectReturns

Next ==
    \/ Mutate
    \/ \E lev \in 0..3 : GarbageCollect(lev)
    \/ Wave1
    \/ Wave2
    \/ Wave3
    \/ Protect
    \/ Finish

Spec == Init /\ [][Next]_vars

(***************************************************************************)
(* Properties.                                                             *)
(***************************************************************************)
(* Every variable has its type. *)
TypeOK ==
    /\ kind \in [Objs -> {"free", "cons", "code"}]
    /\ at \in [Objs -> Spaces]
    /\ ref \in [Objs -> Addr \cup {Nil}]
    /\ protected \subseteq Objs
    /\ L1 \in {"A", "B"}
    /\ root \in [Roots -> Addr \cup {Nil}]
    /\ weak \in [Weaks -> [at : Spaces, target : Addr \cup {Nil}]]
    /\ registry \subseteq Entry
    /\ resurrected \subseteq Pair
    /\ pending \subseteq Pair
    /\ calls \in Seq([pc : {"hooks", "finalize", "execute", "finalizer"}, list : SUBSET Pair])
    /\ phase \in {"lisp", "wave1", "wave2", "wave3", "protect"}
    /\ level \in 0..3

Valid(a) == a # Nil => kind[a.obj] # "free" /\ at[a.obj] = a.sp

(* What the program can reach through valid pointers from start. *)
Reachable(start) ==
    {o \in Objs : \A S \in SUBSET Objs :
        /\ start \subseteq S
        /\ \A p \in S : ref[p] # Nil => ref[p].obj \in S
        => o \in S}

Queued == resurrected \cup pending \cup UNION {calls[i].list : i \in DOMAIN calls}
ProgramPointers == {root[r] : r \in Roots} \cup {Pointer(p) : p \in Queued}
ProgramObjects == Reachable({a.obj : a \in ProgramPointers \ {Nil}})

(* No pointer that the program can come to use is dangling: in a variable,  *)
(* in an object it reaches, in a weak pointer, in a finalizer.              *)
NoDangling ==
    /\ \A a \in ProgramPointers : Valid(a)
    /\ \A o \in ProgramObjects : Valid(ref[o])
    /\ \A w \in Weaks : Valid(weak[w].target)
    /\ \A e \in registry : Valid(Pointer(e))

(* After the third wave only what the program reaches is left.              *)
FullCollectionIsPrecise ==
    phase = "protect" /\ level > 1 =>
        \A o \in Objs : kind[o] # "free" => o \in ProgramObjects

(* A registration is held in one place, from its making until its finalizer *)
(* is called.                                                               *)
FinalizersKept ==
    [][\A i \in Held \ Held' : CallFinalizer /\ \E p \in Top.list : p.id = i]_vars

(* No finalizer is queued twice, or queued and still registered: the lists  *)
(* have no registration in common.                                          *)
IdsOf(list) == {p.id : p \in list}

FinalizedOnce ==
    LET lists == <<registry, resurrected, pending>> \o [i \in DOMAIN calls |-> calls[i].list]
    IN  \A j \in DOMAIN lists :
            /\ Cardinality(IdsOf(lists[j])) = Cardinality(lists[j])
            /\ \A k \in DOMAIN lists \ {j} : IdsOf(lists[j]) \cap IdsOf(lists[k]) = {}

(* The collector implements HeapGraph: an address stands for the object at  *)
(* that address.                                                            *)
Deref(a) == IF a = Nil THEN Nil ELSE IF Valid(a) THEN a.obj ELSE a

GraphAlive == {o \in Objs : kind[o] # "free"}
GraphRef == [o \in Objs |-> Deref(ref[o])]
GraphRoot == [r \in Roots |-> Deref(root[r])]
GraphWeak == [w \in Weaks |-> Deref(weak[w].target)]
GraphEntries(list) == {[id |-> p.id, obj |-> Deref(Pointer(p))] : p \in list}
GraphRegistry == GraphEntries(registry)
GraphQueue == GraphEntries(Queued)

Graph == INSTANCE HeapGraph WITH
    alive <- GraphAlive, ref <- GraphRef, root <- GraphRoot, weak <- GraphWeak,
    registry <- GraphRegistry, queue <- GraphQueue

ImplementsGraph == Graph!Spec

(***************************************************************************)
(* The inductive invariant behind NoDangling, when compiled code is not    *)
(* changed and the GC registry is empty.                                   *)
(***************************************************************************)
Exists(o) == kind[o] # "free"
PointsTo(a, spaces) == a # Nil => a.sp \in spaces

(* Which spaces are in use, and what is still to be done.                   *)
PhaseInv ==
    /\ \A o \in Objs : Exists(o) => at[o] \in {"E1", "E2", L1}
    /\ \A o \in Objs : Exists(o) /\ phase = "wave2" => at[o] # "E1"
    /\ \A o \in Objs :
          Exists(o) /\ (phase = "wave3" \/ (phase = "protect" /\ level > 0)) => at[o] = L1
    /\ phase = "wave3" => protected = {}
    /\ \A i \in DOMAIN calls :
          calls[i].pc = "finalizer" \/ (phase = "lisp" /\ i = Len(calls))

(* Compiled code and protected pages point to nothing that is younger:      *)
(* waves need not look at them.                                             *)
AgeInv ==
    /\ \A o \in Objs : kind[o] = "code" =>
          /\ at[o] = "E2" => PointsTo(ref[o], {"E2", L1})
          /\ at[o] = L1 => PointsTo(ref[o], {L1})
    /\ \A o \in protected : Exists(o) /\ at[o] = L1 /\ PointsTo(ref[o], {L1})

(* No pointer anywhere is dangling, in garbage neither.                     *)
ValidInv ==
    /\ \A o \in Objs : Valid(ref[o]) /\ (~Exists(o) => ref[o] = Nil)
    /\ \A r \in Roots : Valid(root[r])
    /\ \A w \in Weaks : Valid(weak[w].target)
    /\ \A p \in registry \cup resurrected \cup pending : Valid(Pointer(p))
    /\ \A i \in DOMAIN calls : \A p \in calls[i].list : Valid(Pointer(p))

PointersInv == TypeOK /\ PhaseInv /\ AgeInv /\ ValidInv
=============================================================================
