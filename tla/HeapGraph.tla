----------------------------- MODULE HeapGraph -----------------------------
(***************************************************************************)
(* What the collector promises to Lisp code, without addresses or          *)
(* generations: the program works on a graph of objects, a collection      *)
(* removes only what the program cannot reach, clears only weak pointers   *)
(* to such objects and queues a finalizer only for such an object, once    *)
(* per registration.  CopyGC implements it.                                *)
(***************************************************************************)
EXTENDS FiniteSets

CONSTANTS Objs, Roots, Weaks, Ids, Nil

VARIABLES
    alive,      \* objects that exist
    ref,        \* the pointer each object holds
    root,       \* variables of the program
    weak,       \* what each weak pointer refers to
    registry,   \* finalizers registered: [id, obj]
    queue       \* finalizers that will run

vars == <<alive, ref, root, weak, registry, queue>>

Values == {root[r] : r \in Roots} \cup {Nil}
Registered == {e.id : e \in registry \cup queue}

(* The least set that contains start and what its members point to. *)
Reachable(start) ==
    {o \in Objs : \A S \in SUBSET Objs :
        (start \subseteq S /\ \A p \in S : ref[p] \in Objs => ref[p] \in S) => o \in S}

Init ==
    /\ alive = {}
    /\ ref = [o \in Objs |-> Nil]
    /\ root = [r \in Roots |-> Nil]
    /\ weak = [w \in Weaks |-> Nil]
    /\ registry = {}
    /\ queue = {}

New(o, r, v) ==
    /\ o \notin alive
    /\ alive' = alive \cup {o}
    /\ ref' = [ref EXCEPT ![o] = v]
    /\ root' = [root EXCEPT ![r] = o]
    /\ UNCHANGED <<weak, registry, queue>>

Store(r, v) ==
    /\ root[r] # Nil
    /\ ref' = [ref EXCEPT ![root[r]] = v]
    /\ UNCHANGED <<alive, root, weak, registry, queue>>

(* A variable gets a value it can be given: nil, or what is read. *)
Assign(r, v) ==
    /\ root' = [root EXCEPT ![r] = v]
    /\ UNCHANGED <<alive, ref, weak, registry, queue>>

Readable == {Nil} \cup {ref[root[r]] : r \in {s \in Roots : root[s] # Nil}}
                  \cup {weak[w] : w \in Weaks}

MakeWeak(w, r) ==
    /\ weak[w] = Nil /\ root[r] # Nil
    /\ weak' = [weak EXCEPT ![w] = root[r]]
    /\ UNCHANGED <<alive, ref, root, registry, queue>>

Register(i, r) ==
    /\ i \notin Registered /\ root[r] # Nil
    /\ registry' = registry \cup {[id |-> i, obj |-> root[r]]}
    /\ UNCHANGED <<alive, ref, root, weak, queue>>

Collect(dead, queued, cleared) ==
    LET kept == Reachable((Values \ {Nil}) \cup {e.obj : e \in queue})
        saved == Reachable({e.obj : e \in queued})
    IN  /\ dead \cap (kept \cup saved) = {}
        /\ \A e \in queued : e.obj \notin kept
        /\ \A e \in registry \ queued : e.obj \notin dead
        /\ \A w \in cleared : weak[w] \notin kept
        /\ \A w \in Weaks \ cleared : weak[w] \notin dead
        /\ alive' = alive \ dead
        /\ ref' = [o \in Objs |-> IF o \in dead THEN Nil ELSE ref[o]]
        /\ weak' = [w \in Weaks |-> IF w \in cleared THEN Nil ELSE weak[w]]
        /\ registry' = registry \ queued
        /\ queue' = queue \cup queued
        /\ UNCHANGED root

(* A finalizer is called with its object, which it may store in a variable. *)
Finalize(e) ==
    /\ queue' = queue \ {e}
    /\ \/ UNCHANGED root
       \/ \E r \in Roots : root' = [root EXCEPT ![r] = e.obj]
    /\ UNCHANGED <<alive, ref, weak, registry>>

Next ==
    \/ \E o \in Objs, r \in Roots, v \in Values : New(o, r, v)
    \/ \E r \in Roots, v \in Values : Store(r, v)
    \/ \E r \in Roots, v \in Readable : Assign(r, v)
    \/ \E w \in Weaks, r \in Roots : MakeWeak(w, r)
    \/ \E i \in Ids, r \in Roots : Register(i, r)
    \/ \E dead \in SUBSET alive, queued \in SUBSET registry, cleared \in SUBSET Weaks :
          Collect(dead, queued, cleared)
    \/ \E e \in queue : Finalize(e)

Spec == Init /\ [][Next]_vars
=============================================================================
