---------------------------- MODULE CopyGCProofs ----------------------------
(***************************************************************************)
(* Proofs about CopyGC, for any numbers of objects, variables, weak        *)
(* pointers, registrations and nested collections.  The first part is      *)
(* about pointers: none that the program can follow dangles.  The second   *)
(* is about what a collector promises: finalizers are called once and not  *)
(* lost, a full collection leaves nothing that the program cannot reach,   *)
(* and every step is one of HeapGraph or changes nothing in it.            *)
(***************************************************************************)
EXTENDS CopyGC, SequenceTheorems, FiniteSetTheorems, TLAPS

FrameType == [pc : {"hooks", "finalize", "execute", "finalizer"}, list : SUBSET Pair]

(* Where a pointer is valid after the step.                                 *)
Lands(a) == a # Nil => kind'[a.obj] # "free" /\ at'[a.obj] = a.sp

(* copyReferencedBlocks: what is promoted contains the roots and all that   *)
(* it points to in the same space.                                          *)
LEMMA PromotedContains ==
    ASSUME NEW from, NEW start \in SUBSET Objs
    PROVE  start \subseteq Promoted(start, from) /\ Promoted(start, from) \subseteq Objs
BY DEF Promoted

(* What a promoted object of the from-space points to in the from-space is *)
(* promoted too.                                                           *)
LEMMA PromotedClosed ==
    ASSUME NEW from, NEW start, NEW p \in Promoted(start, from),
           Points(ref[p], from), ref[p].obj \in Objs
    PROVE  ref[p].obj \in Promoted(start, from)
BY DEF Promoted

(* The types of forwarded pointers, pairs and entries.                      *)
LEMMA ForwardTypes ==
    ASSUME NEW from \in Spaces, NEW to \in Spaces
    PROVE  /\ \A a \in Addr : /\ Forward(a, from, to) \in Addr
                              /\ Forward(a, from, to).obj = a.obj
                              /\ Forward(a, from, to).sp = IF a.sp = from THEN to ELSE a.sp
           /\ \A p \in Pair : /\ Forward(p, from, to) \in Pair
                              /\ Forward(p, from, to).obj = p.obj
                              /\ Forward(p, from, to).sp = IF p.sp = from THEN to ELSE p.sp
           /\ \A e \in Entry : /\ Cell(Forward(e, from, to), from, to) \in Entry
                               /\ Cell(Forward(e, from, to), from, to).obj = e.obj
                               /\ Cell(Forward(e, from, to), from, to).sp
                                     = IF e.sp = from THEN to ELSE e.sp
<1>1. ASSUME NEW a \in Addr
      PROVE  /\ Forward(a, from, to) \in Addr
             /\ Forward(a, from, to).obj = a.obj
             /\ Forward(a, from, to).sp = IF a.sp = from THEN to ELSE a.sp
  BY <1>1 DEF Forward, Addr
<1>2. ASSUME NEW p \in Pair
      PROVE  /\ Forward(p, from, to) \in Pair
             /\ Forward(p, from, to).obj = p.obj
             /\ Forward(p, from, to).sp = IF p.sp = from THEN to ELSE p.sp
  BY <1>2 DEF Forward, Pair
<1>3. ASSUME NEW e \in Entry
      PROVE  /\ Cell(Forward(e, from, to), from, to) \in Entry
             /\ Cell(Forward(e, from, to), from, to).obj = e.obj
             /\ Cell(Forward(e, from, to), from, to).sp = IF e.sp = from THEN to ELSE e.sp
  <2> DEFINE f == Forward(e, from, to)
  <2>1. /\ f \in Entry /\ f.obj = e.obj
        /\ f.sp = IF e.sp = from THEN to ELSE e.sp
    BY <1>3 DEF Forward, Entry
  <2> HIDE DEF f
  <2>2. /\ Cell(f, from, to) \in Entry
        /\ Cell(f, from, to).obj = f.obj /\ Cell(f, from, to).sp = f.sp
    BY <2>1 DEF Cell, Entry
  <2> QED BY <2>1, <2>2 DEF f
<1> QED BY <1>1, <1>2, <1>3

(* A pair or an entry holds an address.                                     *)
LEMMA PointerTypes ==
    /\ \A p \in Pair : Pointer(p) \in Addr /\ Pointer(p) # Nil
                       /\ Pointer(p).obj = p.obj /\ Pointer(p).sp = p.sp
    /\ \A p \in Entry : Pointer(p) \in Addr /\ Pointer(p) # Nil
                        /\ Pointer(p).obj = p.obj /\ Pointer(p).sp = p.sp
BY CopyAssumption DEF Pointer, Pair, Entry, Addr

(* One pointer: when what it points to in from is moved, the forwarded      *)
(* pointer is valid.                                                        *)
LEMMA PointerFollows ==
    ASSUME TypeOK, NEW from \in Spaces, NEW to \in Spaces, from # to,
           NEW moved \in SUBSET Objs, MoveObjects(from, to, moved),
           NEW a \in Addr, Valid(a), a.sp = from => a.obj \in moved
    PROVE  Lands(Update(a, from, to)) /\ Update(a, from, to) \in Addr
<1>1. a # Nil /\ a.obj \in Objs
  BY CopyAssumption DEF Addr
<1>2. Forward(a, from, to) # Nil /\ Forward(a, from, to) \in Addr
  BY ForwardTypes, CopyAssumption
<1>3. kind[a.obj] # "free" /\ at[a.obj] = a.sp
  BY <1>1 DEF Valid
<1>4. kind'[a.obj] = kind[a.obj]
  BY <1>1, <1>3 DEF MoveObjects
<1>5. at'[a.obj] = IF a.sp = from THEN to ELSE a.sp
  BY <1>1, <1>3 DEF MoveObjects
<1> QED
  BY <1>1, <1>2, <1>3, <1>4, <1>5, ForwardTypes DEF Lands, Update

(***************************************************************************)
(* One wave.                                                               *)
(***************************************************************************)
(* What a wave relies on: every frame's pairs are roots, and the objects of *)
(* older spaces that it does not scan have no pointer into from.            *)
WaveSafe(from, to) ==
    /\ from \in Spaces /\ to \in Spaces /\ from # to
    /\ \A i \in DOMAIN calls : calls[i].pc \in Finalizing
    /\ \A o \in Objs : Exists(o) /\ at[o] # from /\ o \notin Scanned(from)
                           => ref[o] = Nil \/ ref[o].sp # from

(* What becomes of an object.                                               *)
Object(o, from, to) ==
    /\ kind'[o] # "free" => /\ kind[o] = kind'[o]
                            /\ at'[o] = IF at[o] = from THEN to ELSE at[o]
                            /\ ref'[o] = Update(ref[o], from, to)
                            /\ Lands(ref'[o])
    /\ kind'[o] = "free" => ref'[o] = Nil
    /\ kind[o] # "free" /\ at[o] # from => kind'[o] # "free"

(* The objects that a wave leaves point to objects that it leaves.          *)
LEMMA ObjectsFollow ==
    ASSUME TypeOK, ValidInv, NEW from, NEW to, WaveSafe(from, to),
           NEW start \in SUBSET Objs, NEW moved, moved = Promoted(start, from),
           MoveObjects(from, to, moved),
           \A a \in OldPointers(from) : Points(a, from) => a.obj \in moved,
           NEW o \in Objs
    PROVE  Object(o, from, to)
<1>1. moved \subseteq Objs
  BY PromotedContains
<1>2. from \in Spaces /\ to \in Spaces /\ from # to
  BY DEF WaveSafe
<1>3. ref[o] \in Addr \cup {Nil} /\ Valid(ref[o])
  BY DEF TypeOK, ValidInv
<1>4. CASE kind[o] = "free"
  <2>1. ref[o] = Nil
    BY <1>4 DEF ValidInv, Exists
  <2>2. kind'[o] = "free" /\ ref'[o] = Nil
    BY <1>4, <2>1 DEF MoveObjects, Update, Scanned
  <2> QED BY <1>4, <2>2 DEF Object
<1>5. CASE kind[o] # "free" /\ at[o] = from /\ o \notin moved
  <2>1. kind'[o] = "free" /\ ref'[o] = Nil
    BY <1>5 DEF MoveObjects
  <2> QED BY <1>5, <2>1 DEF Object
<1>6. CASE kind[o] # "free" /\ (at[o] = from => o \in moved)
  <2>1. kind'[o] = kind[o] /\ at'[o] = IF at[o] = from THEN to ELSE at[o]
    BY <1>6 DEF MoveObjects
  <2>2. Points(ref[o], from) => ref[o].obj \in moved
    <3>1. CASE at[o] = from
      BY <1>3, <1>6, <3>1, PromotedClosed DEF Addr, Points
    <3>2. CASE at[o] # from /\ o \in Scanned(from)
      BY <3>2 DEF OldPointers
    <3>3. CASE at[o] # from /\ o \notin Scanned(from)
      BY <1>6, <3>3 DEF WaveSafe, Exists, Points
    <3> QED BY <3>1, <3>2, <3>3
  <2>3. ref'[o] = Update(ref[o], from, to)
    <3>1. CASE at[o] = from \/ o \in Scanned(from)
      BY <1>6, <3>1 DEF MoveObjects
    <3>2. CASE at[o] # from /\ o \notin Scanned(from)
      <4>1. ref'[o] = ref[o]
        BY <1>6, <3>2 DEF MoveObjects
      <4>2. ref[o] = Nil \/ ref[o].sp # from
        BY <1>6, <3>2 DEF WaveSafe, Exists
      <4> QED BY <4>1, <4>2 DEF Update, Forward
    <3> QED BY <3>1, <3>2
  <2>4. Lands(Update(ref[o], from, to))
    <3>1. CASE ref[o] = Nil
      BY <3>1 DEF Lands, Update
    <3>2. CASE ref[o] # Nil
      <4>1. ref[o].sp = from => ref[o].obj \in moved
        BY <2>2, <3>2 DEF Points
      <4> QED BY <1>1, <1>2, <1>3, <3>2, <4>1, PointerFollows
    <3> QED BY <3>1, <3>2
  <2> QED BY <1>6, <2>1, <2>3, <2>4 DEF Object
<1> QED BY <1>4, <1>5, <1>6

(* What a wave preserves of the pointers outside objects, and their types.  *)
OutsideFollows ==
    /\ \A r \in Roots : root'[r] \in Addr \cup {Nil} /\ Lands(root'[r])
    /\ \A w \in Weaks : weak'[w] \in [at : Spaces, target : Addr \cup {Nil}]
                        /\ Lands(weak'[w].target)
    /\ registry' \subseteq Entry /\ resurrected' \subseteq Pair /\ pending' \subseteq Pair
    /\ \A p \in registry' \cup resurrected' \cup pending' : Lands(Pointer(p))
    /\ calls' \in Seq(FrameType)
    /\ Len(calls') = Len(calls)
    /\ \A i \in 1..Len(calls) :
          calls'[i].pc = calls[i].pc /\ \A p \in calls'[i].list : Lands(Pointer(p))

(* Weak pointers are updated or cleared.                                    *)
LEMMA WeakFollow ==
    ASSUME TypeOK, ValidInv, NEW from \in Spaces, NEW to \in Spaces, from # to,
           NEW moved \in SUBSET Objs, MoveObjects(from, to, moved),
           NEW forwarded \in SUBSET moved, MoveWeak(from, to, forwarded),
           NEW w \in Weaks
    PROVE  weak'[w] \in [at : Spaces, target : Addr \cup {Nil}] /\ Lands(weak'[w].target)
<1> DEFINE t == weak[w].target
           u == IF Points(t, from) /\ t.obj \notin forwarded THEN Nil ELSE Update(t, from, to)
<1>1. weak[w].at \in Spaces /\ t \in Addr \cup {Nil} /\ Valid(t)
  BY DEF TypeOK, ValidInv
<1>2. weak'[w] = [at |-> IF weak[w].at = from THEN to ELSE weak[w].at, target |-> u]
  BY DEF MoveWeak
<1>3. u \in Addr \cup {Nil} /\ Lands(u)
  <2>1. CASE t = Nil \/ (Points(t, from) /\ t.obj \notin forwarded)
    BY <2>1 DEF Update, Lands
  <2>2. CASE t # Nil /\ ~(Points(t, from) /\ t.obj \notin forwarded)
    <3>1. t.sp = from => t.obj \in moved
      BY <2>2 DEF Points
    <3> QED BY <1>1, <2>2, <3>1, PointerFollows
  <2> QED BY <2>1, <2>2
<1> HIDE DEF u
<1> QED BY <1>1, <1>2, <1>3

(* A pair of a list that is a root.                                         *)
LEMMA PairFollows ==
    ASSUME TypeOK, NEW from \in Spaces, NEW to \in Spaces, from # to,
           NEW moved \in SUBSET Objs, MoveObjects(from, to, moved),
           NEW p \in Pair, Valid(Pointer(p)), p.sp = from => p.obj \in moved
    PROVE  Forward(p, from, to) \in Pair /\ Lands(Pointer(Forward(p, from, to)))
<1> DEFINE q == Forward(p, from, to)
<1>1. q \in Pair /\ q.obj = p.obj /\ q.sp = IF p.sp = from THEN to ELSE p.sp
  BY ForwardTypes
<1>2. Lands(Update(Pointer(p), from, to))
  BY PointerTypes, PointerFollows
<1>3. /\ Update(Pointer(p), from, to) = Forward(Pointer(p), from, to)
      /\ Forward(Pointer(p), from, to).obj = p.obj
      /\ Forward(Pointer(p), from, to).sp = IF p.sp = from THEN to ELSE p.sp
      /\ Forward(Pointer(p), from, to) # Nil
  BY PointerTypes, ForwardTypes, CopyAssumption DEF Update
<1> HIDE DEF q
<1>4. Pointer(q) # Nil /\ Pointer(q).obj = q.obj /\ Pointer(q).sp = q.sp
  BY <1>1, PointerTypes
<1>5. Lands(Pointer(q))
  BY <1>1, <1>2, <1>3, <1>4 DEF Lands
<1> QED BY <1>1, <1>5 DEF q

(* An entry of FINALIZATION_REGISTRY.                                       *)
LEMMA EntryFollows ==
    ASSUME TypeOK, NEW from \in Spaces, NEW to \in Spaces, from # to,
           NEW moved \in SUBSET Objs, MoveObjects(from, to, moved),
           NEW e \in Entry, Valid(Pointer(e)), e.sp = from => e.obj \in moved
    PROVE  /\ Cell(Forward(e, from, to), from, to) \in Entry
           /\ Lands(Pointer(Cell(Forward(e, from, to), from, to)))
<1> DEFINE q == Cell(Forward(e, from, to), from, to)
<1>1. q \in Entry /\ q.obj = e.obj /\ q.sp = IF e.sp = from THEN to ELSE e.sp
  BY ForwardTypes
<1>2. Lands(Update(Pointer(e), from, to))
  BY PointerTypes, PointerFollows
<1>3. /\ Update(Pointer(e), from, to) = Forward(Pointer(e), from, to)
      /\ Forward(Pointer(e), from, to).obj = e.obj
      /\ Forward(Pointer(e), from, to).sp = IF e.sp = from THEN to ELSE e.sp
      /\ Forward(Pointer(e), from, to) # Nil
  BY PointerTypes, ForwardTypes, CopyAssumption DEF Update
<1> HIDE DEF q
<1>4. Pointer(q) # Nil /\ Pointer(q).obj = q.obj /\ Pointer(q).sp = q.sp
  BY <1>1, PointerTypes
<1>5. Lands(Pointer(q))
  BY <1>1, <1>2, <1>3, <1>4 DEF Lands
<1> QED BY <1>1, <1>5 DEF q

(* The lists.                                                               *)
LEMMA ListsFollow ==
    ASSUME TypeOK, ValidInv, NEW from, NEW to, WaveSafe(from, to),
           NEW moved \in SUBSET Objs, MoveObjects(from, to, moved),
           NEW died \in SUBSET registry, MoveLists(from, to, died),
           \A e \in registry : e.sp = from => e.obj \in moved,
           \A p \in RootPairs : p.sp = from => p.obj \in moved
    PROVE  /\ registry' \subseteq Entry /\ resurrected' \subseteq Pair /\ pending' \subseteq Pair
           /\ \A p \in registry' \cup resurrected' \cup pending' : Lands(Pointer(p))
           /\ calls' \in Seq(FrameType)
           /\ Len(calls') = Len(calls)
           /\ \A i \in 1..Len(calls) :
                 calls'[i].pc = calls[i].pc /\ \A p \in calls'[i].list : Lands(Pointer(p))
<1>1. from \in Spaces /\ to \in Spaces /\ from # to
  BY DEF WaveSafe
<1>2. /\ registry \subseteq Entry /\ resurrected \subseteq Pair /\ pending \subseteq Pair
      /\ \A p \in registry \cup resurrected \cup pending : Valid(Pointer(p))
      /\ calls \in Seq(FrameType)
      /\ \A i \in DOMAIN calls : \A p \in calls[i].list : Valid(Pointer(p))
  BY DEF TypeOK, ValidInv, FrameType
<1>3. /\ Len(calls) \in Nat /\ DOMAIN calls = 1..Len(calls)
      /\ \A i \in 1..Len(calls) : /\ calls[i] \in FrameType
                                  /\ calls[i].list \subseteq Pair
                                  /\ calls[i].list \subseteq RootPairs
                                  /\ calls[i].pc \in Finalizing
  <2>1. Len(calls) \in Nat /\ DOMAIN calls = 1..Len(calls)
    BY <1>2
  <2>2. \A i \in 1..Len(calls) : calls[i] \in FrameType /\ calls[i].pc \in Finalizing
    BY <1>2, <2>1 DEF WaveSafe
  <2> QED BY <2>1, <2>2 DEF FrameType, RootPairs
<1>4. \A list \in SUBSET RootPairs :
        list \subseteq Pair /\ (\A p \in list : Valid(Pointer(p))) =>
            /\ ForwardAll(list, from, to) \subseteq Pair
            /\ \A q \in ForwardAll(list, from, to) : Lands(Pointer(q))
  BY <1>1, PairFollows DEF ForwardAll
<1>5. registry' \subseteq Entry /\ \A q \in registry' : Lands(Pointer(q))
  BY <1>1, <1>2, EntryFollows DEF MoveLists
<1>6. pending' \subseteq Pair /\ \A q \in pending' : Lands(Pointer(q))
  BY <1>2, <1>4 DEF MoveLists, RootPairs
<1>7. resurrected' \subseteq Pair /\ \A q \in resurrected' : Lands(Pointer(q))
  <2> DEFINE new == {[id |-> e.id, obj |-> e.obj, sp |-> e.sp] : e \in died}
  <2>1. ASSUME NEW e \in died
        PROVE  LET p == [id |-> e.id, obj |-> e.obj, sp |-> e.sp]
               IN  p \in Pair /\ Valid(Pointer(p)) /\ (p.sp = from => p.obj \in moved)
    <3>1. e \in Entry /\ Valid(Pointer(e)) /\ (e.sp = from => e.obj \in moved)
      BY <1>2, <2>1
    <3> QED BY <3>1 DEF Entry, Pair, Pointer
  <2>2. ForwardAll(new, from, to) \subseteq Pair
        /\ \A q \in ForwardAll(new, from, to) : Lands(Pointer(q))
    <3>1. \A p \in new : p \in Pair /\ Valid(Pointer(p)) /\ (p.sp = from => p.obj \in moved)
      BY <2>1
    <3> HIDE DEF new
    <3> QED BY <1>1, <3>1, PairFollows DEF ForwardAll
  <2>3. ForwardAll(resurrected, from, to) \subseteq Pair
        /\ \A q \in ForwardAll(resurrected, from, to) : Lands(Pointer(q))
    BY <1>2, <1>4 DEF RootPairs
  <2>4. resurrected' = ForwardAll(resurrected, from, to) \cup ForwardAll(new, from, to)
    BY DEF MoveLists
  <2> QED BY <2>2, <2>3, <2>4
<1>8. ASSUME NEW i \in 1..Len(calls)
      PROVE  LET f == Frame(calls[i].pc, ForwardAll(calls[i].list, from, to))
             IN  f \in FrameType /\ f.pc = calls[i].pc /\ \A p \in f.list : Lands(Pointer(p))
  <2>1. calls[i] \in FrameType /\ calls[i].list \subseteq Pair /\ calls[i].list \subseteq RootPairs
        /\ \A p \in calls[i].list : Valid(Pointer(p))
    BY <1>2, <1>3
  <2>2. ForwardAll(calls[i].list, from, to) \subseteq Pair
        /\ \A q \in ForwardAll(calls[i].list, from, to) : Lands(Pointer(q))
    BY <1>4, <2>1
  <2> QED BY <2>1, <2>2 DEF Frame, FrameType
<1>9. calls' = [i \in 1..Len(calls) |-> Frame(calls[i].pc, ForwardAll(calls[i].list, from, to))]
  BY <1>3 DEF MoveLists
<1>10. calls' \in [1..Len(calls) -> FrameType]
  BY <1>8, <1>9
<1>11. calls' \in Seq(FrameType) /\ Len(calls') = Len(calls)
  BY <1>3, <1>10, SeqDef
<1> QED BY <1>5, <1>6, <1>7, <1>8, <1>9, <1>11

(* All of a wave.                                                           *)
LEMMA WaveFollows ==
    ASSUME TypeOK, ValidInv, NEW from, NEW to, WaveSafe(from, to), Promote(from, to)
    PROVE  /\ \A o \in Objs : Object(o, from, to)
           /\ OutsideFollows
           /\ kind' \in [Objs -> {"free", "cons", "code"}]
           /\ at' \in [Objs -> Spaces]
           /\ ref' \in [Objs -> Addr \cup {Nil}]
           /\ root' \in [Roots -> Addr \cup {Nil}]
           /\ weak' \in [Weaks -> [at : Spaces, target : Addr \cup {Nil}]]
<1>1. PICK kept \in KeptByOlder(from) :
        LET live == Live(from, kept)
            dead == {e \in registry : e.sp = from /\ e.obj \notin live}
        IN  \E died \in SUBSET dead :
              LET forwarded == live \cup {e.obj : e \in died}
              IN  /\ \A e \in dead : \E d \in died : d.obj = e.obj
                  /\ MoveObjects(from, to, Promoted(forwarded, from))
                  /\ MoveWeak(from, to, forwarded)
                  /\ MoveLists(from, to, died)
                  /\ root' = [r \in Roots |-> Update(root[r], from, to)]
  BY DEF Promote
<1> DEFINE live == Live(from, kept)
           dead == {e \in registry : e.sp = from /\ e.obj \notin live}
<1>2. PICK died \in SUBSET dead :
        LET forwarded == live \cup {e.obj : e \in died}
        IN  /\ \A e \in dead : \E d \in died : d.obj = e.obj
            /\ MoveObjects(from, to, Promoted(forwarded, from))
            /\ MoveWeak(from, to, forwarded)
            /\ MoveLists(from, to, died)
            /\ root' = [r \in Roots |-> Update(root[r], from, to)]
  BY <1>1
<1> DEFINE forwarded == live \cup {e.obj : e \in died}
           moved == Promoted(forwarded, from)
<1>3. from \in Spaces /\ to \in Spaces /\ from # to
  BY DEF WaveSafe
<1>4. forwarded \subseteq Objs
  <2>1. live \subseteq Objs
    BY DEF Live, Promoted
  <2>2. \A e \in died : e.obj \in Objs
    BY DEF TypeOK, Entry
  <2> QED BY <2>1, <2>2
<1>5. forwarded \subseteq moved /\ moved \subseteq Objs
  <2> HIDE DEF forwarded
  <2> QED BY <1>4, PromotedContains
<1>6. \A a \in Strong(from, kept) : a \in Addr \cup {Nil} /\ Points(a, from) => a.obj \in live
  <2> DEFINE start == {a.obj : a \in {b \in Strong(from, kept) : Points(b, from)}}
  <2>1. start \cap Objs \subseteq live
    BY DEF Live, Promoted
  <2>2. ASSUME NEW a \in Strong(from, kept), a \in Addr, Points(a, from)
        PROVE  a.obj \in start \cap Objs
    BY <2>2 DEF Addr
  <2> QED BY <2>1, <2>2 DEF Points
<1>7. \A a \in OldPointers(from) : a \in Addr \cup {Nil}
  BY PointerTypes DEF OldPointers, TypeOK, Scanned
<1>8. \A a \in OldPointers(from) : Points(a, from) => a.obj \in moved
  BY <1>5, <1>6, <1>7 DEF Strong
<1>9. \A o \in Objs : Object(o, from, to)
  <2> HIDE DEF forwarded
  <2> QED BY <1>2, <1>4, <1>8, ObjectsFollow DEF forwarded
<1>10. ASSUME NEW r \in Roots
       PROVE  root'[r] \in Addr \cup {Nil} /\ Lands(root'[r])
  <2>1. root'[r] = Update(root[r], from, to) /\ root[r] \in Addr \cup {Nil} /\ Valid(root[r])
    BY <1>2 DEF TypeOK, ValidInv
  <2>2. CASE root[r] = Nil
    BY <2>1, <2>2 DEF Update, Lands
  <2>3. CASE root[r] # Nil
    <3>1. root[r].sp = from => root[r].obj \in moved
      BY <1>5, <1>6, <2>1, <2>3 DEF Strong, RootPointers, Points
    <3>2. MoveObjects(from, to, moved)
      BY <1>2
    <3> HIDE DEF moved
    <3> QED BY <1>3, <1>5, <2>1, <2>3, <3>1, <3>2, PointerFollows
  <2> QED BY <2>2, <2>3
<1>11. ASSUME NEW w \in Weaks
       PROVE  weak'[w] \in [at : Spaces, target : Addr \cup {Nil}] /\ Lands(weak'[w].target)
  <2>1. MoveObjects(from, to, moved) /\ MoveWeak(from, to, forwarded)
    BY <1>2
  <2> HIDE DEF moved, forwarded
  <2> QED BY <1>3, <1>5, <2>1, WeakFollow
<1>12. \A e \in registry : e.sp = from => e.obj \in moved
  BY <1>2, <1>5
<1>13. \A p \in RootPairs : p.sp = from => p.obj \in moved
  <2>1. calls \in Seq(FrameType) /\ resurrected \subseteq Pair /\ pending \subseteq Pair
    BY DEF TypeOK, FrameType
  <2>2. ASSUME NEW i \in DOMAIN calls
        PROVE  calls[i].list \subseteq Pair
    <3>1. calls[i] \in FrameType
      BY <2>1
    <3> QED BY <3>1 DEF FrameType
  <2>3. RootPairs \subseteq Pair
    BY <2>1, <2>2 DEF RootPairs
  <2>4. ASSUME NEW p \in RootPairs, p.sp = from
        PROVE  p.obj \in moved
    <3>1. Pointer(p) \in Addr /\ Pointer(p) # Nil /\ Pointer(p).obj = p.obj /\ Pointer(p).sp = p.sp
      BY <2>3, PointerTypes
    <3>2. Pointer(p) \in Strong(from, kept) /\ Points(Pointer(p), from)
      BY <2>4, <3>1 DEF Strong, RootPointers, Points
    <3> HIDE DEF live, forwarded, moved
    <3>3. p.obj \in live
      BY <1>6, <3>1, <3>2
    <3> QED BY <1>5, <3>3 DEF forwarded
  <2> QED BY <2>4
<1>14. /\ registry' \subseteq Entry /\ resurrected' \subseteq Pair /\ pending' \subseteq Pair
       /\ \A p \in registry' \cup resurrected' \cup pending' : Lands(Pointer(p))
       /\ calls' \in Seq(FrameType)
       /\ Len(calls') = Len(calls)
       /\ \A i \in 1..Len(calls) :
             calls'[i].pc = calls[i].pc /\ \A p \in calls'[i].list : Lands(Pointer(p))
  <2>1. MoveObjects(from, to, moved) /\ MoveLists(from, to, died) /\ died \in SUBSET registry
    BY <1>2
  <2> HIDE DEF moved
  <2> QED BY <1>5, <1>12, <1>13, <2>1, ListsFollow
<1>15. OutsideFollows
  BY <1>10, <1>11, <1>14 DEF OutsideFollows
<1>16. kind' \in [Objs -> {"free", "cons", "code"}] /\ at' \in [Objs -> Spaces]
  <2>1. MoveObjects(from, to, moved)
    BY <1>2
  <2> HIDE DEF moved
  <2> QED BY <1>3, <2>1 DEF MoveObjects, TypeOK, Spaces
<1>17. ref' \in [Objs -> Addr \cup {Nil}]
  <2>1. MoveObjects(from, to, moved)
    BY <1>2
  <2> HIDE DEF moved
  <2>2. \A o \in Objs : ref[o] \in Addr \cup {Nil} /\ Update(ref[o], from, to) \in Addr \cup {Nil}
    BY <1>3, ForwardTypes DEF TypeOK, Update
  <2> QED BY <2>1, <2>2 DEF MoveObjects
<1>18. root' \in [Roots -> Addr \cup {Nil}]
  BY <1>2, <1>10
<1>19. weak' \in [Weaks -> [at : Spaces, target : Addr \cup {Nil}]]
  <2>1. MoveWeak(from, to, forwarded)
    BY <1>2
  <2> HIDE DEF forwarded
  <2> QED BY <1>11, <2>1 DEF MoveWeak
<1> QED BY <1>9, <1>15, <1>16, <1>17, <1>18, <1>19

(***************************************************************************)
(* PointersInv is inductive: the waves.                                    *)
(***************************************************************************)
(* Elements of the sequence of calls.                                       *)
LEMMA Frames ==
    ASSUME TypeOK
    PROVE  /\ calls \in Seq(FrameType)
           /\ Len(calls) \in Nat /\ DOMAIN calls = 1..Len(calls)
           /\ \A i \in 1..Len(calls) : calls[i] \in FrameType /\ calls[i].list \subseteq Pair
           /\ calls # <<>> => Len(calls) \in 1..Len(calls)
<1>1. calls \in Seq(FrameType)
  BY DEF TypeOK, FrameType
<1>2. Len(calls) \in Nat /\ DOMAIN calls = 1..Len(calls)
  BY <1>1
<1>3. \A i \in 1..Len(calls) : calls[i] \in FrameType
  BY <1>1
<1>4. \A i \in 1..Len(calls) : calls[i].list \subseteq Pair
  BY <1>3 DEF FrameType
<1>5. calls # <<>> => Len(calls) \in 1..Len(calls)
  BY <1>1, <1>2
<1> QED BY <1>1, <1>2, <1>3, <1>4, <1>5

(* A wave leaves valid pointers, and frames that do what they did.          *)
LEMMA WaveValid ==
    ASSUME TypeOK, ValidInv, NEW from, NEW to, WaveSafe(from, to), Promote(from, to)
    PROVE  /\ ValidInv'
           /\ (\A i \in DOMAIN calls : calls[i].pc = "finalizer")
                 => \A i \in DOMAIN calls' : calls'[i].pc = "finalizer"
<1>1. \A o \in Objs : Valid(ref[o])' /\ (~Exists(o) => ref[o] = Nil)'
  BY WaveFollows DEF Object, Lands, Valid, Exists
<1>2. \A r \in Roots : Valid(root[r])'
  BY WaveFollows DEF OutsideFollows, Lands, Valid
<1>3. \A w \in Weaks : Valid(weak[w].target)'
  BY WaveFollows DEF OutsideFollows, Lands, Valid
<1>4. \A p \in (registry \cup resurrected \cup pending)' : Valid(Pointer(p))'
  BY WaveFollows DEF OutsideFollows, Lands, Valid, Pointer
<1>5. /\ DOMAIN calls' = 1..Len(calls) /\ DOMAIN calls = 1..Len(calls)
      /\ \A i \in 1..Len(calls) : calls'[i].pc = calls[i].pc
  <2>1. calls' \in Seq(FrameType) /\ Len(calls') = Len(calls)
        /\ \A i \in 1..Len(calls) : calls'[i].pc = calls[i].pc
    BY WaveFollows DEF OutsideFollows
  <2>2. DOMAIN calls' = 1..Len(calls')
    BY <2>1
  <2> QED BY <2>1, <2>2, Frames
<1>6. \A i \in DOMAIN calls' : \A p \in calls'[i].list : Valid(Pointer(p))'
  BY <1>5, WaveFollows DEF OutsideFollows, Lands, Valid, Pointer
<1> QED BY <1>1, <1>2, <1>3, <1>4, <1>5, <1>6 DEF ValidInv

(* The types after a wave.                                                  *)
LEMMA WaveTypes ==
    ASSUME TypeOK, ValidInv, NEW from, NEW to, WaveSafe(from, to), Promote(from, to),
           protected' \subseteq Objs, L1' \in {"A", "B"},
           phase' \in {"wave2", "wave3", "protect"}, level' \in 0..3
    PROVE  TypeOK'
<1>1. /\ kind' \in [Objs -> {"free", "cons", "code"}]
      /\ at' \in [Objs -> Spaces]
      /\ ref' \in [Objs -> Addr \cup {Nil}]
      /\ root' \in [Roots -> Addr \cup {Nil}]
      /\ weak' \in [Weaks -> [at : Spaces, target : Addr \cup {Nil}]]
  BY WaveFollows
<1>2. /\ registry' \subseteq Entry /\ resurrected' \subseteq Pair /\ pending' \subseteq Pair
      /\ calls' \in Seq(FrameType)
  BY WaveFollows DEF OutsideFollows
<1> QED BY <1>1, <1>2 DEF TypeOK, FrameType

(* Where the objects and the pointers are.                                  *)
LEMMA Places ==
    ASSUME TypeOK, PhaseInv, ValidInv
    PROVE  /\ L1 \in {"A", "B"} /\ L1 \in Spaces /\ L1 \notin {"E1", "E2"}
           /\ \A o \in Objs : /\ kind[o] \in {"free", "cons", "code"}
                              /\ ref[o] \in Addr \cup {Nil}
                              /\ ref[o] # Nil => /\ ref[o].obj \in Objs
                                                 /\ Exists(ref[o].obj)
                                                 /\ ref[o].sp = at[ref[o].obj]
                              /\ Exists(o) => at[o] \in {"E1", "E2", L1}
                              /\ PointsTo(ref[o], {"E1", "E2", L1})
<1>1. L1 \in {"A", "B"}
  BY DEF TypeOK
<1>2. ASSUME NEW o \in Objs
      PROVE  /\ kind[o] \in {"free", "cons", "code"}
             /\ ref[o] \in Addr \cup {Nil}
             /\ ref[o] # Nil => ref[o].obj \in Objs /\ Exists(ref[o].obj) /\ ref[o].sp = at[ref[o].obj]
             /\ Exists(o) => at[o] \in {"E1", "E2", L1}
  BY DEF TypeOK, PhaseInv, ValidInv, Valid, Exists, Addr
<1> QED BY <1>1, <1>2 DEF PointsTo, Spaces

(* A pointer that checkWeakPointers keeps points to the to-space when it   *)
(* pointed to the from-space.                                              *)
LEMMA UpdateSpace ==
    ASSUME NEW from \in Spaces, NEW to \in Spaces, NEW a \in Addr \cup {Nil}
    PROVE  Update(a, from, to) # Nil => /\ a # Nil
                                        /\ Update(a, from, to).sp = IF a.sp = from THEN to ELSE a.sp
BY ForwardTypes DEF Update

(* What each of the three waves relies on.                                  *)
LEMMA Wave1Safe ==
    ASSUME PointersInv, Wave1
    PROVE  WaveSafe("E1", "E2")
<1> USE DEF PointersInv
<1>1. \A i \in DOMAIN calls : calls[i].pc \in Finalizing
  BY DEF Wave1, PhaseInv, Finalizing
<1>2. ASSUME NEW o \in Objs, Exists(o), at[o] # "E1", o \notin Scanned("E1")
      PROVE  ref[o] = Nil \/ ref[o].sp # "E1"
  <2>1. at[o] \in {"E2", L1} /\ Older("E1") = {"E2", L1}
    BY <1>2, Places DEF Older
  <2>2. kind[o] = "code" \/ o \in protected
    BY <1>2, <2>1, Places DEF Scanned, Exists
  <2> QED BY <2>1, <2>2, Places DEF AgeInv, PointsTo
<1> QED BY <1>1, <1>2 DEF WaveSafe, Spaces

LEMMA Wave2Safe ==
    ASSUME PointersInv, Wave2
    PROVE  WaveSafe("E2", L1)
<1> USE DEF PointersInv
<1>1. \A i \in DOMAIN calls : calls[i].pc \in Finalizing
  BY DEF Wave2, PhaseInv, Finalizing
<1>2. ASSUME NEW o \in Objs, Exists(o), at[o] # "E2", o \notin Scanned("E2")
      PROVE  ref[o] = Nil \/ ref[o].sp # "E2"
  <2>1. at[o] = L1 /\ Older("E2") = {L1}
    BY <1>2, Places DEF Wave2, Older, PhaseInv
  <2>2. kind[o] = "code"
    BY <1>2, <2>1, Places DEF Scanned, Exists
  <2> QED BY <2>1, <2>2, Places DEF AgeInv, PointsTo
<1> QED BY <1>1, <1>2, Places DEF WaveSafe, Spaces

LEMMA Wave3Safe ==
    ASSUME PointersInv, Wave3
    PROVE  WaveSafe(L1, L1')
<1> USE DEF PointersInv
<1>1. phase = "wave3" /\ protected = {} /\ L1' \in {"A", "B"} /\ L1' # L1
  BY DEF Wave3, TypeOK, PhaseInv
<1> QED BY <1>1, Places DEF WaveSafe, Spaces, PhaseInv, Finalizing

(* E1 into E2.                                                              *)
LEMMA Wave1Inductive ==
    ASSUME PointersInv, Wave1
    PROVE  PointersInv'
<1> USE DEF PointersInv
<1>1. Promote("E1", "E2") /\ phase = "wave1" /\ UNCHANGED <<protected, L1, level>>
      /\ phase' \in {"wave2", "protect"} /\ (phase' = "protect" => level' = 0)
  BY DEF Wave1, TypeOK
<1>2. WaveSafe("E1", "E2")
  BY Wave1Safe
<1>3. \A o \in Objs : Object(o, "E1", "E2")
  BY <1>1, <1>2, WaveFollows
<1>4. TypeOK'
  <2>1. protected' \subseteq Objs /\ L1' \in {"A", "B"} /\ level' \in 0..3
        /\ phase' \in {"wave2", "wave3", "protect"}
    BY <1>1 DEF TypeOK
  <2> QED BY <1>1, <1>2, <2>1, WaveTypes
<1>5. ValidInv' /\ \A i \in DOMAIN calls' : calls'[i].pc = "finalizer"
  BY <1>1, <1>2, WaveValid DEF PhaseInv
<1>6. \A o \in Objs : kind'[o] # "free" => at'[o] \in {"E2", L1}
  BY <1>3, Places DEF Object, Exists
<1>7. PhaseInv'
  BY <1>1, <1>5, <1>6, Places DEF PhaseInv, Exists
<1>8. ASSUME NEW o \in Objs, kind'[o] # "free"
      PROVE  /\ kind[o] = kind'[o] /\ at'[o] = IF at[o] = "E1" THEN "E2" ELSE at[o]
             /\ ref'[o] # Nil => ref[o] # Nil /\ ref'[o].sp = IF ref[o].sp = "E1" THEN "E2" ELSE ref[o].sp
  <2>1. ref'[o] = Update(ref[o], "E1", "E2")
    BY <1>3, <1>8 DEF Object
  <2> QED BY <1>3, <1>8, <2>1, UpdateSpace, Places DEF Object, Spaces
<1>9. AgeInv'
  <2>1. ASSUME NEW o \in Objs, kind'[o] = "code"
        PROVE  /\ at'[o] = "E2" => PointsTo(ref'[o], {"E2", L1})
               /\ at'[o] = L1 => PointsTo(ref'[o], {L1})
    BY <1>8, <2>1, Places DEF AgeInv, PointsTo
  <2>2. ASSUME NEW o \in protected
        PROVE  kind'[o] # "free" /\ at'[o] = L1 /\ PointsTo(ref'[o], {L1})
    <3>1. o \in Objs /\ kind[o] # "free" /\ at[o] = L1 /\ PointsTo(ref[o], {L1})
      BY DEF AgeInv, Exists, TypeOK
    <3>2. kind'[o] # "free"
      BY <1>3, <3>1, Places DEF Object
    <3> QED BY <1>8, <3>1, <3>2, Places DEF PointsTo
  <2> QED BY <1>1, <2>1, <2>2 DEF AgeInv, PointsTo, Exists
<1> QED BY <1>4, <1>5, <1>7, <1>9

(* E2 into L1.                                                              *)
LEMMA Wave2Inductive ==
    ASSUME PointersInv, Wave2
    PROVE  PointersInv'
<1> USE DEF PointersInv
<1>1. Promote("E2", L1) /\ phase = "wave2" /\ L1' = L1 /\ protected' = {}
      /\ phase' \in {"wave3", "protect"} /\ level' \in 0..3
  BY DEF Wave2, TypeOK
<1>2. WaveSafe("E2", L1)
  BY Wave2Safe
<1>3. \A o \in Objs : Object(o, "E2", L1)
  BY <1>1, <1>2, WaveFollows
<1>4. TypeOK'
  <2>1. protected' \subseteq Objs /\ L1' \in {"A", "B"}
        /\ phase' \in {"wave2", "wave3", "protect"}
    BY <1>1 DEF TypeOK
  <2> QED BY <1>1, <1>2, <2>1, WaveTypes
<1>5. ValidInv' /\ \A i \in DOMAIN calls' : calls'[i].pc = "finalizer"
  BY <1>1, <1>2, WaveValid DEF PhaseInv
<1>6. \A o \in Objs : kind'[o] # "free" => at'[o] = L1
  BY <1>1, <1>3, Places DEF Object, Exists, PhaseInv
<1>7. PhaseInv'
  BY <1>1, <1>5, <1>6 DEF PhaseInv, Exists
<1>8. AgeInv'
  <2>1. ASSUME NEW o \in Objs, kind'[o] # "free"
        PROVE  PointsTo(ref'[o], {L1})
    <3>1. /\ Valid(ref[o])' /\ ref'[o] \in Addr \cup {Nil}
      BY <1>4, <1>5 DEF ValidInv, TypeOK
    <3> QED BY <1>6, <3>1 DEF PointsTo, Valid, Addr
  <2> QED BY <1>1, <1>6, <2>1, Places DEF AgeInv, PointsTo
<1> QED BY <1>4, <1>5, <1>7, <1>8

(* L1 into the other semispace.                                             *)
LEMMA Wave3Inductive ==
    ASSUME PointersInv, Wave3
    PROVE  PointersInv'
<1> USE DEF PointersInv
<1>1. Promote(L1, L1') /\ phase = "wave3" /\ protected' = protected /\ protected = {}
      /\ phase' \in {"wave3", "protect"} /\ level' \in 0..3
      /\ L1' \in {"A", "B"} /\ L1' # L1
  BY DEF Wave3, TypeOK, PhaseInv
<1>2. WaveSafe(L1, L1')
  BY Wave3Safe
<1>3. \A o \in Objs : Object(o, L1, L1')
  BY <1>1, <1>2, WaveFollows
<1>4. TypeOK'
  <2>1. protected' \subseteq Objs /\ phase' \in {"wave2", "wave3", "protect"}
    BY <1>1 DEF TypeOK
  <2> QED BY <1>1, <1>2, <2>1, WaveTypes
<1>5. ValidInv' /\ \A i \in DOMAIN calls' : calls'[i].pc = "finalizer"
  BY <1>1, <1>2, WaveValid DEF PhaseInv
<1>6. \A o \in Objs : kind'[o] # "free" => at'[o] = L1'
  BY <1>1, <1>3 DEF Object, Exists, PhaseInv
<1>7. PhaseInv'
  BY <1>1, <1>5, <1>6 DEF PhaseInv, Exists
<1>8. AgeInv'
  <2>1. ASSUME NEW o \in Objs, kind'[o] # "free"
        PROVE  PointsTo(ref'[o], {L1'})
    <3>1. /\ Valid(ref[o])' /\ ref'[o] \in Addr \cup {Nil}
      BY <1>4, <1>5 DEF ValidInv, TypeOK
    <3> QED BY <1>6, <3>1 DEF PointsTo, Valid, Addr
  <2> QED BY <1>1, <1>6, <2>1 DEF AgeInv, PointsTo
<1> QED BY <1>4, <1>5, <1>7, <1>8

(***************************************************************************)
(* PointersInv is inductive: what precedes and follows the waves.          *)
(***************************************************************************)
LEMMA ProtectInductive ==
    ASSUME PointersInv, Protect
    PROVE  PointersInv'
<1> USE DEF PointersInv
<1> DEFINE f == Frame("hooks", {})
<1>1. /\ phase = "protect" /\ phase' = "lisp" /\ level' = 0 /\ calls' = Append(calls, f)
      /\ protected' = IF level > 0 /\ HardwareAssist
                      THEN {o \in Objs : kind[o] # "free" /\ at[o] = L1} ELSE protected
      /\ UNCHANGED <<kind, at, ref, L1, root, weak, registry, resurrected, pending>>
  BY DEF Protect
<1>2. f \in FrameType /\ f.list = {}
  BY DEF Frame, FrameType
<1>3. /\ calls' \in Seq(FrameType) /\ Len(calls') = Len(calls) + 1
      /\ \A i \in 1..Len(calls) : calls'[i] = calls[i]
      /\ calls'[Len(calls) + 1] = f
      /\ DOMAIN calls' = 1..(Len(calls) + 1)
  <2> HIDE DEF f
  <2>1. /\ calls' \in Seq(FrameType) /\ Len(calls') = Len(calls) + 1
        /\ \A i \in 1..Len(calls) : calls'[i] = calls[i]
        /\ calls'[Len(calls) + 1] = f
    BY <1>1, <1>2, Frames, AppendProperties
  <2> QED BY <2>1
<1>4. TypeOK'
  <2>1. protected' \subseteq Objs
    BY <1>1 DEF TypeOK
  <2> QED BY <1>1, <1>3, <2>1 DEF TypeOK, FrameType
<1>5. PhaseInv'
  <2>1. \A i \in DOMAIN calls' : calls'[i].pc = "finalizer" \/ i = Len(calls')
    BY <1>1, <1>3, Frames DEF PhaseInv
  <2> HIDE DEF f
  <2> QED BY <1>1, <2>1 DEF PhaseInv, Exists
<1>6. AgeInv'
  <2>1. CASE level > 0 /\ HardwareAssist
    <3>1. \A o \in Objs : Exists(o) => at[o] = L1
      BY <1>1, <2>1 DEF PhaseInv
    <3>2. \A o \in Objs : PointsTo(ref[o], {L1})
      BY <3>1, Places DEF PointsTo
    <3> HIDE DEF f
    <3> QED BY <1>1, <2>1, <3>1, <3>2 DEF AgeInv, Exists, PointsTo
  <2>2. CASE ~(level > 0 /\ HardwareAssist)
    <3>1. protected' = protected
      BY <1>1, <2>2
    <3> HIDE DEF f
    <3> QED BY <1>1, <3>1 DEF AgeInv, Exists, PointsTo
  <2> QED BY <2>1, <2>2
<1>7. ValidInv'
  <2>1. \A i \in DOMAIN calls' : \A p \in calls'[i].list : Valid(Pointer(p))
    BY <1>2, <1>3, Frames DEF ValidInv
  <2> HIDE DEF f
  <2> QED BY <1>1, <2>1 DEF ValidInv, Valid, Exists, Pointer
<1> QED BY <1>4, <1>5, <1>6, <1>7

(* A call of garbageCollect keeps the invariant.                           *)
LEMMA GarbageCollectInductive ==
    ASSUME PointersInv, "hooks" \notin Ops, NEW lev \in 0..3, GarbageCollect(lev)
    PROVE  PointersInv'
<1> USE DEF PointersInv
<1>1. /\ calls = <<>> \/ Top.pc = "finalizer"
      /\ phase = "lisp" /\ phase' = "wave1" /\ level' = lev /\ resurrected' = {}
      /\ UNCHANGED <<L1, root, registry, pending, calls, kind, at, ref, protected, weak>>
  BY DEF GarbageCollect, LispRuns, Does, heap
<1>2. \A i \in DOMAIN calls : calls[i].pc = "finalizer"
  BY <1>1, Frames DEF PhaseInv, Top
<1>3. TypeOK'
  BY <1>1 DEF TypeOK
<1>4. PhaseInv'
  BY <1>1, <1>2 DEF PhaseInv, Exists
<1>5. AgeInv'
  BY <1>1 DEF AgeInv, Exists, PointsTo
<1>6. ValidInv'
  BY <1>1 DEF ValidInv, Valid, Exists, Pointer
<1> QED BY <1>3, <1>4, <1>5, <1>6

(* Steps that change neither the heap nor the phase: all but a wave and the *)
(* program's own stores.                                                    *)
LEMMA ListsChange ==
    ASSUME PointersInv, phase = "lisp", UNCHANGED <<heap, L1, phase, level>>,
           \A r \in Roots : root'[r] = root[r] \/ (root'[r] \in Addr \cup {Nil} /\ Valid(root'[r])),
           root' \in [Roots -> Addr \cup {Nil}],
           registry' \subseteq Entry, resurrected' \subseteq Pair, pending' \subseteq Pair,
           \A p \in registry' \cup resurrected' \cup pending' : Valid(Pointer(p)),
           calls' \in Seq(FrameType),
           \A i \in DOMAIN calls' : /\ calls'[i].pc = "finalizer" \/ i = Len(calls')
                                    /\ \A p \in calls'[i].list : Valid(Pointer(p))
    PROVE  PointersInv'
<1> USE DEF PointersInv
<1>1. /\ kind' = kind /\ at' = at /\ ref' = ref /\ protected' = protected /\ weak' = weak
      /\ L1' = L1 /\ phase' = phase /\ level' = level
  BY DEF heap
<1>2. TypeOK'
  BY <1>1 DEF TypeOK, FrameType
<1>3. PhaseInv'
  BY <1>1 DEF PhaseInv, Exists
<1>4. AgeInv'
  BY <1>1 DEF AgeInv, Exists, PointsTo
<1>5. ValidInv'
  BY <1>1 DEF ValidInv, Valid, Exists, Pointer
<1> QED BY <1>2, <1>3, <1>4, <1>5

(* The innermost call goes on with a list of valid pairs.                   *)
LEMMA FrameReplaced ==
    ASSUME PointersInv, phase = "lisp", calls # <<>>,
           NEW pc \in {"hooks", "finalize", "execute", "finalizer"},
           NEW list \in SUBSET Pair, \A p \in list : Valid(Pointer(p)),
           Replace(Frame(pc, list))
    PROVE  /\ calls' \in Seq(FrameType)
           /\ \A i \in DOMAIN calls' : /\ calls'[i].pc = "finalizer" \/ i = Len(calls')
                                       /\ \A p \in calls'[i].list : Valid(Pointer(p))
<1> USE DEF PointersInv
<1> DEFINE f == Frame(pc, list)
<1>1. f \in FrameType /\ f.pc = pc /\ f.list = list
  BY DEF Frame, FrameType
<1> HIDE DEF f
<1>2. calls' = [calls EXCEPT ![Len(calls)] = f]
  BY DEF Replace, f
<1>3. /\ calls' \in Seq(FrameType) /\ Len(calls') = Len(calls)
      /\ \A j \in 1..Len(calls) : calls'[j] = IF j = Len(calls) THEN f ELSE calls[j]
  BY <1>1, <1>2, Frames, ExceptSeq
<1>4. DOMAIN calls' = 1..Len(calls)
  BY <1>3
<1>5. \A i \in 1..Len(calls) : /\ calls[i].pc = "finalizer" \/ i = Len(calls)
                               /\ \A p \in calls[i].list : Valid(Pointer(p))
  BY Frames DEF PhaseInv, ValidInv
<1> QED BY <1>1, <1>3, <1>4, <1>5

(* The pairs and the entries that exist are typed and valid.                *)
LEMMA ListsNow ==
    ASSUME PointersInv
    PROVE  /\ root \in [Roots -> Addr \cup {Nil}] /\ \A r \in Roots : Valid(root[r])
           /\ registry \subseteq Entry /\ resurrected \subseteq Pair /\ pending \subseteq Pair
           /\ \A p \in registry \cup resurrected \cup pending : Valid(Pointer(p))
           /\ calls # <<>> => /\ Top.list \subseteq Pair
                              /\ \A p \in Top.list : Valid(Pointer(p))
                              /\ Top.pc \in {"hooks", "finalize", "execute", "finalizer"}
<1> USE DEF PointersInv
<1>1. /\ root \in [Roots -> Addr \cup {Nil}] /\ \A r \in Roots : Valid(root[r])
      /\ registry \subseteq Entry /\ resurrected \subseteq Pair /\ pending \subseteq Pair
      /\ \A p \in registry \cup resurrected \cup pending : Valid(Pointer(p))
  BY DEF TypeOK, ValidInv
<1>2. ASSUME calls # <<>>
      PROVE  /\ Top.list \subseteq Pair
             /\ \A p \in Top.list : Valid(Pointer(p))
             /\ Top.pc \in {"hooks", "finalize", "execute", "finalizer"}
  <2>1. Len(calls) \in DOMAIN calls /\ calls[Len(calls)] \in FrameType
    BY <1>2, Frames
  <2> QED BY <2>1 DEF Top, ValidInv, FrameType
<1> QED BY <1>1, <1>2

(* The functions called after a collection.                                 *)
LEMMA FinishInductive ==
    ASSUME PointersInv, Finish
    PROVE  PointersInv'
<1>1. CASE HooksReturn
  <2>1. phase = "lisp" /\ calls # <<>> /\ Replace(Frame("finalize", resurrected))
        /\ resurrected' = {} /\ UNCHANGED <<heap, L1, root, registry, pending, phase, level>>
    BY <1>1 DEF HooksReturn, Does
  <2>2. /\ calls' \in Seq(FrameType)
        /\ \A i \in DOMAIN calls' : /\ calls'[i].pc = "finalizer" \/ i = Len(calls')
                                    /\ \A p \in calls'[i].list : Valid(Pointer(p))
    BY <2>1, ListsNow, FrameReplaced
  <2> QED BY <2>1, <2>2, ListsNow, ListsChange
<1>2. CASE FinalizeNode
  <2>1. PICK p \in Top.list : /\ pending' = pending \cup {p}
                              /\ Replace(Frame("finalize", Top.list \ {p}))
    BY <1>2 DEF FinalizeNode
  <2>2. phase = "lisp" /\ calls # <<>>
        /\ UNCHANGED <<heap, L1, root, registry, resurrected, phase, level>>
    BY <1>2 DEF FinalizeNode, Does
  <2>3. /\ calls' \in Seq(FrameType)
        /\ \A i \in DOMAIN calls' : /\ calls'[i].pc = "finalizer" \/ i = Len(calls')
                                    /\ \A q \in calls'[i].list : Valid(Pointer(q))
    BY <2>1, <2>2, ListsNow, FrameReplaced
  <2>4. pending' \subseteq Pair /\ \A q \in pending' : Valid(Pointer(q))
    BY <2>1, <2>2, ListsNow
  <2> QED BY <2>2, <2>3, <2>4, ListsNow, ListsChange
<1>3. CASE ExecuteFinalizers
  <2>1. phase = "lisp" /\ calls # <<>> /\ Replace(Frame("execute", pending))
        /\ pending' = {} /\ UNCHANGED <<heap, L1, root, registry, resurrected, phase, level>>
    BY <1>3 DEF ExecuteFinalizers, Does
  <2>2. /\ calls' \in Seq(FrameType)
        /\ \A i \in DOMAIN calls' : /\ calls'[i].pc = "finalizer" \/ i = Len(calls')
                                    /\ \A p \in calls'[i].list : Valid(Pointer(p))
    BY <2>1, ListsNow, FrameReplaced
  <2> QED BY <2>1, <2>2, ListsNow, ListsChange
<1>4. CASE CallFinalizer
  <2>1. PICK p \in Top.list :
          /\ Replace(Frame("finalizer", Top.list \ {p}))
          /\ \/ UNCHANGED root
             \/ \E r \in Roots : root' = [root EXCEPT ![r] = Pointer(p)]
    BY <1>4 DEF CallFinalizer
  <2>2. phase = "lisp" /\ calls # <<>>
        /\ UNCHANGED <<heap, L1, registry, resurrected, pending, phase, level>>
    BY <1>4 DEF CallFinalizer, Does
  <2>3. /\ calls' \in Seq(FrameType)
        /\ \A i \in DOMAIN calls' : /\ calls'[i].pc = "finalizer" \/ i = Len(calls')
                                    /\ \A q \in calls'[i].list : Valid(Pointer(q))
    BY <2>1, <2>2, ListsNow, FrameReplaced
  <2>4. /\ root' \in [Roots -> Addr \cup {Nil}]
        /\ \A r \in Roots : root'[r] = root[r] \/ (root'[r] \in Addr \cup {Nil} /\ Valid(root'[r]))
    <3>1. Pointer(p) \in Addr /\ Valid(Pointer(p))
      BY <2>1, <2>2, ListsNow, PointerTypes
    <3> QED BY <2>1, <3>1, ListsNow
  <2> QED BY <2>2, <2>3, <2>4, ListsNow, ListsChange
<1>5. CASE GarbageCollectReturns
  <2>1. phase = "lisp" /\ calls # <<>> /\ calls' = SubSeq(calls, 1, Len(calls) - 1)
        /\ UNCHANGED <<heap, L1, root, registry, resurrected, pending, phase, level>>
    BY <1>5 DEF GarbageCollectReturns, Does
  <2>2. TypeOK /\ PhaseInv /\ ValidInv
    BY DEF PointersInv
  <2>3. Len(calls) \in Nat /\ Len(calls) >= 1
    BY <2>1, <2>2, Frames
  <2>4. /\ calls' \in Seq(FrameType) /\ Len(calls') = Len(calls) - 1
        /\ \A i \in 1..(Len(calls) - 1) : calls'[i] = calls[i]
    <3>1. \A i \in 1..(Len(calls) - 1) : calls[i] \in FrameType
      BY <2>2, <2>3, Frames
    <3> DEFINE n == Len(calls) - 1
    <3>2. n \in Nat /\ n - 1 + 1 = n
      BY <2>3
    <3>3. calls' = SubSeq(calls, 1, n) /\ \A i \in 1..n : calls[i] \in FrameType
      BY <2>1, <3>1
    <3> HIDE DEF n
    <3>4. /\ SubSeq(calls, 1, n) \in Seq(FrameType)
          /\ Len(SubSeq(calls, 1, n)) = IF 1 <= n THEN n - 1 + 1 ELSE 0
          /\ \A i \in 1..(n - 1 + 1) : SubSeq(calls, 1, n)[i] = calls[1 + i - 1]
      BY <3>2, <3>3, SubSeqProperties
    <3>5. Len(calls') = n
      BY <3>2, <3>3, <3>4
    <3>6. \A i \in 1..n : calls'[i] = calls[i]
      BY <3>2, <3>3, <3>4
    <3> QED BY <3>3, <3>4, <3>5, <3>6 DEF n
  <2>5. DOMAIN calls' = 1..(Len(calls) - 1)
    BY <2>4
  <2>6. \A i \in 1..(Len(calls) - 1) : /\ calls[i].pc = "finalizer"
                                       /\ \A p \in calls[i].list : Valid(Pointer(p))
    BY <2>2, <2>3, Frames DEF PhaseInv, ValidInv
  <2>7. \A i \in DOMAIN calls' : /\ calls'[i].pc = "finalizer" \/ i = Len(calls')
                                 /\ \A p \in calls'[i].list : Valid(Pointer(p))
    BY <2>4, <2>5, <2>6
  <2> QED BY <2>1, <2>4, <2>7, ListsNow, ListsChange
<1> QED BY <1>1, <1>2, <1>3, <1>4, <1>5 DEF Finish

(***************************************************************************)
(* PointersInv is inductive: the program.                                  *)
(***************************************************************************)
LEMMA ValuesValid ==
    ASSUME PointersInv
    PROVE  /\ \A v \in Values \cup Readable : v \in Addr \cup {Nil} /\ Valid(v)
           /\ \A r \in Roots : root[r] # Nil => /\ root[r] \in Addr /\ root[r].obj \in Objs
                                                /\ Exists(root[r].obj)
<1> USE DEF PointersInv
<1>1. \A r \in Roots : /\ root[r] \in Addr \cup {Nil} /\ Valid(root[r])
                       /\ root[r] # Nil => /\ root[r] \in Addr /\ root[r].obj \in Objs
                                           /\ Exists(root[r].obj)
  BY DEF TypeOK, ValidInv, Valid, Exists, Addr
<1>2. \A o \in Objs : ref[o] \in Addr \cup {Nil} /\ Valid(ref[o])
  BY DEF TypeOK, ValidInv
<1>3. \A w \in Weaks : weak[w].target \in Addr \cup {Nil} /\ Valid(weak[w].target)
  BY DEF TypeOK, ValidInv
<1>4. Valid(Nil)
  BY DEF Valid
<1> QED BY <1>1, <1>2, <1>3, <1>4 DEF Values, Readable

(* A new object: nothing points to it yet.                                  *)
LEMMA AllocInductive ==
    ASSUME PointersInv, NEW o \in Objs, NEW r \in Roots, NEW v \in Values,
           NEW k \in {"cons", "code"}, NEW sp,
           sp = "E1" \/ (sp = L1 /\ k = "cons"), Alloc(o, r, v, k, sp)
    PROVE  PointersInv'
<1> USE DEF PointersInv
<1> DEFINE a == [obj |-> o, sp |-> sp]
<1>1. /\ kind[o] = "free" /\ phase = "lisp"
      /\ kind' = [kind EXCEPT ![o] = k] /\ at' = [at EXCEPT ![o] = sp]
      /\ ref' = [ref EXCEPT ![o] = v] /\ root' = [root EXCEPT ![r] = a]
      /\ UNCHANGED <<protected, L1, weak, phase, level, registry, resurrected, pending, calls>>
  BY DEF Alloc, LispRuns, finalizers
<1>2. a \in Addr /\ a # Nil /\ a.obj = o /\ a.sp = sp
  BY CopyAssumption, Places DEF Addr, Spaces
<1> HIDE DEF a
<1>3. /\ kind \in [Objs -> {"free", "cons", "code"}] /\ at \in [Objs -> Spaces]
      /\ ref \in [Objs -> Addr \cup {Nil}] /\ root \in [Roots -> Addr \cup {Nil}]
  BY DEF TypeOK
<1>4. sp \in Spaces /\ v \in Addr \cup {Nil} /\ Valid(v)
  BY Places, ValuesValid DEF Spaces
<1>5. kind'[o] = k /\ at'[o] = sp /\ ref'[o] = v /\ k # "free"
      /\ \A p \in Objs : p # o => kind'[p] = kind[p] /\ at'[p] = at[p] /\ ref'[p] = ref[p]
  BY <1>1, <1>3
<1>6. \A b \in Addr \cup {Nil} : Valid(b) => Lands(b)
  BY <1>1, <1>5, CopyAssumption DEF Valid, Lands, Addr
<1>7. TypeOK'
  <2>1. kind' \in [Objs -> {"free", "cons", "code"}] /\ at' \in [Objs -> Spaces]
        /\ ref' \in [Objs -> Addr \cup {Nil}] /\ root' \in [Roots -> Addr \cup {Nil}]
    BY <1>1, <1>2, <1>3, <1>4
  <2> QED BY <1>1, <2>1 DEF TypeOK
<1>8. PhaseInv'
  <2>1. \A p \in Objs : kind'[p] # "free" => at'[p] \in {"E1", "E2", L1}
    BY <1>5 DEF PhaseInv, Exists
  <2> QED BY <1>1, <2>1 DEF PhaseInv, Exists
<1>9. AgeInv'
  <2>1. ASSUME NEW p \in Objs, kind'[p] = "code"
        PROVE  /\ at'[p] = "E2" => PointsTo(ref'[p], {"E2", L1})
               /\ at'[p] = L1 => PointsTo(ref'[p], {L1})
    <3>1. CASE p = o
      BY <1>5, <2>1, <3>1, Places
    <3>2. CASE p # o
      BY <1>5, <2>1, <3>2 DEF AgeInv
    <3> QED BY <3>1, <3>2
  <2>2. ASSUME NEW p \in protected
        PROVE  kind'[p] # "free" /\ at'[p] = L1 /\ PointsTo(ref'[p], {L1})
    <3>1. p \in Objs /\ p # o
      BY <1>1 DEF AgeInv, Exists, TypeOK
    <3> QED BY <1>5, <3>1 DEF AgeInv, Exists
  <2> QED BY <1>1, <2>1, <2>2 DEF AgeInv, Exists, PointsTo
<1>10. ValidInv'
  <2>1. \A p \in Objs : Lands(ref'[p]) /\ (kind'[p] = "free" => ref'[p] = Nil)
    BY <1>3, <1>4, <1>5, <1>6 DEF ValidInv, Exists
  <2>2. ASSUME NEW s \in Roots
        PROVE  Lands(root'[s])
    <3>1. CASE s = r
      <4>1. root'[s] = a
        BY <1>1, <1>3, <3>1
      <4> QED BY <1>2, <1>5, <4>1 DEF Lands
    <3>2. CASE s # r
      <4>1. root'[s] = root[s] /\ root[s] \in Addr \cup {Nil} /\ Valid(root[s])
        BY <1>1, <1>3, <3>2 DEF ValidInv
      <4> QED BY <1>6, <4>1
    <3> QED BY <3>1, <3>2
  <2>3. \A w \in Weaks : Lands(weak[w].target)
    BY <1>6 DEF TypeOK, ValidInv
  <2>4. \A p \in registry \cup resurrected \cup pending : Lands(Pointer(p))
    <3>1. \A p \in registry \cup resurrected \cup pending : Pointer(p) \in Addr /\ Valid(Pointer(p))
      BY PointerTypes DEF TypeOK, ValidInv
    <3> QED BY <1>6, <3>1
  <2>5. ASSUME NEW i \in DOMAIN calls, NEW p \in calls[i].list
        PROVE  Lands(Pointer(p))
    <3>1. p \in Pair /\ Valid(Pointer(p))
      BY Frames DEF ValidInv
    <3> QED BY <1>6, <3>1, PointerTypes
  <2> QED BY <1>1, <2>1, <2>2, <2>3, <2>4, <2>5 DEF ValidInv, Valid, Lands, Exists, Pointer
<1> QED BY <1>7, <1>8, <1>9, <1>10

(* A store into an object that is not compiled code unprotects its page.    *)
LEMMA StoreInductive ==
    ASSUME PointersInv, "setInfo" \notin Ops, NEW r \in Roots, NEW v \in Values, Store(r, v)
    PROVE  PointersInv'
<1> USE DEF PointersInv
<1> DEFINE o == root[r].obj
<1>1. /\ phase = "lisp" /\ root[r] # Nil /\ kind[o] = "cons"
      /\ ref' = [ref EXCEPT ![o] = v] /\ protected' = protected \ {o}
      /\ UNCHANGED <<kind, at, L1, root, weak, phase, level, registry, resurrected, pending, calls>>
  BY DEF Store, LispRuns, finalizers
<1>2. o \in Objs /\ v \in Addr \cup {Nil} /\ Valid(v)
  BY <1>1, ValuesValid
<1> HIDE DEF o
<1>3. ref \in [Objs -> Addr \cup {Nil}] /\ protected \subseteq Objs
  BY DEF TypeOK
<1>4. /\ ref' \in [Objs -> Addr \cup {Nil}] /\ ref'[o] = v
      /\ \A p \in Objs : p # o => ref'[p] = ref[p]
  BY <1>1, <1>2, <1>3
<1>5. TypeOK'
  BY <1>1, <1>3, <1>4 DEF TypeOK
<1>6. PhaseInv'
  BY <1>1 DEF PhaseInv, Exists
<1>7. AgeInv'
  <2>1. \A p \in Objs : kind[p] = "code" => ref'[p] = ref[p]
    BY <1>1, <1>4
  <2>2. \A p \in protected' : p \in protected /\ p \in Objs /\ ref'[p] = ref[p]
    BY <1>1, <1>3, <1>4
  <2> QED BY <1>1, <2>1, <2>2 DEF AgeInv, Exists, PointsTo
<1>8. ValidInv'
  <2>1. \A p \in Objs : Valid(ref'[p]) /\ (kind[p] = "free" => ref'[p] = Nil)
    BY <1>1, <1>2, <1>4 DEF ValidInv, Exists
  <2> QED BY <1>1, <2>1 DEF ValidInv, Valid, Exists, Pointer
<1> QED BY <1>5, <1>6, <1>7, <1>8

(* Every step of the program keeps the invariant, as long as it stores     *)
(* nothing into compiled code.                                             *)
LEMMA MutateInductive ==
    ASSUME PointersInv, "setInfo" \notin Ops, Mutate
    PROVE  PointersInv'
<1>1. CASE \E o \in Objs, r \in Roots, v \in Values :
             Alloc(o, r, v, "cons", "E1") \/ AllocCode(o, r, v)
  BY <1>1, AllocInductive DEF AllocCode
<1>2. CASE \E o \in Objs, r \in Roots : AllocLargeVector(o, r)
  <2>1. Nil \in Values
    BY DEF Values
  <2> QED BY <1>2, <2>1, AllocInductive DEF AllocLargeVector
<1>3. CASE \E r \in Roots, v \in Values : Store(r, v)
  BY <1>3, StoreInductive
<1>4. CASE \E r \in Roots, v \in Readable : Assign(r, v)
  <2>1. PICK r \in Roots, v \in Readable : Assign(r, v)
    BY <1>4
  <2>2. phase = "lisp" /\ root' = [root EXCEPT ![r] = v]
        /\ UNCHANGED <<heap, L1, phase, level, registry, resurrected, pending, calls>>
    BY <2>1 DEF Assign, LispRuns, finalizers
  <2>3. v \in Addr \cup {Nil} /\ Valid(v)
    BY ValuesValid
  <2>4. /\ root' \in [Roots -> Addr \cup {Nil}]
        /\ \A s \in Roots : root'[s] = root[s] \/ (root'[s] \in Addr \cup {Nil} /\ Valid(root'[s]))
    BY <2>2, <2>3, ListsNow
  <2>5. /\ calls' \in Seq(FrameType)
        /\ \A i \in DOMAIN calls' : /\ calls'[i].pc = "finalizer" \/ i = Len(calls')
                                    /\ \A p \in calls'[i].list : Valid(Pointer(p))
    BY <2>2, Frames DEF PointersInv, PhaseInv, ValidInv
  <2> QED BY <2>2, <2>4, <2>5, ListsNow, ListsChange
<1>5. CASE \E w \in Weaks, r \in Roots : MakeWeak(w, r)
  <2> USE DEF PointersInv
  <2>1. PICK w \in Weaks, r \in Roots : MakeWeak(w, r)
    BY <1>5
  <2> DEFINE new == [at |-> "E1", target |-> root[r]]
  <2>2. /\ phase = "lisp" /\ root[r] # Nil
        /\ weak' = [weak EXCEPT ![w] = new]
        /\ UNCHANGED <<kind, at, ref, protected, L1, root, phase, level,
                       registry, resurrected, pending, calls>>
    BY <2>1 DEF MakeWeak, LispRuns, finalizers
  <2>3. new \in [at : Spaces, target : Addr \cup {Nil}] /\ Valid(new.target)
    BY <2>2 DEF TypeOK, ValidInv, Spaces
  <2> HIDE DEF new
  <2>4. /\ weak' \in [Weaks -> [at : Spaces, target : Addr \cup {Nil}]]
        /\ \A u \in Weaks : Valid(weak'[u].target)
    BY <2>2, <2>3 DEF TypeOK, ValidInv
  <2>5. TypeOK'
    BY <2>2, <2>4 DEF TypeOK
  <2>6. PhaseInv' /\ AgeInv'
    BY <2>2 DEF PhaseInv, AgeInv, Exists, PointsTo
  <2>7. ValidInv'
    BY <2>2, <2>4 DEF ValidInv, Valid, Exists, Pointer
  <2> QED BY <2>5, <2>6, <2>7
<1>6. CASE \E i \in Ids, r \in Roots : RegisterFinalization(i, r)
  <2>1. PICK i \in Ids, r \in Roots : RegisterFinalization(i, r)
    BY <1>6
  <2> DEFINE e == [id |-> i, obj |-> root[r].obj, sp |-> root[r].sp, cell |-> "E1"]
  <2>2. /\ phase = "lisp" /\ root[r] # Nil /\ registry' = registry \cup {e}
        /\ UNCHANGED <<heap, L1, root, phase, level, resurrected, pending, calls>>
    BY <2>1 DEF RegisterFinalization, LispRuns
  <2>3. e \in Entry /\ Valid(Pointer(e))
    <3>1. root[r] \in Addr /\ Valid(root[r])
      BY <2>2, ValuesValid, ListsNow
    <3>2. Pointer(e) = root[r]
      BY <3>1 DEF Pointer, Addr
    <3> QED BY <3>1, <3>2 DEF Entry, Addr, Spaces
  <2> HIDE DEF e
  <2>4. registry' \subseteq Entry /\ \A p \in registry' : Valid(Pointer(p))
    BY <2>2, <2>3, ListsNow
  <2>5. /\ calls' \in Seq(FrameType)
        /\ \A j \in DOMAIN calls' : /\ calls'[j].pc = "finalizer" \/ j = Len(calls')
                                    /\ \A p \in calls'[j].list : Valid(Pointer(p))
    BY <2>2, Frames DEF PointersInv, PhaseInv, ValidInv
  <2> QED BY <2>2, <2>4, <2>5, ListsNow, ListsChange
<1> QED BY <1>1, <1>2, <1>3, <1>4, <1>5, <1>6 DEF Mutate

(***************************************************************************)
(* The theorems.                                                           *)
(***************************************************************************)
(* Without pointers stored into compiled code and without GC hooks, no      *)
(* pointer is ever dangling, not even one in garbage, and neither compiled  *)
(* code nor a write-protected page points to something younger, which is    *)
(* what lets checkHeapRoots and scanObjectForRoots skip them.               *)
THEOREM PointersAlwaysValid ==
    ASSUME Ops \cap {"setInfo", "hooks"} = {}
    PROVE  Spec => []PointersInv
<1>1. Init => PointersInv
  BY DEF Init, PointersInv, TypeOK, PhaseInv, AgeInv, ValidInv, Valid, Exists, PointsTo,
         Spaces
<1>2. PointersInv /\ [Next]_vars => PointersInv'
  <2> SUFFICES ASSUME PointersInv, [Next]_vars
               PROVE  PointersInv'
    OBVIOUS
  <2>1. CASE Mutate
    BY <2>1, MutateInductive
  <2>2. CASE \E lev \in 0..3 : GarbageCollect(lev)
    BY <2>2, GarbageCollectInductive
  <2>3. CASE Wave1
    BY <2>3, Wave1Inductive
  <2>4. CASE Wave2
    BY <2>4, Wave2Inductive
  <2>5. CASE Wave3
    BY <2>5, Wave3Inductive
  <2>6. CASE Protect
    BY <2>6, ProtectInductive
  <2>7. CASE Finish
    BY <2>7, FinishInductive
  <2>8. CASE UNCHANGED vars
    BY <2>8 DEF vars, PointersInv, TypeOK, PhaseInv, AgeInv, ValidInv, Valid, Exists,
                PointsTo, Pointer
  <2> QED BY <2>1, <2>2, <2>3, <2>4, <2>5, <2>6, <2>7, <2>8 DEF Next
<1> QED BY <1>1, <1>2, PTL DEF Spec

(* What the program can come to use is valid: garbageCollect updates every  *)
(* pointer to what it has moved and frees nothing that is still needed.     *)
THEOREM NothingDangles ==
    ASSUME Ops \cap {"setInfo", "hooks"} = {}
    PROVE  Spec => []NoDangling
<1>1. PointersInv => NoDangling
  <2> SUFFICES ASSUME PointersInv
               PROVE  NoDangling
    OBVIOUS
  <2>1. \A o \in Objs : Valid(ref[o])
    BY DEF PointersInv, ValidInv
  <2>2. \A p \in registry \cup Queued : Valid(Pointer(p))
    BY DEF PointersInv, ValidInv, Queued
  <2>3. ProgramObjects \subseteq Objs
    BY DEF ProgramObjects, Reachable
  <2> QED BY <2>1, <2>2, <2>3 DEF NoDangling, ProgramPointers, PointersInv, ValidInv
<1> QED BY <1>1, PointersAlwaysValid, PTL

-----------------------------------------------------------------------------

(***************************************************************************)
(* Types, whatever the program does.                                       *)
(***************************************************************************)
(* A wave by the entries of the registry that a reversed list keeps and by  *)
(* the registrations that die.                                              *)
Dead(from, live) == {e \in registry : e.sp = from /\ e.obj \notin live}
Forwarded(from, kept, died) == Live(from, kept) \cup {e.obj : e \in died}

Evacuates(from, to, kept, died) ==
    /\ kept \in KeptByOlder(from)
    /\ died \subseteq Dead(from, Live(from, kept))
    /\ \A e \in Dead(from, Live(from, kept)) : \E d \in died : d.obj = e.obj
    /\ MoveObjects(from, to, Promoted(Forwarded(from, kept, died), from))
    /\ MoveWeak(from, to, Forwarded(from, kept, died))
    /\ MoveLists(from, to, died)
    /\ root' = [r \in Roots |-> Update(root[r], from, to)]

LEMMA PromoteIs ==
    ASSUME NEW from, NEW to, Promote(from, to)
    PROVE  \E kept, died : Evacuates(from, to, kept, died)
<1>1. PICK kept \in KeptByOlder(from) :
        LET live == Live(from, kept)
            dead == {e \in registry : e.sp = from /\ e.obj \notin live}
        IN  \E died \in SUBSET dead :
              LET forwarded == live \cup {e.obj : e \in died}
              IN  /\ \A e \in dead : \E d \in died : d.obj = e.obj
                  /\ MoveObjects(from, to, Promoted(forwarded, from))
                  /\ MoveWeak(from, to, forwarded)
                  /\ MoveLists(from, to, died)
                  /\ root' = [r \in Roots |-> Update(root[r], from, to)]
  BY DEF Promote
<1> QED BY <1>1 DEF Evacuates, Dead, Forwarded

(* The lists have the same registrations, and none of them twice.           *)
Single(list) == \A p, q \in list : p.id = q.id => p = q
Follows(new, old) == IdsOf(new) = IdsOf(old) /\ (Single(old) => Single(new))

LEMMA ForwardedList ==
    ASSUME NEW from \in Spaces, NEW to \in Spaces, NEW list \in SUBSET Pair
    PROVE  /\ ForwardAll(list, from, to) \subseteq Pair
           /\ Follows(ForwardAll(list, from, to), list)
<1>1. \A p \in list : Forward(p, from, to) \in Pair /\ Forward(p, from, to).id = p.id
  BY DEF Forward, Pair
<1> QED BY <1>1 DEF ForwardAll, Follows, IdsOf, Single

(* The lists after a wave.                                                  *)
LEMMA MovedLists ==
    ASSUME TypeOK, NEW from \in Spaces, NEW to \in Spaces,
           NEW died \in SUBSET registry, MoveLists(from, to, died)
    PROVE  /\ registry' \subseteq Entry /\ Follows(registry', registry \ died)
           /\ resurrected' \subseteq Pair /\ Follows(resurrected', resurrected \cup died)
           /\ pending' \subseteq Pair /\ Follows(pending', pending)
           /\ calls' \in Seq(FrameType)
           /\ Len(calls') = Len(calls) /\ DOMAIN calls' = DOMAIN calls
           /\ \A i \in DOMAIN calls : /\ calls'[i].pc = calls[i].pc
                                      /\ Follows(calls'[i].list, calls[i].list)
<1>1. registry \subseteq Entry /\ resurrected \subseteq Pair /\ pending \subseteq Pair
  BY DEF TypeOK
<1>2. registry' \subseteq Entry /\ Follows(registry', registry \ died)
  <2>1. ASSUME NEW e \in registry
        PROVE  /\ Cell(Forward(e, from, to), from, to) \in Entry
               /\ Cell(Forward(e, from, to), from, to).id = e.id
    <3>1. e \in Entry
      BY <1>1
    <3>2. Forward(e, from, to) \in Entry /\ Forward(e, from, to).id = e.id
      BY <3>1 DEF Forward, Entry
    <3> DEFINE f == Forward(e, from, to)
    <3> HIDE DEF f
    <3>3. f \in Entry => Cell(f, from, to) \in Entry /\ Cell(f, from, to).id = f.id
      BY DEF Cell, Entry
    <3> QED BY <3>2, <3>3 DEF f
  <2>2. registry' = {Cell(Forward(e, from, to), from, to) : e \in registry \ died}
    BY DEF MoveLists
  <2> QED BY <2>1, <2>2 DEF Follows, IdsOf, Single
<1>3. pending' \subseteq Pair /\ Follows(pending', pending)
  BY <1>1, ForwardedList DEF MoveLists
<1>4. resurrected' \subseteq Pair /\ Follows(resurrected', resurrected \cup died)
  <2> DEFINE new == {[id |-> e.id, obj |-> e.obj, sp |-> e.sp] : e \in died}
  <2>1. ASSUME NEW e \in died
        PROVE  [id |-> e.id, obj |-> e.obj, sp |-> e.sp] \in Pair
    BY <1>1 DEF Entry, Pair
  <2>2. new \subseteq Pair /\ IdsOf(new) = IdsOf(died)
    <3>1. new \subseteq Pair
      BY <2>1
    <3>2. \A p \in new : \E e \in died : p.id = e.id
      OBVIOUS
    <3>3. ASSUME NEW e \in died
          PROVE  \E p \in new : p.id = e.id
      <4> DEFINE p == [id |-> e.id, obj |-> e.obj, sp |-> e.sp]
      <4>1. p \in new /\ p.id = e.id
        OBVIOUS
      <4> QED BY <4>1
    <3> HIDE DEF new
    <3> QED BY <3>1, <3>2, <3>3 DEF IdsOf
  <2>3. ASSUME Single(resurrected \cup died)
        PROVE  Single(resurrected \cup new)
    <3>1. ASSUME NEW p \in resurrected \cup new, NEW q \in resurrected \cup new, p.id = q.id
          PROVE  p = q
      <4>1. CASE p \in resurrected /\ q \in resurrected
        BY <2>3, <3>1, <4>1 DEF Single
      <4>2. CASE p \in new /\ q \in new
        BY <2>3, <3>1, <4>2 DEF Single
      <4>3. ASSUME NEW r \in resurrected, NEW e \in died, r.id = e.id
            PROVE  FALSE
        <5>1. r = e
          BY <2>3, <4>3 DEF Single
        <5>2. r \in Pair /\ e \in Entry
          BY <1>1
        <5>3. DOMAIN r = {"id", "obj", "sp"} /\ DOMAIN e = {"id", "obj", "sp", "cell"}
          BY <5>2 DEF Pair, Entry
        <5> QED BY <5>1, <5>3
      <4> QED BY <3>1, <4>1, <4>2, <4>3
    <3> QED BY <3>1 DEF Single
  <2>4. resurrected' = ForwardAll(resurrected \cup new, from, to)
    BY DEF MoveLists, ForwardAll
  <2> HIDE DEF new
  <2>5. resurrected' \subseteq Pair /\ Follows(resurrected', resurrected \cup new)
    BY <1>1, <2>2, <2>4, ForwardedList
  <2>6. IdsOf(resurrected \cup new) = IdsOf(resurrected \cup died)
    BY <2>2 DEF IdsOf
  <2> QED BY <2>3, <2>5, <2>6 DEF Follows
<1>5. ASSUME NEW i \in 1..Len(calls)
      PROVE  LET f == IF calls[i].pc \in Finalizing
                      THEN Frame(calls[i].pc, ForwardAll(calls[i].list, from, to))
                      ELSE calls[i]
             IN  f \in FrameType /\ f.pc = calls[i].pc /\ Follows(f.list, calls[i].list)
  <2>1. calls[i] \in FrameType /\ calls[i].list \subseteq Pair
    BY Frames
  <2>2. CASE calls[i].pc \in Finalizing
    BY <2>1, <2>2, ForwardedList DEF Frame, FrameType
  <2>3. CASE calls[i].pc \notin Finalizing
    BY <2>1, <2>3 DEF Follows
  <2> QED BY <2>2, <2>3
<1>6. Len(calls) \in Nat /\ DOMAIN calls = 1..Len(calls)
  BY Frames
<1>7. calls' = [i \in 1..Len(calls) |->
                  IF calls[i].pc \in Finalizing
                  THEN Frame(calls[i].pc, ForwardAll(calls[i].list, from, to))
                  ELSE calls[i]]
  BY <1>6 DEF MoveLists
<1>8. calls' \in [1..Len(calls) -> FrameType]
  BY <1>5, <1>7
<1>9. calls' \in Seq(FrameType) /\ Len(calls') = Len(calls) /\ DOMAIN calls' = DOMAIN calls
  BY <1>6, <1>8, SeqDef
<1> QED BY <1>2, <1>3, <1>4, <1>5, <1>6, <1>7, <1>9

(* What the frames are after a step on the innermost one.                   *)
LEMMA TopReplaced ==
    ASSUME TypeOK, calls # <<>>,
           NEW pc \in {"hooks", "finalize", "execute", "finalizer"},
           NEW list \in SUBSET Pair, Replace(Frame(pc, list))
    PROVE  /\ calls' \in Seq(FrameType) /\ DOMAIN calls' = DOMAIN calls
           /\ Len(calls') = Len(calls) /\ Len(calls) \in DOMAIN calls
           /\ calls'[Len(calls)].pc = pc /\ calls'[Len(calls)].list = list
           /\ \A i \in DOMAIN calls \ {Len(calls)} : calls'[i] = calls[i]
<1> DEFINE f == Frame(pc, list)
<1>1. f \in FrameType /\ f.pc = pc /\ f.list = list
  BY DEF Frame, FrameType
<1> HIDE DEF f
<1>2. calls' = [calls EXCEPT ![Len(calls)] = f]
  BY DEF Replace, f
<1>3. /\ calls' \in Seq(FrameType) /\ Len(calls') = Len(calls)
      /\ \A j \in 1..Len(calls) : calls'[j] = IF j = Len(calls) THEN f ELSE calls[j]
  BY <1>1, <1>2, Frames, ExceptSeq
<1>4. DOMAIN calls' = 1..Len(calls) /\ DOMAIN calls = 1..Len(calls) /\ Len(calls) \in 1..Len(calls)
  BY <1>3, Frames
<1> QED BY <1>1, <1>3, <1>4

LEMMA TopReturned ==
    ASSUME TypeOK, calls # <<>>, calls' = SubSeq(calls, 1, Len(calls) - 1)
    PROVE  /\ calls' \in Seq(FrameType) /\ DOMAIN calls' = DOMAIN calls \ {Len(calls)}
           /\ Len(calls) \in DOMAIN calls
           /\ \A i \in DOMAIN calls' : calls'[i] = calls[i]
<1> DEFINE n == Len(calls) - 1
<1>1. /\ Len(calls) \in Nat /\ Len(calls) >= 1 /\ DOMAIN calls = 1..Len(calls)
      /\ \A i \in 1..Len(calls) : calls[i] \in FrameType
  BY Frames
<1>2. n \in Nat /\ n - 1 + 1 = n /\ 1..n = DOMAIN calls \ {Len(calls)} /\ Len(calls) \in DOMAIN calls
  BY <1>1
<1>3. calls' = SubSeq(calls, 1, n) /\ \A i \in 1..n : calls[i] \in FrameType
  BY <1>1
<1> HIDE DEF n
<1>4. /\ SubSeq(calls, 1, n) \in Seq(FrameType)
      /\ Len(SubSeq(calls, 1, n)) = IF 1 <= n THEN n - 1 + 1 ELSE 0
      /\ \A i \in 1..(n - 1 + 1) : SubSeq(calls, 1, n)[i] = calls[1 + i - 1]
  BY <1>2, <1>3, SubSeqProperties
<1>5. Len(calls') = n /\ \A i \in 1..n : calls'[i] = calls[i]
  BY <1>2, <1>3, <1>4
<1>6. DOMAIN calls' = 1..n
  BY <1>3, <1>4, <1>5
<1> QED BY <1>2, <1>3, <1>4, <1>5, <1>6

LEMMA TopPushed ==
    ASSUME TypeOK, calls' = Append(calls, Frame("hooks", {}))
    PROVE  /\ calls' \in Seq(FrameType) /\ Len(calls') = Len(calls) + 1
           /\ DOMAIN calls' = DOMAIN calls \cup {Len(calls')} /\ Len(calls') \notin DOMAIN calls
           /\ \A i \in DOMAIN calls : calls'[i] = calls[i]
           /\ calls'[Len(calls')].pc = "hooks" /\ calls'[Len(calls')].list = {}
<1> DEFINE f == Frame("hooks", {})
<1>1. f \in FrameType /\ f.list = {} /\ f.pc = "hooks"
  BY DEF Frame, FrameType
<1>2. calls \in Seq(FrameType) /\ Len(calls) \in Nat /\ DOMAIN calls = 1..Len(calls)
  BY Frames
<1>3. calls' = Append(calls, f)
  OBVIOUS
<1> HIDE DEF f
<1>4. /\ calls' \in Seq(FrameType) /\ Len(calls') = Len(calls) + 1
      /\ \A i \in 1..Len(calls) : calls'[i] = calls[i]
      /\ calls'[Len(calls) + 1] = f
  BY <1>1, <1>2, <1>3, AppendProperties
<1>5. DOMAIN calls' = 1..(Len(calls) + 1)
  BY <1>4
<1>6. 1..(Len(calls) + 1) = 1..Len(calls) \cup {Len(calls) + 1} /\ Len(calls) + 1 \notin 1..Len(calls)
  BY <1>2
<1> QED BY <1>1, <1>2, <1>4, <1>5, <1>6

(* A wave keeps the types, also of pointers that dangle.                    *)
LEMMA PromoteTyped ==
    ASSUME TypeOK, NEW from \in Spaces, NEW to \in Spaces, Promote(from, to),
           protected' \subseteq Objs, L1' \in {"A", "B"}, level' \in 0..3,
           phase' \in {"wave2", "wave3", "protect"}
    PROVE  TypeOK'
<1>1. PICK kept, died : Evacuates(from, to, kept, died)
  BY PromoteIs
<1> DEFINE moved == Promoted(Forwarded(from, kept, died), from)
           forwarded == Forwarded(from, kept, died)
<1>2. /\ MoveObjects(from, to, moved) /\ MoveWeak(from, to, forwarded)
      /\ MoveLists(from, to, died) /\ died \in SUBSET registry
      /\ root' = [r \in Roots |-> Update(root[r], from, to)]
  BY <1>1 DEF Evacuates, Dead
<1> HIDE DEF moved, forwarded
<1>3. \A a \in Addr \cup {Nil} : Update(a, from, to) \in Addr \cup {Nil}
  BY ForwardTypes DEF Update
<1>4. kind' \in [Objs -> {"free", "cons", "code"}] /\ at' \in [Objs -> Spaces]
  BY <1>2 DEF MoveObjects, TypeOK, Spaces
<1>5. ref' \in [Objs -> Addr \cup {Nil}]
  BY <1>2, <1>3 DEF MoveObjects, TypeOK
<1>6. root' \in [Roots -> Addr \cup {Nil}]
  BY <1>2, <1>3 DEF TypeOK
<1>7. weak' \in [Weaks -> [at : Spaces, target : Addr \cup {Nil}]]
  <2>1. ASSUME NEW w \in Weaks
        PROVE  weak[w].at \in Spaces /\ weak[w].target \in Addr \cup {Nil}
    BY DEF TypeOK
  <2> QED BY <1>2, <1>3, <2>1 DEF MoveWeak
<1> QED BY <1>2, <1>4, <1>5, <1>6, <1>7, MovedLists DEF TypeOK, FrameType

(* Every step keeps the types.                                              *)
LEMMA TypesStep ==
    ASSUME TypeOK, [Next]_vars
    PROVE  TypeOK'
<1>0. /\ root \in [Roots -> Addr \cup {Nil}] /\ ref \in [Objs -> Addr \cup {Nil}]
      /\ \A a \in Addr : a.obj \in Objs /\ a.sp \in Spaces
      /\ \A w \in Weaks : weak[w].target \in Addr \cup {Nil}
      /\ registry \subseteq Entry /\ resurrected \subseteq Pair /\ pending \subseteq Pair
      /\ calls \in Seq(FrameType) /\ L1 \in Spaces
  BY DEF TypeOK, Addr, FrameType, Spaces
<1>1. \A v \in Values \cup Readable : v \in Addr \cup {Nil}
  BY <1>0 DEF Values, Readable
<1>2. ASSUME NEW o \in Objs, NEW r \in Roots, NEW v \in Values, NEW k \in {"cons", "code"},
             NEW sp \in Spaces, Alloc(o, r, v, k, sp)
      PROVE  TypeOK'
  <2>1. [obj |-> o, sp |-> sp] \in Addr
    BY DEF Addr
  <2> QED BY <1>0, <1>1, <1>2, <2>1 DEF Alloc, TypeOK, finalizers
<1>3. CASE Mutate
  <2>1. CASE \E o \in Objs, r \in Roots, v \in Values :
               Alloc(o, r, v, "cons", "E1") \/ AllocCode(o, r, v)
    BY <1>2, <2>1 DEF AllocCode, Spaces
  <2>2. CASE \E o \in Objs, r \in Roots : AllocLargeVector(o, r)
    BY <1>0, <1>2, <2>2 DEF AllocLargeVector, Values
  <2>3. CASE \E r \in Roots, v \in Values : Store(r, v)
    <3>1. PICK r \in Roots, v \in Values : Store(r, v)
      BY <2>3
    <3> QED BY <1>0, <1>1, <3>1 DEF Store, TypeOK, finalizers
  <2>4. CASE \E r \in Roots, v \in Readable : Assign(r, v)
    <3>1. PICK r \in Roots, v \in Readable : Assign(r, v)
      BY <2>4
    <3> QED BY <1>0, <1>1, <3>1 DEF Assign, TypeOK, finalizers, heap
  <2>5. CASE \E w \in Weaks, r \in Roots : MakeWeak(w, r)
    <3>1. PICK w \in Weaks, r \in Roots : MakeWeak(w, r)
      BY <2>5
    <3>2. [at |-> "E1", target |-> root[r]] \in [at : Spaces, target : Addr \cup {Nil}]
      BY <1>0 DEF Spaces
    <3> QED BY <3>1, <3>2 DEF MakeWeak, TypeOK, finalizers
  <2>6. CASE \E i \in Ids, r \in Roots : RegisterFinalization(i, r)
    <3>1. PICK i \in Ids, r \in Roots : RegisterFinalization(i, r)
      BY <2>6
    <3>2. root[r] \in Addr
      BY <1>0, <3>1 DEF RegisterFinalization
    <3>3. [id |-> i, obj |-> root[r].obj, sp |-> root[r].sp, cell |-> "E1"] \in Entry
      BY <1>0, <3>2 DEF Entry, Spaces
    <3> QED BY <3>1, <3>3 DEF RegisterFinalization, TypeOK, heap
  <2> QED BY <1>3, <2>1, <2>2, <2>3, <2>4, <2>5, <2>6 DEF Mutate
<1>4. CASE \E lev \in 0..3 : GarbageCollect(lev)
  BY <1>4 DEF GarbageCollect, TypeOK, heap
<1>5. CASE Wave1 \/ Wave2 \/ Wave3
  <2>1. CASE Wave1
    <3>1. Promote("E1", "E2") /\ protected' = protected /\ L1' = L1 /\ level' = level
          /\ phase' \in {"wave2", "wave3", "protect"}
      BY <2>1 DEF Wave1
    <3> QED BY <3>1, PromoteTyped DEF TypeOK, Spaces
  <2>2. CASE Wave2
    <3>1. Promote("E2", L1) /\ protected' = {} /\ L1' = L1 /\ level' \in 0..3
          /\ phase' \in {"wave2", "wave3", "protect"}
      BY <2>2 DEF Wave2, TypeOK
    <3> QED BY <1>0, <3>1, PromoteTyped DEF TypeOK, Spaces
  <2>3. CASE Wave3
    <3>1. Promote(L1, L1') /\ protected' = protected /\ L1' \in {"A", "B"} /\ level' \in 0..3
          /\ phase' \in {"wave2", "wave3", "protect"}
      BY <2>3 DEF Wave3, TypeOK
    <3> QED BY <1>0, <3>1, PromoteTyped DEF TypeOK, Spaces
  <2> QED BY <1>5, <2>1, <2>2, <2>3
<1>6. CASE Protect
  BY <1>6, TopPushed DEF Protect, TypeOK, FrameType
<1>7. CASE Finish
  <2>1. CASE HooksReturn
    <3>1. calls # <<>> /\ Replace(Frame("finalize", resurrected))
      BY <2>1 DEF HooksReturn, Does
    <3>2. calls' \in Seq(FrameType)
      BY <1>0, <3>1, TopReplaced
    <3> QED BY <2>1, <3>2 DEF HooksReturn, TypeOK, FrameType, heap
  <2>2. CASE FinalizeNode
    <3>1. PICK p \in Top.list : /\ pending' = pending \cup {p}
                                /\ Replace(Frame("finalize", Top.list \ {p}))
      BY <2>2 DEF FinalizeNode
    <3>2. calls # <<>> /\ Top.list \subseteq Pair
      BY <2>2, Frames DEF FinalizeNode, Does, Top
    <3>3. calls' \in Seq(FrameType)
      BY <3>1, <3>2, TopReplaced
    <3> QED BY <1>0, <2>2, <3>1, <3>2, <3>3 DEF FinalizeNode, TypeOK, FrameType, heap
  <2>3. CASE ExecuteFinalizers
    <3>1. calls # <<>> /\ Replace(Frame("execute", pending))
      BY <2>3 DEF ExecuteFinalizers, Does
    <3>2. calls' \in Seq(FrameType)
      BY <1>0, <3>1, TopReplaced
    <3> QED BY <2>3, <3>2 DEF ExecuteFinalizers, TypeOK, FrameType, heap
  <2>4. CASE CallFinalizer
    <3>1. PICK p \in Top.list :
            /\ Replace(Frame("finalizer", Top.list \ {p}))
            /\ \/ UNCHANGED root
               \/ \E r \in Roots : root' = [root EXCEPT ![r] = Pointer(p)]
      BY <2>4 DEF CallFinalizer
    <3>2. calls # <<>> /\ Top.list \subseteq Pair
      BY <2>4, Frames DEF CallFinalizer, Does, Top
    <3>3. calls' \in Seq(FrameType)
      BY <3>1, <3>2, TopReplaced
    <3>4. Pointer(p) \in Addr
      BY <3>1, <3>2, PointerTypes
    <3>5. root' \in [Roots -> Addr \cup {Nil}]
      BY <1>0, <3>1, <3>4
    <3> QED BY <2>4, <3>3, <3>5 DEF CallFinalizer, TypeOK, FrameType, heap
  <2>5. CASE GarbageCollectReturns
    <3>1. calls # <<>> /\ calls' = SubSeq(calls, 1, Len(calls) - 1)
      BY <2>5 DEF GarbageCollectReturns, Does
    <3> QED BY <2>5, <3>1, TopReturned DEF GarbageCollectReturns, TypeOK, FrameType, heap
  <2> QED BY <1>7, <2>1, <2>2, <2>3, <2>4, <2>5 DEF Finish
<1>8. CASE UNCHANGED vars
  BY <1>8 DEF vars, TypeOK
<1> QED BY <1>3, <1>4, <1>5, <1>6, <1>7, <1>8 DEF Next

(* Every variable keeps its type, with hooks and with pointers stored into  *)
(* compiled code too.                                                       *)
THEOREM TypesKept == Spec => []TypeOK
<1>1. Init => TypeOK
  BY DEF Init, TypeOK, Spaces, FrameType
<1>2. TypeOK /\ [Next]_vars => TypeOK'
  BY TypesStep
<1> QED BY <1>1, <1>2, PTL DEF Spec

(***************************************************************************)
(* No registration is in two lists.                                        *)
(***************************************************************************)
Apart(list, other) == IdsOf(list) \cap IdsOf(other) = {}

(* Finitely many registrations are held, each in one list and there once.   *)
OnceInv ==
    /\ IsFiniteSet(Held)
    /\ Single(registry) /\ Single(resurrected) /\ Single(pending)
    /\ Apart(registry, resurrected) /\ Apart(registry, pending) /\ Apart(resurrected, pending)
    /\ \A i \in DOMAIN calls : /\ Single(calls[i].list)
                               /\ Apart(calls[i].list, registry)
                               /\ Apart(calls[i].list, resurrected)
                               /\ Apart(calls[i].list, pending)
    /\ \A i, j \in DOMAIN calls : i # j => Apart(calls[i].list, calls[j].list)

LEMMA HeldIs ==
    Held = IdsOf(registry) \cup IdsOf(resurrected) \cup IdsOf(pending)
              \cup UNION {IdsOf(calls[i].list) : i \in DOMAIN calls}
BY DEF Held, IdsOf

LEMMA HeldIsNext ==
    Held' = IdsOf(registry') \cup IdsOf(resurrected') \cup IdsOf(pending')
               \cup UNION {IdsOf(calls'[i].list) : i \in DOMAIN calls'}
BY DEF Held, IdsOf

(* The lists change so that a registration is where it was, moves to a list *)
(* that loses it, or goes.                                                  *)
LEMMA WaveOnce ==
    ASSUME TypeOK, OnceInv, NEW from \in Spaces, NEW to \in Spaces, Promote(from, to)
    PROVE  OnceInv' /\ Held' = Held
<1>1. PICK kept, died : Evacuates(from, to, kept, died)
  BY PromoteIs
<1>2. died \in SUBSET registry /\ MoveLists(from, to, died)
  BY <1>1 DEF Evacuates, Dead
<1>3. /\ Follows(registry', registry \ died) /\ Follows(resurrected', resurrected \cup died)
      /\ Follows(pending', pending) /\ DOMAIN calls' = DOMAIN calls
      /\ \A i \in DOMAIN calls : Follows(calls'[i].list, calls[i].list)
  BY <1>2, MovedLists
<1>4. /\ Single(registry \ died) /\ Single(resurrected \cup died)
      /\ IdsOf(registry) = IdsOf(registry \ died) \cup IdsOf(died)
      /\ IdsOf(registry \ died) \cap IdsOf(died) = {}
      /\ IdsOf(resurrected \cup died) = IdsOf(resurrected) \cup IdsOf(died)
  <2>1. IdsOf(registry) = IdsOf(registry \ died) \cup IdsOf(died)
        /\ IdsOf(resurrected \cup died) = IdsOf(resurrected) \cup IdsOf(died)
    BY <1>2 DEF IdsOf
  <2>2. Single(registry \ died) /\ IdsOf(registry \ died) \cap IdsOf(died) = {}
    BY <1>2 DEF OnceInv, Single, IdsOf
  <2>3. Single(resurrected \cup died)
    BY <1>2 DEF OnceInv, Single, IdsOf, Apart
  <2> QED BY <2>1, <2>2, <2>3
<1>5. Held' = Held
  BY <1>3, <1>4, HeldIs, HeldIsNext DEF Follows
<1>6. /\ Single(registry') /\ Single(resurrected') /\ Single(pending')
      /\ Apart(registry', resurrected') /\ Apart(registry', pending') /\ Apart(resurrected', pending')
  BY <1>3, <1>4 DEF OnceInv, Follows, Apart
<1>7. \A i \in DOMAIN calls : /\ Single(calls'[i].list)
                              /\ Apart(calls'[i].list, registry')
                              /\ Apart(calls'[i].list, resurrected')
                              /\ Apart(calls'[i].list, pending')
  BY <1>3, <1>4 DEF OnceInv, Follows, Apart
<1>8. \A i, j \in DOMAIN calls : i # j => Apart(calls'[i].list, calls'[j].list)
  BY <1>3 DEF OnceInv, Follows, Apart
<1> QED BY <1>3, <1>5, <1>6, <1>7, <1>8 DEF OnceInv, Single, Apart, IdsOf

(* The last frame gets another list: what it had goes elsewhere.            *)
LEMMA TopOnce ==
    ASSUME TypeOK, OnceInv, calls # <<>>,
           NEW pc \in {"hooks", "finalize", "execute", "finalizer"},
           NEW list \in SUBSET Pair, Replace(Frame(pc, list)), UNCHANGED registry,
           \/ /\ list = resurrected /\ resurrected' = {} /\ pending' = pending
           \/ /\ list = pending /\ pending' = {} /\ resurrected' = resurrected
           \/ /\ list \subseteq Top.list /\ resurrected' = resurrected
              /\ \/ pending' = pending
                 \/ \E p \in Top.list \ list : pending' = pending \cup {p}
    PROVE  OnceInv' /\ Held' \subseteq Held
<1> DEFINE n == Len(calls)
<1>1. /\ DOMAIN calls' = DOMAIN calls /\ n \in DOMAIN calls /\ calls'[n].list = list
      /\ \A i \in DOMAIN calls \ {n} : calls'[i] = calls[i]
  BY TopReplaced
<1>2. Top.list = calls[n].list
  BY DEF Top
<1> HIDE DEF n
<1>3. /\ Single(list) /\ Single(resurrected') /\ Single(pending') /\ Single(registry')
      /\ Apart(registry', resurrected') /\ Apart(registry', pending')
      /\ Apart(resurrected', pending')
      /\ Apart(list, registry') /\ Apart(list, resurrected') /\ Apart(list, pending')
      /\ IdsOf(list) \cup IdsOf(pending') \cup IdsOf(resurrected')
            \subseteq IdsOf(Top.list) \cup IdsOf(pending) \cup IdsOf(resurrected)
  <2>0. IdsOf({}) = {} /\ Single({}) /\ registry' = registry
    BY DEF IdsOf, Single
  <2>1. CASE list = resurrected /\ resurrected' = {} /\ pending' = pending
    <3>1. /\ Single(resurrected) /\ Single(pending) /\ Single(registry)
          /\ Apart(registry, pending) /\ Apart(resurrected, pending) /\ Apart(resurrected, registry)
      BY DEF OnceInv, Apart
    <3> QED BY <2>0, <2>1, <3>1 DEF Apart
  <2>2. CASE list = pending /\ pending' = {} /\ resurrected' = resurrected
    <3>1. /\ Single(resurrected) /\ Single(pending) /\ Single(registry)
          /\ Apart(registry, resurrected) /\ Apart(pending, resurrected) /\ Apart(pending, registry)
      BY DEF OnceInv, Apart
    <3> QED BY <2>0, <2>2, <3>1 DEF Apart
  <2>3. CASE list \subseteq Top.list /\ resurrected' = resurrected /\ pending' = pending
    <3>1. /\ Single(Top.list) /\ Apart(Top.list, registry) /\ Apart(Top.list, resurrected)
          /\ Apart(Top.list, pending)
      BY <1>1, <1>2 DEF OnceInv
    <3>2. Single(list) /\ IdsOf(list) \subseteq IdsOf(Top.list)
      BY <2>3, <3>1 DEF Single, IdsOf
    <3>3. Apart(list, registry) /\ Apart(list, resurrected) /\ Apart(list, pending)
      BY <3>1, <3>2 DEF Apart
    <3> QED BY <2>3, <3>2, <3>3 DEF OnceInv
  <2>4. ASSUME list \subseteq Top.list, resurrected' = resurrected,
               NEW p \in Top.list \ list, pending' = pending \cup {p}
        PROVE  /\ Single(list) /\ Single(resurrected') /\ Single(pending') /\ Single(registry')
               /\ Apart(registry', resurrected') /\ Apart(registry', pending')
               /\ Apart(resurrected', pending')
               /\ Apart(list, registry') /\ Apart(list, resurrected') /\ Apart(list, pending')
               /\ IdsOf(list) \cup IdsOf(pending') \cup IdsOf(resurrected')
                     \subseteq IdsOf(Top.list) \cup IdsOf(pending) \cup IdsOf(resurrected)
    <3>1. /\ Single(Top.list) /\ Apart(Top.list, registry) /\ Apart(Top.list, resurrected)
          /\ Apart(Top.list, pending)
      BY <1>1, <1>2 DEF OnceInv
    <3>2. IdsOf(pending') = IdsOf(pending) \cup {p.id} /\ p.id \in IdsOf(Top.list)
      BY <2>4 DEF IdsOf
    <3>3. IdsOf(list) \subseteq IdsOf(Top.list) /\ p.id \notin IdsOf(list)
      BY <2>4, <3>1 DEF IdsOf, Single
    <3>4. Single(list) /\ Single(pending')
      BY <2>4, <3>1 DEF OnceInv, Single, Apart, IdsOf
    <3>5. Apart(list, registry) /\ Apart(list, resurrected) /\ Apart(list, pending')
      BY <3>1, <3>2, <3>3 DEF Apart
    <3>6. Apart(registry, pending') /\ Apart(resurrected, pending')
      BY <3>1, <3>2 DEF OnceInv, Apart
    <3>7. registry' = registry /\ resurrected' = resurrected
      BY <2>4
    <3>8. Single(resurrected) /\ Single(registry) /\ Apart(registry, resurrected)
      BY DEF OnceInv
    <3>9. IdsOf(list) \cup IdsOf(pending') \cup IdsOf(resurrected)
             \subseteq IdsOf(Top.list) \cup IdsOf(pending) \cup IdsOf(resurrected)
      BY <3>2, <3>3
    <3> HIDE DEF OnceInv, Single, Apart, IdsOf
    <3> QED BY <3>4, <3>5, <3>6, <3>7, <3>8, <3>9
  <2> QED BY <2>1, <2>2, <2>3, <2>4
<1>4. ASSUME NEW i \in DOMAIN calls \ {n}
      PROVE  /\ Single(calls[i].list) /\ Apart(calls[i].list, registry')
             /\ Apart(calls[i].list, list)
             /\ Apart(calls[i].list, resurrected') /\ Apart(calls[i].list, pending')
  <2>1. /\ Single(calls[i].list) /\ Apart(calls[i].list, registry)
        /\ Apart(calls[i].list, resurrected) /\ Apart(calls[i].list, pending)
        /\ Apart(calls[i].list, Top.list)
    BY <1>1, <1>2 DEF OnceInv
  <2> QED BY <1>3, <2>1 DEF Apart
<1>5. Held' \subseteq Held
  <2>1. IdsOf(Top.list) \subseteq Held
    BY <1>1, <1>2, HeldIs
  <2>2. Held' = IdsOf(registry') \cup IdsOf(resurrected') \cup IdsOf(pending') \cup IdsOf(list)
                  \cup UNION {IdsOf(calls[i].list) : i \in DOMAIN calls \ {n}}
    BY <1>1, HeldIsNext
  <2>3. UNION {IdsOf(calls[i].list) : i \in DOMAIN calls \ {n}} \subseteq Held
    BY HeldIs
  <2>4. IdsOf(registry') \cup IdsOf(resurrected) \cup IdsOf(pending) \subseteq Held
    BY HeldIs
  <2> QED BY <1>3, <2>1, <2>2, <2>3, <2>4
<1>6. IsFiniteSet(Held')
  BY <1>5, FS_Subset DEF OnceInv
<1>7. \A i \in DOMAIN calls' : /\ Single(calls'[i].list)
                               /\ Apart(calls'[i].list, registry')
                               /\ Apart(calls'[i].list, resurrected')
                               /\ Apart(calls'[i].list, pending')
  BY <1>1, <1>3, <1>4
<1>8. ASSUME NEW i \in DOMAIN calls', NEW j \in DOMAIN calls', i # j
      PROVE  Apart(calls'[i].list, calls'[j].list)
  <2>1. CASE i # n /\ j # n
    BY <1>1, <1>8, <2>1 DEF OnceInv
  <2>2. CASE i = n \/ j = n
    BY <1>1, <1>4, <1>8, <2>2 DEF Apart
  <2> QED BY <2>1, <2>2
<1> QED BY <1>3, <1>5, <1>6, <1>7, <1>8 DEF OnceInv, Single, Apart, IdsOf

LEMMA SameOnce ==
    ASSUME OnceInv, UNCHANGED finalizers
    PROVE  OnceInv' /\ Held' = Held
<1>1. registry' = registry /\ resurrected' = resurrected /\ pending' = pending /\ calls' = calls
  BY DEF finalizers
<1>2. Held' = Held
  BY <1>1 DEF Held
<1> QED BY <1>1, <1>2 DEF OnceInv, Single, Apart, IdsOf

(* Every step: finalizers are called, registrations are made, and the lists *)
(* of resurrected objects that hooks make a collection forget go.           *)
LEMMA OnceStep ==
    ASSUME TypeOK, OnceInv, [Next]_vars
    PROVE  OnceInv'
<1>0. /\ registry \subseteq Entry /\ resurrected \subseteq Pair /\ pending \subseteq Pair
      /\ calls # <<>> => Top.list \subseteq Pair
  BY Frames DEF TypeOK, Top
<1>1. CASE Mutate
  <2>1. CASE \E i \in Ids, r \in Roots : RegisterFinalization(i, r)
    <3>1. PICK i \in Ids, r \in Roots : RegisterFinalization(i, r)
      BY <2>1
    <3> DEFINE e == [id |-> i, obj |-> root[r].obj, sp |-> root[r].sp, cell |-> "E1"]
    <3>2. i \notin Held /\ registry' = registry \cup {e} /\ e.id = i
          /\ resurrected' = resurrected /\ pending' = pending /\ calls' = calls
      BY <3>1 DEF RegisterFinalization
    <3> HIDE DEF e
    <3>3. IdsOf(registry') = IdsOf(registry) \cup {i}
      BY <3>2 DEF IdsOf
    <3>4. Held' = Held \cup {i}
      BY <3>2, <3>3, HeldIs, HeldIsNext
    <3>5. IsFiniteSet(Held')
      BY <3>4, FS_AddElement DEF OnceInv
    <3>6. /\ i \notin IdsOf(registry) /\ i \notin IdsOf(resurrected) /\ i \notin IdsOf(pending)
          /\ \A j \in DOMAIN calls : i \notin IdsOf(calls[j].list)
      BY <3>2, HeldIs
    <3>7. Single(registry')
      BY <3>2, <3>6 DEF OnceInv, Single, IdsOf
    <3>8. /\ Apart(registry', resurrected) /\ Apart(registry', pending)
          /\ \A j \in DOMAIN calls : Apart(calls[j].list, registry')
      BY <3>3, <3>6 DEF OnceInv, Apart
    <3> QED BY <3>2, <3>5, <3>7, <3>8 DEF OnceInv, Single, Apart, IdsOf
  <2>2. CASE ~ \E i \in Ids, r \in Roots : RegisterFinalization(i, r)
    <3>1. UNCHANGED finalizers
      BY <1>1, <2>2 DEF Mutate, Alloc, AllocCode, AllocLargeVector, Store, Assign, MakeWeak
    <3> QED BY <3>1, SameOnce
  <2> QED BY <2>1, <2>2
<1>2. CASE \E lev \in 0..3 : GarbageCollect(lev)
  <2>1. resurrected' = {} /\ UNCHANGED <<registry, pending, calls>>
    BY <1>2 DEF GarbageCollect
  <2>2. IdsOf({}) = {} /\ Single({})
    BY DEF IdsOf, Single
  <2>3. Held' \subseteq Held
    BY <2>1, <2>2, HeldIs, HeldIsNext
  <2>4. IsFiniteSet(Held')
    BY <2>3, FS_Subset DEF OnceInv
  <2> QED BY <2>1, <2>2, <2>4 DEF OnceInv, Single, Apart, IdsOf
<1>3. CASE Wave1 \/ Wave2 \/ Wave3
  <2>1. "E1" \in Spaces /\ "E2" \in Spaces /\ L1 \in Spaces
    BY DEF TypeOK, Spaces
  <2>2. Wave3 => L1' \in Spaces
    BY DEF Wave3, Spaces
  <2> QED BY <1>3, <2>1, <2>2, WaveOnce DEF Wave1, Wave2, Wave3
<1>4. CASE Protect
  <2> DEFINE n == Len(calls')
  <2>1. /\ UNCHANGED <<registry, resurrected, pending>>
        /\ DOMAIN calls' = DOMAIN calls \cup {n} /\ n \notin DOMAIN calls
        /\ \A i \in DOMAIN calls : calls'[i] = calls[i]
        /\ calls'[n].list = {}
    <3>1. calls' = Append(calls, Frame("hooks", {})) /\ UNCHANGED <<registry, resurrected, pending>>
      BY <1>4 DEF Protect
    <3> QED BY <3>1, TopPushed, SMTT(60)
  <2> HIDE DEF n
  <2>2. IdsOf({}) = {} /\ Single({})
    BY DEF IdsOf, Single
  <2>3. Held' = Held
    <3>1. UNION {IdsOf(calls'[i].list) : i \in DOMAIN calls'}
             = UNION {IdsOf(calls[i].list) : i \in DOMAIN calls}
      BY <2>1, <2>2
    <3> QED BY <2>1, <3>1, HeldIs, HeldIsNext
  <2>4. \A i \in DOMAIN calls' : /\ Single(calls'[i].list)
                                 /\ Apart(calls'[i].list, registry)
                                 /\ Apart(calls'[i].list, resurrected)
                                 /\ Apart(calls'[i].list, pending)
    BY <2>1, <2>2 DEF OnceInv, Apart
  <2>5. \A i, j \in DOMAIN calls' : i # j => Apart(calls'[i].list, calls'[j].list)
    BY <2>1, <2>2 DEF OnceInv, Apart
  <2> QED BY <2>1, <2>3, <2>4, <2>5 DEF OnceInv, Single, Apart, IdsOf
<1>5. CASE Finish
  <2>1. CASE HooksReturn
    <3>1. calls # <<>> /\ Replace(Frame("finalize", resurrected)) /\ resurrected' = {}
          /\ UNCHANGED <<registry, pending>>
      BY <2>1 DEF HooksReturn, Does
    <3> QED BY <1>0, <3>1, TopOnce
  <2>2. CASE FinalizeNode
    <3>1. calls # <<>> /\ UNCHANGED <<registry, resurrected>>
      BY <2>2 DEF FinalizeNode, Does
    <3>2. PICK p \in Top.list : /\ pending' = pending \cup {p}
                                /\ Replace(Frame("finalize", Top.list \ {p}))
      BY <2>2 DEF FinalizeNode
    <3>3. Top.list \ {p} \in SUBSET Pair /\ p \in Top.list \ (Top.list \ {p})
      BY <1>0, <3>1, <3>2
    <3> QED BY <3>1, <3>2, <3>3, TopOnce
  <2>3. CASE ExecuteFinalizers
    <3>1. calls # <<>> /\ Replace(Frame("execute", pending)) /\ pending' = {}
          /\ UNCHANGED <<registry, resurrected>>
      BY <2>3 DEF ExecuteFinalizers, Does
    <3> QED BY <1>0, <3>1, TopOnce
  <2>4. CASE CallFinalizer
    <3>1. calls # <<>> /\ UNCHANGED <<registry, resurrected, pending>>
      BY <2>4 DEF CallFinalizer, Does
    <3>2. PICK p \in Top.list : Replace(Frame("finalizer", Top.list \ {p}))
      BY <2>4 DEF CallFinalizer
    <3>3. Top.list \ {p} \in SUBSET Pair
      BY <1>0, <3>1
    <3> QED BY <3>1, <3>2, <3>3, TopOnce
  <2>5. CASE GarbageCollectReturns
    <3>1. calls # <<>> /\ calls' = SubSeq(calls, 1, Len(calls) - 1)
          /\ UNCHANGED <<registry, resurrected, pending>>
      BY <2>5 DEF GarbageCollectReturns, Does
    <3>2. /\ DOMAIN calls' \subseteq DOMAIN calls
          /\ \A i \in DOMAIN calls' : calls'[i] = calls[i]
      BY <3>1, TopReturned
    <3>3. Held' \subseteq Held
      BY <3>1, <3>2, HeldIs, HeldIsNext
    <3>4. IsFiniteSet(Held')
      BY <3>3, FS_Subset DEF OnceInv
    <3>5. /\ \A i \in DOMAIN calls' : /\ Single(calls'[i].list)
                                      /\ Apart(calls'[i].list, registry)
                                      /\ Apart(calls'[i].list, resurrected)
                                      /\ Apart(calls'[i].list, pending)
          /\ \A i, j \in DOMAIN calls' : i # j => Apart(calls'[i].list, calls'[j].list)
      BY <3>2 DEF OnceInv
    <3> QED BY <3>1, <3>4, <3>5 DEF OnceInv, Single, Apart, IdsOf
  <2> QED BY <1>5, <2>1, <2>2, <2>3, <2>4, <2>5 DEF Finish
<1>6. CASE UNCHANGED vars
  BY <1>6, SameOnce DEF vars, finalizers
<1> QED BY <1>1, <1>2, <1>3, <1>4, <1>5, <1>6 DEF Next

(* A list without a registration twice has as many pairs as registrations.  *)
LEMMA Counted ==
    ASSUME NEW list, IsFiniteSet(IdsOf(list)), Single(list)
    PROVE  Cardinality(IdsOf(list)) = Cardinality(list)
<1> DEFINE S == IdsOf(list)
           f == [p \in list |-> p.id]
<1>1. f \in [list -> S] /\ \A p, q \in list : f[p] = f[q] => p = q
  BY DEF IdsOf, Single
<1>2. \A i \in S : \E p \in list : f[p] = i
  BY DEF IdsOf
<1> HIDE DEF f, S
<1>3. f \in Injection(list, S) /\ f \in Surjection(list, S)
  BY <1>1, <1>2 DEF Injection, Surjection, IsInjective
<1>4. IsFiniteSet(S)
  BY DEF S
<1>5. Cardinality(list) = Cardinality(S)
  BY <1>3, <1>4, FS_Injection
<1> QED BY <1>5 DEF S

LEMMA Concatenated ==
    ASSUME NEW S, NEW a \in Seq(S), NEW b \in Seq(S)
    PROVE  /\ a \o b \in Seq(S) /\ Len(a \o b) = Len(a) + Len(b)
           /\ \A j \in 1..(Len(a) + Len(b)) :
                 (a \o b)[j] = IF j <= Len(a) THEN a[j] ELSE b[j - Len(a)]
BY ConcatProperties

(* At the beginning no registration is held.                                *)
LEMMA FinalizersFirst ==
    ASSUME Init
    PROVE  TypeOK /\ OnceInv
<1>1. registry = {} /\ resurrected = {} /\ pending = {} /\ calls = <<>> /\ DOMAIN calls = {}
  BY DEF Init
<1>2. Held = {}
  BY <1>1 DEF Held
<1>3. IsFiniteSet(Held)
  BY <1>2, FS_EmptySet
<1>4. OnceInv
  BY <1>1, <1>3 DEF OnceInv, Single, Apart, IdsOf
<1>5. TypeOK
  BY DEF Init, TypeOK, Spaces
<1> QED BY <1>4, <1>5

(* No finalizer can be called twice for a registration: no list holds it    *)
(* twice, and no two lists hold it, however collections, hooks and          *)
(* finalizers that collect are nested.                                      *)
THEOREM FinalizersOnce == Spec => []FinalizedOnce
<1>1. TypeOK /\ OnceInv => FinalizedOnce
  <2> SUFFICES ASSUME TypeOK, OnceInv PROVE FinalizedOnce
    OBVIOUS
  <2> DEFINE first == <<registry, resurrected, pending>>
             rest == [i \in DOMAIN calls |-> calls[i].list]
             lists == first \o rest
             n == Len(calls)
  <2>1. /\ n \in Nat /\ DOMAIN calls = 1..n
        /\ \A i \in 1..n : calls[i] \in FrameType
    BY Frames
  <2>2. DOMAIN lists = 1..(3 + n)
        /\ lists[1] = registry /\ lists[2] = resurrected /\ lists[3] = pending
        /\ \A j \in 4..(3 + n) : lists[j] = calls[j - 3].list
    <3> DEFINE All == SUBSET (Entry \cup Pair)
    <3>1. first \in Seq(All) /\ Len(first) = 3
          /\ first[1] = registry /\ first[2] = resurrected /\ first[3] = pending
      BY DEF TypeOK
    <3>2. rest \in [1..n -> All]
      BY <2>1 DEF FrameType
    <3>3. rest \in Seq(All) /\ Len(rest) = n /\ \A i \in 1..n : rest[i] = calls[i].list
      BY <2>1, <3>2, SeqDef
    <3> HIDE DEF first, rest, All
    <3>4. /\ Len(lists) = 3 + n /\ lists \in Seq(All)
          /\ \A j \in 1..(3 + n) : lists[j] = IF j <= 3 THEN first[j] ELSE rest[j - 3]
      <4>1. n \in Nat /\ lists = first \o rest
        BY <2>1
      <4>2. first \in Seq(All) /\ rest \in Seq(All)
        BY <3>1, <3>3
      <4>3. /\ first \o rest \in Seq(All) /\ Len(first \o rest) = Len(first) + Len(rest)
            /\ \A j \in 1..(Len(first) + Len(rest)) :
                  (first \o rest)[j] = IF j <= Len(first) THEN first[j] ELSE rest[j - Len(first)]
        BY <4>2, Concatenated, ZenonT(60)
      <4> HIDE DEF n, lists
      <4>4. Len(first) = 3 /\ Len(rest) = n
        BY <3>1, <3>3
      <4> QED BY <4>1, <4>3, <4>4
    <3> HIDE DEF lists
    <3>5. DOMAIN lists = 1..(3 + n)
      BY <3>4
    <3>6. \A j \in 4..(3 + n) : lists[j] = calls[j - 3].list
      BY <2>1, <3>3, <3>4
    <3> QED BY <2>1, <3>1, <3>4, <3>5, <3>6
  <2> HIDE DEF lists, first, rest, n
  <2>3. \A j \in 1..(3 + n) : Single(lists[j]) /\ IdsOf(lists[j]) \subseteq Held
    BY <2>1, <2>2, HeldIs DEF OnceInv
  <2>4. ASSUME NEW j \in 1..(3 + n), NEW k \in 1..(3 + n), j # k
        PROVE  Apart(lists[j], lists[k])
    <3>1. ASSUME NEW a \in 1..(3 + n), NEW b \in 1..(3 + n), a < b
          PROVE  Apart(lists[a], lists[b])
      <4>1. CASE b \in 1..3
        <5>1. (a = 1 /\ b \in {2, 3}) \/ (a = 2 /\ b = 3)
          BY <3>1, <4>1
        <5> QED BY <2>2, <5>1 DEF OnceInv
      <4>2. CASE b \in 4..(3 + n)
        <5>1. b - 3 \in DOMAIN calls /\ lists[b] = calls[b - 3].list
          BY <2>1, <2>2, <4>2
        <5>2. CASE a \in 1..3
          <6>1. lists[a] \in {registry, resurrected, pending}
            BY <2>2, <5>2
          <6> QED BY <5>1, <6>1 DEF OnceInv, Apart
        <5>3. CASE a \in 4..(3 + n)
          <6>1. a - 3 \in DOMAIN calls /\ lists[a] = calls[a - 3].list /\ a - 3 # b - 3
            BY <2>1, <2>2, <3>1, <5>3
          <6> QED BY <5>1, <6>1 DEF OnceInv
        <5> QED BY <2>1, <3>1, <5>2, <5>3
      <4> QED BY <2>1, <3>1, <4>1, <4>2
    <3>2. j < k \/ k < j
      BY <2>1, <2>4
    <3>3. Apart(lists[k], lists[j]) => Apart(lists[j], lists[k])
      BY DEF Apart
    <3> QED BY <3>1, <3>2, <3>3
  <2>5. ASSUME NEW j \in 1..(3 + n)
        PROVE  Cardinality(IdsOf(lists[j])) = Cardinality(lists[j])
    <3>1. IsFiniteSet(IdsOf(lists[j]))
      BY <2>3, FS_Subset DEF OnceInv
    <3> QED BY <2>3, <3>1, Counted
  <2>6. FinalizedOnce <=>
          \A j \in DOMAIN lists :
             /\ Cardinality(IdsOf(lists[j])) = Cardinality(lists[j])
             /\ \A k \in DOMAIN lists \ {j} : IdsOf(lists[j]) \cap IdsOf(lists[k]) = {}
    BY DEF FinalizedOnce, lists, first, rest
  <2> QED BY <2>2, <2>4, <2>5, <2>6 DEF Apart
<1>2. Init => TypeOK /\ OnceInv
  BY FinalizersFirst
<1>3. TypeOK /\ OnceInv /\ [Next]_vars => (TypeOK /\ OnceInv)'
  BY TypesStep, OnceStep
<1> QED BY <1>1, <1>2, <1>3, PTL DEF Spec


(***************************************************************************)
(* No registration is lost.                                                *)
(***************************************************************************)
(* When hooks do nothing to finalizers: resurrected objects wait for the    *)
(* return of the hooks, and nothing else happens before it.                 *)
WaitingInv ==
    /\ phase = "lisp" /\ resurrected # {} => calls # <<>> /\ Top.pc = "hooks"
    /\ \A i \in DOMAIN calls : calls[i].pc = "hooks" => calls[i].list = {}

(* What is held before and after a step on the innermost call.              *)
LEMMA TopHeld ==
    ASSUME TypeOK, calls # <<>>,
           NEW pc \in {"hooks", "finalize", "execute", "finalizer"},
           NEW list \in SUBSET Pair, Replace(Frame(pc, list))
    PROVE  \E rest : /\ Held = IdsOf(registry) \cup IdsOf(resurrected) \cup IdsOf(pending)
                                 \cup IdsOf(Top.list) \cup rest
                     /\ Held' = IdsOf(registry') \cup IdsOf(resurrected') \cup IdsOf(pending')
                                  \cup IdsOf(list) \cup rest
<1> DEFINE n == Len(calls)
           rest == UNION {IdsOf(calls[i].list) : i \in DOMAIN calls \ {n}}
<1>1. /\ DOMAIN calls' = DOMAIN calls /\ n \in DOMAIN calls /\ calls'[n].list = list
      /\ \A i \in DOMAIN calls \ {n} : calls'[i] = calls[i]
      /\ Top.list = calls[n].list
  BY TopReplaced DEF Top
<1> HIDE DEF n
<1>2. UNION {IdsOf(calls[i].list) : i \in DOMAIN calls} = IdsOf(Top.list) \cup rest
  BY <1>1
<1>3. UNION {IdsOf(calls'[i].list) : i \in DOMAIN calls'} = IdsOf(list) \cup rest
  BY <1>1
<1> HIDE DEF rest
<1> QED BY <1>2, <1>3, HeldIs, HeldIsNext

(* The lists of a step that changes only the innermost call, and waits for  *)
(* no hooks after it.                                                       *)
LEMMA TopWaiting ==
    ASSUME TypeOK, WaitingInv, calls # <<>>,
           NEW pc \in {"finalize", "execute", "finalizer"},
           NEW list \in SUBSET Pair, Replace(Frame(pc, list)), resurrected' = {}
    PROVE  WaitingInv'
<1>1. /\ DOMAIN calls' = DOMAIN calls /\ Len(calls) \in DOMAIN calls
      /\ calls'[Len(calls)].pc = pc
      /\ \A i \in DOMAIN calls \ {Len(calls)} : calls'[i] = calls[i]
  BY TopReplaced
<1>2. \A i \in DOMAIN calls' : calls'[i].pc = "hooks" => calls'[i].list = {}
  BY <1>1 DEF WaitingInv
<1> QED BY <1>2 DEF WaitingInv

(* A step drops a registration only by calling its finalizer.               *)
LEMMA KeptStep ==
    ASSUME "hooks" \notin Ops, TypeOK, OnceInv, WaitingInv, [Next]_vars
    PROVE  /\ WaitingInv'
           /\ \A i \in Held \ Held' : CallFinalizer /\ \E p \in Top.list : p.id = i
<1>0. /\ resurrected \subseteq Pair /\ pending \subseteq Pair
      /\ calls # <<>> => Top.list \subseteq Pair
      /\ IdsOf({}) = {}
  BY Frames DEF TypeOK, Top, IdsOf
<1>1. CASE Mutate
  <2>1. calls' = calls /\ resurrected' = resurrected /\ phase' = phase /\ pending' = pending
        /\ registry \subseteq registry'
    BY <1>1 DEF Mutate, Alloc, AllocCode, AllocLargeVector, Store, Assign, MakeWeak,
                RegisterFinalization, finalizers
  <2>2. Held \subseteq Held'
    BY <2>1 DEF Held
  <2> QED BY <2>1, <2>2 DEF WaitingInv, Top
<1>2. CASE \E lev \in 0..3 : GarbageCollect(lev)
  <2>1. /\ resurrected' = {} /\ UNCHANGED <<registry, pending, calls>>
        /\ LispRuns \/ (Does("finalize") /\ "hooks" \in Ops)
    BY <1>2 DEF GarbageCollect
  <2>2. resurrected = {}
    BY <2>1 DEF LispRuns, Does, WaitingInv
  <2>3. Held' = Held
    BY <2>1, <2>2 DEF Held
  <2> QED BY <2>1, <2>3 DEF WaitingInv
<1>3. CASE Wave1 \/ Wave2 \/ Wave3
  <2>1. PICK from \in Spaces, to \in Spaces : Promote(from, to)
    <3>1. "E1" \in Spaces /\ "E2" \in Spaces /\ L1 \in Spaces
      BY DEF TypeOK, Spaces
    <3>2. Wave3 => L1' \in Spaces
      BY DEF Wave3, Spaces
    <3> QED BY <1>3, <3>1, <3>2 DEF Wave1, Wave2, Wave3
  <2>2. phase' # "lisp"
    BY <1>3 DEF Wave1, Wave2, Wave3
  <2>3. Held' = Held
    BY <2>1, WaveOnce
  <2>4. PICK kept, died : Evacuates(from, to, kept, died)
    BY <2>1, PromoteIs
  <2>5. \A i \in DOMAIN calls' : calls'[i].pc = "hooks" => calls'[i].list = {}
    <3>1. calls' = [i \in DOMAIN calls |->
                      IF calls[i].pc \in Finalizing
                      THEN Frame(calls[i].pc, ForwardAll(calls[i].list, from, to))
                      ELSE calls[i]]
      BY <2>4 DEF Evacuates, MoveLists
    <3>2. ASSUME NEW i \in DOMAIN calls', calls'[i].pc = "hooks"
          PROVE  calls'[i].list = {}
      <4>1. i \in DOMAIN calls
        BY <3>1
      <4>2. calls[i].pc \notin Finalizing
        BY <3>1, <3>2, <4>1 DEF Frame, Finalizing
      <4>3. calls'[i] = calls[i]
        BY <3>1, <4>1, <4>2
      <4> QED BY <3>2, <4>1, <4>3 DEF WaitingInv
    <3> QED BY <3>2
  <2> QED BY <2>2, <2>3, <2>5 DEF WaitingInv
<1>4. CASE Protect
  <2>1. UNCHANGED <<registry, resurrected, pending>> /\ calls' = Append(calls, Frame("hooks", {}))
    BY <1>4 DEF Protect
  <2> DEFINE n == Len(calls')
  <2>2. /\ DOMAIN calls' = DOMAIN calls \cup {n} /\ calls' \in Seq(FrameType)
        /\ \A i \in DOMAIN calls : calls'[i] = calls[i]
        /\ calls'[n].list = {} /\ calls'[n].pc = "hooks"
    BY <2>1, TopPushed, SMTT(60)
  <2>3. calls' # <<>> /\ Top'.pc = "hooks"
    BY <2>2 DEF Top
  <2> HIDE DEF n
  <2>4. Held \subseteq Held'
    BY <2>1, <2>2, HeldIs, HeldIsNext
  <2>5. \A i \in DOMAIN calls' : calls'[i].pc = "hooks" => calls'[i].list = {}
    BY <2>2 DEF WaitingInv
  <2> QED BY <2>3, <2>4, <2>5 DEF WaitingInv
<1>5. CASE Finish
  <2>1. CASE HooksReturn
    <3>1. calls # <<>> /\ Replace(Frame("finalize", resurrected)) /\ resurrected' = {}
          /\ UNCHANGED <<registry, pending>> /\ Top.pc = "hooks"
      BY <2>1 DEF HooksReturn, Does
    <3>2. Top.list = {}
      BY <3>1, Frames DEF WaitingInv, Top
    <3>3. Held \subseteq Held'
      BY <1>0, <3>1, <3>2, TopHeld
    <3> QED BY <1>0, <3>1, <3>3, TopWaiting
  <2>2. CASE FinalizeNode
    <3>1. calls # <<>> /\ UNCHANGED <<registry, resurrected>> /\ resurrected = {}
      BY <2>2 DEF FinalizeNode, Does, WaitingInv
    <3>2. PICK p \in Top.list : /\ pending' = pending \cup {p}
                                /\ Replace(Frame("finalize", Top.list \ {p}))
      BY <2>2 DEF FinalizeNode
    <3>3. Top.list \ {p} \in SUBSET Pair
      BY <1>0, <3>1
    <3>4. IdsOf(Top.list) \subseteq IdsOf(Top.list \ {p}) \cup IdsOf(pending')
          /\ IdsOf(pending) \subseteq IdsOf(pending')
      BY <3>2 DEF IdsOf
    <3>5. Held \subseteq Held'
      <4> DEFINE list == Top.list \ {p}
      <4>1. list \in SUBSET Pair /\ Replace(Frame("finalize", list))
        BY <3>2, <3>3
      <4> HIDE DEF list
      <4>2. PICK rest : /\ Held = IdsOf(registry) \cup IdsOf(resurrected) \cup IdsOf(pending)
                                     \cup IdsOf(Top.list) \cup rest
                        /\ Held' = IdsOf(registry') \cup IdsOf(resurrected')
                                      \cup IdsOf(pending') \cup IdsOf(list) \cup rest
        BY <3>1, <4>1, TopHeld
      <4> QED BY <3>1, <3>4, <4>2 DEF list
    <3> QED BY <3>1, <3>2, <3>3, <3>5, TopWaiting
  <2>3. CASE ExecuteFinalizers
    <3>1. calls # <<>> /\ Replace(Frame("execute", pending)) /\ pending' = {}
          /\ UNCHANGED <<registry, resurrected>> /\ Top.list = {} /\ resurrected = {}
      BY <2>3 DEF ExecuteFinalizers, Does, WaitingInv
    <3>2. Held \subseteq Held'
      BY <1>0, <3>1, TopHeld
    <3> QED BY <1>0, <3>1, <3>2, TopWaiting
  <2>4. CASE CallFinalizer
    <3>1. calls # <<>> /\ UNCHANGED <<registry, resurrected, pending>> /\ resurrected = {}
      BY <2>4 DEF CallFinalizer, Does, WaitingInv
    <3>2. PICK p \in Top.list : Replace(Frame("finalizer", Top.list \ {p}))
      BY <2>4 DEF CallFinalizer
    <3>3. Top.list \ {p} \in SUBSET Pair
      BY <1>0, <3>1
    <3>4. IdsOf(Top.list) \subseteq IdsOf(Top.list \ {p}) \cup {p.id}
      BY DEF IdsOf
    <3>5. Held \subseteq Held' \cup {p.id}
      <4> DEFINE list == Top.list \ {p}
      <4>1. list \in SUBSET Pair /\ Replace(Frame("finalizer", list))
        BY <3>2, <3>3
      <4> HIDE DEF list
      <4>2. PICK rest : /\ Held = IdsOf(registry) \cup IdsOf(resurrected) \cup IdsOf(pending)
                                     \cup IdsOf(Top.list) \cup rest
                        /\ Held' = IdsOf(registry') \cup IdsOf(resurrected')
                                      \cup IdsOf(pending') \cup IdsOf(list) \cup rest
        BY <3>1, <4>1, TopHeld
      <4> QED BY <3>1, <3>4, <4>2 DEF list
    <3> QED BY <2>4, <3>1, <3>2, <3>3, <3>5, TopWaiting
  <2>5. CASE GarbageCollectReturns
    <3>1. calls # <<>> /\ calls' = SubSeq(calls, 1, Len(calls) - 1)
          /\ UNCHANGED <<registry, resurrected, pending, phase>>
          /\ Top.list = {} /\ resurrected = {}
      BY <2>5 DEF GarbageCollectReturns, Does, WaitingInv
    <3>2. /\ DOMAIN calls' = DOMAIN calls \ {Len(calls)} /\ Len(calls) \in DOMAIN calls
          /\ \A i \in DOMAIN calls' : calls'[i] = calls[i]
          /\ calls[Len(calls)].list = {}
      BY <3>1, TopReturned DEF Top
    <3>3. UNION {IdsOf(calls[i].list) : i \in DOMAIN calls}
             = UNION {IdsOf(calls'[i].list) : i \in DOMAIN calls'}
      BY <1>0, <3>2
    <3>4. Held' = Held
      BY <3>1, <3>3, HeldIs, HeldIsNext
    <3> QED BY <3>1, <3>2, <3>4 DEF WaitingInv
  <2> QED BY <1>5, <2>1, <2>2, <2>3, <2>4, <2>5 DEF Finish
<1>6. CASE UNCHANGED vars
  BY <1>6 DEF vars, WaitingInv, Top, Held
<1> QED BY <1>1, <1>2, <1>3, <1>4, <1>5, <1>6 DEF Next

(* When hooks do nothing to finalizers, a registration is held until its    *)
(* finalizer is called, through every collection and every call.            *)
THEOREM FinalizersNotLost ==
    ASSUME "hooks" \notin Ops
    PROVE  Spec => FinalizersKept
<1> DEFINE Inv == TypeOK /\ OnceInv /\ WaitingInv
           Drop == \A i \in Held \ Held' : CallFinalizer /\ \E p \in Top.list : p.id = i
<1>1. Init => Inv
  BY FinalizersFirst DEF Init, WaitingInv
<1>2. Inv /\ [Next]_vars => Inv'
  BY TypesStep, OnceStep, KeptStep
<1>3. Inv /\ [Next]_vars => [Drop]_vars
  BY KeptStep
<1> HIDE DEF Inv, Drop
<1>4. Spec => [][Drop]_vars
  BY <1>1, <1>2, <1>3, PTL DEF Spec
<1> QED BY <1>4 DEF FinalizersKept, Drop

(***************************************************************************)
(* The roots of a wave.                                                    *)
(***************************************************************************)
LEMMA RootPairTypes ==
    ASSUME TypeOK
    PROVE  RootPairs \subseteq Pair
<1>1. \A i \in DOMAIN calls : calls[i].list \subseteq Pair
  BY Frames
<1> QED BY <1>1 DEF RootPairs, TypeOK

LEMMA RootPointerTypes ==
    ASSUME TypeOK
    PROVE  \A a \in RootPointers : a \in Addr \cup {Nil}
BY RootPairTypes, PointerTypes DEF RootPointers, TypeOK

(* A pair of a list that is a root is in a list, forwarded, after the wave. *)
LEMMA RootPairsMoved ==
    ASSUME NEW from, NEW to, NEW died, MoveLists(from, to, died), NEW p \in RootPairs
    PROVE  Forward(p, from, to) \in Queued'
<1>1. CASE p \in resurrected \cup pending
  BY <1>1 DEF MoveLists, ForwardAll, Queued
<1>2. ASSUME NEW i \in DOMAIN calls, calls[i].pc \in Finalizing, p \in calls[i].list
      PROVE  Forward(p, from, to) \in Queued'
  <2>1. calls'[i] = Frame(calls[i].pc, ForwardAll(calls[i].list, from, to)) /\ i \in DOMAIN calls'
    BY <1>2 DEF MoveLists
  <2>2. Forward(p, from, to) \in calls'[i].list
    BY <1>2, <2>1 DEF Frame, ForwardAll
  <2> QED BY <2>1, <2>2 DEF Queued
<1> QED BY <1>1, <1>2 DEF RootPairs

(***************************************************************************)
(* A full collection leaves nothing else.                                  *)
(***************************************************************************)
(* What a wave promotes of a set that contains the start and what its      *)
(* promoted members point to in the from-space.                            *)
LEMMA PromotedInside ==
    ASSUME NEW start \in SUBSET Objs, NEW from, NEW S \in SUBSET Objs, start \subseteq S,
           \A p \in S \cap Promoted(start, from) :
              Points(ref[p], from) => ref[p].obj \in Objs /\ ref[p].obj \in S
    PROVE  Promoted(start, from) \subseteq S
<1> DEFINE moved == Promoted(start, from)
<1>1. start \subseteq moved
  BY PromotedContains
<1>2. \A p \in S \cap moved : Points(ref[p], from) => ref[p].obj \in S \cap moved
  BY PromotedClosed
<1>3. S \cap moved \in SUBSET Objs /\ start \subseteq S \cap moved
  BY <1>1
<1>4. moved \subseteq S \cap moved
  BY <1>2, <1>3 DEF Promoted
<1> QED BY <1>4

(* Once the third wave is done what exists is what it has promoted, and it  *)
(* starts from what the program has.                                        *)
LEMMA Wave3Precise ==
    ASSUME PointersInv, Wave3
    PROVE  FullCollectionIsPrecise'
<1> USE DEF PointersInv
<1>1. Promote(L1, L1') /\ phase = "wave3" /\ L1' \in {"A", "B"} /\ L1' # L1
  BY DEF Wave3, TypeOK
<1>2. PICK kept, died : Evacuates(L1, L1', kept, died)
  BY <1>1, PromoteIs
<1> DEFINE live == Live(L1, kept)
           forwarded == Forwarded(L1, kept, died)
           moved == Promoted(forwarded, L1)
<1>3. /\ kept = {} /\ died \subseteq registry /\ MoveObjects(L1, L1', moved)
      /\ MoveLists(L1, L1', died)
      /\ root' = [r \in Roots |-> Update(root[r], L1, L1')]
      /\ \A e \in died : e.sp = L1
  BY <1>2, Places DEF Evacuates, Dead, KeptByOlder
<1>4. WaveSafe(L1, L1') /\ \A o \in Objs : Object(o, L1, L1')
  BY <1>1, Wave3Safe, WaveFollows
<1>5. L1 \in Spaces /\ L1' \in Spaces /\ registry \subseteq Entry
  BY <1>1, Places DEF Spaces, TypeOK
<1> SUFFICES ASSUME NEW o \in Objs, kind'[o] # "free",
                    NEW S \in SUBSET Objs,
                    {a.obj : a \in ProgramPointers' \ {Nil}} \subseteq S,
                    \A p \in S : ref'[p] # Nil => ref'[p].obj \in S
             PROVE  o \in S
  BY DEF FullCollectionIsPrecise, ProgramObjects, Reachable
<1>6. OldPointers(L1) = {}
  BY Places DEF OldPointers, Scanned, Older
<1>7. \A a \in RootPointers : a \in Addr \cup {Nil}
  BY RootPointerTypes
<1>8. \A a \in RootPointers : Points(a, L1) => a.obj \in S
  <2>1. ASSUME NEW r \in Roots, Points(root[r], L1)
        PROVE  root[r].obj \in S
    <3>1. root[r] \in Addr /\ root[r] # Nil
      BY <2>1 DEF Points, TypeOK
    <3>2. root'[r].obj = root[r].obj /\ root'[r] # Nil
      BY <1>3, <1>5, <3>1, ForwardTypes, CopyAssumption DEF Update
    <3> QED BY <3>2 DEF ProgramPointers
  <2>2. ASSUME NEW p \in RootPairs
        PROVE  Pointer(p).obj \in S
    <3>1. p \in Pair
      BY RootPairTypes
    <3>2. Forward(p, L1, L1') \in Queued'
      BY <1>3, RootPairsMoved
    <3>3. Forward(p, L1, L1') \in Pair /\ Forward(p, L1, L1').obj = p.obj
      BY <1>5, <3>1, ForwardTypes
    <3> DEFINE q == Forward(p, L1, L1')
    <3> HIDE DEF q
    <3>4. Pointer(q) \in ProgramPointers' \ {Nil} /\ Pointer(q).obj = p.obj /\ Pointer(p).obj = p.obj
      BY <3>1, <3>2, <3>3, PointerTypes DEF ProgramPointers, q
    <3> QED BY <3>4
  <2> QED BY <2>1, <2>2 DEF RootPointers
<1>9. ASSUME NEW p \in S, kind[p] # "free" => p \in moved, Points(ref[p], L1)
      PROVE  ref[p].obj \in Objs /\ ref[p].obj \in S
  <2>1. ref[p] \in Addr /\ ref[p] # Nil /\ kind[p] # "free" /\ p \in Objs /\ ref[p].obj \in Objs
    BY <1>9, Places DEF Points, ValidInv, Exists
  <2>2. kind'[p] # "free"
    BY <1>3, <1>9, <2>1 DEF MoveObjects
  <2>3. ref'[p] = Update(ref[p], L1, L1')
    BY <1>4, <2>1, <2>2 DEF Object
  <2>4. ref'[p] # Nil /\ ref'[p].obj = ref[p].obj
    BY <1>5, <2>1, <2>3, ForwardTypes, CopyAssumption DEF Update
  <2> QED BY <2>1, <2>4
<1>10. live \subseteq moved /\ forwarded \subseteq Objs
  <2>1. live \subseteq Objs /\ forwarded \subseteq Objs
    BY <1>3, <1>5 DEF Live, Promoted, Forwarded, Entry
  <2> HIDE DEF forwarded
  <2>2. forwarded \subseteq moved
    BY <2>1, PromotedContains
  <2> QED BY <2>1, <2>2 DEF forwarded, Forwarded
<1>11. live \subseteq S
  <2> DEFINE start == {a.obj : a \in {b \in Strong(L1, kept) : Points(b, L1)}}
  <2>1. Strong(L1, kept) = RootPointers
    BY <1>3, <1>6 DEF Strong
  <2>2. start \subseteq Objs /\ start \subseteq S
    BY <1>7, <1>8, <2>1 DEF Points, Addr
  <2>3. live = Promoted(start, L1)
    BY DEF Live
  <2> HIDE DEF start, live, moved
  <2> QED BY <1>9, <1>10, <2>2, <2>3, PromotedInside
<1>12. ASSUME NEW e \in died
       PROVE  e.obj \in S
  <2> DEFINE p == [id |-> e.id, obj |-> e.obj, sp |-> e.sp]
             q == Forward(p, L1, L1')
  <2>1. p \in Pair /\ p.obj = e.obj
    BY <1>3, <1>5 DEF Entry, Pair
  <2>2. q \in resurrected'
    BY <1>3 DEF MoveLists, ForwardAll
  <2> HIDE DEF p
  <2>3. q \in Pair /\ q.obj = e.obj
    BY <1>5, <2>1, ForwardTypes
  <2> HIDE DEF q
  <2>4. Pointer(q) \in ProgramPointers' \ {Nil} /\ Pointer(q).obj = e.obj
    BY <2>2, <2>3, PointerTypes DEF ProgramPointers, Queued
  <2> QED BY <2>4
<1>13. forwarded \subseteq S
  BY <1>11, <1>12 DEF Forwarded
<1>14. moved \subseteq S
  <2> HIDE DEF forwarded
  <2> QED BY <1>9, <1>10, <1>13, PromotedInside
<1>15. o \in moved
  BY <1>1, <1>3 DEF MoveObjects, PhaseInv, Exists
<1> QED BY <1>14, <1>15

(* After a full collection every object that is left is one the program     *)
(* can come to use: also cycles of garbage are gone, whatever generation    *)
(* they were in and however old what points to them was.                    *)
THEOREM FullCollectionPrecise ==
    ASSUME Ops \cap {"setInfo", "hooks"} = {}
    PROVE  Spec => []FullCollectionIsPrecise
<1>1. Init => FullCollectionIsPrecise
  BY DEF Init, FullCollectionIsPrecise
<1>2. PointersInv /\ FullCollectionIsPrecise /\ [Next]_vars => FullCollectionIsPrecise'
  <2> SUFFICES ASSUME PointersInv, FullCollectionIsPrecise, [Next]_vars
               PROVE  FullCollectionIsPrecise'
    OBVIOUS
  <2>1. CASE Wave3
    BY <2>1, Wave3Precise
  <2>2. CASE Wave1
    BY <2>2 DEF Wave1, FullCollectionIsPrecise, PointersInv, TypeOK
  <2>3. CASE Wave2
    BY <2>3 DEF Wave2, FullCollectionIsPrecise, PointersInv, TypeOK
  <2>4. CASE Mutate
    BY <2>4 DEF Mutate, Alloc, AllocCode, AllocLargeVector, Store, Assign, MakeWeak,
                RegisterFinalization, LispRuns, FullCollectionIsPrecise
  <2>5. CASE (\E lev \in 0..3 : GarbageCollect(lev)) \/ Protect
    BY <2>5 DEF GarbageCollect, Protect, FullCollectionIsPrecise
  <2>6. CASE Finish
    BY <2>6 DEF Finish, HooksReturn, FinalizeNode, ExecuteFinalizers, CallFinalizer,
                GarbageCollectReturns, Does, FullCollectionIsPrecise
  <2>7. CASE UNCHANGED vars
    BY <2>7 DEF vars, FullCollectionIsPrecise, ProgramObjects, ProgramPointers, Reachable,
                Queued, Pointer
  <2> QED BY <2>1, <2>2, <2>3, <2>4, <2>5, <2>6, <2>7 DEF Next
<1> QED BY <1>1, <1>2, PointersAlwaysValid, PTL DEF Spec

(***************************************************************************)
(* The collector implements HeapGraph.                                     *)
(***************************************************************************)
(* The graph when every pointer is valid.                                   *)
Obj(a) == IF a = Nil THEN Nil ELSE a.obj
Node(p) == [id |-> p.id, obj |-> p.obj]

GraphNow ==
    /\ GraphAlive = {o \in Objs : kind[o] # "free"}
    /\ GraphRef = [o \in Objs |-> Obj(ref[o])]
    /\ GraphRoot = [r \in Roots |-> Obj(root[r])]
    /\ GraphWeak = [w \in Weaks |-> Obj(weak[w].target)]
    /\ GraphRegistry = {Node(e) : e \in registry}
    /\ GraphQueue = {Node(p) : p \in Queued}

LEMMA QueuedTypes ==
    ASSUME PointersInv
    PROVE  Queued \subseteq Pair /\ \A p \in Queued : Valid(Pointer(p))
<1>1. \A i \in DOMAIN calls : calls[i].list \subseteq Pair
  BY Frames DEF PointersInv
<1> QED BY <1>1 DEF Queued, PointersInv, TypeOK, ValidInv

LEMMA GraphIs == PointersInv => GraphNow
<1> SUFFICES ASSUME PointersInv
             PROVE  GraphNow
  OBVIOUS
<1> USE DEF PointersInv
<1>1. \A a : Valid(a) => Deref(a) = Obj(a)
  BY DEF Deref, Obj
<1>2. /\ \A o \in Objs : Deref(ref[o]) = Obj(ref[o])
      /\ \A r \in Roots : Deref(root[r]) = Obj(root[r])
      /\ \A w \in Weaks : Deref(weak[w].target) = Obj(weak[w].target)
  BY <1>1 DEF ValidInv
<1>3. \A e \in registry : [id |-> e.id, obj |-> Deref(Pointer(e))] = Node(e)
  BY <1>1, PointerTypes DEF ValidInv, TypeOK, Obj, Node
<1>4. \A p \in Queued : [id |-> p.id, obj |-> Deref(Pointer(p))] = Node(p)
  BY <1>1, QueuedTypes, PointerTypes DEF Obj, Node
<1>5. GraphRegistry = {Node(e) : e \in registry}
  BY <1>3 DEF GraphRegistry, GraphEntries
<1>6. GraphQueue = {Node(p) : p \in Queued}
  BY <1>4 DEF GraphQueue, GraphEntries
<1>7. GraphRef = [o \in Objs |-> Obj(ref[o])] /\ GraphRoot = [r \in Roots |-> Obj(root[r])]
      /\ GraphWeak = [w \in Weaks |-> Obj(weak[w].target)]
  BY <1>2 DEF GraphRef, GraphRoot, GraphWeak
<1> QED BY <1>5, <1>6, <1>7 DEF GraphNow, GraphAlive

LEMMA GraphThen == (PointersInv => GraphNow)'
BY GraphIs, PTL

(* A step that changes no object, variable, weak pointer or entry, and no   *)
(* list taken together, changes nothing in the graph.                       *)
Lists == UNION {calls[i].list : i \in DOMAIN calls}

LEMMA QueuedIs == Queued = resurrected \cup pending \cup Lists
BY DEF Queued, Lists

LEMMA QueuedThen == Queued' = resurrected' \cup pending' \cup Lists'
BY DEF Queued, Lists

LEMMA GraphStutters ==
    ASSUME PointersInv, PointersInv', Queued' = Queued, UNCHANGED registry,
           UNCHANGED root, UNCHANGED heap
    PROVE  UNCHANGED Graph!vars
<1>1. GraphNow /\ GraphNow'
  BY GraphIs, GraphThen
<1> QED BY <1>1 DEF GraphNow, Graph!vars, heap, Obj, Node

(***************************************************************************)
(* Steps of the program.                                                   *)
(***************************************************************************)
LEMMA ProgramValues ==
    ASSUME PointersInv
    PROVE  /\ \A v \in Values : Obj(v) \in Graph!Values
           /\ \A v \in Readable : Obj(v) \in Graph!Readable
           /\ \A r \in Roots : root[r] # Nil => /\ GraphRoot[r] = root[r].obj
                                                /\ root[r].obj \in Objs
                                                /\ GraphRoot[r] # Nil
<1>1. GraphNow
  BY GraphIs
<1>2. \A r \in Roots : GraphRoot[r] = Obj(root[r])
  BY <1>1 DEF GraphNow
<1>3. Obj(Nil) = Nil
  BY DEF Obj
<1>4. \A v \in Values : Obj(v) \in Graph!Values
  BY <1>2, <1>3 DEF Values, Graph!Values
<1>5. \A r \in Roots : root[r] # Nil => /\ GraphRoot[r] = root[r].obj
                                        /\ root[r].obj \in Objs
                                        /\ GraphRoot[r] # Nil
  BY <1>2, CopyAssumption DEF Obj, PointersInv, TypeOK, Addr
<1>6. \A r \in Roots : root[r] # Nil => GraphRef[GraphRoot[r]] = Obj(ref[root[r].obj])
  BY <1>1, <1>5 DEF GraphNow
<1>7. \A w \in Weaks : GraphWeak[w] = Obj(weak[w].target)
  BY <1>1 DEF GraphNow
<1>8. ASSUME NEW v \in Readable
      PROVE  Obj(v) \in Graph!Readable
  <2>1. CASE v = Nil
    BY <1>3, <2>1 DEF Graph!Readable
  <2>2. CASE \E r \in Roots : root[r] # Nil /\ v = ref[root[r].obj]
    BY <1>5, <1>6, <2>2 DEF Graph!Readable
  <2>3. CASE \E w \in Weaks : v = weak[w].target
    BY <1>7, <2>3 DEF Graph!Readable
  <2> QED BY <2>1, <2>2, <2>3 DEF Readable
<1> QED BY <1>4, <1>5, <1>8

LEMMA AllocIsNew ==
    ASSUME PointersInv, PointersInv', NEW o \in Objs, NEW r \in Roots, NEW v \in Values,
           NEW k \in {"cons", "code"}, NEW sp, Alloc(o, r, v, k, sp)
    PROVE  Graph!Next
<1>1. GraphNow /\ GraphNow'
  BY GraphIs, GraphThen
<1>2. /\ kind[o] = "free" /\ kind' = [kind EXCEPT ![o] = k]
      /\ ref' = [ref EXCEPT ![o] = v] /\ root' = [root EXCEPT ![r] = [obj |-> o, sp |-> sp]]
      /\ weak' = weak /\ registry' = registry /\ Queued' = Queued
  BY DEF Alloc, finalizers, Queued
<1>3. o \notin GraphAlive /\ GraphAlive' = GraphAlive \cup {o}
  BY <1>1, <1>2 DEF GraphNow, PointersInv, TypeOK
<1>4. GraphRef' = [GraphRef EXCEPT ![o] = Obj(v)]
  BY <1>1, <1>2 DEF GraphNow, PointersInv, TypeOK
<1>5. GraphRoot' = [GraphRoot EXCEPT ![r] = o]
  <2>1. root'[r] # Nil /\ Obj(root'[r]) = o
    <3>1. root'[r] = [obj |-> o, sp |-> sp] /\ root'[r] \in Addr \cup {Nil}
      BY <1>2 DEF PointersInv, TypeOK
    <3>2. at'[o] \in Spaces /\ [obj |-> o, sp |-> sp] # Nil
      <4>1. at'[o] = sp /\ at'[o] \in Spaces
        BY DEF Alloc, PointersInv, TypeOK
      <4>2. [obj |-> o, sp |-> sp] \in Addr
        BY <4>1 DEF Addr
      <4> QED BY <4>1, <4>2, CopyAssumption
    <3> QED BY <3>1, <3>2 DEF Obj
  <2>2. \A s \in Roots \ {r} : root'[s] = root[s]
    BY <1>2 DEF PointersInv, TypeOK
  <2> QED BY <1>1, <2>1, <2>2 DEF GraphNow
<1>6. GraphWeak' = GraphWeak /\ GraphRegistry' = GraphRegistry /\ GraphQueue' = GraphQueue
  BY <1>1, <1>2 DEF GraphNow
<1>7. Graph!New(o, r, Obj(v))
  BY <1>3, <1>4, <1>5, <1>6 DEF Graph!New
<1> QED BY <1>7, ProgramValues DEF Graph!Next

LEMMA MutateInGraph ==
    ASSUME PointersInv, PointersInv', Mutate
    PROVE  Graph!Next
<1>1. GraphNow /\ GraphNow'
  BY GraphIs, GraphThen
<1>2. CASE \E o \in Objs, r \in Roots, v \in Values :
              Alloc(o, r, v, "cons", "E1") \/ AllocCode(o, r, v)
  BY <1>2, AllocIsNew DEF AllocCode
<1>3. CASE \E o \in Objs, r \in Roots : AllocLargeVector(o, r)
  BY <1>3, AllocIsNew DEF AllocLargeVector, Values
<1>4. CASE \E r \in Roots, v \in Values : Store(r, v)
  <2>1. PICK r \in Roots, v \in Values : Store(r, v)
    BY <1>4
  <2>2. root[r] # Nil /\ ref' = [ref EXCEPT ![root[r].obj] = v]
        /\ UNCHANGED <<kind, root, weak, registry>> /\ Queued' = Queued
    BY <2>1 DEF Store, finalizers, Queued
  <2>3. GraphRoot[r] = root[r].obj /\ root[r].obj \in Objs /\ GraphRoot[r] # Nil
    BY <2>2, ProgramValues
  <2>4. GraphRef' = [GraphRef EXCEPT ![GraphRoot[r]] = Obj(v)]
    BY <1>1, <2>2, <2>3 DEF GraphNow, PointersInv, TypeOK
  <2>5. UNCHANGED <<GraphAlive, GraphRoot, GraphWeak, GraphRegistry, GraphQueue>>
    BY <1>1, <2>2 DEF GraphNow
  <2>6. Graph!Store(r, Obj(v))
    BY <2>3, <2>4, <2>5 DEF Graph!Store
  <2> QED BY <2>6, ProgramValues DEF Graph!Next
<1>5. CASE \E r \in Roots, v \in Readable : Assign(r, v)
  <2>1. PICK r \in Roots, v \in Readable : Assign(r, v)
    BY <1>5
  <2>2. root' = [root EXCEPT ![r] = v] /\ UNCHANGED <<kind, ref, weak, registry>>
        /\ Queued' = Queued
    BY <2>1 DEF Assign, heap, finalizers, Queued
  <2>3. GraphRoot' = [GraphRoot EXCEPT ![r] = Obj(v)]
    BY <1>1, <2>2 DEF GraphNow, PointersInv, TypeOK
  <2>4. UNCHANGED <<GraphAlive, GraphRef, GraphWeak, GraphRegistry, GraphQueue>>
    BY <1>1, <2>2 DEF GraphNow
  <2>5. Graph!Assign(r, Obj(v))
    BY <2>3, <2>4 DEF Graph!Assign
  <2> QED BY <2>5, ProgramValues DEF Graph!Next
<1>6. CASE \E w \in Weaks, r \in Roots : MakeWeak(w, r)
  <2>1. PICK w \in Weaks, r \in Roots : MakeWeak(w, r)
    BY <1>6
  <2>2. /\ weak[w].target = Nil /\ root[r] # Nil
        /\ weak' = [weak EXCEPT ![w] = [at |-> "E1", target |-> root[r]]]
        /\ UNCHANGED <<kind, ref, root, registry>> /\ Queued' = Queued
    BY <2>1 DEF MakeWeak, finalizers, Queued
  <2>3. GraphRoot[r] = Obj(root[r]) /\ GraphRoot[r] # Nil /\ GraphWeak[w] = Nil
    BY <1>1, <2>2, ProgramValues DEF GraphNow, Obj
  <2>4. GraphWeak' = [GraphWeak EXCEPT ![w] = GraphRoot[r]]
    BY <1>1, <2>2, <2>3 DEF GraphNow, PointersInv, TypeOK
  <2>5. UNCHANGED <<GraphAlive, GraphRef, GraphRoot, GraphRegistry, GraphQueue>>
    BY <1>1, <2>2 DEF GraphNow
  <2>6. Graph!MakeWeak(w, r)
    BY <2>3, <2>4, <2>5 DEF Graph!MakeWeak
  <2> QED BY <2>6 DEF Graph!Next
<1>7. CASE \E i \in Ids, r \in Roots : RegisterFinalization(i, r)
  <2>1. PICK i \in Ids, r \in Roots : RegisterFinalization(i, r)
    BY <1>7
  <2> DEFINE e == [id |-> i, obj |-> root[r].obj, sp |-> root[r].sp, cell |-> "E1"]
  <2>2. /\ i \notin Held /\ root[r] # Nil /\ registry' = registry \cup {e}
        /\ UNCHANGED <<kind, ref, root, weak>> /\ Queued' = Queued
    BY <2>1 DEF RegisterFinalization, heap, Queued
  <2>3. GraphRoot[r] = root[r].obj /\ GraphRoot[r] # Nil
    BY <2>2, ProgramValues
  <2>4. Node(e) = [id |-> i, obj |-> GraphRoot[r]]
    BY <2>3 DEF Node
  <2> HIDE DEF e
  <2>5. GraphRegistry' = GraphRegistry \cup {[id |-> i, obj |-> GraphRoot[r]]}
    BY <1>1, <2>2, <2>4 DEF GraphNow
  <2>6. UNCHANGED <<GraphAlive, GraphRef, GraphRoot, GraphWeak, GraphQueue>>
    BY <1>1, <2>2 DEF GraphNow
  <2>7. i \notin Graph!Registered
    <3>1. \A p \in registry \cup Queued : p.id \in Held
      BY DEF Held, Queued
    <3>2. \A p \in GraphRegistry \cup GraphQueue : p.id \in Held
      BY <1>1, <3>1 DEF GraphNow, Node
    <3> QED BY <2>2, <3>2 DEF Graph!Registered
  <2>8. Graph!Register(i, r)
    BY <2>3, <2>5, <2>6, <2>7 DEF Graph!Register
  <2> QED BY <2>8 DEF Graph!Next
<1> QED BY <1>2, <1>3, <1>4, <1>5, <1>6, <1>7 DEF Mutate

(***************************************************************************)
(* What precedes and follows the waves.                                    *)
(***************************************************************************)
(* The lists taken together when the innermost call changes.                *)
LEMMA TopLists ==
    ASSUME TypeOK, calls # <<>>,
           NEW pc \in {"hooks", "finalize", "execute", "finalizer"},
           NEW list \in SUBSET Pair, Replace(Frame(pc, list))
    PROVE  \E rest : /\ Lists = Top.list \cup rest /\ Lists' = list \cup rest
                     /\ rest = UNION {calls[i].list : i \in DOMAIN calls \ {Len(calls)}}
<1> DEFINE n == Len(calls)
           rest == UNION {calls[i].list : i \in DOMAIN calls \ {n}}
<1>1. /\ DOMAIN calls' = DOMAIN calls /\ n \in DOMAIN calls /\ calls'[n].list = list
      /\ \A i \in DOMAIN calls \ {n} : calls'[i] = calls[i]
      /\ Top.list = calls[n].list
  BY TopReplaced DEF Top
<1> HIDE DEF n
<1>2. Lists = Top.list \cup rest
  BY <1>1 DEF Lists
<1>3. Lists' = list \cup rest
  BY <1>1 DEF Lists
<1> QED BY <1>2, <1>3 DEF n

(* What a call holds for finalizers is held by nothing else.                *)
LEMMA TopAlone ==
    ASSUME TypeOK, OnceInv, calls # <<>>, NEW p \in Top.list,
           NEW q \in resurrected \cup pending \cup (Top.list \ {p})
                       \cup UNION {calls[i].list : i \in DOMAIN calls \ {Len(calls)}}
    PROVE  p.id # q.id
<1> DEFINE n == Len(calls)
<1>1. n \in DOMAIN calls /\ Top.list = calls[n].list
  BY Frames DEF Top
<1> HIDE DEF n
<1>2. CASE q \in resurrected \cup pending
  BY <1>1, <1>2 DEF OnceInv, Apart, IdsOf
<1>3. CASE q \in Top.list \ {p}
  BY <1>1, <1>3 DEF OnceInv, Single
<1>4. ASSUME NEW i \in DOMAIN calls \ {n}, q \in calls[i].list
      PROVE  p.id # q.id
  <2>1. Apart(calls[n].list, calls[i].list)
    BY <1>1, <1>4 DEF OnceInv
  <2> QED BY <1>1, <1>4, <2>1 DEF Apart, IdsOf
<1> QED BY <1>2, <1>3, <1>4 DEF n

LEMMA CallInGraph ==
    ASSUME PointersInv, PointersInv', OnceInv, CallFinalizer
    PROVE  Graph!Next
<1> USE DEF PointersInv
<1>1. GraphNow /\ GraphNow'
  BY GraphIs, GraphThen
<1>2. calls # <<>> /\ UNCHANGED <<registry, resurrected, pending>> /\ UNCHANGED heap
  BY DEF CallFinalizer, Does
<1>3. PICK p \in Top.list :
        /\ Replace(Frame("finalizer", Top.list \ {p}))
        /\ \/ UNCHANGED root
           \/ \E r \in Roots : root' = [root EXCEPT ![r] = Pointer(p)]
  BY DEF CallFinalizer
<1> DEFINE list == Top.list \ {p}
<1>4. Top.list \subseteq Pair /\ p \in Pair /\ list \in SUBSET Pair
      /\ Replace(Frame("finalizer", list))
  BY <1>2, <1>3, Frames DEF Top
<1>5. list = Top.list \ {p}
  OBVIOUS
<1> HIDE DEF list
<1>6. PICK rest : /\ Lists = Top.list \cup rest /\ Lists' = list \cup rest
                  /\ rest = UNION {calls[i].list : i \in DOMAIN calls \ {Len(calls)}}
  BY <1>2, <1>4, TopLists
<1>7. /\ Queued = {p} \cup Queued'
      /\ \A q \in Queued' : q.id # p.id
  <2>1. Queued' = resurrected \cup pending \cup (Top.list \ {p}) \cup rest
    BY <1>2, <1>5, <1>6, QueuedThen
  <2>2. Queued = resurrected \cup pending \cup Top.list \cup rest
    BY <1>6, QueuedIs
  <2>3. Queued = {p} \cup Queued'
    BY <1>3, <2>1, <2>2
  <2> QED BY <1>2, <1>6, <2>1, <2>3, TopAlone
<1>8. Node(p) \in GraphQueue /\ GraphQueue' = GraphQueue \ {Node(p)}
  <2>1. \A q \in Queued' : Node(q) # Node(p)
    BY <1>7 DEF Node
  <2> QED BY <1>1, <1>7, <2>1 DEF GraphNow
<1>9. \/ GraphRoot' = GraphRoot
      \/ \E r \in Roots : GraphRoot' = [GraphRoot EXCEPT ![r] = Node(p).obj]
  <2>1. CASE UNCHANGED root
    BY <1>1, <2>1 DEF GraphNow
  <2>2. ASSUME NEW r \in Roots, root' = [root EXCEPT ![r] = Pointer(p)]
        PROVE  GraphRoot' = [GraphRoot EXCEPT ![r] = Node(p).obj]
    <3>1. Obj(Pointer(p)) = Node(p).obj
      BY <1>4, PointerTypes DEF Obj, Node
    <3>2. root'[r] = Pointer(p) /\ \A s \in Roots \ {r} : root'[s] = root[s]
      BY <2>2 DEF TypeOK
    <3> QED BY <1>1, <3>1, <3>2 DEF GraphNow
  <2> QED BY <1>3, <2>1, <2>2
<1>10. UNCHANGED <<GraphAlive, GraphRef, GraphWeak, GraphRegistry>>
  BY <1>1, <1>2 DEF GraphNow, heap
<1>11. Graph!Finalize(Node(p))
  BY <1>8, <1>9, <1>10 DEF Graph!Finalize
<1> QED BY <1>8, <1>11 DEF Graph!Next

LEMMA FinishInGraph ==
    ASSUME PointersInv, PointersInv', OnceInv, WaitingInv, Finish
    PROVE  [Graph!Next]_Graph!vars
<1> USE DEF PointersInv
<1>0. /\ resurrected \subseteq Pair /\ pending \subseteq Pair
      /\ calls # <<>> => Top.list \subseteq Pair
  BY Frames DEF TypeOK, Top
<1>1. CASE HooksReturn
  <2>1. calls # <<>> /\ Replace(Frame("finalize", resurrected)) /\ resurrected' = {}
        /\ UNCHANGED <<registry, pending, root>> /\ UNCHANGED heap /\ Top.pc = "hooks"
    BY <1>1 DEF HooksReturn, Does
  <2>2. Top.list = {}
    BY <2>1, Frames DEF WaitingInv, Top
  <2>3. PICK rest : Lists = Top.list \cup rest /\ Lists' = resurrected \cup rest
    BY <1>0, <2>1, TopLists
  <2>4. Queued' = Queued
    BY <2>1, <2>2, <2>3, QueuedIs, QueuedThen
  <2> QED BY <2>1, <2>4, GraphStutters
<1>2. CASE FinalizeNode
  <2>1. calls # <<>> /\ UNCHANGED <<registry, resurrected, root>> /\ UNCHANGED heap
    BY <1>2 DEF FinalizeNode, Does
  <2>2. PICK p \in Top.list : /\ pending' = pending \cup {p}
                              /\ Replace(Frame("finalize", Top.list \ {p}))
    BY <1>2 DEF FinalizeNode
  <2> DEFINE list == Top.list \ {p}
  <2>3. list \in SUBSET Pair /\ Replace(Frame("finalize", list)) /\ Top.list = list \cup {p}
    BY <1>0, <2>1, <2>2
  <2> HIDE DEF list
  <2>4. PICK rest : Lists = Top.list \cup rest /\ Lists' = list \cup rest
    BY <2>1, <2>3, TopLists
  <2>5. Queued' = Queued
    BY <2>1, <2>2, <2>3, <2>4, QueuedIs, QueuedThen
  <2> QED BY <2>1, <2>5, GraphStutters
<1>3. CASE ExecuteFinalizers
  <2>1. calls # <<>> /\ Replace(Frame("execute", pending)) /\ pending' = {}
        /\ UNCHANGED <<registry, resurrected, root>> /\ UNCHANGED heap /\ Top.list = {}
    BY <1>3 DEF ExecuteFinalizers, Does
  <2>2. PICK rest : Lists = Top.list \cup rest /\ Lists' = pending \cup rest
    BY <1>0, <2>1, TopLists
  <2>3. Queued' = Queued
    BY <2>1, <2>2, QueuedIs, QueuedThen
  <2> QED BY <2>1, <2>3, GraphStutters
<1>4. CASE CallFinalizer
  BY <1>4, CallInGraph
<1>5. CASE GarbageCollectReturns
  <2>1. calls # <<>> /\ calls' = SubSeq(calls, 1, Len(calls) - 1) /\ Top.list = {}
        /\ UNCHANGED <<registry, resurrected, pending, root>> /\ UNCHANGED heap
    BY <1>5 DEF GarbageCollectReturns, Does
  <2>2. /\ DOMAIN calls' = DOMAIN calls \ {Len(calls)}
        /\ \A i \in DOMAIN calls' : calls'[i] = calls[i]
        /\ calls[Len(calls)].list = {}
    BY <2>1, TopReturned DEF Top
  <2>3. Lists' = Lists
    BY <2>2 DEF Lists
  <2>4. Queued' = Queued
    BY <2>1, <2>3, QueuedIs, QueuedThen
  <2> QED BY <2>1, <2>4, GraphStutters
<1> QED BY <1>1, <1>2, <1>3, <1>4, <1>5 DEF Finish

LEMMA BeginInGraph ==
    ASSUME "hooks" \notin Ops, PointersInv, PointersInv', WaitingInv,
           (\E lev \in 0..3 : GarbageCollect(lev)) \/ Protect
    PROVE  UNCHANGED Graph!vars
<1> USE DEF PointersInv
<1>1. CASE \E lev \in 0..3 : GarbageCollect(lev)
  <2>1. /\ resurrected' = {} /\ UNCHANGED <<registry, pending, calls, root>> /\ UNCHANGED heap
        /\ LispRuns \/ (Does("finalize") /\ "hooks" \in Ops)
    BY <1>1 DEF GarbageCollect
  <2>2. resurrected = {}
    BY <2>1 DEF LispRuns, Does, WaitingInv
  <2>3. Queued' = Queued
    BY <2>1, <2>2 DEF Queued
  <2> QED BY <2>1, <2>3, GraphStutters
<1>2. CASE Protect
  <2>1. /\ calls' = Append(calls, Frame("hooks", {}))
        /\ UNCHANGED <<kind, at, ref, root, weak, registry, resurrected, pending>>
    BY <1>2 DEF Protect
  <2> DEFINE n == Len(calls')
  <2>2. /\ DOMAIN calls' = DOMAIN calls \cup {n} /\ calls'[n].list = {}
        /\ \A i \in DOMAIN calls : calls'[i] = calls[i]
    BY <2>1, TopPushed, SMTT(60)
  <2> HIDE DEF n
  <2>3. Lists' = Lists
    BY <2>2 DEF Lists
  <2>4. Queued' = Queued
    BY <2>1, <2>3, QueuedIs, QueuedThen
  <2>5. GraphNow /\ GraphNow'
    BY GraphIs, GraphThen
  <2> QED BY <2>1, <2>4, <2>5 DEF GraphNow, Graph!vars
<1> QED BY <1>1, <1>2

(***************************************************************************)
(* A wave is a collection of the graph.                                    *)
(***************************************************************************)
LEMMA GraphReaches ==
    ASSUME NEW start, NEW K \in SUBSET Objs, start \subseteq K,
           \A p \in K : GraphRef[p] \in Objs => GraphRef[p] \in K
    PROVE  Graph!Reachable(start) \subseteq K
BY DEF Graph!Reachable

(* The objects outside from, and those of it that are in a set which a wave *)
(* would promote.                                                           *)
Survivors(from, T) == {o \in Objs : kind[o] # "free" /\ (at[o] = from => o \in T)}

LEMMA SurvivorsClosed ==
    ASSUME PointersInv, NEW from, NEW to, WaveSafe(from, to), NEW T \in SUBSET Objs,
           \A p \in T : Points(ref[p], from) => ref[p].obj \in T,
           \A a \in OldPointers(from) : Points(a, from) => a.obj \in T,
           NEW p \in Survivors(from, T), GraphRef[p] \in Objs
    PROVE  GraphRef[p] \in Survivors(from, T)
<1>1. GraphRef[p] = Obj(ref[p]) /\ p \in Objs /\ kind[p] # "free"
  BY GraphIs DEF GraphNow, Survivors
<1>2. ref[p] # Nil /\ GraphRef[p] = ref[p].obj
  BY <1>1, CopyAssumption DEF Obj
<1>3. ref[p].obj \in Objs /\ kind[ref[p].obj] # "free" /\ at[ref[p].obj] = ref[p].sp
  BY <1>1, <1>2, Places DEF PointersInv, Exists
<1>4. CASE ref[p].sp # from
  BY <1>2, <1>3, <1>4 DEF Survivors
<1>5. CASE ref[p].sp = from
  <2>1. Points(ref[p], from)
    BY <1>2, <1>5 DEF Points
  <2>2. CASE at[p] = from
    BY <1>2, <1>3, <2>1, <2>2 DEF Survivors
  <2>3. CASE at[p] # from
    <3>1. p \in Scanned(from)
      BY <1>1, <1>2, <1>5, <2>3 DEF WaveSafe, Exists
    <3>2. ref[p].obj \in T
      BY <2>1, <3>1 DEF OldPointers
    <3> QED BY <1>2, <1>3, <3>2 DEF Survivors
  <2> QED BY <2>2, <2>3
<1> QED BY <1>4, <1>5

(* The object of a valid pointer that is not into from, or into T, survives. *)
LEMMA SurvivesValid ==
    ASSUME NEW from, NEW T, NEW a \in Addr, Valid(a), a.sp = from => a.obj \in T
    PROVE  a.obj \in Survivors(from, T)
BY CopyAssumption DEF Valid, Addr, Survivors

(* The lists after a wave as the graph sees them.                           *)
LEMMA WaveEntries ==
    ASSUME PointersInv, OnceInv, NEW from, NEW to, WaveSafe(from, to),
           NEW died \in SUBSET registry, MoveLists(from, to, died)
    PROVE  /\ {Node(e) : e \in registry'}
                 = {Node(e) : e \in registry} \ {Node(e) : e \in died}
           /\ {Node(p) : p \in Queued'} = {Node(p) : p \in Queued} \cup {Node(e) : e \in died}
<1> DEFINE new == {[id |-> e.id, obj |-> e.obj, sp |-> e.sp] : e \in died}
<1>1. from \in Spaces /\ to \in Spaces /\ registry \subseteq Entry /\ Queued \subseteq Pair
  BY QueuedTypes DEF WaveSafe, PointersInv, TypeOK
<1>2. \A e \in registry : Node(Cell(Forward(e, from, to), from, to)) = Node(e)
  <2>1. ASSUME NEW e \in registry
        PROVE  Node(Cell(Forward(e, from, to), from, to)) = Node(e)
    <3>1. Forward(e, from, to) \in Entry /\ Forward(e, from, to).id = e.id
          /\ Forward(e, from, to).obj = e.obj
      BY <1>1 DEF Forward, Entry
    <3> DEFINE f == Forward(e, from, to)
    <3> HIDE DEF f
    <3>2. Node(Cell(f, from, to)) = [id |-> f.id, obj |-> f.obj]
      <4>1. f \in Entry
        BY <3>1 DEF f
      <4> QED BY <4>1 DEF Cell, Entry, Node
    <3> QED BY <3>1, <3>2 DEF f, Node
  <2> QED BY <2>1
<1>3. \A p \in Pair : Node(Forward(p, from, to)) = Node(p)
  BY <1>1 DEF Forward, Pair, Node
<1>4. {Node(e) : e \in registry'} = {Node(e) : e \in registry} \ {Node(e) : e \in died}
  <2>1. registry' = {Cell(Forward(e, from, to), from, to) : e \in registry \ died}
    BY DEF MoveLists
  <2>2. {Node(e) : e \in registry'} = {Node(e) : e \in registry \ died}
    BY <1>2, <2>1
  <2>3. \A d \in died, e \in registry \ died : Node(d) # Node(e)
    BY DEF OnceInv, Single, Node
  <2> QED BY <2>2, <2>3
<1>5. Lists' = ForwardAll(Lists, from, to)
  <2>1. \A i \in DOMAIN calls : calls'[i].list = ForwardAll(calls[i].list, from, to)
    BY DEF MoveLists, WaveSafe, Frame
  <2>2. DOMAIN calls' = DOMAIN calls
    BY DEF MoveLists
  <2>3. Lists' = UNION {calls'[i].list : i \in DOMAIN calls'}
    BY DEF Lists
  <2>4. \A q : q \in Lists' <=> \E i \in DOMAIN calls : q \in ForwardAll(calls[i].list, from, to)
    BY <2>1, <2>2, <2>3
  <2>5. \A q : q \in ForwardAll(Lists, from, to)
               <=> \E i \in DOMAIN calls : q \in ForwardAll(calls[i].list, from, to)
    BY DEF Lists, ForwardAll
  <2> QED BY <2>4, <2>5
<1>6. Queued' = ForwardAll(Queued \cup new, from, to)
  <2>1. /\ resurrected' = ForwardAll(resurrected, from, to) \cup ForwardAll(new, from, to)
        /\ pending' = ForwardAll(pending, from, to)
    BY DEF MoveLists
  <2> HIDE DEF new
  <2> QED BY <1>5, <2>1, QueuedIs, QueuedThen DEF ForwardAll
<1>7. new \subseteq Pair /\ {Node(p) : p \in new} = {Node(e) : e \in died}
  <2>1. ASSUME NEW e \in died
        PROVE  /\ [id |-> e.id, obj |-> e.obj, sp |-> e.sp] \in Pair
               /\ Node([id |-> e.id, obj |-> e.obj, sp |-> e.sp]) = Node(e)
    BY <1>1 DEF Entry, Pair, Node
  <2> DEFINE Plain(e) == [id |-> e.id, obj |-> e.obj, sp |-> e.sp]
  <2>2. new = {Plain(e) : e \in died} /\ \A e \in died : Plain(e) \in Pair /\ Node(Plain(e)) = Node(e)
    BY <2>1
  <2> HIDE DEF new, Plain
  <2> QED BY <2>2
<1> HIDE DEF new
<1>8. {Node(q) : q \in Queued'} = {Node(p) : p \in Queued \cup new}
  BY <1>1, <1>3, <1>6, <1>7 DEF ForwardAll
<1>9. {Node(p) : p \in Queued \cup new} = {Node(p) : p \in Queued} \cup {Node(p) : p \in new}
  OBVIOUS
<1> QED BY <1>4, <1>7, <1>8, <1>9

LEMMA WaveInGraph ==
    ASSUME PointersInv, PointersInv', OnceInv,
           NEW from, NEW to, WaveSafe(from, to), Promote(from, to)
    PROVE  Graph!Next
<1> USE DEF PointersInv
<1>0. GraphNow /\ GraphNow'
  BY GraphIs, GraphThen
<1>1. PICK kept, died : Evacuates(from, to, kept, died)
  BY PromoteIs
<1> DEFINE live == Live(from, kept)
           forwarded == Forwarded(from, kept, died)
           moved == Promoted(forwarded, from)
           dead == {o \in Objs : kind[o] # "free" /\ at[o] = from /\ o \notin moved}
           queued == {Node(e) : e \in died}
           cleared == {w \in Weaks : Points(weak[w].target, from)
                                     /\ weak[w].target.obj \notin forwarded}
           strong == (Graph!Values \ {Nil}) \cup {e.obj : e \in GraphQueue}
           saved == {e.obj : e \in queued}
<1>2. /\ died \in SUBSET registry
      /\ \A e \in died : e.sp = from /\ e.obj \notin live
      /\ \A e \in registry : e.sp = from /\ e.obj \notin live => \E d \in died : d.obj = e.obj
      /\ MoveObjects(from, to, moved) /\ MoveWeak(from, to, forwarded)
      /\ MoveLists(from, to, died)
      /\ root' = [r \in Roots |-> Update(root[r], from, to)]
  BY <1>1 DEF Evacuates, Dead
<1>3. from \in Spaces /\ to \in Spaces /\ from # to /\ registry \subseteq Entry
  BY DEF WaveSafe, TypeOK
<1>4. live \subseteq forwarded /\ forwarded \subseteq moved /\ moved \subseteq Objs
      /\ \A e \in died : e.obj \in forwarded
  <2>1. live \subseteq forwarded /\ live \subseteq Objs /\ forwarded \subseteq Objs
        /\ \A e \in died : e.obj \in forwarded
    BY <1>2, <1>3 DEF Live, Promoted, Forwarded, Entry
  <2> HIDE DEF forwarded, live
  <2>2. forwarded \subseteq moved /\ moved \subseteq Objs
    BY <2>1, PromotedContains
  <2> QED BY <2>1, <2>2
<1>5. \A a \in Strong(from, kept) : a \in Addr /\ Points(a, from) => a.obj \in live
  <2> DEFINE start == {a.obj : a \in {b \in Strong(from, kept) : Points(b, from)}}
  <2>1. start \cap Objs \subseteq live
    BY DEF Live, Promoted
  <2> QED BY <2>1 DEF Addr
<1>6. \A a \in OldPointers(from) : Points(a, from) => a.obj \in live
  <2>1. \A a \in OldPointers(from) : a \in Addr \cup {Nil}
    BY PointerTypes DEF OldPointers, TypeOK, Scanned
  <2> QED BY <1>5, <2>1 DEF Strong, Points
<1>7. Queued = RootPairs
  BY DEF Queued, RootPairs, WaveSafe
<1>8. \A e \in registry : e.sp = from => e.obj \in moved
  BY <1>2, <1>4
<1>9. /\ \A p \in live : Points(ref[p], from) => ref[p].obj \in live
      /\ \A p \in moved : Points(ref[p], from) => ref[p].obj \in moved
  <2>1. \A p \in live : p \in Objs
    BY <1>4
  <2>2. \A p \in Objs : Points(ref[p], from) => ref[p].obj \in Objs
    BY Places DEF Points
  <2> HIDE DEF forwarded
  <2> QED BY <1>4, <2>1, <2>2, PromotedClosed DEF Live
<1>10. Graph!Reachable(strong) \subseteq Survivors(from, live)
  <2>1. \A r \in Roots : GraphRoot[r] # Nil => GraphRoot[r] \in Survivors(from, live)
    <3>1. ASSUME NEW r \in Roots, GraphRoot[r] # Nil
          PROVE  GraphRoot[r] \in Survivors(from, live)
      <4>1. root[r] # Nil /\ GraphRoot[r] = root[r].obj
        BY <1>0, <3>1 DEF GraphNow, Obj
      <4>2. root[r] \in Addr /\ Valid(root[r])
        BY <4>1 DEF TypeOK, ValidInv
      <4>3. root[r].sp = from => root[r].obj \in live
        BY <1>5, <4>1, <4>2 DEF Strong, RootPointers, Points
      <4> HIDE DEF live
      <4> QED BY <4>1, <4>2, <4>3, SurvivesValid
    <3> QED BY <3>1
  <2>2. \A p \in Queued : p.obj \in Survivors(from, live)
    <3>1. ASSUME NEW p \in Queued
          PROVE  p.obj \in Survivors(from, live)
      <4>1. Pointer(p) \in Addr /\ Pointer(p) # Nil /\ Valid(Pointer(p))
            /\ Pointer(p).obj = p.obj /\ Pointer(p).sp = p.sp
        BY QueuedTypes, PointerTypes
      <4>2. Pointer(p).sp = from => Pointer(p).obj \in live
        BY <1>5, <1>7, <4>1 DEF Strong, RootPointers, Points
      <4> HIDE DEF live
      <4> QED BY <4>1, <4>2, SurvivesValid
    <3> QED BY <3>1
  <2>3. strong \subseteq Survivors(from, live)
    <3>1. \A e \in GraphQueue : e.obj \in Survivors(from, live)
      BY <1>0, <2>2 DEF GraphNow, Node
    <3> QED BY <2>1, <3>1 DEF Graph!Values
  <2>4. live \in SUBSET Objs
    BY <1>4
  <2> HIDE DEF live, strong
  <2>5. \A p \in Survivors(from, live) :
           GraphRef[p] \in Objs => GraphRef[p] \in Survivors(from, live)
    BY <1>6, <1>9, <2>4, SurvivorsClosed
  <2> QED BY <2>3, <2>5, GraphReaches DEF Survivors
<1>11. Graph!Reachable(saved) \subseteq Survivors(from, moved)
  <2>1. \A e \in died : e.obj \in Survivors(from, moved)
    <3>1. ASSUME NEW e \in died
          PROVE  e.obj \in Survivors(from, moved)
      <4>1. Pointer(e) \in Addr /\ Pointer(e).obj = e.obj /\ Valid(Pointer(e))
        BY <1>2, <1>3, PointerTypes DEF ValidInv
      <4>2. Pointer(e).obj \in moved
        BY <1>4, <4>1
      <4> HIDE DEF moved
      <4> QED BY <4>1, <4>2, SurvivesValid
    <3> QED BY <3>1
  <2>2. saved \subseteq Survivors(from, moved)
    BY <2>1 DEF Node
  <2>3. \A a \in OldPointers(from) : Points(a, from) => a.obj \in moved
    BY <1>4, <1>6
  <2> HIDE DEF moved, saved
  <2>4. \A p \in Survivors(from, moved) :
           GraphRef[p] \in Objs => GraphRef[p] \in Survivors(from, moved)
    BY <1>4, <1>9, <2>3, SurvivorsClosed
  <2> QED BY <2>2, <2>4, GraphReaches DEF Survivors
<1>12. dead \cap (Graph!Reachable(strong) \cup Graph!Reachable(saved)) = {}
  BY <1>4, <1>10, <1>11 DEF Survivors
<1>13. \A e \in queued : e.obj \notin Graph!Reachable(strong)
  <2>1. ASSUME NEW e \in died
        PROVE  e.obj \notin Survivors(from, live)
    <3>1. Pointer(e) \in Addr /\ Pointer(e) # Nil /\ Pointer(e).obj = e.obj
          /\ Pointer(e).sp = e.sp /\ Valid(Pointer(e))
      BY <1>2, <1>3, PointerTypes DEF ValidInv
    <3> QED BY <1>2, <3>1 DEF Valid, Survivors
  <2> QED BY <1>10, <2>1 DEF Node
<1>14. \A e \in GraphRegistry \ queued : e.obj \notin dead
  <2>1. ASSUME NEW e \in registry
        PROVE  e.obj \notin dead
    <3>1. Pointer(e) # Nil /\ Pointer(e).obj = e.obj /\ Pointer(e).sp = e.sp
          /\ Valid(Pointer(e))
      BY <1>3, PointerTypes DEF ValidInv
    <3> QED BY <1>8, <3>1 DEF Valid
  <2> QED BY <1>0, <2>1 DEF GraphNow, Node
<1>15. \A w \in Weaks : /\ GraphWeak[w] = Obj(weak[w].target)
                        /\ weak[w].target \in Addr \cup {Nil} /\ Valid(weak[w].target)
  BY <1>0 DEF GraphNow, TypeOK, ValidInv
<1>16. \A w \in cleared : GraphWeak[w] \notin Graph!Reachable(strong)
  <2>1. ASSUME NEW w \in cleared
        PROVE  GraphWeak[w] \notin Survivors(from, live)
    BY <1>4, <1>15 DEF Points, Obj, Valid, Survivors
  <2> QED BY <1>10, <2>1
<1>17. \A w \in Weaks \ cleared : GraphWeak[w] \notin dead
  BY <1>4, <1>15, CopyAssumption DEF Points, Obj, Valid
<1>18. GraphAlive' = GraphAlive \ dead /\ dead \subseteq GraphAlive
  BY <1>0, <1>2 DEF GraphNow, MoveObjects
<1>19. \A a \in Addr \cup {Nil} : Obj(Update(a, from, to)) = Obj(a)
  BY <1>3, ForwardTypes, CopyAssumption DEF Obj, Update
<1>20. GraphRef' = [o \in Objs |-> IF o \in dead THEN Nil ELSE GraphRef[o]]
  <2>1. ASSUME NEW o \in Objs
        PROVE  Obj(ref'[o]) = IF o \in dead THEN Nil ELSE Obj(ref[o])
    <3>1. Object(o, from, to) /\ ref[o] \in Addr \cup {Nil}
      BY WaveFollows DEF TypeOK
    <3>2. Obj(Nil) = Nil
      BY DEF Obj
    <3>3. CASE o \in dead
      BY <1>2, <3>2, <3>3 DEF MoveObjects
    <3>4. CASE kind[o] = "free"
      <4>1. ref[o] = Nil /\ kind'[o] = "free"
        BY <1>2, <3>4 DEF ValidInv, Exists, MoveObjects
      <4> QED BY <3>1, <3>2, <3>4, <4>1 DEF Object
    <3>5. CASE kind[o] # "free" /\ o \notin dead
      <4>1. kind'[o] # "free"
        BY <1>2, <3>5 DEF MoveObjects
      <4> QED BY <1>19, <3>1, <3>5, <4>1 DEF Object
    <3> QED BY <3>3, <3>4, <3>5
  <2> HIDE DEF dead
  <2> QED BY <1>0, <2>1 DEF GraphNow
<1>21. GraphWeak' = [w \in Weaks |-> IF w \in cleared THEN Nil ELSE GraphWeak[w]]
  <2>1. ASSUME NEW w \in Weaks
        PROVE  Obj(weak'[w].target) = IF w \in cleared THEN Nil ELSE GraphWeak[w]
    <3>1. weak'[w].target = IF w \in cleared THEN Nil ELSE Update(weak[w].target, from, to)
      BY <1>2 DEF MoveWeak
    <3>2. Obj(Nil) = Nil
      BY DEF Obj
    <3> HIDE DEF cleared
    <3> QED BY <1>15, <1>19, <3>1, <3>2
  <2> HIDE DEF cleared
  <2> QED BY <1>0, <2>1 DEF GraphNow
<1>22. GraphRoot' = GraphRoot
  BY <1>0, <1>2, <1>19 DEF GraphNow, TypeOK
<1>23. /\ GraphRegistry' = GraphRegistry \ queued /\ queued \subseteq GraphRegistry
       /\ GraphQueue' = GraphQueue \cup queued
  <2>1. queued \subseteq {Node(e) : e \in registry}
    BY <1>2
  <2> QED BY <1>0, <1>2, <2>1, WaveEntries DEF GraphNow
<1> HIDE DEF live, forwarded, moved, dead, queued, cleared
<1>24. Graph!Collect(dead, queued, cleared)
  BY <1>12, <1>13, <1>14, <1>16, <1>17, <1>18, <1>20, <1>21, <1>22, <1>23 DEF Graph!Collect
<1>25. cleared \subseteq Weaks
  BY DEF cleared
<1> QED BY <1>18, <1>23, <1>24, <1>25 DEF Graph!Next

(* What the graph rests on.                                                 *)
GraphInv == PointersInv /\ OnceInv /\ WaitingInv

LEMMA GraphStep ==
    ASSUME "hooks" \notin Ops, GraphInv, PointersInv', [Next]_vars
    PROVE  [Graph!Next]_Graph!vars
<1> USE DEF GraphInv
<1>1. CASE Mutate
  BY <1>1, MutateInGraph
<1>2. CASE (\E lev \in 0..3 : GarbageCollect(lev)) \/ Protect
  BY <1>2, BeginInGraph
<1>3. CASE Wave1
  <2>1. Promote("E1", "E2")
    BY <1>3 DEF Wave1
  <2> QED BY <1>3, <2>1, Wave1Safe, WaveInGraph
<1>4. CASE Wave2
  <2>1. Promote("E2", L1)
    BY <1>4 DEF Wave2
  <2> QED BY <1>4, <2>1, Wave2Safe, WaveInGraph
<1>5. CASE Wave3
  <2>1. Promote(L1, L1')
    BY <1>5 DEF Wave3
  <2> QED BY <1>5, <2>1, Wave3Safe, WaveInGraph
<1>6. CASE Finish
  BY <1>6, FinishInGraph
<1>7. CASE UNCHANGED vars
  <2>1. /\ UNCHANGED registry /\ UNCHANGED root /\ UNCHANGED heap
        /\ UNCHANGED <<resurrected, pending, calls>>
    BY <1>7 DEF vars, heap
  <2>2. Queued' = Queued
    BY <2>1 DEF Queued
  <2> QED BY <2>1, <2>2, GraphStutters
<1> QED BY <1>1, <1>2, <1>3, <1>4, <1>5, <1>6, <1>7 DEF Next

LEMMA GraphInit == Init => Graph!Init
<1> SUFFICES ASSUME Init
             PROVE  Graph!Init
  OBVIOUS
<1>1. PointersInv
  BY DEF Init, PointersInv, TypeOK, PhaseInv, AgeInv, ValidInv, Valid, Exists, PointsTo, Spaces
<1>2. GraphNow
  BY <1>1, GraphIs
<1>3. Queued = {} /\ registry = {}
  BY DEF Init, Queued
<1>4. GraphAlive = {} /\ GraphRegistry = {} /\ GraphQueue = {}
  BY <1>2, <1>3 DEF GraphNow, Init
<1>5. /\ GraphRef = [o \in Objs |-> Nil] /\ GraphRoot = [r \in Roots |-> Nil]
      /\ GraphWeak = [w \in Weaks |-> Nil]
  BY <1>2 DEF GraphNow, Init, Obj
<1> QED BY <1>4, <1>5 DEF Graph!Init

(* Generations, semispaces, protected pages and forwarding do not show: what *)
(* the program sees is a graph from which only objects that it cannot reach *)
(* go, in which only weak pointers to such objects are cleared and only      *)
(* finalizers of such objects are queued, once each.                        *)
THEOREM CollectorKeepsGraph ==
    ASSUME Ops \cap {"setInfo", "hooks"} = {}
    PROVE  Spec => ImplementsGraph
<1>1. "hooks" \notin Ops
  OBVIOUS
<1>2. Init => OnceInv /\ WaitingInv /\ Graph!Init
  BY FinalizersFirst, GraphInit DEF Init, WaitingInv
<1>3. PointersInv /\ OnceInv /\ WaitingInv /\ [Next]_vars => OnceInv' /\ WaitingInv'
  BY <1>1, OnceStep, KeptStep DEF PointersInv
<1>4. GraphInv /\ PointersInv' /\ [Next]_vars => [Graph!Next]_Graph!vars
  BY <1>1, GraphStep
<1> QED BY <1>2, <1>3, <1>4, PointersAlwaysValid, PTL DEF Spec, GraphInv, ImplementsGraph, Graph!Spec
=============================================================================
